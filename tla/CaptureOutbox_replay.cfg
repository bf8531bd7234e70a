CONSTANTS
    t1 = t1  t2 = t2  note = note  clip = clip
    Tabs = {t1}
    Items = {note, clip}
    Audio = {clip}
    None = None
    MaxOps = 3
    MaxFaults = 1
SPECIFICATION Spec
PROPERTY ReplayAnswered
CHECK_DEADLOCK FALSE
