CONSTANTS
    t1 = t1  t2 = t2  note = note  clip = clip
    Tabs = {t1, t2}
    Items = {note, clip}
    Audio = {clip}
    None = None
    MaxOps = 5
    MaxFaults = 2
SPECIFICATION Spec
SYMMETRY Symmetry
INVARIANTS KeptOnce NoStrandedBlob
PROPERTIES ImplementsDeliveryLedger
CHECK_DEADLOCK FALSE
