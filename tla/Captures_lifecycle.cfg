CONSTANTS
    r1 = r1  r2 = r2  a1 = a1  a2 = a2  n1 = n1  n2 = n2  w1 = w1  w2 = w2
    Requests = {r1, r2}
    Atts = {a1, a2}
    Notes = {n1, n2}
    Words = {w1, w2, blank}
    Blank = blank
    None = None
    MaxTranscripts = 2
    MaxRequests = 5
    MaxFaults = 1
SPECIFICATION Spec
SYMMETRY Symmetry
INVARIANTS MemoryStands OnlyMemory NoteIsCapture FilesMatch
PROPERTY TranscriptKept
CHECK_DEADLOCK FALSE
