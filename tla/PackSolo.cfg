SPECIFICATION Spec
CONSTANTS
    p1 = p1  p2 = p2  a = a  b = b  v1 = v1  v2 = v2  x = x  y = y
    Proc = {p1}
    Pack = {a, b}
    Version = {v1, v2}
    Path = {x, y}
    Targets <- TwoPacks
    Ignored = {}
    None = None
    Corrupt = Corrupt
    Interleave = FALSE
    MaxEdits = 2
    MaxCrashes = 1
INVARIANTS
    TypeOK
    NoPartialRefusal
PROPERTIES
    ForeignUntouched
    TailPreserveSurvives
    EntriesFaithful
