SPECIFICATION FairSpec
CONSTANTS
    p1 = p1  p2 = p2  a = a  b = b  v1 = v1  v2 = v2  x = x  y = y
    Proc = {p1, p2}
    Pack = {a}
    Version = {v1}
    Path = {x, y}
    Targets <- OnePack
    Ignored = {y}
    None = None
    Corrupt = Corrupt
    Interleave = TRUE
    MaxEdits = 1
    MaxCrashes = 0
INVARIANTS
    LockSound
PROPERTIES
    CommandsEnd
