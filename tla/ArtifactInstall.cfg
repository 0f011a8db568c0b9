SPECIFICATION Spec
CONSTANTS
    p1 = p1  p2 = p2  pl = pl  m = m  n = n  k1 = k1
    first = first  second = second  bare = bare  bent = bent  doc1 = doc1  odd = odd
    Proc = {p1, p2}
    Artifact = {first, second, bare, bent, doc1, odd}
    Id = {pl}
    Version = {1, 2, 3}
    File = {m, n}
    Key = {k1}
    About <- SmallAbout
    IndexKey = k1
    Jobs <- SmallJobs
    None = None
    Corrupt = Corrupt
    MaxPublish = 2
    MaxStarts = 3
    MaxFaults = 1
SYMMETRY ProcSymmetry
INVARIANTS
    TypeOK
    OnlyVetted
    NeverMixed
    SwapClean
CHECK_DEADLOCK FALSE
