SPECIFICATION Spec
CONSTANTS
    s1 = s1  r1 = r1
    name = name  rule = rule  skill = skill
    na = na  nb = nb  nc = nc  ra = ra  rb = rb  ka = ka
    Anchor = {name}
    Item = {rule, skill}
    Contents <- SmallContents
    Absent = Absent
    Backend <- Backends
    Skill = {s1}
    Rule = {r1}
    Override <- Overrides
    None = None
    Words = {"plain", "special", "quote", "comment", "overlong"}
    Scopes = {"quote"}
    MaxWrites = 1
    MaxConversions = 2
    MaxWraps = 2
INVARIANTS
    TranslationTypes
    MergeTypes
    AppliedCounts
    MergeFaithful
    LossesForeseen
PROPERTIES
    Arrives
    OthersUntouched
CHECK_DEADLOCK FALSE
