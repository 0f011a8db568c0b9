SPECIFICATION Spec
CONSTANTS
    rule = rule  skill = skill  w1 = w1
    File = {rule, skill}
    Marked = {rule}
    Skill = {skill}
    Ignored = {}
    Text = {t1}
    t1 = t1
    Project = {p1, p2}
    p1 = p1  p2 = p2
    Facts <- AllFacts
    Evidence <- AllEvidence
    r1 = r1
    Serialized = Serialized
    Authored = Authored
    Framework = {w1}
    Template <- AllTemplates
    Packs = {generic}
    generic = generic
    Generic = generic
    PackOf <- NoSpecialPack
    LanguagePack <- NoLanguagePack
    Features = {}
    Proc = {a, b}
    a = a  b = b
    None = None
    Corrupt = Corrupt
    MaxCommands = 2
    MaxEdits = 1
    MaxChanges = 1
INVARIANTS
    TypeOK
    PreserveKept
    ManagedIsOurs
    DriftSeen
PROPERTIES
    RecordsKept
SYMMETRY Symmetry
CHECK_DEADLOCK FALSE
