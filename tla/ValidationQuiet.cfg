SPECIFICATION Spec
CONSTANTS
    r1 = r1
    r2 = r2
    rule = rule
    skill = skill
    sound = sound
    broken = broken
    secret = secret
    vague = vague
    citing = citing
    source = source
    Run = {r1, r2}
    File = {rule, skill}
    Text = {secret, citing}
    Broken = {}
    Secret = {secret}
    Vague = {secret}
    Cites <- CitesSkill
    Member = {source}
    Scope <- ScopeSource
    Levels = {"all"}
    MaxFiles = 2
    None = None
    Unreadable = Unreadable
    Interleave = FALSE
    MaxEdits = 1
    MaxKills = 1
SYMMETRY RunSymmetry
INVARIANT TypeOK
INVARIANT StructuralTruth
INVARIANT SemanticTruth
