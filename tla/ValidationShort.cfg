SPECIFICATION Spec
CONSTANTS
    r1 = r1
    r2 = r2
    rule = rule
    skill = skill
    sound = sound
    broken = broken
    secret = secret
    vague = vague
    citing = citing
    source = source
    Run = {r1}
    File = {rule}
    Text = {sound, broken, secret, vague}
    Broken = {broken}
    Secret = {secret}
    Vague = {vague}
    Cites <- NoCites
    Member = {}
    Scope <- NoScope
    Levels = {"structural", "all"}
    MaxFiles = 2
    None = None
    Unreadable = Unreadable
    Interleave = FALSE
    MaxEdits = 2
    MaxKills = 1
INVARIANT ShortCircuits
