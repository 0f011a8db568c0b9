SPECIFICATION FairSpec
CONSTANTS
    r1 = r1
    r2 = r2
    rule = rule
    skill = skill
    sound = sound
    broken = broken
    secret = secret
    vague = vague
    citing = citing
    source = source
    Run = {r1, r2}
    File = {rule}
    Text = {sound, vague}
    Broken = {}
    Secret = {}
    Vague = {vague}
    Cites <- NoCites
    Member = {}
    Scope <- NoScope
    Levels = {"structural"}
    MaxFiles = 2
    None = None
    Unreadable = Unreadable
    Interleave = TRUE
    MaxEdits = 1
    MaxKills = 0

INVARIANT StampedHash
PROPERTY Answered
