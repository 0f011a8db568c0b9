SPECIFICATION FairSpec
CONSTANTS
    Plugins <- SomePlugins
    Missing = {gone}
    Requested = {"semantic", "drift"}
    None = None
INVARIANTS
    TypeOK
    VerdictHonest
PROPERTIES
    OneOutcomeEach
    PhaseEnds
CHECK_DEADLOCK FALSE
