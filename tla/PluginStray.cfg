SPECIFICATION Spec
CONSTANTS
    Plugins <- SomePlugins
    Missing = {gone}
    Requested = {"semantic", "drift"}
    None = None
INVARIANTS
    IsolatedContained
CHECK_DEADLOCK FALSE
