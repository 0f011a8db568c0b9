SPECIFICATION FairSpec
CONSTANTS
    None = None
    Unset = Unset
    Nothing = Nothing
    Blank = Blank
    v1 = v1  v2 = v2  v3 = v3
    Run = {v1, v2, v3}
    MaxEdits = 2
    MaxRequests = 2
    MaxFaults = 1
    Unreadable = Unreadable
    Null = Null
    f1 = f1
    f2 = f2
    f3 = f3
    r1 = r1
    r2 = r2
    n1 = n1
    n2 = n2
    n3 = n3
    m1 = m1
    m2 = m2
    Malformed = Malformed
    Checks <- MCChecks
    Order <- MCOrder
    RuleOrder <- MCRuleOrder
    RuleFiles <- MCRuleFiles
    Repositories <- MCRepositories
    MaxFiles = 2
    MaxBytes = 3
    MaxSize = 2
    MaxDepth = 3
    MaxChildren = 2
    MaxChanges = 1
    Documents <- MCDocuments
    Fresh = {"new", "newer"}
    Nodes <- MCNodes
    Graphs <- MCGraphs
    Memories = {m1, m2}
    Limits <- MCLimits
    Persistent = Persistent
    Gone = Gone
    MaxTime = 3
CHECK_DEADLOCK FALSE
INVARIANT Enforced
INVARIANT CyclesReported
INVARIANT CleanupMatchesAudit
INVARIANT FeedbackTypes
PROPERTY EndsClean
PROPERTY ShowsTruth
PROPERTY ComesToRest
