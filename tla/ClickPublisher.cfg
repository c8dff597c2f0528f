SPECIFICATION FairSpec
CONSTANTS
    Contexts = {c1, c2}
    Visitors = {v1, v2}
    Capacity = 1
    None = None
INVARIANTS DrainedAtExit PanicOnlyAfterTimeout
PROPERTIES RedirectNeverWaits ShutdownEnds
CHECK_DEADLOCK FALSE
