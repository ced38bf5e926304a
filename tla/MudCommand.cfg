CONSTANTS
    N = 3
    Nil = Nil
    ConfigComps = {1, 2}
    Deps <- MCDeps
    Flags <- MCFlags
    FromString <- MCFromString
    Commands <- MCCommands
SPECIFICATION Spec
INVARIANT ClosedInReverseOrder
INVARIANT CleanupComplete
PROPERTY ReturnsOnceCancelled
\* Execute returns and every goroutine ends: the process may stop there.
CHECK_DEADLOCK FALSE
