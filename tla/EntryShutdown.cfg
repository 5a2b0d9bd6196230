\* A running self-heal entry, stopped by itself and with the orchestrator.
SPECIFICATION LedgerFairSpec
CONSTANTS
    Starters = {}
    Stoppers = {t1}
    StartKinds = {"start"}
    StopKinds = {"stop"}
    Deadlines = {FALSE}
    SelfHeal = TRUE
    MaxRetries = 1
    ResetAfter = FALSE
    StartTimeout = FALSE
    StopTimeout = FALSE
    Shutdowns = {FALSE, TRUE}
    Launched = TRUE
    MaxInstances = 2
INVARIANTS
    ShutdownMeansExited
    StopsCountedOnce
PROPERTIES
    CallsReturn
    ShutdownReturns
\* A started orchestrator may be idle for ever: nobody has to call anything.
CHECK_DEADLOCK FALSE
