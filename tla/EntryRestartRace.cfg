\* StopService of a self-heal entry whose backoff is just over.
SPECIFICATION LedgerSpec
CONSTANTS
    Starters = {}
    Stoppers = {t1}
    StartKinds = {"start"}
    StopKinds = {"stop"}
    Deadlines = {FALSE}
    SelfHeal = TRUE
    MaxRetries = 2
    ResetAfter = FALSE
    StartTimeout = FALSE
    StopTimeout = FALSE
    Shutdowns = {}
    Launched = TRUE
    MaxInstances = 2
INVARIANTS
    StopMeansExited
\* A started orchestrator may be idle for ever: nobody has to call anything.
CHECK_DEADLOCK FALSE
