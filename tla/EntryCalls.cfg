\* A hot-added entry without self-heal: one goroutine starting and replacing it,
\* two stopping and unregistering it.
SPECIFICATION LedgerSpec
CONSTANTS
    Starters = {s1}
    Stoppers = {t1, t2}
    StartKinds = {"start", "replace"}
    StopKinds = {"stop", "unregister"}
    Deadlines = {FALSE, TRUE}
    SelfHeal = FALSE
    MaxRetries = 0
    ResetAfter = FALSE
    StartTimeout = TRUE
    StopTimeout = TRUE
    Shutdowns = {}
    Launched = FALSE
    MaxInstances = 2
SYMMETRY StopperSymmetry
INVARIANTS
    TypeOK
    ReservationExclusive
    WaitGroupBalanced
    StopMeansExited
    RunningKeepsOwner
    RunningIsAlive
    StopsCountedOnce
PROPERTIES
    SlotSpec
\* A started orchestrator may be idle for ever: nobody has to call anything.
CHECK_DEADLOCK FALSE
