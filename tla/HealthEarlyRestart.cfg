\* Failed probes of one instance count against the next.
SPECIFICATION HealthSpec
CONSTANTS
    Starters = {s1}
    Stoppers = {}
    StartKinds = {"start"}
    StopKinds = {"stop"}
    Deadlines = {FALSE}
    SelfHeal = TRUE
    MaxRetries = 1
    ResetAfter = FALSE
    StartTimeout = FALSE
    StopTimeout = FALSE
    Shutdowns = {}
    Launched = TRUE
    MaxInstances = 3
    Threshold = 2
    Sick <- SecondSick
INVARIANTS
    RestartStartsOver
\* A started orchestrator may be idle for ever: nobody has to call anything.
CHECK_DEADLOCK FALSE
