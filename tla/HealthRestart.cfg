\* A self-heal entry whose second instance is ill, probed while it crashes,
\* restarts, runs out of retries and is started again.
SPECIFICATION HealthFairSpec
CONSTANTS
    Starters = {s1}
    Stoppers = {}
    StartKinds = {"start"}
    StopKinds = {"stop"}
    Deadlines = {FALSE}
    SelfHeal = TRUE
    MaxRetries = 1
    ResetAfter = FALSE
    StartTimeout = FALSE
    StopTimeout = FALSE
    Shutdowns = {}
    Launched = TRUE
    MaxInstances = 3
    Threshold = 2
    Sick <- SecondSick
INVARIANTS
    AtMostOneInstance
    RetriesBounded
PROPERTIES
    SickIsRestarted
\* A started orchestrator may be idle for ever: nobody has to call anything.
CHECK_DEADLOCK FALSE
