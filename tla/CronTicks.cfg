\* A cron entry of every mode, two overlapping ticks, two schedules, every
\* membership call and Orchestrator.Stop, with and without deadlines.
SPECIFICATION FairSpec
CONSTANTS
    Ticks = {k1, k2}
    Modes = {"parallel", "queue", "skip"}
    Kinds = {"start", "stop", "unregister", "replace"}
    Deadlines = {FALSE, TRUE}
    Shutdowns = {FALSE}
    Stubborn = {}
    MaxGenerations = 2
INVARIANTS
    TypeOK
    ActiveBalanced
    StopMeansDrained
    OneTickAtATime
    TicksFollowSchedule
    NothingLeftBehind
PROPERTIES
    EveryCallReturns
\* A started orchestrator may be idle for ever: nobody has to call anything.
CHECK_DEADLOCK FALSE
