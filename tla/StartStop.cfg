\* Two starters and a stopper that calls once no Start is in progress; a
\* rollback with a deadline, a Stop with one and without.
SPECIFICATION Spec
CONSTANTS
    gate = gate
    db = db
    api = api
    tick = tick
    Starters = {s1, s2}
    Stoppers = {p1}
    Entries = {gate, db, api, tick}
    Crons = {tick}
    Gates = {gate}
    Deps <- Deps1
    Deadlines = {TRUE, FALSE}
    RollbackTimeout = TRUE
    MayTime = {api}
    Overlap = FALSE
    MaxAttempts = 2
    RetryLost = FALSE
INVARIANTS
    TypeOK
    NoPanic
PROPERTIES
    LifecycleSpec
    OrderKept
    LifecycleReturns
\* An orchestrator that was stopped stays so, and one may never be stopped.
CHECK_DEADLOCK FALSE
