\* Stop called while a Start is failing.
SPECIFICATION Spec
CONSTANTS
    gate = gate
    db = db
    api = api
    tick = tick
    Starters = {s1, s2}
    Stoppers = {p1}
    Entries = {gate, db, api, tick}
    Crons = {tick}
    Gates = {gate}
    Deps <- Deps1
    Deadlines = {TRUE, FALSE}
    RollbackTimeout = TRUE
    MayTime = {api}
    Overlap = TRUE
    MaxAttempts = 2
    RetryLost = FALSE
INVARIANTS
    NoPanic
\* An orchestrator that was stopped stays so, and one may never be stopped.
CHECK_DEADLOCK FALSE
