\* A plain stop of db while api is on its way up.
SPECIFICATION Spec
CONSTANTS
    db = db
    db2 = db2
    api = api
    job = job
    None = None
    Entries = {db, db2, api, job}
    Name <- Name1
    Hard <- Hard1
    Soft <- Soft1
    Grouped = {db, job}
    Gates = {job}
    Launched = {db, api}
    Starters = {s1}
    Stoppers = {p1}
    Registrars = {}
    Modes = {"plain"}
CHECK_DEADLOCK FALSE
INVARIANT PlainStopSpares
