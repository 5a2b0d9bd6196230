\* One starter, two stoppers and a registrar; db and job are the group.
SPECIFICATION Spec
CONSTANTS
    db = db
    db2 = db2
    api = api
    job = job
    None = None
    Entries = {db, db2, api, job}
    Name <- Name1
    Hard <- Hard1
    Soft <- Soft1
    Grouped = {db, job}
    Gates = {job}
    Launched = {db, api}
    Starters = {s1}
    p1 = p1
    p2 = p2
    Stoppers = {p1, p2}
    Registrars = {r1}
    Modes = {"plain", "cascade", "orphans"}
SYMMETRY Symmetry
CHECK_DEADLOCK FALSE
INVARIANTS
    TypeOK
    ReservationsHeld
    OneInstance
    TeardownHolds
    OrderedStop
    OrderedStart
    Acyclic
