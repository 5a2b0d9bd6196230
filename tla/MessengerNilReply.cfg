\* A request whose owner is drained while it waits.
SPECIFICATION Spec
CONSTANTS
    Root = Root
    o1 = o1
    c1 = c1
    r1 = r1
    r2 = r2
    owner <- Views1
    Owners = {o1}
    Subs = {c1}
    Requesters = {r1, r2}
    Capacity = 1
CHECK_DEADLOCK FALSE
INVARIANTS
    NoNilReply
