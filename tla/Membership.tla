------------------------------- MODULE Membership -------------------------------
(***************************************************************************)
(* The registry of a started orchestrator: several entries tied by hard and *)
(* soft dependencies, one group, and the goroutines that register, start,  *)
(* stop and remove them one by one or as the group.                        *)
(*                                                                         *)
(* Every registration attempt is an entry of its own, so that registering  *)
(* a name again after its Unregister is another entry of that name.  What  *)
(* happens inside one start or one stop is the subject of EntryLifecycle;  *)
(* here a start is claim, commit of Starting, launch and, for a runOnce    *)
(* gate, its end; a stop is its beginning and its end.  A call that is     *)
(* rejected before it reserves anything changes nothing and is no action.  *)
(* Whole-orchestrator Stop, ReplaceService, self-heal and cron schedules   *)
(* are not part of this module.                                            *)
(***************************************************************************)
EXTENDS Integers, FiniteSets

CONSTANTS
    Entries,      \* registrations ever attempted
    Name,         \* the name each of them asks for
    Hard, Soft,   \* the names it depends on (DependsOn, DependsOnSoft)
    Grouped,      \* the entries tagged with the group
    Gates,        \* the runOnce entries; the others are persistent
    Launched,     \* the entries Orchestrator.Start registered and started
    Starters,     \* goroutines that call StartService / StartGroup
    Stoppers,     \* goroutines that call StopService / Unregister / StopGroup /
                  \* UnregisterGroup
    Registrars,   \* goroutines that call Register
    Modes,        \* options of the stops: subset of {"plain", "cascade", "orphans"}
    None          \* no entry

Names   == {Name[e] : e \in Entries}
Deps(e) == Hard[e] \cup Soft[e]

ASSUME MembershipAssumption ==
    /\ IsFiniteSet(Entries) /\ None \notin Entries
    /\ Name \in [Entries -> Names]
    /\ DOMAIN Hard = Entries /\ DOMAIN Soft = Entries
    /\ Grouped \subseteq Entries /\ Gates \subseteq Entries
    /\ Launched \subseteq Entries \ Gates
    /\ Starters \cap Stoppers = {}
    /\ (Starters \cup Stoppers) \cap Registrars = {}
    /\ Modes \subseteq {"plain", "cascade", "orphans"}

VARIABLES
    registered,   \* o.entries and o.nameIndex
    removed,      \* entry.removed
    starting,     \* entry.starting
    removing,     \* entry.removing
    status,       \* entry.status
    instances,    \* instance goroutines that have not exited
    torn,         \* the entry's teardown context is cancelled
    pc, call      \* the calls: program counter and local variables

regVars  == <<registered, removed>>
flagVars == <<starting, removing>>
runVars  == <<status, instances, torn>>
callVars == <<pc, call>>
vars     == <<regVars, flagVars, runVars, callVars>>

Callers  == Starters \cup Stoppers \cup Registrars
Statuses == {"Registered", "Starting", "Running", "Stopping", "Stopped",
             "Crashed", "Succeeded"}
Active   == {"Starting", "Running"}

Pcs == {"idle", "commit", "start", "launch", "gate", "rollback", "stop", "release"}
CallRecords ==
    [kind : {"none", "start", "startgroup", "stop", "unregister", "stopgroup",
             "unregistergroup", "register"},
     target : Entries \cup {None},    \* what the caller named
     entry : Entries \cup {None},     \* what it is starting or stopping
     set : SUBSET Entries,            \* what topoSort orders
     reserved : SUBSET Entries,       \* what the call put its flag on
     todo : SUBSET Entries,           \* what is left to start or to stop
     started : SUBSET Entries]        \* what a group start has started
NoCall == [kind |-> "none", target |-> None, entry |-> None, set |-> {},
           reserved |-> {}, todo |-> {}, started |-> {}]

-----------------------------------------------------------------------------
(* The graph. *)

\* lookupEntry finds at most one entry.
Lookup(n) == {e \in registered : Name[e] = n}

\* dependsOnRecursive: the names entry e reaches over hard and soft edges.
Reach(e) ==
    LET R[n \in 0 .. Cardinality(Entries)] ==
          IF n = 0 THEN Deps(e)
          ELSE LET near == R[n - 1] IN
               near \cup UNION {Deps(d) : d \in {x \in registered : Name[x] \in near}}
    IN  R[Cardinality(Entries)]

\* The transitive hard dependents of the registered entries S, S included: what
\* every set has that holds S and the dependents of its own members.
WithDependents(S) ==
    {e \in registered : \A C \in SUBSET registered :
        (S \subseteq C /\ \A d \in registered \ C, x \in C : Name[x] \notin Hard[d]) => e \in C}

ActiveDependents(e) == {d \in WithDependents({e}) \ {e} : status[d] \in Active}

\* topoSort: an edge counts only inside the set.  Rest(S)[n] is what n rounds
\* leave, a round taking every entry without an edge into the rest.
Rest == [S \in SUBSET Entries |->
    LET R[n \in 0 .. Cardinality(Entries)] ==
          IF n = 0 THEN S
          ELSE LET left == R[n - 1] IN
               {e \in left : \E d \in left : Name[d] \in Deps(e)}
    IN  R]
Cyclic(S) == Rest[S][Cardinality(Entries)] # {}
Levels == [S \in SUBSET Entries |-> [e \in S |->
    Cardinality({n \in 1 .. Cardinality(Entries) : e \in Rest[S][n]})]]
Level(S, e) == Levels[S][e]

\* What a group start may start next: the lowest level left.
AnyMember(k)  == k.todo                           \* mutation: levels not kept
FirstLevel(k) == {e \in k.todo : \A d \in k.todo : Level(k.set, e) <= Level(k.set, d)}

\* What a teardown may stop next.  A group teardown goes down the levels of
\* topoSortForStop; StopService and Unregister go up the hard dependents.
AnyOrder(k) == k.todo                             \* mutation: order not kept
StopNext(k) ==
    IF k.kind \in {"stop", "unregister"}
    THEN {e \in k.todo : \A d \in k.todo : Name[e] \notin Hard[d]}
    ELSE {e \in k.todo : Cyclic(k.set)
                          \/ \A d \in k.todo : Level(k.set, e) >= Level(k.set, d)}

-----------------------------------------------------------------------------
(* Register on a started orchestrator. *)

Goto(c, p)      == pc' = [pc EXCEPT ![c] = p]
Begin(c, p, k)  == Goto(c, p) /\ call' = [call EXCEPT ![c] = k]
Return(c)       == Begin(c, "idle", NoCall)

\* The structural validation: a free name, hard dependencies that are there to
\* stay, no cycle.
AcceptsSoftCycles(e) ==                           \* mutation: soft edges unchecked
    /\ Lookup(Name[e]) = {}
    /\ \A n \in Hard[e] : Lookup(n) # {} /\ Lookup(n) \cap removing = {}
Acceptable(e) ==
    /\ Lookup(Name[e]) = {}
    /\ \A n \in Hard[e] : Lookup(n) # {} /\ Lookup(n) \cap removing = {}
    /\ Name[e] \notin Reach(e)

Register(c) ==
    /\ pc[c] = "idle"
    /\ \E e \in Entries \ (registered \cup removed) :
         /\ \A r \in Registrars : call[r].entry # e
         /\ Acceptable(e)
         /\ Begin(c, "commit", [NoCall EXCEPT !.kind = "register", !.entry = e])
    /\ UNCHANGED <<regVars, flagVars, runVars>>

\* Validate ran without the lock.  commitDynamicLocked looks at nothing but the
\* name again; Validate may also have refused.
CommitRegister(c) ==
    /\ pc[c] = "commit"
    /\ \/ Lookup(Name[call[c].entry]) = {} /\ registered' = registered \cup {call[c].entry}
       \/ registered' = registered
    /\ Return(c)
    /\ UNCHANGED <<removed, flagVars, runVars>>

-----------------------------------------------------------------------------
(* StartService and StartGroup. *)

Reserved(e) == e \in starting \cup removing

\* A hard dependency is satisfied by a running service or a succeeded gate.
DependenciesUp(e) ==
    \A n \in Hard[e] : \E d \in Lookup(n) : status[d] \in {"Running", "Succeeded"}

StartService(c) ==
    /\ pc[c] = "idle"
    /\ \E e \in registered :
         /\ ~Reserved(e) /\ DependenciesUp(e)
         /\ status[e] # "Running" /\ instances[e] = 0
         /\ starting' = starting \cup {e}
         /\ Begin(c, "start", [NoCall EXCEPT !.kind = "start", !.target = e,
                                 !.set = {e}, !.reserved = {e}, !.todo = {e}])
    /\ UNCHANGED <<regVars, removing, runVars>>

\* The members a group start will start.
StartableByStatus(e) ==                           \* mutation: exit channel unread
    e \in Grouped \cap registered /\ ~Reserved(e) /\ status[e] \notin Active
Startable(e) ==
    e \in Grouped \cap registered /\ ~Reserved(e) /\ status[e] \notin Active
      /\ instances[e] = 0

\* A cyclic group is refused after its reservations were taken and given back.
StartGroup(c) ==
    /\ pc[c] = "idle"
    /\ LET members == Grouped \cap registered
           mine    == {e \in members : Startable(e)}
       IN /\ mine # {} /\ ~Cyclic(members)
          /\ starting' = starting \cup mine
          /\ Begin(c, "start", [NoCall EXCEPT !.kind = "startgroup", !.set = members,
                                  !.reserved = mine, !.todo = mine])
    /\ UNCHANGED <<regVars, removing, runVars>>

\* The call has started e, or could not: a failure sends it to stop what it has
\* started before, which is nothing for StartService.
Started(c, e) ==
    Begin(c, "start", [call[c] EXCEPT !.entry = None, !.todo = @ \ {e},
                                      !.started = @ \cup {e}])
Failed(c) ==
    Begin(c, "rollback", [call[c] EXCEPT !.entry = None, !.todo = call[c].started])

\* startOneService never revives an entry that is being removed.
Gone(e) == e \in removed \cup removing

\* The before-start hook or the start condition fails, or the condition is
\* false, which is no failure.
RefuseEntry(c) ==
    /\ pc[c] = "start"
    /\ \E e \in FirstLevel(call[c]) :
         IF Gone(e)
         THEN Failed(c) /\ UNCHANGED <<starting, status>>
         ELSE /\ starting' = starting \ {e}
              /\ status' = [status EXCEPT ![e] = "Stopped"]
              /\ Started(c, e) \/ Failed(c)
    /\ UNCHANGED <<regVars, removing, instances, torn>>

StartEntry(c) ==
    /\ pc[c] = "start"
    /\ \E e \in FirstLevel(call[c]) :
         /\ ~Gone(e)
         /\ status' = [status EXCEPT ![e] = "Starting"]
         /\ torn' = torn \ {e}
         /\ Begin(c, "launch", [call[c] EXCEPT !.entry = e])
    /\ UNCHANGED <<regVars, flagVars, instances>>

\* A persistent service: Running, spawned, and startOneService releases the
\* entry.  With a start timeout it may report a failure of what it has spawned.
Launch(c) ==
    /\ pc[c] = "launch" /\ call[c].entry \notin Gates
    /\ LET e == call[c].entry IN
       /\ status' = [status EXCEPT ![e] = "Running"]
       /\ instances' = [instances EXCEPT ![e] = @ + 1]
       /\ starting' = starting \ {e}
       /\ Started(c, e) \/ Failed(c)
    /\ UNCHANGED <<regVars, removing, torn>>

\* A gate runs in the call itself.
LaunchGate(c) ==
    /\ pc[c] = "launch" /\ call[c].entry \in Gates
    /\ status' = [status EXCEPT ![call[c].entry] = "Running"]
    /\ Goto(c, "gate")
    /\ UNCHANGED <<regVars, flagVars, instances, torn, call>>

EndGate(c) ==
    /\ pc[c] = "gate"
    /\ LET e == call[c].entry IN
       /\ starting' = starting \ {e}
       /\ \/ status' = [status EXCEPT ![e] = "Succeeded"] /\ Started(c, e)
          \/ status' = [status EXCEPT ![e] = "Crashed"] /\ Failed(c)
    /\ UNCHANGED <<regVars, removing, instances, torn>>

\* The deferred release: of the entry by StartService, of every entry it has
\* reserved by StartGroup.
LeaksFailed(c) ==                                 \* mutation: not on a failure
    /\ pc[c] \in {"start", "rollback"} /\ call[c].todo = {}
    /\ starting' = IF pc[c] = "start" THEN starting \ call[c].reserved ELSE starting
    /\ Return(c)
    /\ UNCHANGED <<regVars, removing, runVars>>
FinishStart(c) ==
    /\ pc[c] \in {"start", "rollback"} /\ call[c].todo = {}
    /\ starting' = starting \ call[c].reserved
    /\ Return(c)
    /\ UNCHANGED <<regVars, removing, runVars>>

-----------------------------------------------------------------------------
(* StopService, Unregister, StopGroup and UnregisterGroup. *)

BusyStopping(S) == S \cap removing # {}            \* mutation: starting unread
Busy(S)         == S \cap (starting \cup removing) # {}

\* tearDown reserves the target, under WithCascadeStop with its dependents.
TearDown(c) ==
    /\ pc[c] = "idle"
    /\ \E kind \in {"stop", "unregister"}, m \in Modes, e \in registered :
         LET S == IF m = "cascade" THEN WithDependents({e}) ELSE {e} IN
         /\ m = "plain" => ActiveDependents(e) = {}
         /\ ~Busy(S)
         /\ removing' = removing \cup S
         /\ Begin(c, "stop", [NoCall EXCEPT !.kind = kind,
                                !.target = e, !.set = S, !.reserved = S, !.todo = S])
    /\ UNCHANGED <<regVars, starting, runVars>>

\* StopGroup takes the persistent members nobody else holds.
StopGroup(c) ==
    /\ pc[c] = "idle"
    /\ LET S == {e \in (Grouped \cap registered) \ Gates : ~Reserved(e)} IN
       /\ S # {}
       /\ removing' = removing \cup S
       /\ Begin(c, "stop", [NoCall EXCEPT !.kind = "stopgroup", !.set = S,
                              !.reserved = S, !.todo = S])
    /\ UNCHANGED <<regVars, starting, runVars>>

\* UnregisterGroup takes every member, or nothing.
UnregisterGroup(c) ==
    /\ pc[c] = "idle"
    /\ \E m \in Modes :
         LET members == Grouped \cap registered
             S == IF m = "cascade" THEN WithDependents(members) ELSE members
         IN /\ members # {}
            /\ m = "plain" => \A e \in members : ActiveDependents(e) \subseteq members
            /\ ~Busy(S)
            /\ removing' = removing \cup S
            /\ Begin(c, "stop", [NoCall EXCEPT !.kind = "unregistergroup", !.set = S,
                                   !.reserved = S, !.todo = S])
    /\ UNCHANGED <<regVars, starting, runVars>>

\* An entry already Stopping is left to whoever stops it, except the target of
\* StopService and Unregister and whatever StopGroup or a rollback holds.
Skipped(k, e) ==
    /\ status[e] = "Stopping"
    /\ k.kind \in {"stop", "unregister", "unregistergroup"} /\ e # k.target

SkipEntry(c) ==
    /\ pc[c] = "stop" /\ call[c].entry = None
    /\ \E e \in StopNext(call[c]) :
         /\ Skipped(call[c], e)
         /\ call' = [call EXCEPT ![c].todo = @ \ {e}]
    /\ UNCHANGED <<regVars, flagVars, runVars, pc>>

\* stopEntry cancels the contexts, StopGroup does not; beginStop leaves a
\* succeeded gate alone.
BeginStop(c) ==
    /\ pc[c] \in {"stop", "rollback"} /\ call[c].entry = None
    /\ \E e \in StopNext(call[c]) :
         /\ ~Skipped(call[c], e)
         /\ torn' = IF call[c].kind # "stopgroup" /\ instances[e] > 0
                    THEN torn \cup {e} ELSE torn
         /\ status' = IF status[e] = "Succeeded" THEN status
                      ELSE [status EXCEPT ![e] = "Stopping"]
         /\ call' = [call EXCEPT ![c].entry = e]
    /\ UNCHANGED <<regVars, flagVars, instances, pc>>

\* The stop sequence returned and, but for StopGroup, the instance exited ...
Exited(c) == call[c].kind = "stopgroup" \/ instances[call[c].entry] = 0

EndStop(c) ==
    /\ pc[c] \in {"stop", "rollback"} /\ call[c].entry # None
    /\ Exited(c)
    /\ LET e == call[c].entry IN
       /\ status' = IF status[e] = "Succeeded" THEN status
                    ELSE [status EXCEPT ![e] = "Stopped"]
       /\ call' = [call EXCEPT ![c].entry = None, ![c].todo = @ \ {e}]
    /\ UNCHANGED <<regVars, flagVars, instances, torn, pc>>

\* ... or the stop is not verified: the deadline of the call passed, or Stop()
\* was capped.  A rollback has no deadline.
GiveUpStop(c) ==
    /\ pc[c] \in {"stop", "rollback"} /\ call[c].entry # None
    /\ pc[c] = "stop" \/ Exited(c)
    /\ call' = [call EXCEPT ![c].entry = None, ![c].todo = @ \ {call[c].entry}]
    /\ UNCHANGED <<regVars, flagVars, runVars, pc>>

\* removeEntryLocked resets what it takes out of the registry.
KeepsIndex(c) ==                                  \* mutation: still indexed
    /\ pc[c] = "stop" /\ call[c].todo = {}
    /\ call[c].kind \in {"unregister", "unregistergroup"}
    /\ removed' = removed \cup call[c].set
    /\ status' = [e \in Entries |-> IF e \in call[c].set THEN "Registered" ELSE status[e]]
    /\ torn' = torn \ call[c].set
    /\ Goto(c, "release")
    /\ UNCHANGED <<registered, flagVars, instances, call>>
Remove(c) ==
    /\ pc[c] = "stop" /\ call[c].todo = {}
    /\ call[c].kind \in {"unregister", "unregistergroup"}
    /\ registered' = registered \ call[c].set
    /\ removed' = removed \cup call[c].set
    /\ status' = [e \in Entries |-> IF e \in call[c].set THEN "Registered" ELSE status[e]]
    /\ torn' = torn \ call[c].set
    /\ Goto(c, "release")
    /\ UNCHANGED <<flagVars, instances, call>>

KeepRegistered(c) ==
    /\ pc[c] = "stop" /\ call[c].todo = {}
    /\ call[c].kind \in {"stop", "stopgroup"}
    /\ Goto(c, "release")
    /\ UNCHANGED <<regVars, flagVars, runVars, call>>

Release(c) ==
    /\ pc[c] = "release"
    /\ removing' = removing \ call[c].reserved
    /\ Return(c)
    /\ UNCHANGED <<regVars, starting, runVars>>

\* handleServiceDone without self-heal: a teardown that holds the entry commits
\* the status, one that has left it means Stopped.
Exit(e) ==
    /\ instances[e] > 0
    /\ instances' = [instances EXCEPT ![e] = @ - 1]
    /\ torn' = torn \ {e}
    /\ \E s \in {"Stopped", "Crashed"} :
         status' = IF e \in removing THEN status
                   ELSE [status EXCEPT ![e] = IF e \in torn THEN "Stopped" ELSE s]
    /\ UNCHANGED <<regVars, flagVars, callVars>>

-----------------------------------------------------------------------------
Init ==
    /\ registered = Launched /\ removed = {}
    /\ starting = {} /\ removing = {}
    /\ status = [e \in Entries |-> IF e \in Launched THEN "Running" ELSE "Registered"]
    /\ instances = [e \in Entries |-> IF e \in Launched THEN 1 ELSE 0]
    /\ torn = {}
    /\ pc = [c \in Callers |-> "idle"]
    /\ call = [c \in Callers |-> NoCall]

Claim(c) ==
    \/ c \in Registrars /\ Register(c)
    \/ c \in Starters /\ (StartService(c) \/ StartGroup(c))
    \/ c \in Stoppers /\ (TearDown(c) \/ StopGroup(c) \/ UnregisterGroup(c))

Proceed(c) ==
    \/ CommitRegister(c)
    \/ RefuseEntry(c) \/ StartEntry(c) \/ Launch(c) \/ LaunchGate(c) \/ EndGate(c)
    \/ FinishStart(c)
    \/ SkipEntry(c) \/ BeginStop(c) \/ EndStop(c) \/ GiveUpStop(c)
    \/ Remove(c) \/ KeepRegistered(c) \/ Release(c)

Next ==
    \/ \E c \in Callers : Claim(c) \/ Proceed(c)
    \/ \E e \in Entries : Exit(e)

Spec == Init /\ [][Next]_vars

-----------------------------------------------------------------------------
(* Properties. *)

\* Every variable stays in its type; no entry is both registered and removed.
TypeOK ==
    /\ registered \subseteq Entries /\ removed \subseteq Entries \ registered
    /\ starting \subseteq Entries /\ removing \subseteq Entries
    /\ status \in [Entries -> Statuses]
    /\ instances \in [Entries -> Nat]
    /\ torn \subseteq Entries
    /\ pc \in [Callers -> Pcs]
    /\ call \in [Callers -> CallRecords]

\* A flag on an entry belongs to a call that is still inside, no two teardowns
\* hold the same entry, and a teardown and a group start keep theirs to the end:
\* a leaked flag would make every later call busy, a lost one would let two calls
\* work on one entry (src/membership.go:437-452, src/groups.go:78-80).
ReservationsHeld ==
    /\ starting \cap removing = {}
    /\ \A e \in starting : \E c \in Starters : e \in call[c].reserved
    /\ \A c \in Starters : pc[c] \in {"start", "launch", "gate"} => call[c].todo \subseteq starting
    /\ \A e \in removing : \E c \in Stoppers : e \in call[c].reserved
    /\ \A c \in Stoppers : call[c].reserved \subseteq removing
    /\ \A c, d \in Stoppers : c # d => call[c].reserved \cap call[d].reserved = {}

\* No entry ever has two instances: a group stop does not wait for them, and a
\* start must then leave the old one alone (src/groups.go:61-71).
OneInstance == \A e \in Entries : instances[e] <= 1

\* The entries a call has finished stopping.
Down(c) ==
    CASE pc[c] \in {"stop", "release"} -> call[c].set \ call[c].todo
      [] pc[c] = "rollback"            -> call[c].started \ call[c].todo
      [] OTHER                         -> {}

\* What a teardown or a rollback has stopped stays down until it has released
\* it, so that its drain hits nobody, and what was removed is never revived
\* (src/membership.go:483-491, src/lifecycle.go:20-24).
TeardownHolds ==
    /\ \A c \in Callers : \A e \in Down(c) : status[e] \notin Active
    /\ \A e \in removed : status[e] \notin Active

\* A call that stops several entries begins with none whose hard dependents
\* among them are still up (src/membership.go:496-498, src/groups.go:226-227).
OrderedStop ==
    \A c \in Callers : pc[c] \in {"stop", "rollback"} /\ call[c].entry # None =>
      \A d \in IF pc[c] = "stop" THEN call[c].reserved ELSE call[c].started :
        Name[call[c].entry] \in Hard[d] => status[d] \notin Active

\* What entry e needs of the set S, directly or through others in S: what every
\* set has that holds its dependencies in S and those of its own members.
Needs(S, e) ==
    {d \in S : \A C \in SUBSET S :
        (\A x \in C \cup {e}, y \in S : Name[y] \in Deps(x) => y \in C) => d \in C}

\* A group start leaves no dependency, hard or soft, that it is to start for
\* later than the member that needs it, not even one needed through a member
\* that is running already (src/groups.go:9, src/graph.go:77-82).
OrderedStart ==
    \A c \in Starters : pc[c] \in {"launch", "gate"} =>
      call[c].todo \cap Needs(call[c].set, call[c].entry) = {}

\* However entries come and go, and a name comes back under other dependencies,
\* the registry can be sorted (src/register.go:150-189, src/graph.go:139-141).
Acyclic == ~Cyclic(registered)

\* A plain stop spares its dependents: when it has stopped its target no service
\* is up that depends on it (src/README.md:836, src/membership.go:28-30).
PlainStopSpares ==
    Modes = {"plain"} => \A c \in Stoppers :
      pc[c] = "release" /\ call[c].kind = "stop" /\ status[call[c].target] = "Stopped" =>
        \A d \in registered : Name[call[c].target] \in Hard[d] => status[d] \notin Active
================================================================================
