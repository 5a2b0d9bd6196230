------------------------------ MODULE StartAndStop ------------------------------
(***************************************************************************)
(* Start and Stop of a whole orchestrator over a fixed set of registered   *)
(* entries: the claim of Start, the cron entries, the runOnce gates, the   *)
(* persistent entries level by level, the rollback of a Start that fails   *)
(* and the reset that lets it be repeated; Stop with its order, its wait   *)
(* and its verdict; the log pump and the health loop as far as the two     *)
(* have to end them.  What happens inside one entry is EntryLifecycle's.   *)
(*                                                                         *)
(* Every call of Start that gets past the claim is an attempt, numbered    *)
(* from 1.  The number also names the context, the log channels and the    *)
(* instances the attempt creates; 0 stands for nil.  An entry has at most  *)
(* one instance per attempt, since nothing here restarts one.              *)
(***************************************************************************)
EXTENDS Integers, FiniteSets

CONSTANTS
    Starters, Stoppers,   \* goroutines that call Start and Stop
    Entries,              \* the registered entries
    Crons, Gates,         \* those with WithCron, those with WithRunOnce
    Deps,                 \* entry -> its hard and registered soft dependencies
    Deadlines,            \* may Stop carry a deadline? subset of BOOLEAN
    RollbackTimeout,      \* is the rollback bounded (WithFailedStartTimeout)?
    MayTime,              \* the entries that may have a start timeout
    Overlap,              \* may Stop be called while a Start is in progress?
    MaxAttempts,          \* bound: attempts of Start
    RetryLost             \* bound: is Start tried again after a rollback gave up?

ASSUME StartAssumption ==
    /\ Starters \cap Stoppers = {}
    /\ Crons \subseteq Entries /\ Gates \subseteq Entries /\ Crons \cap Gates = {}
    /\ Deps \in [Entries -> SUBSET Entries]
    /\ Deadlines \subseteq BOOLEAN
    /\ RollbackTimeout \in BOOLEAN /\ Overlap \in BOOLEAN /\ MayTime \subseteq Entries
    /\ MaxAttempts \in Nat \ {0} /\ RetryLost \in BOOLEAN

VARIABLES
    \* Orchestrator: lifecycle flags, once gates, and fields of one attempt
    started, claimed, stopping, stopped, startOnce, stopOnce, shutdownDone,
    octx, logQuit, health, wg,
    \* contexts cancelled, quit channels closed, log pumps, attempts so far
    deadCtx, quitClosed, pump, attempt,
    \* serviceEntry: status, start reservation, latch, teardown context
    status, starting, wgDone, teardown,
    \* instance goroutines, the contexts of single instances cancelled, and the
    \* entries configured with a start timeout
    inst, cut, timed,
    \* calls of Start and Stop, the parallel starts of one level
    pc, call, boot,
    \* for the properties: nil returns of Start, a wait given up, a panic
    nils, lost, panicked

flagVars  == <<started, claimed, stopping, stopped>>
onceVars  == <<startOnce, stopOnce, shutdownDone>>
fieldVars == <<octx, logQuit, health, wg>>
chanVars  == <<deadCtx, quitClosed, pump, attempt>>
entryVars == <<status, starting, wgDone, teardown>>
instVars  == <<inst, cut, timed>>
callVars  == <<pc, call, boot>>
ghostVars == <<nils, lost, panicked>>
vars == <<flagVars, onceVars, fieldVars, chanVars, entryVars, instVars, callVars,
          ghostVars>>

\* Steps that move nothing but calls.
CallOnly == UNCHANGED <<flagVars, onceVars, fieldVars, chanVars, entryVars, instVars,
                        ghostVars>>

Callers    == Starters \cup Stoppers
Attempts   == 1 .. MaxAttempts
Persistent == Entries \ (Crons \cup Gates)
Statuses   == {"Registered", "Starting", "Running", "Stopping", "Stopped", "Crashed",
               "Succeeded"}
Active     == {"Running", "Starting"}
StartPcs   == {"once", "cron", "cronpump", "gates", "gate", "levels", "boot", "rollback",
               "unload", "await", "pump", "reset"}
StopPcs    == {"mark", "halthealth", "healthwait", "cancel", "stops", "quit", "wait",
               "seal"}
BootStages == {"none", "check", "begin", "launch", "settle", "ok", "failed"}
CallRecords == [todo : SUBSET Entries, completed : SUBSET Entries, deadline : BOOLEAN]
NoCall     == [todo |-> {}, completed |-> {}, deadline |-> FALSE]

Init ==
    /\ started = FALSE /\ claimed = FALSE /\ stopping = FALSE /\ stopped = FALSE
    /\ shutdownDone = FALSE
    /\ startOnce = "fresh" /\ stopOnce = "fresh"
    /\ octx = 0 /\ logQuit = 0 /\ health = "none" /\ wg = 0
    /\ deadCtx = {} /\ quitClosed = {} /\ attempt = 0
    /\ pump = [a \in Attempts |-> "none"]
    /\ status = [e \in Entries |-> "Registered"]
    /\ starting = {} /\ wgDone = {}
    /\ teardown = [e \in Entries |-> 0]
    /\ inst = [e \in Entries |-> [a \in Attempts |-> "none"]] /\ cut = {}
    /\ timed \in SUBSET MayTime
    /\ pc = [c \in Callers |-> "idle"] /\ call = [c \in Callers |-> NoCall]
    /\ boot = [e \in Entries |-> "none"]
    /\ nils = 0 /\ lost = FALSE /\ panicked = FALSE

(* Helpers. *)

\* topoSort: Layers[S][n] is the first n levels of S; a dependency outside S does
\* not count.
Layers == [S \in SUBSET Entries |->
    LET R[n \in 0 .. Cardinality(Entries)] ==
          IF n = 0 THEN {}
          ELSE LET below == R[n - 1] IN {e \in S : Deps[e] \cap S \subseteq below}
    IN  R]
LevelEnds(S) == {Layers[S][n] : n \in 0 .. Cardinality(Entries)}

\* The first level of S, and the last one, with members still in todo.
FirstLevel(S, todo) ==
    {e \in todo : \A L \in LevelEnds(S) : todo \cap L # {} => e \in L}
LastLevel(S, todo) ==
    {e \in todo : \A L \in LevelEnds(S) : e \in L => todo \subseteq L}

\* The context of the instance of e from attempt a is cancelled.
Cancelled(e, a) == a \in deadCtx \/ <<e, a>> \in cut

SetStatus(S, s) == status' = [e \in Entries |-> IF e \in S THEN s ELSE status[e]]

(***************************************************************************)
(* Start.                                                                  *)
(***************************************************************************)
InProgress == \E c \in Starters : pc[c] # "idle"

\* A call that finds the claim taken returns ErrAlreadyStarted: no action.
Claim(c) ==
    /\ pc[c] = "idle" /\ ~started /\ ~claimed /\ attempt < MaxAttempts
    /\ lost => RetryLost
    /\ claimed' = TRUE
    /\ pc' = [pc EXCEPT ![c] = "once"]
    /\ UNCHANGED <<started, stopping, stopped, onceVars, fieldVars, chanVars, entryVars,
                   instVars, call, boot, ghostVars>>

\* The closure of startOnce publishes the fields of the attempt, reserves the
\* snapshot and spawns the log pump.  startOnce is fresh here: a consumed one
\* would show as a Start that never returns.
EnterOnce(c) ==
    LET a == attempt + 1 IN
    /\ pc[c] = "once" /\ startOnce = "fresh"
    /\ attempt' = a /\ octx' = a /\ logQuit' = a
    /\ pump' = [pump EXCEPT ![a] = "run"]
    /\ started' = TRUE /\ startOnce' = "running" /\ stopOnce' = "fresh"
    /\ starting' = Entries
    /\ pc' = [pc EXCEPT ![c] = "cron"]
    /\ UNCHANGED <<claimed, stopping, stopped, shutdownDone, health, wg, deadCtx,
                   quitClosed, status, wgDone, teardown, instVars, call, boot, ghostVars>>

SetupCron(c) ==
    /\ pc[c] = "cron"
    /\ SetStatus(Crons, "Running")
    /\ call' = [call EXCEPT ![c].todo = Gates]
    /\ pc' = [pc EXCEPT ![c] = "gates"]
    /\ UNCHANGED <<flagVars, onceVars, fieldVars, chanVars, starting, wgDone, teardown,
                   instVars, boot, ghostVars>>

\* A bad spec: the entries scheduled before it are left Running for the reset.
\* The attempt cancels and closes what it created, whatever the fields say.
CronFails(c) ==
    /\ pc[c] = "cron" /\ Crons # {}
    /\ \E S \in SUBSET Crons : S # Crons /\ SetStatus(S, "Running")
    /\ deadCtx' = deadCtx \cup {attempt}
    /\ panicked' = (attempt \in quitClosed)
    /\ quitClosed' = quitClosed \cup {attempt}
    /\ pc' = [pc EXCEPT ![c] = "cronpump"]
    /\ UNCHANGED <<flagVars, onceVars, fieldVars, pump, attempt, starting, wgDone,
                   teardown, instVars, call, boot, nils, lost>>

\* The end of the closure: clearStarting, and startOnce is consumed.
LeaveOnce == startOnce' = "done" /\ starting' = {}

CronPump(c) ==
    /\ pc[c] = "cronpump" /\ (pump[attempt] = "exited" \/ RollbackTimeout)
    /\ LeaveOnce
    /\ pc' = [pc EXCEPT ![c] = "await"]
    /\ UNCHANGED <<flagVars, stopOnce, shutdownDone, fieldVars, chanVars, status, wgDone,
                   teardown, instVars, call, boot, ghostVars>>

\* A gate: its hook or condition refuses with an error and the Start fails, ...
GateRefused(c, e) ==
    /\ pc[c] = "gates" /\ e \in call[c].todo
    /\ SetStatus({e}, "Stopped")
    /\ starting' = starting \ {e}
    /\ call' = [call EXCEPT ![c].todo = Entries]
    /\ pc' = [pc EXCEPT ![c] = "rollback"]
    /\ deadCtx' = deadCtx \cup ({octx} \ {0})
    /\ UNCHANGED <<flagVars, onceVars, fieldVars, quitClosed, pump, attempt, wgDone,
                   teardown, instVars, boot, ghostVars>>

\* ... the condition is false and the gate is passed over, ...
GateSkipped(c, e) ==
    /\ pc[c] = "gates" /\ e \in call[c].todo
    /\ SetStatus({e}, "Stopped")
    /\ starting' = starting \ {e}
    /\ call' = [call EXCEPT ![c].todo = @ \ {e}]
    /\ UNCHANGED <<flagVars, onceVars, fieldVars, chanVars, wgDone, teardown, instVars,
                   pc, boot, ghostVars>>

\* ... or its Start is run, by this goroutine.
RunGate(c, e) ==
    /\ pc[c] = "gates" /\ e \in call[c].todo
    /\ SetStatus({e}, "Running")
    /\ call' = [call EXCEPT ![c].todo = @ \ {e}]
    /\ boot' = [boot EXCEPT ![e] = "settle"]
    /\ pc' = [pc EXCEPT ![c] = "gate"]
    /\ UNCHANGED <<flagVars, onceVars, fieldVars, chanVars, starting, wgDone, teardown,
                   instVars, ghostVars>>

GatePasses(c, e) ==
    /\ pc[c] = "gate" /\ boot[e] = "settle"
    /\ SetStatus({e}, "Succeeded")
    /\ wgDone' = wgDone \cup {e}
    /\ starting' = starting \ {e}
    /\ boot' = [boot EXCEPT ![e] = "none"]
    /\ pc' = [pc EXCEPT ![c] = "gates"]
    /\ UNCHANGED <<flagVars, onceVars, fieldVars, chanVars, teardown, instVars, call,
                   ghostVars>>

\* Its Start returns an error or takes too long.
GateFails(c, e) ==
    /\ pc[c] = "gate" /\ boot[e] = "settle"
    /\ SetStatus({e}, "Crashed")
    /\ starting' = starting \ {e}
    /\ boot' = [boot EXCEPT ![e] = "none"]
    /\ call' = [call EXCEPT ![c].todo = Entries]
    /\ pc' = [pc EXCEPT ![c] = "rollback"]
    /\ deadCtx' = deadCtx \cup ({octx} \ {0})
    /\ UNCHANGED <<flagVars, onceVars, fieldVars, quitClosed, pump, attempt, wgDone,
                   teardown, instVars, ghostVars>>

GatesDone(c) ==
    /\ pc[c] = "gates" /\ call[c].todo = {}
    /\ call' = [call EXCEPT ![c].todo = Persistent]
    /\ pc' = [pc EXCEPT ![c] = "levels"]
    /\ UNCHANGED <<flagVars, onceVars, fieldVars, chanVars, entryVars, instVars, boot,
                   ghostVars>>

\* mutation: the levels are forgotten and every entry starts at once
BeginLevelFlat(c) ==
    /\ pc[c] = "levels" /\ call[c].todo # {}
    /\ boot' = [e \in Entries |-> IF e \in call[c].todo THEN "check" ELSE boot[e]]
    /\ call' = [call EXCEPT ![c].todo = {}]
    /\ pc' = [pc EXCEPT ![c] = "boot"]
    /\ CallOnly

BeginLevel(c) ==
    LET level == FirstLevel(Persistent, call[c].todo) IN
    /\ pc[c] = "levels" /\ call[c].todo # {}
    /\ boot' = [e \in Entries |-> IF e \in level THEN "check" ELSE boot[e]]
    /\ call' = [call EXCEPT ![c].todo = @ \ level]
    /\ pc' = [pc EXCEPT ![c] = "boot"]
    /\ CallOnly

\* One goroutine per entry of the level.  It gives up when a dependency is
\* Crashed or Stopped ...
CheckDeps(e) ==
    LET bad == \E d \in Deps[e] : status[d] \in {"Crashed", "Stopped"} IN
    /\ boot[e] = "check"
    /\ boot' = [boot EXCEPT ![e] = IF bad THEN "failed" ELSE "begin"]
    /\ SetStatus(IF bad THEN {e} ELSE {}, "Stopped")
    /\ UNCHANGED <<flagVars, onceVars, fieldVars, chanVars, starting, wgDone, teardown,
                   instVars, pc, call, ghostVars>>

\* ... and else calls startOneService: the hook or the condition stops it, with
\* an error or without, ...
BootRefused(e, result) ==
    /\ boot[e] = "begin"
    /\ SetStatus({e}, "Stopped")
    /\ starting' = starting \ {e}
    /\ boot' = [boot EXCEPT ![e] = result]
    /\ UNCHANGED <<flagVars, onceVars, fieldVars, chanVars, wgDone, teardown, instVars,
                   pc, call, ghostVars>>

Boot(e) ==
    /\ boot[e] = "begin"
    /\ SetStatus({e}, "Starting")
    /\ boot' = [boot EXCEPT ![e] = "launch"]
    /\ UNCHANGED <<flagVars, onceVars, fieldVars, chanVars, starting, wgDone, teardown,
                   instVars, pc, call, ghostVars>>

\* ... or its instance is spawned, under a fresh teardown context of o.ctx.
Launch(e) ==
    /\ boot[e] = "launch"
    /\ SetStatus({e}, "Running")
    /\ teardown' = [teardown EXCEPT ![e] = octx]
    /\ wgDone' = wgDone \ {e} /\ wg' = wg + 1
    /\ inst' = [inst EXCEPT ![e][octx] = "run"]
    /\ boot' = [boot EXCEPT ![e] = "settle"]
    /\ UNCHANGED <<flagVars, onceVars, octx, logQuit, health, chanVars, starting, cut,
                   timed, pc, call, ghostVars>>

\* With a start timeout the goroutine waits for the instance to end: a crash
\* fails the start, a clean return does not, ...
Settle(e) ==
    /\ boot[e] = "settle" /\ e \in Persistent
    /\ e \in timed => inst[e][attempt] # "run"
    /\ boot' = [boot EXCEPT ![e] = IF e \in timed /\ inst[e][attempt] = "crashed"
                                   THEN "failed" ELSE "ok"]
    /\ starting' = starting \ {e}
    /\ UNCHANGED <<flagVars, onceVars, fieldVars, chanVars, status, wgDone, teardown,
                   instVars, pc, call, ghostVars>>

\* ... and an instance still running when the window closes fails it as well.
StartTimesOut(e) ==
    /\ boot[e] = "settle" /\ e \in Persistent \cap timed
    /\ cut' = cut \cup {<<e, attempt>>}
    /\ boot' = [boot EXCEPT ![e] = "failed"]
    /\ starting' = starting \ {e}
    /\ UNCHANGED <<flagVars, onceVars, fieldVars, chanVars, status, wgDone, teardown,
                   inst, timed, pc, call, ghostVars>>

LevelDone(c, failed) ==
    /\ pc[c] = "boot"
    /\ \A e \in Entries : boot[e] \in {"none", "ok", "failed"}
    /\ failed <=> \E e \in Entries : boot[e] = "failed"
    /\ boot' = [e \in Entries |-> "none"]

EndLevel(c) ==
    /\ LevelDone(c, FALSE)
    /\ pc' = [pc EXCEPT ![c] = "levels"]
    /\ UNCHANGED call /\ CallOnly

LevelFails(c) ==
    /\ LevelDone(c, TRUE)
    /\ call' = [call EXCEPT ![c].todo = Entries]
    /\ pc' = [pc EXCEPT ![c] = "rollback"]
    /\ deadCtx' = deadCtx \cup ({octx} \ {0})
    /\ UNCHANGED <<flagVars, onceVars, fieldVars, quitClosed, pump, attempt, entryVars,
                   instVars, ghostVars>>

\* mutation: the health loop is spawned without wg.Add
StartHealthUncounted(c) ==
    /\ pc[c] = "levels" /\ call[c].todo = {}
    /\ health' = "run"
    /\ LeaveOnce
    /\ nils' = nils + 1
    /\ pc' = [pc EXCEPT ![c] = "idle"] /\ call' = [call EXCEPT ![c] = NoCall]
    /\ UNCHANGED <<flagVars, stopOnce, shutdownDone, octx, logQuit, wg, chanVars, status,
                   wgDone, teardown, instVars, boot, lost, panicked>>

\* No level is left: the health loop starts and Start returns nil.
StartHealth(c) ==
    /\ pc[c] = "levels" /\ call[c].todo = {}
    /\ health' = "run" /\ wg' = wg + 1
    /\ LeaveOnce
    /\ nils' = nils + 1
    /\ pc' = [pc EXCEPT ![c] = "idle"] /\ call' = [call EXCEPT ![c] = NoCall]
    /\ UNCHANGED <<flagVars, stopOnce, shutdownDone, octx, logQuit, chanVars, status,
                   wgDone, teardown, instVars, boot, lost, panicked>>

(***************************************************************************)
(* The rollback of a failed Start, and the reset.                          *)
(***************************************************************************)

\* stopStartedServices: o.ctx is cancelled by the step that found the failure;
\* then the entries in reverse topological order, the active ones stopped.
RollbackEntry(c, e) ==
    /\ pc[c] = "rollback" /\ e \in LastLevel(Entries, call[c].todo)
    /\ SetStatus({e} \cap {d \in Entries : status[d] \in Active}, "Stopping")
    /\ call' = [call EXCEPT ![c].todo = @ \ {e}]
    /\ UNCHANGED <<flagVars, onceVars, fieldVars, chanVars, starting, wgDone, teardown,
                   instVars, pc, boot, ghostVars>>

RollbackDone(c) ==
    /\ pc[c] = "rollback" /\ call[c].todo = {}
    /\ pc' = [pc EXCEPT ![c] = "unload"]
    /\ UNCHANGED <<call, boot>> /\ CallOnly

\* close(o.logQuit) panics on a channel that is closed already.
CloseQuit == /\ panicked' = (logQuit \in quitClosed)
             /\ quitClosed' = quitClosed \cup ({logQuit} \ {0})

Unload(c) ==
    /\ pc[c] = "unload"
    /\ CloseQuit /\ LeaveOnce
    /\ pc' = [pc EXCEPT ![c] = "await"]
    /\ UNCHANGED <<flagVars, stopOnce, shutdownDone, fieldVars, deadCtx, pump, attempt,
                   status, wgDone, teardown, instVars, call, boot, nils, lost>>

\* mutation: the reset does not wait for the instances
AwaitNothing(c) ==
    /\ pc[c] = "await"
    /\ pc' = [pc EXCEPT ![c] = "pump"]
    /\ UNCHANGED <<call, boot>> /\ CallOnly

AwaitInstances(c) ==
    /\ pc[c] = "await" /\ wg = 0
    /\ pc' = [pc EXCEPT ![c] = "pump"]
    /\ UNCHANGED <<call, boot>> /\ CallOnly

AwaitPump(c) ==
    /\ pc[c] = "pump" /\ (logQuit # 0 => pump[logQuit] = "exited")
    /\ pc' = [pc EXCEPT ![c] = "reset"]
    /\ UNCHANGED <<call, boot>> /\ CallOnly

\* Either wait is given up at the deadline.  (With nothing left to wait for it
\* makes no difference here which of the two comes first.)
GiveUp(c) ==
    /\ RollbackTimeout
    /\ \/ pc[c] = "await" /\ wg # 0
       \/ pc[c] = "pump" /\ logQuit # 0 /\ pump[logQuit] # "exited"
    /\ lost' = TRUE
    /\ pc' = [pc EXCEPT ![c] = IF @ = "await" THEN "pump" ELSE "reset"]
    /\ UNCHANGED <<flagVars, onceVars, fieldVars, chanVars, entryVars, instVars, call,
                   boot, nils, panicked>>

ResetEntries ==
    /\ status' = [e \in Entries |-> "Registered"]
    /\ wgDone' = {} /\ teardown' = [e \in Entries |-> 0]
    /\ UNCHANGED starting

\* mutation: the reset forgets the flag that says the orchestrator is started
ResetKeepsStarted(c) ==
    /\ pc[c] = "reset"
    /\ claimed' = FALSE /\ stopping' = FALSE /\ stopped' = FALSE
    /\ octx' = 0 /\ logQuit' = 0 /\ health' = "none"
    /\ ResetEntries
    /\ startOnce' = "fresh" /\ stopOnce' = "fresh"
    /\ pc' = [pc EXCEPT ![c] = "idle"] /\ call' = [call EXCEPT ![c] = NoCall]
    /\ UNCHANGED <<started, shutdownDone, wg, chanVars, instVars, boot, ghostVars>>

Reset(c) ==
    /\ pc[c] = "reset"
    /\ started' = FALSE /\ claimed' = FALSE /\ stopping' = FALSE /\ stopped' = FALSE
    /\ octx' = 0 /\ logQuit' = 0 /\ health' = "none"
    /\ ResetEntries
    /\ startOnce' = "fresh" /\ stopOnce' = "fresh"
    /\ pc' = [pc EXCEPT ![c] = "idle"] /\ call' = [call EXCEPT ![c] = NoCall]
    /\ UNCHANGED <<shutdownDone, wg, chanVars, instVars, boot, ghostVars>>

(***************************************************************************)
(* Stop.  A call that finds stopOnce consumed returns nil, one that finds  *)
(* it running waits and then does: neither changes anything.               *)
(***************************************************************************)
MayStop(c) == pc[c] = "idle" /\ stopOnce = "fresh" /\ (Overlap \/ ~InProgress)

\* Before Start it is a no-op, but it consumes stopOnce and signals Done.
StopUnstarted(c) ==
    /\ MayStop(c) /\ ~started
    /\ stopOnce' = "done" /\ shutdownDone' = TRUE
    /\ UNCHANGED <<flagVars, startOnce, fieldVars, chanVars, entryVars, instVars,
                   callVars, ghostVars>>

BeginStop(c, deadline) ==
    /\ MayStop(c) /\ started
    /\ stopOnce' = "running"
    /\ call' = [call EXCEPT ![c] = [NoCall EXCEPT !.deadline = deadline]]
    /\ pc' = [pc EXCEPT ![c] = "mark"]
    /\ UNCHANGED <<flagVars, startOnce, shutdownDone, fieldVars, chanVars, entryVars,
                   instVars, boot, ghostVars>>

MarkStopping(c) ==
    /\ pc[c] = "mark"
    /\ stopping' = TRUE
    /\ pc' = [pc EXCEPT ![c] = "halthealth"]
    /\ UNCHANGED <<started, claimed, stopped, onceVars, fieldVars, chanVars, entryVars,
                   instVars, call, boot, ghostVars>>

HaltHealth(c) ==
    /\ pc[c] = "halthealth"
    /\ health' = IF health = "run" THEN "quit" ELSE health
    /\ pc' = [pc EXCEPT ![c] = IF health = "none" THEN "cancel" ELSE "healthwait"]
    /\ UNCHANGED <<flagVars, onceVars, octx, logQuit, wg, chanVars, entryVars, instVars,
                   call, boot, ghostVars>>

\* The loop must be gone, however long its probe takes: no deadline bounds this.
AwaitHealth(c) ==
    /\ pc[c] = "healthwait" /\ health = "exited"
    /\ pc' = [pc EXCEPT ![c] = "cancel"]
    /\ UNCHANGED <<call, boot>> /\ CallOnly

\* o.cancel() panics when a reset made it nil.
CancelAll(c) ==
    /\ pc[c] = "cancel"
    /\ panicked' = (octx = 0)
    /\ deadCtx' = deadCtx \cup ({octx} \ {0})
    /\ call' = [call EXCEPT ![c].todo = Entries]
    /\ pc' = [pc EXCEPT ![c] = "stops"]
    /\ UNCHANGED <<flagVars, onceVars, fieldVars, quitClosed, pump, attempt, entryVars,
                   instVars, boot, nils, lost>>

\* Persistent entries in reverse topological order, then the others.  With a
\* deadline the stop sequence of an entry may be abandoned.
StopEntry(c, e, completed) ==
    LET P == call[c].todo \cap Persistent IN
    /\ pc[c] = "stops"
    /\ e \in IF P # {} THEN LastLevel(Persistent, P) ELSE call[c].todo
    /\ completed \/ call[c].deadline
    /\ SetStatus({e} \cap {d \in Entries : status[d] # "Succeeded"}, "Stopping")
    /\ call' = [call EXCEPT ![c].todo = @ \ {e},
                            ![c].completed = IF completed THEN @ \cup {e} ELSE @]
    /\ UNCHANGED <<flagVars, onceVars, fieldVars, chanVars, starting, wgDone, teardown,
                   instVars, pc, boot, ghostVars>>

\* mutation: Stop leaves the log pump running
QuitLogNever(c) ==
    /\ pc[c] = "stops" /\ call[c].todo = {}
    /\ pc' = [pc EXCEPT ![c] = "wait"]
    /\ UNCHANGED <<call, boot>> /\ CallOnly

QuitLog(c) ==
    /\ pc[c] = "stops" /\ call[c].todo = {}
    /\ CloseQuit
    /\ pc' = [pc EXCEPT ![c] = "wait"]
    /\ UNCHANGED <<flagVars, onceVars, fieldVars, deadCtx, pump, attempt, entryVars,
                   instVars, call, boot, nils, lost>>

\* All goroutines are gone: the completed stops are committed.
Verify(c) ==
    /\ pc[c] = "wait" /\ wg = 0 /\ (logQuit # 0 => pump[logQuit] = "exited")
    /\ SetStatus({e \in call[c].completed : status[e] # "Succeeded"}, "Stopped")
    /\ pc' = [pc EXCEPT ![c] = "seal"]
    /\ UNCHANGED <<flagVars, onceVars, fieldVars, chanVars, starting, wgDone, teardown,
                   instVars, call, boot, ghostVars>>

StopTimesOut(c) ==
    /\ pc[c] = "wait" /\ call[c].deadline
    /\ lost' = TRUE
    /\ pc' = [pc EXCEPT ![c] = "seal"]
    /\ UNCHANGED <<flagVars, onceVars, fieldVars, chanVars, entryVars, instVars, call,
                   boot, nils, panicked>>

\* Leaving stopOnce unlocks its mutex: fatal if a Start put a fresh one there.
Seal(c) ==
    /\ pc[c] = "seal"
    /\ stopping' = FALSE /\ stopped' = TRUE /\ shutdownDone' = TRUE
    /\ panicked' = (stopOnce # "running")
    /\ stopOnce' = "done"
    /\ pc' = [pc EXCEPT ![c] = "idle"] /\ call' = [call EXCEPT ![c] = NoCall]
    /\ UNCHANGED <<started, claimed, startOnce, fieldVars, chanVars, entryVars, instVars,
                   boot, nils, lost>>

(***************************************************************************)
(* The goroutines of instances, of the log pump and of the health loop.    *)
(***************************************************************************)

\* An instance returns, in time or not, and its exit is handled: under a
\* cancelled o.ctx the status is Stop's or the rollback's.  The latch and the
\* teardown context are those the entry holds now.
Exit(e, a, how) ==
    /\ inst[e][a] = "run"
    /\ inst' = [inst EXCEPT ![e][a] = how]
    /\ SetStatus(IF octx \in deadCtx THEN {} ELSE {e},
                 IF how = "crashed" /\ teardown[e] \notin deadCtx
                 THEN "Crashed" ELSE "Stopped")
    /\ wg' = IF e \in wgDone THEN wg ELSE wg - 1
    /\ wgDone' = wgDone \cup {e}
    /\ cut' = cut \cup ({<<e, teardown[e]>>} \ {<<e, 0>>})
    /\ teardown' = [teardown EXCEPT ![e] = 0]
    /\ UNCHANGED <<flagVars, onceVars, octx, logQuit, health, chanVars, starting,
                   timed, callVars, ghostVars>>

PumpExit(a) ==
    /\ pump[a] = "run" /\ a \in quitClosed
    /\ pump' = [pump EXCEPT ![a] = "exited"]
    /\ UNCHANGED <<flagVars, onceVars, fieldVars, deadCtx, quitClosed, attempt,
                   entryVars, instVars, callVars, ghostVars>>

HealthExit ==
    /\ health = "quit"
    /\ health' = "exited" /\ wg' = wg - 1
    /\ UNCHANGED <<flagVars, onceVars, octx, logQuit, chanVars, entryVars, instVars,
                   callVars, ghostVars>>

Ends == {"exited", "crashed"}

\* What the goroutine of a call does by itself once the call is made.
StartStep(c) ==
    \/ EnterOnce(c) \/ SetupCron(c) \/ CronFails(c) \/ CronPump(c)
    \/ \E e \in Gates : \/ GateRefused(c, e) \/ GateSkipped(c, e) \/ RunGate(c, e)
                        \/ GatePasses(c, e) \/ GateFails(c, e)
    \/ GatesDone(c) \/ BeginLevel(c) \/ EndLevel(c) \/ LevelFails(c) \/ StartHealth(c)
    \/ \E e \in Entries : RollbackEntry(c, e)
    \/ RollbackDone(c) \/ Unload(c) \/ AwaitInstances(c) \/ AwaitPump(c) \/ GiveUp(c)
    \/ Reset(c)
BootStep(e) ==
    \/ CheckDeps(e) \/ Boot(e) \/ Launch(e) \/ Settle(e) \/ StartTimesOut(e)
    \/ \E result \in {"ok", "failed"} : BootRefused(e, result)
StopStep(c) ==
    \/ MarkStopping(c) \/ HaltHealth(c) \/ AwaitHealth(c) \/ CancelAll(c)
    \/ \E e \in Entries, completed \in BOOLEAN : StopEntry(c, e, completed)
    \/ QuitLog(c) \/ Verify(c) \/ StopTimesOut(c) \/ Seal(c)
ExitStep(e) == \E a \in Attempts, how \in Ends : Exit(e, a, how)
CancelledExit(e) == \E a \in Attempts, how \in Ends : Cancelled(e, a) /\ Exit(e, a, how)

\* A panic ends the process: steps after one have no meaning.
Next ==
    \/ \E c \in Starters : Claim(c) \/ StartStep(c)
    \/ \E e \in Persistent : BootStep(e) \/ ExitStep(e)
    \/ \E c \in Stoppers : StopStep(c) \/ StopUnstarted(c)
    \/ \E c \in Stoppers, deadline \in Deadlines : BeginStop(c, deadline)
    \/ \E a \in Attempts : PumpExit(a)
    \/ HealthExit

\* A goroutine that can go on does: those of the calls, of the starts of a level,
\* of the log pump and of the health loop, and the hooks, gates and Stop methods
\* they call return.  An instance need not end before its context is cancelled.
Fairness ==
    /\ \A c \in Starters : WF_vars(pc[c] # "idle" /\ StartStep(c))
    /\ \A c \in Stoppers : WF_vars(pc[c] # "idle" /\ StopStep(c))
    /\ \A e \in Persistent : /\ WF_vars(boot[e] # "none" /\ BootStep(e))
                             /\ WF_vars(CancelledExit(e))
    /\ \A a \in Attempts : WF_vars(PumpExit(a))
    /\ WF_vars(HealthExit)

Spec == Init /\ [][Next]_vars /\ Fairness

-----------------------------------------------------------------------------
(* Properties. *)

\* The type of every variable.
TypeOK ==
    /\ started \in BOOLEAN /\ claimed \in BOOLEAN /\ stopping \in BOOLEAN
    /\ stopped \in BOOLEAN /\ shutdownDone \in BOOLEAN
    /\ startOnce \in {"fresh", "running", "done"}
    /\ stopOnce \in {"fresh", "running", "done"}
    /\ octx \in 0 .. MaxAttempts /\ logQuit \in 0 .. MaxAttempts
    /\ health \in {"none", "run", "quit", "exited"}
    /\ wg \in Nat /\ attempt \in 0 .. MaxAttempts
    /\ deadCtx \subseteq Attempts /\ quitClosed \subseteq Attempts
    /\ pump \in [Attempts -> {"none", "run", "exited"}]
    /\ status \in [Entries -> Statuses]
    /\ starting \subseteq Entries /\ wgDone \subseteq Entries
    /\ teardown \in [Entries -> 0 .. MaxAttempts]
    /\ inst \in [Entries -> [Attempts -> {"none", "run"} \cup Ends]]
    /\ cut \subseteq Entries \X Attempts /\ timed \subseteq Entries
    /\ pc \in [Callers -> {"idle"} \cup StartPcs \cup StopPcs]
    /\ call \in [Callers -> CallRecords]
    /\ boot \in [Entries -> BootStages]
    /\ nils \in Nat /\ lost \in BOOLEAN /\ panicked \in BOOLEAN

\* No channel is closed twice, no nil cancel is called and no unlocked mutex is
\* unlocked.  With Overlap this is the promise of README.md:923 that Start and
\* Stop may run against each other.
NoPanic == ~panicked

\* The promise of OrchestratorPhases.
Phase == IF stopped THEN "down"
         ELSE IF stopping THEN "stopping"
         ELSE IF InProgress THEN "starting"
         ELSE IF started THEN "up" ELSE "new"
Alive == {e \in Persistent : \E a \in Attempts : inst[e][a] = "run"}

Phases == INSTANCE OrchestratorPhases WITH
              Services <- Persistent, phase <- Phase, alive <- Alive

\* Start and Stop keep the single-shot lifecycle with its retries
\* (lifecycle.go:929-944, 1261-1268): one nil in all, nothing left running by a
\* Start that failed or a Stop that did not time out.
LifecycleSpec == Phases!Spec

\* An entry starts only once each of its dependencies had its turn in this
\* attempt, and one that is active is stopped, by the rollback (lifecycle.go:233)
\* or by Stop (:1313), only once nothing active depends on it.
InOrder ==
    \A e \in Persistent :
        /\ status[e] # "Starting" /\ status'[e] = "Starting"
              => \A d \in Deps[e] : status[d] \notin {"Registered", "Starting"}
        /\ status[e] \in Active /\ status'[e] = "Stopping"
              => \A d \in Persistent : e \in Deps[d] => status[d] \notin Active
OrderKept == [][InOrder]_vars

\* Every call of Start and Stop returns, the wait for the log pump and for the
\* health loop included, unless a goroutine was given up on before.
LifecycleReturns == \A c \in Callers : pc[c] # "idle" ~> pc[c] = "idle" \/ lost
=============================================================================
