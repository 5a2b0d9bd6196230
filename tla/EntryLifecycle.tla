---------------------------- MODULE EntryLifecycle ----------------------------
(***************************************************************************)
(* One persistent service entry of a started orchestrator: the goroutines  *)
(* that call StartService, ReplaceService, StopService and Unregister on   *)
(* it, the instance goroutines it spawns together with their exit handler  *)
(* (self-heal included), and the orchestrator's own Stop.                  *)
(*                                                                         *)
(* An action is one critical section or one lock-free access of the code;  *)
(* everything the code does between two accesses to shared state is folded *)
(* into the later one.  A call that is rejected before it claims the entry *)
(* changes nothing and is therefore no action at all.                      *)
(*                                                                         *)
(* Instances are numbered in the order their context is created.  An       *)
(* instance number also names its context, its Messenger owner and its     *)
(* exit channel (closed once pc = "exited"), and the teardown context      *)
(* startOneService creates is named after the first instance under it.     *)
(* 0 stands for nil.                                                       *)
(***************************************************************************)
EXTENDS Integers, FiniteSets

CONSTANTS
    Starters,      \* goroutines that call StartService / ReplaceService
    Stoppers,      \* goroutines that call StopService / Unregister
    StartKinds,    \* the calls a starter makes: subset of {"start", "replace"}
    StopKinds,     \* the calls a stopper makes: subset of {"stop", "unregister"}
    Deadlines,     \* may a teardown carry a deadline? subset of BOOLEAN
    SelfHeal,      \* is a factory configured (WithSelfHeal)?
    MaxRetries,    \* the retry limit, 0 for none
    ResetAfter,    \* is WithResetAfter configured?
    StartTimeout,  \* is a start timeout configured?
    StopTimeout,   \* is WithStopTimeout configured?
    Shutdowns,     \* may Orchestrator.Stop carry a deadline? subset of BOOLEAN,
                   \* empty when nobody calls it
    Launched,      \* did Orchestrator.Start start the entry already?
    MaxInstances   \* bound: instances ever created

ASSUME EntryAssumption ==
    /\ Starters \cap Stoppers = {}
    /\ StartKinds \subseteq {"start", "replace"}
    /\ StopKinds \subseteq {"stop", "unregister"}
    /\ Deadlines \subseteq BOOLEAN
    /\ SelfHeal \in BOOLEAN /\ ResetAfter \in BOOLEAN /\ StartTimeout \in BOOLEAN
    /\ StopTimeout \in BOOLEAN /\ Shutdowns \subseteq BOOLEAN /\ Launched \in BOOLEAN
    /\ MaxRetries \in Nat /\ MaxInstances \in Nat \ {0}

VARIABLES
    \* serviceEntry: reservations and registration
    starting, removing, removed,
    \* serviceEntry: the current instance as the entry sees it
    status, done, cancel, teardown, owners, retryCount, wgDone, stopsCounted,
    \* Orchestrator: wait group, context, shutdown flags, Metrics().Starts/Stops
    wg, octx, stopping, stopped, starts, stops,
    \* contexts cancelled so far
    deadTeardowns, deadInstances,
    \* instance goroutines, membership calls, the whole-orchestrator Stop
    \* (program counters stage, pc, hpc; local variables inst, call, halt)
    created, stage, inst, pc, call, hpc, halt

regVars   == <<starting, removing, removed>>
nowVars   == <<done, cancel, teardown, owners>>
latchVars == <<retryCount, wgDone, stopsCounted>>
countVars == <<wg, starts, stops>>
orchVars  == <<octx, stopping, stopped>>
ctxVars   == <<deadTeardowns, deadInstances>>
entryVars == <<regVars, status, nowVars, latchVars, countVars, orchVars, ctxVars>>
instVars  == <<created, stage, inst>>
callVars  == <<pc, call>>
haltVars  == <<hpc, halt>>
vars      == <<entryVars, instVars, callVars, haltVars>>

\* Steps that move nothing but a program counter, or that and local variables.
PcOnly    == UNCHANGED <<entryVars, instVars, call, haltVars>>
CallOnly  == UNCHANGED <<entryVars, instVars, haltVars>>
StageOnly == UNCHANGED <<entryVars, created, inst, callVars, haltVars>>
InstOnly  == UNCHANGED <<entryVars, created, callVars, haltVars>>
HpcOnly   == UNCHANGED <<entryVars, instVars, callVars, halt>>
HaltOnly  == UNCHANGED <<entryVars, instVars, callVars>>

Ids     == 1 .. MaxInstances
Callers == Starters \cup Stoppers

Statuses == {"Registered", "Starting", "Running", "Stopping", "Stopped", "Crashed"}

\* Program counters.  The first group is a start, the second a teardown.
StartPcs    == {"enter", "hooks", "contexts", "running", "latch", "add", "spawn",
                "settle", "inner"}
TeardownPcs == {"cancel", "snapshot", "begin", "mark", "sequence", "await",
                "finish", "drain"}
CallPcs     == StartPcs \cup TeardownPcs
                 \cup {"idle", "validate", "swap", "outer", "remove", "release"}
InstPcs     == {"none", "new", "run", "ctx", "decide", "active", "commit",
                "classify", "crashed", "retry", "suspend", "suspended", "capture",
                "backoff", "abort", "aborted", "cleanup", "restop", "install",
                "publish", "respawn", "latch", "release", "close", "exited"}
HaltPcs     == {"idle", "cancel", "begin", "mark", "sequence", "wait", "finish",
                "seal", "done"}

InstRecords == [era : Ids \cup {0}, seen : Ids \cup {0}, crash : BOOLEAN,
                verdict : {"none", "Stopped", "Crashed"}, next : Ids \cup {0}]
CallRecords == [kind : {"none", "start", "replace", "stop", "unregister"},
                inst : Ids \cup {0}, awaited : Ids \cup {0}, active : BOOLEAN,
                completed : BOOLEAN, err : BOOLEAN, deadline : BOOLEAN]
HaltRecords == [active : BOOLEAN, completed : BOOLEAN, deadline : BOOLEAN,
                verified : BOOLEAN]

NoCall == [kind |-> "none", inst |-> 0, awaited |-> 0, active |-> FALSE,
           completed |-> FALSE, err |-> FALSE, deadline |-> FALSE]
NoInst == [era |-> 0, seen |-> 0, crash |-> FALSE, verdict |-> "none", next |-> 0]
NoHalt == [active |-> FALSE, completed |-> FALSE, deadline |-> FALSE,
           verified |-> FALSE]

-----------------------------------------------------------------------------
(* Readings of the state. *)

\* ctx.Err() # nil for a teardown context and for an instance context: a child
\* is cancelled with its parent, and every context descends from o.ctx.
TeardownErr(t) == octx \/ t \in deadTeardowns
Cancelled(i)   == i \in deadInstances \/ TeardownErr(inst[i].era)

TeardownActive == removing \/ (teardown # 0 /\ TeardownErr(teardown))

\* The exit channel of instance i is closed.
Closed(i) == stage[i] = "exited"

\* The goroutine of instance i runs user code or its exit handler.
Live(i) == stage[i] \notin {"none", "new", "exited"}

\* Creating an instance is bounded: permits are the instances created and
\* the starts and restarts already on their way to creating one.
Room == created
          + Cardinality({c \in Starters : pc[c] # "idle"
                           /\ pc[c] \notin {"running", "latch", "add", "spawn",
                                                 "settle", "inner", "outer"}})
          + Cardinality({i \in Ids : stage[i] \in {"cleanup", "restop", "install"}})
        < MaxInstances

\* Calling a stored cancel function if there is one.
CancelUnchecked(p) == {p}                         \* mutation: no nil check
CancelNothing(p)   == {}                          \* mutation: never called
CancelFn(p)        == {p} \ {0}

\* The idempotence guard of StartService: no open exit channel.
NoInstanceByStatus == TRUE                        \* mutation: trust the status
NoInstance         == done # 0 => Closed(done)

\* The retry budget of a self-heal entry is spent.
RetriesSpentLate == MaxRetries > 0 /\ retryCount > MaxRetries  \* mutation: off by one
RetriesSpent     == MaxRetries > 0 /\ retryCount >= MaxRetries

\* The membership gates of StartService, ReplaceService and tearDown.
GateIgnoresStart ==                               \* mutation: starting not read
    ~stopping /\ ~stopped /\ ~removed /\ ~removing
GateOpen == ~stopping /\ ~stopped /\ ~removed /\ ~starting /\ ~removing

\* Moving the program counter of a call, an instance or Stop.
Goto(c, p) == pc' = [pc EXCEPT ![c] = p]
Step(i, p) == stage' = [stage EXCEPT ![i] = p]
HaltTo(p)  == hpc' = p

\* accountStop: the latch makes one instance count at most once.
AccountUnlatched ==                               \* mutation: no latch
    /\ stopsCounted' = TRUE
    /\ stops' = stops + 1
AccountStop ==
    /\ stopsCounted' = TRUE
    /\ stops' = IF stopsCounted THEN stops ELSE stops + 1

-----------------------------------------------------------------------------
(* startOneService, reached from StartService and from ReplaceService. *)

\* StartService claims the entry under membershipMu and o.mu.
ClaimStart(c) ==
    /\ pc[c] = "idle" /\ "start" \in StartKinds
    /\ GateOpen /\ Room
    /\ status # "Running"
    /\ NoInstance
    /\ starting' = TRUE
    /\ Goto(c, "enter")
    /\ call' = [call EXCEPT ![c] = [NoCall EXCEPT !.kind = "start"]]
    /\ UNCHANGED <<removing, removed, status, nowVars, latchVars, countVars,
                   orchVars, ctxVars, instVars, haltVars>>

\* Never revive a removed or removing entry; otherwise take the reservation
\* (again) and give the instance a fresh stop latch.
EnterStart(c) ==
    /\ pc[c] = "enter"
    /\ IF removed \/ removing
       THEN Goto(c, "outer") /\ UNCHANGED <<starting, stopsCounted>>
       ELSE Goto(c, "hooks") /\ starting' = TRUE /\ stopsCounted' = FALSE
    /\ UNCHANGED <<removing, removed, status, nowVars, retryCount, wgDone,
                   countVars, orchVars, ctxVars, instVars, call, haltVars>>

\* The before-start hook fails, or the start condition fails or is false ...
RefuseStart(c) ==
    /\ pc[c] = "hooks"
    /\ status' = "Stopped"
    /\ Goto(c, "inner")
    /\ UNCHANGED <<regVars, nowVars, latchVars, countVars, orchVars, ctxVars,
                   instVars, call, haltVars>>

\* ... or both let the start through.
PassStart(c) ==
    /\ pc[c] = "hooks"
    /\ status' = "Starting"
    /\ Goto(c, "contexts")
    /\ UNCHANGED <<regVars, nowVars, latchVars, countVars, orchVars, ctxVars,
                   instVars, call, haltVars>>

\* Fresh owner, teardown context and instance context.
InstallContexts(c) ==
    /\ pc[c] = "contexts" /\ created < MaxInstances
    /\ LET i == created + 1 IN
       /\ created' = i
       /\ teardown' = i /\ cancel' = i /\ owners' = owners \cup {i}
       /\ Step(i, "new") /\ inst' = [inst EXCEPT ![i].era = i]
       /\ Goto(c, "running") /\ call' = [call EXCEPT ![c].inst = i]
    /\ UNCHANGED <<regVars, status, done, latchVars, countVars, orchVars,
                   ctxVars, haltVars>>

PublishRunning(c) ==
    /\ pc[c] = "running"
    /\ status' = "Running" /\ starts' = starts + 1
    /\ Goto(c, "latch")
    /\ UNCHANGED <<regVars, nowVars, latchVars, wg, stops, orchVars, ctxVars,
                   instVars, call, haltVars>>

\* The latch of the entry may be left over from its previous instance.
KeepLatch(c) ==                                   \* mutation: not cleared
    /\ pc[c] = "latch"
    /\ Goto(c, "add")
    /\ PcOnly
ClearLatch(c) ==
    /\ pc[c] = "latch"
    /\ wgDone' = FALSE
    /\ Goto(c, "add")
    /\ UNCHANGED <<regVars, status, nowVars, retryCount, stopsCounted,
                   countVars, orchVars, ctxVars, instVars, call, haltVars>>

AddToWaitGroup(c) ==
    /\ pc[c] = "add"
    /\ wg' = wg + 1
    /\ Goto(c, "spawn")
    /\ UNCHANGED <<regVars, status, nowVars, latchVars, starts, stops,
                   orchVars, ctxVars, instVars, call, haltVars>>

Spawn(c) ==
    /\ pc[c] = "spawn"
    /\ done' = call[c].inst
    /\ Step(call[c].inst, "run")
    /\ Goto(c, IF StartTimeout THEN "settle" ELSE "inner")
    /\ UNCHANGED <<regVars, status, cancel, teardown, owners, latchVars,
                   countVars, orchVars, ctxVars, created, inst, call,
                   haltVars>>

\* The user's Start returned inside the start timeout: a self-heal instance says
\* so before its exit handler, any other one after it.
StartReturned(c) ==
    /\ pc[c] = "settle"
    /\ stage[call[c].inst]
         \in IF SelfHeal THEN InstPcs \ {"none", "new", "run"} ELSE {"close", "exited"}
    /\ Goto(c, "inner")
    /\ PcOnly

\* The timeout fired first: the instance is cancelled and left to exit by itself.
StartTimedOut(c) ==
    /\ pc[c] = "settle"
    /\ deadInstances' = deadInstances \cup CancelFn(call[c].inst)
    /\ Goto(c, "inner")
    /\ UNCHANGED <<regVars, status, nowVars, latchVars, countVars, orchVars,
                   deadTeardowns, instVars, call, haltVars>>

\* The deferred release of the reservation in startOneService ...
InnerRelease(c) ==
    /\ pc[c] = "inner"
    /\ starting' = FALSE
    /\ Goto(c, "outer")
    /\ UNCHANGED <<removing, removed, status, nowVars, latchVars, countVars,
                   orchVars, ctxVars, instVars, call, haltVars>>

\* ... and the one of StartService and ReplaceService around it.
OuterRelease(c) ==
    /\ pc[c] = "outer"
    /\ starting' = FALSE
    /\ Goto(c, "idle") /\ call' = [call EXCEPT ![c] = NoCall]
    /\ UNCHANGED <<removing, removed, status, nowVars, latchVars, countVars,
                   orchVars, ctxVars, instVars, haltVars>>

-----------------------------------------------------------------------------
(* StopService, Unregister and the teardown half of ReplaceService. *)

ClaimTeardown(c) ==
    /\ pc[c] = "idle" /\ GateOpen
    /\ removing' = TRUE
    /\ Goto(c, "cancel")
    /\ \E kind \in StopKinds, d \in Deadlines :
         call' = [call EXCEPT ![c] = [NoCall EXCEPT !.kind = kind, !.deadline = d]]
    /\ UNCHANGED <<starting, removed, status, nowVars, latchVars, countVars,
                   orchVars, ctxVars, instVars, haltVars>>

ClaimReplace(c) ==
    /\ pc[c] = "idle" /\ "replace" \in StartKinds
    /\ GateOpen /\ Room
    /\ starting' = TRUE
    /\ Goto(c, "validate")
    /\ \E d \in Deadlines :
         call' = [call EXCEPT ![c] = [NoCall EXCEPT !.kind = "replace", !.deadline = d]]
    /\ UNCHANGED <<removing, removed, status, nowVars, latchVars, countVars,
                   orchVars, ctxVars, instVars, haltVars>>

\* The replacement's Validate accepts it or not; nothing was touched yet.
ValidateReplacement(c) ==
    /\ pc[c] = "validate"
    /\ \E next \in {"cancel", "outer"} : Goto(c, next)
    /\ PcOnly

CancelContexts(c) ==
    /\ pc[c] = "cancel"
    /\ deadTeardowns' = deadTeardowns \cup CancelFn(teardown)
    /\ deadInstances' = deadInstances \cup CancelFn(cancel)
    /\ Goto(c, "snapshot")
    /\ UNCHANGED <<regVars, status, nowVars, latchVars, countVars, orchVars,
                   instVars, call, haltVars>>

SnapshotDone(c) ==
    /\ pc[c] = "snapshot"
    /\ Goto(c, "begin") /\ call' = [call EXCEPT ![c].awaited = done]
    /\ CallOnly

\* beginStop reads the status under statusMu ...
BeginStop(c) ==
    /\ pc[c] = "begin"
    /\ Goto(c, "mark")
    /\ call' = [call EXCEPT ![c].active = status \in {"Running", "Starting"}]
    /\ CallOnly

\* ... and writes it in a second critical section.
MarkStopping(c) ==
    /\ pc[c] = "mark"
    /\ status' = "Stopping"
    /\ Goto(c, "sequence")
    /\ UNCHANGED <<regVars, nowVars, latchVars, countVars, orchVars, ctxVars,
                   instVars, call, haltVars>>

\* runStopSequence returned, with or without an error ...
StopSequence(c) ==
    /\ pc[c] = "sequence"
    /\ Goto(c, "await")
    /\ \E e \in BOOLEAN :
         call' = [call EXCEPT ![c].completed = TRUE, ![c].err = e]
    /\ CallOnly

\* ... or the caller's deadline or the service's own stop timeout abandoned it.
AbandonSequence(c) ==
    /\ pc[c] = "sequence" /\ (call[c].deadline \/ StopTimeout)
    /\ Goto(c, "await") /\ call' = [call EXCEPT ![c].err = TRUE]
    /\ CallOnly

SkipAwait(c) ==                                   \* mutation: no wait
    /\ pc[c] = "await"
    /\ Goto(c, "finish")
    /\ PcOnly
AwaitExit(c) ==
    /\ pc[c] = "await"
    /\ call[c].awaited # 0 => Closed(call[c].awaited)
    /\ Goto(c, "finish")
    /\ PcOnly

AwaitTimedOut(c) ==
    /\ pc[c] = "await" /\ call[c].deadline /\ call[c].awaited # 0
    /\ Goto(c, "finish")
    /\ call' = [call EXCEPT ![c].completed = FALSE, ![c].err = TRUE]
    /\ CallOnly

\* finishStop, only for a verified stop.
FinishAndRelease(c) ==                            \* mutation: release before drain
    /\ pc[c] = "finish"
    /\ IF call[c].completed THEN status' = "Stopped" ELSE UNCHANGED status
    /\ removing' = FALSE
    /\ Goto(c, IF call[c].kind = "unregister" THEN "remove" ELSE "drain")
    /\ UNCHANGED <<starting, removed, nowVars, latchVars, countVars, orchVars,
                   ctxVars, instVars, call, haltVars>>
FinishStop(c) ==
    /\ pc[c] = "finish"
    /\ IF call[c].completed THEN status' = "Stopped" ELSE UNCHANGED status
    /\ IF call[c].completed /\ call[c].active
       THEN AccountStop
       ELSE UNCHANGED <<stopsCounted, stops>>
    /\ Goto(c, IF call[c].kind = "unregister" THEN "remove" ELSE "drain")
    /\ UNCHANGED <<regVars, nowVars, retryCount, wgDone, wg, starts, orchVars,
                   ctxVars, instVars, call, haltVars>>

\* removeEntryLocked with resetEntryLocked.
RemoveEntry(c) ==
    /\ pc[c] = "remove"
    /\ removed' = TRUE
    /\ status' = "Registered" /\ wgDone' = FALSE /\ stopsCounted' = FALSE
    /\ done' = 0 /\ cancel' = 0 /\ teardown' = 0 /\ retryCount' = 0
    /\ Goto(c, "drain")
    /\ UNCHANGED <<starting, removing, owners, countVars, orchVars, ctxVars,
                   instVars, call, haltVars>>

\* drainService: sweep every owner the entry still holds.
DrainOwners(c) ==
    /\ pc[c] = "drain"
    /\ owners' = {}
    /\ Goto(c, CASE call[c].kind # "replace" -> "release"
                 [] call[c].kind = "replace" /\ call[c].err -> "outer"
                 [] OTHER -> "swap")
    /\ UNCHANGED <<regVars, status, done, cancel, teardown, latchVars,
                   countVars, orchVars, ctxVars, instVars, call, haltVars>>

\* tearDown clears the removing flags under o.mu and returns.
ReleaseTeardown(c) ==
    /\ pc[c] = "release"
    /\ removing' = FALSE
    /\ Goto(c, "idle") /\ call' = [call EXCEPT ![c] = NoCall]
    /\ UNCHANGED <<starting, removed, status, nowVars, latchVars, countVars,
                   orchVars, ctxVars, instVars, haltVars>>

\* ReplaceService installs the new service and clears the old one's history.
SwapService(c) ==
    /\ pc[c] = "swap"
    /\ retryCount' = 0 /\ stopsCounted' = FALSE
    /\ Goto(c, "enter")
    /\ UNCHANGED <<regVars, status, nowVars, wgDone, countVars, orchVars,
                   ctxVars, instVars, call, haltVars>>

-----------------------------------------------------------------------------
(* An instance goroutine: the user's Start, then handleServiceDone. *)

\* Start returns, with a real error or a panic (crash) or without one; a
\* context.Canceled counts as a clean exit everywhere in the handler.
ExitInstance(i) ==
    /\ stage[i] = "run"
    /\ Step(i, "ctx")
    /\ \E crash \in BOOLEAN : inst' = [inst EXCEPT ![i].crash = crash]
    /\ InstOnly

\* During a whole-orchestrator shutdown Stop owns the status: only the wait
\* group is released.  The teardown context to release is captured first.
EnterUncounted(i) ==                              \* mutation: not even that
    /\ stage[i] = "ctx"
    /\ Step(i, IF octx THEN "release" ELSE IF SelfHeal THEN "classify" ELSE "decide")
    /\ StageOnly
EnterHandler(i) ==
    /\ stage[i] = "ctx"
    /\ Step(i, IF octx THEN "latch" ELSE IF SelfHeal THEN "classify" ELSE "decide")
    /\ inst' = [inst EXCEPT ![i].seen = IF SelfHeal THEN 0 ELSE teardown]
    /\ InstOnly

\* The terminal status of an instance that is not restarted.  A teardown in
\* progress commits it itself ...
DecideRemoving(i) ==
    /\ stage[i] = "decide"
    /\ Step(i, IF removing THEN "latch" ELSE "active")
    /\ StageOnly

\* ... a teardown that began before the exit wins over a crash.  A self-heal
\* instance reported its crash before it came here.
VerdictOnCrashOnly(i) ==                          \* mutation: clean exit forgotten
    IF TeardownActive THEN "Stopped" ELSE IF inst[i].crash THEN "Crashed" ELSE "none"
Verdict(i) ==
    CASE TeardownActive               -> "Stopped"
      [] ~TeardownActive /\ SelfHeal  -> IF inst[i].crash THEN "none" ELSE "Crashed"
      [] ~TeardownActive /\ ~SelfHeal -> IF inst[i].crash THEN "Crashed" ELSE "Stopped"

DecideVerdict(i) ==
    /\ stage[i] = "active"
    /\ Step(i, "commit") /\ inst' = [inst EXCEPT ![i].verdict = Verdict(i)]
    /\ InstOnly

CommitVerdict(i) ==
    /\ stage[i] = "commit"
    /\ status' = IF inst[i].verdict = "none" THEN status ELSE inst[i].verdict
    /\ IF inst[i].verdict = "Stopped" /\ ~SelfHeal
       THEN AccountStop
       ELSE UNCHANGED <<stopsCounted, stops>>
    /\ Step(i, "latch")
    /\ UNCHANGED <<regVars, nowVars, retryCount, wgDone, wg, starts, orchVars,
                   ctxVars, created, inst, callVars, haltVars>>

\* Self-heal: forget old retries after a stable run and classify the exit.
ClassifyExit(i) ==
    /\ stage[i] = "classify"
    /\ \E stable \in {FALSE, ResetAfter} :
         retryCount' = IF stable THEN 0 ELSE retryCount
    /\ Step(i, IF inst[i].crash /\ ~TeardownActive THEN "crashed" ELSE "retry")
    /\ UNCHANGED <<regVars, status, nowVars, wgDone, stopsCounted, countVars,
                   orchVars, ctxVars, created, inst, callVars, haltVars>>

ReportCrash(i) ==
    /\ stage[i] = "crashed"
    /\ status' = "Crashed"
    /\ Step(i, "retry")
    /\ UNCHANGED <<regVars, nowVars, latchVars, countVars, orchVars, ctxVars,
                   created, inst, callVars, haltVars>>

CountRetry(i) ==
    /\ stage[i] = "retry"
    /\ IF RetriesSpent
       THEN Step(i, "decide") /\ UNCHANGED retryCount
       ELSE Step(i, "suspend") /\ retryCount' = retryCount + 1
    /\ UNCHANGED <<regVars, status, nowVars, wgDone, stopsCounted, countVars,
                   orchVars, ctxVars, created, inst, callVars, haltVars>>

\* A clean exit is reported Stopped for the time of the backoff.
SuspendInstance(i) ==
    /\ stage[i] = "suspend"
    /\ Step(i, IF ~inst[i].crash /\ ~TeardownActive THEN "suspended" ELSE "capture")
    /\ StageOnly

ReportSuspended(i) ==
    /\ stage[i] = "suspended"
    /\ status' = "Stopped"
    /\ Step(i, "capture")
    /\ UNCHANGED <<regVars, nowVars, latchVars, countVars, orchVars, ctxVars,
                   created, inst, callVars, haltVars>>

\* Release the dead instance's owner and pick the teardown context to watch.
CaptureTeardown(i) ==
    /\ stage[i] = "capture"
    /\ owners' = owners \ {i}
    /\ Step(i, "backoff") /\ inst' = [inst EXCEPT ![i].seen = teardown]
    /\ UNCHANGED <<regVars, status, done, cancel, teardown, latchVars,
                   countVars, orchVars, ctxVars, created, callVars, haltVars>>

\* The backoff ends, by its timer or by the teardown, and the teardown is read
\* once more.  A nil teardown falls back to the instance's own context.
EndBackoff(i) ==
    /\ stage[i] = "backoff"
    /\ IF IF inst[i].seen = 0 THEN Cancelled(i) ELSE TeardownErr(inst[i].seen)
       THEN Step(i, "abort")
       ELSE Room /\ Step(i, "cleanup")
    /\ StageOnly

AbortUncounted(i) ==                              \* mutation: wait group forgotten
    /\ stage[i] = "abort"
    /\ Step(i, "release")
    /\ StageOnly
AbortRestart(i) ==
    /\ stage[i] = "abort"
    /\ Step(i, IF removing THEN "latch" ELSE "aborted")
    /\ StageOnly

ReportAborted(i) ==
    /\ stage[i] = "aborted"
    /\ status' = "Stopped"
    /\ Step(i, "latch")
    /\ UNCHANGED <<regVars, nowVars, latchVars, countVars, orchVars, ctxVars,
                   created, inst, callVars, haltVars>>

\* The dead incarnation's context goes before its Stop sequence runs ...
CancelIncarnation(i) ==
    /\ stage[i] = "cleanup"
    /\ deadInstances' = deadInstances \cup CancelFn(cancel)
    /\ Step(i, "restop")
    /\ UNCHANGED <<regVars, status, nowVars, latchVars, countVars, orchVars,
                   deadTeardowns, created, inst, callVars, haltVars>>

\* ... and once that returned the next instance gets its own stop latch.
CleanUpIncarnation(i) ==
    /\ stage[i] = "restop"
    /\ stopsCounted' = FALSE
    /\ Step(i, "install")
    /\ UNCHANGED <<regVars, status, nowVars, retryCount, wgDone, countVars,
                   orchVars, ctxVars, created, inst, callVars, haltVars>>

\* The factory's service, its context under the same teardown, owner and done.
InstallRestart(i) ==
    /\ stage[i] = "install" /\ created < MaxInstances
    /\ LET n == created + 1
           e == IF inst[i].seen = 0 THEN inst[i].era ELSE inst[i].seen IN
       /\ created' = n
       /\ cancel' = n /\ owners' = owners \cup {n} /\ done' = n
       /\ stage' = [stage EXCEPT ![i] = "publish", ![n] = "new"]
       /\ inst' = [inst EXCEPT ![i].next = n, ![n].era = e]
    /\ UNCHANGED <<regVars, status, teardown, latchVars, countVars, orchVars,
                   ctxVars, callVars, haltVars>>

PublishRestart(i) ==
    /\ stage[i] = "publish"
    /\ status' = "Running"
    /\ Step(i, "respawn")
    /\ UNCHANGED <<regVars, nowVars, latchVars, countVars, orchVars, ctxVars,
                   created, inst, callVars, haltVars>>

Respawn(i) ==
    /\ stage[i] = "respawn"
    /\ stage' = [stage EXCEPT ![i] = "release", ![inst[i].next] = "run"]
    /\ StageOnly

\* wg.Done, at most once per latch.
ReleaseWaitGroup(i) ==
    /\ stage[i] = "latch"
    /\ wgDone' = TRUE
    /\ wg' = IF wgDone THEN wg ELSE wg - 1
    /\ Step(i, "release")
    /\ UNCHANGED <<regVars, status, nowVars, retryCount, stopsCounted, starts,
                   stops, orchVars, ctxVars, created, inst, callVars,
                   haltVars>>

\* The deferred releases: the teardown context if it is still the captured one
\* (never for self-heal), then the Messenger owner.
ReleaseContexts(i) ==
    /\ stage[i] = "release"
    /\ IF ~SelfHeal /\ teardown = inst[i].seen
       THEN teardown' = 0 /\ deadTeardowns' = deadTeardowns \cup CancelFn(teardown)
       ELSE UNCHANGED <<teardown, deadTeardowns>>
    /\ owners' = owners \ {i}
    /\ Step(i, "close")
    /\ UNCHANGED <<regVars, status, done, cancel, latchVars, countVars,
                   orchVars, deadInstances, created, inst, callVars,
                   haltVars>>

CloseDone(i) ==
    /\ stage[i] = "close"
    /\ Step(i, "exited")
    /\ StageOnly

-----------------------------------------------------------------------------
(* Orchestrator.Stop, as far as it touches this entry. *)

HaltGate ==
    /\ hpc = "idle"
    /\ stopping' = TRUE
    /\ HaltTo("cancel")
    /\ \E d \in Shutdowns : halt' = [halt EXCEPT !.deadline = d]
    /\ UNCHANGED <<regVars, status, nowVars, latchVars, countVars, octx,
                   stopped, ctxVars, instVars, callVars>>

HaltCancel ==
    /\ hpc = "cancel"
    /\ octx' = TRUE
    /\ HaltTo("begin")
    /\ UNCHANGED <<regVars, status, nowVars, latchVars, countVars, stopping,
                   stopped, ctxVars, instVars, callVars, halt>>

\* Stop works on a snapshot of the registry; beginStop reads, then writes.
HaltBegin ==
    /\ hpc = "begin"
    /\ IF removed
       THEN HaltTo("wait") /\ UNCHANGED halt
       ELSE /\ HaltTo("mark")
            /\ halt' = [halt EXCEPT !.active = status \in {"Running", "Starting"}]
    /\ HaltOnly

HaltMark ==
    /\ hpc = "mark"
    /\ status' = "Stopping"
    /\ HaltTo("sequence")
    /\ UNCHANGED <<regVars, nowVars, latchVars, countVars, orchVars, ctxVars,
                   instVars, callVars, halt>>

HaltSequence ==
    /\ hpc = "sequence"
    /\ HaltTo("wait")
    /\ \E ok \in BOOLEAN :
         /\ ~ok => halt.deadline \/ StopTimeout
         /\ halt' = [halt EXCEPT !.completed = ok]
    /\ HaltOnly

\* wg.Wait returned: every stop is verified.
HaltNoWait ==                                     \* mutation: no wait
    /\ hpc = "wait"
    /\ HaltTo("finish") /\ halt' = [halt EXCEPT !.verified = TRUE]
    /\ HaltOnly
HaltWait ==
    /\ hpc = "wait" /\ wg = 0
    /\ HaltTo("finish") /\ halt' = [halt EXCEPT !.verified = TRUE]
    /\ HaltOnly

HaltTimedOut ==
    /\ hpc = "wait" /\ halt.deadline
    /\ HaltTo("seal")
    /\ HpcOnly

HaltFinish ==
    /\ hpc = "finish"
    /\ IF halt.completed THEN status' = "Stopped" ELSE UNCHANGED status
    /\ IF halt.completed /\ halt.active
       THEN AccountStop
       ELSE UNCHANGED <<stopsCounted, stops>>
    /\ HaltTo("seal")
    /\ UNCHANGED <<regVars, nowVars, retryCount, wgDone, wg, starts, orchVars,
                   ctxVars, instVars, callVars, halt>>

HaltSeal ==
    /\ hpc = "seal"
    /\ stopping' = FALSE /\ stopped' = TRUE
    /\ HaltTo("done")
    /\ UNCHANGED <<regVars, status, nowVars, latchVars, countVars, octx,
                   ctxVars, instVars, callVars, halt>>

-----------------------------------------------------------------------------
\* The entry as Register leaves it in a started orchestrator (a hot add), or as
\* Start leaves it: one instance, spawned by startOneService.
Init ==
    /\ starting = FALSE /\ removing = FALSE /\ removed = FALSE
    /\ status = IF Launched THEN "Running" ELSE "Registered"
    /\ created = IF Launched THEN 1 ELSE 0
    /\ done = created /\ cancel = created /\ teardown = created
    /\ wg = created /\ starts = created
    /\ owners = IF Launched THEN {1} ELSE {}
    /\ stage = [i \in Ids |-> IF Launched /\ i = 1 THEN "run" ELSE "none"]
    /\ inst = [i \in Ids |-> IF Launched /\ i = 1 THEN [NoInst EXCEPT !.era = 1]
                             ELSE NoInst]
    /\ retryCount = 0 /\ wgDone = FALSE /\ stopsCounted = FALSE /\ stops = 0
    /\ octx = FALSE /\ stopping = FALSE /\ stopped = FALSE
    /\ deadTeardowns = {} /\ deadInstances = {}
    /\ pc = [c \in Callers |-> "idle"] /\ call = [c \in Callers |-> NoCall]
    /\ hpc = "idle" /\ halt = NoHalt

StartStep(c) ==
    \/ EnterStart(c) \/ RefuseStart(c) \/ PassStart(c) \/ InstallContexts(c)
    \/ PublishRunning(c) \/ ClearLatch(c) \/ AddToWaitGroup(c) \/ Spawn(c)
    \/ StartReturned(c) \/ StartTimedOut(c) \/ InnerRelease(c) \/ OuterRelease(c)

TeardownStep(c) ==
    \/ ValidateReplacement(c) \/ CancelContexts(c) \/ SnapshotDone(c) \/ BeginStop(c)
    \/ MarkStopping(c) \/ StopSequence(c) \/ AbandonSequence(c) \/ AwaitExit(c)
    \/ AwaitTimedOut(c) \/ FinishStop(c) \/ RemoveEntry(c) \/ DrainOwners(c)
    \/ ReleaseTeardown(c) \/ SwapService(c)

CallStep(c) == StartStep(c) \/ TeardownStep(c)

Claim ==
    \/ \E c \in Starters : ClaimStart(c) \/ ClaimReplace(c)
    \/ \E c \in Stoppers : ClaimTeardown(c)

HandlerStep(i) ==
    \/ EnterHandler(i) \/ DecideRemoving(i) \/ DecideVerdict(i) \/ CommitVerdict(i)
    \/ ClassifyExit(i) \/ ReportCrash(i) \/ CountRetry(i) \/ SuspendInstance(i)
    \/ ReportSuspended(i) \/ CaptureTeardown(i) \/ EndBackoff(i) \/ AbortRestart(i)
    \/ ReportAborted(i) \/ CancelIncarnation(i) \/ CleanUpIncarnation(i)
    \/ InstallRestart(i) \/ PublishRestart(i) \/ Respawn(i) \/ ReleaseWaitGroup(i)
    \/ ReleaseContexts(i) \/ CloseDone(i)

HaltStep ==
    \/ HaltCancel \/ HaltBegin \/ HaltMark \/ HaltSequence \/ HaltWait
    \/ HaltTimedOut \/ HaltFinish \/ HaltSeal

Next ==
    \/ Claim
    \/ \E c \in Callers : CallStep(c)
    \/ \E i \in Ids : ExitInstance(i) \/ HandlerStep(i)
    \/ HaltGate \/ HaltStep

Spec == Init /\ [][Next]_vars

\* Scheduled goroutines run, user Stop calls and hooks return, and a service
\* honours the cancellation of its context.  Nobody has to make a call.
Fairness ==
    /\ \A c \in Callers : WF_vars(CallStep(c))
    /\ \A i \in Ids : WF_vars(HandlerStep(i))
                      /\ WF_vars(ExitInstance(i) /\ Cancelled(i))
    /\ WF_vars(HaltStep)

FairSpec == Spec /\ Fairness

-----------------------------------------------------------------------------
(* Properties. *)

TypeOK ==
    /\ starting \in BOOLEAN /\ removing \in BOOLEAN /\ removed \in BOOLEAN
    /\ status \in Statuses
    /\ done \in Ids \cup {0} /\ cancel \in Ids \cup {0} /\ teardown \in Ids \cup {0}
    /\ owners \subseteq Ids /\ retryCount \in Nat
    /\ wgDone \in BOOLEAN /\ stopsCounted \in BOOLEAN
    /\ wg \in Int /\ starts \in Nat /\ stops \in Nat
    /\ octx \in BOOLEAN /\ stopping \in BOOLEAN /\ stopped \in BOOLEAN
    /\ deadTeardowns \subseteq Ids /\ deadInstances \subseteq Ids
    /\ created \in Ids \cup {0}
    /\ stage \in [Ids -> InstPcs] /\ inst \in [Ids -> InstRecords]
    /\ pc \in [Callers -> CallPcs] /\ call \in [Callers -> CallRecords]
    /\ hpc \in HaltPcs /\ halt \in HaltRecords

\* Call c is between its claim and the release of the reservation.
Holding(c) == pc[c] \notin {"idle", "outer"}

\* The reservation protocol of starting/removing: however StartService,
\* ReplaceService, StopService and Unregister interleave, at most one of them is
\* inside its start or teardown of the entry.
ReservationExclusive ==
    \A c, d \in Callers : Holding(c) /\ Holding(d) => c = d

\* Never two instance goroutines of one entry in the user's Start at a time.
AtMostOneInstance ==
    \A i, j \in Ids : stage[i] = "run" /\ stage[j] = "run" => i = j

\* An instance the wait group still has to hear of.
Unreleased(i) ==
    \/ stage[i] \notin {"none", "new", "release", "close", "exited"}
    \/ \E c \in Starters : pc[c] = "spawn" /\ call[c].inst = i

\* The wait group counts exactly the instances that did not release it yet, so
\* it returns to zero and never panics below it.
WaitGroupBalanced == wg = Cardinality({i \in Ids : Unreleased(i)})

\* A StopService, Unregister or ReplaceService that verified its stop (and is
\* about to return nil or to install the replacement) leaves nothing running.
StopMeansExited ==
    \A c \in Callers :
        /\ pc[c] \in {"remove", "drain", "release", "swap"}
        /\ call[c].completed
        => \A i \in Ids : ~Live(i)

\* A running instance nobody cancelled keeps its Messenger owner: no drain of a
\* teardown or of a predecessor sweeps it away.
RunningKeepsOwner ==
    \A i \in Ids : stage[i] = "run" /\ ~Cancelled(i) => i \in owners

\* Status does not keep reading Running over a dead instance: with no call on
\* the entry in progress and no shutdown, Running means alive.
RunningIsAlive ==
    status = "Running" /\ ~octx /\ (\A c \in Callers : ~Holding(c))
        => \E i \in Ids : Live(i)

\* One start era of a self-heal entry never has more than MaxRetries restarts,
\* unless WithResetAfter forgives them.
RetriesBounded ==
    MaxRetries > 0 /\ ~ResetAfter =>
        \A e \in Ids : Cardinality({i \in Ids : inst[i].era = e}) <= MaxRetries + 1

\* After an Orchestrator.Stop that verified the shutdown no instance runs user
\* code or is about to be restarted, and Status does not claim that one does.
ShutdownMeansExited ==
    hpc = "done" /\ halt.verified =>
        /\ \A i \in Ids : ~Unreleased(i)
        /\ halt.completed => status # "Running"

\* Every call that claimed the entry returns.
CallsReturn == \A c \in Callers : Holding(c) ~> ~Holding(c)

\* Orchestrator.Stop returns.
ShutdownReturns == hpc # "idle" ~> hpc = "done"

-----------------------------------------------------------------------------
(* The abstract promise, and this module as an implementation of it. *)

SlotMode ==
    IF \E c \in Starters : Holding(c) THEN "start"
    ELSE IF \E c \in Stoppers : Holding(c) THEN "stop" ELSE "free"

\* The number of instances whose goroutine was spawned.
Launches == Cardinality({i \in Ids : stage[i] \notin {"none", "new"}})

Slot == INSTANCE ServiceSlot WITH
          Preset   <- IF Launched THEN 1 ELSE 0,
          mode     <- SlotMode,
          alive    <- {i \in Ids : stage[i] = "run"},
          launched <- Launches,
          gone     <- removed

\* StartService, ReplaceService, StopService and Unregister keep the promise of
\* ServiceSlot.
SlotSpec == Slot!Spec

=============================================================================
