----------------------------- MODULE CronSchedule -----------------------------
(***************************************************************************)
(* One cron entry of a started orchestrator: the tick goroutines the       *)
(* scheduler dispatches (invokeCron), the per-schedule accounting they     *)
(* share with the teardown (cronBegin, cronEnd, cronDrain), the membership *)
(* calls that install and remove its schedule, and Orchestrator.Stop.      *)
(*                                                                         *)
(* The membership calls come one at a time: the entry's reservation, which *)
(* EntryLifecycle models, keeps others out.  An action is one critical     *)
(* section or lock-free access, or neighbours that no other goroutine can  *)
(* tell apart.  A generation number also names the schedule context and    *)
(* the drain latch of that generation: a latch is made only while the      *)
(* schedule drains with ticks in flight, and no tick joins after that, so  *)
(* a generation has at most one.  0 stands for nil.                        *)
(***************************************************************************)
EXTENDS Integers, FiniteSets

CONSTANTS
    Ticks,          \* tick goroutines; one that ended may be dispatched again
    Modes,          \* concurrency policies: subset of {"parallel", "queue", "skip"}
    Kinds,          \* membership calls: subset of {"start", "stop", "unregister", "replace"}
    Deadlines,      \* may a teardown carry a deadline? subset of BOOLEAN
    Shutdowns,      \* may Orchestrator.Stop carry a deadline? subset of BOOLEAN,
                    \* empty when nobody calls it
    Stubborn,       \* the ticks whose Start ignores the cancellation of its context
    MaxGenerations  \* bound: schedules ever installed

ASSUME CronAssumption ==
    /\ IsFiniteSet(Ticks) /\ Stubborn \subseteq Ticks /\ 0 \notin Ticks
    /\ Modes \subseteq {"parallel", "queue", "skip"}
    /\ Kinds \subseteq {"start", "stop", "unregister", "replace"}
    /\ Deadlines \subseteq BOOLEAN /\ Shutdowns \subseteq BOOLEAN
    /\ MaxGenerations \in Nat \ {0}

VARIABLES
    \* serviceEntry: cron mode (fixed by the registration), status, stop latch,
    \* registration, schedule id (the generation it runs), Messenger owners
    mode, status, stopsCounted, removed, cronID, owners,
    \* serviceEntry: CronSkip flag and CronQueue mutex (0 when free)
    running, cronMu,
    \* serviceEntry: the accounting under cronTrackMu
    cronGen, cronCtx, cronActive, cronDraining, cronDrained,
    \* schedule contexts cancelled and drain latches closed so far
    cancelled, closed,
    \* the scheduler: the generations it dispatches, and is it on?
    scheduled, ticking,
    \* Orchestrator: context, shutdown flags, Metrics().Starts and Stops
    octx, stopping, stopped, starts, stops,
    \* tick goroutines: program counter and generation
    tick, gen,
    \* the membership call and the whole-orchestrator Stop: program counters
    \* and local variables
    pc, call, hpc, halt

entryVars == <<mode, status, stopsCounted, removed, cronID, owners>>
gateVars  == <<running, cronMu>>
trackVars == <<cronGen, cronCtx, cronActive, cronDraining, cronDrained, cancelled, closed>>
schedVars == <<scheduled, ticking>>
orchVars  == <<octx, stopping, stopped, starts, stops>>
tickVars  == <<tick, gen>>
callVars  == <<pc, call>>
haltVars  == <<hpc, halt>>
vars      == <<entryVars, gateVars, trackVars, schedVars, orchVars, tickVars,
               callVars, haltVars>>

Statuses    == {"Registered", "Running", "Stopping", "Stopped"}
TickPcs     == {"idle", "begin", "gate", "owner", "run", "release", "end"}
CallPcs     == {"idle", "schedule", "publish", "forget", "unschedule", "drain", "begin",
                "mark", "sequence", "await", "finish", "remove", "sweep", "swap"}
HaltPcs     == {"idle", "cancel", "jobs", "begin", "mark", "finish", "done"}
CallRecords == [kind : {"none", "start", "stop", "unregister", "replace"},
                id : Nat, awaited : Nat,
                active : BOOLEAN, completed : BOOLEAN, err : BOOLEAN, deadline : BOOLEAN]
HaltRecords == [active : BOOLEAN, deadline : BOOLEAN]

NoCall == [kind |-> "none", id |-> 0, awaited |-> 0, active |-> FALSE,
           completed |-> FALSE, err |-> FALSE, deadline |-> FALSE]
NoHalt == [active |-> FALSE, deadline |-> FALSE]

-----------------------------------------------------------------------------
(* Readings of the state. *)

\* ctx.Err() # nil for the context of generation g, a child of o.ctx.
Cancelled(g) == octx \/ g \in cancelled

\* Tick t is between cronBegin and cronEnd of generation g.
InFlight(t, g) == tick[t] \notin {"idle", "begin"} /\ gen[t] = g

\* cronBegin refuses a tick of a draining, superseded or cancelled schedule.
RefusesNone(g)  == cronCtx = 0                     \* mutation: no other check
RefusesTick(g)  == \/ cronDraining \/ cronCtx = 0
                   \/ g # cronGen \/ Cancelled(cronCtx)

Reserved == pc # "idle"
GateOpen == ~stopping /\ ~stopped /\ ~removed /\ ~Reserved

\* Moving the program counter of a tick, of the call, of Stop.
TickTo(t, p) == tick' = [tick EXCEPT ![t] = p]
Goto(p)      == pc' = p
HaltTo(p)    == hpc' = p

\* accountStop: the latch makes one instance count at most once.
AccountStop ==
    /\ stopsCounted' = TRUE
    /\ stops' = IF stopsCounted THEN stops ELSE stops + 1

-----------------------------------------------------------------------------
(* invokeCron: one tick. *)

\* External: the scheduler spawns a goroutine for a due tick.
Dispatch(t) ==
    /\ tick[t] = "idle" /\ ticking
    /\ \E g \in scheduled : gen' = [gen EXCEPT ![t] = g]
    /\ TickTo(t, "begin")
    /\ UNCHANGED <<entryVars, gateVars, trackVars, schedVars, orchVars,
                   callVars, haltVars>>

CronBegin(t) ==
    /\ tick[t] = "begin"
    /\ IF RefusesTick(gen[t])
       THEN /\ TickTo(t, "idle") /\ gen' = [gen EXCEPT ![t] = 0]
            /\ UNCHANGED cronActive
       ELSE /\ TickTo(t, "gate") /\ cronActive' = cronActive + 1
            /\ UNCHANGED gen
    /\ UNCHANGED <<entryVars, gateVars, cronGen, cronCtx, cronDraining,
                   cronDrained, cancelled, closed, schedVars, orchVars,
                   callVars, haltVars>>

\* The concurrency policy: a CronSkip tick gives up, a CronQueue tick waits.
LeavesGate == "release"                              \* mutation: released by a skipped tick
Skipped    == "end"
EnterGate(t) ==
    /\ tick[t] = "gate"
    /\ \/ /\ mode = "parallel"
          /\ TickTo(t, "owner") /\ UNCHANGED gateVars
       \/ /\ mode = "queue" /\ cronMu = 0
          /\ cronMu' = t
          /\ TickTo(t, "owner") /\ UNCHANGED running
       \/ /\ mode = "skip"
          /\ running' = TRUE
          /\ TickTo(t, IF running THEN Skipped ELSE "owner")
          /\ UNCHANGED cronMu
    /\ UNCHANGED <<entryVars, trackVars, schedVars, orchVars, gen, callVars,
                   haltVars>>

NewOwner(t) ==
    /\ tick[t] = "owner"
    /\ owners' = owners \cup {t}
    /\ TickTo(t, "run")
    /\ UNCHANGED <<mode, status, stopsCounted, removed, cronID, gateVars, trackVars,
                   schedVars, orchVars, gen, callVars, haltVars>>

\* The user's Start returns or panics: the deferred releases run in any case.
TickReturns(t) ==
    /\ tick[t] = "run"
    /\ TickTo(t, "release")
    /\ UNCHANGED <<entryVars, gateVars, trackVars, schedVars, orchVars, gen,
                   callVars, haltVars>>

\* The owner is released, then the policy's lock or flag; only the sweep of a
\* teardown touches the owners as well, and it commutes.
KeepOwners(t) == owners                            \* mutation: owner not released
LosesOwner(t) == owners \ {t}
LeaveGate(t) ==
    /\ tick[t] = "release"
    /\ owners' = LosesOwner(t)
    /\ cronMu' = IF mode = "queue" THEN 0 ELSE cronMu
    /\ running' = (running /\ mode # "skip")
    /\ TickTo(t, "end")
    /\ UNCHANGED <<mode, status, stopsCounted, removed, cronID, trackVars, schedVars,
                   orchVars, gen, callVars, haltVars>>

\* The last tick of a draining generation closes the latch; a stale generation
\* touches nothing.
EndsAny(t)     == TRUE                             \* mutation: generation not compared
EndsCurrent(t) == gen[t] = cronGen
CronEnd(t) ==
    /\ tick[t] = "end"
    /\ TickTo(t, "idle") /\ gen' = [gen EXCEPT ![t] = 0]
    /\ IF EndsCurrent(t)
       THEN /\ cronActive' = cronActive - 1
            /\ IF cronActive = 1 /\ cronDraining /\ cronDrained # 0
               THEN closed' = closed \cup {cronDrained} /\ cronDrained' = 0
               ELSE UNCHANGED <<closed, cronDrained>>
       ELSE UNCHANGED <<cronActive, closed, cronDrained>>
    /\ UNCHANGED <<entryVars, gateVars, cronGen, cronCtx, cronDraining,
                   cancelled, schedVars, orchVars, callVars, haltVars>>

-----------------------------------------------------------------------------
(* StartService, and the second half of ReplaceService. *)

\* The claim: refused while a call holds the entry or a shutdown is on; an
\* entry that is Running needs no start.
ClaimStart ==
    /\ "start" \in Kinds /\ GateOpen
    /\ status # "Running" /\ cronGen < MaxGenerations
    /\ Goto("schedule") /\ call' = [NoCall EXCEPT !.kind = "start"]
    /\ UNCHANGED <<entryVars, gateVars, trackVars, schedVars, orchVars, tickVars,
                   haltVars>>

\* startCronEntry and scheduleEntry under o.mu, with startCronSchedule: a new
\* generation unless a schedule is still installed.
Schedule ==
    /\ pc = "schedule"
    /\ IF cronID = 0
       THEN /\ cancelled' = cancelled \cup ({cronCtx} \ {0})
            /\ cronGen' = cronGen + 1 /\ cronCtx' = cronGen + 1
            /\ cronActive' = 0 /\ cronDraining' = FALSE /\ cronDrained' = 0
            /\ scheduled' = scheduled \cup {cronGen + 1}
            /\ cronID' = cronGen + 1
       ELSE UNCHANGED <<cancelled, cronGen, cronCtx, cronActive, cronDraining,
                        cronDrained, scheduled, cronID>>
    /\ Goto("publish")
    /\ UNCHANGED <<mode, status, stopsCounted, removed, owners, gateVars, closed,
                   ticking, orchVars, tickVars, call, haltVars>>

PublishRunning ==
    /\ pc = "publish"
    /\ status' = "Running" /\ starts' = starts + 1
    /\ Goto("idle") /\ call' = NoCall
    /\ UNCHANGED <<mode, stopsCounted, removed, cronID, owners, gateVars,
                   trackVars, schedVars, octx, stopping, stopped, stops,
                   tickVars, haltVars>>

-----------------------------------------------------------------------------
(* StopService, Unregister, and the first half of ReplaceService: stopEntry. *)

ClaimTeardown ==
    /\ GateOpen
    /\ \E kind \in Kinds \ {"start"}, deadline \in Deadlines :
          /\ kind = "replace" => cronGen < MaxGenerations
          /\ call' = [NoCall EXCEPT !.kind = kind, !.deadline = deadline]
    /\ Goto("forget")
    /\ UNCHANGED <<entryVars, gateVars, trackVars, schedVars, orchVars, tickVars,
                   haltVars>>

\* removeCronEntry: the id is taken under o.mu, the schedule removed after it.
ForgetFirst ==                                     \* mutation: cleared, then read
    /\ pc = "forget"
    /\ cronID' = 0
    /\ Goto("unschedule") /\ call' = [call EXCEPT !.id = 0]
    /\ UNCHANGED <<mode, status, stopsCounted, removed, owners, gateVars, trackVars,
                   schedVars, orchVars, tickVars, haltVars>>
ForgetSchedule ==
    /\ pc = "forget"
    /\ cronID' = 0
    /\ Goto("unschedule") /\ call' = [call EXCEPT !.id = cronID]
    /\ UNCHANGED <<mode, status, stopsCounted, removed, owners, gateVars, trackVars,
                   schedVars, orchVars, tickVars, haltVars>>

Unschedule ==
    /\ pc = "unschedule"
    /\ scheduled' = scheduled \ {call.id}
    /\ Goto("drain") /\ call' = [call EXCEPT !.id = 0]
    /\ UNCHANGED <<entryVars, gateVars, trackVars, ticking, orchVars, tickVars,
                   haltVars>>

\* cronDrain: refuse new ticks, cancel the schedule's, and return a latch unless
\* none is in flight.
NeedsLatch       == TRUE                           \* mutation: even with none in flight
TicksLeft        == cronActive # 0
NoCancellation   == cancelled                      \* mutation: ticks not cancelled
CancelSchedule   == cancelled \cup ({cronCtx} \ {0})
DrainTicks ==
    /\ pc = "drain"
    /\ cronDraining' = TRUE /\ cancelled' = CancelSchedule
    /\ cronDrained' = IF TicksLeft /\ cronDrained = 0 THEN cronGen ELSE cronDrained
    /\ call' = [call EXCEPT !.awaited = IF TicksLeft THEN cronGen ELSE 0]
    /\ Goto("begin")
    /\ UNCHANGED <<entryVars, gateVars, cronGen, cronCtx, cronActive, closed,
                   schedVars, orchVars, tickVars, haltVars>>

\* beginStop: the status is read, then written.
BeginStop ==
    /\ pc = "begin"
    /\ call' = [call EXCEPT !.active = status = "Running", !.completed = TRUE]
    /\ Goto("mark")
    /\ UNCHANGED <<entryVars, gateVars, trackVars, schedVars, orchVars, tickVars,
                   haltVars>>

MarkStopping ==
    /\ pc = "mark"
    /\ status' = "Stopping"
    /\ Goto("sequence")
    /\ UNCHANGED <<mode, stopsCounted, removed, cronID, owners, gateVars, trackVars,
                   schedVars, orchVars, tickVars, call, haltVars>>

\* The hooks and the user's Stop ran, perhaps with an error, or the deadline
\* abandoned them.
StopSequence ==
    /\ pc = "sequence"
    /\ \E completed, err \in BOOLEAN :
          /\ ~completed => call.deadline /\ err
          /\ call' = [call EXCEPT !.completed = completed, !.err = err]
    /\ Goto("await")
    /\ UNCHANGED <<entryVars, gateVars, trackVars, schedVars, orchVars, tickVars,
                   haltVars>>

\* awaitDone: nil and a closed latch let the call pass.
SkipAwait    == TRUE                               \* mutation: ticks not awaited
LatchOpen    == call.awaited = 0 \/ call.awaited \in closed
AwaitTicks ==
    /\ pc = "await" /\ LatchOpen
    /\ Goto("finish") /\ call' = [call EXCEPT !.awaited = 0]
    /\ UNCHANGED <<entryVars, gateVars, trackVars, schedVars, orchVars, tickVars,
                   haltVars>>

AwaitTimedOut ==
    /\ pc = "await" /\ call.deadline /\ call.awaited # 0
    /\ Goto("finish")
    /\ call' = [call EXCEPT !.awaited = 0, !.completed = FALSE, !.err = TRUE]
    /\ UNCHANGED <<entryVars, gateVars, trackVars, schedVars, orchVars, tickVars,
                   haltVars>>

\* finishStop, for a verified stop only.  Nobody holds a closed latch any more.
FinishStop ==
    /\ pc = "finish"
    /\ status' = IF call.completed THEN "Stopped" ELSE status
    /\ IF call.completed /\ call.active
       THEN AccountStop
       ELSE UNCHANGED <<stopsCounted, stops>>
    /\ closed' = {}
    /\ Goto(IF call.kind = "unregister" THEN "remove" ELSE "sweep")
    /\ call' = [NoCall EXCEPT !.kind = call.kind, !.err = call.err]
    /\ UNCHANGED <<mode, removed, cronID, owners, gateVars, cronGen, cronCtx,
                   cronActive, cronDraining, cronDrained, cancelled, schedVars,
                   octx, stopping, stopped, starts, tickVars, haltVars>>

\* removeEntryLocked with resetEntryLocked and resetCronAccounting.
RemoveEntry ==
    /\ pc = "remove"
    /\ removed' = TRUE
    /\ status' = "Registered" /\ stopsCounted' = FALSE /\ running' = FALSE
    /\ cronID' = 0
    /\ cancelled' = CancelSchedule
    /\ cronGen' = cronGen + 1 /\ cronCtx' = 0
    /\ cronActive' = 0 /\ cronDraining' = FALSE /\ cronDrained' = 0
    /\ Goto("sweep")
    /\ UNCHANGED <<mode, owners, cronMu, closed, schedVars, orchVars, tickVars,
                   call, haltVars>>

\* drainService: every owner left, and the call returns or swaps the service.
SweepOwners ==
    /\ pc = "sweep"
    /\ owners' = {}
    /\ Goto(IF call.kind = "replace" /\ ~call.err THEN "swap" ELSE "idle")
    /\ call' = NoCall
    /\ UNCHANGED <<mode, status, stopsCounted, removed, cronID, gateVars, trackVars,
                   schedVars, orchVars, tickVars, haltVars>>

\* ReplaceService clears the stop accounting and schedules the new service.
SwapService ==
    /\ pc = "swap"
    /\ stopsCounted' = FALSE
    /\ Goto("schedule")
    /\ UNCHANGED <<mode, status, removed, cronID, owners, gateVars, trackVars,
                   schedVars, orchVars, tickVars, call, haltVars>>

-----------------------------------------------------------------------------
(* Orchestrator.Stop, as far as this entry sees it. *)

HaltGate ==
    /\ hpc = "idle"
    /\ \E deadline \in Shutdowns : halt' = [NoHalt EXCEPT !.deadline = deadline]
    /\ stopping' = TRUE
    /\ HaltTo("cancel")
    /\ UNCHANGED <<entryVars, gateVars, trackVars, schedVars, octx, stopped, starts,
                   stops, tickVars, callVars>>

\* The context is cancelled, then the scheduler stops dispatching: a tick
\* dispatched in between is refused like one dispatched before.
ContextKept ==                                     \* mutation: scheduler only
    /\ hpc = "cancel"
    /\ ticking' = FALSE
    /\ HaltTo("jobs")
    /\ UNCHANGED <<entryVars, gateVars, trackVars, scheduled, orchVars, tickVars,
                   callVars, halt>>
HaltCancel ==
    /\ hpc = "cancel"
    /\ octx' = TRUE /\ ticking' = FALSE
    /\ HaltTo("jobs")
    /\ UNCHANGED <<entryVars, gateVars, trackVars, scheduled, stopping, stopped,
                   starts, stops, tickVars, callVars, halt>>

\* Stop waits for every dispatched tick, with no regard to its deadline.
HaltJobs ==
    /\ hpc = "jobs"
    /\ \A t \in Ticks : tick[t] = "idle"
    /\ HaltTo("begin")
    /\ UNCHANGED <<entryVars, gateVars, trackVars, schedVars, orchVars, tickVars,
                   callVars, halt>>

HaltBegin ==
    /\ hpc = "begin"
    /\ halt' = [halt EXCEPT !.active = status = "Running"]
    /\ HaltTo("mark")
    /\ UNCHANGED <<entryVars, gateVars, trackVars, schedVars, orchVars, tickVars,
                   callVars>>

HaltMark ==
    /\ hpc = "mark"
    /\ status' = "Stopping"
    /\ HaltTo("finish")
    /\ UNCHANGED <<mode, stopsCounted, removed, cronID, owners, gateVars, trackVars,
                   schedVars, orchVars, tickVars, callVars, halt>>

\* The stop sequence and the final wait for the goroutines of the other entries,
\* which a deadline may cut short, then finishStop, then the terminal flag.
HaltFinish ==
    /\ hpc = "finish"
    /\ \E completed \in BOOLEAN :
          /\ ~completed => halt.deadline
          /\ status' = IF completed THEN "Stopped" ELSE status
          /\ IF completed /\ halt.active
             THEN AccountStop
             ELSE UNCHANGED <<stopsCounted, stops>>
    /\ stopping' = FALSE /\ stopped' = TRUE
    /\ HaltTo("done") /\ halt' = NoHalt
    /\ UNCHANGED <<mode, removed, cronID, owners, gateVars, trackVars, schedVars,
                   octx, starts, tickVars, callVars>>

-----------------------------------------------------------------------------
\* A hot-added cron entry of a started orchestrator.
Init ==
    /\ mode \in Modes
    /\ status = "Registered" /\ stopsCounted = FALSE /\ removed = FALSE
    /\ cronID = 0 /\ owners = {}
    /\ running = FALSE /\ cronMu = 0
    /\ cronGen = 0 /\ cronCtx = 0 /\ cronActive = 0
    /\ cronDraining = FALSE /\ cronDrained = 0
    /\ cancelled = {} /\ closed = {}
    /\ scheduled = {} /\ ticking = TRUE
    /\ octx = FALSE /\ stopping = FALSE /\ stopped = FALSE
    /\ starts = 0 /\ stops = 0
    /\ tick = [t \in Ticks |-> "idle"] /\ gen = [t \in Ticks |-> 0]
    /\ pc = "idle" /\ call = NoCall
    /\ hpc = "idle" /\ halt = NoHalt

TickStep(t) ==
    \/ CronBegin(t) \/ EnterGate(t) \/ NewOwner(t)
    \/ LeaveGate(t) \/ CronEnd(t)

CallStep ==
    \/ Schedule \/ PublishRunning
    \/ ForgetSchedule \/ Unschedule \/ DrainTicks \/ BeginStop \/ MarkStopping
    \/ StopSequence \/ AwaitTicks \/ AwaitTimedOut \/ FinishStop
    \/ RemoveEntry \/ SweepOwners \/ SwapService

HaltStep ==
    \/ HaltCancel \/ HaltJobs \/ HaltBegin \/ HaltMark \/ HaltFinish

Next ==
    \/ ClaimStart \/ ClaimTeardown \/ CallStep
    \/ HaltGate \/ HaltStep
    \/ \E t \in Ticks : Dispatch(t) \/ TickStep(t) \/ TickReturns(t)

Spec == Init /\ [][Next]_vars

\* A goroutine that can take a step takes one, and a Start whose context is
\* cancelled returns unless it is stubborn.  Nobody has to call anything, and
\* the scheduler need not tick.
TickYields(t) == t \notin Stubborn /\ Cancelled(gen[t]) /\ TickReturns(t)
Fairness ==
    /\ WF_vars(CallStep) /\ WF_vars(HaltStep)
    /\ \A t \in Ticks : WF_vars(TickStep(t)) /\ WF_vars(TickYields(t))

FairSpec == Spec /\ Fairness

-----------------------------------------------------------------------------
(* Properties *)

\* Every variable has its type; the counters of resetCronAccounting and
\* startCronSchedule never go below zero.
TypeOK ==
    /\ mode \in {"parallel", "queue", "skip"} /\ status \in Statuses
    /\ stopsCounted \in BOOLEAN /\ removed \in BOOLEAN
    /\ cronID \in Nat /\ owners \subseteq Ticks
    /\ running \in BOOLEAN /\ cronMu \in Ticks \cup {0}
    /\ cronGen \in Nat /\ cronCtx \in Nat /\ cronActive \in Nat
    /\ cronDraining \in BOOLEAN /\ cronDrained \in Nat
    /\ cancelled \subseteq Nat /\ closed \subseteq Nat
    /\ scheduled \subseteq Nat /\ ticking \in BOOLEAN
    /\ octx \in BOOLEAN /\ stopping \in BOOLEAN /\ stopped \in BOOLEAN
    /\ starts \in Nat /\ stops \in Nat
    /\ tick \in [Ticks -> TickPcs] /\ gen \in [Ticks -> Nat]
    /\ pc \in CallPcs /\ call \in CallRecords
    /\ hpc \in HaltPcs /\ halt \in HaltRecords

\* The counter of the tick accounting is the number of ticks of the installed
\* schedule between cronBegin and cronEnd, whatever stale ticks of earlier
\* schedules end in the meantime.
ActiveBalanced == cronActive = Cardinality({t \in Ticks : InFlight(t, cronGen)})

\* A stop that was verified left no tick of the schedule it drained in flight
\* (finishStop after awaitDone).  A tick that an earlier, timed-out stop left
\* behind belongs to no schedule and is not awaited again.
StopMeansDrained ==
    status = "Stopped" /\ pc # "publish" => \A t \in Ticks : ~InFlight(t, cronGen)

\* CronQueue and CronSkip run the user's code of an entry once at a time, also
\* across a timed-out stop and the schedule that follows it.  An Unregister whose
\* wait timed out takes the CronSkip flag from a running tick (resetEntryLocked);
\* for a removed entry the policy is lost.
InUserCode(t) == tick[t] \in {"owner", "run", "release"}
OneTickAtATime ==
    mode = "queue" \/ (mode = "skip" /\ ~removed) =>
        \A t, u \in Ticks : InUserCode(t) /\ InUserCode(u) => t = u

\* A tick whose context nobody cancelled belongs to the installed schedule, and
\* that one is not being drained: no teardown leaves a tick unsignalled.
TicksFollowSchedule ==
    \A t \in Ticks :
        tick[t] \notin {"idle", "begin"} /\ ~Cancelled(gen[t]) =>
            gen[t] = cronGen /\ ~cronDraining

\* The scheduler holds at most one schedule of the entry, and only one the
\* entry knows of or a teardown is about to remove.
SingleSchedule ==
    \A g \in scheduled : g = cronID \/ (pc = "unschedule" /\ g = call.id)

\* A Messenger owner of a cron entry belongs to a tick that is still running:
\* nothing a finished tick subscribed stays behind.
OwnersAreTicks == \A t \in owners : tick[t] \in {"run", "release"}

\* So a schedule, a call and a tick that ended leave nothing behind: neither a
\* schedule the entry forgot (cron.go:137-145) nor an owner without a tick.
NothingLeftBehind == SingleSchedule /\ OwnersAreTicks

\* Every membership call returns when the ticks honour their context, and so does
\* Orchestrator.Stop: no drain waits for a latch nobody closes.
EveryCallReturns ==
    /\ (pc # "idle") ~> (pc = "idle")
    /\ (hpc # "idle") ~> (hpc = "done")

=============================================================================
