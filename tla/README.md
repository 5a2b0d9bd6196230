# gorch in TLA+

gorch is a Go library that runs services in one process: it starts them in the
order of their dependencies, restarts them when they fail, stops them in reverse
order, fires cron jobs, and gives them a messenger to talk over. This directory
models the parts of it where goroutines meet, checks the models with TLC and
proves what matters most with TLAPS. Paths below are relative to the repository;
`src/x.go:n` is line n of the library.

1. [The system](#1-the-system): inventory and what makes it hard
2. [The modules](#2-the-modules) and how they correspond to the code
3. [The runs](#3-the-runs): what each checks, bounds, fairness
4. [The proofs](#4-the-proofs)
5. [Disagreements found](#5-disagreements-found)
6. [What is abstracted and what is not modelled](#6-what-is-abstracted-and-what-is-not-modelled)
7. [Plan](#7-plan)

To run a check, `tlc -config EntryCalls.cfg MCEntry.tla`; to check a proof,
`tlapm EntryProofs.tla`.

## 1. The system

| component | source | state it keeps | operations |
|---|---|---|---|
| orchestrator | `orchestrator.go`, `lifecycle.go` | `started`, `startClaimed`, `stopping`, `stopped`, `ctx`, `wg`, entries and `nameIndex`, scheduler, messenger, log pump | `Start` (level by level, with rollback), `Stop`, `Run` |
| service entry | `entry.go`, `lifecycle.go` | flags `starting`, `removing`, `removed`; `status`; exit channel `done`, `cancel`, teardown context; retry counter; stop and wait-group latches; messenger owners | `startOneService`, `spawnInstance`, `handleServiceDone` (verdict, backoff, restart), `beginStop` / `runStopSequence` / `finishStop` |
| membership | `membership.go`, `register.go` | the entries' flags under `mu` and `membershipMu` | `Register` when started, `StartService`, `StopService`, `Unregister`, `ReplaceService` |
| dependency graph | `graph.go` | none of its own: entries' `DependsOn`, `DependsOnSoft` | `topoSort`, `topoSortForStop`, `dependsOnRecursive`, dependents' order |
| groups | `groups.go` | none of its own: group tag of an entry | `StartGroup`, `StopGroup`, `UnregisterGroup` |
| cron | `cron.go`, `entry.go` | generation, `cronActive`, `cronDraining`, drain latch, CronSkip flag, CronQueue mutex | `scheduleEntry`, `invokeCron`, `cronBegin` / `cronEnd` / `cronDrain` |
| messenger | `messenger.go`, `typed.go` | root registry topic → channels, owner states; per-owner views | `Subscribe`, `Unsubscribe`, `Publish`, `Request`, `RequestAsync`, `drainOwner`, `Drain` |
| health | `health.go` | consecutive failures per entry, the loop's own goroutine | probe loop, cancellation of an unhealthy instance |
| logging | `log.go` | log channel and quit channel of one attempt of `Start` | log pump |
| views | `introspection.go`, `readiness.go`, `metrics.go` | counters | `Status`, `WaitFor`, `IsReady`, `Metrics` |
| helpers | `backoff.go`, `config.go`, `service.go`, `safety.go`, `goid.go` | none | durations, options, panic recovery, goroutine ids |

**How they interact.** A membership call looks an entry up and reserves it under
`o.mu` (`starting` for a start, `removing` for a teardown), lets go of the lock,
and only then runs user code: hooks, `Start`, `Stop`. The instance goroutine that
a start spawned outlives the call; when its `Start` returns, the handler in the
same goroutine reads the flags and contexts that teardowns have set meanwhile,
gives a verdict, and may sleep a backoff and spawn its own successor. A teardown
cancels the contexts, runs the stop sequence, waits for the exit channel with a
deadline, and drains the messenger owners of the entry. The scheduler spawns a
goroutine per due tick that registers with the accounting of the schedule that
dispatched it. `Start` publishes the fields of one attempt (context, log channels,
once gates), starts the entries level by level, each in a goroutine, and when one of
them fails stops the others, waits and takes the fields back, so that `Start` may be
called again. The health loop reads the service of an entry, probes it and cancels
the instance that is current by then. `Stop` ends the health loop, cancels everything,
waits for the scheduler's jobs, the wait group and the log pump. The messenger is shared: an owner identifies one instance or one
tick, so that a teardown can close exactly that instance's channels.

**What is hard.** The flags protect an entry, not a value: what was read under the
lock (the exit channel to wait for, the status of a dependent, the context to
watch) may be replaced before it is used. A stop may time out, after which the
abandoned instance, tick or `Stop` call goes on while the entry is started again.
Releases happen in more than one place, some twice. Ticks of one schedule outlive
it and end under the next. A drain closes channels that other goroutines are
reading, sending to or waiting on. A group operation fails half way; so does a
`Start`, whose goroutines and fields must be gone before the next attempt makes its own. `PROJECT.json`
lists these under `hazards`, each at its line with the properties aimed at it.

**What makes each component correct**

* Entry: the reservation excludes; at most one instance is in user code; a stop
  that reports success left nothing running; `Running` is never left over a dead
  instance; the wait group balances; `Stops` counts an instance once; restarts stay
  within the retry limit; every call returns.
* Registry: reservations neither leak nor get lost when calls skip, fail and
  overlap; starts follow the levels of the graph and stops the reverse; what was
  stopped stays down until released; the graph stays acyclic.
* Cron: the tick counter counts the ticks of the installed schedule; a verified stop
  drained them; the concurrency policies hold across reschedules; no tick is left
  unsignalled.
* Orchestrator: one `Start` in all returns nil; a `Start` that failed and a `Stop` that
  succeeded leave nothing running; no channel is closed twice; entries start after
  their dependencies and stop before them; both calls return.
* Health: an instance whose probes keep failing does not run for ever, and the probes
  never lead to a second instance or to restarts beyond the limit.
* Messenger: no send on a closed channel, no double close; a drained owner stays
  silent; replies go to their request; requests end.

## 2. The modules

| module | what it is |
|---|---|
| `ServiceSlot` | abstract specification: what the membership operations promise about one entry |
| `EntryLifecycle` | one persistent entry, every access to shared state a step; implements `ServiceSlot` |
| `EntryLedger` | `EntryLifecycle` with a history variable that books each counted stop to its instance |
| `Membership` | several entries, the graph, groups and registration; a start or a stop is a few steps |
| `HealthProbe` | the health loop beside `EntryLifecycle`, which it extends |
| `CronSchedule` | one cron entry: ticks, schedules, teardown |
| `OrchestratorPhases` | abstract specification: what `Start` and `Stop` promise about the whole orchestrator |
| `StartAndStop` | `Start` with its rollback and reset, and `Stop`, over a few entries; implements `OrchestratorPhases` |
| `Messenger` | topics, owners, `Request` |
| `MCEntry`, `MCHealth`, `MCMembership`, `MCCron`, `MCMessenger`, `MCStartAndStop` | instances for TLC |
| `EntryProofs`, `HealthProofs`, `StartStopProofs`, `MembershipProofs`, `MembershipOrderProofs`, `CronProofs`, `MessengerProofs` | theorems |
| `RoundLemmas` | lemmas about natural numbers, finite sets and repeated rounds that the proofs about the graph share |

`EntryLifecycle` and `Membership` are the same calls at two depths. The first takes
one entry and splits its start and its teardown at every point where another
goroutine could see or change something; the second takes for granted that this is
done and looks at what several entries, their graph and their groups add. `CronSchedule`
is the counterpart of the first for entries whose instances are ticks; `Messenger`
is what all of them drain. `StartAndStop` is what comes before and after all that: it keeps of
an entry only what `Start` and `Stop` decide on. The first four share no variables in the code beyond what each
models: the flags and the status (in the first three), the owners (a set in the first
and third, a protocol in the fourth). `HealthProbe` adds its variables and its steps to every
variable and step of `EntryLifecycle`.

### EntryLifecycle

| model | code |
|---|---|
| `starting`, `removing`, `removed`, `status`, `done`, `cancel`, `teardown`, `owners`, `retryCount`, `wgDone`, `stopsCounted` | fields of `serviceEntry` (`src/entry.go`) |
| `octx`, `stopping`, `stopped`, `wg`, `starts`, `stops` | `o.ctx` cancelled, flags, `o.wg`, `Metrics().Starts/Stops` |
| an instance `i \in Ids` | the context, exit channel and owner that one `startOneService` or one restart creates; `stage[i]` is its goroutine's program counter |
| a caller `c` | a goroutine inside a membership call; `pc[c]`, `call[c]` |
| `ClaimStart` .. `OuterRelease` | `StartService` and `startOneService` |
| `ClaimTeardown` .. `ReleaseTeardown` | `tearDown`, `stopEntry`, `removeEntryLocked`, `drainService` |
| `ClaimReplace`, `ValidateReplacement`, `SwapService` | `ReplaceService` around the same teardown |
| `ExitInstance`, `EnterHandler` .. `CloseDone` | the instance goroutine: `Start` returns, `handleServiceDone`, restart or exit |
| `HaltGate` .. `HaltSeal` | `Orchestrator.Stop` as it meets this entry |

A failing hook or start is a choice of the step that runs it; a timeout may fire
whenever its option is configured. A service may return from `Start` at any time,
with or without an error. `SlotSpec` maps the state to `ServiceSlot`: who holds the
entry, which instances are in user code, how many were launched, whether it is gone.

`EntryLedger` adds one variable, `counted`, that no step reads: an increment of `stops` is booked to the instance
that was spawned last, or to 0 if there is none. The program only has the total, in which a stop counted twice could hide
behind one that was missed; `StopsCountedOnce` looks at each instance. The runs of the entry use `LedgerSpec`, which is `Spec`
with that variable.

### HealthProbe

| model | code |
|---|---|
| `failures` | `serviceEntry.healthFailures` |
| `loop`, `probed`, `failed` | where `runHealthChecks` is, the instance whose service it probes, the result |
| `Candidate`, `PickService` | `healthCandidate`, then the service read under another lock |
| `ProbeReturns` | `probeHealth` and `healthStillCurrent` |
| `Judge`, `CancelSick` | the count, the threshold, the cancellation of whatever instance is current then |
| `ResetFailures` | `resetEntryLocked` and `ReplaceService`, the only others that touch the count |

### Membership

Every registration attempt is an entry of its own, with a name: `db` and, after its
removal, `db2`, which registers the name `db` again. `registered` is `nameIndex`,
`starting` and `removing` are the flags, `call[c]` holds what a call reserved
(`reserved`), what it orders (`set`), what it has left (`todo`) and what a group start
must roll back (`started`).

| model | code |
|---|---|
| `Register`, `CommitRegister` | `registerDynamicCfg`: validate under the lock, `Validate` without it, `commitDynamicLocked` under it again |
| `StartService`, `StartGroup`, `RefuseEntry`, `StartEntry`, `Launch`, `LaunchGate`, `EndGate`, `FinishStart` | claim, `startOneService`'s outcomes, the deferred release |
| `TearDown`, `StopGroup`, `UnregisterGroup` | the guards and the reservation of each teardown |
| `SkipEntry`, `BeginStop`, `EndStop`, `GiveUpStop` | one entry of a teardown or of `rollbackGroupStart` |
| `Remove`, `KeepRegistered`, `Release` | `removeEntryLocked` or not, then the flags |
| `Exit` | an instance ends (no self-heal here) |
| `Reach`, `WithDependents`, `Rest`, `Levels` | `dependsOnRecursive`, `hardDependentsOrderLocked`, `topoSort` |

`topoSort` orders by levels and then by name; the model keeps the levels and lets any
entry of the level go next, so it covers every name. The walk over the hard dependents is defined
as the least closed set, the levels by the rounds of Kahn's algorithm.

### CronSchedule

A generation number stands for a schedule, its context and its drain latch. `tick[t]`
follows `invokeCron` from `CronBegin` through the CronQueue mutex or CronSkip flag, the
messenger owner and user code to `CronEnd`. `Schedule`/`PublishRunning` are
`startCronEntry`; `ForgetSchedule` .. `SwapService` are a teardown of a cron entry, whose
`await` waits for the latch of `cronDrain`; `HaltGate` .. `HaltFinish` is
`Orchestrator.Stop`, which waits for the scheduler's jobs instead. The membership calls come one at a
time, which the reservation of `EntryLifecycle` ensures.
`Dispatch` and `HaltJobs` model the external scheduler as the code uses it: a goroutine
per due tick of an installed schedule, and a `Stop` whose context ends when none runs.

### StartAndStop

A call of `Start` that gets past the claim is an attempt, and its number is its context, its log
channels and its instances. `pc[c]` is where a call is, `boot[e]` the goroutine that starts
entry e in its level, `inst[e][a]` the instance of e that attempt a spawned.

| model | code |
|---|---|
| `Claim`, `EnterOnce` | `startClaimed`, the closure of `startOnce` up to the log pump |
| `SetupCron`, `CronFails`, `CronPump` | `setupCron`, and the clean-up in `Start` when it fails |
| `GateRefused` .. `GatesDone` | `Start`'s loop over the runOnce gates, and `startOneService` run in place |
| `BeginLevel`, `CheckDeps`, `BootRefused`, `Boot`, `Launch`, `Settle`, `StartTimesOut`, `EndLevel`, `LevelFails` | `Start`'s loop over the levels, `startOneService` in one goroutine per entry |
| `RollbackEntry`, `RollbackDone`, `Unload` | `stopStartedServices`, the close of the quit channel |
| `AwaitInstances`, `AwaitPump`, `GiveUp`, `Reset` | the bounded waits and `resetAfterStartFailure` |
| `StopUnstarted`, `BeginStop` .. `Seal` | `Stop` |
| `Exit`, `PumpExit`, `HealthExit` | the goroutines both have to wait for |

`LifecycleSpec` maps this to `OrchestratorPhases`: the phase from the flags and the calls in progress, the services that
run, the number of nil returns, and whether a wait was given up. `panicked` records what would be a run-time
panic (a channel closed twice, a nil cancel function called, a once gate left that nobody entered).

### Messenger

A channel is in the registry or not, closed or not, with its buffer. `opc[o]` is the owner
protocol of an instance or a tick (`newOwner`, `releaseOwner`), `TakeOwners` and
`SweepOwner` are the teardown's `drainService`, `Drain` is the shutdown's. A request `r`
has two goroutines, `Request` itself (`pc`) and the forwarder of `RequestAsync` (`fwd`),
between them the channel `out[r]`. `Publish` puts the message into every channel that has room.

## 3. The runs

No run has more than about 1.3 million distinct states; each ends within three minutes.

### Passing

`entry_calls` (199,680 states): a hot-added entry without self-heal; one goroutine that
starts and replaces it, two that stop and unregister it, with and without deadlines,
start and stop timeouts on. Shows the reservation protocol (`ReservationExclusive`), that a
verified stop left nothing running (`StopMeansExited`), that no drain hits a running
instance's owner (`RunningKeepsOwner`), that `Running` means alive (`RunningIsAlive`), that
the wait group adds up, that each instance's stop is counted at most once (`StopsCountedOnce`), and that the operations
implement `ServiceSlot`.
Two instances, since two are needed to confuse an old instance with a new one, and
the third would repeat the second; two stoppers, because the second is what the flag keeps
out.

`entry_shutdown` (351,298): a self-heal entry that crashes and restarts under `Orchestrator.Stop`,
with or without a deadline, at the same time as a `StopService`: `ShutdownMeansExited`, `StopsCountedOnce` with all three
observers of a stop (the teardown, the exit handler, the shutdown) and a latch that restarts rearm, and under fairness
`CallsReturn` and `ShutdownReturns`. Nobody starts or unregisters the entry here: what then happens to the first two is in section 5.

`health_restart` (96,133): a running self-heal entry with a retry limit of one, probed while it
crashes, restarts, runs out of retries and is started again; its second instance fails every
probe. Shows `AtMostOneInstance` and `RetriesBounded` with the cancellations the loop adds, and
`SickIsRestarted`: an instance whose probes keep failing is ended. Three instances: the original,
its restart, and one more start; a threshold of two, so that a count has to survive from one probe to the next.

`start_stop` (51,732): two goroutines in `Start` and one in `Stop` (called when no `Start` is in
progress), over a gate, a database behind it, a service on the database with or
without a start timeout, and a cron entry. Every step of a start may fail. Two attempts, so
that the second meets what the first left; the rollback may give up waiting. Shows `NoPanic`,
`OrderKept`, that `OrchestratorPhases` is implemented (`LifecycleSpec`), and `LifecycleReturns`.

`membership_calls` (1,307,550): a database, a service that depends on it hard, a runOnce
gate that depends on the database hard and on the service softly, and a second registration of the database's name, which
depends softly on the gate. Database and gate form the group. One starter, two (symmetric) stoppers
and one registrar make every call with every option. Shows `ReservationsHeld`,
`OneInstance`, `TeardownHolds`, `OrderedStop`, `OrderedStart`, `Acyclic`.
This graph has a hard edge inside the group, a hard and a soft edge out of it, and a name that comes back after a removal
under another dependency, so that a cycle through the gate, or through gate and service, can close in either order of
registration; that is what the code distinguishes. A group with a chain of three, in which a running member
keeps its place between two others, is too large for a run with two stoppers: `OrderedStart` speaks of what is needed through others too, and
`StartOrderCorrect` proves it for every graph.

`cron_ticks` (482,373): two overlapping ticks, each policy, two generations, every
membership call with and without a deadline, and `Orchestrator.Stop` without one. Shows
`ActiveBalanced`, `StopMeansDrained`, `OneTickAtATime`, `TicksFollowSchedule`,
`NothingLeftBehind`, and under fairness `EveryCallReturns`. Two
generations are what a stale tick needs; two ticks are what a policy needs.

`messenger_requests` (653,502): one service owner with a subscription and a request, one unowned
request, responses, topic and broadcast publications, the release and the sweep of the owner and whole drains
in any order, capacity 1 so that full channels occur at once. Shows `NoSendOnClosed`,
`DeadOwnersSilent`, `ClaimsCanBeDrained`, `RepliesComeHome`, and under
fairness `RequestEnds`.

Every run turns the deadlock check off: an idle orchestrator may stay idle for ever, since nobody
has to call it. That calls do not get stuck is what the liveness properties say.

### Bounds

`MaxInstances`, `MaxGenerations` and `MaxAttempts` cap how many instances, schedules or attempts of
`Start` are ever created; they sit in the guards of the actions that create one, and such an action
is then simply not taken (a restart that has no room waits, which no property counts as progress).
`RetryLost = FALSE` ends a run of `StartAndStop` after a rollback that gave up waiting: what the abandoned
goroutines then do to the next attempt is in section 5. `MayTime` names the entries that may have a
start timeout; the run chooses whether they do. `Overlap` says whether `Stop` may be called while a `Start` is
in progress, `Threshold` and `Sick` are the failure limit and the instances that fail every probe.
Everything else is bounded by the sets of callers, entries, ticks, owners and requests.

### Fairness

The Go scheduler runs every goroutine that can run, so the steps of a call in progress, of an
exit handler, of the starts of a level, of the log pump and of `Stop` are weakly fair. User hooks,
gates and `Stop` methods return (when they
do not, the code caps them only if an option says so). A `Start` whose context is cancelled
returns, as `src/README.md:301` describes a service, and a tick likewise. The health loop is
fair because its ticker keeps firing and `probeHealth` bounds each probe by a timeout. Nobody has to make a
call, no service has to crash, no tick has to fall due
and no message has to be answered: these actions are not fair. `Messenger` assumes only that the request goroutines as a whole keep
running.

## 4. The proofs

Each theorem holds for every value of the constants: any number of callers, entries,
ticks, owners, requests, any graph, any options. The assumptions on the constants are the named
`ASSUME` of each module (disjoint sets of callers, options of the right type), which the runs
evaluate. The theorems so marked carry a hypothesis more, which is needed:

| hypothesis | meaning | without it |
|---|---|---|
| `SingleStarter` | one goroutine calls `StartService`, `ReplaceService` or `StartGroup` | with two the reservation fails (section 5); in `Membership`, `clearStarting` of a group start may take the flag of a `StartService` that came after it |
| `~SelfHeal` | the entry has no factory | `entry_restart_race` shows that `StopMeansExited` fails with restarts |
| `NoReplace` | nobody calls `ReplaceService` | the same race behind a replacement: its teardown waits for the old instance, the handler installs a new one, and the replacement starts a second beside it (TLC finds it with `AtMostOneInstance`) |
| `NoShutdown` | nobody calls `Orchestrator.Stop` | it counts one for an instance that was never spawned, or again one whose latch an `Unregister` reset (section 5) |
| `QuietShutdown` | no start is between its claim and its spawn when `Stop` passes its gate | the late start of section 5 |
| `~Overlap` | `Stop` is not called while a `Start` is in progress | `start_stop_race` shows the panic; and such a `Stop` passes a dependent that `Start` launches only then, and stops its dependency under it |
| `SingleRegistrar` | one goroutine registers | two hot adds can close a cycle (section 5) |
| `LaunchedAcyclic`, `GraphAcyclic` | the graph that was started has no cycle | `Start` refuses any other (`src/lifecycle.go:1082`) |
| finitely many entries | | the wait group counts them, and `topoSort` ends |

| module | theorem | property |
|---|---|---|
| `EntryProofs` | `TypeCorrect` | `TypeOK` |
| | `ReservationCorrect` (`SingleStarter`) | `ReservationExclusive` |
| | `StopLeavesNothing` (`SingleStarter`, `~SelfHeal`, as the four below) | `StopMeansExited` |
| | `OwnersCorrect` | `RunningKeepsOwner` |
| | `AliveCorrect` | `RunningIsAlive` |
| | `StopsCorrect` (also `NoShutdown`; of `LedgerSpec`) | `StopsCountedOnce` |
| | `SlotRefined` | `SlotSpec`, the refinement of `ServiceSlot` |
| `HealthProofs` | `InstancesExclusive` (`SingleStarter`, `SelfHeal => NoReplace`) | `AtMostOneInstance` |
| | `WaitGroupHealed` (the same) | `WaitGroupBalanced` |
| | `RetriesCorrect` (`SingleStarter`, `NoReplace`, `SelfHeal`) | `RetriesBounded` |
| | `ProbedExclusive`, `ProbedRetriesCorrect` (the same, of `HealthSpec`) | `AtMostOneInstance`, `RetriesBounded` |
| | `ShutdownCorrect` (`SingleStarter`, `NoReplace`, `QuietShutdown`) | `ShutdownMeansExited` |
| | `ShutdownAlone` (`Starters = {}`) | `ShutdownMeansExited` |
| `StartStopProofs` | `StartStopTypeCorrect` (finitely many entries) | `TypeOK` |
| | `NoPanicCorrect` (`~Overlap`) | `NoPanic` |
| | `OneStartReturnsNil` (`~Overlap`) | at most one `Start` returns nil |
| | `LifecycleRefined` (`~Overlap`, finitely many entries) | `LifecycleSpec`, the refinement of `OrchestratorPhases` |
| | `OrderCorrect` (the same, `GraphAcyclic`) | `OrderKept` |
| `MembershipProofs` | `MembershipTypeCorrect` | `TypeOK` |
| | `ReservationsCorrect` (`SingleStarter`) | `ReservationsHeld` |
| | `OneInstanceCorrect` (`SingleStarter`) | `OneInstance` |
| | `TeardownCorrect` (`SingleStarter`) | `TeardownHolds` |
| `MembershipOrderProofs` | `StartOrderCorrect` (`LaunchedAcyclic`) | `OrderedStart` |
| | `RegistryAcyclic` (`SingleRegistrar`, `LaunchedAcyclic`) | `Acyclic` |
| | `StopOrderCorrect` (the same, `SingleStarter`) | `OrderedStop` |
| `CronProofs` | `CronTypeCorrect`, `ActiveCorrect`, `StopDrains` | `TypeOK`, `ActiveBalanced`, `StopMeansDrained` |
| | `PolicyKept`, `StaleTicksCancelled` | `OneTickAtATime`, `TicksFollowSchedule` |
| | `LeftoversCorrect` | `NothingLeftBehind` |
| `MessengerProofs` | `MessengerTypeCorrect` | `TypeOK` |
| | `ChannelsSafe`, `DrainedForGood` | `NoSendOnClosed`, `DeadOwnersSilent` |
| | `ReleaseCorrect`, `ClaimsCorrect` | `ReleaseIsFinal` (proved only), `ClaimsCanBeDrained` |
| | `RepliesCorrect` | `RepliesComeHome` |

**Entry.** `TypeOK` is inductive as it stands. `ReservationExclusive` is not: that two calls do not
both hold the entry follows from the flags only if a holder's flag is up (`FlagsUp`), and that a flag is not
lowered by another call only if the program counters fit the kind of the call (`CallShape`).
`ReservationInv` is the conjunction. `SingleStarter` is needed where `OuterRelease` lowers `starting`
a second time: no other starter can have raised it in between.

**Stops, wait group, owners, status.** Without self-heal, `LiveInv` says that instances are created and
spawned in turn and at most one is live, that the live one is the entry's (`done`), that a start finds
none until it spawns its own (`StartsAlone`), that whoever still holds a removed entry is the teardown that removed it, and what each
place of a teardown knows (`Awaits`): the exit channel it waits for is still the entry's, and past a completed
wait nothing is live. The claim of a start establishes `StartsAlone` from its idempotence guard, a
replacement from its completed teardown. `LatchOpen` says the wait-group latch is open whenever an instance has yet to
release it, so a release never goes uncounted; with the cardinality lemmas it gives `WaitGroupBalanced`. `OwnersKept`
says that a teardown past its cancellation has cancelled whatever lives, and `StatusKept` who is about to write
the status when it reads `Running` over nothing. The refinement maps each step: a claim to `Hold`, the
release to `Free`, `Spawn` to `Launch` (the spawned instances are `1 .. created - 1` just before), `ExitInstance` to
`Exit`, `RemoveEntry` to `Remove`, everything else to a stutter.

**Stop counter.** `StopsKept` says that whoever could still count a stop finds the latch set, or the newest instance without a
stop booked to it (`Uncounted`). A teardown whose `beginStop` saw an active entry and an exit handler before its verdict both
count for the instance that is up, whichever comes first sets the latch, and only the start of another instance, after both are
through, rearms it; its `Spawn` is what makes a new instance the newest. An instance not yet spawned has nothing booked (`LedgerKept`),
so each entry of the ledger goes from 0 to 1 at most.

**Self-heal.** An instance is a holder (`Holder`) from its spawn until it gave its place in the wait group back or its restart
passed it on. `Turns`: there is at most one holder; unless the entry was removed, `done` names it, or the instance it has installed and is about to
spawn; a start finds none. It is what the idempotence guard of `StartService` gives, and it survives every restart, because a handler installs
and spawns its successor while it is still the holder. Hence `AtMostOneInstance`; and since the wait group counts the holder and nothing else
(`HolderCounted`), and its latch is open as long as there is one (`LatchHeld`), `WaitGroupBalanced`. For the retry limit, `Eras`
says under which teardown context the holder lives, the entry's own or, once the entry is removed, a cancelled one, so that a handler which lets a restart
through had its entry still registered; and `Budget` that all restarts of the entry, with the one a handler has counted, are
not more than `retryCount`. A start does not reset that counter; `Unregister` does, and from then on a handler that counts once more finds the context it
watches cancelled, so that only those past their backoff before still count. The health loop only cancels contexts and keeps all of
this (`LoopKeeps`). For the shutdown, `ShutInv` says that from the gate on no start is on its way to a spawn (the gates of `StartService` read `stopping` and
`stopped`), that once the wait found zero there is no holder, and so nobody who could restart, and that no step writes
`Running` without a holder or a start.

**Start and Stop.** With `~Overlap` at most one call is in progress (`OneCall`). A `Start` in progress
holds the claim, its once gate and an open quit channel up to `Unload` or `CronFails`; a `Stop` in progress holds
`stopOnce` in a started orchestrator whose fields name the latest attempt (`Fields`); and between calls a started orchestrator that
was not stopped has its quit channel open (`Quiet`).

The refinement adds what the phases need. `ShutdownFlags` ties `stopping` and `stopped` to the `Stop` in progress or to
its end. `Launching` says an entry is launched only while some `Start` is at its level. `Counts` says the wait group is the number
of live instances plus the health loop, that every live instance is of the latest attempt with its latch open, and that an entry of a
level to come has none; so a wait that finds zero finds nothing alive (`NoneLeft`). `NothingRuns` carries that from the
wait to the reset, to the next attempt and to the verdict of `Stop`. `Counts` and `NothingRuns` hold only until a deadline makes a
call give up (`lost`), as the promise itself does: what it left behind may release the latch of a later instance.
`Claim` maps to `Begin`, `Launch` to `Run`, `StartHealth` to `Succeed`, `Reset` to `Fail`, `GiveUp` and `StopTimesOut` to
`Abandon`, `MarkStopping` to `Halt`, `Seal` to `Finish`, an `Exit` to `End` (or to a stutter, if another instance of the entry
still runs), the rest to stutters. Finiteness is needed because the wait group counts instances.

The type invariant of `StartAndStop` is the one that is hard, because it has to hold with overlapping calls and after a rollback that
gave up, and `wg` must stay a natural number in all of that. `Covered` says it is at least the number of running instances with the health loop: an
instance of a former attempt may set the latch of its successor, which then never releases, but none releases twice. `OneStart` says that one `Start` at a
time is past the claim, which keeps the attempts within their bound.

For `OrderKept`, `LayersCover` shows that after as many rounds of `topoSort` as there are entries a graph without a cycle is used up, and `OwnLayer`
that each entry has a round of its own, after its dependencies'; `FirstFree` and `LastFree` turn that into what the loops of `Start`, the rollback and `Stop`
do at a level. `OrderInv` carries it through the attempt: what is of a level behind had its turn, what is of a level to come has none, and what a stop has
passed is down. The lemmas of `RoundLemmas` replace an induction over the rounds: a statement
that holds of 0 and carries over from n to n + 1 holds of every n, because otherwise there were a least n without it, and that is
the well-founded induction of the library over a set, with no operator as a parameter.

**Membership.** `Inv` is `TypeOK`, the shape of each call's record (`Shape`) and who holds the flags
(`FlagsHeld`). `TypeOK` alone is not inductive, because an entry that `CommitRegister` adds must not have been
removed, which holds because it was never registered (`Shape`), and what `Remove` takes out must still be
registered, which holds because nobody else holds it (`FlagsHeld`). `Inv2` adds, for one starter, that what
it has yet to start is reserved and has no instance (`StartsHeld`), that no entry has two, and that what a
teardown has stopped or is stopping is down (`StaysDown`). The key fact is that an entry becomes active only by a start that
holds `starting` on it, that whatever a teardown is done with it holds under `removing` (`HeldReserved`), and that the two
flags exclude each other. A rollback holds no flag for what it stops; there it is `SingleStarter`
that keeps the entry down. Nothing is needed about the graph but that dependents are registered.

**Order in the graph.** `Cyclic` is defined by the rounds of Kahn's algorithm. The lemmas show that rounds come to rest
(`RoundsComeToRest`), that a set without a cycle has in each of its nonempty subsets a member with no dependency left in it and one that none depends
on, and that a new entry closes a cycle only if it is reached from its own dependencies, which is what `Acceptable` looks at.
`StartInv` says of a group start that its set can be sorted and that what is left of it contains nothing the entry it is at needs: the
entries of a lower level are closed under dependencies in the set (`NeedsAreLower`), so what is needed, directly or not, is lower, and what
is left is not. It needs no
registrar hypothesis: the set was sorted when it was claimed, and the edges of an entry never change. `StopInv` says the registry can be sorted and that
what a registration has found under the first lock still holds at its commit; with one registrar only removals come in between, and they take edges away. The
order of a stop follows as for the start, with `StaysDown` of `Inv2` for what it has already stopped.

**Cron.** `DrainInv` ties the counter to the set of ticks in flight (`ActiveBalanced`), every latch
and schedule to the generation counter (`GenerationsBounded`), and says what each place of a teardown knows
about the drain (`DrainUnderway`) and what a shutdown leaves (`ScheduleQuiet`, `StoppedQuiet`). A tick that ends decrements the counter only if its generation is
installed, hence the counting lemmas over `Flights`. `GateHeld` says that a tick in user code
holds the mutex, or the CronSkip flag of an entry that was not removed, across every stop and reschedule. `TicksFollowSchedule` needs that the
context of a forgotten schedule is cancelled before its ticks are waited for, and `NothingLeftBehind` that the
teardown which takes the schedule out of the entry still remembers it.

**Messenger.** `RegistryInv` is about channels and owners: what is registered is open and of a live owner,
an owner that is gone is dead, what an entry claims is known or dead. `MessageInv` adds that what is in the channels of a
request, in its forwarder's hand and in its result is a message of that request.

**How the invariants were found.** The inductive invariants were checked by TLC before they were proved: those of `Start` and `Stop` on
`StartStop.cfg`, that of the stop counter with three instances, those of self-heal and the shutdown with a starter, up to two stoppers, `Unregister` and
three or four instances (millions of states, the largest of these searches not to the end).

**Only model-checked.** Liveness under fairness (`CallsReturn`, `ShutdownReturns`, `SickIsRestarted`, `EveryCallReturns`,
`LifecycleReturns`, `RequestEnds`) is out of the prover's reach: it needs `ENABLED`. Every invariant that a passing run checks, `OrderKept` and the two
refinements are proved, and every passing run meets the hypotheses of the theorems about what it checks, with one exception: in
`entry_shutdown` `StopsCountedOnce` is checked with self-heal and `Orchestrator.Stop`, where nothing is proved of it. What happens where a hypothesis fails
is in the table above and in section 5, found by TLC.

## 5. Disagreements found

Five runs check one property that a comment or the README states and the code does not keep; the counterexample
is a schedule of legal calls.

| run | what happens |
|---|---|
| `entry_restart_race` | a handler checks the teardown context, a stop cancels it and waits for the old instance's channel, the handler installs a new one: the stop reports success over a running instance (`src/lifecycle.go:846`) |
| `membership_stop_race` | a plain stop does not see a dependent whose start is claimed but not committed, and leaves it running on a stopped dependency (`src/membership.go:566`, `src/README.md:836`) |
| `messenger_nil_reply` | a `Request` waiting when its owner is drained returns a nil reply and no error (`src/messenger.go:268`, `src/README.md:639-641`) |
| `start_stop_race` | a `Stop` that has seen `started` calls `o.cancel` after the reset of a failing `Start` set it to nil (`src/lifecycle.go:1306`, `src/README.md:923`) |
| `health_early_restart` | failed probes of an instance count against its successor, also one that was under way at the restart (`src/health.go:187`, `src/README.md:575-576`) |

The corresponding guarantees are checked where they do hold: `StopMeansExited` without self-heal, `NoPanic` when `Stop`
waits for `Start` to return. The race of `Start` and `Stop` has more outcomes of the same kind: both close the quit
channel (`src/lifecycle.go:268`, `1353`), the reset replaces `stopOnce` under a `Stop` inside it (`997`, `1256`), and a
`Stop` past its health step waits for the wait group while `Start` adds the health loop to it, which nobody ends any more.

Four more disagreements are checked by changing the constants of a run that passes:

* Two starters: `MCEntry` with two `Starters` that only start and no `Stoppers` violates `ReservationExclusive`. A start
  releases `starting` in `startOneService` and again in its caller, "harmless" to `src/membership.go:133-135`; between the
  two another start claims the entry and the second release takes its flag (`src/membership.go:138`).
* A late start: with one starter and `Shutdowns = {FALSE}`, `ShutdownMeansExited` fails. A `StartService` past its gate
  when `Stop` begins spawns after `Stop` has finished (`src/lifecycle.go:1359-1363`). In the same setting `StopsCountedOnce` fails:
  `HaltBegin` reads `Starting`, the start has rearmed the latch, and a stop is counted before the instance is spawned.
* An `Unregister` during `Stop`: with one stopper, `StopKinds = {"unregister"}` and `Shutdowns = {FALSE}`, `StopsCountedOnce`
  fails. The teardown counts the stop, `removeEntryLocked` resets the entry and its latch (`src/entry.go:270`), and a `Stop` that
  looked at the entry before counts the same stop again (`src/lifecycle.go:1395-1401`).
* A tick that ignores its context: `MCCron` with `Stubborn = {k1}`, `Ticks = {k1}` and `Shutdowns = {TRUE}` violates
  `EveryCallReturns`. `Stop` with a deadline waits for the scheduler's jobs without one (`src/lifecycle.go:1310`, against
  `1261-1263`).

Read in the code while modelling, without a run of their own:

* `startCronEntry` does not clear `stopsCounted`, so a cron entry's second stop is not counted
  (`src/membership.go:713`; `src/README.md:1046` says each is).
* An `Unregister` of a cron entry that timed out clears the CronSkip flag under a running tick
  (`src/entry.go:271`); `OneTickAtATime` leaves removed entries out.
* A timed-out stop, a start and a verified stop may leave a tick of the first schedule running
  (`src/README.md:603` promises otherwise); `StopMeansDrained` speaks of the installed schedule.
* `Drain` forgets owners that entries still claim (`src/messenger.go:294`, against the comment at
  `src/membership.go:663-667`); it marks them dead, so `ClaimsCanBeDrained` holds with "or dead".
* A failing `Start` rolls back entries whose `starting` flag `startOneService` has already released, contrary to
  `src/lifecycle.go:258-261` ("still reserved here").
* A `Start` whose rollback gave up waiting leaves an instance that exits under the next attempt: its
  `releaseTeardownIf(getTeardown())` cancels the new instance's context, the latch it sets is the new one's, so the wait
  group stays above zero (against `src/lifecycle.go:687-691`), and it reads an `o.ctx` that the reset set to nil. The
  runs stop at that point (`RetryLost`).
* A persistent service with a start timeout that blocks in `Start`, as `src/README.md:295` asks of it, fails every
  `Start` of the orchestrator when the window closes; `src/README.md:430` describes the window as one in which `Start`
  may return an error.
* A gate that ran into its timeout goes on in a goroutine that neither the wait group nor `Stop` knows of.
* Two hot adds, each soft on the other, both pass the cycle check before either is committed;
  `Acyclic` holds for one registrar.
* A hot add whose hard dependency is removed between validation and commit is registered all the same; a
  later `StartService` refuses it.

## 6. What is abstracted and what is not modelled

* Accesses that no other goroutine can tell apart are one step: creating the contexts of a start
  (`InstallContexts`) or of a restart (`InstallRestart`), the two context cancellations of `Stop` (`HaltCancel`), the
  status and the stop latch (`FinishStop`, `HaltFinish`), leaving the CronQueue or CronSkip gate (`LeaveGate`), a service
  that receives a request and answers it (`Serve`). `Publish` holds the root lock throughout and is one step.
* A call that is rejected before it reserves anything changes nothing and is no action.
* Hooks, conditions and `Stop` methods return success, an error or, where an option caps them, a timeout. What
  they do inside, including re-entrant calls by goroutine id, is not modelled.
* Durations are not modelled: a timer may fire as soon as it is set, or never before the thing it races.
* In `Membership` any stop of a call may be unverified, so a stop without deadline is a special case; rollback
  and group start wait as the code does.
* In `Messenger` each subscriber and each requester holds one view all along, each channel is made at most
  once, services share one topic, and each requester makes one request.
* runOnce entries appear in `Membership` and `StartAndStop`, self-heal in `EntryLifecycle` and `HealthProbe`, `ReplaceService` in
  `EntryLifecycle` and `CronSchedule` only.
* `StartAndStop` has no membership calls, restarts or ticks beside `Start` and `Stop`; `entry_shutdown` and `cron_ticks` have
  `Stop` against those. The health loop is always started (an interval of zero disables it in the code). Starts of one level
  run their steps in any order, exits at any time.
* `HealthProbe` follows one entry; the loop of the code goes round all of them with a probe each. A probe that
  panics or overruns its deadline is one that fails.

Not modelled, with the reason:

* Typed subscription goroutines (`typed.go`): their decoding is payload; that a dropped subscription's goroutine stays
  (`src/typed.go:81`) is a leak no state of the messenger depends on.
* The read-only views (`introspection.go`, `readiness.go`): they read statuses under the locks and change nothing; `WaitFor` polls.
* Metrics other than `Starts` and `Stops`, `Health` on demand: counters that nothing reads back.
* Names generated for anonymous services, parsing of cron expressions and options, backoff durations: pure functions
  of their input, which the library's own tests cover.
* Re-entrant calls from inside a service (goroutine ids, `src/cron.go:59`), recovery of panics beyond "the call failed".

## 7. Plan

Done, in this order: `ServiceSlot` and `EntryLifecycle`; `CronSchedule`; `Messenger`; `Membership`; their
first proofs; `OrchestratorPhases` and `StartAndStop`; `HealthProbe`; the proofs about stops, the two refinements, the cron policies
and the single `Start`; the proofs about the graph, self-heal and the shutdown. The order follows the risk: first one entry and its
instances, then what shares the pattern, then what composes it, then what starts and ends the whole.

Candidates, in order:

1. `ReservationsHeld` with `StartService` and `StartGroup` in different goroutines on disjoint entries.
2. `StopMeansExited` with self-heal for a stop that finds no handler past its teardown check.
3. Re-entrant calls of a tick, with the goroutine id that parallel ticks share.
4. Typed subscriptions in `Messenger`, if their goroutines come to hold anything.
