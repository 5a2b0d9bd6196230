------------------------------ MODULE HealthProbe ------------------------------
(***************************************************************************)
(* The periodic health checks of one self-heal entry whose service         *)
(* implements HealthChecker: healthCheckLoop and runHealthChecks (and with *)
(* them healthCandidate, probeHealth and healthStillCurrent) next to the   *)
(* calls, the instances and the exit handlers of EntryLifecycle.           *)
(*                                                                         *)
(* The loop shares the status, the cancel function, the removal flags and  *)
(* the service with the entry and keeps one counter of its own there,      *)
(* healthFailures.  It reads each of them under its own lock, so every     *)
(* read is a step.  How the loop ends with Stop is in StartAndStop.        *)
(***************************************************************************)
EXTENDS EntryLifecycle

CONSTANTS
    Threshold,     \* config.HealthThreshold
    Sick           \* the instances whose Health fails every time while they
                   \* run; that of another one fails or succeeds

ASSUME HealthAssumption == Threshold \in Nat \ {0} /\ Sick \subseteq Ids

VARIABLES
    failures,      \* serviceEntry.healthFailures
    loop,          \* program counter of the loop
    probed,        \* the instance whose service is being probed
    failed         \* the result of that probe

healthVars == <<failures, loop, probed, failed>>
allVars    == <<vars, healthVars>>

LoopPcs == {"idle", "pick", "probe", "judge", "fell"}

-----------------------------------------------------------------------------
\* The ticker fires and the entry is a candidate: running and not torn down.
Candidate ==
    /\ loop = "idle" /\ ~removed
    /\ ~removing /\ status = "Running"
    /\ loop' = "pick"
    /\ UNCHANGED <<vars, failures, probed, failed>>

\* The service to probe is read after that: a restart may have replaced it.
PickService ==
    /\ loop = "pick"
    /\ loop' = "probe" /\ probed' = created
    /\ UNCHANGED <<vars, failures, failed>>

\* Health returns, panics or overruns its deadline; a teardown that began in the
\* meantime discards the result.
ProbeReturns ==
    /\ loop = "probe"
    /\ \E fail \in BOOLEAN :
         /\ stage[probed] = "run" /\ probed \in Sick => fail
         /\ IF removed \/ removing
            THEN loop' = "idle" /\ UNCHANGED failed
            ELSE loop' = "judge" /\ failed' = fail
    /\ UNCHANGED <<vars, failures, probed>>

\* The counter is read and written: a success clears it, a failure below the
\* threshold raises it, and the failure that reaches it clears it and falls.
JudgeForgetful ==                                 \* mutation: never stored
    /\ loop = "judge"
    /\ failures' = 0
    /\ loop' = IF failed /\ failures + 1 >= Threshold THEN "fell" ELSE "idle"
    /\ UNCHANGED <<vars, probed, failed>>
Judge ==
    /\ loop = "judge"
    /\ LET falls == failed /\ failures + 1 >= Threshold IN
       /\ failures' = IF failed /\ ~falls THEN failures + 1 ELSE 0
       /\ loop' = IF falls THEN "fell" ELSE "idle"
    /\ UNCHANGED <<vars, probed, failed>>

\* The instance that is current now is cancelled, for its handler to restart.
CancelSick ==
    /\ loop = "fell"
    /\ deadInstances' = deadInstances \cup CancelFn(cancel)
    /\ loop' = "idle"
    /\ UNCHANGED <<regVars, status, nowVars, latchVars, countVars, orchVars,
                   deadTeardowns, instVars, callVars, haltVars>>
    /\ UNCHANGED <<failures, probed, failed>>

\* resetEntryLocked and ReplaceService clear the counter; nothing else that
\* happens to the entry touches it.
ResetFailures == removed' # removed \/ (\E c \in Callers : pc[c] = "swap" /\ pc'[c] = "enter")

Beside(A) ==
    /\ A
    /\ failures' = IF ResetFailures THEN 0 ELSE failures
    /\ UNCHANGED <<loop, probed, failed>>

EntryStep == Beside(Next)

HealthInit ==
    /\ Init
    /\ failures = 0 /\ loop = "idle" /\ probed = 0 /\ failed = FALSE

LoopStep == Candidate \/ PickService \/ ProbeReturns \/ Judge \/ CancelSick

HealthNext == EntryStep \/ LoopStep

HealthSpec == HealthInit /\ [][HealthNext]_allVars

\* The fairness of EntryLifecycle, and a ticker that keeps firing in a loop that
\* is scheduled, with probes that return by their deadline.
HealthFairSpec ==
    /\ HealthSpec
    /\ \A c \in Callers : WF_allVars(Beside(CallStep(c)))
    /\ \A i \in Ids : WF_allVars(Beside(HandlerStep(i)))
                      /\ WF_allVars(Beside(ExitInstance(i) /\ Cancelled(i)))
    /\ WF_allVars(LoopStep)

-----------------------------------------------------------------------------
(* Properties. *)

HealthTypeOK ==
    /\ TypeOK
    /\ failures \in 0 .. Threshold - 1 /\ loop \in LoopPcs
    /\ probed \in Ids \cup {0} /\ failed \in BOOLEAN

\* An instance whose probes keep failing is restarted or stopped (health.go
\* 75-208): neither a start in progress, nor a probe of its predecessor, nor a
\* counter another step of the entry reset keeps it running for ever.
SickIsRestarted == \A i \in Sick : stage[i] = "run" ~> stage[i] # "run"

\* What README.md:575-576 promises of the threshold: it resets on a restart, so an
\* instance that no probe has reached yet has no failed probe to its name.
RestartStartsOver == probed # created => failures = 0

=============================================================================
