------------------------------ MODULE EntryProofs ------------------------------
(***************************************************************************)
(* Theorems about EntryLifecycle and its ledger of stops, for every value  *)
(* of their constants.                                                     *)
(***************************************************************************)
EXTENDS EntryLedger, FiniteSetTheorems, TLAPS

USE DEF regVars, nowVars, latchVars, countVars, orchVars, ctxVars, entryVars,
        instVars, callVars, haltVars,
        PcOnly, CallOnly, StageOnly, InstOnly, HpcOnly, HaltOnly

-----------------------------------------------------------------------------
(* Updating the local variables of a call or of an instance keeps their type. *)

LEMMA CallInstUpdate ==
  ASSUME NEW f \in [Callers -> CallRecords], NEW c, NEW i \in Ids \cup {0}
  PROVE  [f EXCEPT ![c].inst = i] \in [Callers -> CallRecords]
  BY DEF CallRecords

LEMMA CallAwaitedUpdate ==
  ASSUME NEW f \in [Callers -> CallRecords], NEW c, NEW i \in Ids \cup {0}
  PROVE  [f EXCEPT ![c].awaited = i] \in [Callers -> CallRecords]
  BY DEF CallRecords

LEMMA CallActiveUpdate ==
  ASSUME NEW f \in [Callers -> CallRecords], NEW c, NEW b \in BOOLEAN
  PROVE  [f EXCEPT ![c].active = b] \in [Callers -> CallRecords]
  BY DEF CallRecords

LEMMA CallErrUpdate ==
  ASSUME NEW f \in [Callers -> CallRecords], NEW c, NEW b \in BOOLEAN
  PROVE  [f EXCEPT ![c].err = b] \in [Callers -> CallRecords]
  BY DEF CallRecords

LEMMA CallCompletedUpdate ==
  ASSUME NEW f \in [Callers -> CallRecords], NEW c, NEW b \in BOOLEAN, NEW e \in BOOLEAN
  PROVE  [f EXCEPT ![c].completed = b, ![c].err = e] \in [Callers -> CallRecords]
  <1> DEFINE g == [f EXCEPT ![c].completed = b]
  <1>1. g \in [Callers -> CallRecords]
    BY DEF CallRecords
  <1>2. [g EXCEPT ![c].err = e] \in [Callers -> CallRecords]
    BY <1>1, CallErrUpdate
  <1>3. [g EXCEPT ![c].err = e] = [f EXCEPT ![c].completed = b, ![c].err = e]
    OBVIOUS
  <1> QED
    BY <1>2, <1>3

LEMMA NoCallType == NoCall \in CallRecords
  BY DEF NoCall, CallRecords

LEMMA InstUpdates ==
  ASSUME NEW f \in [Ids -> InstRecords], NEW i \in Ids
  PROVE  /\ \A t \in Ids \cup {0} :
              /\ [f EXCEPT ![i].seen = t] \in [Ids -> InstRecords]
              /\ [f EXCEPT ![i].era = t] \in [Ids -> InstRecords]
         /\ \A b \in BOOLEAN : [f EXCEPT ![i].crash = b] \in [Ids -> InstRecords]
         /\ \A v \in {"none", "Stopped", "Crashed"} :
              [f EXCEPT ![i].verdict = v] \in [Ids -> InstRecords]
  BY DEF InstRecords

LEMMA InstSuccessor ==
  ASSUME NEW f \in [Ids -> InstRecords], NEW i, NEW n \in Ids,
         NEW m \in Ids, NEW e \in Ids \cup {0}
  PROVE  [f EXCEPT ![i].next = n, ![m].era = e] \in [Ids -> InstRecords]
  <1> DEFINE g == [f EXCEPT ![i].next = n]
  <1>1. g \in [Ids -> InstRecords]
    BY DEF InstRecords
  <1> HIDE DEF g
  <1>2. [g EXCEPT ![m].era = e] \in [Ids -> InstRecords]
    BY <1>1 DEF InstRecords
  <1> QED
    BY <1>2 DEF g

-----------------------------------------------------------------------------
(* TypeOK is inductive. *)

LEMMA TypeInit == Init => TypeOK
  <1> SUFFICES ASSUME Init PROVE TypeOK
    OBVIOUS
  <1> USE EntryAssumption DEF Init
  <1>1. created \in Ids \cup {0} /\ owners \subseteq Ids
    BY DEF Ids
  <1>2. stage \in [Ids -> InstPcs]
    BY DEF InstPcs
  <1>3. NoInst \in InstRecords
    BY DEF NoInst, InstRecords
  <1>4. inst \in [Ids -> InstRecords]
    <2>1. 1 \in Ids
      BY DEF Ids
    <2>2. [NoInst EXCEPT !.era = 1] \in InstRecords
      BY <1>3, <2>1 DEF InstRecords
    <2> QED
      BY <1>3, <2>2
  <1>5. pc \in [Callers -> CallPcs] /\ hpc \in HaltPcs /\ halt \in HaltRecords
    BY DEF CallPcs, HaltPcs, HaltRecords, NoHalt
  <1>6. status \in Statuses /\ created \in Nat
    BY DEF Statuses
  <1>7. call \in [Callers -> CallRecords]
    BY NoCallType
  <1>8. done \in Ids \cup {0} /\ cancel \in Ids \cup {0} /\ teardown \in Ids \cup {0}
    BY <1>1
  <1>9. /\ wg \in Int /\ starts \in Nat /\ stops \in Nat /\ retryCount \in Nat
        /\ deadTeardowns \subseteq Ids /\ deadInstances \subseteq Ids
    BY <1>6
  <1> QED
    BY <1>1, <1>2, <1>4, <1>5, <1>6, <1>7, <1>8, <1>9 DEF TypeOK

LEMMA TypeCallStep ==
  ASSUME TypeOK, NEW c \in Callers, CallStep(c)
  PROVE  TypeOK'
  <1>1. CASE EnterStart(c)
    <2> USE <1>1 DEF TypeOK, EnterStart
    <2>1. pc' \in [Callers -> CallPcs]
      BY DEF Goto, CallPcs, StartPcs, TeardownPcs
    <2>2. starting' \in BOOLEAN /\ stopsCounted' \in BOOLEAN
      OBVIOUS
    <2> QED
      BY <2>1, <2>2
  <1>2. CASE RefuseStart(c)
    <2> USE <1>2 DEF TypeOK, RefuseStart
    <2>1. pc' \in [Callers -> CallPcs]
      BY DEF Goto, CallPcs, StartPcs, TeardownPcs
    <2>2. status' \in Statuses
      BY DEF Statuses
    <2> QED
      BY <2>1, <2>2
  <1>3. CASE PassStart(c)
    <2> USE <1>3 DEF TypeOK, PassStart
    <2>1. pc' \in [Callers -> CallPcs]
      BY DEF Goto, CallPcs, StartPcs, TeardownPcs
    <2>2. status' \in Statuses
      BY DEF Statuses
    <2> QED
      BY <2>1, <2>2
  <1>4. CASE InstallContexts(c)
    <2> USE <1>4 DEF TypeOK, InstallContexts
    <2>1. pc' \in [Callers -> CallPcs]
      BY DEF Goto, CallPcs, StartPcs, TeardownPcs
    <2>2. created + 1 \in Ids
      BY EntryAssumption DEF Ids
    <2>3. call' \in [Callers -> CallRecords]
      BY <2>2, CallInstUpdate
    <2>4. inst' \in [Ids -> InstRecords] /\ stage' \in [Ids -> InstPcs]
      BY <2>2, InstUpdates DEF Step, InstPcs
    <2>5. owners' \subseteq Ids /\ teardown' \in Ids /\ cancel' \in Ids
      BY <2>2
    <2> QED
      BY <2>1, <2>2, <2>3, <2>4, <2>5
  <1>5. CASE PublishRunning(c)
    <2> USE <1>5 DEF TypeOK, PublishRunning
    <2>1. pc' \in [Callers -> CallPcs]
      BY DEF Goto, CallPcs, StartPcs, TeardownPcs
    <2>2. status' \in Statuses
      BY DEF Statuses
    <2> QED
      BY <2>1, <2>2
  <1>6. CASE ClearLatch(c)
    <2> USE <1>6 DEF TypeOK, ClearLatch
    <2>1. pc' \in [Callers -> CallPcs]
      BY DEF Goto, CallPcs, StartPcs, TeardownPcs
    <2>2. wgDone' \in BOOLEAN
      OBVIOUS
    <2> QED
      BY <2>1, <2>2
  <1>7. CASE AddToWaitGroup(c)
    <2> USE <1>7 DEF TypeOK, AddToWaitGroup
    <2>1. pc' \in [Callers -> CallPcs]
      BY DEF Goto, CallPcs, StartPcs, TeardownPcs
    <2> QED
      BY <2>1
  <1>8. CASE Spawn(c)
    <2> USE <1>8 DEF TypeOK, Spawn
    <2>1. pc' \in [Callers -> CallPcs]
      BY DEF Goto, CallPcs, StartPcs, TeardownPcs
    <2>2. call[c].inst \in Ids \cup {0}
      BY DEF CallRecords
    <2>3. stage' \in [Ids -> InstPcs]
      BY DEF Step, InstPcs
    <2> QED
      BY <2>1, <2>2, <2>3
  <1>9. CASE StartReturned(c)
    <2> USE <1>9 DEF TypeOK, StartReturned
    <2>1. pc' \in [Callers -> CallPcs]
      BY DEF Goto, CallPcs, StartPcs, TeardownPcs
    <2> QED
      BY <2>1
  <1>10. CASE StartTimedOut(c)
    <2> USE <1>10 DEF TypeOK, StartTimedOut
    <2>1. pc' \in [Callers -> CallPcs]
      BY DEF Goto, CallPcs, StartPcs, TeardownPcs
    <2>2. call[c].inst \in Ids \cup {0}
      BY DEF CallRecords
    <2>3. deadInstances' \subseteq Ids
      BY <2>2 DEF CancelFn
    <2> QED
      BY <2>1, <2>2, <2>3
  <1>11. CASE InnerRelease(c)
    <2> USE <1>11 DEF TypeOK, InnerRelease
    <2>1. pc' \in [Callers -> CallPcs]
      BY DEF Goto, CallPcs, StartPcs, TeardownPcs
    <2>2. starting' \in BOOLEAN
      OBVIOUS
    <2> QED
      BY <2>1, <2>2
  <1>12. CASE OuterRelease(c)
    <2> USE <1>12 DEF OuterRelease
    <2>1. pc' \in [Callers -> CallPcs]
      BY DEF Goto, CallPcs, StartPcs, TeardownPcs, TypeOK
    <2>2. call' \in [Callers -> CallRecords]
      BY NoCallType DEF TypeOK
    <2>3. /\ starting' = FALSE
          /\ UNCHANGED <<removing, removed, status, nowVars, latchVars, countVars,
                         orchVars, ctxVars, instVars, haltVars>>
      OBVIOUS
    <2> HIDE <1>12 DEF OuterRelease
    <2>4. /\ starting' \in BOOLEAN /\ removing' \in BOOLEAN /\ removed' \in BOOLEAN
          /\ status' \in Statuses /\ owners' \subseteq Ids
          /\ done' \in Ids \cup {0} /\ cancel' \in Ids \cup {0} /\ teardown' \in Ids \cup {0}
      BY <2>3 DEF TypeOK
    <2>5. /\ retryCount' \in Nat /\ wgDone' \in BOOLEAN /\ stopsCounted' \in BOOLEAN
          /\ wg' \in Int /\ starts' \in Nat /\ stops' \in Nat
      BY <2>3 DEF TypeOK
    <2>6. /\ octx' \in BOOLEAN /\ stopping' \in BOOLEAN /\ stopped' \in BOOLEAN
          /\ deadTeardowns' \subseteq Ids /\ deadInstances' \subseteq Ids
      BY <2>3 DEF TypeOK
    <2>7. /\ created' \in Ids \cup {0} /\ stage' \in [Ids -> InstPcs]
          /\ inst' \in [Ids -> InstRecords] /\ hpc' \in HaltPcs /\ halt' \in HaltRecords
      BY <2>3 DEF TypeOK
    <2> QED
      BY <2>1, <2>2, <2>4, <2>5, <2>6, <2>7 DEF TypeOK
  <1>13. CASE ValidateReplacement(c)
    <2> USE <1>13 DEF TypeOK, ValidateReplacement
    <2>1. pc' \in [Callers -> CallPcs]
      BY DEF Goto, CallPcs, StartPcs, TeardownPcs
    <2> QED
      BY <2>1
  <1>14. CASE CancelContexts(c)
    <2> USE <1>14 DEF TypeOK, CancelContexts
    <2>1. pc' \in [Callers -> CallPcs]
      BY DEF Goto, CallPcs, StartPcs, TeardownPcs
    <2>2. deadTeardowns' \subseteq Ids /\ deadInstances' \subseteq Ids
      BY DEF CancelFn
    <2> QED
      BY <2>1, <2>2
  <1>15. CASE SnapshotDone(c)
    <2> USE <1>15 DEF TypeOK, SnapshotDone
    <2>1. pc' \in [Callers -> CallPcs]
      BY DEF Goto, CallPcs, StartPcs, TeardownPcs
    <2>2. call' \in [Callers -> CallRecords]
      BY CallAwaitedUpdate
    <2> QED
      BY <2>1, <2>2
  <1>16. CASE BeginStop(c)
    <2> USE <1>16 DEF TypeOK, BeginStop
    <2>1. pc' \in [Callers -> CallPcs]
      BY DEF Goto, CallPcs, StartPcs, TeardownPcs
    <2> DEFINE b == status \in {"Running", "Starting"}
    <2>2. b \in BOOLEAN
      OBVIOUS
    <2>3. call' = [call EXCEPT ![c].active = b]
      OBVIOUS
    <2> HIDE DEF b
    <2>4. call' \in [Callers -> CallRecords]
      BY <2>2, <2>3, CallActiveUpdate
    <2> QED
      BY <2>1, <2>2, <2>3, <2>4
  <1>17. CASE MarkStopping(c)
    <2> USE <1>17 DEF TypeOK, MarkStopping
    <2>1. pc' \in [Callers -> CallPcs]
      BY DEF Goto, CallPcs, StartPcs, TeardownPcs
    <2>2. status' \in Statuses
      BY DEF Statuses
    <2> QED
      BY <2>1, <2>2
  <1>18. CASE StopSequence(c)
    <2> USE <1>18 DEF TypeOK, StopSequence
    <2>1. pc' \in [Callers -> CallPcs]
      BY DEF Goto, CallPcs, StartPcs, TeardownPcs
    <2>2. PICK e \in BOOLEAN : call' = [call EXCEPT ![c].completed = TRUE, ![c].err = e]
      OBVIOUS
    <2>3. call' \in [Callers -> CallRecords]
      BY <2>2, CallCompletedUpdate
    <2> QED
      BY <2>1, <2>2, <2>3
  <1>19. CASE AbandonSequence(c)
    <2> USE <1>19 DEF TypeOK, AbandonSequence
    <2>1. pc' \in [Callers -> CallPcs]
      BY DEF Goto, CallPcs, StartPcs, TeardownPcs
    <2>2. call' \in [Callers -> CallRecords]
      BY CallErrUpdate
    <2> QED
      BY <2>1, <2>2
  <1>20. CASE AwaitExit(c)
    <2> USE <1>20 DEF TypeOK, AwaitExit
    <2>1. pc' \in [Callers -> CallPcs]
      BY DEF Goto, CallPcs, StartPcs, TeardownPcs
    <2> QED
      BY <2>1
  <1>21. CASE AwaitTimedOut(c)
    <2> USE <1>21 DEF TypeOK, AwaitTimedOut
    <2>1. pc' \in [Callers -> CallPcs]
      BY DEF Goto, CallPcs, StartPcs, TeardownPcs
    <2>2. call' \in [Callers -> CallRecords]
      BY CallCompletedUpdate
    <2> QED
      BY <2>1, <2>2
  <1>22. CASE FinishStop(c)
    <2> USE <1>22 DEF TypeOK, FinishStop
    <2>1. pc' \in [Callers -> CallPcs]
      BY DEF Goto, CallPcs, StartPcs, TeardownPcs
    <2>2. stopsCounted' \in BOOLEAN
      BY DEF AccountStop
    <2>3. stops' \in Nat
      BY DEF AccountStop
    <2>4. status' \in Statuses
      BY DEF Statuses
    <2> QED
      BY <2>1, <2>2, <2>3, <2>4
  <1>23. CASE RemoveEntry(c)
    <2> USE <1>23 DEF TypeOK, RemoveEntry
    <2>1. pc' \in [Callers -> CallPcs]
      BY DEF Goto, CallPcs, StartPcs, TeardownPcs
    <2>2. status' \in Statuses
      BY DEF Statuses
    <2> QED
      BY <2>1, <2>2
  <1>24. CASE DrainOwners(c)
    <2> USE <1>24 DEF TypeOK, DrainOwners
    <2>1. pc' \in [Callers -> CallPcs]
      BY DEF Goto, CallPcs, StartPcs, TeardownPcs
    <2> QED
      BY <2>1
  <1>25. CASE ReleaseTeardown(c)
    <2> USE <1>25 DEF ReleaseTeardown
    <2>1. pc' \in [Callers -> CallPcs]
      BY DEF Goto, CallPcs, StartPcs, TeardownPcs, TypeOK
    <2>2. call' \in [Callers -> CallRecords]
      BY NoCallType DEF TypeOK
    <2>3. /\ removing' = FALSE
          /\ UNCHANGED <<starting, removed, status, nowVars, latchVars, countVars,
                         orchVars, ctxVars, instVars, haltVars>>
      OBVIOUS
    <2> HIDE <1>25 DEF ReleaseTeardown
    <2>4. /\ starting' \in BOOLEAN /\ removing' \in BOOLEAN /\ removed' \in BOOLEAN
          /\ status' \in Statuses /\ owners' \subseteq Ids
          /\ done' \in Ids \cup {0} /\ cancel' \in Ids \cup {0} /\ teardown' \in Ids \cup {0}
      BY <2>3 DEF TypeOK
    <2>5. /\ retryCount' \in Nat /\ wgDone' \in BOOLEAN /\ stopsCounted' \in BOOLEAN
          /\ wg' \in Int /\ starts' \in Nat /\ stops' \in Nat
      BY <2>3 DEF TypeOK
    <2>6. /\ octx' \in BOOLEAN /\ stopping' \in BOOLEAN /\ stopped' \in BOOLEAN
          /\ deadTeardowns' \subseteq Ids /\ deadInstances' \subseteq Ids
      BY <2>3 DEF TypeOK
    <2>7. /\ created' \in Ids \cup {0} /\ stage' \in [Ids -> InstPcs]
          /\ inst' \in [Ids -> InstRecords] /\ hpc' \in HaltPcs /\ halt' \in HaltRecords
      BY <2>3 DEF TypeOK
    <2> QED
      BY <2>1, <2>2, <2>4, <2>5, <2>6, <2>7 DEF TypeOK
  <1>26. CASE SwapService(c)
    <2> USE <1>26 DEF TypeOK, SwapService
    <2>1. pc' \in [Callers -> CallPcs]
      BY DEF Goto, CallPcs, StartPcs, TeardownPcs
    <2>2. retryCount' \in Nat /\ stopsCounted' \in BOOLEAN
      OBVIOUS
    <2> QED
      BY <2>1, <2>2
  <1> QED
    BY <1>1, <1>2, <1>3, <1>4, <1>5, <1>6, <1>7, <1>8, <1>9, <1>10, <1>11, <1>12, <1>13, <1>14,
       <1>15, <1>16, <1>17, <1>18, <1>19, <1>20, <1>21, <1>22, <1>23, <1>24, <1>25, <1>26
    DEF CallStep, StartStep, TeardownStep

LEMMA TypeHandlerStep ==
  ASSUME TypeOK, NEW i \in Ids, HandlerStep(i)
  PROVE  TypeOK'
  <1>1. CASE EnterHandler(i)
    <2> USE <1>1 DEF TypeOK, EnterHandler
    <2>1. stage' \in [Ids -> InstPcs]
      BY DEF Step, InstPcs
    <2>2. inst' \in [Ids -> InstRecords]
      BY EntryAssumption, InstUpdates
    <2> QED
      BY <2>1, <2>2
  <1>2. CASE DecideRemoving(i)
    <2> USE <1>2 DEF TypeOK, DecideRemoving
    <2>1. stage' \in [Ids -> InstPcs]
      BY DEF Step, InstPcs
    <2> QED
      BY <2>1
  <1>3. CASE DecideVerdict(i)
    <2> USE <1>3 DEF TypeOK, DecideVerdict
    <2>1. stage' \in [Ids -> InstPcs]
      BY DEF Step, InstPcs
    <2>2. Verdict(i) \in {"none", "Stopped", "Crashed"}
      BY EntryAssumption DEF Verdict
    <2>3. inst' \in [Ids -> InstRecords]
      BY <2>2, InstUpdates
    <2> QED
      BY <2>1, <2>2, <2>3
  <1>4. CASE CommitVerdict(i)
    <2> USE <1>4 DEF TypeOK, CommitVerdict
    <2>1. stage' \in [Ids -> InstPcs]
      BY DEF Step, InstPcs
    <2>2. stopsCounted' \in BOOLEAN
      BY DEF AccountStop
    <2>3. stops' \in Nat
      BY DEF AccountStop
    <2>4. inst[i] \in InstRecords
      OBVIOUS
    <2>5. status' \in Statuses
      BY <2>4 DEF Statuses, InstRecords
    <2> QED
      BY <2>1, <2>2, <2>3, <2>4, <2>5
  <1>5. CASE ClassifyExit(i)
    <2> USE <1>5 DEF TypeOK, ClassifyExit
    <2>1. stage' \in [Ids -> InstPcs]
      BY DEF Step, InstPcs
    <2>2. retryCount' \in Nat
      OBVIOUS
    <2> QED
      BY <2>1, <2>2
  <1>6. CASE ReportCrash(i)
    <2> USE <1>6 DEF TypeOK, ReportCrash
    <2>1. stage' \in [Ids -> InstPcs]
      BY DEF Step, InstPcs
    <2>2. status' \in Statuses
      BY DEF Statuses
    <2> QED
      BY <2>1, <2>2
  <1>7. CASE CountRetry(i)
    <2> USE <1>7 DEF TypeOK, CountRetry
    <2>1. stage' \in [Ids -> InstPcs]
      BY DEF Step, InstPcs
    <2>2. retryCount' \in Nat
      OBVIOUS
    <2> QED
      BY <2>1, <2>2
  <1>8. CASE SuspendInstance(i)
    <2> USE <1>8 DEF TypeOK, SuspendInstance
    <2>1. stage' \in [Ids -> InstPcs]
      BY DEF Step, InstPcs
    <2> QED
      BY <2>1
  <1>9. CASE ReportSuspended(i)
    <2> USE <1>9 DEF TypeOK, ReportSuspended
    <2>1. stage' \in [Ids -> InstPcs]
      BY DEF Step, InstPcs
    <2>2. status' \in Statuses
      BY DEF Statuses
    <2> QED
      BY <2>1, <2>2
  <1>10. CASE CaptureTeardown(i)
    <2> USE <1>10 DEF TypeOK, CaptureTeardown
    <2>1. stage' \in [Ids -> InstPcs]
      BY DEF Step, InstPcs
    <2>2. inst' \in [Ids -> InstRecords]
      BY InstUpdates
    <2> QED
      BY <2>1, <2>2
  <1>11. CASE EndBackoff(i)
    <2> USE <1>11 DEF TypeOK, EndBackoff
    <2>1. stage' \in [Ids -> InstPcs]
      BY DEF Step, InstPcs
    <2> QED
      BY <2>1
  <1>12. CASE AbortRestart(i)
    <2> USE <1>12 DEF TypeOK, AbortRestart
    <2>1. stage' \in [Ids -> InstPcs]
      BY DEF Step, InstPcs
    <2> QED
      BY <2>1
  <1>13. CASE ReportAborted(i)
    <2> USE <1>13 DEF TypeOK, ReportAborted
    <2>1. stage' \in [Ids -> InstPcs]
      BY DEF Step, InstPcs
    <2>2. status' \in Statuses
      BY DEF Statuses
    <2> QED
      BY <2>1, <2>2
  <1>14. CASE CancelIncarnation(i)
    <2> USE <1>14 DEF TypeOK, CancelIncarnation
    <2>1. stage' \in [Ids -> InstPcs]
      BY DEF Step, InstPcs
    <2>2. deadInstances' \subseteq Ids
      BY DEF CancelFn
    <2> QED
      BY <2>1, <2>2
  <1>15. CASE CleanUpIncarnation(i)
    <2> USE <1>15 DEF TypeOK, CleanUpIncarnation
    <2>1. stage' \in [Ids -> InstPcs]
      BY DEF Step, InstPcs
    <2>2. stopsCounted' \in BOOLEAN
      OBVIOUS
    <2> QED
      BY <2>1, <2>2
  <1>16. CASE InstallRestart(i)
    <2> USE <1>16 DEF TypeOK, InstallRestart
    <2>1. stage' \in [Ids -> InstPcs]
      BY DEF Step, InstPcs
    <2>2. created + 1 \in Ids
      BY EntryAssumption DEF Ids
    <2>3. inst[i] \in InstRecords /\ inst \in [Ids -> InstRecords]
      OBVIOUS
    <2>4. owners' \subseteq Ids /\ cancel' \in Ids /\ done' \in Ids
      BY <2>2
    <2> DEFINE e == IF inst[i].seen = 0 THEN inst[i].era ELSE inst[i].seen
    <2>5. e \in Ids \cup {0}
      BY <2>3 DEF InstRecords
    <2>6. inst' = [inst EXCEPT ![i].next = created + 1, ![created + 1].era = e]
      OBVIOUS
    <2> HIDE DEF e, InstallRestart, TypeOK
    <2>7. inst' \in [Ids -> InstRecords]
      BY <2>2, <2>3, <2>5, <2>6, InstSuccessor
    <2> USE DEF InstallRestart, TypeOK
    <2> QED
      BY <2>1, <2>2, <2>3, <2>4, <2>5, <2>6, <2>7
  <1>17. CASE PublishRestart(i)
    <2> USE <1>17 DEF TypeOK, PublishRestart
    <2>1. stage' \in [Ids -> InstPcs]
      BY DEF Step, InstPcs
    <2>2. status' \in Statuses
      BY DEF Statuses
    <2> QED
      BY <2>1, <2>2
  <1>18. CASE Respawn(i)
    <2> USE <1>18 DEF TypeOK, Respawn
    <2>1. stage' \in [Ids -> InstPcs]
      BY DEF Step, InstPcs
    <2> QED
      BY <2>1
  <1>19. CASE ReleaseWaitGroup(i)
    <2> USE <1>19 DEF TypeOK, ReleaseWaitGroup
    <2>1. stage' \in [Ids -> InstPcs]
      BY DEF Step, InstPcs
    <2>2. wg' \in Int
      OBVIOUS
    <2> QED
      BY <2>1, <2>2
  <1>20. CASE ReleaseContexts(i)
    <2> USE <1>20 DEF TypeOK, ReleaseContexts
    <2>1. stage' \in [Ids -> InstPcs]
      BY DEF Step, InstPcs
    <2>2. teardown' \in Ids \cup {0} /\ deadTeardowns' \subseteq Ids
      BY DEF CancelFn
    <2>3. owners' \subseteq Ids
      OBVIOUS
    <2> QED
      BY <2>1, <2>2, <2>3
  <1>21. CASE CloseDone(i)
    <2> USE <1>21 DEF TypeOK, CloseDone
    <2>1. stage' \in [Ids -> InstPcs]
      BY DEF Step, InstPcs
    <2> QED
      BY <2>1
  <1> QED
    BY <1>1, <1>2, <1>3, <1>4, <1>5, <1>6, <1>7, <1>8, <1>9, <1>10, <1>11, <1>12, <1>13, <1>14,
       <1>15, <1>16, <1>17, <1>18, <1>19, <1>20, <1>21
    DEF HandlerStep

LEMMA TypeHaltStep ==
  ASSUME TypeOK, HaltStep
  PROVE  TypeOK'
  <1>1. CASE HaltCancel
    <2> USE <1>1 DEF TypeOK, HaltCancel
    <2>1. hpc' \in HaltPcs
      BY DEF HaltTo, HaltPcs
    <2> QED
      BY <2>1
  <1>2. CASE HaltBegin
    <2> USE <1>2 DEF TypeOK, HaltBegin
    <2>1. hpc' \in HaltPcs
      BY DEF HaltTo, HaltPcs
    <2> DEFINE b == status \in {"Running", "Starting"}
    <2>2. b \in BOOLEAN
      OBVIOUS
    <2>3. halt' = halt \/ halt' = [halt EXCEPT !.active = b]
      OBVIOUS
    <2> HIDE DEF b
    <2>4. halt' \in HaltRecords
      BY <2>2, <2>3 DEF HaltRecords
    <2> QED
      BY <2>1, <2>2, <2>3, <2>4
  <1>3. CASE HaltMark
    <2> USE <1>3 DEF TypeOK, HaltMark
    <2>1. hpc' \in HaltPcs
      BY DEF HaltTo, HaltPcs
    <2>2. status' \in Statuses
      BY DEF Statuses
    <2> QED
      BY <2>1, <2>2
  <1>4. CASE HaltSequence
    <2> USE <1>4 DEF TypeOK, HaltSequence
    <2>1. hpc' \in HaltPcs
      BY DEF HaltTo, HaltPcs
    <2>2. halt' \in HaltRecords
      BY DEF HaltRecords
    <2> QED
      BY <2>1, <2>2
  <1>5. CASE HaltWait
    <2> USE <1>5 DEF TypeOK, HaltWait
    <2>1. hpc' \in HaltPcs
      BY DEF HaltTo, HaltPcs
    <2>2. halt' \in HaltRecords
      BY DEF HaltRecords
    <2> QED
      BY <2>1, <2>2
  <1>6. CASE HaltTimedOut
    <2> USE <1>6 DEF TypeOK, HaltTimedOut
    <2>1. hpc' \in HaltPcs
      BY DEF HaltTo, HaltPcs
    <2> QED
      BY <2>1
  <1>7. CASE HaltFinish
    <2> USE <1>7 DEF TypeOK, HaltFinish
    <2>1. hpc' \in HaltPcs
      BY DEF HaltTo, HaltPcs
    <2>2. stopsCounted' \in BOOLEAN
      BY DEF AccountStop
    <2>3. stops' \in Nat
      BY DEF AccountStop
    <2>4. status' \in Statuses
      BY DEF Statuses
    <2> QED
      BY <2>1, <2>2, <2>3, <2>4
  <1>8. CASE HaltSeal
    <2> USE <1>8 DEF TypeOK, HaltSeal
    <2>1. hpc' \in HaltPcs
      BY DEF HaltTo, HaltPcs
    <2>2. stopping' \in BOOLEAN /\ stopped' \in BOOLEAN
      OBVIOUS
    <2> QED
      BY <2>1, <2>2
  <1> QED
    BY <1>1, <1>2, <1>3, <1>4, <1>5, <1>6, <1>7, <1>8
    DEF HaltStep

\* The transitions that belong to no running call or handler.
LEMMA TypeClaim ==
  ASSUME TypeOK, Claim
  PROVE  TypeOK'
  <1> USE DEF TypeOK
  <1>1. ASSUME NEW c \in Callers, ClaimStart(c)
        PROVE  TypeOK'
    <2> USE <1>1 DEF ClaimStart
    <2>1. pc' \in [Callers -> CallPcs]
      BY DEF Goto, CallPcs, StartPcs
    <2>2. call' \in [Callers -> CallRecords]
      BY DEF NoCall, CallRecords
    <2> QED
      BY <2>1, <2>2
  <1>2. ASSUME NEW c \in Callers, ClaimReplace(c)
        PROVE  TypeOK'
    <2> USE <1>2 DEF ClaimReplace
    <2>1. pc' \in [Callers -> CallPcs]
      BY DEF Goto, CallPcs
    <2>2. PICK d \in BOOLEAN :
            call' = [call EXCEPT ![c] = [NoCall EXCEPT !.kind = "replace", !.deadline = d]]
      BY EntryAssumption
    <2>3. call' \in [Callers -> CallRecords]
      BY <2>2 DEF NoCall, CallRecords
    <2> QED
      BY <2>1, <2>3
  <1>3. ASSUME NEW c \in Callers, ClaimTeardown(c)
        PROVE  TypeOK'
    <2> USE <1>3 DEF ClaimTeardown
    <2>1. pc' \in [Callers -> CallPcs]
      BY DEF Goto, CallPcs, TeardownPcs
    <2>2. PICK kind \in {"stop", "unregister"}, d \in BOOLEAN :
            call' = [call EXCEPT ![c] = [NoCall EXCEPT !.kind = kind, !.deadline = d]]
      BY EntryAssumption
    <2>3. call' \in [Callers -> CallRecords]
      BY <2>2 DEF NoCall, CallRecords
    <2> QED
      BY <2>1, <2>3
  <1> QED
    BY <1>1, <1>2, <1>3 DEF Claim, Callers

LEMMA TypeExit ==
  ASSUME TypeOK, NEW i \in Ids, ExitInstance(i)
  PROVE  TypeOK'
  <1> USE DEF TypeOK, ExitInstance
  <1>1. stage' \in [Ids -> InstPcs]
    BY DEF Step, InstPcs
  <1>2. PICK b \in BOOLEAN : inst' = [inst EXCEPT ![i].crash = b]
    OBVIOUS
  <1>3. inst' \in [Ids -> InstRecords]
    BY <1>2, InstUpdates
  <1> QED
    BY <1>1, <1>3

LEMMA TypeHaltGate ==
  ASSUME TypeOK, HaltGate
  PROVE  TypeOK'
  <1> USE DEF TypeOK, HaltGate
  <1>1. hpc' \in HaltPcs
    BY DEF HaltTo, HaltPcs
  <1>2. PICK d \in BOOLEAN : halt' = [halt EXCEPT !.deadline = d]
    BY EntryAssumption
  <1>3. halt' \in HaltRecords
    BY <1>2 DEF HaltRecords
  <1> QED
    BY <1>1, <1>3

LEMMA TypeNext == TypeOK /\ [Next]_vars => TypeOK'
  <1> SUFFICES ASSUME TypeOK, [Next]_vars
               PROVE  TypeOK'
    OBVIOUS
  <1>1. CASE Claim
    BY <1>1, TypeClaim
  <1>2. ASSUME NEW c \in Callers, CallStep(c)
        PROVE  TypeOK'
    BY <1>2, TypeCallStep
  <1>3. ASSUME NEW i \in Ids, ExitInstance(i) \/ HandlerStep(i)
        PROVE  TypeOK'
    BY <1>3, TypeExit, TypeHandlerStep
  <1>4. CASE HaltGate
    BY <1>4, TypeHaltGate
  <1>5. CASE HaltStep
    BY <1>5, TypeHaltStep
  <1>6. CASE UNCHANGED vars
    BY <1>6 DEF TypeOK, vars
  <1> QED
    BY <1>1, <1>2, <1>3, <1>4, <1>5, <1>6 DEF Next

\* Every variable keeps its type, whatever the numbers of callers and of
\* instances and whichever options the entry was registered with: in particular
\* no cancel function that was never installed is called (deadTeardowns and
\* deadInstances hold no 0).
THEOREM TypeCorrect == Spec => []TypeOK
  <1>1. Init => TypeOK
    BY TypeInit
  <1>2. TypeOK /\ [Next]_vars => TypeOK'
    BY TypeNext
  <1> QED
    BY <1>1, <1>2, PTL DEF Spec

-----------------------------------------------------------------------------
(* The reservation protocol.  With one goroutine in StartService and            *)
(* ReplaceService at a time, and any number in StopService and Unregister, the *)
(* flags starting and removing exclude each other's holders.  With two such     *)
(* goroutines they do not: startOneService and its caller both release starting.*)

SingleStarter == \A a, b \in Starters : a = b

\* Which program counters a starter and a stopper can be at.
CallShape ==
  /\ \A c \in Starters :
       /\ pc[c] \notin {"remove", "release"}
       /\ pc[c] \in TeardownPcs \cup {"validate", "swap"} => call[c].kind = "replace"
  /\ \A c \in Stoppers :
       /\ pc[c] \in TeardownPcs \cup {"idle", "remove", "release"}
       /\ call[c].kind # "replace"

\* A holder's flag is up.
FlagsUp ==
  /\ \A c \in Starters : Holding(c) => starting
  /\ \A c \in Stoppers : Holding(c) => removing

ReservationInv == CallShape /\ FlagsUp /\ ReservationExclusive

LEMMA ReservationInit == Init => ReservationInv
  BY DEF Init, ReservationInv, CallShape, FlagsUp, ReservationExclusive, Holding,
         NoCall, Callers, TeardownPcs

LEMMA ReservationClaim ==
  ASSUME SingleStarter, TypeOK, ReservationInv, Claim
  PROVE  ReservationInv'
  <1> USE EntryAssumption DEF TypeOK, ReservationInv, CallShape, FlagsUp,
          ReservationExclusive, Holding, Goto, GateOpen, TeardownPcs, Callers
  <1>1. ASSUME NEW c \in Starters, ClaimStart(c)
        PROVE  ReservationInv'
    BY <1>1 DEF ClaimStart
  <1>2. ASSUME NEW c \in Starters, ClaimReplace(c)
        PROVE  ReservationInv'
    BY <1>2 DEF ClaimReplace, NoCall
  <1>3. ASSUME NEW c \in Stoppers, ClaimTeardown(c)
        PROVE  ReservationInv'
    BY <1>3 DEF ClaimTeardown, NoCall
  <1> QED
    BY <1>1, <1>2, <1>3 DEF Claim

LEMMA ReservationCallStep ==
  ASSUME SingleStarter, TypeOK, ReservationInv, NEW c \in Callers, CallStep(c)
  PROVE  ReservationInv'
  <1> USE EntryAssumption DEF TypeOK, ReservationInv, CallShape, FlagsUp,
          ReservationExclusive, Holding, Goto, TeardownPcs, Callers
  <1>1. CASE EnterStart(c)
    BY <1>1 DEF EnterStart
  <1>2. CASE RefuseStart(c)
    BY <1>2 DEF RefuseStart
  <1>3. CASE PassStart(c)
    BY <1>3 DEF PassStart
  <1>4. CASE InstallContexts(c)
    BY <1>4 DEF InstallContexts
  <1>5. CASE PublishRunning(c)
    BY <1>5 DEF PublishRunning
  <1>6. CASE ClearLatch(c)
    BY <1>6 DEF ClearLatch
  <1>7. CASE AddToWaitGroup(c)
    BY <1>7 DEF AddToWaitGroup
  <1>8. CASE Spawn(c)
    BY <1>8 DEF Spawn
  <1>9. CASE StartReturned(c)
    BY <1>9 DEF StartReturned
  <1>10. CASE StartTimedOut(c)
    BY <1>10 DEF StartTimedOut
  <1>11. CASE InnerRelease(c)
    BY <1>11 DEF InnerRelease, SingleStarter
  <1>12. CASE OuterRelease(c)
    BY <1>12 DEF OuterRelease, SingleStarter, NoCall
  <1>13. CASE ValidateReplacement(c)
    BY <1>13 DEF ValidateReplacement
  <1>14. CASE CancelContexts(c)
    BY <1>14 DEF CancelContexts
  <1>15. CASE SnapshotDone(c)
    BY <1>15 DEF SnapshotDone
  <1>16. CASE BeginStop(c)
    BY <1>16 DEF BeginStop
  <1>17. CASE MarkStopping(c)
    BY <1>17 DEF MarkStopping
  <1>18. CASE StopSequence(c)
    BY <1>18 DEF StopSequence
  <1>19. CASE AbandonSequence(c)
    BY <1>19 DEF AbandonSequence
  <1>20. CASE AwaitExit(c)
    BY <1>20 DEF AwaitExit
  <1>21. CASE AwaitTimedOut(c)
    BY <1>21 DEF AwaitTimedOut
  <1>22. CASE FinishStop(c)
    BY <1>22 DEF FinishStop
  <1>23. CASE RemoveEntry(c)
    BY <1>23 DEF RemoveEntry
  <1>24. CASE DrainOwners(c)
    BY <1>24 DEF DrainOwners
  <1>25. CASE ReleaseTeardown(c)
    BY <1>25 DEF ReleaseTeardown, NoCall
  <1>26. CASE SwapService(c)
    BY <1>26 DEF SwapService
  <1> QED
    BY <1>1, <1>2, <1>3, <1>4, <1>5, <1>6, <1>7, <1>8, <1>9, <1>10, <1>11, <1>12, <1>13, <1>14,
       <1>15, <1>16, <1>17, <1>18, <1>19, <1>20, <1>21, <1>22, <1>23, <1>24, <1>25, <1>26
    DEF CallStep, StartStep, TeardownStep

\* Instances and the whole-orchestrator Stop leave the reservation alone.
LEMMA ReservationQuiet ==
  ASSUME ReservationInv, UNCHANGED <<starting, removing, callVars>>
  PROVE  ReservationInv'
  BY DEF ReservationInv, CallShape, FlagsUp, ReservationExclusive, Holding

LEMMA HandlerQuiet ==
  ASSUME NEW i \in Ids, HandlerStep(i)
  PROVE  UNCHANGED <<starting, removing, callVars>>
  BY DEF HandlerStep, EnterHandler, DecideRemoving, DecideVerdict, CommitVerdict, ClassifyExit,
      ReportCrash, CountRetry, SuspendInstance, ReportSuspended, CaptureTeardown, EndBackoff,
      AbortRestart, ReportAborted, CancelIncarnation, CleanUpIncarnation, InstallRestart,
      PublishRestart, Respawn, ReleaseWaitGroup, ReleaseContexts, CloseDone

LEMMA HaltQuiet ==
  ASSUME HaltStep \/ HaltGate
  PROVE  UNCHANGED <<starting, removing, callVars>>
  BY DEF HaltGate, HaltStep, HaltCancel, HaltBegin, HaltMark, HaltSequence, HaltWait,
     HaltTimedOut, HaltFinish, HaltSeal

LEMMA ReservationNext ==
  ASSUME SingleStarter
  PROVE  TypeOK /\ ReservationInv /\ [Next]_vars => ReservationInv'
  <1> SUFFICES ASSUME TypeOK, ReservationInv, [Next]_vars
               PROVE  ReservationInv'
    OBVIOUS
  <1>1. CASE Claim
    BY <1>1, ReservationClaim
  <1>2. ASSUME NEW c \in Callers, CallStep(c)
        PROVE  ReservationInv'
    BY <1>2, ReservationCallStep
  <1>3. ASSUME NEW i \in Ids, ExitInstance(i) \/ HandlerStep(i)
        PROVE  ReservationInv'
    <2>1. UNCHANGED <<starting, removing, callVars>>
      BY <1>3, HandlerQuiet DEF ExitInstance
    <2> QED
      BY <2>1, ReservationQuiet
  <1>4. CASE HaltGate \/ HaltStep
    BY <1>4, HaltQuiet, ReservationQuiet
  <1>5. CASE UNCHANGED vars
    BY <1>5, ReservationQuiet DEF vars
  <1> QED
    BY <1>1, <1>2, <1>3, <1>4, <1>5 DEF Next

\* However StartService or ReplaceService of one goroutine interleave with
\* StopService and Unregister of any number of others, with exits, self-heal
\* restarts and Orchestrator.Stop, at most one of them is inside its start or
\* teardown of the entry.
THEOREM ReservationCorrect ==
  ASSUME SingleStarter
  PROVE  Spec => []ReservationExclusive
  <1>1. Init => ReservationInv
    BY ReservationInit
  <1>2. TypeOK /\ ReservationInv /\ [Next]_vars => ReservationInv'
    BY ReservationNext
  <1>3. ReservationInv => ReservationExclusive
    BY DEF ReservationInv
  <1>4. Spec => []TypeOK
    BY TypeCorrect
  <1> QED
    BY <1>1, <1>2, <1>3, <1>4, PTL DEF Spec

-----------------------------------------------------------------------------
(***************************************************************************)
(* An entry without self-heal, with one starter and any number of          *)
(* stoppers: a stop that was verified left nothing running, the wait group *)
(* balances, a running instance keeps its owner, Running is never left     *)
(* over a dead instance, the operations implement ServiceSlot, and no stop *)
(* is counted twice.                                                       *)
(***************************************************************************)

(* The inductive invariant. *)

\* The handler of an instance without self-heal.
PlainPcs == {"none", "new", "run", "ctx", "decide", "active", "commit", "latch", "release",
             "close", "exited"}

\* A start before it spawned its instance, and that with the instance made.
LaunchPcs == {"running", "latch", "add", "spawn"}
EarlyPcs  == {"enter", "hooks", "contexts"} \cup LaunchPcs

\* Instances are created and spawned in turn, and the live one is the entry's.
Instances ==
    /\ \A i \in Ids : stage[i] \in PlainPcs /\ (stage[i] = "none" <=> i > created)
    /\ \A i \in Ids : stage[i] = "new" =>
          i = created /\ \E c \in Starters : pc[c] \in LaunchPcs
    /\ \A c \in Starters : pc[c] \in LaunchPcs =>
          created # 0 /\ call[c].inst = created /\ stage[created] = "new"
    /\ \A i, j \in Ids : Live(i) /\ Live(j) => i = j
    /\ \A i \in Ids : Live(i) => removed \/ done = i

\* A start finds no live instance and keeps it so until its own.
StartsAlone == \A c \in Starters : pc[c] \in EarlyPcs => \A i \in Ids : ~Live(i)

\* Who holds a removed entry is the teardown that removed it.
RemovedLast ==
    removed => \A c \in Callers :
                  Holding(c) => c \in Stoppers /\ pc[c] \in {"drain", "release"}

\* A teardown waits for the exit channel the entry still has, and what it
\* completed is over.
Awaits(c) ==
    /\ pc[c] \in {"begin", "mark", "sequence", "await"} => call[c].awaited = done
    /\ pc[c] \in {"await", "finish", "remove", "drain", "swap"} /\ ~call[c].err =>
          call[c].completed
    /\ pc[c] = "swap" => ~call[c].err
    /\ pc[c] \in {"finish", "remove", "drain", "release", "swap"} /\ call[c].completed =>
          \A i \in Ids : ~Live(i)

LiveInv == /\ Instances /\ StartsAlone /\ RemovedLast
           /\ \A c \in Callers : Awaits(c)

\* The latch of the wait group is open while an instance has to release it.
LatchOpen ==
    /\ \A i \in Ids : stage[i] \in {"run", "ctx", "decide", "active", "commit", "latch"} =>
          ~wgDone
    /\ \A c \in Starters : pc[c] \in {"add", "spawn"} => ~wgDone

\* A teardown past its cancellation has cancelled whatever lives.
OwnersKept ==
    /\ \A i \in Ids : Live(i) => cancel = i \/ i \in deadInstances
    /\ \A c \in Callers : pc[c] \in (TeardownPcs \ {"cancel"}) \cup {"remove", "release"} =>
          \A i \in Ids : Live(i) => i \in deadInstances
    /\ \A i \in Ids : stage[i] = "run" => i \in owners \cup deadInstances
    /\ \A c \in Starters : pc[c] \in LaunchPcs =>
          call[c].inst \in owners /\ cancel = call[c].inst

\* Running is what a live instance, a start or a stop that is about to write the
\* status left.
StatusKept ==
    /\ removing => \E c \in Stoppers : Holding(c)
    /\ \A c \in Stoppers : status = "Running" =>
          pc[c] \notin {"sequence", "await", "finish", "remove", "drain", "release"}
    /\ \A i \in Ids : stage[i] = "commit" => inst[i].verdict # "none"
    /\ status = "Running" /\ ~octx =>
          \/ \E i \in Ids : stage[i] \in {"run", "ctx", "decide", "active", "commit"}
          \/ \E c \in Starters : pc[c] \in {"latch", "add", "spawn"}
          \/ \E c \in Stoppers : pc[c] \in {"cancel", "snapshot", "begin", "mark"}

-----------------------------------------------------------------------------
Held == TypeOK /\ ReservationInv /\ SingleStarter /\ ~SelfHeal

\* Only a starter runs the code of startOneService.
LEMMA StartersStart ==
  ASSUME ReservationInv, NEW c \in Callers,
         pc[c] \in EarlyPcs \cup {"validate", "settle", "inner", "outer", "swap"}
  PROVE  c \in Starters /\ c \notin Stoppers
  BY EntryAssumption DEF ReservationInv, CallShape, Callers, EarlyPcs,
     LaunchPcs, TeardownPcs

LEMMA LiveCallStep ==
  ASSUME Held, LiveInv, NEW c \in Callers, CallStep(c)
  PROVE  LiveInv'
  <1> USE EntryAssumption DEF Held, TypeOK, ReservationInv, CallShape,
          ReservationExclusive, SingleStarter, Holding, LiveInv, Instances, StartsAlone,
             RemovedLast,
          Awaits, Goto, Step, Live, Closed, Callers, EarlyPcs, LaunchPcs, TeardownPcs
  <1>1. CASE EnterStart(c)
    BY <1>1 DEF EnterStart
  <1>2. CASE RefuseStart(c)
    BY <1>2 DEF RefuseStart
  <1>3. CASE PassStart(c)
    BY <1>3 DEF PassStart
  <1>4. CASE InstallContexts(c)
    <2>1. /\ pc[c] = "contexts" /\ c \in Starters /\ c \notin Stoppers /\ ~removed
          /\ \A d \in Callers : Holding(d) => d = c
      BY <1>4 DEF InstallContexts
    <2>2. /\ created + 1 \in Ids /\ created' = created + 1 /\ created \in Nat
          /\ stage' = [stage EXCEPT ![created + 1] = "new"]
          /\ pc' = [pc EXCEPT ![c] = "running"] /\ call' = [call EXCEPT ![c].inst = created + 1]
          /\ UNCHANGED <<done, removed>>
      BY <1>4 DEF InstallContexts, Ids
    <2>3. \A i \in Ids : ~Live(i) /\ ~Live(i)'
      BY <2>1, <2>2
    <2>4. \A i \in Ids : stage[i] # "new"
      BY <2>1
    <2>5. /\ \A i \in Ids : stage'[i] \in PlainPcs /\ (stage'[i] = "none" <=> i > created')
          /\ \A i \in Ids : stage'[i] = "new" => i = created'
      BY <2>2, <2>4 DEF PlainPcs, Ids
    <2>6. \A d \in Starters : pc'[d] \in LaunchPcs <=> d = c
      BY <2>1, <2>2
    <2>7. call'[c].inst = created + 1 /\ stage'[created + 1] = "new"
      BY <2>2 DEF CallRecords
    <2>8. Instances'
      <3> HIDE DEF Held, LiveInv
      <3>1. created' # 0 /\ created' = created + 1
        BY <2>2
      <3>2. \A d \in Starters : pc'[d] \in LaunchPcs =>
               created' # 0 /\ call'[d].inst = created' /\ stage'[created'] = "new"
        BY <2>6, <2>7, <3>1
      <3>3. \A i \in Ids : stage'[i] = "new" =>
               i = created' /\ \E d \in Starters : pc'[d] \in LaunchPcs
        <4>1. c \in Starters /\ pc'[c] \in LaunchPcs
          BY <2>1, <2>6
        <4> QED
          BY <4>1, <2>5
      <3>4. \A i, j \in Ids : Live(i)' /\ Live(j)' => i = j
        BY <2>3
      <3>5. \A i \in Ids : Live(i)' => removed' \/ done' = i
        BY <2>3
      <3> QED
        BY <2>5, <3>2, <3>3, <3>4, <3>5
    <2>9. StartsAlone' /\ RemovedLast'
      BY <2>1, <2>2, <2>3
    <2>10. \A d \in Callers : Awaits(d)'
      BY <2>1, <2>2, <2>3
    <2> QED
      BY <2>8, <2>9, <2>10
  <1>5. CASE PublishRunning(c)
    BY <1>5 DEF PublishRunning
  <1>6. CASE ClearLatch(c)
    BY <1>6 DEF ClearLatch
  <1>7. CASE AddToWaitGroup(c)
    BY <1>7 DEF AddToWaitGroup
  <1>8. CASE Spawn(c)
    <2>1. /\ pc[c] = "spawn" /\ c \in Starters /\ c \notin Stoppers /\ ~removed
          /\ \A d \in Callers : Holding(d) => d = c
      BY <1>8 DEF Spawn
    <2>2. created \in Ids /\ call[c].inst = created /\ stage[created] = "new"
      BY <2>1
    <2>3. /\ stage' = [stage EXCEPT ![created] = "run"] /\ done' = created
          /\ pc' = [pc EXCEPT ![c] = IF StartTimeout THEN "settle" ELSE "inner"]
          /\ UNCHANGED <<created, call, removed>>
      BY <1>8, <2>2 DEF Spawn
    <2>4. \A i \in Ids : ~Live(i) /\ (Live(i)' => i = created)
      BY <2>1, <2>3
    <2>5. \A i \in Ids : /\ stage'[i] \in PlainPcs /\ (stage'[i] = "none" <=> i > created)
                          /\ stage'[i] # "new"
      BY <2>2, <2>3 DEF PlainPcs
    <2>6. \A d \in Starters : pc'[d] \notin EarlyPcs
      BY <2>1, <2>3
    <2>7. Instances'
      BY <2>3, <2>4, <2>5, <2>6
    <2>8. StartsAlone' /\ RemovedLast'
      BY <2>1, <2>3, <2>6
    <2>9. \A d \in Callers : Awaits(d)'
      BY <2>1, <2>3
    <2> QED
      BY <2>7, <2>8, <2>9
  <1>9. CASE StartReturned(c)
    BY <1>9 DEF StartReturned
  <1>10. CASE StartTimedOut(c)
    BY <1>10 DEF StartTimedOut
  <1>11. CASE InnerRelease(c)
    BY <1>11 DEF InnerRelease
  <1>12. CASE OuterRelease(c)
    BY <1>12 DEF OuterRelease, NoCall
  <1>13. CASE ValidateReplacement(c)
    BY <1>13 DEF ValidateReplacement
  <1>14. CASE CancelContexts(c)
    BY <1>14 DEF CancelContexts
  <1>15. CASE SnapshotDone(c)
    BY <1>15 DEF SnapshotDone
  <1>16. CASE BeginStop(c)
    BY <1>16 DEF BeginStop
  <1>17. CASE MarkStopping(c)
    BY <1>17 DEF MarkStopping
  <1>18. CASE StopSequence(c)
    BY <1>18 DEF StopSequence
  <1>19. CASE AbandonSequence(c)
    BY <1>19 DEF AbandonSequence
  <1>20. CASE AwaitExit(c)
    <2>1. /\ pc[c] = "await" /\ ~removed /\ call[c].awaited = done
          /\ done # 0 => stage[done] = "exited"
      BY <1>20 DEF AwaitExit
    <2>2. \A i \in Ids : ~Live(i)
      <3>1. 0 \notin Ids /\ \A i \in Ids : Live(i) => done = i
        BY <2>1 DEF Ids
      <3> QED
        BY <2>1, <3>1
    <2>3. /\ pc' = [pc EXCEPT ![c] = "finish"]
          /\ UNCHANGED <<created, stage, done, removed, call>>
      BY <1>20 DEF AwaitExit
    <2>4. Instances' /\ StartsAlone' /\ RemovedLast'
      BY <2>1, <2>3
    <2>5. \A d \in Callers : Awaits(d)'
      BY <2>1, <2>2, <2>3
    <2> QED
      BY <2>4, <2>5
  <1>21. CASE AwaitTimedOut(c)
    BY <1>21 DEF AwaitTimedOut
  <1>22. CASE FinishStop(c)
    BY <1>22 DEF FinishStop
  <1>23. CASE RemoveEntry(c)
    BY <1>23 DEF RemoveEntry
  <1>24. CASE DrainOwners(c)
    BY <1>24 DEF DrainOwners
  <1>25. CASE ReleaseTeardown(c)
    BY <1>25 DEF ReleaseTeardown, NoCall
  <1>26. CASE SwapService(c)
    BY <1>26 DEF SwapService
  <1> QED
    BY <1>1, <1>2, <1>3, <1>4, <1>5, <1>6, <1>7, <1>8, <1>9, <1>10, <1>11, <1>12, <1>13, <1>14,
       <1>15, <1>16, <1>17, <1>18, <1>19, <1>20, <1>21, <1>22, <1>23, <1>24, <1>25, <1>26
    DEF CallStep, StartStep, TeardownStep

\* What an instance without self-heal may do, and nothing else.
PlainStep(i) ==
    \/ ExitInstance(i) \/ EnterHandler(i) \/ DecideRemoving(i) \/ DecideVerdict(i)
    \/ CommitVerdict(i) \/ ReleaseWaitGroup(i) \/ ReleaseContexts(i) \/ CloseDone(i)

LEMMA PlainOnly ==
  ASSUME LiveInv, NEW i \in Ids, ExitInstance(i) \/ HandlerStep(i) PROVE PlainStep(i)
  <1>1. stage[i] \in PlainPcs
    BY DEF LiveInv, Instances
  <1> QED
    BY <1>1 DEF PlainPcs, PlainStep, HandlerStep, ClassifyExit, ReportCrash, CountRetry,
       SuspendInstance, ReportSuspended, CaptureTeardown, EndBackoff, AbortRestart,
       ReportAborted, CancelIncarnation, CleanUpIncarnation, InstallRestart,
       PublishRestart, Respawn

\* A step of a live instance: what else of the state it touches is below.
LEMMA PlainMoves ==
  ASSUME Held, LiveInv, NEW i \in Ids, PlainStep(i)
  PROVE  /\ Live(i)
         /\ \E p \in PlainPcs \ {"none", "new", "run"} : stage' = [stage EXCEPT ![i] = p]
         /\ UNCHANGED <<created, done, removed, starting, removing, octx, cancel,
                        deadInstances, pc, call>>
  <1> USE DEF Held, Step, PlainPcs, Live
  <1>1. CASE ExitInstance(i)
    BY <1>1 DEF ExitInstance
  <1>2. CASE EnterHandler(i)
    BY <1>2 DEF EnterHandler
  <1>3. CASE DecideRemoving(i) \/ DecideVerdict(i) \/ CommitVerdict(i)
    BY <1>3 DEF DecideRemoving, DecideVerdict, CommitVerdict
  <1>4. CASE ReleaseWaitGroup(i) \/ ReleaseContexts(i) \/ CloseDone(i)
    BY <1>4 DEF ReleaseWaitGroup, ReleaseContexts, CloseDone
  <1> QED
    BY <1>1, <1>2, <1>3, <1>4 DEF PlainStep

LEMMA LivePlainStep ==
  ASSUME Held, LiveInv, NEW i \in Ids, PlainStep(i)
  PROVE  LiveInv'
  <1>1. PICK p \in PlainPcs \ {"none", "new", "run"} : stage' = [stage EXCEPT ![i] = p]
    BY PlainMoves
  <1>2. Live(i) /\ UNCHANGED <<created, done, removed, pc, call>>
    BY PlainMoves
  <1>3. \A j \in Ids : /\ Live(j)' => Live(j)
                       /\ stage'[j] \in PlainPcs
                       /\ (stage'[j] = "none" <=> stage[j] = "none")
                       /\ (stage'[j] = "new" <=> stage[j] = "new")
    BY <1>1, <1>2 DEF Held, TypeOK, LiveInv, Instances, Live
  <1>4. \A c \in Starters : pc[c] \in LaunchPcs => created \in Ids
    BY DEF Held, TypeOK, LiveInv, Instances
  <1>5. Instances'
    BY <1>2, <1>3, <1>4 DEF LiveInv, Instances
  <1>6. StartsAlone' /\ RemovedLast' /\ \A c \in Callers : Awaits(c)'
    BY <1>2, <1>3 DEF LiveInv, StartsAlone, RemovedLast, Awaits, Holding
  <1> QED
    BY <1>5, <1>6 DEF LiveInv

LEMMA LiveClaim ==
  ASSUME Held, LiveInv, Claim
  PROVE  LiveInv'
  <1> USE EntryAssumption DEF Held, TypeOK, ReservationInv, CallShape, FlagsUp,
          ReservationExclusive, SingleStarter, Holding, LiveInv, Instances, StartsAlone,
          RemovedLast, Awaits, Goto, Live, Closed, Callers, EarlyPcs, LaunchPcs, TeardownPcs,
          GateOpen
  <1>1. ASSUME NEW c \in Starters, ClaimStart(c) PROVE LiveInv'
    <2>1. ~removed /\ (done # 0 => stage[done] = "exited")
      BY <1>1 DEF ClaimStart, NoInstance
    <2>2. \A i \in Ids : ~Live(i)
      <3>1. 0 \notin Ids /\ \A i \in Ids : Live(i) => done = i
        BY <2>1 DEF Ids
      <3> QED
        BY <2>1, <3>1
    <2>3. /\ pc' = [pc EXCEPT ![c] = "enter"] /\ pc[c] = "idle"
          /\ \A d \in Callers : d # c => call'[d] = call[d]
          /\ UNCHANGED <<created, stage, done, removed>>
      BY <1>1 DEF ClaimStart
    <2> QED
      BY <2>1, <2>2, <2>3
  <1>2. ASSUME NEW c \in Starters, ClaimReplace(c) PROVE LiveInv'
    BY <1>2 DEF ClaimReplace
  <1>3. ASSUME NEW c \in Stoppers, ClaimTeardown(c) PROVE LiveInv'
    BY <1>3 DEF ClaimTeardown
  <1> QED
    BY <1>1, <1>2, <1>3 DEF Claim

LEMMA LiveKept ==
  ASSUME LiveInv, UNCHANGED <<created, stage, done, removed, pc, call>>
  PROVE  LiveInv'
  BY DEF LiveInv, Instances, StartsAlone, RemovedLast, Awaits, Holding, Live

LEMMA HaltKeeps ==
  ASSUME HaltStep \/ HaltGate
  PROVE  UNCHANGED <<created, stage, inst, done, cancel, owners, removed, removing, starting,
                     wg, wgDone, deadInstances, pc, call>>
  BY DEF HaltGate, HaltStep, HaltCancel, HaltBegin, HaltMark, HaltSequence, HaltWait,
         HaltTimedOut, HaltFinish, HaltSeal, AccountStop

LEMMA LiveNext ==
  ASSUME Held, LiveInv, [Next]_vars PROVE LiveInv'
  <1>1. ASSUME NEW c \in Callers, CallStep(c) PROVE LiveInv'
    BY <1>1, LiveCallStep
  <1>2. ASSUME NEW i \in Ids, ExitInstance(i) \/ HandlerStep(i) PROVE LiveInv'
    BY <1>2, PlainOnly, LivePlainStep
  <1>3. CASE HaltGate \/ HaltStep
    BY <1>3, HaltKeeps, LiveKept
  <1>4. CASE UNCHANGED vars
    BY <1>4, LiveKept DEF vars
  <1> QED
    BY <1>1, <1>2, <1>3, <1>4, LiveClaim DEF Next

LEMMA LiveInit == Init => LiveInv
  <1> SUFFICES ASSUME Init PROVE LiveInv
    OBVIOUS
  <1>1. \A c \in Callers : pc[c] = "idle"
    BY DEF Init
  <1>2. \A i \in Ids : /\ stage[i] \in {"run", "none"}
                       /\ stage[i] = "run" <=> Launched /\ i = 1
    BY DEF Init
  <1>3. created = (IF Launched THEN 1 ELSE 0) /\ done = created
    BY DEF Init
  <1>4. \A i \in Ids : i \in Nat /\ i # 0
    BY DEF Ids
  <1>5. \A i \in Ids : stage[i] \in PlainPcs /\ (stage[i] = "none" <=> i > created)
    BY <1>2, <1>3, <1>4 DEF PlainPcs
  <1>6. Instances
    BY <1>1, <1>2, <1>3, <1>5 DEF Instances, LaunchPcs, Live, Callers
  <1> QED
    BY <1>1, <1>6 DEF LiveInv, StartsAlone, RemovedLast, Awaits, Holding, EarlyPcs,
       LaunchPcs, Callers, Init

-----------------------------------------------------------------------------
(* Owners: a teardown cancels before it sweeps. *)

LEMMA OwnersCallStep ==
  ASSUME Held, LiveInv, OwnersKept, NEW c \in Callers, CallStep(c)
  PROVE  OwnersKept'
  <1> USE EntryAssumption DEF Held, TypeOK, ReservationInv, CallShape,
          ReservationExclusive, SingleStarter, Holding, LiveInv, Instances, StartsAlone,
          OwnersKept, CancelFn, Goto, Step, Live, Callers, EarlyPcs, LaunchPcs, TeardownPcs
  <1>1. CASE EnterStart(c)
    BY <1>1 DEF EnterStart
  <1>2. CASE RefuseStart(c)
    BY <1>2 DEF RefuseStart
  <1>3. CASE PassStart(c)
    BY <1>3 DEF PassStart
  <1>4. CASE InstallContexts(c)
    BY <1>4 DEF InstallContexts
  <1>5. CASE PublishRunning(c)
    BY <1>5 DEF PublishRunning
  <1>6. CASE ClearLatch(c)
    BY <1>6 DEF ClearLatch
  <1>7. CASE AddToWaitGroup(c)
    BY <1>7 DEF AddToWaitGroup
  <1>8. CASE Spawn(c)
    <2>1. /\ pc[c] = "spawn" /\ c \in Starters /\ c \notin Stoppers
          /\ \A d \in Callers : Holding(d) => d = c
      BY <1>8 DEF Spawn
    <2>2. /\ call[c].inst = created /\ created \in Ids
          /\ created \in owners /\ cancel = created
      BY <2>1
    <2>3. /\ stage' = [stage EXCEPT ![created] = "run"]
          /\ pc' = [pc EXCEPT ![c] = IF StartTimeout THEN "settle" ELSE "inner"]
          /\ UNCHANGED <<cancel, owners, deadInstances, call>>
      BY <1>8, <2>2 DEF Spawn
    <2>4. \A i \in Ids : Live(i)' => i = created
      BY <2>1, <2>3
    <2>5. \A d \in Callers : /\ pc'[d] \notin EarlyPcs
                            /\ pc'[d] \in {"idle", "outer", "settle", "inner"}
      BY <2>1, <2>3
    <2> QED
      BY <2>2, <2>3, <2>4, <2>5
  <1>9. CASE StartReturned(c)
    BY <1>9 DEF StartReturned
  <1>10. CASE StartTimedOut(c)
    BY <1>10 DEF StartTimedOut
  <1>11. CASE InnerRelease(c)
    BY <1>11 DEF InnerRelease
  <1>12. CASE OuterRelease(c)
    BY <1>12 DEF OuterRelease, NoCall
  <1>13. CASE ValidateReplacement(c)
    BY <1>13 DEF ValidateReplacement
  <1>14. CASE CancelContexts(c)
    <2>1. /\ pc[c] = "cancel" /\ deadInstances' = deadInstances \cup ({cancel} \ {0})
          /\ pc' = [pc EXCEPT ![c] = "snapshot"]
          /\ UNCHANGED <<stage, cancel, owners, call>>
      BY <1>14 DEF CancelContexts
    <2>2. \A i \in Ids : Live(i) => i \in deadInstances'
      BY <2>1 DEF Ids
    <2> QED
      BY <2>1, <2>2
  <1>15. CASE SnapshotDone(c)
    BY <1>15 DEF SnapshotDone
  <1>16. CASE BeginStop(c)
    BY <1>16 DEF BeginStop
  <1>17. CASE MarkStopping(c)
    BY <1>17 DEF MarkStopping
  <1>18. CASE StopSequence(c)
    BY <1>18 DEF StopSequence
  <1>19. CASE AbandonSequence(c)
    BY <1>19 DEF AbandonSequence
  <1>20. CASE AwaitExit(c)
    BY <1>20 DEF AwaitExit
  <1>21. CASE AwaitTimedOut(c)
    BY <1>21 DEF AwaitTimedOut
  <1>22. CASE FinishStop(c)
    BY <1>22 DEF FinishStop
  <1>23. CASE RemoveEntry(c)
    BY <1>23 DEF RemoveEntry
  <1>24. CASE DrainOwners(c)
    BY <1>24 DEF DrainOwners
  <1>25. CASE ReleaseTeardown(c)
    BY <1>25 DEF ReleaseTeardown, NoCall
  <1>26. CASE SwapService(c)
    BY <1>26 DEF SwapService
  <1> QED
    BY <1>1, <1>2, <1>3, <1>4, <1>5, <1>6, <1>7, <1>8, <1>9, <1>10, <1>11, <1>12, <1>13,
       <1>14, <1>15, <1>16, <1>17, <1>18, <1>19, <1>20, <1>21, <1>22, <1>23, <1>24, <1>25, <1>26
       DEF CallStep, StartStep, TeardownStep

LEMMA OwnersPlainStep ==
  ASSUME Held, LiveInv, OwnersKept, NEW i \in Ids, PlainStep(i)
  PROVE  OwnersKept'
  <1>1. PICK p \in PlainPcs \ {"none", "new", "run"} : stage' = [stage EXCEPT ![i] = p]
    BY PlainMoves
  <1>2. Live(i) /\ UNCHANGED <<created, cancel, deadInstances, pc, call>>
    BY PlainMoves
  <1>3. \A j \in Ids : /\ Live(j)' => Live(j)
                       /\ stage'[j] = "run" => stage[j] = "run" /\ j # i
    BY <1>1, <1>2 DEF Held, TypeOK, Live
  <1>4. owners \ {i} \subseteq owners'
    BY DEF PlainStep, ExitInstance, EnterHandler, DecideRemoving, DecideVerdict,
       CommitVerdict, ReleaseWaitGroup, ReleaseContexts, CloseDone
  <1>5. \A c \in Starters : pc[c] \in LaunchPcs => call[c].inst # i
    BY <1>2 DEF LiveInv, Instances, Live
  <1> QED
    BY <1>2, <1>3, <1>4, <1>5 DEF OwnersKept

LEMMA OwnersClaim ==
  ASSUME Held, OwnersKept, Claim PROVE OwnersKept'
  <1> USE EntryAssumption DEF Held, TypeOK, OwnersKept, Goto, Live, Callers, LaunchPcs,
          TeardownPcs
  <1>1. ASSUME NEW c \in Starters, ClaimStart(c) PROVE OwnersKept'
    BY <1>1 DEF ClaimStart
  <1>2. ASSUME NEW c \in Starters, ClaimReplace(c) PROVE OwnersKept'
    BY <1>2 DEF ClaimReplace
  <1>3. ASSUME NEW c \in Stoppers, ClaimTeardown(c) PROVE OwnersKept'
    BY <1>3 DEF ClaimTeardown
  <1> QED
    BY <1>1, <1>2, <1>3 DEF Claim

LEMMA OwnersNext ==
  ASSUME Held, LiveInv, OwnersKept, [Next]_vars PROVE OwnersKept'
  <1>1. ASSUME NEW c \in Callers, CallStep(c) PROVE OwnersKept'
    BY <1>1, OwnersCallStep
  <1>2. ASSUME NEW i \in Ids, ExitInstance(i) \/ HandlerStep(i) PROVE OwnersKept'
    BY <1>2, PlainOnly, OwnersPlainStep
  <1>3. CASE HaltGate \/ HaltStep
    BY <1>3, HaltKeeps DEF OwnersKept, Live
  <1>4. CASE UNCHANGED vars
    BY <1>4 DEF vars, OwnersKept, Live
  <1> QED
    BY <1>1, <1>2, <1>3, <1>4, OwnersClaim DEF Next

-----------------------------------------------------------------------------
(* The status. *)

LEMMA StatusCallStep ==
  ASSUME Held, LiveInv, StatusKept, NEW c \in Callers, CallStep(c)
  PROVE  StatusKept'
  <1> USE EntryAssumption DEF Held, TypeOK, ReservationInv, CallShape,
          ReservationExclusive, SingleStarter, Holding, LiveInv, Instances, StartsAlone,
          StatusKept, Goto, Step, Live, Callers, EarlyPcs, LaunchPcs, TeardownPcs
  <1>1. CASE EnterStart(c)
    BY <1>1 DEF EnterStart
  <1>2. CASE RefuseStart(c)
    BY <1>2 DEF RefuseStart
  <1>3. CASE PassStart(c)
    BY <1>3 DEF PassStart
  <1>4. CASE InstallContexts(c)
    BY <1>4 DEF InstallContexts
  <1>5. CASE PublishRunning(c)
    BY <1>5 DEF PublishRunning
  <1>6. CASE ClearLatch(c)
    BY <1>6 DEF ClearLatch
  <1>7. CASE AddToWaitGroup(c)
    BY <1>7 DEF AddToWaitGroup
  <1>8. CASE Spawn(c)
    BY <1>8 DEF Spawn
  <1>9. CASE StartReturned(c)
    BY <1>9 DEF StartReturned
  <1>10. CASE StartTimedOut(c)
    BY <1>10 DEF StartTimedOut
  <1>11. CASE InnerRelease(c)
    BY <1>11 DEF InnerRelease
  <1>12. CASE OuterRelease(c)
    BY <1>12 DEF OuterRelease, NoCall
  <1>13. CASE ValidateReplacement(c)
    BY <1>13 DEF ValidateReplacement
  <1>14. CASE CancelContexts(c)
    BY <1>14 DEF CancelContexts
  <1>15. CASE SnapshotDone(c)
    BY <1>15 DEF SnapshotDone
  <1>16. CASE BeginStop(c)
    BY <1>16 DEF BeginStop
  <1>17. CASE MarkStopping(c)
    BY <1>17 DEF MarkStopping
  <1>18. CASE StopSequence(c)
    BY <1>18 DEF StopSequence
  <1>19. CASE AbandonSequence(c)
    BY <1>19 DEF AbandonSequence
  <1>20. CASE AwaitExit(c)
    BY <1>20 DEF AwaitExit
  <1>21. CASE AwaitTimedOut(c)
    BY <1>21 DEF AwaitTimedOut
  <1>22. CASE FinishStop(c)
    BY <1>22 DEF FinishStop
  <1>23. CASE RemoveEntry(c)
    BY <1>23 DEF RemoveEntry
  <1>24. CASE DrainOwners(c)
    BY <1>24 DEF DrainOwners
  <1>25. CASE ReleaseTeardown(c)
    BY <1>25 DEF ReleaseTeardown, NoCall
  <1>26. CASE SwapService(c)
    BY <1>26 DEF SwapService
  <1> QED
    BY <1>1, <1>2, <1>3, <1>4, <1>5, <1>6, <1>7, <1>8, <1>9, <1>10, <1>11, <1>12, <1>13,
       <1>14, <1>15, <1>16, <1>17, <1>18, <1>19, <1>20, <1>21, <1>22, <1>23, <1>24, <1>25, <1>26
       DEF CallStep, StartStep, TeardownStep

LEMMA StatusPlainStep ==
  ASSUME Held, LiveInv, StatusKept, NEW i \in Ids, PlainStep(i)
  PROVE  StatusKept'
  <1> USE EntryAssumption DEF Held, TypeOK, StatusKept, Holding, Step, Callers
  <1>1. CASE ExitInstance(i)
    BY <1>1 DEF ExitInstance
  <1>2. CASE EnterHandler(i)
    BY <1>2 DEF EnterHandler
  <1>3. CASE DecideRemoving(i)
    <2>1. CASE removing
      <3>1. PICK c \in Stoppers : Holding(c)
        BY <2>1
      <3>2. pc[c] \in TeardownPcs \cup {"idle", "remove", "release"}
        BY <3>1 DEF ReservationInv, CallShape
      <3>3. status = "Running" => pc[c] \in {"cancel", "snapshot", "begin", "mark"}
        BY <3>1, <3>2 DEF TeardownPcs
      <3> QED
        BY <1>3, <3>3 DEF DecideRemoving
    <2>2. CASE ~removing
      BY <1>3, <2>2 DEF DecideRemoving
    <2> QED
      BY <2>1, <2>2
  <1>4. CASE DecideVerdict(i)
    <2>1. Verdict(i) \in {"Stopped", "Crashed"}
      BY DEF Verdict
    <2> QED
      BY <1>4, <2>1 DEF DecideVerdict, InstRecords
  <1>5. CASE CommitVerdict(i)
    BY <1>5 DEF CommitVerdict, InstRecords
  <1>6. CASE ReleaseWaitGroup(i)
    BY <1>6 DEF ReleaseWaitGroup
  <1>7. CASE ReleaseContexts(i)
    BY <1>7 DEF ReleaseContexts
  <1>8. CASE CloseDone(i)
    BY <1>8 DEF CloseDone
  <1> QED
    BY <1>1, <1>2, <1>3, <1>4, <1>5, <1>6, <1>7, <1>8 DEF PlainStep

LEMMA StatusClaim ==
  ASSUME Held, StatusKept, Claim PROVE StatusKept'
  <1> USE EntryAssumption DEF Held, TypeOK, StatusKept, Goto, Holding, Callers
  <1>1. ASSUME NEW c \in Starters, ClaimStart(c) PROVE StatusKept'
    BY <1>1 DEF ClaimStart
  <1>2. ASSUME NEW c \in Starters, ClaimReplace(c) PROVE StatusKept'
    BY <1>2 DEF ClaimReplace
  <1>3. ASSUME NEW c \in Stoppers, ClaimTeardown(c) PROVE StatusKept'
    BY <1>3 DEF ClaimTeardown
  <1> QED
    BY <1>1, <1>2, <1>3 DEF Claim

\* Orchestrator.Stop never writes Running, and it cancels the context first.
LEMMA StatusHaltStep ==
  ASSUME StatusKept, HaltGate \/ HaltStep PROVE StatusKept'
  <1>1. UNCHANGED <<stage, inst, removing, pc>>
    BY HaltKeeps
  <1>2. (status' = "Running" => status = "Running") /\ (octx => octx')
    BY DEF HaltGate, HaltStep, HaltCancel, HaltBegin, HaltMark, HaltSequence, HaltWait,
           HaltTimedOut, HaltFinish, HaltSeal
  <1> QED
    BY <1>1, <1>2 DEF StatusKept, Holding

LEMMA StatusNext ==
  ASSUME Held, LiveInv, StatusKept, [Next]_vars PROVE StatusKept'
  <1>1. ASSUME NEW c \in Callers, CallStep(c) PROVE StatusKept'
    BY <1>1, StatusCallStep
  <1>2. ASSUME NEW i \in Ids, ExitInstance(i) \/ HandlerStep(i) PROVE StatusKept'
    BY <1>2, PlainOnly, StatusPlainStep
  <1>3. CASE HaltGate \/ HaltStep
    BY <1>3, StatusHaltStep
  <1>4. CASE UNCHANGED vars
    BY <1>4 DEF vars, StatusKept, Holding
  <1> QED
    BY <1>1, <1>2, <1>3, <1>4, StatusClaim DEF Next

-----------------------------------------------------------------------------
(* The wait group. *)

Counted == {i \in Ids : Unreleased(i)}

LEMMA CountedFinite == IsFiniteSet(Counted) /\ Cardinality(Counted) \in Nat
  <1>1. IsFiniteSet(Ids)
    BY EntryAssumption, FS_Interval DEF Ids
  <1>2. IsFiniteSet(Counted)
    BY <1>1, FS_Subset DEF Counted
  <1> QED
    BY <1>2, FS_CardinalityType

LEMMA CountKept ==
  ASSUME WaitGroupBalanced, wg' = wg, \A i \in Ids : Unreleased(i)' <=> Unreleased(i)
  PROVE  WaitGroupBalanced'
  <1>1. {i \in Ids : Unreleased(i)}' = {i \in Ids : Unreleased(i)}
    OBVIOUS
  <1> QED
    BY <1>1 DEF WaitGroupBalanced

LatchInv == LatchOpen /\ WaitGroupBalanced

LEMMA LatchCallStep ==
  ASSUME Held, LiveInv, LatchOpen, NEW c \in Callers, CallStep(c)
  PROVE  LatchOpen'
  <1> USE EntryAssumption DEF Held, TypeOK, ReservationInv, CallShape,
          ReservationExclusive, SingleStarter, Holding, LiveInv, Instances, StartsAlone,
          LatchOpen, Goto, Step, Live, Callers, EarlyPcs, LaunchPcs, TeardownPcs
  <1>1. CASE EnterStart(c)
    BY <1>1 DEF EnterStart
  <1>2. CASE RefuseStart(c)
    BY <1>2 DEF RefuseStart
  <1>3. CASE PassStart(c)
    BY <1>3 DEF PassStart
  <1>4. CASE InstallContexts(c)
    BY <1>4 DEF InstallContexts
  <1>5. CASE PublishRunning(c)
    BY <1>5 DEF PublishRunning
  <1>6. CASE ClearLatch(c)
    BY <1>6 DEF ClearLatch
  <1>7. CASE AddToWaitGroup(c)
    BY <1>7 DEF AddToWaitGroup
  <1>8. CASE Spawn(c)
    BY <1>8 DEF Spawn
  <1>9. CASE StartReturned(c)
    BY <1>9 DEF StartReturned
  <1>10. CASE StartTimedOut(c)
    BY <1>10 DEF StartTimedOut
  <1>11. CASE InnerRelease(c)
    BY <1>11 DEF InnerRelease
  <1>12. CASE OuterRelease(c)
    BY <1>12 DEF OuterRelease, NoCall
  <1>13. CASE ValidateReplacement(c)
    BY <1>13 DEF ValidateReplacement
  <1>14. CASE CancelContexts(c)
    BY <1>14 DEF CancelContexts
  <1>15. CASE SnapshotDone(c)
    BY <1>15 DEF SnapshotDone
  <1>16. CASE BeginStop(c)
    BY <1>16 DEF BeginStop
  <1>17. CASE MarkStopping(c)
    BY <1>17 DEF MarkStopping
  <1>18. CASE StopSequence(c)
    BY <1>18 DEF StopSequence
  <1>19. CASE AbandonSequence(c)
    BY <1>19 DEF AbandonSequence
  <1>20. CASE AwaitExit(c)
    BY <1>20 DEF AwaitExit
  <1>21. CASE AwaitTimedOut(c)
    BY <1>21 DEF AwaitTimedOut
  <1>22. CASE FinishStop(c)
    BY <1>22 DEF FinishStop
  <1>23. CASE RemoveEntry(c)
    BY <1>23 DEF RemoveEntry
  <1>24. CASE DrainOwners(c)
    BY <1>24 DEF DrainOwners
  <1>25. CASE ReleaseTeardown(c)
    BY <1>25 DEF ReleaseTeardown, NoCall
  <1>26. CASE SwapService(c)
    BY <1>26 DEF SwapService
  <1> QED
    BY <1>1, <1>2, <1>3, <1>4, <1>5, <1>6, <1>7, <1>8, <1>9, <1>10, <1>11, <1>12, <1>13,
       <1>14, <1>15, <1>16, <1>17, <1>18, <1>19, <1>20, <1>21, <1>22, <1>23, <1>24, <1>25, <1>26
       DEF CallStep, StartStep, TeardownStep

\* Instances are numbered in turn, and a start knows the one it made.
InTurn ==
    /\ \A i \in Ids : stage[i] = "none" <=> i > created
    /\ \A c \in Starters : pc[c] \in LaunchPcs =>
          created # 0 /\ call[c].inst = created /\ stage[created] = "new"

\* What a call does to the instances the wait group counts.
LEMMA CountCallStep ==
  ASSUME TypeOK, ReservationInv, SingleStarter, InTurn, WaitGroupBalanced,
         NEW c \in Callers, CallStep(c)
  PROVE  WaitGroupBalanced'
  <1>1. CASE AddToWaitGroup(c)
    <2> DEFINE i == call[c].inst
    <2>1. /\ pc[c] = "add" /\ c \in Starters
          /\ pc' = [pc EXCEPT ![c] = "spawn"] /\ wg' = wg + 1 /\ UNCHANGED <<stage, call>>
      BY <1>1, StartersStart DEF AddToWaitGroup, Goto, EarlyPcs, LaunchPcs
    <2>2. i \in Ids /\ stage[i] = "new"
      BY <2>1 DEF TypeOK, InTurn, LaunchPcs
    <2>3. ~Unreleased(i)
      BY <2>1, <2>2 DEF Unreleased, SingleStarter
    <2>4. \A j \in Ids : Unreleased(j)' <=> Unreleased(j) \/ j = i
      BY <2>1, <2>2 DEF Unreleased, TypeOK, SingleStarter, Callers
    <2>5. Counted' = Counted \cup {i}
      BY <2>2, <2>4 DEF Counted
    <2>6. Cardinality(Counted') = Cardinality(Counted) + 1
      BY <2>2, <2>3, <2>5, CountedFinite, FS_AddElement DEF Counted
    <2> QED
      BY <2>1, <2>6 DEF WaitGroupBalanced, Counted
  <1>2. CASE Spawn(c)
    <2> DEFINE i == call[c].inst
    <2>1. /\ pc[c] = "spawn" /\ c \in Starters /\ stage' = [stage EXCEPT ![i] = "run"]
          /\ pc' = [pc EXCEPT ![c] = IF StartTimeout THEN "settle" ELSE "inner"]
          /\ UNCHANGED <<call, wg>>
      BY <1>2, StartersStart DEF Spawn, Goto, Step, EarlyPcs, LaunchPcs
    <2>2. \A j \in Ids : Unreleased(j)' <=> Unreleased(j)
      BY <2>1 DEF Unreleased, TypeOK, SingleStarter, Callers
    <2> QED
      BY <2>1, <2>2, CountKept
  <1>3. CASE InstallContexts(c)
    <2>1. /\ pc[c] = "contexts" /\ created < MaxInstances
          /\ stage' = [stage EXCEPT ![created + 1] = "new"]
          /\ pc' = [pc EXCEPT ![c] = "running"] /\ wg' = wg
      BY <1>3 DEF InstallContexts, Goto, Step
    <2>5. c \in Starters
      BY <2>1, StartersStart DEF EarlyPcs
    <2>6. created + 1 \in Ids /\ created \in Nat
      BY <2>1, EntryAssumption DEF Ids, TypeOK
    <2>2. stage[created + 1] = "none"
      BY <2>6 DEF InTurn
    <2>3. \A d \in Starters : pc[d] # "spawn" /\ pc'[d] # "spawn"
      BY <2>1, <2>5 DEF SingleStarter, TypeOK, Callers
    <2>4. \A j \in Ids : Unreleased(j)' <=> Unreleased(j)
      BY <2>1, <2>2, <2>3, <2>6 DEF Unreleased, TypeOK
    <2> QED
      BY <2>1, <2>4, CountKept
  <1>4. CASE ~AddToWaitGroup(c) /\ ~Spawn(c) /\ ~InstallContexts(c)
    <2>1. UNCHANGED <<stage, wg>>
      BY <1>4 DEF CallStep, StartStep, TeardownStep, EnterStart, RefuseStart, PassStart,
         PublishRunning, ClearLatch, StartReturned, StartTimedOut, InnerRelease,
         OuterRelease, ValidateReplacement, CancelContexts, SnapshotDone, BeginStop,
         MarkStopping, StopSequence, AbandonSequence, AwaitExit, AwaitTimedOut,
         FinishStop, RemoveEntry, DrainOwners, ReleaseTeardown, SwapService
    <2>2. pc[c] # "spawn"
      BY <1>4 DEF CallStep, StartStep, TeardownStep, EnterStart, RefuseStart, PassStart,
         PublishRunning, ClearLatch, StartReturned, StartTimedOut, InnerRelease,
         OuterRelease, ValidateReplacement, CancelContexts, SnapshotDone, BeginStop,
         MarkStopping, StopSequence, AbandonSequence, AwaitExit, AwaitTimedOut,
         FinishStop, RemoveEntry, DrainOwners, ReleaseTeardown, SwapService, Goto
    <2>5. pc \in [Callers -> CallPcs] => \E p : p # "spawn" /\ pc' = [pc EXCEPT ![c] = p]
      BY <1>4 DEF CallStep, StartStep, TeardownStep, EnterStart, RefuseStart, PassStart,
         PublishRunning, ClearLatch, StartReturned, StartTimedOut, InnerRelease,
         OuterRelease, ValidateReplacement, CancelContexts, SnapshotDone, BeginStop,
         MarkStopping, StopSequence, AbandonSequence, AwaitExit, AwaitTimedOut,
         FinishStop, RemoveEntry, DrainOwners, ReleaseTeardown, SwapService, Goto
    <2>6. call' = call \/ \E r : call' = [call EXCEPT ![c] = r]
      BY <1>4 DEF CallStep, StartStep, TeardownStep, EnterStart, RefuseStart, PassStart,
         PublishRunning, ClearLatch, StartReturned, StartTimedOut, InnerRelease,
         OuterRelease, ValidateReplacement, CancelContexts, SnapshotDone, BeginStop,
         MarkStopping, StopSequence, AbandonSequence, AwaitExit, AwaitTimedOut,
         FinishStop, RemoveEntry, DrainOwners, ReleaseTeardown, SwapService, Goto
    <2>3. \A d \in Starters : /\ pc'[d] = "spawn" <=> pc[d] = "spawn"
                              /\ pc[d] = "spawn" => call'[d] = call[d]
      BY <2>2, <2>5, <2>6 DEF TypeOK, Callers
    <2>4. \A j \in Ids : Unreleased(j)' <=> Unreleased(j)
      BY <2>1, <2>3 DEF Unreleased
    <2> QED
      BY <2>1, <2>4, CountKept
  <1> QED
    BY <1>1, <1>2, <1>3, <1>4

LEMMA LatchPlainStep ==
  ASSUME Held, LiveInv, LatchInv, NEW i \in Ids, PlainStep(i)
  PROVE  LatchInv'
  <1>1. CASE ReleaseWaitGroup(i)
    <2>1. /\ stage[i] = "latch" /\ wgDone' /\ wg' = IF wgDone THEN wg ELSE wg - 1
          /\ stage' = [stage EXCEPT ![i] = "release"] /\ UNCHANGED <<pc, call>>
      BY <1>1 DEF ReleaseWaitGroup, Step
    <2>2. ~wgDone /\ wg \in Int
      BY <2>1 DEF LatchInv, LatchOpen, Held, TypeOK
    <2>3. \A j \in Ids : Live(j) => j = i
      BY <2>1 DEF LiveInv, Instances, Live
    <2>4. \A c \in Starters : pc[c] \notin LaunchPcs
      BY <2>1 DEF LiveInv, StartsAlone, EarlyPcs, Live
    <2>5. LatchOpen'
      BY <2>1, <2>3, <2>4 DEF LatchOpen, Held, TypeOK, Live, LaunchPcs
    <2>6. i \in Counted /\ Counted' = Counted \ {i}
      BY <2>1, <2>4 DEF Counted, Unreleased, Held, TypeOK, LaunchPcs
    <2>7. Cardinality(Counted') = Cardinality(Counted) - 1
      BY <2>6, CountedFinite, FS_RemoveElement
    <2> QED
      BY <2>1, <2>2, <2>5, <2>7 DEF LatchInv, WaitGroupBalanced, Counted
  <1>2. CASE ~ReleaseWaitGroup(i)
    <2>1. UNCHANGED <<wgDone, wg, pc, call>>
      BY <1>2 DEF PlainStep, ExitInstance, EnterHandler, DecideRemoving, DecideVerdict,
         CommitVerdict, ReleaseContexts, CloseDone
    <2>2. /\ stage'[i] \in {"latch", "ctx", "decide", "active", "commit"} =>
                stage[i] \in {"run", "ctx", "decide", "active", "commit"}
          /\ stage'[i] \in PlainPcs \ {"none", "new", "run"}
          /\ stage'[i] \in {"release", "close", "exited"} <=>
                stage[i] \in {"release", "close", "exited"}
          /\ stage[i] \notin {"none", "new", "exited"}
          /\ \A j \in Ids : j # i => stage'[j] = stage[j]
      BY <1>2 DEF PlainStep, ExitInstance, EnterHandler, DecideRemoving, DecideVerdict,
         CommitVerdict, ReleaseContexts, CloseDone, Step, Held, TypeOK, PlainPcs
    <2>3. LatchOpen'
      BY <2>1, <2>2 DEF LatchInv, LatchOpen
    <2>4. \A j \in Ids : Unreleased(j)' <=> Unreleased(j)
      BY <2>1, <2>2 DEF Unreleased, PlainPcs
    <2> QED
      BY <2>1, <2>3, <2>4, CountKept DEF LatchInv
  <1> QED
    BY <1>1, <1>2

LEMMA LatchClaim ==
  ASSUME Held, LatchInv, Claim PROVE LatchInv'
  <1>1. UNCHANGED <<stage, wg, wgDone>>
    BY DEF Claim, ClaimStart, ClaimReplace, ClaimTeardown
  <1>2. \A d \in Starters : pc[d] \in {"add", "spawn"} \/ pc'[d] \in {"add", "spawn"} =>
          pc'[d] = pc[d] /\ call'[d] = call[d]
    BY DEF Claim, ClaimStart, ClaimReplace, ClaimTeardown, Goto, Held, TypeOK, Callers
  <1>3. \A j \in Ids : Unreleased(j)' <=> Unreleased(j)
    BY <1>1, <1>2 DEF Unreleased
  <1> QED
    BY <1>1, <1>2, <1>3, CountKept DEF LatchInv, LatchOpen

LEMMA LatchNext ==
  ASSUME Held, LiveInv, LatchInv, [Next]_vars PROVE LatchInv'
  <1>1. ASSUME NEW c \in Callers, CallStep(c) PROVE LatchInv'
    <2>1. InTurn
      BY DEF LiveInv, Instances, InTurn
    <2> QED
      BY <1>1, <2>1, LatchCallStep, CountCallStep DEF LatchInv, Held
  <1>2. ASSUME NEW i \in Ids, ExitInstance(i) \/ HandlerStep(i) PROVE LatchInv'
    BY <1>2, PlainOnly, LatchPlainStep
  <1>3. CASE HaltGate \/ HaltStep \/ UNCHANGED vars
    <2>1. UNCHANGED <<stage, wg, wgDone, pc, call>>
      BY <1>3, HaltKeeps DEF vars
    <2> QED
      BY <2>1, CountKept DEF LatchInv, LatchOpen, Unreleased
  <1> QED
    BY <1>1, <1>2, <1>3, LatchClaim DEF Next

LEMMA OtherInits == Init => OwnersKept /\ StatusKept /\ LatchInv
  <1> SUFFICES ASSUME Init PROVE OwnersKept /\ StatusKept /\ LatchInv
    OBVIOUS
  <1>1. \A c \in Callers : pc[c] = "idle"
    BY DEF Init
  <1>2. \A i \in Ids : /\ stage[i] \in {"run", "none"}
                       /\ stage[i] = "run" <=> Launched /\ i = 1
    BY DEF Init
  <1>3. 1 \in Ids
    BY EntryAssumption DEF Ids
  <1>4. /\ cancel = IF Launched THEN 1 ELSE 0
        /\ owners = IF Launched THEN {1} ELSE {}
        /\ status = IF Launched THEN "Running" ELSE "Registered"
        /\ wg = IF Launched THEN 1 ELSE 0
        /\ ~wgDone /\ ~removing
    BY DEF Init
  <1>5. OwnersKept
    BY <1>1, <1>2, <1>4 DEF OwnersKept, Live, LaunchPcs, TeardownPcs, Callers
  <1>6. StatusKept
    BY <1>1, <1>2, <1>3, <1>4 DEF StatusKept, Callers
  <1>7. LatchOpen
    BY <1>1, <1>4 DEF LatchOpen, Callers
  <1>8. Counted = IF Launched THEN {1} ELSE {}
    BY <1>1, <1>2, <1>3 DEF Counted, Unreleased, Callers
  <1>9. Cardinality(Counted) = IF Launched THEN 1 ELSE 0
    BY <1>8, FS_EmptySet, FS_Singleton
  <1> QED
    BY <1>4, <1>5, <1>6, <1>7, <1>9 DEF LatchInv, WaitGroupBalanced, Counted

-----------------------------------------------------------------------------
(* The theorems. *)

StopInv == LiveInv /\ OwnersKept /\ StatusKept /\ LatchInv

LEMMA StopInvCorrect ==
  ASSUME SingleStarter, ~SelfHeal PROVE Spec => [](StopInv /\ Held)
  <1> USE SingleStarter, ~SelfHeal
  <1>1. Spec => []ReservationInv
    <2>1. TypeOK /\ ReservationInv /\ [Next]_vars => ReservationInv'
      BY ReservationNext
    <2> QED
      BY <2>1, ReservationInit, TypeCorrect, PTL DEF Spec
  <1>2. Init => StopInv
    BY LiveInit, OtherInits DEF StopInv
  <1>3. TypeOK /\ ReservationInv /\ StopInv /\ [Next]_vars => StopInv'
    BY LiveNext, OwnersNext, StatusNext, LatchNext DEF StopInv, Held
  <1>4. TypeOK /\ ReservationInv => Held
    BY DEF Held
  <1> QED
    BY <1>1, <1>2, <1>3, <1>4, TypeCorrect, PTL DEF Spec

\* However a stop, a replacement, a start and an exiting instance of an entry
\* without self-heal interleave, a StopService, Unregister or ReplaceService that
\* verified its stop leaves no instance running.
THEOREM StopLeavesNothing ==
  ASSUME SingleStarter, ~SelfHeal PROVE Spec => []StopMeansExited
  <1>1. StopInv => StopMeansExited
    BY EntryAssumption DEF StopInv, LiveInv, Awaits, StopMeansExited
  <1> QED
    BY <1>1, StopInvCorrect, PTL

\* The wait group of an entry without self-heal counts exactly the instances that
\* have not released it, across every restart of the entry.
THEOREM WaitGroupCorrect ==
  ASSUME SingleStarter, ~SelfHeal PROVE Spec => []WaitGroupBalanced
  <1>1. StopInv => WaitGroupBalanced
    BY DEF StopInv, LatchInv
  <1> QED
    BY <1>1, StopInvCorrect, PTL

\* No teardown and no predecessor's exit handler sweeps the owner of an instance
\* that runs and was not cancelled.
THEOREM OwnersCorrect ==
  ASSUME SingleStarter, ~SelfHeal PROVE Spec => []RunningKeepsOwner
  <1>1. StopInv => RunningKeepsOwner
    BY DEF StopInv, OwnersKept, RunningKeepsOwner, Cancelled
  <1> QED
    BY <1>1, StopInvCorrect, PTL

\* Status never keeps reading Running over a dead instance.
THEOREM AliveCorrect ==
  ASSUME SingleStarter, ~SelfHeal PROVE Spec => []RunningIsAlive
  <1>1. StopInv => RunningIsAlive
    BY DEF StopInv, StatusKept, RunningIsAlive, Live, Holding, Callers
  <1> QED
    BY <1>1, StopInvCorrect, PTL

-----------------------------------------------------------------------------
(* The operations implement ServiceSlot. *)

AliveSet   == {i \in Ids : stage[i] = "run"}
SpawnedSet == {i \in Ids : stage[i] \notin {"none", "new"}}

SlotStutter == UNCHANGED <<SlotMode, AliveSet, Launches, removed>>

LEMMA ModeKept ==
  ASSUME \A c \in Callers : Holding(c)' <=> Holding(c) PROVE SlotMode' = SlotMode
  BY DEF SlotMode, Callers

LEMMA LaunchesKept ==
  ASSUME SpawnedSet' = SpawnedSet PROVE Launches' = Launches
  BY DEF Launches, SpawnedSet

\* The abstract steps, over the state of the entry.
SlotMove ==
    \/ \E m \in {"start", "stop"} : /\ SlotMode = "free" /\ ~removed /\ SlotMode' = m
                                    /\ UNCHANGED <<AliveSet, Launches, removed>>
    \/ /\ SlotMode # "free" /\ SlotMode' = "free"
       /\ UNCHANGED <<AliveSet, Launches, removed>>
    \/ /\ AliveSet = {} /\ SlotMode = "start"
       /\ Launches' = Launches + 1 /\ AliveSet' = {Launches + 1}
       /\ UNCHANGED <<SlotMode, removed>>
    \/ /\ AliveSet # {} /\ AliveSet' = {}
       /\ UNCHANGED <<SlotMode, Launches, removed>>
    \/ /\ SlotMode = "stop" /\ ~removed /\ removed'
       /\ UNCHANGED <<SlotMode, AliveSet, Launches>>

LEMMA MoveIsSlotStep ==
  ASSUME TypeOK, TypeOK', SlotMove \/ SlotStutter PROVE [Slot!Next]_(Slot!slotVars)
  <1>1. removed \in BOOLEAN /\ removed' \in BOOLEAN
    BY DEF TypeOK
  <1> QED
    BY <1>1 DEF SlotMove, SlotStutter, AliveSet, Slot!Next, Slot!Hold, Slot!Free, Slot!Launch,
       Slot!Exit, Slot!Remove, Slot!slotVars

LEMMA SlotSpawn ==
  ASSUME Held, LiveInv, NEW c \in Callers, Spawn(c) PROVE SlotMove
  <1> DEFINE i == call[c].inst
  <1>1. /\ pc[c] = "spawn" /\ stage' = [stage EXCEPT ![i] = "run"]
        /\ pc' = [pc EXCEPT ![c] = IF StartTimeout THEN "settle" ELSE "inner"]
        /\ UNCHANGED <<removed, created>>
    BY DEF Spawn, Goto, Step
  <1>2. c \in Starters
    BY <1>1, StartersStart DEF Held, EarlyPcs, LaunchPcs
  <1>3. /\ created # 0 /\ i = created /\ stage[created] = "new"
        /\ created \in Ids /\ created \in Nat
    BY <1>1, <1>2 DEF LiveInv, Instances, LaunchPcs, Held, TypeOK, Ids
  <1>4. \A j \in Ids : ~Live(j)
    BY <1>1, <1>2 DEF LiveInv, StartsAlone, EarlyPcs, LaunchPcs
  <1>5. /\ \A j \in Ids : stage[j] = "none" <=> j > created
        /\ \A j \in Ids : stage[j] = "new" => j = created
    BY DEF LiveInv, Instances
  <1>6. SpawnedSet = 1 .. (created - 1)
    <2>1. \A j : j \in SpawnedSet <=> j \in Ids /\ j < created
      BY <1>3, <1>5, EntryAssumption DEF SpawnedSet, Ids
    <2>2. \A j : j \in SpawnedSet <=> j \in 1 .. (created - 1)
      BY <1>3, <2>1, EntryAssumption DEF Ids
    <2> QED
      BY <2>2
  <1>7. SpawnedSet' = 1 .. created
    <2>1. SpawnedSet' = SpawnedSet \cup {created}
      BY <1>1, <1>3 DEF SpawnedSet, Held, TypeOK
    <2>2. 1 .. created = (1 .. (created - 1)) \cup {created}
      BY <1>3
    <2> QED
      BY <1>6, <2>1, <2>2
  <1>8. Launches = created - 1 /\ Launches' = created
    <2>1. Cardinality(1 .. (created - 1)) = created - 1 /\ Cardinality(1 .. created) = created
      BY <1>3, FS_Interval
    <2> QED
      BY <1>6, <1>7, <2>1 DEF Launches, SpawnedSet
  <1>9. AliveSet = {} /\ AliveSet' = {created}
    BY <1>1, <1>3, <1>4 DEF AliveSet, Live, Held, TypeOK
  <1>10. SlotMode = "start" /\ SlotMode' = SlotMode
    <2>1. \A d \in Callers : Holding(d)' <=> Holding(d)
      BY <1>1 DEF Holding, Held, TypeOK
    <2>2. Holding(c)
      BY <1>1 DEF Holding
    <2> QED
      BY <1>2, <2>1, <2>2, ModeKept DEF SlotMode
  <1> QED
    BY <1>1, <1>3, <1>8, <1>9, <1>10 DEF SlotMove

LEMMA SlotRemove ==
  ASSUME Held, LiveInv, NEW c \in Callers, RemoveEntry(c) PROVE SlotMove
  <1>1. /\ pc[c] = "remove" /\ pc' = [pc EXCEPT ![c] = "drain"] /\ removed'
        /\ UNCHANGED stage
    BY DEF RemoveEntry, Goto
  <1>2. Holding(c) /\ ~removed
    BY <1>1 DEF LiveInv, RemovedLast, Holding
  <1>3. c \in Stoppers
    BY <1>1 DEF Held, ReservationInv, CallShape, Callers
  <1>4. \A d \in Starters : ~Holding(d)
    BY <1>2, <1>3, EntryAssumption DEF Held, ReservationInv, ReservationExclusive, Callers
  <1>5. SlotMode = "stop"
    BY <1>2, <1>3, <1>4 DEF SlotMode
  <1>6. \A d \in Callers : Holding(d)' <=> Holding(d)
    BY <1>1 DEF Holding, Held, TypeOK
  <1>7. UNCHANGED <<SlotMode, AliveSet, Launches>>
    BY <1>1, <1>6, ModeKept DEF AliveSet, Launches
  <1> QED
    BY <1>1, <1>2, <1>5, <1>7 DEF SlotMove

LEMMA SlotCallStep ==
  ASSUME Held, LiveInv, NEW c \in Callers, CallStep(c) PROVE SlotMove \/ SlotStutter
  <1>1. CASE Spawn(c)
    BY <1>1, SlotSpawn
  <1>2. CASE RemoveEntry(c)
    BY <1>2, SlotRemove
  <1>3. CASE InstallContexts(c)
    <2>1. /\ pc[c] = "contexts" /\ created < MaxInstances
          /\ stage' = [stage EXCEPT ![created + 1] = "new"]
          /\ pc' = [pc EXCEPT ![c] = "running"] /\ removed' = removed
      BY <1>3 DEF InstallContexts, Goto, Step
    <2>2. created + 1 \in Ids /\ created \in Nat
      BY <2>1, EntryAssumption DEF Ids, Held, TypeOK
    <2>3. stage[created + 1] = "none"
      BY <2>2 DEF LiveInv, Instances
    <2>4. AliveSet' = AliveSet /\ SpawnedSet' = SpawnedSet
      BY <2>1, <2>2, <2>3 DEF AliveSet, SpawnedSet, Held, TypeOK
    <2>5. \A d \in Callers : Holding(d)' <=> Holding(d)
      BY <2>1 DEF Holding, Held, TypeOK
    <2> QED
      BY <2>1, <2>4, <2>5, ModeKept, LaunchesKept DEF SlotStutter
  <1>4. CASE ~Spawn(c) /\ ~RemoveEntry(c) /\ ~InstallContexts(c)
    <2>1. UNCHANGED <<stage, removed>>
      BY <1>4 DEF CallStep, StartStep, TeardownStep, EnterStart, RefuseStart, PassStart,
         PublishRunning, ClearLatch, AddToWaitGroup, StartReturned, StartTimedOut,
         InnerRelease, OuterRelease, ValidateReplacement, CancelContexts, SnapshotDone,
         BeginStop, MarkStopping, StopSequence, AbandonSequence, AwaitExit, AwaitTimedOut,
         FinishStop, DrainOwners, ReleaseTeardown, SwapService
    <2>2. \/ pc[c] = "outer" /\ pc' = [pc EXCEPT ![c] = "idle"]
          \/ Holding(c) /\ \E p : pc' = [pc EXCEPT ![c] = p]
      BY <1>4 DEF CallStep, StartStep, TeardownStep, EnterStart, RefuseStart, PassStart,
         PublishRunning, ClearLatch, AddToWaitGroup, StartReturned, StartTimedOut,
         InnerRelease, OuterRelease, ValidateReplacement, CancelContexts, SnapshotDone,
         BeginStop, MarkStopping, StopSequence, AbandonSequence, AwaitExit, AwaitTimedOut,
         FinishStop, DrainOwners, ReleaseTeardown, SwapService, Goto, Holding
    <2>3. UNCHANGED <<AliveSet, Launches, removed>>
      BY <2>1 DEF AliveSet, Launches
    <2>4. \A d \in Callers : d # c => (Holding(d)' <=> Holding(d))
      BY <2>2 DEF Holding, Held, TypeOK
    <2>5. CASE Holding(c)' <=> Holding(c)
      BY <2>3, <2>4, <2>5, ModeKept DEF SlotStutter
    <2>6. CASE ~(Holding(c)' <=> Holding(c))
      <3>1. Holding(c) /\ ~Holding(c)'
        BY <2>2, <2>6 DEF Holding, Held, TypeOK
      <3>2. \A d \in Callers : ~Holding(d)'
        BY <2>4, <3>1 DEF Held, ReservationInv, ReservationExclusive
      <3>3. SlotMode # "free" /\ SlotMode' = "free"
        BY <3>1, <3>2 DEF SlotMode, Callers
      <3> QED
        BY <2>3, <3>3 DEF SlotMove
    <2> QED
      BY <2>5, <2>6
  <1> QED
    BY <1>1, <1>2, <1>3, <1>4

LEMMA SlotPlainStep ==
  ASSUME Held, LiveInv, NEW i \in Ids, PlainStep(i) PROVE SlotMove \/ SlotStutter
  <1>1. PICK p \in PlainPcs \ {"none", "new", "run"} : stage' = [stage EXCEPT ![i] = p]
    BY PlainMoves
  <1>2. Live(i) /\ UNCHANGED <<removed, pc>>
    BY PlainMoves
  <1>3. SlotMode' = SlotMode
    BY <1>2, ModeKept DEF Holding
  <1>4. SpawnedSet' = SpawnedSet
    BY <1>1, <1>2 DEF SpawnedSet, Live, Held, TypeOK
  <1>5. CASE stage[i] = "run"
    <2>1. \A j \in Ids : j # i => stage[j] # "run"
      BY <1>5 DEF LiveInv, Instances, Live
    <2>2. i \in AliveSet /\ AliveSet' = {}
      BY <1>1, <1>5, <2>1 DEF AliveSet, Held, TypeOK
    <2> QED
      BY <1>2, <1>3, <1>4, <2>2, LaunchesKept DEF SlotMove
  <1>6. CASE stage[i] # "run"
    <2>1. AliveSet' = AliveSet
      BY <1>1, <1>6 DEF AliveSet, Held, TypeOK
    <2> QED
      BY <1>2, <1>3, <1>4, <2>1, LaunchesKept DEF SlotStutter
  <1> QED
    BY <1>5, <1>6

LEMMA SlotClaim ==
  ASSUME Held, Claim PROVE SlotMove
  <1>1. GateOpen /\ UNCHANGED <<stage, removed>>
    BY DEF Claim, ClaimStart, ClaimReplace, ClaimTeardown
  <1>2. ~removed /\ \A d \in Callers : ~Holding(d)
    BY <1>1 DEF GateOpen, Held, ReservationInv, FlagsUp, Callers
  <1>3. UNCHANGED <<AliveSet, Launches, removed>> /\ SlotMode = "free"
    BY <1>1, <1>2 DEF AliveSet, Launches, SlotMode, Callers
  <1>4. ASSUME NEW c \in Starters, ClaimStart(c) \/ ClaimReplace(c) PROVE SlotMode' = "start"
    <2>1. Holding(c)'
      BY <1>4 DEF ClaimStart, ClaimReplace, Goto, Holding, Held, TypeOK, Callers
    <2> QED
      BY <2>1 DEF SlotMode
  <1>5. ASSUME NEW c \in Stoppers, ClaimTeardown(c) PROVE SlotMode' = "stop"
    <2>1. Holding(c)' /\ \A d \in Starters : ~Holding(d)'
      BY <1>2, <1>5, EntryAssumption DEF ClaimTeardown, Goto, Holding, Held, TypeOK, Callers
    <2> QED
      BY <2>1 DEF SlotMode
  <1> QED
    BY <1>2, <1>3, <1>4, <1>5 DEF Claim, SlotMove

LEMMA SlotNext ==
  ASSUME Held, Held', LiveInv, [Next]_vars PROVE [Slot!Next]_(Slot!slotVars)
  <1>1. ASSUME NEW c \in Callers, CallStep(c) PROVE SlotMove \/ SlotStutter
    BY <1>1, SlotCallStep
  <1>2. ASSUME NEW i \in Ids, ExitInstance(i) \/ HandlerStep(i) PROVE SlotMove \/ SlotStutter
    BY <1>2, PlainOnly, SlotPlainStep
  <1>3. ASSUME HaltGate \/ HaltStep \/ UNCHANGED vars PROVE SlotStutter
    <2>1. UNCHANGED <<stage, removed, pc>>
      BY <1>3, HaltKeeps DEF vars
    <2>2. SlotMode' = SlotMode
      BY <2>1, ModeKept DEF Holding
    <2>3. UNCHANGED <<AliveSet, Launches, removed>>
      BY <2>1 DEF AliveSet, Launches
    <2> QED
      BY <2>2, <2>3 DEF SlotStutter
  <1>4. SlotMove \/ SlotStutter
    <2>1. CASE Claim
      BY <2>1, SlotClaim
    <2>2. CASE \E c \in Callers : CallStep(c)
      BY <1>1, <2>2
    <2>3. CASE \E i \in Ids : ExitInstance(i) \/ HandlerStep(i)
      BY <1>2, <2>3
    <2> QED
      BY <1>3, <2>1, <2>2, <2>3 DEF Next
  <1> QED
    BY <1>4, MoveIsSlotStep DEF Held

LEMMA SlotInit == Init => Slot!Init
  <1> SUFFICES ASSUME Init PROVE Slot!Init
    OBVIOUS
  <1>1. \A i \in Ids : /\ stage[i] \in {"run", "none"}
                       /\ stage[i] = "run" <=> Launched /\ i = 1
    BY DEF Init
  <1>2. SlotMode = "free" /\ removed = FALSE
    BY DEF Init, SlotMode, Holding, Callers
  <1>3. 1 \in Ids
    BY EntryAssumption DEF Ids
  <1>4. AliveSet = IF Launched THEN {1} ELSE {}
    BY <1>1, <1>3 DEF AliveSet
  <1>5. SpawnedSet = IF Launched THEN {1} ELSE {}
    BY <1>1, <1>3 DEF SpawnedSet
  <1>6. Launches = IF Launched THEN 1 ELSE 0
    BY <1>5, FS_EmptySet, FS_Singleton DEF Launches, SpawnedSet
  <1>7. AliveSet = 1 .. (IF Launched THEN 1 ELSE 0)
    <2>1. (1 .. 0) = {} /\ (1 .. 1) = {1}
      OBVIOUS
    <2> QED
      BY <1>4, <2>1
  <1> QED
    BY <1>2, <1>6, <1>7 DEF Slot!Init, AliveSet

\* StartService, ReplaceService, StopService and Unregister of an entry without
\* self-heal implement ServiceSlot: every interleaving of their steps, of an
\* instance's exit and of Orchestrator.Stop is one of its steps or none.
THEOREM SlotRefined ==
  ASSUME SingleStarter, ~SelfHeal PROVE Spec => SlotSpec
  <1>1. StopInv /\ Held /\ (StopInv /\ Held)' /\ [Next]_vars => [Slot!Next]_(Slot!slotVars)
    BY SlotNext DEF StopInv
  <1> QED
    BY <1>1, SlotInit, StopInvCorrect, PTL DEF Spec, SlotSpec, Slot!Spec

-----------------------------------------------------------------------------
(* The stop counter.  With Orchestrator.Stop beside it the latch does not hold: *)
(* its own stop may belong to the instance before the one a start is making.    *)

CommitPcs == {"run", "ctx", "decide", "active", "commit"}
FreshPcs  == {"hooks", "contexts"} \cup LaunchPcs

\* The newest instance is there and its stop was not counted yet.
Uncounted == \E i \in Ids : Newest(i) /\ counted[i] = 0
Up        == status \in {"Running", "Starting"}

\* The ledger books at most one stop per instance and none ahead of its spawning.
LedgerKept ==
    /\ counted \in [Ids \cup {0} -> Nat]
    /\ StopsCountedOnce
    /\ \A i \in Ids : ~Spawned(i) => counted[i] = 0

\* The latch is open for an instance that may yet count its own stop and for a
\* start; while it is open, whoever is about to count a stop has one to count.
StopsKept ==
    /\ LedgerKept
    /\ \A i \in Ids : stage[i] \in CommitPcs => ~stopsCounted /\ Uncounted
    /\ \A c \in Starters : pc[c] \in FreshPcs => ~stopsCounted
    /\ \A c \in Callers :
          /\ /\ pc[c] \in {"mark", "sequence", "await", "finish"}
             /\ call[c].active /\ ~stopsCounted
             => Uncounted
          /\ pc[c] \in {"remove", "drain", "release", "swap"} /\ call[c].completed => ~Up
    /\ Up /\ ~stopsCounted => Uncounted \/ \E c \in Starters : pc[c] \in FreshPcs

LEMMA NewestUnique ==
  ASSUME NEW i \in Ids \cup {0}, NEW j \in Ids \cup {0}, Newest(i), Newest(j)
  PROVE  i = j
  BY EntryAssumption DEF Newest, Ids

\* A step that neither counts a stop nor spawns an instance leaves the ledger.
LEMMA LedgerQuiet ==
  ASSUME LedgerKept, stops \in Nat, Record, UNCHANGED stops,
         \A i \in Ids : Spawned(i)' <=> Spawned(i)
  PROVE  LedgerKept' /\ (Uncounted' <=> Uncounted)
  <1>1. \A i \in Ids \cup {0} : counted[i] \in Nat
    BY DEF LedgerKept
  <1>2. counted' = counted
    BY <1>1 DEF Record, LedgerKept
  <1>3. \A i \in Ids : Newest(i)' <=> Newest(i)
    BY EntryAssumption DEF Newest, Ids
  <1> QED
    BY <1>2, <1>3 DEF LedgerKept, StopsCountedOnce, Uncounted

\* Counting a stop while the newest instance has none books it there.
LEMMA LedgerCounts ==
  ASSUME LedgerKept, stops \in Nat, Record, Uncounted,
         stops' = stops \/ stops' = stops + 1,
         \A i \in Ids : Spawned(i)' <=> Spawned(i)
  PROVE  LedgerKept'
  <1>1. PICK k \in Ids : Newest(k) /\ counted[k] = 0
    BY DEF Uncounted
  <1>2. \A i \in Ids \cup {0} : counted[i] \in Nat /\ (Newest(i) => i = k)
    BY <1>1, NewestUnique DEF LedgerKept
  <1>3. k # 0
    BY <1>1, EntryAssumption DEF Ids
  <1>4. \A i \in Ids \cup {0} : i # k => counted'[i] = counted[i]
    BY <1>2 DEF Record
  <1>5. counted'[k] \in {0, 1}
    BY <1>1 DEF Record
  <1>6. DOMAIN counted' = Ids \cup {0} /\ counted' = [i \in Ids \cup {0} |-> counted'[i]]
    BY DEF Record
  <1>7. counted' \in [Ids \cup {0} -> Nat]
    BY <1>2, <1>4, <1>5, <1>6
  <1> QED
    BY <1>1, <1>3, <1>4, <1>5, <1>7 DEF LedgerKept, StopsCountedOnce, Newest

\* Except for Spawn, no step without self-heal changes the instances spawned.
LEMMA StopsCallStep ==
  ASSUME Held, LiveInv, StopsKept, Record, NEW c \in Callers, CallStep(c)
  PROVE  StopsKept'
  <1> USE EntryAssumption DEF Held, TypeOK, ReservationInv, CallShape,
          ReservationExclusive, SingleStarter, Holding, Goto, Step, Callers, EarlyPcs,
          FreshPcs, LaunchPcs, TeardownPcs, Up
  <1>0. stops \in Nat /\ LedgerKept
    BY DEF StopsKept
  <1>a. ASSUME UNCHANGED <<stage, stops>> PROVE LedgerKept' /\ (Uncounted' <=> Uncounted)
    BY <1>0, <1>a, LedgerQuiet DEF Spawned
  <1>s. CASE Spawn(c)
    <2>1. /\ pc[c] = "spawn" /\ c \in Starters /\ c \notin Stoppers
          /\ \A d \in Callers : Holding(d) => d = c
      BY <1>s DEF Spawn
    <2>2. /\ pc' = [pc EXCEPT ![c] = IF StartTimeout THEN "settle" ELSE "inner"]
          /\ UNCHANGED <<call, status, stops, stopsCounted>>
      BY <1>s DEF Spawn
    <2>3. /\ created \in Ids /\ stage[created] = "new"
          /\ stage' = [stage EXCEPT ![created] = "run"]
      BY <1>s, <2>1 DEF Spawn, LiveInv, Instances, Ids
    <2>4. PICK k \in Ids : Newest(k)' /\ ~Spawned(k)
      <3>1. ~Spawned(created) /\ Spawned(created)'
        <4>1. stage'[created] = "run"
          BY <2>3
        <4> QED
          BY <1>s, <2>3, <4>1 DEF Spawned, Spawn
      <3>2. \A j \in Ids : j > created => stage'[j] = "none"
        BY <2>3 DEF LiveInv, Instances, Ids
      <3>3. created' = created
        BY <1>s DEF Spawn
      <3>4. \E j \in Ids : Newest(j)' /\ ~Spawned(j)
        BY <2>3, <3>1, <3>2, <3>3 DEF Newest, Spawned
      <3> QED
        BY <3>4
    <2>5. counted' = counted
      BY <1>0, <2>2 DEF Record, LedgerKept
    <2>6. Uncounted'
      BY <1>0, <2>4, <2>5 DEF Uncounted, LedgerKept
    <2>7. LedgerKept'
      BY <1>0, <2>3, <2>5 DEF LedgerKept, StopsCountedOnce, Spawned
    <2>8. ~stopsCounted'
      BY <2>1, <2>2 DEF StopsKept
    <2> QED
      BY <2>1, <2>2, <2>6, <2>7, <2>8 DEF StopsKept
  <1>f. CASE FinishStop(c)
    <2>1. /\ pc[c] = "finish" /\ UNCHANGED <<stage, call>>
          /\ pc' = [pc EXCEPT ![c] = IF call[c].kind = "unregister" THEN "remove" ELSE "drain"]
          /\ status' = IF call[c].completed THEN "Stopped" ELSE status
      BY <1>f DEF FinishStop
    <2>2. CASE call[c].completed /\ call[c].active
      <3>1. stopsCounted' /\ (stops' = stops \/ (~stopsCounted /\ stops' = stops + 1))
        BY <1>f, <2>2 DEF FinishStop, AccountStop
      <3>2. \A i \in Ids : ~Live(i)
        BY <2>1, <2>2 DEF LiveInv, Awaits
      <3>3. CASE UNCHANGED stops
        BY <1>a, <2>1, <2>2, <3>1, <3>2, <3>3 DEF StopsKept, CommitPcs, Live
      <3>4. CASE ~stopsCounted /\ stops' = stops + 1
        <4>1. Uncounted
          BY <2>1, <2>2, <3>4 DEF StopsKept
        <4>2. LedgerKept'
          BY <1>0, <2>1, <3>4, <4>1, LedgerCounts DEF Spawned
        <4> QED
          BY <2>1, <2>2, <3>1, <3>2, <4>2 DEF StopsKept, CommitPcs, Live
      <3> QED
        BY <3>1, <3>3, <3>4
    <2>3. CASE ~(call[c].completed /\ call[c].active)
      <3>1. UNCHANGED <<stops, stopsCounted>>
        BY <1>f, <2>3 DEF FinishStop
      <3>2. LedgerKept' /\ (Uncounted' <=> Uncounted)
        BY <1>a, <2>1, <3>1
      <3> QED
        BY <2>1, <3>1, <3>2 DEF StopsKept
    <2> QED
      BY <2>2, <2>3
  <1>b. CASE InstallContexts(c)
    <2>1. /\ pc[c] = "contexts" /\ c \in Starters
          /\ \A d \in Callers : Holding(d) => d = c
      BY <1>b DEF InstallContexts
    <2>2. /\ created + 1 \in Ids /\ stage' = [stage EXCEPT ![created + 1] = "new"]
          /\ pc' = [pc EXCEPT ![c] = "running"]
          /\ UNCHANGED <<status, stops, stopsCounted>>
          /\ \A d \in Callers : d # c => call'[d] = call[d]
      BY <1>b DEF InstallContexts, Ids
    <2>3. \A i \in Ids : Spawned(i)' <=> Spawned(i)
      <3>1. stage[created + 1] = "none"
        BY <2>2 DEF LiveInv, Instances, Ids
      <3> QED
        BY <2>2, <3>1 DEF Spawned
    <2>4. LedgerKept' /\ (Uncounted' <=> Uncounted)
      BY <1>0, <2>2, <2>3, LedgerQuiet
    <2>5. \A i \in Ids : stage'[i] \in CommitPcs => stage[i] \in CommitPcs
      BY <2>2 DEF CommitPcs
    <2> QED
      BY <2>1, <2>2, <2>4, <2>5 DEF StopsKept
  <1>1. CASE EnterStart(c)
    <2>1. LedgerKept' /\ (Uncounted' <=> Uncounted)
      BY <1>1, <1>a DEF EnterStart
    <2> QED
      BY <1>1, <2>1 DEF EnterStart, StopsKept, CommitPcs
  <1>2. CASE RefuseStart(c)
    <2>1. LedgerKept' /\ (Uncounted' <=> Uncounted)
      BY <1>2, <1>a DEF RefuseStart
    <2> QED
      BY <1>2, <2>1 DEF RefuseStart, StopsKept, CommitPcs
  <1>3. CASE PassStart(c)
    <2>1. LedgerKept' /\ (Uncounted' <=> Uncounted)
      BY <1>3, <1>a DEF PassStart
    <2> QED
      BY <1>3, <2>1 DEF PassStart, StopsKept, CommitPcs
  <1>4. CASE PublishRunning(c)
    <2>1. LedgerKept' /\ (Uncounted' <=> Uncounted)
      BY <1>4, <1>a DEF PublishRunning
    <2> QED
      BY <1>4, <2>1 DEF PublishRunning, StopsKept, CommitPcs
  <1>5. CASE ClearLatch(c)
    <2>1. LedgerKept' /\ (Uncounted' <=> Uncounted)
      BY <1>5, <1>a DEF ClearLatch
    <2> QED
      BY <1>5, <2>1 DEF ClearLatch, StopsKept, CommitPcs
  <1>6. CASE AddToWaitGroup(c)
    <2>1. LedgerKept' /\ (Uncounted' <=> Uncounted)
      BY <1>6, <1>a DEF AddToWaitGroup
    <2> QED
      BY <1>6, <2>1 DEF AddToWaitGroup, StopsKept, CommitPcs
  <1>7. CASE StartReturned(c)
    <2>1. LedgerKept' /\ (Uncounted' <=> Uncounted)
      BY <1>7, <1>a DEF StartReturned
    <2> QED
      BY <1>7, <2>1 DEF StartReturned, StopsKept, CommitPcs
  <1>8. CASE StartTimedOut(c)
    <2>1. LedgerKept' /\ (Uncounted' <=> Uncounted)
      BY <1>8, <1>a DEF StartTimedOut
    <2> QED
      BY <1>8, <2>1 DEF StartTimedOut, StopsKept, CommitPcs
  <1>9. CASE InnerRelease(c)
    <2>1. LedgerKept' /\ (Uncounted' <=> Uncounted)
      BY <1>9, <1>a DEF InnerRelease
    <2> QED
      BY <1>9, <2>1 DEF InnerRelease, StopsKept, CommitPcs
  <1>10. CASE OuterRelease(c)
    <2>1. LedgerKept' /\ (Uncounted' <=> Uncounted)
      BY <1>10, <1>a DEF OuterRelease
    <2> QED
      BY <1>10, <2>1 DEF OuterRelease, StopsKept, CommitPcs, NoCall
  <1>11. CASE ValidateReplacement(c)
    <2>1. LedgerKept' /\ (Uncounted' <=> Uncounted)
      BY <1>11, <1>a DEF ValidateReplacement
    <2> QED
      BY <1>11, <2>1 DEF ValidateReplacement, StopsKept, CommitPcs
  <1>12. CASE CancelContexts(c)
    <2>1. LedgerKept' /\ (Uncounted' <=> Uncounted)
      BY <1>12, <1>a DEF CancelContexts
    <2> QED
      BY <1>12, <2>1 DEF CancelContexts, StopsKept, CommitPcs
  <1>13. CASE SnapshotDone(c)
    <2>1. LedgerKept' /\ (Uncounted' <=> Uncounted)
      BY <1>13, <1>a DEF SnapshotDone
    <2> QED
      BY <1>13, <2>1 DEF SnapshotDone, StopsKept, CommitPcs
  <1>14. CASE BeginStop(c)
    <2>1. LedgerKept' /\ (Uncounted' <=> Uncounted)
      BY <1>14, <1>a DEF BeginStop
    <2>2. /\ pc[c] = "begin" /\ pc' = [pc EXCEPT ![c] = "mark"]
          /\ \A d \in Callers : d # c => call'[d] = call[d]
          /\ UNCHANGED <<status, stage, stops, stopsCounted>>
      BY <1>14 DEF BeginStop
    <2>3. call'[c].active => Up
      BY <1>14 DEF BeginStop, CallRecords
    <2>4. \A d \in Starters : pc[d] \notin FreshPcs /\ pc'[d] \notin FreshPcs
      BY <2>2
    <2>5. LedgerKept' /\ (Uncounted' <=> Uncounted) /\ (Up' <=> Up)
      BY <2>1, <2>2
    <2>6. Up /\ ~stopsCounted => Uncounted
      BY <2>4 DEF StopsKept
    <2>7. \A d \in Callers :
             /\ /\ pc'[d] \in {"mark", "sequence", "await", "finish"}
                /\ call'[d].active /\ ~stopsCounted'
                => Uncounted'
             /\ pc'[d] \in {"remove", "drain", "release", "swap"} /\ call'[d].completed => ~Up'
      <3> TAKE d \in Callers
      <3>1. CASE d = c
        BY <2>2, <2>3, <2>5, <2>6, <3>1
      <3>2. CASE d # c
        BY <2>2, <2>5, <3>2 DEF StopsKept
      <3> QED
        BY <3>1, <3>2
    <2>8. \A i \in Ids : stage'[i] \in CommitPcs => ~stopsCounted' /\ Uncounted'
      BY <2>2, <2>5 DEF StopsKept
    <2> HIDE DEF TypeOK, ReservationInv, CallShape, Held, Up, FreshPcs
    <2> QED
      BY <2>2, <2>4, <2>5, <2>6, <2>7, <2>8 DEF StopsKept
  <1>15. CASE MarkStopping(c)
    <2>1. LedgerKept' /\ (Uncounted' <=> Uncounted)
      BY <1>15, <1>a DEF MarkStopping
    <2> QED
      BY <1>15, <2>1 DEF MarkStopping, StopsKept, CommitPcs
  <1>16. CASE StopSequence(c)
    <2>1. LedgerKept' /\ (Uncounted' <=> Uncounted)
      BY <1>16, <1>a DEF StopSequence
    <2> QED
      BY <1>16, <2>1 DEF StopSequence, StopsKept, CommitPcs
  <1>17. CASE AbandonSequence(c)
    <2>1. LedgerKept' /\ (Uncounted' <=> Uncounted)
      BY <1>17, <1>a DEF AbandonSequence
    <2> QED
      BY <1>17, <2>1 DEF AbandonSequence, StopsKept, CommitPcs
  <1>18. CASE AwaitExit(c)
    <2>1. LedgerKept' /\ (Uncounted' <=> Uncounted)
      BY <1>18, <1>a DEF AwaitExit
    <2> QED
      BY <1>18, <2>1 DEF AwaitExit, StopsKept, CommitPcs
  <1>19. CASE AwaitTimedOut(c)
    <2>1. LedgerKept' /\ (Uncounted' <=> Uncounted)
      BY <1>19, <1>a DEF AwaitTimedOut
    <2> QED
      BY <1>19, <2>1 DEF AwaitTimedOut, StopsKept, CommitPcs
  <1>20. CASE RemoveEntry(c)
    <2>1. LedgerKept' /\ (Uncounted' <=> Uncounted)
      BY <1>20, <1>a DEF RemoveEntry
    <2> QED
      BY <1>20, <2>1 DEF RemoveEntry, StopsKept, CommitPcs
  <1>21. CASE DrainOwners(c)
    <2>1. LedgerKept' /\ (Uncounted' <=> Uncounted)
      BY <1>21, <1>a DEF DrainOwners
    <2> QED
      BY <1>21, <2>1 DEF DrainOwners, StopsKept, CommitPcs
  <1>22. CASE ReleaseTeardown(c)
    <2>1. LedgerKept' /\ (Uncounted' <=> Uncounted)
      BY <1>22, <1>a DEF ReleaseTeardown
    <2> QED
      BY <1>22, <2>1 DEF ReleaseTeardown, StopsKept, CommitPcs, NoCall
  <1>23. CASE SwapService(c)
    <2>1. LedgerKept' /\ (Uncounted' <=> Uncounted)
      BY <1>23, <1>a DEF SwapService
    <2>2. call[c].completed /\ \A i \in Ids : ~Live(i)
      BY <1>23 DEF SwapService, LiveInv, Awaits
    <2> QED
      BY <1>23, <2>1, <2>2 DEF SwapService, StopsKept, CommitPcs, Live
  <1> QED
    BY <1>s, <1>f, <1>b, <1>1, <1>2, <1>3, <1>4, <1>5, <1>6, <1>7, <1>8, <1>9, <1>10, <1>11,
       <1>12, <1>13, <1>14, <1>15, <1>16, <1>17, <1>18, <1>19, <1>20, <1>21, <1>22, <1>23
    DEF CallStep, StartStep, TeardownStep

LEMMA StopsPlainStep ==
  ASSUME Held, LiveInv, StatusKept, StopsKept, Record, NEW i \in Ids, PlainStep(i)
  PROVE  StopsKept'
  <1>1. PICK p \in PlainPcs \ {"none", "new", "run"} : stage' = [stage EXCEPT ![i] = p]
    BY PlainMoves
  <1>2. Live(i) /\ UNCHANGED <<pc, call>>
    BY PlainMoves
  <1>3. stops \in Nat /\ LedgerKept /\ \A j \in Ids : Spawned(j)' <=> Spawned(j)
    BY <1>1, <1>2 DEF Spawned, Live, PlainPcs, Held, TypeOK, StopsKept
  <1>4. \A j \in Ids : Live(j) => j = i
    BY <1>2 DEF LiveInv, Instances
  <1>5. CASE CommitVerdict(i)
    <2>1. /\ stage[i] = "commit" /\ stage' = [stage EXCEPT ![i] = "latch"]
          /\ status' = inst[i].verdict /\ inst[i].verdict \in {"Stopped", "Crashed"}
      BY <1>5 DEF CommitVerdict, Step, StatusKept, Held, TypeOK, InstRecords
    <2>2. ~stopsCounted /\ Uncounted
      BY <2>1 DEF StopsKept, CommitPcs
    <2>3. \/ stops' = stops /\ stopsCounted' = stopsCounted
          \/ stops' = stops + 1 /\ stopsCounted'
      BY <1>5, <2>2 DEF CommitVerdict, AccountStop
    <2>4. LedgerKept'
      BY <1>3, <2>2, <2>3, LedgerCounts
    <2>5. stops' = stops => Uncounted'
      BY <1>3, <2>2, LedgerQuiet
    <2>6. \A j \in Ids : stage'[j] \notin CommitPcs
      BY <1>4, <2>1 DEF CommitPcs, Live, Held, TypeOK
    <2>7. \A c \in Starters : pc[c] \notin FreshPcs
      BY <1>2 DEF LiveInv, StartsAlone, FreshPcs, EarlyPcs
    <2>8. ~Up'
      BY <2>1 DEF Up
    <2> QED
      BY <1>2, <2>2, <2>3, <2>4, <2>5, <2>6, <2>7, <2>8 DEF StopsKept
  <1>6. CASE ~CommitVerdict(i)
    <2>1. UNCHANGED <<status, stops, stopsCounted>>
      BY <1>6 DEF PlainStep, ExitInstance, EnterHandler, DecideRemoving, DecideVerdict,
         ReleaseWaitGroup, ReleaseContexts, CloseDone
    <2>2. \A j \in Ids : stage'[j] \in CommitPcs => stage[j] \in CommitPcs
      BY <1>6 DEF PlainStep, ExitInstance, EnterHandler, DecideRemoving, DecideVerdict,
         ReleaseWaitGroup, ReleaseContexts, CloseDone, Step, CommitPcs, Held, TypeOK
    <2>3. LedgerKept' /\ (Uncounted' <=> Uncounted)
      BY <1>3, <2>1, LedgerQuiet
    <2> QED
      BY <1>2, <2>1, <2>2, <2>3 DEF StopsKept, Up
  <1> QED
    BY <1>5, <1>6

LEMMA StopsClaim ==
  ASSUME Held, StopsKept, Record, Claim
  PROVE  StopsKept'
  <1>0. UNCHANGED <<stage, stops, stopsCounted, status>>
    BY DEF Claim, ClaimStart, ClaimReplace, ClaimTeardown
  <1>a. LedgerKept' /\ (Uncounted' <=> Uncounted)
    BY <1>0, LedgerQuiet DEF StopsKept, Held, TypeOK, Spawned
  <1> USE EntryAssumption DEF Held, TypeOK, Goto, Callers, FreshPcs, LaunchPcs, Up, StopsKept,
          CommitPcs
  <1>1. ASSUME NEW c \in Starters, ClaimStart(c) PROVE StopsKept'
    BY <1>0, <1>a, <1>1 DEF ClaimStart
  <1>2. ASSUME NEW c \in Starters, ClaimReplace(c) PROVE StopsKept'
    BY <1>0, <1>a, <1>2 DEF ClaimReplace
  <1>3. ASSUME NEW c \in Stoppers, ClaimTeardown(c) PROVE StopsKept'
    BY <1>0, <1>a, <1>3 DEF ClaimTeardown
  <1> QED
    BY <1>1, <1>2, <1>3 DEF Claim

\* Nobody calls Orchestrator.Stop.
NoShutdown == Shutdowns = {}

LEMMA StopsNext ==
  ASSUME NoShutdown, hpc = "idle", StopInv, Held, StopsKept,
         [LedgerNext]_<<vars, counted>>
  PROVE  StopsKept' /\ hpc' = "idle"
  <1>1. CASE Record /\ Claim
    BY <1>1, StopsClaim DEF Claim, ClaimStart, ClaimReplace, ClaimTeardown
  <1>2. ASSUME Record, NEW c \in Callers, CallStep(c) PROVE StopsKept' /\ UNCHANGED hpc
    <2>1. UNCHANGED hpc
      BY <1>2 DEF CallStep, StartStep, TeardownStep, EnterStart, RefuseStart, PassStart,
         InstallContexts, PublishRunning, ClearLatch, AddToWaitGroup, Spawn, StartReturned,
         StartTimedOut, InnerRelease, OuterRelease, ValidateReplacement, CancelContexts,
         SnapshotDone, BeginStop, MarkStopping, StopSequence, AbandonSequence, AwaitExit,
         AwaitTimedOut, FinishStop, RemoveEntry, DrainOwners, ReleaseTeardown, SwapService
    <2> QED
      BY <1>2, <2>1, StopsCallStep DEF StopInv
  <1>3. ASSUME Record, NEW i \in Ids, ExitInstance(i) \/ HandlerStep(i)
        PROVE  StopsKept' /\ UNCHANGED hpc
    <2>1. PlainStep(i)
      BY <1>3, PlainOnly DEF StopInv
    <2>2. UNCHANGED hpc
      BY <2>1 DEF PlainStep, ExitInstance, EnterHandler, DecideRemoving, DecideVerdict,
         CommitVerdict, ReleaseWaitGroup, ReleaseContexts, CloseDone
    <2> QED
      BY <1>3, <2>1, <2>2, StopsPlainStep DEF StopInv
  <1>4. ~(HaltGate \/ HaltStep)
    BY DEF NoShutdown, HaltGate, HaltStep, HaltCancel, HaltBegin, HaltMark, HaltSequence,
       HaltWait, HaltTimedOut, HaltFinish, HaltSeal
  <1>5. CASE UNCHANGED <<vars, counted>>
    BY <1>5 DEF vars, StopsKept, LedgerKept, StopsCountedOnce, Uncounted, Newest, Spawned, Up
  <1> QED
    BY <1>1, <1>2, <1>3, <1>4, <1>5 DEF LedgerNext, Next

LEMMA StopsInit == LedgerInit => StopsKept /\ hpc = "idle"
  <1> SUFFICES ASSUME LedgerInit PROVE StopsKept /\ hpc = "idle"
    OBVIOUS
  <1>1. /\ \A c \in Callers : pc[c] = "idle"
        /\ \A i \in Ids : stage[i] = IF Launched /\ i = 1 THEN "run" ELSE "none"
        /\ status = IF Launched THEN "Running" ELSE "Registered"
        /\ ~stopsCounted /\ hpc = "idle"
        /\ counted = [i \in Ids \cup {0} |-> 0]
    BY DEF LedgerInit, Init
  <1>2. 1 \in Ids /\ \A j \in Ids : ~(j > 1 /\ j = 1)
    BY EntryAssumption DEF Ids
  <1>3. LedgerKept
    BY <1>1 DEF LedgerKept, StopsCountedOnce
  <1>4. Launched => Newest(1) /\ counted[1] = 0
    BY <1>1, <1>2 DEF Newest, Spawned
  <1> QED
    BY <1>1, <1>2, <1>3, <1>4 DEF StopsKept, Uncounted, Up, CommitPcs, Callers

LEMMA LedgerImplements == LedgerSpec => Spec
  <1>1. LedgerInit => Init
    BY DEF LedgerInit
  <1>2. [LedgerNext]_<<vars, counted>> => [Next]_vars
    BY DEF LedgerNext
  <1> QED
    BY <1>1, <1>2, PTL DEF LedgerSpec, Spec

\* Without self-heal and without Orchestrator.Stop, a teardown and the exit
\* handler of an instance that both observe its stop count it once, and no stop
\* is counted for an instance that was never spawned, however often the entry is
\* started, replaced and stopped: the latch of src/lifecycle.go:524-533.
THEOREM StopsCorrect ==
  ASSUME SingleStarter, ~SelfHeal, NoShutdown PROVE LedgerSpec => []StopsCountedOnce
  <1> USE SingleStarter, ~SelfHeal, NoShutdown
  <1> DEFINE Kept == StopsKept /\ hpc = "idle"
  <1>0. LedgerInit => Kept
    BY StopsInit
  <1>1. StopInv /\ Held /\ Kept /\ [LedgerNext]_<<vars, counted>> => Kept'
    BY StopsNext
  <1>2. Kept => StopsCountedOnce
    BY DEF StopsKept, LedgerKept
  <1> HIDE DEF Kept
  <1> QED
    BY <1>0, <1>1, <1>2, LedgerImplements, StopInvCorrect, PTL DEF LedgerSpec

=============================================================================
