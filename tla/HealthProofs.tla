----------------------------- MODULE HealthProofs -----------------------------
(***************************************************************************)
(* An entry with self-heal, with one starter that does not replace it and  *)
(* any number of stoppers, with and without the health checks beside it:   *)
(* never two instances in the user's Start, never more restarts than the   *)
(* retry limit, a wait group that counts exactly what is left to wait for, *)
(* and nothing running behind a verified Orchestrator.Stop.                *)
(***************************************************************************)
EXTENDS EntryProofs, HealthProbe

USE DEF regVars, nowVars, latchVars, countVars, orchVars, ctxVars, entryVars,
        instVars, callVars, haltVars,
        PcOnly, CallOnly, StageOnly, InstOnly, HpcOnly, HaltOnly

-----------------------------------------------------------------------------
(* Who may still run the service.  A ReplaceService whose teardown is overtaken *)
(* by a restart finds the instance it waited for gone and starts a second one.  *)

NoReplace == "replace" \notin StartKinds

\* Instance i runs the user's Start or its handler, and did not yet pass its place
\* in the wait group on to the next instance or give it back.
HolderPcs == InstPcs \ {"none", "new", "release", "close", "exited"}
Holder(i) == stage[i] \in HolderPcs

\* A handler between its installation of the next instance and its spawn, and
\* the instance the entry names for a holder.
SuccPcs    == {"publish", "respawn"}
Current(i) == IF stage[i] \in SuccPcs THEN inst[i].next ELSE i

StartersOnly == \A c \in Starters : pc[c] \in {"idle", "outer"} \cup StartPcs

\* Instances are made in turn, there is one holder, and the entry names it; a
\* start finds none.
Turns ==
    /\ \A i \in Ids : stage[i] = "none" <=> i > created
    /\ \A i \in Ids : stage[i] = "new" =>
          /\ i = created
          /\ \/ \E c \in Starters : pc[c] \in LaunchPcs
             \/ \E j \in Ids : stage[j] \in SuccPcs
    /\ \A c \in Starters : pc[c] \in LaunchPcs =>
          created # 0 /\ call[c].inst = created /\ stage[created] = "new"
    /\ \A c \in Starters : pc[c] \in EarlyPcs => \A i \in Ids : ~Holder(i)
    /\ \A i \in Ids : stage[i] \in SuccPcs =>
          created # 0 /\ inst[i].next = created /\ stage[created] = "new"
    /\ \A i, j \in Ids : Holder(i) /\ Holder(j) => i = j
    /\ \A i \in Ids : Holder(i) => removed \/ done = Current(i)

TurnInv == StartersOnly /\ RemovedLast /\ Turns

Base == TypeOK /\ ReservationInv /\ SingleStarter /\ NoReplace

turnVars == <<created, stage, done, removed, pc, call>>

SameNext == \A i \in Ids : inst'[i].next = inst[i].next

LEMMA TurnKept == TurnInv /\ UNCHANGED turnVars /\ SameNext => TurnInv'
  BY DEF TurnInv, turnVars, SameNext, StartersOnly, RemovedLast, Turns, Holding, Holder, Current

LEMMA TurnInit == Init => TurnInv
  <1> SUFFICES ASSUME Init PROVE TurnInv
    OBVIOUS
  <1>1. /\ \A c \in Callers : pc[c] = "idle"
        /\ \A i \in Ids : stage[i] = IF Launched /\ i = 1 THEN "run" ELSE "none"
        /\ created = IF Launched THEN 1 ELSE 0
        /\ done = created /\ ~removed
    BY DEF Init
  <1> QED
    BY <1>1, EntryAssumption DEF TurnInv, StartersOnly, RemovedLast, Turns, Holding, Holder,
       HolderPcs, InstPcs,
       SuccPcs, Current, Callers, EarlyPcs, LaunchPcs, Ids

LEMMA TurnClaim ==
  ASSUME Base, TurnInv, Claim PROVE TurnInv'
  <1> USE EntryAssumption DEF Base, TypeOK, ReservationInv, CallShape, FlagsUp,
          ReservationExclusive, SingleStarter, Holding, TurnInv, StartersOnly, Turns, RemovedLast,
          Goto, Closed, Callers, EarlyPcs, LaunchPcs, StartPcs, TeardownPcs, GateOpen
  <1>1. ASSUME NEW c \in Starters, ClaimStart(c) PROVE TurnInv'
    <2>1. ~removed /\ (done # 0 => stage[done] = "exited")
      BY <1>1 DEF ClaimStart, NoInstance
    <2>2. \A i \in Ids : ~Holder(i)
      <3> SUFFICES ASSUME NEW i \in Ids, Holder(i) PROVE FALSE
        OBVIOUS
      <3>1. stage[Current(i)] # "exited" /\ done = Current(i) /\ Current(i) # 0
        BY <2>1 DEF Holder, HolderPcs, InstPcs, Current, Ids
      <3> QED
        BY <2>1, <3>1
    <2>3. /\ pc' = [pc EXCEPT ![c] = "enter"] /\ pc[c] = "idle"
          /\ \A d \in Callers : d # c => call'[d] = call[d]
          /\ UNCHANGED <<created, stage, done, removed, inst>>
      BY <1>1 DEF ClaimStart
    <2> QED
      BY <2>1, <2>2, <2>3 DEF Holder, Current
  <1>2. ASSUME NEW c \in Stoppers, ClaimTeardown(c) PROVE TurnInv'
    <2>1. /\ pc' = [pc EXCEPT ![c] = "cancel"] /\ pc[c] = "idle" /\ ~removed
          /\ \A d \in Callers : d # c => call'[d] = call[d]
          /\ UNCHANGED <<created, stage, done, removed, inst>>
      BY <1>2 DEF ClaimTeardown
    <2> QED
      BY <2>1 DEF Holder, Current
  <1> QED
    BY <1>1, <1>2 DEF Claim, ClaimReplace, NoReplace

LEMMA TurnCallStep ==
  ASSUME Base, TurnInv, NEW c \in Callers, CallStep(c) PROVE TurnInv'
  <1> USE EntryAssumption DEF Base, TypeOK, ReservationInv, CallShape, FlagsUp,
          ReservationExclusive, SingleStarter, Holding, TurnInv, StartersOnly, Turns,
          RemovedLast, Goto, Step, Holder, Current, Callers, EarlyPcs, LaunchPcs, StartPcs,
          TeardownPcs
  <1>c. CASE InstallContexts(c)
    <2>1. /\ pc[c] = "contexts" /\ c \in Starters /\ c \notin Stoppers /\ ~removed
          /\ \A d \in Callers : Holding(d) => d = c
      BY <1>c DEF InstallContexts
    <2>2. /\ created + 1 \in Ids /\ created' = created + 1 /\ created \in Nat
          /\ stage' = [stage EXCEPT ![created + 1] = "new"]
          /\ pc' = [pc EXCEPT ![c] = "running"] /\ call' = [call EXCEPT ![c].inst = created + 1]
          /\ inst' = [inst EXCEPT ![created + 1].era = created + 1]
          /\ UNCHANGED <<done, removed>>
      BY <1>c DEF InstallContexts, Ids
    <2>3. \A i \in Ids : ~Holder(i) /\ ~Holder(i)' /\ stage[i] # "new"
      <3>1. \A i \in Ids : ~Holder(i)
        BY <2>1
      <3>2. \A i \in Ids : ~Holder(i)'
        BY <2>2, <3>1 DEF HolderPcs, InstPcs
      <3>3. \A i \in Ids : stage[i] # "new"
        BY <2>1, <3>1 DEF HolderPcs, InstPcs, SuccPcs
      <3> QED
        BY <3>1, <3>2, <3>3
    <2>4. /\ \A i \in Ids : stage'[i] = "none" <=> i > created'
          /\ \A i \in Ids : stage'[i] = "new" => i = created'
      BY <2>2, <2>3 DEF Ids
    <2>5. \A d \in Starters : pc'[d] \in LaunchPcs <=> d = c
      BY <2>1, <2>2
    <2>6. call'[c].inst = created' /\ stage'[created'] = "new" /\ created' # 0
      BY <2>2 DEF CallRecords
    <2>7. StartersOnly' /\ RemovedLast'
      BY <2>1, <2>2
    <2>8. \A i \in Ids : stage'[i] \notin SuccPcs
      BY <2>3 DEF SuccPcs, HolderPcs, InstPcs
    <2>9. Turns'
      <3> HIDE DEF Base, TurnInv, Holder, LaunchPcs
      <3>1. pc'[c] \in LaunchPcs /\ c \in Starters
        BY <2>1, <2>5
      <3>2. \A d \in Starters : pc'[d] \in EarlyPcs => \A i \in Ids : ~Holder(i)'
        BY <2>3
      <3>3. \A i \in Ids : stage'[i] = "new" => \E d \in Starters : pc'[d] \in LaunchPcs
        BY <3>1
      <3>4. \A d \in Starters : pc'[d] \in LaunchPcs =>
               created' # 0 /\ call'[d].inst = created' /\ stage'[created'] = "new"
        BY <2>5, <2>6
      <3> QED
        BY <2>3, <2>4, <2>8, <3>2, <3>3, <3>4
    <2> QED
      BY <2>7, <2>9
  <1>s. CASE Spawn(c)
    <2>1. /\ pc[c] = "spawn" /\ c \in Starters /\ c \notin Stoppers /\ ~removed
          /\ \A d \in Callers : Holding(d) => d = c
      BY <1>s DEF Spawn
    <2>2. created \in Ids /\ call[c].inst = created /\ stage[created] = "new"
      BY <2>1 DEF Ids
    <2>3. /\ stage' = [stage EXCEPT ![created] = "run"] /\ done' = created
          /\ pc' = [pc EXCEPT ![c] = IF StartTimeout THEN "settle" ELSE "inner"]
          /\ UNCHANGED <<created, call, removed, inst>>
      BY <1>s, <2>2 DEF Spawn
    <2>4. \A i \in Ids : ~Holder(i) /\ (Holder(i)' => i = created)
      BY <2>1, <2>3
    <2>5. \A i \in Ids : /\ stage'[i] = "none" <=> i > created
                         /\ stage'[i] # "new" /\ stage'[i] \notin SuccPcs
      BY <2>2, <2>3, <2>4 DEF SuccPcs, HolderPcs, InstPcs
    <2>6. \A d \in Starters : pc'[d] \notin EarlyPcs
      BY <2>1, <2>3
    <2>7. StartersOnly' /\ RemovedLast'
      BY <2>1, <2>3
    <2>8. Turns'
      <3>1. \A d \in Starters : pc'[d] \notin LaunchPcs
        BY <2>6
      <3> HIDE DEF Base, TurnInv, Holder, LaunchPcs, EarlyPcs, StartersOnly, RemovedLast
      <3>2. \A i \in Ids : Holder(i)' => done' = i /\ stage'[i] \notin SuccPcs
        BY <2>3, <2>4, <2>5
      <3>3. \A i, j \in Ids : Holder(i)' /\ Holder(j)' => i = j
        BY <2>4
      <3>4. \A i \in Ids : Holder(i)' => removed' \/ done' = Current(i)'
        BY <3>2 DEF Current
      <3> HIDE DEF Current
      <3>5. \A d \in Starters : pc'[d] \in EarlyPcs => \A i \in Ids : ~Holder(i)'
        BY <2>6
      <3>6. \A i \in Ids : stage'[i] # "new" /\ stage'[i] \notin SuccPcs
        BY <2>5
      <3>7. \A i \in Ids : stage'[i] = "none" <=> i > created'
        BY <2>3, <2>5
      <3> QED
        BY ONLY <3>1, <3>3, <3>4, <3>5, <3>6, <3>7 DEF Turns
    <2> QED
      BY <2>7, <2>8
  <1>v. ~ValidateReplacement(c) /\ ~SwapService(c)
    BY DEF ValidateReplacement, SwapService
  <1>1. CASE EnterStart(c)
    BY <1>1 DEF EnterStart
  <1>2. CASE RefuseStart(c)
    BY <1>2 DEF RefuseStart
  <1>3. CASE PassStart(c)
    BY <1>3 DEF PassStart
  <1>4. CASE PublishRunning(c)
    BY <1>4 DEF PublishRunning
  <1>5. CASE ClearLatch(c)
    BY <1>5 DEF ClearLatch
  <1>6. CASE AddToWaitGroup(c)
    BY <1>6 DEF AddToWaitGroup
  <1>7. CASE StartReturned(c)
    BY <1>7 DEF StartReturned
  <1>8. CASE StartTimedOut(c)
    BY <1>8 DEF StartTimedOut
  <1>9. CASE InnerRelease(c)
    BY <1>9 DEF InnerRelease
  <1>10. CASE OuterRelease(c)
    BY <1>10 DEF OuterRelease, NoCall
  <1>11. CASE CancelContexts(c)
    BY <1>11 DEF CancelContexts
  <1>12. CASE SnapshotDone(c)
    BY <1>12 DEF SnapshotDone
  <1>13. CASE BeginStop(c)
    BY <1>13 DEF BeginStop
  <1>14. CASE MarkStopping(c)
    BY <1>14 DEF MarkStopping
  <1>15. CASE StopSequence(c)
    BY <1>15 DEF StopSequence
  <1>16. CASE AbandonSequence(c)
    BY <1>16 DEF AbandonSequence
  <1>17. CASE AwaitExit(c)
    BY <1>17 DEF AwaitExit
  <1>18. CASE AwaitTimedOut(c)
    BY <1>18 DEF AwaitTimedOut
  <1>19. CASE FinishStop(c)
    BY <1>19 DEF FinishStop
  <1>20. CASE RemoveEntry(c)
    BY <1>20 DEF RemoveEntry
  <1>21. CASE DrainOwners(c)
    BY <1>21 DEF DrainOwners
  <1>22. CASE ReleaseTeardown(c)
    BY <1>22 DEF ReleaseTeardown, NoCall
  <1> QED
    BY <1>c, <1>s, <1>v, <1>1, <1>2, <1>3, <1>4, <1>5, <1>6, <1>7, <1>8, <1>9, <1>10, <1>11,
       <1>12, <1>13, <1>14, <1>15, <1>16, <1>17, <1>18, <1>19, <1>20, <1>21, <1>22
    DEF CallStep, StartStep, TeardownStep

\* What a handler does to the stages of instances, but for the two steps in which
\* it makes and spawns the next one.
HandlerMove(i) ==
    \E p \in InstPcs :
        /\ stage' = [stage EXCEPT ![i] = p]
        /\ stage[i] \notin {"none", "new", "respawn", "exited"} /\ p \notin {"none", "new", "run"}
        /\ p \in HolderPcs => Holder(i)
        /\ p \in SuccPcs <=> stage[i] = "publish"
        /\ p = "suspend" => stage[i] = "retry"

LEMMA HandlerMoves ==
  ASSUME Base, NEW i \in Ids, ExitInstance(i) \/ HandlerStep(i),
         ~InstallRestart(i), ~Respawn(i)
  PROVE  /\ HandlerMove(i) /\ SameNext
         /\ \A j \in Ids : inst'[j].era = inst[j].era
         /\ UNCHANGED <<created, done, removed, pc, call>>
  <1> USE DEF Base, TypeOK, HandlerMove, SameNext, Step, Holder, HolderPcs, InstPcs, InstRecords,
          SuccPcs
  <1>1. CASE ExitInstance(i)
    BY <1>1 DEF ExitInstance
  <1>2. CASE EnterHandler(i)
    BY <1>2 DEF EnterHandler
  <1>3. CASE DecideRemoving(i)
    BY <1>3 DEF DecideRemoving
  <1>4. CASE DecideVerdict(i)
    BY <1>4 DEF DecideVerdict
  <1>5. CASE CommitVerdict(i)
    BY <1>5 DEF CommitVerdict
  <1>6. CASE ClassifyExit(i)
    BY <1>6 DEF ClassifyExit
  <1>7. CASE ReportCrash(i)
    BY <1>7 DEF ReportCrash
  <1>8. CASE CountRetry(i)
    BY <1>8 DEF CountRetry
  <1>9. CASE SuspendInstance(i)
    BY <1>9 DEF SuspendInstance
  <1>10. CASE ReportSuspended(i)
    BY <1>10 DEF ReportSuspended
  <1>11. CASE CaptureTeardown(i)
    BY <1>11 DEF CaptureTeardown
  <1>12. CASE EndBackoff(i)
    BY <1>12 DEF EndBackoff
  <1>13. CASE AbortRestart(i)
    BY <1>13 DEF AbortRestart
  <1>14. CASE ReportAborted(i)
    BY <1>14 DEF ReportAborted
  <1>15. CASE CancelIncarnation(i)
    BY <1>15 DEF CancelIncarnation
  <1>16. CASE CleanUpIncarnation(i)
    BY <1>16 DEF CleanUpIncarnation
  <1>17. CASE PublishRestart(i)
    BY <1>17 DEF PublishRestart
  <1>18. CASE ReleaseWaitGroup(i)
    BY <1>18 DEF ReleaseWaitGroup
  <1>19. CASE ReleaseContexts(i)
    BY <1>19 DEF ReleaseContexts
  <1>20. CASE CloseDone(i)
    BY <1>20 DEF CloseDone
  <1> QED
    BY <1>1, <1>2, <1>3, <1>4, <1>5, <1>6, <1>7, <1>8, <1>9, <1>10, <1>11, <1>12, <1>13, <1>14,
       <1>15, <1>16, <1>17, <1>18, <1>19, <1>20
    DEF HandlerStep

LEMMA TurnMove ==
  ASSUME Base, TurnInv, NEW i \in Ids, HandlerMove(i), SameNext,
         UNCHANGED <<created, done, removed, pc, call>>
  PROVE  TurnInv'
  <1>1. PICK p \in InstPcs :
            /\ stage' = [stage EXCEPT ![i] = p]
            /\ stage[i] \notin {"none", "new", "respawn", "exited"}
            /\ p \notin {"none", "new", "run"}
            /\ p \in HolderPcs => Holder(i)
            /\ p \in SuccPcs <=> stage[i] = "publish"
    BY DEF HandlerMove
  <1>2. \A j \in Ids : /\ stage'[j] = "none" <=> stage[j] = "none"
                       /\ stage'[j] = "new" <=> stage[j] = "new"
                       /\ Holder(j)' => Holder(j)
                       /\ stage'[j] \in SuccPcs <=> stage[j] \in SuccPcs
    BY <1>1 DEF Holder, Base, TypeOK, SuccPcs
  <1>3. \A j \in Ids : Holder(j)' => Current(j)' = Current(j)
    BY <1>2 DEF Current, SameNext
  <1>4. created # 0 => created \in Ids
    BY DEF Base, TypeOK
  <1>5. StartersOnly' /\ RemovedLast'
    BY DEF TurnInv, StartersOnly, RemovedLast, Holding
  <1> HIDE DEF Holder, Current
  <1>6. Turns'
    BY <1>2, <1>3, <1>4 DEF TurnInv, Turns, SameNext
  <1> QED
    BY <1>5, <1>6 DEF TurnInv

LEMMA TurnInstall ==
  ASSUME Base, TurnInv, NEW i \in Ids, InstallRestart(i)
  PROVE  TurnInv'
  <1> DEFINE n == created + 1
  <1>1. /\ stage[i] = "install" /\ n \in Ids /\ created \in Nat /\ i # n
        /\ created' = n /\ done' = n
        /\ stage' = [stage EXCEPT ![i] = "publish", ![n] = "new"]
        /\ UNCHANGED <<removed, pc, call>>
    <2>1. stage[i] = "install" /\ created \in Nat /\ created < MaxInstances
      BY EntryAssumption DEF InstallRestart, Base, TypeOK, Ids
    <2>2. n \in Ids
      BY <2>1, EntryAssumption DEF Ids
    <2>3. ~(i > created)
      BY <2>1 DEF TurnInv, Turns
    <2> QED
      BY <2>1, <2>2, <2>3 DEF InstallRestart, Ids
  <1>2. inst'[i].next = n
    BY <1>1 DEF InstallRestart, Base, TypeOK, InstRecords
  <1>3. /\ \A j \in Ids : ~Holder(j) \/ j = i
        /\ \A c \in Starters : pc[c] \notin EarlyPcs
        /\ \A j \in Ids : stage[j] \notin SuccPcs
        /\ \A j \in Ids : stage[j] # "new"
    <2>1. Holder(i) /\ stage[i] \notin SuccPcs
      BY <1>1 DEF Holder, HolderPcs, InstPcs, SuccPcs
    <2>2. \A j \in Ids : stage[j] \in SuccPcs => Holder(j)
      BY DEF Holder, HolderPcs, InstPcs, SuccPcs
    <2>3. \A c \in Starters : pc[c] \notin EarlyPcs
      BY <2>1 DEF TurnInv, Turns
    <2>4. \A j \in Ids : stage[j] \notin SuccPcs
      BY <2>1, <2>2 DEF TurnInv, Turns
    <2> QED
      BY <2>1, <2>3, <2>4 DEF TurnInv, Turns, EarlyPcs
  <1>4. /\ \A j \in Ids : Holder(j)' => j = i
        /\ \A j \in Ids : stage'[j] \in SuccPcs => j = i
        /\ stage'[i] = "publish" /\ stage'[n] = "new"
        /\ \A j \in Ids : stage'[j] = "new" => j = n
        /\ \A j \in Ids : stage'[j] = "none" <=> j > n
    <2>1. \A j \in Ids : stage'[j] = IF j = i THEN "publish" ELSE IF j = n THEN "new" ELSE stage[j]
      BY <1>1 DEF Base, TypeOK
    <2>2. \A j \in Ids : stage[j] = "none" <=> j > created
      BY DEF TurnInv, Turns
    <2>3. \A j \in Ids : stage'[j] = "none" <=> j > n
      <3>1. ~(i > created) /\ n = created + 1 /\ created \in Nat
        BY <1>1, <2>2
      <3> HIDE DEF n
      <3> QED
        BY <2>1, <2>2, <3>1 DEF Ids
    <2>4. \A j \in Ids : Holder(j)' => j = i
      BY <1>3, <2>1 DEF Holder, HolderPcs, InstPcs
    <2>5. \A j \in Ids : stage'[j] \in SuccPcs => j = i
      BY <1>3, <2>1 DEF SuccPcs
    <2>6. n \in Ids /\ i # n
      BY <1>1
    <2> HIDE DEF n
    <2>7. \A j \in Ids : stage'[j] = "new" => j = n
      BY <1>3, <2>1
    <2> QED
      BY <2>1, <2>3, <2>4, <2>5, <2>6, <2>7
  <1>5. Current(i)' = n
    BY <1>2, <1>4 DEF Current, SuccPcs
  <1>6. StartersOnly' /\ RemovedLast'
    BY <1>1 DEF TurnInv, StartersOnly, RemovedLast, Holding
  <1>7. n # 0 /\ stage'[i] \in SuccPcs /\ i \in Ids
    BY <1>1, <1>4 DEF SuccPcs
  <1>8. \A c \in Starters : pc'[c] \notin EarlyPcs /\ pc'[c] \notin LaunchPcs
    BY <1>1, <1>3 DEF EarlyPcs
  <1>9. \A j \in Ids : Holder(j)' => removed' \/ done' = Current(j)'
    BY <1>1, <1>4, <1>5
  <1>10. \A j \in Ids : stage'[j] \in SuccPcs =>
            created' # 0 /\ inst'[j].next = created' /\ stage'[created'] = "new"
    BY <1>1, <1>2, <1>4, <1>7
  <1>11. \A j \in Ids : stage'[j] = "new" => j = created' /\ \E k \in Ids : stage'[k] \in SuccPcs
    BY <1>1, <1>4, <1>7
  <1>12. \A j, k \in Ids : Holder(j)' /\ Holder(k)' => j = k
    BY <1>4
  <1> HIDE DEF n
  <1>13. Turns'
    BY <1>1, <1>4, <1>8, <1>9, <1>10, <1>11, <1>12 DEF Turns
  <1> QED
    BY <1>6, <1>13 DEF TurnInv

LEMMA TurnRespawn ==
  ASSUME Base, TurnInv, NEW i \in Ids, Respawn(i)
  PROVE  TurnInv'
  <1> DEFINE n == inst[i].next
  <1>1. /\ stage[i] = "respawn" /\ n = created /\ n \in Ids /\ i # n /\ stage[n] = "new"
        /\ stage' = [stage EXCEPT ![i] = "release", ![n] = "run"]
        /\ UNCHANGED <<created, inst, done, removed, pc, call>>
    BY DEF Respawn, Base, TypeOK, TurnInv, Turns, SuccPcs
  <1>2. /\ \A j \in Ids : Holder(j) => j = i
        /\ \A c \in Starters : pc[c] \notin EarlyPcs
        /\ removed \/ done = n
    BY <1>1 DEF Holder, HolderPcs, InstPcs, SuccPcs, TurnInv, Turns, Current
  <1>3. \A j \in Ids : stage'[j] = IF j = i THEN "release" ELSE IF j = n THEN "run" ELSE stage[j]
    BY <1>1 DEF Base, TypeOK
  <1>4. \A j \in Ids : /\ Holder(j)' => j = n
                       /\ stage'[j] # "new" /\ stage'[j] \notin SuccPcs
                       /\ stage'[j] = "none" <=> stage[j] = "none"
    <2>1. \A j \in Ids : /\ stage[j] = "new" => j = created
                         /\ stage[j] \in SuccPcs => Holder(j)
      BY DEF TurnInv, Turns, Holder, HolderPcs, InstPcs, SuccPcs
    <2>2. \A j \in Ids : Holder(j)' => j = n
      BY <1>2, <1>3 DEF Holder, HolderPcs, InstPcs
    <2>3. \A j \in Ids : stage'[j] \notin SuccPcs
      BY <1>2, <1>3, <2>1 DEF SuccPcs
    <2>4. stage[i] = "respawn" /\ stage[n] = "new" /\ n = created
      BY <1>1
    <2> HIDE DEF n
    <2>5. \A j \in Ids : stage'[j] # "new"
      BY <1>3, <2>1, <2>4
    <2>6. \A j \in Ids : stage'[j] = "none" <=> stage[j] = "none"
      BY <1>3, <2>4
    <2> QED
      BY <2>2, <2>3, <2>5, <2>6
  <1>5. StartersOnly' /\ RemovedLast'
    BY <1>1 DEF TurnInv, StartersOnly, RemovedLast, Holding
  <1>6. \A c \in Starters : pc'[c] \notin EarlyPcs /\ pc'[c] \notin LaunchPcs
    BY <1>1, <1>2 DEF EarlyPcs
  <1>7. \A j \in Ids : Holder(j)' => removed' \/ done' = Current(j)'
    BY <1>1, <1>2, <1>4 DEF Current
  <1>8. \A j \in Ids : stage'[j] = "none" <=> j > created'
    BY <1>1, <1>4 DEF TurnInv, Turns
  <1>9. \A j, k \in Ids : Holder(j)' /\ Holder(k)' => j = k
    BY <1>4
  <1>10. Turns'
    BY <1>4, <1>6, <1>7, <1>8, <1>9 DEF Turns
  <1> QED
    BY <1>5, <1>10 DEF TurnInv

LEMMA TurnNext ==
  ASSUME SingleStarter, NoReplace, TypeOK, ReservationInv, TurnInv, [Next]_vars
  PROVE  TurnInv'
  <1>1. Base
    BY DEF Base
  <1>2. ASSUME NEW c \in Callers, CallStep(c) PROVE TurnInv'
    BY <1>1, <1>2, TurnCallStep
  <1>3. ASSUME NEW i \in Ids, ExitInstance(i) \/ HandlerStep(i) PROVE TurnInv'
    BY <1>1, <1>3, HandlerMoves, TurnMove, TurnInstall, TurnRespawn
  <1>4. CASE HaltGate \/ HaltStep
    BY <1>4, HaltKeeps, TurnKept DEF turnVars, SameNext
  <1>5. CASE UNCHANGED vars
    BY <1>5, TurnKept DEF vars, turnVars, SameNext
  <1> QED
    BY <1>1, <1>2, <1>3, <1>4, <1>5, TurnClaim DEF Next

-----------------------------------------------------------------------------
(* The teardown context an instance lives under: that of the entry until the    *)
(* entry is removed, and a cancelled one from then on.                           *)

Dead(t) == t = 0 \/ TeardownErr(t)

\* Where a handler holds the teardown context it captured.
SeenPcs == {"backoff", "cleanup", "restop", "install"}

EraOf(i) ==
    /\ IF removed THEN TeardownErr(inst[Current(i)].era)
       ELSE teardown # 0 /\ inst[Current(i)].era = teardown
    /\ stage[i] \in SeenPcs => IF removed THEN Dead(inst[i].seen) ELSE inst[i].seen = teardown

Eras ==
    /\ \A i \in Ids : stage[i] = "none" => inst[i].era = 0
    /\ \A c \in Starters : pc[c] \in LaunchPcs =>
          teardown = created /\ inst[created].era = created
    /\ \A c \in Stoppers : pc[c] \in (TeardownPcs \ {"cancel"}) \cup {"remove"} =>
          Dead(teardown)
    /\ removed => teardown = 0
    /\ \A i \in Ids : Holder(i) => EraOf(i)

LEMMA ErasInit == Init => Eras
  <1> SUFFICES ASSUME Init PROVE Eras
    OBVIOUS
  <1>1. /\ \A c \in Callers : pc[c] = "idle"
        /\ \A i \in Ids : stage[i] = IF Launched /\ i = 1 THEN "run" ELSE "none"
        /\ teardown = IF Launched THEN 1 ELSE 0
        /\ \A i \in Ids : inst[i].era = IF Launched /\ i = 1 THEN 1 ELSE 0
        /\ ~removed
    BY DEF Init, NoInst
  <1> QED
    BY <1>1 DEF Eras, EraOf, Holder, HolderPcs, InstPcs, SuccPcs, SeenPcs, Current, Callers,
       LaunchPcs,
       TeardownPcs

\* A step that touches no instance and no call, but may cancel contexts.
LEMMA ErasQuiet ==
  ASSUME Eras, UNCHANGED <<stage, inst, created, teardown, removed, pc>>,
         octx => octx', deadTeardowns \subseteq deadTeardowns'
  PROVE  Eras'
  <1>1. \A t : TeardownErr(t) => TeardownErr(t)'
    BY DEF TeardownErr
  <1>2. \A i \in Ids : EraOf(i) => EraOf(i)'
    BY <1>1 DEF EraOf, Dead, Current
  <1> QED
    BY <1>1, <1>2 DEF Eras, Dead, Holder

LEMMA ErasCallStep ==
  ASSUME Base, TurnInv, Eras, NEW c \in Callers, CallStep(c) PROVE Eras'
  <1> USE EntryAssumption DEF Base, TypeOK, ReservationInv, CallShape, FlagsUp,
          ReservationExclusive, SingleStarter, Holding, TurnInv, StartersOnly,
          RemovedLast, Goto, Step, Callers, EarlyPcs, LaunchPcs, StartPcs, TeardownPcs
  <1>c. CASE InstallContexts(c)
    <2>1. /\ pc[c] = "contexts" /\ c \in Starters /\ c \notin Stoppers /\ ~removed
          /\ \A d \in Callers : Holding(d) => d = c
      BY <1>c DEF InstallContexts
    <2>2. /\ created + 1 \in Ids /\ created' = created + 1 /\ teardown' = created + 1
          /\ stage' = [stage EXCEPT ![created + 1] = "new"]
          /\ pc' = [pc EXCEPT ![c] = "running"]
          /\ inst' = [inst EXCEPT ![created + 1].era = created + 1]
          /\ UNCHANGED <<octx, deadTeardowns, removed>>
      BY <1>c DEF InstallContexts, Ids
    <2>3. \A i \in Ids : ~Holder(i)
      BY <2>1 DEF Turns
    <2>4. \A i \in Ids : ~Holder(i)'
      BY <2>2, <2>3 DEF Holder, HolderPcs, InstPcs
    <2>5. \A i \in Ids : stage'[i] = "none" => inst'[i].era = 0
      BY <2>2 DEF Eras, InstRecords
    <2>6. inst'[created'].era = created'
      BY <2>2 DEF InstRecords
    <2> QED
      BY <2>1, <2>2, <2>4, <2>5, <2>6 DEF Eras
  <1>s. CASE Spawn(c)
    <2>1. /\ pc[c] = "spawn" /\ c \in Starters /\ c \notin Stoppers /\ ~removed
          /\ \A d \in Callers : Holding(d) => d = c
      BY <1>s DEF Spawn
    <2>2. created \in Ids /\ call[c].inst = created /\ stage[created] = "new"
      BY <2>1 DEF Ids, Turns
    <2>3. /\ stage' = [stage EXCEPT ![created] = "run"]
          /\ pc' = [pc EXCEPT ![c] = IF StartTimeout THEN "settle" ELSE "inner"]
          /\ UNCHANGED <<created, removed, inst, teardown>>
      BY <1>s, <2>2 DEF Spawn
    <2>4. \A i \in Ids : Holder(i)' => i = created
      BY <2>1, <2>3 DEF Turns, Holder
    <2>5. teardown = created /\ inst[created].era = created /\ created # 0
      BY <2>1, <2>2 DEF Eras, Ids
    <2>6. EraOf(created)'
      BY <2>1, <2>2, <2>3, <2>5 DEF EraOf, Current, SuccPcs, SeenPcs
    <2> QED
      BY <2>1, <2>3, <2>4, <2>6 DEF Eras
  <1>k. CASE CancelContexts(c)
    <2>1. /\ pc[c] = "cancel" /\ pc' = [pc EXCEPT ![c] = "snapshot"]
          /\ deadTeardowns' = deadTeardowns \cup CancelFn(teardown)
          /\ UNCHANGED <<stage, inst, created, teardown, removed, octx>>
      BY <1>k DEF CancelContexts
    <2>2. \A t : TeardownErr(t) => TeardownErr(t)'
      BY <2>1 DEF TeardownErr
    <2>3. Dead(teardown)'
      BY <2>1 DEF Dead, TeardownErr, CancelFn
    <2>4. \A i \in Ids : EraOf(i) => EraOf(i)'
      BY <2>1, <2>2 DEF EraOf, Dead, Current
    <2> QED
      BY <2>1, <2>3, <2>4 DEF Eras, Holder
  <1>r. CASE RemoveEntry(c)
    <2>1. /\ pc[c] = "remove" /\ pc' = [pc EXCEPT ![c] = "drain"] /\ c \in Stoppers
          /\ removed' /\ ~removed /\ teardown' = 0
          /\ UNCHANGED <<stage, inst, created, octx, deadTeardowns>>
      BY <1>r DEF RemoveEntry
    <2>2. \A t : TeardownErr(t) <=> TeardownErr(t)'
      BY <2>1 DEF TeardownErr
    <2>3. Dead(teardown) /\ \A d \in Starters : pc[d] \notin LaunchPcs
      BY <2>1 DEF Eras
    <2>4. \A i \in Ids : EraOf(i) => EraOf(i)'
      BY <2>1, <2>2, <2>3 DEF EraOf, Dead, Current
    <2>5. Dead(0)'
      BY DEF Dead
    <2> QED
      BY <2>1, <2>3, <2>4, <2>5 DEF Eras, Holder
  <1>v. ~ValidateReplacement(c) /\ ~SwapService(c)
    BY DEF ValidateReplacement, SwapService
  <1>1. CASE EnterStart(c)
    BY <1>1 DEF EnterStart, Eras, EraOf, Dead, TeardownErr, Holder, Current
  <1>2. CASE RefuseStart(c)
    BY <1>2 DEF RefuseStart, Eras, EraOf, Dead, TeardownErr, Holder, Current
  <1>3. CASE PassStart(c)
    BY <1>3 DEF PassStart, Eras, EraOf, Dead, TeardownErr, Holder, Current
  <1>4. CASE PublishRunning(c)
    BY <1>4 DEF PublishRunning, Eras, EraOf, Dead, TeardownErr, Holder, Current
  <1>5. CASE ClearLatch(c)
    BY <1>5 DEF ClearLatch, Eras, EraOf, Dead, TeardownErr, Holder, Current
  <1>6. CASE AddToWaitGroup(c)
    BY <1>6 DEF AddToWaitGroup, Eras, EraOf, Dead, TeardownErr, Holder, Current
  <1>7. CASE StartReturned(c)
    BY <1>7 DEF StartReturned, Eras, EraOf, Dead, TeardownErr, Holder, Current
  <1>8. CASE StartTimedOut(c)
    BY <1>8 DEF StartTimedOut, Eras, EraOf, Dead, TeardownErr, Holder, Current
  <1>9. CASE InnerRelease(c)
    BY <1>9 DEF InnerRelease, Eras, EraOf, Dead, TeardownErr, Holder, Current
  <1>10. CASE OuterRelease(c)
    BY <1>10 DEF OuterRelease, NoCall, Eras, EraOf, Dead, TeardownErr, Holder, Current
  <1>11. CASE SnapshotDone(c)
    BY <1>11 DEF SnapshotDone, Eras, EraOf, Dead, TeardownErr, Holder, Current
  <1>12. CASE BeginStop(c)
    BY <1>12 DEF BeginStop, Eras, EraOf, Dead, TeardownErr, Holder, Current
  <1>13. CASE MarkStopping(c)
    BY <1>13 DEF MarkStopping, Eras, EraOf, Dead, TeardownErr, Holder, Current
  <1>14. CASE StopSequence(c)
    BY <1>14 DEF StopSequence, Eras, EraOf, Dead, TeardownErr, Holder, Current
  <1>15. CASE AbandonSequence(c)
    BY <1>15 DEF AbandonSequence, Eras, EraOf, Dead, TeardownErr, Holder, Current
  <1>16. CASE AwaitExit(c)
    BY <1>16 DEF AwaitExit, Eras, EraOf, Dead, TeardownErr, Holder, Current
  <1>17. CASE AwaitTimedOut(c)
    BY <1>17 DEF AwaitTimedOut, Eras, EraOf, Dead, TeardownErr, Holder, Current
  <1>18. CASE FinishStop(c)
    BY <1>18 DEF FinishStop, Eras, EraOf, Dead, TeardownErr, Holder, Current
  <1>19. CASE DrainOwners(c)
    BY <1>19 DEF DrainOwners, Eras, EraOf, Dead, TeardownErr, Holder, Current
  <1>20. CASE ReleaseTeardown(c)
    BY <1>20 DEF ReleaseTeardown, NoCall, Eras, EraOf, Dead, TeardownErr, Holder, Current
  <1> QED
    BY <1>c, <1>s, <1>k, <1>r, <1>v, <1>1, <1>2, <1>3, <1>4, <1>5, <1>6, <1>7, <1>8, <1>9, <1>10,
       <1>11, <1>12, <1>13, <1>14, <1>15, <1>16, <1>17, <1>18, <1>19, <1>20
    DEF CallStep, StartStep, TeardownStep

LEMMA ErasClaim ==
  ASSUME Base, TurnInv, Eras, Claim PROVE Eras'
  <1>1. PICK c \in Callers, p \in {"enter", "cancel"} :
            /\ pc' = [pc EXCEPT ![c] = p]
            /\ UNCHANGED <<stage, inst, created, teardown, removed, octx, deadTeardowns>>
    BY DEF Claim, ClaimStart, ClaimTeardown, ClaimReplace, NoReplace, Base, Goto, Callers
  <1> QED
    BY <1>1 DEF Eras, EraOf, Dead, TeardownErr, Holder, Current, Base, TypeOK, LaunchPcs,
       TeardownPcs

LEMMA HandlerContexts ==
  ASSUME SelfHeal, Base, NEW i \in Ids, ExitInstance(i) \/ HandlerStep(i),
         ~InstallRestart(i), ~Respawn(i)
  PROVE  /\ UNCHANGED <<teardown, octx, deadTeardowns>>
         /\ stage'[i] \in SeenPcs =>
               \/ stage[i] \in SeenPcs /\ inst'[i].seen = inst[i].seen
               \/ stage[i] = "capture" /\ inst'[i].seen = teardown
         /\ \A j \in Ids : j # i => inst'[j].seen = inst[j].seen
  <1> USE DEF Base, TypeOK, Step, InstPcs, InstRecords, SeenPcs
  <1>1. CASE ExitInstance(i)
    BY <1>1 DEF ExitInstance
  <1>2. CASE EnterHandler(i)
    BY <1>2 DEF EnterHandler
  <1>3. CASE DecideRemoving(i)
    BY <1>3 DEF DecideRemoving
  <1>4. CASE DecideVerdict(i)
    BY <1>4 DEF DecideVerdict
  <1>5. CASE CommitVerdict(i)
    BY <1>5 DEF CommitVerdict
  <1>6. CASE ClassifyExit(i)
    BY <1>6 DEF ClassifyExit
  <1>7. CASE ReportCrash(i)
    BY <1>7 DEF ReportCrash
  <1>8. CASE CountRetry(i)
    BY <1>8 DEF CountRetry
  <1>9. CASE SuspendInstance(i)
    BY <1>9 DEF SuspendInstance
  <1>10. CASE ReportSuspended(i)
    BY <1>10 DEF ReportSuspended
  <1>11. CASE CaptureTeardown(i)
    BY <1>11 DEF CaptureTeardown
  <1>12. CASE EndBackoff(i)
    BY <1>12 DEF EndBackoff
  <1>13. CASE AbortRestart(i)
    BY <1>13 DEF AbortRestart
  <1>14. CASE ReportAborted(i)
    BY <1>14 DEF ReportAborted
  <1>15. CASE CancelIncarnation(i)
    BY <1>15 DEF CancelIncarnation
  <1>16. CASE CleanUpIncarnation(i)
    BY <1>16 DEF CleanUpIncarnation
  <1>17. CASE PublishRestart(i)
    BY <1>17 DEF PublishRestart
  <1>18. CASE ReleaseWaitGroup(i)
    BY <1>18 DEF ReleaseWaitGroup
  <1>19. CASE ReleaseContexts(i)
    BY <1>19 DEF ReleaseContexts
  <1>20. CASE CloseDone(i)
    BY <1>20 DEF CloseDone
  <1> QED
    BY <1>1, <1>2, <1>3, <1>4, <1>5, <1>6, <1>7, <1>8, <1>9, <1>10, <1>11, <1>12, <1>13, <1>14,
       <1>15, <1>16, <1>17, <1>18, <1>19, <1>20
    DEF HandlerStep

LEMMA ErasMove ==
  ASSUME SelfHeal, Base, TurnInv, Eras, NEW i \in Ids, ExitInstance(i) \/ HandlerStep(i),
         ~InstallRestart(i), ~Respawn(i)
  PROVE  Eras'
  <1>1. /\ SameNext /\ \A j \in Ids : inst'[j].era = inst[j].era
        /\ UNCHANGED <<created, removed, pc, teardown, octx, deadTeardowns>>
    BY HandlerMoves, HandlerContexts
  <1>2. \A t : TeardownErr(t)' <=> TeardownErr(t)
    BY <1>1 DEF TeardownErr
  <1>3. PICK p \in InstPcs :
            /\ stage' = [stage EXCEPT ![i] = p]
            /\ stage[i] \notin {"none", "new", "respawn", "exited"}
            /\ p \notin {"none", "new", "run"}
            /\ p \in HolderPcs => Holder(i)
            /\ p \in SuccPcs <=> stage[i] = "publish"
    BY HandlerMoves DEF HandlerMove
  <1>4. \A j \in Ids : /\ stage'[j] = "none" <=> stage[j] = "none"
                       /\ Holder(j)' => Holder(j)
                       /\ stage'[j] \in SuccPcs <=> stage[j] \in SuccPcs
                       /\ j # i => stage'[j] = stage[j]
    BY <1>3 DEF Holder, Base, TypeOK, SuccPcs
  <1>5. \A j \in Ids : Current(j)' = Current(j)
    BY <1>1, <1>4 DEF Current, SameNext
  <1>6. \A j \in Ids : Holder(j) => Current(j) \in Ids
    BY DEF TurnInv, Turns, Current, Base, TypeOK, Ids
  <1>7. ASSUME NEW j \in Ids, Holder(j)' PROVE EraOf(j)'
    <2>1. EraOf(j) /\ Holder(j) /\ Current(j) \in Ids
      BY <1>4, <1>6, <1>7 DEF Eras
    <2>2. inst'[Current(j)].era = inst[Current(j)].era
      BY <1>1, <2>1
    <2>3. stage'[j] \in SeenPcs =>
             \/ stage[j] \in SeenPcs /\ inst'[j].seen = inst[j].seen
             \/ inst'[j].seen = teardown
      BY <1>4, HandlerContexts
    <2>4. removed => Dead(teardown)
      BY DEF Eras, Dead
    <2> QED
      BY <1>1, <1>5, <2>1, <2>2, <2>3, <2>4 DEF EraOf, Dead, TeardownErr
  <1>8. Dead(teardown) => Dead(teardown)'
    BY <1>1, <1>2 DEF Dead
  <1>9. created # 0 => created \in Ids
    BY DEF Base, TypeOK
  <1>10. \A c \in Starters : pc[c] \in LaunchPcs => created # 0
    BY DEF TurnInv, Turns
  <1> HIDE DEF Holder, Current, EraOf
  <1> QED
    BY <1>1, <1>4, <1>7, <1>8, <1>9, <1>10 DEF Eras

LEMMA ErasInstall ==
  ASSUME Base, TurnInv, Eras, NEW i \in Ids, InstallRestart(i)
  PROVE  Eras'
  <1> DEFINE n == created + 1
             e == IF inst[i].seen = 0 THEN inst[i].era ELSE inst[i].seen
  <1>1. /\ stage[i] = "install" /\ n \in Ids
        /\ stage' = [stage EXCEPT ![i] = "publish", ![n] = "new"]
        /\ UNCHANGED <<removed, pc, teardown, octx, deadTeardowns>>
    BY EntryAssumption DEF InstallRestart, Base, TypeOK, Ids
  <1>2. i # n
    BY <1>1 DEF TurnInv, Turns, Ids, Base, TypeOK
  <1>3. inst' = [inst EXCEPT ![i].next = n, ![n].era = e]
    BY DEF InstallRestart
  <1>4. /\ inst'[i].next = n /\ inst'[n].era = e
        /\ \A j \in Ids : j # n => inst'[j].era = inst[j].era
    BY <1>1, <1>2, <1>3 DEF Base, TypeOK, InstRecords
  <1>5. Holder(i) /\ EraOf(i) /\ stage[i] \in SeenPcs /\ stage[i] \notin SuccPcs
    BY <1>1 DEF Holder, HolderPcs, InstPcs, Eras, SeenPcs, SuccPcs
  <1>6. IF removed THEN TeardownErr(e) ELSE teardown # 0 /\ e = teardown
    BY <1>5 DEF EraOf, Current, Dead
  <1>7. /\ \A c \in Starters : pc[c] \notin EarlyPcs
        /\ \A j \in Ids : Holder(j) => j = i
    BY <1>5 DEF TurnInv, Turns
  <1>8. \A j \in Ids : stage'[j] = IF j = i THEN "publish" ELSE IF j = n THEN "new" ELSE stage[j]
    BY <1>1, <1>2 DEF Base, TypeOK
  <1> HIDE DEF n, e
  <1>9. \A j \in Ids : Holder(j)' => j = i
    BY <1>7, <1>8 DEF Holder, HolderPcs, InstPcs
  <1>10. Current(i)' = n /\ stage'[i] \notin SeenPcs
    BY <1>4, <1>8 DEF Current, SuccPcs, SeenPcs
  <1>11. \A t : TeardownErr(t)' <=> TeardownErr(t)
    BY <1>1 DEF TeardownErr
  <1>12. EraOf(i)'
    BY <1>1, <1>4, <1>6, <1>10, <1>11 DEF EraOf
  <1>13. \A j \in Ids : stage'[j] = "none" => inst'[j].era = 0
    BY <1>4, <1>8 DEF Eras
  <1>14. Dead(teardown) => Dead(teardown)'
    BY <1>1, <1>11 DEF Dead
  <1>15. \A c \in Starters : pc'[c] \notin LaunchPcs
    BY <1>1, <1>7 DEF EarlyPcs
  <1> QED
    BY <1>1, <1>9, <1>12, <1>13, <1>14, <1>15 DEF Eras

LEMMA ErasRespawn ==
  ASSUME Base, TurnInv, Eras, NEW i \in Ids, Respawn(i)
  PROVE  Eras'
  <1>0. PICK n \in Ids : n = inst[i].next
    BY DEF Respawn, Base, TypeOK, TurnInv, Turns, SuccPcs
  <1>1. /\ stage[i] = "respawn" /\ n = created /\ i # n
        /\ stage' = [stage EXCEPT ![i] = "release", ![n] = "run"]
        /\ UNCHANGED <<created, inst, removed, pc, teardown, octx, deadTeardowns>>
    BY <1>0 DEF Respawn, Base, TypeOK, TurnInv, Turns, SuccPcs
  <1>2. Holder(i) /\ EraOf(i) /\ Current(i) = n
    BY <1>0, <1>1 DEF Holder, HolderPcs, InstPcs, SuccPcs, Eras, Current
  <1>3. \A j \in Ids : stage'[j] = IF j = i THEN "release" ELSE IF j = n THEN "run" ELSE stage[j]
    BY <1>1 DEF Base, TypeOK
  <1>4. \A j \in Ids : Holder(j) => j = i
    BY <1>2 DEF TurnInv, Turns
  <1>5. \A j \in Ids : Holder(j)' => j = n
    BY <1>3, <1>4 DEF Holder, HolderPcs, InstPcs
  <1>6. \A t : TeardownErr(t)' <=> TeardownErr(t)
    BY <1>1 DEF TeardownErr
  <1>7. EraOf(n)'
    <2>a. i # n /\ n \in Ids
      BY <1>0, <1>1
    <2>b. stage'[n] = "run"
      BY <2>a, <1>3
    <2>1. stage'[n] = "run" /\ Current(n)' = n
      BY <2>b DEF Current, SuccPcs
    <2>2. IF removed THEN TeardownErr(inst[n].era) ELSE teardown # 0 /\ inst[n].era = teardown
      BY <1>2 DEF EraOf
    <2> QED
      BY <1>1, <2>1, <2>2 DEF EraOf, SeenPcs, TeardownErr
  <1>8. Dead(teardown) => Dead(teardown)'
    BY <1>1, <1>6 DEF Dead
  <1>9. \A c \in Starters : pc[c] \notin LaunchPcs
    BY <1>2 DEF TurnInv, Turns, EarlyPcs
  <1> QED
    <2>1. \A j \in Ids : stage'[j] = "none" => inst'[j].era = 0
      BY <1>1, <1>3 DEF Eras
    <2>2. \A j \in Ids : Holder(j)' => EraOf(j)'
      BY <1>5, <1>7
    <2> QED
      BY <1>1, <1>8, <1>9, <2>1, <2>2 DEF Eras

LEMMA ErasNext ==
  ASSUME SelfHeal, Base, TurnInv, Eras, [Next]_vars
  PROVE  Eras'
  <1>1. ASSUME NEW i \in Ids, ExitInstance(i) \/ HandlerStep(i) PROVE Eras'
    BY <1>1, ErasMove, ErasInstall, ErasRespawn
  <1>2. CASE HaltGate \/ HaltStep
    <2>1. UNCHANGED teardown /\ (octx => octx') /\ UNCHANGED deadTeardowns
      BY <1>2 DEF HaltGate, HaltStep, HaltCancel, HaltBegin, HaltMark, HaltSequence, HaltWait,
         HaltTimedOut, HaltFinish, HaltSeal
    <2> QED
      BY <1>2, <2>1, HaltKeeps, ErasQuiet
  <1>3. CASE UNCHANGED vars
    BY <1>3, ErasQuiet DEF vars
  <1> QED
    BY <1>1, <1>2, <1>3, ErasClaim, ErasCallStep DEF Next

-----------------------------------------------------------------------------
(* The retry budget.  Until the entry is removed, every instance that is not the *)
(* first of its era, and the one a handler is about to make, was paid for with a *)
(* retry; the removal gives the retries back, but the teardown before it has     *)
(* cancelled every era there is.                                                 *)

Limited == MaxRetries > 0 /\ ~ResetAfter

Restarted == {i \in Ids : inst[i].era \notin {0, i}}

\* A handler that has counted its retry, and one past the end of its backoff.
PaidPcs  == {"suspend", "suspended", "capture"} \cup SeenPcs
ReadyPcs == {"cleanup", "restop", "install"}

Spent(P) == Cardinality(Restarted) + IF \E i \in Ids : stage[i] \in P THEN 1 ELSE 0

Budget ==
    /\ retryCount <= MaxRetries
    /\ IF removed THEN Spent(ReadyPcs) <= MaxRetries ELSE Spent(PaidPcs) <= retryCount

LEMMA RestartedType == IsFiniteSet(Restarted) /\ Cardinality(Restarted) \in Nat
  <1>1. IsFiniteSet(Ids)
    BY EntryAssumption, FS_Interval DEF Ids
  <1>2. IsFiniteSet(Restarted)
    BY <1>1, FS_Subset DEF Restarted
  <1> QED
    BY <1>2, FS_CardinalityType

LEMMA OneMore ==
  ASSUME NEW S, NEW x, IsFiniteSet(S)
  PROVE  /\ IsFiniteSet(S \cup {x}) /\ Cardinality(S \cup {x}) \in Nat
         /\ Cardinality(S \cup {x}) <= Cardinality(S) + 1
  <1>1. /\ IsFiniteSet(S \cup {x})
        /\ Cardinality(S \cup {x}) = IF x \in S THEN Cardinality(S) ELSE Cardinality(S) + 1
    BY FS_AddElement
  <1>2. Cardinality(S) \in Nat
    BY FS_CardinalityType
  <1> QED
    BY <1>1, <1>2

\* A step that makes no restarted instance, pays for none and begins none.
LEMMA BudgetQuiet ==
  ASSUME TypeOK, Budget, Restarted' = Restarted, UNCHANGED <<retryCount, removed>>,
         \A i \in Ids : stage'[i] \in PaidPcs => stage[i] \in PaidPcs,
         removed => \A i \in Ids : stage'[i] \in ReadyPcs => stage[i] \in ReadyPcs
  PROVE  Budget'
  <1>1. /\ Cardinality(Restarted') = Cardinality(Restarted)
        /\ Cardinality(Restarted) \in Nat
    BY RestartedType
  <1>2. retryCount \in Nat /\ MaxRetries \in Nat
    BY EntryAssumption DEF TypeOK
  <1>3. Spent(PaidPcs) \in Nat /\ Spent(PaidPcs)' \in Nat /\ Spent(PaidPcs)' <= Spent(PaidPcs)
    BY <1>1 DEF Spent
  <1>4. removed =>
          Spent(ReadyPcs) \in Nat /\ Spent(ReadyPcs)' \in Nat /\ Spent(ReadyPcs)' <= Spent(ReadyPcs)
    BY <1>1 DEF Spent
  <1> QED
    BY <1>2, <1>3, <1>4 DEF Budget

LEMMA SameRestarted ==
  ASSUME \A i \in Ids : inst'[i].era = inst[i].era PROVE Restarted' = Restarted
  BY DEF Restarted

LEMMA BudgetCallStep ==
  ASSUME Base, TurnInv, Eras, Budget, NEW c \in Callers, CallStep(c)
  PROVE  Budget'
  <1> USE EntryAssumption DEF Base, TypeOK, ReservationInv, CallShape, TurnInv, StartersOnly,
          Goto, Step, Callers, StartPcs, TeardownPcs, PaidPcs, SeenPcs, ReadyPcs
  <1>c. CASE InstallContexts(c)
    <2>1. /\ stage' = [stage EXCEPT ![created + 1] = "new"] /\ created + 1 \in Ids
          /\ inst' = [inst EXCEPT ![created + 1].era = created + 1]
          /\ UNCHANGED <<retryCount, removed>>
      BY <1>c DEF InstallContexts, Ids
    <2>2. stage[created + 1] = "none"
      BY <2>1 DEF Turns, Ids
    <2>3. Restarted' = Restarted
      <3>1. inst[created + 1].era = 0
        BY <2>1, <2>2 DEF Eras
      <3>2. \A i \in Ids : inst'[i].era = IF i = created + 1 THEN created + 1 ELSE inst[i].era
        BY <2>1 DEF InstRecords
      <3> QED
        BY <2>1, <3>1, <3>2 DEF Restarted
    <2> QED
      BY <2>1, <2>3, BudgetQuiet
  <1>s. CASE Spawn(c)
    <2>1. /\ stage' = [stage EXCEPT ![call[c].inst] = "run"]
          /\ UNCHANGED <<inst, retryCount, removed>>
      BY <1>s DEF Spawn
    <2> QED
      BY <2>1, SameRestarted, BudgetQuiet
  <1>r. CASE RemoveEntry(c)
    <2>1. UNCHANGED <<stage, inst>> /\ removed' /\ retryCount' = 0 /\ ~removed
      BY <1>r DEF RemoveEntry, RemovedLast, Holding
    <2>2. Restarted' = Restarted /\ Cardinality(Restarted) \in Nat
      BY <2>1, RestartedType, SameRestarted
    <2> QED
      BY <2>1, <2>2 DEF Budget, Spent
  <1>v. ~ValidateReplacement(c) /\ ~SwapService(c)
    BY DEF ValidateReplacement, SwapService
  <1>1. CASE EnterStart(c)
    BY <1>1, SameRestarted, BudgetQuiet DEF EnterStart
  <1>2. CASE RefuseStart(c)
    BY <1>2, SameRestarted, BudgetQuiet DEF RefuseStart
  <1>3. CASE PassStart(c)
    BY <1>3, SameRestarted, BudgetQuiet DEF PassStart
  <1>4. CASE PublishRunning(c)
    BY <1>4, SameRestarted, BudgetQuiet DEF PublishRunning
  <1>5. CASE ClearLatch(c)
    BY <1>5, SameRestarted, BudgetQuiet DEF ClearLatch
  <1>6. CASE AddToWaitGroup(c)
    BY <1>6, SameRestarted, BudgetQuiet DEF AddToWaitGroup
  <1>7. CASE StartReturned(c)
    BY <1>7, SameRestarted, BudgetQuiet DEF StartReturned
  <1>8. CASE StartTimedOut(c)
    BY <1>8, SameRestarted, BudgetQuiet DEF StartTimedOut
  <1>9. CASE InnerRelease(c)
    BY <1>9, SameRestarted, BudgetQuiet DEF InnerRelease
  <1>10. CASE OuterRelease(c)
    BY <1>10, SameRestarted, BudgetQuiet DEF OuterRelease
  <1>11. CASE CancelContexts(c)
    BY <1>11, SameRestarted, BudgetQuiet DEF CancelContexts
  <1>12. CASE SnapshotDone(c)
    BY <1>12, SameRestarted, BudgetQuiet DEF SnapshotDone
  <1>13. CASE BeginStop(c)
    BY <1>13, SameRestarted, BudgetQuiet DEF BeginStop
  <1>14. CASE MarkStopping(c)
    BY <1>14, SameRestarted, BudgetQuiet DEF MarkStopping
  <1>15. CASE StopSequence(c)
    BY <1>15, SameRestarted, BudgetQuiet DEF StopSequence
  <1>16. CASE AbandonSequence(c)
    BY <1>16, SameRestarted, BudgetQuiet DEF AbandonSequence
  <1>17. CASE AwaitExit(c)
    BY <1>17, SameRestarted, BudgetQuiet DEF AwaitExit
  <1>18. CASE AwaitTimedOut(c)
    BY <1>18, SameRestarted, BudgetQuiet DEF AwaitTimedOut
  <1>19. CASE FinishStop(c)
    BY <1>19, SameRestarted, BudgetQuiet DEF FinishStop
  <1>20. CASE DrainOwners(c)
    BY <1>20, SameRestarted, BudgetQuiet DEF DrainOwners
  <1>21. CASE ReleaseTeardown(c)
    BY <1>21, SameRestarted, BudgetQuiet DEF ReleaseTeardown
  <1> QED
    BY <1>c, <1>s, <1>r, <1>v, <1>1, <1>2, <1>3, <1>4, <1>5, <1>6, <1>7, <1>8, <1>9, <1>10,
       <1>11, <1>12, <1>13, <1>14, <1>15, <1>16, <1>17, <1>18, <1>19, <1>20, <1>21
    DEF CallStep, StartStep, TeardownStep

LEMMA BudgetHandler ==
  ASSUME Limited, SelfHeal, Base, TurnInv, Eras, Budget,
         NEW i \in Ids, ExitInstance(i) \/ HandlerStep(i)
  PROVE  Budget'
  <1> USE DEF Base, TypeOK, Step, PaidPcs, SeenPcs, ReadyPcs
  <1>0. ASSUME ~InstallRestart(i), ~Respawn(i)
        PROVE  Restarted' = Restarted /\ UNCHANGED removed
    BY <1>0, SameRestarted, HandlerMoves
  <1>a. Cardinality(Restarted) \in Nat
    BY RestartedType
  <1>c. CASE CountRetry(i)
    <2>1. stage[i] = "retry" /\ Restarted' = Restarted /\ UNCHANGED removed
      BY <1>0, <1>c DEF CountRetry, InstallRestart, Respawn
    <2>2. CASE RetriesSpent
      BY <1>c, <2>1, <2>2, BudgetQuiet DEF CountRetry
    <2>3. CASE ~RetriesSpent
      <3>1. /\ stage' = [stage EXCEPT ![i] = "suspend"] /\ retryCount' = retryCount + 1
            /\ retryCount < MaxRetries
        BY <1>c, <2>3, EntryAssumption DEF CountRetry, RetriesSpent, Limited
      <3>2. \A j \in Ids : stage[j] \notin PaidPcs
        BY <2>1 DEF TurnInv, Turns, Holder, HolderPcs, InstPcs
      <3>3. \A j \in Ids : stage'[j] \notin ReadyPcs
        BY <3>1, <3>2
      <3>4. Spent(PaidPcs)' <= Spent(PaidPcs) + 1 /\ Spent(ReadyPcs)' <= Spent(ReadyPcs)
        BY <1>a, <2>1, <3>2, <3>3 DEF Spent
      <3>5. Spent(PaidPcs) \in Nat /\ Spent(ReadyPcs) \in Nat
        BY <1>a DEF Spent
      <3>6. Spent(PaidPcs)' \in Nat /\ Spent(ReadyPcs)' \in Nat
        BY <1>a, <2>1 DEF Spent
      <3> HIDE DEF PaidPcs, ReadyPcs
      <3> QED
        BY <2>1, <3>1, <3>4, <3>5, <3>6, EntryAssumption DEF Budget
    <2> QED
      BY <2>2, <2>3
  <1>e. CASE EndBackoff(i)
    <2>1. /\ stage[i] = "backoff" /\ Restarted' = Restarted
          /\ UNCHANGED <<removed, inst, retryCount>>
      BY <1>0, <1>e DEF EndBackoff, InstallRestart, Respawn
    <2>2. removed => stage' = [stage EXCEPT ![i] = "abort"]
      <3>1. EraOf(i) /\ Current(i) = i
        BY <2>1 DEF Eras, Holder, HolderPcs, InstPcs, Current, SuccPcs
      <3> QED
        BY <1>e, <2>1, <3>1 DEF EndBackoff, EraOf, Dead, Cancelled
    <2>3. stage' = [stage EXCEPT ![i] = "abort"] \/ stage' = [stage EXCEPT ![i] = "cleanup"]
      BY <1>e DEF EndBackoff
    <2> QED
      BY <2>1, <2>2, <2>3, BudgetQuiet
  <1>i. CASE InstallRestart(i)
    <2> DEFINE n == created + 1
               e == IF inst[i].seen = 0 THEN inst[i].era ELSE inst[i].seen
    <2>1. /\ stage[i] = "install" /\ stage' = [stage EXCEPT ![i] = "publish", ![n] = "new"]
          /\ inst' = [inst EXCEPT ![i].next = n, ![n].era = e]
          /\ UNCHANGED <<removed, retryCount>>
      BY <1>i DEF InstallRestart
    <2>2. Restarted' \subseteq Restarted \cup {n}
      BY <2>1 DEF Restarted, InstRecords
    <2>3. Cardinality(Restarted') <= Cardinality(Restarted) + 1 /\ Cardinality(Restarted') \in Nat
      <3>1. IsFiniteSet(Restarted)
        BY RestartedType
      <3>2. /\ IsFiniteSet(Restarted \cup {n})
            /\ Cardinality(Restarted \cup {n}) <= Cardinality(Restarted) + 1
        BY <3>1, OneMore
      <3>3. IsFiniteSet(Restarted') /\ Cardinality(Restarted') <= Cardinality(Restarted \cup {n})
        BY <2>2, <3>2, FS_Subset
      <3>4. Cardinality(Restarted') \in Nat /\ Cardinality(Restarted \cup {n}) \in Nat
        BY <3>2, <3>3, FS_CardinalityType
      <3> QED
        BY <1>a, <3>2, <3>3, <3>4
    <2>4. \A j \in Ids : stage'[j] \notin PaidPcs
      <3>1. \A j \in Ids : j # i => stage[j] \notin PaidPcs
        BY <2>1 DEF TurnInv, Turns, Holder, HolderPcs, InstPcs
      <3> QED
        BY <2>1, <3>1
    <2>5. /\ Spent(PaidPcs) = Cardinality(Restarted) + 1
          /\ Spent(ReadyPcs) = Cardinality(Restarted) + 1
          /\ Spent(PaidPcs)' = Cardinality(Restarted')
          /\ Spent(ReadyPcs)' = Cardinality(Restarted')
      <3>1. i \in Ids /\ stage[i] \in PaidPcs /\ stage[i] \in ReadyPcs
        BY <2>1
      <3>2. \A j \in Ids : stage'[j] \notin ReadyPcs
        BY <2>4
      <3>3. Cardinality(Restarted') + 0 = Cardinality(Restarted')
        BY <2>3
      <3> HIDE DEF PaidPcs, ReadyPcs
      <3> QED
        BY <2>4, <3>1, <3>2, <3>3 DEF Spent
    <2>6. retryCount \in Nat /\ MaxRetries \in Nat
      BY EntryAssumption
    <2> HIDE DEF PaidPcs, ReadyPcs
    <2> QED
      BY <1>a, <2>1, <2>3, <2>5, <2>6 DEF Budget
  <1>w. CASE Respawn(i)
    <2>1. /\ stage' = [stage EXCEPT ![i] = "release", ![inst[i].next] = "run"]
          /\ UNCHANGED <<inst, removed, retryCount>>
      BY <1>w DEF Respawn
    <2> QED
      BY <2>1, SameRestarted, BudgetQuiet
  <1>1. CASE ExitInstance(i)
    BY <1>0, <1>1, BudgetQuiet DEF ExitInstance, InstallRestart, Respawn
  <1>2. CASE EnterHandler(i)
    BY <1>0, <1>2, BudgetQuiet DEF EnterHandler, InstallRestart, Respawn
  <1>3. CASE DecideRemoving(i)
    BY <1>0, <1>3, BudgetQuiet DEF DecideRemoving, InstallRestart, Respawn
  <1>4. CASE DecideVerdict(i)
    BY <1>0, <1>4, BudgetQuiet DEF DecideVerdict, InstallRestart, Respawn
  <1>5. CASE CommitVerdict(i)
    BY <1>0, <1>5, BudgetQuiet DEF CommitVerdict, InstallRestart, Respawn
  <1>6. CASE ClassifyExit(i)
    <2>1. UNCHANGED retryCount
      <3>1. ~ResetAfter
        BY DEF Limited
      <3>2. PICK stable \in {FALSE, ResetAfter} : retryCount' = IF stable THEN 0 ELSE retryCount
        BY <1>6 DEF ClassifyExit
      <3>3. ~stable
        BY <3>1, <3>2, Zenon
      <3> QED
        BY <3>2, <3>3
    <2> QED
      BY <1>0, <1>6, <2>1, BudgetQuiet DEF ClassifyExit, InstallRestart, Respawn
  <1>7. CASE ReportCrash(i)
    BY <1>0, <1>7, BudgetQuiet DEF ReportCrash, InstallRestart, Respawn
  <1>8. CASE SuspendInstance(i)
    BY <1>0, <1>8, BudgetQuiet DEF SuspendInstance, InstallRestart, Respawn
  <1>9. CASE ReportSuspended(i)
    BY <1>0, <1>9, BudgetQuiet DEF ReportSuspended, InstallRestart, Respawn
  <1>10. CASE CaptureTeardown(i)
    BY <1>0, <1>10, BudgetQuiet DEF CaptureTeardown, InstallRestart, Respawn
  <1>11. CASE AbortRestart(i)
    BY <1>0, <1>11, BudgetQuiet DEF AbortRestart, InstallRestart, Respawn
  <1>12. CASE ReportAborted(i)
    BY <1>0, <1>12, BudgetQuiet DEF ReportAborted, InstallRestart, Respawn
  <1>13. CASE CancelIncarnation(i)
    BY <1>0, <1>13, BudgetQuiet DEF CancelIncarnation, InstallRestart, Respawn
  <1>14. CASE CleanUpIncarnation(i)
    BY <1>0, <1>14, BudgetQuiet DEF CleanUpIncarnation, InstallRestart, Respawn
  <1>15. CASE PublishRestart(i)
    BY <1>0, <1>15, BudgetQuiet DEF PublishRestart, InstallRestart, Respawn
  <1>16. CASE ReleaseWaitGroup(i)
    BY <1>0, <1>16, BudgetQuiet DEF ReleaseWaitGroup, InstallRestart, Respawn
  <1>17. CASE ReleaseContexts(i)
    BY <1>0, <1>17, BudgetQuiet DEF ReleaseContexts, InstallRestart, Respawn
  <1>18. CASE CloseDone(i)
    BY <1>0, <1>18, BudgetQuiet DEF CloseDone, InstallRestart, Respawn
  <1> QED
    BY <1>c, <1>e, <1>i, <1>w, <1>1, <1>2, <1>3, <1>4, <1>5, <1>6, <1>7, <1>8, <1>9, <1>10,
       <1>11, <1>12, <1>13, <1>14, <1>15, <1>16, <1>17, <1>18
    DEF HandlerStep

LEMMA BudgetNext ==
  ASSUME Limited, SelfHeal, Base, TurnInv, Eras, Budget, [Next]_vars
  PROVE  Budget'
  <1> USE DEF Base
  <1>1. CASE Claim
    <2>1. UNCHANGED <<stage, inst, retryCount, removed>>
      BY <1>1 DEF Claim, ClaimStart, ClaimTeardown, ClaimReplace
    <2> QED
      BY <2>1, SameRestarted, BudgetQuiet
  <1>2. ASSUME NEW c \in Callers, CallStep(c) PROVE Budget'
    BY <1>2, BudgetCallStep
  <1>3. ASSUME NEW i \in Ids, ExitInstance(i) \/ HandlerStep(i) PROVE Budget'
    BY <1>3, BudgetHandler
  <1>4. CASE HaltGate \/ HaltStep
    <2>1. UNCHANGED <<stage, inst, retryCount, removed>>
      BY <1>4 DEF HaltGate, HaltStep, HaltCancel, HaltBegin, HaltMark, HaltSequence, HaltWait,
         HaltTimedOut, HaltFinish, HaltSeal
    <2> QED
      BY <2>1, SameRestarted, BudgetQuiet
  <1>5. CASE UNCHANGED vars
    BY <1>5, SameRestarted, BudgetQuiet DEF vars
  <1> QED
    BY <1>1, <1>2, <1>3, <1>4, <1>5 DEF Next

LEMMA BudgetInit == Init => Budget
  <1> SUFFICES ASSUME Init PROVE Budget
    OBVIOUS
  <1>1. /\ \A i \in Ids : inst[i].era = IF Launched /\ i = 1 THEN 1 ELSE 0
        /\ \A i \in Ids : stage[i] = IF Launched /\ i = 1 THEN "run" ELSE "none"
        /\ retryCount = 0 /\ ~removed
    BY DEF Init, NoInst
  <1>2. Restarted = {}
    BY <1>1 DEF Restarted
  <1>3. Cardinality(Restarted) = 0
    BY <1>2, FS_EmptySet
  <1> QED
    BY <1>1, <1>3, EntryAssumption DEF Budget, Spent, PaidPcs, SeenPcs

LEMMA BudgetBounds == Limited /\ TypeOK /\ Budget => RetriesBounded
  <1> SUFFICES ASSUME TypeOK, Budget, NEW e \in Ids
               PROVE  Cardinality({i \in Ids : inst[i].era = e}) <= MaxRetries + 1
    BY DEF RetriesBounded
  <1> DEFINE K == {i \in Ids : inst[i].era = e}
  <1>1. /\ IsFiniteSet(Restarted \cup {e}) /\ Cardinality(Restarted) \in Nat
        /\ Cardinality(Restarted \cup {e}) <= Cardinality(Restarted) + 1
    BY RestartedType, OneMore
  <1>2. K \subseteq Restarted \cup {e}
    BY DEF Restarted, Ids
  <1>3. IsFiniteSet(K) /\ Cardinality(K) <= Cardinality(Restarted \cup {e})
    BY <1>1, <1>2, FS_Subset
  <1>4. Cardinality(K) \in Nat /\ Cardinality(Restarted \cup {e}) \in Nat
    BY <1>1, <1>3, FS_CardinalityType
  <1>5. Cardinality(Restarted) <= MaxRetries
    <2>1. retryCount \in Nat /\ MaxRetries \in Nat
      BY EntryAssumption DEF TypeOK
    <2> QED
      BY <1>1, <2>1 DEF Budget, Spent
  <1> QED
    BY <1>1, <1>3, <1>4, <1>5, EntryAssumption

-----------------------------------------------------------------------------
(* The wait group of a self-heal entry, and the shutdown that waits for it.     *)

\* The latch of the wait group is open while somebody has to release it.
LatchHeld ==
    /\ \A i \in Ids : Holder(i) => ~wgDone
    /\ \A c \in Starters : pc[c] \in {"add", "spawn"} => ~wgDone

WaitInv == LatchHeld /\ WaitGroupBalanced

\* From the gate of Orchestrator.Stop on nobody is about to spawn an instance;
\* once its wait returned nothing is left that could run or be restarted.
ShutInv ==
    /\ hpc # "idle" => /\ stopping \/ stopped
                       /\ \A c \in Starters : pc[c] \notin EarlyPcs
    /\ halt.verified => hpc \in {"finish", "seal", "done"} /\ \A i \in Ids : ~Unreleased(i)
    /\ hpc \in {"seal", "done"} /\ halt.verified /\ halt.completed => status # "Running"

\* Orchestrator.Stop does not pass its gate while a StartService is between its
\* claim and the spawn of its instance.
NoStartAtGate == HaltGate => \A c \in Starters : pc[c] \notin EarlyPcs
QuietShutdown == [][NoStartAtGate]_vars

LEMMA TurnsInTurn == Turns => InTurn
  BY DEF Turns, InTurn

LEMMA HeldCallStep ==
  ASSUME Base, TurnInv, LatchHeld, NEW c \in Callers, CallStep(c)
  PROVE  LatchHeld'
  <1> USE EntryAssumption DEF Base, TypeOK, ReservationInv, CallShape, SingleStarter, TurnInv,
          StartersOnly, Turns, LatchHeld, Goto, Step, Holder, HolderPcs, InstPcs, Callers,
          EarlyPcs, LaunchPcs, StartPcs, TeardownPcs
  <1>1. CASE InstallContexts(c) \/ ClearLatch(c) \/ AddToWaitGroup(c)
    BY <1>1 DEF InstallContexts, ClearLatch, AddToWaitGroup
  <1>2. CASE Spawn(c)
    BY <1>2 DEF Spawn
  <1>3. CASE EnterStart(c) \/ RefuseStart(c) \/ PassStart(c) \/ PublishRunning(c)
             \/ StartReturned(c) \/ StartTimedOut(c)
    BY <1>3 DEF EnterStart, RefuseStart, PassStart, PublishRunning, StartReturned, StartTimedOut
  <1>4. CASE InnerRelease(c) \/ OuterRelease(c) \/ ValidateReplacement(c) \/ CancelContexts(c)
             \/ SnapshotDone(c) \/ BeginStop(c)
    BY <1>4 DEF InnerRelease, OuterRelease, ValidateReplacement, CancelContexts, SnapshotDone,
       BeginStop
  <1>5. CASE MarkStopping(c) \/ StopSequence(c) \/ AbandonSequence(c) \/ AwaitExit(c)
             \/ AwaitTimedOut(c) \/ FinishStop(c)
    BY <1>5 DEF MarkStopping, StopSequence, AbandonSequence, AwaitExit, AwaitTimedOut, FinishStop
  <1>6. CASE RemoveEntry(c) \/ DrainOwners(c) \/ ReleaseTeardown(c) \/ SwapService(c)
    BY <1>6 DEF RemoveEntry, DrainOwners, ReleaseTeardown, SwapService
  <1> QED
    BY <1>1, <1>2, <1>3, <1>4, <1>5, <1>6 DEF CallStep, StartStep, TeardownStep

\* A handler that neither gives its place in the wait group back nor hands it to
\* the next instance keeps it.
LEMMA HandlerKeepsPlace ==
  ASSUME Base, TurnInv, NEW i \in Ids, ExitInstance(i) \/ HandlerStep(i),
         ~ReleaseWaitGroup(i), ~Respawn(i)
  PROVE  /\ UNCHANGED <<wg, wgDone, pc, call, hpc, halt, stopping, stopped>>
         /\ \A j \in Ids : Holder(j)' <=> Holder(j)
         /\ status' # "Running" \/ status' = status \/ Holder(i)
  <1> USE DEF Base, TypeOK, Step, Holder, HolderPcs, InstPcs, InstRecords
  <1>1. CASE ExitInstance(i) \/ EnterHandler(i) \/ DecideRemoving(i) \/ DecideVerdict(i)
    BY <1>1 DEF ExitInstance, EnterHandler, DecideRemoving, DecideVerdict
  <1>2. CASE CommitVerdict(i) \/ ClassifyExit(i) \/ ReportCrash(i) \/ CountRetry(i)
    BY <1>2 DEF CommitVerdict, ClassifyExit, ReportCrash, CountRetry
  <1>3. CASE SuspendInstance(i) \/ ReportSuspended(i) \/ CaptureTeardown(i) \/ EndBackoff(i)
    BY <1>3 DEF SuspendInstance, ReportSuspended, CaptureTeardown, EndBackoff
  <1>4. CASE AbortRestart(i) \/ ReportAborted(i) \/ CancelIncarnation(i)
             \/ CleanUpIncarnation(i)
    BY <1>4 DEF AbortRestart, ReportAborted, CancelIncarnation, CleanUpIncarnation
  <1>5. CASE PublishRestart(i) \/ ReleaseContexts(i) \/ CloseDone(i)
    BY <1>5 DEF PublishRestart, ReleaseContexts, CloseDone
  <1>6. CASE InstallRestart(i)
    <2>1. created + 1 \in Ids /\ stage[created + 1] = "none"
      BY <1>6, EntryAssumption DEF InstallRestart, Ids, TurnInv, Turns
    <2> QED
      BY <1>6, <2>1 DEF InstallRestart
  <1> QED
    BY <1>1, <1>2, <1>3, <1>4, <1>5, <1>6 DEF HandlerStep

\* With a holder nobody is about to spawn one, and it alone is counted.
LEMMA HolderCounted ==
  ASSUME TypeOK, TurnInv, NEW i \in Ids, Holder(i)
  PROVE  /\ \A c \in Starters : pc[c] \notin EarlyPcs
         /\ Counted = {i}
  <1>1. \A c \in Starters : pc[c] \notin EarlyPcs
    BY DEF TurnInv, Turns
  <1>2. \A j \in Ids : Holder(j) <=> j = i
    BY DEF TurnInv, Turns
  <1>3. \A j \in Ids : Unreleased(j) <=> Holder(j)
    BY <1>1 DEF Unreleased, EarlyPcs, LaunchPcs, Holder, HolderPcs, TypeOK
  <1> QED
    BY <1>1, <1>2, <1>3 DEF Counted

LEMMA WaitHandler ==
  ASSUME Base, TurnInv, WaitInv, NEW i \in Ids, ExitInstance(i) \/ HandlerStep(i)
  PROVE  WaitInv'
  <1>1. CASE ReleaseWaitGroup(i)
    <2>1. /\ stage[i] = "latch" /\ wg' = IF wgDone THEN wg ELSE wg - 1
          /\ stage' = [stage EXCEPT ![i] = "release"] /\ UNCHANGED <<pc, call>>
      BY <1>1 DEF ReleaseWaitGroup, Step
    <2>2. Holder(i)
      BY <2>1 DEF Holder, HolderPcs, InstPcs
    <2>3. /\ \A c \in Starters : pc'[c] \notin EarlyPcs
          /\ Counted = {i} /\ ~wgDone
      BY <2>1, <2>2, HolderCounted DEF WaitInv, LatchHeld, Base
    <2>4. \A j \in Ids : ~Holder(j)'
      BY <2>1, <2>2 DEF TurnInv, Turns, Base, TypeOK, Holder, HolderPcs
    <2>5. \A j \in Ids : ~Unreleased(j)'
      BY <2>1, <2>3, <2>4
      DEF Unreleased, Holder, HolderPcs, InstPcs, EarlyPcs, LaunchPcs, Base, TypeOK
    <2>6. Counted' = {}
      BY <2>5 DEF Counted
    <2>7. wg = 1
      BY <2>3, FS_Singleton DEF WaitInv, WaitGroupBalanced, Counted
    <2>8. WaitGroupBalanced'
      BY <2>1, <2>3, <2>6, <2>7, FS_EmptySet DEF WaitGroupBalanced, Counted
    <2>9. LatchHeld'
      BY <2>3, <2>4 DEF LatchHeld, EarlyPcs, LaunchPcs
    <2> QED
      BY <2>8, <2>9 DEF WaitInv
  <1>2. CASE Respawn(i)
    <2> DEFINE n == inst[i].next
    <2>1. /\ stage[i] = "respawn" /\ n \in Ids /\ i # n /\ stage[n] = "new"
          /\ stage' = [stage EXCEPT ![i] = "release", ![n] = "run"]
          /\ UNCHANGED <<wg, wgDone, pc, call>>
      BY <1>2 DEF Respawn, Base, TypeOK, TurnInv, Turns, SuccPcs
    <2>2. Holder(i)
      BY <2>1 DEF Holder, HolderPcs, InstPcs
    <2>3. /\ \A c \in Starters : pc'[c] \notin EarlyPcs
          /\ Counted = {i} /\ ~wgDone
      BY <2>1, <2>2, HolderCounted DEF WaitInv, LatchHeld, Base
    <2>4. TurnInv'
      BY <1>2, TurnRespawn
    <2>6. stage'[n] = "run"
      BY <2>1 DEF Base, TypeOK
    <2>5. Counted' = {n}
      <3>1. TypeOK'
        BY <1>2, TypeNext DEF Base, Next
      <3> HIDE DEF n
      <3>2. \A j \in Ids : Holder(j)' <=> j = n
        BY <2>1, <2>4, <2>6 DEF TurnInv, Turns, Holder, HolderPcs, InstPcs
      <3>3. \A j \in Ids : Unreleased(j)' <=> Holder(j)'
        BY <2>3, <3>1 DEF Unreleased, EarlyPcs, LaunchPcs, Holder, HolderPcs, TypeOK
      <3> QED
        BY <2>1, <3>2, <3>3 DEF Counted
    <2>7. wg' = 1
      BY <2>1, <2>3, FS_Singleton DEF WaitInv, WaitGroupBalanced, Counted
    <2>8. WaitGroupBalanced'
      BY <2>5, <2>7, FS_Singleton DEF WaitGroupBalanced, Counted
    <2>9. LatchHeld'
      BY <2>1, <2>3 DEF LatchHeld, EarlyPcs, LaunchPcs
    <2> QED
      BY <2>8, <2>9 DEF WaitInv
  <1>3. CASE ~ReleaseWaitGroup(i) /\ ~Respawn(i)
    <2>1. /\ UNCHANGED <<wg, wgDone, pc, call>>
          /\ \A j \in Ids : Holder(j)' <=> Holder(j)
      BY <1>3, HandlerKeepsPlace
    <2>2. TypeOK'
      BY TypeNext DEF Base, Next
    <2>3. \A j \in Ids : Unreleased(j)' <=> Unreleased(j)
      BY <2>1, <2>2 DEF Unreleased, Holder, HolderPcs, Base, TypeOK
    <2> QED
      BY <2>1, <2>3, CountKept DEF WaitInv, LatchHeld
  <1> QED
    BY <1>1, <1>2, <1>3

LEMMA WaitNext ==
  ASSUME SingleStarter, NoReplace, TypeOK, ReservationInv, TurnInv, WaitInv, [Next]_vars
  PROVE  WaitInv'
  <1>1. Base
    BY DEF Base
  <1>2. ASSUME NEW c \in Callers, CallStep(c) PROVE WaitInv'
    BY <1>1, <1>2, HeldCallStep, CountCallStep, TurnsInTurn DEF Base, TurnInv, WaitInv
  <1>3. ASSUME NEW i \in Ids, ExitInstance(i) \/ HandlerStep(i) PROVE WaitInv'
    BY <1>1, <1>3, WaitHandler
  <1>4. CASE HaltGate \/ HaltStep \/ UNCHANGED vars
    <2>1. UNCHANGED <<stage, wg, wgDone, pc, call>>
      BY <1>4, HaltKeeps DEF vars
    <2> QED
      BY <2>1, CountKept DEF WaitInv, LatchHeld, Unreleased, Holder
  <1>5. CASE Claim
    <2>1. UNCHANGED <<stage, wg, wgDone>>
      BY <1>5 DEF Claim, ClaimStart, ClaimReplace, ClaimTeardown
    <2>2. \A d \in Starters : pc[d] \in {"add", "spawn"} \/ pc'[d] \in {"add", "spawn"} =>
            pc'[d] = pc[d] /\ call'[d] = call[d]
      BY <1>5 DEF Claim, ClaimStart, ClaimReplace, ClaimTeardown, Goto, TypeOK, Callers
    <2>3. \A j \in Ids : Unreleased(j)' <=> Unreleased(j)
      BY <2>1, <2>2 DEF Unreleased
    <2> QED
      BY <2>1, <2>2, <2>3, CountKept DEF WaitInv, LatchHeld, Holder
  <1> QED
    BY <1>2, <1>3, <1>4, <1>5 DEF Next

LEMMA WaitInit == Init => WaitInv
  BY OtherInits DEF LatchInv, WaitInv, LatchOpen, LatchHeld, Init, Holder, HolderPcs

\* A call that is no start before its spawn touches no instance, starts none and
\* never claims that one runs.
LEMMA LateCall ==
  ASSUME Base, TurnInv, NEW c \in Callers, CallStep(c),
         \A d \in Starters : pc[d] \notin EarlyPcs
  PROVE  /\ UNCHANGED <<stage, hpc, halt, stopping, stopped>>
         /\ \A d \in Starters : pc'[d] \notin EarlyPcs
         /\ status' # "Running" \/ status' = status
  <1> USE EntryAssumption DEF Base, TypeOK, ReservationInv, CallShape, TurnInv, StartersOnly, Goto,
          Callers, EarlyPcs, LaunchPcs, StartPcs, TeardownPcs
  <1>1. pc[c] \notin EarlyPcs
    <2>1. CASE c \in Starters
      BY <2>1
    <2>2. CASE c \in Stoppers
      BY <2>2
    <2> QED
      BY <2>1, <2>2
  <1>2. /\ ~EnterStart(c) /\ ~RefuseStart(c) /\ ~PassStart(c) /\ ~InstallContexts(c)
        /\ ~PublishRunning(c) /\ ~ClearLatch(c) /\ ~AddToWaitGroup(c) /\ ~Spawn(c)
        /\ ~SwapService(c) /\ ~ValidateReplacement(c)
    BY <1>1 DEF EnterStart, RefuseStart, PassStart, InstallContexts, PublishRunning, ClearLatch,
       AddToWaitGroup, Spawn, SwapService, ValidateReplacement
  <1>3. CASE StartReturned(c) \/ StartTimedOut(c) \/ InnerRelease(c) \/ OuterRelease(c)
    BY <1>3 DEF StartReturned, StartTimedOut, InnerRelease, OuterRelease
  <1>4. CASE CancelContexts(c) \/ SnapshotDone(c) \/ BeginStop(c) \/ MarkStopping(c)
    BY <1>4 DEF CancelContexts, SnapshotDone, BeginStop, MarkStopping
  <1>5. CASE StopSequence(c) \/ AbandonSequence(c) \/ AwaitExit(c) \/ AwaitTimedOut(c)
    BY <1>5 DEF StopSequence, AbandonSequence, AwaitExit, AwaitTimedOut
  <1>6. CASE FinishStop(c) \/ RemoveEntry(c) \/ DrainOwners(c) \/ ReleaseTeardown(c)
    BY <1>6 DEF FinishStop, RemoveEntry, DrainOwners, ReleaseTeardown
  <1> QED
    BY <1>2, <1>3, <1>4, <1>5, <1>6 DEF CallStep, StartStep, TeardownStep

\* Without a start before its spawn the wait group counts the holders.
HoldersOnly == \A j \in Ids : Unreleased(j) <=> Holder(j)

LEMMA NoSpawn ==
  (\A c \in Starters : pc[c] \notin EarlyPcs) /\ TypeOK => HoldersOnly
  BY DEF HoldersOnly, Unreleased, EarlyPcs, LaunchPcs, Holder, HolderPcs, TypeOK

LEMMA ShutCallStep ==
  ASSUME Base, TurnInv, TypeOK', ShutInv, NEW c \in Callers, CallStep(c)
  PROVE  ShutInv'
  <1>1. CASE hpc = "idle"
    <2>1. UNCHANGED <<hpc, halt>>
      BY DEF CallStep, StartStep, TeardownStep, EnterStart, RefuseStart, PassStart,
         InstallContexts, PublishRunning, ClearLatch, AddToWaitGroup, Spawn, StartReturned,
         StartTimedOut, InnerRelease, OuterRelease, ValidateReplacement, CancelContexts,
         SnapshotDone, BeginStop, MarkStopping, StopSequence, AbandonSequence, AwaitExit,
         AwaitTimedOut, FinishStop, RemoveEntry, DrainOwners, ReleaseTeardown, SwapService
    <2> QED
      BY <1>1, <2>1 DEF ShutInv
  <1>2. CASE hpc # "idle"
    <2>1. /\ UNCHANGED <<stage, hpc, halt, stopping, stopped>>
          /\ \A d \in Starters : pc'[d] \notin EarlyPcs /\ pc[d] \notin EarlyPcs
          /\ status' # "Running" \/ status' = status
      BY <1>2, LateCall DEF ShutInv
    <2>2. HoldersOnly /\ HoldersOnly'
      BY <2>1, NoSpawn DEF Base, HoldersOnly, Unreleased, EarlyPcs, LaunchPcs, Holder, HolderPcs,
         TypeOK
    <2> QED
      BY <2>1, <2>2 DEF ShutInv, HoldersOnly, Holder
  <1> QED
    BY <1>1, <1>2

LEMMA ShutHandler ==
  ASSUME Base, TurnInv, TypeOK', ShutInv, NEW i \in Ids, ExitInstance(i) \/ HandlerStep(i)
  PROVE  ShutInv'
  <1>1. /\ UNCHANGED <<pc, call, hpc, halt, stopping, stopped>>
        /\ status' # "Running" \/ status' = status \/ Holder(i)
    <2>1. CASE ReleaseWaitGroup(i) \/ Respawn(i)
      BY <2>1 DEF ReleaseWaitGroup, Respawn
    <2>2. CASE ~ReleaseWaitGroup(i) /\ ~Respawn(i)
      BY <2>2, HandlerKeepsPlace
    <2> QED
      BY <2>1, <2>2
  <1>2. ASSUME halt.verified, \A j \in Ids : ~Unreleased(j)
        PROVE  ~Holder(i) /\ \A j \in Ids : ~Unreleased(j)'
    <2>1. HoldersOnly
      BY <1>2 DEF HoldersOnly, Unreleased, Holder, HolderPcs
    <2>2. ~ReleaseWaitGroup(i) /\ ~Respawn(i)
      BY <1>2 DEF ReleaseWaitGroup, Respawn, Unreleased
    <2>3. \A j \in Ids : Holder(j)' <=> Holder(j)
      BY <2>2, HandlerKeepsPlace
    <2> QED
      BY <1>1, <1>2, <2>1, <2>3
      DEF HoldersOnly, Unreleased, Holder, HolderPcs, TypeOK
  <1> QED
    BY <1>1, <1>2 DEF ShutInv

LEMMA ShutHalt ==
  ASSUME Base, WaitInv, ShutInv, HaltGate \/ HaltStep, NoStartAtGate
  PROVE  ShutInv'
  <1> USE DEF Base, TypeOK, HaltRecords, HaltTo, ShutInv
  <1>1. /\ UNCHANGED <<stage, pc, call>>
        /\ \A j \in Ids : Unreleased(j)' <=> Unreleased(j)
    BY HaltKeeps DEF Unreleased
  <1>2. CASE HaltGate
    BY <1>1, <1>2 DEF HaltGate, NoStartAtGate
  <1>3. CASE HaltCancel \/ HaltBegin
    BY <1>1, <1>3 DEF HaltCancel, HaltBegin
  <1>4. CASE HaltMark \/ HaltSequence \/ HaltTimedOut
    BY <1>1, <1>4 DEF HaltMark, HaltSequence, HaltTimedOut
  <1>5. CASE HaltWait
    <2>1. Cardinality(Counted) = 0
      BY <1>5 DEF HaltWait, WaitInv, WaitGroupBalanced, Counted
    <2>2. Counted = {}
      BY <2>1, CountedFinite, FS_EmptySet
    <2> QED
      BY <1>1, <1>5, <2>2 DEF HaltWait, Counted
  <1>6. CASE HaltFinish \/ HaltSeal
    BY <1>1, <1>6 DEF HaltFinish, HaltSeal
  <1> QED
    BY <1>2, <1>3, <1>4, <1>5, <1>6 DEF HaltStep

LEMMA ShutNext ==
  ASSUME SingleStarter, NoReplace, TypeOK, ReservationInv, TurnInv, WaitInv, ShutInv,
         [Next]_vars, [NoStartAtGate]_vars
  PROVE  ShutInv'
  <1>1. Base /\ TypeOK'
    BY TypeNext DEF Base
  <1>2. ASSUME NEW c \in Callers, CallStep(c) PROVE ShutInv'
    BY <1>1, <1>2, ShutCallStep
  <1>3. ASSUME NEW i \in Ids, ExitInstance(i) \/ HandlerStep(i) PROVE ShutInv'
    BY <1>1, <1>3, ShutHandler
  <1>4. CASE UNCHANGED vars
    BY <1>4 DEF vars, ShutInv, Unreleased
  <1>5. CASE ~UNCHANGED vars /\ (HaltGate \/ HaltStep)
    BY <1>1, <1>5, ShutHalt
  <1>6. CASE Claim
    <2>1. UNCHANGED <<stage, hpc, halt, stopping, stopped, status>>
      BY <1>6 DEF Claim, ClaimStart, ClaimReplace, ClaimTeardown
    <2>2. \A d \in Starters : pc[d] = "spawn" \/ pc'[d] = "spawn" =>
            pc'[d] = pc[d] /\ call'[d] = call[d]
      BY <1>6 DEF Claim, ClaimStart, ClaimReplace, ClaimTeardown, Goto, TypeOK, Callers
    <2>3. \A j \in Ids : Unreleased(j)' <=> Unreleased(j)
      BY <2>1, <2>2 DEF Unreleased
    <2>4. hpc # "idle" => \A d \in Starters : pc'[d] \notin EarlyPcs
      BY <1>6, EntryAssumption DEF Claim, ClaimStart, ClaimReplace, ClaimTeardown, Goto, TypeOK,
         Callers, GateOpen, ShutInv, EarlyPcs, LaunchPcs, NoReplace
    <2> QED
      BY <2>1, <2>3, <2>4 DEF ShutInv
  <1> QED
    BY <1>2, <1>3, <1>4, <1>5, <1>6 DEF Next

LEMMA ShutInit == Init => ShutInv
  BY DEF Init, ShutInv, NoHalt

-----------------------------------------------------------------------------
(* The theorems, for the entry alone and with the health checks beside it. *)

RestartInv == /\ TurnInv
              /\ SelfHeal => Eras
              /\ SelfHeal /\ Limited => Budget

LEMMA RestartInit == Init => TypeOK /\ ReservationInv /\ RestartInv
  BY TypeInit, ReservationInit, TurnInit, ErasInit, BudgetInit DEF RestartInv

LEMMA RestartNext ==
  ASSUME SingleStarter, NoReplace, TypeOK, ReservationInv, RestartInv, [Next]_vars
  PROVE  TypeOK' /\ ReservationInv' /\ RestartInv'
  <1>1. Base
    BY DEF Base
  <1> QED
    BY <1>1, TypeNext, ReservationNext, TurnNext, ErasNext, BudgetNext DEF RestartInv

\* The health checks touch nothing of the entry but the contexts cancelled.
LEMMA LoopKeeps ==
  ASSUME TypeOK, ReservationInv, RestartInv, LoopStep
  PROVE  TypeOK' /\ ReservationInv' /\ RestartInv'
  <1> DEFINE Same == UNCHANGED <<starting, removing, removed, status, done, cancel, teardown,
                       owners, retryCount, wgDone, stopsCounted, wg, starts, stops, octx,
                       stopping, stopped, deadTeardowns, created, stage, inst, pc, call, hpc,
                       halt>>
  <1>1. Same
    BY DEF LoopStep, Candidate, PickService, ProbeReturns, Judge, CancelSick, vars
  <1>2. deadInstances' \subseteq Ids
    BY DEF TypeOK, LoopStep, Candidate, PickService, ProbeReturns, Judge, CancelSick, vars,
       CancelFn
  <1>3. TypeOK'
    BY <1>1, <1>2 DEF TypeOK
  <1>4. ReservationInv'
    BY <1>1, ReservationQuiet
  <1>5. TurnInv'
    BY <1>1, TurnKept DEF turnVars, SameNext, RestartInv
  <1>6. SelfHeal => Eras'
    BY <1>1, ErasQuiet DEF RestartInv
  <1>7. SelfHeal /\ Limited => Budget'
    BY <1>1, SameRestarted, BudgetQuiet DEF RestartInv
  <1> QED
    BY <1>3, <1>4, <1>5, <1>6, <1>7 DEF RestartInv

LEMMA RestartAlways ==
  ASSUME SingleStarter, NoReplace
  PROVE  /\ Spec => [](TypeOK /\ RestartInv)
         /\ HealthSpec => [](TypeOK /\ RestartInv)
  <1> DEFINE I == TypeOK /\ ReservationInv /\ RestartInv
  <1>1. Init => I
    BY RestartInit
  <1>2. I /\ [Next]_vars => I'
    BY SingleStarter, NoReplace, RestartNext
  <1>3. I /\ [HealthNext]_allVars => I'
    BY SingleStarter, NoReplace, RestartNext, LoopKeeps
    DEF HealthNext, EntryStep, Beside, allVars
  <1>4. I => TypeOK /\ RestartInv
    OBVIOUS
  <1>5. HealthInit => Init
    BY DEF HealthInit
  <1> HIDE DEF I
  <1> QED
    BY <1>1, <1>2, <1>3, <1>4, <1>5, PTL DEF Spec, HealthSpec

LEMMA OneRuns == RestartInv => AtMostOneInstance
  BY DEF RestartInv, TurnInv, Turns, Holder, HolderPcs, InstPcs, AtMostOneInstance

LEMMA RetriesPaid == SelfHeal /\ TypeOK /\ RestartInv => RetriesBounded
  <1>1. CASE Limited
    BY <1>1, BudgetBounds DEF RestartInv
  <1>2. CASE ~Limited
    BY <1>2 DEF Limited, RetriesBounded
  <1> QED
    BY <1>1, <1>2

LEMMA WaitAlways ==
  ASSUME SingleStarter, NoReplace
  PROVE  Spec => [](TypeOK /\ ReservationInv /\ TurnInv /\ WaitInv)
  <1> DEFINE I == TypeOK /\ ReservationInv /\ TurnInv /\ WaitInv
  <1>1. Init => I
    BY TypeInit, ReservationInit, TurnInit, WaitInit
  <1>2. I /\ [Next]_vars => I'
    BY SingleStarter, NoReplace, TypeNext, ReservationNext, TurnNext, WaitNext
  <1> HIDE DEF I
  <1>3. I => TypeOK /\ ReservationInv /\ TurnInv /\ WaitInv
    BY DEF I
  <1> QED
    BY <1>1, <1>2, <1>3, PTL DEF Spec

\* However starts, stops, removals, exits, self-heal restarts and an
\* Orchestrator.Stop interleave, never two instances of an entry are in the
\* user's Start at a time, of src/membership.go:170-181 and src/lifecycle.go:
\* without self-heal whatever the calls, with it as long as nobody replaces it.
THEOREM InstancesExclusive ==
  ASSUME SingleStarter, SelfHeal => NoReplace PROVE Spec => []AtMostOneInstance
  <1>1. CASE ~SelfHeal
    <2>1. StopInv => AtMostOneInstance
      BY DEF StopInv, LiveInv, Instances, Live, AtMostOneInstance
    <2> QED
      BY <1>1, <2>1, StopInvCorrect, PTL
  <1>2. CASE SelfHeal
    <2>1. Spec => [](TypeOK /\ RestartInv)
      BY <1>2, RestartAlways
    <2> QED
      BY <2>1, OneRuns, PTL
  <1> QED
    BY <1>1, <1>2

\* The same with the health checks beside it: cancelling a sick instance never
\* brings up a second one while the first still runs.
THEOREM ProbedExclusive ==
  ASSUME SingleStarter, NoReplace PROVE HealthSpec => []AtMostOneInstance
  <1>1. HealthSpec => [](TypeOK /\ RestartInv)
    BY RestartAlways
  <1> QED
    BY <1>1, OneRuns, PTL

\* No era of a self-heal entry has more than MaxRetries restarts: neither a
\* teardown that races the handler nor the counter that Unregister resets under
\* it lets one more through.
THEOREM RetriesCorrect ==
  ASSUME SingleStarter, NoReplace, SelfHeal PROVE Spec => []RetriesBounded
  <1>1. Spec => [](TypeOK /\ RestartInv)
    BY RestartAlways
  <1>2. TypeOK /\ RestartInv => RetriesBounded
    BY RetriesPaid
  <1> QED
    BY <1>1, <1>2, PTL

\* Nor do the restarts that failed health checks force.
THEOREM ProbedRetriesCorrect ==
  ASSUME SingleStarter, NoReplace, SelfHeal PROVE HealthSpec => []RetriesBounded
  <1>1. HealthSpec => [](TypeOK /\ RestartInv)
    BY RestartAlways
  <1>2. TypeOK /\ RestartInv => RetriesBounded
    BY RetriesPaid
  <1> QED
    BY <1>1, <1>2, PTL

\* The wait group that Orchestrator.Stop waits for counts exactly the instances
\* that have not released it, across starts, self-heal restarts, stops and
\* removals of the entry: no restart adds itself twice or slips out of the count.
THEOREM WaitGroupHealed ==
  ASSUME SingleStarter, SelfHeal => NoReplace PROVE Spec => []WaitGroupBalanced
  <1>1. CASE ~SelfHeal
    BY <1>1, WaitGroupCorrect
  <1>2. CASE SelfHeal
    <2>1. Spec => [](TypeOK /\ ReservationInv /\ TurnInv /\ WaitInv)
      BY <1>2, WaitAlways
    <2>2. WaitInv => WaitGroupBalanced
      BY DEF WaitInv
    <2> QED
      BY <2>1, <2>2, PTL
  <1> QED
    BY <1>1, <1>2

\* When no StartService is between its claim and its spawn as Orchestrator.Stop
\* passes its gate, a verified shutdown leaves no instance running or about to be
\* restarted, whatever stops, removals, crashes and backoffs it meets, and Status
\* claims none.
THEOREM ShutdownCorrect ==
  ASSUME SingleStarter, NoReplace PROVE Spec /\ QuietShutdown => []ShutdownMeansExited
  <1>1. Spec => [](TypeOK /\ ReservationInv /\ TurnInv /\ WaitInv)
    BY WaitAlways
  <1>2. Init => ShutInv
    BY ShutInit
  <1>3. (TypeOK /\ ReservationInv /\ TurnInv /\ WaitInv) /\ ShutInv
          /\ [Next]_vars /\ [NoStartAtGate]_vars => ShutInv'
    BY SingleStarter, NoReplace, ShutNext
  <1>4. ShutInv => ShutdownMeansExited
    BY DEF ShutInv, ShutdownMeansExited
  <1> QED
    BY <1>1, <1>2, <1>3, <1>4, PTL DEF Spec, QuietShutdown

\* In particular when nobody calls StartService at all: self-heal alone starts
\* nothing behind a verified shutdown.
THEOREM ShutdownAlone ==
  ASSUME Starters = {}, NoReplace PROVE Spec => []ShutdownMeansExited
  <1>1. SingleStarter
    BY DEF SingleStarter
  <1>2. [Next]_vars => [NoStartAtGate]_vars
    BY DEF NoStartAtGate
  <1>3. Spec => QuietShutdown
    BY <1>2, PTL DEF Spec, QuietShutdown
  <1> QED
    BY <1>1, <1>3, ShutdownCorrect, PTL

=============================================================================
