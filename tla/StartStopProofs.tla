---------------------------- MODULE StartStopProofs ----------------------------
(***************************************************************************)
(* Theorems about StartAndStop, for any entries and dependencies, any      *)
(* number of goroutines in either call and any failures: Start and Stop    *)
(* never panic and at most one call of Start returns nil; they implement   *)
(* OrchestratorPhases; the types; the order of starts and stops.           *)
(***************************************************************************)
EXTENDS StartAndStop, RoundLemmas, FiniteSetTheorems, TLAPS

AllPcs == {"idle"} \cup StartPcs \cup StopPcs

\* Where the log channel of the attempt is still open.
Unclosed == {"cron", "gates", "gate", "levels", "boot", "rollback", "unload",
             "mark", "halthealth", "healthwait", "cancel", "stops"}

\* What the argument needs of the state: who is in a call, and which channel
\* and context the fields of the orchestrator name.
Types ==
    /\ started \in BOOLEAN /\ claimed \in BOOLEAN
    /\ stopOnce \in {"fresh", "running", "done"}
    /\ attempt \in Nat /\ quitClosed \subseteq 1 .. attempt
    /\ octx \in Nat /\ logQuit \in Nat
    /\ pc \in [Callers -> AllPcs]
    /\ \A c \in Starters : pc[c] \in {"idle"} \cup StartPcs
    /\ \A c \in Stoppers : pc[c] \in {"idle"} \cup StopPcs
    /\ nils \in Nat /\ ~panicked

\* One call at a time, of Start or of Stop.
OneCall == \A c, d \in Callers : pc[c] # "idle" /\ pc[d] # "idle" => c = d

\* A Start in progress holds the claim, and publishes the attempt at its gate.
InStart(c) ==
    /\ claimed /\ (started <=> pc[c] # "once") /\ nils = 0 /\ stopOnce # "running"
    /\ pc[c] \in Unclosed => attempt \notin quitClosed

\* A Stop in progress holds its once gate, in a started orchestrator.
InStop(c) ==
    /\ started /\ stopOnce = "running"
    /\ pc[c] \in Unclosed => attempt \notin quitClosed

\* With neither in progress, a started orchestrator is up or was stopped.
Quiet ==
    (\A c \in Callers : pc[c] = "idle") =>
        /\ stopOnce # "running"
        /\ started /\ stopOnce = "fresh" => attempt \notin quitClosed

\* A started orchestrator has the fields of its latest attempt.
Fields == started => claimed /\ attempt > 0 /\ octx = attempt /\ logQuit = attempt

Nils == nils \in {0, 1} /\ (nils = 1 => started)

IInv ==
    /\ Types /\ OneCall /\ Quiet /\ Fields /\ Nils
    /\ \A c \in Starters : pc[c] # "idle" => InStart(c)
    /\ \A c \in Stoppers : pc[c] # "idle" => InStop(c)

coreVars == <<started, claimed, stopOnce, octx, logQuit, attempt, quitClosed, pc, nils,
              panicked>>

LEMMA InitInv == Init => IInv
  <1> SUFFICES ASSUME Init PROVE IInv
    OBVIOUS
  <1>1. pc \in [Callers -> AllPcs] /\ \A c \in Callers : pc[c] = "idle"
    BY DEF Init, AllPcs
  <1>2. Types
    BY <1>1 DEF Init, Types, Callers
  <1> QED
    BY <1>1, <1>2 DEF Init, IInv, OneCall, Quiet, Fields, Nils, Callers

LEMMA CoreInv == IInv /\ UNCHANGED coreVars => IInv'
  BY DEF IInv, coreVars, Types, OneCall, Quiet, Fields, Nils, InStart, InStop

\* A step of the call in progress: nobody else is in one.
LEMMA Alone ==
  ASSUME IInv, NEW c \in Callers, NEW p \in AllPcs,
         pc[c] # "idle" \/ \A d \in Callers : pc[d] = "idle",
         pc' = [pc EXCEPT ![c] = p]
  PROVE  /\ pc' \in [Callers -> AllPcs] /\ pc'[c] = p
         /\ \A d \in Callers : d # c => pc'[d] = "idle"
         /\ OneCall'
         /\ p # "idle" => ~\A d \in Callers : pc'[d] = "idle"
  BY DEF IInv, Types, OneCall

\* How a step of Start keeps the invariant: what is left to show of each.
LEMMA StartMove ==
  ASSUME StartAssumption, IInv, NEW c \in Starters, NEW p \in StartPcs,
         pc[c] # "idle" \/ \A d \in Callers : pc[d] = "idle",
         pc' = [pc EXCEPT ![c] = p],
         started' \in BOOLEAN, claimed' = TRUE, stopOnce' \in {"fresh", "done"},
         attempt' \in Nat, quitClosed' \subseteq 1 .. attempt',
         octx' \in Nat, logQuit' \in Nat, ~panicked', nils' = 0,
         Fields', started' <=> p # "once",
         p \in Unclosed => attempt' \notin quitClosed'
  PROVE  IInv'
  <1>1. c \in Callers /\ p \in AllPcs /\ p # "idle" /\ c \notin Stoppers
    BY DEF StartAssumption, Callers, AllPcs, StartPcs
  <1>2. /\ pc' \in [Callers -> AllPcs] /\ pc'[c] = p
        /\ \A d \in Callers : d # c => pc'[d] = "idle"
        /\ OneCall' /\ ~\A d \in Callers : pc'[d] = "idle"
    BY <1>1, Alone
  <1>3. Types'
    BY <1>1, <1>2 DEF Types, Callers
  <1>4. \A d \in Starters : pc'[d] # "idle" => InStart(d)'
    BY <1>2 DEF InStart, Callers
  <1>5. \A d \in Stoppers : pc'[d] # "idle" => InStop(d)'
    BY <1>1, <1>2 DEF Callers
  <1>6. Quiet' /\ Nils'
    BY <1>2 DEF Quiet, Nils
  <1> QED
    BY <1>2, <1>3, <1>4, <1>5, <1>6 DEF IInv

\* The same of a step of Stop.
LEMMA StopMove ==
  ASSUME StartAssumption, IInv, NEW c \in Stoppers, NEW p \in StopPcs,
         pc[c] # "idle" \/ \A d \in Callers : pc[d] = "idle",
         pc' = [pc EXCEPT ![c] = p],
         started' = TRUE, claimed' \in BOOLEAN, stopOnce' = "running",
         attempt' = attempt, quitClosed' \subseteq 1 .. attempt,
         octx' \in Nat, logQuit' \in Nat, ~panicked', nils' = nils,
         Fields', p \in Unclosed => attempt' \notin quitClosed'
  PROVE  IInv'
  <1>1. c \in Callers /\ p \in AllPcs /\ p # "idle" /\ c \notin Starters
    BY DEF StartAssumption, Callers, AllPcs, StopPcs
  <1>2. /\ pc' \in [Callers -> AllPcs] /\ pc'[c] = p
        /\ \A d \in Callers : d # c => pc'[d] = "idle"
        /\ OneCall' /\ ~\A d \in Callers : pc'[d] = "idle"
    BY <1>1, Alone
  <1>3. Types'
    BY <1>1, <1>2 DEF Types, Callers, IInv
  <1>4. \A d \in Starters : pc'[d] # "idle" => InStart(d)'
    BY <1>1, <1>2 DEF Callers
  <1>5. \A d \in Stoppers : pc'[d] # "idle" => InStop(d)'
    BY <1>2 DEF InStop, Callers
  <1>6. Quiet' /\ Nils'
    BY <1>2 DEF Quiet, Nils, IInv
  <1> QED
    BY <1>2, <1>3, <1>4, <1>5, <1>6 DEF IInv

-----------------------------------------------------------------------------
(* Start. *)

\* What a Start in progress knows.
LEMMA InStartFacts ==
  ASSUME StartAssumption, IInv, NEW c \in Starters, pc[c] # "idle"
  PROVE  /\ c \in Callers /\ claimed = TRUE /\ (started <=> pc[c] # "once") /\ nils = 0
         /\ pc[c] \in Unclosed => attempt \notin quitClosed
         /\ pc[c] # "once" => attempt > 0 /\ octx = attempt /\ logQuit = attempt
         /\ started \in BOOLEAN /\ stopOnce \in {"fresh", "done"}
         /\ attempt \in Nat /\ quitClosed \subseteq 1 .. attempt
         /\ octx \in Nat /\ logQuit \in Nat /\ ~panicked
  BY DEF IInv, Types, InStart, Fields, Callers

\* A step of Start that touches nothing of the core but its program counter.
LEMMA StartGoto ==
  ASSUME StartAssumption, IInv, NEW c \in Starters, NEW p \in StartPcs \ {"once"},
         pc[c] \notin {"idle", "once"}, pc' = [pc EXCEPT ![c] = p],
         UNCHANGED <<started, claimed, stopOnce, octx, logQuit, attempt, quitClosed, nils,
                     panicked>>,
         p \in Unclosed => pc[c] \in Unclosed
  PROVE  IInv'
  <1>1. Fields'
    BY DEF IInv, Fields
  <1> QED
    BY <1>1, InStartFacts, StartMove DEF Fields

LEMMA ClaimInv ==
  ASSUME StartAssumption, IInv, NEW c \in Starters, Claim(c) PROVE IInv'
  <1>1. \A d \in Callers : pc[d] = "idle"
    BY DEF Claim, IInv, InStart, InStop, Callers
  <1>2. /\ pc' = [pc EXCEPT ![c] = "once"] /\ "once" \in StartPcs
        /\ started' = FALSE /\ claimed' = TRUE /\ stopOnce' = stopOnce
        /\ attempt' = attempt /\ quitClosed' = quitClosed /\ octx' = octx
        /\ logQuit' = logQuit /\ ~panicked' /\ nils' = 0
    BY DEF Claim, IInv, Types, Nils, StartPcs, onceVars, fieldVars, chanVars, ghostVars
  <1>3. Fields' /\ "once" \notin Unclosed
    BY <1>2 DEF Fields, Unclosed
  <1>4. /\ stopOnce \in {"fresh", "done"} /\ attempt \in Nat /\ quitClosed \subseteq 1 .. attempt
        /\ octx \in Nat /\ logQuit \in Nat
    BY <1>1 DEF IInv, Types, Quiet
  <1> QED
    BY <1>1, <1>2, <1>3, <1>4, StartMove

LEMMA EnterOnceInv ==
  ASSUME StartAssumption, IInv, NEW c \in Starters, EnterOnce(c) PROVE IInv'
  <1>1. pc[c] # "idle"
    BY DEF EnterOnce
  <1>2. /\ pc' = [pc EXCEPT ![c] = "cron"] /\ "cron" \in StartPcs
        /\ started' = TRUE /\ claimed' = TRUE /\ stopOnce' = "fresh"
        /\ attempt' = attempt + 1 /\ quitClosed' = quitClosed /\ octx' = attempt + 1
        /\ logQuit' = attempt + 1 /\ ~panicked' /\ nils' = 0
    BY <1>1, InStartFacts DEF EnterOnce, StartPcs, ghostVars
  <1>3. attempt \in Nat /\ quitClosed \subseteq 1 .. attempt
    BY <1>1, InStartFacts
  <1>4. attempt + 1 \in Nat /\ attempt + 1 > 0
    BY <1>3
  <1>5. quitClosed \subseteq 1 .. attempt + 1
    BY <1>3
  <1>6. attempt + 1 \notin quitClosed
    BY <1>3
  <1> QED
    BY <1>1, <1>2, <1>4, <1>5, <1>6, StartMove DEF Fields

\* The steps of Start that close the channel.
LEMMA CronFailsInv ==
  ASSUME StartAssumption, IInv, NEW c \in Starters, CronFails(c) PROVE IInv'
  <1>1. pc[c] = "cron" /\ "cron" \in Unclosed /\ "cronpump" \notin Unclosed
    BY DEF CronFails, Unclosed
  <1>2. /\ pc' = [pc EXCEPT ![c] = "cronpump"] /\ "cronpump" \in StartPcs
        /\ UNCHANGED <<started, claimed, stopOnce, octx, logQuit, attempt, nils>>
    BY DEF CronFails, StartPcs, flagVars, onceVars, fieldVars
  <1>3. /\ attempt \notin quitClosed /\ attempt \in Nat /\ attempt > 0 /\ logQuit = attempt
        /\ quitClosed \subseteq 1 .. attempt
    BY <1>1, InStartFacts
  <1>4. quitClosed' = quitClosed \cup {attempt}
    BY DEF CronFails
  <1>5. ~panicked'
    BY <1>3 DEF CronFails
  <1>6. quitClosed' \subseteq 1 .. attempt'
    BY <1>2, <1>3, <1>4
  <1>7. Fields'
    BY <1>2 DEF Fields, IInv
  <1> QED
    BY <1>1, <1>2, <1>5, <1>6, <1>7, InStartFacts, StartMove

LEMMA UnloadInv ==
  ASSUME StartAssumption, IInv, NEW c \in Starters, Unload(c) PROVE IInv'
  <1>1. pc[c] = "unload" /\ "unload" \in Unclosed /\ "await" \notin Unclosed
    BY DEF Unload, Unclosed
  <1>2. /\ pc' = [pc EXCEPT ![c] = "await"] /\ "await" \in StartPcs
        /\ UNCHANGED <<started, claimed, stopOnce, octx, logQuit, attempt, nils>>
    BY DEF Unload, CloseQuit, LeaveOnce, StartPcs, flagVars, fieldVars
  <1>3. /\ attempt \notin quitClosed /\ attempt \in Nat /\ attempt > 0 /\ logQuit = attempt
        /\ quitClosed \subseteq 1 .. attempt
    BY <1>1, InStartFacts
  <1>4. quitClosed' = quitClosed \cup ({logQuit} \ {0})
    BY DEF Unload, CloseQuit
  <1>5. ~panicked'
    BY <1>3 DEF Unload, CloseQuit
  <1>6. quitClosed' \subseteq 1 .. attempt'
    BY <1>2, <1>3, <1>4
  <1>7. Fields'
    BY <1>2 DEF Fields, IInv
  <1> QED
    BY <1>1, <1>2, <1>5, <1>6, <1>7, InStartFacts, StartMove

\* The end of a Start that succeeds.
LEMMA StartHealthInv ==
  ASSUME StartAssumption, IInv, NEW c \in Starters, StartHealth(c) PROVE IInv'
  <1>1. pc[c] = "levels" /\ "levels" \in Unclosed /\ c \in Callers /\ "idle" \in AllPcs
    BY DEF StartHealth, Unclosed, Callers, AllPcs
  <1>2. /\ pc' = [pc EXCEPT ![c] = "idle"] /\ nils' = nils + 1
        /\ UNCHANGED <<started, claimed, stopOnce, octx, logQuit, attempt, quitClosed, panicked>>
    BY DEF StartHealth, LeaveOnce, flagVars, chanVars
  <1>3. pc' \in [Callers -> AllPcs] /\ \A d \in Callers : pc'[d] = "idle"
    BY <1>1, <1>2, Alone
  <1>4. nils' = 1
    <2>1. nils = 0
      BY <1>1, InStartFacts
    <2> QED
      BY <2>1, <1>2
  <1>5. started
    BY <1>1, InStartFacts
  <1>6. stopOnce # "running" /\ attempt \notin quitClosed
    BY <1>1, InStartFacts
  <1>7. Types'
    BY <1>2, <1>3, <1>4 DEF Types, Callers, IInv
  <1>8. Fields' /\ Nils' /\ Quiet'
    BY <1>2, <1>4, <1>5, <1>6 DEF Fields, Nils, Quiet, IInv
  <1> QED
    BY <1>3, <1>7, <1>8 DEF IInv, OneCall, Callers

\* The end of a Start that failed.
LEMMA ResetInv ==
  ASSUME StartAssumption, IInv, NEW c \in Starters, Reset(c) PROVE IInv'
  <1>1. pc[c] = "reset" /\ c \in Callers /\ "idle" \in AllPcs
    BY DEF Reset, Callers, AllPcs
  <1>2. /\ pc' = [pc EXCEPT ![c] = "idle"] /\ stopOnce' = "fresh" /\ octx' = 0 /\ logQuit' = 0
        /\ UNCHANGED <<attempt, quitClosed, panicked, nils>>
    BY DEF Reset, chanVars, ghostVars
  <1>3. started' = FALSE /\ claimed' = FALSE
    BY DEF Reset
  <1>4. pc' \in [Callers -> AllPcs] /\ \A d \in Callers : pc'[d] = "idle"
    BY <1>1, <1>2, Alone
  <1>5. nils' = 0
    BY <1>1, <1>2, InStartFacts
  <1>6. Types'
    BY <1>2, <1>3, <1>4, <1>5 DEF Types, Callers, IInv
  <1>7. Fields' /\ Nils' /\ Quiet'
    BY <1>2, <1>3, <1>5 DEF Fields, Nils, Quiet, IInv
  <1> QED
    BY <1>4, <1>6, <1>7 DEF IInv, OneCall, Callers

\* All the other steps of Start move it between two program points.
LEMMA StartStepInv ==
  ASSUME StartAssumption, IInv, NEW c \in Starters, StartStep(c) PROVE IInv'
  <1> DEFINE Same == UNCHANGED <<started, claimed, stopOnce, octx, logQuit, attempt, quitClosed,
                                 nils, panicked>>
             Goes(p, q) == pc[c] = p /\ pc' = [pc EXCEPT ![c] = q] /\ Same
  <1> USE DEF flagVars, onceVars, fieldVars, chanVars, callVars, ghostVars
  <1>1. CASE EnterOnce(c)
    BY <1>1, EnterOnceInv
  <1>2. CASE CronFails(c)
    BY <1>2, CronFailsInv
  <1>3. CASE Unload(c)
    BY <1>3, UnloadInv
  <1>4. CASE StartHealth(c)
    BY <1>4, StartHealthInv
  <1>5. CASE Reset(c)
    BY <1>5, ResetInv
  <1>6. CASE SetupCron(c)
    <2>1. Goes("cron", "gates")
      BY <1>6 DEF SetupCron
    <2> QED
      BY <2>1, StartGoto DEF StartPcs, Unclosed
  <1>7. CASE CronPump(c)
    <2>1. Goes("cronpump", "await")
      BY <1>7 DEF CronPump, LeaveOnce
    <2> QED
      BY <2>1, StartGoto DEF StartPcs, Unclosed
  <1>8. CASE \E e \in Gates : GateRefused(c, e)
    <2>1. Goes("gates", "rollback")
      BY <1>8 DEF GateRefused
    <2> QED
      BY <2>1, StartGoto DEF StartPcs, Unclosed
  <1>9. CASE \E e \in Gates : GateSkipped(c, e)
    <2>1. UNCHANGED coreVars
      BY <1>9 DEF GateSkipped, coreVars
    <2> QED
      BY <2>1, CoreInv
  <1>10. CASE \E e \in Gates : RunGate(c, e)
    <2>1. Goes("gates", "gate")
      BY <1>10 DEF RunGate
    <2> QED
      BY <2>1, StartGoto DEF StartPcs, Unclosed
  <1>11. CASE \E e \in Gates : GatePasses(c, e)
    <2>1. Goes("gate", "gates")
      BY <1>11 DEF GatePasses
    <2> QED
      BY <2>1, StartGoto DEF StartPcs, Unclosed
  <1>12. CASE \E e \in Gates : GateFails(c, e)
    <2>1. Goes("gate", "rollback")
      BY <1>12 DEF GateFails
    <2> QED
      BY <2>1, StartGoto DEF StartPcs, Unclosed
  <1>13. CASE GatesDone(c)
    <2>1. Goes("gates", "levels")
      BY <1>13 DEF GatesDone
    <2> QED
      BY <2>1, StartGoto DEF StartPcs, Unclosed
  <1>14. CASE BeginLevel(c)
    <2>1. Goes("levels", "boot")
      BY <1>14 DEF BeginLevel, CallOnly
    <2> QED
      BY <2>1, StartGoto DEF StartPcs, Unclosed
  <1>15. CASE EndLevel(c)
    <2>1. Goes("boot", "levels")
      BY <1>15 DEF EndLevel, LevelDone, CallOnly
    <2> QED
      BY <2>1, StartGoto DEF StartPcs, Unclosed
  <1>16. CASE LevelFails(c)
    <2>1. Goes("boot", "rollback")
      BY <1>16 DEF LevelFails, LevelDone
    <2> QED
      BY <2>1, StartGoto DEF StartPcs, Unclosed
  <1>17. CASE \E e \in Entries : RollbackEntry(c, e)
    <2>1. UNCHANGED coreVars
      BY <1>17 DEF RollbackEntry, coreVars
    <2> QED
      BY <2>1, CoreInv
  <1>18. CASE RollbackDone(c)
    <2>1. Goes("rollback", "unload")
      BY <1>18 DEF RollbackDone, CallOnly
    <2> QED
      BY <2>1, StartGoto DEF StartPcs, Unclosed
  <1>19. CASE AwaitInstances(c)
    <2>1. Goes("await", "pump")
      BY <1>19 DEF AwaitInstances, CallOnly
    <2> QED
      BY <2>1, StartGoto DEF StartPcs, Unclosed
  <1>20. CASE AwaitPump(c)
    <2>1. Goes("pump", "reset")
      BY <1>20 DEF AwaitPump, CallOnly
    <2> QED
      BY <2>1, StartGoto DEF StartPcs, Unclosed
  <1>21. CASE GiveUp(c)
    <2>1. Goes("await", "pump") \/ Goes("pump", "reset")
      BY <1>21 DEF GiveUp
    <2> QED
      BY <2>1, StartGoto DEF StartPcs, Unclosed
  <1> QED
    BY <1>1, <1>2, <1>3, <1>4, <1>5, <1>6, <1>7, <1>8, <1>9, <1>10, <1>11, <1>12, <1>13,
       <1>14, <1>15, <1>16, <1>17, <1>18, <1>19, <1>20, <1>21 DEF StartStep

-----------------------------------------------------------------------------
(* Stop. *)

\* What a Stop in progress knows.
LEMMA InStopFacts ==
  ASSUME StartAssumption, IInv, NEW c \in Stoppers, pc[c] # "idle"
  PROVE  /\ c \in Callers /\ started /\ stopOnce = "running" /\ claimed
         /\ pc[c] \in Unclosed => attempt \notin quitClosed
         /\ attempt > 0 /\ octx = attempt /\ logQuit = attempt
         /\ attempt \in Nat /\ quitClosed \subseteq 1 .. attempt
  BY DEF IInv, Types, InStop, Fields, Callers

\* A step of Stop that touches nothing of the core but its program counter.
LEMMA StopGoto ==
  ASSUME StartAssumption, IInv, NEW c \in Stoppers, NEW p \in StopPcs,
         pc[c] # "idle", pc' = [pc EXCEPT ![c] = p],
         UNCHANGED <<started, claimed, stopOnce, octx, logQuit, attempt, quitClosed, nils>>,
         ~panicked', p \in Unclosed => pc[c] \in Unclosed
  PROVE  IInv'
  <1>1. Fields'
    BY DEF IInv, Fields
  <1>2. started' = TRUE /\ claimed' \in BOOLEAN
    BY DEF IInv, InStop, Types
  <1> QED
    BY <1>1, <1>2, InStopFacts, StopMove

LEMMA StopUnstartedInv ==
  ASSUME StartAssumption, IInv, NEW c \in Stoppers, StopUnstarted(c) PROVE IInv'
  <1>1. /\ ~started /\ stopOnce' = "done"
        /\ UNCHANGED <<started, claimed, octx, logQuit, attempt, quitClosed, pc, nils, panicked>>
    BY DEF StopUnstarted, flagVars, fieldVars, chanVars, callVars, ghostVars
  <1>2. \A d \in Stoppers : pc[d] = "idle"
    BY <1>1 DEF IInv, InStop
  <1>3. Types'
    BY <1>1 DEF IInv, Types
  <1> QED
    BY <1>1, <1>2, <1>3 DEF IInv, OneCall, Quiet, Fields, Nils, InStart

\* The assumption on the callers enters here: no Start is in progress.
LEMMA BeginStopInv ==
  ASSUME StartAssumption, Overlap = FALSE, IInv, NEW c \in Stoppers, NEW deadline,
         BeginStop(c, deadline)
  PROVE  IInv'
  <1>1. \A d \in Callers : pc[d] = "idle"
    BY DEF BeginStop, MayStop, InProgress, IInv, InStop, Callers
  <1>2. /\ pc' = [pc EXCEPT ![c] = "mark"] /\ "mark" \in StopPcs
        /\ stopOnce' = "running"
        /\ UNCHANGED <<started, claimed, octx, logQuit, attempt, quitClosed, nils, panicked>>
    BY DEF BeginStop, StopPcs, flagVars, fieldVars, chanVars, ghostVars
  <1>3. started' = TRUE /\ claimed' \in BOOLEAN
    BY <1>2 DEF BeginStop, MayStop, IInv, Types
  <1>4. attempt \notin quitClosed
    BY <1>1 DEF BeginStop, MayStop, IInv, Quiet
  <1>5. Fields' /\ ~panicked' /\ octx' \in Nat /\ logQuit' \in Nat
        /\ quitClosed' \subseteq 1 .. attempt
    BY <1>2 DEF IInv, Types, Fields
  <1> QED
    BY <1>1, <1>2, <1>3, <1>4, <1>5, StopMove

LEMMA CancelAllInv ==
  ASSUME StartAssumption, IInv, NEW c \in Stoppers, CancelAll(c) PROVE IInv'
  <1>1. /\ pc[c] = "cancel" /\ pc' = [pc EXCEPT ![c] = "stops"]
        /\ UNCHANGED <<started, claimed, stopOnce, octx, logQuit, attempt, quitClosed, nils>>
    BY DEF CancelAll, flagVars, onceVars, fieldVars
  <1>2. octx # 0
    BY <1>1, InStopFacts
  <1>3. ~panicked'
    BY <1>2 DEF CancelAll
  <1> QED
    BY <1>1, <1>3, StopGoto DEF StopPcs, Unclosed

LEMMA QuitLogInv ==
  ASSUME StartAssumption, IInv, NEW c \in Stoppers, QuitLog(c) PROVE IInv'
  <1>1. /\ pc[c] = "stops" /\ "stops" \in Unclosed /\ "wait" \notin Unclosed
        /\ pc' = [pc EXCEPT ![c] = "wait"] /\ "wait" \in StopPcs
        /\ UNCHANGED <<started, claimed, stopOnce, octx, logQuit, attempt, nils>>
    BY DEF QuitLog, Unclosed, StopPcs, flagVars, onceVars, fieldVars
  <1>2. /\ attempt \notin quitClosed /\ attempt \in Nat /\ attempt > 0 /\ logQuit = attempt
        /\ quitClosed \subseteq 1 .. attempt
    BY <1>1, InStopFacts
  <1>3. quitClosed' = quitClosed \cup ({logQuit} \ {0})
    BY DEF QuitLog, CloseQuit
  <1>4. ~panicked'
    BY <1>2 DEF QuitLog, CloseQuit
  <1>5. quitClosed' \subseteq 1 .. attempt
    BY <1>2, <1>3
  <1>6. Fields' /\ octx' \in Nat /\ logQuit' \in Nat
    BY <1>1 DEF Fields, IInv, Types
  <1>7. started' = TRUE /\ claimed' \in BOOLEAN /\ stopOnce' = "running"
    BY <1>1 DEF IInv, InStop, Types
  <1> QED
    BY <1>1, <1>4, <1>5, <1>6, <1>7, StopMove

LEMMA SealInv ==
  ASSUME StartAssumption, IInv, NEW c \in Stoppers, Seal(c) PROVE IInv'
  <1>1. pc[c] = "seal" /\ c \in Callers /\ "idle" \in AllPcs
    BY DEF Seal, Callers, AllPcs
  <1>2. /\ pc' = [pc EXCEPT ![c] = "idle"] /\ stopOnce' = "done"
        /\ UNCHANGED <<started, claimed, octx, logQuit, attempt, quitClosed, nils>>
    BY DEF Seal, chanVars, fieldVars
  <1>3. pc' \in [Callers -> AllPcs] /\ \A d \in Callers : pc'[d] = "idle"
    BY <1>1, <1>2, Alone
  <1>4. stopOnce = "running"
    BY <1>1, InStopFacts
  <1>5. ~panicked'
    BY <1>4 DEF Seal
  <1>6. Types'
    BY <1>2, <1>3, <1>5 DEF Types, Callers, IInv
  <1>7. Fields' /\ Nils' /\ Quiet'
    BY <1>2 DEF Fields, Nils, Quiet, IInv
  <1> QED
    BY <1>3, <1>6, <1>7 DEF IInv, OneCall, Callers

LEMMA StopStepInv ==
  ASSUME StartAssumption, IInv, NEW c \in Stoppers, StopStep(c) PROVE IInv'
  <1> DEFINE Goes(p, q) == /\ pc[c] = p /\ pc' = [pc EXCEPT ![c] = q]
                           /\ UNCHANGED <<started, claimed, stopOnce, octx, logQuit, attempt,
                                          quitClosed, nils, panicked>>
  <1> USE DEF flagVars, onceVars, fieldVars, chanVars, callVars, ghostVars
  <1>0. ~panicked
    BY DEF IInv, Types
  <1>1. CASE CancelAll(c)
    BY <1>1, CancelAllInv
  <1>2. CASE QuitLog(c)
    BY <1>2, QuitLogInv
  <1>3. CASE Seal(c)
    BY <1>3, SealInv
  <1>4. CASE MarkStopping(c)
    <2>1. Goes("mark", "halthealth")
      BY <1>4 DEF MarkStopping
    <2> QED
      BY <1>0, <2>1, StopGoto DEF StopPcs, Unclosed
  <1>5. CASE HaltHealth(c)
    <2>1. Goes("halthealth", "cancel") \/ Goes("halthealth", "healthwait")
      BY <1>5 DEF HaltHealth
    <2> QED
      BY <1>0, <2>1, StopGoto DEF StopPcs, Unclosed
  <1>6. CASE AwaitHealth(c)
    <2>1. Goes("healthwait", "cancel")
      BY <1>6 DEF AwaitHealth, CallOnly
    <2> QED
      BY <1>0, <2>1, StopGoto DEF StopPcs, Unclosed
  <1>7. CASE \E e \in Entries, completed \in BOOLEAN : StopEntry(c, e, completed)
    <2>1. UNCHANGED coreVars
      BY <1>7 DEF StopEntry, coreVars
    <2> QED
      BY <2>1, CoreInv
  <1>8. CASE Verify(c)
    <2>1. Goes("wait", "seal")
      BY <1>8 DEF Verify
    <2> QED
      BY <1>0, <2>1, StopGoto DEF StopPcs, Unclosed
  <1>9. CASE StopTimesOut(c)
    <2>1. Goes("wait", "seal")
      BY <1>9 DEF StopTimesOut
    <2> QED
      BY <1>0, <2>1, StopGoto DEF StopPcs, Unclosed
  <1> QED
    BY <1>1, <1>2, <1>3, <1>4, <1>5, <1>6, <1>7, <1>8, <1>9 DEF StopStep

-----------------------------------------------------------------------------
(* The goroutines of instances, of a level, of the log pump and of the      *)
(* health loop touch nothing of the core.                                   *)

LEMMA OthersInv ==
  ASSUME IInv,
         \/ \E e \in Persistent : BootStep(e) \/ ExitStep(e)
         \/ \E a \in Attempts : PumpExit(a)
         \/ HealthExit
  PROVE  IInv'
  <1> USE DEF coreVars, flagVars, onceVars, fieldVars, chanVars, callVars, ghostVars
  <1>1. CASE \E e \in Persistent : BootStep(e)
    <2>1. PICK e \in Persistent : BootStep(e)
      BY <1>1
    <2>2. UNCHANGED coreVars
      BY <2>1 DEF BootStep, CheckDeps, BootRefused, Boot, Launch, Settle, StartTimesOut
    <2> QED
      BY <2>2, CoreInv
  <1>2. CASE \E e \in Persistent : ExitStep(e)
    <2>1. PICK e \in Persistent : \E a \in Attempts, how \in Ends : Exit(e, a, how)
      BY <1>2 DEF ExitStep
    <2>2. UNCHANGED coreVars
      BY <2>1 DEF Exit
    <2> QED
      BY <2>2, CoreInv
  <1>3. CASE \E a \in Attempts : PumpExit(a)
    <2>1. UNCHANGED coreVars
      BY <1>3 DEF PumpExit
    <2> QED
      BY <2>1, CoreInv
  <1>4. CASE HealthExit
    <2>1. UNCHANGED coreVars
      BY <1>4 DEF HealthExit
    <2> QED
      BY <2>1, CoreInv
  <1> QED
    BY <1>1, <1>2, <1>3, <1>4

LEMMA NextInv ==
  ASSUME StartAssumption, Overlap = FALSE, IInv, [Next]_vars PROVE IInv'
  <1>1. CASE \E c \in Starters : Claim(c) \/ StartStep(c)
    BY <1>1, ClaimInv, StartStepInv
  <1>2. CASE \E c \in Stoppers : StopStep(c) \/ StopUnstarted(c)
    BY <1>2, StopStepInv, StopUnstartedInv
  <1>3. CASE \E c \in Stoppers, deadline \in Deadlines : BeginStop(c, deadline)
    BY <1>3, BeginStopInv
  <1>4. CASE UNCHANGED vars
    BY <1>4, CoreInv DEF vars, coreVars, flagVars, onceVars, fieldVars, chanVars, callVars,
       ghostVars
  <1> QED
    BY <1>1, <1>2, <1>3, <1>4, OthersInv DEF Next

LEMMA Inductive ==
  ASSUME StartAssumption, Overlap = FALSE PROVE Spec => []IInv
  <1>1. IInv /\ [Next]_vars => IInv'
    BY NextInv
  <1> QED
    BY InitInv, <1>1, PTL DEF Spec

\* With Stop called only while no Start is in progress, no channel is closed twice,
\* no nil cancel is called and no unlocked mutex unlocked (lifecycle.go:945-1411).
THEOREM NoPanicCorrect ==
  ASSUME StartAssumption, Overlap = FALSE PROVE Spec => []NoPanic
  <1>1. IInv => NoPanic
    BY DEF IInv, Types, NoPanic
  <1> QED
    BY Inductive, <1>1, PTL

\* A nil return identifies the call of Start that ran it (README.md:923): failed
\* attempts, retries and a Stop in between included, there is at most one.
THEOREM OneStartReturnsNil ==
  ASSUME StartAssumption, Overlap = FALSE PROVE Spec => [](nils <= 1)
  <1>1. IInv => nils <= 1
    BY DEF IInv, Nils
  <1> QED
    BY Inductive, <1>1, PTL

-----------------------------------------------------------------------------
(***************************************************************************)
(* When Stop is only called while no Start is in progress, Start and Stop  *)
(* implement OrchestratorPhases, for finitely many entries in any graph,   *)
(* any number of goroutines in either call, any failures and any retries:  *)
(* unless a deadline made one of them give up waiting, a Start that failed *)
(* and a Stop that succeeded leave no instance running.                    *)
(***************************************************************************)

(* The inductive invariant, beside IInv. *)

FlowTypes ==
    /\ inst \in [Entries -> [Attempts -> {"none", "run"} \cup Ends]]
    /\ boot \in [Entries -> BootStages]
    /\ call \in [Callers -> CallRecords]
    /\ attempt <= MaxAttempts
    /\ \A c \in Starters : pc[c] = "once" => attempt < MaxAttempts

\* The flags of the shutdown are those of the Stop in progress, or of its end.
ShutdownFlags ==
    /\ stopped => started /\ stopOnce = "done"
    /\ stopping => \E c \in Stoppers : pc[c] # "idle"
    /\ \A c \in Starters : pc[c] # "idle" => ~stopped
    /\ \A c \in Stoppers : pc[c] # "idle" => ~stopped /\ (stopping <=> pc[c] # "mark")

\* An entry about to be launched is one of the level a Start is at.
Booting(e) == boot[e] \in {"check", "begin", "launch"}
Launching  == \A e \in Entries : Booting(e) => \E c \in Starters : pc[c] = "boot"

HealthUp == IF health \in {"run", "quit"} THEN 1 ELSE 0

\* The wait group counts the instances of the attempt in progress, which are the
\* only ones, and the health loop of the Start that succeeded.
Counts ==
    /\ wg = Cardinality(Alive) + HealthUp
    /\ \A e \in Persistent, a \in Attempts :
          inst[e][a] = "run" => a = attempt /\ e \notin wgDone
    /\ \A e \in Persistent : Booting(e) => e \notin Alive
    /\ \A c \in Starters : pc[c] \in {"levels", "boot"} =>
          \A e \in call[c].todo : e \notin Alive /\ ~Booting(e)

\* Where nothing runs, and where no health loop does.
NothingRuns ==
    /\ ~started => Alive = {} /\ health = "none"
    /\ \A c \in Starters :
          /\ pc[c] # "idle" => health = "none"
          /\ pc[c] \in {"once", "cron", "gates", "gate", "pump", "reset"} => Alive = {}
    /\ \A c \in Stoppers : pc[c] = "seal" => Alive = {}

\* What a Start or a Stop that gave up waiting leaves behind is not counted.
FlowInv == /\ FlowTypes /\ ShutdownFlags /\ Launching
           /\ lost \/ (Counts /\ NothingRuns)

flowVars == <<started, stopping, stopped, stopOnce, attempt, wg, wgDone, health, inst, boot,
              pc, call, lost>>

LEMMA FlowKept == FlowInv /\ UNCHANGED flowVars => FlowInv'
  BY DEF FlowInv, flowVars, FlowTypes, ShutdownFlags, Launching, Booting, Counts, HealthUp,
         NothingRuns, Alive

LEMMA AliveFinite ==
  ASSUME IsFiniteSet(Entries) PROVE IsFiniteSet(Alive) /\ Cardinality(Alive) \in Nat
  <1>1. IsFiniteSet(Alive)
    BY FS_Subset DEF Alive, Persistent
  <1> QED
    BY <1>1, FS_CardinalityType

LEMMA FlowInit == ASSUME StartAssumption, Init PROVE FlowInv
  <1>1. \A c \in Callers : pc[c] = "idle" /\ call[c] = NoCall
    BY DEF Init
  <1>2. Alive = {}
    BY DEF Init, Alive, Persistent
  <1>3. FlowTypes
    BY <1>1 DEF Init, FlowTypes, StartAssumption, BootStages, CallRecords, NoCall, Callers
  <1>4. wg = 0 /\ HealthUp = 0 /\ Cardinality(Alive) = 0
    BY <1>2, FS_EmptySet DEF Init, HealthUp
  <1>5. Counts
    BY <1>1, <1>2, <1>4 DEF Init, Counts, Booting, Persistent, Callers
  <1>6. ShutdownFlags /\ Launching /\ NothingRuns
    BY <1>1, <1>2 DEF Init, ShutdownFlags, Launching, Booting, NothingRuns, Callers
  <1> QED
    BY <1>3, <1>5, <1>6 DEF FlowInv

\* One call is in progress: what its step to p does to the others.
LEMMA OnlyCall ==
  ASSUME IInv, NEW c \in Callers, NEW p,
         pc[c] # "idle" \/ \A d \in Callers : pc[d] = "idle", pc' = [pc EXCEPT ![c] = p]
  PROVE  pc'[c] = p /\ \A d \in Callers : d # c => pc[d] = "idle" /\ pc'[d] = "idle"
  BY DEF IInv, Types, OneCall

-----------------------------------------------------------------------------
(* Start. *)

\* A step of Start that starts and ends nothing.
LEMMA StartFlow ==
  ASSUME StartAssumption, IInv, FlowInv, NEW c \in Starters,
         NEW p \in StartPcs \ {"once", "levels", "boot"},
         pc[c] # "idle", pc' = [pc EXCEPT ![c] = p],
         UNCHANGED <<started, stopping, stopped, attempt, wg, health, inst, lost>>,
         started,
         \A e \in Persistent : e \in wgDone' => e \in wgDone,
         boot' \in [Entries -> BootStages], \A e \in Entries : ~Booting(e)',
         call' \in [Callers -> CallRecords],
         p \in {"cron", "gates", "gate", "pump", "reset"} => lost \/ Alive = {}
  PROVE  FlowInv'
  <1>1. c \in Callers /\ c \notin Stoppers /\ p # "idle"
    BY DEF StartAssumption, Callers, StartPcs
  <1>2. pc'[c] = p /\ \A d \in Callers : d # c => pc[d] = "idle" /\ pc'[d] = "idle"
    BY <1>1, OnlyCall
  <1>3. FlowTypes'
    BY <1>2 DEF FlowInv, FlowTypes, Callers
  <1>4. ShutdownFlags' /\ Launching'
    BY <1>1, <1>2 DEF FlowInv, ShutdownFlags, Launching, Callers
  <1>5. Alive' = Alive
    BY DEF Alive
  <1>6. ASSUME Counts, NothingRuns PROVE Counts' /\ (lost \/ NothingRuns')
    <2>1. Counts'
      BY <1>2, <1>5, <1>6 DEF Counts, HealthUp, Callers, Persistent
    <2>2. lost \/ NothingRuns'
      BY <1>1, <1>2, <1>5, <1>6 DEF NothingRuns, Callers
    <2> QED
      BY <2>1, <2>2
  <1> QED
    BY <1>3, <1>4, <1>6 DEF FlowInv

LEMMA NoBooting ==
  ASSUME StartAssumption, IInv, FlowInv, NEW c \in Callers, pc[c] \notin {"idle", "boot"}
  PROVE  \A e \in Entries : ~Booting(e)
  BY DEF IInv, OneCall, FlowInv, Launching, Callers

LEMMA ClaimFlow ==
  ASSUME StartAssumption, IInv, FlowInv, NEW c \in Starters, Claim(c) PROVE FlowInv'
  <1>1. \A d \in Callers : pc[d] = "idle"
    BY DEF Claim, IInv, InStart, InStop, Callers
  <1>2. /\ ~started /\ attempt < MaxAttempts /\ pc' = [pc EXCEPT ![c] = "once"]
        /\ UNCHANGED <<started, stopping, stopped, stopOnce, attempt, wg, wgDone, health, inst,
                       boot, call, lost>>
    BY DEF Claim, onceVars, fieldVars, chanVars, entryVars, instVars, ghostVars
  <1>3. c \in Callers /\ c \notin Stoppers
    BY DEF StartAssumption, Callers
  <1>4. pc'[c] = "once" /\ \A d \in Callers : d # c => pc'[d] = "idle"
    BY <1>1, <1>2, <1>3, OnlyCall
  <1>5. FlowTypes'
    BY <1>2, <1>4 DEF FlowInv, FlowTypes, Callers
  <1>6. ShutdownFlags' /\ Launching'
    BY <1>1, <1>2, <1>3, <1>4 DEF FlowInv, ShutdownFlags, Launching, Booting, Callers
  <1>7. Alive' = Alive
    BY <1>2 DEF Alive
  <1>8. Counts /\ NothingRuns => Counts' /\ NothingRuns'
    BY <1>1, <1>2, <1>3, <1>4, <1>7 DEF Counts, HealthUp, Booting, NothingRuns, Callers
  <1> QED
    BY <1>2, <1>5, <1>6, <1>8 DEF FlowInv

LEMMA EnterOnceFlow ==
  ASSUME StartAssumption, IInv, FlowInv, NEW c \in Starters, EnterOnce(c) PROVE FlowInv'
  <1>1. /\ pc[c] = "once" /\ pc' = [pc EXCEPT ![c] = "cron"] /\ attempt' = attempt + 1
        /\ started' /\ UNCHANGED <<stopping, stopped, wg, wgDone, health, inst, boot, call, lost>>
    BY DEF EnterOnce, instVars, ghostVars
  <1>2. c \in Callers /\ c \notin Stoppers
    BY DEF StartAssumption, Callers
  <1>3. pc'[c] = "cron" /\ \A d \in Callers : d # c => pc[d] = "idle" /\ pc'[d] = "idle"
    BY <1>1, <1>2, OnlyCall
  <1>4. attempt \in Nat /\ attempt < MaxAttempts /\ MaxAttempts \in Nat
    BY <1>1 DEF IInv, Types, FlowInv, FlowTypes, StartAssumption
  <1>5. FlowTypes'
    BY <1>1, <1>3, <1>4 DEF FlowInv, FlowTypes, Callers
  <1>6. \A e \in Entries : ~Booting(e) /\ ~Booting(e)'
    BY <1>1, <1>2, NoBooting DEF Booting
  <1>7. ShutdownFlags' /\ Launching'
    BY <1>1, <1>2, <1>3, <1>6 DEF FlowInv, ShutdownFlags, Launching, Callers
  <1>8. Alive' = Alive
    BY <1>1 DEF Alive
  <1>9. ASSUME Counts, NothingRuns PROVE Counts' /\ NothingRuns'
    <2>1. Alive = {} /\ health = "none"
      BY <1>1, <1>9 DEF NothingRuns
    <2>2. \A e \in Persistent, a \in Attempts : inst[e][a] # "run"
      BY <2>1 DEF Alive
    <2>3. Counts'
      BY <1>1, <1>2, <1>3, <1>6, <1>8, <1>9, <2>2 DEF Counts, HealthUp, Persistent, Callers
    <2>4. NothingRuns'
      BY <1>1, <1>2, <1>3, <1>8, <2>1 DEF NothingRuns, Callers
    <2> QED
      BY <2>3, <2>4
  <1> QED
    BY <1>1, <1>5, <1>7, <1>9 DEF FlowInv

\* The gates are through: every persistent entry is still to be started.
LEMMA GatesDoneFlow ==
  ASSUME StartAssumption, IInv, FlowInv, NEW c \in Starters, GatesDone(c) PROVE FlowInv'
  <1>1. /\ pc[c] = "gates" /\ pc' = [pc EXCEPT ![c] = "levels"]
        /\ call' = [call EXCEPT ![c].todo = Persistent]
        /\ UNCHANGED <<started, stopping, stopped, stopOnce, attempt, wg, wgDone, health, inst,
                       boot, lost>>
    BY DEF GatesDone, flagVars, onceVars, fieldVars, chanVars, entryVars, instVars, ghostVars
  <1>2. c \in Callers /\ c \notin Stoppers
    BY DEF StartAssumption, Callers
  <1>3. pc'[c] = "levels" /\ \A d \in Callers : d # c => pc[d] = "idle" /\ pc'[d] = "idle"
    BY <1>1, <1>2, OnlyCall
  <1>4. call' \in [Callers -> CallRecords]
    BY <1>1, <1>2 DEF FlowInv, FlowTypes, CallRecords, Persistent
  <1>5. FlowTypes'
    BY <1>1, <1>3, <1>4 DEF FlowInv, FlowTypes, Callers
  <1>6. \A e \in Entries : ~Booting(e) /\ ~Booting(e)'
    BY <1>1, <1>2, NoBooting DEF Booting
  <1>7. ShutdownFlags' /\ Launching'
    BY <1>1, <1>2, <1>3, <1>6 DEF FlowInv, ShutdownFlags, Launching, Callers
  <1>8. Alive' = Alive
    BY <1>1 DEF Alive
  <1>9. ASSUME Counts, NothingRuns PROVE Counts' /\ NothingRuns'
    <2>1. Alive = {} /\ call'[c].todo \subseteq Entries
      BY <1>1, <1>2, <1>4, <1>9 DEF NothingRuns, CallRecords
    <2>2. Counts'
      BY <1>1, <1>2, <1>3, <1>6, <1>8, <1>9, <2>1 DEF Counts, HealthUp, Persistent, Callers
    <2>3. NothingRuns'
      BY <1>1, <1>2, <1>3, <1>8, <1>9 DEF NothingRuns, Callers
    <2> QED
      BY <2>2, <2>3
  <1> QED
    BY <1>1, <1>5, <1>7, <1>9 DEF FlowInv

LEMMA BeginLevelFlow ==
  ASSUME StartAssumption, IInv, FlowInv, NEW c \in Starters, BeginLevel(c) PROVE FlowInv'
  <1> DEFINE level == FirstLevel(Persistent, call[c].todo)
  <1>1. /\ pc[c] = "levels" /\ pc' = [pc EXCEPT ![c] = "boot"]
        /\ call' = [call EXCEPT ![c].todo = @ \ level]
        /\ boot' = [e \in Entries |-> IF e \in level THEN "check" ELSE boot[e]]
        /\ UNCHANGED <<started, stopping, stopped, stopOnce, attempt, wg, wgDone, health, inst,
                       lost>>
    BY DEF BeginLevel, CallOnly, flagVars, onceVars, fieldVars, chanVars, entryVars, instVars,
           ghostVars
  <1>2. c \in Callers /\ c \notin Stoppers
    BY DEF StartAssumption, Callers
  <1>3. pc'[c] = "boot" /\ \A d \in Callers : d # c => pc[d] = "idle" /\ pc'[d] = "idle"
    BY <1>1, <1>2, OnlyCall
  <1>4. level \subseteq call[c].todo /\ call[c] \in CallRecords
    BY <1>2 DEF FirstLevel, FlowInv, FlowTypes
  <1> HIDE DEF level
  <1>5. call' \in [Callers -> CallRecords] /\ call'[c].todo = call[c].todo \ level
    BY <1>1, <1>2, <1>4 DEF FlowInv, FlowTypes, CallRecords
  <1>6. boot' \in [Entries -> BootStages]
    BY <1>1 DEF FlowInv, FlowTypes, BootStages
  <1>7. FlowTypes'
    BY <1>1, <1>3, <1>5, <1>6 DEF FlowInv, FlowTypes, Callers
  <1>8. \A e \in Entries : ~Booting(e) /\ (Booting(e)' <=> e \in level)
    BY <1>1, <1>2, NoBooting DEF Booting
  <1>9. ShutdownFlags' /\ Launching'
    BY <1>1, <1>2, <1>3 DEF FlowInv, ShutdownFlags, Launching, Callers
  <1>10. Alive' = Alive
    BY <1>1 DEF Alive
  <1>11. ASSUME Counts, NothingRuns PROVE Counts' /\ NothingRuns'
    <2>1. \A e \in call[c].todo : e \notin Alive /\ e \in Entries
      BY <1>1, <1>4, <1>11 DEF Counts, CallRecords
    <2>2. Counts'
      BY <1>1, <1>2, <1>3, <1>4, <1>5, <1>8, <1>10, <1>11, <2>1
         DEF Counts, HealthUp, Persistent, Callers
    <2>3. NothingRuns'
      BY <1>1, <1>2, <1>3, <1>10, <1>11 DEF NothingRuns, Callers
    <2> QED
      BY <2>2, <2>3
  <1> QED
    BY <1>1, <1>7, <1>9, <1>11 DEF FlowInv

LEMMA EndLevelFlow ==
  ASSUME StartAssumption, IInv, FlowInv, NEW c \in Starters, EndLevel(c) PROVE FlowInv'
  <1>1. /\ pc[c] = "boot" /\ pc' = [pc EXCEPT ![c] = "levels"]
        /\ boot' = [e \in Entries |-> "none"]
        /\ UNCHANGED <<started, stopping, stopped, stopOnce, attempt, wg, wgDone, health, inst,
                       call, lost>>
    BY DEF EndLevel, LevelDone, CallOnly, flagVars, onceVars, fieldVars, chanVars, entryVars,
           instVars, ghostVars
  <1>2. c \in Callers /\ c \notin Stoppers
    BY DEF StartAssumption, Callers
  <1>3. pc'[c] = "levels" /\ \A d \in Callers : d # c => pc[d] = "idle" /\ pc'[d] = "idle"
    BY <1>1, <1>2, OnlyCall
  <1>4. FlowTypes'
    BY <1>1, <1>3 DEF FlowInv, FlowTypes, Callers, BootStages
  <1>5. \A e \in Entries : ~Booting(e)'
    BY <1>1 DEF Booting
  <1>6. ShutdownFlags' /\ Launching'
    BY <1>1, <1>2, <1>3, <1>5 DEF FlowInv, ShutdownFlags, Launching, Callers
  <1>7. Alive' = Alive
    BY <1>1 DEF Alive
  <1>8. ASSUME Counts, NothingRuns PROVE Counts' /\ NothingRuns'
    <2>1. \A e \in call[c].todo : e \in Entries
      BY <1>2 DEF FlowInv, FlowTypes, CallRecords
    <2>2. Counts'
      BY <1>1, <1>2, <1>3, <1>5, <1>7, <1>8, <2>1 DEF Counts, HealthUp, Persistent, Callers
    <2>3. NothingRuns'
      BY <1>1, <1>2, <1>3, <1>7, <1>8 DEF NothingRuns, Callers
    <2> QED
      BY <2>2, <2>3
  <1> QED
    BY <1>1, <1>4, <1>6, <1>8 DEF FlowInv

\* Only the todo of a call moves.
LEMMA TodoTyped ==
  ASSUME FlowInv, NEW c \in Callers, NEW S \in SUBSET Entries,
         call' = [call EXCEPT ![c].todo = S]
  PROVE  call' \in [Callers -> CallRecords]
  BY DEF FlowInv, FlowTypes, CallRecords

LEMMA SetupCronFlow ==
  ASSUME StartAssumption, IInv, FlowInv, NEW c \in Starters,
         SetupCron(c) \/ CronFails(c) \/ CronPump(c) \/ RollbackDone(c) \/ Unload(c) \/ AwaitPump(c)
  PROVE  FlowInv'
  <1>1. pc[c] \in {"cron", "cronpump", "rollback", "unload", "pump"} /\ c \in Callers
    BY DEF SetupCron, CronFails, CronPump, RollbackDone, Unload, AwaitPump, Callers
  <1>2. /\ UNCHANGED <<started, stopping, stopped, attempt, wg, wgDone, health, inst, boot, lost>>
        /\ call' = [call EXCEPT ![c].todo = Gates] \/ call' = call
    BY DEF SetupCron, CronFails, CronPump, RollbackDone, Unload, AwaitPump, CallOnly, LeaveOnce,
           flagVars, fieldVars, chanVars, entryVars, instVars, ghostVars
  <1>3. started /\ boot' \in [Entries -> BootStages] /\ \A e \in Entries : ~Booting(e)'
    BY <1>1, <1>2, InStartFacts, NoBooting DEF Booting, FlowInv, FlowTypes
  <1>4. call' \in [Callers -> CallRecords]
    BY <1>1, <1>2, TodoTyped DEF StartAssumption, FlowInv, FlowTypes
  <1>5. \/ pc[c] = "cron" /\ pc' = [pc EXCEPT ![c] = "gates"]
        \/ pc[c] = "pump" /\ pc' = [pc EXCEPT ![c] = "reset"]
        \/ \E p \in {"cronpump", "await", "unload"} : pc' = [pc EXCEPT ![c] = p]
    BY DEF SetupCron, CronFails, CronPump, RollbackDone, Unload, AwaitPump
  <1>6. pc[c] \in {"cron", "pump"} => lost \/ Alive = {}
    BY DEF FlowInv, NothingRuns
  <1>7. PICK p \in StartPcs \ {"once", "levels", "boot"} :
           /\ pc' = [pc EXCEPT ![c] = p]
           /\ p \in {"cron", "gates", "gate", "pump", "reset"} => pc[c] \in {"cron", "pump"}
    BY <1>5 DEF StartPcs
  <1> QED
    BY <1>1, <1>2, <1>3, <1>4, <1>6, <1>7, StartFlow

LEMMA GateFlow ==
  ASSUME StartAssumption, IInv, FlowInv, NEW c \in Starters, NEW e \in Gates,
         \/ GateRefused(c, e) \/ GateSkipped(c, e) \/ RunGate(c, e) \/ GatePasses(c, e)
         \/ GateFails(c, e)
  PROVE  FlowInv'
  <1> USE DEF GateRefused, GateSkipped, RunGate, GatePasses, GateFails
  <1>1. pc[c] \in {"gates", "gate"} /\ c \in Callers /\ e \notin Persistent
    BY DEF Callers, Persistent
  <1>2. UNCHANGED <<started, stopping, stopped, attempt, wg, health, inst, lost>>
    BY DEF flagVars, fieldVars, chanVars, instVars, ghostVars
  <1>3. wgDone' = wgDone \/ wgDone' = wgDone \cup {e}
    OBVIOUS
  <1>4. \/ boot' = boot \/ boot' = [boot EXCEPT ![e] = "settle"]
        \/ boot' = [boot EXCEPT ![e] = "none"]
    OBVIOUS
  <1>5. started /\ \A d \in Entries : ~Booting(d)
    BY <1>1, InStartFacts, NoBooting
  <1>6. boot' \in [Entries -> BootStages] /\ \A d \in Entries : ~Booting(d)'
    BY <1>4, <1>5 DEF Booting, FlowInv, FlowTypes, BootStages
  <1>7. \/ call' = call \/ call' = [call EXCEPT ![c].todo = Entries]
        \/ call' = [call EXCEPT ![c].todo = @ \ {e}]
    OBVIOUS
  <1>8. call' \in [Callers -> CallRecords]
    <2>1. call \in [Callers -> CallRecords] /\ call[c].todo \ {e} \in SUBSET Entries
      BY <1>1 DEF FlowInv, FlowTypes, CallRecords
    <2> QED
      BY <1>1, <1>7, <2>1, TodoTyped
  <1>9. lost \/ Alive = {}
    BY <1>1 DEF FlowInv, NothingRuns
  <1>10. \/ pc' = [pc EXCEPT ![c] = pc[c]]
         \/ \E p \in {"rollback", "gate", "gates"} : pc' = [pc EXCEPT ![c] = p]
    BY <1>1 DEF IInv, Types
  <1>11. PICK p \in StartPcs \ {"once", "levels", "boot"} : pc' = [pc EXCEPT ![c] = p]
    BY <1>1, <1>10 DEF StartPcs
  <1> QED
    BY <1>1, <1>2, <1>3, <1>5, <1>6, <1>8, <1>9, <1>11, StartFlow

\* A level that failed is through: nothing of it is left to be launched.
LEMMA LevelFailsFlow ==
  ASSUME StartAssumption, IInv, FlowInv, NEW c \in Starters, LevelFails(c) PROVE FlowInv'
  <1>1. /\ pc[c] = "boot" /\ pc' = [pc EXCEPT ![c] = "rollback"]
        /\ boot' = [e \in Entries |-> "none"] /\ call' = [call EXCEPT ![c].todo = Entries]
        /\ UNCHANGED <<started, stopping, stopped, attempt, wg, wgDone, health, inst, lost>>
    BY DEF LevelFails, LevelDone, flagVars, fieldVars, entryVars, instVars, ghostVars
  <1>2. c \in Callers /\ started
    BY <1>1, InStartFacts
  <1>3. boot' \in [Entries -> BootStages] /\ \A e \in Entries : ~Booting(e)'
    BY <1>1 DEF Booting, BootStages
  <1>4. call' \in [Callers -> CallRecords]
    BY <1>1, <1>2, TodoTyped
  <1> QED
    BY <1>1, <1>2, <1>3, <1>4, StartFlow DEF StartPcs

LEMMA RollbackEntryFlow ==
  ASSUME StartAssumption, IInv, FlowInv, NEW c \in Starters, NEW e \in Entries,
         RollbackEntry(c, e)
  PROVE  FlowInv'
  <1>1. /\ pc[c] = "rollback" /\ c \in Callers /\ call' = [call EXCEPT ![c].todo = @ \ {e}]
        /\ UNCHANGED <<started, stopping, stopped, attempt, wg, wgDone, health, inst, boot, pc,
                       lost>>
    BY DEF RollbackEntry, Callers, flagVars, fieldVars, chanVars, instVars, ghostVars
  <1>2. started /\ boot' \in [Entries -> BootStages] /\ \A d \in Entries : ~Booting(d)'
    BY <1>1, InStartFacts, NoBooting DEF Booting, FlowInv, FlowTypes
  <1>3. call[c].todo \ {e} \in SUBSET Entries
    BY <1>1 DEF FlowInv, FlowTypes, CallRecords
  <1>4. call' \in [Callers -> CallRecords]
    BY <1>1, <1>3, TodoTyped
  <1>5. pc' = [pc EXCEPT ![c] = "rollback"]
    BY <1>1 DEF IInv, Types
  <1> QED
    BY <1>1, <1>2, <1>4, <1>5, StartFlow DEF StartPcs

\* The wait group at zero: no instance is left.
LEMMA NoneLeft ==
  ASSUME IsFiniteSet(Entries), Counts, wg = 0 PROVE Alive = {}
  <1>1. Cardinality(Alive) = 0
    BY AliveFinite DEF Counts, HealthUp
  <1> QED
    BY <1>1, AliveFinite, FS_EmptySet

LEMMA AwaitInstancesFlow ==
  ASSUME StartAssumption, IsFiniteSet(Entries), IInv, FlowInv, NEW c \in Starters,
         AwaitInstances(c)
  PROVE  FlowInv'
  <1>1. /\ pc[c] = "await" /\ wg = 0 /\ pc' = [pc EXCEPT ![c] = "pump"]
        /\ UNCHANGED <<started, stopping, stopped, attempt, wg, wgDone, health, inst, boot, call,
                       lost>>
    BY DEF AwaitInstances, CallOnly, flagVars, fieldVars, chanVars, entryVars, instVars, ghostVars
  <1>2. started /\ c \in Callers
    BY <1>1, InStartFacts
  <1>3. boot' \in [Entries -> BootStages] /\ \A d \in Entries : ~Booting(d)'
    BY <1>1, <1>2, NoBooting DEF Booting, FlowInv, FlowTypes
  <1>4. call' \in [Callers -> CallRecords]
    BY <1>1 DEF FlowInv, FlowTypes
  <1>5. lost \/ Alive = {}
    BY <1>1, NoneLeft DEF FlowInv
  <1> QED
    BY <1>1, <1>2, <1>3, <1>4, <1>5, StartFlow DEF StartPcs

\* The end of a Start: nil, a wait given up, and the reset.
LEMMA StartHealthFlow ==
  ASSUME StartAssumption, IsFiniteSet(Entries), IInv, FlowInv, NEW c \in Starters,
         StartHealth(c)
  PROVE  FlowInv'
  <1>1. /\ pc[c] = "levels" /\ pc' = [pc EXCEPT ![c] = "idle"] /\ health' = "run" /\ wg' = wg + 1
        /\ call' = [call EXCEPT ![c] = NoCall]
        /\ UNCHANGED <<started, stopping, stopped, stopOnce, attempt, wgDone, inst, boot, lost>>
    BY DEF StartHealth, flagVars, chanVars, instVars
  <1>2. c \in Callers /\ c \notin Stoppers /\ started
    BY <1>1, InStartFacts DEF StartAssumption, Callers
  <1>3. \A d \in Callers : pc'[d] = "idle"
    BY <1>1, <1>2, OnlyCall
  <1>4. \A d \in Stoppers : pc[d] = "idle"
    BY <1>1, <1>2, OnlyCall DEF Callers
  <1>5. \A e \in Entries : ~Booting(e) /\ ~Booting(e)'
    BY <1>1, <1>2, NoBooting DEF Booting
  <1>6. NoCall \in CallRecords
    BY DEF NoCall, CallRecords
  <1>7. FlowTypes'
    BY <1>1, <1>3, <1>6 DEF FlowInv, FlowTypes, Callers
  <1>8. ShutdownFlags' /\ Launching'
    BY <1>1, <1>3, <1>4, <1>5 DEF FlowInv, ShutdownFlags, Launching, Callers
  <1>9. Alive' = Alive
    BY <1>1 DEF Alive
  <1>10. ASSUME Counts, NothingRuns PROVE Counts' /\ NothingRuns'
    <2>1. Cardinality(Alive) \in Nat
      BY AliveFinite
    <2>2. HealthUp = 0 /\ HealthUp' = 1
      BY <1>1, <1>10 DEF NothingRuns, HealthUp
    <2>3. wg' = Cardinality(Alive) + HealthUp'
      BY <1>1, <1>10, <2>1, <2>2 DEF Counts
    <2>4. Counts'
      BY <1>1, <1>3, <1>5, <1>9, <1>10, <2>3 DEF Counts, Persistent, Callers
    <2>5. NothingRuns'
      BY <1>1, <1>2, <1>3 DEF NothingRuns, Callers
    <2> QED
      BY <2>4, <2>5
  <1> QED
    BY <1>1, <1>7, <1>8, <1>10 DEF FlowInv

LEMMA GiveUpFlow ==
  ASSUME StartAssumption, IInv, FlowInv, NEW c \in Starters, GiveUp(c) PROVE FlowInv'
  <1>1. /\ pc[c] \in {"await", "pump"} /\ lost'
        /\ pc' = [pc EXCEPT ![c] = IF @ = "await" THEN "pump" ELSE "reset"]
        /\ UNCHANGED <<started, stopping, stopped, stopOnce, attempt, wgDone, inst, boot, call>>
    BY DEF GiveUp, flagVars, onceVars, chanVars, entryVars, instVars
  <1>2. PICK p \in {"pump", "reset"} : pc' = [pc EXCEPT ![c] = p]
    BY <1>1
  <1>3. c \in Callers /\ c \notin Stoppers
    BY DEF StartAssumption, Callers
  <1>4. pc'[c] = p /\ \A d \in Callers : d # c => pc[d] = "idle" /\ pc'[d] = "idle"
    BY <1>1, <1>2, <1>3, OnlyCall
  <1>5. \A e \in Entries : ~Booting(e)'
    BY <1>1, <1>3, NoBooting DEF Booting
  <1>6. FlowTypes'
    BY <1>1, <1>2, <1>4 DEF FlowInv, FlowTypes, Callers
  <1>7. ShutdownFlags' /\ Launching'
    BY <1>1, <1>3, <1>4, <1>5 DEF FlowInv, ShutdownFlags, Launching, Callers
  <1> QED
    BY <1>1, <1>6, <1>7 DEF FlowInv

LEMMA ResetFlow ==
  ASSUME StartAssumption, IInv, FlowInv, NEW c \in Starters, Reset(c) PROVE FlowInv'
  <1>1. /\ pc[c] = "reset" /\ pc' = [pc EXCEPT ![c] = "idle"] /\ health' = "none" /\ wgDone' = {}
        /\ ~started' /\ ~stopping' /\ ~stopped' /\ call' = [call EXCEPT ![c] = NoCall]
        /\ UNCHANGED <<attempt, wg, inst, boot, lost>>
    BY DEF Reset, ResetEntries, chanVars, instVars, ghostVars
  <1>2. c \in Callers
    BY DEF Callers
  <1>3. \A d \in Callers : pc'[d] = "idle"
    BY <1>1, <1>2, OnlyCall
  <1>4. \A e \in Entries : ~Booting(e) /\ ~Booting(e)'
    BY <1>1, <1>2, NoBooting DEF Booting
  <1>5. NoCall \in CallRecords
    BY DEF NoCall, CallRecords
  <1>6. FlowTypes'
    BY <1>1, <1>3, <1>5 DEF FlowInv, FlowTypes, Callers
  <1>7. ShutdownFlags' /\ Launching'
    BY <1>1, <1>3, <1>4 DEF FlowInv, ShutdownFlags, Launching, Callers
  <1>8. Alive' = Alive
    BY <1>1 DEF Alive
  <1>9. ASSUME Counts, NothingRuns PROVE Counts' /\ NothingRuns'
    <2>1. Alive = {} /\ HealthUp' = HealthUp
      BY <1>1, <1>9 DEF NothingRuns, HealthUp
    <2>2. \A e \in Persistent, a \in Attempts : inst[e][a] # "run"
      BY <2>1 DEF Alive
    <2>3. Counts'
      BY <1>1, <1>3, <1>4, <1>8, <1>9, <2>1, <2>2 DEF Counts, Persistent, Callers
    <2>4. NothingRuns'
      BY <1>1, <1>3, <1>8, <2>1 DEF NothingRuns, Callers
    <2> QED
      BY <2>3, <2>4
  <1> QED
    BY <1>1, <1>6, <1>7, <1>9 DEF FlowInv

LEMMA StartStepFlow ==
  ASSUME StartAssumption, IsFiniteSet(Entries), IInv, FlowInv, NEW c \in Starters,
         Claim(c) \/ StartStep(c)
  PROVE  FlowInv'
  BY ClaimFlow, EnterOnceFlow, SetupCronFlow, GateFlow, GatesDoneFlow, BeginLevelFlow,
     EndLevelFlow, LevelFailsFlow, StartHealthFlow, RollbackEntryFlow, AwaitInstancesFlow,
     GiveUpFlow, ResetFlow
     DEF StartStep

-----------------------------------------------------------------------------
(* Stop. *)

\* A step of Stop up to its verdict.
LEMMA StopFlow ==
  ASSUME StartAssumption, IInv, FlowInv, NEW c \in Stoppers, NEW p \in StopPcs,
         pc[c] # "idle" \/ \A d \in Callers : pc[d] = "idle", pc' = [pc EXCEPT ![c] = p],
         UNCHANGED <<started, stopped, attempt, wg, wgDone, inst, boot>>,
         started, ~stopped, stopping' <=> p # "mark",
         HealthUp' = HealthUp, call' \in [Callers -> CallRecords],
         lost => lost', p = "seal" => lost' \/ Alive = {}
  PROVE  FlowInv'
  <1>1. c \in Callers /\ c \notin Starters /\ p # "idle"
    BY DEF StartAssumption, Callers, StopPcs
  <1>2. pc'[c] = p /\ \A d \in Callers : d # c => pc[d] = "idle" /\ pc'[d] = "idle"
    BY <1>1, OnlyCall
  <1>3. \A d \in Starters : pc'[d] = "idle"
    BY <1>1, <1>2 DEF Callers
  <1>4. \A e \in Entries : ~Booting(e)
    <2>1. \A d \in Starters : pc[d] = "idle"
      BY <1>1, <1>2 DEF Callers
    <2> QED
      BY <2>1 DEF FlowInv, Launching
  <1>5. FlowTypes'
    BY <1>3 DEF FlowInv, FlowTypes
  <1>6. ShutdownFlags' /\ Launching'
    BY <1>1, <1>2, <1>3, <1>4 DEF ShutdownFlags, Launching, Booting, Callers
  <1>7. Alive' = Alive
    BY DEF Alive
  <1>8. Counts => Counts'
    BY <1>3, <1>4, <1>7 DEF Counts, Booting, Persistent
  <1>9. lost' \/ NothingRuns'
    BY <1>1, <1>2, <1>3, <1>7 DEF NothingRuns, Callers
  <1> QED
    BY <1>5, <1>6, <1>8, <1>9 DEF FlowInv

\* What a Stop in progress knows of the flags.
LEMMA InStopFlags ==
  ASSUME StartAssumption, IInv, FlowInv, NEW c \in Stoppers, pc[c] # "idle"
  PROVE  c \in Callers /\ started /\ ~stopped /\ (stopping <=> pc[c] # "mark")
  BY InStopFacts DEF FlowInv, ShutdownFlags

LEMMA BeginStopFlow ==
  ASSUME StartAssumption, Overlap = FALSE, IInv, FlowInv, NEW c \in Stoppers,
         NEW deadline \in Deadlines, BeginStop(c, deadline)
  PROVE  FlowInv'
  <1>1. \A d \in Callers : pc[d] = "idle"
    BY DEF BeginStop, MayStop, InProgress, IInv, InStop, Callers
  <1>2. /\ started /\ stopOnce = "fresh" /\ pc' = [pc EXCEPT ![c] = "mark"]
        /\ call' = [call EXCEPT ![c] = [NoCall EXCEPT !.deadline = deadline]]
        /\ UNCHANGED <<started, stopping, stopped, attempt, wg, wgDone, health, inst, boot, lost>>
    BY DEF BeginStop, MayStop, flagVars, fieldVars, chanVars, entryVars, instVars, ghostVars
  <1>3. ~stopped /\ ~stopping
    BY <1>1, <1>2 DEF FlowInv, ShutdownFlags, Callers
  <1>4. [NoCall EXCEPT !.deadline = deadline] \in CallRecords
    BY DEF NoCall, CallRecords, StartAssumption
  <1>5. call' \in [Callers -> CallRecords]
    BY <1>2, <1>4 DEF FlowInv, FlowTypes
  <1> QED
    BY <1>1, <1>2, <1>3, <1>5, StopFlow DEF StopPcs, HealthUp

LEMMA StopUnstartedFlow ==
  ASSUME FlowInv, NEW c \in Stoppers, StopUnstarted(c) PROVE FlowInv'
  <1>1. /\ stopOnce' = "done"
        /\ UNCHANGED <<started, stopping, stopped, attempt, wg, wgDone, health, inst, boot, pc,
                       call, lost>>
    BY DEF StopUnstarted, flagVars, fieldVars, chanVars, entryVars, instVars, callVars, ghostVars
  <1> QED
    BY <1>1 DEF FlowInv, FlowTypes, ShutdownFlags, Launching, Booting, Counts, HealthUp,
       NothingRuns, Alive

\* The steps that wait for nothing and end nothing.
LEMMA StopQuietFlow ==
  ASSUME StartAssumption, IInv, FlowInv, NEW c \in Stoppers,
         MarkStopping(c) \/ HaltHealth(c) \/ AwaitHealth(c) \/ CancelAll(c) \/ QuitLog(c)
  PROVE  FlowInv'
  <1> USE DEF MarkStopping, HaltHealth, AwaitHealth, CancelAll, QuitLog, CallOnly, flagVars,
              onceVars, fieldVars, chanVars, entryVars, instVars, ghostVars
  <1>1. pc[c] # "idle" /\ c \in Callers
    BY DEF Callers
  <1>2. /\ UNCHANGED <<started, stopped, attempt, wg, wgDone, inst, boot, lost>>
        /\ call' = call \/ call' = [call EXCEPT ![c].todo = Entries]
    OBVIOUS
  <1>3. HealthUp' = HealthUp
    BY DEF HealthUp
  <1>4. call' \in [Callers -> CallRecords]
    BY <1>1, <1>2, TodoTyped DEF FlowInv, FlowTypes
  <1>5. \/ pc[c] = "mark" /\ stopping'
        \/ pc[c] # "mark" /\ stopping' = stopping
    OBVIOUS
  <1>6. stopping'
    BY <1>1, <1>5, InStopFlags
  <1>7. PICK p \in {"halthealth", "healthwait", "cancel", "stops", "wait"} :
           pc' = [pc EXCEPT ![c] = p]
    OBVIOUS
  <1> QED
    BY <1>1, <1>2, <1>3, <1>4, <1>6, <1>7, InStopFlags, StopFlow DEF StopPcs

\* One entry leaves the todo of a Stop and may join its completed stops.
LEMMA EntryStopTyped ==
  ASSUME NEW f \in [Callers -> CallRecords], NEW g, NEW c \in Callers, NEW e \in Entries,
         NEW completed \in BOOLEAN,
         g = [f EXCEPT ![c].todo = @ \ {e}, ![c].completed = IF completed THEN @ \cup {e} ELSE @]
  PROVE  g \in [Callers -> CallRecords]
  <1> DEFINE r == [f[c] EXCEPT !.todo = @ \ {e},
                               !.completed = IF completed THEN @ \cup {e} ELSE @]
  <1>1. f[c] \in CallRecords
    OBVIOUS
  <1>2. g = [f EXCEPT ![c] = r]
    BY <1>1 DEF CallRecords
  <1>3. r \in CallRecords
    BY <1>1 DEF CallRecords
  <1> QED
    BY <1>2, <1>3

LEMMA StopEntryFlow ==
  ASSUME StartAssumption, IInv, FlowInv, NEW c \in Stoppers, NEW e \in Entries,
         NEW completed \in BOOLEAN, StopEntry(c, e, completed)
  PROVE  FlowInv'
  <1>1. /\ pc[c] = "stops" /\ c \in Callers
        /\ call' = [call EXCEPT ![c].todo = @ \ {e},
                                ![c].completed = IF completed THEN @ \cup {e} ELSE @]
        /\ UNCHANGED <<started, stopping, stopped, attempt, wg, wgDone, health, inst, boot, pc,
                       lost>>
    BY DEF StopEntry, Callers, flagVars, fieldVars, chanVars, instVars, ghostVars
  <1>2. call' \in [Callers -> CallRecords]
    <2>1. call \in [Callers -> CallRecords]
      BY DEF FlowInv, FlowTypes
    <2> QED
      BY <1>1, <2>1, EntryStopTyped
  <1>3. pc' = [pc EXCEPT ![c] = "stops"]
    BY <1>1 DEF IInv, Types
  <1> QED
    BY <1>1, <1>2, <1>3, InStopFlags, StopFlow DEF StopPcs, HealthUp

\* The verdict: the goroutines are gone, or the deadline has passed.
LEMMA VerdictFlow ==
  ASSUME StartAssumption, IsFiniteSet(Entries), IInv, FlowInv, NEW c \in Stoppers,
         Verify(c) \/ StopTimesOut(c)
  PROVE  FlowInv'
  <1> USE DEF Verify, StopTimesOut, flagVars, onceVars, fieldVars, chanVars, entryVars, instVars,
              ghostVars
  <1>1. /\ pc[c] = "wait" /\ pc' = [pc EXCEPT ![c] = "seal"]
        /\ UNCHANGED <<started, stopping, stopped, attempt, wg, wgDone, health, inst, boot, call>>
    OBVIOUS
  <1>2. /\ lost => lost'
        /\ wg = 0 \/ lost'
    OBVIOUS
  <1>3. lost' \/ Alive = {}
    BY <1>2, NoneLeft DEF FlowInv
  <1>4. call' \in [Callers -> CallRecords]
    BY <1>1 DEF FlowInv, FlowTypes
  <1> QED
    BY <1>1, <1>2, <1>3, <1>4, InStopFlags, StopFlow DEF StopPcs, HealthUp

LEMMA SealFlow ==
  ASSUME StartAssumption, IInv, FlowInv, NEW c \in Stoppers, Seal(c) PROVE FlowInv'
  <1>1. /\ pc[c] = "seal" /\ pc' = [pc EXCEPT ![c] = "idle"] /\ stopOnce' = "done" /\ ~stopping'
        /\ call' = [call EXCEPT ![c] = NoCall]
        /\ UNCHANGED <<started, attempt, wg, wgDone, health, inst, boot, lost>>
    BY DEF Seal, chanVars, fieldVars, entryVars, instVars
  <1>2. started /\ c \in Callers /\ c \notin Starters
    BY <1>1, InStopFacts DEF StartAssumption
  <1>3. \A d \in Callers : pc'[d] = "idle" /\ (d # c => pc[d] = "idle")
    BY <1>1, <1>2, OnlyCall
  <1>4. \A e \in Entries : ~Booting(e)
    BY <1>1, <1>2, NoBooting
  <1>5. NoCall \in CallRecords
    BY DEF NoCall, CallRecords
  <1>6. FlowTypes'
    BY <1>1, <1>3, <1>5 DEF FlowInv, FlowTypes, Callers
  <1>7. ShutdownFlags' /\ Launching'
    BY <1>1, <1>2, <1>3, <1>4 DEF ShutdownFlags, Launching, Booting, Callers
  <1>8. Alive' = Alive /\ HealthUp' = HealthUp
    BY <1>1 DEF Alive, HealthUp
  <1>9. Counts /\ NothingRuns => Counts' /\ NothingRuns'
    BY <1>1, <1>2, <1>3, <1>4, <1>8 DEF Counts, Booting, Persistent, NothingRuns, Callers
  <1> QED
    BY <1>1, <1>6, <1>7, <1>9 DEF FlowInv

LEMMA StopStepFlow ==
  ASSUME StartAssumption, IsFiniteSet(Entries), IInv, FlowInv, NEW c \in Stoppers,
         StopStep(c) \/ StopUnstarted(c)
  PROVE  FlowInv'
  BY StopUnstartedFlow, StopQuietFlow, StopEntryFlow, VerdictFlow, SealFlow DEF StopStep

-----------------------------------------------------------------------------
(* The goroutines of a level, of instances, of the log pump and of the health loop. *)

\* An entry under way: a Start is at its level, with the fields of its attempt.
LEMMA AtLevel ==
  ASSUME StartAssumption, IInv, FlowInv, NEW e \in Entries, Booting(e)
  PROVE  \E c \in Starters :
            /\ pc[c] = "boot" /\ started /\ octx = attempt /\ attempt \in Attempts
            /\ \A d \in Callers : d # c => pc[d] = "idle"
  <1>1. PICK c \in Starters : pc[c] = "boot"
    BY DEF FlowInv, Launching
  <1>2. /\ c \in Callers /\ started /\ octx = attempt /\ attempt > 0 /\ attempt \in Nat
    BY <1>1, InStartFacts
  <1>3. attempt \in Attempts
    BY <1>2 DEF FlowInv, FlowTypes, Attempts, StartAssumption
  <1>4. \A d \in Callers : d # c => pc[d] = "idle"
    BY <1>1, <1>2 DEF IInv, OneCall
  <1> QED
    BY <1>1, <1>2, <1>3, <1>4

\* Before the launch and after it.
LEMMA BootFlow ==
  ASSUME StartAssumption, FlowInv, NEW e \in Persistent,
         \/ CheckDeps(e) \/ Boot(e) \/ Settle(e) \/ StartTimesOut(e)
         \/ \E result \in {"ok", "failed"} : BootRefused(e, result)
  PROVE  FlowInv'
  <1>1. UNCHANGED <<started, stopping, stopped, stopOnce, attempt, wg, wgDone, health, inst, pc,
                    call, lost>>
    BY DEF CheckDeps, Boot, Settle, StartTimesOut, BootRefused, flagVars, onceVars, fieldVars,
           chanVars, instVars, ghostVars
  <1>2. \E s \in BootStages : /\ boot' = [boot EXCEPT ![e] = s]
                              /\ s \in {"check", "begin", "launch"} => Booting(e)
    BY DEF CheckDeps, Boot, Settle, StartTimesOut, BootRefused, Booting, BootStages
  <1>3. e \in Entries
    BY DEF Persistent
  <1>4. boot' \in [Entries -> BootStages] /\ \A d \in Entries : Booting(d)' => Booting(d)
    BY <1>2, <1>3 DEF Booting, FlowInv, FlowTypes
  <1>5. FlowTypes' /\ ShutdownFlags'
    BY <1>1, <1>4 DEF FlowInv, FlowTypes, ShutdownFlags
  <1>6. Launching'
    BY <1>1, <1>4 DEF FlowInv, Launching
  <1>7. Alive' = Alive /\ HealthUp' = HealthUp
    BY <1>1 DEF Alive, HealthUp
  <1>8. Counts /\ FlowTypes => Counts'
    <2>1. Counts /\ FlowTypes => \A c \in Starters : \A d \in call[c].todo : d \in Entries
      BY DEF FlowTypes, Callers, CallRecords
    <2> QED
      BY <1>1, <1>4, <1>7, <2>1 DEF Counts, Persistent
  <1>9. NothingRuns => NothingRuns'
    BY <1>1, <1>7 DEF NothingRuns
  <1> QED
    BY <1>1, <1>5, <1>6, <1>8, <1>9 DEF FlowInv

LEMMA LaunchFlow ==
  ASSUME StartAssumption, IsFiniteSet(Entries), IInv, FlowInv, NEW e \in Persistent, Launch(e)
  PROVE  FlowInv' /\ Alive' = Alive \cup {e}
  <1>1. /\ wgDone' = wgDone \ {e} /\ wg' = wg + 1
        /\ inst' = [inst EXCEPT ![e][octx] = "run"] /\ boot' = [boot EXCEPT ![e] = "settle"]
        /\ UNCHANGED <<started, stopping, stopped, stopOnce, attempt, health, pc, call, lost>>
    BY DEF Launch, flagVars, onceVars, chanVars, ghostVars
  <1>2. e \in Entries /\ Booting(e)
    BY DEF Persistent, Launch, Booting
  <1>3. PICK c \in Starters :
            /\ pc[c] = "boot" /\ started /\ octx = attempt /\ attempt \in Attempts
            /\ \A d \in Callers : d # c => pc[d] = "idle"
    BY <1>2, AtLevel
  <1>4. /\ inst \in [Entries -> [Attempts -> {"none", "run"} \cup Ends]]
        /\ boot \in [Entries -> BootStages]
    BY DEF FlowInv, FlowTypes
  <1>5. /\ inst' \in [Entries -> [Attempts -> {"none", "run"} \cup Ends]]
        /\ \A d \in Entries, a \in Attempts :
              inst'[d][a] = IF d = e /\ a = attempt THEN "run" ELSE inst[d][a]
    BY <1>1, <1>2, <1>3, <1>4
  <1>6. /\ boot' \in [Entries -> BootStages]
        /\ \A d \in Entries : Booting(d)' <=> d # e /\ Booting(d)
    BY <1>1, <1>2, <1>4 DEF Booting, BootStages
  <1>7. FlowTypes' /\ ShutdownFlags' /\ Launching'
    BY <1>1, <1>5, <1>6 DEF FlowInv, FlowTypes, ShutdownFlags, Launching
  <1>8. Alive' = Alive \cup {e}
    <2>1. \A d \in Persistent : d \in Entries
      BY DEF Persistent
    <2>2. \A d : d \in Alive' <=> d \in Alive \/ d = e
      BY <1>3, <1>5, <2>1 DEF Alive
    <2> QED
      BY <2>2
  <1>9. ASSUME Counts, NothingRuns PROVE Counts' /\ NothingRuns'
    <2>1. e \notin Alive
      BY <1>2, <1>9 DEF Counts
    <2>2. Cardinality(Alive') = Cardinality(Alive) + 1 /\ Cardinality(Alive) \in Nat
      BY <1>8, <2>1, AliveFinite, FS_AddElement
    <2>3. wg' = Cardinality(Alive') + HealthUp'
      BY <1>1, <1>9, <2>2 DEF Counts, HealthUp
    <2>4. \A d \in Persistent, a \in Attempts :
             inst'[d][a] = "run" => a = attempt /\ d \notin wgDone'
      BY <1>1, <1>5, <1>9 DEF Counts, Persistent
    <2>5. \A d \in Persistent : Booting(d)' => d \notin Alive'
      BY <1>6, <1>8, <1>9 DEF Counts, Persistent
    <2>6. \A d \in Starters : pc'[d] \in {"levels", "boot"} => d = c
      BY <1>1, <1>3 DEF Callers
    <2>7. \A d \in call[c].todo : d \in Entries /\ d \notin Alive /\ ~Booting(d)
      BY <1>3, <1>9 DEF Counts, FlowInv, FlowTypes, CallRecords, Callers
    <2>8. Counts'
      BY <1>1, <1>2, <1>6, <1>8, <2>3, <2>4, <2>5, <2>6, <2>7 DEF Counts
    <2>9. NothingRuns'
      BY <1>1, <1>3, <1>9 DEF NothingRuns, Callers, StartAssumption
    <2> QED
      BY <2>8, <2>9
  <1> QED
    BY <1>1, <1>7, <1>8, <1>9 DEF FlowInv

LEMMA ExitFlow ==
  ASSUME StartAssumption, IsFiniteSet(Entries), IInv, FlowInv, NEW e \in Persistent,
         NEW a \in Attempts, NEW how \in Ends, Exit(e, a, how)
  PROVE  FlowInv' /\ (Alive' = Alive \/ (e \in Alive /\ Alive' = Alive \ {e}))
  <1>1. /\ inst[e][a] = "run" /\ inst' = [inst EXCEPT ![e][a] = how]
        /\ wg' = IF e \in wgDone THEN wg ELSE wg - 1
        /\ wgDone' = wgDone \cup {e}
        /\ UNCHANGED <<started, stopping, stopped, stopOnce, attempt, health, boot, pc, call,
                       lost>>
    BY DEF Exit, flagVars, onceVars, chanVars, callVars, ghostVars
  <1>2. e \in Entries /\ how \in {"none", "run"} \cup Ends /\ how # "run"
    BY DEF Persistent, Ends
  <1>3. inst \in [Entries -> [Attempts -> {"none", "run"} \cup Ends]]
    BY DEF FlowInv, FlowTypes
  <1>4. /\ inst' \in [Entries -> [Attempts -> {"none", "run"} \cup Ends]]
        /\ \A d \in Entries, b \in Attempts :
              inst'[d][b] = IF d = e /\ b = a THEN how ELSE inst[d][b]
    BY <1>1, <1>2, <1>3
  <1>5. FlowTypes' /\ ShutdownFlags' /\ Launching'
    BY <1>1, <1>4 DEF FlowInv, FlowTypes, ShutdownFlags, Launching, Booting
  <1>6. e \in Alive
    BY <1>1 DEF Alive
  <1>7. \A d : d # e => (d \in Alive' <=> d \in Alive)
    <2>1. \A d \in Persistent : d \in Entries
      BY DEF Persistent
    <2> QED
      BY <1>4, <2>1 DEF Alive
  <1>8. Alive' = Alive \/ Alive' = Alive \ {e}
    <2>1. CASE e \in Alive'
      <3>1. \A d : d \in Alive' <=> d \in Alive
        BY <1>6, <1>7, <2>1
      <3> QED
        BY <3>1
    <2>2. CASE e \notin Alive'
      <3>1. \A d : d \in Alive' <=> d \in Alive \ {e}
        BY <1>6, <1>7, <2>2
      <3> QED
        BY <3>1
    <2> QED
      BY <2>1, <2>2
  <1>9. ASSUME Counts, NothingRuns PROVE Counts' /\ NothingRuns'
    <2>1. a = attempt /\ e \notin wgDone
      BY <1>1, <1>9 DEF Counts
    <2>2. e \notin Alive'
      BY <1>2, <1>4, <1>9, <2>1 DEF Alive, Counts
    <2>3. Alive' = Alive \ {e}
      BY <1>8, <2>2
    <2>4. Cardinality(Alive') = Cardinality(Alive) - 1 /\ Cardinality(Alive) \in Nat
      BY <1>6, <2>3, AliveFinite, FS_RemoveElement
    <2>5. wg' = Cardinality(Alive') + HealthUp'
      BY <1>1, <1>9, <2>1, <2>4 DEF Counts, HealthUp
    <2>6. \A d \in Persistent, b \in Attempts :
             inst'[d][b] = "run" => b = attempt /\ d \notin wgDone'
      BY <1>1, <1>2, <1>4, <1>9, <2>1 DEF Counts, Persistent
    <2>7. Counts'
      BY <1>1, <1>9, <2>3, <2>5, <2>6 DEF Counts, Booting
    <2>8. NothingRuns'
      BY <1>1, <1>9, <2>3 DEF NothingRuns
    <2> QED
      BY <2>7, <2>8
  <1> QED
    BY <1>1, <1>5, <1>6, <1>8, <1>9 DEF FlowInv

LEMMA HealthExitFlow ==
  ASSUME StartAssumption, IsFiniteSet(Entries), FlowInv, HealthExit PROVE FlowInv'
  <1>1. /\ health = "quit" /\ health' = "exited" /\ wg' = wg - 1
        /\ UNCHANGED <<started, stopping, stopped, stopOnce, attempt, wgDone, inst, boot, pc, call,
                       lost>>
    BY DEF HealthExit, flagVars, onceVars, chanVars, entryVars, instVars, callVars, ghostVars
  <1>2. FlowTypes' /\ ShutdownFlags' /\ Launching' /\ Alive' = Alive
    BY <1>1 DEF FlowInv, FlowTypes, ShutdownFlags, Launching, Booting, Alive
  <1>3. ASSUME Counts, NothingRuns PROVE Counts' /\ NothingRuns'
    <2>1. wg' = Cardinality(Alive) + HealthUp'
      BY <1>1, <1>3, AliveFinite DEF Counts, HealthUp
    <2>2. Counts'
      BY <1>1, <1>2, <1>3, <2>1 DEF Counts, Booting
    <2>3. NothingRuns'
      BY <1>1, <1>2, <1>3 DEF NothingRuns
    <2> QED
      BY <2>2, <2>3
  <1> QED
    BY <1>1, <1>2, <1>3 DEF FlowInv

LEMMA PumpExitFlow == ASSUME FlowInv, NEW a \in Attempts, PumpExit(a) PROVE FlowInv'
  <1>1. UNCHANGED flowVars
    BY DEF PumpExit, flowVars, flagVars, onceVars, fieldVars, entryVars, instVars, callVars,
           ghostVars
  <1> QED
    BY <1>1, FlowKept

LEMMA NextFlow ==
  ASSUME StartAssumption, Overlap = FALSE, IsFiniteSet(Entries), IInv, FlowInv, [Next]_vars
  PROVE  FlowInv'
  <1>1. CASE \E c \in Starters : Claim(c) \/ StartStep(c)
    BY <1>1, StartStepFlow
  <1>2. CASE \E e \in Persistent : BootStep(e)
    BY <1>2, BootFlow, LaunchFlow DEF BootStep
  <1>3. CASE \E e \in Persistent : ExitStep(e)
    BY <1>3, ExitFlow DEF ExitStep
  <1>4. CASE \E c \in Stoppers : StopStep(c) \/ StopUnstarted(c)
    BY <1>4, StopStepFlow
  <1>5. CASE \E c \in Stoppers, deadline \in Deadlines : BeginStop(c, deadline)
    BY <1>5, BeginStopFlow
  <1>6. CASE UNCHANGED vars
    BY <1>6, FlowKept DEF vars, flowVars, flagVars, onceVars, fieldVars, chanVars, entryVars,
       instVars, callVars, ghostVars
  <1> QED
    BY <1>1, <1>2, <1>3, <1>4, <1>5, <1>6, PumpExitFlow, HealthExitFlow DEF Next

-----------------------------------------------------------------------------
(* The refinement. *)

\* The phase, by the call in progress.
LEMMA StartPhase ==
  ASSUME StartAssumption, IInv, FlowInv, NEW c \in Starters, pc[c] # "idle"
  PROVE  Phase = "starting"
  <1>1. \A d \in Stoppers : pc[d] = "idle"
    BY DEF IInv, OneCall, StartAssumption, Callers
  <1>2. ~stopped /\ ~stopping /\ InProgress
    BY <1>1 DEF FlowInv, ShutdownFlags, InProgress
  <1> QED
    BY <1>2 DEF Phase

LEMMA StopPhase ==
  ASSUME StartAssumption, IInv, FlowInv, NEW c \in Stoppers, pc[c] # "idle"
  PROVE  Phase = IF pc[c] = "mark" THEN "up" ELSE "stopping"
  <1>1. ~InProgress
    BY DEF IInv, OneCall, StartAssumption, Callers, InProgress
  <1> QED
    BY <1>1, InStopFlags DEF Phase

\* The next phase of a step of Start that is not its end, and of a step of Stop
\* before its end.
LEMMA InStartNext ==
  ASSUME StartAssumption, IInv, FlowInv, NEW c \in Starters, pc[c] # "idle",
         pc'[c] # "idle", UNCHANGED <<stopping, stopped>>
  PROVE  Phase' = "starting"
  <1>1. ~stopped /\ ~stopping
    BY DEF IInv, OneCall, StartAssumption, Callers, FlowInv, ShutdownFlags
  <1> QED
    BY <1>1 DEF Phase, InProgress

LEMMA InStopNext ==
  ASSUME StartAssumption, IInv, NEW c \in Stoppers, NEW p \in StopPcs,
         pc[c] # "idle", pc' = [pc EXCEPT ![c] = p]
  PROVE  ~InProgress'
  <1>1. c \in Callers /\ c \notin Starters
    BY DEF StartAssumption, Callers
  <1>2. \A d \in Callers : d # c => pc'[d] = "idle"
    BY <1>1, OnlyCall
  <1> QED
    BY <1>1, <1>2 DEF InProgress, Callers

Stutters == UNCHANGED <<Phase, Alive, nils, lost>>
PhasesStep == Phases!Next \/ Stutters

\* The steps of Start.
LEMMA ClaimMaps ==
  ASSUME StartAssumption, IInv, FlowInv, NEW c \in Starters, Claim(c) PROVE Phases!Begin
  <1>1. \A d \in Callers : pc[d] = "idle"
    BY DEF Claim, IInv, InStart, InStop, Callers
  <1>2. /\ ~started /\ pc' = [pc EXCEPT ![c] = "once"] /\ c \in Callers
        /\ UNCHANGED <<started, stopping, stopped, inst, nils, lost>>
    BY DEF Claim, instVars, ghostVars, Callers
  <1>3. ~stopped /\ ~stopping /\ ~InProgress
    BY <1>1, <1>2 DEF FlowInv, ShutdownFlags, InProgress, Callers
  <1>4. Phase = "new"
    BY <1>2, <1>3 DEF Phase
  <1>5. pc'[c] = "once"
    BY <1>2 DEF IInv, Types
  <1>6. InProgress'
    BY <1>5 DEF InProgress
  <1>7. Phase' = "starting" /\ Alive' = Alive
    BY <1>2, <1>3, <1>6 DEF Phase, Alive
  <1> QED
    BY <1>2, <1>4, <1>7 DEF Phases!Begin

LEMMA StartHealthMaps ==
  ASSUME StartAssumption, IInv, FlowInv, NEW c \in Starters, StartHealth(c)
  PROVE  Phases!Succeed
  <1>1. /\ pc[c] = "levels" /\ pc' = [pc EXCEPT ![c] = "idle"] /\ nils' = nils + 1
        /\ UNCHANGED <<started, stopping, stopped, inst, lost>>
    BY DEF StartHealth, flagVars, instVars
  <1>2. c \in Callers /\ started /\ nils = 0
    BY <1>1, InStartFacts
  <1>3. \A d \in Callers : pc'[d] = "idle"
    BY <1>1, <1>2, OnlyCall
  <1>4. Phase = "starting"
    BY <1>1, StartPhase
  <1>5. ~stopped /\ ~stopping
    BY <1>1 DEF IInv, OneCall, StartAssumption, Callers, FlowInv, ShutdownFlags
  <1>6. ~InProgress'
    BY <1>3 DEF InProgress, Callers
  <1>7. Phase' = "up" /\ Alive' = Alive /\ nils' = 1
    BY <1>1, <1>2, <1>5, <1>6 DEF Phase, Alive
  <1> QED
    BY <1>1, <1>2, <1>4, <1>7 DEF Phases!Succeed

LEMMA ResetMaps ==
  ASSUME StartAssumption, IInv, FlowInv, NEW c \in Starters, Reset(c) PROVE Phases!Fail
  <1>1. /\ pc[c] = "reset" /\ pc' = [pc EXCEPT ![c] = "idle"]
        /\ ~started' /\ ~stopping' /\ ~stopped' /\ UNCHANGED <<inst, nils, lost>>
    BY DEF Reset, instVars, ghostVars
  <1>2. \A d \in Callers : pc'[d] = "idle"
    BY <1>1, OnlyCall DEF Callers
  <1>3. ~InProgress'
    BY <1>2 DEF InProgress, Callers
  <1>4. Phase' = "new" /\ Alive' = Alive
    BY <1>1, <1>3 DEF Phase, Alive
  <1>5. Phase = "starting"
    BY <1>1, StartPhase
  <1>6. Alive = {} \/ lost
    BY <1>1 DEF FlowInv, NothingRuns
  <1> QED
    BY <1>1, <1>4, <1>5, <1>6 DEF Phases!Fail

LEMMA GiveUpMaps ==
  ASSUME StartAssumption, IInv, FlowInv, NEW c \in Starters, GiveUp(c) PROVE Phases!Abandon
  <1>1. /\ pc[c] \in {"await", "pump"} /\ lost' = TRUE
        /\ pc' = [pc EXCEPT ![c] = IF @ = "await" THEN "pump" ELSE "reset"]
        /\ UNCHANGED <<stopping, stopped, inst, nils>>
    BY DEF GiveUp, flagVars, instVars
  <1>2. pc'[c] # "idle"
    BY <1>1 DEF IInv, Types, Callers
  <1>3. Phase = "starting" /\ Phase' = "starting" /\ Alive' = Alive
    BY <1>1, <1>2, StartPhase, InStartNext DEF Alive
  <1> QED
    BY <1>1, <1>3 DEF Phases!Abandon

LEMMA StartStepMaps ==
  ASSUME StartAssumption, IInv, FlowInv, NEW c \in Starters, StartStep(c)
  PROVE  PhasesStep
  <1>1. CASE StartHealth(c) \/ Reset(c) \/ GiveUp(c)
    BY <1>1, StartHealthMaps, ResetMaps, GiveUpMaps DEF PhasesStep, Phases!Next
  <1>2. CASE ~(StartHealth(c) \/ Reset(c) \/ GiveUp(c))
    <2>1. /\ pc[c] # "idle" /\ UNCHANGED <<stopping, stopped, inst, nils, lost>>
          /\ pc' = pc \/ \E p \in StartPcs : pc' = [pc EXCEPT ![c] = p]
      BY <1>2 DEF StartStep, EnterOnce, SetupCron, CronFails, CronPump, GateRefused, GateSkipped,
         RunGate, GatePasses, GateFails, GatesDone, BeginLevel, EndLevel, LevelDone, LevelFails,
         RollbackEntry, RollbackDone, Unload, CloseQuit, AwaitInstances, AwaitPump, CallOnly,
         LeaveOnce, flagVars, instVars, ghostVars, StartPcs
    <2>2. pc'[c] # "idle"
      BY <2>1 DEF IInv, Types, Callers, StartPcs
    <2>3. Phase' = Phase /\ Alive' = Alive
      BY <2>1, <2>2, StartPhase, InStartNext DEF Alive
    <2> QED
      BY <2>1, <2>3 DEF PhasesStep, Stutters
  <1> QED
    BY <1>1, <1>2

\* The steps of Stop.
LEMMA SealMaps ==
  ASSUME StartAssumption, IInv, FlowInv, NEW c \in Stoppers, Seal(c) PROVE Phases!Finish
  <1>1. pc[c] = "seal" /\ stopped' /\ UNCHANGED <<inst, nils, lost>>
    BY DEF Seal, instVars
  <1>2. Phase = "stopping" /\ Phase' = "down" /\ Alive' = Alive
    BY <1>1, StopPhase DEF Phase, Alive
  <1>3. Alive = {} \/ lost
    BY <1>1 DEF FlowInv, NothingRuns
  <1> QED
    BY <1>1, <1>2, <1>3 DEF Phases!Finish

LEMMA StopStepMaps ==
  ASSUME StartAssumption, IInv, FlowInv, NEW c \in Stoppers, StopStep(c)
  PROVE  PhasesStep
  <1>1. CASE Seal(c)
    BY <1>1, SealMaps DEF PhasesStep, Phases!Next
  <1>2. CASE MarkStopping(c)
    <2>1. /\ pc[c] = "mark" /\ pc' = [pc EXCEPT ![c] = "halthealth"] /\ "halthealth" \in StopPcs
          /\ stopping' /\ UNCHANGED <<stopped, inst, nils, lost>>
      BY <1>2 DEF MarkStopping, instVars, ghostVars, StopPcs
    <2>2. Phase = "up" /\ ~stopped /\ ~InProgress'
      BY <2>1, StopPhase, InStopFlags, InStopNext
    <2>3. Phase' = "stopping" /\ Alive' = Alive
      BY <2>1, <2>2 DEF Phase, Alive
    <2> QED
      BY <2>1, <2>2, <2>3 DEF PhasesStep, Phases!Next, Phases!Halt
  <1>3. CASE StopTimesOut(c)
    <2>1. /\ pc[c] = "wait" /\ pc' = [pc EXCEPT ![c] = "seal"] /\ "seal" \in StopPcs
          /\ lost' = TRUE /\ UNCHANGED <<stopping, stopped, inst, nils>>
      BY <1>3 DEF StopTimesOut, flagVars, instVars, StopPcs
    <2>2. Phase = "stopping" /\ ~stopped /\ stopping
      BY <2>1, StopPhase, InStopFlags
    <2>3. Phase' = "stopping" /\ Alive' = Alive
      BY <2>1, <2>2 DEF Phase, Alive
    <2> QED
      BY <2>1, <2>2, <2>3 DEF PhasesStep, Phases!Next, Phases!Abandon
  <1>4. CASE \/ HaltHealth(c) \/ AwaitHealth(c) \/ CancelAll(c) \/ QuitLog(c) \/ Verify(c)
             \/ \E e \in Entries, completed \in BOOLEAN : StopEntry(c, e, completed)
    <2>1. /\ pc[c] \notin {"idle", "mark"} /\ UNCHANGED <<stopping, stopped, inst, nils, lost>>
      BY <1>4 DEF HaltHealth, AwaitHealth, CancelAll, QuitLog, CloseQuit, Verify, StopEntry,
         CallOnly, flagVars, instVars, ghostVars
    <2>2. Phase = "stopping" /\ ~stopped /\ stopping
      BY <2>1, StopPhase, InStopFlags
    <2>3. Phase' = "stopping" /\ Alive' = Alive
      BY <2>1, <2>2 DEF Phase, Alive
    <2> QED
      BY <2>1, <2>2, <2>3 DEF PhasesStep, Stutters
  <1> QED
    BY <1>1, <1>2, <1>3, <1>4 DEF StopStep

\* Calls of Stop begin with no Start in progress, or with nothing to stop.
LEMMA StopCallMaps ==
  ASSUME StartAssumption, Overlap = FALSE, IInv, FlowInv, NEW c \in Stoppers,
         StopUnstarted(c) \/ \E deadline \in Deadlines : BeginStop(c, deadline)
  PROVE  PhasesStep
  <1>1. /\ ~InProgress /\ UNCHANGED <<started, stopping, stopped, inst, nils, lost>>
        /\ pc' = pc \/ pc' = [pc EXCEPT ![c] = "mark"]
    BY DEF StopUnstarted, BeginStop, MayStop, flagVars, instVars, callVars, ghostVars
  <1>2. \A d \in Starters : pc'[d] = pc[d]
    BY <1>1 DEF StartAssumption, IInv, Types, Callers
  <1>3. ~InProgress'
    BY <1>1, <1>2 DEF InProgress
  <1>4. Phase' = Phase /\ Alive' = Alive
    BY <1>1, <1>3 DEF Phase, Alive
  <1> QED
    BY <1>1, <1>4 DEF PhasesStep, Stutters

\* The steps of the other goroutines leave the phase as it is.
LEMMA OtherPhase ==
  ASSUME UNCHANGED <<started, stopping, stopped, pc>> PROVE Phase' = Phase
  BY DEF Phase, InProgress

LEMMA BootMaps ==
  ASSUME StartAssumption, IsFiniteSet(Entries), IInv, FlowInv, NEW e \in Persistent,
         BootStep(e)
  PROVE  PhasesStep
  <1>1. CASE Launch(e)
    <2>1. UNCHANGED <<started, stopping, stopped, pc, nils, lost>>
      BY <1>1 DEF Launch, flagVars, ghostVars
    <2>2. e \in Entries /\ Booting(e)
      BY <1>1 DEF Persistent, Launch, Booting
    <2>3. Phase = "starting"
      BY <2>2, AtLevel, StartPhase
    <2>4. Alive' = Alive \cup {e} /\ Phase' = Phase
      BY <1>1, <2>1, LaunchFlow, OtherPhase
    <2>5. Phases!Run(e)
      BY <2>1, <2>3, <2>4 DEF Phases!Run
    <2> QED
      BY <2>5 DEF PhasesStep, Phases!Next
  <1>2. CASE \/ CheckDeps(e) \/ Boot(e) \/ Settle(e) \/ StartTimesOut(e)
             \/ \E result \in {"ok", "failed"} : BootRefused(e, result)
    <2>1. UNCHANGED <<started, stopping, stopped, pc, inst, nils, lost>>
      BY <1>2 DEF CheckDeps, Boot, Settle, StartTimesOut, BootRefused, flagVars, instVars,
         ghostVars
    <2>2. Phase' = Phase /\ Alive' = Alive
      BY <2>1, OtherPhase DEF Alive
    <2> QED
      BY <2>1, <2>2 DEF PhasesStep, Stutters
  <1> QED
    BY <1>1, <1>2 DEF BootStep

LEMMA ExitMaps ==
  ASSUME StartAssumption, IsFiniteSet(Entries), IInv, FlowInv, NEW e \in Persistent,
         ExitStep(e)
  PROVE  PhasesStep
  <1>1. PICK a \in Attempts, how \in Ends : Exit(e, a, how)
    BY DEF ExitStep
  <1>2. UNCHANGED <<started, stopping, stopped, pc, nils, lost>>
    BY <1>1 DEF Exit, flagVars, callVars, ghostVars
  <1>3. Phase' = Phase
    BY <1>2, OtherPhase
  <1>4. CASE Alive' = Alive
    BY <1>2, <1>3, <1>4 DEF PhasesStep, Stutters
  <1>5. CASE e \in Alive /\ Alive' = Alive \ {e}
    <2>1. Phases!End(e)
      BY <1>2, <1>3, <1>5 DEF Phases!End
    <2> QED
      BY <2>1 DEF PhasesStep, Phases!Next
  <1> QED
    BY <1>1, <1>4, <1>5, ExitFlow

LEMMA StepMaps ==
  ASSUME StartAssumption, Overlap = FALSE, IsFiniteSet(Entries), IInv, FlowInv, [Next]_vars
  PROVE  PhasesStep
  <1>1. CASE \E c \in Starters : Claim(c) \/ StartStep(c)
    BY <1>1, ClaimMaps, StartStepMaps DEF PhasesStep, Phases!Next
  <1>2. CASE \E e \in Persistent : BootStep(e) \/ ExitStep(e)
    BY <1>2, BootMaps, ExitMaps
  <1>3. CASE \E c \in Stoppers : StopStep(c) \/ StopUnstarted(c)
    BY <1>3, StopStepMaps, StopCallMaps
  <1>4. CASE \E c \in Stoppers, deadline \in Deadlines : BeginStop(c, deadline)
    BY <1>4, StopCallMaps
  <1>5. CASE (\E a \in Attempts : PumpExit(a)) \/ HealthExit \/ UNCHANGED vars
    <2>1. UNCHANGED <<started, stopping, stopped, pc, inst, nils, lost>>
      BY <1>5 DEF PumpExit, HealthExit, vars, flagVars, instVars, callVars, ghostVars
    <2>2. Phase' = Phase /\ Alive' = Alive
      BY <2>1, OtherPhase DEF Alive
    <2> QED
      BY <2>1, <2>2 DEF PhasesStep, Stutters
  <1> QED
    BY <1>1, <1>2, <1>3, <1>4, <1>5 DEF Next

\* Start and Stop keep the single-shot lifecycle with its retries
\* (lifecycle.go:929-944, 1261-1268) when no Stop is called during a Start: one
\* nil in all, services begin to run only inside Start, and nothing is left running
\* by a Start that failed or a Stop that did not time out.
THEOREM LifecycleRefined ==
  ASSUME StartAssumption, Overlap = FALSE, IsFiniteSet(Entries) PROVE Spec => LifecycleSpec
  <1>1. Init => Phases!Init
    BY DEF Init, Phases!Init, Phase, InProgress, Alive, Persistent, Callers
  <1>2. Init => IInv /\ FlowInv
    BY InitInv, FlowInit
  <1>3. IInv /\ FlowInv /\ [Next]_vars => IInv' /\ FlowInv'
    BY NextInv, NextFlow
  <1>4. IInv /\ FlowInv /\ [Next]_vars => [Phases!Next]_(Phases!phaseVars)
    BY StepMaps DEF PhasesStep, Stutters, Phases!phaseVars
  <1> QED
    BY <1>1, <1>2, <1>3, <1>4, PTL DEF Spec, LifecycleSpec, Phases!Spec

-----------------------------------------------------------------------------
(***************************************************************************)
(* The types, also when Start and Stop overlap: what keeps the attempt     *)
(* number in its bounds and the wait group above zero.                     *)
(***************************************************************************)

\* The instances that run, those of earlier attempts included.
Running == {x \in Entries \X Attempts : inst[x[1]][x[2]] = "run"}

\* TypeOK by component.
FlagsTyped ==
    /\ started \in BOOLEAN /\ claimed \in BOOLEAN /\ stopping \in BOOLEAN
    /\ stopped \in BOOLEAN /\ shutdownDone \in BOOLEAN
    /\ startOnce \in {"fresh", "running", "done"}
    /\ stopOnce \in {"fresh", "running", "done"}
    /\ nils \in Nat /\ lost \in BOOLEAN /\ panicked \in BOOLEAN
FieldsTyped ==
    /\ octx \in 0 .. MaxAttempts /\ logQuit \in 0 .. MaxAttempts
    /\ health \in {"none", "run", "quit", "exited"} /\ attempt \in 0 .. MaxAttempts
    /\ deadCtx \subseteq Attempts /\ quitClosed \subseteq Attempts
    /\ pump \in [Attempts -> {"none", "run", "exited"}]
EntriesTyped ==
    /\ status \in [Entries -> Statuses]
    /\ starting \subseteq Entries /\ wgDone \subseteq Entries
    /\ teardown \in [Entries -> 0 .. MaxAttempts]
    /\ inst \in [Entries -> [Attempts -> {"none", "run"} \cup Ends]]
    /\ cut \subseteq Entries \X Attempts /\ timed \subseteq Entries
    /\ boot \in [Entries -> BootStages]
CallsTyped ==
    /\ pc \in [Callers -> {"idle"} \cup StartPcs \cup StopPcs]
    /\ call \in [Callers -> CallRecords]

LEMMA TypeParts ==
  /\ TypeOK <=> FlagsTyped /\ FieldsTyped /\ EntriesTyped /\ CallsTyped /\ wg \in Nat
  /\ TypeOK' <=> FlagsTyped' /\ FieldsTyped' /\ EntriesTyped' /\ CallsTyped' /\ wg' \in Nat
  BY DEF TypeOK, FlagsTyped, FieldsTyped, EntriesTyped, CallsTyped

\* One Start at a time, which holds the claim, and an attempt number for the one
\* that has yet to enter; nothing is started before the first attempt.
OneStart ==
    /\ \A c, d \in Starters : pc[c] # "idle" /\ pc[d] # "idle" => c = d
    /\ \A c \in Starters : pc[c] # "idle" => claimed
    /\ \A c \in Starters : pc[c] = "once" => attempt < MaxAttempts
    /\ \A c \in Starters : pc[c] \in {"idle"} \cup StartPcs
    /\ \A c \in Stoppers : pc[c] \in {"idle"} \cup StopPcs
    /\ attempt = 0 => /\ \A c \in Starters : pc[c] \in {"idle", "once"}
                      /\ \A e \in Entries : boot[e] = "none"

\* The wait group is never below what has yet to release it.
Covered == wg \in Nat /\ wg >= Cardinality(Running) + HealthUp

TypeInv == FlagsTyped /\ FieldsTyped /\ EntriesTyped /\ CallsTyped /\ OneStart /\ Covered

LEMMA RunningFinite ==
  ASSUME StartAssumption, IsFiniteSet(Entries)
  PROVE  IsFiniteSet(Running) /\ Cardinality(Running) \in Nat
  <1>1. IsFiniteSet(Attempts)
    BY FS_Interval DEF Attempts, StartAssumption
  <1>2. IsFiniteSet(Entries \X Attempts)
    BY <1>1, FS_Product
  <1>3. IsFiniteSet(Running)
    BY <1>2, FS_Subset DEF Running
  <1> QED
    BY <1>3, FS_CardinalityType

LEMMA TypeInvInit == ASSUME StartAssumption, Init PROVE TypeInv
  <1>1. FlagsTyped
    BY DEF Init, FlagsTyped
  <1>2. FieldsTyped
    BY DEF Init, FieldsTyped, StartAssumption
  <1>3. EntriesTyped
    BY DEF Init, EntriesTyped, Statuses, BootStages, StartAssumption
  <1>4. CallsTyped
    BY DEF Init, CallsTyped, CallRecords, NoCall
  <1>5. OneStart
    BY DEF Init, OneStart, Callers, StartAssumption
  <1>6. Running = {}
    BY DEF Init, Running
  <1>7. Covered
    BY <1>6, FS_EmptySet DEF Init, Covered, HealthUp
  <1> QED
    BY <1>1, <1>2, <1>3, <1>4, <1>5, <1>7 DEF TypeInv

\* A step of a call of Start.
LEMMA StartTypes ==
  ASSUME StartAssumption, TypeInv, NEW c \in Starters, Claim(c) \/ StartStep(c)
  PROVE  FlagsTyped' /\ FieldsTyped' /\ EntriesTyped'
  <1> USE DEF flagVars, onceVars, fieldVars, chanVars, entryVars, instVars, callVars, ghostVars,
              LeaveOnce, CallOnly, ResetEntries, LevelDone, CloseQuit
  <1> DEFINE Typed == FlagsTyped' /\ FieldsTyped' /\ EntriesTyped'
  <1>1. CASE Claim(c)
    BY <1>1 DEF Claim, TypeInv, FlagsTyped, FieldsTyped, EntriesTyped
  <1>2. CASE EnterOnce(c)
    <2>1. attempt + 1 \in Attempts
      BY <1>2 DEF EnterOnce, TypeInv, OneStart, FieldsTyped, Attempts, StartAssumption
    <2> QED
      BY <1>2, <2>1 DEF EnterOnce, TypeInv, FlagsTyped, FieldsTyped, EntriesTyped, Attempts
  <1>3. CASE SetupCron(c)
    BY <1>3 DEF SetupCron, SetStatus, TypeInv, FlagsTyped, FieldsTyped, EntriesTyped, Statuses
  <1>4. CASE CronFails(c)
    <2>1. attempt \in Attempts
      BY <1>4 DEF CronFails, TypeInv, OneStart, FieldsTyped, Attempts, StartAssumption
    <2>2. FlagsTyped'
      BY <1>4 DEF CronFails, TypeInv, FlagsTyped
    <2>3. FieldsTyped'
      BY <1>4, <2>1 DEF CronFails, TypeInv, FieldsTyped
    <2>4. EntriesTyped'
      BY <1>4 DEF CronFails, SetStatus, TypeInv, EntriesTyped, Statuses
    <2> QED
      BY <2>2, <2>3, <2>4
  <1>5. CASE CronPump(c)
    BY <1>5 DEF CronPump, TypeInv, FlagsTyped, FieldsTyped, EntriesTyped
  <1>6. CASE \E e \in Gates : GateRefused(c, e) \/ GateSkipped(c, e)
    BY <1>6 DEF GateRefused, GateSkipped, SetStatus, TypeInv, FlagsTyped, FieldsTyped,
                EntriesTyped, Statuses, Attempts
  <1>7. CASE \E e \in Gates : RunGate(c, e) \/ GatePasses(c, e) \/ GateFails(c, e)
    <2>1. Gates \subseteq Entries
      BY DEF StartAssumption
    <2>2. PICK e \in Entries : RunGate(c, e) \/ GatePasses(c, e) \/ GateFails(c, e)
      BY <1>7, <2>1
    <2>3. FlagsTyped' /\ FieldsTyped'
      BY <2>2 DEF RunGate, GatePasses, GateFails, TypeInv, FlagsTyped, FieldsTyped, Attempts
    <2>4. status' \in [Entries -> Statuses]
      BY <2>2 DEF RunGate, GatePasses, GateFails, SetStatus, TypeInv, EntriesTyped, Statuses
    <2>5. boot' \in [Entries -> BootStages]
      BY <2>2 DEF RunGate, GatePasses, GateFails, TypeInv, EntriesTyped, BootStages
    <2>6. starting' \subseteq Entries /\ wgDone' \subseteq Entries
      BY <2>2 DEF RunGate, GatePasses, GateFails, TypeInv, EntriesTyped
    <2> QED
      BY <2>2, <2>3, <2>4, <2>5, <2>6 DEF RunGate, GatePasses, GateFails, TypeInv, EntriesTyped
  <1>8. CASE GatesDone(c) \/ RollbackDone(c) \/ AwaitInstances(c) \/ AwaitPump(c)
    BY <1>8 DEF GatesDone, RollbackDone, AwaitInstances, AwaitPump, TypeInv, FlagsTyped,
                FieldsTyped, EntriesTyped
  <1>9. CASE BeginLevel(c) \/ EndLevel(c) \/ LevelFails(c)
    <2>1. boot' \in [Entries -> BootStages]
      BY <1>9 DEF BeginLevel, EndLevel, LevelFails, TypeInv, EntriesTyped, BootStages
    <2>2. FlagsTyped'
      BY <1>9 DEF BeginLevel, EndLevel, LevelFails, TypeInv, FlagsTyped
    <2>3. FieldsTyped'
      BY <1>9 DEF BeginLevel, EndLevel, LevelFails, TypeInv, FieldsTyped, Attempts
    <2>4. EntriesTyped'
      BY <1>9, <2>1 DEF BeginLevel, EndLevel, LevelFails, TypeInv, EntriesTyped
    <2> QED
      BY <2>2, <2>3, <2>4
  <1>10. CASE StartHealth(c)
    BY <1>10 DEF StartHealth, TypeInv, FlagsTyped, FieldsTyped, EntriesTyped
  <1>11. CASE \E e \in Entries : RollbackEntry(c, e)
    BY <1>11 DEF RollbackEntry, SetStatus, TypeInv, FlagsTyped, FieldsTyped, EntriesTyped,
                 Statuses
  <1>12. CASE Unload(c)
    <2>1. FlagsTyped'
      BY <1>12 DEF Unload, TypeInv, FlagsTyped
    <2>2. FieldsTyped'
      BY <1>12 DEF Unload, TypeInv, FieldsTyped, Attempts
    <2>3. EntriesTyped'
      BY <1>12 DEF Unload, TypeInv, EntriesTyped
    <2> QED
      BY <2>1, <2>2, <2>3
  <1>13. CASE GiveUp(c)
    <2>1. FlagsTyped'
      BY <1>13 DEF GiveUp, TypeInv, FlagsTyped
    <2>2. FieldsTyped' /\ EntriesTyped'
      BY <1>13 DEF GiveUp, TypeInv, FieldsTyped, EntriesTyped
    <2> QED
      BY <2>1, <2>2
  <1>14. CASE Reset(c)
    <2>1. FlagsTyped'
      BY <1>14 DEF Reset, TypeInv, FlagsTyped
    <2>2. FieldsTyped'
      BY <1>14 DEF Reset, TypeInv, FieldsTyped, StartAssumption
    <2>3. EntriesTyped'
      BY <1>14 DEF Reset, TypeInv, EntriesTyped, Statuses, StartAssumption
    <2> QED
      BY <2>1, <2>2, <2>3
  <1> QED
    BY <1>1, <1>2, <1>3, <1>4, <1>5, <1>6, <1>7, <1>8, <1>9, <1>10, <1>11, <1>12, <1>13,
       <1>14 DEF StartStep

\* A step of a call of Stop.
LEMMA StopTypes ==
  ASSUME StartAssumption, TypeInv, NEW c \in Stoppers,
         StopStep(c) \/ StopUnstarted(c) \/ \E deadline \in Deadlines : BeginStop(c, deadline)
  PROVE  FlagsTyped' /\ FieldsTyped' /\ EntriesTyped'
  <1> USE DEF flagVars, onceVars, fieldVars, chanVars, entryVars, instVars, callVars, ghostVars,
              CallOnly, CloseQuit
  <1>1. CASE StopUnstarted(c) \/ \E deadline \in Deadlines : BeginStop(c, deadline)
    <2>1. FlagsTyped'
      BY <1>1 DEF StopUnstarted, BeginStop, TypeInv, FlagsTyped
    <2>2. FieldsTyped' /\ EntriesTyped'
      BY <1>1 DEF StopUnstarted, BeginStop, TypeInv, FieldsTyped, EntriesTyped
    <2> QED
      BY <2>1, <2>2
  <1>2. CASE MarkStopping(c) \/ HaltHealth(c) \/ AwaitHealth(c)
    <2>1. FlagsTyped'
      <3>1. stopping' \in BOOLEAN
        BY <1>2 DEF MarkStopping, HaltHealth, AwaitHealth, TypeInv, FlagsTyped
      <3> QED
        BY <1>2, <3>1 DEF MarkStopping, HaltHealth, AwaitHealth, TypeInv, FlagsTyped
    <2>2. FieldsTyped' /\ EntriesTyped'
      BY <1>2 DEF MarkStopping, HaltHealth, AwaitHealth, TypeInv, FieldsTyped, EntriesTyped
    <2> QED
      BY <2>1, <2>2
  <1>3. CASE CancelAll(c)
    BY <1>3 DEF CancelAll, TypeInv, FlagsTyped, FieldsTyped, EntriesTyped, Attempts
  <1>4. CASE \E e \in Entries, completed \in BOOLEAN : StopEntry(c, e, completed)
    BY <1>4 DEF StopEntry, SetStatus, TypeInv, FlagsTyped, FieldsTyped, EntriesTyped, Statuses
  <1>5. CASE QuitLog(c)
    BY <1>5 DEF QuitLog, TypeInv, FlagsTyped, FieldsTyped, EntriesTyped, Attempts
  <1>6. CASE Verify(c)
    BY <1>6 DEF Verify, SetStatus, TypeInv, FlagsTyped, FieldsTyped, EntriesTyped, Statuses
  <1>7. CASE StopTimesOut(c) \/ Seal(c)
    <2>1. CASE StopTimesOut(c)
      <3>1. FlagsTyped'
        BY <2>1 DEF StopTimesOut, TypeInv, FlagsTyped
      <3> QED
        BY <2>1, <3>1 DEF StopTimesOut, TypeInv, FieldsTyped, EntriesTyped
    <2>2. CASE Seal(c)
      <3>1. FlagsTyped'
        BY <2>2 DEF Seal, TypeInv, FlagsTyped
      <3> QED
        BY <2>2, <3>1 DEF Seal, TypeInv, FieldsTyped, EntriesTyped
    <2> QED
      BY <1>7, <2>1, <2>2
  <1> QED
    BY <1>1, <1>2, <1>3, <1>4, <1>5, <1>6, <1>7 DEF StopStep

\* A step of any other goroutine.
LEMMA OtherTypes ==
  ASSUME StartAssumption, TypeInv,
         \/ \E e \in Persistent : BootStep(e) \/ ExitStep(e)
         \/ \E a \in Attempts : PumpExit(a)
         \/ HealthExit
  PROVE  FlagsTyped' /\ FieldsTyped' /\ EntriesTyped'
  <1> USE DEF flagVars, onceVars, fieldVars, chanVars, entryVars, instVars, callVars, ghostVars
  <1>1. ASSUME NEW e \in Persistent, CheckDeps(e) \/ Boot(e) \/ Settle(e)
               \/ \E result \in {"ok", "failed"} : BootRefused(e, result)
        PROVE  FlagsTyped' /\ FieldsTyped' /\ EntriesTyped'
    BY <1>1 DEF CheckDeps, Boot, Settle, BootRefused, SetStatus, TypeInv, FlagsTyped,
                FieldsTyped, EntriesTyped, Statuses, BootStages
  <1>2. ASSUME NEW e \in Persistent, Launch(e)
        PROVE  FlagsTyped' /\ FieldsTyped' /\ EntriesTyped'
    <2>1. inst' \in [Entries -> [Attempts -> {"none", "run"} \cup Ends]]
      BY <1>2 DEF Launch, TypeInv, EntriesTyped
    <2>2. FlagsTyped' /\ FieldsTyped'
      BY <1>2 DEF Launch, TypeInv, FlagsTyped, FieldsTyped
    <2>3. teardown' \in [Entries -> 0 .. MaxAttempts] /\ boot' \in [Entries -> BootStages]
      BY <1>2 DEF Launch, TypeInv, FieldsTyped, EntriesTyped, BootStages
    <2>4. status' \in [Entries -> Statuses]
      BY <1>2 DEF Launch, SetStatus, TypeInv, EntriesTyped, Statuses
    <2> QED
      BY <1>2, <2>1, <2>2, <2>3, <2>4 DEF Launch, TypeInv, EntriesTyped
  <1>3. ASSUME NEW e \in Persistent, StartTimesOut(e)
        PROVE  FlagsTyped' /\ FieldsTyped' /\ EntriesTyped'
    <2>1. e \in Entries /\ attempt \in Attempts
      BY <1>3 DEF Persistent, StartTimesOut, TypeInv, OneStart, FieldsTyped, Attempts,
                  StartAssumption
    <2> QED
      BY <1>3, <2>1 DEF StartTimesOut, TypeInv, FlagsTyped, FieldsTyped, EntriesTyped,
                        BootStages
  <1>4. ASSUME NEW e \in Persistent, NEW a \in Attempts, NEW how \in Ends, Exit(e, a, how)
        PROVE  FlagsTyped' /\ FieldsTyped' /\ EntriesTyped'
    <2>1. e \in Entries
      BY DEF Persistent
    <2>2. inst' \in [Entries -> [Attempts -> {"none", "run"} \cup Ends]]
      BY <1>4, <2>1 DEF Exit, TypeInv, EntriesTyped
    <2>3. {<<e, teardown[e]>>} \ {<<e, 0>>} \subseteq Entries \X Attempts
      BY <2>1 DEF TypeInv, EntriesTyped, Attempts, StartAssumption
    <2>4. cut' \subseteq Entries \X Attempts
      BY <1>4, <2>3 DEF Exit, TypeInv, EntriesTyped
    <2>5. teardown' \in [Entries -> 0 .. MaxAttempts]
      <3>1. 0 \in 0 .. MaxAttempts
        BY DEF StartAssumption
      <3> QED
        BY <1>4, <3>1 DEF Exit, TypeInv, EntriesTyped
    <2>6. status' \in [Entries -> Statuses]
      BY <1>4 DEF Exit, SetStatus, TypeInv, EntriesTyped, Statuses
    <2> QED
      BY <1>4, <2>1, <2>2, <2>4, <2>5, <2>6 DEF Exit, TypeInv, FlagsTyped, FieldsTyped,
         EntriesTyped
  <1>5. CASE \E a \in Attempts : PumpExit(a)
    BY <1>5 DEF PumpExit, TypeInv, FlagsTyped, FieldsTyped, EntriesTyped
  <1>6. CASE HealthExit
    BY <1>6 DEF HealthExit, TypeInv, FlagsTyped, FieldsTyped, EntriesTyped
  <1> QED
    BY <1>1, <1>2, <1>3, <1>4, <1>5, <1>6 DEF BootStep, ExitStep

-----------------------------------------------------------------------------
\* What a call has left to do.
LEMMA WorkTyped ==
  ASSUME CallsTyped, NEW c \in Callers, NEW r, r \in CallRecords, call' = [call EXCEPT ![c] = r]
  PROVE  call' \in [Callers -> CallRecords]
  BY DEF CallsTyped

\* The calls, and that Starts exclude each other: a step of a call of Start.
LEMMA StartCalls ==
  ASSUME StartAssumption, TypeInv, NEW c \in Starters, Claim(c) \/ StartStep(c)
  PROVE  CallsTyped' /\ OneStart'
  <1> USE DEF flagVars, onceVars, fieldVars, chanVars, entryVars, instVars, callVars, ghostVars,
              LeaveOnce, CallOnly
  <1>1. c \in Callers /\ c \notin Stoppers
    BY DEF Callers, StartAssumption
  <1>2. call[c] \in CallRecords /\ Gates \subseteq Entries /\ Persistent \subseteq Entries
    BY <1>1 DEF TypeInv, CallsTyped, StartAssumption, Persistent
  <1>3. call' \in [Callers -> CallRecords]
    <2>1. CASE \E S \in SUBSET Entries : call' = [call EXCEPT ![c].todo = S]
      BY <1>1, <1>2, <2>1 DEF TypeInv, CallsTyped, CallRecords
    <2>2. CASE call' = [call EXCEPT ![c] = NoCall]
      BY <1>1, <2>2 DEF TypeInv, CallsTyped, CallRecords, NoCall
    <2>3. CASE call' = call
      BY <2>3 DEF TypeInv, CallsTyped
    <2>4. ASSUME NEW S, call' = [call EXCEPT ![c].todo = @ \ S]
          PROVE  \E T \in SUBSET Entries : call' = [call EXCEPT ![c].todo = T]
      <3>1. call[c].todo \ S \in SUBSET Entries
        BY <1>2 DEF CallRecords
      <3> QED
        BY <2>4, <3>1
    <2>5. CASE SetupCron(c) \/ GatesDone(c) \/ LevelFails(c)
                \/ \E e \in Gates : GateRefused(c, e) \/ GateFails(c, e)
      BY <1>2, <2>1, <2>5 DEF SetupCron, GatesDone, LevelFails, GateRefused, GateFails
    <2>6. CASE \/ \E e \in Gates : GateSkipped(c, e) \/ RunGate(c, e)
               \/ BeginLevel(c) \/ \E e \in Entries : RollbackEntry(c, e)
      <3>1. \E S : call' = [call EXCEPT ![c].todo = @ \ S]
        BY <2>6 DEF GateSkipped, RunGate, BeginLevel, RollbackEntry
      <3> QED
        BY <2>1, <2>4, <3>1
    <2>7. CASE StartHealth(c) \/ Reset(c)
      BY <2>2, <2>7 DEF StartHealth, Reset
    <2>8. CASE \/ Claim(c) \/ EnterOnce(c) \/ CronFails(c) \/ CronPump(c) \/ EndLevel(c)
               \/ \E e \in Gates : GatePasses(c, e)
               \/ RollbackDone(c) \/ Unload(c) \/ AwaitInstances(c) \/ AwaitPump(c) \/ GiveUp(c)
      BY <2>3, <2>8 DEF Claim, EnterOnce, CronFails, CronPump, EndLevel, GatePasses,
         RollbackDone, Unload, AwaitInstances, AwaitPump, GiveUp
    <2> QED
      BY <2>5, <2>6, <2>7, <2>8 DEF StartStep
  <1>4. CASE Claim(c)
    <2>1. /\ pc' = [pc EXCEPT ![c] = "once"] /\ claimed' = TRUE /\ ~claimed
          /\ attempt < MaxAttempts /\ attempt' = attempt /\ boot' = boot
      BY <1>4 DEF Claim
    <2>2. \A d \in Starters : pc[d] = "idle"
      BY <2>1 DEF TypeInv, OneStart
    <2> QED
      BY <1>1, <1>3, <2>1, <2>2 DEF TypeInv, OneStart, CallsTyped, StartPcs, Callers
  <1>5. CASE StartStep(c)
    <2>1. pc[c] # "idle"
      BY <1>5 DEF StartStep, EnterOnce, SetupCron, CronFails, CronPump, GateRefused, GateSkipped,
         RunGate, GatePasses, GateFails, GatesDone, BeginLevel, EndLevel, LevelFails, LevelDone,
         StartHealth, RollbackEntry, RollbackDone, Unload, AwaitInstances, AwaitPump, GiveUp, Reset
    <2>2. \A d \in Starters : d # c => pc[d] = "idle"
      BY <2>1 DEF TypeInv, OneStart
    <2>3. ASSUME NEW p \in StartPcs \ {"once"}, pc' = [pc EXCEPT ![c] = p],
                 claimed' = claimed, attempt' # 0
          PROVE  CallsTyped' /\ OneStart'
      BY <1>1, <1>3, <2>1, <2>2, <2>3 DEF TypeInv, OneStart, CallsTyped, StartPcs, Callers
    <2>4. pc[c] # "once" => attempt # 0
      BY <2>1 DEF TypeInv, OneStart
    <2>5. CASE EnterOnce(c)
      <3>1. attempt' # 0
        BY <2>5 DEF EnterOnce, TypeInv, FieldsTyped, StartAssumption
      <3> QED
        BY <2>3, <2>5, <3>1 DEF EnterOnce, StartPcs
    <2>6. CASE SetupCron(c) \/ CronFails(c) \/ CronPump(c)
      BY <2>3, <2>4, <2>6 DEF SetupCron, CronFails, CronPump, StartPcs
    <2>7. CASE \E e \in Gates : \/ GateRefused(c, e) \/ RunGate(c, e) \/ GatePasses(c, e)
                                \/ GateFails(c, e)
      BY <2>3, <2>4, <2>7 DEF GateRefused, RunGate, GatePasses, GateFails, StartPcs
    <2>8. CASE \/ \E e \in Gates : GateSkipped(c, e)
               \/ \E e \in Entries : RollbackEntry(c, e)
      <3>1. UNCHANGED <<claimed, attempt, pc, boot>>
        BY <2>8 DEF GateSkipped, RollbackEntry
      <3> QED
        BY <1>3, <3>1 DEF TypeInv, OneStart, CallsTyped
    <2>9. CASE GatesDone(c) \/ BeginLevel(c) \/ EndLevel(c) \/ LevelFails(c)
      BY <2>3, <2>4, <2>9 DEF GatesDone, BeginLevel, EndLevel, LevelFails, LevelDone, StartPcs
    <2>10. CASE RollbackDone(c) \/ Unload(c) \/ AwaitInstances(c) \/ AwaitPump(c)
      BY <2>3, <2>4, <2>10 DEF RollbackDone, Unload, AwaitInstances, AwaitPump, StartPcs
    <2>11. CASE GiveUp(c)
      <3>1. \E p \in {"pump", "reset"} : pc' = [pc EXCEPT ![c] = p]
        BY <2>11 DEF GiveUp
      <3> QED
        BY <2>3, <2>4, <2>11, <3>1 DEF GiveUp, StartPcs
    <2>12. CASE StartHealth(c) \/ Reset(c)
      <3>1. /\ pc' = [pc EXCEPT ![c] = "idle"] /\ boot' = boot /\ attempt' = attempt
            /\ attempt # 0
        BY <2>4, <2>12 DEF StartHealth, Reset
      <3> QED
        BY <1>1, <1>3, <2>2, <3>1 DEF TypeInv, OneStart, CallsTyped, Callers
    <2> QED
      BY <1>5, <2>5, <2>6, <2>7, <2>8, <2>9, <2>10, <2>11, <2>12 DEF StartStep
  <1> QED
    BY <1>4, <1>5

\* A step of a call of Stop.
LEMMA StopCalls ==
  ASSUME StartAssumption, TypeInv, NEW c \in Stoppers,
         StopStep(c) \/ StopUnstarted(c) \/ \E deadline \in Deadlines : BeginStop(c, deadline)
  PROVE  CallsTyped' /\ OneStart'
  <1> USE DEF flagVars, onceVars, fieldVars, chanVars, entryVars, instVars, callVars, ghostVars,
              CallOnly
  <1>1. c \in Callers /\ c \notin Starters
    BY DEF Callers, StartAssumption
  <1>2. call[c] \in CallRecords
    BY <1>1 DEF TypeInv, CallsTyped
  <1>3. call' \in [Callers -> CallRecords]
    <2>1. ASSUME NEW r \in CallRecords, call' = [call EXCEPT ![c] = r]
          PROVE  call' \in [Callers -> CallRecords]
      BY <1>1, <2>1 DEF TypeInv, CallsTyped
    <2>2. ASSUME NEW deadline \in Deadlines, BeginStop(c, deadline)
          PROVE  call' \in [Callers -> CallRecords]
      <3>1. [NoCall EXCEPT !.deadline = deadline] \in CallRecords
        BY DEF NoCall, CallRecords, StartAssumption
      <3> QED
        BY <2>1, <2>2, <3>1 DEF BeginStop
    <2>3. CASE CancelAll(c)
      <3>1. [call[c] EXCEPT !.todo = Entries] \in CallRecords
        BY <1>2 DEF CallRecords
      <3>2. call' = [call EXCEPT ![c] = [call[c] EXCEPT !.todo = Entries]]
        BY <2>3 DEF CancelAll
      <3> QED
        BY <2>1, <3>1, <3>2
    <2>4. ASSUME NEW e \in Entries, NEW completed \in BOOLEAN, StopEntry(c, e, completed)
          PROVE  call' \in [Callers -> CallRecords]
      <3> DEFINE left == call[c].todo \ {e}
                 done == IF completed THEN call[c].completed \cup {e} ELSE call[c].completed
      <3>1. left \in SUBSET Entries /\ done \in SUBSET Entries
        BY <1>2 DEF CallRecords
      <3>2. call' = [call EXCEPT ![c].todo = left, ![c].completed = done]
        BY <2>4 DEF StopEntry
      <3> HIDE DEF left, done
      <3>3. call' = [call EXCEPT ![c] = [call[c] EXCEPT !.todo = left, !.completed = done]]
        BY <3>2
      <3>4. [call[c] EXCEPT !.todo = left, !.completed = done] \in CallRecords
        BY <1>2, <3>1 DEF CallRecords
      <3> QED
        BY <2>1, <3>3, <3>4
    <2>5. CASE Seal(c)
      BY <2>1, <2>5 DEF Seal, NoCall, CallRecords
    <2>6. CASE \/ StopUnstarted(c) \/ MarkStopping(c) \/ HaltHealth(c) \/ AwaitHealth(c)
               \/ QuitLog(c) \/ Verify(c) \/ StopTimesOut(c)
      BY <2>6 DEF StopUnstarted, MarkStopping, HaltHealth, AwaitHealth, QuitLog, Verify,
         StopTimesOut, TypeInv, CallsTyped
    <2> QED
      BY <2>2, <2>3, <2>4, <2>5, <2>6 DEF StopStep
  <1>4. UNCHANGED <<claimed, attempt, boot>>
    BY DEF StopStep, StopUnstarted, BeginStop, MarkStopping, HaltHealth, AwaitHealth, CancelAll,
       StopEntry, QuitLog, Verify, StopTimesOut, Seal
  <1>5. \E p \in {"idle"} \cup StopPcs : pc' = [pc EXCEPT ![c] = p] \/ pc' = pc
    BY DEF StopStep, StopUnstarted, BeginStop, MarkStopping, HaltHealth, AwaitHealth, CancelAll,
       StopEntry, QuitLog, Verify, StopTimesOut, Seal, StopPcs
  <1>6. PICK p \in {"idle"} \cup StopPcs : pc' = [pc EXCEPT ![c] = p] \/ pc' = pc
    BY <1>5
  <1>7. CallsTyped'
    BY <1>1, <1>3, <1>6 DEF TypeInv, CallsTyped
  <1>8. OneStart'
    BY <1>1, <1>4, <1>6 DEF TypeInv, OneStart, CallsTyped, Callers
  <1> QED
    BY <1>7, <1>8

\* A step of any other goroutine.
LEMMA OtherCalls ==
  ASSUME StartAssumption, TypeInv,
         \/ \E e \in Persistent : BootStep(e) \/ ExitStep(e)
         \/ \E a \in Attempts : PumpExit(a)
         \/ HealthExit
  PROVE  CallsTyped' /\ OneStart'
  <1>1. UNCHANGED <<claimed, attempt, pc, call>>
    BY DEF BootStep, ExitStep, CheckDeps, Boot, Launch, Settle, StartTimesOut, BootRefused, Exit,
       PumpExit, HealthExit, flagVars, onceVars, fieldVars, chanVars, callVars
  <1>2. attempt = 0 => boot' = boot
    BY DEF BootStep, ExitStep, CheckDeps, Boot, Launch, Settle, StartTimesOut, BootRefused, Exit,
       PumpExit, HealthExit, callVars, TypeInv, OneStart, Persistent
  <1> QED
    BY <1>1, <1>2 DEF TypeInv, CallsTyped, OneStart

\* The wait group: what leaves it and the running instances alone, ...
LEMMA CoveredKept ==
  ASSUME Covered, wg' = wg, Running' = Running, health' = health
  PROVE  Covered'
  BY DEF Covered, HealthUp

\* ... a step of a call, ...
LEMMA StartCovered ==
  ASSUME StartAssumption, IsFiniteSet(Entries), TypeInv, NEW c \in Starters,
         Claim(c) \/ StartStep(c)
  PROVE  Covered'
  <1> USE DEF flagVars, onceVars, fieldVars, chanVars, entryVars, instVars, callVars, ghostVars,
              CallOnly
  <1> DEFINE Same == UNCHANGED <<wg, health, inst>>
  <1>1. CASE StartHealth(c)
    <2>1. wg' = wg + 1 /\ health' = "run" /\ Running' = Running
      BY <1>1 DEF StartHealth, Running
    <2> QED
      BY <2>1, RunningFinite DEF TypeInv, Covered, HealthUp
  <1>2. CASE Reset(c)
    <2>1. wg' = wg /\ health' = "none" /\ Running' = Running
      BY <1>2 DEF Reset, Running
    <2> QED
      BY <2>1, RunningFinite DEF TypeInv, Covered, HealthUp
  <1>3. CASE Claim(c) \/ EnterOnce(c) \/ SetupCron(c) \/ CronFails(c) \/ CronPump(c)
    <2>1. Same
      BY <1>3 DEF Claim, EnterOnce, SetupCron, CronFails, CronPump
    <2> QED
      BY <2>1, CoveredKept DEF TypeInv, Running
  <1>4. CASE \E e \in Gates : \/ GateRefused(c, e) \/ GateSkipped(c, e) \/ RunGate(c, e)
                              \/ GatePasses(c, e) \/ GateFails(c, e)
    <2>1. Same
      BY <1>4 DEF GateRefused, GateSkipped, RunGate, GatePasses, GateFails
    <2> QED
      BY <2>1, CoveredKept DEF TypeInv, Running
  <1>5. CASE GatesDone(c) \/ BeginLevel(c) \/ EndLevel(c) \/ LevelFails(c)
    <2>1. Same
      BY <1>5 DEF GatesDone, BeginLevel, EndLevel, LevelFails
    <2> QED
      BY <2>1, CoveredKept DEF TypeInv, Running
  <1>6. CASE \/ \E e \in Entries : RollbackEntry(c, e)
             \/ RollbackDone(c) \/ Unload(c) \/ AwaitInstances(c) \/ AwaitPump(c) \/ GiveUp(c)
    <2>1. Same
      BY <1>6 DEF RollbackEntry, RollbackDone, Unload, AwaitInstances, AwaitPump, GiveUp
    <2> QED
      BY <2>1, CoveredKept DEF TypeInv, Running
  <1> QED
    BY <1>1, <1>2, <1>3, <1>4, <1>5, <1>6 DEF StartStep

LEMMA StopCovered ==
  ASSUME StartAssumption, IsFiniteSet(Entries), TypeInv, NEW c \in Stoppers,
         StopStep(c) \/ StopUnstarted(c) \/ \E deadline \in Deadlines : BeginStop(c, deadline)
  PROVE  Covered'
  <1> USE DEF flagVars, onceVars, fieldVars, chanVars, entryVars, instVars, callVars, ghostVars,
              CallOnly
  <1>1. CASE HaltHealth(c)
    <2>1. wg' = wg /\ Running' = Running
          /\ (health' = health \/ (health = "run" /\ health' = "quit"))
      BY <1>1 DEF HaltHealth, Running
    <2> QED
      BY <2>1, RunningFinite DEF TypeInv, Covered, HealthUp
  <1>2. CASE \/ StopUnstarted(c) \/ MarkStopping(c) \/ AwaitHealth(c) \/ CancelAll(c)
             \/ \E deadline \in Deadlines : BeginStop(c, deadline)
    <2>1. UNCHANGED <<wg, health, inst>>
      BY <1>2 DEF StopUnstarted, MarkStopping, AwaitHealth, CancelAll, BeginStop
    <2> QED
      BY <2>1, CoveredKept DEF TypeInv, Running
  <1>3. CASE \/ \E e \in Entries, completed \in BOOLEAN : StopEntry(c, e, completed)
             \/ QuitLog(c) \/ Verify(c) \/ StopTimesOut(c) \/ Seal(c)
    <2>1. UNCHANGED <<wg, health, inst>>
      BY <1>3 DEF StopEntry, QuitLog, Verify, StopTimesOut, Seal
    <2> QED
      BY <2>1, CoveredKept DEF TypeInv, Running
  <1> QED
    BY <1>1, <1>2, <1>3 DEF StopStep

\* ... a launch and an exit, and the other goroutines.
LEMMA LaunchCovered ==
  ASSUME StartAssumption, IsFiniteSet(Entries), TypeInv, NEW e \in Persistent, Launch(e)
  PROVE  Covered'
  <1>1. wg' = wg + 1 /\ inst' = [inst EXCEPT ![e][octx] = "run"] /\ health' = health
    BY DEF Launch
  <1>2. inst \in [Entries -> [Attempts -> {"none", "run"} \cup Ends]]
    BY DEF TypeInv, EntriesTyped
  <1>3. \A d \in Entries, a \in Attempts :
           inst'[d][a] = IF d = e /\ a = octx THEN "run" ELSE inst[d][a]
    BY <1>1, <1>2
  <1>4. Running' \subseteq Running \cup {<<e, octx>>}
    BY <1>3 DEF Running
  <1>5. IsFiniteSet(Running) /\ Cardinality(Running) \in Nat
    BY RunningFinite
  <1> DEFINE More == Running \cup {<<e, octx>>}
  <1>6. IsFiniteSet(More) /\ Cardinality(More) \in Nat
        /\ Cardinality(More) <= Cardinality(Running) + 1
    <2>1. IsFiniteSet(More)
          /\ Cardinality(More) = IF <<e, octx>> \in Running THEN Cardinality(Running)
                                                           ELSE Cardinality(Running) + 1
      BY <1>5, FS_AddElement
    <2> HIDE DEF More
    <2> QED
      BY <1>5, <2>1
  <1> HIDE DEF More
  <1>7. Running' \subseteq More
    BY <1>4 DEF More
  <1>8. Cardinality(Running') <= Cardinality(More) /\ Cardinality(Running') \in Nat
    BY <1>6, <1>7, FS_Subset, FS_CardinalityType
  <1> QED
    BY <1>1, <1>5, <1>6, <1>8 DEF TypeInv, Covered, HealthUp

LEMMA ExitCovered ==
  ASSUME StartAssumption, IsFiniteSet(Entries), TypeInv, NEW e \in Persistent,
         NEW a \in Attempts, NEW how \in Ends, Exit(e, a, how)
  PROVE  Covered'
  <1>1. /\ inst[e][a] = "run" /\ inst' = [inst EXCEPT ![e][a] = how] /\ health' = health
        /\ wg' = wg \/ wg' = wg - 1
    BY DEF Exit
  <1>2. inst \in [Entries -> [Attempts -> {"none", "run"} \cup Ends]] /\ e \in Entries
    BY DEF TypeInv, EntriesTyped, Persistent
  <1>3. \A d \in Entries, b \in Attempts :
           inst'[d][b] = IF d = e /\ b = a THEN how ELSE inst[d][b]
    BY <1>1, <1>2
  <1>4. how # "run"
    BY DEF Ends
  <1>5. Running' = Running \ {<<e, a>>} /\ <<e, a>> \in Running
    BY <1>1, <1>2, <1>3, <1>4 DEF Running
  <1>6. IsFiniteSet(Running) /\ Cardinality(Running) \in Nat
    BY RunningFinite
  <1>7. Cardinality(Running') = Cardinality(Running) - 1 /\ Cardinality(Running') \in Nat
    BY <1>5, <1>6, FS_RemoveElement, FS_CardinalityType
  <1>8. wg \in Nat /\ wg >= Cardinality(Running) + HealthUp /\ HealthUp \in {0, 1}
        /\ HealthUp' = HealthUp
    BY <1>1 DEF TypeInv, Covered, HealthUp
  <1> QED
    BY <1>1, <1>6, <1>7, <1>8 DEF Covered

LEMMA OtherCovered ==
  ASSUME StartAssumption, IsFiniteSet(Entries), TypeInv,
         \/ \E e \in Persistent : BootStep(e) \/ ExitStep(e)
         \/ \E a \in Attempts : PumpExit(a)
         \/ HealthExit
  PROVE  Covered'
  <1>1. CASE \E e \in Persistent : Launch(e)
    BY <1>1, LaunchCovered
  <1>2. CASE \E e \in Persistent : ExitStep(e)
    BY <1>2, ExitCovered DEF ExitStep
  <1>3. CASE HealthExit
    <2>1. health = "quit" /\ health' = "exited" /\ wg' = wg - 1 /\ inst' = inst
      BY <1>3 DEF HealthExit, instVars
    <2>2. Running' = Running
      BY <2>1 DEF Running
    <2> QED
      BY <2>1, <2>2, RunningFinite DEF TypeInv, Covered, HealthUp
  <1>4. ASSUME UNCHANGED <<wg, health, inst>> PROVE Covered'
    <2>1. Running' = Running
      BY <1>4 DEF Running
    <2> QED
      BY <1>4, <2>1, CoveredKept DEF TypeInv
  <1>5. \/ \E e \in Persistent : Launch(e) \/ ExitStep(e)
        \/ HealthExit
        \/ UNCHANGED <<wg, health, inst>>
    BY DEF BootStep, CheckDeps, Boot, Settle, StartTimesOut, BootRefused, PumpExit, fieldVars,
       instVars
  <1> QED
    BY <1>1, <1>2, <1>3, <1>4, <1>5

LEMMA TypeInvNext ==
  ASSUME StartAssumption, IsFiniteSet(Entries), TypeInv, [Next]_vars PROVE TypeInv'
  <1>1. CASE \E c \in Starters : Claim(c) \/ StartStep(c)
    BY <1>1, StartTypes, StartCalls, StartCovered DEF TypeInv
  <1>2. CASE \/ \E c \in Stoppers : StopStep(c) \/ StopUnstarted(c)
             \/ \E c \in Stoppers, deadline \in Deadlines : BeginStop(c, deadline)
    BY <1>2, StopTypes, StopCalls, StopCovered DEF TypeInv
  <1>3. CASE \/ \E e \in Persistent : BootStep(e) \/ ExitStep(e)
             \/ \E a \in Attempts : PumpExit(a)
             \/ HealthExit
    BY <1>3, OtherTypes, OtherCalls, OtherCovered DEF TypeInv
  <1>4. CASE UNCHANGED vars
    <2>1. Running' = Running /\ UNCHANGED <<wg, health>>
      BY <1>4 DEF vars, Running, fieldVars, instVars
    <2>2. Covered'
      BY <2>1, CoveredKept DEF TypeInv
    <2> QED
      BY <1>4, <2>2 DEF TypeInv, FlagsTyped, FieldsTyped, EntriesTyped, CallsTyped, OneStart,
         vars, flagVars, onceVars, fieldVars, chanVars, entryVars, instVars, callVars, ghostVars
  <1> QED
    BY <1>1, <1>2, <1>3, <1>4 DEF Next

\* Every variable keeps its type, the wait group its sign included, also when Stop
\* and Start overlap and when a Start is tried again over what the last one left
\* behind (lifecycle.go:945-1411).
THEOREM StartStopTypeCorrect ==
  ASSUME StartAssumption, IsFiniteSet(Entries) PROVE Spec => []TypeOK
  <1>1. TypeInv => TypeOK
    BY TypeParts DEF TypeInv, Covered
  <1>2. Init => TypeInv
    BY TypeInvInit
  <1>3. TypeInv /\ [Next]_vars => TypeInv'
    BY TypeInvNext
  <1> QED
    BY <1>1, <1>2, <1>3, PTL DEF Spec

-----------------------------------------------------------------------------
(* The levels of topoSort, and the order they give to Start and Stop. *)

\* No entries depend on each other in a circle: a Start of a graph with one is
\* refused by topoSort (lifecycle.go:1082).
GraphAcyclic == \A C \in SUBSET Entries : (\A e \in C : Deps[e] \cap C # {}) => C = {}

N == Cardinality(Entries)

\* One round of topoSort over S.
Settled(S, T) == {e \in S : Deps[e] \cap S \subseteq T}
Round(S) == [T \in SUBSET Entries |-> Settled(S, T)]

\* What the recursion of topoSort computes.
LEMMA LayersRounds ==
  ASSUME StartAssumption, IsFiniteSet(Entries), NEW S \in SUBSET Entries
  PROVE  Layers[S] \in [0 .. N -> SUBSET Entries] /\ Iterates(Layers[S], N, Round(S), {})
  <1> DEFINE Coded(g) == [n \in 0 .. N |->
                            IF n = 0 THEN {}
                            ELSE LET below == g[n - 1] IN
                                 {e \in S : Deps[e] \cap S \subseteq below}]
             Sets == SUBSET Entries
             F == Round(S)
  <1>0. N \in Nat
    BY FS_CardinalityType DEF N
  <1>1. F \in [Sets -> Sets] /\ {} \in Sets /\ \A T \in Sets : F[T] = Settled(S, T)
    BY DEF Round, Settled
  <1> HIDE DEF F
  <1>2. \E g : g \in [0 .. N -> Sets] /\ Iterates(g, N, F, {})
    <2> HIDE DEF Sets
    <2> QED
      BY <1>0, <1>1, IterationExists
  <1>3. PICK g : g \in [0 .. N -> Sets] /\ Iterates(g, N, F, {})
    BY <1>2
  <1>4. Layers[S] = CHOOSE h : h = Coded(h)
    BY DEF Layers, N
  <1>5. ASSUME NEW h, NEW n \in 0 .. N, n # 0, h[n - 1] \in Sets
        PROVE  Coded(h)[n] = F[h[n - 1]]
    BY <1>1, <1>5 DEF Settled
  <1>6. g = Coded(g)
    <2>1. ASSUME NEW n \in 0 .. N, n # 0
          PROVE  Coded(g)[n] = g[n]
      <3>1. g[n - 1] \in Sets /\ g[n] = F[g[n - 1]]
        BY <1>0, <1>3, <2>1 DEF Iterates
      <3> HIDE DEF Coded
      <3> QED
        BY <1>5, <2>1, <3>1
    <2> QED
      BY <1>3, <2>1 DEF Iterates
  <1> HIDE DEF Coded
  <1>7. Layers[S] = Coded(Layers[S])
    BY <1>4, <1>6
  <1> DEFINE R == Layers[S]
             Typed == {n \in 0 .. N : R[n] \in Sets}
  <1>8. R = Coded(R)
    BY <1>7
  <1> HIDE DEF R
  <1>9. R[0] = {} /\ DOMAIN R = 0 .. N
    BY <1>0, <1>8 DEF Coded
  <1>10. ASSUME NEW n \in 0 .. N, n # 0, R[n - 1] \in Sets
         PROVE  R[n] = F[R[n - 1]]
    BY <1>5, <1>8, <1>10
  <1>11. \A n \in 0 .. N : R[n] \in Sets
    <2>1. 0 \in Typed
      BY <1>0, <1>9
    <2>2. ASSUME NEW n \in 0 .. N - 1, n \in Typed
          PROVE  n + 1 \in Typed
      <3>1. n + 1 \in 0 .. N /\ n + 1 # 0 /\ R[(n + 1) - 1] \in Sets /\ R[n] \in Sets
        BY <1>0, <2>2
      <3>2. R[n + 1] = F[R[n]]
        BY <1>10, <3>1
      <3> QED
        BY <1>1, <3>1, <3>2
    <2> HIDE DEF Typed
    <2>3. \A n \in 0 .. N : n \in Typed
      BY <1>0, <2>1, <2>2, IntervalInduction
    <2> QED
      BY <2>3 DEF Typed
  <1>12. R \in [0 .. N -> Sets]
    BY <1>8, <1>11 DEF Coded
  <1>13. \A n \in 1 .. N : R[n] = F[R[n - 1]]
    BY <1>0, <1>10, <1>11
  <1> QED
    BY <1>9, <1>12, <1>13 DEF R, F, Iterates

\* A round settles what depends only on what the rounds before it have settled.
LEMMA LayerSteps ==
  ASSUME StartAssumption, IsFiniteSet(Entries), NEW S \in SUBSET Entries
  PROVE  /\ Layers[S][0] = {}
         /\ \A n \in 0 .. N - 1 : /\ Layers[S][n] \in SUBSET Entries
                                  /\ Layers[S][n + 1] = Settled(S, Layers[S][n])
  <1> DEFINE g == Layers[S]
             F == Round(S)
  <1>1. g \in [0 .. N -> SUBSET Entries] /\ Iterates(g, N, F, {})
    BY LayersRounds
  <1>2. \A T \in SUBSET Entries : F[T] = Settled(S, T)
    BY DEF Round
  <1>3. N \in Nat
    BY FS_CardinalityType DEF N
  <1> HIDE DEF g, F
  <1>4. ASSUME NEW n \in 0 .. N - 1
        PROVE  g[n] \in SUBSET Entries /\ g[n + 1] = Settled(S, g[n])
    <2>1. g[n] \in SUBSET Entries /\ n + 1 \in 1 .. N /\ (n + 1) - 1 = n
      BY <1>1, <1>3
    <2>2. g[n + 1] = F[g[n]]
      BY <1>1, <2>1 DEF Iterates
    <2> QED
      BY <1>2, <2>1, <2>2
  <1>5. g[0] = {}
    BY <1>1 DEF Iterates
  <1> QED
    BY <1>4, <1>5 DEF g

\* Without circles every member has its round.
LEMMA LayersCover ==
  ASSUME StartAssumption, IsFiniteSet(Entries), GraphAcyclic, NEW S \in SUBSET Entries,
         NEW e \in S
  PROVE  \E n \in 0 .. N : e \in Layers[S][n]
  <1> DEFINE g == Layers[S]
             rest == [n \in 0 .. N |-> S \ g[n]]
             Left == [T \in SUBSET S |-> {d \in T : Deps[d] \cap T # {}}]
             Grows == {n \in 0 .. N : n = N \/ g[n] \subseteq g[n + 1]}
  <1>1. N \in Nat /\ IsFiniteSet(S) /\ Cardinality(S) <= N
    BY FS_CardinalityType, FS_Subset DEF N
  <1>2. g[0] = {} /\ \A n \in 0 .. N - 1 : g[n + 1] = Settled(S, g[n])
    BY LayerSteps
  <1>3. Deps \in [Entries -> SUBSET Entries]
    BY DEF StartAssumption
  <1> HIDE DEF g
  <1>4. \A n \in 0 .. N : n \in Grows
    <2>1. 0 \in Grows
      BY <1>1, <1>2
    <2>2. ASSUME NEW n \in 0 .. N - 1, n \in Grows
          PROVE  n + 1 \in Grows
      <3>1. CASE n + 1 = N
        BY <1>1, <3>1
      <3>2. CASE n + 1 # N
        <4>1. g[n] \subseteq g[n + 1] /\ n + 1 \in 0 .. N - 1
          BY <1>1, <2>2, <3>2
        <4>2. g[(n + 1) + 1] = Settled(S, g[n + 1]) /\ g[n + 1] = Settled(S, g[n])
          BY <1>2, <4>1
        <4>3. g[n + 1] \subseteq g[(n + 1) + 1]
          BY <4>1, <4>2 DEF Settled
        <4> QED
          BY <1>1, <4>1, <4>3
      <3> QED
        BY <3>1, <3>2
    <2> HIDE DEF Grows
    <2> QED
      BY <1>1, <2>1, <2>2, IntervalInduction
  <1>5. rest \in [0 .. N -> SUBSET S] /\ TakesAway(Left, S)
    BY DEF TakesAway
  <1>6. Iterates(rest, N, Left, S)
    <2>1. ASSUME NEW n \in 1 .. N
          PROVE  rest[n] = Left[rest[n - 1]]
      <3>1. n - 1 \in 0 .. N - 1 /\ (n - 1) + 1 = n /\ n - 1 # N
        BY <1>1
      <3>2. g[n] = Settled(S, g[n - 1]) /\ g[n - 1] \subseteq g[n]
        BY <1>1, <1>2, <1>4, <3>1
      <3>3. rest[n] = S \ g[n] /\ rest[n - 1] = S \ g[n - 1] /\ rest[n - 1] \in SUBSET S
        BY <1>1, <3>1
      <3>4. Left[rest[n - 1]] = {d \in rest[n - 1] : Deps[d] \cap rest[n - 1] # {}}
        BY <3>3
      <3> HIDE DEF rest, Left
      <3>5. \A d \in S : d \notin g[n] <=> d \notin g[n - 1] /\ Deps[d] \cap (S \ g[n - 1]) # {}
        BY <3>2 DEF Settled
      <3> QED
        BY <3>3, <3>4, <3>5
    <2>2. rest[0] = S /\ DOMAIN rest = 0 .. N
      BY <1>1, <1>2
    <2> HIDE DEF rest, Left
    <2> QED
      BY <2>1, <2>2 DEF Iterates
  <1>7. Left[rest[N]] = rest[N]
    <2> HIDE DEF rest, Left
    <2> QED
      BY <1>1, <1>5, <1>6, RoundsComeToRest
  <1> DEFINE C == rest[N]
  <1>8. C = S \ g[N] /\ C \in SUBSET S /\ C \in SUBSET Entries
    BY <1>1
  <1>9. \A d \in C : Deps[d] \cap C # {}
    <2>1. Left[C] = {d \in C : Deps[d] \cap C # {}}
      BY <1>8
    <2>2. Left[C] = C
      BY <1>7
    <2> HIDE DEF C, Left
    <2> QED
      BY <2>1, <2>2
  <1>10. C = {}
    <2> HIDE DEF C
    <2> QED
      BY <1>8, <1>9 DEF GraphAcyclic
  <1>11. e \in g[N]
    BY <1>8, <1>10
  <1> QED
    BY <1>1, <1>11 DEF g

\* The round in which a member is settled, and its dependencies before it.
LEMMA OwnLayer ==
  ASSUME StartAssumption, IsFiniteSet(Entries), GraphAcyclic, NEW S \in SUBSET Entries,
         NEW e \in S
  PROVE  \E L, M \in LevelEnds(S) : e \in L /\ e \notin M /\ L = Settled(S, M)
  <1> DEFINE g == Layers[S]
             In == {n \in 0 .. N : e \in g[n]}
  <1>1. N \in Nat /\ g[0] = {} /\ \A n \in 0 .. N - 1 : g[n + 1] = Settled(S, g[n])
    BY LayerSteps, FS_CardinalityType DEF N
  <1>2. In \in SUBSET Nat /\ In # {}
    BY LayersCover
  <1>3. LevelEnds(S) = {g[n] : n \in 0 .. N}
    BY DEF LevelEnds, N
  <1> HIDE DEF g
  <1>4. PICK n \in In : \A m \in In : n <= m
    BY <1>2, LeastNat
  <1>5. n # 0 /\ n \in 0 .. N /\ e \in g[n]
    BY <1>1, <1>4
  <1>6. n - 1 \in 0 .. N - 1 /\ n - 1 \in 0 .. N /\ (n - 1) + 1 = n /\ ~(n <= n - 1)
    BY <1>1, <1>5
  <1>7. e \notin g[n - 1] /\ g[n] = Settled(S, g[n - 1])
    BY <1>1, <1>4, <1>6
  <1> QED
    BY <1>3, <1>5, <1>6, <1>7

\* The first level left has no dependency left, the last one no dependent.
LEMMA FirstFree ==
  ASSUME StartAssumption, IsFiniteSet(Entries), GraphAcyclic, NEW S \in SUBSET Entries,
         NEW todo \in SUBSET S, NEW e \in FirstLevel(S, todo), NEW d \in todo
  PROVE  d \notin Deps[e]
  <1> SUFFICES ASSUME d \in Deps[e] PROVE FALSE
    OBVIOUS
  <1>1. PICK L, M \in LevelEnds(S) : d \in L /\ d \notin M /\ L = Settled(S, M)
    BY OwnLayer
  <1>2. e \in L
    BY <1>1 DEF FirstLevel
  <1> QED
    BY <1>1, <1>2 DEF Settled

LEMMA LastFree ==
  ASSUME StartAssumption, IsFiniteSet(Entries), GraphAcyclic, NEW S \in SUBSET Entries,
         NEW todo \in SUBSET S, NEW e \in LastLevel(S, todo), NEW d \in todo
  PROVE  e \notin Deps[d]
  <1> SUFFICES ASSUME e \in Deps[d] PROVE FALSE
    OBVIOUS
  <1>0. e \in todo
    BY DEF LastLevel
  <1>1. PICK L, M \in LevelEnds(S) : e \in L /\ e \notin M /\ L = Settled(S, M)
    BY <1>0, OwnLayer
  <1>2. d \in L
    BY <1>1 DEF LastLevel
  <1> QED
    BY <1>0, <1>1, <1>2 DEF Settled

-----------------------------------------------------------------------------
(* The order of starts and stops. *)

\* What has not had its turn.
Waiting == {"Registered", "Starting"}

\* How far a call has got: behind it every entry had its turn (before the gates are
\* done, every one that is not persistent), or is about to; nothing that is about
\* to depends on what is ahead; and on the way down nothing behind it is active.
OrderAt(c) ==
    /\ pc[c] \in {"gates", "gate"} =>
         \A d \in Entries \ Persistent : d \notin call[c].todo => status[d] \notin Waiting
    /\ pc[c] \in {"levels", "boot"} =>
         /\ call[c].todo \subseteq Persistent
         /\ \A d \in Entries : d \notin call[c].todo /\ status[d] \in Waiting => Booting(d)
    /\ pc[c] = "boot" =>
         \A e \in Entries : Booting(e) =>
            \A d \in Deps[e] : d \notin call[c].todo /\ ~Booting(d)
    /\ pc[c] \in {"rollback", "stops"} =>
         \A d \in Persistent : d \notin call[c].todo => status[d] \notin Active

OrderInv == \A c \in Callers : OrderAt(c)

OrderFacts == IInv /\ FlowInv /\ TypeInv

\* A step of one call: the others are idle.
LEMMA OrderMove ==
  ASSUME IInv, NEW c \in Callers, NEW p, pc' = [pc EXCEPT ![c] = p] \/ (pc' = pc /\ pc[c] = p),
         pc[c] # "idle" \/ \A d \in Callers : pc[d] = "idle",
         OrderAt(c)'
  PROVE  OrderInv'
  <1>1. \A d \in Callers : d # c => pc'[d] = "idle"
    BY DEF IInv, Types, OneCall
  <1> QED
    BY <1>1 DEF OrderInv, OrderAt

\* What a step that goes to p has to show.
LEMMA OrderFree ==
  ASSUME NEW c, pc'[c] \notin {"gates", "gate", "levels", "boot", "rollback", "stops"}
  PROVE  OrderAt(c)'
  BY DEF OrderAt

LEMMA GatesOrder ==
  ASSUME NEW c, pc'[c] \in {"gates", "gate"},
         \A d \in Entries \ Persistent : d \notin call'[c].todo => status'[d] \notin Waiting
  PROVE  OrderAt(c)'
  BY DEF OrderAt

LEMMA LevelsOrder ==
  ASSUME NEW c, pc'[c] \in {"levels", "boot"}, call'[c].todo \subseteq Persistent,
         \A d \in Entries : d \notin call'[c].todo /\ status'[d] \in Waiting => Booting(d)',
         pc'[c] = "boot" =>
            \A e \in Entries : Booting(e)' =>
               \A d \in Deps[e] : d \notin call'[c].todo /\ ~Booting(d)'
  PROVE  OrderAt(c)'
  BY DEF OrderAt

LEMMA DownOrder ==
  ASSUME NEW c, pc'[c] \in {"rollback", "stops"},
         \A d \in Persistent : d \notin call'[c].todo => status'[d] \notin Active
  PROVE  OrderAt(c)'
  BY DEF OrderAt

\* The state of a caller, typed.
LEMMA CallTyped ==
  ASSUME OrderFacts, NEW c \in Callers
  PROVE  /\ pc \in [Callers -> {"idle"} \cup StartPcs \cup StopPcs]
         /\ call \in [Callers -> CallRecords] /\ call[c] \in CallRecords
         /\ call[c].todo \in SUBSET Entries
         /\ status \in [Entries -> Statuses] /\ boot \in [Entries -> BootStages]
  BY DEF OrderFacts, TypeInv, CallsTyped, EntriesTyped, CallRecords

\* Steps of Start.
LEMMA SetupCronOrder ==
  ASSUME StartAssumption, OrderFacts, NEW c \in Starters, SetupCron(c) PROVE OrderInv'
  <1>1. c \in Callers
    BY DEF Callers
  <1>2. /\ pc[c] = "cron" /\ pc' = [pc EXCEPT ![c] = "gates"]
        /\ call' = [call EXCEPT ![c].todo = Gates]
        /\ status' = [e \in Entries |-> IF e \in Crons THEN "Running" ELSE status[e]]
    BY DEF SetupCron, SetStatus
  <1>3. pc'[c] = "gates" /\ call'[c].todo = Gates
    BY <1>1, <1>2, CallTyped DEF CallRecords
  <1>4. \A d \in Entries \ Persistent : d \notin Gates => status'[d] = "Running"
    BY <1>2 DEF Persistent
  <1>5. OrderAt(c)'
    BY <1>3, <1>4, GatesOrder DEF Waiting
  <1> QED
    BY <1>1, <1>2, <1>5, OrderMove DEF OrderFacts

LEMMA GateOrder ==
  ASSUME StartAssumption, OrderFacts, OrderInv, NEW c \in Starters, NEW e \in Gates,
         \/ GateRefused(c, e) \/ GateSkipped(c, e) \/ RunGate(c, e)
         \/ GatePasses(c, e) \/ GateFails(c, e)
  PROVE  OrderInv'
  <1>1. c \in Callers /\ e \in Entries /\ e \notin Persistent
    BY DEF Callers, Persistent, StartAssumption
  <1>2. OrderAt(c)
    BY <1>1 DEF OrderInv
  <1>3. CASE GateRefused(c, e) \/ GateFails(c, e)
    <2>1. /\ pc[c] # "idle" /\ pc' = [pc EXCEPT ![c] = "rollback"]
          /\ call' = [call EXCEPT ![c].todo = Entries]
      BY <1>3 DEF GateRefused, GateFails
    <2>2. pc'[c] = "rollback" /\ call'[c].todo = Entries
      BY <1>1, <2>1, CallTyped DEF CallRecords
    <2>3. OrderAt(c)'
      BY <2>2, DownOrder DEF Persistent
    <2> QED
      BY <1>1, <2>1, <2>3, OrderMove DEF OrderFacts
  <1>4. CASE GateSkipped(c, e) \/ RunGate(c, e)
    <2>1. PICK p \in {"gates", "gate"}, s \in {"Stopped", "Running"} :
             /\ pc[c] = "gates" /\ call' = [call EXCEPT ![c].todo = @ \ {e}]
             /\ pc' = [pc EXCEPT ![c] = p] \/ (pc' = pc /\ pc[c] = p)
             /\ status' = [d \in Entries |-> IF d \in {e} THEN s ELSE status[d]]
      BY <1>4 DEF GateSkipped, RunGate, SetStatus
    <2>2. pc'[c] \in {"gates", "gate"} /\ call'[c].todo = call[c].todo \ {e}
      BY <1>1, <2>1, CallTyped DEF CallRecords
    <2>3. \A d \in Entries \ Persistent : d \notin call'[c].todo => status'[d] \notin Waiting
      BY <1>2, <2>1, <2>2 DEF OrderAt, Waiting
    <2>4. OrderAt(c)'
      BY <2>2, <2>3, GatesOrder
    <2> QED
      BY <1>1, <2>1, <2>4, OrderMove DEF OrderFacts
  <1>5. CASE GatePasses(c, e)
    <2>1. /\ pc[c] = "gate" /\ call' = call /\ pc' = [pc EXCEPT ![c] = "gates"]
          /\ status' = [d \in Entries |-> IF d \in {e} THEN "Succeeded" ELSE status[d]]
      BY <1>5 DEF GatePasses, SetStatus
    <2>2. pc'[c] = "gates"
      BY <1>1, <2>1, CallTyped
    <2>3. \A d \in Entries \ Persistent : d \notin call'[c].todo => status'[d] \notin Waiting
      BY <1>2, <2>1 DEF OrderAt, Waiting
    <2>4. OrderAt(c)'
      BY <2>2, <2>3, GatesOrder
    <2> QED
      BY <1>1, <2>1, <2>4, OrderMove DEF OrderFacts
  <1> QED
    BY <1>3, <1>4, <1>5

LEMMA GatesDoneOrder ==
  ASSUME StartAssumption, OrderFacts, OrderInv, NEW c \in Starters, GatesDone(c)
  PROVE  OrderInv'
  <1>1. c \in Callers /\ OrderAt(c)
    BY DEF Callers, OrderInv
  <1>2. /\ pc[c] = "gates" /\ call[c].todo = {} /\ pc' = [pc EXCEPT ![c] = "levels"]
        /\ call' = [call EXCEPT ![c].todo = Persistent] /\ status' = status
    BY DEF GatesDone, entryVars
  <1>3. pc'[c] = "levels" /\ call'[c].todo = Persistent
    BY <1>1, <1>2, CallTyped DEF CallRecords
  <1>4. \A d \in Entries : d \notin Persistent => status'[d] \notin Waiting
    BY <1>1, <1>2 DEF OrderAt
  <1>5. OrderAt(c)'
    BY <1>3, <1>4, LevelsOrder
  <1> QED
    BY <1>1, <1>2, <1>5, OrderMove DEF OrderFacts

\* The level that begins depends on nothing that is left, and not on itself.
LEMMA BeginLevelOrder ==
  ASSUME StartAssumption, IsFiniteSet(Entries), GraphAcyclic, OrderFacts, OrderInv,
         NEW c \in Starters, BeginLevel(c)
  PROVE  OrderInv'
  <1> DEFINE level == FirstLevel(Persistent, call[c].todo)
  <1>1. c \in Callers /\ OrderAt(c) /\ Persistent \in SUBSET Entries
    BY DEF Callers, OrderInv, Persistent
  <1>2. /\ pc[c] = "levels" /\ pc' = [pc EXCEPT ![c] = "boot"]
        /\ call' = [call EXCEPT ![c].todo = @ \ level] /\ status' = status
        /\ boot' = [e \in Entries |-> IF e \in level THEN "check" ELSE boot[e]]
    BY DEF BeginLevel, CallOnly, entryVars
  <1>3. level \subseteq call[c].todo
    BY DEF FirstLevel
  <1>4. /\ call[c].todo \subseteq Persistent
        /\ \A e \in level, d \in call[c].todo : d \notin Deps[e]
    BY <1>1, <1>2, FirstFree DEF OrderAt
  <1> HIDE DEF level
  <1>5. pc'[c] = "boot" /\ call'[c].todo = call[c].todo \ level
    BY <1>1, <1>2, CallTyped DEF CallRecords
  <1>6. \A e \in Entries : ~Booting(e)
    BY <1>1, <1>2, NoBooting DEF OrderFacts
  <1>7. \A e \in Entries : Booting(e)' <=> e \in level
    BY <1>2, <1>6 DEF Booting
  <1>8. \A d \in Entries : d \notin call'[c].todo /\ status'[d] \in Waiting => Booting(d)'
    BY <1>1, <1>2, <1>5, <1>6, <1>7 DEF OrderAt
  <1>9. \A e \in Entries : Booting(e)' =>
           \A d \in Deps[e] : d \notin call'[c].todo /\ ~Booting(d)'
    <2>1. \A e \in Entries : Deps[e] \subseteq Entries
      BY DEF StartAssumption
    <2> QED
      BY <1>3, <1>4, <1>5, <1>7, <2>1
  <1>10. OrderAt(c)'
    BY <1>4, <1>5, <1>8, <1>9, LevelsOrder
  <1> QED
    BY <1>1, <1>2, <1>10, OrderMove DEF OrderFacts

LEMMA EndLevelOrder ==
  ASSUME StartAssumption, OrderFacts, OrderInv, NEW c \in Starters, EndLevel(c) \/ LevelFails(c)
  PROVE  OrderInv'
  <1>1. c \in Callers /\ OrderAt(c)
    BY DEF Callers, OrderInv
  <1>2. pc[c] = "boot" /\ \A e \in Entries : ~Booting(e)
    BY DEF EndLevel, LevelFails, LevelDone, Booting
  <1>3. CASE EndLevel(c)
    <2>1. pc' = [pc EXCEPT ![c] = "levels"] /\ call' = call /\ status' = status
      BY <1>3 DEF EndLevel, CallOnly, entryVars
    <2>2. pc'[c] = "levels"
      BY <1>1, <2>1, CallTyped
    <2>3. OrderAt(c)'
      BY <1>1, <1>2, <2>1, <2>2, LevelsOrder DEF OrderAt
    <2> QED
      BY <1>1, <1>2, <2>1, <2>3, OrderMove DEF OrderFacts
  <1>4. CASE LevelFails(c)
    <2>1. /\ pc' = [pc EXCEPT ![c] = "rollback"] /\ call' = [call EXCEPT ![c].todo = Entries]
      BY <1>4 DEF LevelFails
    <2>2. pc'[c] = "rollback" /\ call'[c].todo = Entries
      BY <1>1, <2>1, CallTyped DEF CallRecords
    <2>3. OrderAt(c)'
      BY <2>2, DownOrder DEF Persistent
    <2> QED
      BY <1>1, <1>2, <2>1, <2>3, OrderMove DEF OrderFacts
  <1> QED
    BY <1>3, <1>4

LEMMA RollbackOrder ==
  ASSUME StartAssumption, OrderFacts, OrderInv, NEW c \in Starters, NEW e \in Entries,
         RollbackEntry(c, e)
  PROVE  OrderInv'
  <1>1. c \in Callers /\ OrderAt(c)
    BY DEF Callers, OrderInv
  <1>2. /\ pc[c] = "rollback" /\ pc' = pc /\ call' = [call EXCEPT ![c].todo = @ \ {e}]
        /\ status' = [d \in Entries |-> IF d \in {e} \cap {x \in Entries : status[x] \in Active}
                                        THEN "Stopping" ELSE status[d]]
    BY DEF RollbackEntry, SetStatus
  <1>3. pc'[c] = "rollback" /\ call'[c].todo = call[c].todo \ {e}
    BY <1>1, <1>2, CallTyped DEF CallRecords
  <1>4. \A d \in Persistent : d \notin call'[c].todo => status'[d] \notin Active
    BY <1>1, <1>2, <1>3 DEF OrderAt, Active, Persistent
  <1>5. OrderAt(c)'
    BY <1>3, <1>4, DownOrder
  <1> QED
    BY <1>1, <1>2, <1>5, OrderMove DEF OrderFacts

\* The other steps of Start leave the order behind.
LEMMA StartOtherOrder ==
  ASSUME StartAssumption, OrderFacts, OrderInv, NEW c \in Starters,
         \/ Claim(c) \/ EnterOnce(c) \/ CronFails(c) \/ CronPump(c) \/ StartHealth(c)
         \/ RollbackDone(c) \/ Unload(c) \/ AwaitInstances(c) \/ AwaitPump(c) \/ GiveUp(c)
         \/ Reset(c)
  PROVE  OrderInv'
  <1>1. c \in Callers
    BY DEF Callers
  <1>2. \E p \in {"idle", "once", "cron", "cronpump", "await", "unload", "pump", "reset"} :
           pc' = [pc EXCEPT ![c] = p]
    BY DEF Claim, EnterOnce, CronFails, CronPump, StartHealth, RollbackDone, Unload,
       AwaitInstances, AwaitPump, GiveUp, Reset
  <1>3. PICK p \in {"idle", "once", "cron", "cronpump", "await", "unload", "pump", "reset"} :
           pc' = [pc EXCEPT ![c] = p]
    BY <1>2
  <1>4. pc'[c] = p
    BY <1>1, <1>3, CallTyped
  <1>5. OrderAt(c)'
    BY <1>4, OrderFree
  <1>6. pc[c] # "idle" \/ \A d \in Callers : pc[d] = "idle"
    <2>1. CASE Claim(c)
      BY <2>1 DEF Claim, OrderFacts, IInv, InStart, InStop, Fields, Callers
    <2>2. CASE ~Claim(c)
      BY <2>2 DEF EnterOnce, CronFails, CronPump, StartHealth, RollbackDone, Unload,
         AwaitInstances, AwaitPump, GiveUp, Reset
    <2> QED
      BY <2>1, <2>2
  <1> QED
    BY <1>1, <1>3, <1>5, <1>6, OrderMove DEF OrderFacts

\* Steps of Stop.
LEMMA StopEntryOrder ==
  ASSUME StartAssumption, OrderFacts, OrderInv, NEW c \in Stoppers, NEW e \in Entries,
         NEW completed \in BOOLEAN, StopEntry(c, e, completed)
  PROVE  OrderInv'
  <1>1. c \in Callers /\ OrderAt(c)
    BY DEF Callers, OrderInv
  <1>2. /\ pc[c] = "stops" /\ pc' = pc
        /\ status' = [d \in Entries |->
                        IF d \in {e} \cap {x \in Entries : status[x] # "Succeeded"}
                        THEN "Stopping" ELSE status[d]]
    BY DEF StopEntry, SetStatus
  <1>3. call'[c].todo = call[c].todo \ {e}
    BY <1>1, CallTyped DEF StopEntry, CallRecords
  <1>4. \A d \in Persistent : d \notin call'[c].todo => status'[d] \notin Active
    BY <1>1, <1>2, <1>3 DEF OrderAt, Active, Persistent
  <1>5. OrderAt(c)'
    BY <1>2, <1>4, DownOrder
  <1> QED
    BY <1>1, <1>2, <1>5, OrderMove DEF OrderFacts

LEMMA StopOtherOrder ==
  ASSUME StartAssumption, Overlap = FALSE, OrderFacts, OrderInv, NEW c \in Stoppers,
         \/ \E deadline \in Deadlines : BeginStop(c, deadline)
         \/ MarkStopping(c) \/ HaltHealth(c) \/ AwaitHealth(c) \/ CancelAll(c)
         \/ QuitLog(c) \/ Verify(c) \/ StopTimesOut(c) \/ Seal(c)
  PROVE  OrderInv'
  <1>1. c \in Callers
    BY DEF Callers
  <1>2. pc[c] # "idle" \/ \A d \in Callers : pc[d] = "idle"
    <2>1. CASE \E deadline \in Deadlines : BeginStop(c, deadline)
      BY <2>1 DEF BeginStop, MayStop, InProgress, OrderFacts, IInv, InStop, Callers
    <2>2. CASE ~\E deadline \in Deadlines : BeginStop(c, deadline)
      BY <2>2 DEF MarkStopping, HaltHealth, AwaitHealth, CancelAll, QuitLog, Verify,
         StopTimesOut, Seal
    <2> QED
      BY <2>1, <2>2
  <1>3. CASE CancelAll(c)
    <2>1. pc' = [pc EXCEPT ![c] = "stops"] /\ call' = [call EXCEPT ![c].todo = Entries]
      BY <1>3 DEF CancelAll
    <2>2. pc'[c] = "stops" /\ call'[c].todo = Entries
      BY <1>1, <2>1, CallTyped DEF CallRecords
    <2>3. OrderAt(c)'
      BY <2>2, DownOrder DEF Persistent
    <2> QED
      BY <1>1, <1>2, <2>1, <2>3, OrderMove DEF OrderFacts
  <1>4. CASE ~CancelAll(c)
    <2>1. \E p \in {"idle", "mark", "halthealth", "healthwait", "cancel", "wait", "seal"} :
             pc' = [pc EXCEPT ![c] = p]
      BY <1>4 DEF BeginStop, MarkStopping, HaltHealth, AwaitHealth, QuitLog, Verify,
         StopTimesOut, Seal
    <2>2. PICK p \in {"idle", "mark", "halthealth", "healthwait", "cancel", "wait", "seal"} :
             pc' = [pc EXCEPT ![c] = p]
      BY <2>1
    <2>3. pc'[c] = p
      BY <1>1, <2>2, CallTyped
    <2>4. OrderAt(c)'
      BY <2>3, OrderFree
    <2> QED
      BY <1>1, <1>2, <2>2, <2>4, OrderMove DEF OrderFacts
  <1> QED
    BY <1>3, <1>4

\* The goroutines of a level; a step of theirs takes at most one status on.
LEMMA BootOrder ==
  ASSUME StartAssumption, OrderFacts, OrderInv, NEW e \in Persistent, BootStep(e)
  PROVE  OrderInv'
  <1>1. e \in Entries /\ UNCHANGED <<pc, call>>
    BY DEF BootStep, CheckDeps, Boot, Launch, Settle, StartTimesOut, BootRefused, Persistent,
       callVars
  <1>2. status \in [Entries -> Statuses] /\ boot \in [Entries -> BootStages]
    BY DEF OrderFacts, TypeInv, EntriesTyped
  <1>3. CASE Booting(e)
    <2>1. PICK c \in Starters :
             pc[c] = "boot" /\ \A d \in Callers : d # c => pc[d] = "idle"
      BY <1>1, <1>3, AtLevel DEF OrderFacts
    <2>2. c \in Callers /\ OrderAt(c) /\ call[c].todo \subseteq Persistent
      BY <2>1 DEF Callers, OrderInv, OrderAt
    <2>3. /\ \A d \in Entries : d # e => status'[d] = status[d] /\ boot'[d] = boot[d]
          /\ Booting(e)' \/ status'[e] \notin Waiting
      BY <1>1, <1>2, <1>3 DEF BootStep, CheckDeps, Boot, Launch, Settle, StartTimesOut,
         BootRefused, SetStatus, Booting, Waiting, Statuses, BootStages, callVars
    <2>4. \A d \in Entries : Booting(d)' => Booting(d)
      BY <1>3, <2>3 DEF Booting
    <2>5. \A d \in Entries : d \notin call'[c].todo /\ status'[d] \in Waiting => Booting(d)'
      BY <1>1, <2>1, <2>2, <2>3 DEF OrderAt, Booting
    <2>6. \A x \in Entries : Booting(x)' =>
             \A d \in Deps[x] : d \notin call'[c].todo /\ ~Booting(d)'
      <3>1. \A x \in Entries : Deps[x] \subseteq Entries
        BY DEF StartAssumption
      <3> QED
        BY <1>1, <2>1, <2>2, <2>4, <3>1 DEF OrderAt
    <2>7. OrderAt(c)'
      BY <1>1, <2>1, <2>2, <2>5, <2>6, LevelsOrder
    <2> QED
      BY <1>1, <2>1, <2>2, <2>7, OrderMove DEF OrderFacts
  <1>4. CASE ~Booting(e)
    <2>1. status' = status /\ \A d \in Entries : Booting(d)' <=> Booting(d)
      BY <1>1, <1>2, <1>4 DEF BootStep, CheckDeps, Boot, Launch, Settle, StartTimesOut,
         BootRefused, Booting, entryVars
    <2> QED
      BY <1>1, <2>1 DEF OrderInv, OrderAt, StartAssumption
  <1> QED
    BY <1>3, <1>4

\* An exit leaves nothing waiting and nothing active.
LEMMA ExitOrder ==
  ASSUME StartAssumption, OrderInv, NEW e \in Persistent, ExitStep(e)
  PROVE  OrderInv'
  <1>1. \A d \in Entries : status'[d] = status[d] \/ status'[d] \in {"Crashed", "Stopped"}
    BY DEF ExitStep, Exit, SetStatus
  <1>2. UNCHANGED <<pc, call, boot>>
    BY DEF ExitStep, Exit, callVars
  <1>3. \A d \in Entries : /\ status'[d] \in Waiting => status[d] \in Waiting
                           /\ status'[d] \in Active => status[d] \in Active
    BY <1>1 DEF Waiting, Active
  <1> QED
    BY <1>2, <1>3 DEF OrderInv, OrderAt, Booting, Persistent

LEMMA StillOrder ==
  ASSUME OrderInv, UNCHANGED <<pc, call, boot, status>> PROVE OrderInv'
  BY DEF OrderInv, OrderAt, Booting

LEMMA OrderNext ==
  ASSUME StartAssumption, Overlap = FALSE, IsFiniteSet(Entries), GraphAcyclic,
         OrderFacts, OrderInv, [Next]_vars
  PROVE  OrderInv'
  <1>1. ASSUME NEW c \in Starters, Claim(c) \/ StartStep(c) PROVE OrderInv'
    BY <1>1, SetupCronOrder, GateOrder, GatesDoneOrder, BeginLevelOrder, EndLevelOrder,
       RollbackOrder, StartOtherOrder DEF StartStep
  <1>2. ASSUME NEW c \in Stoppers, StopStep(c) PROVE OrderInv'
    BY <1>2, StopEntryOrder, StopOtherOrder DEF StopStep
  <1>3. ASSUME NEW c \in Stoppers, NEW deadline \in Deadlines, BeginStop(c, deadline)
        PROVE  OrderInv'
    BY <1>3, StopOtherOrder
  <1>4. CASE \E c \in Stoppers : StopUnstarted(c)
    BY <1>4, StillOrder DEF StopUnstarted, callVars, entryVars
  <1>5. CASE \/ \E a \in Attempts : PumpExit(a)
             \/ HealthExit
    BY <1>5, StillOrder DEF PumpExit, HealthExit, callVars, entryVars
  <1>6. CASE UNCHANGED vars
    BY <1>6, StillOrder DEF vars, callVars, entryVars
  <1> QED
    BY <1>1, <1>2, <1>3, <1>4, <1>5, <1>6, BootOrder, ExitOrder DEF Next

-----------------------------------------------------------------------------
(* The promise about the order. *)

LEMMA BootInOrder ==
  ASSUME StartAssumption, OrderFacts, OrderInv, NEW e \in Persistent, Boot(e)
  PROVE  InOrder
  <1>1. e \in Entries /\ Booting(e) /\ Deps[e] \subseteq Entries
    BY DEF Boot, Booting, Persistent, StartAssumption
  <1>2. PICK c \in Starters : pc[c] = "boot"
    BY <1>1, AtLevel DEF OrderFacts
  <1>3. OrderAt(c)
    BY DEF OrderInv, Callers
  <1>4. \A d \in Deps[e] : status[d] \notin {"Registered", "Starting"}
    BY <1>1, <1>2, <1>3 DEF OrderAt, Waiting
  <1>5. \A d \in Persistent : d # e => status'[d] = status[d]
    BY DEF Boot, SetStatus, Persistent
  <1>6. status'[e] = "Starting"
    BY <1>1 DEF Boot, SetStatus
  <1> QED
    BY <1>4, <1>5, <1>6 DEF InOrder, Active

\* A stop comes to an entry of the last level left.
LEMMA StopInOrder ==
  ASSUME StartAssumption, IsFiniteSet(Entries), GraphAcyclic, OrderFacts, OrderInv,
         NEW c \in Callers, pc[c] \in {"rollback", "stops"},
         NEW e, \/ e \notin Persistent
                \/ \E S \in {Entries, Persistent} : e \in LastLevel(S, call[c].todo \cap S),
         \A d \in Entries : d # e => status'[d] = status[d],
         e \in Entries => status'[e] = status[e] \/ status'[e] = "Stopping"
  PROVE  InOrder
  <1>0. PICK S \in {Entries, Persistent} :
             e \notin Persistent \/ e \in LastLevel(S, call[c].todo \cap S)
    OBVIOUS
  <1> DEFINE todo == call[c].todo \cap S
  <1>1. OrderAt(c) /\ S \in SUBSET Entries /\ todo \in SUBSET S /\ Persistent \subseteq S
    BY DEF OrderInv, Persistent
  <1>2. \A d \in Persistent : d \notin todo => status[d] \notin Active
    BY <1>1 DEF OrderAt
  <1>3. e \in Persistent => \A d \in todo : e \notin Deps[d]
    BY <1>0, <1>1, LastFree
  <1>4. \A x \in Persistent : x \in Entries
    BY DEF Persistent
  <1> QED
    BY <1>2, <1>3, <1>4 DEF InOrder, Active

LEMMA StepInOrder ==
  ASSUME StartAssumption, IsFiniteSet(Entries), GraphAcyclic, OrderFacts, OrderInv, [Next]_vars
  PROVE  InOrder
  <1> USE DEF entryVars
  <1>0. \A e \in Persistent : e \in Entries
    BY DEF Persistent
  <1>1. ASSUME \A e \in Entries :
                  status'[e] = status[e] \/ status'[e] \notin {"Starting", "Stopping"}
        PROVE  InOrder
    BY <1>0, <1>1 DEF InOrder, Active
  <1>2. ASSUME NEW c \in Starters, NEW e \in Entries, RollbackEntry(c, e) PROVE InOrder
    <2>1. c \in Callers /\ pc[c] = "rollback" /\ e \in LastLevel(Entries, call[c].todo)
      BY <1>2 DEF RollbackEntry, Callers
    <2>2. \E S \in {Entries, Persistent} : e \in LastLevel(S, call[c].todo \cap S)
      <3>1. call[c].todo \cap Entries = call[c].todo
        BY <2>1, CallTyped
      <3> QED
        BY <2>1, <3>1
    <2>3. /\ \A d \in Entries : d # e => status'[d] = status[d]
          /\ status'[e] = status[e] \/ status'[e] = "Stopping"
      BY <1>2 DEF RollbackEntry, SetStatus
    <2> QED
      BY <2>1, <2>2, <2>3, StopInOrder
  <1>3. ASSUME NEW c \in Stoppers, NEW e \in Entries, NEW completed \in BOOLEAN,
               StopEntry(c, e, completed)
        PROVE  InOrder
    <2> DEFINE P == call[c].todo \cap Persistent
    <2>1. /\ c \in Callers /\ pc[c] = "stops"
          /\ e \in IF P # {} THEN LastLevel(Persistent, P) ELSE call[c].todo
      BY <1>3 DEF StopEntry, Callers
    <2>2. e \in LastLevel(Persistent, P) \/ e \notin Persistent
      BY <2>1
    <2>3. /\ \A d \in Entries : d # e => status'[d] = status[d]
          /\ status'[e] = status[e] \/ status'[e] = "Stopping"
      BY <1>3 DEF StopEntry, SetStatus
    <2>4. /\ c \in Callers /\ pc[c] \in {"rollback", "stops"}
          /\ \/ e \notin Persistent
             \/ \E S \in {Entries, Persistent} : e \in LastLevel(S, call[c].todo \cap S)
      BY <2>1, <2>2
    <2>5. e \in Entries => status'[e] = status[e] \/ status'[e] = "Stopping"
      BY <2>3
    <2> HIDE <1>3 DEF P
    <2> QED
      BY <2>3, <2>4, <2>5, StopInOrder
  <1>4. ASSUME NEW c \in Starters, Claim(c) \/ StartStep(c) PROVE InOrder
    <2>1. CASE \/ Claim(c) \/ EnterOnce(c) \/ CronPump(c) \/ GatesDone(c) \/ BeginLevel(c)
               \/ EndLevel(c) \/ LevelFails(c) \/ StartHealth(c) \/ RollbackDone(c) \/ Unload(c)
               \/ AwaitInstances(c) \/ AwaitPump(c) \/ GiveUp(c)
      <3>1. status' = status
        BY <2>1 DEF Claim, EnterOnce, CronPump, GatesDone, BeginLevel, EndLevel, LevelFails,
           StartHealth, RollbackDone, Unload, AwaitInstances, AwaitPump, GiveUp, CallOnly
      <3> QED
        BY <1>1, <3>1
    <2>2. CASE SetupCron(c) \/ CronFails(c) \/ Reset(c)
      BY <1>1, <2>2 DEF SetupCron, CronFails, Reset, ResetEntries, SetStatus
    <2>3. CASE \E e \in Gates : \/ GateRefused(c, e) \/ GateSkipped(c, e) \/ RunGate(c, e)
                                \/ GatePasses(c, e) \/ GateFails(c, e)
      BY <1>1, <2>3 DEF GateRefused, GateSkipped, RunGate, GatePasses, GateFails, SetStatus
    <2> QED
      BY <1>2, <1>4, <2>1, <2>2, <2>3 DEF StartStep
  <1>5. ASSUME NEW c \in Stoppers,
               StopStep(c) \/ StopUnstarted(c) \/ \E deadline \in Deadlines : BeginStop(c, deadline)
        PROVE  InOrder
    <2>1. CASE Verify(c)
      BY <1>1, <2>1 DEF Verify, SetStatus
    <2>2. CASE \/ StopUnstarted(c) \/ \E deadline \in Deadlines : BeginStop(c, deadline)
               \/ MarkStopping(c) \/ HaltHealth(c) \/ AwaitHealth(c) \/ CancelAll(c)
               \/ QuitLog(c) \/ StopTimesOut(c) \/ Seal(c)
      <3>1. status' = status
        BY <2>2 DEF StopUnstarted, BeginStop, MarkStopping, HaltHealth, AwaitHealth, CancelAll,
           QuitLog, StopTimesOut, Seal, CallOnly
      <3> QED
        BY <1>1, <3>1
    <2> QED
      BY <1>3, <1>5, <2>1, <2>2 DEF StopStep
  <1>6. ASSUME NEW e \in Persistent, BootStep(e) \/ ExitStep(e) PROVE InOrder
    <2>1. CASE Boot(e)
      BY <2>1, BootInOrder
    <2>2. CASE \/ CheckDeps(e) \/ Launch(e)
               \/ \E result \in {"ok", "failed"} : BootRefused(e, result)
      BY <1>1, <2>2 DEF CheckDeps, Launch, BootRefused, SetStatus
    <2>3. CASE Settle(e) \/ StartTimesOut(e)
      BY <1>1, <2>3 DEF Settle, StartTimesOut
    <2>4. CASE ExitStep(e)
      BY <1>1, <2>4 DEF ExitStep, Exit, SetStatus
    <2> QED
      BY <1>6, <2>1, <2>2, <2>3, <2>4 DEF BootStep
  <1>7. CASE (\E a \in Attempts : PumpExit(a)) \/ HealthExit \/ UNCHANGED vars
    <2>1. status' = status
      BY <1>7 DEF PumpExit, HealthExit, vars
    <2> QED
      BY <1>1, <2>1
  <1> QED
    BY <1>4, <1>5, <1>6, <1>7 DEF Next

\* Start takes an entry only once each of its dependencies had its turn in this
\* attempt, and the rollback and Stop come to an active one only once nothing
\* active depends on it (lifecycle.go:233, 1090-1099, 1313), for any graph without
\* circles, any failures and any retries.
THEOREM OrderCorrect ==
  ASSUME StartAssumption, Overlap = FALSE, IsFiniteSet(Entries), GraphAcyclic
  PROVE  Spec => OrderKept
  <1> DEFINE Inv == OrderFacts /\ OrderInv
  <1>1. Init => Inv
    <2>1. Init => OrderFacts
      BY InitInv, FlowInit, TypeInvInit DEF OrderFacts
    <2>2. Init => OrderInv
      BY DEF Init, OrderInv, OrderAt
    <2> QED
      BY <2>1, <2>2
  <1>2. Inv /\ [Next]_vars => Inv'
    BY NextInv, NextFlow, TypeInvNext, OrderNext DEF OrderFacts
  <1>3. Inv /\ [Next]_vars => [InOrder]_vars
    BY StepInOrder
  <1> QED
    BY <1>1, <1>2, <1>3, PTL DEF Spec, OrderKept
================================================================================
