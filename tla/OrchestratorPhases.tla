--------------------------- MODULE OrchestratorPhases ---------------------------
(***************************************************************************)
(* What Start and Stop of an orchestrator promise, whatever they do        *)
(* inside.  The lifecycle is single-shot: one call of Start in all returns *)
(* nil, a Start that fails leaves nothing running and may be repeated, and *)
(* a Stop that succeeds leaves nothing running for good.  Services begin   *)
(* to run only inside Start.  The promise that nothing runs is off once a  *)
(* deadline made Start or Stop give up waiting.                            *)
(***************************************************************************)
EXTENDS Naturals

CONSTANT Services

VARIABLES
    phase,      \* "new", "starting", "up", "stopping" or "down"
    alive,      \* the services that run
    nils,       \* how many calls of Start returned nil
    lost        \* a deadline passed with a goroutine still running

phaseVars == <<phase, alive, nils, lost>>

Init == phase = "new" /\ alive = {} /\ nils = 0 /\ lost = FALSE

Begin == /\ phase = "new"
         /\ phase' = "starting"
         /\ UNCHANGED <<alive, nils, lost>>

Run(e) == /\ phase = "starting"
          /\ alive' = alive \cup {e}
          /\ UNCHANGED <<phase, nils, lost>>

End(e) == /\ e \in alive
          /\ alive' = alive \ {e}
          /\ UNCHANGED <<phase, nils, lost>>

Abandon == /\ phase \in {"starting", "stopping"}
           /\ lost' = TRUE
           /\ UNCHANGED <<phase, alive, nils>>

Fail == /\ phase = "starting" /\ (alive = {} \/ lost)
        /\ phase' = "new"
        /\ UNCHANGED <<alive, nils, lost>>

Succeed == /\ phase = "starting" /\ nils = 0
           /\ phase' = "up" /\ nils' = 1
           /\ UNCHANGED <<alive, lost>>

Halt == /\ phase = "up"
        /\ phase' = "stopping"
        /\ UNCHANGED <<alive, nils, lost>>

Finish == /\ phase = "stopping" /\ (alive = {} \/ lost)
          /\ phase' = "down"
          /\ UNCHANGED <<alive, nils, lost>>

Next == \/ Begin \/ Abandon \/ Fail \/ Succeed \/ Halt \/ Finish
        \/ \E e \in Services : Run(e) \/ End(e)

Spec == Init /\ [][Next]_phaseVars
=============================================================================
