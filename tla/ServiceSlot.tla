------------------------------ MODULE ServiceSlot ------------------------------
(***************************************************************************)
(* What the membership operations promise about one entry, whatever they   *)
(* do inside: an entry is held by at most one start or teardown at a time, *)
(* has at most one instance in user code, launches one only inside a start *)
(* (or, with self-heal, as the successor of its previous instance), never  *)
(* launches an instance twice, and is dead for good once it was removed by *)
(* a teardown.                                                             *)
(***************************************************************************)
EXTENDS Integers

CONSTANTS
    SelfHeal,   \* may an instance be succeeded by another one on its own?
    Preset      \* instances launched before the entry is observed (0 or 1)

VARIABLES
    mode,       \* "free", "start" or "stop": what holds the entry
    alive,      \* the instances in user code
    launched,   \* the number of instances launched so far
    gone        \* the entry was removed

slotVars == <<mode, alive, launched, gone>>

Init == /\ mode = "free" /\ gone = FALSE
        /\ launched = Preset /\ alive = 1 .. Preset

Hold(m) == /\ mode = "free" /\ ~gone
           /\ mode' = m
           /\ UNCHANGED <<alive, launched, gone>>

Free == /\ mode # "free"
        /\ mode' = "free"
        /\ UNCHANGED <<alive, launched, gone>>

Launch == /\ alive = {}
          /\ \/ mode = "start"
             \/ SelfHeal /\ launched > 0 /\ ~gone
          /\ launched' = launched + 1
          /\ alive' = {launched + 1}
          /\ UNCHANGED <<mode, gone>>

Exit == /\ alive # {}
        /\ alive' = {}
        /\ UNCHANGED <<mode, launched, gone>>

Remove == /\ mode = "stop" /\ ~gone
          /\ gone' = TRUE
          /\ UNCHANGED <<mode, alive, launched>>

Next == Hold("start") \/ Hold("stop") \/ Free \/ Launch \/ Exit \/ Remove

Spec == Init /\ [][Next]_slotVars
=============================================================================
