------------------------------ MODULE MCEntry ------------------------------
(* Instances of EntryLedger for TLC.  Stoppers are interchangeable. *)
EXTENDS EntryLedger, TLC

StopperSymmetry == Permutations(Stoppers)

=============================================================================
