------------------------------ MODULE MCHealth ------------------------------
(* Instances of HealthProbe for TLC: the second instance is ill for good. *)
EXTENDS HealthProbe

SecondSick == {2}

=============================================================================
