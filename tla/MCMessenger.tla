----------------------------- MODULE MCMessenger -----------------------------
(* The messenger checked by TLC: who holds which view. *)
EXTENDS Messenger, TLC

CONSTANTS o1, c1, r1, r2

\* A service instance that subscribes and requests, and a request of nobody's.
Views1 == (c1 :> o1) @@ (r1 :> o1) @@ (r2 :> Root)
=============================================================================
