------------------------------ MODULE MCMembership ------------------------------
(* The registry checked by TLC: which entries there are and what ties them. *)
EXTENDS Membership, TLC

CONSTANTS db, api, job, db2

\* A database, a service on it and, registered later, a runOnce gate on it that
\* names the service softly.  db2 takes over the name of db after an Unregister
\* and depends softly on the gate: whichever of db2 and job comes first, the
\* other one would close the cycle db, job, db, or db, job, api, db.
Name1 == (db :> "db") @@ (db2 :> "db") @@ (api :> "api") @@ (job :> "job")
Hard1 == (db :> {}) @@ (db2 :> {}) @@ (api :> {"db"}) @@ (job :> {"db"})
Soft1 == (db :> {}) @@ (db2 :> {"job"}) @@ (api :> {}) @@ (job :> {"api"})

\* The stoppers are interchangeable.
Symmetry == Permutations(Stoppers)
================================================================================
