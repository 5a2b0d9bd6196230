----------------------------- MODULE MCStartAndStop -----------------------------
(* The graph checked by TLC: a gate, a database behind it, a service on the *)
(* database and a cron entry.                                                *)
EXTENDS StartAndStop, TLC

CONSTANTS gate, db, api, tick

Deps1 == [e \in Entries |-> CASE e = db -> {gate}
                              [] e = api -> {db}
                              [] OTHER -> {}]
================================================================================
