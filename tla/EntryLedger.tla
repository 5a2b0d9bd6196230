----------------------------- MODULE EntryLedger -----------------------------
(***************************************************************************)
(* EntryLifecycle with a ledger beside it: a history variable that books   *)
(* every increment of Metrics().Stops to the instance it was counted for.  *)
(* The program keeps one total; the ledger only watches it, so no step of  *)
(* the entry depends on it.                                                *)
(***************************************************************************)
EXTENDS EntryLifecycle

\* Stops booked to each instance, and to 0 when no instance was there to stop.
VARIABLE counted

Spawned(i) == stage[i] \notin {"none", "new"}

\* The last instance spawned, 0 before the first.
Newest(i) == (i # 0 => Spawned(i)) /\ \A j \in Ids : j > i => ~Spawned(j)

\* What a step adds to the total belongs to the newest instance at that time.
Record ==
    counted' = [i \in Ids \cup {0} |->
                  IF Newest(i) THEN counted[i] + (stops' - stops) ELSE counted[i]]

LedgerInit == Init /\ counted = [i \in Ids \cup {0} |-> 0]
LedgerNext == Next /\ Record
LedgerSpec == LedgerInit /\ [][LedgerNext]_<<vars, counted>>

LedgerFairSpec == LedgerSpec /\ Fairness

\* Metrics().Stops counts the stop of each instance at most once, and none when
\* no instance was spawned, although StopService, the exit handler and
\* Orchestrator.Stop may all observe the same stop (accountStop of
\* src/lifecycle.go:524-533, with the latch a start and a restart open again).
StopsCountedOnce == counted[0] = 0 /\ \A i \in Ids : counted[i] <= 1

=============================================================================
