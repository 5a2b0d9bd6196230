------------------------------- MODULE MCCron -------------------------------
(* Instances of CronSchedule for TLC. *)
EXTENDS CronSchedule

=============================================================================
