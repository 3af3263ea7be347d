---------------------------- MODULE MCSchedules ----------------------------
(* Instances of Schedules. *)
EXTENDS Schedules
=============================================================================
