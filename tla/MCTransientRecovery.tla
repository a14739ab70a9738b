-------------------------- MODULE MCTransientRecovery --------------------------
(* The code's schedule in units of five minutes: waits of 5, 15, 45 and 90
   minutes, a deadline of three hours and four probes. *)
EXTENDS TransientRecovery

MCSchedule == <<1, 3, 9, 18>>
=============================================================================
