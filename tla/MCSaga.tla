------------------------------- MODULE MCSaga -------------------------------
(***************************************************************************)
(* Saga for TLC: one request handler and one or two server instances that  *)
(* run the recovery task.  Deadlock is not checked: with its requests and  *)
(* faults used up the system rests.                                        *)
(***************************************************************************)
EXTENDS Saga

CONSTANTS h, r1, r2
=============================================================================
