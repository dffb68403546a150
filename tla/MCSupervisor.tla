-------------------------- MODULE MCSupervisor --------------------------
(* Model-checking module of Supervisor; the .cfg files give the bounds. *)
EXTENDS Supervisor
=========================================================================
