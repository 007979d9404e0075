----------------------------- MODULE MCReceive ------------------------------
(***************************************************************************)
(* Receive for TLC. The configurations choose the rails, the origins, the  *)
(* times and the faults.                                                   *)
(***************************************************************************)
EXTENDS Receive
=============================================================================
