---------------------------- MODULE MCAtomicSend ----------------------------
(***************************************************************************)
(* AtomicSend for TLC. The configurations choose the live calls, the       *)
(* refund clicks and the faults of the environment.                        *)
(***************************************************************************)
EXTENDS AtomicSend

CONSTANTS s1, s2, w1, pass
=============================================================================
