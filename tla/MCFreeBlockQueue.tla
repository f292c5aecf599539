-------------------------- MODULE MCFreeBlockQueue --------------------------
(***************************************************************************)
(* FreeBlockQueue over a small pool.                                       *)
(***************************************************************************)
EXTENDS FreeBlockQueue
=============================================================================
