----------------------------- MODULE MCScheduler -----------------------------
(***************************************************************************)
(* Instances of Scheduler for TLC.                                         *)
(***************************************************************************)
EXTENDS Scheduler

CONSTANTS r1, r2, r3

EqualPriorities == [r \in Request |-> 0]
\* The later names go first.
Priorities == [r \in Request |-> IF r = r1 THEN 2 ELSE 1]
=============================================================================
