-------------------------------- MODULE Lists --------------------------------
(***************************************************************************)
(* What the modules need of the Python lists and deques they model.        *)
(***************************************************************************)
EXTENDS Integers, Sequences, FiniteSets

\* The elements of a sequence.
Elems(s) == {s[i] : i \in 1..Len(s)}

\* The elements of the sequence q that are in S, in the order of q.
Keep(q, S) ==
  LET I == {i \in 1..Len(q) : q[i] \in S}
  IN [k \in 1..Cardinality(I) |->
        q[CHOOSE i \in I : Cardinality({j \in I : j <= i}) = k]]
=============================================================================
