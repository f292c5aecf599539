----------------------------- MODULE BlockQueue -----------------------------
(***************************************************************************)
(* What the free-block queue of vllm/v1/core/kv_cache_utils.py promises to *)
(* its only caller, the BlockPool: a sequence of distinct free blocks in   *)
(* eviction order, and the blocks the caller holds.  FreeBlockQueue.tla    *)
(* implements it with a doubly linked list.                                *)
(***************************************************************************)
EXTENDS Sequences, Integers, SequencesExt

CONSTANT Block

VARIABLES
  free,   \* the free blocks, the next one to be evicted first
  out     \* the blocks in the hands of the caller

vars == <<free, out>>

\* The sequences of blocks without repetition, and those over the set S.
BlockOrders == UNION {SetToSeqs(T) : T \in SUBSET Block}
Orders(S)   == {s \in BlockOrders : ToSet(s) \subseteq S}

Init ==
  /\ free \in SetToSeqs(Block)
  /\ out = {}

\* Take n blocks from the front.
Take(n) ==
  /\ n \in 1..Len(free)
  /\ free' = SubSeq(free, n + 1, Len(free))
  /\ out' = out \cup ToSet(SubSeq(free, 1, n))

\* Take one block from wherever it is.
TakeOut(b) ==
  /\ b \in ToSet(free)
  /\ free' = SelectSeq(free, LAMBDA c : c # b)
  /\ out' = out \cup {b}

\* Put blocks back: those of front before, those of back behind the others.
PutBack(front, back) ==
  /\ ToSet(front) \cup ToSet(back) \subseteq out
  /\ out' = out \ (ToSet(front) \cup ToSet(back))
  /\ free' = front \o free \o back

Next ==
  \/ \E n \in 1..Len(free) : Take(n)
  \/ \E b \in Block : TakeOut(b)
  \/ \E S \in Orders(out) : \E k \in 0..Len(S) :
       PutBack(SubSeq(S, 1, k), SubSeq(S, k + 1, Len(S)))

Spec == Init /\ [][Next]_vars
=============================================================================
