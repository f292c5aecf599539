--------------------------- MODULE FreeBlockQueue ---------------------------
(***************************************************************************)
(* FreeKVCacheBlockQueue of vllm/v1/core/kv_cache_utils.py: the free KV    *)
(* cache blocks as a doubly linked list threaded through the blocks, with  *)
(* a fake head and a fake tail, driven by the calls that BlockPool makes.  *)
(***************************************************************************)
EXTENDS Integers, Sequences, SequencesExt

CONSTANTS
  NumBlocks,   \* the number of blocks handed to __init__
  FakeHead,    \* fake_free_list_head
  FakeTail,    \* fake_free_list_tail
  None         \* a link that is not set

Block == 1..NumBlocks    \* the blocks, in the order __init__ receives them

ASSUME NodesAssumption ==
  /\ NumBlocks \in Nat \ {0}
  /\ \A n \in {FakeHead, FakeTail, None} : n \notin Block
  /\ FakeHead # FakeTail /\ FakeHead # None /\ FakeTail # None

Node == Block \cup {FakeHead, FakeTail}

VARIABLES
  next_free_block,   \* of every node
  prev_free_block,   \* of every node
  num_free_blocks,
  out                \* the blocks the caller took and has not given back

vars == <<next_free_block, prev_free_block, num_free_blocks, out>>

-----------------------------------------------------------------------------
\* The links once every node of chain is connected with the one behind it.
NextLinks(next, chain) ==
  [n \in Node |-> IF \E i \in 1..Len(chain) - 1 : chain[i] = n
                  THEN chain[1 + CHOOSE i \in 1..Len(chain) - 1 : chain[i] = n]
                  ELSE next[n]]

PrevLinks(prev, chain) == NextLinks(prev, Reverse(chain))

\* Connect the nodes of chain, one behind the other.
Connect(chain) ==
  /\ next_free_block' = NextLinks(next_free_block, chain)
  /\ prev_free_block' = PrevLinks(prev_free_block, chain)

\* The node i steps behind the fake head, None past the end of the list.
NodeAt(i) ==
  LET at[k \in 0..i] == IF k = 0 THEN FakeHead
                        ELSE IF at[k - 1] = None THEN None
                        ELSE next_free_block[at[k - 1]]
  IN at[i]

\* The blocks reached from the fake head, up to the node without successor.
get_all_free_blocks ==
  LET reached == {i \in 1..NumBlocks + 1 : NodeAt(i + 1) # None}
  IN [i \in 1..Cardinality(reached) |-> NodeAt(i)]

-----------------------------------------------------------------------------
\* __init__: all blocks, in their order, between the two fake ones.
Init ==
  LET unlinked == [n \in Node |-> None]
      chain    == <<FakeHead>> \o [b \in Block |-> b] \o <<FakeTail>>
  IN /\ next_free_block = NextLinks(unlinked, chain)
     /\ prev_free_block = PrevLinks(unlinked, chain)
     /\ num_free_blocks = NumBlocks
     /\ out = {}

\* Mutant: the links of the block popped are not reset.
popleft_keeping_links ==
  LET first == next_free_block[FakeHead]
  IN /\ first \notin {FakeTail, None}
     /\ next_free_block[first] # None
     /\ next_free_block' = [next_free_block EXCEPT ![FakeHead] = next_free_block[first]]
     /\ prev_free_block' = [prev_free_block EXCEPT ![next_free_block[first]] = FakeHead]
     /\ num_free_blocks' = num_free_blocks - 1
     /\ out' = out \cup {first}

\* popleft: unlink the block behind the fake head.
popleft ==
  LET first == next_free_block[FakeHead]
  IN /\ first \notin {FakeTail, None}
     /\ next_free_block[first] # None
     /\ next_free_block' = [next_free_block EXCEPT ![FakeHead] = next_free_block[first],
                                                   ![first] = None]
     /\ prev_free_block' = [prev_free_block EXCEPT ![next_free_block[first]] = FakeHead,
                                                   ![first] = None]
     /\ num_free_blocks' = num_free_blocks - 1
     /\ out' = out \cup {first}

\* popleft_n: unlink the first n blocks, then connect the fake head with what
\* the walk has reached.
popleft_n(n) ==
  LET ret  == {NodeAt(i) : i \in 1..n}
      curr == NodeAt(n + 1)
  IN /\ num_free_blocks >= n
     /\ num_free_blocks' = num_free_blocks - n
     /\ next_free_block' = [m \in Node |-> IF m \in ret THEN None
                                           ELSE IF m = FakeHead /\ curr # None THEN curr
                                           ELSE next_free_block[m]]
     /\ prev_free_block' = [m \in Node |-> IF m \in ret THEN None
                                           ELSE IF m = curr THEN FakeHead
                                           ELSE prev_free_block[m]]
     /\ out' = out \cup ret

\* remove: unlink a block from the middle; a block without links is refused.
remove(b) ==
  LET p == prev_free_block[b]
      n == next_free_block[b]
  IN /\ p # None
     /\ n # None
     /\ next_free_block' = [next_free_block EXCEPT ![p] = n, ![b] = None]
     /\ prev_free_block' = [prev_free_block EXCEPT ![n] = p, ![b] = None]
     /\ num_free_blocks' = num_free_blocks - 1
     /\ out' = out \cup {b}

\* Mutant: the block goes in front of the last one.
append_before_last(b) ==
  LET last == prev_free_block[FakeTail]
  IN /\ last \notin {None, FakeHead}
     /\ Connect(<<prev_free_block[last], b, last>>)
     /\ num_free_blocks' = num_free_blocks + 1
     /\ out' = out \ {b}

\* append: put one block between the last one and the fake tail.
append(b) ==
  /\ prev_free_block[FakeTail] # None
  /\ Connect(<<prev_free_block[FakeTail], b, FakeTail>>)
  /\ num_free_blocks' = num_free_blocks + 1
  /\ out' = out \ {b}

\* prepend_n: put the blocks between the fake head and the first one.
prepend_n(blocks) ==
  /\ blocks # <<>>
  /\ next_free_block[FakeHead] # None
  /\ Connect(<<FakeHead>> \o blocks \o <<next_free_block[FakeHead]>>)
  /\ num_free_blocks' = num_free_blocks + Len(blocks)
  /\ out' = out \ ToSet(blocks)

\* append_n: put the blocks between the last one and the fake tail.
append_n(blocks) ==
  /\ blocks # <<>>
  /\ prev_free_block[FakeTail] # None
  /\ Connect(<<prev_free_block[FakeTail]>> \o blocks \o <<FakeTail>>)
  /\ num_free_blocks' = num_free_blocks + Len(blocks)
  /\ out' = out \ ToSet(blocks)

-----------------------------------------------------------------------------
\* The sequences of blocks without repetition, and those over the set S.
BlockOrders == UNION {SetToSeqs(T) : T \in SUBSET Block}
Orders(S)   == {s \in BlockOrders : ToSet(s) \subseteq S}

\* BlockPool gives back only blocks it took, each once, in an order of its own.
Next ==
  \/ popleft
  \/ \E n \in 1..num_free_blocks : popleft_n(n)
  \/ \E b \in Block : remove(b)
  \/ \E b \in out : append(b)
  \/ \E blocks \in Orders(out) : prepend_n(blocks) \/ append_n(blocks)

Spec == Init /\ [][Next]_vars

-----------------------------------------------------------------------------
(* popleft's "num_free_blocks is out of sync with the free list" never     *)
(* happens, and the list read backwards is the list read forwards: links   *)
(* that remove() and prepend_n() follow never lead to a block that was     *)
(* handed out.                                                             *)
ListInSync ==
  /\ num_free_blocks = Len(get_all_free_blocks)
  /\ \A n \in Node \ {FakeTail} :
       next_free_block[n] # None => prev_free_block[next_free_block[n]] = n
  /\ \A b \in out : next_free_block[b] = None /\ prev_free_block[b] = None

(* The linked list behaves as the sequence of free blocks BlockPool        *)
(* relies on: every call takes and puts back exactly the blocks it names,  *)
(* at the end it names, and leaves the order of the others alone.          *)
Queue == INSTANCE BlockQueue WITH free <- get_all_free_blocks
QueueSpec == Queue!Spec
=============================================================================
