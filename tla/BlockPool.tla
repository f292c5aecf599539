------------------------------ MODULE BlockPool ------------------------------
(***************************************************************************)
(* BlockPool of vllm/v1/core/block_pool.py: the free queue in eviction     *)
(* order, the reference counts, and the prefix cache that maps a block     *)
(* hash to the blocks that hold its tokens.  A pool is a record; every     *)
(* method is an operator from a pool to the pool it leaves behind.         *)
(*                                                                         *)
(* A block hash chains the tokens of the block with the hash of the block  *)
(* before it (hash_block_tokens), so it stands for the whole prefix that   *)
(* ends with the block: the prefix itself is the hash here, and a hash     *)
(* collision is outside the model.  The null block is not in Block: it is  *)
(* taken out in __init__ and never counted, freed or hashed.               *)
(***************************************************************************)
EXTENDS Lists

CONSTANTS
  Block,            \* the KV cache blocks but the null block
  Token,
  enable_caching    \* whether prefix caching is on

ASSUME PoolAssumption ==
  /\ IsFiniteSet(Block)
  /\ enable_caching \in BOOLEAN

Hash   == Seq(Token)
NoHash == <<>>      \* block_hash is None

\* The pool.  stored is what a consumer of the KV events takes to be cached:
\* the hashes of BlockStored, less those of BlockRemoved and AllBlocksCleared
\* since.  failed has the name of every method that raised or whose assertion
\* did not hold.
Pool == [free_block_queue : Seq(Block),
         ref_cnt : [Block -> Int],
         block_hash : [Block -> Hash],
         cached_block_hash_to_block : SUBSET (Hash \X Block),
         stored : SUBSET Hash,
         failed : SUBSET {"get_new_blocks", "touch", "cache_full_blocks"}]

\* __init__: nothing is cached and every block is free.  How the blocks are
\* numbered is of no account, so any order of them may be the first.
NewPools ==
  {[free_block_queue |-> order,
    ref_cnt |-> [b \in Block |-> 0],
    block_hash |-> [b \in Block |-> NoHash],
    cached_block_hash_to_block |-> {},
    stored |-> {},
    failed |-> {}] :
     order \in {s \in [1..Cardinality(Block) -> Block] : Elems(s) = Block}}

get_num_free_blocks(p) == Len(p.free_block_queue)

\* name joins failed unless the condition holds.
Check(p, condition, name) == p.failed \cup (IF condition THEN {} ELSE {name})

-----------------------------------------------------------------------------
\* Mutant: the blocks stay in the map.
evict_without_pop(p, S) ==
  [p EXCEPT !.block_hash = [b \in Block |-> IF b \in S THEN NoHash ELSE @[b]]]

\* Mutant: no BlockRemoved event.
evict_without_event(p, S) ==
  [p EXCEPT
     !.block_hash = [b \in Block |-> IF b \in S THEN NoHash ELSE @[b]],
     !.cached_block_hash_to_block = {e \in @ : e[2] \notin S}]

\* _maybe_evict_cached_block for every block of S: one that has a hash is
\* popped from the map, announced as removed, and loses its hash.
_maybe_evict_cached_block(p, S) ==
  LET hashed == {b \in S : p.block_hash[b] # NoHash}
      popped == {e \in p.cached_block_hash_to_block :
                   e[2] \in hashed /\ e[1] = p.block_hash[e[2]]}
  IN [p EXCEPT
        !.block_hash = [b \in Block |-> IF b \in S THEN NoHash ELSE @[b]],
        !.cached_block_hash_to_block = @ \ popped,
        !.stored = @ \ {e[1] : e \in popped}]

\* The blocks get_new_blocks(n) returns.
NewBlocks(p, n) == SubSeq(p.free_block_queue, 1, n)

\* get_new_blocks: the first n blocks of the free queue, out of the cache.
get_new_blocks(p, n) ==
  LET new     == Elems(NewBlocks(p, n))
      evicted == _maybe_evict_cached_block(p, new)
  IN IF n > get_num_free_blocks(p)
     THEN [p EXCEPT !.failed = @ \cup {"get_new_blocks"}]
     ELSE [evicted EXCEPT
             !.free_block_queue = SubSeq(@, n + 1, Len(@)),
             !.ref_cnt = [b \in Block |-> IF b \in new THEN @[b] + 1 ELSE @[b]],
             !.failed = Check(p, \A b \in new : p.ref_cnt[b] = 0, "get_new_blocks")]

\* touch: one more reference to each block; one that had none leaves the free
\* queue, which remove() refuses for a block that is not in it.
touch(p, blocks) ==
  LET S    == Elems(blocks)
      idle == {b \in S : p.ref_cnt[b] = 0}
  IN [p EXCEPT
        !.free_block_queue = Keep(@, Block \ idle),
        !.ref_cnt = [b \in Block |-> IF b \in S THEN @[b] + 1 ELSE @[b]],
        !.failed = Check(p, idle \subseteq Elems(p.free_block_queue), "touch")]

\* free_blocks: one reference less to each block; those left without any go
\* back to the free queue, the ones without a hash to its front.
free_blocks(p, ordered_blocks) ==
  LET S        == Elems(ordered_blocks)
      released == {b \in S : p.ref_cnt[b] = 1}
      hashed   == {b \in released : p.block_hash[b] # NoHash}
  IN [p EXCEPT
        !.free_block_queue = Keep(ordered_blocks, released \ hashed)
                             \o @ \o Keep(ordered_blocks, hashed),
        !.ref_cnt = [b \in Block |-> IF b \in S THEN @[b] - 1 ELSE @[b]]]

\* cache_full_blocks: the blocks numbered num_cached + 1 to num_full get the
\* hashes of those numbers and enter the map.  A block that has a hash loses it
\* first; in full attention the assertion on its length never lets one pass.
cache_full_blocks(p, blocks, block_hashes, num_cached, num_full) ==
  LET full  == num_cached + 1..num_full
      fresh == {blocks[i] : i \in full}
      added == {<<block_hashes[i], blocks[i]>> : i \in full}
      clean == _maybe_evict_cached_block(p, fresh)
  IN IF num_cached >= num_full THEN p
     ELSE [clean EXCEPT
             !.block_hash = [b \in Block |->
                 IF b \in fresh
                 THEN block_hashes[CHOOSE i \in full : blocks[i] = b]
                 ELSE @[b]],
             !.cached_block_hash_to_block = @ \cup added,
             !.stored = @ \cup {e[1] : e \in added},
             !.failed = Check(p, \A b \in fresh : p.block_hash[b] = NoHash,
                              "cache_full_blocks")]

\* evict_blocks: out of the prefix cache, references and queue untouched.
evict_blocks(p, block_ids) == _maybe_evict_cached_block(p, block_ids)

\* reset_prefix_cache: only when every block is free (the null block aside).
reset_prefix_cache(p) ==
  IF get_num_free_blocks(p) # Cardinality(Block) THEN p
  ELSE [p EXCEPT !.block_hash = [b \in Block |-> NoHash],
                 !.cached_block_hash_to_block = {},
                 !.stored = {}]
=============================================================================
