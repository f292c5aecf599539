--------------------------- MODULE KVCacheManager ---------------------------
(***************************************************************************)
(* KVCacheManager of vllm/v1/core/kv_cache_manager.py over one group of    *)
(* full-attention layers (UnitaryKVCacheCoordinator, FullAttentionManager  *)
(* and BlockPool), with the calls the scheduler makes on it: admission     *)
(* with prefix-cache hits and externally loaded tokens, the next chunk or  *)
(* decode of a running request, sampled tokens, asynchronous KV loads,     *)
(* preemption and finishing with their deferred frees, eviction of invalid *)
(* blocks and reset.                                                       *)
(***************************************************************************)
EXTENDS BlockPool

CONSTANTS
  Request,              \* the slots for requests; a slot is reused
  block_size,
  max_model_len,
  num_lookahead_tokens,
  use_eagle,            \* whether the last hit block is dropped
  async_scheduling,     \* whether AsyncScheduler drives the manager
  scheduler_reserve_full_isl,  \* whether an admitted request must fit as a whole
  defer_block_free,     \* whether batches overlap and a connector loads blocks
  Entry,                \* the entries deferred_frees has room for
  Prompts,              \* the prompts of new requests
  MaxAhead,             \* draft tokens and outputs in flight of one request
  MaxExternal,          \* tokens a connector offers to load
  MaxHeadroom,          \* watermark_blocks and the blocks reserved for others
  Reports               \* the sets of blocks a connector may report invalid

ASSUME ManagerAssumption ==
  /\ IsFiniteSet(Request)
  /\ block_size \in Nat \ {0}
  /\ max_model_len \in Nat
  /\ num_lookahead_tokens \in Nat
  /\ use_eagle \in BOOLEAN
  /\ async_scheduling \in BOOLEAN
  /\ scheduler_reserve_full_isl \in BOOLEAN
  /\ defer_block_free \in BOOLEAN
  /\ IsFiniteSet(Entry)
  /\ Entry \cap Request = {}
  /\ Prompts \subseteq Seq(Token)
  /\ \A s \in Prompts : s # <<>> /\ Len(s) <= max_model_len
  /\ MaxAhead \in Nat
  /\ MaxExternal \in Nat
  /\ MaxHeadroom \in Nat
  /\ \A S \in Reports : S \subseteq Block

VARIABLES
  pool,                  \* block_pool
  req_to_blocks,         \* of the FullAttentionManager; <<>> when absent
  num_cached_block,      \* of the FullAttentionManager; 0 when absent
  deferred_frees,        \* of the scheduler; <<>> in an entry not in use
  all_token_ids,         \* of the request; <<>> in a slot that is not in use
  num_computed_tokens,   \* of the request
  status                 \* of the request

vars == <<pool, req_to_blocks, num_cached_block, deferred_frees, all_token_ids,
          num_computed_tokens, status>>

Statuses == {"NONE", "WAITING", "REMOTE", "RUNNING"}

-----------------------------------------------------------------------------
cdiv(a, b) == (a + b - 1) \div b

AtMost(a, b) == IF a <= b THEN a ELSE b

\* Mutant: the hash of a block does not chain with the one before it.
own_tokens(toks, i) == SubSeq(toks, (i - 1) * block_size + 1, i * block_size)

\* num_tokens of the request, and the hash of its i-th block.
num_tokens(r)    == Len(all_token_ids[r])
Prefix(toks, i)  == SubSeq(toks, 1, i * block_size)
BlockHashes(toks) == [i \in 1..Len(toks) \div block_size |-> Prefix(toks, i)]

\* The sequences of blocks find_longest_cache_hit may return for the tokens:
\* as many leading blocks as the map has, one block for each hash.
find_longest_cache_hit(p, toks, max_length) ==
  LET found(i) == {b \in Block : <<Prefix(toks, i), b>> \in p.cached_block_hash_to_block}
      lens     == {k \in 0..max_length \div block_size :
                     \A i \in 1..k : found(i) # {}}
      longest  == CHOOSE k \in lens : \A l \in lens : l <= k
      kept     == IF use_eagle /\ longest > 0 THEN longest - 1 ELSE longest
  IN {s \in [1..kept -> Block] : \A i \in 1..kept : s[i] \in found(i)}

\* get_computed_blocks: the last token is always left to be computed.
get_computed_blocks(r, skip_reading_prefix_cache) ==
  IF ~enable_caching \/ skip_reading_prefix_cache THEN {<<>>}
  ELSE find_longest_cache_hit(pool, all_token_ids[r], num_tokens(r) - 1)

\* get_num_blocks_to_allocate: new blocks, and the hits that are still in the
\* free queue.
get_num_blocks_to_allocate(r, n, hit) ==
  LET missing == cdiv(n, block_size) - (Len(hit) + Len(req_to_blocks[r]))
  IN (IF missing > 0 THEN missing ELSE 0)
     + Cardinality({b \in Elems(hit) : pool.ref_cnt[b] = 0})

\* cache_blocks: of the request with these tokens and blocks, the first n
\* tokens of which are computed.
cache_blocks(p, toks, blocks, num_cached, n) ==
  IF enable_caching
  THEN cache_full_blocks(p, blocks, BlockHashes(toks), num_cached, n \div block_size)
  ELSE p

\* Mutants: num_cached_block is not advanced, or one block short.
num_cached_not_advanced(num_cached, n) == num_cached
num_cached_one_short(num_cached, n) ==
  IF enable_caching THEN n \div block_size - 1 ELSE num_cached

NumCached(num_cached, n) ==
  IF enable_caching /\ num_cached < n \div block_size
  THEN n \div block_size ELSE num_cached

\* Mutant: the head is evicted first.
head_first(s) == s

\* free: in reverse order, so that the tail is evicted first.
Reversed(s) == [i \in 1..Len(s) |-> s[Len(s) + 1 - i]]
free(p, r) == free_blocks(p, Reversed(req_to_blocks[r]))

-----------------------------------------------------------------------------
\* allocate_slots for n new tokens behind the hit blocks and ext external
\* tokens; the scheduler then counts the n tokens as computed.  The external
\* and the new blocks are taken from the free queue one after the other.
\* headroom is the watermark and the blocks reserved for other requests.
allocate_slots(r, n, hit, ext, lookahead, headroom, full_sequence_must_fit, delay) ==
  LET computed == AtMost(num_computed_tokens[r] + Len(hit) * block_size + ext,
                         max_model_len)
      slots    == AtMost(computed + n + lookahead, max_model_len)
      required == get_num_blocks_to_allocate(r, slots, hit)
      full     == get_num_blocks_to_allocate(r, AtMost(num_tokens(r), max_model_len), hit)
      touched  == touch(pool, hit)
      missing  == cdiv(slots, block_size) - (Len(req_to_blocks[r]) + Len(hit))
      count    == IF missing > 0 THEN missing ELSE 0
      taken    == get_new_blocks(touched, count)
      blocks   == req_to_blocks[r] \o hit \o NewBlocks(touched, count)
      before   == IF hit = <<>> THEN num_cached_block[r] ELSE Len(hit)
      to_cache == IF delay THEN 0 ELSE AtMost(computed + n, num_tokens(r))
  IN /\ n + ext > 0
     /\ full_sequence_must_fit => full + headroom <= get_num_free_blocks(pool)
     /\ required + headroom <= get_num_free_blocks(pool)
     /\ pool' = cache_blocks(taken, all_token_ids[r], blocks, before, to_cache)
     /\ req_to_blocks' = [req_to_blocks EXCEPT ![r] = blocks]
     /\ num_cached_block' = [num_cached_block EXCEPT ![r] = NumCached(before, to_cache)]
     /\ num_computed_tokens' = [num_computed_tokens EXCEPT ![r] = computed + n]

\* add_request.
AddRequest(r, prompt) ==
  /\ status[r] = "NONE"
  /\ status' = [status EXCEPT ![r] = "WAITING"]
  /\ all_token_ids' = [all_token_ids EXCEPT ![r] = prompt]
  /\ UNCHANGED <<pool, req_to_blocks, num_cached_block, deferred_frees, num_computed_tokens>>

\* The WAITING loop of schedule() admits a request without computed tokens:
\* n tokens after the local hits and ext external ones, loaded by the same
\* step.  One that lacks a single token may be padded with draft tokens.
Admit(r, skip, ext, n, headroom) ==
  /\ status[r] = "WAITING"
  /\ num_computed_tokens[r] = 0
  /\ n > 0
  /\ \E hit \in get_computed_blocks(r, skip) :
       /\ LET computed == Len(hit) * block_size + ext
          IN \/ computed + n <= num_tokens(r)
             \/ /\ computed = num_tokens(r) - 1
                /\ n <= 1 + MaxAhead
                /\ computed + n <= max_model_len
       /\ allocate_slots(r, n, hit, ext, num_lookahead_tokens, headroom,
                         scheduler_reserve_full_isl, FALSE)
  /\ status' = [status EXCEPT ![r] = "RUNNING"]
  /\ UNCHANGED <<all_token_ids, deferred_frees>>

\* ... or allocates the blocks that an asynchronous load will fill.
StartLoad(r, skip, ext, headroom) ==
  /\ status[r] = "WAITING"
  /\ num_computed_tokens[r] = 0
  /\ ext > 0
  /\ \E hit \in get_computed_blocks(r, skip) :
       /\ Len(hit) * block_size + ext <= num_tokens(r)
       /\ allocate_slots(r, 0, hit, ext, IF use_eagle THEN 0 ELSE num_lookahead_tokens,
                         headroom, scheduler_reserve_full_isl, TRUE)
  /\ status' = [status EXCEPT ![r] = "REMOTE"]
  /\ UNCHANGED <<all_token_ids, deferred_frees>>

\* The load is over and _try_promote_blocked_waiting_request promotes the
\* request: valid of its tokens are there, all of them or those before the
\* first block that failed.
FinishLoad(r, valid) ==
  /\ status[r] = "REMOTE"
  /\ \/ valid = num_computed_tokens[r]
     \/ /\ valid < num_computed_tokens[r]
        /\ valid % block_size = 0
        /\ num_cached_block[r] * block_size <= valid
  /\ IF valid = 0
     THEN /\ pool' = free(pool, r)
          /\ req_to_blocks' = [req_to_blocks EXCEPT ![r] = <<>>]
          /\ num_cached_block' = [num_cached_block EXCEPT ![r] = 0]
     ELSE /\ pool' = cache_blocks(pool, all_token_ids[r], req_to_blocks[r],
                                  num_cached_block[r], valid)
          /\ num_cached_block' = [num_cached_block EXCEPT ![r] = NumCached(@, valid)]
          /\ UNCHANGED req_to_blocks
  /\ num_computed_tokens' = [num_computed_tokens EXCEPT ![r] =
       IF valid = num_tokens(r) THEN valid - 1 ELSE valid]
  /\ status' = [status EXCEPT ![r] = "WAITING"]
  /\ UNCHANGED <<all_token_ids, deferred_frees>>

\* The RUNNING loop gives a request n more tokens; the WAITING loop does so
\* with one whose load is over.
Continue(r, n, headroom) ==
  /\ \/ status[r] = "RUNNING"
     \/ status[r] = "WAITING" /\ num_computed_tokens[r] > 0
  /\ n > 0
  /\ num_computed_tokens[r] + n <= num_tokens(r) + MaxAhead
  /\ num_computed_tokens[r] + n <= max_model_len
  /\ allocate_slots(r, n, <<>>, 0, num_lookahead_tokens, headroom,
                    status[r] = "WAITING" /\ scheduler_reserve_full_isl, FALSE)
  /\ status' = [status EXCEPT ![r] = "RUNNING"]
  /\ UNCHANGED <<all_token_ids, deferred_frees>>

\* update_from_output: out was sampled, the last rejected drafts are undone.
\* AsyncScheduler caches what the sampled tokens complete.
Output(r, out, rejected) ==
  LET toks  == all_token_ids[r] \o out
      ahead == num_computed_tokens[r] + 1 - num_tokens(r)
  IN /\ status[r] = "RUNNING"
     /\ Len(out) + rejected <= ahead
     /\ ~async_scheduling => Len(out) + rejected = ahead
     /\ Len(toks) <= max_model_len
     /\ all_token_ids' = [all_token_ids EXCEPT ![r] = toks]
     /\ num_computed_tokens' = [num_computed_tokens EXCEPT ![r] = @ - rejected]
     /\ IF async_scheduling
        THEN /\ pool' = cache_blocks(pool, toks, req_to_blocks[r],
                                     num_cached_block[r], Len(toks) - 1)
             /\ num_cached_block' = [num_cached_block EXCEPT ![r] =
                                       NumCached(@, Len(toks) - 1)]
        ELSE UNCHANGED <<pool, num_cached_block>>
     /\ UNCHANGED <<req_to_blocks, deferred_frees, status>>

\* The output of a step in flight when the request was preempted.
LateOutput(r, out) ==
  /\ async_scheduling
  /\ status[r] = "WAITING"
  /\ req_to_blocks[r] = <<>>
  /\ num_tokens(r) + Len(out) <= max_model_len
  /\ all_token_ids' = [all_token_ids EXCEPT ![r] = @ \o out]
  /\ UNCHANGED <<pool, req_to_blocks, num_cached_block, deferred_frees,
                 num_computed_tokens, status>>

\* _free_request_blocks: the blocks go back to the pool, or wait until the
\* batches in flight that may still write them have been processed.
_free_request_blocks(r) ==
  \/ /\ pool' = free(pool, r)
     /\ UNCHANGED deferred_frees
  \/ /\ defer_block_free
     /\ req_to_blocks[r] # <<>>
     /\ \E d \in Entry :
          /\ deferred_frees[d] = <<>>
          /\ deferred_frees' = [deferred_frees EXCEPT ![d] = req_to_blocks[r]]
     /\ UNCHANGED pool

\* Mutant: the computed tokens of a request that lost its blocks still count.
release_keeping_count(r) ==
  /\ _free_request_blocks(r)
  /\ req_to_blocks' = [req_to_blocks EXCEPT ![r] = <<>>]
  /\ num_cached_block' = [num_cached_block EXCEPT ![r] = 0]
  /\ UNCHANGED num_computed_tokens

\* Its table is gone either way (pop_blocks_for_free).
Release(r) ==
  /\ _free_request_blocks(r)
  /\ req_to_blocks' = [req_to_blocks EXCEPT ![r] = <<>>]
  /\ num_cached_block' = [num_cached_block EXCEPT ![r] = 0]
  /\ num_computed_tokens' = [num_computed_tokens EXCEPT ![r] = 0]

\* _preempt_request.
Preempt(r) ==
  /\ status[r] = "RUNNING"
  /\ Release(r)
  /\ status' = [status EXCEPT ![r] = "WAITING"]
  /\ UNCHANGED all_token_ids

\* _free_blocks of a finished or aborted request.  One that is aborted during
\* its load keeps its blocks, and is freed when the load is over, with nothing
\* cached.
Finish(r) ==
  /\ status[r] # "NONE"
  /\ Release(r)
  /\ status' = [status EXCEPT ![r] = "NONE"]
  /\ all_token_ids' = [all_token_ids EXCEPT ![r] = <<>>]

\* Mutant: the entry is looked at and not taken.
drain_without_pop(d) ==
  /\ deferred_frees[d] # <<>>
  /\ pool' = free_blocks(pool, Reversed(deferred_frees[d]))
  /\ UNCHANGED <<req_to_blocks, num_cached_block, deferred_frees, all_token_ids,
                 num_computed_tokens, status>>

\* An entry of deferred_frees in _drain_deferred_frees.  Which batches are in
\* flight is left to Scheduler: here the fence of an entry may pass at any time.
DrainDeferredFrees(d) ==
  /\ deferred_frees[d] # <<>>
  /\ pool' = free_blocks(pool, Reversed(deferred_frees[d]))
  /\ deferred_frees' = [deferred_frees EXCEPT ![d] = <<>>]
  /\ UNCHANGED <<req_to_blocks, num_cached_block, all_token_ids,
                 num_computed_tokens, status>>

EvictBlocks(block_ids) ==
  /\ pool' = evict_blocks(pool, block_ids)
  /\ UNCHANGED <<req_to_blocks, num_cached_block, deferred_frees, all_token_ids,
                 num_computed_tokens, status>>

ResetPrefixCache ==
  /\ pool' = reset_prefix_cache(pool)
  /\ UNCHANGED <<req_to_blocks, num_cached_block, deferred_frees, all_token_ids,
                 num_computed_tokens, status>>

-----------------------------------------------------------------------------
Init ==
  /\ pool \in NewPools
  /\ req_to_blocks = [r \in Request |-> <<>>]
  /\ num_cached_block = [r \in Request |-> 0]
  /\ deferred_frees = [d \in Entry |-> <<>>]
  /\ all_token_ids = [r \in Request |-> <<>>]
  /\ num_computed_tokens = [r \in Request |-> 0]
  /\ status = [r \in Request |-> "NONE"]

Outputs == UNION {[1..k -> Token] : k \in 1..MaxAhead + 1}

RequestStep(r) ==
  \/ \E prompt \in Prompts : AddRequest(r, prompt)
  \/ \E skip \in BOOLEAN, ext \in 0..MaxExternal, n \in 1..max_model_len,
        headroom \in 0..MaxHeadroom : Admit(r, skip, ext, n, headroom)
  \/ \E skip \in BOOLEAN, ext \in 1..MaxExternal, headroom \in 0..MaxHeadroom :
       StartLoad(r, skip, ext, headroom)
  \/ \E valid \in 0..max_model_len : FinishLoad(r, valid)
  \/ \E n \in 1..max_model_len, headroom \in 0..MaxHeadroom : Continue(r, n, headroom)
  \/ \E out \in Outputs, rejected \in 0..MaxAhead : Output(r, out, rejected)
  \/ \E out \in Outputs : LateOutput(r, out)
  \/ Preempt(r)
  \/ Finish(r)

Next ==
  \/ \E r \in Request : RequestStep(r)
  \/ \E d \in Entry : DrainDeferredFrees(d)
  \/ \E S \in Reports : EvictBlocks(S)
  \/ ResetPrefixCache

Spec == Init /\ [][Next]_vars

-----------------------------------------------------------------------------
Holders(b) == {r \in Request : b \in Elems(req_to_blocks[r])}
              \cup {d \in Entry : b \in Elems(deferred_frees[d])}

(* The state of the pool, of the requests' block tables and of the requests' *)
(* counters has its type.                                                   *)
TypeOK ==
  /\ pool \in Pool
  /\ req_to_blocks \in [Request -> Seq(Block)]
  /\ num_cached_block \in [Request -> Nat]
  /\ deferred_frees \in [Entry -> Seq(Block)]
  /\ all_token_ids \in [Request -> Seq(Token)]
  /\ num_computed_tokens \in [Request -> Nat]
  /\ status \in [Request -> Statuses]

(* The capacity check of allocate_slots is enough: get_new_blocks never     *)
(* raises "Cannot get ... free blocks", no block it returns is in use,      *)
(* touch never unlinks a block that is not in the free queue, and           *)
(* cache_full_blocks never meets a block that has a hash already.           *)
NoFailedCall == pool.failed = {}

(* A block's reference count is the number of requests whose block table    *)
(* has it and of entries of deferred_frees with it, and the free queue has  *)
(* exactly the blocks without reference, each once: no block in use, or in  *)
(* the use of a batch in flight, can be handed out, and none is lost.       *)
BlockAccounting ==
  /\ \A b \in Block : pool.ref_cnt[b] = Cardinality(Holders(b))
  /\ Elems(pool.free_block_queue) = {b \in Block : Holders(b) = {}}
  /\ \A i, j \in 1..Len(pool.free_block_queue) :
       pool.free_block_queue[i] = pool.free_block_queue[j] => i = j

(* cached_block_hash_to_block and the block_hash of the blocks agree: a hit *)
(* is a block that carries the hash, and a block that carries one is found. *)
CacheMapExact ==
  /\ \A e \in pool.cached_block_hash_to_block :
       e[1] # NoHash /\ pool.block_hash[e[2]] = e[1]
  /\ \A b \in Block : pool.block_hash[b] # NoHash =>
       <<pool.block_hash[b], b>> \in pool.cached_block_hash_to_block

(* What makes prefix caching sound: when two requests have a block in       *)
(* common it is at the same place of both block tables, and up to its end   *)
(* both have the same tokens - whatever was freed, evicted, sampled,        *)
(* rejected or loaded in between.                                           *)
SharedBlocksAgree ==
  \A r, s \in Request :
    \A i \in 1..Len(req_to_blocks[r]), j \in 1..Len(req_to_blocks[s]) :
      (r # s /\ req_to_blocks[r][i] = req_to_blocks[s][j]) =>
        /\ i = j
        /\ i * block_size <= num_tokens(r)
        /\ i * block_size <= num_tokens(s)
        /\ \A k \in 1..i * block_size : all_token_ids[r][k] = all_token_ids[s][k]

(* Every token that is computed or scheduled has a slot in the request's    *)
(* block table, after admission, a partly failed load, drafts and their     *)
(* rejection.                                                               *)
SlotsCovered ==
  \A r \in Request : num_computed_tokens[r] <= Len(req_to_blocks[r]) * block_size

(* A consumer of the KV events never takes a prefix to be cached that is    *)
(* not, although two blocks may carry the same hash and one be evicted.     *)
EventsNeverOverstate ==
  \A h \in pool.stored : \E b \in Block : <<h, b>> \in pool.cached_block_hash_to_block

(* find_longest_cache_hit stops at the first miss because "the following    *)
(* block hashes are not computed yet for sure": when a prefix is cached, so *)
(* is every shorter one, since free() queues the tail of a request for      *)
(* eviction before its head.  (Only while no block is reported invalid.)    *)
PrefixClosed ==
  \A e \in pool.cached_block_hash_to_block :
    Len(e[1]) > block_size =>
      \E b \in Block : <<SubSeq(e[1], 1, Len(e[1]) - block_size), b>>
                          \in pool.cached_block_hash_to_block
=============================================================================
