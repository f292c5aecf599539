---------------------------- MODULE KVCacheProofs ----------------------------
(***************************************************************************)
(* Proofs about KVCacheManager, for every pool, every set of requests and  *)
(* prompts, every block size and every bound.                              *)
(***************************************************************************)
EXTENDS BlockPoolProofs, WellFoundedInduction

-----------------------------------------------------------------------------
\* What f is of the requests and g of the entries of deferred_frees.
Both(f, g) == [h \in Holder |-> IF h \in Request THEN f[h] ELSE g[h]]

(* The tables T of the requests and E of the entries are in order.  The     *)
(* tokens of a request whose free is deferred may change or be gone: its    *)
(* entry stands for what they were.                                         *)
InOrder(p, T, E, C, K) ==
  /\ T \in [Request -> Seq(Block)] /\ E \in [Entry -> Seq(Block)]
  /\ C \in [Request -> Nat] /\ K \in [Request -> Seq(Token)]
  /\ \E EC \in [Entry -> Nat], EK \in [Entry -> Seq(Token)] :
       Tables(p, Both(T, E), Both(C, EC), Both(K, EK))

(* A holder is a request or an entry, never both, and an update of f or g   *)
(* is one of Both(f, g).                                                    *)
LEMMA BothAt ==
  /\ \A r \in Request : r \in Holder
  /\ \A d \in Entry : d \in Holder /\ d \notin Request
  /\ \A h \in Holder : h \notin Request => h \in Entry
BY ManagerAssumption, Zenon DEF Holder

LEMMA BothRequest ==
  ASSUME NEW f, NEW g, NEW r \in Request
  PROVE  Both(f, g)[r] = f[r]
BY BothAt, Zenon DEF Both

LEMMA BothEntry ==
  ASSUME NEW f, NEW g, NEW d \in Entry
  PROVE  Both(f, g)[d] = g[d]
BY BothAt, Zenon DEF Both

\* Names that the provers take as they are.
Over(f, S) == DOMAIN f = S
Put(f, x, v) == [f EXCEPT ![x] = v]

LEMMA BothRequestPut ==
  ASSUME NEW f, NEW g, NEW r \in Request, Over(f, Request), NEW v
  PROVE  Both(Put(f, r, v), g) = Put(Both(f, g), r, v)
<1> DEFINE e == [f EXCEPT ![r] = v]
<1>2. \A h \in Request : e[h] = IF h = r THEN v ELSE f[h]
  BY Zenon DEF Over
<1> HIDE DEF e
<1>3. \A h \in Holder : Both(e, g)[h] = [Both(f, g) EXCEPT ![r] = v][h]
  BY <1>2, BothAt, Zenon DEF Both
<1>4. Both(e, g) = [Both(f, g) EXCEPT ![r] = v]
  BY <1>3, Zenon DEF Both
<1> QED BY <1>4, Zenon DEF e, Put

LEMMA BothEntryPut ==
  ASSUME NEW f, NEW g, NEW d \in Entry, Over(g, Entry), NEW v
  PROVE  Both(f, Put(g, d, v)) = Put(Both(f, g), d, v)
<1> DEFINE e == [g EXCEPT ![d] = v]
<1>2. \A h \in Entry : e[h] = IF h = d THEN v ELSE g[h]
  BY Zenon DEF Over
<1> HIDE DEF e
<1>3. \A h \in Holder : Both(f, e)[h] = [Both(f, g) EXCEPT ![d] = v][h]
  BY <1>2, BothAt, Zenon DEF Both
<1>4. Both(f, e) = [Both(f, g) EXCEPT ![d] = v]
  BY <1>3, Zenon DEF Both
<1> QED BY <1>4, Zenon DEF e, Put

(* The steps above for the tables of the requests.                          *)
LEMMA TokensInOrder ==
  ASSUME NEW p, NEW T, NEW E, NEW C, NEW K, InOrder(p, T, E, C, K),
         NEW r \in Request, NEW k \in Seq(Token),
         T[r] = <<>> \/ \E out \in Seq(Token) : k = K[r] \o out
  PROVE  InOrder(p, T, E, C, [K EXCEPT ![r] = k])
<1>1. /\ T \in [Request -> Seq(Block)] /\ E \in [Entry -> Seq(Block)]
      /\ C \in [Request -> Nat] /\ K \in [Request -> Seq(Token)]
      /\ Over(T, Request) /\ Over(C, Request) /\ Over(K, Request) /\ Over(E, Entry)
  BY Zenon DEF InOrder, Over
<1>2. PICK EC \in [Entry -> Nat], EK \in [Entry -> Seq(Token)] :
        Tables(p, Both(T, E), Both(C, EC), Both(K, EK))
  BY Zenon DEF InOrder
<1>0. Over(EC, Entry) /\ Over(EK, Entry)
  BY ZenonT(30) DEF Over
<1>3. /\ r \in Holder /\ Both(T, E)[r] = T[r] /\ Both(K, EK)[r] = K[r]
      /\ Both([K EXCEPT ![r] = k], EK) = [Both(K, EK) EXCEPT ![r] = k]
  <2>1. Both(Put(K, r, k), EK) = Put(Both(K, EK), r, k)
    BY <1>1, BothRequestPut, SMTT(30)
  <2> QED BY <2>1, BothAt, BothRequest, ZenonT(30) DEF Put
<1>4. Tables(p, Both(T, E), Both(C, EC), [Both(K, EK) EXCEPT ![r] = k])
  BY <1>2, <1>3, TokensStep, Zenon
<1>5. [K EXCEPT ![r] = k] \in [Request -> Seq(Token)]
  BY <1>1, Zenon
<1>6. Tables(p, Both(T, E), Both(C, EC), Both([K EXCEPT ![r] = k], EK))
  BY <1>3, <1>4, Zenon
<1> QED BY <1>1, <1>5, <1>6, Zenon DEF InOrder

LEMMA CacheInOrder ==
  ASSUME NEW p, NEW T, NEW E, NEW C, NEW K, InOrder(p, T, E, C, K),
         NEW r \in Request, NEW n \in Nat, n <= Len(K[r]), n <= Len(T[r]) * block_size
  PROVE  InOrder(cache_blocks(p, K[r], T[r], C[r], n), T, E,
                 [C EXCEPT ![r] = NumCached(C[r], n)], K)
<1> DEFINE m == NumCached(C[r], n)
           q == cache_blocks(p, K[r], T[r], C[r], n)
<1>1. /\ T \in [Request -> Seq(Block)] /\ E \in [Entry -> Seq(Block)]
      /\ C \in [Request -> Nat] /\ K \in [Request -> Seq(Token)]
      /\ Over(T, Request) /\ Over(C, Request) /\ Over(K, Request) /\ Over(E, Entry)
  BY Zenon DEF InOrder, Over
<1>2. PICK EC \in [Entry -> Nat], EK \in [Entry -> Seq(Token)] :
        Tables(p, Both(T, E), Both(C, EC), Both(K, EK))
  BY Zenon DEF InOrder
<1>0. Over(EC, Entry) /\ Over(EK, Entry)
  BY ZenonT(30) DEF Over
<1>3. /\ r \in Holder /\ Both(T, E)[r] = T[r] /\ Both(C, EC)[r] = C[r]
      /\ Both(K, EK)[r] = K[r]
      /\ Both([C EXCEPT ![r] = m], EC) = [Both(C, EC) EXCEPT ![r] = m]
  <2>1. Both(Put(C, r, m), EC) = Put(Both(C, EC), r, m)
    BY <1>1, BothRequestPut, SMTT(30)
  <2> QED BY <2>1, BothAt, BothRequest, ZenonT(30) DEF Put
<1>4. Tables(q, Both(T, E), [Both(C, EC) EXCEPT ![r] = m], Both(K, EK))
  BY <1>2, <1>3, CacheStep, ZenonT(30)
<1> HIDE DEF m, q
<1>5. [C EXCEPT ![r] = m] \in [Request -> Nat]
  <2>1. Both(C, EC) \in [Holder -> Nat] /\ [Both(C, EC) EXCEPT ![r] = m] \in [Holder -> Nat]
    BY <1>2, <1>4, Zenon DEF Tables, Typed
  <2>2. m \in Nat
    BY <1>3, <2>1, Zenon
  <2> QED BY <1>1, <2>2, Zenon
<1>7. Tables(q, Both(T, E), Both([C EXCEPT ![r] = m], EC), Both(K, EK))
  BY <1>3, <1>4, Zenon
<1>6. InOrder(q, T, E, [C EXCEPT ![r] = m], K)
  BY <1>1, <1>5, <1>7, Zenon DEF InOrder
<1> QED BY <1>6, Zenon DEF m, q

LEMMA ReleaseInOrder ==
  ASSUME NEW p, NEW T, NEW E, NEW C, NEW K, InOrder(p, T, E, C, K), NEW r \in Request
  PROVE  InOrder(free_blocks(p, Reversed(T[r])), [T EXCEPT ![r] = <<>>], E,
                 [C EXCEPT ![r] = 0], K)
<1>1. /\ T \in [Request -> Seq(Block)] /\ E \in [Entry -> Seq(Block)]
      /\ C \in [Request -> Nat] /\ K \in [Request -> Seq(Token)]
      /\ Over(T, Request) /\ Over(C, Request) /\ Over(K, Request) /\ Over(E, Entry)
  BY Zenon DEF InOrder, Over
<1>2. PICK EC \in [Entry -> Nat], EK \in [Entry -> Seq(Token)] :
        Tables(p, Both(T, E), Both(C, EC), Both(K, EK))
  BY Zenon DEF InOrder
<1>0. Over(EC, Entry) /\ Over(EK, Entry)
  BY ZenonT(30) DEF Over
<1>3. /\ r \in Holder /\ Both(T, E)[r] = T[r]
      /\ Both([T EXCEPT ![r] = <<>>], E) = [Both(T, E) EXCEPT ![r] = <<>>]
      /\ Both([C EXCEPT ![r] = 0], EC) = [Both(C, EC) EXCEPT ![r] = 0]
  <2>1. /\ Both(Put(T, r, <<>>), E) = Put(Both(T, E), r, <<>>)
        /\ Both(Put(C, r, 0), EC) = Put(Both(C, EC), r, 0)
    BY <1>1, BothRequestPut, SMTT(30)
  <2> QED BY <2>1, BothAt, BothRequest, ZenonT(30) DEF Put
<1>4. Tables(free_blocks(p, Reversed(T[r])), [Both(T, E) EXCEPT ![r] = <<>>],
             [Both(C, EC) EXCEPT ![r] = 0], Both(K, EK))
  BY <1>2, <1>3, ReleaseStep, Zenon
<1>5. [T EXCEPT ![r] = <<>>] \in [Request -> Seq(Block)] /\ [C EXCEPT ![r] = 0] \in [Request -> Nat]
  BY <1>1, EmptySeq, Zenon
<1>6. Tables(free_blocks(p, Reversed(T[r])), Both([T EXCEPT ![r] = <<>>], E),
             Both([C EXCEPT ![r] = 0], EC), Both(K, EK))
  BY <1>3, <1>4, Zenon
<1> QED BY <1>1, <1>5, <1>6, Zenon DEF InOrder

(* A free that is deferred, and the free of an entry.                       *)
LEMMA DeferInOrder ==
  ASSUME NEW p, NEW T, NEW E, NEW C, NEW K, InOrder(p, T, E, C, K),
         NEW r \in Request, NEW d \in Entry, E[d] = <<>>
  PROVE  InOrder(p, [T EXCEPT ![r] = <<>>], [E EXCEPT ![d] = T[r]], [C EXCEPT ![r] = 0], K)
<1>1. /\ T \in [Request -> Seq(Block)] /\ E \in [Entry -> Seq(Block)]
      /\ C \in [Request -> Nat] /\ K \in [Request -> Seq(Token)]
      /\ Over(T, Request) /\ Over(C, Request) /\ Over(K, Request) /\ Over(E, Entry)
  BY Zenon DEF InOrder, Over
<1>2. PICK EC \in [Entry -> Nat], EK \in [Entry -> Seq(Token)] :
        Tables(p, Both(T, E), Both(C, EC), Both(K, EK))
  BY Zenon DEF InOrder
<1>0. Over(EC, Entry) /\ Over(EK, Entry)
  BY Zenon DEF Over
<1> DEFINE F  == [E EXCEPT ![d] = T[r]]
           FC == [EC EXCEPT ![d] = C[r]]
           FK == [EK EXCEPT ![d] = K[r]]
<1>3. /\ r \in Holder /\ Both(T, E)[r] = T[r] /\ Both(C, EC)[r] = C[r] /\ Both(K, EK)[r] = K[r]
      /\ Both([T EXCEPT ![r] = <<>>], F) = [Both(T, F) EXCEPT ![r] = <<>>]
      /\ Both([C EXCEPT ![r] = 0], FC) = [Both(C, FC) EXCEPT ![r] = 0]
  <2> HIDE DEF F, FC
  <2>1. /\ Both(Put(T, r, <<>>), F) = Put(Both(T, F), r, <<>>)
        /\ Both(Put(C, r, 0), FC) = Put(Both(C, FC), r, 0)
    BY <1>1, BothRequestPut, SMTT(30)
  <2>2. /\ r \in Holder /\ Both(T, E)[r] = T[r] /\ Both(C, EC)[r] = C[r]
        /\ Both(K, EK)[r] = K[r]
    BY BothAt, BothRequest, Zenon
  <2> QED BY <2>1, <2>2, ZenonT(30) DEF Put
<1>4. /\ d \in Holder /\ d # r /\ Both(T, E)[d] = <<>>
      /\ Both(T, F) = [Both(T, E) EXCEPT ![d] = T[r]]
      /\ Both(C, FC) = [Both(C, EC) EXCEPT ![d] = C[r]]
      /\ Both(K, FK) = [Both(K, EK) EXCEPT ![d] = K[r]]
  <2>1. /\ Both(T, Put(E, d, T[r])) = Put(Both(T, E), d, T[r])
        /\ Both(C, Put(EC, d, C[r])) = Put(Both(C, EC), d, C[r])
        /\ Both(K, Put(EK, d, K[r])) = Put(Both(K, EK), d, K[r])
    BY <1>0, <1>1, BothEntryPut, SMTT(30)
  <2>2. d \in Holder /\ d # r /\ Both(T, E)[d] = <<>>
    BY BothAt, BothEntry, ZenonT(30)
  <2> QED BY <2>1, <2>2, ZenonT(30) DEF Put
<1>5. Tables(p, [[Both(T, E) EXCEPT ![d] = T[r]] EXCEPT ![r] = <<>>],
             [[Both(C, EC) EXCEPT ![d] = C[r]] EXCEPT ![r] = 0],
             [Both(K, EK) EXCEPT ![d] = K[r]])
  <2> DEFINE X == Both(T, E)
             Y == Both(C, EC)
             Z == Both(K, EK)
  <2>1. /\ Tables(p, X, Y, Z) /\ r \in Holder /\ d \in Holder /\ d # r /\ X[d] = <<>>
        /\ X[r] = T[r] /\ Y[r] = C[r] /\ Z[r] = K[r]
    BY <1>2, <1>3, <1>4, Zenon
  <2> HIDE DEF X, Y, Z
  <2>2. Tables(p, [[X EXCEPT ![d] = X[r]] EXCEPT ![r] = <<>>],
               [[Y EXCEPT ![d] = Y[r]] EXCEPT ![r] = 0], [Z EXCEPT ![d] = Z[r]])
    BY <2>1, MoveStep, Zenon
  <2> QED BY <2>1, <2>2, Zenon DEF X, Y, Z
<1>6. /\ [T EXCEPT ![r] = <<>>] \in [Request -> Seq(Block)] /\ F \in [Entry -> Seq(Block)]
      /\ [C EXCEPT ![r] = 0] \in [Request -> Nat]
      /\ FC \in [Entry -> Nat] /\ FK \in [Entry -> Seq(Token)]
  BY <1>1, EmptySeq, Zenon
<1>7. Tables(p, Both([T EXCEPT ![r] = <<>>], F), Both([C EXCEPT ![r] = 0], FC), Both(K, FK))
  BY <1>3, <1>4, <1>5, Zenon
<1> HIDE DEF FC, FK, F
<1>8. InOrder(p, [T EXCEPT ![r] = <<>>], F, [C EXCEPT ![r] = 0], K)
  BY <1>1, <1>6, <1>7, Zenon DEF InOrder
<1> QED BY <1>8, Zenon DEF F

LEMMA DrainInOrder ==
  ASSUME NEW p, NEW T, NEW E, NEW C, NEW K, InOrder(p, T, E, C, K), NEW d \in Entry
  PROVE  InOrder(free_blocks(p, Reversed(E[d])), T, [E EXCEPT ![d] = <<>>], C, K)
<1>1. /\ T \in [Request -> Seq(Block)] /\ E \in [Entry -> Seq(Block)]
      /\ C \in [Request -> Nat] /\ K \in [Request -> Seq(Token)]
      /\ Over(T, Request) /\ Over(C, Request) /\ Over(K, Request) /\ Over(E, Entry)
  BY Zenon DEF InOrder, Over
<1>2. PICK EC \in [Entry -> Nat], EK \in [Entry -> Seq(Token)] :
        Tables(p, Both(T, E), Both(C, EC), Both(K, EK))
  BY Zenon DEF InOrder
<1>0. Over(EC, Entry) /\ Over(EK, Entry)
  BY Zenon DEF Over
<1> DEFINE FC == [EC EXCEPT ![d] = 0]
<1>3. /\ d \in Holder /\ Both(T, E)[d] = E[d]
      /\ Both(T, [E EXCEPT ![d] = <<>>]) = [Both(T, E) EXCEPT ![d] = <<>>]
      /\ Both(C, FC) = [Both(C, EC) EXCEPT ![d] = 0]
  <2>1. /\ Both(T, Put(E, d, <<>>)) = Put(Both(T, E), d, <<>>)
        /\ Both(C, Put(EC, d, 0)) = Put(Both(C, EC), d, 0)
    BY <1>0, <1>1, BothEntryPut, SMTT(30)
  <2>2. d \in Holder /\ Both(T, E)[d] = E[d]
    BY BothAt, BothEntry, ZenonT(30)
  <2> QED BY <2>1, <2>2, ZenonT(30) DEF Put
<1>4. Tables(free_blocks(p, Reversed(E[d])), [Both(T, E) EXCEPT ![d] = <<>>],
             [Both(C, EC) EXCEPT ![d] = 0], Both(K, EK))
  BY <1>2, <1>3, ReleaseStep, ZenonT(30)
<1>5. [E EXCEPT ![d] = <<>>] \in [Entry -> Seq(Block)] /\ FC \in [Entry -> Nat]
  BY <1>1, EmptySeq, Zenon
<1> HIDE DEF FC
<1>6. Tables(free_blocks(p, Reversed(E[d])), Both(T, [E EXCEPT ![d] = <<>>]), Both(C, FC),
             Both(K, EK))
  BY <1>3, <1>4, ZenonT(30)
<1> QED BY <1>1, <1>5, <1>6, Zenon DEF InOrder

-----------------------------------------------------------------------------
\* What the requests' counters and their tables have to do with each other.
RequestOK(r) ==
  /\ num_tokens(r) <= max_model_len
  /\ num_computed_tokens[r] <= Len(req_to_blocks[r]) * block_size
  /\ status[r] = "NONE" => req_to_blocks[r] = <<>>
  /\ status[r] # "NONE" => num_tokens(r) > 0
  /\ status[r] = "WAITING" /\ num_computed_tokens[r] = 0 /\ req_to_blocks[r] # <<>>
       => num_tokens(r) = 1
  /\ status[r] = "REMOTE" => num_computed_tokens[r] <= num_tokens(r)

Counters ==
  /\ num_computed_tokens \in [Request -> Nat]
  /\ status \in [Request -> Statuses]
  /\ \A r \in Request : RequestOK(r)

IInv ==
  /\ InOrder(pool, req_to_blocks, deferred_frees, num_cached_block, all_token_ids)
  /\ Counters

\* A sequence of blocks that get_computed_blocks may return for r: it is empty
\* or r has no blocks.
HitOK(r, hit) ==
  /\ hit \in Seq(Block)
  /\ Len(hit) * block_size <= num_tokens(r)
  /\ \A i \in 1..Len(hit) :
       <<Prefix(all_token_ids[r], i), hit[i]>> \in pool.cached_block_hash_to_block
  /\ hit = <<>> \/ req_to_blocks[r] = <<>>

(* allocate_slots: when its capacity check lets it pass, get_new_blocks     *)
(* finds the blocks it needs although touch took the hits out of the free   *)
(* queue first, the tables stay in order, and there is a slot for every     *)
(* token that is now computed.                                              *)
LEMMA AllocateStep ==
  ASSUME IInv, NEW r \in Request, NEW n \in Nat, NEW hit, HitOK(r, hit), NEW ext \in Nat,
         NEW lookahead \in Nat, NEW headroom \in Nat, NEW must_fit, NEW delay,
         num_computed_tokens[r] + Len(hit) * block_size + ext + n <= max_model_len,
         allocate_slots(r, n, hit, ext, lookahead, headroom, must_fit, delay)
  PROVE  LET total == num_computed_tokens[r] + Len(hit) * block_size + ext + n
         IN /\ InOrder(pool', req_to_blocks', deferred_frees, num_cached_block', all_token_ids)
            /\ num_computed_tokens' = [num_computed_tokens EXCEPT ![r] = total]
            /\ total \in Nat
            /\ total <= Len(req_to_blocks'[r]) * block_size
            /\ \A s \in Request : s # r => req_to_blocks'[s] = req_to_blocks[s]
<1>a. /\ req_to_blocks \in [Request -> Seq(Block)] /\ deferred_frees \in [Entry -> Seq(Block)]
      /\ num_cached_block \in [Request -> Nat] /\ all_token_ids \in [Request -> Seq(Token)]
      /\ Over(req_to_blocks, Request) /\ Over(num_cached_block, Request)
      /\ Over(all_token_ids, Request)
  BY Zenon DEF IInv, InOrder, Over
<1>b. PICK EC \in [Entry -> Nat], EK \in [Entry -> Seq(Token)] :
        Tables(pool, Both(req_to_blocks, deferred_frees), Both(num_cached_block, EC),
               Both(all_token_ids, EK))
  BY Zenon DEF IInv, InOrder
<1> DEFINE T == Both(req_to_blocks, deferred_frees)
           C == Both(num_cached_block, EC)
           K == Both(all_token_ids, EK)
<1>c. /\ r \in Holder /\ T[r] = req_to_blocks[r] /\ C[r] = num_cached_block[r]
      /\ K[r] = all_token_ids[r]
  BY BothAt, BothRequest, Zenon
<1> DEFINE start == num_computed_tokens[r] + Len(hit) * block_size + ext
           computed == AtMost(start, max_model_len)
           slots    == AtMost(computed + n + lookahead, max_model_len)
           required == get_num_blocks_to_allocate(r, slots, hit)
           idle     == {b \in Elems(hit) : pool.ref_cnt[b] = 0}
           touched  == touch(pool, hit)
           missing  == cdiv(slots, block_size) - (Len(T[r]) + Len(hit))
           count    == IF missing > 0 THEN missing ELSE 0
           taken    == get_new_blocks(touched, count)
           new      == NewBlocks(touched, count)
           blocks   == T[r] \o hit \o new
           before   == IF hit = <<>> THEN C[r] ELSE Len(hit)
           to_cache == IF delay THEN 0 ELSE AtMost(computed + n, num_tokens(r))
<1>1. /\ required + headroom <= get_num_free_blocks(pool)
      /\ pool' = cache_blocks(taken, K[r], blocks, before, to_cache)
      /\ req_to_blocks' = [req_to_blocks EXCEPT ![r] = blocks]
      /\ num_cached_block' = [num_cached_block EXCEPT ![r] = NumCached(before, to_cache)]
      /\ num_computed_tokens' = [num_computed_tokens EXCEPT ![r] = computed + n]
  <2> HIDE DEF T, C, K
  <2> QED BY <1>c, ZenonT(30) DEF allocate_slots
<1>2. /\ Tables(pool, T, C, K) /\ PoolOK(pool)
      /\ T \in [Holder -> Seq(Block)] /\ C \in [Holder -> Nat] /\ K \in [Holder -> Seq(Token)]
      /\ num_computed_tokens \in [Request -> Nat]
      /\ T[r] \in Seq(Block) /\ Len(T[r]) \in Nat /\ C[r] \in Nat /\ num_computed_tokens[r] \in Nat
      /\ K[r] \in Seq(Token) /\ num_tokens(r) = Len(K[r]) /\ Len(K[r]) \in Nat
  <2> HIDE DEF T, C, K
  <2>1. Tables(pool, T, C, K)
    BY <1>b, Zenon DEF T, C, K
  <2>2. /\ num_computed_tokens \in [Request -> Nat] /\ num_tokens(r) = Len(K[r])
    BY <1>c, ZenonT(30) DEF IInv, Counters, num_tokens
  <2> QED BY <1>c, <2>1, <2>2, LenProperties, ZenonT(30) DEF Tables, Typed
<1> HIDE DEF T, C, K
<1>3. /\ hit \in Seq(Block) /\ Len(hit) \in Nat /\ Len(hit) * block_size \in Nat
      /\ Len(hit) * block_size <= Len(K[r])
      /\ \A i \in 1..Len(hit) : <<Prefix(K[r], i), hit[i]>> \in pool.cached_block_hash_to_block
      /\ hit = <<>> \/ T[r] = <<>>
      /\ block_size \in Nat \ {0} /\ max_model_len \in Nat
  BY <1>c, <1>2, ManagerAssumption, LenProperties, TimesMonotonic, ZenonT(30) DEF HitOK
<1>4. /\ start \in Nat /\ computed = start /\ computed + n \in Nat /\ computed + n <= max_model_len
      /\ slots \in Nat /\ computed + n <= slots
  <2> DEFINE c == num_computed_tokens[r]
             h == Len(hit) * block_size
  <2>1. c \in Nat /\ h \in Nat /\ start = c + h + ext /\ c + h + ext + n <= max_model_len
        /\ max_model_len \in Nat
    BY <1>2, <1>3, ZenonT(30)
  <2> HIDE DEF c, h, start
  <2>2. start \in Nat /\ start + n <= max_model_len
    BY SMTT(30), <2>1
  <2>3. computed = start
    BY SMTT(30), <2>1, <2>2 DEF AtMost
  <2> HIDE DEF computed
  <2> QED BY <2>1, <2>2, <2>3, SMTT(30) DEF AtMost
<1> HIDE DEF start, computed, slots
<1>5. /\ cdiv(slots, block_size) \in Nat /\ slots <= cdiv(slots, block_size) * block_size
  BY <1>3, <1>4, BlockCounts, ZenonT(30)
<1>6. count \in Nat /\ cdiv(slots, block_size) <= Len(T[r]) + Len(hit) + count
  <2> DEFINE d == cdiv(slots, block_size)
             t == Len(T[r])
             h == Len(hit)
  <2>1. d \in Nat /\ t \in Nat /\ h \in Nat /\ missing = d - (t + h)
    BY <1>2, <1>3, <1>5, ZenonT(30)
  <2> HIDE DEF d, t, h, missing
  <2>2. count \in Nat /\ d <= t + h + count
    BY SMTT(30), <2>1
  <2> QED BY <2>2, Zenon DEF d, t, h
<1>7. required = count + Cardinality(idle)
  <2>1. cdiv(slots, block_size) - (Len(hit) + Len(req_to_blocks[r])) = missing
    BY SMTT(30), <1>c, <1>2, <1>3, <1>5
  <2> QED BY <2>1, ZenonT(30) DEF get_num_blocks_to_allocate
<1>8. /\ PoolOK(touched) /\ touched.block_hash = pool.block_hash
      /\ touched.ref_cnt = [b \in Block |-> IF b \in Elems(hit) THEN pool.ref_cnt[b] + 1
                                            ELSE pool.ref_cnt[b]]
      /\ get_num_free_blocks(touched) = get_num_free_blocks(pool) - Cardinality(idle)
      /\ Cardinality(idle) \in Nat
  BY <1>2, <1>3, TouchOK, ZenonT(30)
<1>9. get_num_free_blocks(pool) \in Nat
  BY <1>2, LenProperties, ZenonT(30) DEF PoolOK, Pool, get_num_free_blocks
<1> HIDE DEF count, missing, idle, required, touched
<1>10. count <= get_num_free_blocks(touched)
  BY <1>1, <1>6, <1>7, <1>8, <1>9, SMTT(30)
<1> DEFINE T1 == [T EXCEPT ![r] = T[r] \o hit]
           C1 == [C EXCEPT ![r] = before]
           T2 == [T1 EXCEPT ![r] = T1[r] \o new]
<1>0. T1[r] = T[r] \o hit /\ C1[r] = before
  BY <1>c, <1>2, ZenonT(30)
<1>11. Tables(touched, T1, C1, K) /\ T1[r] = T[r] \o hit /\ C1[r] = before
       /\ Len(T1[r]) = Len(T[r]) + Len(hit)
  <2>1. CASE hit = <<>>
    <3>1. T1 = T /\ C1 = C /\ T[r] \o hit = T[r] /\ before = C[r] /\ Len(hit) = 0
      BY <1>2, <2>1, EmptySeq, ConcatEmptySeq, ZenonT(30)
    <3>2. Elems(hit) = {}
      BY <2>1, EmptySeq, SMTT(30) DEF Elems
    <3>3. touched.ref_cnt = pool.ref_cnt
      <4>1. pool.ref_cnt \in [Block -> Nat]
        BY <1>2, ZenonT(30) DEF PoolOK, QueueOK
      <4> QED BY <1>8, <3>2, <4>1, Zenon
    <3>6. ChainsOK(touched, T, C, K)
      <4> SUFFICES ASSUME Reports = {} PROVE FullyHashed(touched, T, C, K) /\ FreeChained(touched)
        BY Zenon DEF ChainsOK
      <4>1. FullyHashed(pool, T, C, K) /\ FreeChained(pool)
        BY <1>2, ZenonT(30) DEF Tables, ChainsOK
      <4>2. FullyHashed(touched, T, C, K)
        BY <1>8, <4>1, ZenonT(30) DEF FullyHashed
      <4> QED BY <1>2, <1>3, <4>1, <4>2, TouchChained, Zenon DEF touched
    <3>4. Tables(touched, T, C, K)
      BY <1>2, <1>8, <3>3, <3>6, LoseHashes, Zenon
    <3>5. Len(T[r]) = Len(T[r]) + Len(hit)
      BY SMTT(30), <1>2, <3>1
    <3> HIDE DEF T1, C1
    <3> QED BY <1>0, <3>1, <3>4, <3>5, Zenon
  <2>2. CASE hit # <<>>
    <3>1. T[r] = <<>> /\ T[r] \o hit = hit /\ before = Len(hit) /\ Len(T[r]) = 0
      BY <1>3, <2>2, EmptySeq, ConcatEmptySeq, Zenon
    <3>2. Tables(touch(pool, hit), [T EXCEPT ![r] = hit], [C EXCEPT ![r] = Len(hit)], K)
      BY <1>c, <1>2, <1>3, <3>1, AddHits, Zenon
    <3>3. T1 = [T EXCEPT ![r] = hit] /\ C1 = [C EXCEPT ![r] = Len(hit)]
      BY <3>1, Zenon
    <3>4. Tables(touched, T1, C1, K)
      BY <3>2, <3>3, Zenon DEF touched
    <3> QED BY <1>0, <1>3, <3>1, <3>4, SMTT(30)
  <2> QED BY <2>1, <2>2, Zenon
<1> HIDE DEF before, taken, new
<1>12. /\ Tables(taken, T2, C1, K) /\ Len(T1[r] \o new) = Len(T[r]) + Len(hit) + count
  <2> HIDE DEF T1, C1
  <2>1. /\ Tables(get_new_blocks(touched, count),
                  [T1 EXCEPT ![r] = T1[r] \o NewBlocks(touched, count)], C1, K)
        /\ Len(T1[r] \o NewBlocks(touched, count)) = Len(T1[r]) + count
    <3>1. Tables(touched, T1, C1, K) /\ count \in Nat /\ count <= get_num_free_blocks(touched)
      BY <1>6, <1>10, <1>11, ZenonT(30)
    <3>2. Tables(get_new_blocks(touched, count),
                 [T1 EXCEPT ![r] = T1[r] \o NewBlocks(touched, count)], C1, K)
      BY ONLY <3>1, <1>c, AddNew, ZenonT(30)
    <3>3. Len(T1[r] \o NewBlocks(touched, count)) = Len(T1[r]) + count
      BY ONLY <3>1, <1>c, AddNew, ZenonT(30)
    <3> QED BY ONLY <3>2, <3>3, Zenon
  <2> QED BY <1>11, <2>1, Zenon DEF taken, new
<1>13. T2 = [T EXCEPT ![r] = blocks] /\ T2[r] = blocks /\ blocks = T1[r] \o new
  BY <1>c, <1>2, <1>11, ZenonT(30)
<1> HIDE DEF T1, blocks
<1>14. computed + n <= Len(blocks) * block_size
  <2>1. /\ cdiv(slots, block_size) * block_size <= Len(blocks) * block_size
        /\ Len(blocks) * block_size \in Nat /\ cdiv(slots, block_size) * block_size \in Nat
    <3>1. Len(blocks) \in Nat /\ cdiv(slots, block_size) <= Len(blocks)
      <4> DEFINE d == cdiv(slots, block_size)
                 t == Len(T[r])
                 h == Len(hit)
      <4>1. d \in Nat /\ t \in Nat /\ h \in Nat /\ count \in Nat /\ d <= t + h + count
        BY ONLY <1>2, <1>3, <1>5, <1>6, Zenon
      <4>2. Len(blocks) = t + h + count
        BY ONLY <1>12, <1>13, Zenon
      <4> HIDE DEF d, t, h
      <4>3. Len(blocks) \in Nat /\ d <= Len(blocks)
        BY ONLY SMTT(30), <4>1, <4>2
      <4> QED BY ONLY <4>3, Zenon DEF d
    <3> QED BY <1>3, <1>5, <3>1, TimesMonotonic, Zenon
  <2> QED BY SMTT(30), <1>4, <1>5, <2>1
<1>15. to_cache \in Nat /\ to_cache <= Len(K[r]) /\ to_cache <= Len(blocks) * block_size
  <2>1. Len(blocks) * block_size \in Nat
    <3>1. Len(blocks) \in Nat
      BY <1>2, <1>3, <1>6, <1>12, <1>13, SMTT(30)
    <3> QED BY <1>3, <3>1, TimesMonotonic, ZenonT(30)
  <2> QED BY <1>2, <1>4, <1>14, <2>1, SMTT(30) DEF AtMost
<1> HIDE DEF to_cache, T2, C1
<1>16. Tables(cache_blocks(taken, K[r], T2[r], C1[r], to_cache), T2,
              [C1 EXCEPT ![r] = NumCached(C1[r], to_cache)], K)
  <2>1. to_cache \in Nat /\ to_cache <= Len(K[r]) /\ to_cache <= Len(T2[r]) * block_size
    BY <1>13, <1>15, Zenon
  <2> QED BY ONLY <1>12, <2>1, <1>c, CacheStep, Zenon
<1>17. [C1 EXCEPT ![r] = NumCached(C1[r], to_cache)]
         = [C EXCEPT ![r] = NumCached(before, to_cache)]
  BY <1>2, <1>11, Zenon DEF C1
<1>18. InOrder(pool', req_to_blocks', deferred_frees, num_cached_block', all_token_ids)
  <2> DEFINE m == NumCached(before, to_cache)
  <2> HIDE DEF m
  <2>1. Tables(pool', [T EXCEPT ![r] = blocks], [C EXCEPT ![r] = m], K)
    BY <1>1, <1>11, <1>13, <1>16, <1>17, Zenon DEF m
  <2>2. /\ Both(req_to_blocks', deferred_frees) = [T EXCEPT ![r] = blocks]
        /\ Both(num_cached_block', EC) = [C EXCEPT ![r] = m]
    <3>1. /\ Both([req_to_blocks EXCEPT ![r] = blocks], deferred_frees) = [T EXCEPT ![r] = blocks]
          /\ Both([num_cached_block EXCEPT ![r] = m], EC) = [C EXCEPT ![r] = m]
      <4>1. /\ Both(Put(req_to_blocks, r, blocks), deferred_frees) = Put(T, r, blocks)
            /\ Both(Put(num_cached_block, r, m), EC) = Put(C, r, m)
        BY <1>a, BothRequestPut, SMTT(30) DEF T, C
      <4> QED BY <4>1, Zenon DEF Put
    <3> QED BY <1>1, <3>1, Zenon DEF m
  <2>3. blocks \in Seq(Block) /\ m \in Nat
    <3>1. /\ [T EXCEPT ![r] = blocks] \in [Holder -> Seq(Block)]
          /\ [C EXCEPT ![r] = m] \in [Holder -> Nat]
      BY <2>1, Zenon DEF Tables, Typed
    <3> QED BY <1>c, <1>2, <3>1, Zenon
  <2>4. /\ req_to_blocks' \in [Request -> Seq(Block)]
        /\ num_cached_block' \in [Request -> Nat]
    BY <1>a, <1>1, <2>3, Zenon DEF m
  <2> QED BY <1>a, <2>1, <2>2, <2>4, ZenonT(30) DEF InOrder, K
<1>19. /\ req_to_blocks'[r] = blocks
       /\ \A s \in Request : s # r => req_to_blocks'[s] = req_to_blocks[s]
  BY <1>a, <1>1, Zenon
<1> QED BY <1>1, <1>4, <1>14, <1>18, <1>19, Zenon DEF start

-----------------------------------------------------------------------------
(* A set of numbers up to m has a greatest one: the longest hit exists.     *)
LEMMA HasGreatest ==
  ASSUME NEW m \in Nat, NEW S \in SUBSET (0..m), S # {}
  PROVE  \E k \in S : \A l \in S : l <= k
<1> DEFINE D == {d \in Nat : m - d \in S}
           R == OpToRel(<, Nat)
<1>1. D \subseteq Nat /\ D # {}
  <2>1. PICK k \in S : TRUE
    BY Zenon
  <2>2. m - k \in Nat /\ m - (m - k) = k
    BY <2>1
  <2>3. m - k \in D
    BY <2>1, <2>2, Zenon
  <2> QED BY <2>3, Zenon
<1>2. \E d \in D : \A e \in D : ~(<<e, d>> \in R)
  <2> HIDE DEF D
  <2>1. IsWellFoundedOn(R, Nat)
    BY NatLessThanWellFounded, Zenon
  <2> HIDE DEF R
  <2> QED BY <1>1, <2>1, WFMin, Zenon
<1>3. PICK d \in D : \A e \in D : ~(<<e, d>> \in R)
  BY <1>2, Zenon
<1>4. \A e \in D : ~(e < d)
  BY <1>1, <1>3, Zenon DEF OpToRel
<1>5. ASSUME NEW l \in S PROVE l <= m - d
  <2>1. m - l \in Nat /\ m - (m - l) = l
    OBVIOUS
  <2>2. m - l \in D
    BY <2>1, Zenon
  <2> QED BY SMTT(30), <1>4, <2>1, <2>2
<1> QED BY <1>5, Zenon

(* get_computed_blocks: the hits it returns carry the hashes of the         *)
(* request's own prefixes, and there are none for a request with blocks.    *)
LEMMA ComputedBlocks ==
  ASSUME IInv, NEW r \in Request, status[r] = "WAITING", num_computed_tokens[r] = 0,
         NEW skip, NEW hit \in get_computed_blocks(r, skip)
  PROVE  HitOK(r, hit)
<1> DEFINE K == all_token_ids
           max == num_tokens(r) - 1
           m == max \div block_size
<1>1. /\ K[r] \in Seq(Token) /\ num_tokens(r) \in Nat /\ num_tokens(r) > 0
      /\ num_tokens(r) = Len(K[r])
      /\ req_to_blocks[r] # <<>> => num_tokens(r) = 1
      /\ block_size \in Nat \ {0}
  BY ManagerAssumption, LenProperties, Zenon
    DEF IInv, InOrder, Counters, RequestOK, num_tokens
<1>2. max \in Nat /\ m \in Nat /\ m * block_size <= max
  <2>1. max \in Nat
    BY SMTT(30), <1>1
  <2> QED BY <1>1, <2>1, BlockCounts, ZenonT(30)
<1> HIDE DEF m
<1>3. CASE hit = <<>>
  BY SMTT(30), <1>1, <1>3, EmptySeq, ManagerAssumption DEF HitOK
<1>4. CASE hit # <<>>
  <2> DEFINE found(i) == {b \in Block : <<Prefix(K[r], i), b>> \in pool.cached_block_hash_to_block}
             lens     == {k \in 0..m : \A i \in 1..k : found(i) # {}}
             longest  == CHOOSE k \in lens : \A l \in lens : l <= k
             kept     == IF use_eagle /\ longest > 0 THEN longest - 1 ELSE longest
  <2>1. hit \in {s \in [1..kept -> Block] : \A i \in 1..kept : s[i] \in found(i)}
    BY <1>4, Zenon DEF get_computed_blocks, find_longest_cache_hit, m
  <2>2. longest \in 0..m
    <3>1. 0 \in lens /\ lens \in SUBSET (0..m)
      BY SMTT(30), <1>2
    <3> HIDE DEF lens
    <3>2. \E k \in lens : \A l \in lens : l <= k
      BY <1>2, <3>1, HasGreatest, ZenonT(30)
    <3> QED BY <3>1, <3>2, Zenon
  <2> HIDE DEF longest
  <2>3. kept \in 0..m
    BY SMTT(30), <1>2, <2>2
  <2> HIDE DEF kept
  <2>4. /\ hit \in [1..kept -> Block] /\ kept \in Nat
        /\ \A i \in 1..kept : <<Prefix(K[r], i), hit[i]>> \in pool.cached_block_hash_to_block
    BY SMTT(30), <1>2, <2>1, <2>3
  <2>5. hit \in Seq(Block) /\ Len(hit) = kept
    BY SMTT(30), <2>4
  <2>6. kept * block_size <= num_tokens(r)
    <3>1. kept * block_size <= max
      BY SMTT(30), <1>2, <2>3, <2>4, FewerBlocks
    <3>2. kept * block_size \in Nat
      BY <1>1, <2>4, TimesMonotonic, ZenonT(30)
    <3> QED BY SMTT(30), <1>1, <3>1, <3>2
  <2>7. req_to_blocks[r] = <<>>
    <3>1. ASSUME num_tokens(r) = 1 PROVE FALSE
      <4>1. m * block_size <= 0
        BY SMTT(30), <1>2, <3>1
      <4>2. m = 0
        BY SMTT(30), <1>1, <1>2, <4>1
      <4>3. kept = 0
        BY SMTT(30), <2>3, <4>2
      <4>4. hit = <<>>
        BY <2>5, <4>3, EmptySeq, ZenonT(30)
      <4> QED BY <1>4, <4>4, ZenonT(30)
    <3> QED BY <1>1, <3>1, Zenon
  <2> QED BY <2>4, <2>5, <2>6, <2>7, ZenonT(30) DEF HitOK
<1> QED BY <1>3, <1>4, ZenonT(30)

-----------------------------------------------------------------------------
(* What IInv says of one request, for the steps below.                      *)
LEMMA RequestFacts ==
  ASSUME IInv, NEW r \in Request
  PROVE  /\ RequestOK(r)
         /\ InOrder(pool, req_to_blocks, deferred_frees, num_cached_block, all_token_ids)
         /\ req_to_blocks \in [Request -> Seq(Block)]
         /\ num_cached_block \in [Request -> Nat]
         /\ all_token_ids \in [Request -> Seq(Token)]
         /\ num_computed_tokens \in [Request -> Nat]
         /\ status \in [Request -> Statuses]
         /\ req_to_blocks[r] \in Seq(Block) /\ Len(req_to_blocks[r]) \in Nat
         /\ all_token_ids[r] \in Seq(Token) /\ num_tokens(r) \in Nat
         /\ num_tokens(r) = Len(all_token_ids[r])
         /\ num_computed_tokens[r] \in Nat
         /\ Len(req_to_blocks[r]) * block_size \in Nat
         /\ max_model_len \in Nat /\ block_size \in Nat \ {0}
<1>1. /\ RequestOK(r)
      /\ InOrder(pool, req_to_blocks, deferred_frees, num_cached_block, all_token_ids)
      /\ req_to_blocks \in [Request -> Seq(Block)]
      /\ num_cached_block \in [Request -> Nat]
      /\ all_token_ids \in [Request -> Seq(Token)]
      /\ num_computed_tokens \in [Request -> Nat]
      /\ status \in [Request -> Statuses]
      /\ max_model_len \in Nat /\ block_size \in Nat \ {0}
  BY ManagerAssumption, Zenon DEF IInv, InOrder, Counters
<1>2. req_to_blocks[r] \in Seq(Block) /\ Len(req_to_blocks[r]) \in Nat
  BY <1>1, LenProperties, Zenon
<1>3. /\ all_token_ids[r] \in Seq(Token) /\ num_tokens(r) \in Nat
      /\ num_tokens(r) = Len(all_token_ids[r])
  BY <1>1, LenProperties, Zenon DEF num_tokens
<1> QED BY <1>1, <1>2, <1>3, TimesMonotonic, Zenon

(* A step of one request leaves the others' counters alone.                 *)
LEMMA OneRequest ==
  ASSUME IInv, NEW r \in Request,
         num_computed_tokens' \in [Request -> Nat], status' \in [Request -> Statuses],
         \A s \in Request : s # r =>
           /\ num_computed_tokens'[s] = num_computed_tokens[s]
           /\ status'[s] = status[s]
           /\ req_to_blocks'[s] = req_to_blocks[s]
           /\ all_token_ids'[s] = all_token_ids[s],
         RequestOK(r)'
  PROVE  Counters'
<1>1. ASSUME NEW s \in Request PROVE RequestOK(s)'
  <2>1. CASE s = r
    BY <2>1, Zenon
  <2>2. CASE s # r
    <3>1. RequestOK(s)
      BY Zenon DEF IInv, Counters
    <3> QED BY <2>2, <3>1, Zenon DEF RequestOK, num_tokens
  <2> QED BY <2>1, <2>2, Zenon
<1> QED BY <1>1, Zenon DEF Counters

LEMMA AddRequestStep ==
  ASSUME IInv, NEW r \in Request, NEW prompt \in Prompts, AddRequest(r, prompt)
  PROVE  IInv'
<1>1. /\ status[r] = "NONE" /\ status' = [status EXCEPT ![r] = "WAITING"]
      /\ all_token_ids' = [all_token_ids EXCEPT ![r] = prompt]
      /\ UNCHANGED <<pool, req_to_blocks, num_cached_block, deferred_frees, num_computed_tokens>>
  BY ZenonT(30) DEF AddRequest
<1>2. prompt \in Seq(Token) /\ Len(prompt) \in Nat /\ Len(prompt) > 0 /\ Len(prompt) <= max_model_len
  <2>1. prompt \in Seq(Token) /\ prompt # <<>> /\ Len(prompt) <= max_model_len
    BY SMTT(30), ManagerAssumption
  <2> QED BY SMTT(30), <2>1, EmptySeq, LenProperties
<1>3. /\ req_to_blocks[r] = <<>>
      /\ InOrder(pool, req_to_blocks, deferred_frees, num_cached_block, all_token_ids)
  BY <1>1, RequestFacts, ZenonT(30) DEF RequestOK
<1>4. InOrder(pool, req_to_blocks, deferred_frees, num_cached_block, [all_token_ids EXCEPT ![r] = prompt])
  BY <1>2, <1>3, TokensInOrder, ZenonT(30)
<1>5. RequestOK(r)'
  BY <1>1, <1>2, <1>3, RequestFacts, ZenonT(30) DEF RequestOK, num_tokens
<1>6. Counters'
  BY <1>1, <1>5, OneRequest, RequestFacts, ZenonT(30) DEF Statuses
<1> QED BY <1>1, <1>4, <1>6, Zenon DEF IInv

LEMMA AdmitStep ==
  ASSUME IInv, NEW r \in Request, NEW skip, NEW ext \in Nat, NEW n \in Nat,
         NEW headroom \in Nat, Admit(r, skip, ext, n, headroom)
  PROVE  IInv'
<1>1. /\ status[r] = "WAITING" /\ num_computed_tokens[r] = 0
      /\ status' = [status EXCEPT ![r] = "RUNNING"]
      /\ UNCHANGED <<all_token_ids, deferred_frees>>
  BY Zenon DEF Admit
<1>2. PICK hit \in get_computed_blocks(r, skip) :
        /\ \/ Len(hit) * block_size + ext + n <= num_tokens(r)
           \/ Len(hit) * block_size + ext + n <= max_model_len
        /\ allocate_slots(r, n, hit, ext, num_lookahead_tokens, headroom,
                          scheduler_reserve_full_isl, FALSE)
  BY ZenonT(30) DEF Admit
<1>3. HitOK(r, hit)
  BY <1>1, ComputedBlocks, ZenonT(30)
<1> DEFINE total == num_computed_tokens[r] + Len(hit) * block_size + ext + n
<1>4. total <= max_model_len
  <2>1. Len(hit) * block_size \in Nat
    BY <1>3, ManagerAssumption, LenProperties, TimesMonotonic, Zenon DEF HitOK
  <2> QED BY <1>1, <1>2, <2>1, RequestFacts, SMTT(30) DEF RequestOK
<1>5. /\ InOrder(pool', req_to_blocks', deferred_frees, num_cached_block', all_token_ids)
      /\ num_computed_tokens' = [num_computed_tokens EXCEPT ![r] = total]
      /\ total \in Nat
      /\ total <= Len(req_to_blocks'[r]) * block_size
      /\ \A s \in Request : s # r => req_to_blocks'[s] = req_to_blocks[s]
  <2>1. num_lookahead_tokens \in Nat
    BY ManagerAssumption, Zenon
  <2> QED BY <1>2, <1>3, <1>4, <2>1, AllocateStep, Zenon
<1> HIDE DEF total
<1>6. RequestOK(r)'
  BY <1>1, <1>5, RequestFacts, ZenonT(30) DEF RequestOK, num_tokens
<1>7. Counters'
  BY <1>1, <1>5, <1>6, OneRequest, RequestFacts, Zenon DEF Statuses
<1> QED BY <1>1, <1>5, <1>7, Zenon DEF IInv

LEMMA StartLoadStep ==
  ASSUME IInv, NEW r \in Request, NEW skip, NEW ext \in Nat,
         NEW headroom \in Nat, StartLoad(r, skip, ext, headroom)
  PROVE  IInv'
<1> DEFINE lookahead == IF use_eagle THEN 0 ELSE num_lookahead_tokens
<1>1. /\ status[r] = "WAITING" /\ num_computed_tokens[r] = 0
      /\ status' = [status EXCEPT ![r] = "REMOTE"]
      /\ UNCHANGED <<all_token_ids, deferred_frees>>
  BY Zenon DEF StartLoad
<1>2. PICK hit \in get_computed_blocks(r, skip) :
        /\ Len(hit) * block_size + ext <= num_tokens(r)
        /\ allocate_slots(r, 0, hit, ext, lookahead, headroom,
                          scheduler_reserve_full_isl, TRUE)
  BY Zenon DEF StartLoad
<1>3. HitOK(r, hit)
  BY <1>1, ComputedBlocks, ZenonT(30)
<1> DEFINE total == num_computed_tokens[r] + Len(hit) * block_size + ext + 0
<1>4. total <= max_model_len /\ total <= num_tokens(r)
  <2>1. Len(hit) * block_size \in Nat
    BY <1>3, ManagerAssumption, LenProperties, TimesMonotonic, ZenonT(30) DEF HitOK
  <2> QED BY <1>1, <1>2, <2>1, RequestFacts, SMTT(30) DEF RequestOK
<1>5. /\ InOrder(pool', req_to_blocks', deferred_frees, num_cached_block', all_token_ids)
      /\ num_computed_tokens' = [num_computed_tokens EXCEPT ![r] = total]
      /\ total \in Nat
      /\ total <= Len(req_to_blocks'[r]) * block_size
      /\ \A s \in Request : s # r => req_to_blocks'[s] = req_to_blocks[s]
  <2>1. lookahead \in Nat
    BY ManagerAssumption, Zenon
  <2> HIDE DEF lookahead
  <2> QED BY <1>2, <1>3, <1>4, <2>1, AllocateStep, Zenon
<1> HIDE DEF total
<1>6. RequestOK(r)'
  BY <1>1, <1>4, <1>5, RequestFacts, ZenonT(30) DEF RequestOK, num_tokens
<1>7. Counters'
  BY <1>1, <1>5, <1>6, OneRequest, RequestFacts, Zenon DEF Statuses
<1> QED BY <1>1, <1>5, <1>7, Zenon DEF IInv

LEMMA ContinueStep ==
  ASSUME IInv, NEW r \in Request, NEW n \in Nat, NEW headroom \in Nat, Continue(r, n, headroom)
  PROVE  IInv'
<1>1. /\ status[r] # "NONE"
      /\ num_computed_tokens[r] + n <= max_model_len
      /\ allocate_slots(r, n, <<>>, 0, num_lookahead_tokens, headroom,
                        status[r] = "WAITING" /\ scheduler_reserve_full_isl, FALSE)
      /\ status' = [status EXCEPT ![r] = "RUNNING"]
      /\ UNCHANGED <<all_token_ids, deferred_frees>>
  BY ZenonT(30) DEF Continue
<1> DEFINE none     == <<>>
           must_fit == status[r] = "WAITING" /\ scheduler_reserve_full_isl
<1>2. HitOK(r, none) /\ Len(none) * block_size = 0
  BY SMTT(30), EmptySeq, RequestFacts, ManagerAssumption DEF HitOK
<1> HIDE DEF none
<1> DEFINE total == num_computed_tokens[r] + Len(none) * block_size + 0 + n
<1>3. total <= max_model_len
  BY SMTT(30), <1>1, <1>2, RequestFacts
<1>4. /\ InOrder(pool', req_to_blocks', deferred_frees, num_cached_block', all_token_ids)
      /\ num_computed_tokens' = [num_computed_tokens EXCEPT ![r] = total]
      /\ total \in Nat
      /\ total <= Len(req_to_blocks'[r]) * block_size
      /\ \A s \in Request : s # r => req_to_blocks'[s] = req_to_blocks[s]
  <2>1. /\ num_lookahead_tokens \in Nat
        /\ allocate_slots(r, n, none, 0, num_lookahead_tokens, headroom, must_fit, FALSE)
    BY <1>1, ManagerAssumption, Zenon DEF none
  <2>2. 0 \in Nat /\ none = none
    BY Zenon
  <2> HIDE DEF must_fit
  <2> QED BY ONLY IInv, r \in Request, n \in Nat, headroom \in Nat, <1>2, <1>3, <2>1, <2>2,
                  AllocateStep, ZenonT(30)
<1> HIDE DEF total
<1>5. RequestOK(r)'
  BY <1>1, <1>4, RequestFacts, Zenon DEF RequestOK, num_tokens
<1>6. Counters'
  BY <1>1, <1>4, <1>5, OneRequest, RequestFacts, ZenonT(30) DEF Statuses
<1> QED BY <1>1, <1>4, <1>6, ZenonT(30) DEF IInv

LEMMA FinishLoadStep ==
  ASSUME IInv, NEW r \in Request, NEW valid \in Nat, FinishLoad(r, valid)
  PROVE  IInv'
<1>1. /\ status[r] = "REMOTE" /\ valid <= num_computed_tokens[r]
      /\ num_computed_tokens' = [num_computed_tokens EXCEPT ![r] =
           IF valid = num_tokens(r) THEN valid - 1 ELSE valid]
      /\ status' = [status EXCEPT ![r] = "WAITING"]
      /\ UNCHANGED <<all_token_ids, deferred_frees>>
  BY SMTT(30), RequestFacts DEF FinishLoad
<1>2. /\ num_computed_tokens[r] <= num_tokens(r) /\ num_tokens(r) > 0
      /\ num_computed_tokens[r] <= Len(req_to_blocks[r]) * block_size
      /\ num_tokens(r) <= max_model_len
  BY <1>1, RequestFacts, ZenonT(30) DEF RequestOK
<1>3. /\ valid <= num_tokens(r)
      /\ valid <= Len(req_to_blocks[r]) * block_size
  BY SMTT(30), <1>1, <1>2, RequestFacts
<1>4. num_computed_tokens' \in [Request -> Nat]
  <2>1. (IF valid = num_tokens(r) THEN valid - 1 ELSE valid) \in Nat
    BY <1>2, RequestFacts
  <2> QED BY <1>1, <2>1, RequestFacts, ZenonT(30)
<1>5. CASE valid = 0
  <2>1. /\ pool' = free_blocks(pool, Reversed(req_to_blocks[r]))
        /\ req_to_blocks' = [req_to_blocks EXCEPT ![r] = <<>>]
        /\ num_cached_block' = [num_cached_block EXCEPT ![r] = 0]
    BY <1>5, ZenonT(30) DEF FinishLoad, free
  <2>2. InOrder(pool', req_to_blocks', deferred_frees, num_cached_block', all_token_ids)
    BY <2>1, RequestFacts, ReleaseInOrder, Zenon
  <2>3. num_computed_tokens'[r] = 0
    BY <1>1, <1>2, <1>5, RequestFacts, SMTT(30)
  <2>4. req_to_blocks'[r] = <<>> /\ Len(req_to_blocks'[r]) * block_size = 0
    BY <2>1, RequestFacts, EmptySeq, ManagerAssumption, SMTT(30)
  <2>5. RequestOK(r)'
    BY SMTT(30), <1>1, <1>2, <2>3, <2>4, RequestFacts DEF RequestOK, num_tokens
  <2>6. Counters'
    BY <1>1, <1>4, <2>1, <2>5, OneRequest, RequestFacts, ZenonT(30) DEF Statuses
  <2> QED BY <1>1, <2>2, <2>6, ZenonT(30) DEF IInv
<1>6. CASE valid # 0
  <2>1. /\ pool' = cache_blocks(pool, all_token_ids[r], req_to_blocks[r],
                                num_cached_block[r], valid)
        /\ num_cached_block' = [num_cached_block EXCEPT ![r] =
                                  NumCached(num_cached_block[r], valid)]
        /\ req_to_blocks' = req_to_blocks
    BY <1>6, Zenon DEF FinishLoad
  <2>2. InOrder(pool', req_to_blocks', deferred_frees, num_cached_block', all_token_ids)
    <3>1. valid <= Len(all_token_ids[r])
      BY <1>3, RequestFacts, ZenonT(30)
    <3> QED BY <1>3, <2>1, <3>1, RequestFacts, CacheInOrder, ZenonT(30)
  <2>3. /\ num_computed_tokens'[r] <= valid
        /\ num_computed_tokens'[r] = 0 => num_tokens(r) = 1
    BY <1>1, <1>2, <1>6, RequestFacts, SMTT(30)
  <2>4. num_computed_tokens'[r] <= Len(req_to_blocks[r]) * block_size
    BY <1>3, <1>4, <2>3, RequestFacts, SMTT(30)
  <2>5. RequestOK(r)'
    BY SMTT(30), <1>1, <1>2, <2>1, <2>3, <2>4, RequestFacts DEF RequestOK, num_tokens
  <2>6. Counters'
    BY <1>1, <1>4, <2>1, <2>5, OneRequest, RequestFacts, Zenon DEF Statuses
  <2> QED BY <1>1, <2>2, <2>6, ZenonT(30) DEF IInv
<1> QED BY <1>5, <1>6, Zenon

LEMMA OutputStep ==
  ASSUME IInv, NEW r \in Request, NEW out \in Seq(Token), NEW rejected \in Nat,
         Output(r, out, rejected)
  PROVE  IInv'
<1> DEFINE toks == all_token_ids[r] \o out
           K    == [all_token_ids EXCEPT ![r] = toks]
           n    == Len(toks) - 1
<1>1. /\ status[r] = "RUNNING"
      /\ Len(out) + rejected <= num_computed_tokens[r] + 1 - num_tokens(r)
      /\ Len(toks) <= max_model_len
      /\ all_token_ids' = K
      /\ num_computed_tokens' = [num_computed_tokens EXCEPT ![r] =
                                   num_computed_tokens[r] - rejected]
      /\ UNCHANGED <<req_to_blocks, deferred_frees, status>>
  BY Zenon DEF Output
<1>2. /\ toks \in Seq(Token) /\ Len(toks) = num_tokens(r) + Len(out) /\ Len(out) \in Nat
      /\ num_tokens(r) > 0
  <2>1. /\ all_token_ids[r] \in Seq(Token) /\ num_tokens(r) = Len(all_token_ids[r])
        /\ num_tokens(r) > 0
    BY <1>1, RequestFacts, ZenonT(30) DEF RequestOK
  <2>2. toks \in Seq(Token) /\ Len(toks) = Len(all_token_ids[r]) + Len(out)
    BY <2>1, ConcatProperties, Zenon
  <2> QED BY <2>1, <2>2, LenProperties, Zenon
<1>3. InOrder(pool, req_to_blocks, deferred_frees, num_cached_block, K)
  BY <1>2, RequestFacts, TokensInOrder, Zenon
<1>4. K[r] = toks /\ \A s \in Request : s # r => K[s] = all_token_ids[s]
  BY RequestFacts, Zenon
<1> HIDE DEF K, toks
<1>5. /\ num_computed_tokens[r] - rejected \in Nat
      /\ num_computed_tokens[r] - rejected <= Len(req_to_blocks[r]) * block_size
      /\ n \in Nat /\ n <= Len(toks) /\ n <= Len(req_to_blocks[r]) * block_size
  <2>1. num_computed_tokens[r] <= Len(req_to_blocks[r]) * block_size
    BY RequestFacts, Zenon DEF RequestOK
  <2> DEFINE c == num_computed_tokens[r]
             t == num_tokens(r)
             l == Len(toks)
             m == Len(out)
             d == Len(req_to_blocks[r]) * block_size
  <2>2. /\ c \in Nat /\ t \in Nat /\ m \in Nat /\ d \in Nat /\ l = t + m /\ t > 0 /\ c <= d
        /\ m + rejected <= c + 1 - t
    BY <1>1, <1>2, <2>1, RequestFacts, ZenonT(30)
  <2> HIDE DEF c, t, l, m, d
  <2>3. c - rejected \in Nat /\ c - rejected <= d /\ l - 1 \in Nat /\ l - 1 <= l /\ l - 1 <= d
    BY SMTT(30), <2>2
  <2> QED BY <2>3, Zenon DEF c, l, d
<1>6. InOrder(pool', req_to_blocks', deferred_frees, num_cached_block', K)
  <2>1. CASE async_scheduling
    <3>1. /\ pool' = cache_blocks(pool, K[r], req_to_blocks[r], num_cached_block[r], n)
          /\ num_cached_block' = [num_cached_block EXCEPT ![r] =
                                    NumCached(num_cached_block[r], n)]
      BY <1>4, <2>1, ZenonT(30) DEF Output, toks
    <3>2. InOrder(cache_blocks(pool, K[r], req_to_blocks[r], num_cached_block[r], n),
                 req_to_blocks, deferred_frees,
                 [num_cached_block EXCEPT ![r] = NumCached(num_cached_block[r], n)], K)
      <4> HIDE DEF n
      <4>1. n <= Len(K[r])
        BY <1>4, <1>5, ZenonT(30)
      <4> QED BY <1>3, <1>5, <4>1, CacheInOrder, ZenonT(30)
    <3> QED BY <1>1, <3>1, <3>2, ZenonT(30)
  <2>2. CASE ~async_scheduling
    <3>1. pool' = pool /\ num_cached_block' = num_cached_block
      BY <2>2, Zenon DEF Output
    <3> QED BY <1>1, <1>3, <3>1, ZenonT(30)
  <2> QED BY <2>1, <2>2, Zenon
<1>7. RequestOK(r)'
  <2>1. /\ all_token_ids'[r] = toks /\ req_to_blocks'[r] = req_to_blocks[r]
        /\ status'[r] = "RUNNING"
        /\ num_computed_tokens'[r] = num_computed_tokens[r] - rejected
    BY <1>1, <1>4, RequestFacts, ZenonT(30)
  <2>2. Len(toks) > 0
    BY SMTT(30), <1>2, RequestFacts
  <2> QED BY <1>1, <1>5, <2>1, <2>2, ZenonT(30) DEF RequestOK, num_tokens
<1>8. Counters'
  BY <1>1, <1>4, <1>5, <1>7, OneRequest, RequestFacts, ZenonT(30)
<1> QED BY <1>1, <1>6, <1>8, ZenonT(30) DEF IInv

LEMMA LateOutputStep ==
  ASSUME IInv, NEW r \in Request, NEW out \in Seq(Token), LateOutput(r, out)
  PROVE  IInv'
<1> DEFINE toks == all_token_ids[r] \o out
<1>1. /\ status[r] = "WAITING" /\ req_to_blocks[r] = <<>>
      /\ num_tokens(r) + Len(out) <= max_model_len
      /\ all_token_ids' = [all_token_ids EXCEPT ![r] = toks]
      /\ UNCHANGED <<pool, req_to_blocks, num_cached_block, deferred_frees,
                     num_computed_tokens, status>>
  BY Zenon DEF LateOutput
<1>2. toks \in Seq(Token) /\ Len(toks) = num_tokens(r) + Len(out) /\ Len(out) \in Nat
  <2>1. all_token_ids[r] \in Seq(Token) /\ num_tokens(r) = Len(all_token_ids[r])
    BY RequestFacts, ZenonT(30)
  <2>2. toks \in Seq(Token) /\ Len(toks) = Len(all_token_ids[r]) + Len(out)
    BY <2>1, ConcatProperties, Zenon
  <2> QED BY <2>1, <2>2, LenProperties, ZenonT(30)
<1> HIDE DEF toks
<1>3. InOrder(pool, req_to_blocks, deferred_frees, num_cached_block, [all_token_ids EXCEPT ![r] = toks])
  BY <1>1, <1>2, RequestFacts, TokensInOrder, ZenonT(30)
<1>4. RequestOK(r)'
  <2>1. all_token_ids'[r] = toks /\ Len(toks) > 0 /\ Len(toks) <= max_model_len
    BY SMTT(30), <1>1, <1>2, RequestFacts DEF RequestOK
  <2> QED BY <1>1, <2>1, RequestFacts, ZenonT(30) DEF RequestOK, num_tokens
<1>5. Counters'
  BY <1>1, <1>4, OneRequest, RequestFacts, ZenonT(30)
<1> QED BY <1>1, <1>3, <1>5, ZenonT(30) DEF IInv

(* Preempt and Finish.                                                      *)
LEMMA ReleaseTables ==
  ASSUME IInv, NEW r \in Request, Release(r)
  PROVE  /\ InOrder(pool', req_to_blocks', deferred_frees', num_cached_block', all_token_ids)
         /\ num_computed_tokens' \in [Request -> Nat]
         /\ num_computed_tokens'[r] = 0 /\ req_to_blocks'[r] = <<>>
         /\ Len(req_to_blocks'[r]) * block_size = 0
         /\ \A s \in Request : s # r =>
              /\ num_computed_tokens'[s] = num_computed_tokens[s]
              /\ req_to_blocks'[s] = req_to_blocks[s]
<1>1. /\ _free_request_blocks(r)
      /\ req_to_blocks' = [req_to_blocks EXCEPT ![r] = <<>>]
      /\ num_cached_block' = [num_cached_block EXCEPT ![r] = 0]
      /\ num_computed_tokens' = [num_computed_tokens EXCEPT ![r] = 0]
  BY ZenonT(30) DEF Release
<1>2. InOrder(pool', req_to_blocks', deferred_frees', num_cached_block', all_token_ids)
  <2>1. CASE /\ pool' = free_blocks(pool, Reversed(req_to_blocks[r]))
             /\ deferred_frees' = deferred_frees
    BY <1>1, <2>1, RequestFacts, ReleaseInOrder, Zenon
  <2>2. ASSUME NEW d \in Entry, deferred_frees[d] = <<>>, pool' = pool,
               deferred_frees' = [deferred_frees EXCEPT ![d] = req_to_blocks[r]]
        PROVE  InOrder(pool', req_to_blocks', deferred_frees', num_cached_block', all_token_ids)
    BY <1>1, <2>2, RequestFacts, DeferInOrder, ZenonT(30)
  <2> QED BY <1>1, <2>1, <2>2, ZenonT(30) DEF _free_request_blocks, free
<1>3. req_to_blocks'[r] = <<>> /\ Len(req_to_blocks'[r]) * block_size = 0
  BY <1>1, RequestFacts, EmptySeq, ManagerAssumption, SMTT(30)
<1> QED BY SMTT(30), <1>1, <1>2, <1>3, RequestFacts

LEMMA PreemptStep ==
  ASSUME IInv, NEW r \in Request, Preempt(r)
  PROVE  IInv'
<1>1. /\ status[r] = "RUNNING" /\ Release(r)
      /\ status' = [status EXCEPT ![r] = "WAITING"] /\ all_token_ids' = all_token_ids
  BY ZenonT(30) DEF Preempt
<1>2. RequestOK(r)'
  BY SMTT(30), <1>1, ReleaseTables, RequestFacts DEF RequestOK, num_tokens
<1>3. Counters'
  BY <1>1, <1>2, ReleaseTables, OneRequest, RequestFacts, Zenon DEF Statuses
<1> QED BY <1>1, <1>3, ReleaseTables, ZenonT(30) DEF IInv

LEMMA FinishStep ==
  ASSUME IInv, NEW r \in Request, Finish(r)
  PROVE  IInv'
<1> DEFINE none == <<>>
<1>1. /\ Release(r) /\ status' = [status EXCEPT ![r] = "NONE"]
      /\ all_token_ids' = [all_token_ids EXCEPT ![r] = none]
  BY Zenon DEF Finish
<1>2. none \in Seq(Token) /\ Len(none) = 0
  BY EmptySeq, Zenon
<1> HIDE DEF none
<1>3. InOrder(pool', req_to_blocks', deferred_frees', num_cached_block', [all_token_ids EXCEPT ![r] = none])
  <2>1. /\ InOrder(pool', req_to_blocks', deferred_frees', num_cached_block', all_token_ids)
        /\ req_to_blocks'[r] = <<>>
    BY <1>1, ReleaseTables, Zenon
  <2> DEFINE p == pool'
             T == req_to_blocks'
             E == deferred_frees'
             C == num_cached_block'
  <2>2. InOrder(p, T, E, C, all_token_ids) /\ T[r] = <<>>
    BY <2>1, Zenon
  <2> HIDE DEF p, T, E, C
  <2>3. InOrder(p, T, E, C, [all_token_ids EXCEPT ![r] = none])
    BY <1>2, <2>2, TokensInOrder, ZenonT(30)
  <2> QED BY <2>3, Zenon DEF p, T, E, C
<1>4. all_token_ids'[r] = none /\ \A s \in Request : s # r => all_token_ids'[s] = all_token_ids[s]
  BY <1>1, RequestFacts, ZenonT(30)
<1>5. RequestOK(r)'
  BY SMTT(30), <1>1, <1>2, <1>4, ReleaseTables, RequestFacts DEF RequestOK, num_tokens
<1>6. Counters'
  BY <1>1, <1>4, <1>5, ReleaseTables, OneRequest, RequestFacts, ZenonT(30) DEF Statuses
<1> QED BY <1>1, <1>3, <1>6, Zenon DEF IInv

LEMMA DrainStep ==
  ASSUME IInv, NEW d \in Entry, DrainDeferredFrees(d)
  PROVE  IInv'
<1>1. /\ pool' = free_blocks(pool, Reversed(deferred_frees[d]))
      /\ deferred_frees' = [deferred_frees EXCEPT ![d] = <<>>]
      /\ UNCHANGED <<req_to_blocks, num_cached_block, all_token_ids, num_computed_tokens, status>>
  BY Zenon DEF DrainDeferredFrees
<1>2. InOrder(pool', req_to_blocks, deferred_frees', num_cached_block, all_token_ids)
  BY <1>1, DrainInOrder, ZenonT(30) DEF IInv
<1>3. Counters'
  BY <1>1, Zenon DEF IInv, Counters, RequestOK, num_tokens
<1> QED BY <1>1, <1>2, <1>3, Zenon DEF IInv

(* evict_blocks and reset_prefix_cache only take hashes away.               *)
LEMMA EvictStep ==
  ASSUME IInv, \/ \E S \in Reports : EvictBlocks(S)
               \/ ResetPrefixCache
  PROVE  IInv'
<1>1. UNCHANGED <<req_to_blocks, num_cached_block, deferred_frees, all_token_ids,
                  num_computed_tokens, status>>
  BY Zenon DEF EvictBlocks, ResetPrefixCache
<1>0. PICK EC \in [Entry -> Nat], EK \in [Entry -> Seq(Token)] :
        Tables(pool, Both(req_to_blocks, deferred_frees), Both(num_cached_block, EC),
               Both(all_token_ids, EK))
  BY Zenon DEF IInv, InOrder
<1> DEFINE T == Both(req_to_blocks, deferred_frees)
           C == Both(num_cached_block, EC)
           K == Both(all_token_ids, EK)
<1>2. Tables(pool, T, C, K) /\ PoolOK(pool)
  BY <1>0, Zenon DEF Tables
<1> HIDE DEF T, C, K
<1>3. /\ PoolOK(pool') /\ pool'.ref_cnt = pool.ref_cnt
      /\ \A b \in Block : pool'.block_hash[b] \in {NoHash, pool.block_hash[b]}
  <2>1. ASSUME NEW S \in Reports, EvictBlocks(S)
        PROVE  /\ PoolOK(pool') /\ pool'.ref_cnt = pool.ref_cnt
               /\ \A b \in Block : pool'.block_hash[b] \in {NoHash, pool.block_hash[b]}
    <3>1. S \in SUBSET Block /\ pool' = _maybe_evict_cached_block(pool, S)
      BY <2>1, ManagerAssumption, ZenonT(30) DEF EvictBlocks, evict_blocks
    <3>2. /\ PoolOK(pool') /\ pool'.ref_cnt = pool.ref_cnt
          /\ pool'.block_hash = [b \in Block |-> IF b \in S THEN NoHash ELSE pool.block_hash[b]]
      BY SMTT(30), <1>2, <3>1, EvictOK
    <3> QED BY <3>2, ZenonT(30)
  <2>2. ASSUME ResetPrefixCache
        PROVE  /\ PoolOK(pool') /\ pool'.ref_cnt = pool.ref_cnt
               /\ \A b \in Block : pool'.block_hash[b] \in {NoHash, pool.block_hash[b]}
    <3>1. pool' = reset_prefix_cache(pool)
      BY <2>2, Zenon DEF ResetPrefixCache
    <3> QED BY <1>2, <3>1, ResetOK, Zenon
  <2> QED BY <2>1, <2>2, ZenonT(30)
<1>6. ChainsOK(pool', T, C, K)
  <2> SUFFICES ASSUME Reports = {}
               PROVE  ChainsOK(pool', T, C, K)
    BY Zenon DEF ChainsOK
  <2> DEFINE q == pool'
  <2>1. q = reset_prefix_cache(pool)
    BY Zenon DEF ResetPrefixCache
  <2> HIDE DEF q
  <2>2. \/ q = pool
        \/ \A b \in Block : pool.ref_cnt[b] = 0 /\ q.block_hash[b] = NoHash
    BY <1>2, <2>1, ResetOK, Zenon
  <2>3. CASE q = pool
    BY <1>2, <2>3, Zenon DEF Tables, q
  <2>4. CASE \A b \in Block : pool.ref_cnt[b] = 0 /\ q.block_hash[b] = NoHash
    <3>1. PoolOK(q)
      BY <1>3, Zenon DEF q
    <3>2. NothingHashed(q)
      BY <2>4, Zenon DEF NothingHashed
    <3>3. \A r \in Holder : C[r] = 0
      <4> TAKE r \in Holder
      <4>1. /\ C[r] \in Nat /\ Len(T[r]) \in Nat
            /\ C[r] <= Len(T[r])
        BY <1>2, LenProperties, Zenon DEF Tables, Typed, HashesOK
      <4>2. ASSUME 1 \in 1..Len(T[r]) PROVE FALSE
        <5>1. T[r][1] \in Elems(T[r])
          BY <4>2, ZenonT(30) DEF Elems
        <5>2. T[r][1] \in Block /\ pool.ref_cnt[T[r][1]] > 0
          BY <1>2, <5>1, HeldBlocks, Zenon
        <5> QED BY SMTT(30), <2>4, <5>2
      <4> QED BY SMTT(30), <4>1, <4>2
    <3>4. ChainsOK(q, T, C, K)
      BY <3>1, <3>2, <3>3, NoChains, ZenonT(30)
    <3> QED BY <3>4, Zenon DEF q
  <2> QED BY <2>2, <2>3, <2>4, Zenon
<1>4. Tables(pool', T, C, K)
  <2> DEFINE q == pool'
  <2>1. /\ PoolOK(q) /\ q.ref_cnt = pool.ref_cnt
        /\ \A b \in Block : q.block_hash[b] \in {NoHash, pool.block_hash[b]}
        /\ ChainsOK(q, T, C, K)
    BY <1>3, <1>6, Zenon
  <2> HIDE DEF q
  <2>2. Tables(q, T, C, K)
    BY <1>2, <2>1, LoseHashes, ZenonT(30)
  <2> QED BY <2>2, ZenonT(30) DEF q
<1>5. Counters'
  BY <1>1, ZenonT(30) DEF IInv, Counters, RequestOK, num_tokens
<1>7. InOrder(pool', req_to_blocks, deferred_frees, num_cached_block, all_token_ids)
  BY <1>4, Zenon DEF IInv, InOrder, T, C, K
<1> QED BY <1>1, <1>5, <1>7, Zenon DEF IInv

-----------------------------------------------------------------------------
LEMMA InitStep == Init => IInv
<1> SUFFICES ASSUME Init PROVE IInv
  BY ZenonT(30)
<1> DEFINE EC == [d \in Entry |-> 0]
           EK == [d \in Entry |-> <<>>]
           T  == Both(req_to_blocks, deferred_frees)
           C  == Both(num_cached_block, EC)
           K  == Both(all_token_ids, EK)
<1>1. /\ pool \in NewPools
      /\ req_to_blocks = [r \in Request |-> <<>>]
      /\ num_cached_block = [r \in Request |-> 0]
      /\ deferred_frees = [d \in Entry |-> <<>>]
      /\ all_token_ids = [r \in Request |-> <<>>]
      /\ num_computed_tokens = [r \in Request |-> 0]
      /\ status = [r \in Request |-> "NONE"]
  BY Zenon DEF Init
<1>2. PoolOK(pool) /\ \A b \in Block : pool.ref_cnt[b] = 0 /\ pool.block_hash[b] = NoHash
  BY <1>1, NewPoolOK, Zenon
<1>a. T = [h \in Holder |-> <<>>] /\ C = [h \in Holder |-> 0] /\ K = [h \in Holder |-> <<>>]
  <2>1. \A h \in Holder : h \notin Request => h \in Entry
    BY Zenon DEF Holder
  <2> QED BY SMTT(30), <1>1, <2>1 DEF Both
<1> HIDE DEF T, C, K
<1>3. \A r \in Holder : /\ T[r] = <<>> /\ Len(T[r]) = 0
                        /\ Len(K[r]) = 0 /\ C[r] = 0
                        /\ 0 * block_size = 0
  BY SMTT(30), <1>a, EmptySeq, ManagerAssumption
<1>4. Typed(T, C, K)
  BY <1>a, EmptySeq, ZenonT(30) DEF Typed
<1>5. RefsOK(pool, T)
  <2>1. \A r \in Holder : Injective(T[r]) /\ Elems(T[r]) = {}
    BY SMTT(30), <1>3 DEF Injective, Elems
  <2>2. ASSUME NEW b \in Block PROVE Cardinality(Has(T, b)) = 0
    <3>1. Has(T, b) = {}
      BY <2>1, ZenonT(30) DEF Has
    <3> QED BY <3>1, FS_EmptySet, ZenonT(30)
  <2> QED BY <1>2, <2>1, <2>2, Zenon DEF RefsOK
<1>6. HashesOK(pool, T, C, K)
  BY SMTT(30), <1>3 DEF HashesOK
<1>7. SharingOK(T, C, K)
  BY SMTT(30), <1>3 DEF SharingOK
<1>8. Counters
  <2>1. Len(<<>>) = 0 /\ 0 * block_size = 0
    BY SMTT(30), EmptySeq, ManagerAssumption
  <2> QED BY SMTT(30), <1>1, <2>1, ManagerAssumption DEF Counters, RequestOK, num_tokens, Statuses
<1>9. ChainsOK(pool, T, C, K)
  BY <1>2, <1>3, NoChains, ZenonT(30) DEF NothingHashed
<1>10. Tables(pool, T, C, K)
  BY <1>2, <1>4, <1>5, <1>6, <1>7, <1>9, ZenonT(30) DEF Tables
<1>11. /\ req_to_blocks \in [Request -> Seq(Block)] /\ deferred_frees \in [Entry -> Seq(Block)]
       /\ num_cached_block \in [Request -> Nat] /\ all_token_ids \in [Request -> Seq(Token)]
       /\ EC \in [Entry -> Nat] /\ EK \in [Entry -> Seq(Token)]
  BY <1>1, EmptySeq, Zenon
<1> HIDE DEF EC, EK
<1> QED BY <1>8, <1>10, <1>11, Zenon DEF IInv, InOrder, T, C, K

LEMMA NextStep == IInv /\ [Next]_vars => IInv'
<1> SUFFICES ASSUME IInv, [Next]_vars PROVE IInv'
  BY Zenon
<1>1. /\ 0..MaxExternal \subseteq Nat /\ 1..MaxExternal \subseteq Nat
      /\ 1..max_model_len \subseteq Nat /\ 0..max_model_len \subseteq Nat
      /\ 0..MaxHeadroom \subseteq Nat /\ 0..MaxAhead \subseteq Nat
  BY SMTT(30), ManagerAssumption
<1>2. Outputs \subseteq Seq(Token)
  <2> SUFFICES ASSUME NEW k \in 1..MaxAhead + 1, NEW out \in [1..k -> Token]
               PROVE  out \in Seq(Token)
    BY Zenon DEF Outputs
  <2>1. k \in Nat
    BY SMTT(30), ManagerAssumption
  <2> QED BY SMTT(30), <2>1
<1>3. ASSUME NEW r \in Request, RequestStep(r) PROVE IInv'
  <2>1. ASSUME NEW prompt \in Prompts, AddRequest(r, prompt) PROVE IInv'
    BY <2>1, AddRequestStep, Zenon
  <2>2. ASSUME NEW skip \in BOOLEAN, NEW ext \in 0..MaxExternal, NEW n \in 1..max_model_len,
               NEW headroom \in 0..MaxHeadroom, Admit(r, skip, ext, n, headroom)
        PROVE  IInv'
    BY <1>1, <2>2, AdmitStep, ZenonT(30)
  <2>3. ASSUME NEW skip \in BOOLEAN, NEW ext \in 1..MaxExternal,
               NEW headroom \in 0..MaxHeadroom, StartLoad(r, skip, ext, headroom)
        PROVE  IInv'
    BY <1>1, <2>3, StartLoadStep, ZenonT(30)
  <2>4. ASSUME NEW valid \in 0..max_model_len, FinishLoad(r, valid) PROVE IInv'
    BY <1>1, <2>4, FinishLoadStep, Zenon
  <2>5. ASSUME NEW n \in 1..max_model_len, NEW headroom \in 0..MaxHeadroom,
               Continue(r, n, headroom)
        PROVE  IInv'
    BY <1>1, <2>5, ContinueStep, ZenonT(30)
  <2>6. ASSUME NEW out \in Outputs, NEW rejected \in 0..MaxAhead, Output(r, out, rejected)
        PROVE  IInv'
    BY <1>1, <1>2, <2>6, OutputStep, ZenonT(30)
  <2>7. ASSUME NEW out \in Outputs, LateOutput(r, out) PROVE IInv'
    BY <1>2, <2>7, LateOutputStep, Zenon
  <2>8. ASSUME Preempt(r) PROVE IInv'
    BY <2>8, PreemptStep, ZenonT(30)
  <2>9. ASSUME Finish(r) PROVE IInv'
    BY <2>9, FinishStep, ZenonT(30)
  <2> QED BY <1>3, <2>1, <2>2, <2>3, <2>4, <2>5, <2>6, <2>7, <2>8, <2>9, ZenonT(30) DEF RequestStep
<1>4. ASSUME (\E S \in Reports : EvictBlocks(S)) \/ ResetPrefixCache PROVE IInv'
  BY <1>4, EvictStep, Zenon
<1>6. ASSUME NEW d \in Entry, DrainDeferredFrees(d) PROVE IInv'
  BY <1>6, DrainStep, ZenonT(30)
<1>5. CASE UNCHANGED vars
  BY <1>5, ZenonT(30) DEF vars, IInv, Counters, RequestOK, num_tokens
<1> QED BY <1>3, <1>4, <1>5, <1>6, ZenonT(30) DEF Next

(* The block tables of all requests, the pool and the counters stay in      *)
(* order: IInv is inductive.                                                *)
THEOREM TablesInOrder == Spec => []IInv
BY InitStep, NextStep, PTL DEF Spec

(* The state of the pool, the tables and the counters has its type.         *)
THEOREM TypeCorrect == Spec => []TypeOK
<1>1. IInv => TypeOK
  BY Zenon DEF IInv, InOrder, Tables, PoolOK, Counters, TypeOK
<1> QED BY <1>1, TablesInOrder, PTL

(* No call of allocate_slots, update_from_output or free makes the block    *)
(* pool raise or fail an assertion: the capacity check of allocate_slots is *)
(* enough, whatever is hit, loaded, preempted, evicted or in flight.        *)
THEOREM NeverFails == Spec => []NoFailedCall
<1>1. IInv => NoFailedCall
  BY Zenon DEF IInv, InOrder, Tables, PoolOK, NoFailedCall
<1> QED BY <1>1, TablesInOrder, PTL

(* Reference counts are the numbers of holders, requests and deferred       *)
(* frees, and the free queue has exactly the blocks that nobody holds.      *)
THEOREM RefCountsExact == Spec => []BlockAccounting
<1>1. ASSUME IInv PROVE BlockAccounting
  <2>1. /\ PoolOK(pool) /\ pool.free_block_queue \in Seq(Block)
        /\ Injective(pool.free_block_queue)
        /\ \A b \in Block : b \in Elems(pool.free_block_queue) <=> pool.ref_cnt[b] = 0
    BY <1>1, Zenon DEF IInv, InOrder, Tables, PoolOK, Pool, QueueOK
  <2> DEFINE T == Both(req_to_blocks, deferred_frees)
  <2>2. \A b \in Block : Holders(b) = Has(T, b)
    <3>1. \A r \in Request : r \in Holder /\ T[r] = req_to_blocks[r]
      BY Zenon DEF Both, Holder
    <3>2. \A d \in Entry : d \in Holder /\ T[d] = deferred_frees[d]
      BY ManagerAssumption, Zenon DEF Both, Holder
    <3>3. \A h \in Holder : h \in Request \/ h \in Entry
      BY ZenonT(30) DEF Holder
    <3> HIDE DEF T
    <3> QED BY <3>1, <3>2, <3>3, ZenonT(30) DEF Holders, Has
  <2>3. \A b \in Block : pool.ref_cnt[b] = Cardinality(Holders(b))
    BY <1>1, <2>2, Zenon DEF IInv, InOrder, Tables, RefsOK
  <2>4. \A b \in Block : Cardinality(Holders(b)) = 0 <=> Holders(b) = {}
    BY <2>2, HoldersFinite, FS_EmptySet, Zenon
  <2>5. Elems(pool.free_block_queue) \subseteq Block
    BY <2>1, ElementOfSeq, ZenonT(30) DEF Elems
  <2>6. Elems(pool.free_block_queue) = {b \in Block : Holders(b) = {}}
    BY <2>1, <2>3, <2>4, <2>5, ZenonT(30)
  <2> QED BY <2>1, <2>3, <2>6, Zenon DEF BlockAccounting, Injective
<1> QED BY <1>1, TablesInOrder, PTL

(* The prefix cache's map and the hashes of the blocks agree.               *)
THEOREM MapExact == Spec => []CacheMapExact
<1>1. IInv => CacheMapExact
  BY ZenonT(30) DEF IInv, InOrder, Tables, PoolOK, MapOK, CacheMapExact
<1> QED BY <1>1, TablesInOrder, PTL

(* Prefix caching is sound: requests only ever share blocks that hold the   *)
(* same tokens, after the same prefix, at the same place.                   *)
THEOREM SharingSound == Spec => []SharedBlocksAgree
<1>1. ASSUME IInv PROVE SharedBlocksAgree
  <2> SUFFICES ASSUME NEW r \in Request, NEW s \in Request,
                      NEW i \in 1..Len(req_to_blocks[r]), NEW j \in 1..Len(req_to_blocks[s]),
                      r # s, req_to_blocks[r][i] = req_to_blocks[s][j]
               PROVE  /\ i = j
                      /\ i * block_size <= num_tokens(r)
                      /\ i * block_size <= num_tokens(s)
                      /\ \A k \in 1..i * block_size : all_token_ids[r][k] = all_token_ids[s][k]
    BY SMTT(30) DEF SharedBlocksAgree
  <2>a. PICK EC \in [Entry -> Nat], EK \in [Entry -> Seq(Token)] :
          Tables(pool, Both(req_to_blocks, deferred_frees), Both(num_cached_block, EC),
                 Both(all_token_ids, EK))
    BY <1>1, Zenon DEF IInv, InOrder
  <2> DEFINE T == Both(req_to_blocks, deferred_frees)
             C == Both(num_cached_block, EC)
             K == Both(all_token_ids, EK)
  <2>b. \A x \in Request : /\ x \in Holder /\ T[x] = req_to_blocks[x]
                           /\ C[x] = num_cached_block[x] /\ K[x] = all_token_ids[x]
    BY Zenon DEF Both, Holder
  <2>c. HashesOK(pool, T, C, K) /\ SharingOK(T, C, K)
    BY <2>a, Zenon DEF Tables
  <2> HIDE DEF T, C, K
  <2>1. /\ i = j /\ i <= num_cached_block[r] /\ j <= num_cached_block[s]
        /\ Prefix(all_token_ids[r], i) = Prefix(all_token_ids[s], i)
    <3>1. i \in 1..Len(T[r]) /\ j \in 1..Len(T[s]) /\ T[r][i] = T[s][j]
      BY <2>b, Zenon
    <3>2. /\ i = j /\ i <= C[r] /\ j <= C[s] /\ Prefix(K[r], i) = Prefix(K[s], i)
      BY <2>b, <2>c, <3>1, ZenonT(30) DEF SharingOK
    <3> QED BY <2>b, <3>2, Zenon
  <2>2. \A x \in Request : /\ num_cached_block[x] \in Nat /\ num_tokens(x) \in Nat
                           /\ num_cached_block[x] * block_size <= num_tokens(x)
    BY <1>1, <2>b, <2>c, RequestFacts, ZenonT(30) DEF HashesOK
  <2>3. i \in Nat /\ j \in Nat
    BY SMTT(30)
  <2>4. i * block_size <= num_tokens(r)
    BY <2>1, <2>2, <2>3, FewerBlocks, ZenonT(30)
  <2>5. j * block_size <= num_tokens(s)
    BY <2>1, <2>2, <2>3, FewerBlocks, Zenon
  <2>6. ASSUME NEW k \in 1..i * block_size
        PROVE  all_token_ids[r][k] = all_token_ids[s][k]
    <3>1. /\ all_token_ids[r] \in Seq(Token) /\ all_token_ids[s] \in Seq(Token)
          /\ i * block_size <= Len(all_token_ids[r]) /\ i * block_size <= Len(all_token_ids[s])
      BY <1>1, <2>1, <2>4, <2>5, RequestFacts, ZenonT(30)
    <3>2. /\ Prefix(all_token_ids[r], i)[k] = all_token_ids[r][k]
          /\ Prefix(all_token_ids[s], i)[k] = all_token_ids[s][k]
      BY <2>3, <3>1, PrefixFacts, ZenonT(30)
    <3> QED BY <2>1, <3>2, ZenonT(30)
  <2> QED BY <2>1, <2>4, <2>5, <2>6, Zenon
<1> QED BY <1>1, TablesInOrder, PTL

(* Every computed or scheduled token has a slot.                            *)
THEOREM SlotsSuffice == Spec => []SlotsCovered
<1>1. IInv => SlotsCovered
  BY Zenon DEF IInv, Counters, RequestOK, SlotsCovered
<1> QED BY <1>1, TablesInOrder, PTL

(* The KV events never announce a prefix that is not cached.                *)
THEOREM EventsSound == Spec => []EventsNeverOverstate
<1>1. IInv => EventsNeverOverstate
  BY Zenon DEF IInv, InOrder, Tables, PoolOK, MapOK, EventsNeverOverstate
<1> QED BY <1>1, TablesInOrder, PTL

(* A connector that reports no block invalid leaves the prefix cache closed *)
(* under prefixes, so that find_longest_cache_hit may stop at the first     *)
(* miss: whatever is admitted, shared, preempted, evicted or reset, a block *)
(* is evicted before the ones it extends.                                   *)
THEOREM PrefixesClosed ==
  ASSUME Reports = {}
  PROVE  Spec => []PrefixClosed
<1>1. ASSUME IInv PROVE PrefixClosed
  <2> DEFINE map == pool.cached_block_hash_to_block
             T   == Both(req_to_blocks, deferred_frees)
  <2>a. PICK EC \in [Entry -> Nat], EK \in [Entry -> Seq(Token)] :
          Tables(pool, T, Both(num_cached_block, EC), Both(all_token_ids, EK))
    BY <1>1, Zenon DEF IInv, InOrder
  <2> HIDE DEF T
  <2>1. /\ Tables(pool, T, Both(num_cached_block, EC), Both(all_token_ids, EK))
        /\ PoolOK(pool) /\ map \subseteq Hash \X Block
        /\ pool.ref_cnt \in [Block -> Nat] /\ pool.block_hash \in [Block -> Hash]
        /\ \A b \in Block : b \in Elems(pool.free_block_queue) <=> pool.ref_cnt[b] = 0
        /\ FreeChained(pool)
    BY <2>a, Zenon DEF Tables, ChainsOK, PoolOK, Pool, QueueOK
  <2> SUFFICES ASSUME NEW e \in map, Len(e[1]) > block_size
               PROVE  \E b \in Block : <<Parent(e[1]), b>> \in map
    BY ZenonT(30) DEF PrefixClosed, Parent
  <2> DEFINE a == e[2]
  <2>2. a \in Block /\ pool.block_hash[a] = e[1] /\ pool.block_hash[a] \in Hash
    <3>1. e \in Hash \X Block
      BY <2>1, Zenon
    <3>2. e[1] \in Hash /\ e[2] \in Block
      BY SMTT(30), <3>1
    <3> QED BY <2>1, <3>2, ZenonT(30) DEF PoolOK, MapOK
  <2> HIDE DEF a
  <2>3. \E b \in Block : pool.block_hash[b] = Parent(pool.block_hash[a])
    <3>1. CASE a \in Elems(pool.free_block_queue)
      <4>1. HasParent(pool, a)
        BY <2>1, <2>2, <3>1, ZenonT(30) DEF FreeChained
      <4> QED BY <4>1, Zenon DEF HasParent
    <3>2. CASE a \notin Elems(pool.free_block_queue)
      <4>1. Cardinality(Has(T, a)) # 0
        BY <2>1, <2>2, <3>2, Zenon DEF Tables, RefsOK
      <4>2. PICK r \in Holder : a \in Elems(T[r])
        BY <4>1, FS_EmptySet, ZenonT(30) DEF Has
      <4>3. PICK i \in 1..Len(T[r]) : T[r][i] = a
        BY <4>2, ZenonT(30) DEF Elems
      <4>6. Len(pool.block_hash[T[r][i]]) > block_size
        BY <2>2, <4>3, Zenon
      <4>4. /\ i - 1 \in 1..Len(T[r])
            /\ pool.block_hash[T[r][i - 1]] = Parent(pool.block_hash[T[r][i]])
        <5>1. HeadFirst(pool, T[r])
          BY <2>1, TableParents, ZenonT(30)
        <5> QED BY <4>6, <5>1, ZenonT(30) DEF HeadFirst
      <4>5. T[r][i - 1] \in Block
        BY <2>1, <4>4, ElementOfSeq, Zenon DEF Tables, Typed
      <4> QED BY <4>3, <4>4, <4>5, ZenonT(30)
    <3> QED BY <3>1, <3>2, ZenonT(30)
  <2>4. PICK b \in Block : pool.block_hash[b] = Parent(e[1])
    BY <2>2, <2>3, Zenon
  <2>5. pool.block_hash[b] # NoHash
    BY <2>2, <2>4, ParentHash, Zenon
  <2> QED BY <2>1, <2>4, <2>5, ZenonT(30) DEF PoolOK, MapOK
<1> QED BY <1>1, TablesInOrder, PTL
=============================================================================
