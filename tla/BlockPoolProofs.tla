--------------------------- MODULE BlockPoolProofs ---------------------------
(***************************************************************************)
(* Proofs about the methods of BlockPool: what they do to the free queue,  *)
(* the reference counts and the prefix cache, for every pool and every     *)
(* list of blocks; and about the block tables that hold its blocks.        *)
(***************************************************************************)
EXTENDS KVCacheManager, FiniteSetTheorems, SequenceTheorems, TLAPS

Injective(s) == \A i, j \in 1..Len(s) : s[i] = s[j] => i = j

\* x comes before y in q.
Before(q, x, y) == \E i, j \in 1..Len(q) : i < j /\ q[i] = x /\ q[j] = y

-----------------------------------------------------------------------------
(* Keep(q, S) - how touch and free_blocks pick blocks out of a list - has   *)
(* the elements of q that are in S, each once when q has them once, and in  *)
(* the order of q.                                                          *)
LEMMA KeepElems ==
  ASSUME NEW T, NEW q \in Seq(T), NEW S, Injective(q)
  PROVE  /\ Keep(q, S) \in Seq(T)
         /\ Elems(Keep(q, S)) = Elems(q) \cap S
         /\ Injective(Keep(q, S))
         /\ Len(Keep(q, S)) = Cardinality({i \in 1..Len(q) : q[i] \in S})
         /\ \A x, y \in S : Before(q, x, y) => Before(Keep(q, S), x, y)
<1> DEFINE I       == {i \in 1..Len(q) : q[i] \in S}
           n       == Cardinality(I)
           upTo(i) == {j \in I : j <= i}
           rank    == [i \in I |-> Cardinality(upTo(i))]
           at(k)   == CHOOSE i \in I : Cardinality(upTo(i)) = k
<1>1. IsFiniteSet(I) /\ n \in Nat
  <2>1. IsFiniteSet(1..Len(q))
    BY FS_Interval
  <2>2. IsFiniteSet(I)
    BY <2>1, FS_Subset, Zenon
  <2> QED BY <2>2, FS_CardinalityType, Zenon
<1>2. ASSUME NEW i \in I
      PROVE  IsFiniteSet(upTo(i)) /\ Cardinality(upTo(i)) \in 1..n
  <2>1. IsFiniteSet(upTo(i)) /\ Cardinality(upTo(i)) <= n
    BY <1>1, FS_Subset, upTo(i) \in SUBSET I, Zenon
  <2>2. i \in upTo(i)
    OBVIOUS
  <2>3. Cardinality(upTo(i)) # 0
    BY <2>1, <2>2, FS_EmptySet, Zenon
  <2> QED BY SMTT(30), <1>1, <2>1, <2>3, FS_CardinalityType
<1>3. ASSUME NEW i \in I, NEW j \in I, i < j, Cardinality(upTo(i)) = Cardinality(upTo(j))
      PROVE  FALSE
  <2>1. upTo(i) \in SUBSET upTo(j)
    BY <1>3
  <2>2. j \in upTo(j) /\ j \notin upTo(i)
    BY <1>3
  <2>3. upTo(i) = upTo(j)
    BY <1>2, <1>3, <2>1, FS_Subset, Zenon
  <2> QED BY <2>2, <2>3, Zenon
<1>4. \A i, j \in I : Cardinality(upTo(i)) = Cardinality(upTo(j)) => i = j
  BY SMTT(30), <1>3
<1>5. rank \in Injection(I, 1..n)
  BY <1>2, <1>4, Zenon DEF Injection, IsInjective
<1>6. rank \in Surjection(I, 1..n)
  <2>1. IsFiniteSet(1..n) /\ Cardinality(1..n) = n
    BY SMTT(30), <1>1, FS_Interval
  <2> HIDE DEF rank, n
  <2> QED BY <1>1, <1>5, <2>1, FS_Injection, Zenon DEF n
<1>7. \A k \in 1..n : \E i \in I : Cardinality(upTo(i)) = k
  BY <1>6, Zenon DEF Surjection
<1>8. \A k \in 1..n : at(k) \in I /\ Cardinality(upTo(at(k))) = k
  BY <1>7, Zenon
<1>9. \A i \in I : at(Cardinality(upTo(i))) = i /\ Cardinality(upTo(i)) \in 1..n
  BY <1>2, <1>4, <1>8, Zenon
<1>10. Keep(q, S) = [k \in 1..n |-> q[at(k)]]
  BY Zenon DEF Keep
<1> HIDE DEF I, n, upTo, at
<1>11. \A k \in 1..n : at(k) \in 1..Len(q) /\ q[at(k)] \in S
  BY <1>8, Zenon DEF I
<1>12. Keep(q, S) \in Seq(T) /\ Len(Keep(q, S)) = n
  BY SMTT(30), <1>1, <1>10, <1>11
<1>13. Elems(Keep(q, S)) \subseteq Elems(q) \cap S
  BY <1>10, <1>11, <1>12, Zenon DEF Elems
<1>14. Elems(q) \cap S \subseteq Elems(Keep(q, S))
  <2> SUFFICES ASSUME NEW x \in Elems(q), x \in S
               PROVE  x \in Elems(Keep(q, S))
    BY Zenon
  <2>1. PICK i \in 1..Len(q) : x = q[i]
    BY Zenon DEF Elems
  <2>2. i \in I
    BY <2>1, Zenon DEF I
  <2>3. PICK k \in 1..n : at(k) = i
    BY <2>2, <1>9, Zenon
  <2> QED BY <2>1, <2>3, <1>10, <1>12, Zenon DEF Elems
<1>15. Injective(Keep(q, S))
  <2> SUFFICES ASSUME NEW k \in 1..n, NEW l \in 1..n, q[at(k)] = q[at(l)]
               PROVE  k = l
    BY ZenonT(30), <1>10, <1>12 DEF Injective
  <2>1. at(k) = at(l)
    BY <1>11, Zenon DEF Injective
  <2> QED BY <2>1, <1>8, Zenon
<1>16. ASSUME NEW x \in S, NEW y \in S, Before(q, x, y)
       PROVE  Before(Keep(q, S), x, y)
  <2>1. PICK i \in 1..Len(q), j \in 1..Len(q) : i < j /\ q[i] = x /\ q[j] = y
    BY <1>16, Zenon DEF Before
  <2>2. i \in I /\ j \in I
    BY <2>1, Zenon DEF I
  <2> DEFINE k == Cardinality(upTo(i))
             l == Cardinality(upTo(j))
  <2>3. k \in 1..n /\ l \in 1..n /\ at(k) = i /\ at(l) = j
    BY <1>9, <2>2, Zenon
  <2>4. k <= l
    <3>1. upTo(i) \in SUBSET upTo(j)
      BY SMTT(30), <2>1, <2>2 DEF upTo, I
    <3> QED BY <1>2, <2>2, <3>1, FS_Subset, Zenon
  <2>5. k # l
    BY <1>3, <2>1, <2>2, Zenon
  <2> HIDE DEF k, l
  <2>6. k < l
    BY SMTT(30), <1>1, <2>3, <2>4, <2>5
  <2>7. Keep(q, S)[k] = x /\ Keep(q, S)[l] = y
    BY <1>10, <2>1, <2>3, Zenon
  <2> QED BY <1>12, <2>3, <2>6, <2>7, Zenon DEF Before
<1> QED BY <1>12, <1>13, <1>14, <1>15, <1>16, Zenon DEF n, I

-----------------------------------------------------------------------------
\* A pool that every method may be called on: the free queue has the blocks
\* without reference, each once; the map and the blocks agree on the hashes;
\* the events announce nothing that is not cached; nothing has failed.
QueueOK(p) ==
  /\ p.ref_cnt \in [Block -> Nat]
  /\ Injective(p.free_block_queue)
  /\ \A b \in Block : b \in Elems(p.free_block_queue) <=> p.ref_cnt[b] = 0

MapOK(p) ==
  /\ \A e \in p.cached_block_hash_to_block : e[1] # NoHash /\ p.block_hash[e[2]] = e[1]
  /\ \A b \in Block : p.block_hash[b] # NoHash =>
       <<p.block_hash[b], b>> \in p.cached_block_hash_to_block
  /\ \A h \in p.stored : \E b \in Block : <<h, b>> \in p.cached_block_hash_to_block

PoolOK(p) == p \in Pool /\ QueueOK(p) /\ MapOK(p) /\ p.failed = {}

(* _maybe_evict_cached_block, get_new_blocks' and evict_blocks' way out of  *)
(* the cache, takes the hash from the blocks it is given and from no other, *)
(* and keeps the map, the hashes and the events together.                   *)
LEMMA EvictOK ==
  ASSUME NEW p, PoolOK(p), NEW S \in SUBSET Block
  PROVE  LET q == _maybe_evict_cached_block(p, S)
         IN /\ PoolOK(q)
            /\ q.free_block_queue = p.free_block_queue
            /\ q.ref_cnt = p.ref_cnt
            /\ q.block_hash = [b \in Block |-> IF b \in S THEN NoHash ELSE p.block_hash[b]]
<1> DEFINE q      == _maybe_evict_cached_block(p, S)
           hashed == {b \in S : p.block_hash[b] # NoHash}
           popped == {e \in p.cached_block_hash_to_block :
                        e[2] \in hashed /\ e[1] = p.block_hash[e[2]]}
<1>1. p \in Pool
  BY Zenon DEF PoolOK
<1>2. /\ q.free_block_queue = p.free_block_queue
      /\ q.ref_cnt = p.ref_cnt
      /\ q.failed = p.failed
      /\ q.block_hash = [b \in Block |-> IF b \in S THEN NoHash ELSE p.block_hash[b]]
      /\ q.cached_block_hash_to_block = p.cached_block_hash_to_block \ popped
      /\ q.stored = p.stored \ {e[1] : e \in popped}
  BY <1>1, Zenon DEF _maybe_evict_cached_block, Pool
<1>3. q \in Pool
  <2>1. NoHash \in Hash
    BY EmptySeq, Zenon DEF Hash, NoHash
  <2>2. q.block_hash \in [Block -> Hash]
    BY SMTT(30), <1>1, <1>2, <2>1 DEF Pool
  <2>3. /\ q.cached_block_hash_to_block \in SUBSET (Hash \X Block)
        /\ q.stored \in SUBSET Hash
    BY <1>1, <1>2, Zenon DEF Pool
  <2>4. q = [p EXCEPT !.block_hash = q.block_hash,
                      !.cached_block_hash_to_block = q.cached_block_hash_to_block,
                      !.stored = q.stored]
    BY <1>1, Zenon DEF _maybe_evict_cached_block, Pool
  <2> HIDE DEF q
  <2> QED BY <1>1, <2>2, <2>3, <2>4, Zenon DEF Pool
<1> HIDE DEF q
<1>4. QueueOK(q)
  BY <1>2, Zenon DEF QueueOK, PoolOK
<1>5. ASSUME NEW e \in q.cached_block_hash_to_block
      PROVE  e[1] # NoHash /\ q.block_hash[e[2]] = e[1]
  <2>1. e \in p.cached_block_hash_to_block /\ e \notin popped /\ e[2] \in Block
    BY <1>1, <1>2, Zenon DEF Pool
  <2>2. e[1] # NoHash /\ p.block_hash[e[2]] = e[1]
    BY <2>1, Zenon DEF PoolOK, MapOK
  <2>3. e[2] \notin S
    BY <2>1, <2>2, Zenon
  <2> QED BY <1>2, <2>1, <2>2, <2>3, Zenon
<1>6. ASSUME NEW b \in Block, q.block_hash[b] # NoHash
      PROVE  <<q.block_hash[b], b>> \in q.cached_block_hash_to_block
  <2>1. b \notin S /\ q.block_hash[b] = p.block_hash[b]
    BY <1>2, <1>6, Zenon
  <2>2. <<p.block_hash[b], b>> \in p.cached_block_hash_to_block
    BY <1>6, <2>1, Zenon DEF PoolOK, MapOK
  <2> QED BY <1>2, <2>1, <2>2, Zenon
<1>7. ASSUME NEW h \in q.stored
      PROVE  \E b \in Block : <<h, b>> \in q.cached_block_hash_to_block
  <2>1. h \in p.stored /\ \A e \in popped : e[1] # h
    BY <1>2
  <2>2. PICK b \in Block : <<h, b>> \in p.cached_block_hash_to_block
    BY <2>1, Zenon DEF PoolOK, MapOK
  <2>3. <<h, b>> \notin popped
    BY <2>1, ZenonT(30)
  <2> QED BY <1>2, <2>2, <2>3, Zenon
<1>8. MapOK(q)
  BY <1>5, <1>6, <1>7, Zenon DEF MapOK
<1> QED BY <1>2, <1>3, <1>4, <1>8, Zenon DEF PoolOK, q

(* get_new_blocks, when that many blocks are free, returns distinct blocks  *)
(* nobody refers to, without a hash, and refers to each of them once.       *)
LEMMA GetNewOK ==
  ASSUME NEW p, PoolOK(p), NEW n \in Nat, n <= get_num_free_blocks(p)
  PROVE  LET q   == get_new_blocks(p, n)
             new == NewBlocks(p, n)
         IN /\ PoolOK(q)
            /\ new \in Seq(Block) /\ Len(new) = n /\ Injective(new)
            /\ \A b \in Elems(new) : p.ref_cnt[b] = 0
            /\ q.ref_cnt = [b \in Block |-> IF b \in Elems(new) THEN p.ref_cnt[b] + 1
                                            ELSE p.ref_cnt[b]]
            /\ q.block_hash = [b \in Block |-> IF b \in Elems(new) THEN NoHash
                                               ELSE p.block_hash[b]]
<1> DEFINE q     == get_new_blocks(p, n)
           new   == NewBlocks(p, n)
           queue == p.free_block_queue
           left  == SubSeq(queue, n + 1, Len(queue))
           e     == _maybe_evict_cached_block(p, Elems(new))
<1>1. /\ p \in Pool /\ p.failed = {} /\ queue \in Seq(Block) /\ Injective(queue)
      /\ n <= Len(queue) /\ Len(queue) \in Nat
      /\ \A b \in Block : b \in Elems(queue) <=> p.ref_cnt[b] = 0
      /\ p.ref_cnt \in [Block -> Nat]
  BY SMTT(30) DEF PoolOK, QueueOK, Pool, get_num_free_blocks
<1>2. /\ new \in Seq(Block) /\ Len(new) = n
      /\ \A i \in 1..n : new[i] = queue[i]
  BY SMTT(30), <1>1 DEF NewBlocks
<1>3. /\ left \in Seq(Block) /\ Len(left) = Len(queue) - n
      /\ \A i \in 1..Len(left) : left[i] = queue[n + i]
  BY SMTT(30), <1>1
<1> HIDE DEF left, new, queue
<1>4. Injective(new) /\ Injective(left)
  <2>1. Injective(new)
    BY <1>1, <1>2, SMTT(30) DEF Injective
  <2>2. ASSUME NEW i \in 1..Len(left), NEW j \in 1..Len(left), left[i] = left[j]
        PROVE  i = j
    <3>1. n + i \in 1..Len(queue) /\ n + j \in 1..Len(queue)
      <4> DEFINE l == Len(left)
                 m == Len(queue)
      <4>1. m \in Nat /\ n \in Nat /\ l = m - n
        BY <1>1, <1>3, Zenon
      <4>2. i \in 1..l /\ j \in 1..l
        BY Zenon
      <4> HIDE DEF l, m
      <4>3. n + i \in 1..m /\ n + j \in 1..m
        BY ONLY SMTT(30), <4>1, <4>2
      <4> QED BY <4>3, Zenon DEF m
    <3>2. queue[n + i] = queue[n + j]
      BY <1>3, <2>2, Zenon
    <3>3. n + i = n + j
      BY <1>1, <3>1, <3>2, Zenon DEF Injective
    <3> QED BY <3>3
  <2> QED BY <2>1, <2>2, Zenon DEF Injective
<1>5. Elems(new) \subseteq Elems(queue) /\ Elems(new) \subseteq Block
  <2> SUFFICES ASSUME NEW i \in 1..n PROVE new[i] \in Elems(queue) /\ new[i] \in Block
    BY <1>2, Zenon DEF Elems
  <2>1. i \in 1..Len(queue) /\ new[i] = queue[i]
    BY <1>1, <1>2
  <2> QED BY <1>1, <2>1 DEF Elems
<1>6. \A b \in Elems(new) : p.ref_cnt[b] = 0
  BY <1>1, <1>5, Zenon
<1>7. Elems(left) = Elems(queue) \ Elems(new)
  <2>1. ASSUME NEW i \in 1..Len(left) PROVE left[i] \in Elems(queue) \ Elems(new)
    <3>1. n + i \in 1..Len(queue) /\ left[i] = queue[n + i]
      BY <1>1, <1>3
    <3>2. \A j \in 1..n : queue[j] # queue[n + i]
      BY <1>1, <3>1 DEF Injective
    <3> QED BY <1>2, <3>1, <3>2, Zenon DEF Elems
  <2>2. ASSUME NEW i \in 1..Len(queue), queue[i] \notin Elems(new)
        PROVE  queue[i] \in Elems(left)
    <3>1. ~(i \in 1..n)
      BY <1>2, <2>2, Zenon DEF Elems
    <3>2. i - n \in 1..Len(left) /\ left[i - n] = queue[i]
      BY SMTT(30), <1>1, <1>3, <3>1
    <3> QED BY <3>2, Zenon DEF Elems
  <2> QED BY <2>1, <2>2, Zenon DEF Elems
<1>8. /\ PoolOK(e)
      /\ e.free_block_queue = queue
      /\ e.ref_cnt = p.ref_cnt
      /\ e.block_hash = [b \in Block |-> IF b \in Elems(new) THEN NoHash
                                         ELSE p.block_hash[b]]
  BY SMTT(30), <1>5, EvictOK DEF queue
<1>9. Check(p, \A b \in Elems(new) : p.ref_cnt[b] = 0, "get_new_blocks") = {}
  BY <1>1, <1>6, Zenon DEF Check
<1>10. q = [e EXCEPT
              !.free_block_queue = left,
              !.ref_cnt = [b \in Block |-> IF b \in Elems(new) THEN p.ref_cnt[b] + 1
                                           ELSE p.ref_cnt[b]],
              !.failed = {}]
  <2>1. ~(n > get_num_free_blocks(p))
    BY <1>1 DEF get_num_free_blocks
  <2>2. e \in Pool
    BY <1>8, Zenon DEF PoolOK
  <2> HIDE DEF e
  <2> QED BY <1>8, <1>9, <2>1, <2>2, ZenonT(30) DEF get_new_blocks, Pool, new, left, queue, e
<1> HIDE DEF e, q
<1>11. /\ q.free_block_queue = left
       /\ q.ref_cnt = [b \in Block |-> IF b \in Elems(new) THEN p.ref_cnt[b] + 1
                                       ELSE p.ref_cnt[b]]
       /\ q.block_hash = e.block_hash
       /\ q.cached_block_hash_to_block = e.cached_block_hash_to_block
       /\ q.stored = e.stored
       /\ q.failed = {}
  BY <1>8, <1>10, Zenon DEF PoolOK, Pool
<1>12. q.ref_cnt \in [Block -> Nat]
  BY SMTT(30), <1>1, <1>11
<1>13. q \in Pool
  <2>1. q.ref_cnt \in [Block -> Int]
    BY SMTT(30), <1>12
  <2> QED BY <1>3, <1>8, <1>10, <1>11, <2>1, ZenonT(30) DEF PoolOK, Pool
<1>14. QueueOK(q)
  <2>1. \A b \in Block : b \in Elems(left) <=> q.ref_cnt[b] = 0
    BY SMTT(30), <1>1, <1>6, <1>7, <1>11
  <2> QED BY <1>4, <1>11, <1>12, <2>1, Zenon DEF QueueOK
<1>15. MapOK(q)
  BY <1>8, <1>11, ZenonT(30) DEF PoolOK, MapOK
<1> QED BY <1>2, <1>4, <1>6, <1>8, <1>11, <1>13, <1>14, <1>15, Zenon DEF PoolOK, q, new

(* Keep drops exactly as many elements as there are others in the list.     *)
LEMMA KeepLen ==
  ASSUME NEW T, NEW q \in Seq(T), Injective(q), NEW D, D \subseteq Elems(q)
  PROVE  /\ Len(Keep(q, T \ D)) = Len(q) - Cardinality(D)
         /\ Cardinality(D) \in Nat
<1> DEFINE I == {i \in 1..Len(q) : q[i] \in T \ D}
           J == {i \in 1..Len(q) : q[i] \in D}
           f == [i \in J |-> q[i]]
<1>1. IsFiniteSet(1..Len(q)) /\ Cardinality(1..Len(q)) = Len(q)
  BY SMTT(30), FS_Interval, Len(q) \in Nat
<1>2. IsFiniteSet(J)
  BY <1>1, FS_Subset, J \in SUBSET (1..Len(q)), Zenon
<1>3. f \in Bijection(J, D)
  <2>1. f \in [J -> D] /\ IsInjective(f)
    BY Zenon DEF IsInjective, Injective
  <2>2. \A d \in D : \E i \in J : f[i] = d
    BY Zenon DEF Elems
  <2> QED BY <2>1, <2>2, Zenon DEF Bijection, Injection, Surjection
<1>4. ExistsBijection(J, D)
  BY <1>3, Zenon DEF ExistsBijection
<1>5. IsFiniteSet(D) /\ Cardinality(D) = Cardinality(J)
  BY <1>2, <1>4, FS_Bijection, Zenon
<1>6. I = (1..Len(q)) \ J /\ (1..Len(q)) \cap J = J
  BY LenProperties, Zenon
<1>7. Cardinality(I) = Len(q) - Cardinality(J)
  <2> HIDE DEF I, J
  <2>1. Cardinality((1..Len(q)) \ J) = Cardinality(1..Len(q)) - Cardinality((1..Len(q)) \cap J)
    BY <1>1, FS_Difference, Zenon
  <2> QED BY <1>1, <1>6, <2>1, Zenon
<1>8. Len(Keep(q, T \ D)) = Cardinality(I)
  BY SMTT(30), KeepElems
<1> QED BY <1>5, <1>7, <1>8, FS_CardinalityType, Zenon

(* touch adds one reference to each block, takes the ones without reference *)
(* out of the free queue and leaves the prefix cache alone.                 *)
LEMMA TouchOK ==
  ASSUME NEW p, PoolOK(p), NEW blocks \in Seq(Block)
  PROVE  LET q    == touch(p, blocks)
             idle == {b \in Elems(blocks) : p.ref_cnt[b] = 0}
         IN /\ PoolOK(q)
            /\ q.ref_cnt = [b \in Block |-> IF b \in Elems(blocks) THEN p.ref_cnt[b] + 1
                                            ELSE p.ref_cnt[b]]
            /\ q.block_hash = p.block_hash
            /\ get_num_free_blocks(q) = get_num_free_blocks(p) - Cardinality(idle)
            /\ Cardinality(idle) \in Nat
<1> DEFINE q     == touch(p, blocks)
           queue == p.free_block_queue
           S     == Elems(blocks)
           idle  == {b \in S : p.ref_cnt[b] = 0}
           rest  == Keep(queue, Block \ idle)
<1>1. /\ p \in Pool /\ p.failed = {} /\ queue \in Seq(Block) /\ Injective(queue)
      /\ \A b \in Block : b \in Elems(queue) <=> p.ref_cnt[b] = 0
      /\ p.ref_cnt \in [Block -> Nat]
  BY Zenon DEF PoolOK, QueueOK, Pool
<1>2. S \subseteq Block
  BY ElementOfSeq, Zenon DEF Elems
<1>3. idle \subseteq Elems(queue)
  BY <1>1, <1>2, Zenon
<1>4. Elems(queue) \subseteq Block
  BY SMTT(30), <1>1, ElementOfSeq DEF Elems
<1> HIDE DEF queue, idle, S
<1>5. /\ rest \in Seq(Block) /\ Injective(rest)
      /\ Elems(rest) = Elems(queue) \cap (Block \ idle)
  BY <1>1, KeepElems, Zenon
<1>6. Len(rest) = Len(queue) - Cardinality(idle) /\ Cardinality(idle) \in Nat
  BY <1>1, <1>3, KeepLen, Zenon
<1>7. q = [p EXCEPT !.free_block_queue = rest,
                    !.ref_cnt = [b \in Block |-> IF b \in S THEN p.ref_cnt[b] + 1
                                                 ELSE p.ref_cnt[b]],
                    !.failed = {}]
  <2>1. Check(p, idle \subseteq Elems(queue), "touch") = {}
    BY <1>1, <1>3, Zenon DEF Check
  <2> QED BY <1>1, <2>1, Zenon DEF touch, Pool, queue, idle, S
<1> HIDE DEF rest, q
<1>8. /\ q.free_block_queue = rest
      /\ q.ref_cnt = [b \in Block |-> IF b \in S THEN p.ref_cnt[b] + 1 ELSE p.ref_cnt[b]]
      /\ q.block_hash = p.block_hash
      /\ q.cached_block_hash_to_block = p.cached_block_hash_to_block
      /\ q.stored = p.stored
      /\ q.failed = {}
  BY <1>1, <1>7, Zenon DEF Pool
<1>9. q.ref_cnt \in [Block -> Nat]
  BY SMTT(30), <1>1, <1>8
<1>10. q \in Pool
  <2>1. q.ref_cnt \in [Block -> Int]
    BY SMTT(30), <1>9
  <2> QED BY <1>1, <1>5, <1>7, <1>8, <2>1, Zenon DEF Pool
<1>11. QueueOK(q)
  <2>1. \A b \in Block : b \in Elems(rest) <=> q.ref_cnt[b] = 0
    BY SMTT(30), <1>1, <1>5, <1>8 DEF idle
  <2> QED BY <1>5, <1>8, <1>9, <2>1, Zenon DEF QueueOK
<1>12. MapOK(q)
  BY <1>8, Zenon DEF PoolOK, MapOK
<1> QED BY <1>6, <1>8, <1>10, <1>11, <1>12, Zenon
        DEF PoolOK, get_num_free_blocks, q, queue, idle, S

(* What a concatenation has, and that it has it once.                       *)
LEMMA ConcatElems ==
  ASSUME NEW T, NEW x \in Seq(T), NEW y \in Seq(T)
  PROVE  /\ x \o y \in Seq(T)
         /\ Elems(x \o y) = Elems(x) \cup Elems(y)
         /\ Injective(x) /\ Injective(y) /\ Elems(x) \cap Elems(y) = {}
              => Injective(x \o y)
<1> DEFINE z == x \o y
<1>1. /\ z \in Seq(T) /\ Len(z) = Len(x) + Len(y)
      /\ \A i \in 1..Len(x) + Len(y) : z[i] = IF i <= Len(x) THEN x[i] ELSE y[i - Len(x)]
      /\ Len(x) \in Nat /\ Len(y) \in Nat
  BY SMTT(30), ConcatProperties
<1> HIDE DEF z
<1>2. ASSUME NEW i \in 1..Len(x) + Len(y) PROVE z[i] \in Elems(x) \cup Elems(y)
  <2>1. CASE i <= Len(x)
    BY SMTT(30), <1>1, <2>1 DEF Elems
  <2>2. CASE i > Len(x)
    BY SMTT(30), <1>1, <2>2, i - Len(x) \in 1..Len(y) DEF Elems
  <2> QED BY SMTT(30), <1>1, <2>1, <2>2
<1>3. ASSUME NEW i \in 1..Len(x) PROVE x[i] \in Elems(z)
  <2>1. i \in 1..Len(z) /\ z[i] = x[i]
    BY SMTT(30), <1>1
  <2> QED BY <2>1, Zenon DEF Elems
<1>4. ASSUME NEW i \in 1..Len(y) PROVE y[i] \in Elems(z)
  <2>1. /\ Len(x) + i \in 1..Len(x) + Len(y)
        /\ ~(Len(x) + i <= Len(x)) /\ (Len(x) + i) - Len(x) = i
    BY <1>1
  <2>2. Len(x) + i \in 1..Len(z) /\ z[Len(x) + i] = y[(Len(x) + i) - Len(x)]
    BY <1>1, <2>1, Zenon
  <2> QED BY <2>1, <2>2, Zenon DEF Elems
<1>5. Elems(z) = Elems(x) \cup Elems(y)
  BY ZenonT(30), <1>1, <1>2, <1>3, <1>4 DEF Elems
<1>6. ASSUME Injective(x), Injective(y), Elems(x) \cap Elems(y) = {},
             NEW i \in 1..Len(z), NEW j \in 1..Len(z), z[i] = z[j]
      PROVE  i = j
  <2>1. \A k \in 1..Len(x), l \in 1..Len(y) : x[k] # y[l]
    BY <1>6, Zenon DEF Elems
  <2>2. CASE i <= Len(x) /\ j <= Len(x)
    BY SMTT(30), <1>1, <1>6, <2>2 DEF Injective
  <2>3. CASE i > Len(x) /\ j > Len(x)
    <3>1. i - Len(x) \in 1..Len(y) /\ j - Len(x) \in 1..Len(y)
      BY SMTT(30), <1>1, <2>3
    <3>2. y[i - Len(x)] = y[j - Len(x)]
      BY SMTT(30), <1>1, <1>6, <2>3
    <3>3. i - Len(x) = j - Len(x)
      BY <1>6, <3>1, <3>2, Zenon DEF Injective
    <3> QED BY <1>1, <3>3
  <2>4. CASE i <= Len(x) /\ j > Len(x)
    <3>1. i \in 1..Len(x) /\ j - Len(x) \in 1..Len(y)
      BY <1>1, <2>4
    <3>2. x[i] = y[j - Len(x)]
      BY SMTT(30), <1>1, <1>6, <2>4
    <3> QED BY <2>1, <3>1, <3>2, Zenon
  <2>5. CASE i > Len(x) /\ j <= Len(x)
    <3>1. j \in 1..Len(x) /\ i - Len(x) \in 1..Len(y)
      BY <1>1, <2>5
    <3>2. x[j] = y[i - Len(x)]
      BY SMTT(30), <1>1, <1>6, <2>5
    <3> QED BY <2>1, <3>1, <3>2, Zenon
  <2> QED BY SMTT(30), <1>1, <2>2, <2>3, <2>4, <2>5
<1>7. Injective(x) /\ Injective(y) /\ Elems(x) \cap Elems(y) = {} => Injective(z)
  BY <1>6, Zenon DEF Injective
<1> QED BY <1>1, <1>5, <1>7, Zenon DEF z

(* What comes before what in a concatenation.                               *)
LEMMA ConcatBefore ==
  ASSUME NEW T, NEW x \in Seq(T), NEW y \in Seq(T), NEW a, NEW b,
         Before(x, a, b) \/ Before(y, a, b) \/ (a \in Elems(x) /\ b \in Elems(y))
  PROVE  Before(x \o y, a, b)
<1> DEFINE z == x \o y
<1>1. /\ Len(z) = Len(x) + Len(y) /\ Len(x) \in Nat /\ Len(y) \in Nat
      /\ \A i \in 1..Len(x) + Len(y) : z[i] = IF i <= Len(x) THEN x[i] ELSE y[i - Len(x)]
  BY SMTT(30), ConcatProperties, LenProperties
<1> HIDE DEF z
<1>2. /\ \A i \in 1..Len(x) : i \in 1..Len(z) /\ i <= Len(x) /\ z[i] = x[i]
      /\ \A i \in 1..Len(y) : /\ Len(x) + i \in 1..Len(z) /\ Len(x) + i > Len(x)
                             /\ z[Len(x) + i] = y[i]
  <2>1. ASSUME NEW i \in 1..Len(x) PROVE i \in 1..Len(z) /\ i <= Len(x) /\ z[i] = x[i]
    BY <1>1
  <2>2. ASSUME NEW i \in 1..Len(y)
        PROVE  Len(x) + i \in 1..Len(z) /\ Len(x) + i > Len(x) /\ z[Len(x) + i] = y[i]
    <3>1. /\ Len(x) + i \in 1..Len(x) + Len(y) /\ Len(x) + i > Len(x)
          /\ ~(Len(x) + i <= Len(x)) /\ (Len(x) + i) - Len(x) = i
      BY <1>1
    <3> QED BY <1>1, <3>1, Zenon
  <2> QED BY <2>1, <2>2, Zenon
<1>3. CASE Before(x, a, b)
  <2>1. PICK i \in 1..Len(x), j \in 1..Len(x) : i < j /\ x[i] = a /\ x[j] = b
    BY <1>3, Zenon DEF Before
  <2> QED BY <1>2, <2>1, Zenon DEF Before, z
<1>4. CASE Before(y, a, b)
  <2>1. PICK i \in 1..Len(y), j \in 1..Len(y) : i < j /\ y[i] = a /\ y[j] = b
    BY <1>4, Zenon DEF Before
  <2>2. Len(x) + i < Len(x) + j
    BY SMTT(30), <1>1, <2>1
  <2> QED BY <1>2, <2>1, <2>2, Zenon DEF Before, z
<1>5. CASE a \in Elems(x) /\ b \in Elems(y)
  <2>1. PICK i \in 1..Len(x), j \in 1..Len(y) : x[i] = a /\ y[j] = b
    BY <1>5, Zenon DEF Elems
  <2>2. i < Len(x) + j
    BY SMTT(30), <1>1, <2>1
  <2> QED BY <1>2, <2>1, <2>2, Zenon DEF Before, z
<1> QED BY <1>3, <1>4, <1>5, Zenon

(* free_blocks, given each block once and none without reference, takes one *)
(* reference from each and puts back exactly the blocks that have none left. *)
LEMMA FreeOK ==
  ASSUME NEW p, PoolOK(p), NEW s \in Seq(Block), Injective(s),
         \A b \in Elems(s) : p.ref_cnt[b] > 0
  PROVE  LET q == free_blocks(p, s)
         IN /\ PoolOK(q)
            /\ q.ref_cnt = [b \in Block |-> IF b \in Elems(s) THEN p.ref_cnt[b] - 1
                                            ELSE p.ref_cnt[b]]
            /\ q.block_hash = p.block_hash
<1> DEFINE q        == free_blocks(p, s)
           queue    == p.free_block_queue
           S        == Elems(s)
           released == {b \in S : p.ref_cnt[b] = 1}
           hashed   == {b \in released : p.block_hash[b] # NoHash}
           front    == Keep(s, released \ hashed)
           back     == Keep(s, hashed)
           all      == front \o queue \o back
<1>1. /\ p \in Pool /\ p.failed = {} /\ queue \in Seq(Block) /\ Injective(queue)
      /\ \A b \in Block : b \in Elems(queue) <=> p.ref_cnt[b] = 0
      /\ p.ref_cnt \in [Block -> Nat]
  BY Zenon DEF PoolOK, QueueOK, Pool
<1>2. S \subseteq Block
  BY ElementOfSeq, Zenon DEF Elems
<1>3. q = [p EXCEPT !.free_block_queue = all,
                    !.ref_cnt = [b \in Block |-> IF b \in S THEN p.ref_cnt[b] - 1
                                                 ELSE p.ref_cnt[b]]]
  BY <1>1, Zenon DEF free_blocks, Pool
<1>4. hashed \subseteq released /\ released \subseteq S
  BY Zenon
<1>5. \A b \in Block : b \in released <=> b \in S /\ p.ref_cnt[b] = 1
  BY <1>2, Zenon
<1> HIDE DEF queue, released, hashed, q
<1>6. /\ front \in Seq(Block) /\ Injective(front) /\ Elems(front) = released \ hashed
      /\ back \in Seq(Block) /\ Injective(back) /\ Elems(back) = hashed
  <2>1. /\ front \in Seq(Block) /\ Injective(front)
        /\ Elems(front) = Elems(s) \cap (released \ hashed)
    BY KeepElems, Zenon
  <2>2. back \in Seq(Block) /\ Injective(back) /\ Elems(back) = Elems(s) \cap hashed
    BY KeepElems, Zenon
  <2> HIDE DEF front, back
  <2> QED BY <1>4, <2>1, <2>2, Zenon
<1> HIDE DEF S, front, back
<1>7. /\ all \in Seq(Block)
      /\ Elems(all) = Elems(queue) \cup released
      /\ Injective(all)
  <2>3. Elems(queue) \cap released = {}
    BY SMTT(30), <1>1, <1>2, <1>4, <1>5
  <2>4. Elems(front) \cap Elems(queue) = {}
    BY <1>6, <2>3, Zenon
  <2>5. /\ front \o queue \in Seq(Block)
        /\ Elems(front \o queue) = Elems(front) \cup Elems(queue)
        /\ Injective(front \o queue)
    BY SMTT(30), <1>1, <1>6, <2>4, ConcatElems
  <2>6. Elems(front \o queue) \cap Elems(back) = {}
    BY <1>4, <1>6, <2>3, <2>5, ZenonT(30)
  <2>7. /\ all \in Seq(Block)
        /\ Elems(all) = Elems(front \o queue) \cup Elems(back)
        /\ Injective(all)
    <3> DEFINE ahead == front \o queue
    <3>1. /\ ahead \in Seq(Block) /\ Injective(ahead) /\ Elems(ahead) \cap Elems(back) = {}
          /\ back \in Seq(Block) /\ Injective(back)
      BY <1>6, <2>5, <2>6, Zenon
    <3>2. all = ahead \o back
      BY Zenon
    <3> HIDE DEF ahead, all
    <3>3. /\ all \in Seq(Block) /\ Elems(all) = Elems(ahead) \cup Elems(back)
          /\ Injective(all)
      BY SMTT(30), <3>1, <3>2, ConcatElems
    <3> QED BY <3>3, Zenon DEF ahead
  <2> QED BY <1>4, <1>6, <2>5, <2>7, Zenon
<1> HIDE DEF all
<1>8. /\ q.free_block_queue = all
      /\ q.ref_cnt = [b \in Block |-> IF b \in S THEN p.ref_cnt[b] - 1 ELSE p.ref_cnt[b]]
      /\ q.block_hash = p.block_hash
      /\ q.cached_block_hash_to_block = p.cached_block_hash_to_block
      /\ q.stored = p.stored
      /\ q.failed = {}
  BY <1>1, <1>3, Zenon DEF Pool
<1>9. \A b \in S : p.ref_cnt[b] > 0
  BY ZenonT(30) DEF S
<1>10. q.ref_cnt \in [Block -> Nat]
  BY <1>1, <1>8, <1>9, SMTT(30)
<1>11. q \in Pool
  <2>1. q.ref_cnt \in [Block -> Int]
    BY SMTT(30), <1>10
  <2> QED BY <1>1, <1>3, <1>7, <1>8, <2>1, Zenon DEF Pool
<1>12. QueueOK(q)
  <2>1. \A b \in Block : b \in Elems(all) <=> q.ref_cnt[b] = 0
    BY SMTT(30), <1>1, <1>5, <1>7, <1>8, <1>9
  <2> QED BY <1>7, <1>8, <1>10, <2>1, ZenonT(30) DEF QueueOK
<1>13. MapOK(q)
  BY <1>8, Zenon DEF PoolOK, MapOK
<1> QED BY <1>8, <1>11, <1>12, <1>13, Zenon DEF PoolOK, q, S

\* The blocks numbered by I have no hash yet, and their hashes are hashes.
Unhashed(p, blocks, hashes, I) ==
  \A i \in I : hashes[i] # NoHash /\ p.block_hash[blocks[i]] = NoHash

\* The blocks numbered by I get their hashes, and no other block another hash.
Hashed(p, blocks, hashes, I, q) ==
  /\ PoolOK(q)
  /\ q.free_block_queue = p.free_block_queue
  /\ q.ref_cnt = p.ref_cnt
  /\ \A i \in I : q.block_hash[blocks[i]] = hashes[i]
  /\ \A b \in Block : (\A i \in I : blocks[i] # b) => q.block_hash[b] = p.block_hash[b]

(* cache_full_blocks, on full blocks without a hash, gives each the hash of *)
(* its number and no other block another hash.                              *)
LEMMA CacheOK ==
  ASSUME NEW p, PoolOK(p), NEW blocks \in Seq(Block), Injective(blocks),
         NEW hashes \in Seq(Hash), NEW from \in Nat, NEW to \in Nat,
         to <= Len(blocks), to <= Len(hashes),
         Unhashed(p, blocks, hashes, from + 1..to)
  PROVE  Hashed(p, blocks, hashes, from + 1..to,
                cache_full_blocks(p, blocks, hashes, from, to))
<1> DEFINE q     == cache_full_blocks(p, blocks, hashes, from, to)
           full  == from + 1..to
           fresh == {blocks[i] : i \in full}
           added == {<<hashes[i], blocks[i]>> : i \in full}
           c     == _maybe_evict_cached_block(p, fresh)
           hash  == [b \in Block |->
                       IF b \in fresh THEN hashes[CHOOSE i \in full : blocks[i] = b]
                       ELSE c.block_hash[b]]
<1>0. \A i \in full : hashes[i] # NoHash /\ p.block_hash[blocks[i]] = NoHash
  BY Zenon DEF Unhashed
<1>1. CASE from >= to
  <2>1. q = p
    BY <1>1, Zenon DEF cache_full_blocks
  <2>2. full = {}
    BY <1>1
  <2> QED BY <2>1, <2>2, Zenon DEF Hashed
<1>2. CASE from < to
  <2>1. \A i \in full : i \in 1..Len(blocks) /\ i \in 1..Len(hashes)
    BY SMTT(30)
  <2>2. \A i \in full : blocks[i] \in Block /\ hashes[i] \in Hash
    BY <2>1, ElementOfSeq, Zenon
  <2>3. fresh \in SUBSET Block
    BY <2>2, ZenonT(30)
  <2>4. \A i, j \in full : blocks[i] = blocks[j] => i = j
    BY <2>1, Zenon DEF Injective
  <2>5. \A b \in fresh : p.block_hash[b] = NoHash
    BY SMTT(30), <1>0
  <2>6. /\ PoolOK(c) /\ c \in Pool
        /\ c.free_block_queue = p.free_block_queue
        /\ c.ref_cnt = p.ref_cnt
        /\ c.block_hash = [b \in Block |-> IF b \in fresh THEN NoHash ELSE p.block_hash[b]]
    <3> HIDE DEF fresh
    <3> QED BY SMTT(30), <2>3, EvictOK DEF PoolOK
  <2>7. Check(p, \A b \in fresh : p.block_hash[b] = NoHash, "cache_full_blocks") = {}
    BY <2>5, Zenon DEF Check, PoolOK
  <2>8. q = [c EXCEPT !.block_hash = hash,
                      !.cached_block_hash_to_block = @ \cup added,
                      !.stored = @ \cup {e[1] : e \in added},
                      !.failed = {}]
    <3>1. ~(from >= to)
      BY SMTT(30), <1>2
    <3> HIDE DEF c
    <3> QED BY <2>6, <2>7, <3>1, Zenon DEF cache_full_blocks, Pool, c
  <2> HIDE DEF c, q, added, hash
  <2>9. /\ q.free_block_queue = p.free_block_queue
        /\ q.ref_cnt = p.ref_cnt
        /\ q.block_hash = hash
        /\ q.cached_block_hash_to_block = c.cached_block_hash_to_block \cup added
        /\ q.stored = c.stored \cup {e[1] : e \in added}
        /\ q.failed = {}
    BY <2>6, <2>8, Zenon DEF Pool
  <2>10. hash \in [Block -> Hash]
         /\ (\A i \in full : hash[blocks[i]] = hashes[i])
         /\ (\A b \in Block : b \notin fresh => hash[b] = p.block_hash[b])
    <3>1. \A i \in full : (CHOOSE j \in full : blocks[j] = blocks[i]) = i
      BY <2>4, Zenon
    <3>2. \A b \in fresh : hashes[CHOOSE i \in full : blocks[i] = b] \in Hash
      BY <2>2, <3>1, Zenon
    <3>3. c.block_hash \in [Block -> Hash]
      BY <2>6, Zenon DEF Pool
    <3>4. hash \in [Block -> Hash]
      BY <3>2, <3>3, Zenon DEF hash
    <3>5. \A i \in full : hash[blocks[i]] = hashes[i]
      BY ZenonT(30), <2>2, <3>1 DEF hash
    <3>6. \A b \in Block : b \notin fresh => hash[b] = p.block_hash[b]
      BY <2>6, Zenon DEF hash
    <3> QED BY <3>4, <3>5, <3>6, Zenon
  <2>11. added \subseteq Hash \X Block /\ \A e \in added : e[1] \in Hash
    BY SMTT(30), <2>2 DEF added
  <2>12. q \in Pool
    <3>1. q.block_hash \in [Block -> Hash]
      BY <2>9, <2>10, Zenon
    <3>2. q.cached_block_hash_to_block \in SUBSET (Hash \X Block)
      BY <2>6, <2>9, <2>11, Zenon DEF Pool
    <3>3. q.stored \in SUBSET Hash
      BY SMTT(30), <2>6, <2>9, <2>11 DEF Pool
    <3>4. q = [c EXCEPT !.block_hash = q.block_hash,
                        !.cached_block_hash_to_block = q.cached_block_hash_to_block,
                        !.stored = q.stored,
                        !.failed = {}]
      BY <2>6, <2>8, <2>9, Zenon DEF Pool
    <3> QED BY <2>6, <3>1, <3>2, <3>3, <3>4, Zenon DEF Pool
  <2>13. QueueOK(q)
    BY <2>9, ZenonT(30) DEF PoolOK, QueueOK
  <2>14. MapOK(q)
    <3>1. ASSUME NEW e \in q.cached_block_hash_to_block
          PROVE  e[1] # NoHash /\ q.block_hash[e[2]] = e[1]
      <4>1. CASE e \in added
        BY SMTT(30), <1>0, <2>9, <2>10, <4>1 DEF added
      <4>2. CASE e \in c.cached_block_hash_to_block
        <5>1. e[1] # NoHash /\ c.block_hash[e[2]] = e[1] /\ e[2] \in Block
          BY <2>6, <4>2, Zenon DEF PoolOK, MapOK, Pool
        <5>2. e[2] \notin fresh /\ c.block_hash[e[2]] = p.block_hash[e[2]]
          BY <2>6, <5>1, Zenon
        <5> QED BY <2>9, <2>10, <5>1, <5>2, Zenon
      <4> QED BY <2>9, <4>1, <4>2, Zenon
    <3>2. ASSUME NEW b \in Block, q.block_hash[b] # NoHash
          PROVE  <<q.block_hash[b], b>> \in q.cached_block_hash_to_block
      <4>1. CASE b \in fresh
        <5>1. PICK i \in full : b = blocks[i]
          BY <4>1, Zenon
        <5> QED BY <2>9, <2>10, <5>1, Zenon DEF added
      <4>2. CASE b \notin fresh
        <5>1. c.block_hash[b] = q.block_hash[b]
          BY <2>6, <2>9, <2>10, <4>2, ZenonT(30)
        <5>2. <<c.block_hash[b], b>> \in c.cached_block_hash_to_block
          BY <2>6, <3>2, <5>1, Zenon DEF PoolOK, MapOK
        <5> QED BY <2>9, <5>1, <5>2, Zenon
      <4> QED BY <4>1, <4>2, Zenon
    <3>3. ASSUME NEW h \in q.stored
          PROVE  \E b \in Block : <<h, b>> \in q.cached_block_hash_to_block
      <4>1. CASE h \in c.stored
        BY <2>6, <2>9, <4>1, Zenon DEF PoolOK, MapOK
      <4>2. CASE h \in {e[1] : e \in added}
        <5>1. PICK i \in full : h = hashes[i]
          BY SMTT(30), <4>2 DEF added
        <5>2. <<hashes[i], blocks[i]>> \in added
          BY Zenon DEF added
        <5> QED BY <2>2, <2>9, <5>1, <5>2, Zenon
      <4> QED BY <2>9, <4>1, <4>2, Zenon
    <3> QED BY <3>1, <3>2, <3>3, ZenonT(30) DEF MapOK
  <2>15. PoolOK(q)
    BY <2>9, <2>12, <2>13, <2>14, Zenon DEF PoolOK
  <2>16. \A b \in Block : (\A i \in full : blocks[i] # b) => b \notin fresh
    BY Zenon
  <2> QED BY <2>9, <2>10, <2>15, <2>16, ZenonT(30) DEF q, Hashed
<1> QED BY SMTT(30), <1>1, <1>2

(* reset_prefix_cache leaves the queue and the references alone, and either *)
(* no hash changes or every block is free and none has a hash.              *)
LEMMA ResetOK ==
  ASSUME NEW p, PoolOK(p)
  PROVE  LET q == reset_prefix_cache(p)
         IN /\ PoolOK(q)
            /\ q.ref_cnt = p.ref_cnt
            /\ \A b \in Block : q.block_hash[b] \in {NoHash, p.block_hash[b]}
            /\ \/ q = p
               \/ \A b \in Block : p.ref_cnt[b] = 0 /\ q.block_hash[b] = NoHash
<1> DEFINE q == reset_prefix_cache(p)
<1>1. CASE get_num_free_blocks(p) # Cardinality(Block)
  BY <1>1, Zenon DEF reset_prefix_cache
<1>2. CASE get_num_free_blocks(p) = Cardinality(Block)
  <2>1. p \in Pool
    BY Zenon DEF PoolOK
  <2>2. q = [p EXCEPT !.block_hash = [b \in Block |-> NoHash],
                      !.cached_block_hash_to_block = {},
                      !.stored = {}]
    BY <1>2, Zenon DEF reset_prefix_cache
  <2> HIDE DEF q
  <2>3. /\ q.free_block_queue = p.free_block_queue /\ q.ref_cnt = p.ref_cnt
        /\ q.block_hash = [b \in Block |-> NoHash]
        /\ q.cached_block_hash_to_block = {} /\ q.stored = {} /\ q.failed = p.failed
    BY <2>1, <2>2, Zenon DEF Pool
  <2>4. [b \in Block |-> NoHash] \in [Block -> Hash]
    BY EmptySeq, Zenon DEF Hash, NoHash
  <2>5. q \in Pool
    BY <2>1, <2>2, <2>4, Zenon DEF Pool
  <2>6. QueueOK(q)
    BY <2>3, Zenon DEF PoolOK, QueueOK
  <2>7. MapOK(q)
    BY <2>3, Zenon DEF MapOK
  <2>8. \A b \in Block : p.ref_cnt[b] = 0
    <3> DEFINE queue == p.free_block_queue
               N     == Cardinality(Block)
    <3>1. /\ queue \in Seq(Block) /\ Injective(queue) /\ Len(queue) = N
          /\ \A b \in Block : b \in Elems(queue) <=> p.ref_cnt[b] = 0
      BY <1>2, Zenon DEF PoolOK, QueueOK, Pool, get_num_free_blocks
    <3>2. N \in Nat
      BY PoolAssumption, FS_CardinalityType, Zenon
    <3>3. queue \in [1..N -> Block]
      BY SMTT(30), <3>1, LenProperties
    <3> HIDE DEF queue, N
    <3>4. queue \in Injection(1..N, Block)
      BY <3>1, <3>3, Zenon DEF Injection, IsInjective, Injective
    <3>5. IsFiniteSet(1..N) /\ Cardinality(1..N) = N
      BY SMTT(30), <3>2, FS_Interval
    <3>6. queue \in Surjection(1..N, Block)
      BY <3>4, <3>5, PoolAssumption, FS_Injection, Zenon DEF N
    <3>7. \A b \in Block : b \in Elems(queue)
      BY <3>1, <3>6, ZenonT(30) DEF Surjection, Elems
    <3> QED BY <3>1, <3>7, Zenon
  <2> QED BY <2>3, <2>5, <2>6, <2>7, <2>8, Zenon DEF PoolOK, q
<1> QED BY <1>1, <1>2, Zenon

(* The pool __init__ builds.                                                *)
LEMMA NewPoolOK ==
  ASSUME NEW p \in NewPools
  PROVE  PoolOK(p) /\ \A b \in Block : p.ref_cnt[b] = 0 /\ p.block_hash[b] = NoHash
<1> DEFINE N == Cardinality(Block)
<1>1. N \in Nat
  BY PoolAssumption, FS_CardinalityType, Zenon
<1>2. PICK order \in [1..N -> Block] :
        /\ Elems(order) = Block
        /\ p = [free_block_queue |-> order,
                ref_cnt |-> [b \in Block |-> 0],
                block_hash |-> [b \in Block |-> NoHash],
                cached_block_hash_to_block |-> {},
                stored |-> {},
                failed |-> {}]
  BY Zenon DEF NewPools
<1>3. order \in Seq(Block) /\ Len(order) = N
  BY <1>1, <1>2
<1>4. Injective(order)
  <2>1. order \in Surjection(1..N, Block)
    BY <1>2, <1>3, Zenon DEF Surjection, Elems
  <2>2. IsFiniteSet(1..N) /\ Cardinality(1..N) = N
    BY <1>1, FS_Interval
  <2>3. order \in Injection(1..N, Block)
    BY <2>1, <2>2, FS_SurjSameCardinalityImpliesInj, Zenon
  <2> QED BY <1>3, <2>3, Zenon DEF Injection, IsInjective, Injective
<1>5. [b \in Block |-> NoHash] \in [Block -> Hash]
  BY EmptySeq, Zenon DEF Hash, NoHash
<1>6. p \in Pool
  BY <1>2, <1>3, <1>5 DEF Pool
<1>7. QueueOK(p)
  BY <1>2, <1>4, Zenon DEF QueueOK
<1>8. MapOK(p)
  BY <1>2, Zenon DEF MapOK
<1> QED BY <1>2, <1>6, <1>7, <1>8, Zenon DEF PoolOK

-----------------------------------------------------------------------------
(* Multiplication by the block size is monotonic.                           *)
LEMMA TimesMonotonic ==
  ASSUME NEW m \in Nat \ {0}, NEW x \in Nat, NEW y \in Nat
  PROVE  /\ x * m \in Nat
         /\ x <= y => x * m <= y * m
         /\ x * m <= y * m => x <= y
<1>1. x * m \in Nat
  BY SMTT(30)
<1>2. ASSUME x <= y PROVE x * m <= y * m
  BY SMTT(30), <1>2
<1>3. ASSUME x > y PROVE x * m > y * m
  BY <1>3
<1> QED BY <1>1, <1>2, <1>3

(* x blocks fit where the first y of them and more do; block counts are     *)
(* told apart by their tokens.                                              *)
LEMMA FewerBlocks ==
  ASSUME NEW x \in Nat, NEW y \in Nat, NEW n \in Nat
  PROVE  /\ x <= y /\ y * block_size <= n => x * block_size <= n
         /\ x * block_size = y * block_size => x = y
<1>1. /\ x * block_size \in Nat /\ y * block_size \in Nat
      /\ x <= y => x * block_size <= y * block_size
      /\ x * block_size <= y * block_size => x <= y
      /\ y * block_size <= x * block_size => y <= x
  BY ManagerAssumption, TimesMonotonic, Zenon
<1> QED BY SMTT(30), <1>1

(* What the block counts of n tokens are: n \div block_size full blocks,    *)
(* cdiv(n, block_size) blocks in all.                                       *)
LEMMA BlockCounts ==
  ASSUME NEW m \in Nat \ {0}, NEW n \in Nat
  PROVE  /\ n \div m \in Nat
         /\ (n \div m) * m <= n
         /\ cdiv(n, m) \in Nat
         /\ n <= cdiv(n, m) * m
         /\ \A k \in Nat : k * m <= n => k <= n \div m
<1>1. \A k \in Nat : k \div m \in Nat /\ m * (k \div m) <= k /\ k < m * (k \div m) + m
  BY SMTT(30)
<1>2. n + m - 1 \in Nat
  BY SMTT(30)
<1>3. cdiv(n, m) \in Nat /\ n + m - 1 < m * cdiv(n, m) + m
  BY <1>1, <1>2, Zenon DEF cdiv
<1>4. ASSUME NEW k \in Nat, k * m <= n PROVE k <= n \div m
  <2> DEFINE d == n \div m
  <2>1. d \in Nat /\ d + 1 \in Nat /\ n < (d + 1) * m
    BY SMTT(30), <1>1
  <2> HIDE DEF d
  <2>2. d + 1 <= k => (d + 1) * m <= k * m
    BY <2>1, TimesMonotonic, Zenon
  <2>3. k * m \in Nat /\ (d + 1) * m \in Nat
    BY <2>1, TimesMonotonic, Zenon
  <2> QED BY SMTT(30), <1>4, <2>1, <2>2, <2>3 DEF d
<1> QED BY <1>1, <1>3, <1>4
(* The hash of the i-th block is the request's first i * block_size tokens; *)
(* tokens added behind them leave it as it is.                              *)
LEMMA PrefixFacts ==
  ASSUME NEW k \in Seq(Token), NEW i \in Nat, i * block_size <= Len(k)
  PROVE  /\ Prefix(k, i) \in Hash
         /\ Len(Prefix(k, i)) = i * block_size
         /\ i > 0 => Prefix(k, i) # NoHash
         /\ \A j \in 1..i * block_size : Prefix(k, i)[j] = k[j]
         /\ \A out \in Seq(Token) : Prefix(k \o out, i) = Prefix(k, i)
<1>1. i * block_size \in Nat /\ (i > 0 => i * block_size > 0) /\ Len(k) \in Nat
  BY ManagerAssumption, LenProperties, TimesMonotonic
<1> DEFINE n == i * block_size
<1>2. n \in Nat /\ n <= Len(k) /\ Prefix(k, i) = SubSeq(k, 1, n)
  BY <1>1, Zenon DEF Prefix
<1>3. i > 0 => n > 0
  BY <1>1, Zenon
<1> HIDE DEF n
<1>4. Prefix(k, i) \in Hash /\ Len(Prefix(k, i)) = n
      /\ \A j \in 1..n : Prefix(k, i)[j] = k[j]
  BY SMTT(30), <1>1, <1>2 DEF Hash
<1>5. i > 0 => Prefix(k, i) # NoHash
  BY SMTT(30), <1>3, <1>4 DEF NoHash
<1>6. ASSUME NEW out \in Seq(Token) PROVE Prefix(k \o out, i) = Prefix(k, i)
  <2>1. k \o out \in Seq(Token) /\ n <= Len(k \o out) /\ \A j \in 1..n : (k \o out)[j] = k[j]
    BY SMTT(30), <1>1, <1>2
  <2>2. Prefix(k \o out, i) = SubSeq(k \o out, 1, n)
    BY Zenon DEF Prefix, n
  <2> QED BY SMTT(30), <1>2, <2>1, <2>2
<1> QED BY <1>4, <1>5, <1>6, Zenon DEF n

-----------------------------------------------------------------------------
\* The hash of the block before the one that has the hash h.
Parent(h) == SubSeq(h, 1, Len(h) - block_size)

\* A block with the hash before the one of a is there, and outlives a: it is in
\* use, or get_new_blocks comes to it after a.
HasParent(p, a) ==
  \E b \in Block : /\ p.block_hash[b] = Parent(p.block_hash[a])
                   /\ b \in Elems(p.free_block_queue) => Before(p.free_block_queue, a, b)

FreeChained(p) ==
  \A a \in Elems(p.free_block_queue) : Len(p.block_hash[a]) > block_size => HasParent(p, a)

(* The hash before one that is longer than a block is a hash.               *)
LEMMA ParentHash ==
  ASSUME NEW h \in Hash, Len(h) > block_size
  PROVE  Parent(h) # NoHash
<1>1. block_size \in Nat \ {0} /\ Len(h) \in Nat
  BY ManagerAssumption, LenProperties, Zenon DEF Hash
<1>2. Len(Parent(h)) = Len(h) - block_size
  BY SMTT(30), <1>1 DEF Parent, Hash
<1> QED BY SMTT(30), <1>1, <1>2 DEF NoHash

(* The hash before the one of a request's i-th block is that of the block   *)
(* before it.                                                               *)
LEMMA ParentPrefix ==
  ASSUME NEW k \in Seq(Token), NEW i \in Nat, i * block_size <= Len(k),
         i * block_size > block_size
  PROVE  i - 1 \in Nat \ {0} /\ Parent(Prefix(k, i)) = Prefix(k, i - 1)
<1>1. block_size \in Nat \ {0} /\ Len(k) \in Nat /\ i * block_size \in Nat
  BY ManagerAssumption, LenProperties, TimesMonotonic, Zenon
<1>2. i # 0 /\ i # 1
  BY SMTT(30), <1>1
<1>3. i - 1 \in Nat \ {0}
  BY <1>2
<1>4. (i - 1) * block_size = i * block_size - block_size
  BY SMTT(30), <1>1
<1> DEFINE n == i * block_size
           m == (i - 1) * block_size
<1>5. Prefix(k, i) = SubSeq(k, 1, n) /\ Prefix(k, i - 1) = SubSeq(k, 1, m)
  BY Zenon DEF Prefix
<1>6. n \in Nat /\ m \in Nat /\ m = n - block_size /\ n <= Len(k)
  BY SMTT(30), <1>1, <1>4
<1> HIDE DEF n, m
<1>7. Len(SubSeq(k, 1, n)) = n
  BY SMTT(30), <1>1, <1>6
<1>8. SubSeq(SubSeq(k, 1, n), 1, m) = SubSeq(k, 1, m)
  BY SMTT(30), <1>1, <1>6
<1> QED BY <1>3, <1>5, <1>6, <1>7, <1>8, Zenon DEF Parent

(* touch leaves the free blocks in their order.                             *)
LEMMA TouchChained ==
  ASSUME NEW p, PoolOK(p), FreeChained(p), NEW blocks \in Seq(Block)
  PROVE  FreeChained(touch(p, blocks))
<1> DEFINE q     == touch(p, blocks)
           queue == p.free_block_queue
           idle  == {b \in Elems(blocks) : p.ref_cnt[b] = 0}
           rest  == Keep(queue, Block \ idle)
<1>1. p \in Pool /\ queue \in Seq(Block) /\ Injective(queue)
  BY Zenon DEF PoolOK, QueueOK, Pool
<1>2. q.free_block_queue = rest /\ q.block_hash = p.block_hash
  BY <1>1, Zenon DEF touch, Pool
<1> HIDE DEF q, queue, idle
<1>3. /\ Elems(rest) = Elems(queue) \cap (Block \ idle)
      /\ \A x, y \in Block \ idle : Before(queue, x, y) => Before(rest, x, y)
  BY <1>1, KeepElems, Zenon
<1> HIDE DEF rest
<1>4. ASSUME NEW a \in Elems(rest), Len(p.block_hash[a]) > block_size
      PROVE  HasParent(q, a)
  <2>1. a \in Elems(queue) /\ a \in Block \ idle
    BY <1>3, Zenon
  <2>2. HasParent(p, a)
    BY <1>4, <2>1, Zenon DEF FreeChained, queue
  <2>3. PICK b \in Block : /\ p.block_hash[b] = Parent(p.block_hash[a])
                           /\ b \in Elems(queue) => Before(queue, a, b)
    BY <2>2, Zenon DEF HasParent, queue
  <2>4. b \in Elems(rest) => Before(rest, a, b)
    BY <1>3, <2>1, <2>3, Zenon
  <2> QED BY <1>2, <2>3, <2>4, Zenon DEF HasParent
<1> QED BY <1>2, <1>4, Zenon DEF FreeChained, q

(* get_new_blocks takes the tail of a chain before the head of it.          *)
LEMMA GetNewChained ==
  ASSUME NEW p, PoolOK(p), FreeChained(p), NEW n \in Nat, n <= get_num_free_blocks(p)
  PROVE  FreeChained(get_new_blocks(p, n))
<1> DEFINE q     == get_new_blocks(p, n)
           new   == NewBlocks(p, n)
           queue == p.free_block_queue
           left  == SubSeq(queue, n + 1, Len(queue))
<1>1. p \in Pool /\ queue \in Seq(Block) /\ Injective(queue) /\ n <= Len(queue)
      /\ Len(queue) \in Nat
  BY LenProperties, Zenon DEF PoolOK, QueueOK, Pool, get_num_free_blocks
<1>2. /\ new \in Seq(Block) /\ Len(new) = n /\ \A i \in 1..n : new[i] = queue[i]
  BY SMTT(30), <1>1 DEF NewBlocks
<1>3. /\ Len(left) = Len(queue) - n
      /\ \A i \in 1..Len(left) : left[i] = queue[n + i]
  BY SMTT(30), <1>1
<1>4. q.block_hash = [b \in Block |-> IF b \in Elems(new) THEN NoHash ELSE p.block_hash[b]]
  BY GetNewOK, ZenonT(30)
<1>5. q.free_block_queue = left
  <2>1. ~(n > get_num_free_blocks(p))
    BY <1>1 DEF get_num_free_blocks
  <2> DEFINE e == _maybe_evict_cached_block(p, Elems(new))
  <2>2. Elems(new) \in SUBSET Block
    <3> HIDE DEF new
    <3>1. \A i \in 1..Len(new) : new[i] \in Block
      BY <1>2, ElementOfSeq, Zenon
    <3> QED BY <3>1, Zenon DEF Elems
  <2>3. e \in Pool /\ e.free_block_queue = queue
    <3> HIDE DEF new
    <3>1. PoolOK(e) /\ e.free_block_queue = queue
      BY <2>2, EvictOK
    <3> HIDE DEF e
    <3> QED BY <3>1, Zenon DEF PoolOK
  <2>4. q = [e EXCEPT
               !.free_block_queue = SubSeq(@, n + 1, Len(@)),
               !.ref_cnt = [b \in Block |-> IF b \in Elems(new) THEN @[b] + 1 ELSE @[b]],
               !.failed = Check(p, \A b \in Elems(new) : p.ref_cnt[b] = 0, "get_new_blocks")]
    BY <2>1, Zenon DEF get_new_blocks
  <2> HIDE DEF e, q, new
  <2> QED BY <2>3, <2>4, Zenon DEF Pool
<1> HIDE DEF q, new, left
<1>6. ASSUME NEW a \in Elems(left), Len(q.block_hash[a]) > block_size
      PROVE  HasParent(q, a)
  <2>1. PICK i \in 1..Len(left) : left[i] = a
    BY Zenon DEF Elems
  <2>2. n + i \in 1..Len(queue) /\ queue[n + i] = a
    BY SMTT(30), <1>1, <1>3, <2>1
  <2>3. a \in Elems(queue) /\ a \in Block
    BY <1>1, <2>2, ElementOfSeq, Zenon DEF Elems
  <2>4. a \notin Elems(new)
    <3> SUFFICES ASSUME NEW j \in 1..n, queue[j] = a PROVE FALSE
      BY <1>2, Zenon DEF Elems
    <3>1. j \in 1..Len(queue)
      BY SMTT(30), <1>1
    <3>2. j = n + i
      BY <1>1, <2>2, <3>1, Zenon DEF Injective
    <3> QED BY SMTT(30), <1>1, <2>2, <3>2
  <2>5. q.block_hash[a] = p.block_hash[a]
    BY <1>4, <2>3, <2>4, Zenon
  <2>6. HasParent(p, a)
    BY <1>6, <2>3, <2>5, Zenon DEF FreeChained
  <2>7. PICK b \in Block : /\ p.block_hash[b] = Parent(p.block_hash[a])
                           /\ b \in Elems(queue) => Before(queue, a, b)
    BY <2>6, Zenon DEF HasParent
  <2> HIDE DEF queue
  <2>8. ASSUME NEW j \in 1..Len(queue), queue[j] = b
        PROVE  j > n + i
    <3>1. b \in Elems(queue)
      BY <2>8, Zenon DEF Elems
    <3>2. PICK k \in 1..Len(queue), l \in 1..Len(queue) : k < l /\ queue[k] = a /\ queue[l] = b
      BY <2>7, <3>1, Zenon DEF Before
    <3>3. k = n + i /\ l = j
      BY <1>1, <2>2, <2>8, <3>2, Zenon DEF Injective
    <3> QED BY SMTT(30), <1>1, <2>2, <3>2, <3>3
  <2>9. b \notin Elems(new)
    <3> SUFFICES ASSUME NEW j \in 1..n, queue[j] = b PROVE FALSE
      BY <1>2, Zenon DEF Elems, queue
    <3>1. j \in 1..Len(queue)
      BY SMTT(30), <1>1 DEF queue
    <3>2. j > n + i
      BY <2>8, <3>1, ZenonT(30)
    <3> QED BY SMTT(30), <1>1, <2>2, <3>2
  <2>10. q.block_hash[b] = Parent(q.block_hash[a])
    BY <1>4, <2>5, <2>7, <2>9, Zenon
  <2>11. ASSUME b \in Elems(left) PROVE Before(left, a, b)
    <3>1. PICK j \in 1..Len(left) : left[j] = b
      BY <2>11, ZenonT(30) DEF Elems
    <3>2. n + j \in 1..Len(queue) /\ queue[n + j] = b
      BY SMTT(30), <1>1, <1>3, <3>1
    <3>3. n + j > n + i
      BY <2>8, <3>2, Zenon
    <3>4. i < j
      BY SMTT(30), <2>1, <3>1, <3>3, <1>1, <1>3
    <3> QED BY <2>1, <3>1, <3>4, Zenon DEF Before
  <2> QED BY <1>5, <2>10, <2>11, Zenon DEF HasParent
<1> QED BY <1>5, <1>6, Zenon DEF FreeChained, q

(* cache_full_blocks hashes blocks that are in use: no free block has a new *)
(* hash, and none loses the block before it.                                *)
LEMMA CacheChained ==
  ASSUME NEW p, PoolOK(p), FreeChained(p), NEW blocks, NEW hashes, NEW I, NEW q,
         Hashed(p, blocks, hashes, I, q), Unhashed(p, blocks, hashes, I),
         \A i \in I : p.ref_cnt[blocks[i]] > 0
  PROVE  FreeChained(q)
<1> DEFINE queue == p.free_block_queue
<1>1. /\ p \in Pool /\ queue \in Seq(Block) /\ p.block_hash \in [Block -> Hash]
      /\ \A b \in Block : b \in Elems(queue) <=> p.ref_cnt[b] = 0
  BY Zenon DEF PoolOK, QueueOK, Pool
<1>2. /\ q.free_block_queue = queue
      /\ \A b \in Block : (\A i \in I : blocks[i] # b) => q.block_hash[b] = p.block_hash[b]
  BY Zenon DEF Hashed
<1> HIDE DEF queue
<1>3. ASSUME NEW a \in Elems(queue), Len(q.block_hash[a]) > block_size
      PROVE  HasParent(q, a)
  <2>1. a \in Block /\ p.ref_cnt[a] = 0
    <3>1. a \in Block
      BY <1>1, ElementOfSeq, Zenon DEF Elems
    <3> QED BY <1>1, <3>1, Zenon
  <2>2. \A i \in I : blocks[i] # a
    BY SMTT(30), <2>1
  <2>3. q.block_hash[a] = p.block_hash[a] /\ p.block_hash[a] \in Hash
    BY <1>1, <1>2, <2>1, <2>2, Zenon
  <2>4. HasParent(p, a)
    BY <1>3, <2>3, Zenon DEF FreeChained, queue
  <2>5. PICK b \in Block : /\ p.block_hash[b] = Parent(p.block_hash[a])
                           /\ b \in Elems(queue) => Before(queue, a, b)
    BY <2>4, Zenon DEF HasParent, queue
  <2>6. p.block_hash[b] # NoHash
    BY <1>3, <2>3, <2>5, ParentHash, Zenon
  <2>7. \A i \in I : blocks[i] # b
    BY <2>6, Zenon DEF Unhashed
  <2>8. q.block_hash[b] = p.block_hash[b]
    BY <1>2, <2>7, Zenon
  <2> QED BY <1>2, <2>3, <2>5, <2>8, Zenon DEF HasParent
<1> QED BY <1>2, <1>3, Zenon DEF FreeChained

\* Each block of s with a hash is followed by the one with the hash before it,
\* as free() has them.
TailFirst(p, s) ==
  \A i \in 1..Len(s) : Len(p.block_hash[s[i]]) > block_size =>
    i + 1 \in 1..Len(s) /\ p.block_hash[s[i + 1]] = Parent(p.block_hash[s[i]])

(* free_blocks queues the hashed blocks behind all others, the tail of the  *)
(* request before its head.                                                 *)
LEMMA FreeBlocksChained ==
  ASSUME NEW p, PoolOK(p), FreeChained(p), NEW s \in Seq(Block), Injective(s),
         \A b \in Elems(s) : p.ref_cnt[b] > 0, TailFirst(p, s)
  PROVE  FreeChained(free_blocks(p, s))
<1> DEFINE q        == free_blocks(p, s)
           queue    == p.free_block_queue
           S        == Elems(s)
           released == {b \in S : p.ref_cnt[b] = 1}
           hashed   == {b \in released : p.block_hash[b] # NoHash}
           front    == Keep(s, released \ hashed)
           back     == Keep(s, hashed)
           ahead    == front \o queue
           all      == ahead \o back
<1>1. /\ p \in Pool /\ queue \in Seq(Block) /\ p.block_hash \in [Block -> Hash]
      /\ p.ref_cnt \in [Block -> Nat]
      /\ \A b \in Block : b \in Elems(queue) <=> p.ref_cnt[b] = 0
  BY Zenon DEF PoolOK, QueueOK, Pool
<1>2. S \subseteq Block
  BY ElementOfSeq, Zenon DEF Elems
<1>3. q.free_block_queue = all /\ q.block_hash = p.block_hash
  BY <1>1, Zenon DEF free_blocks, Pool
<1>4. hashed \subseteq released /\ released \subseteq S
  BY Zenon
<1>5. \A b \in released \ hashed : p.block_hash[b] = NoHash
  BY Zenon
<1>6. \A b \in S : b \notin released \/ (p.block_hash[b] # NoHash => b \in hashed)
  BY Zenon
<1> HIDE DEF q, queue, released, hashed
<1>7. /\ front \in Seq(Block) /\ Elems(front) = S \cap (released \ hashed)
  BY KeepElems, ZenonT(30)
<1>8. /\ back \in Seq(Block) /\ Elems(back) = S \cap hashed
      /\ \A x, y \in hashed : Before(s, x, y) => Before(back, x, y)
  BY KeepElems, ZenonT(30)
<1> HIDE DEF front, back, S
<1>9. ahead \in Seq(Block) /\ Elems(ahead) = Elems(front) \cup Elems(queue)
  BY SMTT(30), <1>1, <1>7, ConcatElems
<1>10. ASSUME NEW x, NEW y, Before(queue, x, y) PROVE Before(ahead, x, y)
  BY <1>10, <1>1, <1>7, ConcatBefore, ZenonT(30)
<1> HIDE DEF ahead
<1>11. Elems(all) = Elems(ahead) \cup Elems(back)
  BY SMTT(30), <1>8, <1>9, ConcatElems
<1>12. ASSUME NEW x, NEW y,
              Before(ahead, x, y) \/ Before(back, x, y) \/ (x \in Elems(ahead) /\ y \in Elems(back))
       PROVE  Before(all, x, y)
  BY <1>12, <1>8, <1>9, ConcatBefore, Zenon
<1> HIDE DEF all
<1>13. ASSUME NEW a \in Elems(all), Len(p.block_hash[a]) > block_size
       PROVE  HasParent(q, a)
  <2>1. a \notin Elems(front)
    <3>1. ASSUME p.block_hash[a] = NoHash PROVE FALSE
      BY SMTT(30), <1>13, <3>1, ManagerAssumption DEF NoHash
    <3> QED BY <1>5, <1>7, <3>1, ZenonT(30)
  <2>2. CASE a \in Elems(queue)
    <3>1. a \in Block
      BY <1>1, <2>2, ElementOfSeq, Zenon DEF Elems
    <3>2. HasParent(p, a)
      BY <1>13, <2>2, Zenon DEF FreeChained, queue
    <3>3. PICK b \in Block : /\ p.block_hash[b] = Parent(p.block_hash[a])
                             /\ b \in Elems(queue) => Before(queue, a, b)
      BY <3>2, ZenonT(30) DEF HasParent, queue
    <3>4. p.block_hash[b] # NoHash
      BY <1>1, <1>13, <3>1, <3>3, ParentHash, ZenonT(30)
    <3>5. b \in Elems(all) => Before(all, a, b)
      <4>1. b \notin Elems(front)
        BY <1>5, <1>7, <3>4, ZenonT(30)
      <4>2. a \in Elems(ahead)
        BY <1>9, <2>2, Zenon
      <4> QED BY <1>9, <1>10, <1>11, <1>12, <3>3, <4>1, <4>2, Zenon
    <3> QED BY <1>3, <3>3, <3>5, Zenon DEF HasParent
  <2>3. CASE a \in Elems(back)
    <3>1. a \in S /\ a \in hashed
      BY <1>8, <2>3, Zenon
    <3>2. PICK i \in 1..Len(s) : s[i] = a
      BY <3>1, Zenon DEF S, Elems
    <3>3. i + 1 \in 1..Len(s) /\ p.block_hash[s[i + 1]] = Parent(p.block_hash[a])
      BY <1>13, <3>2, Zenon DEF TailFirst
    <3> DEFINE b == s[i + 1]
    <3>4. b \in S /\ b \in Block
      BY <1>2, <3>3, ZenonT(30) DEF S, Elems
    <3>5. p.block_hash[b] # NoHash
      BY <1>1, <1>2, <1>13, <3>1, <3>3, ParentHash, ZenonT(30)
    <3>6. Before(s, a, b)
      <4>1. i < i + 1
        BY SMTT(30)
      <4> QED BY <3>2, <3>3, <4>1, Zenon DEF Before
    <3> HIDE DEF b
    <3>7. b \notin Elems(queue)
      <4>1. p.ref_cnt[b] # 0
        BY SMTT(30), <1>1, <3>4 DEF S
      <4> QED BY <1>1, <3>4, <4>1, ZenonT(30)
    <3>8. b \in Elems(all) => Before(all, a, b)
      <4>1. b \notin Elems(front)
        BY <1>5, <1>7, <3>5, Zenon
      <4>2. b \in Elems(all) => b \in hashed
        BY <1>8, <1>9, <1>11, <3>7, <4>1, Zenon
      <4> QED BY <1>8, <1>12, <3>1, <3>6, <4>2, ZenonT(30)
    <3> QED BY <1>3, <3>3, <3>4, <3>8, Zenon DEF HasParent, b
  <2> QED BY <1>9, <1>11, <2>1, <2>2, <2>3, ZenonT(30)
<1> QED BY <1>3, <1>13, Zenon DEF FreeChained, q

-----------------------------------------------------------------------------
(* The inductive invariant of the block tables, of any pool p, tables T,    *)
(* cached counts C and tokens K, so that the stages of allocate_slots can   *)
(* be put one behind the other.  A table is held by a request or, until its *)
(* blocks are freed, by an entry of deferred_frees.                         *)
Holder == Request \cup Entry

Has(T, b) == {r \in Holder : b \in Elems(T[r])}

Typed(T, C, K) ==
  T \in [Holder -> Seq(Block)] /\ C \in [Holder -> Nat] /\ K \in [Holder -> Seq(Token)]

\* Every reference is one holder's.
RefsOK(p, T) ==
  /\ \A r \in Holder : Injective(T[r])
  /\ \A b \in Block : p.ref_cnt[b] = Cardinality(Has(T, b))

\* Of a holder's blocks only the first C[r] have a hash, and it is theirs.
HashesOK(p, T, C, K) ==
  \A r \in Holder :
    /\ C[r] <= Len(T[r])
    /\ C[r] * block_size <= Len(K[r])
    /\ \A i \in 1..Len(T[r]) : p.block_hash[T[r][i]] # NoHash =>
         i <= C[r] /\ p.block_hash[T[r][i]] = Prefix(K[r], i)

\* Only these blocks are shared.
SharingOK(T, C, K) ==
  \A r, s \in Holder : \A i \in 1..Len(T[r]), j \in 1..Len(T[s]) :
    (r # s /\ T[r][i] = T[s][j]) => i = j /\ i <= C[r] /\ Prefix(K[r], i) = Prefix(K[s], i)

\* While no block is reported invalid, all of the first C[r] have theirs, and
\* the cached prefixes of free blocks are evicted from their ends.
FullyHashed(p, T, C, K) ==
  \A r \in Holder : \A i \in 1..C[r] : p.block_hash[T[r][i]] = Prefix(K[r], i)

ChainsOK(p, T, C, K) == Reports = {} => FullyHashed(p, T, C, K) /\ FreeChained(p)

Tables(p, T, C, K) ==
  /\ PoolOK(p) /\ Typed(T, C, K) /\ RefsOK(p, T)
  /\ HashesOK(p, T, C, K) /\ SharingOK(T, C, K) /\ ChainsOK(p, T, C, K)

(* Blocks may lose their hash at any time: evict_blocks, reset_prefix_cache *)
(* and a touch of no block keep the tables in order.                        *)
LEMMA LoseHashes ==
  ASSUME NEW p, NEW T, NEW C, NEW K, Tables(p, T, C, K),
         NEW q, PoolOK(q), q.ref_cnt = p.ref_cnt,
         \A b \in Block : q.block_hash[b] \in {NoHash, p.block_hash[b]},
         ChainsOK(q, T, C, K)
  PROVE  Tables(q, T, C, K)
<1>1. RefsOK(q, T)
  BY Zenon DEF Tables, RefsOK
<1>2. HashesOK(q, T, C, K)
  <2>1. \A r \in Holder : \A i \in 1..Len(T[r]) : T[r][i] \in Block
    BY ElementOfSeq, Zenon DEF Tables, Typed
  <2> QED BY <2>1, Zenon DEF Tables, HashesOK
<1> QED BY <1>1, <1>2, Zenon DEF Tables

\* Nothing is cached.
NothingHashed(p) == \A b \in Block : p.block_hash[b] = NoHash

(* There is no chain to keep when nothing is cached.                        *)
LEMMA NoChains ==
  ASSUME NEW p, PoolOK(p), NothingHashed(p), NEW T, NEW C, NEW K,
         \A r \in Holder : C[r] = 0
  PROVE  ChainsOK(p, T, C, K)
<1>1. p.free_block_queue \in Seq(Block)
  BY Zenon DEF PoolOK, Pool
<1>2. Elems(p.free_block_queue) \subseteq Block
  BY <1>1, ElementOfSeq, Zenon DEF Elems
<1>3. ~(Len(NoHash) > block_size)
  BY SMTT(30), ManagerAssumption DEF NoHash
<1>4. FreeChained(p)
  BY <1>2, <1>3, ZenonT(30) DEF FreeChained, NothingHashed
<1>5. FullyHashed(p, T, C, K)
  BY SMTT(30) DEF FullyHashed
<1> QED BY <1>4, <1>5, Zenon DEF ChainsOK

\* The block before a hashed one of t has the hash before.
HeadFirst(p, t) ==
  \A i \in 1..Len(t) : Len(p.block_hash[t[i]]) > block_size =>
    i - 1 \in 1..Len(t) /\ p.block_hash[t[i - 1]] = Parent(p.block_hash[t[i]])

(* It does in the table of a request while no block is reported invalid.    *)
LEMMA TableParents ==
  ASSUME NEW p, NEW T, NEW C, NEW K, Tables(p, T, C, K), Reports = {}, NEW r \in Holder
  PROVE  HeadFirst(p, T[r])
<1> SUFFICES ASSUME NEW i \in 1..Len(T[r]), Len(p.block_hash[T[r][i]]) > block_size
             PROVE  /\ i - 1 \in 1..Len(T[r])
                    /\ p.block_hash[T[r][i - 1]] = Parent(p.block_hash[T[r][i]])
  BY ZenonT(30) DEF HeadFirst
<1>1. /\ T[r] \in Seq(Block) /\ K[r] \in Seq(Token) /\ C[r] \in Nat
      /\ Len(T[r]) \in Nat /\ Len(K[r]) \in Nat /\ block_size \in Nat \ {0}
      /\ C[r] <= Len(T[r]) /\ C[r] * block_size <= Len(K[r])
  BY ManagerAssumption, LenProperties, Zenon DEF Tables, Typed, HashesOK
<1>2. p.block_hash[T[r][i]] # NoHash
  BY SMTT(30), <1>1 DEF NoHash
<1>3. i <= C[r] /\ p.block_hash[T[r][i]] = Prefix(K[r], i)
  BY <1>2, ZenonT(30) DEF Tables, HashesOK
<1>4. i \in Nat /\ i * block_size <= Len(K[r])
  <2>1. i \in Nat
    BY SMTT(30), <1>1
  <2> QED BY <1>1, <1>3, <2>1, FewerBlocks, Zenon
<1>5. i * block_size > block_size
  BY <1>1, <1>3, <1>4, PrefixFacts, ZenonT(30)
<1>6. i - 1 \in Nat \ {0} /\ Parent(Prefix(K[r], i)) = Prefix(K[r], i - 1)
  BY <1>1, <1>4, <1>5, ParentPrefix, ZenonT(30)
<1>7. i - 1 \in 1..C[r] /\ i - 1 \in 1..Len(T[r])
  BY SMTT(30), <1>1, <1>3, <1>4, <1>6
<1>8. p.block_hash[T[r][i - 1]] = Prefix(K[r], i - 1)
  BY <1>7, Zenon DEF Tables, ChainsOK, FullyHashed
<1> QED BY <1>3, <1>6, <1>7, <1>8, ZenonT(30)

(* How the number of a block's holders changes with one request's table.    *)
LEMMA HoldersFinite ==
  ASSUME NEW T, NEW b
  PROVE  IsFiniteSet(Has(T, b)) /\ Cardinality(Has(T, b)) \in Nat
<1>1. Has(T, b) \subseteq Holder
  BY Zenon DEF Has
<1>2. IsFiniteSet(Holder)
  BY ManagerAssumption, FS_Union, Zenon DEF Holder
<1> QED BY <1>1, <1>2, FS_Subset, FS_CardinalityType, Zenon

LEMMA HolderJoins ==
  ASSUME NEW T \in [Holder -> Seq(Block)], NEW U \in [Holder -> Seq(Block)],
         NEW r \in Holder, \A s \in Holder \ {r} : U[s] = T[s], NEW b \in Block,
         b \in Elems(U[r]), b \notin Elems(T[r])
  PROVE  Cardinality(Has(U, b)) = Cardinality(Has(T, b)) + 1
<1>1. Has(U, b) = Has(T, b) \cup {r} /\ r \notin Has(T, b)
  BY SMTT(30) DEF Has
<1> QED BY <1>1, HoldersFinite, FS_AddElement, Zenon

LEMMA HolderLeaves ==
  ASSUME NEW T \in [Holder -> Seq(Block)], NEW U \in [Holder -> Seq(Block)],
         NEW r \in Holder, \A s \in Holder \ {r} : U[s] = T[s], NEW b \in Block,
         b \notin Elems(U[r]), b \in Elems(T[r])
  PROVE  Cardinality(Has(U, b)) = Cardinality(Has(T, b)) - 1
<1>1. Has(U, b) = Has(T, b) \ {r} /\ r \in Has(T, b)
  BY DEF Has
<1> QED BY <1>1, HoldersFinite, FS_RemoveElement, ZenonT(30)

LEMMA HoldersStay ==
  ASSUME NEW T \in [Holder -> Seq(Block)], NEW U \in [Holder -> Seq(Block)],
         NEW r \in Holder, \A s \in Holder \ {r} : U[s] = T[s], NEW b \in Block,
         b \in Elems(U[r]) <=> b \in Elems(T[r])
  PROVE  Cardinality(Has(U, b)) = Cardinality(Has(T, b))
<1>1. \A s \in Holder : b \in Elems(U[s]) <=> b \in Elems(T[s])
  BY Zenon
<1> QED BY <1>1, Zenon DEF Has

(* touch: a request without blocks gets hit blocks, whose hashes are those  *)
(* of its own prefixes.                                                     *)
LEMMA AddHits ==
  ASSUME NEW p, NEW T, NEW C, NEW K, Tables(p, T, C, K),
         NEW r \in Holder, T[r] = <<>>,
         NEW hit \in Seq(Block), Len(hit) * block_size <= Len(K[r]),
         \A i \in 1..Len(hit) : <<Prefix(K[r], i), hit[i]>> \in p.cached_block_hash_to_block
  PROVE  Tables(touch(p, hit), [T EXCEPT ![r] = hit], [C EXCEPT ![r] = Len(hit)], K)
<1> DEFINE q == touch(p, hit)
           U == [T EXCEPT ![r] = hit]
           D == [C EXCEPT ![r] = Len(hit)]
<1>1. /\ PoolOK(p) /\ T \in [Holder -> Seq(Block)] /\ C \in [Holder -> Nat]
      /\ K \in [Holder -> Seq(Token)]
      /\ RefsOK(p, T) /\ HashesOK(p, T, C, K) /\ SharingOK(T, C, K)
  BY Zenon DEF Tables, Typed
<1>2. /\ PoolOK(q) /\ q.block_hash = p.block_hash
      /\ q.ref_cnt = [b \in Block |-> IF b \in Elems(hit) THEN p.ref_cnt[b] + 1
                                      ELSE p.ref_cnt[b]]
  BY <1>1, TouchOK, ZenonT(30)
<1>3. /\ U[r] = hit /\ \A s \in Holder : s # r => U[s] = T[s]
      /\ D[r] = Len(hit) /\ \A s \in Holder : s # r => D[s] = C[s]
      /\ U \in [Holder -> Seq(Block)] /\ D \in [Holder -> Nat]
  BY <1>1, LenProperties, Zenon
<1>4. /\ K[r] \in Seq(Token) /\ Len(hit) \in Nat /\ Len(K[r]) \in Nat
      /\ block_size \in Nat \ {0}
  BY <1>1, ManagerAssumption, LenProperties, Zenon
<1>5. ASSUME NEW i \in 1..Len(hit)
      PROVE  /\ hit[i] \in Block
             /\ p.block_hash[hit[i]] = Prefix(K[r], i)
             /\ p.block_hash[hit[i]] # NoHash
             /\ Len(p.block_hash[hit[i]]) = i * block_size
  <2>1. i * block_size <= Len(K[r])
    BY <1>4, TimesMonotonic, SMTT(30)
  <2>2. Prefix(K[r], i) # NoHash /\ Len(Prefix(K[r], i)) = i * block_size
    BY SMTT(30), <1>4, <2>1, PrefixFacts
  <2>3. p.block_hash[hit[i]] = Prefix(K[r], i)
    BY <1>1, Zenon DEF PoolOK, MapOK
  <2> QED BY <2>2, <2>3, ElementOfSeq, ZenonT(30)
<1>6. ASSUME NEW s \in Holder, s # r, NEW i \in 1..Len(hit), NEW j \in 1..Len(T[s]),
             hit[i] = T[s][j]
      PROVE  i = j /\ j <= C[s] /\ Prefix(K[r], i) = Prefix(K[s], j)
  <2>1. j <= C[s] /\ Prefix(K[s], j) = Prefix(K[r], i) /\ C[s] * block_size <= Len(K[s])
    BY <1>1, <1>5, <1>6, ZenonT(30) DEF HashesOK
  <2>2. K[s] \in Seq(Token) /\ C[s] \in Nat /\ j \in Nat /\ Len(K[s]) \in Nat
        /\ Len(T[s]) \in Nat
    BY SMTT(30), <1>1, LenProperties
  <2>3. j * block_size <= Len(K[s])
    BY <2>1, <2>2, FewerBlocks, ZenonT(30)
  <2>4. j * block_size = i * block_size
    BY <1>5, <1>6, <2>1, <2>2, <2>3, PrefixFacts, SMTT(30)
  <2>5. i \in Nat
    BY SMTT(30), <1>4
  <2> QED BY <2>1, <2>2, <2>4, <2>5, FewerBlocks, ZenonT(30)
<1> HIDE DEF q, U, D
<1>7. RefsOK(q, U)
  <2>1. ASSUME NEW i \in 1..Len(hit), NEW j \in 1..Len(hit), hit[i] = hit[j] PROVE i = j
    <3>1. i * block_size = j * block_size
      BY <1>5, <2>1, Zenon
    <3> QED BY SMTT(30), <1>4, <3>1, FewerBlocks
  <2>2. \A s \in Holder : Injective(U[s])
    <3>1. Injective(hit) /\ \A s \in Holder : Injective(T[s])
      BY <1>1, <2>1, Zenon DEF RefsOK, Injective
    <3> QED BY <1>3, <3>1, ZenonT(30)
  <2>3. ASSUME NEW b \in Block PROVE q.ref_cnt[b] = Cardinality(Has(U, b))
    <3>1. b \notin Elems(T[r])
      BY SMTT(30), EmptySeq DEF Elems
    <3>2. (\A s \in Holder \ {r} : U[s] = T[s]) /\ U[r] = hit
      BY <1>3, ZenonT(30)
    <3>3. CASE b \in Elems(hit)
      <4>1. Cardinality(Has(U, b)) = Cardinality(Has(T, b)) + 1
        BY <1>1, <1>3, <3>1, <3>2, <3>3, HolderJoins, ZenonT(30)
      <4> QED BY <1>1, <1>2, <3>3, <4>1, ZenonT(30) DEF RefsOK
    <3>4. CASE b \notin Elems(hit)
      <4>1. b \in Elems(U[r]) <=> b \in Elems(T[r])
        BY <3>1, <3>2, <3>4, Zenon
      <4>2. Cardinality(Has(U, b)) = Cardinality(Has(T, b))
        BY <1>1, <1>3, <3>2, <4>1, HoldersStay, ZenonT(30)
      <4> QED BY <1>1, <1>2, <3>4, <4>2, ZenonT(30) DEF RefsOK
    <3> QED BY <3>3, <3>4, Zenon
  <2> QED BY <2>2, <2>3, Zenon DEF RefsOK
<1>8. HashesOK(q, U, D, K)
  <2> SUFFICES ASSUME NEW s \in Holder
               PROVE  /\ D[s] <= Len(U[s])
                      /\ D[s] * block_size <= Len(K[s])
                      /\ \A i \in 1..Len(U[s]) : q.block_hash[U[s][i]] # NoHash =>
                           i <= D[s] /\ q.block_hash[U[s][i]] = Prefix(K[s], i)
    BY ZenonT(30) DEF HashesOK
  <2>1. CASE s = r
    BY <1>2, <1>3, <1>4, <1>5, <2>1, SMTT(30)
  <2>2. CASE s # r
    BY <1>1, <1>2, <1>3, <2>2, SMTT(30) DEF HashesOK
  <2> QED BY <2>1, <2>2, ZenonT(30)
<1>9. SharingOK(U, D, K)
  <2> SUFFICES ASSUME NEW x \in Holder, NEW s \in Holder,
                      NEW i \in 1..Len(U[x]), NEW j \in 1..Len(U[s]),
                      x # s, U[x][i] = U[s][j]
               PROVE  i = j /\ i <= D[x] /\ Prefix(K[x], i) = Prefix(K[s], i)
    BY SMTT(30) DEF SharingOK
  <2>1. CASE x = r
    BY SMTT(30), <1>3, <1>4, <1>6, <2>1
  <2>2. CASE s = r
    <3>1. U[x] = T[x] /\ U[s] = hit /\ D[x] = C[x] /\ x # r
      BY <1>3, <2>2, ZenonT(30)
    <3>2. i = j /\ i <= C[x] /\ Prefix(K[r], j) = Prefix(K[x], i)
      BY SMTT(30), <1>6, <3>1
    <3> QED BY <2>2, <3>1, <3>2, Zenon
  <2>3. CASE x # r /\ s # r
    BY <1>1, <1>3, <2>3, SMTT(30) DEF SharingOK
  <2> QED BY <2>1, <2>2, <2>3, Zenon
<1>10. ChainsOK(q, U, D, K)
  <2> SUFFICES ASSUME Reports = {} PROVE FullyHashed(q, U, D, K) /\ FreeChained(q)
    BY Zenon DEF ChainsOK
  <2>1. FullyHashed(p, T, C, K) /\ FreeChained(p)
    BY Zenon DEF Tables, ChainsOK
  <2>2. ASSUME NEW s \in Holder, NEW i \in 1..D[s]
        PROVE  q.block_hash[U[s][i]] = Prefix(K[s], i)
    <3>1. CASE s = r
      BY <1>2, <1>3, <1>5, <3>1, Zenon
    <3>2. CASE s # r
      <4>1. D[s] = C[s] /\ U[s] = T[s] /\ q.block_hash = p.block_hash
        BY <1>2, <1>3, <3>2, Zenon
      <4>2. i \in 1..C[s]
        BY <4>1, Zenon
      <4>3. p.block_hash[T[s][i]] = Prefix(K[s], i)
        BY <2>1, <4>2, Zenon DEF FullyHashed
      <4> QED BY <4>1, <4>3, Zenon
    <3> QED BY <3>1, <3>2, Zenon
  <2>3. FreeChained(q)
    BY <1>1, <2>1, TouchChained, Zenon DEF q
  <2> QED BY <2>2, <2>3, Zenon DEF FullyHashed
<1> QED BY <1>1, <1>2, <1>3, <1>7, <1>8, <1>9, <1>10, Zenon DEF Tables, Typed, q, U, D

(* A block in a table has a reference.                                      *)
LEMMA HeldBlocks ==
  ASSUME NEW p, NEW T, NEW C, NEW K, Tables(p, T, C, K), NEW s \in Holder
  PROVE  /\ Elems(T[s]) \subseteq Block
         /\ \A b \in Elems(T[s]) : p.ref_cnt[b] > 0
<1>1. T \in [Holder -> Seq(Block)] /\ RefsOK(p, T)
  BY Zenon DEF Tables, Typed
<1>2. Elems(T[s]) \subseteq Block
  BY SMTT(30), <1>1, ElementOfSeq DEF Elems
<1>3. ASSUME NEW b \in Elems(T[s]) PROVE p.ref_cnt[b] > 0
  <2>1. b \in Block
    BY <1>2, Zenon
  <2>2. Cardinality(Has(T, b)) > 0
    <3>1. s \in Has(T, b)
      BY <1>3, Zenon DEF Has
    <3> QED BY SMTT(30), <3>1, HoldersFinite, FS_EmptySet
  <2> QED BY <1>1, <2>1, <2>2, Zenon DEF RefsOK
<1> QED BY <1>2, <1>3, Zenon

(* get_new_blocks: the blocks of the free queue's head join a table; they   *)
(* are nobody's and leave the prefix cache.                                 *)
LEMMA AddNew ==
  ASSUME NEW p, NEW T, NEW C, NEW K, Tables(p, T, C, K),
         NEW r \in Holder, NEW n \in Nat, n <= get_num_free_blocks(p)
  PROVE  /\ Tables(get_new_blocks(p, n), [T EXCEPT ![r] = T[r] \o NewBlocks(p, n)], C, K)
         /\ Len(T[r] \o NewBlocks(p, n)) = Len(T[r]) + n
<1> DEFINE q   == get_new_blocks(p, n)
           new == NewBlocks(p, n)
           t   == T[r] \o new
           U   == [T EXCEPT ![r] = T[r] \o NewBlocks(p, n)]
<1>1. /\ PoolOK(p) /\ T \in [Holder -> Seq(Block)] /\ C \in [Holder -> Nat]
      /\ K \in [Holder -> Seq(Token)]
      /\ RefsOK(p, T) /\ HashesOK(p, T, C, K) /\ SharingOK(T, C, K)
  BY Zenon DEF Tables, Typed
<1>2. /\ PoolOK(q)
      /\ new \in Seq(Block) /\ Len(new) = n /\ Injective(new)
      /\ \A b \in Elems(new) : p.ref_cnt[b] = 0
      /\ q.ref_cnt = [b \in Block |-> IF b \in Elems(new) THEN p.ref_cnt[b] + 1
                                      ELSE p.ref_cnt[b]]
      /\ q.block_hash = [b \in Block |-> IF b \in Elems(new) THEN NoHash ELSE p.block_hash[b]]
  BY <1>1, GetNewOK, ZenonT(30)
<1>3. \A s \in Holder : Elems(T[s]) \subseteq Block /\ Elems(new) \cap Elems(T[s]) = {}
  <2>1. \A s \in Holder : Elems(T[s]) \subseteq Block /\ \A b \in Elems(T[s]) : p.ref_cnt[b] > 0
    BY HeldBlocks, Zenon
  <2> QED BY <1>2, <2>1
<1>4. T[r] \in Seq(Block)
  BY <1>1, Zenon
<1> HIDE DEF new
<1>5. /\ t \in Seq(Block) /\ Len(t) = Len(T[r]) + n
      /\ \A i \in 1..Len(T[r]) : t[i] = T[r][i]
      /\ \A i \in Len(T[r]) + 1..Len(t) : t[i] = new[i - Len(T[r])] /\ t[i] \in Elems(new)
      /\ Len(T[r]) \in Nat
  <2>1. /\ t \in Seq(Block) /\ Len(t) = Len(T[r]) + n /\ Len(T[r]) \in Nat
        /\ \A i \in 1..Len(T[r]) : t[i] = T[r][i]
        /\ \A i \in Len(T[r]) + 1..Len(t) : t[i] = new[i - Len(T[r])]
    <3>1. /\ t \in Seq(Block) /\ Len(t) = Len(T[r]) + Len(new)
          /\ \A i \in 1..Len(T[r]) + Len(new) :
               t[i] = IF i <= Len(T[r]) THEN T[r][i] ELSE new[i - Len(T[r])]
          /\ Len(T[r]) \in Nat
      <4>1. new \in Seq(Block)
        BY <1>2, Zenon
      <4> QED BY <1>4, <4>1, ConcatProperties, LenProperties, ZenonT(30)
    <3> HIDE DEF t
    <3> QED BY <1>2, <3>1, SMTT(30)
  <2>2. ASSUME NEW i \in Len(T[r]) + 1..Len(t) PROVE t[i] \in Elems(new)
    <3>1. i - Len(T[r]) \in 1..Len(new)
      BY SMTT(30), <1>2, <2>1
    <3> QED BY <2>1, <3>1, Zenon DEF Elems
  <2> QED BY <2>1, <2>2, ZenonT(30)
<1>6. Elems(t) = Elems(T[r]) \cup Elems(new) /\ Injective(t)
  <2>1. Injective(T[r])
    BY <1>1, Zenon DEF RefsOK
  <2> QED BY SMTT(30), <1>2, <1>3, <1>4, <2>1, ConcatElems
<1>7. U[r] = t /\ (\A s \in Holder : s # r => U[s] = T[s]) /\ U \in [Holder -> Seq(Block)]
  BY <1>1, <1>5, Zenon DEF new
<1>8. ASSUME NEW s \in Holder, NEW i \in 1..Len(T[s])
      PROVE  T[s][i] \in Elems(T[s]) /\ T[s][i] \in Block /\ T[s][i] \notin Elems(new)
             /\ q.block_hash[T[s][i]] = p.block_hash[T[s][i]]
  <2>1. T[s][i] \in Elems(T[s])
    BY ZenonT(30) DEF Elems
  <2>2. T[s][i] \in Block /\ T[s][i] \notin Elems(new)
    BY <1>3, <2>1, Zenon
  <2> QED BY <1>2, <2>1, <2>2, Zenon
<1>9. \A b \in Elems(new) : b \in Block /\ q.block_hash[b] = NoHash
  <2>1. Elems(new) \subseteq Block
    BY SMTT(30), <1>2, ElementOfSeq DEF Elems
  <2> QED BY <1>2, <2>1, ZenonT(30)
<1> HIDE DEF q, U, t
<1>10. RefsOK(q, U)
  <2>1. \A s \in Holder : Injective(U[s])
    BY <1>1, <1>6, <1>7, Zenon DEF RefsOK
  <2>2. ASSUME NEW b \in Block PROVE q.ref_cnt[b] = Cardinality(Has(U, b))
    <3>1. \A s \in Holder \ {r} : U[s] = T[s]
      BY <1>7, Zenon
    <3>3. CASE b \in Elems(new)
      <4>1. b \in Elems(U[r]) /\ b \notin Elems(T[r])
        BY <1>3, <1>6, <1>7, <3>3, ZenonT(30)
      <4>2. Cardinality(Has(U, b)) = Cardinality(Has(T, b)) + 1
        BY <1>1, <1>7, <3>1, <4>1, HolderJoins, ZenonT(30)
      <4> QED BY <1>1, <1>2, <3>3, <4>2, ZenonT(30) DEF RefsOK
    <3>4. CASE b \notin Elems(new)
      <4>1. b \in Elems(U[r]) <=> b \in Elems(T[r])
        BY <1>6, <1>7, <3>4, ZenonT(30)
      <4>2. Cardinality(Has(U, b)) = Cardinality(Has(T, b))
        BY <1>1, <1>7, <3>1, <4>1, HoldersStay, ZenonT(30)
      <4> QED BY <1>1, <1>2, <3>4, <4>2, Zenon DEF RefsOK
    <3> QED BY <3>3, <3>4, ZenonT(30)
  <2> QED BY <2>1, <2>2, Zenon DEF RefsOK
<1>11. HashesOK(q, U, C, K)
  <2> SUFFICES ASSUME NEW s \in Holder
               PROVE  /\ C[s] <= Len(U[s])
                      /\ C[s] * block_size <= Len(K[s])
                      /\ \A i \in 1..Len(U[s]) : q.block_hash[U[s][i]] # NoHash =>
                           i <= C[s] /\ q.block_hash[U[s][i]] = Prefix(K[s], i)
    BY Zenon DEF HashesOK
  <2>1. /\ C[s] <= Len(T[s]) /\ C[s] * block_size <= Len(K[s]) /\ C[s] \in Nat
        /\ \A i \in 1..Len(T[s]) : p.block_hash[T[s][i]] # NoHash =>
             i <= C[s] /\ p.block_hash[T[s][i]] = Prefix(K[s], i)
    BY <1>1, ZenonT(30) DEF HashesOK
  <2>2. CASE s = r
    <3>1. C[s] <= Len(U[s])
      BY <1>5, <1>7, <2>1, <2>2, SMTT(30)
    <3>2. ASSUME NEW i \in 1..Len(t), q.block_hash[t[i]] # NoHash
          PROVE  i <= C[r] /\ q.block_hash[t[i]] = Prefix(K[r], i)
      <4>1. i \in 1..Len(T[r])
        BY <1>5, <1>9, <3>2, SMTT(30)
      <4> QED BY <1>5, <1>8, <2>1, <2>2, <3>2, <4>1, SMTT(30)
    <3> QED BY <1>7, <2>1, <2>2, <3>1, <3>2, ZenonT(30)
  <2>3. CASE s # r
    <3>1. U[s] = T[s]
      BY <1>7, <2>3, Zenon
    <3>2. \A i \in 1..Len(T[s]) : q.block_hash[T[s][i]] = p.block_hash[T[s][i]]
      BY <1>8, Zenon
    <3> QED BY <2>1, <3>1, <3>2, Zenon
  <2> QED BY <2>2, <2>3, Zenon
<1>12. SharingOK(U, C, K)
  <2> SUFFICES ASSUME NEW x \in Holder, NEW s \in Holder,
                      NEW i \in 1..Len(U[x]), NEW j \in 1..Len(U[s]),
                      x # s, U[x][i] = U[s][j]
               PROVE  i = j /\ i <= C[x] /\ Prefix(K[x], i) = Prefix(K[s], i)
    BY SMTT(30) DEF SharingOK
  <2>1. ASSUME NEW y \in Holder, NEW k \in 1..Len(U[y]), NEW z \in Holder, z # y,
               NEW m \in 1..Len(U[z]), U[y][k] = U[z][m]
        PROVE  k \in 1..Len(T[y]) /\ U[y][k] = T[y][k]
    <3>1. CASE y # r
      BY <1>7, <3>1, ZenonT(30)
    <3>2. CASE y = r
      <4>1. U[z] = T[z] /\ U[z][m] \notin Elems(new)
        BY <1>7, <1>8, <2>1, <3>2, ZenonT(30)
      <4>2. k \in 1..Len(t) /\ U[y] = t /\ t[k] \notin Elems(new)
        BY <1>7, <2>1, <3>2, <4>1, ZenonT(30)
      <4>3. k \notin Len(T[r]) + 1..Len(t)
        BY <1>5, <4>2, ZenonT(30)
      <4>4. k \in 1..Len(T[r])
        BY SMTT(30), <1>5, <4>2, <4>3
      <4> QED BY <1>5, <3>2, <4>2, <4>4, ZenonT(30)
    <3> QED BY <3>1, <3>2, Zenon
  <2>2. i \in 1..Len(T[x]) /\ U[x][i] = T[x][i] /\ j \in 1..Len(T[s]) /\ U[s][j] = T[s][j]
    BY <2>1, Zenon
  <2>3. T[x][i] = T[s][j] /\ SharingOK(T, C, K)
    BY <1>1, <2>2, Zenon
  <2> QED BY SMTT(30), <2>2, <2>3 DEF SharingOK
<1>13. ChainsOK(q, U, C, K)
  <2> SUFFICES ASSUME Reports = {} PROVE FullyHashed(q, U, C, K) /\ FreeChained(q)
    BY Zenon DEF ChainsOK
  <2>1. FullyHashed(p, T, C, K) /\ FreeChained(p)
    BY Zenon DEF Tables, ChainsOK
  <2>2. ASSUME NEW s \in Holder, NEW i \in 1..C[s]
        PROVE  q.block_hash[U[s][i]] = Prefix(K[s], i)
    <3>1. C[s] \in Nat /\ Len(T[s]) \in Nat /\ C[s] <= Len(T[s])
      BY <1>1, LenProperties, Zenon DEF HashesOK
    <3>2. i \in 1..Len(T[s])
      BY SMTT(30), <3>1
    <3>3. q.block_hash[T[s][i]] = p.block_hash[T[s][i]]
      BY <1>8, <3>2, ZenonT(30)
    <3>4. U[s][i] = T[s][i]
      BY <1>5, <1>7, <3>2, ZenonT(30)
    <3>5. p.block_hash[T[s][i]] = Prefix(K[s], i)
      BY <2>1, Zenon DEF FullyHashed
    <3> QED BY <3>3, <3>4, <3>5, ZenonT(30)
  <2>3. FreeChained(q)
    BY <1>1, <2>1, GetNewChained, Zenon DEF q
  <2> QED BY <2>2, <2>3, Zenon DEF FullyHashed
<1> QED BY <1>1, <1>2, <1>5, <1>7, <1>10, <1>11, <1>12, <1>13, Zenon
        DEF Tables, Typed, q, U, t, new

(* cache_blocks: full blocks of a request get the hashes of its own         *)
(* prefixes; none of them is in another table.                              *)
LEMMA CacheStep ==
  ASSUME NEW p, NEW T, NEW C, NEW K, Tables(p, T, C, K),
         NEW r \in Holder, NEW n \in Nat, n <= Len(K[r]), n <= Len(T[r]) * block_size
  PROVE  Tables(cache_blocks(p, K[r], T[r], C[r], n), T,
                [C EXCEPT ![r] = NumCached(C[r], n)], K)
<1> DEFINE q  == cache_blocks(p, K[r], T[r], C[r], n)
           D  == [C EXCEPT ![r] = NumCached(C[r], n)]
           to == n \div block_size
           h  == BlockHashes(K[r])
<1>1. /\ PoolOK(p) /\ T \in [Holder -> Seq(Block)] /\ C \in [Holder -> Nat]
      /\ K \in [Holder -> Seq(Token)]
      /\ RefsOK(p, T) /\ HashesOK(p, T, C, K) /\ SharingOK(T, C, K)
  BY Zenon DEF Tables, Typed
<1>2. CASE ~enable_caching
  <2>1. q = p /\ D = C
    BY <1>1, <1>2, ZenonT(30) DEF cache_blocks, NumCached
  <2> QED BY <2>1, ZenonT(30)
<1>3. CASE enable_caching
  <2>1. /\ T[r] \in Seq(Block) /\ K[r] \in Seq(Token) /\ C[r] \in Nat
        /\ Len(T[r]) \in Nat /\ Len(K[r]) \in Nat /\ block_size \in Nat \ {0}
        /\ Injective(T[r]) /\ C[r] <= Len(T[r]) /\ C[r] * block_size <= Len(K[r])
    BY <1>1, ManagerAssumption, LenProperties, ZenonT(30) DEF RefsOK, HashesOK
  <2>2. to \in Nat /\ to * block_size <= n /\ to * block_size \in Nat
    BY <2>1, BlockCounts, TimesMonotonic, ZenonT(30)
  <2> HIDE DEF to
  <2>3. to * block_size <= Len(K[r]) /\ to <= Len(T[r]) /\ to <= Len(K[r]) \div block_size
    <3>1. to * block_size <= Len(K[r]) /\ to * block_size <= Len(T[r]) * block_size
      BY SMTT(30), <2>1, <2>2
    <3>2. to <= Len(T[r])
      BY <2>1, <2>2, <3>1, TimesMonotonic, ZenonT(30)
    <3> QED BY <2>1, <2>2, <3>1, <3>2, BlockCounts, Zenon
  <2>4. \A i \in Nat : i * block_size <= Len(K[r]) =>
          /\ Prefix(K[r], i) \in Hash
          /\ i > 0 => Prefix(K[r], i) # NoHash
    BY <2>1, PrefixFacts, Zenon
  <2>5. /\ h \in Seq(Hash) /\ Len(h) = Len(K[r]) \div block_size
        /\ \A i \in 1..Len(h) : h[i] = Prefix(K[r], i)
    <3> DEFINE d == Len(K[r]) \div block_size
    <3>1. d \in Nat /\ d * block_size <= Len(K[r])
      BY <2>1, BlockCounts, Zenon
    <3>2. h = [i \in 1..d |-> Prefix(K[r], i)]
      BY Zenon DEF BlockHashes
    <3> HIDE DEF d, h
    <3>3. \A i \in 1..d : Prefix(K[r], i) \in Hash
      <4> TAKE i \in 1..d
      <4>1. i * block_size <= Len(K[r])
        <5>1. i \in Nat /\ i <= d
          BY SMTT(30), <3>1
        <5> QED BY <2>1, <3>1, <5>1, FewerBlocks, Zenon
      <4> QED BY SMTT(30), <2>4, <3>1, <4>1
    <3> QED BY SMTT(30), <3>1, <3>2, <3>3 DEF d
  <2> HIDE DEF h
  <2>6. \A i \in C[r] + 1..to : /\ i \in 1..Len(T[r]) /\ i \in 1..Len(h)
                                /\ h[i] = Prefix(K[r], i) /\ h[i] # NoHash
                                /\ p.block_hash[T[r][i]] = NoHash
    <3> TAKE i \in C[r] + 1..to
    <3>1. i \in 1..Len(T[r]) /\ i \in 1..Len(h) /\ i > C[r] /\ i \in Nat /\ i <= to
      <4>0. to <= Len(h) /\ Len(h) \in Nat
        BY <2>3, <2>5, LenProperties, ZenonT(30)
      <4>1. i \in Nat /\ C[r] + 1 <= i /\ i <= to
        BY <2>1, <2>2
      <4>2. to <= Len(T[r]) /\ Len(T[r]) \in Nat /\ C[r] \in Nat
        BY <2>1, <2>3, ZenonT(30)
      <4> QED BY SMTT(30), <2>2, <4>0, <4>1, <4>2
    <3>2. i * block_size <= Len(K[r])
      BY <2>1, <2>2, <2>3, <3>1, FewerBlocks, ZenonT(30)
    <3>3. p.block_hash[T[r][i]] = NoHash
      BY SMTT(30), <1>1, <2>1, <3>1 DEF HashesOK
    <3> QED BY <2>4, <2>5, <3>1, <3>2, <3>3, SMTT(30)
  <2>7. q = cache_full_blocks(p, T[r], h, C[r], to)
    BY <1>3, Zenon DEF cache_blocks, to, h
  <2> HIDE DEF q
  <2>8. /\ PoolOK(q) /\ q.ref_cnt = p.ref_cnt
        /\ Hashed(p, T[r], h, C[r] + 1..to, q) /\ Unhashed(p, T[r], h, C[r] + 1..to)
        /\ \A i \in C[r] + 1..to : q.block_hash[T[r][i]] = h[i]
        /\ \A b \in Block : (\A i \in C[r] + 1..to : T[r][i] # b) =>
                            q.block_hash[b] = p.block_hash[b]
    <3>1. /\ \A i \in C[r] + 1..to : h[i] # NoHash /\ p.block_hash[T[r][i]] = NoHash
          /\ to <= Len(h)
      BY <2>3, <2>5, <2>6, ZenonT(30)
    <3>2. /\ PoolOK(p) /\ T[r] \in Seq(Block) /\ Injective(T[r]) /\ h \in Seq(Hash)
          /\ C[r] \in Nat /\ to \in Nat /\ to <= Len(T[r])
      BY <1>1, <2>1, <2>2, <2>3, <2>5, Zenon
    <3> DEFINE t == T[r]
               c == C[r]
    <3>3. /\ PoolOK(p) /\ t \in Seq(Block) /\ Injective(t) /\ h \in Seq(Hash)
          /\ c \in Nat /\ to \in Nat /\ to <= Len(t) /\ to <= Len(h)
          /\ Unhashed(p, t, h, c + 1..to)
      BY <3>1, <3>2, Zenon DEF Unhashed
    <3> HIDE DEF t, c
    <3>4. Hashed(p, t, h, c + 1..to, cache_full_blocks(p, t, h, c, to))
      BY <3>3, CacheOK, ZenonT(30)
    <3>5. Hashed(p, t, h, c + 1..to, q)
      BY <2>7, <3>4, ZenonT(30) DEF t, c
    <3> QED BY <3>3, <3>5, Zenon DEF t, c, Hashed
  <2>9. /\ D \in [Holder -> Nat] /\ \A s \in Holder : s # r => D[s] = C[s]
        /\ D[r] = IF C[r] < to THEN to ELSE C[r]
    BY <1>1, <1>3, <2>1, <2>2, Zenon DEF NumCached, to
  <2> HIDE DEF D
  <2>10. /\ D[r] \in Nat /\ C[r] <= D[r] /\ to <= D[r] /\ D[r] <= Len(T[r])
         /\ D[r] * block_size <= Len(K[r])
    BY <2>1, <2>2, <2>3, <2>9, SMTT(30)
  <2>14. ASSUME NEW s \in Holder, NEW i \in 1..Len(T[s]), s = r => i \notin C[r] + 1..to
         PROVE  q.block_hash[T[s][i]] = p.block_hash[T[s][i]]
    <3>1. T[s][i] \in Block
      BY <1>1, ElementOfSeq, Zenon
    <3>2. CASE s = r
      <4>1. \A k \in C[r] + 1..to : T[r][k] # T[r][i]
        BY <2>1, <2>6, <2>14, <3>2, ZenonT(30) DEF Injective
      <4> QED BY <2>8, <3>1, <3>2, <4>1, ZenonT(30)
    <3>3. CASE s # r
      <4>1. ASSUME NEW k \in C[r] + 1..to PROVE T[r][k] # T[s][i]
        <5>1. k \in 1..Len(T[r]) /\ ~(k <= C[r])
          BY SMTT(30), <2>1, <2>6
        <5> QED BY <1>1, <3>3, <5>1, ZenonT(30) DEF SharingOK
      <4> QED BY <2>8, <3>1, <4>1, ZenonT(30)
    <3> QED BY <3>2, <3>3, Zenon
  <2>11. HashesOK(q, T, D, K)
    <3> SUFFICES ASSUME NEW s \in Holder
                 PROVE  /\ D[s] <= Len(T[s])
                        /\ D[s] * block_size <= Len(K[s])
                        /\ \A i \in 1..Len(T[s]) : q.block_hash[T[s][i]] # NoHash =>
                             i <= D[s] /\ q.block_hash[T[s][i]] = Prefix(K[s], i)
      BY Zenon DEF HashesOK
    <3>1. /\ C[s] <= Len(T[s]) /\ C[s] * block_size <= Len(K[s]) /\ C[s] \in Nat
          /\ \A i \in 1..Len(T[s]) : p.block_hash[T[s][i]] # NoHash =>
               i <= C[s] /\ p.block_hash[T[s][i]] = Prefix(K[s], i)
      BY <1>1, Zenon DEF HashesOK
    <3>3. CASE s = r
      <4>1. ASSUME NEW i \in 1..Len(T[r]), q.block_hash[T[r][i]] # NoHash
            PROVE  i <= D[r] /\ q.block_hash[T[r][i]] = Prefix(K[r], i)
        <5>1. CASE i \in C[r] + 1..to
          <6>1. q.block_hash[T[r][i]] = h[i] /\ h[i] = Prefix(K[r], i)
            BY ONLY <2>6, <2>8, <5>1, ZenonT(30)
          <6>2. i <= to
            BY ONLY SMTT(30), <2>1, <2>2, <5>1
          <6>3. i \in Nat
            BY SMTT(30), <2>1
          <6> QED BY ONLY SMTT(30), <2>2, <2>10, <6>1, <6>2, <6>3
        <5>2. CASE i \notin C[r] + 1..to
          <6>2. q.block_hash[T[r][i]] = p.block_hash[T[r][i]]
            BY <2>14, <5>2, ZenonT(30)
          <6>3. i <= C[r] /\ p.block_hash[T[r][i]] = Prefix(K[r], i)
            BY <3>1, <3>3, <4>1, <6>2, Zenon
          <6> QED BY SMTT(30), <2>1, <2>10, <6>2, <6>3
        <5> QED BY <5>1, <5>2, ZenonT(30)
      <4> QED BY <2>10, <3>3, <4>1, ZenonT(30)
    <3>4. CASE s # r
      <4>1. \A i \in 1..Len(T[s]) : q.block_hash[T[s][i]] = p.block_hash[T[s][i]]
        BY <2>14, <3>4, ZenonT(30)
      <4> QED BY <2>9, <3>1, <3>4, <4>1, ZenonT(30)
    <3> QED BY <3>3, <3>4, Zenon
  <2>12. SharingOK(T, D, K)
    <3> SUFFICES ASSUME NEW x \in Holder, NEW s \in Holder,
                        NEW i \in 1..Len(T[x]), NEW j \in 1..Len(T[s]),
                        x # s, T[x][i] = T[s][j]
                 PROVE  i = j /\ i <= D[x] /\ Prefix(K[x], i) = Prefix(K[s], i)
      BY SMTT(30) DEF SharingOK
    <3>1. i = j /\ i <= C[x] /\ Prefix(K[x], i) = Prefix(K[s], i)
      BY SMTT(30), <1>1 DEF SharingOK
    <3>2. C[x] <= D[x] /\ C[x] \in Nat /\ D[x] \in Nat
      <4>1. CASE x = r
        BY <2>1, <2>10, <4>1, Zenon
      <4>2. CASE x # r
        BY <1>1, <2>9, <4>2, SMTT(30)
      <4> QED BY <4>1, <4>2, ZenonT(30)
    <3> QED BY SMTT(30), <3>1, <3>2
  <2>13. RefsOK(q, T)
    BY <1>1, <2>8, Zenon DEF RefsOK
  <2>15. ChainsOK(q, T, D, K)
    <3> SUFFICES ASSUME Reports = {} PROVE FullyHashed(q, T, D, K) /\ FreeChained(q)
      BY Zenon DEF ChainsOK
    <3>1. FullyHashed(p, T, C, K) /\ FreeChained(p)
      BY ZenonT(30) DEF Tables, ChainsOK
    <3>2. ASSUME NEW s \in Holder, NEW i \in 1..D[s]
          PROVE  q.block_hash[T[s][i]] = Prefix(K[s], i)
      <4>1. /\ C[s] \in Nat /\ D[s] \in Nat /\ Len(T[s]) \in Nat /\ D[s] <= Len(T[s])
        BY <1>1, <2>9, <2>11, LenProperties, ZenonT(30) DEF HashesOK
      <4>2. i \in 1..Len(T[s])
        BY SMTT(30), <4>1
      <4>3. CASE s = r /\ i \in C[r] + 1..to
        BY <2>6, <2>8, <4>3, ZenonT(30)
      <4>4. CASE ~(s = r /\ i \in C[r] + 1..to)
        <5>1. i \in 1..C[s]
          <6>1. CASE s = r
            BY <2>1, <2>2, <2>9, <4>4, <6>1, SMTT(30)
          <6>2. CASE s # r
            BY <2>9, <6>2, ZenonT(30)
          <6> QED BY <6>1, <6>2, ZenonT(30)
        <5>2. q.block_hash[T[s][i]] = p.block_hash[T[s][i]]
          BY <2>14, <4>2, <4>4, ZenonT(30)
        <5> QED BY <3>1, <5>1, <5>2, ZenonT(30) DEF FullyHashed
      <4> QED BY <4>3, <4>4, Zenon
    <3>3. \A i \in C[r] + 1..to : p.ref_cnt[T[r][i]] > 0
      <4>1. \A b \in Elems(T[r]) : p.ref_cnt[b] > 0
        BY HeldBlocks, ZenonT(30)
      <4> QED BY <2>6, <4>1, Zenon DEF Elems
    <3>4. FreeChained(q)
      BY <1>1, <2>8, <3>1, <3>3, CacheChained, ZenonT(30)
    <3> QED BY <3>2, <3>4, Zenon DEF FullyHashed
  <2> QED BY <1>1, <2>8, <2>9, <2>11, <2>12, <2>13, <2>15, ZenonT(30) DEF Tables, Typed, q, D
<1> QED BY <1>2, <1>3, PoolAssumption, Zenon

(* free: the request's blocks lose one reference each; its table is empty.  *)
LEMMA ReleaseStep ==
  ASSUME NEW p, NEW T, NEW C, NEW K, Tables(p, T, C, K), NEW r \in Holder
  PROVE  Tables(free_blocks(p, Reversed(T[r])), [T EXCEPT ![r] = <<>>], [C EXCEPT ![r] = 0], K)
<1> DEFINE s == Reversed(T[r])
           q == free_blocks(p, s)
           U == [T EXCEPT ![r] = <<>>]
           D == [C EXCEPT ![r] = 0]
<1>1. /\ PoolOK(p) /\ T \in [Holder -> Seq(Block)] /\ C \in [Holder -> Nat]
      /\ K \in [Holder -> Seq(Token)]
      /\ RefsOK(p, T) /\ HashesOK(p, T, C, K) /\ SharingOK(T, C, K)
  BY ZenonT(30) DEF Tables, Typed
<1>2. T[r] \in Seq(Block) /\ Len(T[r]) \in Nat /\ Injective(T[r]) /\ Len(K[r]) \in Nat
  BY <1>1, LenProperties, ZenonT(30) DEF RefsOK
<1>3. /\ s \in Seq(Block) /\ Injective(s) /\ Elems(s) = Elems(T[r])
      /\ Len(s) = Len(T[r]) /\ \A i \in 1..Len(s) : s[i] = T[r][Len(T[r]) + 1 - i]
  <2>1. /\ s = [i \in 1..Len(T[r]) |-> T[r][Len(T[r]) + 1 - i]]
        /\ \A i \in 1..Len(T[r]) : Len(T[r]) + 1 - i \in 1..Len(T[r])
                                   /\ T[r][Len(T[r]) + 1 - i] \in Block
    BY SMTT(30), <1>2, ElementOfSeq DEF Reversed
  <2> HIDE DEF s
  <2>2. s \in Seq(Block) /\ Len(s) = Len(T[r])
    BY SMTT(30), <1>2, <2>1
  <2>3. Injective(s)
    <3> SUFFICES ASSUME NEW i \in 1..Len(s), NEW j \in 1..Len(s), s[i] = s[j] PROVE i = j
      BY Zenon DEF Injective
    <3>1. Len(T[r]) + 1 - i = Len(T[r]) + 1 - j
      BY <1>2, <2>1, <2>2, ZenonT(30) DEF Injective
    <3> QED BY SMTT(30), <1>2, <2>2, <3>1
  <2>4. Elems(s) \subseteq Elems(T[r])
    BY <2>1, <2>2, ZenonT(30) DEF Elems
  <2>5. ASSUME NEW i \in 1..Len(T[r]) PROVE T[r][i] \in Elems(s)
    <3>1. Len(T[r]) + 1 - i \in 1..Len(s) /\ s[Len(T[r]) + 1 - i] = T[r][i]
      BY SMTT(30), <1>2, <2>1, <2>2
    <3> QED BY <3>1, ZenonT(30) DEF Elems
  <2>6. Elems(T[r]) \subseteq Elems(s)
    BY <2>5, Zenon DEF Elems
  <2> QED BY <2>1, <2>2, <2>3, <2>4, <2>6, ZenonT(30)
<1>4. Elems(T[r]) \subseteq Block /\ \A b \in Elems(T[r]) : p.ref_cnt[b] > 0
  BY HeldBlocks, ZenonT(30)
<1> HIDE DEF s
<1>5. /\ PoolOK(q) /\ q.block_hash = p.block_hash
      /\ q.ref_cnt = [b \in Block |-> IF b \in Elems(s) THEN p.ref_cnt[b] - 1 ELSE p.ref_cnt[b]]
  BY <1>1, <1>3, <1>4, FreeOK, ZenonT(30)
<1>6. /\ U[r] = <<>> /\ \A x \in Holder : x # r => U[x] = T[x]
      /\ D[r] = 0 /\ \A x \in Holder : x # r => D[x] = C[x]
      /\ U \in [Holder -> Seq(Block)] /\ D \in [Holder -> Nat]
  BY <1>1, EmptySeq, Zenon
<1>7. Len(U[r]) = 0 /\ Elems(U[r]) = {} /\ Injective(U[r])
  BY SMTT(30), <1>6, EmptySeq DEF Elems, Injective
<1> HIDE DEF q, U, D
<1>8. RefsOK(q, U)
  <2>1. \A x \in Holder : Injective(U[x])
    BY <1>1, <1>6, <1>7, Zenon DEF RefsOK
  <2>2. ASSUME NEW b \in Block PROVE q.ref_cnt[b] = Cardinality(Has(U, b))
    <3>1. \A x \in Holder \ {r} : U[x] = T[x]
      BY <1>6, ZenonT(30)
    <3>2. b \notin Elems(U[r])
      BY <1>7, Zenon
    <3>3. CASE b \in Elems(T[r])
      <4>1. Cardinality(Has(U, b)) = Cardinality(Has(T, b)) - 1
        BY <1>1, <1>6, <3>1, <3>2, <3>3, HolderLeaves, ZenonT(30)
      <4> QED BY <1>1, <1>3, <1>5, <3>3, <4>1, ZenonT(30) DEF RefsOK
    <3>4. CASE b \notin Elems(T[r])
      <4>1. b \in Elems(U[r]) <=> b \in Elems(T[r])
        BY <3>2, <3>4, Zenon
      <4>2. Cardinality(Has(U, b)) = Cardinality(Has(T, b))
        BY <1>1, <1>6, <3>1, <4>1, HoldersStay, ZenonT(30)
      <4> QED BY <1>1, <1>3, <1>5, <3>4, <4>2, Zenon DEF RefsOK
    <3> QED BY <3>3, <3>4, Zenon
  <2> QED BY <2>1, <2>2, ZenonT(30) DEF RefsOK
<1>9. HashesOK(q, U, D, K)
  <2> SUFFICES ASSUME NEW x \in Holder
               PROVE  /\ D[x] <= Len(U[x])
                      /\ D[x] * block_size <= Len(K[x])
                      /\ \A i \in 1..Len(U[x]) : q.block_hash[U[x][i]] # NoHash =>
                           i <= D[x] /\ q.block_hash[U[x][i]] = Prefix(K[x], i)
    BY Zenon DEF HashesOK
  <2>1. CASE x = r
    BY <1>2, <1>6, <1>7, <2>1, ManagerAssumption, SMTT(30)
  <2>2. CASE x # r
    <3>1. U[x] = T[x] /\ D[x] = C[x] /\ q.block_hash = p.block_hash
      BY <1>5, <1>6, <2>2, ZenonT(30)
    <3>2. /\ C[x] <= Len(T[x])
          /\ C[x] * block_size <= Len(K[x])
          /\ \A i \in 1..Len(T[x]) : p.block_hash[T[x][i]] # NoHash =>
               i <= C[x] /\ p.block_hash[T[x][i]] = Prefix(K[x], i)
      BY <1>1, Zenon DEF HashesOK
    <3> QED BY <3>1, <3>2, Zenon
  <2> QED BY <2>1, <2>2, Zenon
<1>10. SharingOK(U, D, K)
  <2> SUFFICES ASSUME NEW x \in Holder, NEW y \in Holder,
                      NEW i \in 1..Len(U[x]), NEW j \in 1..Len(U[y]),
                      x # y, U[x][i] = U[y][j]
               PROVE  i = j /\ i <= D[x] /\ Prefix(K[x], i) = Prefix(K[y], i)
    BY DEF SharingOK
  <2>1. x # r /\ y # r
    BY SMTT(30), <1>7
  <2>2. U[x] = T[x] /\ U[y] = T[y] /\ D[x] = C[x] /\ SharingOK(T, C, K)
    BY <1>1, <1>6, <2>1, Zenon
  <2> QED BY SMTT(30), <2>2 DEF SharingOK
<1>11. ChainsOK(q, U, D, K)
  <2> SUFFICES ASSUME Reports = {} PROVE FullyHashed(q, U, D, K) /\ FreeChained(q)
    BY Zenon DEF ChainsOK
  <2>1. FullyHashed(p, T, C, K) /\ FreeChained(p)
    BY Zenon DEF Tables, ChainsOK
  <2>2. ASSUME NEW x \in Holder, NEW i \in 1..D[x]
        PROVE  q.block_hash[U[x][i]] = Prefix(K[x], i)
    <3>1. x # r
      BY SMTT(30), <1>6
    <3>2. D[x] = C[x] /\ U[x] = T[x] /\ q.block_hash = p.block_hash
      BY <1>5, <1>6, <3>1, Zenon
    <3>3. i \in 1..C[x]
      BY <3>2, ZenonT(30)
    <3>4. p.block_hash[T[x][i]] = Prefix(K[x], i)
      BY <2>1, <3>3, Zenon DEF FullyHashed
    <3> QED BY <3>2, <3>4, ZenonT(30)
  <2>3. TailFirst(p, s)
    <3> SUFFICES ASSUME NEW i \in 1..Len(s), Len(p.block_hash[s[i]]) > block_size
                 PROVE  i + 1 \in 1..Len(s) /\ p.block_hash[s[i + 1]] = Parent(p.block_hash[s[i]])
      BY Zenon DEF TailFirst
    <3> DEFINE l == Len(T[r])
               j == l + 1 - i
    <3>1. l \in Nat /\ i \in 1..l /\ Len(s) = l /\ s[i] = T[r][j]
      BY <1>2, <1>3, Zenon
    <3>2. l = Len(T[r])
      BY SMTT(30)
    <3> HIDE DEF l
    <3>3. j \in 1..l /\ l + 1 - (i + 1) = j - 1 /\ (i + 1 \in 1..l <=> j - 1 \in 1..l)
      BY ONLY SMTT(30), <3>1
    <3> HIDE DEF j
    <3>4. j \in 1..Len(T[r]) /\ Len(p.block_hash[T[r][j]]) > block_size
      BY <3>1, <3>2, <3>3, ZenonT(30)
    <3>5. j - 1 \in 1..Len(T[r]) /\ p.block_hash[T[r][j - 1]] = Parent(p.block_hash[T[r][j]])
      <4>1. HeadFirst(p, T[r])
        BY TableParents, ZenonT(30)
      <4> QED BY <3>4, <4>1, Zenon DEF HeadFirst
    <3>6. i + 1 \in 1..Len(s)
      BY <3>1, <3>2, <3>3, <3>5, ZenonT(30)
    <3>7. s[i + 1] = T[r][j - 1]
      BY <1>3, <3>2, <3>3, <3>6, Zenon
    <3> QED BY <3>1, <3>5, <3>6, <3>7, Zenon
  <2>4. FreeChained(q)
    BY <1>1, <1>3, <1>4, <2>1, <2>3, FreeBlocksChained, ZenonT(30) DEF q
  <2> QED BY <2>2, <2>4, Zenon DEF FullyHashed
<1> QED BY <1>1, <1>5, <1>6, <1>8, <1>9, <1>10, <1>11, Zenon DEF Tables, Typed, q, U, D, s

(* Tokens sampled by a request change none of its hashes; the tokens of a   *)
(* request without blocks are of no account.                                *)
LEMMA TokensStep ==
  ASSUME NEW p, NEW T, NEW C, NEW K, Tables(p, T, C, K),
         NEW r \in Holder, NEW k \in Seq(Token),
         \/ T[r] = <<>>
         \/ \E out \in Seq(Token) : k = K[r] \o out
  PROVE  Tables(p, T, C, [K EXCEPT ![r] = k])
<1> DEFINE L == [K EXCEPT ![r] = k]
<1>1. /\ PoolOK(p) /\ T \in [Holder -> Seq(Block)] /\ C \in [Holder -> Nat]
      /\ K \in [Holder -> Seq(Token)]
      /\ RefsOK(p, T) /\ HashesOK(p, T, C, K) /\ SharingOK(T, C, K)
  BY Zenon DEF Tables, Typed
<1>2. L[r] = k /\ (\A s \in Holder : s # r => L[s] = K[s]) /\ L \in [Holder -> Seq(Token)]
  BY <1>1, ZenonT(30)
<1> HIDE DEF L
<1>3. /\ T[r] \in Seq(Block) /\ K[r] \in Seq(Token) /\ C[r] \in Nat /\ Len(T[r]) \in Nat
      /\ Len(K[r]) \in Nat /\ Len(k) \in Nat
      /\ C[r] <= Len(T[r]) /\ C[r] * block_size <= Len(K[r])
  BY <1>1, LenProperties, ZenonT(30) DEF HashesOK
<1>4. /\ C[r] * block_size <= Len(k)
      /\ \A i \in 1..Len(T[r]) : i <= C[r] => Prefix(k, i) = Prefix(K[r], i)
  <2>1. CASE T[r] = <<>>
    <3>1. Len(T[r]) = 0 /\ C[r] = 0
      BY SMTT(30), <1>3, <2>1, EmptySeq
    <3> QED BY SMTT(30), <1>3, <3>1, ManagerAssumption
  <2>2. ASSUME NEW out \in Seq(Token), k = K[r] \o out
        PROVE  /\ C[r] * block_size <= Len(k)
               /\ \A i \in 1..Len(T[r]) : i <= C[r] => Prefix(k, i) = Prefix(K[r], i)
    <3>1. Len(k) = Len(K[r]) + Len(out) /\ Len(out) \in Nat
      BY <1>3, <2>2, ConcatProperties, LenProperties, ZenonT(30)
    <3>2. C[r] * block_size \in Nat
      BY <1>3, ManagerAssumption, TimesMonotonic, ZenonT(30)
    <3>3. ASSUME NEW i \in 1..Len(T[r]), i <= C[r] PROVE Prefix(k, i) = Prefix(K[r], i)
      <4>1. i \in Nat /\ i * block_size <= Len(K[r])
        BY SMTT(30), <1>3, <3>3, FewerBlocks
      <4> QED BY <1>3, <2>2, <4>1, PrefixFacts, ZenonT(30)
    <3> QED BY <1>3, <3>1, <3>2, <3>3, SMTT(30)
  <2> QED BY <2>1, <2>2, ZenonT(30)
<1>5. HashesOK(p, T, C, L)
  <2> SUFFICES ASSUME NEW s \in Holder
               PROVE  /\ C[s] <= Len(T[s])
                      /\ C[s] * block_size <= Len(L[s])
                      /\ \A i \in 1..Len(T[s]) : p.block_hash[T[s][i]] # NoHash =>
                           i <= C[s] /\ p.block_hash[T[s][i]] = Prefix(L[s], i)
    BY Zenon DEF HashesOK
  <2>1. CASE s = r
    BY <1>1, <1>2, <1>3, <1>4, <2>1, Zenon DEF HashesOK
  <2>2. CASE s # r
    BY <1>1, <1>2, <2>2, ZenonT(30) DEF HashesOK
  <2> QED BY <2>1, <2>2, Zenon
<1>6. SharingOK(T, C, L)
  <2> SUFFICES ASSUME NEW x \in Holder, NEW s \in Holder,
                      NEW i \in 1..Len(T[x]), NEW j \in 1..Len(T[s]),
                      x # s, T[x][i] = T[s][j]
               PROVE  i = j /\ i <= C[x] /\ Prefix(L[x], i) = Prefix(L[s], i)
    BY SMTT(30) DEF SharingOK
  <2>1. i = j /\ i <= C[x] /\ j <= C[s] /\ Prefix(K[x], i) = Prefix(K[s], i)
    BY <1>1, SMTT(30) DEF SharingOK
  <2>2. Prefix(L[x], i) = Prefix(K[x], i)
    BY <1>2, <1>4, <2>1, Zenon
  <2>3. Prefix(L[s], j) = Prefix(K[s], j)
    BY <1>2, <1>4, <2>1, Zenon
  <2> QED BY <2>1, <2>2, <2>3, Zenon
<1>7. ChainsOK(p, T, C, L)
  <2> SUFFICES ASSUME Reports = {} PROVE FullyHashed(p, T, C, L) /\ FreeChained(p)
    BY Zenon DEF ChainsOK
  <2>1. FullyHashed(p, T, C, K) /\ FreeChained(p)
    BY Zenon DEF Tables, ChainsOK
  <2>2. \A i \in 1..C[r] : i \in 1..Len(T[r]) /\ i <= C[r]
    BY SMTT(30), <1>3
  <2>3. ASSUME NEW s \in Holder, NEW i \in 1..C[s]
        PROVE  p.block_hash[T[s][i]] = Prefix(L[s], i)
    <3>1. CASE s = r
      BY <1>2, <1>4, <2>1, <2>2, <3>1, Zenon DEF FullyHashed
    <3>2. CASE s # r
      BY <1>2, <2>1, <3>2, ZenonT(30) DEF FullyHashed
    <3> QED BY <3>1, <3>2, ZenonT(30)
  <2> QED BY <2>1, <2>3, Zenon DEF FullyHashed
<1> QED BY <1>1, <1>2, <1>5, <1>6, <1>7, Zenon DEF Tables, Typed, L

(* A deferred free: the table goes from r to d, which has none.             *)
LEMMA MoveStep ==
  ASSUME NEW p, NEW T, NEW C, NEW K, Tables(p, T, C, K),
         NEW r \in Holder, NEW d \in Holder, d # r, T[d] = <<>>
  PROVE  Tables(p, [[T EXCEPT ![d] = T[r]] EXCEPT ![r] = <<>>],
                [[C EXCEPT ![d] = C[r]] EXCEPT ![r] = 0], [K EXCEPT ![d] = K[r]])
<1> DEFINE V == [T EXCEPT ![d] = T[r]]
           U == [V EXCEPT ![r] = <<>>]
           D == [[C EXCEPT ![d] = C[r]] EXCEPT ![r] = 0]
           L == [K EXCEPT ![d] = K[r]]
<1>1. /\ PoolOK(p) /\ T \in [Holder -> Seq(Block)] /\ C \in [Holder -> Nat]
      /\ K \in [Holder -> Seq(Token)]
      /\ RefsOK(p, T) /\ HashesOK(p, T, C, K) /\ SharingOK(T, C, K) /\ ChainsOK(p, T, C, K)
  BY Zenon DEF Tables, Typed
<1>2. V \in [Holder -> Seq(Block)] /\ V[d] = T[r] /\ \A x \in Holder \ {d} : V[x] = T[x]
  BY <1>1, ZenonT(30)
<1> HIDE DEF V
<1>3. /\ U \in [Holder -> Seq(Block)] /\ D \in [Holder -> Nat] /\ L \in [Holder -> Seq(Token)]
      /\ U[r] = <<>> /\ D[r] = 0 /\ L[r] = K[r]
      /\ U[d] = T[r] /\ D[d] = C[r] /\ L[d] = K[r]
      /\ \A x \in Holder \ {r, d} : U[x] = T[x] /\ D[x] = C[x] /\ L[x] = K[x]
      /\ \A x \in Holder \ {r} : U[x] = V[x]
  BY <1>1, <1>2, EmptySeq, ZenonT(30)
<1> HIDE DEF U, D, L
<1>4. Len(U[r]) = 0 /\ 1..Len(U[r]) = {} /\ 1..D[r] = {} /\ Elems(U[r]) = {} /\ Elems(T[d]) = {}
  BY SMTT(30), <1>3 DEF Elems
<1>5. ASSUME NEW x \in Holder \ {r}
      PROVE  \E y \in Holder : /\ y = (IF x = d THEN r ELSE x)
                               /\ U[x] = T[y] /\ D[x] = C[y] /\ L[x] = K[y]
  BY <1>3, Zenon
<1>6. RefsOK(p, U)
  <2>1. \A x \in Holder : Injective(U[x])
    <3>1. Injective(U[r])
      BY <1>4, Zenon DEF Injective
    <3>2. \A x \in Holder \ {r} : Injective(U[x])
      BY <1>1, <1>5, Zenon DEF RefsOK
    <3> QED BY <3>1, <3>2, Zenon
  <2>2. ASSUME NEW b \in Block PROVE p.ref_cnt[b] = Cardinality(Has(U, b))
    <3>1. p.ref_cnt[b] = Cardinality(Has(T, b)) /\ Cardinality(Has(T, b)) \in Nat
      BY <1>1, HoldersFinite, ZenonT(30) DEF RefsOK
    <3>2. CASE b \in Elems(T[r])
      <4>1. Cardinality(Has(V, b)) = Cardinality(Has(T, b)) + 1
        <5>1. b \in Elems(V[d]) /\ b \notin Elems(T[d])
          BY <1>2, <1>4, <3>2, Zenon
        <5> QED BY <1>1, <1>2, <5>1, HolderJoins, ZenonT(30)
      <4>2. b \in Elems(V[r]) /\ b \notin Elems(U[r])
        BY <1>2, <1>4, <3>2, Zenon
      <4>3. Cardinality(Has(U, b)) = Cardinality(Has(V, b)) - 1
        BY <1>2, <1>3, <4>2, HolderLeaves, ZenonT(30)
      <4> QED BY SMTT(30), <3>1, <4>1, <4>3
    <3>3. CASE b \notin Elems(T[r])
      <4>1. \A x \in Holder : b \in Elems(U[x]) <=> b \in Elems(T[x])
        BY <1>3, <1>4, <3>3, ZenonT(30)
      <4>2. Has(U, b) = Has(T, b)
        BY <4>1, Zenon DEF Has
      <4> QED BY <3>1, <4>2, Zenon
    <3> QED BY <3>2, <3>3, Zenon
  <2> QED BY <2>1, <2>2, Zenon DEF RefsOK
<1>7. HashesOK(p, U, D, L)
  <2> SUFFICES ASSUME NEW x \in Holder
               PROVE  /\ D[x] <= Len(U[x])
                      /\ D[x] * block_size <= Len(L[x])
                      /\ \A i \in 1..Len(U[x]) : p.block_hash[U[x][i]] # NoHash =>
                           i <= D[x] /\ p.block_hash[U[x][i]] = Prefix(L[x], i)
    BY Zenon DEF HashesOK
  <2>1. CASE x = r
    <3>1. block_size \in Nat /\ Len(L[r]) \in Nat
      BY <1>3, ManagerAssumption, LenProperties, Zenon
    <3>2. 0 * block_size <= Len(L[r]) /\ 0 <= 0
      BY SMTT(30), <3>1
    <3> QED BY <1>3, <1>4, <2>1, <3>2, Zenon
  <2>2. CASE x # r
    <3>1. PICK y \in Holder : U[x] = T[y] /\ D[x] = C[y] /\ L[x] = K[y]
      BY <1>5, <2>2, Zenon
    <3> QED BY <1>1, <3>1, ZenonT(30) DEF HashesOK
  <2> QED BY <2>1, <2>2, Zenon
<1>8. SharingOK(U, D, L)
  <2> SUFFICES ASSUME NEW x \in Holder, NEW y \in Holder,
                      NEW i \in 1..Len(U[x]), NEW j \in 1..Len(U[y]),
                      x # y, U[x][i] = U[y][j]
               PROVE  i = j /\ i <= D[x] /\ Prefix(L[x], i) = Prefix(L[y], i)
    BY SMTT(30) DEF SharingOK
  <2>1. x # r /\ y # r
    BY <1>4, Zenon
  <2>2. PICK v \in Holder : /\ v = (IF x = d THEN r ELSE x)
                            /\ U[x] = T[v] /\ D[x] = C[v] /\ L[x] = K[v]
    BY <1>5, <2>1, Zenon
  <2>3. PICK w \in Holder : /\ w = (IF y = d THEN r ELSE y)
                            /\ U[y] = T[w] /\ D[y] = C[w] /\ L[y] = K[w]
    BY <1>5, <2>1, Zenon
  <2>4. v # w
    BY <2>1, <2>2, <2>3, Zenon
  <2>5. i \in 1..Len(T[v]) /\ j \in 1..Len(T[w]) /\ T[v][i] = T[w][j]
    BY <2>2, <2>3, ZenonT(30)
  <2>6. i = j /\ i <= C[v] /\ Prefix(K[v], i) = Prefix(K[w], i)
    <3>1. SharingOK(T, C, K) /\ v \in Holder /\ w \in Holder
      BY <1>1, <2>2, <2>3, Zenon
    <3> QED BY ONLY SMTT(30), <2>4, <2>5, <3>1 DEF SharingOK
  <2> QED BY <2>2, <2>3, <2>6, Zenon
<1>9. ChainsOK(p, U, D, L)
  <2> SUFFICES ASSUME Reports = {} PROVE FullyHashed(p, U, D, L) /\ FreeChained(p)
    BY Zenon DEF ChainsOK
  <2>1. FullyHashed(p, T, C, K) /\ FreeChained(p)
    BY <1>1, Zenon DEF ChainsOK
  <2>2. ASSUME NEW x \in Holder \ {r}
        PROVE  \A i \in 1..D[x] : p.block_hash[U[x][i]] = Prefix(L[x], i)
    <3>1. PICK y \in Holder : U[x] = T[y] /\ D[x] = C[y] /\ L[x] = K[y]
      BY <1>5, Zenon
    <3> QED BY <2>1, <3>1, ZenonT(30) DEF FullyHashed
  <2>3. FullyHashed(p, U, D, L)
    BY <1>4, <2>2, Zenon DEF FullyHashed
  <2> QED BY <2>1, <2>3, Zenon
<1> QED BY <1>1, <1>3, <1>6, <1>7, <1>8, <1>9, Zenon DEF Tables, Typed, U, V, D, L
=============================================================================
