--------------------------- MODULE SchedulerProofs ---------------------------
(***************************************************************************)
(* Proofs about the scheduler: who owns a block, which blocks a batch in   *)
(* flight keeps, in which queue a request is, and what is counted.         *)
(***************************************************************************)
EXTENDS SchedulerTypes, SchedulerBlocks, SchedulerBatches, FiniteSetTheorems,
        SequenceTheorems, NaturalsInduction, WellFoundedInduction

-----------------------------------------------------------------------------
(* Keep(q, S) - how the code drops elements of a list, the others staying   *)
(* in their order - has the elements of q that are in S; f has their places *)
(* in q, and no element moves up but over those that are dropped.           *)
LEMMA KeepFacts ==
  ASSUME NEW T, NEW q \in Seq(T), NEW S
  PROVE  /\ Keep(q, S) \in Seq(T)
         /\ Elems(Keep(q, S)) = Elems(q) \cap S
         /\ Injective(q) => Injective(Keep(q, S))
         /\ Len(Keep(q, S)) = Cardinality(Places(q, S))
         /\ \E f \in [1..Len(Keep(q, S)) -> 1..Len(q)] :
              /\ \A k \in 1..Len(Keep(q, S)) : Keep(q, S)[k] = q[f[k]]
              /\ \A k, l \in 1..Len(Keep(q, S)) : k < l => f[k] < f[l]
         /\ \A i \in 1..Len(q) : q[i] \in S =>
              \E k \in 1..Len(Keep(q, S)) :
                /\ Keep(q, S)[k] = q[i] /\ k <= i
                /\ (\E p \in 1..i : q[p] \notin S) => k < i
<1> DEFINE I       == {i \in 1..Len(q) : q[i] \in S}
           n       == Cardinality(I)
           upTo(i) == {j \in I : j <= i}
           rank    == [i \in I |-> Cardinality(upTo(i))]
           at(k)   == CHOOSE i \in I : Cardinality(upTo(i)) = k
<1>1. IsFiniteSet(I) /\ n \in Nat
  <2>1. IsFiniteSet(1..Len(q))
    BY FS_Interval
  <2>2. IsFiniteSet(I)
    BY <2>1, FS_Subset, Zenon
  <2> QED BY <2>2, FS_CardinalityType, Zenon
<1>2. ASSUME NEW i \in I
      PROVE  IsFiniteSet(upTo(i)) /\ Cardinality(upTo(i)) \in 1..n
  <2>1. IsFiniteSet(upTo(i)) /\ Cardinality(upTo(i)) <= n
    BY <1>1, FS_Subset, upTo(i) \in SUBSET I, Zenon
  <2>2. i \in upTo(i)
    OBVIOUS
  <2>3. Cardinality(upTo(i)) # 0
    BY <2>1, <2>2, FS_EmptySet, SMTT(30)
  <2> QED BY <1>1, <2>1, <2>3, FS_CardinalityType
<1>3. ASSUME NEW i \in I, NEW j \in I, i < j, Cardinality(upTo(i)) = Cardinality(upTo(j))
      PROVE  FALSE
  <2>1. upTo(i) \in SUBSET upTo(j)
    BY <1>3
  <2>2. j \in upTo(j) /\ j \notin upTo(i)
    BY <1>3
  <2>3. upTo(i) = upTo(j)
    BY <1>2, <1>3, <2>1, FS_Subset, Zenon
  <2> QED BY <2>2, <2>3, Zenon
<1>4. \A i, j \in I : Cardinality(upTo(i)) = Cardinality(upTo(j)) => i = j
  BY SMTT(30), <1>3
<1>5. rank \in Injection(I, 1..n)
  BY <1>2, <1>4, Zenon DEF Injection, IsInjective
<1>6. rank \in Surjection(I, 1..n)
  <2>1. IsFiniteSet(1..n) /\ Cardinality(1..n) = n
    BY <1>1, FS_Interval
  <2> HIDE DEF rank, n
  <2> QED BY <1>1, <1>5, <2>1, FS_Injection, Zenon DEF n
<1>7. \A k \in 1..n : \E i \in I : Cardinality(upTo(i)) = k
  BY <1>6, Zenon DEF Surjection
<1>8. \A k \in 1..n : at(k) \in I /\ Cardinality(upTo(at(k))) = k
  BY <1>7, Zenon
<1>9. \A i \in I : at(Cardinality(upTo(i))) = i /\ Cardinality(upTo(i)) \in 1..n
  BY <1>2, <1>4, <1>8, Zenon
<1>10. Keep(q, S) = [k \in 1..n |-> q[at(k)]]
  BY Zenon DEF Keep
<1> HIDE DEF I, n, upTo, at
<1>11. \A k \in 1..n : at(k) \in 1..Len(q) /\ q[at(k)] \in S
  BY <1>8, Zenon DEF I
<1>12. Keep(q, S) \in Seq(T) /\ Len(Keep(q, S)) = n
  BY <1>1, <1>10, <1>11
<1>13. Elems(Keep(q, S)) \subseteq Elems(q) \cap S
  BY <1>10, <1>11, <1>12, Zenon DEF Elems
<1>14. Elems(q) \cap S \subseteq Elems(Keep(q, S))
  <2> SUFFICES ASSUME NEW x \in Elems(q), x \in S
               PROVE  x \in Elems(Keep(q, S))
    BY Zenon
  <2>1. PICK i \in 1..Len(q) : x = q[i]
    BY Zenon DEF Elems
  <2>2. i \in I
    BY <2>1, Zenon DEF I
  <2>3. PICK k \in 1..n : at(k) = i
    BY <2>2, <1>9, Zenon
  <2> QED BY <2>1, <2>3, <1>10, <1>12, Zenon DEF Elems
<1>15. ASSUME Injective(q) PROVE Injective(Keep(q, S))
  <2> SUFFICES ASSUME NEW k \in 1..n, NEW l \in 1..n, q[at(k)] = q[at(l)]
               PROVE  k = l
    BY <1>10, <1>12, ZenonT(30) DEF Injective
  <2>1. at(k) = at(l)
    BY <1>11, <1>15, Zenon DEF Injective
  <2> QED BY <2>1, <1>8, Zenon
<1>16. ASSUME NEW k \in 1..n, NEW l \in 1..n, k < l PROVE at(k) < at(l)
  <2>1. at(k) \in I /\ at(l) \in I /\ at(k) \in Int /\ at(l) \in Int
    BY <1>8, <1>11
  <2>2. ASSUME at(l) <= at(k) PROVE FALSE
    <3>1. upTo(at(l)) \in SUBSET upTo(at(k))
      BY <2>1, <2>2 DEF upTo, I
    <3>2. IsFiniteSet(upTo(at(k)))
      BY <1>2, <2>1, Zenon
    <3>3. Cardinality(upTo(at(l))) <= Cardinality(upTo(at(k)))
      BY <3>1, <3>2, FS_Subset, Zenon
    <3>4. Cardinality(upTo(at(l))) = l /\ Cardinality(upTo(at(k))) = k
      BY <1>8, Zenon
    <3> QED BY <1>1, <1>16, <3>3, <3>4
  <2> QED BY <2>1, <2>2
<1>17. \E f \in [1..n -> 1..Len(q)] :
         /\ \A k \in 1..n : Keep(q, S)[k] = q[f[k]]
         /\ \A k, l \in 1..n : k < l => f[k] < f[l]
  <2> DEFINE f == [k \in 1..n |-> at(k)]
  <2>1. f \in [1..n -> 1..Len(q)]
    BY <1>11, Zenon
  <2>2. \A k \in 1..n : Keep(q, S)[k] = q[f[k]]
    BY <1>10, Zenon
  <2>3. \A k, l \in 1..n : k < l => f[k] < f[l]
    BY <1>16, Zenon
  <2> QED BY <2>1, <2>2, <2>3, Zenon
<1>18. ASSUME NEW i \in 1..Len(q), q[i] \in S
       PROVE  \E k \in 1..n : /\ Keep(q, S)[k] = q[i] /\ k <= i
                              /\ (\E p \in 1..i : q[p] \notin S) => k < i
  <2> DEFINE k == Cardinality(upTo(i))
  <2>1. i \in I /\ i \in Nat
    BY <1>18 DEF I
  <2>2. k \in 1..n /\ at(k) = i
    BY <1>9, <2>1, Zenon
  <2>3. upTo(i) \in SUBSET (1..i)
    BY <2>1 DEF upTo, I
  <2>4. IsFiniteSet(1..i) /\ Cardinality(1..i) = i
    BY SMTT(30), <2>1, FS_Interval
  <2>5. k <= i
    BY <2>3, <2>4, FS_Subset, ZenonT(30)
  <2>6. ASSUME NEW p \in 1..i, q[p] \notin S PROVE k < i
    <3>1. upTo(i) \in SUBSET (1..i \ {p})
      BY <2>3, <2>6, Zenon DEF upTo, I
    <3>2. IsFiniteSet(1..i \ {p}) /\ Cardinality(1..i \ {p}) = i - 1
      BY <2>4, FS_RemoveElement, Zenon
    <3>3. k <= i - 1
      BY <3>1, <3>2, FS_Subset
    <3> QED BY <1>1, <2>1, <2>2, <3>3
  <2>7. Keep(q, S)[k] = q[i]
    BY <1>10, <2>2, Zenon
  <2> HIDE DEF k
  <2> QED BY <2>2, <2>5, <2>6, <2>7, Zenon
<1> HIDE DEF I
<1>19. Len(Keep(q, S)) = n /\ Keep(q, S) \in Seq(T)
  BY <1>12, Zenon
<1> QED BY <1>13, <1>14, <1>15, <1>17, <1>18, <1>19, Zenon DEF n, I, Places

LEMMA KeepElems ==
  ASSUME NEW T, NEW q \in Seq(T), NEW S
  PROVE  /\ Keep(q, S) \in Seq(T)
         /\ Elems(Keep(q, S)) = Elems(q) \cap S
         /\ Injective(q) => Injective(Keep(q, S))
         /\ Len(Keep(q, S)) = Cardinality(Places(q, S))
BY KeepFacts, Zenon

(* What a concatenation has, and that it has it once.                       *)
LEMMA ConcatElems ==
  ASSUME NEW T, NEW x \in Seq(T), NEW y \in Seq(T)
  PROVE  /\ x \o y \in Seq(T)
         /\ Elems(x \o y) = Elems(x) \cup Elems(y)
         /\ Injective(x) /\ Injective(y) /\ Elems(x) \cap Elems(y) = {}
              => Injective(x \o y)
<1> DEFINE z == x \o y
<1>1. /\ z \in Seq(T) /\ Len(z) = Len(x) + Len(y)
      /\ \A i \in 1..Len(x) + Len(y) : z[i] = IF i <= Len(x) THEN x[i] ELSE y[i - Len(x)]
      /\ Len(x) \in Nat /\ Len(y) \in Nat
  BY ConcatProperties
<1> HIDE DEF z
<1>2. ASSUME NEW i \in 1..Len(x) + Len(y) PROVE z[i] \in Elems(x) \cup Elems(y)
  <2>1. CASE i <= Len(x)
    BY <1>1, <2>1 DEF Elems
  <2>2. CASE i > Len(x)
    BY <1>1, <2>2, i - Len(x) \in 1..Len(y) DEF Elems
  <2> QED BY <1>1, <2>1, <2>2
<1>3. ASSUME NEW i \in 1..Len(x) PROVE x[i] \in Elems(z)
  <2>1. i \in 1..Len(z) /\ z[i] = x[i]
    BY <1>1
  <2> QED BY <2>1, Zenon DEF Elems
<1>4. ASSUME NEW i \in 1..Len(y) PROVE y[i] \in Elems(z)
  <2>1. /\ Len(x) + i \in 1..Len(x) + Len(y)
        /\ ~(Len(x) + i <= Len(x)) /\ (Len(x) + i) - Len(x) = i
    BY <1>1
  <2>2. Len(x) + i \in 1..Len(z) /\ z[Len(x) + i] = y[(Len(x) + i) - Len(x)]
    BY <1>1, <2>1, Zenon
  <2> QED BY <2>1, <2>2, Zenon DEF Elems
<1>5. Elems(z) = Elems(x) \cup Elems(y)
  BY ZenonT(30), <1>1, <1>2, <1>3, <1>4 DEF Elems
<1>6. ASSUME Injective(x), Injective(y), Elems(x) \cap Elems(y) = {},
             NEW i \in 1..Len(z), NEW j \in 1..Len(z), z[i] = z[j]
      PROVE  i = j
  <2>1. \A k \in 1..Len(x), l \in 1..Len(y) : x[k] # y[l]
    BY <1>6, Zenon DEF Elems
  <2>2. CASE i <= Len(x) /\ j <= Len(x)
    BY SMTT(30), <1>1, <1>6, <2>2 DEF Injective
  <2>3. CASE i > Len(x) /\ j > Len(x)
    <3>1. i - Len(x) \in 1..Len(y) /\ j - Len(x) \in 1..Len(y)
      BY <1>1, <2>3
    <3>2. y[i - Len(x)] = y[j - Len(x)]
      BY SMTT(30), <1>1, <1>6, <2>3
    <3>3. i - Len(x) = j - Len(x)
      BY <1>6, <3>1, <3>2, Zenon DEF Injective
    <3> QED BY <1>1, <3>3
  <2>4. CASE i <= Len(x) /\ j > Len(x)
    <3>1. i \in 1..Len(x) /\ j - Len(x) \in 1..Len(y)
      BY SMTT(30), <1>1, <2>4
    <3>2. x[i] = y[j - Len(x)]
      BY <1>1, <1>6, <2>4
    <3> QED BY <2>1, <3>1, <3>2, Zenon
  <2>5. CASE i > Len(x) /\ j <= Len(x)
    <3>1. j \in 1..Len(x) /\ i - Len(x) \in 1..Len(y)
      BY <1>1, <2>5
    <3>2. x[j] = y[i - Len(x)]
      BY <1>1, <1>6, <2>5
    <3> QED BY <2>1, <3>1, <3>2, SMTT(30)
  <2> QED BY <1>1, <2>2, <2>3, <2>4, <2>5
<1>7. Injective(x) /\ Injective(y) /\ Elems(x) \cap Elems(y) = {} => Injective(z)
  BY <1>6, Zenon DEF Injective
<1> QED BY <1>1, <1>5, <1>7, Zenon DEF z

(* The first k elements of a list, and the others.                          *)
LEMMA SplitElems ==
  ASSUME NEW T, NEW q \in Seq(T), NEW k \in 0..Len(q)
  PROVE  LET x == SubSeq(q, 1, k)
             y == SubSeq(q, k + 1, Len(q))
         IN /\ x \in Seq(T) /\ Len(x) = k /\ \A i \in 1..k : x[i] = q[i]
            /\ y \in Seq(T) /\ Len(y) = Len(q) - k
            /\ \A i \in 1..Len(q) - k : y[i] = q[k + i]
            /\ Elems(q) = Elems(x) \cup Elems(y)
            /\ Injective(q) => /\ Injective(x) /\ Injective(y)
                               /\ Elems(x) \cap Elems(y) = {}
<1> DEFINE m == Len(q)
           x == SubSeq(q, 1, k)
           y == SubSeq(q, k + 1, m)
<1>1. m \in Nat /\ k \in Nat /\ k <= m /\ q \in [1..m -> T]
  BY LenProperties
<1>2. x \in Seq(T) /\ Len(x) = k /\ \A i \in 1..k : x[i] = q[i]
  BY SMTT(30), <1>1, SubSeqProperties
<1> HIDE DEF x, m
<1>3. y \in Seq(T) /\ Len(y) = m - k /\ \A i \in 1..m - k : y[i] = q[k + i]
  <2>1. k + 1 \in Int /\ m \in Int /\ \A i \in k + 1..m : q[i] \in T
    BY <1>1
  <2>2. /\ y \in Seq(T) /\ Len(y) = IF k + 1 <= m THEN m - (k + 1) + 1 ELSE 0
        /\ \A i \in 1..m - (k + 1) + 1 : y[i] = q[(k + 1) + i - 1]
    BY <2>1, SubSeqProperties
  <2> HIDE DEF y
  <2>3. Len(y) = m - k /\ m - (k + 1) + 1 = m - k
    BY <1>1, <2>2
  <2>4. \A i \in 1..m - k : (k + 1) + i - 1 = k + i
    BY <1>1
  <2> QED BY <2>2, <2>3, <2>4, Zenon
<1> HIDE DEF x, y, m
<1>4. \A i \in 1..k : i \in 1..m /\ x[i] = q[i]
  BY SMTT(30), <1>1, <1>2
<1>5. \A i \in 1..m - k : k + i \in 1..m /\ y[i] = q[k + i]
  BY SMTT(30), <1>1, <1>3
<1>6. \A i \in 1..m : \/ i \in 1..k /\ q[i] = x[i]
                      \/ i - k \in 1..m - k /\ q[i] = y[i - k]
  BY <1>1, <1>2, <1>3
<1>7. Elems(q) = Elems(x) \cup Elems(y)
  <2>1. Elems(x) = {x[i] : i \in 1..k} /\ Elems(y) = {y[i] : i \in 1..m - k}
        /\ Elems(q) = {q[i] : i \in 1..m}
    BY <1>2, <1>3, Zenon DEF Elems, m
  <2> QED BY SMTT(30), <1>4, <1>5, <1>6, <2>1
<1>8. ASSUME Injective(q)
      PROVE  Injective(x) /\ Injective(y) /\ Elems(x) \cap Elems(y) = {}
  <2>1. \A i, j \in 1..m : q[i] = q[j] => i = j
    BY <1>8, Zenon DEF Injective, m
  <2>2. Injective(x)
    BY <1>2, <1>4, <2>1, Zenon DEF Injective
  <2>3. Injective(y)
    <3> SUFFICES ASSUME NEW i \in 1..m - k, NEW j \in 1..m - k, y[i] = y[j]
                 PROVE  i = j
      BY <1>3, Zenon DEF Injective
    <3>1. k + i = k + j
      BY <1>5, <2>1, Zenon
    <3> QED BY <1>1, <3>1
  <2>4. ASSUME NEW i \in 1..k, NEW j \in 1..m - k, x[i] = y[j]
        PROVE  FALSE
    <3>1. i = k + j
      BY <1>4, <1>5, <2>1, <2>4, ZenonT(30)
    <3> QED BY <1>1, <3>1
  <2> QED BY <1>2, <1>3, <2>2, <2>3, <2>4 DEF Elems
<1> QED BY <1>2, <1>3, <1>7, <1>8, Zenon DEF x, y, m

(* A list of one element.                                                   *)
LEMMA OneElem ==
  ASSUME NEW T, NEW x \in T
  PROVE  <<x>> \in Seq(T) /\ Len(<<x>>) = 1 /\ Elems(<<x>>) = {x} /\ Injective(<<x>>)
<1>1. <<x>> \in Seq(T) /\ Len(<<x>>) = 1 /\ <<x>>[1] = x
  OBVIOUS
<1>2. Elems(<<x>>) = {x}
  <2>1. 1..1 = {1}
    OBVIOUS
  <2> QED BY <1>1, <2>1, Zenon DEF Elems
<1>3. Injective(<<x>>)
  BY <1>1 DEF Injective
<1> QED BY <1>1, <1>2, <1>3, Zenon

(* append, of a list.                                                       *)
LEMMA AppendElems ==
  ASSUME NEW T, NEW q \in Seq(T), NEW x \in T
  PROVE  /\ Append(q, x) \in Seq(T)
         /\ Elems(Append(q, x)) = Elems(q) \cup {x}
         /\ Injective(q) /\ x \notin Elems(q) => Injective(Append(q, x))
<1>1. Append(q, x) = q \o <<x>>
  BY AppendIsConcat, Zenon
<1>2. <<x>> \in Seq(T) /\ Elems(<<x>>) = {x} /\ Injective(<<x>>)
  BY OneElem, Zenon
<1>3. /\ q \o <<x>> \in Seq(T)
      /\ Elems(q \o <<x>>) = Elems(q) \cup Elems(<<x>>)
      /\ Injective(q) /\ Injective(<<x>>) /\ Elems(q) \cap Elems(<<x>>) = {}
           => Injective(q \o <<x>>)
  BY <1>2, ConcatElems, Zenon
<1>4. x \notin Elems(q) => Elems(q) \cap {x} = {}
  BY Zenon
<1> QED BY <1>1, <1>2, <1>3, <1>4, Zenon

(* insert, of a list.                                                       *)
LEMMA InsertElems ==
  ASSUME NEW T, NEW q \in Seq(T), NEW x \in T, NEW k \in 0..Len(q)
  PROVE  LET z == SubSeq(q, 1, k) \o <<x>> \o SubSeq(q, k + 1, Len(q))
         IN /\ z \in Seq(T)
            /\ Elems(z) = Elems(q) \cup {x}
            /\ Injective(q) /\ x \notin Elems(q) => Injective(z)
<1> DEFINE a == SubSeq(q, 1, k)
           b == SubSeq(q, k + 1, Len(q))
           c == a \o <<x>>
<1>1. /\ a \in Seq(T) /\ b \in Seq(T)
      /\ Elems(q) = Elems(a) \cup Elems(b)
      /\ Injective(q) => Injective(a) /\ Injective(b) /\ Elems(a) \cap Elems(b) = {}
  BY SplitElems, Zenon
<1>2. <<x>> \in Seq(T) /\ Elems(<<x>>) = {x} /\ Injective(<<x>>)
  BY OneElem, Zenon
<1> HIDE DEF a, b
<1>3. /\ c \in Seq(T) /\ Elems(c) = Elems(a) \cup {x}
      /\ Injective(a) /\ x \notin Elems(a) => Injective(c)
  <2>1. /\ c \in Seq(T) /\ Elems(c) = Elems(a) \cup Elems(<<x>>)
        /\ Injective(a) /\ Injective(<<x>>) /\ Elems(a) \cap Elems(<<x>>) = {}
             => Injective(c)
    <3>1. a \in Seq(T) /\ <<x>> \in Seq(T)
      BY <1>1, <1>2, Zenon
    <3> QED BY <3>1, ConcatElems, ZenonT(30)
  <2>2. x \notin Elems(a) => Elems(a) \cap {x} = {}
    BY Zenon
  <2> QED BY <1>2, <2>1, <2>2, Zenon
<1> HIDE DEF c
<1>4. /\ c \o b \in Seq(T) /\ Elems(c \o b) = Elems(c) \cup Elems(b)
      /\ Injective(c) /\ Injective(b) /\ Elems(c) \cap Elems(b) = {}
           => Injective(c \o b)
  <2>1. c \in Seq(T) /\ b \in Seq(T)
    BY <1>1, <1>3, Zenon
  <2> QED BY <2>1, ConcatElems, ZenonT(30)
<1>5. Elems(c \o b) = Elems(q) \cup {x}
  BY <1>1, <1>3, <1>4, Zenon
<1>6. ASSUME Injective(q), x \notin Elems(q) PROVE Injective(c \o b)
  <2>1. Elems(c) \cap Elems(b) = {} /\ x \notin Elems(a)
    BY <1>1, <1>3, <1>6, Zenon
  <2> QED BY <1>1, <1>3, <1>4, <1>6, <2>1, Zenon
<1> QED BY <1>4, <1>5, <1>6, Zenon DEF a, b, c

(* popleft, of a list.                                                      *)
LEMMA TailElems ==
  ASSUME NEW T, NEW q \in Seq(T), q # <<>>
  PROVE  /\ Head(q) \in T /\ Head(q) = q[1] /\ Tail(q) \in Seq(T)
         /\ Len(Tail(q)) = Len(q) - 1
         /\ \A i \in 1..Len(q) - 1 : Tail(q)[i] = q[i + 1]
         /\ Elems(q) = {Head(q)} \cup Elems(Tail(q))
         /\ Injective(q) => Injective(Tail(q)) /\ Head(q) \notin Elems(Tail(q))
<1>1. Len(q) \in Nat \ {0}
  BY EmptySeq, Zenon
<1>2. /\ Head(q) \in T /\ Tail(q) \in Seq(T) /\ Len(Tail(q)) = Len(q) - 1
      /\ \A i \in 1..Len(Tail(q)) : Tail(q)[i] = q[i + 1]
  BY HeadTailProperties, Zenon
<1>3. Head(q) = q[1]
  BY <1>1
<1> DEFINE h == Head(q)
           r == Tail(q)
           m == Len(q)
<1> HIDE DEF h, r, m
<1>4. /\ m \in Nat \ {0} /\ r \in Seq(T) /\ Len(r) = m - 1 /\ h = q[1] /\ Len(q) = m
      /\ \A i \in 1..m - 1 : r[i] = q[i + 1]
  BY <1>1, <1>2, <1>3, Zenon DEF h, r, m
<1>5. Elems(q) = {h} \cup Elems(r)
  <2>1. Elems(q) = {q[i] : i \in 1..m} /\ Elems(r) = {r[i] : i \in 1..m - 1}
    BY <1>4, Zenon DEF Elems
  <2>2. \A i \in 1..m : i = 1 \/ (i - 1 \in 1..m - 1 /\ q[i] = r[i - 1])
    BY <1>4
  <2>3. \A i \in 1..m - 1 : i + 1 \in 1..m /\ r[i] = q[i + 1]
    BY <1>4
  <2>4. 1 \in 1..m
    BY <1>4
  <2>5. \A i \in 1..m : q[i] \in {h} \cup Elems(r)
    BY <1>4, <2>1, <2>2, Zenon
  <2>6. \A i \in 1..m - 1 : r[i] \in Elems(q)
    BY <2>1, <2>3, Zenon
  <2>7. h \in Elems(q)
    BY <1>4, <2>1, <2>4, Zenon
  <2> QED BY <2>1, <2>5, <2>6, <2>7, Zenon
<1>6. ASSUME Injective(q) PROVE Injective(r) /\ h \notin Elems(r)
  <2>1. \A i, j \in 1..m : q[i] = q[j] => i = j
    BY <1>4, <1>6, Zenon DEF Injective
  <2>2. \A i \in 1..m - 1 : i + 1 \in 1..m /\ r[i] = q[i + 1] /\ i + 1 # 1
    BY <1>4
  <2>3. \A i, j \in 1..m - 1 : r[i] = r[j] => i = j
    <3> SUFFICES ASSUME NEW i \in 1..m - 1, NEW j \in 1..m - 1, r[i] = r[j] PROVE i = j
      BY Zenon
    <3>1. i + 1 = j + 1
      BY <2>1, <2>2, ZenonT(30)
    <3> QED BY <3>1, <1>4
  <2>4. h \notin Elems(r)
    BY <1>4, <2>1, <2>2, 1 \in 1..m DEF Elems
  <2> QED BY <1>4, <2>3, <2>4, Zenon DEF Injective
<1> QED BY <1>4, <1>5, <1>6, <1>2, Zenon DEF h, r, m

(* A list without repetition is as long as it has elements.                 *)
LEMMA InjectiveLen ==
  ASSUME NEW T, NEW q \in Seq(T), Injective(q)
  PROVE  IsFiniteSet(Elems(q)) /\ Cardinality(Elems(q)) = Len(q)
<1>1. Len(q) \in Nat /\ q \in [1..Len(q) -> Elems(q)]
  BY LenProperties, Zenon DEF Elems
<1>2. q \in Bijection(1..Len(q), Elems(q))
  BY <1>1, Zenon DEF Bijection, Injection, Surjection, IsInjective, Injective, Elems
<1>3. ExistsBijection(1..Len(q), Elems(q))
  BY <1>2, Zenon DEF ExistsBijection
<1>4. IsFiniteSet(1..Len(q)) /\ Cardinality(1..Len(q)) = Len(q)
  BY SMTT(30), <1>1, FS_Interval
<1> QED BY <1>3, <1>4, FS_Bijection, Zenon

(* A finite set has a subset of every size up to its own.                   *)
LEMMA SubsetOfSize ==
  ASSUME NEW S, IsFiniteSet(S), NEW n \in Nat, n <= Cardinality(S)
  PROVE  \E U \in SUBSET S : Cardinality(U) = n
<1>1. Cardinality(S) \in Nat /\ ExistsBijection(1..Cardinality(S), S)
  BY FS_CardinalityType, Zenon
<1>2. PICK f : f \in Bijection(1..Cardinality(S), S)
  BY <1>1, Zenon DEF ExistsBijection
<1> DEFINE U == {f[i] : i \in 1..n}
           g == [i \in 1..n |-> f[i]]
<1>3. /\ f \in [1..Cardinality(S) -> S]
      /\ \A i, j \in 1..Cardinality(S) : f[i] = f[j] => i = j
  BY <1>2, Zenon DEF Bijection, Injection, IsInjective
<1>4. \A i \in 1..n : i \in 1..Cardinality(S)
  BY <1>1
<1>5. U \in SUBSET S
  BY <1>3, <1>4, Zenon
<1>6. g \in Bijection(1..n, U)
  BY <1>3, <1>4, Zenon DEF Bijection, Injection, Surjection, IsInjective
<1>7. ExistsBijection(1..n, U)
  BY <1>6, Zenon DEF ExistsBijection
<1>8. IsFiniteSet(1..n) /\ Cardinality(1..n) = n
  BY FS_Interval
<1>9. Cardinality(U) = n
  BY <1>7, <1>8, FS_Bijection, Zenon
<1> QED BY <1>5, <1>9, Zenon

(* Induction on the natural numbers, for a set that has them.               *)
LEMMA NatInSet ==
  ASSUME NEW S, 0 \in S, \A n \in Nat : n \in S => n + 1 \in S
  PROVE  Nat \subseteq S
<1> DEFINE D == Nat \ S
           R == OpToRel(<, Nat)
<1> SUFFICES ASSUME D # {} PROVE FALSE
  BY Zenon
<1>1. \E d \in D : \A e \in D : ~(<<e, d>> \in R)
  <2>1. IsWellFoundedOn(R, Nat)
    BY NatLessThanWellFounded, Zenon
  <2>2. D \subseteq Nat
    BY Zenon
  <2> HIDE DEF R, D
  <2> QED BY <2>1, <2>2, WFMin, Zenon
<1>2. PICK d \in D : \A e \in D : ~(<<e, d>> \in R)
  BY <1>1, Zenon
<1>3. \A e \in D : ~(e < d)
  BY <1>2, Zenon DEF OpToRel
<1>4. d \in Nat /\ d # 0
  BY Zenon
<1>5. d - 1 \in Nat /\ d - 1 < d /\ (d - 1) + 1 = d
  BY <1>4
<1>6. d - 1 \in S
  BY <1>3, <1>5, Zenon
<1> QED BY <1>5, <1>6, Zenon

(* A bounded set of natural numbers that is not empty has a greatest one.   *)
LEMMA HasGreatest ==
  ASSUME NEW m \in Nat, NEW S \in SUBSET (0..m), S # {}
  PROVE  \E k \in S : \A l \in S : l <= k
<1> DEFINE D == {d \in Nat : m - d \in S}
           R == OpToRel(<, Nat)
<1>1. D \subseteq Nat /\ D # {}
  <2>1. PICK k \in S : TRUE
    BY Zenon
  <2>2. m - k \in Nat /\ m - (m - k) = k
    BY <2>1
  <2>3. m - k \in D
    BY <2>1, <2>2, Zenon
  <2> QED BY <2>3, Zenon
<1>2. \E d \in D : \A e \in D : ~(<<e, d>> \in R)
  <2> HIDE DEF D
  <2>1. IsWellFoundedOn(R, Nat)
    BY NatLessThanWellFounded, Zenon
  <2> HIDE DEF R
  <2> QED BY <1>1, <2>1, WFMin, Zenon
<1>3. PICK d \in D : \A e \in D : ~(<<e, d>> \in R)
  BY <1>2, Zenon
<1>4. \A e \in D : ~(e < d)
  BY <1>1, <1>3, Zenon DEF OpToRel
<1>5. ASSUME NEW l \in S PROVE l <= m - d
  <2>1. m - l \in Nat /\ m - (m - l) = l
    OBVIOUS
  <2>2. m - l \in D
    BY <2>1, Zenon
  <2> QED BY SMTT(30), <1>4, <2>1, <2>2
<1> QED BY <1>5, Zenon


(* All but the last element.                                                *)
LEMMA FrontElems ==
  ASSUME NEW T, NEW q \in Seq(T), q # <<>>
  PROVE  LET n == Len(q)
             x == SubSeq(q, 1, n - 1)
         IN /\ n \in Nat \ {0} /\ q[n] \in T /\ q[n] \in Elems(q)
            /\ x \in Seq(T) /\ Len(x) = n - 1 /\ \A i \in 1..n - 1 : x[i] = q[i]
            /\ Elems(q) = Elems(x) \cup {q[n]}
            /\ Injective(q) => Injective(x) /\ Elems(x) = Elems(q) \ {q[n]}
<1> DEFINE n == Len(q)
           x == SubSeq(q, 1, n - 1)
<1>1. n \in Nat \ {0}
  BY EmptySeq, LenProperties, Zenon
<1>2. q \in Seq(T) /\ n - 1 \in 0..Len(q) /\ n \in 1..n
  BY <1>1
<1>3. /\ x \in Seq(T) /\ Len(x) = n - 1 /\ \A i \in 1..n - 1 : x[i] = q[i]
      /\ Injective(q) => Injective(x)
  <2> DEFINE m == n - 1
  <2>1. q \in Seq(T) /\ m \in 0..Len(q) /\ x = SubSeq(q, 1, m)
    BY <1>2, Zenon
  <2> HIDE DEF m, x
  <2>2. /\ x \in Seq(T) /\ Len(x) = m /\ \A i \in 1..m : x[i] = q[i]
        /\ Injective(q) => Injective(x)
    BY SMTT(30), <2>1, SplitElems
  <2> QED BY <2>2, Zenon DEF m
<1> HIDE DEF x
<1>4. Elems(q) = Elems(x) \cup {q[n]}
  <2>1. \A i \in 1..n : i \in 1..n - 1 \/ i = n
    BY SMTT(30), <1>1
  <2>2. \A i \in 1..n - 1 : i \in 1..n
    BY <1>1
  <2> QED BY <1>2, <1>3, <2>1, <2>2, Zenon DEF Elems
<1>5. ASSUME Injective(q) PROVE q[n] \notin Elems(x)
  <2> SUFFICES ASSUME NEW i \in 1..n - 1, q[n] = x[i] PROVE FALSE
    BY <1>3, Zenon DEF Elems
  <2>1. i \in 1..n /\ i # n /\ q[i] = q[n]
    BY <1>1, <1>3
  <2> QED BY <1>2, <1>5, <2>1, Zenon DEF Injective
<1>6. q[n] \in T /\ q[n] \in Elems(q)
  BY <1>2 DEF Elems
<1> QED BY <1>1, <1>3, <1>4, <1>5, <1>6, Zenon DEF x
-----------------------------------------------------------------------------
(* The facts that the proofs about the scheduler start from.                *)
THEOREM ListFactsHold == ListFacts
<1>1. LenFact
  BY LenProperties, Zenon DEF LenFact
<1>2. EmptySeqFact
  BY EmptySeq, Zenon DEF EmptySeqFact
<1>3. HeadTailFact
  BY HeadTailProperties, Zenon DEF HeadTailFact
<1>4. AppendFact
  BY AppendProperties DEF AppendFact
<1>5. ConcatFact
  BY ConcatProperties, Zenon DEF ConcatFact
<1>6. CardinalityFact
  BY FS_CardinalityType, Zenon DEF CardinalityFact
<1>7. EmptySetFact
  BY FS_EmptySet, Zenon DEF EmptySetFact
<1>8. SingletonFact
  BY FS_Singleton, Zenon DEF SingletonFact
<1>9. IntervalFact
  BY FS_Interval, Zenon DEF IntervalFact
<1>10. SubsetFact
  BY FS_Subset, Zenon DEF SubsetFact
<1>11. UnionFact
  BY FS_Union, Zenon DEF UnionFact
<1>12. AddElementFact
  BY FS_AddElement, Zenon DEF AddElementFact
<1>13. RemoveElementFact
  BY FS_RemoveElement, Zenon DEF RemoveElementFact
<1>14. KeepFact
  BY KeepFacts, ZenonT(30) DEF KeepFact
<1>15. KeepElemsFact
  BY KeepElems, Zenon DEF KeepElemsFact
<1>16. ConcatElemsFact
  BY ConcatElems, Zenon DEF ConcatElemsFact
<1>17. SplitElemsFact
  BY SplitElems, Zenon DEF SplitElemsFact
<1>18. OneElemFact
  BY OneElem, Zenon DEF OneElemFact
<1>19. AppendElemsFact
  BY AppendElems, Zenon DEF AppendElemsFact
<1>20. InsertElemsFact
  BY InsertElems, Zenon DEF InsertElemsFact
<1>21. TailElemsFact
  BY TailElems, Zenon DEF TailElemsFact
<1>22. InjectiveLenFact
  BY InjectiveLen, Zenon DEF InjectiveLenFact
<1>23. SubsetOfSizeFact
  BY SubsetOfSize, Zenon DEF SubsetOfSizeFact
<1>24. NatInSetFact
  BY NatInSet, Zenon DEF NatInSetFact
<1>25. HasGreatestFact
  BY HasGreatest, Zenon DEF HasGreatestFact
<1>26. FrontElemsFact
  BY FrontElems, Zenon DEF FrontElemsFact
<1> QED BY ZenonT(30), <1>1, <1>2, <1>3, <1>4, <1>5, <1>6, <1>7, <1>8, <1>9, <1>10, <1>11, <1>12,
      <1>13, <1>14, <1>15, <1>16, <1>17, <1>18, <1>19, <1>20, <1>21, <1>22, <1>23,
      <1>24, <1>25, <1>26, Zenon DEF ListFacts

-----------------------------------------------------------------------------
(* What the layers of the invariant take as hypotheses holds.               *)
LEMMA Hypotheses ==
  ASSUME TInv
  PROVE  ListFacts /\ Facts /\ Effects
<1>1. ListFacts /\ Facts
  BY ListFactsHold, FactsHold, ZenonT(30)
<1> QED BY <1>1, EffectsHold, ZenonT(30)

-----------------------------------------------------------------------------
IInv == TInv /\ BInv /\ (Orderly => QInv)

\* The inductive invariant, wherever the victim of a preemption is certain.
LEMMA Inductive ==
  ASSUME policy = "fcfs" \/ Orderly
  PROVE  Spec => []IInv
<1>1. Init => IInv
  BY ListFactsHold, GoneFacts, InitType, BlockInit, QueueStart, BatchStart, ZenonT(30) DEF IInv, QInv
<1>2. IInv /\ [Next]_vars => IInv'
  <2> SUFFICES ASSUME IInv, [Next]_vars PROVE IInv'
    BY SMTT(30)
  <2>0. ListFacts /\ Facts /\ Effects
    BY Hypotheses, ZenonT(30) DEF IInv
  <2>1. TInv /\ BInv /\ (Orderly => QInv)
    BY Zenon DEF IInv
  <2>2. VictimOK
    <3>1. CASE policy = "fcfs"
      BY SMTT(30), <3>1 DEF VictimOK
    <3>2. CASE Orderly
      BY <2>0, <2>1, <3>2, VictimFound, ZenonT(30)
    <3> QED BY SMTT(30), <3>1, <3>2
  <2>3. TInv'
    BY <2>0, <2>1, <2>2, TypeStep, ZenonT(30)
  <2>4. BInv'
    BY <2>0, <2>1, <2>2, <2>3, BlockStep, ZenonT(30)
  <2>5. ASSUME Orderly PROVE QInv'
    <3>1. Owned /\ QInv
      BY <2>1, <2>5, ZenonT(30) DEF BInv
    <3>2. QueueInv' /\ StepInv'
      BY <2>0, <2>1, <2>2, <2>3, <2>5, <3>1, QueueStep, ZenonT(30)
    <3>3. FlightInv' /\ LoadInv' /\ NoSessionInv' /\ OrderInv'
      BY <2>0, <2>1, <2>2, <2>3, <2>5, <3>1, <3>2, BatchStep, ZenonT(30)
    <3> QED BY <3>2, <3>3, ZenonT(30) DEF QInv
  <2> QED BY <2>3, <2>4, <2>5, ZenonT(30) DEF IInv
<1> QED BY <1>1, <1>2, PTL DEF Spec

\* Every block is free, or deferred once, or in one table: whatever the order
\* of preemptions, resets, aborts, stops and loads, the scheduler neither
\* leaks a block nor gives it to two requests.
THEOREM SchedulerOneOwner ==
  ASSUME policy = "fcfs" \/ Orderly
  PROVE  Spec => []OneOwner
<1>1. IInv => OneOwner
  BY ListFactsHold, OwnedOnce, ZenonT(30) DEF IInv, BInv, TInv
<1> QED BY <1>1, Inductive, PTL

\* With deferred frees (defer_block_free), a block that a batch in flight
\* reads or writes is not free and in no other table, for as long as it takes.
THEOREM SchedulerInFlightBlocksKept ==
  ASSUME policy = "fcfs" \/ Orderly
  PROVE  Spec => []InFlightBlocksKept
<1>1. IInv => InFlightBlocksKept
  BY Hypotheses, FencedKept, ZenonT(30) DEF IInv, TInv
<1> QED BY <1>1, Inductive, PTL

\* A request is in the queue of its status and only there, once: in running, or
\* in one of the waiting queues; one that is over is in none.
THEOREM SchedulerOneQueue ==
  ASSUME Orderly
  PROVE  Spec => []OneQueue
<1>1. IInv => OneQueue
  BY Hypotheses, QueuedOnce, ZenonT(30) DEF IInv, QInv
<1> QED BY <1>1, Inductive, PTL

\* While the connector loads a request, _update_waiting_for_remote_kv and
\* _free_blocks leave it the blocks that the load writes, also if it is aborted.
THEOREM SchedulerLoadsKeepBlocks ==
  ASSUME Orderly
  PROVE  Spec => []LoadsKeepBlocks
<1>1. IInv => LoadsKeepBlocks
  BY ZenonT(30) DEF IInv, QInv, LoadInv, LoadSets
<1> QED BY <1>1, Inductive, PTL

\* num_waiting_for_streaming_input is the number of sessions that wait for input.
THEOREM SchedulerStreamingCounted ==
  ASSUME Orderly
  PROVE  Spec => []StreamingCounted
<1>1. IInv => StreamingCounted
  BY Zenon DEF IInv, QInv, LoadInv
<1> QED BY <1>1, Inductive, PTL

\* Without sessions, the slots that the model runner will keep are those of the
\* running requests, so the limit on running requests bounds them too ...
THEOREM SchedulerSlotsCounted ==
  ASSUME Orderly, Sessions = {}
  PROVE  Spec => []SlotsCounted
<1>1. IInv => SlotsCounted
  BY Hypotheses, SlotsFit, ZenonT(30) DEF IInv
<1> QED BY <1>1, Inductive, PTL

\* ... and the model runner has a free slot for every request it is sent.
THEOREM SchedulerSlotForEveryRequest ==
  ASSUME Orderly, Sessions = {}
  PROVE  Spec => []SlotForEveryRequest
<1>1. IInv => SlotForEveryRequest
  BY Hypotheses, SlotsFit, ZenonT(30) DEF IInv
<1> QED BY <1>1, Inductive, PTL

\* With the FCFS policy, and neither connector nor sessions, requests are
\* admitted and, after preemptions and resets, resumed in order of arrival.
THEOREM SchedulerFCFSOrder ==
  ASSUME ~connector, Sessions = {}
  PROVE  Spec => []FCFSOrder
<1>1. Orderly
  BY DEF Orderly
<1>2. IInv => FCFSOrder
  BY <1>1, Hypotheses, ServedInOrder, ZenonT(30) DEF IInv, QInv
<1>3. Spec => []IInv
  BY <1>1, Inductive, Zenon
<1> QED BY <1>2, <1>3, PTL

=============================================================================
