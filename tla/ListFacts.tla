------------------------------ MODULE ListFacts ------------------------------
(***************************************************************************)
(* What the proofs about the scheduler use of sequences, finite sets and   *)
(* natural numbers.  The facts are definitions, that the proofs take as    *)
(* hypotheses, so that no proof carries all the lemmas that lead to them;  *)
(* SchedulerProofs has the lemmas.                                         *)
(***************************************************************************)
EXTENDS Lists

Injective(s) == \A i, j \in 1..Len(s) : s[i] = s[j] => i = j
Places(q, S) == {i \in 1..Len(q) : q[i] \in S}

-----------------------------------------------------------------------------
\* Sequences, and the cardinality of finite sets.
LenFact ==
  \A S : \A q \in Seq(S) :
    /\ Len(q) \in Nat
    /\ q \in [1..Len(q) -> S]
    /\ DOMAIN q = 1..Len(q)

EmptySeqFact ==
  \A S :
    /\ <<>> \in Seq(S) /\ Len(<<>>) = 0
    /\ \A q \in Seq(S) : q # <<>> => Len(q) \in Nat \ {0}

HeadTailFact ==
  \A S : \A q \in Seq(S) : q # <<>> =>
    /\ Head(q) \in S /\ Tail(q) \in Seq(S)
    /\ Len(Tail(q)) = Len(q) - 1
    /\ \A i \in 1..Len(Tail(q)) : Tail(q)[i] = q[i + 1]

AppendFact ==
  \A S : \A q \in Seq(S), x \in S :
    /\ Append(q, x) \in Seq(S) /\ Append(q, x) # <<>>
    /\ Len(Append(q, x)) = Len(q) + 1
    /\ \A i \in 1..Len(q) : Append(q, x)[i] = q[i]
    /\ Append(q, x)[Len(q) + 1] = x

ConcatFact ==
  \A S : \A x \in Seq(S), y \in Seq(S) :
    /\ x \o y \in Seq(S)
    /\ Len(x \o y) = Len(x) + Len(y)
    /\ \A i \in 1..Len(x) + Len(y) :
         (x \o y)[i] = IF i <= Len(x) THEN x[i] ELSE y[i - Len(x)]

CardinalityFact ==
  \A S : IsFiniteSet(S) => Cardinality(S) \in Nat

EmptySetFact ==
  /\ IsFiniteSet({}) /\ Cardinality({}) = 0
  /\ \A S : IsFiniteSet(S) => (Cardinality(S) = 0 <=> S = {})

SingletonFact ==
  /\ \A x : IsFiniteSet({x}) /\ Cardinality({x}) = 1
  /\ \A S : IsFiniteSet(S) => (Cardinality(S) = 1 <=> \E x : S = {x})

IntervalFact ==
  \A a \in Int, b \in Int :
    /\ IsFiniteSet(a..b)
    /\ Cardinality(a..b) = IF a > b THEN 0 ELSE b - a + 1

SubsetFact ==
  \A S : \A T \in SUBSET S : IsFiniteSet(S) =>
    /\ IsFiniteSet(T) /\ Cardinality(T) <= Cardinality(S)
    /\ Cardinality(S) = Cardinality(T) => S = T

UnionFact ==
  \A S, T : IsFiniteSet(S) /\ IsFiniteSet(T) =>
    /\ IsFiniteSet(S \cup T)
    /\ Cardinality(S \cup T) = Cardinality(S) + Cardinality(T) - Cardinality(S \cap T)

AddElementFact ==
  \A S, x : IsFiniteSet(S) =>
    /\ IsFiniteSet(S \cup {x})
    /\ Cardinality(S \cup {x}) = IF x \in S THEN Cardinality(S) ELSE Cardinality(S) + 1

RemoveElementFact ==
  \A S, x : IsFiniteSet(S) =>
    /\ IsFiniteSet(S \ {x})
    /\ Cardinality(S \ {x}) = IF x \in S THEN Cardinality(S) - 1 ELSE Cardinality(S)

-----------------------------------------------------------------------------
\* Lists, and the sets of their elements.
\* Keep drops elements of a list, the others staying in their order: f has their
\* places in q, and no element moves up but over those that are dropped.
KeepFact ==
  \A T, S : \A q \in Seq(T) :
    /\ Keep(q, S) \in Seq(T)
    /\ Elems(Keep(q, S)) = Elems(q) \cap S
    /\ Injective(q) => Injective(Keep(q, S))
    /\ Len(Keep(q, S)) = Cardinality(Places(q, S))
    /\ \E f \in [1..Len(Keep(q, S)) -> 1..Len(q)] :
         /\ \A k \in 1..Len(Keep(q, S)) : Keep(q, S)[k] = q[f[k]]
         /\ \A k, l \in 1..Len(Keep(q, S)) : k < l => f[k] < f[l]
    /\ \A i \in 1..Len(q) : q[i] \in S =>
         \E k \in 1..Len(Keep(q, S)) :
           /\ Keep(q, S)[k] = q[i] /\ k <= i
           /\ (\E p \in 1..i : q[p] \notin S) => k < i

KeepElemsFact ==
  \A T, S : \A q \in Seq(T) :
    /\ Keep(q, S) \in Seq(T)
    /\ Elems(Keep(q, S)) = Elems(q) \cap S
    /\ Injective(q) => Injective(Keep(q, S))
    /\ Len(Keep(q, S)) = Cardinality(Places(q, S))

ConcatElemsFact ==
  \A T : \A x \in Seq(T), y \in Seq(T) :
    /\ x \o y \in Seq(T)
    /\ Elems(x \o y) = Elems(x) \cup Elems(y)
    /\ Injective(x) /\ Injective(y) /\ Elems(x) \cap Elems(y) = {}
         => Injective(x \o y)

SplitElemsFact ==
  \A T : \A q \in Seq(T) : \A k \in 0..Len(q) :
    LET x == SubSeq(q, 1, k)
        y == SubSeq(q, k + 1, Len(q))
    IN /\ x \in Seq(T) /\ Len(x) = k /\ \A i \in 1..k : x[i] = q[i]
       /\ y \in Seq(T) /\ Len(y) = Len(q) - k
       /\ \A i \in 1..Len(q) - k : y[i] = q[k + i]
       /\ Elems(q) = Elems(x) \cup Elems(y)
       /\ Injective(q) => /\ Injective(x) /\ Injective(y)
                          /\ Elems(x) \cap Elems(y) = {}

OneElemFact ==
  \A T : \A x \in T :
    <<x>> \in Seq(T) /\ Len(<<x>>) = 1 /\ Elems(<<x>>) = {x} /\ Injective(<<x>>)

AppendElemsFact ==
  \A T : \A q \in Seq(T), x \in T :
    /\ Append(q, x) \in Seq(T)
    /\ Elems(Append(q, x)) = Elems(q) \cup {x}
    /\ Injective(q) /\ x \notin Elems(q) => Injective(Append(q, x))

InsertElemsFact ==
  \A T : \A q \in Seq(T), x \in T : \A k \in 0..Len(q) :
    LET z == SubSeq(q, 1, k) \o <<x>> \o SubSeq(q, k + 1, Len(q))
    IN /\ z \in Seq(T)
       /\ Elems(z) = Elems(q) \cup {x}
       /\ Injective(q) /\ x \notin Elems(q) => Injective(z)

TailElemsFact ==
  \A T : \A q \in Seq(T) : q # <<>> =>
    /\ Head(q) \in T /\ Head(q) = q[1] /\ Tail(q) \in Seq(T)
    /\ Len(Tail(q)) = Len(q) - 1
    /\ \A i \in 1..Len(q) - 1 : Tail(q)[i] = q[i + 1]
    /\ Elems(q) = {Head(q)} \cup Elems(Tail(q))
    /\ Injective(q) => Injective(Tail(q)) /\ Head(q) \notin Elems(Tail(q))

InjectiveLenFact ==
  \A T : \A q \in Seq(T) : Injective(q) =>
    IsFiniteSet(Elems(q)) /\ Cardinality(Elems(q)) = Len(q)

\* A finite set has subsets of every size, and what follows of induction.
SubsetOfSizeFact ==
  \A S : \A n \in Nat : IsFiniteSet(S) /\ n <= Cardinality(S) =>
    \E U \in SUBSET S : Cardinality(U) = n

NatInSetFact ==
  \A S : 0 \in S /\ (\A n \in Nat : n \in S => n + 1 \in S) => Nat \subseteq S

HasGreatestFact ==
  \A m \in Nat : \A S \in SUBSET (0..m) : S # {} => \E k \in S : \A l \in S : l <= k

FrontElemsFact ==
  \A T : \A q \in Seq(T) : q # <<>> =>
    LET n == Len(q)
        x == SubSeq(q, 1, n - 1)
    IN /\ n \in Nat \ {0} /\ q[n] \in T /\ q[n] \in Elems(q)
       /\ x \in Seq(T) /\ Len(x) = n - 1 /\ \A i \in 1..n - 1 : x[i] = q[i]
       /\ Elems(q) = Elems(x) \cup {q[n]}
       /\ Injective(q) => Injective(x) /\ Elems(x) = Elems(q) \ {q[n]}

-----------------------------------------------------------------------------
ListFacts ==
  /\ LenFact /\ EmptySeqFact /\ HeadTailFact /\ AppendFact /\ ConcatFact
  /\ CardinalityFact /\ EmptySetFact /\ SingletonFact /\ IntervalFact
  /\ SubsetFact /\ UnionFact /\ AddElementFact /\ RemoveElementFact /\ KeepFact
  /\ KeepElemsFact /\ ConcatElemsFact /\ SplitElemsFact /\ OneElemFact
  /\ AppendElemsFact /\ InsertElemsFact /\ TailElemsFact /\ InjectiveLenFact
  /\ SubsetOfSizeFact /\ NatInSetFact /\ HasGreatestFact /\ FrontElemsFact
=============================================================================
