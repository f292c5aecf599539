--------------------------- MODULE SchedulerTypes ----------------------------
(***************************************************************************)
(* The types of the scheduler's state, and the facts about its control     *)
(* flow without which they would not hold: what its operators compute,     *)
(* and what its actions do.                                                *)
(***************************************************************************)
EXTENDS SchedulerInvariants, TLAPS

-----------------------------------------------------------------------------
(* What the operators on the queues, the step and the batches compute.      *)
LEMMA MinimumOfThree ==
  ASSUME NEW a \in Int, NEW b \in Int, NEW c \in Int
  PROVE  /\ Min({a, b, c}) \in Int
         /\ Min({a, b, c}) <= a /\ Min({a, b, c}) <= b /\ Min({a, b, c}) <= c
<1>1. \E x \in {a, b, c} : \A y \in {a, b, c} : x <= y
  BY SMTT(30)
<1>2. Min({a, b, c}) \in {a, b, c} /\ \A y \in {a, b, c} : Min({a, b, c}) <= y
  BY <1>1, Zenon DEF Min
<1> QED BY <1>2, ZenonT(30)

-----------------------------------------------------------------------------
(* The two kinds of request queue: a request that is added or prepended is  *)
(* in the queue, once, with those that were there.                          *)
LEMMA InsertOne ==
  ASSUME ListFacts, NEW q \in Seq(Request), NEW r \in Request, NEW R
  PROVE  /\ Insert(R, q, r) \in Seq(Request)
         /\ Elems(Insert(R, q, r)) = Elems(q) \cup {r}
         /\ Injective(q) /\ r \notin Elems(q) => Injective(Insert(R, q, r))
<1> DEFINE I == {i \in 1..Len(q) : Before(R, q[i], r)}
           k == Cardinality(I)
<1>1. k \in 0..Len(q)
  <2>0. Len(q) \in Nat
    BY Zenon DEF ListFacts, LenFact
  <2>1. IsFiniteSet(1..Len(q)) /\ Cardinality(1..Len(q)) = Len(q) /\ Len(q) \in Nat
    BY SMTT(30), <2>0 DEF ListFacts, IntervalFact
  <2>2. I \in SUBSET (1..Len(q))
    BY Zenon
  <2> HIDE DEF I
  <2>3. IsFiniteSet(I) /\ k <= Len(q)
    BY ZenonT(30), <2>1, <2>2 DEF ListFacts, SubsetFact
  <2>4. k \in Nat
    BY <2>3, Zenon DEF ListFacts, CardinalityFact
  <2> QED BY SMTT(30), <2>1, <2>3, <2>4
<1>2. Insert(R, q, r) = SubSeq(q, 1, k) \o <<r>> \o SubSeq(q, k + 1, Len(q))
  BY Zenon DEF Insert
<1> HIDE DEF k
<1> QED BY SMTT(30), <1>1, <1>2 DEF ListFacts, InsertElemsFact

LEMMA AddOne ==
  ASSUME ListFacts
  PROVE  AddOneFact
<1> USE DEF AddOneFact
<1> TAKE R
<1> TAKE q \in Seq(Request), r \in Request
<1>1. CASE policy = "fcfs"
  BY <1>1 DEF add_request, ListFacts, AppendElemsFact
<1>2. CASE policy # "fcfs"
  BY <1>2, InsertOne, Zenon DEF add_request
<1> QED BY <1>1, <1>2, Zenon

LEMMA PrependOne ==
  ASSUME ListFacts
  PROVE  PrependOneFact
<1> USE DEF PrependOneFact
<1> TAKE q \in Seq(Request), r \in Request
<1>1. CASE policy = "fcfs"
  <2>1. prepend_request(q, r) = <<r>> \o q
    BY <1>1, Zenon DEF prepend_request
  <2>2. <<r>> \in Seq(Request) /\ Elems(<<r>>) = {r} /\ Injective(<<r>>)
    BY Zenon DEF ListFacts, OneElemFact
  <2>3. /\ <<r>> \o q \in Seq(Request)
        /\ Elems(<<r>> \o q) = Elems(<<r>>) \cup Elems(q)
        /\ Injective(<<r>>) /\ Injective(q) /\ Elems(<<r>>) \cap Elems(q) = {}
             => Injective(<<r>> \o q)
    BY <2>2, Zenon DEF ListFacts, ConcatElemsFact
  <2>4. r \notin Elems(q) => {r} \cap Elems(q) = {}
    BY Zenon
  <2> QED BY <2>1, <2>2, <2>3, <2>4, Zenon
<1>2. CASE policy # "fcfs"
  BY <1>2, InsertOne, Zenon DEF prepend_request
<1> QED BY <1>1, <1>2, Zenon

(* The requests that schedule() skipped go back, one after the other.       *)
LEMMA PrependAll ==
  ASSUME ListFacts
  PROVE  PrependAllFact
<1> USE DEF PrependAllFact
<1> TAKE q \in Seq(Request), s \in Seq(Request)
<1> DEFINE m == Len(s)
           last(i) == s[m + 1 - i]
           next(f, i) == IF i = 0 THEN q ELSE prepend_request(f[i - 1], last(i))
           solves(f, n) == f = [i \in 0..n |-> next(f, i)]
           ahead == CHOOSE f : solves(f, m)
<1>1. prepend_requests(q, s) = ahead[m]
  BY Zenon DEF prepend_requests
<1>2. m \in Nat /\ s \in [1..m -> Request]
  BY Zenon DEF ListFacts, LenFact
<1> HIDE DEF m
<1>3. \A i \in 1..m : m + 1 - i \in 1..m /\ last(i) \in Request
  BY <1>2
<1>4. \E f : solves(f, m)
  <2> DEFINE E == {n \in Nat : \E f : solves(f, n)}
  <2>1. 0 \in E
    <3> DEFINE f == [i \in 0..0 |-> q]
    <3>1. \A i \in 0..0 : i = 0
      OBVIOUS
    <3>2. solves(f, 0)
      BY <3>1, Zenon
    <3> QED BY Zenon, <3>2
  <2>2. ASSUME NEW n \in Nat, n \in E PROVE n + 1 \in E
    <3>1. PICK f : solves(f, n)
      BY <2>2, Zenon
    <3> DEFINE g == [i \in 0..n + 1 |-> IF i = n + 1 THEN prepend_request(f[n], last(n + 1))
                                       ELSE f[i]]
    <3>2. ASSUME NEW i \in 0..n + 1 PROVE g[i] = next(g, i)
      <4>1. CASE i = n + 1
        BY SMTT(30), <4>1, n \in 0..n + 1, n # n + 1, (n + 1) - 1 = n, n + 1 # 0
      <4>2. CASE i = 0
        <5>1. 0 \in 0..n /\ 0 # n + 1
          BY SMTT(30)
        <5>2. f[0] = q
          BY <3>1, <5>1, Zenon
        <5> QED BY <4>2, <5>1, <5>2, Zenon
      <4>3. CASE i # 0 /\ i # n + 1
        <5>1. i \in 0..n /\ i - 1 \in 0..n + 1 /\ i - 1 # n + 1
          BY SMTT(30), <4>3
        <5>2. f[i] = prepend_request(f[i - 1], last(i))
          BY <3>1, <4>3, <5>1, Zenon
        <5>3. g[i] = f[i] /\ g[i - 1] = f[i - 1]
          BY <4>3, <5>1, Zenon
        <5> QED BY <4>3, <5>2, <5>3, ZenonT(30)
      <4> QED BY <4>1, <4>2, <4>3, Zenon
    <3>3. solves(g, n + 1)
      <4>1. g = [i \in 0..n + 1 |-> g[i]]
        BY Zenon
      <4> HIDE DEF g
      <4> QED BY Zenon, <3>2, <4>1
    <3>4. \E h : solves(h, n + 1)
      <4> HIDE DEF g
      <4> QED BY <3>3, Zenon
    <3>5. n + 1 \in Nat
      BY SMTT(30)
    <3> HIDE DEF solves
    <3> QED BY <3>4, <3>5, Zenon
  <2> HIDE DEF E
  <2>3. m \in E
    BY <1>2, <2>1, <2>2, Zenon DEF ListFacts, NatInSetFact
  <2> QED BY <2>3, Zenon DEF E
<1>5. solves(ahead, m)
  BY <1>4, Zenon
<1> HIDE DEF ahead
<1>6. \A i \in 0..m : ahead[i] = next(ahead, i)
  BY Zenon, <1>5
<1> DEFINE put(i) == {last(j) : j \in 1..i}
           good(i) == /\ ahead[i] \in Seq(Request)
                      /\ Elems(ahead[i]) = Elems(q) \cup put(i)
                      /\ Injective(q) /\ Injective(s) /\ Elems(q) \cap Elems(s) = {}
                           => Injective(ahead[i])
           E == {i \in Nat : i <= m => good(i)}
<1>7. 0 \in E
  <2>1. 0 \in 0..m /\ 1..0 = {}
    BY SMTT(30), <1>2
  <2>2. ahead[0] = q /\ put(0) = {}
    BY <1>6, <2>1, Zenon
  <2> QED BY <2>2, Zenon
<1>8. ASSUME NEW n \in Nat, n \in E PROVE n + 1 \in E
  <2> SUFFICES ASSUME n + 1 <= m PROVE good(n + 1)
    BY SMTT(30)
  <2> DEFINE r == last(n + 1)
  <2>1. n + 1 \in 0..m /\ n + 1 \in 1..m /\ n + 1 # 0 /\ (n + 1) - 1 = n /\ n <= m
    BY SMTT(30), <1>2
  <2>2. ahead[n + 1] = prepend_request(ahead[n], r) /\ r \in Request
    BY <1>3, <1>6, <2>1, Zenon
  <2>3. good(n)
    BY <1>8, <2>1, ZenonT(30)
  <2>4. put(n + 1) = put(n) \cup {r}
    <3>1. 1..n + 1 = (1..n) \cup {n + 1}
      BY SMTT(30)
    <3> QED BY <3>1, Zenon
  <2>5. ASSUME Injective(s), Elems(q) \cap Elems(s) = {}
        PROVE  r \notin Elems(q) \cup put(n)
    <3>1. m + 1 - (n + 1) \in 1..m /\ \A j \in 1..n : /\ m + 1 - j \in 1..m
                                                    /\ m + 1 - (n + 1) # m + 1 - j
      BY SMTT(30), <1>2, <2>1
    <3>2. r \in Elems(s)
      BY <3>1, Zenon DEF Elems, m
    <3>3. ASSUME NEW j \in 1..n, r = last(j) PROVE FALSE
      BY <2>5, <3>1, <3>3, ZenonT(30) DEF Injective, m
    <3> QED BY <2>5, <3>2, <3>3, ZenonT(30)
  <2> HIDE DEF put, r
  <2>6. /\ ahead[n + 1] \in Seq(Request)
        /\ Elems(ahead[n + 1]) = Elems(ahead[n]) \cup {r}
        /\ Injective(ahead[n]) /\ r \notin Elems(ahead[n]) => Injective(ahead[n + 1])
    <3>1. ahead[n] \in Seq(Request)
      BY <2>3, Zenon
    <3>2. LET z == prepend_request(ahead[n], r)
          IN /\ z \in Seq(Request) /\ Elems(z) = Elems(ahead[n]) \cup {r}
             /\ Injective(ahead[n]) /\ r \notin Elems(ahead[n]) => Injective(z)
      BY <2>2, <3>1, PrependOne, ZenonT(30) DEF PrependOneFact
    <3> QED BY <2>2, <3>2, Zenon
  <2> QED BY <2>3, <2>4, <2>5, <2>6, Zenon
<1>9. good(m)
  <2> HIDE DEF E, good
  <2>1. m \in E
    BY <1>2, <1>7, <1>8, Zenon DEF ListFacts, NatInSetFact
  <2> QED BY SMTT(30), <1>2, <2>1 DEF E
<1>10. put(m) = Elems(s)
  <2>1. \A i \in 1..m : m + 1 - i \in 1..m /\ m + 1 - (m + 1 - i) = i
    BY SMTT(30), <1>2
  <2> QED BY <2>1, Zenon DEF Elems, m
<1> HIDE DEF put
<1> QED BY <1>1, <1>9, <1>10, Zenon

-----------------------------------------------------------------------------
LEMMA ElemsType ==
  ASSUME ListFacts
  PROVE  ElemsFact
<1> USE DEF ElemsFact
<1> TAKE T
<1> TAKE q \in Seq(T)
<1>1. Len(q) \in Nat /\ q \in [1..Len(q) -> T] /\ (q # <<>> => Len(q) \in Nat \ {0})
  BY Zenon DEF ListFacts, LenFact, EmptySeqFact
<1>2. q # <<>> => Len(q) \in 1..Len(q)
  BY SMTT(30), <1>1
<1> QED BY <1>1, <1>2, Zenon DEF Elems

(* The RUNNING loop is at a request that is running.                        *)
LEMMA CurrentFacts ==
  ASSUME ListFacts, TInv
  PROVE  CurrentFact
<1> USE DEF CurrentFact
<1> HAVE InRunningLoop
<1>1. /\ step.phase = "running" /\ step \in Step /\ running \in Seq(Request)
      /\ step.req_index \in Int /\ step.num_new_tokens \in Int /\ step.token_budget \in Int
      /\ Len(step.scheduled) < step.req_index
      /\ Retry => step.request \in Elems(running)
      /\ ~Retry => step.req_index <= Len(running) /\ step.token_budget > 0
  BY Zenon DEF TInv, StepOK, InRunningLoop, QueuesOK, Step
<1>2. Len(step.scheduled) \in Nat
  <2>1. step.scheduled \in Seq(Scheduled)
    BY <1>1, Zenon DEF TInv, StepOK
  <2> QED BY <2>1, Zenon DEF ListFacts, LenFact
<1>3. Len(running) \in Nat /\ Elems(running) \subseteq Request
  BY <1>1, ElemsType, ZenonT(30) DEF ListFacts, LenFact, ElemsFact
<1>4. ~Retry => step.req_index \in 1..Len(running)
  BY SMTT(30), <1>1, <1>2, <1>3
<1>5. Current \in Elems(running)
  BY <1>1, <1>4, Zenon DEF Current, Elems
<1>6. running # <<>> /\ Len(running) \in Nat \ {0}
  <2>1. PICK i \in 1..Len(running) : Current = running[i]
    BY <1>5, Zenon DEF Elems
  <2>2. Len(running) # 0
    BY <1>3, <2>1
  <2>3. Len(<<>>) = 0
    BY ZenonT(30) DEF ListFacts, EmptySeqFact
  <2> QED BY <1>3, <2>2, <2>3, Zenon
<1>7. Current \in Request
  BY <1>3, <1>5, Zenon
<1>8. NumNewTokens \in Int
  <2> DEFINE R == req[Current]
             a == R.num_tokens + R.spec_token_ids + R.num_output_placeholders
                    - R.num_computed_tokens
             b == step.token_budget
             c == max_model_len - R.num_computed_tokens - 1
  <2>1. a \in Int /\ b \in Int /\ c \in Int
    <3>1. R \in Rec
      BY <1>7, Zenon DEF TInv, ReqOK
    <3> HIDE DEF R
    <3>2. /\ R.num_tokens \in Int /\ R.spec_token_ids \in Int
          /\ R.num_output_placeholders \in Int /\ R.num_computed_tokens \in Int
      BY <3>1, Zenon DEF Rec
    <3>3. max_model_len \in Int /\ step.token_budget \in Int
      BY SMTT(30), <1>1, SchedulerAssumption
    <3> QED BY SMTT(30), <3>2, <3>3
  <2> HIDE DEF a, b, c
  <2>2. Min({a, b, c}) \in Int
    BY <2>1, MinimumOfThree, Zenon
  <2>3. NumNewTokens = step.num_new_tokens \/ NumNewTokens = 0 \/ NumNewTokens = Min({a, b, c})
    BY Zenon DEF NumNewTokens, a, b, c
  <2> QED BY SMTT(30), <1>1, <2>2, <2>3
<1> QED BY <1>1, <1>4, <1>5, <1>6, <1>7, <1>8, Zenon

-----------------------------------------------------------------------------
(* The request the WAITING loop is at, and its queue without it.            *)
LEMMA PeekFacts ==
  ASSUME ListFacts, TInv
  PROVE  PeekFact
<1> USE DEF PeekFact
<1> HAVE InWaitingLoop
<1>1. /\ waiting \in Seq(Request) /\ skipped_waiting \in Seq(Request)
      /\ step.phase = "waiting" /\ (waiting # <<>> \/ skipped_waiting # <<>>)
  BY Zenon DEF TInv, QueuesOK, InWaitingLoop
<1>2. CASE FromSkipped
  <2>1. skipped_waiting # <<>> /\ peek_request = Head(skipped_waiting)
    BY <1>1, <1>2, Zenon DEF FromSkipped, peek_request
  <2>2. Head(skipped_waiting) \in Request /\ Tail(skipped_waiting) \in Seq(Request)
    BY <1>1, <2>1, Zenon DEF ListFacts, HeadTailFact
  <2> QED BY <1>1, <1>2, <2>1, <2>2, ZenonT(30) DEF pop_request
<1>3. CASE ~FromSkipped
  <2>1. waiting # <<>> /\ peek_request = Head(waiting)
    BY <1>1, <1>3, Zenon DEF FromSkipped, peek_request
  <2>2. Head(waiting) \in Request /\ Tail(waiting) \in Seq(Request)
    BY <1>1, <2>1, Zenon DEF ListFacts, HeadTailFact
  <2> QED BY <1>1, <1>3, <2>1, <2>2, ZenonT(30) DEF pop_request
<1> QED BY <1>2, <1>3, Zenon

LEMMA GoneFacts ==
  ASSUME ListFacts
  PROVE  GoneFact
<1> USE DEF GoneFact
<1>1. <<>> \in Seq(Chunk)
  BY Zenon DEF ListFacts, EmptySeqFact
<1>2. NewRequest \in Rec
  BY SMTT(30), <1>1 DEF NewRequest, Rec, Statuses
<1> QED BY ZenonT(30), <1>1, <1>2 DEF Gone, NewRequest, Rec, Statuses, Finished

(* remove_all: a list without some requests.                                *)
LEMMA RemoveFacts ==
  ASSUME ListFacts
  PROVE  RemoveFact
<1> USE DEF RemoveFact
<1> TAKE q \in Seq(Request), r \in Request
<1>1. /\ remove_all(q, {r}) \in Seq(Request)
      /\ Elems(remove_all(q, {r})) = Elems(q) \cap (Request \ {r})
      /\ Injective(q) => Injective(remove_all(q, {r}))
  BY Zenon DEF remove_all, ListFacts, KeepElemsFact
<1>2. Elems(q) \subseteq Request
  BY ElemsType, ZenonT(30) DEF ElemsFact
<1> QED BY ZenonT(30), <1>1, <1>2

(* A request that gives its tokens back is no longer in the batch.          *)
LEMMA UnscheduledFacts ==
  ASSUME ListFacts
  PROVE  UnscheduledFact
<1> USE DEF UnscheduledFact
<1> TAKE v \in Request
<1> HAVE step \in Step /\ step.scheduled \in Seq(Scheduled) /\ Len(step.scheduled) < step.req_index
<1> DEFINE q == step.scheduled
           entries == {e \in Elems(q) : e.id = v}
           S == Elems(q) \ entries
           k == Keep(q, S)
           m == (CHOOSE e \in entries : TRUE).n
           I == Places(q, S)
<1>1. q \in Seq(Scheduled) /\ Elems(q) \subseteq Scheduled /\ Len(q) \in Nat
  BY SMTT(30), ElemsType DEF ElemsFact
<1>2. CASE entries = {}
  <2>1. Unscheduled(v) = step
    BY <1>2, Zenon DEF Unscheduled
  <2>2. Elems(q) = {e \in Elems(q) : e.id # v}
    BY <1>2, Zenon
  <2> QED BY <1>1, <2>1, <2>2, Zenon
<1>3. CASE entries # {}
  <2>1. Unscheduled(v) = [step EXCEPT !.scheduled = k, !.token_budget = step.token_budget + m,
                                      !.req_index = step.req_index - 1]
    BY <1>3, Zenon DEF Unscheduled
  <2>2. k \in Seq(Scheduled) /\ Elems(k) = Elems(q) \cap S /\ Len(k) = Cardinality(I)
    <3> HIDE DEF q, S
    <3>1. q \in Seq(Scheduled)
      BY <1>1, Zenon
    <3> QED BY <3>1, Zenon DEF ListFacts, KeepElemsFact
  <2>3. Elems(k) = {e \in Elems(q) : e.id # v}
    BY <2>2, ZenonT(30)
  <2>4. Len(k) < Len(q) /\ Len(k) \in Nat
    <3>1. IsFiniteSet(1..Len(q)) /\ Cardinality(1..Len(q)) = Len(q)
      BY SMTT(30), <1>1 DEF ListFacts, IntervalFact
    <3>2. I \in SUBSET (1..Len(q)) /\ I # 1..Len(q)
      BY <1>3, Zenon DEF Elems, Places
    <3>3. /\ Cardinality(I) <= Cardinality(1..Len(q)) /\ IsFiniteSet(I)
          /\ Cardinality(I) = Cardinality(1..Len(q)) => I = 1..Len(q)
      BY <3>1, <3>2, Zenon DEF ListFacts, SubsetFact
    <3>4. Cardinality(I) \in Nat
      BY <3>3, Zenon DEF ListFacts, CardinalityFact
    <3> HIDE DEF I, q, k
    <3>5. Cardinality(I) # Cardinality(1..Len(q))
      BY <3>2, <3>3, ZenonT(30)
    <3> QED BY SMTT(30), <1>1, <2>2, <3>1, <3>3, <3>4, <3>5
  <2>5. m \in Int
    <3>1. (CHOOSE e \in entries : TRUE) \in Scheduled
      BY <1>1, <1>3, Zenon
    <3> QED BY <3>1, Zenon DEF Scheduled
  <2> HIDE DEF m, k
  <2>6. /\ step.token_budget + m \in Int /\ step.req_index - 1 \in Int
        /\ step.req_index \in Int
    BY SMTT(30), <2>5 DEF Step
  <2> DEFINE x == Unscheduled(v)
  <2>7. x \in Step /\ x.scheduled = k /\ x.req_index = step.req_index - 1
        /\ x.phase = step.phase /\ x.new = step.new /\ x.skipped = step.skipped
    BY ZenonT(30), <2>1, <2>2, <2>6 DEF Step
  <2>8. Len(k) < step.req_index - 1
    BY SMTT(30), <1>1, <2>4, <2>6
  <2>9. \E e \in Elems(step.scheduled) : e.id = v
    BY <1>3, Zenon
  <2> HIDE DEF x
  <2>10. \E Z : x.scheduled = Keep(q, Z)
    BY Zenon, <2>7 DEF k
  <2>11. /\ x \in Step /\ x.scheduled \in Seq(Scheduled)
         /\ Elems(x.scheduled) = {e \in Elems(q) : e.id # v}
         /\ Len(x.scheduled) < x.req_index
         /\ x.req_index = step.req_index - 1
         /\ x.phase = step.phase /\ x.new = step.new /\ x.skipped = step.skipped
    BY <2>2, <2>3, <2>7, <2>8, ZenonT(30)
  <2> HIDE DEF q, entries
  <2> QED BY <2>9, <2>10, <2>11, Zenon DEF x, q
<1> QED BY <1>2, <1>3, ZenonT(30)

LEMMA UpdatedFacts == UpdatedFact
<1> USE DEF UpdatedFact
<1> TAKE R \in Rec, s \in Statuses, c \in Int
<1>1. Updated(R, s, c) \in Rec
  BY Zenon DEF Rec, Updated
<1>2. /\ Updated(R, s, c).status = s /\ Updated(R, s, c).num_computed_tokens = c
      /\ Updated(R, s, c).blocks = R.blocks
      /\ Updated(R, s, c).arrival_time = R.arrival_time
      /\ Updated(R, s, c).last_sched_seq = R.last_sched_seq
  BY Zenon DEF Rec, Updated
<1> QED BY <1>1, <1>2, Zenon

(* The entry of the batch that update_from_output is at, and the others.    *)
LEMMA EntryFacts ==
  ASSUME ListFacts, TInv
  PROVE  EntryFact
<1> USE DEF EntryFact
<1> HAVE InUpdateLoop
<1>1. /\ step.phase = "update" /\ step.scheduled \in Seq(InBatch)
      /\ step.scheduled # <<>> /\ step \in Step
  BY Zenon DEF TInv, StepOK, InUpdateLoop
<1>2. Entry \in InBatch /\ Tail(step.scheduled) \in Seq(InBatch)
  BY <1>1, Zenon DEF Entry, ListFacts, TailElemsFact
<1>3. Entry.id \in Request
  BY <1>2, Zenon DEF InBatch
<1>4. req[Entry.id] \in Rec
  BY <1>3, Zenon DEF TInv, ReqOK
<1>5. ASSUME NextEntry
      PROVE  /\ StepOK' /\ step'.phase = "update"
             /\ step'.scheduled = Tail(step.scheduled) /\ step'.skipped = step.skipped
  <2> DEFINE q == Tail(step.scheduled)
  <2>1. step' = [step EXCEPT !.scheduled = q] /\ q \in Seq(InBatch)
    BY <1>2, <1>5, Zenon DEF NextEntry
  <2> HIDE DEF q
  <2>2. step' \in Step
    BY <1>1, <2>1, Zenon DEF Step
  <2>3. step'.scheduled = q /\ step'.phase = step.phase /\ step'.skipped = step.skipped
    BY <1>1, <2>1, Zenon DEF Step
  <2>4. StepOK'
    BY <1>1, <2>1, <2>2, <2>3, Zenon DEF StepOK
  <2> QED BY <1>1, <2>3, <2>4, ZenonT(30) DEF q
<1> QED BY <1>1, <1>2, <1>3, <1>4, <1>5, ZenonT(30)

-----------------------------------------------------------------------------
(* Queues, batches and their entries.                                       *)
LEMMA NoElems ==
  ASSUME ListFacts
  PROVE  NoElemsFact
<1> USE DEF NoElemsFact
<1> TAKE T
<1> TAKE q \in Seq(T)
<1>1. Len(q) \in Nat /\ (q = <<>> <=> Len(q) = 0)
  BY Zenon DEF ListFacts, EmptySeqFact, LenFact
<1>2. CASE Len(q) = 0
  BY SMTT(30), <1>1, <1>2 DEF Elems
<1>3. CASE Len(q) # 0
  <2>1. 1 \in 1..Len(q)
    BY <1>1, <1>3
  <2> QED BY <1>1, <1>3, <2>1, Zenon DEF Elems
<1> QED BY <1>2, <1>3, Zenon

LEMMA QueueTypes ==
  ASSUME ListFacts, TInv
  PROVE  QueueTypesFact
<1> USE DEF QueueTypesFact
<1>1. /\ waiting \in Seq(Request) /\ skipped_waiting \in Seq(Request)
      /\ running \in Seq(Request) /\ step.skipped \in Seq(Request)
  BY Zenon DEF TInv, QueuesOK, StepOK, Step
<1> QED BY <1>1, ElemsType, Zenon DEF Queued, ElemsFact

LEMMA StatusFacts ==
  ASSUME TInv
  PROVE  StatusFact
<1> USE DEF StatusFact
<1> TAKE r \in Request
<1> HAVE QueueInv
<1>1. req[r].status \in Statuses
  BY Zenon DEF TInv, ReqOK, Rec
<1>2. "RUNNING" \notin Waiting
  BY Zenon DEF Waiting, Blocked
<1> QED BY <1>1, <1>2, Zenon DEF QueueInv

\* What peek_request and pop_request do, if no request is twice in the queues.
LEMMA PopFacts ==
  ASSUME ListFacts, TInv
  PROVE  PopFact
<1> USE DEF PopFact
<1> HAVE QueueInv /\ InWaitingLoop /\ pop_request
<1> DEFINE r == peek_request
<1>1. /\ Injective(waiting) /\ Injective(skipped_waiting)
      /\ Elems(waiting) \cap Elems(skipped_waiting) = {}
      /\ Elems(waiting) \cap Elems(step.skipped) = {}
      /\ Elems(skipped_waiting) \cap Elems(step.skipped) = {}
  BY Zenon DEF QueueInv
<1>2. waiting \in Seq(Request) /\ skipped_waiting \in Seq(Request) /\ r \in Request
  BY QueueTypes, PeekFacts, Zenon DEF QueueTypesFact, PeekFact
<1>3. \/ /\ skipped_waiting # <<>> /\ r = Head(skipped_waiting)
         /\ waiting' = waiting /\ skipped_waiting' = Tail(skipped_waiting)
      \/ /\ waiting # <<>> /\ r = Head(waiting)
         /\ waiting' = Tail(waiting) /\ skipped_waiting' = skipped_waiting
  BY PeekFacts, Zenon DEF PeekFact
<1> HIDE DEF r
<1>4. /\ r \in Elems(waiting) \cup Elems(skipped_waiting)
      /\ Injective(waiting') /\ Elems(waiting') = Elems(waiting) \ {r}
      /\ Injective(skipped_waiting')
      /\ Elems(skipped_waiting') = Elems(skipped_waiting) \ {r}
  <2>1. CASE /\ skipped_waiting # <<>> /\ r = Head(skipped_waiting)
             /\ waiting' = waiting /\ skipped_waiting' = Tail(skipped_waiting)
    <3>1. /\ Elems(skipped_waiting) = {r} \cup Elems(Tail(skipped_waiting))
          /\ Injective(Tail(skipped_waiting)) /\ r \notin Elems(Tail(skipped_waiting))
      BY <1>1, <1>2, <2>1, Zenon DEF ListFacts, TailElemsFact
    <3> QED BY SMTT(30), <1>1, <2>1, <3>1
  <2>2. CASE /\ waiting # <<>> /\ r = Head(waiting)
             /\ waiting' = Tail(waiting) /\ skipped_waiting' = skipped_waiting
    <3>1. /\ Elems(waiting) = {r} \cup Elems(Tail(waiting))
          /\ Injective(Tail(waiting)) /\ r \notin Elems(Tail(waiting))
      BY <1>1, <1>2, <2>2, Zenon DEF ListFacts, TailElemsFact
    <3> QED BY <1>1, <2>2, <3>1, ZenonT(30)
  <2> QED BY <1>3, <2>1, <2>2, ZenonT(30)
<1>5. r \in Queued /\ r \notin Elems(step.skipped)
  BY <1>1, <1>4, Zenon DEF Queued
<1>6. req[r].status \in Waiting
  BY <1>2, <1>5, ZenonT(30) DEF QueueInv
<1> QED BY <1>4, <1>5, <1>6, Zenon DEF r

\* The entry at hand is one of the batch.
LEMMA EntryElem ==
  ASSUME ListFacts, TInv
  PROVE  EntryElemFact
<1> USE DEF EntryElemFact
<1> HAVE FlightInv /\ InUpdateLoop
<1>1. /\ step.phase = "update" /\ step.scheduled \in Seq(InBatch)
      /\ step.scheduled # <<>> /\ Entry.id \in Request
  BY EntryFacts, ZenonT(30) DEF EntryFact
<1>2. Entry \in Elems(step.scheduled)
  BY SMTT(30), <1>1 DEF Entry, ListFacts, TailElemsFact
<1> QED BY <1>1, <1>2, Zenon DEF FlightInv

LEMMA BatchEntry ==
  ASSUME ListFacts, BatchesOK
  PROVE  BatchEntryFact
<1> USE DEF BatchEntryFact
<1> TAKE i \in 1..Len(batch_queue)
<1> TAKE e \in Elems(batch_queue[i])
<1>1. batch_queue[i] \in Seq(InBatch)
  BY DEF BatchesOK
<1>2. PICK j \in 1..Len(batch_queue[i]) : e = batch_queue[i][j]
  BY ZenonT(30) DEF Elems
<1>3. e \in InBatch
  BY SMTT(30), <1>1, <1>2
<1>4. e.id \in Request /\ e.blocks \in SUBSET Block
  BY <1>3, Zenon DEF InBatch
<1>5. batch_queue[i] # <<>>
  BY SMTT(30), <1>1, <1>2 DEF ListFacts, EmptySeqFact
<1> QED BY <1>1, <1>3, <1>4, <1>5, Zenon

LEMMA DistinctTail ==
  ASSUME ListFacts
  PROVE  DistinctTailFact
<1> USE DEF DistinctTailFact
<1> TAKE q \in Seq(InBatch)
<1> HAVE q # <<>> /\ Distinct(q)
<1>1. /\ Head(q) = q[1] /\ Tail(q) \in Seq(InBatch) /\ Len(Tail(q)) = Len(q) - 1
      /\ \A i \in 1..Len(q) - 1 : Tail(q)[i] = q[i + 1]
      /\ Elems(q) = {Head(q)} \cup Elems(Tail(q))
  BY SMTT(30) DEF ListFacts, TailElemsFact
<1> DEFINE t == Tail(q)
           n == Len(q)
<1>2. n \in Nat \ {0}
  BY Zenon DEF ListFacts, EmptySeqFact, LenFact
<1>3. ASSUME NEW i \in 1..n - 1, NEW j \in 1..n - 1, t[i].id = t[j].id PROVE i = j
  <2>1. i + 1 \in 1..n /\ j + 1 \in 1..n /\ q[i + 1].id = q[j + 1].id
    BY SMTT(30), <1>1, <1>2, <1>3
  <2>2. i + 1 = j + 1
    BY <2>1, Zenon DEF Distinct
  <2> QED BY SMTT(30), <1>2, <2>2
<1>4. ASSUME NEW i \in 1..n - 1, t[i].id = q[1].id PROVE FALSE
  <2>1. i + 1 \in 1..n /\ 1 \in 1..n /\ q[i + 1].id = q[1].id
    BY SMTT(30), <1>1, <1>2, <1>4
  <2>2. i + 1 = 1
    BY <2>1, Zenon DEF Distinct
  <2> QED BY SMTT(30), <1>2, <2>2
<1>5. Distinct(t)
  BY <1>1, <1>3, ZenonT(30) DEF Distinct
<1>6. \A e \in Elems(t) : e.id # Head(q).id
  BY SMTT(30), <1>1, <1>4 DEF Elems
<1> QED BY <1>1, <1>5, <1>6, Zenon

-----------------------------------------------------------------------------
(* The facts together.                                                      *)
LEMMA FactsHold ==
  ASSUME ListFacts, TInv
  PROVE  Facts
<1>1. GoneFact
  BY GoneFacts, Zenon
<1>2. UpdatedFact
  BY UpdatedFacts, Zenon
<1>3. ElemsFact
  BY ElemsType, Zenon
<1>4. RemoveFact
  BY RemoveFacts, Zenon
<1>5. AddOneFact
  BY AddOne, Zenon
<1>6. PrependOneFact
  BY PrependOne, Zenon
<1>7. PrependAllFact
  BY PrependAll, Zenon
<1>8. PeekFact
  BY PeekFacts, Zenon
<1>9. CurrentFact
  BY CurrentFacts, Zenon
<1>10. UnscheduledFact
  BY UnscheduledFacts, Zenon
<1>11. EntryFact
  BY EntryFacts, Zenon
<1>12. NoElemsFact
  BY NoElems, Zenon
<1>13. QueueTypesFact
  BY QueueTypes, Zenon
<1>14. StatusFact
  BY StatusFacts, Zenon
<1>15. PopFact
  BY PopFacts, Zenon
<1>16. EntryElemFact
  BY EntryElem, Zenon
<1>17. BatchEntryFact
  BY BatchEntry, Zenon DEF TInv
<1>18. DistinctTailFact
  BY DistinctTail, Zenon
<1> QED BY ZenonT(30), <1>1, <1>2, <1>3, <1>4, <1>5, <1>6, <1>7, <1>8, <1>9, <1>10, <1>11, <1>12,
      <1>13, <1>14, <1>15, <1>16, <1>17, <1>18, Zenon DEF Facts

-----------------------------------------------------------------------------
(* Numbers of tokens and of blocks are integers.                            *)
LEMMA Minimum ==
  ASSUME NEW a \in Int, NEW b \in Int
  PROVE  /\ AtMost(a, b) \in Int /\ AtMost(a, b) <= a /\ AtMost(a, b) <= b
         /\ Min({a, b}) \in Int /\ Min({a, b}) <= a /\ Min({a, b}) <= b
         /\ Max({a, b}) \in Int /\ Max({a, b}) >= a /\ Max({a, b}) >= b
<1>1. \E x \in {a, b} : \A y \in {a, b} : x <= y
  OBVIOUS
<1>2. \E x \in {a, b} : \A y \in {a, b} : x >= y
  OBVIOUS
<1>3. Min({a, b}) \in {a, b} /\ \A y \in {a, b} : Min({a, b}) <= y
  BY <1>1, Zenon DEF Min
<1>4. Max({a, b}) \in {a, b} /\ \A y \in {a, b} : Max({a, b}) >= y
  BY <1>2, Zenon DEF Max
<1> QED BY SMTT(30), <1>3, <1>4 DEF AtMost

(* cdiv is monotonic.                                                       *)
LEMMA CdivMonotonic ==
  ASSUME NEW a \in Int, NEW b \in Int, NEW m \in Nat \ {0}
  PROVE  cdiv(a, m) \in Int /\ (a <= b => cdiv(a, m) <= cdiv(b, m))
<1> DEFINE x == a + m - 1
           y == b + m - 1
<1>1. x \in Int /\ y \in Int /\ (a <= b => x <= y)
  BY SMTT(30)
<1> HIDE DEF x, y
<1>2. /\ x \div m \in Int /\ m * (x \div m) <= x /\ x < m * (x \div m) + m
      /\ y \div m \in Int /\ m * (y \div m) <= y /\ y < m * (y \div m) + m
  BY SMTT(30), <1>1
<1> DEFINE u == x \div m
           v == y \div m
<1> HIDE DEF u, v
<1>3. u \in Int /\ m * u <= x /\ v \in Int /\ y < m * v + m
  BY <1>2, Zenon DEF u, v
<1>4. ASSUME a <= b, u > v PROVE FALSE
  <2>1. u - v - 1 \in Nat
    BY SMTT(30), <1>3, <1>4
  <2>2. m * (u - v - 1) >= 0
    BY <2>1
  <2>3. m * (u - v - 1) = m * u - m * v - m
    BY SMTT(30), <1>3
  <2>4. m * u \in Int /\ m * v \in Int
    BY SMTT(30), <1>3
  <2> QED BY SMTT(30), <1>1, <1>3, <1>4, <2>2, <2>3, <2>4
<1> QED BY <1>3, <1>4 DEF cdiv, x, y, u, v

(* What a request needs is a number of blocks, and not fewer for more       *)
(* tokens.                                                                  *)
LEMMA NeededType ==
  ASSUME ListFacts, ReqOK, NEW r \in Request, NEW n \in Int
  PROVE  /\ Needed(r, n) \in Nat
         /\ \A k \in Int : n <= k => Needed(r, n) <= Needed(r, k)
<1> DEFINE c == Cardinality(req[r].blocks)
           full(k) == cdiv(AtMost(k, max_model_len), block_size)
<1>1. c \in Nat
  <2>1. req[r].blocks \in SUBSET Block
    BY Zenon DEF ReqOK, Rec
  <2>2. IsFiniteSet(req[r].blocks)
    BY <2>1, SchedulerAssumption, Zenon DEF ListFacts, SubsetFact
  <2> QED BY <2>2, Zenon DEF ListFacts, CardinalityFact
<1>2. \A k \in Int : full(k) \in Int /\ (n <= k => full(n) <= full(k))
  <2> SUFFICES ASSUME NEW k \in Int
               PROVE  full(k) \in Int /\ (n <= k => full(n) <= full(k))
    BY Zenon
  <2>1. /\ AtMost(k, max_model_len) \in Int /\ AtMost(n, max_model_len) \in Int
        /\ n <= k => AtMost(n, max_model_len) <= AtMost(k, max_model_len)
        /\ block_size \in Nat \ {0}
    BY SchedulerAssumption DEF AtMost
  <2> QED BY <2>1, CdivMonotonic, Zenon
<1>3. \A k \in Int : Needed(r, k) = IF full(k) - c > 0 THEN full(k) - c ELSE 0
  BY Zenon DEF Needed
<1> HIDE DEF c, full
<1>4. full(n) \in Int /\ Needed(r, n) = IF full(n) - c > 0 THEN full(n) - c ELSE 0
  BY <1>2, <1>3, Zenon
<1>5. ASSUME NEW k \in Int, n <= k PROVE Needed(r, n) <= Needed(r, k)
  <2>1. /\ full(k) \in Int /\ full(n) <= full(k)
        /\ Needed(r, k) = IF full(k) - c > 0 THEN full(k) - c ELSE 0
    BY <1>2, <1>3, <1>5, Zenon
  <2> QED BY SMTT(30), <1>1, <1>4, <2>1
<1> QED BY <1>1, <1>4, <1>5

-----------------------------------------------------------------------------
(* A step that replaces the fields of one request.                          *)
LEMMA OneReq ==
  ASSUME ReqOK, NEW r \in Request, NEW X \in Rec, req' = [req EXCEPT ![r] = X]
  PROVE  ReqOK' /\ req'[r] = X /\ \A s \in Request : s # r => req'[s] = req[s]
BY Zenon DEF ReqOK

(* allocate_slots takes blocks that are free and gives them to the request. *)
LEMMA AllocateFacts ==
  ASSUME ListFacts, ReqOK, BlocksOK, NEW r \in Request, NEW n \in Int, NEW R \in Rec,
         Needed(r, n) <= Cardinality(free), Allocate(r, n, R)
  PROVE  /\ ReqOK' /\ free' \in SUBSET Block
         /\ \E new \in SUBSET free :
              /\ Cardinality(new) = Needed(r, n)
              /\ free' = free \ new
              /\ req'[r] = [R EXCEPT !.blocks = R.blocks \cup new]
              /\ req'[r] \in Rec
         /\ \A s \in Request : s # r => req'[s] = req[s]
<1> DEFINE new == CHOOSE S \in SUBSET free : Cardinality(S) = Needed(r, n)
           X   == [R EXCEPT !.blocks = R.blocks \cup new]
<1>1. free' = free \ new /\ req' = [req EXCEPT ![r] = X]
  BY Zenon DEF Allocate
<1>2. new \in SUBSET free /\ Cardinality(new) = Needed(r, n)
  <2>1. IsFiniteSet(free)
    BY SchedulerAssumption, Zenon DEF BlocksOK, ListFacts, SubsetFact
  <2>2. Needed(r, n) \in Nat
    BY NeededType, Zenon
  <2>3. \E S \in SUBSET free : Cardinality(S) = Needed(r, n)
    BY <2>1, <2>2, Zenon DEF ListFacts, SubsetOfSizeFact
  <2> QED BY <2>3, Zenon
<1> HIDE DEF new
<1>3. X \in Rec
  <2>1. R.blocks \cup new \in SUBSET Block
    BY <1>2, Zenon DEF BlocksOK, Rec
  <2> QED BY <2>1, Zenon DEF Rec
<1> HIDE DEF X
<1>4. ReqOK' /\ req'[r] = X /\ \A s \in Request : s # r => req'[s] = req[s]
  BY <1>1, <1>3, OneReq, ZenonT(30)
<1>5. free' \in SUBSET Block
  BY SMTT(30), <1>1 DEF BlocksOK
<1> QED BY <1>1, <1>2, <1>3, <1>4, <1>5, Zenon DEF X

LEMMA AddRequestType ==
  ASSUME Facts, TInv
  PROVE  AddRequestEffect
<1> USE DEF AddRequestEffect
<1> TAKE r \in Request, len \in PromptLens
<1> HAVE AddRequest(r, len)
<1> DEFINE X == [req[r] EXCEPT !.status = "WAITING", !.arrival_time = arrivals + 1,
                               !.num_prompt_tokens = len, !.num_tokens = len]
<1>1. req' = [req EXCEPT ![r] = X]
  BY Zenon DEF AddRequest, TInv, ReqOK, Rec
<1>2. X \in Rec
  <2>1. len \in Int /\ arrivals + 1 \in Nat /\ req[r] \in Rec
    BY SMTT(30), SchedulerAssumption DEF TInv, ReqOK, CountsOK
  <2> QED BY ZenonT(30), <2>1 DEF Rec, Statuses, Waiting
<1> HIDE DEF X
<1>3. ReqOK' /\ req'[r] = X /\ \A s \in Request : s # r => req'[s] = req[s]
  BY <1>1, <1>2, OneReq, Zenon DEF TInv
<1>4. QueuesOK'
  <2>1. waiting' = add_request(req', waiting, r) /\ skipped_waiting' = skipped_waiting
        /\ running' = running
    BY Zenon DEF AddRequest
  <2>2. add_request(req', waiting, r) \in Seq(Request)
    BY Zenon DEF TInv, QueuesOK, Facts, AddOneFact
  <2> QED BY <2>1, <2>2, Zenon DEF TInv, QueuesOK
<1>5. BlocksOK' /\ SeqsOK' /\ SetsOK' /\ CountsOK' /\ BatchesOK' /\ StepOK'
  <2>1. CountsOK'
    BY SMTT(30) DEF TInv, CountsOK, AddRequest
  <2> QED BY <2>1, ZenonT(30) DEF AddRequest, blocks, seqs, reports, loads, worker,
        TInv, BlocksOK, SeqsOK, SetsOK, BatchesOK, StepOK, Retry
<1> QED BY <1>3, <1>4, <1>5, ZenonT(30) DEF TInv, X

(* A running request to preempt is always found.                            *)
LEMMA VictimFacts ==
  ASSUME ListFacts, Facts, TInv, VictimOK, InRunningLoop
  PROVE  /\ Victim \in Elems(running) /\ Victim \in Request
         /\ policy = "fcfs" => Victim = running[Len(running)]
         /\ policy # "fcfs" => \A r \in Elems(running) \ {Victim} : Before(req, r, Victim)
<1>1. /\ running # <<>> /\ running \in Seq(Request) /\ Elems(running) \subseteq Request
      /\ Len(running) \in Nat \ {0}
  BY Zenon DEF TInv, QueuesOK, Facts, CurrentFact, ElemsFact
<1>2. CASE policy = "fcfs"
  <2>1. running[Len(running)] \in Elems(running)
    BY <1>1, Zenon DEF Facts, ElemsFact
  <2> QED BY <1>1, <1>2, <2>1, Zenon DEF Victim
<1>3. CASE policy # "fcfs"
  <2> DEFINE first(k) == {running[i] : i \in 1..k}
             worst(k, v) == v \in first(k) /\ \A r \in first(k) \ {v} : Before(req, r, v)
             m == Len(running)
             E == {n \in Nat : n + 1 <= m => \E v : worst(n + 1, v)}
  <2>1. \A i \in 1..m : running[i] \in Elems(running) /\ running[i] \in Request
    BY <1>1, ZenonT(30) DEF Elems
  <2>2. /\ \A r, s \in Elems(running) : r # s => req[r].arrival_time # req[s].arrival_time
        /\ \A r \in Request : priority[r] \in Int /\ req[r].arrival_time \in Int
    BY SMTT(30), <1>3, SchedulerAssumption DEF VictimOK, TInv, ReqOK, Rec
  <2>3. \A r, s \in Elems(running) : r # s => Before(req, r, s) \/ Before(req, s, r)
    BY SMTT(30), <1>1, <2>2 DEF Before
  <2>4. \A r, s, v \in Elems(running) : Before(req, r, s) /\ Before(req, s, v)
           => Before(req, r, v)
    BY SMTT(30), <1>1, <2>2 DEF Before
  <2> HIDE DEF m
  <2>5. 0 \in E
    <3>1. 0 + 1 = 1 /\ 1..1 = {1}
      BY SMTT(30)
    <3>2. worst(1, running[1])
      BY <3>1, ZenonT(30)
    <3> QED BY Zenon, <3>1, <3>2
  <2>6. ASSUME NEW n \in Nat, n \in E PROVE n + 1 \in E
    <3> SUFFICES ASSUME (n + 1) + 1 <= m PROVE \E v : worst((n + 1) + 1, v)
      BY SMTT(30)
    <3>1. PICK v : worst(n + 1, v)
      BY SMTT(30), <1>1, <2>6 DEF m
    <3> DEFINE s == running[(n + 1) + 1]
    <3>2. first((n + 1) + 1) = first(n + 1) \cup {s}
      <4>1. 1..(n + 1) + 1 = (1..n + 1) \cup {(n + 1) + 1}
        BY SMTT(30)
      <4> QED BY <4>1, Zenon
    <3>3. first(n + 1) \subseteq Elems(running) /\ s \in Elems(running)
      <4>1. m \in Nat /\ (n + 1) + 1 \in 1..m /\ \A i \in 1..n + 1 : i \in 1..m
        BY <1>1 DEF m
      <4> QED BY <2>1, <4>1, Zenon
    <3> HIDE DEF s, first
    <3>4. CASE s = v \/ Before(req, s, v)
      <4>1. worst((n + 1) + 1, v)
        BY <3>1, <3>2, <3>4, Zenon
      <4> QED BY <4>1, Zenon
    <3>5. CASE s # v /\ Before(req, v, s)
      <4>1. worst((n + 1) + 1, s)
        BY <2>4, <3>1, <3>2, <3>3, <3>5, ZenonT(30)
      <4> QED BY <4>1, Zenon
    <3> QED BY <2>3, <3>1, <3>3, <3>4, <3>5, Zenon
  <2>7. m - 1 \in E
    <3> HIDE DEF E
    <3>1. m - 1 \in Nat
      BY SMTT(30), <1>1 DEF m
    <3> QED BY <2>5, <2>6, <3>1, Zenon DEF ListFacts, NatInSetFact
  <2>8. \E v : worst(m, v)
    <3>1. (m - 1) + 1 = m /\ (m - 1) + 1 <= m
      BY SMTT(30), <1>1 DEF m
    <3> HIDE DEF worst
    <3> QED BY <2>7, <3>1, Zenon
  <2>9. first(m) = Elems(running)
    BY Zenon DEF Elems, m
  <2>10. \E v \in Elems(running) : \A r \in Elems(running) \ {v} : Before(req, r, v)
    <3> HIDE DEF first
    <3> QED BY <2>8, <2>9, ZenonT(30)
  <2>11. /\ Victim \in Elems(running)
         /\ \A r \in Elems(running) \ {Victim} : Before(req, r, Victim)
    BY <1>3, <2>10, Zenon DEF Victim
  <2> QED BY <1>1, <1>3, <2>11, ZenonT(30)
<1> QED BY <1>2, <1>3, Zenon

(* _free_request_blocks frees the blocks of a request or defers them.       *)
LEMMA ReleaseFacts ==
  ASSUME ListFacts, ReqOK, BlocksOK, SeqsOK, NEW r \in Request, _free_request_blocks(r)
  PROVE  Released(r) /\ BlocksOK'
<1>1. Released(r)
  BY Zenon DEF Released, _free_request_blocks
<1>2. req[r].blocks \in SUBSET Block
  BY Zenon DEF ReqOK, Rec
<1>3. [fence |-> sched_step_seq, blocks |-> req[r].blocks] \in Deferred
  BY <1>2, Zenon DEF Deferred, SeqsOK
<1>4. Append(deferred_frees, [fence |-> sched_step_seq, blocks |-> req[r].blocks])
        \in Seq(Deferred)
  BY <1>3, Zenon DEF BlocksOK, ListFacts, AppendFact
<1> QED BY <1>1, <1>2, <1>4, Zenon DEF Released, BlocksOK

(* _free_request: the request is gone, or finished while a load goes on.    *)
LEMMA FreeRequestFacts ==
  ASSUME ListFacts, Facts,
         ReqOK, BlocksOK, SeqsOK, SetsOK, NEW r \in Request, NEW delay \in BOOLEAN,
         _free_request(r, delay)
  PROVE  /\ ReqOK' /\ BlocksOK'
         /\ inflight_prefills' = inflight_prefills \ {r}
         /\ finished_req_ids' = finished_req_ids \cup {r}
         /\ \A s \in Request : s # r => req'[s] = req[s]
         /\ delay => /\ req'[r] = [req[r] EXCEPT !.status = "FINISHED"]
                     /\ free' = free /\ deferred_frees' = deferred_frees
         /\ ~delay => req'[r] = Gone /\ Released(r)
<1>1. /\ inflight_prefills' = inflight_prefills \ {r}
      /\ finished_req_ids' = finished_req_ids \cup {r}
  BY Zenon DEF _free_request
<1>2. CASE delay
  <2> DEFINE X == [req[r] EXCEPT !.status = "FINISHED"]
  <2>1. req' = [req EXCEPT ![r] = X] /\ free' = free /\ deferred_frees' = deferred_frees
    BY <1>2, Zenon DEF _free_request, blocks, ReqOK, Rec
  <2>2. X \in Rec
    BY ZenonT(30) DEF ReqOK, Rec, Statuses, Finished
  <2> HIDE DEF X
  <2>3. ReqOK' /\ req'[r] = X /\ \A s \in Request : s # r => req'[s] = req[s]
    BY <2>1, <2>2, OneReq, Zenon
  <2>4. BlocksOK'
    BY <2>1, Zenon DEF BlocksOK
  <2> QED BY <1>1, <1>2, <2>1, <2>3, <2>4, Zenon DEF X
<1>3. CASE ~delay
  <2>1. req' = [req EXCEPT ![r] = Gone] /\ _free_request_blocks(r)
    BY <1>3, Zenon DEF _free_request, Gone
  <2>2. ReqOK' /\ req'[r] = Gone /\ \A s \in Request : s # r => req'[s] = req[s]
    BY <2>1, OneReq, Zenon DEF Facts, GoneFact
  <2>3. Released(r) /\ BlocksOK'
    BY <2>1, ReleaseFacts, Zenon
  <2> QED BY <1>1, <1>3, <2>2, <2>3, Zenon
<1> QED BY <1>2, <1>3, Zenon

(* _preempt_request: the request waits again, without blocks.               *)
LEMMA PreemptFacts ==
  ASSUME ListFacts, Facts,
         ReqOK, BlocksOK, SeqsOK, SetsOK, QueuesOK, NEW r \in Request, NEW R, R \in Rec,
         _preempt_request(r, R)
  PROVE  /\ ReqOK' /\ BlocksOK' /\ Released(r)
         /\ \A s \in Request : s # r => req'[s] = req[s]
         /\ req'[r].status = "PREEMPTED" /\ req'[r].blocks = {}
         /\ req'[r].arrival_time = R.arrival_time
         /\ req'[r].last_sched_seq = R.last_sched_seq
         /\ waiting' = prepend_request(waiting, r) /\ waiting' \in Seq(Request)
         /\ inflight_prefills' = inflight_prefills \ {r}
         /\ reset_preempted_req_ids' = reset_preempted_req_ids \cup {r}
<1> DEFINE X == [R EXCEPT !.status = "PREEMPTED", !.num_computed_tokens = 0,
                          !.spec_token_ids = 0, !.preempted = TRUE, !.blocks = {}]
<1>1. /\ req' = [req EXCEPT ![r] = X] /\ waiting' = prepend_request(waiting, r)
      /\ inflight_prefills' = inflight_prefills \ {r}
      /\ reset_preempted_req_ids' = reset_preempted_req_ids \cup {r}
      /\ _free_request_blocks(r)
  BY Zenon DEF _preempt_request
<1>2. /\ X \in Rec /\ X.status = "PREEMPTED" /\ X.blocks = {}
      /\ X.arrival_time = R.arrival_time /\ X.last_sched_seq = R.last_sched_seq
  <2>1. "PREEMPTED" \in Statuses
    BY Zenon DEF Statuses, Waiting
  <2>2. X \in Rec
    <3> DEFINE z == 0
               w == TRUE
               b == {}
               s == "PREEMPTED"
    <3>1. /\ z \in Int /\ w \in BOOLEAN /\ b \in SUBSET Block /\ s \in Statuses
          /\ X = [R EXCEPT !.status = s, !.num_computed_tokens = z,
                           !.spec_token_ids = z, !.preempted = w, !.blocks = b]
      BY <2>1
    <3> HIDE DEF X, z, w, b, s
    <3> QED BY Zenon, <3>1 DEF Rec
  <2>3. X.status = "PREEMPTED" /\ X.blocks = {}
    BY Zenon DEF Rec
  <2>4. X.arrival_time = R.arrival_time /\ X.last_sched_seq = R.last_sched_seq
    BY Zenon DEF Rec
  <2> QED BY <2>2, <2>3, <2>4, Zenon
<1> HIDE DEF X
<1>3. ReqOK' /\ req'[r] = X /\ \A s \in Request : s # r => req'[s] = req[s]
  BY <1>1, <1>2, OneReq, Zenon
<1>4. Released(r) /\ BlocksOK'
  BY <1>1, ReleaseFacts, Zenon
<1>5. waiting' \in Seq(Request)
  BY <1>1, Zenon DEF QueuesOK, Facts, PrependOneFact
<1> QED BY <1>1, <1>2, <1>3, <1>4, <1>5, Zenon

(* _update_request_as_session: the request keeps its blocks and waits.      *)
LEMMA SessionFacts ==
  ASSUME NEW R, R \in Rec, NEW c \in Chunk
  PROVE  LET X == _update_request_as_session(R, c)
         IN /\ X \in Rec /\ X.status = "WAITING" /\ X.blocks = R.blocks
            /\ X.last_sched_seq = R.last_sched_seq
            /\ X.num_computed_tokens = R.num_computed_tokens
            /\ X.streaming_queue = R.streaming_queue
<1> DEFINE kept == AtMost(R.num_tokens, R.num_computed_tokens)
           out  == kept - AtMost(kept, R.num_prompt_tokens)
           X    == _update_request_as_session(R, c)
<1>1. /\ R.num_tokens \in Int /\ R.num_computed_tokens \in Int
      /\ R.num_prompt_tokens \in Int /\ c.len \in Nat /\ c.arrival_time \in Nat
  BY Zenon DEF Rec, Chunk
<1>2. kept \in Int
  BY <1>1, Minimum, Zenon
<1> HIDE DEF kept
<1>3. out \in Int
  <2>1. AtMost(kept, R.num_prompt_tokens) \in Int
    BY <1>1, <1>2, Minimum, Zenon
  <2> QED BY SMTT(30), <1>2, <2>1
<1>4. X = [R EXCEPT !.num_tokens = kept + c.len,
                    !.num_prompt_tokens = R.num_prompt_tokens + out + c.len,
                    !.num_output_tokens = 0,
                    !.arrival_time = c.arrival_time,
                    !.status = "WAITING"]
  BY ZenonT(30) DEF _update_request_as_session, kept
<1> HIDE DEF out, X
<1>5. kept + c.len \in Int /\ R.num_prompt_tokens + out + c.len \in Int
  BY SMTT(30), <1>1, <1>2, <1>3
<1>6. X \in Rec
  <2> DEFINE a == kept + c.len
             b == R.num_prompt_tokens + out + c.len
             d == c.arrival_time
             z == 0
             s == "WAITING"
  <2>1. a \in Int /\ b \in Int /\ d \in Nat /\ z \in Int
    BY SMTT(30), <1>1, <1>5
  <2>2. s \in Statuses
    BY Zenon DEF Statuses, Waiting
  <2>3. X = [R EXCEPT !.num_tokens = a, !.num_prompt_tokens = b,
                      !.num_output_tokens = z, !.arrival_time = d, !.status = s]
    BY <1>4, Zenon
  <2> HIDE DEF a, b, d, z, s
  <2> QED BY Zenon, <2>1, <2>2, <2>3 DEF Rec
<1>7. X.status = "WAITING" /\ X.blocks = R.blocks
  BY <1>4, Zenon DEF Rec
<1>8. X.last_sched_seq = R.last_sched_seq
  BY <1>4, Zenon DEF Rec
<1>9. /\ X.num_computed_tokens = R.num_computed_tokens
      /\ X.streaming_queue = R.streaming_queue
  BY <1>4, Zenon DEF Rec
<1> QED BY <1>6, <1>7, <1>8, <1>9, Zenon DEF X

-----------------------------------------------------------------------------
(* A step that changes none but the local variables.                        *)
LEMMA StepOnly ==
  ASSUME TInv, UNCHANGED <<req, queues, rest, arrivals, resets>>, StepOK'
  PROVE  TInv'
BY ZenonT(30) DEF TInv, ReqOK, QueuesOK, BlocksOK, SeqsOK, SetsOK, CountsOK, BatchesOK,
       rest, queues, blocks, seqs, reports, loads

LEMMA IdleFacts ==
  ASSUME ListFacts, NEW ph \in Phases
  PROVE  /\ Idle \in Step /\ [Idle EXCEPT !.phase = ph] \in Step
         /\ [Idle EXCEPT !.phase = ph].phase = ph
         /\ [Idle EXCEPT !.phase = ph].scheduled = <<>>
         /\ [Idle EXCEPT !.phase = ph].skipped = <<>>
         /\ [Idle EXCEPT !.phase = ph].num_new_tokens = 0
         /\ [Idle EXCEPT !.phase = ph].req_index = 1
         /\ [Idle EXCEPT !.phase = ph].new = {}
         /\ ~[Idle EXCEPT !.phase = ph].preempted
         /\ Idle.phase = "idle" /\ Idle.scheduled = <<>> /\ Idle.skipped = <<>>
         /\ Idle.num_new_tokens = 0 /\ Idle.req_index = 1 /\ Idle.new = {}
         /\ ~Idle.preempted
<1>1. <<>> \in Seq(Scheduled) /\ <<>> \in Seq(Request)
  BY Zenon DEF ListFacts, EmptySeqFact
<1>2. Idle \in Step
  BY SMTT(30), <1>1 DEF Idle, Step, Phases
<1>3. [Idle EXCEPT !.phase = ph] \in Step
  BY <1>2, Zenon DEF Step
<1>4. /\ [Idle EXCEPT !.phase = ph].phase = ph
      /\ [Idle EXCEPT !.phase = ph].scheduled = <<>>
      /\ [Idle EXCEPT !.phase = ph].skipped = <<>>
      /\ [Idle EXCEPT !.phase = ph].num_new_tokens = 0
      /\ [Idle EXCEPT !.phase = ph].req_index = 1
      /\ [Idle EXCEPT !.phase = ph].new = {}
      /\ ~[Idle EXCEPT !.phase = ph].preempted
  BY Zenon DEF Idle
<1>5. /\ Idle.phase = "idle" /\ Idle.scheduled = <<>> /\ Idle.skipped = <<>>
      /\ Idle.num_new_tokens = 0 /\ Idle.req_index = 1 /\ Idle.new = {}
      /\ ~Idle.preempted
  BY ZenonT(30) DEF Idle
<1> QED BY <1>2, <1>3, <1>4, <1>5, ZenonT(30)

(* The steps of the loops that only move on.                                *)
LEMMA ControlType ==
  ASSUME ListFacts, TInv
  PROVE  ControlEffect
<1> USE DEF ControlEffect
<1> HAVE \/ StartReset
         \/ \E state \in PauseStates \cup {"UNPAUSED"} : set_pause_state(state)
         \/ StartSchedule \/ SkipRunning \/ EndRunning
         \/ \E ext \in 0..max_model_len : StopWaiting(ext)
         \/ EndUpdate
<1>0. step \in Step /\ step.scheduled \in Seq(Scheduled) \cup Seq(InBatch)
  BY ZenonT(30) DEF TInv, StepOK, Step
<1>1. CASE StartReset
  <2>1. /\ step' = [step EXCEPT !.phase = "reset"] /\ resets' = resets + 1
        /\ UNCHANGED <<req, queues, rest, arrivals, failed>> /\ running # <<>>
        /\ step.phase = "idle"
    BY <1>1, Zenon DEF StartReset, rest, worker
  <2>2. step' \in Step /\ step'.phase = "reset" /\ step'.scheduled = step.scheduled
    BY <1>0, <2>1, Zenon DEF Step, Phases
  <2>3. StepOK'
    BY <2>1, <2>2, Zenon DEF TInv, StepOK, queues
  <2>4. resets + 1 \in Nat
    BY SMTT(30) DEF TInv, CountsOK
  <2> QED BY <2>1, <2>3, <2>4, Zenon
             DEF TInv, ReqOK, QueuesOK, BlocksOK, SeqsOK, SetsOK, CountsOK,
        BatchesOK, rest, queues, blocks, seqs, reports, loads
<1>2. ASSUME NEW state \in PauseStates \cup {"UNPAUSED"}, set_pause_state(state)
      PROVE  TInv' /\ UNCHANGED <<req, queues, rest, arrivals, failed>>
  <2>1. UNCHANGED <<req, queues, rest, arrivals, resets, step, failed>>
    BY <1>2, Zenon DEF set_pause_state, rest, worker
  <2>2. StepOK'
    BY <2>1, ZenonT(30) DEF TInv, StepOK, queues, rest, Retry
  <2> QED BY <2>1, <2>2, StepOnly, Zenon DEF rest
<1>3. CASE StartSchedule
  <2>1. /\ UNCHANGED <<req, queues, rest, arrivals, resets, failed>>
        /\ \/ \E n \in Int : step' = [Idle EXCEPT !.phase = "running", !.token_budget = n]
           \/ batch_queue # <<>> /\ step' = [Idle EXCEPT !.phase = "result"]
    <3> DEFINE n == IF pause_state = "PAUSED_ALL" THEN 0 ELSE max_num_scheduled_tokens
    <3>1. n \in Int
      BY SMTT(30), SchedulerAssumption
    <3>2. UNCHANGED <<req, queues, rest, arrivals, resets, failed>>
      BY <1>3, Zenon DEF StartSchedule, rest, worker, outside
    <3>3. \/ step' = [Idle EXCEPT !.phase = "running", !.token_budget = n]
          \/ batch_queue # <<>> /\ step' = [Idle EXCEPT !.phase = "result"]
      BY <1>3, Zenon DEF StartSchedule
    <3> HIDE DEF n
    <3> QED BY <3>1, <3>2, <3>3, Zenon
  <2>2. CASE batch_queue # <<>> /\ step' = [Idle EXCEPT !.phase = "result"]
    <3>1. step' \in Step /\ step'.phase = "result" /\ step'.scheduled = <<>>
      BY <2>2, IdleFacts, Zenon DEF Phases
    <3>2. <<>> \in Seq(Scheduled)
      BY Zenon DEF ListFacts, EmptySeqFact
    <3>3. batch_queue' = batch_queue
      BY ZenonT(30), <2>1 DEF rest
    <3>4. StepOK'
      BY Zenon, <2>2, <3>1, <3>2, <3>3 DEF StepOK
    <3> QED BY ZenonT(30), <2>1, <3>4, StepOnly
  <2>3. ASSUME NEW n \in Int, step' = [Idle EXCEPT !.phase = "running", !.token_budget = n]
        PROVE  TInv'
    <3>1. /\ step' \in Step /\ step'.phase = "running" /\ step'.scheduled = <<>>
          /\ step'.num_new_tokens = 0 /\ step'.req_index = 1
      <4>1. Idle \in Step
        BY IdleFacts, Zenon DEF Phases
      <4>2. step' \in Step
        BY Zenon, <2>3, <4>1 DEF Step, Phases
      <4> QED BY <2>3, <4>2, Zenon DEF Idle
    <3>2. <<>> \in Seq(Scheduled) /\ Len(<<>>) = 0
      BY ZenonT(30) DEF ListFacts, EmptySeqFact
    <3>3. StepOK'
      BY SMTT(30), <3>1, <3>2 DEF StepOK, Retry
    <3> QED BY Zenon, <2>1, <3>3, StepOnly
  <2> QED BY Zenon, <2>1, <2>2, <2>3
<1>4. CASE SkipRunning
  <2>1. /\ step' = [step EXCEPT !.req_index = step.req_index + 1] /\ step.phase = "running"
        /\ UNCHANGED <<req, queues, rest, arrivals, resets, failed>>
    BY <1>4, ZenonT(30) DEF SkipRunning, InRunningLoop, rest, worker, outside
  <2>2. /\ step' \in Step /\ step'.phase = "running" /\ step'.scheduled = step.scheduled
        /\ step'.num_new_tokens = step.num_new_tokens /\ step'.request = step.request
        /\ step'.req_index = step.req_index + 1 /\ step.req_index \in Int
    BY SMTT(30), <1>0, <2>1 DEF Step
  <2>3. Len(step.scheduled) \in Nat
    BY <1>0, Zenon DEF ListFacts, LenFact
  <2>4. StepOK'
    BY SMTT(30), <2>1, <2>2, <2>3 DEF TInv, StepOK, queues, Retry
  <2> QED BY <2>1, <2>4, StepOnly, Zenon
<1>5. CASE EndRunning \/ \E ext \in 0..max_model_len : StopWaiting(ext)
  <2>1. /\ \E ph \in {"waiting", "end"} : step' = [step EXCEPT !.phase = ph]
        /\ step.phase \in {"running", "waiting"}
        /\ UNCHANGED <<req, queues, rest, arrivals, resets, failed>>
    BY <1>5, Zenon DEF EndRunning, StopWaiting, InWaitingLoop, rest, worker, outside
  <2>2. /\ step' \in Step /\ step'.phase \in {"waiting", "end"}
        /\ step'.scheduled = step.scheduled
    BY <1>0, <2>1, ZenonT(30) DEF Step, Phases
  <2>3. StepOK'
    BY <2>1, <2>2, Zenon DEF TInv, StepOK
  <2> QED BY <2>1, <2>3, StepOnly, Zenon
<1>6. CASE EndUpdate
  <2>1. step' = Idle /\ UNCHANGED <<req, queues, rest, arrivals, resets, failed>>
    BY <1>6, Zenon DEF EndUpdate, rest, worker, outside
  <2>2. step' \in Step /\ step'.phase = "idle" /\ step'.scheduled = <<>>
    BY <2>1, IdleFacts, Zenon DEF Phases
  <2>3. <<>> \in Seq(Scheduled)
    BY Zenon DEF ListFacts, EmptySeqFact
  <2>4. StepOK'
    BY <2>2, <2>3, Zenon DEF StepOK
  <2> QED BY <2>1, <2>4, StepOnly, Zenon
<1> QED BY <1>1, <1>2, <1>3, <1>4, <1>5, <1>6, Zenon

-----------------------------------------------------------------------------
(* A load ends.                                                             *)
LEMMA LoadDoneType ==
  ASSUME TInv, NEW r \in Request, LoadDone(r)
  PROVE  TInv'
<1>1. /\ UNCHANGED <<req, queues, blocks, seqs, reports, num_waiting_for_streaming_input,
                      inflight_prefills, finished_recving, arrivals, resets, step,
                      occupied, batch_queue>>
      /\ loading' = loading \ {r} /\ loaded' = loaded \cup {r}
  BY Zenon DEF LoadDone, worker, outside
<1>2. StepOK'
  BY <1>1, Zenon DEF TInv, StepOK, queues, Retry
<1>3. SetsOK'
  BY <1>1, ZenonT(30) DEF TInv, SetsOK, reports
<1> QED BY <1>1, <1>2, <1>3, ZenonT(30)
           DEF TInv, ReqOK, QueuesOK, BlocksOK, SeqsOK, CountsOK, BatchesOK,
        queues, blocks, seqs

(* The next chunk of a session: it is queued, it resumes the session, or it *)
(* ends the session.                                                        *)
LEMMA AddChunkType ==
  ASSUME ListFacts, Facts, TInv
  PROVE  AddChunkEffect
<1> USE DEF AddChunkEffect
<1> TAKE r \in Request, len \in PromptLens \cup {0}
<1> HAVE AddChunk(r, len)
<1> DEFINE update == [len |-> len, arrival_time |-> arrivals + 1]
<1>0. /\ ReqOK /\ QueuesOK /\ BlocksOK /\ SeqsOK /\ SetsOK /\ CountsOK /\ BatchesOK /\ StepOK
      /\ req[r] \in Rec /\ step.phase = "idle" /\ arrivals + 1 \in Nat
  BY SMTT(30) DEF TInv, ReqOK, AddChunk, CountsOK
<1>1. /\ arrivals' = arrivals + 1
      /\ UNCHANGED <<seqs, reset_preempted_req_ids, loads, resets, step, occupied, batch_queue>>
  BY Zenon DEF AddChunk, worker
<1>2. update \in Chunk
  BY SMTT(30), <1>0, SchedulerAssumption DEF Chunk
<1> HIDE DEF update
<1>3. StepOK'
  BY <1>0, <1>1, Zenon DEF StepOK
<1>4. SeqsOK' /\ BatchesOK'
  BY <1>0, <1>1, Zenon DEF SeqsOK, BatchesOK, seqs
<1>5. CASE req[r].status # "STREAMING"
  <2> DEFINE X == [req[r] EXCEPT !.streaming_queue = Append(req[r].streaming_queue, update)]
  <2>1. /\ req' = [req EXCEPT ![r] = X]
        /\ UNCHANGED <<queues, blocks, finished_req_ids, inflight_prefills,
                       num_waiting_for_streaming_input>>
    BY <1>0, <1>5, Zenon DEF AddChunk, update, ReqOK, Rec
  <2>2. X \in Rec
    <3>1. Append(req[r].streaming_queue, update) \in Seq(Chunk)
      BY <1>0, <1>2, ZenonT(30) DEF Rec, ListFacts, AppendFact
    <3> QED BY ZenonT(30), <1>0, <3>1 DEF Rec
  <2>3. /\ X.status = req[r].status /\ X.blocks = req[r].blocks
        /\ X.last_sched_seq = req[r].last_sched_seq
        /\ X.num_computed_tokens = req[r].num_computed_tokens
    BY <1>0, Zenon DEF Rec
  <2> HIDE DEF X
  <2>4. ReqOK' /\ req'[r] = X /\ \A s \in Request : s # r => req'[s] = req[s]
    BY <1>0, <2>1, <2>2, OneReq, Zenon
  <2>5. QueuesOK' /\ BlocksOK' /\ SetsOK' /\ CountsOK'
    BY <1>0, <1>1, <2>1, ZenonT(30) DEF QueuesOK, BlocksOK, SetsOK, CountsOK, queues, blocks, loads
  <2> QED BY <1>3, <1>4, <1>5, <2>1, <2>3, <2>4, <2>5, ZenonT(30) DEF TInv
<1>6. CASE req[r].status = "STREAMING"
  <2>1. num_waiting_for_streaming_input' = NoLongerStreaming(r)
    BY <1>6, Zenon DEF AddChunk
  <2>2. CountsOK'
    <3>1. num_waiting_for_streaming_input \in Int /\ resets \in Nat
      BY <1>0, Zenon DEF CountsOK
    <3>2. NoLongerStreaming(r) \in Int
      BY <3>1 DEF NoLongerStreaming
    <3>3. arrivals' \in Nat /\ resets' \in Nat
      BY <1>0, <1>1, <3>1, ZenonT(30)
    <3> QED BY <2>1, <3>2, <3>3, ZenonT(30) DEF CountsOK
  <2>3. CASE len > 0
    <3> DEFINE X == _update_request_as_session(req[r], update)
    <3>1. /\ req' = [req EXCEPT ![r] = X]
          /\ UNCHANGED <<queues, blocks, finished_req_ids, inflight_prefills>>
      BY <1>6, <2>3, Zenon DEF AddChunk, update
    <3>2. /\ X \in Rec /\ X.status = "WAITING" /\ X.blocks = req[r].blocks
          /\ X.last_sched_seq = req[r].last_sched_seq
          /\ X.num_computed_tokens = req[r].num_computed_tokens
      BY <1>0, <1>2, SessionFacts, ZenonT(30)
    <3> HIDE DEF X
    <3>3. ReqOK' /\ req'[r] = X /\ \A s \in Request : s # r => req'[s] = req[s]
      BY <1>0, <3>1, <3>2, OneReq, Zenon
    <3>4. QueuesOK' /\ BlocksOK' /\ SetsOK'
      BY <1>0, <1>1, <3>1, Zenon DEF QueuesOK, BlocksOK, SetsOK, queues, blocks, loads
    <3> QED BY <1>3, <1>4, <1>6, <2>1, <2>2, <3>1, <3>2, <3>3, <3>4, ZenonT(30) DEF TInv
  <2>4. CASE ~(len > 0)
    <3>1. /\ skipped_waiting' = remove_all(skipped_waiting, {r})
          /\ waiting' = remove_all(waiting, {r})
          /\ _free_request(r, FALSE) /\ running' = running
      BY Zenon, <1>6, <2>4 DEF AddChunk
    <3>2. /\ ReqOK' /\ BlocksOK' /\ req'[r] = Gone /\ Released(r)
          /\ inflight_prefills' = inflight_prefills \ {r}
          /\ finished_req_ids' = finished_req_ids \cup {r}
          /\ \A s \in Request : s # r => req'[s] = req[s]
      BY ZenonT(30), <1>0, <3>1, FreeRequestFacts
    <3>3. QueuesOK'
      BY <1>0, <3>1, ZenonT(30) DEF QueuesOK, Facts, RemoveFact
    <3>4. SetsOK'
      BY Zenon, <1>0, <1>1, <3>2 DEF SetsOK, loads
    <3> QED BY <1>3, <1>4, <1>6, <2>1, <2>2, <3>1, <3>2, <3>3, <3>4, ZenonT(30) DEF TInv
  <2> QED BY <2>3, <2>4, Zenon
<1> QED BY ZenonT(30), <1>5, <1>6

(* An abort.                                                                *)
LEMMA AbortType ==
  ASSUME ListFacts, Facts, TInv
  PROVE  AbortEffect
<1> USE DEF AbortEffect
<1> TAKE r \in Request
<1> HAVE Abort(r)
<1> DEFINE delay == req[r].status = "REMOTE" /\ r \notin finished_recving
<1>0. /\ ReqOK /\ QueuesOK /\ BlocksOK /\ SeqsOK /\ SetsOK /\ CountsOK /\ BatchesOK /\ StepOK
      /\ step.phase \in {"idle", "result"}
  BY Zenon DEF TInv, Abort
<1>1. /\ \/ running' = remove_all(running, {r}) /\ UNCHANGED <<waiting, skipped_waiting>>
         \/ /\ running' = running /\ waiting' = remove_all(waiting, {r})
            /\ skipped_waiting' = remove_all(skipped_waiting, {r})
      /\ num_waiting_for_streaming_input' = NoLongerStreaming(r)
      /\ finished_recving' = finished_recving \ {r}
      /\ UNCHANGED <<seqs, reset_preempted_req_ids, loading, loaded, arrivals, resets, step,
                     occupied, batch_queue>>
  BY Zenon DEF Abort, worker, outside
<1>2. delay \in BOOLEAN /\ _free_request(r, delay)
  BY Zenon DEF Abort
<1> HIDE DEF delay
<1>3. /\ ReqOK' /\ BlocksOK'
      /\ inflight_prefills' = inflight_prefills \ {r}
      /\ finished_req_ids' = finished_req_ids \cup {r}
      /\ \A s \in Request : s # r => req'[s] = req[s]
      /\ delay => /\ req'[r] = [req[r] EXCEPT !.status = "FINISHED"]
                  /\ free' = free /\ deferred_frees' = deferred_frees
      /\ ~delay => req'[r] = Gone /\ Released(r)
  BY <1>0, <1>2, FreeRequestFacts, Zenon
<1>4. QueuesOK'
  <2>1. waiting \in Seq(Request) /\ skipped_waiting \in Seq(Request) /\ running \in Seq(Request)
    BY <1>0, Zenon DEF QueuesOK
  <2>2. /\ remove_all(waiting, {r}) \in Seq(Request)
        /\ remove_all(skipped_waiting, {r}) \in Seq(Request)
        /\ remove_all(running, {r}) \in Seq(Request)
    BY <2>1, Zenon DEF Facts, RemoveFact
  <2> QED BY <1>1, <2>1, <2>2, Zenon DEF QueuesOK
<1>5. SetsOK'
  BY <1>0, <1>1, <1>3, ZenonT(30) DEF SetsOK
<1>6. CountsOK' /\ SeqsOK' /\ BatchesOK'
  BY SMTT(30), <1>0, <1>1 DEF CountsOK, SeqsOK, BatchesOK, NoLongerStreaming, seqs
<1>7. StepOK'
  BY <1>0, <1>1, Zenon DEF StepOK
<1>8. TInv'
  BY <1>3, <1>4, <1>5, <1>6, <1>7, ZenonT(30) DEF TInv
<1> QED BY <1>3, <1>8, Zenon DEF delay

(* One iteration of a reset: the last running request is preempted.         *)
LEMMA ResetRunningType ==
  ASSUME ListFacts, Facts, TInv
  PROVE  ResetRunningEffect
<1> USE DEF ResetRunningEffect
<1> HAVE ResetRunning
<1> DEFINE r == running[Len(running)]
           R == [req[r] EXCEPT !.async_tokens_to_discard = req[r].num_output_placeholders,
                               !.num_output_placeholders = 0]
<1>0. /\ ReqOK /\ QueuesOK /\ BlocksOK /\ SeqsOK /\ SetsOK /\ CountsOK /\ BatchesOK /\ StepOK
      /\ step.phase = "reset" /\ running # <<>> /\ running \in Seq(Request)
  BY Zenon DEF TInv, ResetRunning, StepOK, QueuesOK
<1>1. r \in Elems(running) /\ r \in Request /\ Len(running) \in Nat \ {0}
  BY <1>0, Zenon DEF Facts, ListFacts, ElemsFact, EmptySeqFact
<1>2. /\ running' = SubSeq(running, 1, Len(running) - 1)
      /\ _preempt_request(r, R)
      /\ step' = IF Len(running) = 1 THEN Idle ELSE step
      /\ UNCHANGED <<skipped_waiting, seqs, finished_req_ids,
                     num_waiting_for_streaming_input, loads, arrivals, resets, occupied,
                     batch_queue>>
  BY Zenon DEF ResetRunning, worker, outside
<1>3. /\ R \in Rec /\ R.arrival_time = req[r].arrival_time
      /\ R.last_sched_seq = req[r].last_sched_seq
  <2>1. req[r] \in Rec
    BY <1>0, <1>1, Zenon DEF ReqOK
  <2> DEFINE Q == req[r]
             z == 0
  <2> HIDE DEF Q, z
  <2>2. Q \in Rec /\ z \in Int /\ R = [Q EXCEPT !.async_tokens_to_discard = Q.num_output_placeholders,
                               !.num_output_placeholders = z]
    BY <2>1 DEF Q, z
  <2> HIDE DEF R
  <2>3. R \in Rec /\ R.arrival_time = Q.arrival_time /\ R.last_sched_seq = Q.last_sched_seq
    BY ZenonT(30), <2>2 DEF Rec
  <2> QED BY <2>3, Zenon DEF Q
<1> HIDE DEF R
<1>4. /\ ReqOK' /\ BlocksOK' /\ Released(r)
      /\ \A s \in Request : s # r => req'[s] = req[s]
      /\ req'[r].status = "PREEMPTED" /\ req'[r].blocks = {}
      /\ req'[r].arrival_time = R.arrival_time
      /\ req'[r].last_sched_seq = R.last_sched_seq
      /\ waiting' = prepend_request(waiting, r) /\ waiting' \in Seq(Request)
      /\ inflight_prefills' = inflight_prefills \ {r}
      /\ reset_preempted_req_ids' = reset_preempted_req_ids \cup {r}
  <2> HIDE DEF r
  <2> QED BY <1>0, <1>1, <1>2, <1>3, PreemptFacts, ZenonT(30)
<1>5. /\ running' \in Seq(Request) /\ (Len(running) # 1 => running' # <<>>)
  <2> DEFINE m == Len(running) - 1
  <2>1. m \in 0..Len(running) /\ (Len(running) # 1 => m # 0)
    BY SMTT(30), <1>1
  <2> HIDE DEF m
  <2>2. SubSeq(running, 1, m) \in Seq(Request) /\ Len(SubSeq(running, 1, m)) = m
    <3>1. running \in Seq(Request) /\ m \in 0..Len(running)
      BY <1>0, <2>1, Zenon
    <3> QED BY SMTT(30), <3>1 DEF ListFacts, SplitElemsFact
  <2>3. Len(<<>>) = 0
    BY ZenonT(30) DEF ListFacts, EmptySeqFact
  <2>4. running' = SubSeq(running, 1, m)
    BY <1>2, ZenonT(30) DEF m
  <2> QED BY <2>1, <2>2, <2>3, <2>4, Zenon
<1>6. QueuesOK' /\ SetsOK'
  BY SMTT(30), <1>0, <1>2, <1>4, <1>5 DEF QueuesOK, SetsOK, loads
<1>7. CountsOK' /\ SeqsOK' /\ BatchesOK'
  BY <1>0, <1>2, ZenonT(30) DEF CountsOK, SeqsOK, BatchesOK, seqs
<1>8. StepOK'
  <2>1. CASE Len(running) = 1
    <3>1. step' \in Step /\ step'.phase = "idle" /\ step'.scheduled = <<>>
      BY <1>2, <2>1, IdleFacts, ZenonT(30) DEF Phases
    <3>2. <<>> \in Seq(Scheduled)
      BY Zenon DEF ListFacts, EmptySeqFact
    <3> QED BY <3>1, <3>2, Zenon DEF StepOK
  <2>2. CASE Len(running) # 1
    <3>1. step' = step
      BY <1>2, <2>2, ZenonT(30)
    <3> QED BY <1>0, <1>5, <2>2, <3>1, Zenon DEF StepOK
  <2> QED BY <2>1, <2>2, Zenon
<1> HIDE DEF r
<1>9. TInv'
  BY <1>4, <1>6, <1>7, <1>8, ZenonT(30) DEF TInv
<1> QED BY <1>0, <1>1, <1>3, <1>4, <1>8, <1>9, ZenonT(30) DEF r

(* A running request is preempted for lack of blocks.                       *)
LEMMA PreemptRunningType ==
  ASSUME ListFacts, Facts, TInv
  PROVE  PreemptRunningEffect
<1> USE DEF PreemptRunningEffect
<1> HAVE VictimOK /\ PreemptRunning
<1> DEFINE v == Victim
           x == Unscheduled(v)
           r == Current
           n == NumNewTokens
           y == IF v = r
                THEN [x EXCEPT !.phase = "end", !.preempted = TRUE,
                               !.request = None, !.num_new_tokens = 0]
                ELSE [x EXCEPT !.preempted = TRUE, !.request = r, !.num_new_tokens = n]
<1>0. /\ ReqOK /\ QueuesOK /\ BlocksOK /\ SeqsOK /\ SetsOK /\ CountsOK /\ BatchesOK /\ StepOK
      /\ InRunningLoop /\ running \in Seq(Request)
  BY Zenon DEF TInv, PreemptRunning, QueuesOK
<1>1. /\ step.phase = "running" /\ v \in Request /\ v \in Elems(running)
      /\ r \in Elems(running) /\ r \in Request /\ n \in Int
  BY <1>0, VictimFacts, Zenon DEF Facts, CurrentFact
<1>2. /\ running' = remove_all(running, {v}) /\ n # 0
      /\ _preempt_request(v, req[v])
      /\ step' = y
      /\ UNCHANGED <<skipped_waiting, seqs, finished_req_ids,
                     num_waiting_for_streaming_input, loads, arrivals, resets, occupied,
                     batch_queue>>
  BY Zenon DEF PreemptRunning, worker, outside
<1>3. /\ step \in Step /\ step.scheduled \in Seq(Scheduled)
      /\ Len(step.scheduled) < step.req_index
  BY <1>0, <1>1, Zenon DEF StepOK
<1> HIDE DEF v, r, n
<1>4. /\ x \in Step /\ x.scheduled \in Seq(Scheduled)
      /\ Len(x.scheduled) < x.req_index
      /\ x.phase = step.phase /\ x.new = step.new /\ x.skipped = step.skipped
  BY <1>1, <1>3, Zenon DEF Facts, UnscheduledFact
<1> HIDE DEF x
<1>5. /\ y \in Step /\ y.preempted /\ y.scheduled = x.scheduled /\ y.req_index = x.req_index
      /\ y.new = x.new /\ y.skipped = x.skipped /\ y.phase \in {"running", "end"}
      /\ y.phase = "running" => r # v /\ y.request = r /\ y.num_new_tokens # 0
  <2> DEFINE w == TRUE
             z == 0
             o == None
             p == "end"
  <2>1. w \in BOOLEAN /\ w /\ z \in Int /\ o \in Request \cup {None} /\ p \in Phases
        /\ p # "running" /\ p = "end"
    BY SMTT(30) DEF Phases
  <2> HIDE DEF w, z, o, p
  <2>2. CASE v = r
    <3>1. y = [x EXCEPT !.phase = p, !.preempted = w, !.request = o, !.num_new_tokens = z]
      BY <2>2, Zenon DEF w, z, o, p
    <3> HIDE DEF y
    <3>2. y \in Step
      BY ZenonT(30), <1>4, <2>1, <3>1 DEF Step
    <3>3. y.phase = p /\ y.preempted = w /\ y.scheduled = x.scheduled
          /\ y.req_index = x.req_index /\ y.new = x.new /\ y.skipped = x.skipped
      BY <1>4, <3>1, Zenon DEF Step
    <3> QED BY <2>1, <3>2, <3>3, Zenon
  <2>3. CASE v # r
    <3>1. y = [x EXCEPT !.preempted = w, !.request = r, !.num_new_tokens = n]
      BY <2>3, Zenon DEF w, z, o
    <3> HIDE DEF y
    <3>2. y \in Step
      BY Zenon, <1>1, <1>4, <2>1, <3>1 DEF Step
    <3>3. y.phase = x.phase /\ y.preempted = w /\ y.scheduled = x.scheduled
          /\ y.req_index = x.req_index /\ y.new = x.new /\ y.skipped = x.skipped
          /\ y.request = r /\ y.num_new_tokens = n
      BY <1>4, <3>1, ZenonT(30) DEF Step
    <3> QED BY <1>1, <1>2, <1>4, <2>1, <2>3, <3>2, <3>3, ZenonT(30)
  <2> QED BY <2>2, <2>3, Zenon
<1> HIDE DEF y
<1>6. /\ ReqOK' /\ BlocksOK' /\ Released(v)
      /\ \A s \in Request : s # v => req'[s] = req[s]
      /\ req'[v].status = "PREEMPTED" /\ req'[v].blocks = {}
      /\ req'[v].arrival_time = req[v].arrival_time
      /\ req'[v].last_sched_seq = req[v].last_sched_seq
      /\ waiting' = prepend_request(waiting, v) /\ waiting' \in Seq(Request)
      /\ inflight_prefills' = inflight_prefills \ {v}
      /\ reset_preempted_req_ids' = reset_preempted_req_ids \cup {v}
  <2>1. req[v] \in Rec
    BY <1>0, <1>1, Zenon DEF ReqOK
  <2> QED BY <1>0, <1>1, <1>2, <2>1, PreemptFacts, Zenon
<1>7. running' \in Seq(Request) /\ Elems(running') = Elems(running) \ {v}
  BY <1>0, <1>1, <1>2, ZenonT(30) DEF Facts, RemoveFact
<1>8. QueuesOK' /\ SetsOK'
  <2>1. QueuesOK'
    BY <1>0, <1>2, <1>6, <1>7, Zenon DEF QueuesOK
  <2>2. UNCHANGED <<loading, loaded, finished_recving, finished_req_ids, occupied>>
    BY <1>2, ZenonT(30) DEF loads
  <2>3. SetsOK'
    BY <1>0, <1>1, <1>6, <2>2, Zenon DEF SetsOK
  <2> QED BY <2>1, <2>3, Zenon
<1>9. CountsOK' /\ SeqsOK' /\ BatchesOK'
  BY <1>0, <1>2, Zenon DEF CountsOK, SeqsOK, BatchesOK, seqs
<1>10. StepOK'
  BY ZenonT(30), <1>1, <1>2, <1>4, <1>5, <1>7 DEF StepOK
<1>11. TInv'
  BY <1>6, <1>8, <1>9, <1>10, ZenonT(30) DEF TInv
<1> QED BY <1>1, <1>2, <1>4, <1>5, <1>6, <1>11, ZenonT(30) DEF v, r, x

-----------------------------------------------------------------------------
LEMMA AllocatedFacts ==
  ASSUME ListFacts, ReqOK, BlocksOK, NEW r \in Request, NEW n \in Int, NEW R \in Rec,
         NEW headroom \in Nat, Fits(r, n, headroom), Allocate(r, n, R),
         deferred_frees' = deferred_frees
  PROVE  /\ ReqOK' /\ BlocksOK' /\ Allocated(r, R)
         /\ R.blocks = req[r].blocks /\ req[r].blocks \cap free = {} =>
              cdiv(AtMost(n, max_model_len), block_size) <= Cardinality(req'[r].blocks)
<1>1. Needed(r, n) <= Cardinality(free)
  <2>1. Needed(r, n) \in Nat
    BY NeededType, Zenon
  <2>2. IsFiniteSet(free)
    BY SchedulerAssumption, Zenon DEF BlocksOK, ListFacts, SubsetFact
  <2>3. Cardinality(free) \in Nat
    BY <2>2, Zenon DEF ListFacts, CardinalityFact
  <2> QED BY SMTT(30), <2>1, <2>3 DEF Fits
<1>2. /\ ReqOK' /\ free' \in SUBSET Block
      /\ \E new \in SUBSET free :
           /\ Cardinality(new) = Needed(r, n)
           /\ free' = free \ new
           /\ req'[r] = [R EXCEPT !.blocks = R.blocks \cup new]
           /\ req'[r] \in Rec
      /\ \A s \in Request : s # r => req'[s] = req[s]
  BY <1>1, AllocateFacts, Zenon
<1>3. PICK new \in SUBSET free :
           /\ Cardinality(new) = Needed(r, n)
           /\ free' = free \ new
           /\ req'[r] = [R EXCEPT !.blocks = R.blocks \cup new]
           /\ req'[r] \in Rec
  BY <1>2, Zenon
<1>4. /\ req'[r].blocks = R.blocks \cup new
      /\ req'[r].status = R.status /\ req'[r].arrival_time = R.arrival_time
      /\ req'[r].last_sched_seq = R.last_sched_seq
      /\ req'[r].num_computed_tokens = R.num_computed_tokens
  BY <1>3, Zenon DEF Rec
<1>5. ASSUME R.blocks = req[r].blocks, req[r].blocks \cap free = {}
      PROVE  cdiv(AtMost(n, max_model_len), block_size) <= Cardinality(req'[r].blocks)
  <2> DEFINE B == req[r].blocks
             c == cdiv(AtMost(n, max_model_len), block_size)
  <2>1. B \in SUBSET Block /\ new \in SUBSET Block /\ B \cap new = {}
    BY ZenonT(30), <1>5 DEF ReqOK, BlocksOK, Rec
  <2>2. IsFiniteSet(B) /\ IsFiniteSet(new)
    BY <2>1, SchedulerAssumption, ZenonT(30) DEF ListFacts, SubsetFact
  <2>3. Cardinality(B) \in Nat /\ Cardinality(new) \in Nat
    BY <2>2, Zenon DEF ListFacts, CardinalityFact
  <2>4. Cardinality(B \cup new) = Cardinality(B) + Cardinality(new)
    <3>1. Cardinality(B \cup new) = Cardinality(B) + Cardinality(new) - Cardinality(B \cap new)
      BY <2>2, ZenonT(30) DEF ListFacts, UnionFact
    <3>2. Cardinality(B \cap new) = 0
      BY <2>1, ZenonT(30) DEF ListFacts, EmptySetFact
    <3> QED BY <2>3, <3>1, <3>2
  <2>5. c \in Int
    <3>1. AtMost(n, max_model_len) \in Int /\ block_size \in Nat \ {0}
      BY SMTT(30), SchedulerAssumption DEF AtMost
    <3> QED BY <3>1, CdivMonotonic, Zenon
  <2>6. Needed(r, n) = IF c - Cardinality(B) > 0 THEN c - Cardinality(B) ELSE 0
    BY Zenon DEF Needed
  <2>7. req'[r].blocks = B \cup new
    BY <1>4, <1>5, Zenon
  <2> HIDE DEF B, c
  <2>8. c <= Cardinality(B \cup new)
    BY SMTT(30), <1>3, <2>3, <2>4, <2>5, <2>6
  <2> QED BY <2>7, <2>8, Zenon DEF B, c
<1> QED BY Zenon, <1>2, <1>3, <1>4, <1>5 DEF BlocksOK, Allocated

(* A running request is scheduled.                                          *)
LEMMA ScheduleRunningType ==
  ASSUME ListFacts, Facts, TInv
  PROVE  ScheduleRunningEffect
<1> USE DEF ScheduleRunningEffect
<1> HAVE ScheduleRunning
<1> DEFINE r == Current
           n == NumNewTokens
           extra == n + req[r].num_computed_tokens - req[r].num_tokens
                      - req[r].num_output_placeholders
           spec == IF extra > 0 THEN AtMost(req[r].spec_token_ids, extra) ELSE 0
           e == [id |-> r, n |-> n, spec |-> spec]
           z == 0
           X == [req[r] EXCEPT !.spec_token_ids = z]
           c == step.prefill_scheduled \/ req[r].is_prefill_chunk
<1>0. /\ ReqOK /\ QueuesOK /\ BlocksOK /\ SeqsOK /\ SetsOK /\ CountsOK /\ BatchesOK /\ StepOK
      /\ InRunningLoop
  BY Zenon DEF TInv, ScheduleRunning
<1>1. /\ step.phase = "running" /\ r \in Elems(running) /\ r \in Request /\ n \in Int
  BY <1>0, Zenon DEF Facts, CurrentFact
<1>2. /\ Fits(r, Slots(r, n), 0)
      /\ Allocate(r, Slots(r, n), X)
      /\ step' = [step EXCEPT !.scheduled = Append(step.scheduled, e),
                    !.prefill_scheduled = c,
                    !.token_budget = step.token_budget - n,
                    !.req_index = step.req_index + 1,
                    !.request = None, !.num_new_tokens = 0]
      /\ UNCHANGED <<queues, deferred_frees, seqs, reports, num_waiting_for_streaming_input,
                     inflight_prefills, loads, arrivals, resets, occupied, batch_queue>>
  BY Zenon DEF ScheduleRunning, worker, outside
<1> HIDE DEF r, n
<1>3. req[r] \in Rec
  BY <1>0, <1>1, ZenonT(30) DEF ReqOK
<1>4. /\ req[r].num_computed_tokens \in Int /\ req[r].num_tokens \in Int
      /\ req[r].num_output_placeholders \in Int /\ req[r].spec_token_ids \in Int
      /\ req[r].is_prefill_chunk \in BOOLEAN
  BY <1>3, ZenonT(30) DEF Rec
<1>5. Slots(r, n) \in Int /\ spec \in Int
  <2>1. extra \in Int
    BY SMTT(30), <1>1, <1>4
  <2> HIDE DEF extra
  <2>2. AtMost(req[r].spec_token_ids, extra) \in Int
    BY ZenonT(30), <1>4, <2>1, Minimum
  <2>3. Slots(r, n) \in Int
    BY SMTT(30), <1>1, <1>4, SchedulerAssumption DEF Slots
  <2> QED BY SMTT(30), <2>2, <2>3
<1> HIDE DEF extra, spec
<1>6. /\ X \in Rec /\ X.blocks = req[r].blocks /\ X.status = req[r].status
      /\ X.arrival_time = req[r].arrival_time
      /\ X.last_sched_seq = req[r].last_sched_seq
      /\ X.num_computed_tokens = req[r].num_computed_tokens
  <2> DEFINE Q == req[r]
  <2>1. z \in Int /\ Q \in Rec
    BY SMTT(30), <1>3
  <2> HIDE DEF z, Q
  <2>2. X = [Q EXCEPT !.spec_token_ids = z]
    BY Zenon DEF Q
  <2> HIDE DEF X
  <2>3. X \in Rec
    BY <2>1, <2>2, ZenonT(30) DEF Rec
  <2>4. /\ X.blocks = Q.blocks /\ X.status = Q.status /\ X.arrival_time = Q.arrival_time
        /\ X.last_sched_seq = Q.last_sched_seq
        /\ X.num_computed_tokens = Q.num_computed_tokens
    BY <2>1, <2>2, Zenon DEF Rec
  <2> QED BY <2>3, <2>4, Zenon DEF Q
<1> HIDE DEF X
<1>7. ReqOK' /\ BlocksOK' /\ Allocated(r, X)
  <2>1. 0 \in Nat /\ deferred_frees' = deferred_frees
    BY <1>2, Zenon
  <2> QED BY <1>0, <1>1, <1>2, <1>5, <1>6, <2>1, AllocatedFacts, Zenon
<1>8. Allocated(r, req[r])
  BY <1>6, <1>7, Zenon DEF Allocated
<1>9. QueuesOK' /\ SetsOK' /\ CountsOK' /\ SeqsOK' /\ BatchesOK'
  BY <1>0, <1>2, Zenon
    DEF QueuesOK, SetsOK, CountsOK, SeqsOK, BatchesOK, loads, queues, reports, seqs
<1>10. e \in Scheduled /\ e.id = r
  BY <1>1, <1>5, ZenonT(30) DEF Scheduled
<1> HIDE DEF e
<1>11. /\ step \in Step /\ step.scheduled \in Seq(Scheduled)
       /\ Len(step.scheduled) < step.req_index
       /\ step.req_index \in Int /\ step.token_budget \in Int /\ c \in BOOLEAN
       /\ step.prefill_scheduled \in BOOLEAN
  BY <1>0, <1>1, <1>4, ZenonT(30) DEF StepOK, Step
<1>12. /\ Append(step.scheduled, e) \in Seq(Scheduled)
       /\ Len(Append(step.scheduled, e)) = Len(step.scheduled) + 1
       /\ Len(step.scheduled) \in Nat
  BY SMTT(30), <1>10, <1>11 DEF ListFacts, AppendFact, LenFact
<1> DEFINE q == Append(step.scheduled, e)
           tb == step.token_budget - n
           i == step.req_index + 1
           o == None
<1>13. /\ q \in Seq(Scheduled) /\ tb \in Int /\ i \in Int /\ o \in Request \cup {None}
       /\ Len(q) < i /\ c \in BOOLEAN /\ z \in Int
       /\ step' = [step EXCEPT !.scheduled = q, !.prefill_scheduled = c, !.token_budget = tb,
                    !.req_index = i, !.request = o, !.num_new_tokens = z]
  BY SMTT(30), <1>1, <1>2, <1>11, <1>12
<1> HIDE DEF q, tb, i, o, c, z
<1>14. step' \in Step
  BY Zenon, <1>11, <1>13 DEF Step
<1>15. /\ step'.scheduled = q /\ step'.num_new_tokens = z /\ step'.req_index = i
       /\ step'.phase = step.phase /\ step'.new = step.new /\ step'.skipped = step.skipped
       /\ step'.preempted = step.preempted
  BY <1>11, <1>13, Zenon DEF Step
<1>16. z = 0
  BY ZenonT(30) DEF z
<1>17. StepOK'
  BY <1>1, <1>13, <1>14, <1>15, <1>16, Zenon DEF StepOK, Retry
<1>18. TInv'
  BY <1>7, <1>9, <1>17, Zenon DEF TInv
<1> QED BY <1>1, <1>8, <1>10, <1>15, <1>16, <1>18, ZenonT(30) DEF r, i, q

-----------------------------------------------------------------------------
(* A waiting request is passed over.                                        *)
LEMMA SkipWaitingType ==
  ASSUME Facts, TInv
  PROVE  SkipWaitingEffect
<1> USE DEF SkipWaitingEffect
<1> HAVE SkipWaiting
<1>0. /\ ReqOK /\ QueuesOK /\ BlocksOK /\ SeqsOK /\ SetsOK /\ CountsOK /\ BatchesOK /\ StepOK
      /\ InWaitingLoop
  BY Zenon DEF TInv, SkipWaiting
<1>1. /\ step.phase = "waiting" /\ peek_request \in Request
      /\ pop_request => waiting' \in Seq(Request) /\ skipped_waiting' \in Seq(Request)
  BY <1>0, Zenon DEF Facts, PeekFact
<1>2. /\ pop_request /\ step' = [step EXCEPT !.skipped = Append(step.skipped, peek_request)]
      /\ UNCHANGED <<req, running, blocks, seqs, reports, num_waiting_for_streaming_input,
                     inflight_prefills, loads, arrivals, resets, occupied, batch_queue>>
  BY Zenon DEF SkipWaiting, outside, worker
<1>3. step \in Step /\ step.skipped \in Seq(Request) /\ step.scheduled \in Seq(Scheduled)
  BY <1>0, <1>1, Zenon DEF StepOK, Step
<1> DEFINE q == Append(step.skipped, peek_request)
<1>4. q \in Seq(Request)
  BY SMTT(30), <1>1, <1>3
<1> HIDE DEF q
<1>5. step' = [step EXCEPT !.skipped = q]
  BY <1>2, Zenon DEF q
<1>6. step' \in Step
  BY Zenon, <1>3, <1>4, <1>5 DEF Step
<1>7. /\ step'.phase = step.phase /\ step'.scheduled = step.scheduled
      /\ step'.skipped = q /\ step'.new = step.new /\ step'.preempted = step.preempted
  BY <1>3, <1>5, ZenonT(30) DEF Step
<1>8. StepOK'
  BY <1>1, <1>3, <1>6, <1>7, Zenon DEF StepOK
<1>9. ReqOK' /\ BlocksOK' /\ SeqsOK' /\ SetsOK' /\ CountsOK' /\ BatchesOK'
  BY <1>0, <1>2, Zenon DEF ReqOK, BlocksOK, SeqsOK, SetsOK, CountsOK, BatchesOK, blocks, seqs,
     reports, loads
<1>10. QueuesOK'
  BY <1>0, <1>1, <1>2, ZenonT(30) DEF QueuesOK
<1>11. UNCHANGED <<req, running, rest, arrivals>>
  BY <1>2, Zenon DEF rest
<1>12. TInv'
  BY <1>8, <1>9, <1>10, Zenon DEF TInv
<1> QED BY <1>0, <1>1, <1>2, <1>7, <1>11, <1>12, ZenonT(30) DEF q

(* The load of a waiting request is over.                                   *)
LEMMA PromoteLoadedType ==
  ASSUME Facts, TInv
  PROVE  PromoteLoadedEffect
<1> USE DEF PromoteLoadedEffect
<1> HAVE PromoteLoaded
<1> DEFINE r == peek_request
           c == IF req[r].num_computed_tokens = req[r].num_tokens
                THEN req[r].num_computed_tokens - 1 ELSE req[r].num_computed_tokens
           s == IF req[r].preempted THEN "PREEMPTED" ELSE "WAITING"
           X == Updated(req[r], s, c)
<1>0. /\ ReqOK /\ QueuesOK /\ BlocksOK /\ SeqsOK /\ SetsOK /\ CountsOK /\ BatchesOK /\ StepOK
      /\ InWaitingLoop
  BY Zenon DEF TInv, PromoteLoaded
<1>1. step.phase = "waiting" /\ r \in Request
  BY <1>0, ZenonT(30) DEF Facts, PeekFact
<1>2. req[r] \in Rec
  BY <1>0, <1>1, Zenon DEF ReqOK
<1>3. /\ req[r].status = "REMOTE" /\ r \in finished_recving
      /\ finished_recving' = finished_recving \ {r}
      /\ UNCHANGED <<queues, blocks, seqs, reports, num_waiting_for_streaming_input,
                     inflight_prefills, loading, loaded, step, occupied, batch_queue,
                     arrivals, resets>>
      /\ req' = [req EXCEPT ![r].num_computed_tokens = c, ![r].status = s]
  BY Zenon DEF PromoteLoaded, outside, worker
<1>4. c \in Int /\ s \in {"WAITING", "PREEMPTED"} /\ s \in Statuses
  <2>1. req[r].num_computed_tokens \in Int
    BY <1>2, Zenon DEF Rec
  <2> QED BY SMTT(30), <2>1 DEF Statuses, Waiting
<1> HIDE DEF r, c, s
<1>5. /\ X \in Rec /\ X.status = s /\ X.num_computed_tokens = c
      /\ X.blocks = req[r].blocks /\ X.arrival_time = req[r].arrival_time
      /\ X.last_sched_seq = req[r].last_sched_seq
  <2> DEFINE Q == req[r]
  <2>1. Q \in Rec /\ s \in Statuses /\ c \in Int
    BY <1>2, <1>4, ZenonT(30)
  <2> HIDE DEF Q
  <2>2. /\ Updated(Q, s, c) \in Rec /\ Updated(Q, s, c).status = s
        /\ Updated(Q, s, c).num_computed_tokens = c
        /\ Updated(Q, s, c).blocks = Q.blocks
        /\ Updated(Q, s, c).arrival_time = Q.arrival_time
        /\ Updated(Q, s, c).last_sched_seq = Q.last_sched_seq
    BY <2>1, ZenonT(30) DEF Facts, UpdatedFact
  <2> QED BY <2>2, Zenon DEF Q
<1>6. req' = [req EXCEPT ![r] = X]
  <2> DEFINE Q == [req EXCEPT ![r].num_computed_tokens = c]
  <2>1. req' = [Q EXCEPT ![r].status = s]
    BY <1>3, Zenon
  <2>2. /\ Q = [req EXCEPT ![r] = [req[r] EXCEPT !.num_computed_tokens = c]]
        /\ [Q EXCEPT ![r].status = s] = [Q EXCEPT ![r] = [Q[r] EXCEPT !.status = s]]
    BY Zenon
  <2>3. Q[r] = [req[r] EXCEPT !.num_computed_tokens = c]
    BY <1>0, <1>1, <2>2, Zenon DEF ReqOK
  <2>4. [Q[r] EXCEPT !.status = s] = X
    BY ZenonT(30), <1>2, <2>3 DEF Rec, Updated
  <2>5. [Q EXCEPT ![r] = X] = [req EXCEPT ![r] = X]
    BY Zenon, <1>0, <1>1, <2>2 DEF ReqOK
  <2> QED BY <2>1, <2>2, <2>4, <2>5, Zenon
<1> HIDE DEF X
<1>7. ReqOK' /\ req'[r] = X /\ \A t \in Request : t # r => req'[t] = req[t]
  BY <1>0, <1>1, <1>5, <1>6, OneReq, Zenon
<1>8. QueuesOK' /\ BlocksOK' /\ SeqsOK' /\ CountsOK' /\ BatchesOK'
  BY <1>0, <1>3, Zenon DEF QueuesOK, BlocksOK, SeqsOK, CountsOK, BatchesOK, blocks, seqs, queues
<1>9. SetsOK' /\ StepOK'
  <2>1. SetsOK'
    BY <1>0, <1>3, Zenon DEF SetsOK, reports
  <2>2. StepOK'
    BY <1>0, <1>1, <1>3, Zenon DEF StepOK, queues
  <2> QED BY <2>1, <2>2, Zenon
<1>10. TInv'
  BY <1>7, <1>8, <1>9, Zenon DEF TInv
<1>11. finished_recving' = finished_recving \ {r}
  BY <1>3, Zenon
<1>12. /\ UNCHANGED <<queues, blocks, seqs, reports, num_waiting_for_streaming_input,
                     inflight_prefills, loading, loaded, step, occupied, batch_queue,
                     arrivals>>
       /\ req[r].status = "REMOTE" /\ r \in finished_recving
  BY <1>3, Zenon
<1> QED BY <1>0, <1>1, <1>4, <1>5, <1>7, <1>10, <1>11, <1>12, ZenonT(30) DEF r

(* What a waiting request may load, and the tokens it may be given.         *)
LEMMA WaitingFacts ==
  ASSUME Facts, TInv, InWaitingLoop, NEW ext \in External(peek_request)
  PROVE  LET r == peek_request
         IN /\ req[r] \in Rec /\ ext \in Nat /\ (ext # 0 => ext <= req[r].num_tokens)
            /\ req[r].num_computed_tokens \in Int /\ req[r].num_tokens \in Int
            /\ \A c \in Int : WaitingTokens(r, c) \in Int
<1> DEFINE r == peek_request
<1>1. r \in Request /\ ReqOK /\ StepOK
  BY Zenon DEF TInv, Facts, PeekFact
<1>2. req[r] \in Rec
  BY <1>1, Zenon DEF ReqOK
<1>3. req[r].num_computed_tokens \in Int /\ req[r].num_tokens \in Int
  BY <1>2, Zenon DEF Rec
<1>4. ext \in Nat /\ (ext # 0 => ext <= req[r].num_tokens)
  BY SMTT(30), <1>3 DEF External
<1>5. ASSUME NEW c \in Int PROVE WaitingTokens(r, c) \in Int
  <2>1. step.token_budget \in Int /\ num_spec_tokens \in Int
    BY SMTT(30), <1>1, SchedulerAssumption DEF StepOK, Step
  <2> QED BY SMTT(30), <1>3, <2>1 DEF WaitingTokens, AtMost
<1> QED BY <1>2, <1>3, <1>4, <1>5, Zenon

(* A waiting request is admitted.                                           *)
LEMMA ScheduleWaitingType ==
  ASSUME ListFacts, Facts, TInv
  PROVE  ScheduleWaitingEffect
<1> USE DEF ScheduleWaitingEffect
<1> TAKE ext \in 0..max_model_len
<1> HAVE ScheduleWaiting(ext)
<1> DEFINE r == peek_request
           c == req[r].num_computed_tokens + ext
           n == WaitingTokens(r, c)
           spec == IF pad_spec_decode(r, c) THEN num_spec_tokens ELSE 0
           e == [id |-> r, n |-> n, spec |-> spec]
           X == Updated(req[r], "RUNNING", c)
           headroom == (IF running = <<>> THEN 0 ELSE watermark_blocks) + 0
<1>0. /\ ReqOK /\ QueuesOK /\ BlocksOK /\ SeqsOK /\ SetsOK /\ CountsOK /\ BatchesOK /\ StepOK
      /\ InWaitingLoop /\ ext \in External(r)
  BY Zenon DEF TInv, ScheduleWaiting
<1>1. /\ step.phase = "waiting" /\ r \in Request
      /\ pop_request => waiting' \in Seq(Request) /\ skipped_waiting' \in Seq(Request)
  BY <1>0, Zenon DEF Facts, PeekFact
<1>2. /\ pop_request /\ req[r].status \notin Blocked
      /\ CanStart(r, c)
      /\ Allocate(r, c + n + num_spec_tokens, X)
      /\ running' = Append(running, r)
      /\ inflight_prefills' \in {inflight_prefills, inflight_prefills \cup {r}}
      /\ step' = [step EXCEPT !.scheduled = Append(step.scheduled, e),
                              !.new = step.new \cup {r},
                              !.token_budget = step.token_budget - n]
      /\ UNCHANGED <<deferred_frees, seqs, reports, num_waiting_for_streaming_input,
                     loads, arrivals, resets, occupied, batch_queue>>
  BY ZenonT(30) DEF ScheduleWaiting, outside, worker, Updated
<1>3. req[r] \in Rec /\ c \in Int /\ n \in Int /\ spec \in Int
      /\ c + n + num_spec_tokens \in Int
  <2>1. /\ req[r] \in Rec /\ ext \in Nat /\ req[r].num_computed_tokens \in Int
        /\ \A k \in Int : WaitingTokens(r, k) \in Int
    BY <1>0, WaitingFacts, Zenon
  <2>2. c \in Int
    BY SMTT(30), <2>1
  <2> HIDE DEF c
  <2>3. n \in Int
    BY <2>1, <2>2, Zenon
  <2> HIDE DEF n
  <2> QED BY SMTT(30), <2>1, <2>2, <2>3, SchedulerAssumption
<1>4. headroom \in Nat /\ Fits(r, c + n + num_spec_tokens, headroom)
  <2>1. headroom \in Nat
    BY SMTT(30), SchedulerAssumption
  <2>2. Fits(r, c + n + num_spec_tokens, headroom)
    BY <1>2, Zenon DEF CanStart, Admissible
  <2> QED BY <2>1, <2>2, Zenon
<1> HIDE DEF c, n, spec, headroom, r
<1>5. /\ X \in Rec /\ X.status = "RUNNING" /\ X.blocks = req[r].blocks
  <2> DEFINE Q == req[r]
             s == "RUNNING"
  <2>1. Q \in Rec /\ s \in Statuses /\ c \in Int
    BY <1>3, Zenon DEF Statuses
  <2> HIDE DEF Q, s
  <2>2. /\ Updated(Q, s, c) \in Rec /\ Updated(Q, s, c).status = s
        /\ Updated(Q, s, c).blocks = Q.blocks
    BY <2>1, ZenonT(30) DEF Facts, UpdatedFact
  <2> QED BY <2>2, Zenon DEF Q, s
<1> HIDE DEF X
<1>6. ReqOK' /\ BlocksOK' /\ Allocated(r, X)
  <2> DEFINE m == c + n + num_spec_tokens
  <2>1. /\ m \in Int /\ headroom \in Nat /\ Fits(r, m, headroom) /\ Allocate(r, m, X)
        /\ deferred_frees' = deferred_frees
    BY <1>2, <1>3, <1>4, Zenon
  <2> HIDE DEF m
  <2> QED BY <1>0, <1>1, <1>5, <2>1, AllocatedFacts, Zenon
<1>7. \E k \in Int : Allocated(r, Updated(req[r], "RUNNING", k))
  BY <1>3, <1>6, Zenon DEF X
<1>8. QueuesOK'
  <2>1. Append(running, r) \in Seq(Request)
    BY <1>0, <1>1, Zenon DEF QueuesOK, ListFacts, AppendElemsFact
  <2> QED BY <1>1, <1>2, <2>1, Zenon DEF QueuesOK
<1>9. SetsOK'
  BY <1>0, <1>1, <1>2, Zenon DEF SetsOK, loads, reports
<1>10. CountsOK' /\ SeqsOK' /\ BatchesOK'
  BY <1>0, <1>2, Zenon DEF CountsOK, SeqsOK, BatchesOK, seqs
<1>11. e \in Scheduled /\ e.id = r
  BY <1>1, <1>3, Zenon DEF Scheduled
<1> HIDE DEF e
<1> DEFINE q == Append(step.scheduled, e)
           w == step.new \cup {r}
           tb == step.token_budget - n
<1>12. step \in Step /\ step.scheduled \in Seq(Scheduled)
  BY <1>0, <1>1, ZenonT(30) DEF StepOK
<1>13. q \in Seq(Scheduled) /\ w \in SUBSET Request /\ tb \in Int
  <2>1. q \in Seq(Scheduled)
    BY <1>11, <1>12, Zenon DEF ListFacts, AppendElemsFact
  <2>2. step.new \in SUBSET Request /\ step.token_budget \in Int
    BY <1>12, Zenon DEF Step
  <2> QED BY SMTT(30), <1>1, <1>3, <2>1, <2>2
<1> HIDE DEF q, w, tb
<1>14. step' = [step EXCEPT !.scheduled = q, !.new = w, !.token_budget = tb]
  BY <1>2, Zenon DEF q, w, tb
<1>15. step' \in Step
  BY Zenon, <1>12, <1>13, <1>14 DEF Step
<1>16. /\ step'.phase = step.phase /\ step'.scheduled = q /\ step'.new = w
       /\ step'.skipped = step.skipped /\ step'.preempted = step.preempted
  BY <1>12, <1>14, ZenonT(30) DEF Step
<1>17. StepOK'
  BY <1>1, <1>13, <1>15, <1>16, Zenon DEF StepOK
<1>18. TInv'
  BY <1>6, <1>8, <1>9, <1>10, <1>17, ZenonT(30) DEF TInv
<1>19. /\ UNCHANGED <<deferred_frees, seqs, reports, num_waiting_for_streaming_input,
                      loads, arrivals, occupied, batch_queue>>
       /\ running' = Append(running, r) /\ pop_request /\ req[r].status \notin Blocked
  BY <1>2, ZenonT(30)
<1> QED BY <1>0, <1>1, <1>7, <1>11, <1>16, <1>18, <1>19, ZenonT(30) DEF q, w, r

(* The load of a waiting request starts.                                    *)
LEMMA StartLoadType ==
  ASSUME ListFacts, Facts, TInv
  PROVE  StartLoadEffect
<1> USE DEF StartLoadEffect
<1> TAKE ext \in 0..max_model_len
<1> HAVE StartLoad(ext)
<1> DEFINE r == peek_request
           X == Updated(req[r], "REMOTE", ext)
           headroom == IF running = <<>> THEN 0 ELSE watermark_blocks
<1>0. /\ ReqOK /\ QueuesOK /\ BlocksOK /\ SeqsOK /\ SetsOK /\ CountsOK /\ BatchesOK /\ StepOK
      /\ InWaitingLoop /\ ext \in External(r) /\ ext # 0
  BY Zenon DEF TInv, StartLoad
<1>1. /\ step.phase = "waiting" /\ r \in Request
      /\ pop_request => waiting' \in Seq(Request) /\ skipped_waiting' \in Seq(Request)
  BY <1>0, ZenonT(30) DEF Facts, PeekFact
<1>2. /\ pop_request /\ req[r].status \notin Blocked
      /\ CanLoad(r, ext)
      /\ Allocate(r, ext, X)
      /\ inflight_prefills' = inflight_prefills \cup {r}
      /\ loading' = loading \cup {r}
      /\ step' = [step EXCEPT !.skipped = Append(step.skipped, r)]
      /\ UNCHANGED <<running, deferred_frees, seqs, reports, loaded, finished_recving,
                     num_waiting_for_streaming_input, arrivals, resets, occupied,
                     batch_queue>>
  BY ZenonT(30) DEF StartLoad, outside, worker, Updated
<1>3. /\ req[r] \in Rec /\ ext \in Int /\ ext <= req[r].num_tokens
      /\ req[r].num_tokens \in Int /\ AtMost(ext, max_model_len) = ext
  <2>1. AtMost(ext, max_model_len) = ext
    BY SMTT(30), SchedulerAssumption DEF AtMost
  <2> QED BY SMTT(30), <1>0, <2>1, WaitingFacts
<1>4. headroom \in Nat /\ Fits(r, ext, headroom)
  <2>1. headroom \in Nat
    BY SchedulerAssumption, Zenon
  <2>2. Fits(r, req[r].num_tokens, headroom)
    BY <1>2, Zenon DEF CanLoad, Admissible
  <2> HIDE DEF headroom, r
  <2> DEFINE m == req[r].num_tokens
  <2>3. m \in Int /\ ext <= m /\ Fits(r, m, headroom)
    BY <1>3, <2>2, ZenonT(30)
  <2> HIDE DEF m
  <2>4. Needed(r, ext) \in Nat /\ Needed(r, m) \in Nat /\ Needed(r, ext) <= Needed(r, m)
    BY <1>0, <1>1, <1>3, <2>3, NeededType, Zenon
  <2>5. IsFiniteSet(free)
    BY <1>0, SchedulerAssumption, Zenon DEF BlocksOK, ListFacts, SubsetFact
  <2>6. Cardinality(free) \in Nat
    BY <2>5, ZenonT(30) DEF ListFacts, CardinalityFact
  <2>7. Fits(r, ext, headroom)
    BY SMTT(30), <2>1, <2>3, <2>4, <2>6 DEF Fits
  <2> QED BY <2>1, <2>7, Zenon
<1> HIDE DEF headroom, r
<1>5. /\ X \in Rec /\ X.status = "REMOTE" /\ X.blocks = req[r].blocks
  <2> DEFINE Q == req[r]
             s == "REMOTE"
  <2>1. Q \in Rec /\ s \in Statuses /\ ext \in Int
    BY <1>3, ZenonT(30) DEF Statuses, Waiting, Blocked
  <2> HIDE DEF Q, s
  <2>2. /\ Updated(Q, s, ext) \in Rec /\ Updated(Q, s, ext).status = s
        /\ Updated(Q, s, ext).blocks = Q.blocks
    BY <2>1, ZenonT(30) DEF Facts, UpdatedFact
  <2> QED BY <2>2, Zenon DEF Q, s
<1> HIDE DEF X
<1>6. /\ ReqOK' /\ BlocksOK' /\ Allocated(r, X)
      /\ req[r].blocks \cap free = {} =>
           cdiv(AtMost(ext, max_model_len), block_size) <= Cardinality(req'[r].blocks)
  <2>1. ext \in Int /\ deferred_frees' = deferred_frees /\ Allocate(r, ext, X)
    BY SMTT(30), <1>2
  <2> QED BY <1>0, <1>1, <1>4, <1>5, <2>1, AllocatedFacts, Zenon
<1>7. req[r].blocks \cap free = {} =>
           cdiv(ext, block_size) <= Cardinality(req'[r].blocks)
  BY <1>3, <1>6, Zenon
<1>8. QueuesOK'
  BY <1>0, <1>1, <1>2, Zenon DEF QueuesOK
<1>9. SetsOK'
  BY <1>0, <1>1, <1>2, Zenon DEF SetsOK, reports
<1>10. CountsOK' /\ SeqsOK' /\ BatchesOK'
  BY <1>0, <1>2, Zenon DEF CountsOK, SeqsOK, BatchesOK, seqs
<1> DEFINE q == Append(step.skipped, r)
<1>12. step \in Step /\ step.scheduled \in Seq(Scheduled) /\ step.skipped \in Seq(Request)
  BY <1>0, <1>1, Zenon DEF StepOK, Step
<1>13. q \in Seq(Request)
  BY <1>1, <1>12, Zenon DEF ListFacts, AppendElemsFact
<1> HIDE DEF q
<1>14. step' = [step EXCEPT !.skipped = q]
  BY <1>2, Zenon DEF q
<1>15. step' \in Step
  BY <1>12, <1>13, <1>14, Zenon DEF Step
<1>16. /\ step'.phase = step.phase /\ step'.scheduled = step.scheduled
       /\ step'.skipped = q /\ step'.new = step.new /\ step'.preempted = step.preempted
  BY <1>12, <1>14, Zenon DEF Step
<1>17. StepOK'
  BY <1>1, <1>12, <1>15, <1>16, ZenonT(30) DEF StepOK
<1>18. TInv'
  BY <1>6, <1>8, <1>9, <1>10, <1>17, Zenon DEF TInv
<1>19. /\ UNCHANGED <<running, deferred_frees, seqs, reports, loaded, finished_recving,
                      num_waiting_for_streaming_input, arrivals, occupied, batch_queue>>
       /\ loading' = loading \cup {r} /\ pop_request /\ req[r].status \notin Blocked
  BY <1>2, Zenon
<1>20. Allocated(r, Updated(req[r], "REMOTE", ext))
  BY <1>6, Zenon DEF X
<1> QED BY <1>0, <1>1, <1>7, <1>16, <1>18, <1>19, <1>20, ZenonT(30) DEF q, r

-----------------------------------------------------------------------------
(* _update_after_schedule: the status, the blocks and the place in the      *)
(* queue of a request stay.                                                 *)
LEMMA AfterScheduleFacts ==
  ASSUME ReqOK, sched_step_seq' \in Nat, NEW e \in Scheduled
  PROVE  LET X == AfterSchedule(e)
             R == req[e.id]
         IN /\ X \in Rec /\ X.status = R.status /\ X.blocks = R.blocks
            /\ X.arrival_time = R.arrival_time
            /\ X.last_sched_seq = IF defer_block_free THEN sched_step_seq' ELSE R.last_sched_seq
<1> DEFINE R == req[e.id]
           a == R.num_computed_tokens + e.n
           b == IsPrefillChunk(e)
           l == IF defer_block_free THEN sched_step_seq' ELSE R.last_sched_seq
           g == async_scheduling /\ ~IsPrefillChunk(e)
           p == IF g THEN R.num_output_placeholders + 1 + e.spec
                ELSE R.num_output_placeholders
           s == IF g THEN num_spec_tokens ELSE R.spec_token_ids
<1>1. R \in Rec /\ e.n \in Int /\ e.spec \in Int
  BY Zenon DEF ReqOK, Scheduled
<1>2. /\ R.num_computed_tokens \in Int /\ R.last_sched_seq \in Nat
      /\ R.num_output_placeholders \in Int /\ R.spec_token_ids \in Int
      /\ R.num_tokens \in Int
  BY ZenonT(30), <1>1 DEF Rec
<1>3. a \in Int /\ b \in BOOLEAN /\ l \in Nat /\ p \in Int /\ s \in Int
  <2>1. b \in BOOLEAN
    BY SMTT(30), <1>1, <1>2 DEF IsPrefillChunk
  <2>2. s \in Int
    BY SMTT(30), <1>2, SchedulerAssumption
  <2>3. a \in Int /\ l \in Nat /\ p \in Int
    BY SMTT(30), <1>1, <1>2
  <2> QED BY <2>1, <2>2, <2>3, ZenonT(30)
<1>4. AfterSchedule(e) = [R EXCEPT !.num_computed_tokens = a, !.is_prefill_chunk = b,
                            !.last_sched_seq = l, !.num_output_placeholders = p,
                            !.spec_token_ids = s]
  BY Zenon DEF AfterSchedule
<1> DEFINE X == AfterSchedule(e)
<1>5. l = IF defer_block_free THEN sched_step_seq' ELSE R.last_sched_seq
  BY Zenon
<1> HIDE DEF R, a, b, l, g, p, s
<1>6. X \in Rec
  <2> DEFINE Y == [R EXCEPT !.num_computed_tokens = a, !.is_prefill_chunk = b]
             Z == [Y EXCEPT !.last_sched_seq = l]
  <2>1. Y \in Rec
    BY Zenon, <1>1, <1>3 DEF Rec
  <2>2. X = [Z EXCEPT !.num_output_placeholders = p, !.spec_token_ids = s]
    BY <1>4, Zenon
  <2> HIDE DEF Y
  <2>3. Z \in Rec
    BY Zenon, <1>3, <2>1 DEF Rec
  <2> HIDE DEF Z
  <2> QED BY ZenonT(30), <1>3, <2>2, <2>3 DEF Rec
<1>7. /\ X.status = R.status /\ X.blocks = R.blocks /\ X.arrival_time = R.arrival_time
      /\ X.last_sched_seq = l
  BY SMTT(30), <1>1, <1>4 DEF Rec
<1> HIDE DEF X
<1> QED BY <1>5, <1>6, <1>7, Zenon DEF X, R

(* The end of schedule.                                                     *)
LEMMA EndScheduleType ==
  ASSUME ListFacts, Facts, TInv
  PROVE  EndScheduleEffect
<1> USE DEF EndScheduleEffect
<1> HAVE EndSchedule
<1> DEFINE entries == Elems(step.scheduled)
           entry(r) == CHOOSE e \in entries : e.id = r
           ids == {e.id : e \in entries}
           ph == IF Len(batch_queue') < max_concurrent_batches
                    /\ (entries # {} \/ has_requests')
                 THEN "idle" ELSE "result"
<1>0. /\ ReqOK /\ QueuesOK /\ BlocksOK /\ SeqsOK /\ SetsOK /\ CountsOK /\ BatchesOK /\ StepOK
      /\ step.phase \in {"end", "waiting"}
  BY ZenonT(30) DEF TInv, EndSchedule
<1>1. /\ skipped_waiting' = prepend_requests(skipped_waiting, step.skipped)
      /\ sched_step_seq' = IF defer_block_free /\ entries # {}
                           THEN sched_step_seq + 1 ELSE sched_step_seq
      /\ req' = [r \in Request |-> IF r \in ids THEN AfterSchedule(entry(r)) ELSE req[r]]
      /\ inflight_prefills' \subseteq inflight_prefills
      /\ finished_req_ids' = {} /\ reset_preempted_req_ids' = {}
      /\ occupied' = add_requests
      /\ batch_queue' = Append(batch_queue, Batch)
      /\ UNCHANGED <<waiting, running, blocks, processed_step_seq, arrivals, resets, loads,
                     num_waiting_for_streaming_input>>
      /\ step' = [Idle EXCEPT !.phase = ph]
  BY ZenonT(30) DEF EndSchedule, outside
<1> HIDE DEF ph
<1>2. /\ step.scheduled \in Seq(Scheduled) /\ entries \subseteq Scheduled
      /\ step.skipped \in Seq(Request) /\ Len(step.scheduled) \in Nat
      /\ step.new \in SUBSET Request
      /\ \A i \in 1..Len(step.scheduled) : step.scheduled[i] \in Scheduled
  <2>1. step.scheduled \in Seq(Scheduled) /\ step.skipped \in Seq(Request)
        /\ step.new \in SUBSET Request
    BY <1>0, Zenon DEF StepOK, Step
  <2> QED BY SMTT(30), <2>1 DEF Facts, ListFacts, ElemsFact, LenFact
<1>3. entries # {} <=> step.scheduled # <<>>
  <2> DEFINE q == step.scheduled
  <2>1. q \in Seq(Scheduled) /\ Len(q) \in Nat /\ (q = <<>> <=> Len(q) = 0)
    BY <1>2, ZenonT(30) DEF ListFacts, EmptySeqFact
  <2> HIDE DEF q
  <2>2. Elems(q) # {} <=> q # <<>>
    BY SMTT(30), <2>1 DEF Elems
  <2> QED BY <2>2, Zenon DEF q
<1>4. SeqsOK'
  BY SMTT(30), <1>0, <1>1 DEF SeqsOK
<1>5. ASSUME NEW r \in Request
      PROVE  /\ req'[r] \in Rec
             /\ req'[r].status = req[r].status /\ req'[r].blocks = req[r].blocks
             /\ req'[r].arrival_time = req[r].arrival_time
             /\ r \notin ids => req'[r] = req[r]
             /\ r \in ids => req'[r].last_sched_seq =
                  (IF defer_block_free THEN sched_step_seq' ELSE req[r].last_sched_seq)
  <2>1. CASE r \notin ids
    <3>1. req'[r] = req[r]
      BY <1>1, <2>1, Zenon
    <3> QED BY <1>0, <2>1, <3>1, Zenon DEF ReqOK
  <2>2. CASE r \in ids
    <3> DEFINE e == entry(r)
    <3>1. e \in Scheduled /\ e.id = r
      BY <1>2, <2>2, Zenon
    <3>2. req'[r] = AfterSchedule(e)
      BY <1>1, <2>2, Zenon
    <3>3. sched_step_seq' \in Nat
      BY <1>4, Zenon DEF SeqsOK
    <3> HIDE DEF e
    <3>4. /\ AfterSchedule(e) \in Rec /\ AfterSchedule(e).status = req[e.id].status
          /\ AfterSchedule(e).blocks = req[e.id].blocks
          /\ AfterSchedule(e).arrival_time = req[e.id].arrival_time
          /\ AfterSchedule(e).last_sched_seq =
               IF defer_block_free THEN sched_step_seq' ELSE req[e.id].last_sched_seq
      BY <1>0, <3>1, <3>3, AfterScheduleFacts, Zenon
    <3> QED BY <2>2, <3>1, <3>2, <3>4, ZenonT(30)
  <2> QED BY <2>1, <2>2, ZenonT(30)
<1>6. ReqOK'
  BY <1>1, <1>5, Zenon DEF ReqOK
<1>7. /\ Batch \in Seq(InBatch) /\ Len(Batch) = Len(step.scheduled)
      /\ \A i \in 1..Len(Batch) :
           Batch[i].id = step.scheduled[i].id /\ Batch[i].blocks = req[Batch[i].id].blocks
  <2> DEFINE m == Len(step.scheduled)
             f(i) == LET e == step.scheduled[i]
                     IN [id |-> e.id, n |-> e.n, spec |-> e.spec,
                         samples |-> ~IsPrefillChunk(e), blocks |-> req[e.id].blocks]
  <2>1. ASSUME NEW i \in 1..m
        PROVE  f(i) \in InBatch /\ f(i).id = step.scheduled[i].id
               /\ f(i).blocks = req[f(i).id].blocks
    <3> DEFINE e == step.scheduled[i]
    <3>1. e \in Scheduled
      BY <1>2, Zenon
    <3> HIDE DEF e
    <3>2. e.id \in Request /\ e.n \in Int /\ e.spec \in Int
      BY <3>1, Zenon DEF Scheduled
    <3>3. req[e.id].blocks \in SUBSET Block
      BY <1>0, <3>2, Zenon DEF ReqOK, Rec
    <3>4. PICK s \in BOOLEAN : s = ~IsPrefillChunk(e)
      BY ZenonT(30)
    <3>5. f(i) = [id |-> e.id, n |-> e.n, spec |-> e.spec,
                  samples |-> s, blocks |-> req[e.id].blocks]
      BY <3>4, ZenonT(30) DEF e
    <3> HIDE DEF f
    <3>6. f(i) \in InBatch /\ f(i).id = e.id /\ f(i).blocks = req[e.id].blocks
      BY SMTT(30), <3>2, <3>3, <3>4, <3>5 DEF InBatch
    <3> QED BY <3>6, Zenon DEF e
  <2>2. Batch = [i \in 1..m |-> f(i)]
    BY ZenonT(30) DEF Batch
  <2> HIDE DEF f
  <2>3. m \in Nat
    BY <1>2, ZenonT(30)
  <2> HIDE DEF m
  <2>4. Batch \in Seq(InBatch) /\ Len(Batch) = m
    BY SMTT(30), <2>1, <2>2, <2>3
  <2> QED BY <2>1, <2>2, <2>4, Zenon DEF m
<1>8. BatchesOK' /\ batch_queue' # <<>>
  <2>1. batch_queue \in Seq(Seq(InBatch))
    BY <1>0, ZenonT(30) DEF BatchesOK
  <2> DEFINE B == Batch
  <2>2. B \in Seq(InBatch) /\ batch_queue' = Append(batch_queue, B)
    BY <1>1, <1>7, Zenon
  <2> HIDE DEF B
  <2> QED BY SMTT(30), <2>1, <2>2 DEF BatchesOK, ListFacts, AppendFact
<1>9. QueuesOK'
  <2>1. skipped_waiting \in Seq(Request)
    BY <1>0, ZenonT(30) DEF QueuesOK
  <2>2. prepend_requests(skipped_waiting, step.skipped) \in Seq(Request)
    BY <1>2, <2>1, Zenon DEF Facts, PrependAllFact
  <2> QED BY <1>0, <1>1, <2>2, Zenon DEF QueuesOK
<1>10. SetsOK' /\ CountsOK' /\ BlocksOK'
  <2>1. add_requests \in SUBSET Request
    BY <1>0, <1>2, Zenon DEF SetsOK, add_requests, finish_requests
  <2> QED BY <1>0, <1>1, <2>1, Zenon DEF SetsOK, CountsOK, BlocksOK, loads, blocks
<1>11. /\ ph \in {"idle", "result"}
       /\ ph = "idle" => Len(batch_queue') < max_concurrent_batches
  BY Zenon DEF ph
<1>12. /\ step' \in Step /\ step'.phase = ph /\ step'.scheduled = <<>>
  BY <1>1, <1>11, IdleFacts, ZenonT(30) DEF Phases
<1>13. StepOK'
  <2>1. <<>> \in Seq(Scheduled)
    BY Zenon DEF ListFacts, EmptySeqFact
  <2> QED BY <1>8, <1>11, <1>12, <2>1, Zenon DEF StepOK
<1>14. TInv'
  BY <1>4, <1>6, <1>8, <1>9, <1>10, <1>13, Zenon DEF TInv
<1>15. /\ UNCHANGED <<waiting, running, blocks, processed_step_seq, arrivals, loads,
                      num_waiting_for_streaming_input>>
       /\ skipped_waiting' = prepend_requests(skipped_waiting, step.skipped)
       /\ finished_req_ids' = {} /\ reset_preempted_req_ids' = {}
       /\ occupied' = add_requests /\ batch_queue' = Append(batch_queue, Batch)
       /\ sched_step_seq' = IF defer_block_free /\ step.scheduled # <<>>
                            THEN sched_step_seq + 1 ELSE sched_step_seq
  BY <1>1, <1>3, Zenon
<1> HIDE DEF ids, entries
<1>16. /\ step'.phase = "idle" => Len(batch_queue') < max_concurrent_batches
       /\ step' = [Idle EXCEPT !.phase = step'.phase] /\ step'.phase \in {"idle", "result"}
  BY <1>1, <1>11, <1>12, ZenonT(30)
<1>17. step.phase \in {"end", "waiting"} /\ step.scheduled \in Seq(Scheduled)
  BY <1>0, <1>2, Zenon
<1> QED BY <1>5, <1>7, <1>14, <1>15, <1>16, <1>17, ZenonT(30) DEF ids, entries

-----------------------------------------------------------------------------
(* _drain_deferred_frees frees the oldest entries, as far as they are done. *)
LEMMA DrainFacts ==
  ASSUME ListFacts, BlocksOK, NEW seq \in Nat, _drain_deferred_frees(seq)
  PROVE  /\ BlocksOK'
         /\ \E k \in 0..Len(deferred_frees) :
              /\ \A i \in 1..k : deferred_frees[i].fence <= seq
              /\ free' = free \cup UNION {deferred_frees[i].blocks : i \in 1..k}
              /\ deferred_frees' = SubSeq(deferred_frees, k + 1, Len(deferred_frees))
<1> DEFINE q == deferred_frees
           m == Len(q)
           done == {i \in 1..m : \A j \in 1..i : q[j].fence <= seq}
<1>1. /\ q \in Seq(Deferred) /\ m \in Nat /\ free \in SUBSET Block
      /\ \A i \in 1..m : q[i] \in Deferred
  BY Zenon DEF BlocksOK, ListFacts, LenFact
<1>2. /\ free' = free \cup UNION {q[i].blocks : i \in done}
      /\ deferred_frees' = SubSeq(q, Cardinality(done) + 1, m)
  BY Zenon DEF _drain_deferred_frees
<1> HIDE DEF q, m
<1>20. \A i : i \in done <=> i \in 1..m /\ \A j \in 1..i : q[j].fence <= seq
  BY Zenon
<1> HIDE DEF done
<1>3. \E k \in 0..m : done = 1..k
  <2>1. CASE done = {}
    <3>1. 0 \in 0..m /\ 1..0 = {}
      BY <1>1
    <3> QED BY <2>1, <3>1, Zenon
  <2>2. CASE done # {}
    <3>1. done \in SUBSET (0..m)
      BY SMTT(30), <1>1, <1>20
    <3> DEFINE D == done
    <3>2. \E k \in D : \A l \in D : l <= k
      <4>1. D \in SUBSET (0..m) /\ D # {}
        BY <2>2, <3>1, ZenonT(30)
      <4> HIDE DEF D
      <4> QED BY <1>1, <4>1, Zenon DEF ListFacts, HasGreatestFact
    <3>3. PICK k \in done : \A l \in done : l <= k
      BY <3>2, Zenon
    <3>4. k \in 1..m /\ \A j \in 1..k : q[j].fence <= seq
      BY <1>20, <3>3, Zenon
    <3>5. \A i \in 1..k : i \in done
      BY SMTT(30), <1>1, <1>20, <3>4
    <3>6. \A i \in done : i \in 1..k
      BY SMTT(30), <1>1, <1>20, <3>3, <3>4
    <3>7. done = 1..k /\ k \in 0..m
      <4>1. done = 1..k
        BY ZenonT(30), <3>5, <3>6
      <4>2. k \in 0..m
        BY SMTT(30), <1>1, <3>4
      <4> QED BY <4>1, <4>2, Zenon
    <3> QED BY <3>7, ZenonT(30)
  <2> QED BY <2>1, <2>2, Zenon
<1>4. PICK k \in 0..m : done = 1..k
  BY <1>3, Zenon
<1>5. Cardinality(done) = k
  <2>1. k \in Nat /\ 1 \in Int /\ k \in Int
    BY SMTT(30), <1>1
  <2> QED BY SMTT(30), <1>4, <2>1 DEF ListFacts, IntervalFact
<1>6. \A i \in 1..k : q[i].fence <= seq
  BY SMTT(30), <1>1, <1>4, <1>20
<1>7. /\ free' = free \cup UNION {q[i].blocks : i \in 1..k}
      /\ deferred_frees' = SubSeq(q, k + 1, m)
  BY Zenon, <1>2, <1>4, <1>5
<1>8. SubSeq(q, k + 1, m) \in Seq(Deferred)
  <2>1. q \in Seq(Deferred) /\ k \in 0..Len(q)
    BY <1>1, ZenonT(30) DEF m
  <2>2. SubSeq(q, k + 1, Len(q)) \in Seq(Deferred)
    BY <2>1, Zenon DEF ListFacts, SplitElemsFact
  <2> QED BY <2>2, Zenon DEF m
<1>9. free' \in SUBSET Block
  <2>1. \A i \in 1..k : q[i].blocks \in SUBSET Block
    <3>1. \A i \in 1..k : q[i] \in Deferred
      BY SMTT(30), <1>1
    <3> QED BY <3>1, ZenonT(30) DEF Deferred
  <2> QED BY <1>1, <1>7, <2>1, Zenon
<1>10. BlocksOK'
  BY <1>7, <1>8, <1>9, Zenon DEF BlocksOK
<1> QED BY <1>6, <1>7, <1>10, Zenon DEF q, m

(* The oldest batch is done.                                                *)
LEMMA BeginUpdateType ==
  ASSUME ListFacts, TInv
  PROVE  BeginUpdateEffect
<1> USE DEF BeginUpdateEffect
<1> HAVE BeginUpdate
<1> DEFINE B == Head(batch_queue)
           seq == IF defer_block_free /\ B # <<>>
                  THEN processed_step_seq + 1 ELSE processed_step_seq
<1>0. /\ ReqOK /\ QueuesOK /\ BlocksOK /\ SeqsOK /\ SetsOK /\ CountsOK /\ BatchesOK /\ StepOK
      /\ step.phase = "result" /\ batch_queue # <<>> /\ batch_queue \in Seq(Seq(InBatch))
  BY Zenon DEF TInv, BeginUpdate, StepOK, BatchesOK
<1>1. /\ batch_queue' = Tail(batch_queue) /\ processed_step_seq' = seq
      /\ _drain_deferred_frees(seq)
      /\ step' = [Idle EXCEPT !.phase = "update", !.scheduled = B]
      /\ UNCHANGED <<req, queues, sched_step_seq, reports, arrivals, resets, loads, occupied,
                     num_waiting_for_streaming_input, inflight_prefills>>
  BY Zenon DEF BeginUpdate, outside
<1>2. seq \in Nat
  BY <1>0 DEF SeqsOK
<1>3. B \in Seq(InBatch) /\ Tail(batch_queue) \in Seq(Seq(InBatch))
  BY <1>0, Zenon DEF ListFacts, TailElemsFact
<1> HIDE DEF seq, B
<1>4. /\ BlocksOK'
      /\ \E k \in 0..Len(deferred_frees) :
           /\ \A i \in 1..k : deferred_frees[i].fence <= seq
           /\ free' = free \cup UNION {deferred_frees[i].blocks : i \in 1..k}
           /\ deferred_frees' = SubSeq(deferred_frees, k + 1, Len(deferred_frees))
  <2>1. BlocksOK /\ seq \in Nat /\ _drain_deferred_frees(seq)
    BY <1>0, <1>1, <1>2, ZenonT(30)
  <2> QED BY <2>1, DrainFacts, Zenon
<1>5. /\ step' \in Step /\ step'.phase = "update" /\ step'.scheduled = B
      /\ step'.skipped = <<>>
  <2>1. Idle \in Step /\ Idle.skipped = <<>>
    BY IdleFacts, Zenon DEF Phases
  <2> DEFINE I == Idle
             p == "update"
  <2>2. I \in Step /\ p \in Phases /\ B \in Seq(InBatch)
        /\ step' = [I EXCEPT !.phase = p, !.scheduled = B]
    BY <1>1, <1>3, <2>1, ZenonT(30) DEF Phases
  <2> HIDE DEF I, p
  <2>3. step' \in Step
    BY Zenon, <2>2 DEF Step
  <2>4. step'.phase = p /\ step'.scheduled = B /\ step'.skipped = I.skipped
    BY <2>2, Zenon DEF Step
  <2> QED BY <2>1, <2>3, <2>4, Zenon DEF I, p
<1>6. StepOK'
  BY <1>3, <1>5, ZenonT(30) DEF StepOK
<1>7. ReqOK' /\ QueuesOK' /\ CountsOK'
  BY <1>0, <1>1, Zenon DEF ReqOK, QueuesOK, CountsOK, queues
<1>8. SetsOK' /\ SeqsOK' /\ BatchesOK'
  BY <1>0, <1>1, <1>2, <1>3, Zenon DEF SetsOK, SeqsOK, BatchesOK, loads, reports
<1>9. TInv'
  BY <1>4, <1>6, <1>7, <1>8, ZenonT(30) DEF TInv
<1>10. /\ processed_step_seq' = seq /\ batch_queue' = Tail(batch_queue)
       /\ UNCHANGED <<req, queues, sched_step_seq, reports, arrivals, loads, occupied,
                      num_waiting_for_streaming_input, inflight_prefills>>
  BY <1>1, Zenon
<1> QED BY <1>0, <1>4, <1>5, <1>9, <1>10, ZenonT(30) DEF seq, B

(* Output changes numbers of tokens, nothing else.                          *)
LEMMA WithOutputFacts ==
  ASSUME NEW R \in Rec, NEW e \in InBatch, NEW g \in Int, NEW k \in Int
  PROVE  LET X == WithOutput(R, e, g, k)
         IN /\ X \in Rec /\ X.status = R.status /\ X.blocks = R.blocks
            /\ X.arrival_time = R.arrival_time /\ X.last_sched_seq = R.last_sched_seq
            /\ X.streaming_queue = R.streaming_queue
<1> DEFINE rejected == IF e.spec > 0 THEN e.spec + 1 - g ELSE 0
           pl == IF R.num_output_placeholders > 0
                 THEN R.num_output_placeholders - rejected ELSE 0
           a == IF R.num_computed_tokens > 0
                THEN R.num_computed_tokens - rejected ELSE R.num_computed_tokens
           b == IF async_scheduling THEN pl - k ELSE pl
           c == R.num_tokens + k
           d == R.num_output_tokens + k
<1>1. e.spec \in Int
  BY Zenon DEF InBatch
<1>2. /\ R.num_output_placeholders \in Int /\ R.num_computed_tokens \in Int
      /\ R.num_tokens \in Int /\ R.num_output_tokens \in Int
  BY Zenon DEF Rec
<1>3. rejected \in Int
  BY <1>1
<1> HIDE DEF rejected
<1>4. pl \in Int
  BY SMTT(30), <1>2, <1>3
<1> HIDE DEF pl
<1>5. a \in Int /\ b \in Int /\ c \in Int /\ d \in Int
  BY SMTT(30), <1>2, <1>3, <1>4
<1> DEFINE X == WithOutput(R, e, g, k)
<1>6. X = [R EXCEPT !.num_computed_tokens = a, !.num_output_placeholders = b,
                    !.num_tokens = c, !.num_output_tokens = d]
  BY Zenon DEF WithOutput, rejected, pl
<1> HIDE DEF a, b, c, d, X
<1> DEFINE Y == [R EXCEPT !.num_computed_tokens = a, !.num_output_placeholders = b]
<1>7. Y \in Rec
  BY Zenon, <1>5 DEF Rec
<1>8. /\ Y.status = R.status /\ Y.blocks = R.blocks
      /\ Y.arrival_time = R.arrival_time /\ Y.last_sched_seq = R.last_sched_seq
      /\ Y.streaming_queue = R.streaming_queue
  BY Zenon DEF Rec
<1>9. X = [Y EXCEPT !.num_tokens = c, !.num_output_tokens = d]
  BY <1>6, Zenon
<1> HIDE DEF Y
<1>10. X \in Rec
  BY ZenonT(30), <1>5, <1>7, <1>9 DEF Rec
<1>11. /\ X.status = Y.status /\ X.blocks = Y.blocks
       /\ X.arrival_time = Y.arrival_time /\ X.last_sched_seq = Y.last_sched_seq
       /\ X.streaming_queue = Y.streaming_queue
  BY <1>7, <1>9, ZenonT(30) DEF Rec
<1> QED BY <1>8, <1>10, <1>11, Zenon DEF X

(* An entry of the batch that changes at most numbers of tokens.            *)
LEMMA EntryType ==
  ASSUME Facts, TInv
  PROVE  EntryEffect
<1> USE DEF EntryEffect
<1> HAVE SkipEntry \/ DiscardFrame \/ \E g \in 1..1 + num_spec_tokens : AppendOutput(g)
<1> DEFINE r == Entry.id
           F == /\ ReqOK'
                /\ \A s \in Request : s # r => req'[s] = req[s]
                /\ req'[r].status = req[r].status /\ req'[r].blocks = req[r].blocks
                /\ req'[r].arrival_time = req[r].arrival_time
                /\ req'[r].last_sched_seq = req[r].last_sched_seq
                /\ req[r].status \in Finished => req'[r] = req[r]
<1>1. /\ InUpdateLoop /\ NextEntry /\ UNCHANGED <<queues, rest, arrivals, resets>>
  BY Zenon DEF SkipEntry, DiscardFrame, AppendOutput, rest, worker, outside
<1>2. /\ Entry \in InBatch /\ r \in Request /\ req[r] \in Rec /\ StepOK'
      /\ ReqOK
  BY <1>1, Zenon DEF TInv, Facts, EntryFact
<1>3. ASSUME SkipEntry PROVE F
  <2>1. req' = req
    BY Zenon, <1>3 DEF SkipEntry
  <2> QED BY <1>2, <2>1, ZenonT(30) DEF ReqOK
<1>4. ASSUME DiscardFrame PROVE F
  <2> DEFINE d == req[r].async_tokens_to_discard - 1
             X == [req[r] EXCEPT !.async_tokens_to_discard = d]
  <2>1. req' = [req EXCEPT ![r] = X] /\ req[r].status \notin Finished
    BY <1>4, ZenonT(30) DEF DiscardFrame
  <2>2. d \in Int
    <3> DEFINE Q == req[r]
    <3>1. Q \in Rec
      BY <1>2, Zenon
    <3> HIDE DEF Q
    <3>2. Q.async_tokens_to_discard \in Int
      BY <3>1, Zenon DEF Rec
    <3> QED BY SMTT(30), <3>2 DEF Q
  <2> HIDE DEF d
  <2>3. X \in Rec
    BY Zenon, <1>2, <2>2 DEF Rec
  <2>4. /\ X.status = req[r].status /\ X.blocks = req[r].blocks
        /\ X.arrival_time = req[r].arrival_time
        /\ X.last_sched_seq = req[r].last_sched_seq
    BY <1>2, Zenon DEF Rec
  <2> HIDE DEF X, r
  <2>5. ReqOK' /\ req'[r] = X /\ \A s \in Request : s # r => req'[s] = req[s]
    BY <1>2, <2>1, <2>3, OneReq, ZenonT(30)
  <2> QED BY <2>1, <2>4, <2>5, Zenon
<1>5. ASSUME NEW g \in 1..1 + num_spec_tokens, AppendOutput(g) PROVE F
  <2> DEFINE X == WithOutput(req[r], Entry, g, g)
  <2>1. req' = [req EXCEPT ![r] = X] /\ req[r].status \notin Finished
    BY <1>5, Zenon DEF AppendOutput
  <2>2. g \in Int
    BY SMTT(30), SchedulerAssumption
  <2>3. /\ X \in Rec /\ X.status = req[r].status /\ X.blocks = req[r].blocks
        /\ X.arrival_time = req[r].arrival_time
        /\ X.last_sched_seq = req[r].last_sched_seq
    BY <1>2, <2>2, WithOutputFacts, ZenonT(30)
  <2> HIDE DEF X, r
  <2>4. ReqOK' /\ req'[r] = X /\ \A s \in Request : s # r => req'[s] = req[s]
    BY <1>2, <2>1, <2>3, OneReq, Zenon
  <2> QED BY <2>1, <2>3, <2>4, ZenonT(30)
<1>6. F
  BY ZenonT(30), <1>3, <1>4, <1>5
<1>7. QueuesOK' /\ BlocksOK' /\ SeqsOK' /\ SetsOK' /\ CountsOK' /\ BatchesOK'
  BY <1>1, Zenon DEF TInv, QueuesOK, BlocksOK, SeqsOK, SetsOK, CountsOK, BatchesOK,
     rest, queues, blocks, seqs, reports, loads
<1>8. TInv'
  BY <1>2, <1>6, <1>7, Zenon DEF TInv
<1>9. UNCHANGED <<queues, rest, arrivals>>
  BY <1>1, Zenon
<1>10. \A s \in Request :
              /\ req'[s].status = req[s].status /\ req'[s].blocks = req[s].blocks
              /\ req'[s].arrival_time = req[s].arrival_time
              /\ req'[s].last_sched_seq = req[s].last_sched_seq
              /\ s # r \/ req[s].status \in Finished => req'[s] = req[s]
  BY <1>6, ZenonT(30)
<1> QED BY <1>1, <1>8, <1>9, <1>10, ZenonT(30)

(* A request stops: it is over, or it is a session that goes on with the    *)
(* next chunk or waits for it.                                              *)
LEMMA StopRequestType ==
  ASSUME ListFacts, Facts, TInv
  PROVE  StopRequestEffect
<1> USE DEF StopRequestEffect
<1> TAKE g \in Int, k \in Int
<1> HAVE StopRequest(g, k)
<1> DEFINE r == Entry.id
           R == WithOutput(req[r], Entry, g, k)
           q == R.streaming_queue
           A == /\ req'[r] = Gone /\ Released(r)
                /\ waiting' = RemoveStopped(waiting, r)
                /\ finished_req_ids' = finished_req_ids \cup {r}
                /\ UNCHANGED <<skipped_waiting, num_waiting_for_streaming_input>>
           B == /\ r \in Sessions /\ req'[r].status = "WAITING"
                /\ req'[r].blocks = req[r].blocks
                /\ req'[r].last_sched_seq = req[r].last_sched_seq
                /\ waiting' = RemoveStopped(add_request(req', waiting, r), r)
                /\ UNCHANGED <<skipped_waiting, blocks, finished_req_ids,
                               num_waiting_for_streaming_input>>
           C == /\ r \in Sessions /\ req'[r].status = "STREAMING"
                /\ req'[r].blocks = req[r].blocks
                /\ req'[r].last_sched_seq = req[r].last_sched_seq
                /\ num_waiting_for_streaming_input' = num_waiting_for_streaming_input + 1
                /\ skipped_waiting' = add_request(req', skipped_waiting, r)
                /\ waiting' = RemoveStopped(waiting, r)
                /\ UNCHANGED <<blocks, finished_req_ids>>
           F == /\ ReqOK' /\ BlocksOK'
                /\ waiting' \in Seq(Request) /\ skipped_waiting' \in Seq(Request)
                /\ inflight_prefills' \in SUBSET Request /\ finished_req_ids' \in SUBSET Request
                /\ num_waiting_for_streaming_input' \in Int
                /\ \A s \in Request : s # r => req'[s] = req[s]
                /\ A \/ B \/ C
<1>0. /\ ReqOK /\ QueuesOK /\ BlocksOK /\ SeqsOK /\ SetsOK /\ CountsOK /\ BatchesOK /\ StepOK
      /\ InUpdateLoop /\ waiting \in Seq(Request) /\ skipped_waiting \in Seq(Request)
      /\ running \in Seq(Request)
  BY ZenonT(30) DEF TInv, StopRequest, QueuesOK
<1>1. /\ InUpdateLoop /\ NextEntry /\ req[r].status \notin Finished
      /\ running' = (IF req[r].status = "RUNNING" THEN remove_all(running, {r}) ELSE running)
      /\ UNCHANGED <<seqs, reset_preempted_req_ids, loads, arrivals, resets, occupied,
                     batch_queue>>
      /\ _handle_stopped_request(r, R)
  BY Zenon DEF StopRequest, outside, worker
<1>2. Entry \in InBatch /\ r \in Request /\ req[r] \in Rec /\ StepOK'
  BY <1>1, Zenon DEF Facts, EntryFact
<1>3. /\ R \in Rec /\ R.blocks = req[r].blocks /\ R.last_sched_seq = req[r].last_sched_seq
  <2> DEFINE Q == req[r]
             E == Entry
  <2>1. Q \in Rec /\ E \in InBatch
    BY <1>2, Zenon
  <2> HIDE DEF Q, E
  <2>2. /\ WithOutput(Q, E, g, k) \in Rec /\ WithOutput(Q, E, g, k).blocks = Q.blocks
        /\ WithOutput(Q, E, g, k).last_sched_seq = Q.last_sched_seq
    BY SMTT(30), <2>1, WithOutputFacts
  <2> QED BY <2>2, Zenon DEF Q, E
<1>4. q \in Seq(Chunk)
  <2> HIDE DEF R
  <2> QED BY <1>3, Zenon DEF Rec
<1>5. ASSUME NEW x \in Seq(Request) PROVE RemoveStopped(x, r) \in Seq(Request)
  BY <1>2, Zenon DEF RemoveStopped, Facts, RemoveFact
<1> HIDE DEF r, R, q
<1>6. ASSUME _free_request(r, FALSE), waiting' = RemoveStopped(waiting, r),
             UNCHANGED <<skipped_waiting, num_waiting_for_streaming_input>>
      PROVE  F
  <2>1. FALSE \in BOOLEAN
    BY Zenon
  <2>2. /\ ReqOK' /\ BlocksOK'
        /\ inflight_prefills' = inflight_prefills \ {r}
        /\ finished_req_ids' = finished_req_ids \cup {r}
        /\ \A s \in Request : s # r => req'[s] = req[s]
        /\ ~FALSE => req'[r] = Gone /\ Released(r)
    BY <1>0, <1>2, <1>6, <2>1, FreeRequestFacts, ZenonT(30)
  <2>3. waiting' \in Seq(Request) /\ skipped_waiting' \in Seq(Request)
        /\ num_waiting_for_streaming_input' \in Int
    BY <1>0, <1>5, <1>6, Zenon DEF CountsOK
  <2>4. inflight_prefills' \in SUBSET Request /\ finished_req_ids' \in SUBSET Request
    BY <1>0, <1>2, <2>2, Zenon DEF SetsOK
  <2>5. A
    BY ZenonT(30), <1>6, <2>2
  <2> HIDE DEF A, B, C
  <2> QED BY <2>2, <2>3, <2>4, <2>5, Zenon
<1>7. ASSUME r \in Sessions, q # <<>>,
             req' = [req EXCEPT ![r] =
               _update_request_as_session([R EXCEPT !.streaming_queue = Tail(q)], Head(q))],
             waiting' = RemoveStopped(add_request(req', waiting, r), r),
             UNCHANGED <<skipped_waiting, blocks, inflight_prefills, finished_req_ids,
                         num_waiting_for_streaming_input>>
      PROVE  F
  <2> DEFINE t == Tail(q)
             h == Head(q)
             Y == [R EXCEPT !.streaming_queue = t]
             X == _update_request_as_session(Y, h)
  <2>1. t \in Seq(Chunk) /\ h \in Chunk
    BY <1>4, <1>7, Zenon DEF ListFacts, TailElemsFact
  <2> HIDE DEF t, h
  <2>2. Y \in Rec
    BY ZenonT(30), <1>3, <2>1 DEF Rec
  <2>3. Y.blocks = R.blocks /\ Y.last_sched_seq = R.last_sched_seq
    BY <1>3, Zenon DEF Rec
  <2> HIDE DEF Y
  <2>4. /\ X \in Rec /\ X.status = "WAITING" /\ X.blocks = Y.blocks
        /\ X.last_sched_seq = Y.last_sched_seq
    BY <2>1, <2>2, SessionFacts, Zenon
  <2>5. req' = [req EXCEPT ![r] = X]
    BY <1>7, ZenonT(30) DEF Y, t, h
  <2> HIDE DEF X
  <2>6. ReqOK' /\ req'[r] = X /\ \A s \in Request : s # r => req'[s] = req[s]
    BY <1>0, <1>2, <2>4, <2>5, OneReq, ZenonT(30)
  <2>7. waiting' \in Seq(Request)
    <3>1. add_request(req', waiting, r) \in Seq(Request)
      BY <1>0, <1>2, ZenonT(30) DEF Facts, AddOneFact
    <3> QED BY <1>5, <1>7, <3>1, Zenon
  <2>8. /\ BlocksOK' /\ skipped_waiting' \in Seq(Request)
        /\ inflight_prefills' \in SUBSET Request /\ finished_req_ids' \in SUBSET Request
        /\ num_waiting_for_streaming_input' \in Int
    BY <1>0, <1>7, ZenonT(30) DEF BlocksOK, SetsOK, CountsOK, blocks
  <2>9. B
    BY <1>3, <1>7, <2>3, <2>4, <2>6, Zenon
  <2> HIDE DEF A, B, C
  <2> QED BY <2>6, <2>7, <2>8, <2>9, ZenonT(30)
<1>8. ASSUME r \in Sessions, req' = [req EXCEPT ![r] = [R EXCEPT !.status = "STREAMING"]],
             num_waiting_for_streaming_input' = num_waiting_for_streaming_input + 1,
             skipped_waiting' = add_request(req', skipped_waiting, r),
             waiting' = RemoveStopped(waiting, r),
             UNCHANGED <<blocks, inflight_prefills, finished_req_ids>>
      PROVE  F
  <2> DEFINE s == "STREAMING"
             X == [R EXCEPT !.status = s]
  <2>1. s \in Statuses
    BY Zenon DEF Statuses, Waiting, Blocked
  <2> HIDE DEF s
  <2>2. X \in Rec
    BY Zenon, <1>3, <2>1 DEF Rec
  <2>3. X.status = s /\ X.blocks = R.blocks /\ X.last_sched_seq = R.last_sched_seq
    BY <1>3, ZenonT(30) DEF Rec
  <2>4. req' = [req EXCEPT ![r] = X]
    BY <1>8, Zenon DEF s
  <2> HIDE DEF X
  <2>5. ReqOK' /\ req'[r] = X /\ \A t \in Request : t # r => req'[t] = req[t]
    BY <1>0, <1>2, <2>2, <2>4, OneReq, Zenon
  <2>6. skipped_waiting' \in Seq(Request) /\ waiting' \in Seq(Request)
    <3>1. add_request(req', skipped_waiting, r) \in Seq(Request)
      BY <1>0, <1>2, Zenon DEF Facts, AddOneFact
    <3> QED BY <1>0, <1>5, <1>8, <3>1, ZenonT(30)
  <2>7. /\ BlocksOK'
        /\ inflight_prefills' \in SUBSET Request /\ finished_req_ids' \in SUBSET Request
        /\ num_waiting_for_streaming_input' \in Int
    BY SMTT(30), <1>0, <1>8 DEF BlocksOK, SetsOK, CountsOK, blocks
  <2>8. C
    BY <1>3, <1>8, <2>3, <2>5, ZenonT(30) DEF s
  <2> HIDE DEF A, B, C
  <2> QED BY <2>5, <2>6, <2>7, <2>8, ZenonT(30)
<1>9. F
  <2> HIDE DEF F
  <2> QED BY <1>1, <1>6, <1>7, <1>8, Zenon DEF _handle_stopped_request, q
<1> HIDE DEF A, B, C
<1>10. running' \in Seq(Request)
  BY ZenonT(30), <1>0, <1>1, <1>2 DEF Facts, RemoveFact
<1>11. QueuesOK'
  BY <1>9, <1>10, Zenon DEF QueuesOK
<1>12. SetsOK' /\ CountsOK'
  BY ZenonT(30), <1>0, <1>1, <1>9 DEF SetsOK, CountsOK, loads
<1>13. SeqsOK' /\ BatchesOK'
  BY ZenonT(30), <1>0, <1>1 DEF SeqsOK, BatchesOK, seqs
<1>14. TInv'
  BY <1>2, <1>9, <1>11, <1>12, <1>13, Zenon DEF TInv
<1>15. UNCHANGED <<seqs, reset_preempted_req_ids, loads, arrivals, occupied, batch_queue>>
  BY <1>1, Zenon
<1> HIDE DEF F
<1>16. (\A s \in Request : s # r => req'[s] = req[s]) /\ (A \/ B \/ C)
  BY <1>9, ZenonT(30) DEF F
<1> QED BY <1>1, <1>2, <1>14, <1>15, <1>16, ZenonT(30) DEF r, A, B, C

(* A load is reported.                                                      *)
LEMMA ReportLoadedType ==
  ASSUME ListFacts, Facts, TInv
  PROVE  ReportLoadedEffect
<1> USE DEF ReportLoadedEffect
<1> TAKE r \in Request
<1> HAVE ReportLoaded(r)
<1>0. /\ ReqOK /\ QueuesOK /\ BlocksOK /\ SeqsOK /\ SetsOK /\ CountsOK /\ BatchesOK /\ StepOK
  BY Zenon DEF TInv
<1>1. /\ step.phase = "update" /\ step.scheduled = <<>> /\ r \in loaded
      /\ loaded' = loaded \ {r}
      /\ UNCHANGED <<queues, seqs, reports, num_waiting_for_streaming_input,
                     inflight_prefills, loading, step, occupied, batch_queue, arrivals, resets>>
  BY Zenon DEF ReportLoaded, outside, worker
<1>2. /\ ReqOK' /\ BlocksOK' /\ finished_recving' \in SUBSET Request
      /\ \A s \in Request : s # r => req'[s] = req[s]
      /\ IF req[r].status = "REMOTE"
         THEN finished_recving' = finished_recving \cup {r} /\ UNCHANGED <<req, blocks>>
         ELSE /\ req'[r] = Gone /\ Released(r) /\ finished_recving' = finished_recving
  <2>1. CASE req[r].status = "REMOTE"
    <3>1. finished_recving' = finished_recving \cup {r} /\ UNCHANGED <<req, blocks>>
      BY <2>1, Zenon DEF ReportLoaded
    <3> QED BY <1>0, <2>1, <3>1, Zenon DEF ReqOK, BlocksOK, SetsOK, blocks
  <2>2. CASE req[r].status # "REMOTE"
    <3>1. /\ _free_request_blocks(r) /\ req' = [req EXCEPT ![r] = Gone]
          /\ finished_recving' = finished_recving
      BY <2>2, Zenon DEF ReportLoaded, Gone
    <3>2. Released(r) /\ BlocksOK'
      BY <1>0, <3>1, ReleaseFacts, Zenon
    <3>3. ReqOK' /\ req'[r] = Gone /\ \A s \in Request : s # r => req'[s] = req[s]
      BY <1>0, <3>1, OneReq, ZenonT(30) DEF Facts, GoneFact
    <3> QED BY <1>0, <2>2, <3>1, <3>2, <3>3, ZenonT(30) DEF SetsOK
  <2> QED BY ZenonT(30), <2>1, <2>2
<1>3. QueuesOK' /\ SeqsOK' /\ SetsOK' /\ CountsOK' /\ BatchesOK'
  BY Zenon, <1>0, <1>1, <1>2 DEF QueuesOK, SeqsOK, SetsOK, CountsOK, BatchesOK, queues, seqs, reports
<1>4. StepOK'
  BY Zenon, <1>0, <1>1 DEF StepOK
<1>5. TInv'
  BY <1>2, <1>3, <1>4, ZenonT(30) DEF TInv
<1> QED BY ZenonT(30), <1>1, <1>2, <1>5

(* The initial state.                                                       *)
LEMMA InitType ==
  ASSUME ListFacts, GoneFact
  PROVE  Init => TInv
<1> SUFFICES ASSUME Init PROVE TInv
  BY Zenon
<1>1. ReqOK
  BY Zenon DEF Init, ReqOK, GoneFact
<1>2. \A T : <<>> \in Seq(T)
  BY Zenon DEF ListFacts, EmptySeqFact
<1>3. QueuesOK /\ BlocksOK /\ SeqsOK /\ SetsOK /\ CountsOK /\ BatchesOK
  BY <1>2 DEF Init, QueuesOK, BlocksOK, SeqsOK, SetsOK, CountsOK, BatchesOK
<1>4. StepOK
  BY ZenonT(30), <1>2, IdleFacts DEF Init, StepOK, Phases
<1> QED BY <1>1, <1>3, <1>4, Zenon DEF TInv

LEMMA StutterType ==
  ASSUME TInv, UNCHANGED vars
  PROVE  TInv'
<1>1. UNCHANGED <<req, queues, rest, arrivals, resets, step>>
  BY Zenon DEF vars, rest, outside, worker
<1>2. StepOK'
  BY <1>1, ZenonT(30) DEF TInv, StepOK, queues, rest, Retry
<1> QED BY <1>1, <1>2, StepOnly, Zenon

(* Every step keeps the types.                                              *)
LEMMA TypeStep ==
  ASSUME ListFacts, Facts, TInv, VictimOK, [Next]_vars
  PROVE  TInv'
<1>1. CASE Client
  <2>1. ASSUME NEW r \in Request, NEW len \in PromptLens, AddRequest(r, len) PROVE TInv'
    BY ZenonT(30), <2>1, AddRequestType DEF AddRequestEffect
  <2>2. ASSUME NEW r \in Request, NEW len \in PromptLens \cup {0}, AddChunk(r, len) PROVE TInv'
    BY Zenon, <2>2, AddChunkType DEF AddChunkEffect
  <2>3. ASSUME NEW r \in Request, Abort(r) PROVE TInv'
    BY Zenon, <2>3, AbortType DEF AbortEffect
  <2>4. StartReset => TInv'
    BY ControlType, ZenonT(30) DEF ControlEffect
  <2>5. (\E state \in PauseStates \cup {"UNPAUSED"} : set_pause_state(state)) => TInv'
    BY ControlType, ZenonT(30) DEF ControlEffect
  <2> QED BY <1>1, <2>1, <2>2, <2>3, <2>4, <2>5, Zenon DEF Client
<1>2. CASE Schedule
  <2>1. StartSchedule \/ SkipRunning \/ EndRunning => TInv'
    BY ControlType, ZenonT(30) DEF ControlEffect
  <2>2. (\E ext \in 0..max_model_len : StopWaiting(ext)) => TInv'
    BY ControlType, Zenon DEF ControlEffect
  <2>3. ScheduleRunning => TInv'
    BY ScheduleRunningType, Zenon DEF ScheduleRunningEffect
  <2>4. PreemptRunning => TInv'
    BY ZenonT(30), PreemptRunningType DEF PreemptRunningEffect
  <2>5. SkipWaiting => TInv'
    BY SkipWaitingType, Zenon DEF SkipWaitingEffect
  <2>6. PromoteLoaded => TInv'
    BY PromoteLoadedType, Zenon DEF PromoteLoadedEffect
  <2>7. ASSUME NEW ext \in 0..max_model_len, ScheduleWaiting(ext) PROVE TInv'
    BY <2>7, ScheduleWaitingType, ZenonT(30) DEF ScheduleWaitingEffect
  <2>8. ASSUME NEW ext \in 0..max_model_len, StartLoad(ext) PROVE TInv'
    BY <2>8, StartLoadType, Zenon DEF StartLoadEffect
  <2>9. EndSchedule => TInv'
    BY EndScheduleType, Zenon DEF EndScheduleEffect
  <2> QED BY <1>2, <2>1, <2>2, <2>3, <2>4, <2>5, <2>6, <2>7, <2>8, <2>9, Zenon DEF Schedule
<1>3. CASE Update
  <2>1. BeginUpdate => TInv'
    BY BeginUpdateType, Zenon DEF BeginUpdateEffect
  <2>2. SkipEntry \/ DiscardFrame \/ (\E g \in 1..1 + num_spec_tokens : AppendOutput(g)) => TInv'
    BY EntryType, Zenon DEF EntryEffect
  <2>3. ASSUME NEW g \in 1..1 + num_spec_tokens, NEW k \in 1..1 + num_spec_tokens,
               StopRequest(g, k)
        PROVE  TInv'
    <3>1. g \in Int /\ k \in Int
      BY SMTT(30), SchedulerAssumption
    <3> QED BY ZenonT(30), <2>3, <3>1, StopRequestType DEF StopRequestEffect
  <2>4. ASSUME NEW r \in Request, ReportLoaded(r) PROVE TInv'
    BY <2>4, ReportLoadedType, Zenon DEF ReportLoadedEffect
  <2>5. EndUpdate => TInv'
    BY ControlType, Zenon DEF ControlEffect
  <2> QED BY <1>3, <2>1, <2>2, <2>3, <2>4, <2>5, ZenonT(30) DEF Update
<1>4. CASE ResetRunning
  BY Zenon, <1>4, ResetRunningType DEF ResetRunningEffect
<1>5. ASSUME NEW r \in Request, LoadDone(r) PROVE TInv'
  BY <1>5, LoadDoneType, Zenon
<1>6. CASE UNCHANGED vars
  BY <1>6, StutterType, ZenonT(30)
<1> QED BY <1>1, <1>2, <1>3, <1>4, <1>5, <1>6, ZenonT(30) DEF Next

(* What the actions do.                                                     *)
LEMMA EffectsHold ==
  ASSUME ListFacts, Facts, TInv
  PROVE  Effects
<1>1. AddRequestEffect
  BY AddRequestType, Zenon
<1>2. AddChunkEffect
  BY AddChunkType, ZenonT(30)
<1>3. AbortEffect
  BY AbortType, Zenon
<1>4. ControlEffect
  BY ControlType, Zenon
<1>5. ResetRunningEffect
  BY ResetRunningType, ZenonT(30)
<1>6. PreemptRunningEffect
  BY PreemptRunningType, Zenon
<1>7. ScheduleRunningEffect
  BY ScheduleRunningType, Zenon
<1>8. SkipWaitingEffect
  BY SkipWaitingType, Zenon
<1>9. PromoteLoadedEffect
  BY PromoteLoadedType, Zenon
<1>10. ScheduleWaitingEffect
  BY ScheduleWaitingType, Zenon
<1>11. StartLoadEffect
  BY StartLoadType, Zenon
<1>12. EndScheduleEffect
  BY EndScheduleType, Zenon
<1>13. BeginUpdateEffect
  BY BeginUpdateType, Zenon
<1>14. EntryEffect
  BY EntryType, Zenon
<1>15. StopRequestEffect
  BY StopRequestType, Zenon
<1>16. ReportLoadedEffect
  BY ReportLoadedType, Zenon
<1> QED BY ZenonT(30), <1>1, <1>2, <1>3, <1>4, <1>5, <1>6, <1>7, <1>8, <1>9, <1>10, <1>11, <1>12,
      <1>13, <1>14, <1>15, <1>16, Zenon DEF Effects
=============================================================================
