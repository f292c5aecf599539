-------------------------- MODULE SchedulerBatches ---------------------------
(***************************************************************************)
(* The batches in flight, the loads, the sessions and their slots, and the *)
(* order of arrival: every action keeps what the invariant says of them.   *)
(***************************************************************************)
EXTENDS SchedulerInvariants, TLAPS

-----------------------------------------------------------------------------
(* The batches in flight.                                                   *)
InSchedule(x) == x.phase \in {"running", "waiting", "end"}

\* What a step may do to a request of a batch in flight.
Steady(r) ==
  \/ req'[r].status \in Live
  \/ req'[r].status = req[r].status /\ (r \in Elems(waiting) => r \in Elems(waiting'))
  \/ req[r].status \notin Live \cup {"PREEMPTED"}
  \/ /\ req'[r].status = "PREEMPTED" /\ r \in Elems(waiting')
     /\ max_concurrent_batches # 1
     /\ MaxResets = 0 => InSchedule(step') /\ step'.preempted

LEMMA SteadyFacts ==
  ASSUME NEW e, Steady(e.id), InFlightOK(e)
  PROVE  /\ InFlightOK(e)'
         /\ max_concurrent_batches = 1 /\ req[e.id].status \in Live => req'[e.id].status \in Live
         /\ MaxResets = 0 /\ req[e.id].status \in Live =>
              \/ req'[e.id].status \in Live
              \/ InSchedule(step') /\ step'.preempted
<1>1. "PREEMPTED" \notin Live
  BY Zenon DEF Live, Finished
<1> QED BY <1>1, Zenon DEF Steady, InFlightOK

LEMMA FlightKept ==
  ASSUME FlightInv, batch_queue' = batch_queue,
         \A i \in 1..Len(batch_queue) : \A e \in Elems(batch_queue[i]) : Steady(e.id),
         step'.phase = "update" =>
           /\ step.phase = "update"
           /\ \A e \in Elems(step'.scheduled) : e \in Elems(step.scheduled) /\ Steady(e.id),
         step.phase = "result" => step'.phase = "result",
         InSchedule(step) /\ step.preempted => InSchedule(step') /\ step'.preempted
  PROVE  FlightInv'
<1>1. ASSUME NEW i \in 1..Len(batch_queue), NEW e \in Elems(batch_queue[i])
      PROVE  /\ InFlightOK(e)'
             /\ max_concurrent_batches = 1 => req'[e.id].status \in Live
             /\ MaxResets = 0 => \/ req'[e.id].status \in Live
                                 \/ InSchedule(step') /\ step'.preempted
                                 \/ step'.phase = "result" /\ i = 1
  <2>1. /\ InFlightOK(e) /\ Steady(e.id)
        /\ max_concurrent_batches = 1 => req[e.id].status \in Live
        /\ MaxResets = 0 => \/ req[e.id].status \in Live
                            \/ InSchedule(step) /\ step.preempted
                            \/ step.phase = "result" /\ i = 1
    BY Zenon DEF FlightInv, InSchedule
  <2> QED BY <2>1, SteadyFacts, Zenon
<1>2. ASSUME step'.phase = "update", NEW e \in Elems(step'.scheduled)
      PROVE  /\ InFlightOK(e)'
             /\ max_concurrent_batches = 1 => req'[e.id].status \in Live
  <2>1. /\ InFlightOK(e) /\ Steady(e.id)
        /\ max_concurrent_batches = 1 => req[e.id].status \in Live
    BY <1>2, Zenon DEF FlightInv
  <2> QED BY <2>1, SteadyFacts, Zenon
<1>3. /\ Len(batch_queue') <= max_concurrent_batches
      /\ step'.phase # "result" => Len(batch_queue') < max_concurrent_batches
      /\ \A i \in 1..Len(batch_queue') : Distinct(batch_queue'[i])
  BY Zenon DEF FlightInv
<1>4. \A i \in 1..Len(batch_queue') : \A e \in Elems(batch_queue'[i]) :
        /\ InFlightOK(e)'
        /\ max_concurrent_batches = 1 => req'[e.id].status \in Live
        /\ MaxResets = 0 => \/ req'[e.id].status \in Live
                            \/ InSchedule(step') /\ step'.preempted
                            \/ step'.phase = "result" /\ i = 1
  BY <1>1, ZenonT(30)
<1>5. step'.phase = "update" =>
        \A e \in Elems(step'.scheduled) :
          /\ InFlightOK(e)'
          /\ max_concurrent_batches = 1 => req'[e.id].status \in Live
  BY <1>2, Zenon
<1> QED BY <1>3, <1>4, <1>5, Zenon DEF FlightInv, InSchedule

\* ... when no request is touched but by its status.
LEMMA FlightSteady ==
  ASSUME ListFacts, Facts,
         TInv, FlightInv, batch_queue' = batch_queue, \A r \in Request : Steady(r),
         step'.phase = "update" =>
           /\ step.phase = "update"
           /\ \A e \in Elems(step'.scheduled) : e \in Elems(step.scheduled),
         step.phase = "result" => step'.phase = "result",
         InSchedule(step) /\ step.preempted => InSchedule(step') /\ step'.preempted
  PROVE  FlightInv'
<1>1. \A i \in 1..Len(batch_queue) : \A e \in Elems(batch_queue[i]) : Steady(e.id)
  BY ZenonT(30) DEF TInv, Facts, BatchEntryFact
<1>2. ASSUME step.phase = "update", NEW e \in Elems(step.scheduled)
      PROVE  e.id \in Request
  <2>1. step.scheduled \in Seq(InBatch)
    BY <1>2, Zenon DEF TInv, StepOK
  <2>2. e \in InBatch
    BY <2>1, Zenon DEF Facts, ElemsFact
  <2> QED BY <2>2, Zenon DEF InBatch
<1>3. step'.phase = "update" =>
        /\ step.phase = "update"
        /\ \A e \in Elems(step'.scheduled) : e \in Elems(step.scheduled) /\ Steady(e.id)
  BY <1>2, Zenon
<1> QED BY <1>1, <1>3, FlightKept, Zenon

LEMMA FlightEnd ==
  ASSUME ListFacts, Facts, Effects, TInv, QueueInv, StepInv, FlightInv, EndSchedule
  PROVE  FlightInv'
<1> DEFINE n == Len(batch_queue)
           B == Batch
<1>1. /\ step.phase \in {"end", "waiting"}
      /\ \A r \in Request : req'[r].status = req[r].status
      /\ B \in Seq(InBatch) /\ Len(B) = Len(step.scheduled)
      /\ \A i \in 1..Len(B) : B[i].id = step.scheduled[i].id
      /\ batch_queue' = Append(batch_queue, B)
      /\ waiting' = waiting
      /\ step'.phase \in {"idle", "result"}
      /\ step'.phase = "idle" => Len(batch_queue') < max_concurrent_batches
  BY ZenonT(30) DEF Effects, EndScheduleEffect
<1> HIDE DEF B
<1>2. /\ batch_queue \in Seq(Seq(InBatch)) /\ n \in Nat
      /\ max_concurrent_batches \in Nat /\ max_concurrent_batches <= 2
  BY SchedulerAssumption, Zenon DEF TInv, BatchesOK, ListFacts, LenFact
<1>3. /\ Len(batch_queue') = n + 1 /\ batch_queue'[n + 1] = B
      /\ \A i \in 1..n : batch_queue'[i] = batch_queue[i]
  BY SMTT(30), <1>1, <1>2 DEF ListFacts, AppendFact
<1>4. n < max_concurrent_batches
  BY <1>1, ZenonT(30) DEF FlightInv
<1>5. Distinct(B)
  BY SMTT(30), <1>1 DEF StepInv, Distinct
<1>6. ASSUME NEW e \in Elems(B) PROVE req'[e.id].status = "RUNNING"
  <2>1. PICK i \in 1..Len(B) : e = B[i]
    BY Zenon DEF Elems
  <2>2. step.scheduled[i] \in Elems(step.scheduled) /\ e.id = step.scheduled[i].id
    BY <1>1, <2>1, Zenon DEF Elems
  <2>3. e.id \in Elems(running)
    BY <1>1, <2>2, Zenon DEF StepInv
  <2>4. e.id \in Request /\ req[e.id].status = "RUNNING"
    BY <2>3, Zenon DEF Facts, QueueTypesFact, StatusFact
  <2> QED BY <1>1, <2>4, Zenon
<1>7. ASSUME NEW i \in 1..n, NEW e \in Elems(batch_queue[i])
      PROVE  /\ InFlightOK(e)'
             /\ max_concurrent_batches = 1 => req'[e.id].status \in Live
             /\ MaxResets = 0 => \/ req'[e.id].status \in Live
                                 \/ step'.phase = "result" /\ i = 1
  <2>1. e.id \in Request
    BY Zenon DEF TInv, Facts, BatchEntryFact
  <2>2. InFlightOK(e)' /\ (max_concurrent_batches = 1 => req'[e.id].status \in Live)
    BY <1>1, <2>1, ZenonT(30) DEF FlightInv, InFlightOK
  <2>3. i = 1 /\ step'.phase = "result"
    BY SMTT(30), <1>1, <1>2, <1>3, <1>4
  <2> QED BY <2>2, <2>3, Zenon
<1>8. "RUNNING" \in Live /\ "RUNNING" # "PREEMPTED"
  BY Zenon DEF Live
<1>9. ASSUME NEW i \in 1..n + 1
      PROVE  /\ Distinct(batch_queue'[i])
             /\ \A e \in Elems(batch_queue'[i]) :
                  /\ InFlightOK(e)'
                  /\ max_concurrent_batches = 1 => req'[e.id].status \in Live
                  /\ MaxResets = 0 => \/ req'[e.id].status \in Live
                                      \/ step'.phase = "result" /\ i = 1
  <2>1. CASE i \in 1..n
    <3>1. Distinct(batch_queue[i]) /\ batch_queue'[i] = batch_queue[i]
      BY <1>3, <2>1, Zenon DEF FlightInv
    <3> QED BY <1>7, <2>1, <3>1, Zenon
  <2>2. CASE i = n + 1
    BY <1>3, <1>5, <1>6, <1>8, <2>2, ZenonT(30) DEF InFlightOK
  <2> QED BY SMTT(30), <1>2, <2>1, <2>2
<1>10. /\ Len(batch_queue') <= max_concurrent_batches
       /\ step'.phase # "result" => Len(batch_queue') < max_concurrent_batches
       /\ step'.phase # "update"
  BY SMTT(30), <1>1, <1>2, <1>3, <1>4
<1>11. \A i \in 1..Len(batch_queue') :
         /\ Distinct(batch_queue'[i])
         /\ \A e \in Elems(batch_queue'[i]) :
              /\ InFlightOK(e)'
              /\ max_concurrent_batches = 1 => req'[e.id].status \in Live
              /\ MaxResets = 0 => \/ req'[e.id].status \in Live
                                  \/ step'.phase = "result" /\ i = 1
  BY <1>3, <1>9, Zenon
<1> QED BY <1>10, <1>11, Zenon DEF FlightInv

LEMMA FlightBegin ==
  ASSUME ListFacts, Effects, TInv, FlightInv, BeginUpdate
  PROVE  FlightInv'
<1> DEFINE n == Len(batch_queue)
<1>1. /\ batch_queue # <<>> /\ batch_queue' = Tail(batch_queue)
      /\ step.phase = "result" /\ step'.phase = "update"
      /\ step'.scheduled = Head(batch_queue) /\ req' = req /\ waiting' = waiting
  BY Zenon DEF queues, Effects, BeginUpdateEffect
<1>2. /\ batch_queue \in Seq(Seq(InBatch)) /\ n \in Nat \ {0} /\ max_concurrent_batches \in Nat
  BY <1>1, SchedulerAssumption, Zenon DEF TInv, BatchesOK, ListFacts, EmptySeqFact, LenFact
<1>3. /\ Head(batch_queue) = batch_queue[1] /\ Len(batch_queue') = n - 1
      /\ \A i \in 1..n - 1 : batch_queue'[i] = batch_queue[i + 1]
  BY SMTT(30), <1>1, <1>2 DEF ListFacts, TailElemsFact
<1>4. ASSUME NEW i \in 1..n - 1
      PROVE  /\ Distinct(batch_queue'[i])
             /\ \A e \in Elems(batch_queue'[i]) :
                  /\ InFlightOK(e)
                  /\ max_concurrent_batches = 1 => req[e.id].status \in Live
                  /\ MaxResets = 0 => req[e.id].status \in Live
  <2>1. i + 1 \in 1..n /\ i + 1 # 1 /\ batch_queue'[i] = batch_queue[i + 1]
    BY SMTT(30), <1>2, <1>3
  <2> QED BY <1>1, <2>1, ZenonT(30) DEF FlightInv
<1>5. ASSUME NEW e \in Elems(step'.scheduled)
      PROVE  InFlightOK(e) /\ (max_concurrent_batches = 1 => req[e.id].status \in Live)
  BY SMTT(30), <1>1, <1>2, <1>3 DEF FlightInv
<1>6. Len(batch_queue') <= max_concurrent_batches /\ Len(batch_queue') < max_concurrent_batches
  BY SMTT(30), <1>2, <1>3 DEF FlightInv
<1>7. \A e : InFlightOK(e)' <=> InFlightOK(e)
  BY <1>1, Zenon DEF InFlightOK
<1>8. \A i \in 1..Len(batch_queue') :
        /\ Distinct(batch_queue'[i])
        /\ \A e \in Elems(batch_queue'[i]) :
             /\ InFlightOK(e)'
             /\ max_concurrent_batches = 1 => req'[e.id].status \in Live
             /\ MaxResets = 0 => req'[e.id].status \in Live
  BY <1>1, <1>3, <1>4, <1>7, Zenon
<1>9. \A e \in Elems(step'.scheduled) :
        InFlightOK(e)' /\ (max_concurrent_batches = 1 => req'[e.id].status \in Live)
  BY <1>1, <1>5, <1>7, Zenon
<1> QED BY <1>6, <1>8, <1>9, ZenonT(30) DEF FlightInv

LEMMA SteadySame ==
  ASSUME NEW r, req'[r].status = req[r].status,
         r \in Elems(waiting) => r \in Elems(waiting')
  PROVE  Steady(r)
BY Zenon DEF Steady

LEMMA LiveStatuses ==
  ASSUME ListFacts, Facts
  PROVE  /\ Live = {"RUNNING", "FINISHED", "GONE"} /\ Gone.status \in Live
         /\ "RUNNING" \in Live /\ "FINISHED" \in Live
         /\ \A s \in {"NONE", "WAITING", "REMOTE", "STREAMING"} : s \notin Live \cup {"PREEMPTED"}
<1>1. Live = {"RUNNING", "FINISHED", "GONE"}
  BY Zenon DEF Live, Finished
<1> QED BY <1>1, Zenon DEF Facts, GoneFact

\* While requests are scheduled the batches in flight are fewer than may be:
\* there is none if they do not overlap.
LEMMA NoneInFlight ==
  ASSUME ListFacts, TInv, FlightInv, max_concurrent_batches = 1, step.phase # "result"
  PROVE  \A i : i \notin 1..Len(batch_queue)
<1>1. Len(batch_queue) \in Nat /\ Len(batch_queue) < 1
  BY Zenon DEF FlightInv, TInv, BatchesOK, ListFacts, LenFact
<1> QED BY <1>1

\* When a connector is asked, no request in flight has been preempted.
LEMMA AllLive ==
  ASSUME ListFacts, TInv, FlightInv, Orderly, connector, InWaitingLoop
  PROVE  \A i \in 1..Len(batch_queue) : \A e \in Elems(batch_queue[i]) :
           req[e.id].status \in Live
<1>1. step.phase = "waiting" /\ ~step.preempted
  BY Zenon DEF InWaitingLoop
<1>2. CASE max_concurrent_batches = 1
  BY <1>1, <1>2, NoneInFlight, ZenonT(30)
<1>3. CASE MaxResets = 0
  BY <1>1, <1>3, Zenon DEF FlightInv
<1> QED BY <1>2, <1>3, Zenon DEF Orderly

LEMMA FlightClient ==
  ASSUME ListFacts, Facts, Effects, TInv, FlightInv, Client
  PROVE  FlightInv'
<1>0. waiting \in Seq(Request) /\ skipped_waiting \in Seq(Request)
  BY ZenonT(30) DEF Facts, QueueTypesFact
<1>1. ASSUME NEW r \in Request, NEW len \in PromptLens, AddRequest(r, len) PROVE FlightInv'
  <2>1. /\ \A s \in Request : s # r => req'[s] = req[s]
        /\ req[r].status = "NONE" /\ batch_queue' = batch_queue /\ step' = step
        /\ waiting' = add_request(req', waiting, r)
    BY <1>1, Zenon DEF AddRequest, worker, Effects, AddRequestEffect
  <2>2. Elems(waiting') = Elems(waiting) \cup {r}
    BY SMTT(30), <1>0, <2>1 DEF Facts, AddOneFact
  <2>3. \A s \in Request : Steady(s)
    BY <2>1, <2>2, LiveStatuses, Zenon DEF Steady
  <2> QED BY <2>1, <2>3, FlightSteady, ZenonT(30)
<1>2. ASSUME NEW r \in Request, NEW len \in PromptLens \cup {0}, AddChunk(r, len)
      PROVE  FlightInv'
  <2>1. batch_queue' = batch_queue /\ step' = step
    BY <1>2, Zenon DEF AddChunk, worker
  <2>2. /\ \A s \in Request : s # r => req'[s] = req[s]
        /\ \/ req'[r].status = req[r].status /\ waiting' = waiting
           \/ req[r].status = "STREAMING" /\ waiting' = waiting
           \/ req'[r] = Gone /\ waiting' = remove_all(waiting, {r})
    BY <1>2, Zenon DEF queues, Effects, AddChunkEffect
  <2>3. waiting' = waiting \/ Elems(waiting') = Elems(waiting) \ {r}
    BY <1>0, <2>2, Zenon DEF Facts, RemoveFact
  <2>4. \A s \in Request : Steady(s)
    BY <2>2, <2>3, LiveStatuses, Zenon DEF Steady
  <2> QED BY <2>1, <2>4, FlightSteady, Zenon
<1>3. ASSUME NEW r \in Request, Abort(r) PROVE FlightInv'
  <2>1. batch_queue' = batch_queue /\ step' = step
        /\ (waiting' = waiting \/ waiting' = remove_all(waiting, {r}))
    BY <1>3, Zenon DEF Abort, worker
  <2>2. /\ \A s \in Request : s # r => req'[s] = req[s]
        /\ req'[r] = [req[r] EXCEPT !.status = "FINISHED"] \/ req'[r] = Gone
    BY <1>3, Zenon DEF Effects, AbortEffect
  <2>3. req'[r].status \in Live
    <3>1. req[r] \in Rec
      BY Zenon DEF TInv, ReqOK
    <3> QED BY <2>2, <3>1, LiveStatuses, Zenon DEF Rec
  <2>4. waiting' = waiting \/ Elems(waiting') = Elems(waiting) \ {r}
    BY <1>0, <2>1, ZenonT(30) DEF Facts, RemoveFact
  <2>5. \A s \in Request : Steady(s)
    BY <2>2, <2>3, <2>4, ZenonT(30) DEF Steady
  <2> QED BY <2>1, <2>5, FlightSteady, Zenon
<1>4. ASSUME StartReset \/ \E state \in PauseStates \cup {"UNPAUSED"} : set_pause_state(state)
      PROVE  FlightInv'
  <2>1. UNCHANGED <<req, waiting, batch_queue>>
    BY <1>4, ZenonT(30) DEF queues, rest, Effects, ControlEffect
  <2>2. step \in Step
    BY Zenon DEF TInv, StepOK
  <2>3. step.phase = "idle" /\ (step' = step \/ step' = [step EXCEPT !.phase = "reset"])
    BY <1>4, Zenon DEF StartReset, set_pause_state
  <2>4. step'.phase \in {"idle", "reset"}
    BY <2>2, <2>3, ZenonT(30) DEF Step
  <2>5. \A s \in Request : Steady(s)
    BY <2>1, SteadySame, Zenon
  <2> QED BY <2>1, <2>3, <2>4, <2>5, FlightSteady, Zenon DEF InSchedule
<1> QED BY <1>1, <1>2, <1>3, <1>4, Zenon DEF Client

LEMMA FlightSchedule ==
  ASSUME ListFacts, Facts, Effects,
         TInv, VictimOK, QueueInv, StepInv, FlightInv, Orderly, Schedule
  PROVE  FlightInv'
<1>0. waiting \in Seq(Request) /\ skipped_waiting \in Seq(Request) /\ step \in Step
  BY ZenonT(30) DEF TInv, StepOK, Facts, QueueTypesFact
<1>1. ASSUME \/ StartSchedule \/ SkipRunning \/ EndRunning
             \/ \E ext \in 0..max_model_len : StopWaiting(ext)
      PROVE  FlightInv'
  <2>1. UNCHANGED <<req, waiting, batch_queue>>
    BY <1>1, ZenonT(30) DEF queues, rest, Effects, ControlEffect
  <2>2. \/ step.phase = "idle" /\ step'.phase \in {"running", "result"}
        \/ InSchedule(step) /\ InSchedule(step') /\ step'.preempted = step.preempted
    BY ZenonT(30), <1>0, <1>1 DEF StartSchedule, SkipRunning, EndRunning, StopWaiting, InWaitingLoop,
                      InRunningLoop, Idle, Step, InSchedule
  <2>3. \A s \in Request : Steady(s)
    BY <2>1, SteadySame, Zenon
  <2> QED BY <2>1, <2>2, <2>3, FlightSteady, ZenonT(30) DEF InSchedule
<1>2. ASSUME ScheduleRunning PROVE FlightInv'
  <2>1. /\ Current \in Request /\ Allocated(Current, req[Current])
        /\ step.phase = "running" /\ step'.phase = "running"
        /\ step'.preempted = step.preempted
    BY <1>2, Zenon DEF Effects, ScheduleRunningEffect
  <2>2. batch_queue' = batch_queue /\ waiting' = waiting
    BY <1>2, Zenon DEF ScheduleRunning, worker, queues
  <2>3. \A s \in Request : req'[s].status = req[s].status
    BY <2>1, Zenon DEF Allocated
  <2>4. \A s \in Request : Steady(s)
    BY <2>2, <2>3, SteadySame, Zenon
  <2> QED BY <2>1, <2>2, <2>4, FlightSteady, Zenon DEF InSchedule
<1>3. ASSUME PreemptRunning PROVE FlightInv'
  <2>1. /\ Victim \in Request /\ \A s \in Request : s # Victim => req'[s] = req[s]
        /\ req'[Victim].status = "PREEMPTED" /\ waiting' = prepend_request(waiting, Victim)
        /\ step.phase = "running" /\ step'.preempted /\ step'.phase \in {"running", "end"}
    BY <1>3, Zenon DEF Effects, PreemptRunningEffect
  <2>2. batch_queue' = batch_queue
    BY <1>3, Zenon DEF PreemptRunning, worker
  <2>3. Elems(waiting') = Elems(waiting) \cup {Victim}
    BY <1>0, <2>1, Zenon DEF Facts, PrependOneFact
  <2>4. CASE max_concurrent_batches = 1
    BY <2>1, <2>2, <2>4, NoneInFlight, FlightKept, Zenon DEF InSchedule
  <2>5. CASE max_concurrent_batches # 1
    <3>1. \A s \in Request : Steady(s)
      BY <2>1, <2>3, <2>5, Zenon DEF Steady, InSchedule
    <3> QED BY <2>1, <2>2, <3>1, FlightSteady, Zenon DEF InSchedule
  <2> QED BY <2>4, <2>5, Zenon
<1>4. ASSUME SkipWaiting PROVE FlightInv'
  <2> DEFINE r == peek_request
  <2>1. /\ InWaitingLoop /\ pop_request /\ UNCHANGED <<req, rest>>
        /\ step'.phase = "waiting" /\ step'.preempted = step.preempted
    BY <1>4, Zenon DEF Effects, SkipWaitingEffect
  <2>2. /\ step.phase = "waiting" /\ batch_queue' = batch_queue /\ req' = req
    BY <2>1, Zenon DEF InWaitingLoop, rest
  <2>3. Elems(waiting') = Elems(waiting) \ {r}
    BY <2>1, Zenon DEF Facts, PopFact
  <2>4. \/ req[r].status \in {"STREAMING", "REMOTE"}
        \/ connector
    BY <1>4, Zenon DEF SkipWaiting
  <2> HIDE DEF r
  <2>5. CASE connector
    <3>1. \A i \in 1..Len(batch_queue) : \A e \in Elems(batch_queue[i]) : Steady(e.id)
      <4>1. \A i \in 1..Len(batch_queue) : \A e \in Elems(batch_queue[i]) :
              req[e.id].status \in Live
        BY <2>1, <2>5, AllLive, Zenon
      <4> QED BY <2>2, <4>1, Zenon DEF Steady
    <3> QED BY <2>1, <2>2, <3>1, FlightKept, ZenonT(30) DEF InSchedule
  <2>6. CASE req[r].status \in {"STREAMING", "REMOTE"}
    <3>1. \A s \in Request : Steady(s)
      BY <2>2, <2>3, <2>6, LiveStatuses, Zenon DEF Steady
    <3> QED BY <2>1, <2>2, <3>1, FlightSteady, ZenonT(30) DEF InSchedule
  <2> QED BY <2>4, <2>5, <2>6, Zenon
<1>5. ASSUME PromoteLoaded PROVE FlightInv'
  <2> DEFINE r == peek_request
  <2>1. /\ r \in Request /\ UNCHANGED <<queues, step, batch_queue>>
        /\ req[r].status = "REMOTE" /\ \A s \in Request : s # r => req'[s] = req[s]
    BY <1>5, Zenon DEF Effects, PromoteLoadedEffect
  <2> HIDE DEF r
  <2>2. \A s \in Request : Steady(s)
    BY <2>1, LiveStatuses, Zenon DEF Steady, queues
  <2> QED BY <2>1, <2>2, FlightSteady, Zenon
<1>6. ASSUME NEW ext \in 0..max_model_len, ScheduleWaiting(ext) PROVE FlightInv'
  <2> DEFINE r == peek_request
  <2>1. /\ InWaitingLoop /\ pop_request /\ r \in Request /\ batch_queue' = batch_queue
        /\ \E c \in Int : Allocated(r, Updated(req[r], "RUNNING", c))
        /\ step'.phase = "waiting" /\ step'.preempted = step.preempted
    BY <1>6, Zenon DEF Effects, ScheduleWaitingEffect
  <2>2. Elems(waiting') = Elems(waiting) \ {r}
    BY <2>1, Zenon DEF Facts, PopFact
  <2> HIDE DEF r
  <2>3. PICK c \in Int : Allocated(r, Updated(req[r], "RUNNING", c))
    BY <2>1, Zenon
  <2>4. Updated(req[r], "RUNNING", c).status = "RUNNING"
    <3>1. req[r] \in Rec /\ "RUNNING" \in Statuses
      BY <2>1, Zenon DEF TInv, ReqOK, Statuses
    <3> QED BY <3>1, Zenon DEF Facts, UpdatedFact
  <2>5. req'[r].status = "RUNNING" /\ \A s \in Request : s # r => req'[s] = req[s]
    BY <2>3, <2>4, Zenon DEF Allocated
  <2>6. \A s \in Request : Steady(s)
    BY <2>2, <2>5, LiveStatuses, Zenon DEF Steady
  <2>7. step.phase = "waiting"
    BY <2>1, Zenon DEF InWaitingLoop
  <2> QED BY <2>1, <2>6, <2>7, FlightSteady, Zenon DEF InSchedule
<1>7. ASSUME NEW ext \in 0..max_model_len, StartLoad(ext) PROVE FlightInv'
  <2> DEFINE r == peek_request
  <2>1. /\ InWaitingLoop /\ pop_request /\ r \in Request /\ batch_queue' = batch_queue
        /\ Allocated(r, Updated(req[r], "REMOTE", ext))
        /\ step'.phase = "waiting" /\ step'.preempted = step.preempted
    BY <1>7, Zenon DEF Effects, StartLoadEffect
  <2>2. connector
    BY <1>7, Zenon DEF StartLoad, External
  <2>3. Elems(waiting') = Elems(waiting) \ {r} /\ req[r].status \in Waiting
    BY <2>1, Zenon DEF Facts, PopFact
  <2> HIDE DEF r
  <2>4. \A s \in Request : s # r => req'[s] = req[s]
    BY <2>1, Zenon DEF Allocated
  <2>5. req[r].status \notin Live
    BY <2>3, LiveStatuses, Zenon DEF Waiting, Blocked
  <2>6. ASSUME NEW i \in 1..Len(batch_queue), NEW e \in Elems(batch_queue[i])
        PROVE  Steady(e.id)
    <3>1. e.id \in Request /\ req[e.id].status \in Live
      BY <2>1, <2>2, AllLive, Zenon DEF TInv, Facts, BatchEntryFact
    <3>2. e.id # r
      BY <2>5, <3>1, Zenon
    <3> QED BY <2>4, <3>1, <3>2, Zenon DEF Steady
  <2>7. step.phase = "waiting"
    BY <2>1, Zenon DEF InWaitingLoop
  <2> QED BY <2>1, <2>6, <2>7, FlightKept, Zenon DEF InSchedule
<1>8. ASSUME EndSchedule PROVE FlightInv'
  BY <1>8, FlightEnd, Zenon
<1> QED BY <1>1, <1>2, <1>3, <1>4, <1>5, <1>6, <1>7, <1>8, Zenon DEF Schedule

LEMMA FlightUpdate ==
  ASSUME ListFacts, Facts, Effects, TInv, QueueInv, StepInv, FlightInv, Orderly,
         Update \/ ResetRunning \/ \E r \in Request : LoadDone(r)
  PROVE  FlightInv'
<1>0. waiting \in Seq(Request) /\ skipped_waiting \in Seq(Request) /\ step \in Step
  BY Zenon DEF TInv, StepOK, Facts, QueueTypesFact
<1>1. ASSUME BeginUpdate PROVE FlightInv'
  BY <1>1, FlightBegin, Zenon
<1>2. ASSUME SkipEntry \/ DiscardFrame \/ \E g \in 1..1 + num_spec_tokens : AppendOutput(g)
      PROVE  FlightInv'
  <2>1. /\ InUpdateLoop /\ NextEntry /\ UNCHANGED <<queues, rest>>
        /\ \A r \in Request : req'[r].status = req[r].status
    BY <1>2, Zenon DEF Effects, EntryEffect
  <2>2. /\ step.phase = "update" /\ step'.phase = "update"
        /\ step'.scheduled = Tail(step.scheduled)
        /\ step.scheduled \in Seq(InBatch) /\ step.scheduled # <<>>
    BY <2>1, Zenon DEF Facts, EntryFact
  <2>3. Elems(step.scheduled) = {Head(step.scheduled)} \cup Elems(step'.scheduled)
    BY <2>2 DEF ListFacts, TailElemsFact
  <2>4. batch_queue' = batch_queue /\ waiting' = waiting
    BY <2>1, Zenon DEF queues, rest
  <2>5. \A s \in Request : Steady(s)
    BY <2>1, <2>4, SteadySame, Zenon
  <2> QED BY <2>2, <2>3, <2>4, <2>5, FlightSteady, Zenon DEF InSchedule
<1>3. ASSUME NEW g \in 1..1 + num_spec_tokens, NEW k \in 1..1 + num_spec_tokens,
             StopRequest(g, k)
      PROVE  FlightInv'
  <2> DEFINE r == Entry.id
  <2>0. g \in Int /\ k \in Int
    BY SchedulerAssumption
  <2>1. /\ InUpdateLoop /\ NextEntry /\ r \in Request
        /\ \A s \in Request : s # r => req'[s] = req[s]
        /\ batch_queue' = batch_queue
        /\ \/ req'[r] = Gone /\ waiting' = RemoveStopped(waiting, r)
           \/ r \in Sessions
    BY <1>3, <2>0, Zenon DEF Effects, StopRequestEffect
  <2>2. /\ step.phase = "update" /\ step'.phase = "update"
        /\ step'.scheduled = Tail(step.scheduled)
        /\ step.scheduled \in Seq(InBatch) /\ step.scheduled # <<>>
    BY <2>1, Zenon DEF Facts, EntryFact
  <2>3. /\ Elems(step'.scheduled) \subseteq Elems(step.scheduled)
        /\ \A e \in Elems(step'.scheduled) : e.id # r
    <3>1. Distinct(step.scheduled)
      BY Zenon DEF StepInv
    <3> QED BY <2>2, <3>1, Zenon DEF Entry, Facts, DistinctTailFact
  <2> HIDE DEF r
  <2>4. CASE req'[r] = Gone /\ waiting' = RemoveStopped(waiting, r)
    <3>1. waiting' = waiting \/ Elems(waiting') = Elems(waiting) \ {r}
      BY <1>0, <2>1, <2>4, Zenon DEF RemoveStopped, Facts, RemoveFact
    <3>2. \A s \in Request : Steady(s)
      BY <2>1, <2>4, <3>1, LiveStatuses, ZenonT(30) DEF Steady
    <3> QED BY <2>1, <2>2, <2>3, <3>2, FlightSteady, Zenon DEF InSchedule
  <2>5. CASE r \in Sessions
    <3>1. max_concurrent_batches = 1
      BY <2>5, Zenon DEF Orderly
    <3>2. \A i : i \notin 1..Len(batch_queue)
      BY <2>2, <3>1, NoneInFlight, Zenon
    <3>3. ASSUME NEW e \in Elems(step'.scheduled) PROVE Steady(e.id)
      <4>1. req[e.id].status \in Live /\ e.id # r
        BY <2>2, <2>3, <3>1, Zenon DEF FlightInv
      <4>2. e \in InBatch
        BY <2>2, <2>3, Zenon DEF Facts, ElemsFact
      <4>3. e.id \in Request
        BY <4>2, Zenon DEF InBatch
      <4>4. req'[e.id] = req[e.id]
        BY <2>1, <4>1, <4>3, Zenon
      <4> QED BY <4>1, <4>4, Zenon DEF Steady
    <3> QED BY <2>1, <2>2, <2>3, <3>2, <3>3, FlightKept, Zenon DEF InSchedule
  <2> QED BY <2>1, <2>4, <2>5, Zenon
<1>4. ASSUME NEW r \in Request, ReportLoaded(r) PROVE FlightInv'
  <2>1. /\ UNCHANGED <<queues, step, batch_queue>>
        /\ \A s \in Request : s # r => req'[s] = req[s]
        /\ req' = req \/ req'[r] = Gone
    BY <1>4, Zenon DEF Effects, ReportLoadedEffect
  <2>2. \A s \in Request : Steady(s)
    BY <2>1, LiveStatuses, Zenon DEF Steady, queues
  <2> QED BY <2>1, <2>2, FlightSteady, Zenon
<1>5. ASSUME EndUpdate PROVE FlightInv'
  <2>1. UNCHANGED <<req, waiting, batch_queue>>
    BY <1>5, Zenon DEF queues, rest, Effects, ControlEffect
  <2>2. step.phase = "update" /\ step'.phase = "idle"
    BY <1>5, Zenon DEF EndUpdate, Idle
  <2>3. \A s \in Request : Steady(s)
    BY <2>1, SteadySame, Zenon
  <2> QED BY <2>1, <2>2, <2>3, FlightSteady, Zenon DEF InSchedule
<1>6. ASSUME ResetRunning PROVE FlightInv'
  <2> DEFINE r == running[Len(running)]
  <2>1. /\ r \in Request /\ \A s \in Request : s # r => req'[s] = req[s]
        /\ req'[r].status = "PREEMPTED" /\ waiting' = prepend_request(waiting, r)
        /\ step.phase = "reset"
    BY <1>6, Zenon DEF Effects, ResetRunningEffect
  <2>2. batch_queue' = batch_queue /\ (step' = Idle \/ step' = step)
    BY <1>6, ZenonT(30) DEF ResetRunning, worker
  <2> HIDE DEF r
  <2>3. Elems(waiting') = Elems(waiting) \cup {r}
    BY <1>0, <2>1, Zenon DEF Facts, PrependOneFact
  <2>4. step'.phase \in {"idle", "reset"} /\ MaxResets # 0
    BY <2>1, <2>2 DEF Idle, StepInv
  <2>5. CASE max_concurrent_batches = 1
    BY <2>1, <2>2, <2>4, <2>5, NoneInFlight, FlightKept, ZenonT(30) DEF InSchedule
  <2>6. CASE max_concurrent_batches # 1
    <3>1. \A s \in Request : Steady(s)
      BY <2>1, <2>3, <2>4, <2>6, Zenon DEF Steady
    <3> QED BY <2>1, <2>2, <2>4, <3>1, FlightSteady, Zenon DEF InSchedule
  <2> QED BY <2>5, <2>6, Zenon
<1>7. ASSUME NEW r \in Request, LoadDone(r) PROVE FlightInv'
  <2>1. UNCHANGED <<req, waiting, step, batch_queue>>
    BY <1>7, Zenon DEF LoadDone, queues, worker
  <2>2. \A s \in Request : Steady(s)
    BY <2>1, SteadySame, Zenon
  <2> QED BY <2>1, <2>2, FlightSteady, Zenon
<1>8. CASE Update
  BY <1>1, <1>2, <1>3, <1>4, <1>5, <1>8, Zenon DEF Update
<1> QED BY <1>6, <1>7, <1>8, Zenon

-----------------------------------------------------------------------------
(* Loads under way, and the sessions that wait for input.                   *)
Streams == {r \in Request : req[r].status = "STREAMING"}

LEMMA StreamsFinite ==
  ASSUME ListFacts
  PROVE  IsFiniteSet(Streams) /\ Cardinality(Streams) \in Nat
<1>1. Streams \in SUBSET Request
  BY Zenon DEF Streams
<1>2. IsFiniteSet(Streams)
  BY <1>1, SchedulerAssumption, Zenon DEF ListFacts, SubsetFact
<1> QED BY <1>2, Zenon DEF ListFacts, CardinalityFact

LEMMA StreamingSame ==
  ASSUME StreamingCounted, num_waiting_for_streaming_input' = num_waiting_for_streaming_input,
         \A r \in Request : req'[r].status = "STREAMING" <=> req[r].status = "STREAMING"
  PROVE  StreamingCounted'
<1>1. Streams' = Streams
  BY Zenon DEF Streams
<1> QED BY <1>1, Zenon DEF StreamingCounted, Streams

LEMMA StreamingMoves ==
  ASSUME ListFacts, StreamingCounted, NEW r \in Request,
         \A s \in Request : s # r =>
           (req'[s].status = "STREAMING" <=> req[s].status = "STREAMING"),
         \/ /\ req[r].status = "STREAMING" /\ req'[r].status # "STREAMING"
            /\ num_waiting_for_streaming_input' = num_waiting_for_streaming_input - 1
         \/ /\ req[r].status # "STREAMING" /\ req'[r].status = "STREAMING"
            /\ num_waiting_for_streaming_input' = num_waiting_for_streaming_input + 1
  PROVE  StreamingCounted'
<1>1. IsFiniteSet(Streams) /\ Cardinality(Streams) \in Nat
  BY StreamsFinite, Zenon
<1>2. num_waiting_for_streaming_input = Cardinality(Streams)
  BY Zenon DEF StreamingCounted, Streams
<1>3. CASE /\ req[r].status = "STREAMING" /\ req'[r].status # "STREAMING"
           /\ num_waiting_for_streaming_input' = num_waiting_for_streaming_input - 1
  <2>1. Streams' = Streams \ {r} /\ r \in Streams
    BY <1>3, Zenon DEF Streams
  <2>2. Cardinality(Streams \ {r}) = Cardinality(Streams) - 1
    BY <1>1, <2>1, Zenon DEF ListFacts, RemoveElementFact
  <2>3. num_waiting_for_streaming_input' = Cardinality(Streams')
    BY <1>2, <1>3, <2>1, <2>2, Zenon
  <2> QED BY <2>3, Zenon DEF StreamingCounted, Streams
<1>4. CASE /\ req[r].status # "STREAMING" /\ req'[r].status = "STREAMING"
           /\ num_waiting_for_streaming_input' = num_waiting_for_streaming_input + 1
  <2>1. Streams' = Streams \cup {r} /\ r \notin Streams
    BY <1>4 DEF Streams
  <2>2. Cardinality(Streams \cup {r}) = Cardinality(Streams) + 1
    BY <1>1, <2>1, Zenon DEF ListFacts, AddElementFact
  <2>3. num_waiting_for_streaming_input' = Cardinality(Streams')
    BY <1>2, <1>4, <2>1, <2>2, Zenon
  <2> QED BY <2>3, Zenon DEF StreamingCounted, Streams
<1> QED BY <1>3, <1>4, Zenon

\* A request that is loaded, or aborted while it was, keeps what it has.
KeepsLoad(r) ==
  /\ \/ req'[r].status = req[r].status
     \/ /\ req[r].status = "REMOTE" /\ req'[r].status = "FINISHED"
        /\ r \notin finished_recving'
  /\ req'[r].num_computed_tokens = req[r].num_computed_tokens
  /\ req'[r].blocks = req[r].blocks

LEMMA LoadsKept ==
  ASSUME LoadSets, loading' \cap loaded' = {},
         loading' \cup loaded' \subseteq loading \cup loaded,
         finished_recving' \subseteq finished_recving,
         \A r \in loading' \cup loaded' \cup finished_recving' : KeepsLoad(r)
  PROVE  LoadSets'
BY Zenon DEF LoadSets, LoadsKeepBlocks, KeepsLoad

\* What a step may do to a request that the connector has no part in.
Quiet(r) ==
  \/ /\ req'[r].status = req[r].status
     /\ req'[r].num_computed_tokens = req[r].num_computed_tokens
     /\ req'[r].blocks = req[r].blocks
  \/ /\ req[r].status \notin {"REMOTE", "FINISHED", "STREAMING"}
     /\ req'[r].status \notin {"REMOTE", "FINISHED", "STREAMING"}

LEMMA LoadQuiet ==
  ASSUME TInv, LoadInv, UNCHANGED <<loading, loaded>>,
         finished_recving' \subseteq finished_recving,
         num_waiting_for_streaming_input' = num_waiting_for_streaming_input,
         \A r \in Request : Quiet(r)
  PROVE  LoadInv'
<1>1. loading \cup loaded \cup finished_recving \subseteq Request
  BY Zenon DEF TInv, SetsOK
<1>2. \A r \in loading \cup loaded \cup finished_recving : KeepsLoad(r)
  BY <1>1, Zenon DEF LoadInv, LoadSets, LoadsKeepBlocks, Quiet, KeepsLoad
<1>3. LoadSets'
  BY <1>2, LoadsKept, Zenon DEF LoadInv, LoadSets
<1>4. StreamingCounted'
  BY StreamingSame, Zenon DEF LoadInv, Quiet
<1>5. NoLoads' /\ NoStreams'
  BY Zenon DEF LoadInv, NoLoads, NoStreams, Quiet
<1> QED BY <1>3, <1>4, <1>5, Zenon DEF LoadInv

\* A session begins or ends to wait for input.
LEMMA LoadStreams ==
  ASSUME ListFacts, TInv, LoadInv, UNCHANGED <<loading, loaded>>,
         finished_recving' \subseteq finished_recving, NEW r \in Request,
         \A s \in Request : s # r => req'[s] = req[s],
         \/ /\ req[r].status = "STREAMING"
            /\ req'[r].status \notin {"REMOTE", "FINISHED", "STREAMING"}
            /\ num_waiting_for_streaming_input' = num_waiting_for_streaming_input - 1
         \/ /\ req[r].status \notin {"REMOTE", "FINISHED", "STREAMING"} /\ r \in Sessions
            /\ req'[r].status = "STREAMING"
            /\ num_waiting_for_streaming_input' = num_waiting_for_streaming_input + 1
  PROVE  LoadInv'
<1>1. loading \cup loaded \cup finished_recving \subseteq Request
  BY Zenon DEF TInv, SetsOK
<1>2. \A s \in loading \cup loaded \cup finished_recving : s # r
  BY <1>1, Zenon DEF LoadInv, LoadSets, LoadsKeepBlocks
<1>3. \A s \in loading \cup loaded \cup finished_recving : KeepsLoad(s)
  BY <1>1, <1>2, Zenon DEF KeepsLoad
<1>4. LoadSets'
  BY <1>3, LoadsKept, Zenon DEF LoadInv, LoadSets
<1>5. StreamingCounted'
  BY StreamingMoves, Zenon DEF LoadInv
<1>6. NoLoads' /\ NoStreams'
  BY Zenon DEF LoadInv, NoLoads, NoStreams
<1> QED BY <1>4, <1>5, <1>6, Zenon DEF LoadInv

LEMMA LoadClient ==
  ASSUME ListFacts, Facts, Effects, TInv, LoadInv, Client
  PROVE  LoadInv'
<1>0. ReqOK /\ num_waiting_for_streaming_input \in Int
  BY Zenon DEF TInv, CountsOK
<1>1. ASSUME NEW r \in Request, NEW len \in PromptLens, AddRequest(r, len) PROVE LoadInv'
  <2>1. /\ \A s \in Request : s # r => req'[s] = req[s]
        /\ req'[r] = [req[r] EXCEPT !.status = "WAITING", !.arrival_time = arrivals + 1,
                                    !.num_prompt_tokens = len, !.num_tokens = len]
    BY <1>1, Zenon DEF Effects, AddRequestEffect
  <2>2. /\ req[r].status = "NONE" /\ UNCHANGED <<loading, loaded, finished_recving>>
        /\ num_waiting_for_streaming_input' = num_waiting_for_streaming_input
    BY <1>1, ZenonT(30) DEF AddRequest, loads
  <2>3. req'[r].status = "WAITING"
    BY SMTT(30), <1>0, <2>1 DEF ReqOK, Rec
  <2>4. \A s \in Request : Quiet(s)
    BY <2>1, <2>2, <2>3, Zenon DEF Quiet
  <2> QED BY <2>2, <2>4, LoadQuiet, Zenon
<1>2. ASSUME NEW r \in Request, NEW len \in PromptLens \cup {0}, AddChunk(r, len)
      PROVE  LoadInv'
  <2>1. UNCHANGED <<loading, loaded, finished_recving>>
    BY <1>2, Zenon DEF AddChunk, loads
  <2>2. /\ \A s \in Request : s # r => req'[s] = req[s]
        /\ \/ /\ req'[r].status = req[r].status /\ req'[r].blocks = req[r].blocks
              /\ req'[r].num_computed_tokens = req[r].num_computed_tokens
              /\ num_waiting_for_streaming_input' = num_waiting_for_streaming_input
           \/ /\ req[r].status = "STREAMING"
              /\ num_waiting_for_streaming_input' = NoLongerStreaming(r)
              /\ req'[r].status = "WAITING" \/ req'[r] = Gone
    BY <1>2, Zenon DEF Effects, AddChunkEffect
  <2>3. CASE /\ req'[r].status = req[r].status /\ req'[r].blocks = req[r].blocks
             /\ req'[r].num_computed_tokens = req[r].num_computed_tokens
             /\ num_waiting_for_streaming_input' = num_waiting_for_streaming_input
    <3>1. \A s \in Request : Quiet(s)
      BY <2>2, <2>3, Zenon DEF Quiet
    <3> QED BY <2>1, <2>3, <3>1, LoadQuiet, ZenonT(30)
  <2>4. CASE /\ req[r].status = "STREAMING"
             /\ num_waiting_for_streaming_input' = NoLongerStreaming(r)
             /\ req'[r].status = "WAITING" \/ req'[r] = Gone
    <3>1. /\ num_waiting_for_streaming_input' = num_waiting_for_streaming_input - 1
          /\ req'[r].status \notin {"REMOTE", "FINISHED", "STREAMING"}
      BY <2>4, Zenon DEF NoLongerStreaming, Facts, GoneFact
    <3> QED BY <2>1, <2>2, <2>4, <3>1, LoadStreams, Zenon
  <2> QED BY <2>2, <2>3, <2>4, Zenon
<1>3. ASSUME NEW r \in Request, Abort(r) PROVE LoadInv'
  <2>1. /\ UNCHANGED <<loading, loaded>> /\ finished_recving' = finished_recving \ {r}
        /\ num_waiting_for_streaming_input' = NoLongerStreaming(r)
        /\ req[r].status # "FINISHED"
    BY <1>3, Zenon DEF Abort
  <2>2. /\ \A s \in Request : s # r => req'[s] = req[s]
        /\ \/ /\ req[r].status = "REMOTE" /\ req'[r] = [req[r] EXCEPT !.status = "FINISHED"]
           \/ /\ req'[r] = Gone /\ (req[r].status = "REMOTE" => r \in finished_recving)
    BY <1>3, Zenon DEF Effects, AbortEffect
  <2>3. CASE req[r].status = "REMOTE"
    <3>1. num_waiting_for_streaming_input' = num_waiting_for_streaming_input
      BY <1>0, <2>1, <2>3 DEF NoLongerStreaming
    <3>2. /\ req'[r].status \in {"FINISHED", "GONE"}
          /\ \/ KeepsLoad(r) /\ req'[r].status = "FINISHED"
             \/ r \in finished_recving
      <4>1. CASE req'[r] = [req[r] EXCEPT !.status = "FINISHED"]
        <5>1. /\ req'[r].status = "FINISHED" /\ req'[r].blocks = req[r].blocks
              /\ req'[r].num_computed_tokens = req[r].num_computed_tokens
          BY <1>0, <4>1 DEF ReqOK, Rec
        <5> QED BY <2>1, <2>3, <5>1, Zenon DEF KeepsLoad
      <4>2. CASE req'[r] = Gone /\ (req[r].status = "REMOTE" => r \in finished_recving)
        BY <2>3, <4>2, Zenon DEF Facts, GoneFact
      <4> QED BY <2>2, <4>1, <4>2, ZenonT(30)
    <3>3. \A s \in loading \cup loaded \cup finished_recving' : KeepsLoad(s)
      <4>1. loading \cup loaded \cup finished_recving \subseteq Request
        BY Zenon DEF TInv, SetsOK
      <4>2. r \in finished_recving => r \notin loading \cup loaded
        BY ZenonT(30) DEF LoadInv, LoadSets, LoadsKeepBlocks
      <4> QED BY <2>1, <2>2, <3>2, <4>1, <4>2, Zenon DEF KeepsLoad
    <3>4. LoadSets'
      BY <2>1, <3>3, LoadsKept, Zenon DEF LoadInv, LoadSets
    <3>5. StreamingCounted'
      BY <2>2, <2>3, <3>1, <3>2, StreamingSame, Zenon DEF LoadInv
    <3>6. NoLoads' /\ NoStreams'
      BY <2>2, <2>3, <3>2, Zenon DEF LoadInv, NoLoads, NoStreams
    <3> QED BY <3>4, <3>5, <3>6, Zenon DEF LoadInv
  <2>4. CASE req[r].status # "REMOTE"
    <3>1. req'[r].status = "GONE"
      BY <2>2, <2>4, Zenon DEF Facts, GoneFact
    <3>2. CASE req[r].status = "STREAMING"
      <4>1. num_waiting_for_streaming_input' = num_waiting_for_streaming_input - 1
        BY <2>1, <3>2, Zenon DEF NoLongerStreaming
      <4> QED BY <2>1, <2>2, <3>1, <3>2, <4>1, LoadStreams, ZenonT(30)
    <3>3. CASE req[r].status # "STREAMING"
      <4>1. num_waiting_for_streaming_input' = num_waiting_for_streaming_input
        BY SMTT(30), <1>0, <2>1, <3>3 DEF NoLongerStreaming
      <4>2. \A s \in Request : Quiet(s)
        BY <2>1, <2>2, <2>4, <3>1, <3>3, Zenon DEF Quiet
      <4> QED BY <2>1, <4>1, <4>2, LoadQuiet, Zenon
    <3> QED BY <3>2, <3>3, Zenon
  <2> QED BY <2>3, <2>4, Zenon
<1>4. ASSUME StartReset \/ \E state \in PauseStates \cup {"UNPAUSED"} : set_pause_state(state)
      PROVE  LoadInv'
  <2>1. UNCHANGED <<req, loading, loaded, finished_recving, num_waiting_for_streaming_input>>
    BY <1>4, Zenon DEF rest, loads, Effects, ControlEffect
  <2>2. \A s \in Request : Quiet(s)
    BY <2>1, Zenon DEF Quiet
  <2> QED BY <2>1, <2>2, LoadQuiet, Zenon
<1> QED BY <1>1, <1>2, <1>3, <1>4, Zenon DEF Client

LEMMA LoadStart ==
  ASSUME ListFacts, Facts, Effects,
         TInv, Owned, QueueInv, LoadInv, NEW ext \in 0..max_model_len, StartLoad(ext)
  PROVE  LoadInv'
<1> DEFINE r == peek_request
<1>1. /\ InWaitingLoop /\ pop_request /\ r \in Request /\ req[r].status \notin Blocked
      /\ Allocated(r, Updated(req[r], "REMOTE", ext))
      /\ req[r].blocks \cap free = {} => cdiv(ext, block_size) <= Cardinality(req'[r].blocks)
      /\ loading' = loading \cup {r}
      /\ UNCHANGED <<loaded, finished_recving, num_waiting_for_streaming_input>>
  BY Zenon DEF Effects, StartLoadEffect
<1>2. connector
  BY Zenon DEF StartLoad, External
<1>3. req[r].status \in Waiting
  BY <1>1, Zenon DEF Facts, PopFact
<1> HIDE DEF r
<1>4. req[r].status \notin {"REMOTE", "FINISHED", "STREAMING"}
  BY <1>1, <1>3, ZenonT(30) DEF Waiting, Blocked
<1>5. req[r].blocks \cap free = {}
  BY <1>1, ZenonT(30) DEF Owned
<1>6. /\ Updated(req[r], "REMOTE", ext).status = "REMOTE"
      /\ Updated(req[r], "REMOTE", ext).num_computed_tokens = ext
  <2>1. req[r] \in Rec /\ "REMOTE" \in Statuses /\ ext \in Int
    BY SMTT(30), <1>1, SchedulerAssumption DEF TInv, ReqOK, Statuses, Waiting, Blocked
  <2> QED BY <2>1, ZenonT(30) DEF Facts, UpdatedFact
<1>7. /\ req'[r].status = "REMOTE" /\ req'[r].num_computed_tokens = ext
      /\ \A s \in Request : s # r => req'[s] = req[s]
  BY <1>1, <1>6, Zenon DEF Allocated
<1>8. r \notin loading \cup loaded \cup finished_recving
  BY <1>4, Zenon DEF LoadInv, LoadSets, LoadsKeepBlocks
<1>9. loading \cup loaded \cup finished_recving \subseteq Request
  BY Zenon DEF TInv, SetsOK
<1>10. \A s \in loading \cup loaded \cup finished_recving : req'[s] = req[s]
  BY <1>7, <1>8, <1>9, Zenon
<1>11. LoadsKeepBlocks'
  <2> SUFFICES ASSUME NEW s \in loading' \cup loaded'
               PROVE  /\ req'[s].status \in {"REMOTE", "FINISHED"}
                      /\ s \notin finished_recving'
                      /\ cdiv(req'[s].num_computed_tokens, block_size)
                           <= Cardinality(req'[s].blocks)
    BY Zenon DEF LoadsKeepBlocks
  <2>1. CASE s = r
    BY <1>1, <1>5, <1>7, <1>8, <2>1, Zenon
  <2>2. CASE s # r
    <3>1. s \in loading \cup loaded
      BY <1>1, <2>2, Zenon
    <3> QED BY <1>1, <1>10, <3>1, ZenonT(30) DEF LoadInv, LoadSets, LoadsKeepBlocks
  <2> QED BY <2>1, <2>2, Zenon
<1>12. LoadSets'
  BY <1>1, <1>8, <1>10, <1>11, Zenon DEF LoadInv, LoadSets
<1>13. StreamingCounted'
  BY <1>1, <1>4, <1>7, StreamingSame, ZenonT(30) DEF LoadInv
<1>14. NoLoads' /\ NoStreams'
  BY <1>2, <1>4, <1>7, Zenon DEF LoadInv, NoLoads, NoStreams
<1> QED BY <1>12, <1>13, <1>14, Zenon DEF LoadInv

LEMMA LoadSchedule ==
  ASSUME ListFacts, Facts, Effects,
         TInv, VictimOK, Owned, QueueInv, StepInv, LoadInv, Schedule
  PROVE  LoadInv'
<1>1. ASSUME \/ StartSchedule \/ SkipRunning \/ EndRunning \/ SkipWaiting
             \/ \E ext \in 0..max_model_len : StopWaiting(ext)
      PROVE  LoadInv'
  <2>1. UNCHANGED <<req, rest>>
    BY <1>1, Zenon DEF Effects, ControlEffect, SkipWaitingEffect
  <2>2. UNCHANGED <<loading, loaded, finished_recving, num_waiting_for_streaming_input>>
    BY <2>1, Zenon DEF rest, loads
  <2>3. \A s \in Request : Quiet(s)
    BY <2>1, Zenon DEF Quiet
  <2> QED BY <2>2, <2>3, LoadQuiet, Zenon
<1>2. ASSUME ScheduleRunning PROVE LoadInv'
  <2> DEFINE r == Current
  <2>1. r \in Request /\ r \in Elems(running) /\ Allocated(r, req[r])
    BY <1>2, Zenon DEF Effects, ScheduleRunningEffect
  <2>2. UNCHANGED <<loading, loaded, finished_recving, num_waiting_for_streaming_input>>
    BY <1>2, Zenon DEF ScheduleRunning, loads
  <2> HIDE DEF r
  <2>3. req[r].status = "RUNNING" /\ req'[r].status = "RUNNING"
        /\ \A s \in Request : s # r => req'[s] = req[s]
    BY <2>1, Zenon DEF Allocated, Facts, StatusFact
  <2>4. \A s \in Request : Quiet(s)
    BY <2>3, Zenon DEF Quiet
  <2> QED BY <2>2, <2>4, LoadQuiet, Zenon
<1>3. ASSUME PreemptRunning PROVE LoadInv'
  <2> DEFINE v == Victim
  <2>1. /\ v \in Request /\ v \in Elems(running) /\ req'[v].status = "PREEMPTED"
        /\ \A s \in Request : s # v => req'[s] = req[s]
    BY <1>3, Zenon DEF Effects, PreemptRunningEffect
  <2>2. UNCHANGED <<loading, loaded, finished_recving, num_waiting_for_streaming_input>>
    BY <1>3, Zenon DEF PreemptRunning, loads
  <2> HIDE DEF v
  <2>3. req[v].status = "RUNNING"
    BY <2>1, Zenon DEF Facts, StatusFact
  <2>4. \A s \in Request : Quiet(s)
    BY <2>1, <2>3, Zenon DEF Quiet
  <2> QED BY <2>2, <2>4, LoadQuiet, Zenon
<1>4. ASSUME PromoteLoaded PROVE LoadInv'
  <2> DEFINE r == peek_request
  <2>1. /\ r \in Request /\ r \in finished_recving
        /\ UNCHANGED <<loading, loaded, num_waiting_for_streaming_input>>
        /\ req[r].status = "REMOTE" /\ req'[r].status \in {"WAITING", "PREEMPTED"}
        /\ finished_recving' = finished_recving \ {r}
        /\ \A s \in Request : s # r => req'[s] = req[s]
    BY <1>4, Zenon DEF Effects, PromoteLoadedEffect
  <2> HIDE DEF r
  <2>2. r \notin loading \cup loaded
    BY <2>1, Zenon DEF LoadInv, LoadSets, LoadsKeepBlocks
  <2>3. loading \cup loaded \cup finished_recving \subseteq Request
    BY Zenon DEF TInv, SetsOK
  <2>4. \A s \in loading \cup loaded \cup finished_recving' : KeepsLoad(s)
    BY <2>1, <2>2, <2>3, ZenonT(30) DEF KeepsLoad
  <2>5. LoadSets'
    BY <2>1, <2>4, LoadsKept, Zenon DEF LoadInv, LoadSets
  <2>6. StreamingCounted'
    BY <2>1, StreamingSame, Zenon DEF LoadInv
  <2>7. NoLoads' /\ NoStreams'
    BY <2>1, Zenon DEF LoadInv, NoLoads, NoStreams
  <2> QED BY <2>5, <2>6, <2>7, Zenon DEF LoadInv
<1>5. ASSUME NEW ext \in 0..max_model_len, ScheduleWaiting(ext) PROVE LoadInv'
  <2> DEFINE r == peek_request
  <2>1. /\ InWaitingLoop /\ pop_request /\ r \in Request /\ req[r].status \notin Blocked
        /\ \E c \in Int : Allocated(r, Updated(req[r], "RUNNING", c))
        /\ UNCHANGED <<num_waiting_for_streaming_input, loads>>
    BY <1>5, Zenon DEF Effects, ScheduleWaitingEffect
  <2>2. req[r].status \in Waiting
    BY <2>1, Zenon DEF Facts, PopFact
  <2> HIDE DEF r
  <2>3. PICK c \in Int : Allocated(r, Updated(req[r], "RUNNING", c))
    BY <2>1, Zenon
  <2>4. Updated(req[r], "RUNNING", c).status = "RUNNING"
    <3>1. req[r] \in Rec /\ "RUNNING" \in Statuses
      BY <2>1, Zenon DEF TInv, ReqOK, Statuses
    <3> QED BY <3>1, Zenon DEF Facts, UpdatedFact
  <2>5. req'[r].status = "RUNNING" /\ \A s \in Request : s # r => req'[s] = req[s]
    BY <2>3, <2>4, Zenon DEF Allocated
  <2>6. req[r].status \notin {"REMOTE", "FINISHED", "STREAMING"}
    BY <2>1, <2>2, Zenon DEF Waiting, Blocked
  <2>7. \A s \in Request : Quiet(s)
    BY <2>5, <2>6, Zenon DEF Quiet
  <2>8. UNCHANGED <<loading, loaded, finished_recving>>
    BY <2>1, Zenon DEF loads
  <2> QED BY <2>1, <2>7, <2>8, LoadQuiet, Zenon
<1>6. ASSUME NEW ext \in 0..max_model_len, StartLoad(ext) PROVE LoadInv'
  BY <1>6, LoadStart, Zenon
<1>7. ASSUME EndSchedule PROVE LoadInv'
  <2> DEFINE ids == {e.id : e \in Elems(step.scheduled)}
  <2>1. /\ step.phase \in {"end", "waiting"}
        /\ \A r \in Request : /\ req'[r].status = req[r].status
                              /\ r \notin ids => req'[r] = req[r]
        /\ UNCHANGED <<loads, num_waiting_for_streaming_input>>
    BY <1>7, Zenon DEF Effects, EndScheduleEffect
  <2>2. ASSUME NEW r \in Request, r \in ids PROVE req[r].status = "RUNNING"
    <3>1. r \in Elems(running)
      BY <2>1, <2>2, Zenon DEF StepInv
    <3> QED BY <3>1, Zenon DEF Facts, StatusFact
  <2> HIDE DEF ids
  <2>3. \A s \in Request : Quiet(s)
    BY <2>1, <2>2, Zenon DEF Quiet
  <2>4. UNCHANGED <<loading, loaded, finished_recving>>
    BY <2>1, Zenon DEF loads
  <2> QED BY <2>1, <2>3, <2>4, LoadQuiet, Zenon
<1> QED BY <1>1, <1>2, <1>3, <1>4, <1>5, <1>6, <1>7, Zenon DEF Schedule

LEMMA LoadUpdate ==
  ASSUME ListFacts, Facts, Effects, TInv, QueueInv, FlightInv, LoadInv,
         Update \/ ResetRunning \/ \E r \in Request : LoadDone(r)
  PROVE  LoadInv'
<1>1. ASSUME BeginUpdate \/ EndUpdate PROVE LoadInv'
  <2>1. UNCHANGED <<req, loads, num_waiting_for_streaming_input>>
    BY <1>1, Zenon DEF rest, Effects, ControlEffect, BeginUpdateEffect
  <2>2. UNCHANGED <<loading, loaded, finished_recving>>
    BY <2>1, Zenon DEF loads
  <2>3. \A s \in Request : Quiet(s)
    BY <2>1, Zenon DEF Quiet
  <2> QED BY <2>1, <2>2, <2>3, LoadQuiet, Zenon
<1>2. ASSUME SkipEntry \/ DiscardFrame \/ \E g \in 1..1 + num_spec_tokens : AppendOutput(g)
      PROVE  LoadInv'
  <2>1. /\ InUpdateLoop /\ UNCHANGED rest
        /\ \A r \in Request :
             /\ req'[r].status = req[r].status
             /\ r # Entry.id \/ req[r].status \in Finished => req'[r] = req[r]
    BY <1>2, Zenon DEF Effects, EntryEffect
  <2>2. req[Entry.id].status \in Live \cup {"PREEMPTED"}
    BY <2>1, Zenon DEF InFlightOK, Facts, EntryElemFact
  <2>3. \A s \in Request : Quiet(s)
    BY <2>1, <2>2, ZenonT(30) DEF Quiet, Live
  <2>4. UNCHANGED <<loading, loaded, finished_recving, num_waiting_for_streaming_input>>
    BY <2>1, Zenon DEF rest, loads
  <2> QED BY <2>3, <2>4, LoadQuiet, Zenon
<1>3. ASSUME NEW g \in 1..1 + num_spec_tokens, NEW k \in 1..1 + num_spec_tokens,
             StopRequest(g, k)
      PROVE  LoadInv'
  <2> DEFINE r == Entry.id
  <2>0. g \in Int /\ k \in Int
    BY SMTT(30), SchedulerAssumption
  <2>1. /\ InUpdateLoop /\ r \in Request /\ req[r].status \notin Finished
        /\ \A s \in Request : s # r => req'[s] = req[s]
        /\ UNCHANGED loads
        /\ \/ /\ req'[r] = Gone \/ req'[r].status = "WAITING"
              /\ num_waiting_for_streaming_input' = num_waiting_for_streaming_input
           \/ /\ r \in Sessions /\ req'[r].status = "STREAMING"
              /\ num_waiting_for_streaming_input' = num_waiting_for_streaming_input + 1
    BY <1>3, <2>0, Zenon DEF Effects, StopRequestEffect
  <2>2. req[r].status \in Live \cup {"PREEMPTED"}
    BY <2>1, Zenon DEF InFlightOK, Facts, EntryElemFact
  <2> HIDE DEF r
  <2>3. req[r].status \notin {"REMOTE", "FINISHED", "STREAMING"}
    BY <2>1, <2>2, Zenon DEF Live, Finished
  <2>4. UNCHANGED <<loading, loaded, finished_recving>>
    BY <2>1, Zenon DEF loads
  <2>5. CASE /\ req'[r] = Gone \/ req'[r].status = "WAITING"
             /\ num_waiting_for_streaming_input' = num_waiting_for_streaming_input
    <3>1. req'[r].status \notin {"REMOTE", "FINISHED", "STREAMING"}
      BY <2>5, ZenonT(30) DEF Facts, GoneFact
    <3>2. \A s \in Request : Quiet(s)
      BY <2>1, <2>3, <3>1, Zenon DEF Quiet
    <3> QED BY <2>4, <2>5, <3>2, LoadQuiet, Zenon
  <2>6. CASE /\ r \in Sessions /\ req'[r].status = "STREAMING"
             /\ num_waiting_for_streaming_input' = num_waiting_for_streaming_input + 1
    BY <2>1, <2>3, <2>4, <2>6, LoadStreams, Zenon
  <2> QED BY <2>1, <2>5, <2>6, Zenon
<1>4. ASSUME NEW r \in Request, ReportLoaded(r) PROVE LoadInv'
  <2>1. /\ r \in loaded /\ loaded' = loaded \ {r} /\ loading' = loading
        /\ num_waiting_for_streaming_input' = num_waiting_for_streaming_input
        /\ \A s \in Request : s # r => req'[s] = req[s]
        /\ \/ /\ req[r].status = "REMOTE" /\ req' = req
              /\ finished_recving' = finished_recving \cup {r}
           \/ /\ req[r].status # "REMOTE" /\ req'[r] = Gone
              /\ finished_recving' = finished_recving
    BY <1>4, Zenon DEF Effects, ReportLoadedEffect
  <2>2. req[r].status \in {"REMOTE", "FINISHED"} /\ r \notin loading /\ r \notin finished_recving
    BY <2>1, Zenon DEF LoadInv, LoadSets, LoadsKeepBlocks
  <2>3. loading \cup loaded \cup finished_recving \subseteq Request
    BY Zenon DEF TInv, SetsOK
  <2>4. \A s \in loading' \cup loaded' \cup finished_recving : s # r /\ req'[s] = req[s]
    BY <2>1, <2>2, <2>3, Zenon
  <2>5. LoadSets'
    BY <2>1, <2>4, ZenonT(30) DEF LoadInv, LoadSets, LoadsKeepBlocks
  <2>6. req'[r].status = req[r].status \/ req'[r].status = "GONE"
    BY <2>1, Zenon DEF Facts, GoneFact
  <2>7. StreamingCounted'
    BY <2>1, <2>2, <2>6, StreamingSame, Zenon DEF LoadInv
  <2>8. NoLoads' /\ NoStreams'
    BY <2>1, <2>6, Zenon DEF LoadInv, NoLoads, NoStreams
  <2> QED BY <2>5, <2>7, <2>8, Zenon DEF LoadInv
<1>5. ASSUME ResetRunning PROVE LoadInv'
  <2> DEFINE r == running[Len(running)]
  <2>1. /\ r \in Request /\ r \in Elems(running) /\ req'[r].status = "PREEMPTED"
        /\ \A s \in Request : s # r => req'[s] = req[s]
    BY <1>5, Zenon DEF Effects, ResetRunningEffect
  <2>2. UNCHANGED <<loading, loaded, finished_recving, num_waiting_for_streaming_input>>
    BY <1>5, Zenon DEF ResetRunning, loads
  <2> HIDE DEF r
  <2>3. req[r].status = "RUNNING"
    BY <2>1, Zenon DEF Facts, StatusFact
  <2>4. \A s \in Request : Quiet(s)
    BY <2>1, <2>3, Zenon DEF Quiet
  <2> QED BY <2>2, <2>4, LoadQuiet, Zenon
<1>6. ASSUME NEW r \in Request, LoadDone(r) PROVE LoadInv'
  <2>1. /\ UNCHANGED <<req, finished_recving, num_waiting_for_streaming_input>>
        /\ r \in loading /\ loading' = loading \ {r} /\ loaded' = loaded \cup {r}
    BY <1>6, Zenon DEF LoadDone
  <2>2. loading' \cap loaded' = {} /\ loading' \cup loaded' = loading \cup loaded
    BY <2>1, Zenon DEF LoadInv, LoadSets
  <2>3. \A s \in loading \cup loaded \cup finished_recving : KeepsLoad(s)
    BY <2>1, ZenonT(30) DEF KeepsLoad
  <2>4. LoadSets'
    BY <2>1, <2>2, <2>3, LoadsKept, Zenon DEF LoadInv
  <2>5. StreamingCounted' /\ NoLoads' /\ NoStreams'
    BY <2>1, StreamingSame, Zenon DEF LoadInv, NoLoads, NoStreams
  <2> QED BY <2>4, <2>5, Zenon DEF LoadInv
<1>7. CASE Update
  BY <1>1, <1>2, <1>3, <1>4, <1>7, Zenon DEF Update
<1> QED BY <1>5, <1>6, <1>7, Zenon

-----------------------------------------------------------------------------
(* Without sessions: arrival times, and the slots of the model runner.      *)
SlotNames == {"No free indices", "no worker slot"}
SlotsFound == \A x \in SlotNames : x \in failed' => x \in failed
SameArrival(r) ==
  req'[r].status \notin {"NONE", "GONE"} =>
    /\ req[r].status \notin {"NONE", "GONE"}
    /\ req'[r].arrival_time = req[r].arrival_time

LEMMA ArrivedSame ==
  ASSUME Arrived, arrivals' = arrivals, \A r \in Request : SameArrival(r)
  PROVE  Arrived'
BY ZenonT(30) DEF Arrived, Known, SameArrival

LEMMA SlotKept ==
  ASSUME NEW r, Slot(r), occupied' = occupied, req'[r].status = req[r].status,
         r \in finished_req_ids' <=> r \in finished_req_ids,
         r \in reset_preempted_req_ids' <=> r \in reset_preempted_req_ids,
         r \in step'.new <=> r \in step.new
  PROVE  Slot(r)'
BY Zenon DEF Slot, Held

\* One request changes, or none.
LEMMA SessionMove ==
  ASSUME Sessions = {}, NoSessionInv, NEW r \in Request,
         arrivals' = arrivals, occupied' = occupied, SlotsFound,
         \A s \in Request : s # r => req'[s] = req[s],
         SameArrival(r), Slot(r)',
         finished_req_ids' \ {r} = finished_req_ids \ {r},
         reset_preempted_req_ids' \ {r} = reset_preempted_req_ids \ {r},
         step'.new \ {r} = step.new \ {r},
         Len(running') <= max_num_running_reqs
  PROVE  NoSessionInv'
<1>1. Arrived'
  BY ArrivedSame, Zenon DEF NoSessionInv, SameArrival
<1>2. ASSUME NEW s \in Request, s # r PROVE Slot(s)'
  <2>1. /\ Slot(s) /\ req'[s].status = req[s].status
        /\ s \in finished_req_ids' <=> s \in finished_req_ids
        /\ s \in reset_preempted_req_ids' <=> s \in reset_preempted_req_ids
        /\ s \in step'.new <=> s \in step.new
    BY <1>2, Zenon DEF NoSessionInv
  <2> QED BY <2>1, SlotKept, Zenon
<1>3. \A s \in Request : Slot(s)'
  BY <1>2, Zenon
<1>4. "No free indices" \notin failed' /\ "no worker slot" \notin failed'
  BY Zenon DEF NoSessionInv, SlotsFound, SlotNames
<1> QED BY <1>1, <1>3, <1>4, Zenon DEF NoSessionInv

LEMMA SessionSame ==
  ASSUME Sessions = {}, NoSessionInv, arrivals' = arrivals, occupied' = occupied, SlotsFound,
         \A s \in Request : /\ req'[s].status = req[s].status
                            /\ req'[s].arrival_time = req[s].arrival_time,
         UNCHANGED <<finished_req_ids, reset_preempted_req_ids>>,
         step'.new = step.new, running' = running
  PROVE  NoSessionInv'
<1>1. Arrived'
  BY ArrivedSame, Zenon DEF NoSessionInv, SameArrival
<1>2. \A s \in Request : Slot(s)'
  BY SlotKept, Zenon DEF NoSessionInv
<1>3. "No free indices" \notin failed' /\ "no worker slot" \notin failed'
  BY Zenon DEF NoSessionInv, SlotsFound, SlotNames
<1>4. Len(running') <= max_num_running_reqs
  BY Zenon DEF NoSessionInv
<1> QED BY <1>1, <1>2, <1>3, <1>4, Zenon DEF NoSessionInv

\* A request that finishes, one that is preempted, and one that still waits.
LEMMA SlotFinished ==
  ASSUME NEW r, r \in finished_req_ids', req'[r].status \in Finished
  PROVE  Slot(r)'
<1>1. "RUNNING" \notin Finished
  BY Zenon DEF Finished
<1> QED BY <1>1, Zenon DEF Slot, Held

LEMMA SlotPreempted ==
  ASSUME NEW r, Slot(r), req[r].status = "RUNNING", req'[r].status = "PREEMPTED",
         finished_req_ids' = finished_req_ids,
         reset_preempted_req_ids' = reset_preempted_req_ids \cup {r}
  PROVE  Slot(r)'
<1>1. "RUNNING" \notin Finished /\ "PREEMPTED" # "RUNNING"
  BY Zenon DEF Finished
<1>2. r \notin finished_req_ids /\ r \in reset_preempted_req_ids'
  BY <1>1, Zenon DEF Slot
<1> QED BY <1>1, <1>2, Zenon DEF Slot, Held

LEMMA SlotWaits ==
  ASSUME NEW r, Slot(r), req[r].status # "RUNNING", req'[r].status # "RUNNING",
         UNCHANGED <<finished_req_ids, reset_preempted_req_ids, occupied>>,
         req[r].status \in Finished => req'[r].status \in Finished
  PROVE  Slot(r)'
BY Zenon DEF Slot, Held

LEMMA AssertedNames ==
  ASSUME NEW holds, NEW name, name \notin SlotNames, failed' = Asserted(holds, name)
  PROVE  SlotsFound
BY Zenon DEF Asserted, SlotsFound

LEMMA ShorterRunning ==
  ASSUME ListFacts,
         running \in Seq(Request), NEW r \in Request, running' = remove_all(running, {r}),
         Len(running) <= max_num_running_reqs
  PROVE  Len(running') <= max_num_running_reqs
<1> DEFINE S == Request \ {r}
           z == Keep(running, S)
           I == Places(running, S)
<1>1. z \in Seq(Request) /\ Len(z) = Cardinality(I)
  <2> HIDE DEF S
  <2> QED BY Zenon DEF ListFacts, KeepElemsFact
<1>2. Len(running) \in Nat /\ max_num_running_reqs \in Nat
  BY SchedulerAssumption, ZenonT(30) DEF ListFacts, LenFact
<1>3. IsFiniteSet(1..Len(running)) /\ Cardinality(1..Len(running)) = Len(running)
  <2> DEFINE n == Len(running)
  <2>1. n \in Nat
    BY <1>2, Zenon
  <2> HIDE DEF n
  <2>2. IsFiniteSet(1..n) /\ Cardinality(1..n) = n
    BY SMTT(30), <2>1 DEF ListFacts, IntervalFact
  <2> QED BY <2>2, Zenon DEF n
<1>4. I \in SUBSET (1..Len(running))
  BY Zenon DEF Places
<1> HIDE DEF I, z
<1>5. Cardinality(I) <= Len(running) /\ Cardinality(I) \in Nat
  BY ZenonT(30), <1>3, <1>4 DEF ListFacts, SubsetFact, CardinalityFact
<1>6. running' = z
  BY Zenon DEF remove_all, z
<1>7. Len(running') = Cardinality(I)
  BY <1>1, <1>6, Zenon
<1> QED BY SMTT(30), <1>2, <1>5, <1>7

LEMMA SessionClient ==
  ASSUME ListFacts, Facts, Effects, Sessions = {}, TInv, QueueInv, NoSessionInv, Client
  PROVE  NoSessionInv'
<1>0. /\ ReqOK /\ running \in Seq(Request) /\ Len(running) <= max_num_running_reqs
      /\ arrivals \in Nat
  BY Zenon DEF TInv, QueuesOK, CountsOK, NoSessionInv
<1>1. ASSUME NEW r \in Request, NEW len \in PromptLens, AddRequest(r, len)
      PROVE  NoSessionInv'
  <2>1. /\ \A s \in Request : s # r => req'[s] = req[s]
        /\ req'[r] = [req[r] EXCEPT !.status = "WAITING", !.arrival_time = arrivals + 1,
                                    !.num_prompt_tokens = len, !.num_tokens = len]
    BY <1>1, Zenon DEF Effects, AddRequestEffect
  <2>2. /\ req[r].status = "NONE" /\ arrivals' = arrivals + 1
        /\ UNCHANGED <<running, finished_req_ids, reset_preempted_req_ids, step, occupied, failed>>
    BY <1>1, Zenon DEF AddRequest, reports, worker
  <2>3. req'[r].status = "WAITING" /\ req'[r].arrival_time = arrivals + 1
    BY <1>0, <2>1 DEF ReqOK, Rec
  <2>4. Arrived'
    <3>1. \A s \in Request : s # r /\ Known(s)' =>
            /\ req'[s].arrival_time = req[s].arrival_time
            /\ Known(s) /\ req[s].arrival_time <= arrivals /\ req[s].arrival_time \in Nat
      BY <1>0, <2>1, Zenon DEF Known, NoSessionInv, Arrived, ReqOK, Rec
    <3>2. \A s \in Request : Known(s)' => req'[s].arrival_time <= arrivals'
      BY SMTT(30), <1>0, <2>2, <2>3, <3>1
    <3>3. ASSUME NEW s \in Request, NEW u \in Request, Known(s)', Known(u)', s # u
          PROVE  req'[s].arrival_time # req'[u].arrival_time
      <4>1. CASE s = r
        BY SMTT(30), <1>0, <2>3, <3>1, <3>3, <4>1
      <4>2. CASE u = r
        BY SMTT(30), <1>0, <2>3, <3>1, <3>3, <4>2
      <4>3. CASE s # r /\ u # r
        BY <3>1, <3>3, <4>3, Zenon DEF NoSessionInv, Arrived
      <4> QED BY <4>1, <4>2, <4>3, ZenonT(30)
    <3> QED BY <3>2, <3>3, Zenon DEF Arrived
  <2>5. \A s \in Request : Slot(s)'
    <3>1. Slot(r)'
      BY <2>2, <2>3, SlotWaits, Zenon DEF NoSessionInv, Finished
    <3>2. \A s \in Request : s # r => Slot(s)'
      BY <2>1, <2>2, SlotKept, Zenon DEF NoSessionInv
    <3> QED BY <3>1, <3>2, ZenonT(30)
  <2> QED BY <1>0, <2>2, <2>4, <2>5, Zenon DEF NoSessionInv
<1>2. ASSUME NEW r \in Request, NEW len \in PromptLens \cup {0}, AddChunk(r, len)
      PROVE  FALSE
  BY <1>2, ZenonT(30) DEF AddChunk
<1>3. ASSUME NEW r \in Request, Abort(r) PROVE NoSessionInv'
  <2>1. /\ UNCHANGED <<arrivals, occupied, reset_preempted_req_ids, step, failed>>
        /\ running' = running \/ running' = remove_all(running, {r})
        /\ req[r].status \notin {"NONE", "GONE"}
    BY <1>3, Zenon DEF Abort, outside, worker, requests
  <2>2. /\ \A s \in Request : s # r => req'[s] = req[s]
        /\ req'[r] = [req[r] EXCEPT !.status = "FINISHED"] \/ req'[r] = Gone
        /\ finished_req_ids' = finished_req_ids \cup {r}
    BY <1>3, Zenon DEF Effects, AbortEffect
  <2>3. req'[r].status \in Finished /\ SameArrival(r)
    <3>1. CASE req'[r] = Gone
      BY <3>1, Zenon DEF Finished, SameArrival, Facts, GoneFact
    <3>2. CASE req'[r] = [req[r] EXCEPT !.status = "FINISHED"]
      <4>1. req'[r].status = "FINISHED" /\ req'[r].arrival_time = req[r].arrival_time
        BY SMTT(30), <1>0, <3>2 DEF ReqOK, Rec
      <4> QED BY <2>1, <4>1, ZenonT(30) DEF Finished, SameArrival
    <3> QED BY <2>2, <3>1, <3>2, Zenon
  <2>4. Slot(r)'
    BY <2>2, <2>3, SlotFinished, Zenon
  <2>5. Len(running') <= max_num_running_reqs
    BY <1>0, <2>1, ShorterRunning, Zenon
  <2>6. SlotsFound
    BY <2>1, Zenon DEF SlotsFound
  <2> QED BY <2>1, <2>2, <2>3, <2>4, <2>5, <2>6, SessionMove, Zenon
<1>4. ASSUME StartReset \/ \E state \in PauseStates \cup {"UNPAUSED"} : set_pause_state(state)
      PROVE  NoSessionInv'
  <2>1. UNCHANGED <<req, running, finished_req_ids, reset_preempted_req_ids, arrivals, failed,
                    occupied>>
    BY <1>4, Zenon DEF queues, rest, reports, Effects, ControlEffect
  <2>2. step'.new = step.new
    BY <1>4, Zenon DEF StartReset, set_pause_state, TInv, StepOK, Step
  <2>3. SlotsFound
    BY <2>1, Zenon DEF SlotsFound
  <2> QED BY <2>1, <2>2, <2>3, SessionSame, Zenon
<1> QED BY <1>1, <1>2, <1>3, <1>4, Zenon DEF Client

\* The model runner finds the slots of the requests it knows, and free ones for
\* the new requests.
LEMMA SessionEnd ==
  ASSUME ListFacts, Facts, Effects,
         Sessions = {}, TInv, QueueInv, StepInv, NoSessionInv, EndSchedule
  PROVE  NoSessionInv'
<1> DEFINE ids == {e.id : e \in Elems(step.scheduled)}
           big == Held \cup step.new
<1>1. /\ step.phase \in {"end", "waiting"}
      /\ \A r \in Request : /\ req'[r].status = req[r].status
                            /\ req'[r].arrival_time = req[r].arrival_time
      /\ finished_req_ids' = {} /\ reset_preempted_req_ids' = {}
      /\ occupied' = add_requests /\ UNCHANGED <<running, arrivals>>
      /\ step' = [Idle EXCEPT !.phase = step'.phase]
  BY Zenon DEF Effects, EndScheduleEffect
<1>2. occupied' = big /\ Held' = big /\ step'.new = {}
  BY <1>1, Zenon DEF add_requests, finish_requests, Held, Idle
<1>3. /\ running \in Seq(Request) /\ Injective(running) /\ Elems(running) \subseteq Request
      /\ Held \subseteq Request /\ step.new \subseteq Request
  BY Zenon DEF QueueInv, TInv, SetsOK, Held, StepOK, Step, Facts, QueueTypesFact
<1>4. \A r \in Request : r \in big <=> req[r].status = "RUNNING"
  <2>1. \A r \in step.new : req[r].status = "RUNNING"
    BY <1>3, Zenon DEF StepInv, Facts, StatusFact
  <2> QED BY <2>1, Zenon DEF NoSessionInv, Slot
<1>5. big \subseteq Elems(running)
  BY <1>3, <1>4, Zenon DEF Facts, StatusFact
<1>6. ids \ step.new \subseteq Held
  <2>1. \A r \in ids : r \in Elems(running)
    BY <1>1, ZenonT(30) DEF StepInv
  <2>2. \A r \in ids : r \in Request /\ req[r].status = "RUNNING"
    BY <1>3, <2>1, Zenon DEF Facts, StatusFact
  <2> HIDE DEF ids
  <2> QED BY <2>2, Zenon DEF NoSessionInv, Slot
<1>7. Cardinality(big) <= max_num_running_reqs
  <2>1. IsFiniteSet(Elems(running)) /\ Cardinality(Elems(running)) = Len(running)
    BY <1>3, ZenonT(30) DEF ListFacts, InjectiveLenFact
  <2>2. Cardinality(big) <= Len(running) /\ IsFiniteSet(big)
    BY <1>5, <2>1, Zenon DEF ListFacts, SubsetFact
  <2>3. Cardinality(big) \in Nat /\ Len(running) \in Nat /\ max_num_running_reqs \in Nat
        /\ Len(running) <= max_num_running_reqs
    BY <1>3, <2>2, SchedulerAssumption, Zenon DEF NoSessionInv, ListFacts, CardinalityFact,
        LenFact
  <2> QED BY <2>2, <2>3
<1>8. /\ finish_requests = Held /\ add_requests = big
  BY Zenon DEF finish_requests, add_requests, Held
<1>9. \A x \in SlotNames : x \in failed' => x \in failed
  <2> DEFINE fits == step.token_budget >= 0 /\ Len(running) <= max_num_running_reqs
                       /\ Len(step.scheduled) <= Len(running)
             checks == {<<fits, "constraints">>,
                        <<ids \ step.new \subseteq finish_requests, "no worker slot">>,
                        <<Cardinality(add_requests) <= max_num_running_reqs,
                          "No free indices">>}
  <2>1. failed' = failed \cup {c[2] : c \in {c \in checks : ~c[1]}}
    BY Zenon DEF EndSchedule
  <2>2. ids \ step.new \subseteq finish_requests
    BY <1>6, <1>8, Zenon
  <2>3. Cardinality(add_requests) <= max_num_running_reqs
    BY <1>7, <1>8, Zenon
  <2> HIDE DEF fits, ids
  <2>4. ASSUME NEW c \in checks, ~c[1] PROVE c[2] = "constraints"
    <3> DEFINE found == ids \ step.new \subseteq finish_requests
               room  == Cardinality(add_requests) <= max_num_running_reqs
    <3>1. found = TRUE /\ room = TRUE
      BY <2>2, <2>3, Zenon
    <3>2. \/ c = <<fits, "constraints">> \/ c = <<found, "no worker slot">>
          \/ c = <<room, "No free indices">>
      BY Zenon
    <3> HIDE DEF found, room
    <3>3. \A p, n : <<p, n>>[1] = p /\ <<p, n>>[2] = n
      BY Zenon
    <3>4. CASE c = <<found, "no worker slot">>
      <4>1. c[1] = found
        BY <3>3, <3>4, Zenon
      <4> QED BY <2>4, <3>1, <4>1, Zenon
    <3>5. CASE c = <<room, "No free indices">>
      <4>1. c[1] = room
        BY <3>3, <3>5, Zenon
      <4> QED BY <2>4, <3>1, <4>1, Zenon
    <3>6. CASE c = <<fits, "constraints">>
      BY <3>3, <3>6, Zenon
    <3> QED BY <3>2, <3>4, <3>5, <3>6, Zenon
  <2> HIDE DEF checks
  <2> QED BY <2>1, <2>4, Zenon DEF SlotNames
<1> HIDE DEF big
<1>10. Arrived'
  BY <1>1, ArrivedSame, Zenon DEF NoSessionInv, SameArrival
<1>11. \A r \in Request : Slot(r)'
  BY <1>1, <1>2, <1>4, ZenonT(30) DEF Slot
<1>12. /\ "No free indices" \notin failed' /\ "no worker slot" \notin failed'
       /\ Len(running') <= max_num_running_reqs
  BY <1>1, <1>9, Zenon DEF NoSessionInv, SlotNames
<1> QED BY <1>10, <1>11, <1>12, Zenon DEF NoSessionInv

LEMMA SessionSchedule ==
  ASSUME ListFacts, Facts, Effects,
         Sessions = {}, TInv, VictimOK, QueueInv, StepInv, LoadInv, NoSessionInv, Schedule
  PROVE  NoSessionInv'
<1>0. /\ step \in Step /\ running \in Seq(Request) /\ Len(running) <= max_num_running_reqs
      /\ \A r \in Request : Slot(r)
  BY Zenon DEF TInv, StepOK, QueuesOK, NoSessionInv
<1>1. ASSUME \/ StartSchedule \/ SkipRunning \/ EndRunning
             \/ \E ext \in 0..max_model_len : StopWaiting(ext)
      PROVE  NoSessionInv'
  <2>1. UNCHANGED <<req, running, finished_req_ids, reset_preempted_req_ids, arrivals, failed,
                    occupied>>
    BY <1>1, Zenon DEF queues, rest, reports, Effects, ControlEffect
  <2>2. step'.new = step.new
    <3>1. CASE StartSchedule
      <4>1. step.phase = "idle" /\ step'.new = {}
        BY <3>1, Zenon DEF StartSchedule, Idle
      <4> QED BY <4>1, Zenon DEF StepInv
    <3>2. CASE SkipRunning \/ EndRunning \/ \E ext \in 0..max_model_len : StopWaiting(ext)
      BY <1>0, <3>2, ZenonT(30) DEF SkipRunning, EndRunning, StopWaiting, Step
    <3> QED BY <1>1, <3>1, <3>2, Zenon
  <2>3. SlotsFound
    BY <2>1, Zenon DEF SlotsFound
  <2> QED BY <2>1, <2>2, <2>3, SessionSame, Zenon
<1>2. ASSUME ScheduleRunning PROVE NoSessionInv'
  <2>1. Current \in Request /\ Allocated(Current, req[Current]) /\ step'.new = step.new
    BY <1>2, Zenon DEF Effects, ScheduleRunningEffect
  <2>2. UNCHANGED <<running, finished_req_ids, reset_preempted_req_ids, arrivals, failed,
                    occupied>>
    BY <1>2, Zenon DEF ScheduleRunning, queues, reports, outside, worker
  <2>3. \A s \in Request : /\ req'[s].status = req[s].status
                           /\ req'[s].arrival_time = req[s].arrival_time
    BY <2>1, Zenon DEF Allocated
  <2>4. SlotsFound
    BY <2>2, ZenonT(30) DEF SlotsFound
  <2> QED BY <2>1, <2>2, <2>3, <2>4, SessionSame, Zenon
<1>3. ASSUME PreemptRunning PROVE NoSessionInv'
  <2>0. PICK v \in Request : v = Victim
    BY <1>3, Zenon DEF Effects, PreemptRunningEffect
  <2>1. /\ v \in Elems(running) /\ req'[v].status = "PREEMPTED"
        /\ \A s \in Request : s # v => req'[s] = req[s]
        /\ req'[v].arrival_time = req[v].arrival_time
        /\ reset_preempted_req_ids' = reset_preempted_req_ids \cup {v}
        /\ step'.new = step.new
    BY <1>3, <2>0, Zenon DEF Effects, PreemptRunningEffect
  <2>2. /\ UNCHANGED <<finished_req_ids, arrivals, failed, occupied>>
        /\ running' = remove_all(running, {v})
    BY <1>3, <2>0, Zenon DEF PreemptRunning, outside, worker
  <2>3. req[v].status = "RUNNING"
    BY <2>1, Zenon DEF Facts, StatusFact
  <2>4. Slot(v)'
    BY <1>0, <2>1, <2>2, <2>3, SlotPreempted, ZenonT(30)
  <2>5. SameArrival(v) /\ SlotsFound
    BY <2>1, <2>2, <2>3, Zenon DEF SameArrival, SlotsFound
  <2>6. Len(running') <= max_num_running_reqs
    BY <1>0, <2>1, <2>2, ShorterRunning, Zenon
  <2> QED BY <2>1, <2>2, <2>4, <2>5, <2>6, SessionMove, Zenon
<1>4. ASSUME SkipWaiting PROVE NoSessionInv'
  <2>1. UNCHANGED <<req, running, rest, arrivals>> /\ step'.new = step.new
    BY <1>4, Zenon DEF Effects, SkipWaitingEffect
  <2>2. UNCHANGED <<finished_req_ids, reset_preempted_req_ids, occupied>>
    BY <2>1, Zenon DEF rest, reports
  <2>3. SlotsFound
    <3>1. "streaming_queue" \notin SlotNames
      BY Zenon DEF SlotNames
    <3> QED BY <1>4, <3>1, AssertedNames, ZenonT(30) DEF SkipWaiting
  <2> QED BY <2>1, <2>2, <2>3, SessionSame, Zenon
<1>5. ASSUME PromoteLoaded PROVE NoSessionInv'
  <2>0. PICK r \in Request : r = peek_request
    BY <1>5, ZenonT(30) DEF Effects, PromoteLoadedEffect
  <2>1. /\ r \in Request /\ UNCHANGED <<queues, reports, step, occupied, arrivals>>
        /\ req[r].status = "REMOTE" /\ req'[r].status \in {"WAITING", "PREEMPTED"}
        /\ req'[r].arrival_time = req[r].arrival_time
        /\ \A s \in Request : s # r => req'[s] = req[s]
    BY <1>5, <2>0, Zenon DEF Effects, PromoteLoadedEffect
  <2>2. UNCHANGED <<running, finished_req_ids, reset_preempted_req_ids, failed>>
    BY <1>5, <2>1, Zenon DEF PromoteLoaded, queues, reports
  <2>3. Slot(r)'
    BY <1>0, <2>1, <2>2, SlotWaits, ZenonT(30) DEF Finished
  <2>4. SameArrival(r) /\ SlotsFound
    BY <2>1, <2>2, Zenon DEF SameArrival, SlotsFound
  <2> QED BY <1>0, <2>1, <2>2, <2>3, <2>4, SessionMove, Zenon
<1>6. ASSUME NEW ext \in 0..max_model_len, ScheduleWaiting(ext) PROVE NoSessionInv'
  <2>0. PICK r \in Request : r = peek_request
    BY <1>6, Zenon DEF Effects, ScheduleWaitingEffect
  <2>1. /\ InWaitingLoop /\ pop_request /\ r \in Request
        /\ \E c \in Int : Allocated(r, Updated(req[r], "RUNNING", c))
        /\ running' = Append(running, r)
        /\ UNCHANGED <<reports, arrivals, occupied>>
        /\ step'.new = step.new \cup {r}
    BY <1>6, <2>0, Zenon DEF Effects, ScheduleWaitingEffect
  <2>2. req[r].status \in Waiting
    BY <2>0, <2>1, Zenon DEF Facts, PopFact
  <2>3. SlotsFound
    <3>1. "num_new_tokens" \notin SlotNames
      BY Zenon DEF SlotNames
    <3> QED BY <1>6, <3>1, AssertedNames, ZenonT(30) DEF ScheduleWaiting
  <2>4. PICK c \in Int : Allocated(r, Updated(req[r], "RUNNING", c))
    BY <2>1, Zenon
  <2>5. /\ Updated(req[r], "RUNNING", c).status = "RUNNING"
        /\ Updated(req[r], "RUNNING", c).arrival_time = req[r].arrival_time
    <3>1. req[r] \in Rec /\ "RUNNING" \in Statuses
      BY <2>1, Zenon DEF TInv, ReqOK, Statuses
    <3> QED BY SMTT(30), <3>1 DEF Facts, UpdatedFact
  <2>6. /\ req'[r].status = "RUNNING" /\ req'[r].arrival_time = req[r].arrival_time
        /\ \A s \in Request : s # r => req'[s] = req[s]
    BY <2>4, <2>5, Zenon DEF Allocated
  <2>7. UNCHANGED <<finished_req_ids, reset_preempted_req_ids>>
    BY <2>1, Zenon DEF reports
  <2>8. SameArrival(r)
    BY <2>2, <2>6, Zenon DEF SameArrival, Waiting, Blocked
  <2>9. Slot(r)'
    <3>1. r \notin finished_req_ids'
      BY <1>0, <2>1, <2>2, <2>7, ZenonT(30) DEF Slot, Waiting, Blocked, Finished
    <3> QED BY <2>1, <2>6, <3>1, Zenon DEF Slot
  <2>10. Len(running') <= max_num_running_reqs
    <3>1. num_waiting_for_streaming_input \in Nat
      BY StreamsFinite, Zenon DEF LoadInv, StreamingCounted, Streams
    <3>2. Len(running) + num_waiting_for_streaming_input < max_num_running_reqs
      BY <2>1, ZenonT(30) DEF InWaitingLoop
    <3>3. Len(running) \in Nat /\ Len(running') = Len(running) + 1
          /\ max_num_running_reqs \in Nat
      BY <1>0, <2>1, SchedulerAssumption, Zenon DEF ListFacts, AppendFact, LenFact
    <3> QED BY SMTT(30), <3>1, <3>2, <3>3
  <2> QED BY <2>1, <2>3, <2>6, <2>7, <2>8, <2>9, <2>10, SessionMove, Zenon
<1>7. ASSUME NEW ext \in 0..max_model_len, StartLoad(ext) PROVE NoSessionInv'
  <2>0. PICK r \in Request : r = peek_request
    BY <1>7, Zenon DEF Effects, StartLoadEffect
  <2>1. /\ InWaitingLoop /\ pop_request /\ r \in Request
        /\ Allocated(r, Updated(req[r], "REMOTE", ext))
        /\ UNCHANGED <<running, reports, arrivals, occupied>> /\ step'.new = step.new
    BY <1>7, <2>0, Zenon DEF Effects, StartLoadEffect
  <2>2. req[r].status \in Waiting
    BY <2>0, <2>1, Zenon DEF Facts, PopFact
  <2>3. UNCHANGED <<finished_req_ids, reset_preempted_req_ids, failed>>
    BY <1>7, <2>1, ZenonT(30) DEF reports, StartLoad
  <2>4. /\ Updated(req[r], "REMOTE", ext).status = "REMOTE"
        /\ Updated(req[r], "REMOTE", ext).arrival_time = req[r].arrival_time
    <3>1. req[r] \in Rec /\ "REMOTE" \in Statuses /\ ext \in Int
      BY <2>1, SchedulerAssumption DEF TInv, ReqOK, Statuses, Waiting, Blocked
    <3> QED BY SMTT(30), <3>1 DEF Facts, UpdatedFact
  <2>5. /\ req'[r].status = "REMOTE" /\ req'[r].arrival_time = req[r].arrival_time
        /\ \A s \in Request : s # r => req'[s] = req[s]
    BY <2>1, <2>4, ZenonT(30) DEF Allocated
  <2>6. SameArrival(r) /\ SlotsFound
    BY <2>2, <2>3, <2>5, Zenon DEF SameArrival, SlotsFound, Waiting, Blocked
  <2>7. req[r].status # "RUNNING" /\ req[r].status \notin Finished
    BY <2>2, Zenon DEF Waiting, Blocked, Finished
  <2>8. Slot(r)'
    BY <1>0, <2>1, <2>3, <2>5, <2>7, SlotWaits, ZenonT(30)
  <2> QED BY <1>0, <2>1, <2>3, <2>5, <2>6, <2>8, SessionMove, Zenon
<1>8. ASSUME EndSchedule PROVE NoSessionInv'
  BY <1>8, SessionEnd, Zenon
<1> QED BY <1>1, <1>2, <1>3, <1>4, <1>5, <1>6, <1>7, <1>8, Zenon DEF Schedule

LEMMA SessionUpdate ==
  ASSUME ListFacts, Facts, Effects,
         Sessions = {}, TInv, QueueInv, StepInv, LoadInv, NoSessionInv,
         Update \/ ResetRunning \/ \E r \in Request : LoadDone(r)
  PROVE  NoSessionInv'
<1>0. /\ step \in Step /\ running \in Seq(Request) /\ Len(running) <= max_num_running_reqs
      /\ \A r \in Request : Slot(r)
  BY Zenon DEF TInv, StepOK, QueuesOK, NoSessionInv
<1>1. ASSUME BeginUpdate \/ EndUpdate PROVE NoSessionInv'
  <2>1. /\ UNCHANGED <<req, running, finished_req_ids, reset_preempted_req_ids, arrivals, failed,
                       occupied>>
        /\ step.phase \notin {"waiting", "end"}
    BY <1>1, Zenon DEF BeginUpdate, EndUpdate, queues, reports, outside, worker
  <2>2. step'.new = {}
    <3>1. CASE EndUpdate
      BY <3>1, Zenon DEF EndUpdate, Idle
    <3>2. CASE BeginUpdate
      BY <3>2, Zenon DEF BeginUpdate, Idle
    <3> QED BY <1>1, <3>1, <3>2, ZenonT(30)
  <2>3. step'.new = step.new /\ SlotsFound
    BY <2>1, <2>2, ZenonT(30) DEF StepInv, SlotsFound
  <2> QED BY <2>1, <2>3, SessionSame, Zenon
<1>2. ASSUME SkipEntry \/ DiscardFrame \/ \E g \in 1..1 + num_spec_tokens : AppendOutput(g)
      PROVE  NoSessionInv'
  <2>1. /\ NextEntry /\ UNCHANGED <<queues, rest, arrivals>>
        /\ \A r \in Request : /\ req'[r].status = req[r].status
                              /\ req'[r].arrival_time = req[r].arrival_time
    BY <1>2, Zenon DEF Effects, EntryEffect
  <2>2. /\ UNCHANGED <<running, finished_req_ids, reset_preempted_req_ids, arrivals, occupied>>
        /\ step'.new = step.new
    BY <1>0, <2>1, ZenonT(30) DEF queues, rest, reports, NextEntry, Step
  <2>3. SlotsFound
    <3>1. "num_tokens_scheduled" \notin SlotNames /\ "output" \notin SlotNames
      BY Zenon DEF SlotNames
    <3>2. \E holds \in BOOLEAN, name \in {"num_tokens_scheduled", "output"} :
            failed' = Asserted(holds, name)
      BY <1>2, ZenonT(30) DEF SkipEntry, DiscardFrame, AppendOutput, Asserted
    <3> QED BY <3>1, <3>2, AssertedNames, Zenon
  <2> QED BY <2>1, <2>2, <2>3, SessionSame, Zenon
<1>3. ASSUME NEW g \in 1..1 + num_spec_tokens, NEW k \in 1..1 + num_spec_tokens,
             StopRequest(g, k)
      PROVE  NoSessionInv'
  <2>0. g \in Int /\ k \in Int
    BY SchedulerAssumption
  <2>1. PICK r \in Request : r = Entry.id
    BY <1>3, <2>0, ZenonT(30) DEF Effects, StopRequestEffect
  <2>2. /\ NextEntry
        /\ \A s \in Request : s # r => req'[s] = req[s]
        /\ running' = IF req[r].status = "RUNNING" THEN remove_all(running, {r}) ELSE running
        /\ UNCHANGED <<reset_preempted_req_ids, arrivals, occupied>>
        /\ req'[r] = Gone /\ finished_req_ids' = finished_req_ids \cup {r}
    BY <1>3, <2>0, <2>1, Zenon DEF Effects, StopRequestEffect
  <2>3. step'.new = step.new
    BY <1>0, <2>2, Zenon DEF NextEntry, Step
  <2>4. SlotsFound
    <3>1. "output" \notin SlotNames
      BY Zenon DEF SlotNames
    <3> QED BY <1>3, <3>1, AssertedNames, Zenon DEF StopRequest
  <2>5. req'[r].status \in Finished /\ SameArrival(r)
    BY <2>2, Zenon DEF Finished, SameArrival, Facts, GoneFact
  <2>6. Slot(r)'
    BY <2>2, <2>5, SlotFinished, ZenonT(30)
  <2>7. Len(running') <= max_num_running_reqs
    BY <1>0, <2>2, ShorterRunning, ZenonT(30)
  <2> QED BY <2>2, <2>3, <2>4, <2>5, <2>6, <2>7, SessionMove, ZenonT(30)
<1>4. ASSUME NEW r \in Request, ReportLoaded(r) PROVE NoSessionInv'
  <2>1. /\ r \in loaded /\ UNCHANGED <<queues, reports, step, occupied, arrivals>>
        /\ \A s \in Request : s # r => req'[s] = req[s]
        /\ IF req[r].status = "REMOTE" THEN req' = req ELSE req'[r] = Gone
    BY <1>4, Zenon DEF Effects, ReportLoadedEffect
  <2>2. UNCHANGED <<running, finished_req_ids, reset_preempted_req_ids>>
    BY <2>1, Zenon DEF queues, reports
  <2>3. req[r].status \in {"REMOTE", "FINISHED"}
    BY <2>1, Zenon DEF LoadInv, LoadSets, LoadsKeepBlocks
  <2>4. SlotsFound
    <3>1. "finished_recving" \notin SlotNames
      BY Zenon DEF SlotNames
    <3> QED BY <1>4, <3>1, AssertedNames, ZenonT(30) DEF ReportLoaded
  <2>5. /\ req'[r].status = req[r].status \/ req'[r].status = "GONE"
        /\ SameArrival(r)
    BY <2>1, Zenon DEF SameArrival, Facts, GoneFact
  <2>6. /\ req[r].status # "RUNNING" /\ req'[r].status # "RUNNING"
        /\ req[r].status \in Finished => req'[r].status \in Finished
    BY <2>3, <2>5, ZenonT(30) DEF Finished
  <2>7. Slot(r)'
    BY <1>0, <2>1, <2>2, <2>6, SlotWaits, ZenonT(30)
  <2> QED BY <1>0, <2>1, <2>2, <2>4, <2>5, <2>7, SessionMove, Zenon
<1>5. ASSUME ResetRunning PROVE NoSessionInv'
  <2>1. PICK r \in Request : r = running[Len(running)]
    BY <1>5, ZenonT(30) DEF Effects, ResetRunningEffect
  <2>2. /\ r \in Elems(running) /\ running # <<>> /\ req'[r].status = "PREEMPTED"
        /\ \A s \in Request : s # r => req'[s] = req[s]
        /\ req'[r].arrival_time = req[r].arrival_time
        /\ reset_preempted_req_ids' = reset_preempted_req_ids \cup {r}
    BY <1>5, <2>1, ZenonT(30) DEF Effects, ResetRunningEffect
  <2>3. /\ UNCHANGED <<finished_req_ids, arrivals, failed, occupied>>
        /\ running' = SubSeq(running, 1, Len(running) - 1)
        /\ step.phase = "reset" /\ (step' = Idle \/ step' = step)
    BY <1>5, Zenon DEF ResetRunning, outside, worker
  <2>4. step.new = {} /\ step'.new = {}
    BY SMTT(30), <2>3 DEF StepInv, Idle
  <2>5. req[r].status = "RUNNING"
    BY <2>2, Zenon DEF Facts, StatusFact
  <2>6. Slot(r)'
    BY <1>0, <2>2, <2>3, <2>5, SlotPreempted, Zenon
  <2>7. SameArrival(r) /\ SlotsFound
    BY <2>2, <2>3, <2>5, ZenonT(30) DEF SameArrival, SlotsFound
  <2>8. Len(running') <= max_num_running_reqs
    <3>1. Len(running) \in Nat /\ Len(running') = Len(running) - 1
      BY <1>0, <2>2, <2>3, Zenon DEF ListFacts, FrontElemsFact
    <3> QED BY SMTT(30), <1>0, <3>1, SchedulerAssumption
  <2> QED BY <2>2, <2>3, <2>4, <2>6, <2>7, <2>8, SessionMove, Zenon
<1>6. ASSUME NEW r \in Request, LoadDone(r) PROVE NoSessionInv'
  <2>1. UNCHANGED <<req, running, finished_req_ids, reset_preempted_req_ids, arrivals, failed,
                    occupied, step>>
    BY <1>6, Zenon DEF LoadDone, queues, reports, outside, worker
  <2>2. SlotsFound
    BY <2>1, Zenon DEF SlotsFound
  <2> QED BY <2>1, <2>2, SessionSame, Zenon
<1>7. CASE Update
  BY <1>1, <1>2, <1>3, <1>4, <1>7, ZenonT(30) DEF Update
<1> QED BY <1>5, <1>6, <1>7, Zenon

-----------------------------------------------------------------------------
(* First come, first served: lists in the order of arrival.                 *)
LEMMA SortedKeep ==
  ASSUME ListFacts, NEW R, NEW T, NEW q \in Seq(T), NEW S, Sorted(R, q)
  PROVE  Sorted(R, Keep(q, S))
<1> DEFINE z == Keep(q, S)
<1>1. PICK f \in [1..Len(z) -> 1..Len(q)] :
        /\ \A k \in 1..Len(z) : z[k] = q[f[k]]
        /\ \A k, l \in 1..Len(z) : k < l => f[k] < f[l]
  BY SMTT(30) DEF ListFacts, KeepFact
<1> HIDE DEF z
<1>2. ASSUME NEW k \in 1..Len(z), NEW l \in 1..Len(z), k < l
      PROVE  R[z[k]].arrival_time < R[z[l]].arrival_time
  <2>1. f[k] \in 1..Len(q) /\ f[l] \in 1..Len(q) /\ f[k] < f[l]
    BY <1>1, <1>2, Zenon
  <2>2. R[q[f[k]]].arrival_time < R[q[f[l]]].arrival_time
    BY <2>1, Zenon DEF Sorted
  <2> QED BY <1>1, <2>2, Zenon
<1>3. Sorted(R, z)
  BY <1>2, Zenon DEF Sorted
<1> QED BY <1>3, Zenon DEF z

LEMMA SortedSame ==
  ASSUME NEW R, NEW R2, NEW q, Sorted(R, q),
         \A s \in Elems(q) : R2[s].arrival_time = R[s].arrival_time
  PROVE  Sorted(R2, q)
<1>1. \A i \in 1..Len(q) : q[i] \in Elems(q)
  BY Zenon DEF Elems
<1> QED BY <1>1, Zenon DEF Sorted

\* append, and appendleft.
LEMMA SortedAppend ==
  ASSUME ListFacts, NEW R, NEW T, NEW q \in Seq(T), NEW x \in T, Sorted(R, q),
         \A s \in Elems(q) : R[s].arrival_time < R[x].arrival_time
  PROVE  Sorted(R, Append(q, x))
<1> DEFINE z == Append(q, x)
<1>1. /\ Len(z) = Len(q) + 1 /\ Len(q) \in Nat /\ z[Len(q) + 1] = x
      /\ \A i \in 1..Len(q) : z[i] = q[i]
  BY DEF ListFacts, AppendFact, LenFact
<1> HIDE DEF z
<1>2. \A i \in 1..Len(q) : q[i] \in Elems(q)
  BY Zenon DEF Elems
<1>3. ASSUME NEW i \in 1..Len(z), NEW j \in 1..Len(z), i < j
      PROVE  R[z[i]].arrival_time < R[z[j]].arrival_time
  <2>1. i \in 1..Len(q) /\ (j \in 1..Len(q) \/ j = Len(q) + 1)
    BY <1>1, <1>3
  <2>2. CASE j \in 1..Len(q)
    BY <1>1, <1>3, <2>1, <2>2, ZenonT(30) DEF Sorted
  <2>3. CASE j = Len(q) + 1
    BY <1>1, <1>2, <2>1, <2>3, Zenon
  <2> QED BY <2>1, <2>2, <2>3, Zenon
<1>4. Sorted(R, z)
  BY <1>3, Zenon DEF Sorted
<1> QED BY <1>4, Zenon DEF z

LEMMA SortedPrepend ==
  ASSUME ListFacts, NEW R, NEW T, NEW q \in Seq(T), NEW x \in T, Sorted(R, q),
         \A s \in Elems(q) : R[x].arrival_time < R[s].arrival_time
  PROVE  /\ Sorted(R, <<x>> \o q) /\ <<x>> \o q \in Seq(T)
         /\ Elems(<<x>> \o q) = {x} \cup Elems(q)
<1> DEFINE z == <<x>> \o q
<1>0. <<x>> \in Seq(T) /\ Len(<<x>>) = 1 /\ Elems(<<x>>) = {x} /\ <<x>>[1] = x
  BY Zenon DEF ListFacts, OneElemFact
<1>1. /\ Len(z) = 1 + Len(q) /\ Len(q) \in Nat
      /\ \A i \in 1..1 + Len(q) : z[i] = IF i <= 1 THEN <<x>>[i] ELSE q[i - 1]
  BY <1>0 DEF ListFacts, ConcatFact, LenFact
<1>2. z \in Seq(T) /\ Elems(z) = {x} \cup Elems(q)
  <2>1. <<x>> \in Seq(T)
    BY <1>0, Zenon
  <2>2. z \in Seq(T) /\ Elems(z) = Elems(<<x>>) \cup Elems(q)
    BY <2>1, ZenonT(30) DEF ListFacts, ConcatElemsFact
  <2> QED BY <1>0, <2>2, Zenon
<1> HIDE DEF z
<1>3. z[1] = x /\ \A i \in 2..1 + Len(q) : z[i] = q[i - 1] /\ q[i - 1] \in Elems(q)
  <2>1. z[1] = x
    BY <1>0, <1>1
  <2>2. ASSUME NEW i \in 2..1 + Len(q) PROVE z[i] = q[i - 1] /\ q[i - 1] \in Elems(q)
    <3>1. i \in 1..1 + Len(q) /\ ~(i <= 1) /\ i - 1 \in 1..Len(q)
      BY <1>1
    <3> QED BY <1>1, <3>1, Zenon DEF Elems
  <2> QED BY <2>1, <2>2, Zenon
<1>4. ASSUME NEW i \in 1..Len(z), NEW j \in 1..Len(z), i < j
      PROVE  R[z[i]].arrival_time < R[z[j]].arrival_time
  <2>1. j \in 2..1 + Len(q) /\ (i = 1 \/ i \in 2..1 + Len(q))
    BY <1>1, <1>4
  <2>2. CASE i = 1
    BY <1>3, <2>1, <2>2, Zenon
  <2>3. CASE i \in 2..1 + Len(q)
    <3>1. i - 1 \in 1..Len(q) /\ j - 1 \in 1..Len(q) /\ i - 1 < j - 1
      BY SMTT(30), <1>1, <1>4, <2>1, <2>3
    <3>2. R[q[i - 1]].arrival_time < R[q[j - 1]].arrival_time
      BY <3>1, Zenon DEF Sorted
    <3> QED BY <1>3, <2>1, <2>3, <3>2, Zenon
  <2> QED BY <2>1, <2>2, <2>3, Zenon
<1>5. Sorted(R, z)
  BY <1>4, Zenon DEF Sorted
<1> QED BY <1>2, <1>5, ZenonT(30) DEF z

LEMMA SortedTail ==
  ASSUME ListFacts, NEW R, NEW T, NEW q \in Seq(T), q # <<>>, Sorted(R, q)
  PROVE  /\ Sorted(R, Tail(q))
         /\ \A s \in Elems(Tail(q)) : R[Head(q)].arrival_time < R[s].arrival_time
<1> DEFINE t == Tail(q)
<1>1. /\ Head(q) = q[1] /\ t \in Seq(T) /\ Len(t) = Len(q) - 1
      /\ \A i \in 1..Len(q) - 1 : t[i] = q[i + 1]
  BY ZenonT(30) DEF ListFacts, TailElemsFact
<1>2. Len(q) \in Nat \ {0}
  BY Zenon DEF ListFacts, EmptySeqFact, LenFact
<1> HIDE DEF t
<1>3. \A i \in 1..Len(t) : i + 1 \in 1..Len(q) /\ 1 < i + 1 /\ t[i] = q[i + 1]
  BY SMTT(30), <1>1, <1>2
<1>4. ASSUME NEW i \in 1..Len(t), NEW j \in 1..Len(t), i < j
      PROVE  R[t[i]].arrival_time < R[t[j]].arrival_time
  <2>1. i + 1 \in 1..Len(q) /\ j + 1 \in 1..Len(q) /\ i + 1 < j + 1
    BY SMTT(30), <1>2, <1>3, <1>4
  <2>2. R[q[i + 1]].arrival_time < R[q[j + 1]].arrival_time
    BY <2>1, Zenon DEF Sorted
  <2> QED BY <1>3, <2>2, Zenon
<1>5. ASSUME NEW i \in 1..Len(t) PROVE R[q[1]].arrival_time < R[t[i]].arrival_time
  <2>1. 1 \in 1..Len(q) /\ i + 1 \in 1..Len(q) /\ 1 < i + 1
    BY SMTT(30), <1>2, <1>3
  <2>2. R[q[1]].arrival_time < R[q[i + 1]].arrival_time
    BY <2>1, Zenon DEF Sorted
  <2> QED BY <1>3, <2>2, ZenonT(30)
<1>6. Sorted(R, t)
  BY <1>4, ZenonT(30) DEF Sorted
<1>7. \A s \in Elems(t) : R[Head(q)].arrival_time < R[s].arrival_time
  BY <1>1, <1>5, ZenonT(30) DEF Elems
<1> QED BY <1>6, <1>7, Zenon DEF t

LEMMA SortedLast ==
  ASSUME NEW R, NEW q, Len(q) \in Nat \ {0}, Sorted(R, q)
  PROVE  \A s \in Elems(q) \ {q[Len(q)]} : R[s].arrival_time < R[q[Len(q)]].arrival_time
<1>1. ASSUME NEW i \in 1..Len(q), q[i] # q[Len(q)]
      PROVE  R[q[i]].arrival_time < R[q[Len(q)]].arrival_time
  <2>1. i < Len(q) /\ Len(q) \in 1..Len(q)
    BY SMTT(30), <1>1
  <2> QED BY <2>1, Zenon DEF Sorted
<1> QED BY <1>1, Zenon DEF Elems

LEMMA SortedFront ==
  ASSUME ListFacts, NEW R, NEW T, NEW q \in Seq(T), q # <<>>, Sorted(R, q)
  PROVE  Sorted(R, SubSeq(q, 1, Len(q) - 1))
<1> DEFINE x == SubSeq(q, 1, Len(q) - 1)
<1>1. Len(q) \in Nat \ {0} /\ Len(x) = Len(q) - 1 /\ \A i \in 1..Len(q) - 1 : x[i] = q[i]
  BY ZenonT(30) DEF ListFacts, FrontElemsFact
<1> HIDE DEF x
<1>2. \A i \in 1..Len(x) : i \in 1..Len(q) /\ x[i] = q[i]
  BY SMTT(30), <1>1
<1>3. Sorted(R, x)
  BY <1>2, Zenon DEF Sorted
<1> QED BY <1>3, ZenonT(30) DEF x

\* The arrival times of the requests that are still queued do not change.
LEMMA OrderKept ==
  ASSUME skipped_waiting' = <<>>, step'.skipped = <<>>,
         Sorted(req, running'), Sorted(req, waiting'),
         Ahead(req, Elems(running'), Elems(waiting')),
         \A s \in Elems(running') \cup Elems(waiting') :
           req'[s].arrival_time = req[s].arrival_time
  PROVE  InOrder'
<1>1. Sorted(req', running') /\ Sorted(req', waiting')
  BY SortedSame, Zenon
<1>2. Ahead(req', Elems(running'), Elems(waiting'))
  BY Zenon DEF Ahead
<1> QED BY <1>1, <1>2, Zenon DEF InOrder

LEMMA OrderSame ==
  ASSUME ListFacts, Facts, TInv, InOrder, UNCHANGED <<running, waiting, skipped_waiting>>,
         step'.skipped = <<>>,
         \A s \in Request : req'[s].arrival_time = req[s].arrival_time
  PROVE  InOrder'
<1>1. Elems(running) \subseteq Request /\ Elems(waiting) \subseteq Request
  BY ZenonT(30) DEF Queued, Facts, QueueTypesFact
<1> QED BY <1>1, OrderKept, Zenon DEF InOrder

\* A request leaves a queue.
LEMMA OrderLeave ==
  ASSUME ListFacts, Facts, TInv, InOrder, NEW r \in Request,
         running' = running \/ running' = remove_all(running, {r}),
         waiting' = waiting \/ waiting' = remove_all(waiting, {r}),
         r \notin Elems(running') \cup Elems(waiting'),
         skipped_waiting' = <<>>, step'.skipped = <<>>,
         \A s \in Request : s # r => req'[s] = req[s]
  PROVE  InOrder'
<1>1. /\ running \in Seq(Request) /\ waiting \in Seq(Request)
      /\ Elems(running) \subseteq Request /\ Elems(waiting) \subseteq Request
  BY Zenon DEF Queued, Facts, QueueTypesFact
<1>2. /\ Elems(remove_all(running, {r})) \subseteq Elems(running)
      /\ Elems(remove_all(waiting, {r})) \subseteq Elems(waiting)
      /\ Sorted(req, remove_all(running, {r})) /\ Sorted(req, remove_all(waiting, {r}))
  <2>1. ASSUME NEW q \in Seq(Request), Sorted(req, q)
        PROVE  Elems(remove_all(q, {r})) \subseteq Elems(q) /\ Sorted(req, remove_all(q, {r}))
    <3>1. Elems(Keep(q, Request \ {r})) = Elems(q) \cap (Request \ {r})
      BY <2>1, Zenon DEF ListFacts, KeepElemsFact
    <3>2. Sorted(req, Keep(q, Request \ {r}))
      BY <2>1, SortedKeep, Zenon
    <3> QED BY <3>1, <3>2, ZenonT(30) DEF remove_all
  <2> QED BY <1>1, <2>1, ZenonT(30) DEF InOrder
<1>3. /\ Elems(running') \subseteq Elems(running) /\ Elems(waiting') \subseteq Elems(waiting)
      /\ Sorted(req, running') /\ Sorted(req, waiting')
  BY <1>2, ZenonT(30) DEF InOrder
<1>4. Ahead(req, Elems(running'), Elems(waiting'))
  BY <1>3, Zenon DEF InOrder, Ahead
<1>5. \A s \in Elems(running') \cup Elems(waiting') : req'[s] = req[s]
  BY <1>1, <1>3, ZenonT(30)
<1> QED BY <1>3, <1>4, <1>5, OrderKept, ZenonT(30)

\* The last running request goes to the front of the waiting ones.
LEMMA OrderPreempt ==
  ASSUME ListFacts, Facts,
         TInv, InOrder, policy = "fcfs", NEW r \in Request, running # <<>>,
         r = running[Len(running)],
         Sorted(req, running'), Elems(running') = Elems(running) \ {r},
         waiting' = prepend_request(waiting, r),
         skipped_waiting' = <<>>, step'.skipped = <<>>,
         \A s \in Request : req'[s].arrival_time = req[s].arrival_time
  PROVE  InOrder'
<1>1. /\ running \in Seq(Request) /\ waiting \in Seq(Request)
      /\ Elems(running) \subseteq Request /\ Elems(waiting) \subseteq Request
  BY Zenon DEF Queued, Facts, QueueTypesFact
<1>2. Len(running) \in Nat \ {0} /\ r \in Elems(running)
  BY <1>1, ZenonT(30) DEF ListFacts, FrontElemsFact
<1>3. waiting' = <<r>> \o waiting
  BY ZenonT(30) DEF prepend_request
<1>4. \A s \in Elems(waiting) : req[r].arrival_time < req[s].arrival_time
  BY <1>2, ZenonT(30) DEF InOrder, Ahead
<1>5. Sorted(req, waiting') /\ Elems(waiting') = {r} \cup Elems(waiting)
  BY SMTT(30), <1>1, <1>3, <1>4, SortedPrepend DEF InOrder
<1>6. \A s \in Elems(running') : req[s].arrival_time < req[r].arrival_time
  BY <1>2, SortedLast, ZenonT(30) DEF InOrder
<1>7. Ahead(req, Elems(running'), Elems(waiting'))
  BY <1>5, <1>6, Zenon DEF InOrder, Ahead
<1>8. \A s \in Elems(running') \cup Elems(waiting') :
        req'[s].arrival_time = req[s].arrival_time
  BY <1>1, <1>5, ZenonT(30)
<1> QED BY <1>5, <1>7, <1>8, OrderKept, ZenonT(30)

LEMMA OrderClient ==
  ASSUME ListFacts, Facts, Effects,
         TInv, QueueInv, QueueInv', TInv', StepInv, NoSessionInv, InOrder, Client,
         policy = "fcfs", ~connector, Sessions = {}
  PROVE  InOrder'
<1>0. /\ ReqOK /\ arrivals \in Nat /\ skipped_waiting = <<>> /\ step.skipped = <<>>
      /\ running \in Seq(Request) /\ waiting \in Seq(Request)
      /\ Elems(running) \subseteq Request /\ Elems(waiting) \subseteq Request
  BY Zenon DEF TInv, CountsOK, InOrder, Queued, Facts, QueueTypesFact
<1>1. ASSUME NEW r \in Request, NEW len \in PromptLens, AddRequest(r, len) PROVE InOrder'
  <2>1. /\ \A s \in Request : s # r => req'[s] = req[s]
        /\ req'[r] = [req[r] EXCEPT !.status = "WAITING", !.arrival_time = arrivals + 1,
                                    !.num_prompt_tokens = len, !.num_tokens = len]
    BY <1>1, ZenonT(30) DEF Effects, AddRequestEffect
  <2>2. /\ req[r].status = "NONE" /\ UNCHANGED <<running, skipped_waiting, step>>
        /\ waiting' = Append(waiting, r)
    BY <1>1, ZenonT(30) DEF AddRequest, add_request
  <2>3. req'[r].arrival_time = arrivals + 1
    BY SMTT(30), <1>0, <2>1 DEF ReqOK, Rec
  <2>4. ASSUME NEW s \in Elems(running) \cup Elems(waiting)
        PROVE  /\ s \in Request /\ req'[s] = req[s]
               /\ req'[s].arrival_time < req'[r].arrival_time
    <3>1. s \in Request /\ req[s].status \in Waiting \cup {"RUNNING"}
      BY <1>0, Zenon DEF Queued, Facts, StatusFact
    <3>2. s # r /\ Known(s)
      BY <2>2, <3>1, Zenon DEF Known, Waiting, Blocked
    <3>3. req[s].arrival_time <= arrivals /\ req[s].arrival_time \in Nat
      BY <1>0, <3>1, <3>2, ZenonT(30) DEF NoSessionInv, Arrived, ReqOK, Rec
    <3> QED BY SMTT(30), <1>0, <2>1, <2>3, <3>1, <3>2, <3>3
  <2>5. Sorted(req', running) /\ Sorted(req', waiting)
    BY <2>4, SortedSame, ZenonT(30) DEF InOrder
  <2>6. Sorted(req', waiting')
    BY <1>0, <2>2, <2>4, <2>5, SortedAppend, ZenonT(30)
  <2>7. Elems(waiting') = Elems(waiting) \cup {r}
    BY SMTT(30), <1>0, <2>2 DEF ListFacts, AppendElemsFact
  <2>8. Ahead(req', Elems(running), Elems(waiting'))
    BY <2>4, <2>7, ZenonT(30) DEF InOrder, Ahead
  <2>9. Sorted(req', running') /\ Ahead(req', Elems(running'), Elems(waiting'))
        /\ skipped_waiting' = <<>> /\ step'.skipped = <<>>
    BY <1>0, <2>2, <2>5, <2>8, ZenonT(30)
  <2> QED BY <2>6, <2>9, Zenon DEF InOrder
<1>2. ASSUME NEW r \in Request, NEW len \in PromptLens \cup {0}, AddChunk(r, len)
      PROVE  FALSE
  BY <1>2, ZenonT(30) DEF AddChunk
<1>3. ASSUME NEW r \in Request, Abort(r) PROVE InOrder'
  <2>1. /\ step' = step
        /\ running' = running \/ running' = remove_all(running, {r})
        /\ waiting' = waiting \/ waiting' = remove_all(waiting, {r})
        /\ skipped_waiting' = skipped_waiting \/ skipped_waiting' = remove_all(skipped_waiting, {r})
    BY <1>3, Zenon DEF Abort
  <2>2. /\ \A s \in Request : s # r => req'[s] = req[s]
        /\ req'[r] = [req[r] EXCEPT !.status = "FINISHED"] \/ req'[r] = Gone
    BY <1>3, ZenonT(30) DEF Effects, AbortEffect
  <2>3. req'[r].status \in {"FINISHED", "GONE"}
    <3>1. req[r] \in Rec
      BY <1>0, Zenon DEF ReqOK
    <3>2. [req[r] EXCEPT !.status = "FINISHED"].status = "FINISHED"
      BY <3>1, ZenonT(30) DEF Rec
    <3> QED BY <2>2, <3>2, Zenon DEF Facts, GoneFact
  <2>4. r \notin Elems(running') \cup Elems(waiting')
    BY <2>3, Zenon DEF QueueInv, Queued, Waiting, Blocked
  <2>5. skipped_waiting' = <<>>
    <3>1. /\ remove_all(skipped_waiting, {r}) \in Seq(Request)
          /\ Elems(remove_all(skipped_waiting, {r})) \subseteq Elems(skipped_waiting)
      <4>1. skipped_waiting \in Seq(Request)
        BY Zenon DEF Facts, QueueTypesFact
      <4>2. /\ Keep(skipped_waiting, Request \ {r}) \in Seq(Request)
            /\ Elems(Keep(skipped_waiting, Request \ {r}))
                 = Elems(skipped_waiting) \cap (Request \ {r})
        BY <4>1, Zenon DEF ListFacts, KeepElemsFact
      <4> QED BY <4>2, Zenon DEF remove_all
    <3>2. remove_all(skipped_waiting, {r}) = <<>>
      <4>1. skipped_waiting \in Seq(Request)
        BY Zenon DEF Facts, QueueTypesFact
      <4>2. Elems(skipped_waiting) = {}
        BY <1>0, <4>1, Zenon DEF Facts, NoElemsFact
      <4>3. Elems(remove_all(skipped_waiting, {r})) = {}
        BY <3>1, <4>2, ZenonT(30)
      <4> QED BY <3>1, <4>3, ZenonT(30) DEF Facts, NoElemsFact
    <3> QED BY <1>0, <2>1, <3>2, Zenon
  <2> QED BY <1>0, <2>1, <2>2, <2>4, <2>5, OrderLeave, ZenonT(30)
<1>4. ASSUME StartReset \/ \E state \in PauseStates \cup {"UNPAUSED"} : set_pause_state(state)
      PROVE  InOrder'
  <2>1. UNCHANGED <<req, running, waiting, skipped_waiting>>
    BY <1>4, ZenonT(30) DEF queues, Effects, ControlEffect
  <2>2. step'.skipped = step.skipped
    BY <1>4, ZenonT(30) DEF StartReset, set_pause_state, TInv, StepOK, Step
  <2> QED BY <1>0, <2>1, <2>2, OrderSame, Zenon
<1> QED BY <1>1, <1>2, <1>3, <1>4, ZenonT(30) DEF Client

LEMMA OrderSchedule ==
  ASSUME ListFacts, Facts, Effects,
         TInv, VictimOK, QueueInv, StepInv, LoadInv, InOrder, Schedule,
         policy = "fcfs", ~connector, Sessions = {}
  PROVE  InOrder'
<1>0. /\ step \in Step /\ skipped_waiting = <<>> /\ step.skipped = <<>>
      /\ running \in Seq(Request) /\ waiting \in Seq(Request)
      /\ Elems(running) \subseteq Request /\ Elems(waiting) \subseteq Request
  BY Zenon DEF TInv, StepOK, InOrder, Queued, Facts, QueueTypesFact
<1>a. ~FromSkipped
  BY <1>0, ZenonT(30) DEF FromSkipped
<1>b. \A r \in Request : req[r].status \notin {"REMOTE", "FINISHED", "STREAMING"}
  BY Zenon DEF LoadInv, NoLoads, NoStreams
<1>1. ASSUME \/ StartSchedule \/ SkipRunning \/ EndRunning
             \/ \E ext \in 0..max_model_len : StopWaiting(ext)
      PROVE  InOrder'
  <2>1. UNCHANGED <<req, running, waiting, skipped_waiting>>
    BY <1>1, ZenonT(30) DEF queues, Effects, ControlEffect
  <2>2. step'.skipped = <<>>
    <3>1. CASE StartSchedule
      BY <3>1, Zenon DEF StartSchedule, Idle
    <3>2. CASE SkipRunning \/ EndRunning \/ \E ext \in 0..max_model_len : StopWaiting(ext)
      BY <1>0, <3>2, ZenonT(30) DEF SkipRunning, EndRunning, StopWaiting, Step
    <3> QED BY <1>1, <3>1, <3>2, Zenon
  <2> QED BY <2>1, <2>2, OrderSame, Zenon
<1>2. ASSUME ScheduleRunning PROVE InOrder'
  <2>1. /\ Current \in Request /\ Allocated(Current, req[Current])
        /\ step'.skipped = step.skipped
    BY <1>2, Zenon DEF Effects, ScheduleRunningEffect
  <2>2. UNCHANGED <<running, waiting, skipped_waiting>>
    BY <1>2, ZenonT(30) DEF ScheduleRunning, queues
  <2>3. \A s \in Request : req'[s].arrival_time = req[s].arrival_time
    BY <2>1, ZenonT(30) DEF Allocated
  <2> QED BY <1>0, <2>1, <2>2, <2>3, OrderSame, ZenonT(30)
<1>3. ASSUME PreemptRunning PROVE InOrder'
  <2>0. PICK v \in Request : v = Victim
    BY <1>3, ZenonT(30) DEF Effects, PreemptRunningEffect
  <2>1. /\ \A s \in Request : s # v => req'[s] = req[s]
        /\ req'[v].arrival_time = req[v].arrival_time
        /\ waiting' = prepend_request(waiting, v) /\ step'.skipped = step.skipped
        /\ v \in Elems(running)
    BY <1>3, <2>0, Zenon DEF Effects, PreemptRunningEffect
  <2>2. /\ skipped_waiting' = skipped_waiting
        /\ running' = remove_all(running, {v})
    BY <1>3, <2>0, Zenon DEF PreemptRunning
  <2>3. v = running[Len(running)]
    BY <2>0, ZenonT(30) DEF Victim
  <2>4. running # <<>>
    BY <1>0, <2>1, Zenon DEF Facts, NoElemsFact
  <2>5. Elems(running') = Elems(running) \ {v}
    <3>1. Elems(Keep(running, Request \ {v})) = Elems(running) \cap (Request \ {v})
      BY <1>0, ZenonT(30) DEF ListFacts, KeepElemsFact
    <3> QED BY <1>0, <2>2, <3>1, Zenon DEF remove_all
  <2>6. Sorted(req, running')
    BY <1>0, <2>2, SortedKeep, Zenon DEF remove_all, InOrder
  <2>7. \A s \in Request : req'[s].arrival_time = req[s].arrival_time
    BY <2>1, Zenon
  <2> QED BY <1>0, <2>1, <2>2, <2>3, <2>4, <2>5, <2>6, <2>7, OrderPreempt, ZenonT(30)
<1>4. ASSUME SkipWaiting PROVE FALSE
  <2>1. peek_request \in Request
    BY <1>4, Zenon DEF SkipWaiting, Facts, PeekFact
  <2> QED BY <1>4, <1>b, <2>1, ZenonT(30) DEF SkipWaiting
<1>5. ASSUME PromoteLoaded PROVE FALSE
  <2>1. peek_request \in Request /\ req[peek_request].status = "REMOTE"
    BY <1>5, ZenonT(30) DEF Effects, PromoteLoadedEffect
  <2> QED BY <1>b, <2>1, ZenonT(30)
<1>6. ASSUME NEW ext \in 0..max_model_len, ScheduleWaiting(ext) PROVE InOrder'
  <2>0. PICK r \in Request : r = peek_request
    BY <1>6, Zenon DEF Effects, ScheduleWaitingEffect
  <2>1. /\ InWaitingLoop /\ pop_request
        /\ \E c \in Int : Allocated(r, Updated(req[r], "RUNNING", c))
        /\ running' = Append(running, r) /\ step'.skipped = step.skipped
    BY <1>6, <2>0, ZenonT(30) DEF Effects, ScheduleWaitingEffect
  <2>2. /\ waiting # <<>> /\ r = Head(waiting) /\ waiting' = Tail(waiting)
        /\ skipped_waiting' = skipped_waiting
    BY <1>a, <2>0, <2>1, Zenon DEF Facts, PeekFact
  <2>3. \A s \in Request : req'[s].arrival_time = req[s].arrival_time
    <3>1. PICK c \in Int : Allocated(r, Updated(req[r], "RUNNING", c))
      BY <2>1, ZenonT(30)
    <3>2. Updated(req[r], "RUNNING", c).arrival_time = req[r].arrival_time
      <4>1. req[r] \in Rec /\ "RUNNING" \in Statuses
        BY <2>1, Zenon DEF TInv, ReqOK, Statuses
      <4> QED BY SMTT(30), <4>1 DEF Facts, UpdatedFact
    <3> QED BY <3>1, <3>2, Zenon DEF Allocated
  <2>4. Elems(waiting) = {r} \cup Elems(waiting')
    BY <1>0, <2>2, ZenonT(30) DEF ListFacts, TailElemsFact
  <2>5. /\ Sorted(req, waiting')
        /\ \A s \in Elems(waiting') : req[r].arrival_time < req[s].arrival_time
    BY <1>0, <2>2, SortedTail, ZenonT(30) DEF InOrder
  <2>6. \A s \in Elems(running) : req[s].arrival_time < req[r].arrival_time
    BY <2>4, ZenonT(30) DEF InOrder, Ahead
  <2>7. Sorted(req, running') /\ Elems(running') = Elems(running) \cup {r}
    BY SMTT(30), <1>0, <2>1, <2>6, SortedAppend DEF InOrder, ListFacts, AppendElemsFact
  <2>8. Ahead(req, Elems(running'), Elems(waiting'))
    BY <2>4, <2>5, <2>7, ZenonT(30) DEF InOrder, Ahead
  <2>9. \A s \in Elems(running') \cup Elems(waiting') :
          req'[s].arrival_time = req[s].arrival_time
    BY <1>0, <2>3, <2>4, <2>7, ZenonT(30)
  <2> QED BY <1>0, <2>1, <2>2, <2>5, <2>7, <2>8, <2>9, OrderKept, ZenonT(30)
<1>7. ASSUME NEW ext \in 0..max_model_len, StartLoad(ext) PROVE FALSE
  BY <1>7, ZenonT(30) DEF StartLoad, External
<1>8. ASSUME EndSchedule PROVE InOrder'
  <2>1. /\ \A r \in Request : req'[r].arrival_time = req[r].arrival_time
        /\ skipped_waiting' = prepend_requests(skipped_waiting, step.skipped)
        /\ UNCHANGED <<running, waiting>>
        /\ step' = [Idle EXCEPT !.phase = step'.phase]
    BY <1>8, Zenon DEF Effects, EndScheduleEffect
  <2>2. step'.skipped = <<>>
    BY <2>1, ZenonT(30) DEF Idle
  <2>3. skipped_waiting' = <<>>
    <3>1. skipped_waiting \in Seq(Request) /\ step.skipped \in Seq(Request)
      BY Zenon DEF Facts, QueueTypesFact
    <3>2. /\ skipped_waiting' \in Seq(Request)
          /\ Elems(skipped_waiting') = Elems(skipped_waiting) \cup Elems(step.skipped)
      BY <2>1, <3>1, ZenonT(30) DEF Facts, PrependAllFact
    <3>3. Elems(skipped_waiting) = {} /\ Elems(step.skipped) = {}
      BY <1>0, <3>1, Zenon DEF Facts, NoElemsFact
    <3>4. Elems(skipped_waiting') = {}
      BY <3>2, <3>3, Zenon
    <3> QED BY <3>2, <3>4, Zenon DEF Facts, NoElemsFact
  <2> QED BY <1>0, <2>1, <2>2, <2>3, OrderSame, Zenon
<1> QED BY <1>1, <1>2, <1>3, <1>4, <1>5, <1>6, <1>7, <1>8, ZenonT(30) DEF Schedule

LEMMA OrderUpdate ==
  ASSUME ListFacts, Facts, Effects, TInv, QueueInv, QueueInv', StepInv, LoadInv, InOrder,
         Update \/ ResetRunning \/ \E r \in Request : LoadDone(r),
         policy = "fcfs", ~connector, Sessions = {}
  PROVE  InOrder'
<1>0. /\ step \in Step /\ skipped_waiting = <<>> /\ step.skipped = <<>>
      /\ running \in Seq(Request) /\ waiting \in Seq(Request)
      /\ Elems(running) \subseteq Request /\ Elems(waiting) \subseteq Request
  BY Zenon DEF TInv, StepOK, InOrder, Queued, Facts, QueueTypesFact
<1>b. loading \cup loaded = {}
  <2>1. loading \cup loaded \subseteq Request
    BY Zenon DEF TInv, SetsOK
  <2> QED BY <2>1, Zenon DEF LoadInv, NoLoads, LoadSets, LoadsKeepBlocks
<1>1. ASSUME BeginUpdate \/ EndUpdate PROVE InOrder'
  <2>1. UNCHANGED <<req, running, waiting, skipped_waiting>>
    BY <1>1, Zenon DEF BeginUpdate, EndUpdate, queues
  <2>2. step'.skipped = <<>>
    <3>1. CASE EndUpdate
      BY <3>1, Zenon DEF EndUpdate, Idle
    <3>2. CASE BeginUpdate
      BY <3>2, Zenon DEF Effects, BeginUpdateEffect
    <3> QED BY <1>1, <3>1, <3>2, ZenonT(30)
  <2> QED BY <2>1, <2>2, OrderSame, Zenon
<1>2. ASSUME SkipEntry \/ DiscardFrame \/ \E g \in 1..1 + num_spec_tokens : AppendOutput(g)
      PROVE  InOrder'
  <2>1. /\ NextEntry /\ UNCHANGED <<queues, rest, arrivals>>
        /\ \A r \in Request : req'[r].arrival_time = req[r].arrival_time
    BY <1>2, Zenon DEF Effects, EntryEffect
  <2>2. /\ UNCHANGED <<running, waiting, skipped_waiting>> /\ step'.skipped = step.skipped
    BY <1>0, <2>1, ZenonT(30) DEF queues, NextEntry, Step
  <2> QED BY <1>0, <2>1, <2>2, OrderSame, ZenonT(30)
<1>3. ASSUME NEW g \in 1..1 + num_spec_tokens, NEW k \in 1..1 + num_spec_tokens,
             StopRequest(g, k)
      PROVE  InOrder'
  <2>0. g \in Int /\ k \in Int
    BY SMTT(30), SchedulerAssumption
  <2>1. PICK r \in Request : r = Entry.id
    BY <1>3, <2>0, Zenon DEF Effects, StopRequestEffect
  <2>2. /\ NextEntry
        /\ \A s \in Request : s # r => req'[s] = req[s]
        /\ running' = IF req[r].status = "RUNNING" THEN remove_all(running, {r}) ELSE running
        /\ req'[r] = Gone /\ waiting' = RemoveStopped(waiting, r)
        /\ skipped_waiting' = skipped_waiting
    BY <1>3, <2>0, <2>1, ZenonT(30) DEF Effects, StopRequestEffect
  <2>3. /\ running' = running \/ running' = remove_all(running, {r})
        /\ waiting' = waiting \/ waiting' = remove_all(waiting, {r})
    BY <2>2, Zenon DEF RemoveStopped
  <2>4. step'.skipped = step.skipped
    BY <1>0, <2>2, Zenon DEF NextEntry, Step
  <2>5. r \notin Elems(running') \cup Elems(waiting')
    BY <2>2, ZenonT(30) DEF QueueInv, Queued, Waiting, Blocked, Facts, GoneFact
  <2> QED BY <1>0, <2>2, <2>3, <2>4, <2>5, OrderLeave, ZenonT(30)
<1>4. ASSUME NEW r \in Request, ReportLoaded(r) \/ LoadDone(r) PROVE FALSE
  BY <1>4, <1>b, ZenonT(30) DEF ReportLoaded, LoadDone
<1>5. ASSUME ResetRunning PROVE InOrder'
  <2>1. PICK r \in Request : r = running[Len(running)]
    BY <1>5, ZenonT(30) DEF Effects, ResetRunningEffect
  <2>2. /\ running # <<>>
        /\ \A s \in Request : s # r => req'[s] = req[s]
        /\ req'[r].arrival_time = req[r].arrival_time
        /\ waiting' = prepend_request(waiting, r)
    BY <1>5, <2>1, ZenonT(30) DEF Effects, ResetRunningEffect
  <2>3. /\ skipped_waiting' = skipped_waiting
        /\ running' = SubSeq(running, 1, Len(running) - 1)
        /\ step' = Idle \/ step' = step
    BY <1>5, ZenonT(30) DEF ResetRunning
  <2>4. step'.skipped = <<>>
    BY SMTT(30), <1>0, <2>3 DEF Idle
  <2>5. Elems(running') = Elems(running) \ {r}
    BY <1>0, <2>1, <2>2, <2>3, ZenonT(30) DEF QueueInv, ListFacts, FrontElemsFact
  <2>6. Sorted(req, running')
    BY <1>0, <2>2, <2>3, SortedFront, Zenon DEF InOrder
  <2>7. \A s \in Request : req'[s].arrival_time = req[s].arrival_time
    BY <2>2, ZenonT(30)
  <2> QED BY <1>0, <2>1, <2>2, <2>3, <2>4, <2>5, <2>6, <2>7, OrderPreempt, ZenonT(30)
<1>6. CASE Update
  BY <1>1, <1>2, <1>3, <1>4, <1>6, ZenonT(30) DEF Update
<1> QED BY <1>4, <1>5, <1>6, ZenonT(30)

-----------------------------------------------------------------------------
(* The initial state, and all the steps.                                    *)
LEMMA BatchStart ==
  ASSUME ListFacts
  PROVE  Init => FlightInv /\ LoadInv /\ NoSessionInv /\ OrderInv
<1> SUFFICES ASSUME Init PROVE FlightInv /\ LoadInv /\ NoSessionInv /\ OrderInv
  BY ZenonT(30)
<1>1. /\ waiting = <<>> /\ skipped_waiting = <<>> /\ running = <<>> /\ batch_queue = <<>>
      /\ finished_req_ids = {} /\ reset_preempted_req_ids = {} /\ occupied = {} /\ failed = {}
      /\ loading = {} /\ loaded = {} /\ finished_recving = {} /\ arrivals = 0
      /\ num_waiting_for_streaming_input = 0
  BY Zenon DEF Init
<1>2. \A r \in Request : req[r].status = "NONE"
  BY Zenon DEF Init, NewRequest
<1>3. /\ step.phase = "idle" /\ step.scheduled = <<>> /\ step.skipped = <<>>
      /\ step.new = {} /\ step.preempted = FALSE
  BY SMTT(30) DEF Init, Idle
<1>4. Len(<<>>) = 0 /\ 1..0 = {} /\ Elems(<<>>) = {}
  BY SMTT(30) DEF Elems
<1>5. FlightInv
  BY SMTT(30), <1>1, <1>3, <1>4, SchedulerAssumption DEF FlightInv
<1>6. LoadInv
  <2>1. {r \in Request : req[r].status = "STREAMING"} = {}
    BY <1>2, ZenonT(30)
  <2>2. Cardinality({}) = 0
    BY Zenon DEF ListFacts, EmptySetFact
  <2>3. StreamingCounted
    BY <1>1, <2>1, <2>2 DEF StreamingCounted
  <2> QED BY <1>1, <1>2, <2>3, ZenonT(30) DEF LoadInv, LoadSets, NoLoads, NoStreams, LoadsKeepBlocks
<1>7. NoSessionInv
  <2>1. Arrived /\ \A r \in Request : Slot(r)
    BY <1>1, <1>2, <1>3, Zenon DEF Arrived, Known, Slot, Held
  <2>2. Len(running) <= max_num_running_reqs
    BY SMTT(30), <1>1, <1>4, SchedulerAssumption
  <2> QED BY <1>1, <2>1, <2>2, ZenonT(30) DEF NoSessionInv
<1>8. OrderInv
  BY <1>1, <1>3, <1>4, Zenon DEF OrderInv, InOrder, Sorted, Ahead
<1> QED BY <1>5, <1>6, <1>7, <1>8, Zenon

\* Every step keeps the batches in flight, the loads, the slots and the order.
LEMMA BatchStep ==
  ASSUME ListFacts, Facts, Effects, Orderly, TInv, TInv', Owned, VictimOK, QInv, QueueInv',
         [Next]_vars
  PROVE  FlightInv' /\ LoadInv' /\ NoSessionInv' /\ OrderInv'
<1>0. /\ QueueInv /\ StepInv /\ FlightInv /\ LoadInv /\ NoSessionInv /\ OrderInv
  BY ZenonT(30) DEF QInv
<1>1. FlightInv'
  <2>1. ASSUME UNCHANGED vars PROVE FlightInv'
    <3>1. UNCHANGED <<req, waiting, step, batch_queue>>
      BY <2>1, Zenon DEF vars, queues, worker
    <3> QED BY SMTT(30), <1>0, <3>1 DEF FlightInv, InFlightOK
  <2> QED BY <1>0, <2>1, FlightClient, FlightSchedule, FlightUpdate, ZenonT(30) DEF Next
<1>2. LoadInv'
  <2>1. ASSUME UNCHANGED vars PROVE LoadInv'
    <3>1. UNCHANGED <<req, loading, loaded, finished_recving, num_waiting_for_streaming_input>>
      BY <2>1, Zenon DEF vars, loads
    <3> QED BY <1>0, <3>1, Zenon
      DEF LoadInv, LoadSets, LoadsKeepBlocks, StreamingCounted, NoLoads, NoStreams
  <2> QED BY <1>0, <2>1, LoadClient, LoadSchedule, LoadUpdate, ZenonT(30) DEF Next
<1>3. NoSessionInv'
  <2> SUFFICES ASSUME Sessions = {} PROVE NoSessionInv'
    BY Zenon DEF NoSessionInv
  <2>1. ASSUME UNCHANGED vars PROVE NoSessionInv'
    <3>1. UNCHANGED <<req, running, step, batch_queue, failed, occupied, finished_req_ids,
                      reset_preempted_req_ids, arrivals>>
      BY <2>1, ZenonT(30) DEF vars, queues, reports, outside, worker
    <3> QED BY <1>0, <3>1, Zenon DEF NoSessionInv, Arrived, Known, Slot, Held
  <2> QED BY <1>0, <2>1, SessionClient, SessionSchedule, SessionUpdate, ZenonT(30) DEF Next
<1>4. OrderInv'
  <2> SUFFICES ASSUME policy = "fcfs", ~connector, Sessions = {} PROVE InOrder'
    BY Zenon DEF OrderInv
  <2>1. InOrder
    BY <1>0, ZenonT(30) DEF OrderInv
  <2>2. ASSUME UNCHANGED vars PROVE InOrder'
    <3>1. UNCHANGED <<req, waiting, skipped_waiting, running, step>>
      BY <2>2, Zenon DEF vars, queues
    <3> QED BY SMTT(30), <2>1, <3>1 DEF InOrder
  <2> QED BY <1>0, <2>1, <2>2, OrderClient, OrderSchedule, OrderUpdate, Zenon DEF Next
<1> QED BY <1>1, <1>2, <1>3, <1>4, Zenon

\* With priorities, no two requests that run have arrived at the same time.
LEMMA VictimFound ==
  ASSUME ListFacts, Facts, TInv, QInv
  PROVE  VictimOK
<1>1. CASE policy = "priority"
  <2>1. Sessions = {} /\ Arrived
    BY <1>1, SchedulerAssumption, Zenon DEF QInv, NoSessionInv
  <2>2. \A r \in Elems(running) : r \in Request /\ Known(r)
    BY ZenonT(30) DEF QInv, Known, Facts, QueueTypesFact, StatusFact
  <2> QED BY <2>1, <2>2, Zenon DEF VictimOK, Arrived
<1> QED BY SMTT(30), <1>1, SchedulerAssumption DEF VictimOK

-----------------------------------------------------------------------------
(* What the invariant says.                                                 *)
LEMMA SlotsFit ==
  ASSUME ListFacts, Facts, Sessions = {}, TInv, QInv
  PROVE  SlotsCounted /\ SlotForEveryRequest
<1>1. /\ running \in Seq(Request) /\ Injective(running) /\ Held \subseteq Request
      /\ \A r \in Request : Slot(r)
  BY DEF QInv, QueueInv, NoSessionInv, Held, TInv, SetsOK, Facts, QueueTypesFact
<1>2. Held \subseteq Elems(running)
  BY <1>1, ZenonT(30) DEF QInv, Slot, Facts, StatusFact
<1>3. IsFiniteSet(Elems(running)) /\ Cardinality(Elems(running)) = Len(running)
  BY SMTT(30), <1>1 DEF ListFacts, InjectiveLenFact
<1>4. Cardinality(Held) <= Len(running) /\ IsFiniteSet(Held)
  BY <1>2, <1>3 DEF ListFacts, SubsetFact
<1>5. Cardinality(Held) \in Nat /\ Len(running) \in Nat
  BY <1>1, <1>4, ZenonT(30) DEF ListFacts, CardinalityFact, LenFact
<1>6. num_waiting_for_streaming_input \in Nat
  BY SMTT(30), StreamsFinite DEF QInv, LoadInv, StreamingCounted, Streams
<1>7. Cardinality(Held) <= Len(running) + num_waiting_for_streaming_input
  BY <1>4, <1>5, <1>6
<1>8. SlotsCounted
  BY <1>7, ZenonT(30) DEF SlotsCounted, Held
<1> QED BY ZenonT(30), <1>8 DEF SlotForEveryRequest, QInv, NoSessionInv

LEMMA SortedConcat ==
  ASSUME ListFacts, NEW R, NEW T, NEW x \in Seq(T), NEW y \in Seq(T),
         Sorted(R, x), Sorted(R, y), Ahead(R, Elems(x), Elems(y))
  PROVE  Sorted(R, x \o y)
<1> DEFINE z == x \o y
<1>1. /\ Len(z) = Len(x) + Len(y) /\ Len(x) \in Nat /\ Len(y) \in Nat
      /\ \A i \in 1..Len(x) + Len(y) : z[i] = IF i <= Len(x) THEN x[i] ELSE y[i - Len(x)]
  BY SMTT(30) DEF ListFacts, ConcatFact, LenFact
<1> HIDE DEF z
<1>2. /\ \A i \in 1..Len(x) : x[i] \in Elems(x)
      /\ \A i \in 1..Len(y) : y[i] \in Elems(y)
  BY SMTT(30) DEF Elems
<1>3. ASSUME NEW i \in 1..Len(z), NEW j \in 1..Len(z), i < j
      PROVE  R[z[i]].arrival_time < R[z[j]].arrival_time
  <2>1. CASE j <= Len(x)
    <3>1. i \in 1..Len(x) /\ j \in 1..Len(x) /\ z[i] = x[i] /\ z[j] = x[j]
      BY SMTT(30), <1>1, <1>3, <2>1
    <3> QED BY <1>3, <3>1, ZenonT(30) DEF Sorted
  <2>2. CASE i <= Len(x) /\ Len(x) < j
    <3>1. i \in 1..Len(x) /\ j - Len(x) \in 1..Len(y) /\ z[i] = x[i] /\ z[j] = y[j - Len(x)]
      BY <1>1, <1>3, <2>2
    <3> QED BY <1>2, <3>1, ZenonT(30) DEF Ahead
  <2>3. CASE Len(x) < i
    <3>1. /\ i - Len(x) \in 1..Len(y) /\ j - Len(x) \in 1..Len(y) /\ i - Len(x) < j - Len(x)
          /\ z[i] = y[i - Len(x)] /\ z[j] = y[j - Len(x)]
      BY SMTT(30), <1>1, <1>3, <2>3
    <3> QED BY <3>1, ZenonT(30) DEF Sorted
  <2> QED BY SMTT(30), <1>1, <1>3, <2>1, <2>2, <2>3
<1>4. Sorted(R, z)
  BY <1>3, Zenon DEF Sorted
<1> QED BY <1>4, ZenonT(30) DEF z

LEMMA ServedInOrder ==
  ASSUME ListFacts, Facts, ~connector, Sessions = {}, TInv, OrderInv
  PROVE  FCFSOrder
<1>1. CASE policy = "fcfs"
  <2>1. InOrder
    BY <1>1, Zenon DEF OrderInv
  <2>2. running \in Seq(Request) /\ waiting \in Seq(Request)
    BY Zenon DEF Facts, QueueTypesFact
  <2>3. Sorted(req, running \o waiting)
    BY <2>1, <2>2, SortedConcat DEF InOrder
  <2> QED BY SMTT(30), <2>3 DEF FCFSOrder, Sorted
<1> QED BY <1>1, ZenonT(30) DEF FCFSOrder
=============================================================================
