------------------------- MODULE SchedulerInvariants -------------------------
(***************************************************************************)
(* What the proofs about the scheduler say of it: the types of its state,  *)
(* the layers of its inductive invariant, what its operators compute and   *)
(* what its actions do.  The facts of the last two parts are definitions,  *)
(* that a proof takes as a hypothesis; SchedulerTypes proves them.         *)
(***************************************************************************)
EXTENDS Scheduler, ListFacts

-----------------------------------------------------------------------------
Chunk == [len : Nat, arrival_time : Nat]

Rec ==
  [status : Statuses, arrival_time : Nat, num_prompt_tokens : Int,
   num_output_tokens : Int, num_tokens : Int, num_computed_tokens : Int,
   num_output_placeholders : Int, async_tokens_to_discard : Int,
   spec_token_ids : Int, is_prefill_chunk : BOOLEAN, last_sched_seq : Nat,
   preempted : BOOLEAN, blocks : SUBSET Block, streaming_queue : Seq(Chunk)]

Scheduled == [id : Request, n : Int, spec : Int]
InBatch   == [id : Request, n : Int, spec : Int, samples : BOOLEAN,
              blocks : SUBSET Block]
Deferred  == [fence : Nat, blocks : SUBSET Block]
Phases    == {"idle", "reset", "running", "waiting", "end", "result", "update"}

Step ==
  [phase : Phases, request : Request \cup {None}, num_new_tokens : Int,
   req_index : Int, token_budget : Int, scheduled : Seq(Scheduled) \cup Seq(InBatch),
   new : SUBSET Request, preempted : BOOLEAN, prefill_scheduled : BOOLEAN,
   skipped : Seq(Request)]

\* The fields of the requests, the queues and the blocks.
ReqOK    == req \in [Request -> Rec]
QueuesOK == waiting \in Seq(Request) /\ skipped_waiting \in Seq(Request)
            /\ running \in Seq(Request)
BlocksOK == free \in SUBSET Block /\ deferred_frees \in Seq(Deferred)
SeqsOK   == sched_step_seq \in Nat /\ processed_step_seq \in Nat
SetsOK   == /\ finished_req_ids \in SUBSET Request
            /\ reset_preempted_req_ids \in SUBSET Request
            /\ inflight_prefills \in SUBSET Request
            /\ loading \in SUBSET Request /\ loaded \in SUBSET Request
            /\ finished_recving \in SUBSET Request
            /\ occupied \in SUBSET Request
CountsOK == num_waiting_for_streaming_input \in Int /\ arrivals \in Nat /\ resets \in Nat
BatchesOK == batch_queue \in Seq(Seq(InBatch))

\* The local variables, with what the control flow says of them: a position in
\* the RUNNING loop is behind what is scheduled, a request whose allocation is
\* tried again is running, a reset has a request to preempt and an update a
\* batch to wait for.
StepOK ==
  /\ step \in Step
  /\ step.scheduled \in (IF step.phase = "update" THEN Seq(InBatch) ELSE Seq(Scheduled))
  /\ step.phase = "running" => Len(step.scheduled) < step.req_index
  /\ step.phase = "running" /\ Retry => step.request \in Elems(running)
  /\ step.phase = "reset" => running # <<>>
  /\ step.phase = "result" => batch_queue # <<>>

TInv == /\ ReqOK /\ QueuesOK /\ BlocksOK /\ SeqsOK /\ SetsOK /\ CountsOK
        /\ BatchesOK /\ StepOK

\* There is a request of lowest priority: FCFS does not look for one, and
\* otherwise no two running requests have arrived at the same time.
VictimOK ==
  \/ policy = "fcfs"
  \/ \A r, s \in Elems(running) : r # s => req[r].arrival_time # req[s].arrival_time

-----------------------------------------------------------------------------
\* The variables that most steps leave alone.
rest == <<blocks, seqs, reports, inflight_prefills, loads, occupied, batch_queue,
          num_waiting_for_streaming_input>>

\* _free_request_blocks frees the blocks of a request or defers them.
Released(r) ==
  \/ /\ free' = free \cup req[r].blocks
     /\ deferred_frees' = deferred_frees
     /\ \/ ~defer_block_free
        \/ req[r].last_sched_seq <= processed_step_seq
        \/ req[r].blocks = {}
  \/ /\ free' = free
     /\ deferred_frees' = Append(deferred_frees, [fence |-> sched_step_seq,
                                                  blocks |-> req[r].blocks])

\* A request that is over.
Gone == [NewRequest EXCEPT !.status = "GONE"]

\* allocate_slots moves blocks from the free ones to those of r, and does not
\* say where else R and the fields of r differ.
Allocated(r, R) ==
  /\ \E new \in SUBSET free : /\ free' = free \ new
                              /\ req'[r].blocks = R.blocks \cup new
  /\ deferred_frees' = deferred_frees
  /\ req'[r].status = R.status /\ req'[r].arrival_time = R.arrival_time
  /\ req'[r].last_sched_seq = R.last_sched_seq
  /\ req'[r].num_computed_tokens = R.num_computed_tokens
  /\ \A s \in Request : s # r => req'[s] = req[s]

\* A request gets a status and a number of computed tokens.
Updated(R, s, c) == [R EXCEPT !.status = s, !.num_computed_tokens = c]

-----------------------------------------------------------------------------
\* A block has one owner: it is free, or in one table, or deferred once.
Owned ==
  /\ \A r \in Request : \A b \in req[r].blocks :
       b \notin free /\ \A s \in Request : b \in req[s].blocks => s = r
  /\ \A i \in 1..Len(deferred_frees) : \A b \in deferred_frees[i].blocks :
       /\ b \notin free /\ \A r \in Request : b \notin req[r].blocks
       /\ \A j \in 1..Len(deferred_frees) : b \in deferred_frees[j].blocks => j = i
  /\ \A b \in Block :
       \/ b \in free
       \/ \E r \in Request : b \in req[r].blocks
       \/ \E i \in 1..Len(deferred_frees) : b \in deferred_frees[i].blocks

\* f numbers the batches in flight as sched_step_seq did.
Numbered(f) ==
  /\ f \in [0..Len(batch_queue) -> Nat]
  /\ f[0] = processed_step_seq /\ f[Len(batch_queue)] = sched_step_seq
  /\ \A i \in 1..Len(batch_queue) :
       f[i] = f[i - 1] + (IF batch_queue[i] = <<>> THEN 0 ELSE 1)
  /\ \A i, j \in 0..Len(batch_queue) : i <= j => f[i] <= f[j]

\* A block of a batch in flight is still in the table of its request, which
\* remembers that batch or a later one, or deferred until after that batch.
FencedBy(f) ==
  \A i \in 1..Len(batch_queue) : \A e \in Elems(batch_queue[i]) : \A b \in e.blocks :
    \/ b \in req[e.id].blocks /\ f[i] <= req[e.id].last_sched_seq
    \/ \E d \in 1..Len(deferred_frees) :
         b \in deferred_frees[d].blocks /\ f[i] <= deferred_frees[d].fence

Fenced ==
  /\ \A r \in Request : req[r].last_sched_seq <= sched_step_seq
  /\ \E f : Numbered(f) /\ FencedBy(f)

BInv == Owned /\ (defer_block_free => Fenced)

-----------------------------------------------------------------------------
\* Sessions whose batches overlap, and loads that begin while the batch from
\* before a reset is in flight, break what follows.
Orderly ==
  \/ max_concurrent_batches = 1
  \/ Sessions = {} /\ (MaxResets = 0 \/ ~connector)

Live   == {"RUNNING"} \cup Finished
Queued == Elems(waiting) \cup Elems(skipped_waiting) \cup Elems(step.skipped)

\* A request is in the queue of its status, once.
QueueInv ==
  /\ Injective(running) /\ Injective(waiting) /\ Injective(skipped_waiting)
  /\ Injective(step.skipped)
  /\ Elems(waiting) \cap Elems(skipped_waiting) = {}
  /\ Elems(waiting) \cap Elems(step.skipped) = {}
  /\ Elems(skipped_waiting) \cap Elems(step.skipped) = {}
  /\ \A r \in Request : r \in Elems(running) <=> req[r].status = "RUNNING"
  /\ \A r \in Request : r \in Queued <=> req[r].status \in Waiting

Distinct(q) == \A i, j \in 1..Len(q) : q[i].id = q[j].id => i = j

\* The step in progress schedules running requests, each of them once and in
\* front of its position in the RUNNING loop.
StepInv ==
  /\ step.phase \in {"idle", "reset", "result"} => step.scheduled = <<>>
  /\ step.phase \notin {"waiting", "end"} => step.skipped = <<>> /\ step.new = {}
  /\ step.phase \in {"idle", "reset"} => ~step.preempted
  /\ step.phase = "waiting" /\ step.skipped # <<>> => ~step.preempted
  /\ Distinct(step.scheduled)
  /\ step.phase \in {"running", "waiting", "end"} =>
       \A e \in Elems(step.scheduled) : e.id \in Elems(running)
  /\ step.phase = "running" =>
       /\ \A e \in Elems(step.scheduled) :
            \E j \in 1..Len(running) : running[j] = e.id /\ j < step.req_index
       /\ Retry =>
            /\ \E j \in 1..Len(running) : running[j] = step.request /\ j <= step.req_index
            /\ \A e \in Elems(step.scheduled) : e.id # step.request
  /\ step.new \subseteq Elems(running)
  /\ MaxResets = 0 => step.phase # "reset"

\* A request of a batch in flight runs, or is finished, or was preempted since
\* and waits.
InFlightOK(e) ==
  /\ req[e.id].status \in Live \cup {"PREEMPTED"}
  /\ req[e.id].status = "PREEMPTED" => e.id \in Elems(waiting)

FlightInv ==
  /\ Len(batch_queue) <= max_concurrent_batches
  /\ step.phase # "result" => Len(batch_queue) < max_concurrent_batches
  /\ \A i \in 1..Len(batch_queue) :
       /\ Distinct(batch_queue[i])
       /\ \A e \in Elems(batch_queue[i]) : InFlightOK(e)
  /\ step.phase = "update" => \A e \in Elems(step.scheduled) : InFlightOK(e)
  /\ max_concurrent_batches = 1 =>
       /\ \A i \in 1..Len(batch_queue) :
            \A e \in Elems(batch_queue[i]) : req[e.id].status \in Live
       /\ step.phase = "update" =>
            \A e \in Elems(step.scheduled) : req[e.id].status \in Live
  /\ MaxResets = 0 =>
       \A i \in 1..Len(batch_queue) : \A e \in Elems(batch_queue[i]) :
         \/ req[e.id].status \in Live
         \/ step.phase \in {"running", "waiting", "end"} /\ step.preempted
         \/ step.phase = "result" /\ i = 1

\* Loads under way, and sessions that wait.
LoadSets ==
  /\ loading \cap loaded = {}
  /\ \A r \in finished_recving : req[r].status = "REMOTE"
  /\ LoadsKeepBlocks
NoLoads   == ~connector => \A r \in Request : req[r].status \notin {"REMOTE", "FINISHED"}
NoStreams == Sessions = {} => \A r \in Request : req[r].status # "STREAMING"
LoadInv   == LoadSets /\ StreamingCounted /\ NoLoads /\ NoStreams

\* Without sessions requests keep the time of their arrival; the requests that
\* run, but for the new ones, are those that keep a slot of the model runner.
Known(r) == req[r].status \notin {"NONE", "GONE"}
Arrived ==
  /\ \A r \in Request : Known(r) => req[r].arrival_time <= arrivals
  /\ \A r, s \in Request :
       Known(r) /\ Known(s) /\ r # s => req[r].arrival_time # req[s].arrival_time

Held    == occupied \ (finished_req_ids \cup reset_preempted_req_ids)
Slot(r) ==
  /\ r \in Held => req[r].status = "RUNNING"
  /\ req[r].status = "RUNNING" => r \in Held \cup step.new
  /\ r \in finished_req_ids => req[r].status \in Finished

NoSessionInv ==
  Sessions = {} =>
    /\ Arrived
    /\ \A r \in Request : Slot(r)
    /\ Len(running) <= max_num_running_reqs
    /\ "No free indices" \notin failed /\ "no worker slot" \notin failed

\* First come, first served, without connector and sessions; R has the fields
\* of the requests.
Sorted(R, q) ==
  \A i, j \in 1..Len(q) : i < j => R[q[i]].arrival_time < R[q[j]].arrival_time
Ahead(R, S, U) == \A r \in S, s \in U : R[r].arrival_time < R[s].arrival_time

InOrder ==
  /\ skipped_waiting = <<>> /\ step.skipped = <<>>
  /\ Sorted(req, running) /\ Sorted(req, waiting)
  /\ Ahead(req, Elems(running), Elems(waiting))
OrderInv == policy = "fcfs" /\ ~connector /\ Sessions = {} => InOrder

QInv == QueueInv /\ StepInv /\ FlightInv /\ LoadInv /\ NoSessionInv /\ OrderInv

-----------------------------------------------------------------------------
\* What a step does to the blocks: nothing, or one of four things.
SameTables(S) ==
  \A r \in S : /\ req'[r].blocks = req[r].blocks
               /\ req'[r].last_sched_seq = req[r].last_sched_seq
SameBlocks == SameTables(Request) /\ UNCHANGED <<blocks, seqs, batch_queue>>
Allocates(r) ==
  /\ \E new \in SUBSET free : free' = free \ new /\ req'[r].blocks = req[r].blocks \cup new
  /\ req'[r].last_sched_seq = req[r].last_sched_seq
  /\ SameTables(Request \ {r})
  /\ UNCHANGED <<deferred_frees, seqs, batch_queue>>
Releases(r) ==
  /\ Released(r)
  /\ req'[r].blocks = {} /\ req'[r].last_sched_seq <= req[r].last_sched_seq
  /\ SameTables(Request \ {r})
  /\ UNCHANGED <<seqs, batch_queue>>

-----------------------------------------------------------------------------
\* What the operators of the model compute, in a state of the right types.
GoneFact ==
  /\ Gone \in Rec /\ NewRequest \in Rec
  /\ Gone.status = "GONE" /\ Gone.blocks = {} /\ Gone.arrival_time = 0
  /\ Gone.last_sched_seq = 0 /\ Gone.num_computed_tokens = 0 /\ Gone.streaming_queue = <<>>

UpdatedFact ==
  \A R \in Rec, s \in Statuses, c \in Int :
    /\ Updated(R, s, c) \in Rec
    /\ Updated(R, s, c).status = s /\ Updated(R, s, c).num_computed_tokens = c
    /\ Updated(R, s, c).blocks = R.blocks
    /\ Updated(R, s, c).arrival_time = R.arrival_time
    /\ Updated(R, s, c).last_sched_seq = R.last_sched_seq

ElemsFact ==
  \A T : \A q \in Seq(T) : Elems(q) \subseteq T /\ (q # <<>> => q[Len(q)] \in Elems(q))

RemoveFact ==
  \A q \in Seq(Request), r \in Request :
    /\ remove_all(q, {r}) \in Seq(Request)
    /\ Elems(remove_all(q, {r})) = Elems(q) \ {r}
    /\ Injective(q) => Injective(remove_all(q, {r}))

AddOneFact ==
  \A R : \A q \in Seq(Request), r \in Request :
    /\ add_request(R, q, r) \in Seq(Request)
    /\ Elems(add_request(R, q, r)) = Elems(q) \cup {r}
    /\ Injective(q) /\ r \notin Elems(q) => Injective(add_request(R, q, r))

PrependOneFact ==
  \A q \in Seq(Request), r \in Request :
    /\ prepend_request(q, r) \in Seq(Request)
    /\ Elems(prepend_request(q, r)) = Elems(q) \cup {r}
    /\ Injective(q) /\ r \notin Elems(q) => Injective(prepend_request(q, r))

PrependAllFact ==
  \A q \in Seq(Request), s \in Seq(Request) :
    /\ prepend_requests(q, s) \in Seq(Request)
    /\ Elems(prepend_requests(q, s)) = Elems(q) \cup Elems(s)
    /\ Injective(q) /\ Injective(s) /\ Elems(q) \cap Elems(s) = {}
         => Injective(prepend_requests(q, s))

PeekFact ==
  InWaitingLoop =>
    /\ step.phase = "waiting" /\ peek_request \in Request
    /\ pop_request => waiting' \in Seq(Request) /\ skipped_waiting' \in Seq(Request)
    /\ \/ /\ FromSkipped /\ skipped_waiting # <<>>
          /\ peek_request = Head(skipped_waiting)
          /\ pop_request => waiting' = waiting /\ skipped_waiting' = Tail(skipped_waiting)
       \/ /\ ~FromSkipped /\ waiting # <<>> /\ peek_request = Head(waiting)
          /\ pop_request => waiting' = Tail(waiting) /\ skipped_waiting' = skipped_waiting

CurrentFact ==
  InRunningLoop =>
    /\ step.phase = "running" /\ running # <<>> /\ Len(running) \in Nat \ {0}
    /\ Current \in Elems(running) /\ Current \in Request
    /\ NumNewTokens \in Int
    /\ ~Retry => step.req_index \in 1..Len(running) /\ step.token_budget > 0

UnscheduledFact ==
  \A v \in Request :
    step \in Step /\ step.scheduled \in Seq(Scheduled) /\ Len(step.scheduled) < step.req_index =>
      LET x == Unscheduled(v)
      IN /\ x \in Step /\ x.scheduled \in Seq(Scheduled)
         /\ Elems(x.scheduled) = {e \in Elems(step.scheduled) : e.id # v}
         /\ Len(x.scheduled) < x.req_index
         /\ \/ x = step
            \/ /\ \E S : x.scheduled = Keep(step.scheduled, S)
               /\ \E e \in Elems(step.scheduled) : e.id = v
               /\ x.req_index = step.req_index - 1
         /\ x.phase = step.phase /\ x.new = step.new /\ x.skipped = step.skipped

EntryFact ==
  InUpdateLoop =>
    /\ step.phase = "update" /\ step.scheduled \in Seq(InBatch)
    /\ step.scheduled # <<>>
    /\ Entry \in InBatch /\ Entry.id \in Request /\ req[Entry.id] \in Rec
    /\ Tail(step.scheduled) \in Seq(InBatch)
    /\ NextEntry => /\ StepOK' /\ step'.phase = "update"
                    /\ step'.scheduled = Tail(step.scheduled)
                    /\ step'.skipped = step.skipped

NoElemsFact ==
  \A T : \A q \in Seq(T) : Elems(q) = {} <=> q = <<>>

QueueTypesFact ==
  /\ waiting \in Seq(Request) /\ skipped_waiting \in Seq(Request)
  /\ running \in Seq(Request) /\ step.skipped \in Seq(Request)
  /\ Elems(running) \subseteq Request /\ Queued \subseteq Request

StatusFact ==
  \A r \in Request : QueueInv =>
    /\ r \in Elems(running) => r \notin Queued
    /\ r \in Elems(running) <=> req[r].status = "RUNNING"
    /\ r \in Queued <=> req[r].status \in Waiting
    /\ req[r].status \in Statuses

PopFact ==
  QueueInv /\ InWaitingLoop /\ pop_request =>
    LET r == peek_request
    IN /\ r \in Queued /\ r \notin Elems(step.skipped)
       /\ req[r].status \in Waiting
       /\ Injective(waiting') /\ Elems(waiting') = Elems(waiting) \ {r}
       /\ Injective(skipped_waiting')
       /\ Elems(skipped_waiting') = Elems(skipped_waiting) \ {r}

EntryElemFact ==
  FlightInv /\ InUpdateLoop =>
    /\ Entry \in Elems(step.scheduled) /\ Entry.id \in Request
    /\ InFlightOK(Entry)
    /\ max_concurrent_batches = 1 => req[Entry.id].status \in Live

BatchEntryFact ==
  \A i \in 1..Len(batch_queue) : \A e \in Elems(batch_queue[i]) :
    /\ batch_queue[i] \in Seq(InBatch) /\ batch_queue[i] # <<>>
    /\ e \in InBatch /\ e.id \in Request /\ e.blocks \in SUBSET Block

DistinctTailFact ==
  \A q \in Seq(InBatch) : q # <<>> /\ Distinct(q) =>
    /\ Distinct(Tail(q)) /\ Elems(Tail(q)) \subseteq Elems(q)
    /\ \A e \in Elems(Tail(q)) : e.id # Head(q).id

Facts ==
  /\ GoneFact /\ UpdatedFact /\ ElemsFact /\ RemoveFact /\ AddOneFact
  /\ PrependOneFact /\ PrependAllFact /\ PeekFact /\ CurrentFact
  /\ UnscheduledFact /\ EntryFact /\ NoElemsFact /\ QueueTypesFact /\ StatusFact
  /\ PopFact /\ EntryElemFact /\ BatchEntryFact /\ DistinctTailFact

-----------------------------------------------------------------------------
\* What the actions do, from a state of the right types.
AddRequestEffect ==
  \A r \in Request, len \in PromptLens : AddRequest(r, len) =>
    /\ TInv'
    /\ \A s \in Request : s # r => req'[s] = req[s]
    /\ req'[r] = [req[r] EXCEPT !.status = "WAITING", !.arrival_time = arrivals + 1,
                                !.num_prompt_tokens = len, !.num_tokens = len]

AddChunkEffect ==
  \A r \in Request, len \in PromptLens \cup {0} : AddChunk(r, len) =>
    /\ TInv'
    /\ \A s \in Request : s # r => req'[s] = req[s]
    /\ \/ /\ req[r].status # "STREAMING"
          /\ req'[r].status = req[r].status /\ req'[r].blocks = req[r].blocks
          /\ req'[r].last_sched_seq = req[r].last_sched_seq
          /\ req'[r].num_computed_tokens = req[r].num_computed_tokens
          /\ UNCHANGED <<blocks, queues, finished_req_ids,
                         num_waiting_for_streaming_input>>
       \/ /\ req[r].status = "STREAMING"
          /\ num_waiting_for_streaming_input' = NoLongerStreaming(r)
          /\ \/ /\ req'[r].status = "WAITING" /\ req'[r].blocks = req[r].blocks
                /\ req'[r].last_sched_seq = req[r].last_sched_seq
                /\ req'[r].num_computed_tokens = req[r].num_computed_tokens
                /\ UNCHANGED <<blocks, queues, finished_req_ids>>
             \/ /\ req'[r] = Gone /\ Released(r)
                /\ skipped_waiting' = remove_all(skipped_waiting, {r})
                /\ waiting' = remove_all(waiting, {r})
                /\ running' = running
                /\ finished_req_ids' = finished_req_ids \cup {r}

AbortEffect ==
  \A r \in Request : Abort(r) =>
    /\ TInv'
    /\ \A s \in Request : s # r => req'[s] = req[s]
    /\ IF req[r].status = "REMOTE" /\ r \notin finished_recving
       THEN /\ req'[r] = [req[r] EXCEPT !.status = "FINISHED"]
            /\ free' = free /\ deferred_frees' = deferred_frees
       ELSE req'[r] = Gone /\ Released(r)
    /\ finished_req_ids' = finished_req_ids \cup {r}

ControlEffect ==
  (\/ StartReset
   \/ \E state \in PauseStates \cup {"UNPAUSED"} : set_pause_state(state)
   \/ StartSchedule \/ SkipRunning \/ EndRunning
   \/ \E ext \in 0..max_model_len : StopWaiting(ext)
   \/ EndUpdate) => TInv' /\ UNCHANGED <<req, queues, rest, arrivals, failed>>

ResetRunningEffect ==
  ResetRunning =>
    LET r == running[Len(running)]
    IN /\ TInv' /\ r \in Request /\ r \in Elems(running) /\ running # <<>>
       /\ \A s \in Request : s # r => req'[s] = req[s]
       /\ Released(r) /\ req'[r].status = "PREEMPTED" /\ req'[r].blocks = {}
       /\ req'[r].arrival_time = req[r].arrival_time
       /\ req'[r].last_sched_seq = req[r].last_sched_seq
       /\ waiting' = prepend_request(waiting, r)
       /\ reset_preempted_req_ids' = reset_preempted_req_ids \cup {r}
       /\ step.phase = "reset"

PreemptRunningEffect ==
  VictimOK /\ PreemptRunning =>
    /\ TInv' /\ Victim \in Request /\ Victim \in Elems(running)
    /\ \A s \in Request : s # Victim => req'[s] = req[s]
    /\ Released(Victim) /\ req'[Victim].status = "PREEMPTED" /\ req'[Victim].blocks = {}
    /\ req'[Victim].arrival_time = req[Victim].arrival_time
    /\ req'[Victim].last_sched_seq = req[Victim].last_sched_seq
    /\ waiting' = prepend_request(waiting, Victim)
    /\ reset_preempted_req_ids' = reset_preempted_req_ids \cup {Victim}
    /\ step.phase = "running" /\ step'.preempted
    /\ step'.phase \in {"running", "end"}
    /\ step'.phase = "running" =>
         Current # Victim /\ step'.request = Current /\ step'.num_new_tokens # 0
    /\ step'.scheduled = Unscheduled(Victim).scheduled
    /\ step'.req_index = Unscheduled(Victim).req_index
    /\ step'.new = step.new /\ step'.skipped = step.skipped

ScheduleRunningEffect ==
  ScheduleRunning =>
    /\ TInv' /\ Current \in Request /\ Current \in Elems(running)
    /\ Allocated(Current, req[Current])
    /\ step.phase = "running" /\ step'.phase = "running"
    /\ step'.num_new_tokens = 0 /\ step'.req_index = step.req_index + 1
    /\ \E e \in Scheduled : e.id = Current /\ step'.scheduled = Append(step.scheduled, e)
    /\ step'.new = step.new /\ step'.skipped = step.skipped
    /\ step'.preempted = step.preempted

SkipWaitingEffect ==
  SkipWaiting =>
    /\ TInv' /\ InWaitingLoop /\ pop_request
    /\ UNCHANGED <<req, running, rest, arrivals>>
    /\ step'.phase = "waiting" /\ step'.scheduled = step.scheduled
    /\ step'.skipped = Append(step.skipped, peek_request)
    /\ step'.new = step.new /\ step'.preempted = step.preempted

PromoteLoadedEffect ==
  PromoteLoaded =>
    LET r == peek_request
    IN /\ TInv' /\ InWaitingLoop /\ r \in Request
       /\ UNCHANGED <<queues, blocks, seqs, reports, num_waiting_for_streaming_input,
                      inflight_prefills, loading, loaded, step, occupied, batch_queue,
                      arrivals>>
       /\ req[r].status = "REMOTE" /\ r \in finished_recving
       /\ req'[r].status \in {"WAITING", "PREEMPTED"}
       /\ req'[r].blocks = req[r].blocks
       /\ req'[r].last_sched_seq = req[r].last_sched_seq
       /\ req'[r].arrival_time = req[r].arrival_time
       /\ finished_recving' = finished_recving \ {r}
       /\ \A s \in Request : s # r => req'[s] = req[s]

ScheduleWaitingEffect ==
  \A ext \in 0..max_model_len : ScheduleWaiting(ext) =>
    LET r == peek_request
    IN /\ TInv' /\ InWaitingLoop /\ r \in Request /\ pop_request
       /\ req[r].status \notin Blocked
       /\ \E c \in Int : Allocated(r, Updated(req[r], "RUNNING", c))
       /\ running' = Append(running, r)
       /\ UNCHANGED <<deferred_frees, seqs, reports, num_waiting_for_streaming_input,
                      loads, arrivals, occupied, batch_queue>>
       /\ step'.phase = "waiting" /\ step'.new = step.new \cup {r}
       /\ step'.skipped = step.skipped /\ step'.preempted = step.preempted
       /\ \E e \in Scheduled : e.id = r /\ step'.scheduled = Append(step.scheduled, e)

StartLoadEffect ==
  \A ext \in 0..max_model_len : StartLoad(ext) =>
    LET r == peek_request
    IN /\ TInv' /\ InWaitingLoop /\ r \in Request /\ pop_request
       /\ req[r].status \notin Blocked
       /\ Allocated(r, Updated(req[r], "REMOTE", ext))
       /\ req[r].blocks \cap free = {} =>
            cdiv(ext, block_size) <= Cardinality(req'[r].blocks)
       /\ loading' = loading \cup {r}
       /\ UNCHANGED <<running, deferred_frees, seqs, reports, loaded, finished_recving,
                      num_waiting_for_streaming_input, arrivals, occupied, batch_queue>>
       /\ step'.phase = "waiting" /\ step'.new = step.new
       /\ step'.skipped = Append(step.skipped, r)
       /\ step'.preempted = step.preempted /\ step'.scheduled = step.scheduled

EndScheduleEffect ==
  EndSchedule =>
    LET ids == {e.id : e \in Elems(step.scheduled)}
    IN /\ TInv'
       /\ step.phase \in {"end", "waiting"} /\ step.scheduled \in Seq(Scheduled)
       /\ \A r \in Request :
            /\ req'[r].status = req[r].status /\ req'[r].blocks = req[r].blocks
            /\ req'[r].arrival_time = req[r].arrival_time
            /\ r \notin ids => req'[r] = req[r]
            /\ r \in ids => req'[r].last_sched_seq =
                 (IF defer_block_free THEN sched_step_seq' ELSE req[r].last_sched_seq)
       /\ sched_step_seq' = IF defer_block_free /\ step.scheduled # <<>>
                            THEN sched_step_seq + 1 ELSE sched_step_seq
       /\ Batch \in Seq(InBatch) /\ Len(Batch) = Len(step.scheduled)
       /\ \A i \in 1..Len(Batch) :
            /\ Batch[i].id = step.scheduled[i].id
            /\ Batch[i].blocks = req[Batch[i].id].blocks
       /\ batch_queue' = Append(batch_queue, Batch)
       /\ skipped_waiting' = prepend_requests(skipped_waiting, step.skipped)
       /\ finished_req_ids' = {} /\ reset_preempted_req_ids' = {}
       /\ occupied' = add_requests
       /\ UNCHANGED <<waiting, running, blocks, processed_step_seq, arrivals, loads,
                      num_waiting_for_streaming_input>>
       /\ step' = [Idle EXCEPT !.phase = step'.phase]
       /\ step'.phase \in {"idle", "result"}
       /\ step'.phase = "idle" => Len(batch_queue') < max_concurrent_batches

BeginUpdateEffect ==
  BeginUpdate =>
    /\ TInv' /\ batch_queue # <<>> /\ batch_queue' = Tail(batch_queue)
    /\ step.phase = "result" /\ step'.phase = "update"
    /\ step'.scheduled = Head(batch_queue) /\ step'.skipped = <<>>
    /\ processed_step_seq' = (IF defer_block_free /\ Head(batch_queue) # <<>>
                              THEN processed_step_seq + 1 ELSE processed_step_seq)
    /\ \E k \in 0..Len(deferred_frees) :
         /\ \A i \in 1..k : deferred_frees[i].fence <= processed_step_seq'
         /\ free' = free \cup UNION {deferred_frees[i].blocks : i \in 1..k}
         /\ deferred_frees' = SubSeq(deferred_frees, k + 1, Len(deferred_frees))
    /\ UNCHANGED <<req, queues, sched_step_seq, reports, arrivals, loads, occupied,
                   num_waiting_for_streaming_input, inflight_prefills>>

EntryEffect ==
  (SkipEntry \/ DiscardFrame \/ \E g \in 1..1 + num_spec_tokens : AppendOutput(g)) =>
    /\ TInv' /\ InUpdateLoop /\ NextEntry
    /\ UNCHANGED <<queues, rest, arrivals>>
    /\ \A r \in Request :
         /\ req'[r].status = req[r].status /\ req'[r].blocks = req[r].blocks
         /\ req'[r].arrival_time = req[r].arrival_time
         /\ req'[r].last_sched_seq = req[r].last_sched_seq
         /\ r # Entry.id \/ req[r].status \in Finished => req'[r] = req[r]

StopRequestEffect ==
  \A g \in Int, k \in Int : StopRequest(g, k) =>
    LET r == Entry.id
    IN /\ TInv' /\ InUpdateLoop /\ NextEntry /\ r \in Request
       /\ req[r].status \notin Finished
       /\ \A s \in Request : s # r => req'[s] = req[s]
       /\ running' = IF req[r].status = "RUNNING" THEN remove_all(running, {r}) ELSE running
       /\ UNCHANGED <<seqs, reset_preempted_req_ids, loads, arrivals, occupied, batch_queue>>
       /\ \/ /\ req'[r] = Gone /\ Released(r)
             /\ waiting' = RemoveStopped(waiting, r)
             /\ finished_req_ids' = finished_req_ids \cup {r}
             /\ UNCHANGED <<skipped_waiting, num_waiting_for_streaming_input>>
          \/ /\ r \in Sessions /\ req'[r].status = "WAITING"
             /\ req'[r].blocks = req[r].blocks
             /\ req'[r].last_sched_seq = req[r].last_sched_seq
             /\ waiting' = RemoveStopped(add_request(req', waiting, r), r)
             /\ UNCHANGED <<skipped_waiting, blocks, finished_req_ids,
                            num_waiting_for_streaming_input>>
          \/ /\ r \in Sessions /\ req'[r].status = "STREAMING"
             /\ req'[r].blocks = req[r].blocks
             /\ req'[r].last_sched_seq = req[r].last_sched_seq
             /\ num_waiting_for_streaming_input' = num_waiting_for_streaming_input + 1
             /\ skipped_waiting' = add_request(req', skipped_waiting, r)
             /\ waiting' = RemoveStopped(waiting, r)
             /\ UNCHANGED <<blocks, finished_req_ids>>

ReportLoadedEffect ==
  \A r \in Request : ReportLoaded(r) =>
    /\ TInv' /\ r \in loaded /\ step.phase = "update" /\ step.scheduled = <<>>
    /\ loaded' = loaded \ {r}
    /\ UNCHANGED <<queues, seqs, reports, num_waiting_for_streaming_input, loading,
                   step, occupied, batch_queue, arrivals>>
    /\ \A s \in Request : s # r => req'[s] = req[s]
    /\ IF req[r].status = "REMOTE"
       THEN finished_recving' = finished_recving \cup {r} /\ UNCHANGED <<req, blocks>>
       ELSE /\ req'[r] = Gone /\ Released(r) /\ finished_recving' = finished_recving

Effects ==
  /\ AddRequestEffect /\ AddChunkEffect /\ AbortEffect /\ ControlEffect
  /\ ResetRunningEffect /\ PreemptRunningEffect /\ ScheduleRunningEffect
  /\ SkipWaitingEffect /\ PromoteLoadedEffect /\ ScheduleWaitingEffect
  /\ StartLoadEffect /\ EndScheduleEffect /\ BeginUpdateEffect /\ EntryEffect
  /\ StopRequestEffect /\ ReportLoadedEffect
=============================================================================
