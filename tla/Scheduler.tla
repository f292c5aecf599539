------------------------------ MODULE Scheduler ------------------------------
(***************************************************************************)
(* Scheduler and AsyncScheduler of vllm/v1/core/sched, with the engine     *)
(* core's loop that drives them (step_with_batch_queue) and the request    *)
(* slots of the model runner at the other end.                             *)
(*                                                                         *)
(* schedule() and update_from_output() are loops over requests.  Each      *)
(* iteration is an action; step has the local variables, and nothing else  *)
(* happens between two iterations, as the engine core is one thread.       *)
(* Requests arrive, are aborted or preempted by a reset between two calls; *)
(* aborts also while the engine waits for the result of a batch.           *)
(*                                                                         *)
(* Tokens are counted, not looked at.  Prefix caching is off, so that a    *)
(* block belongs to one request at most (KVCacheManager.tla has the rest). *)
(***************************************************************************)
EXTENDS Lists, FiniteSetsExt

CONSTANTS
  Request,
  Block,
  block_size,
  max_num_running_reqs,
  max_num_scheduled_tokens,
  max_model_len,
  max_tokens,
  num_spec_tokens,
  watermark_blocks,
  async_scheduling,
  max_concurrent_batches,
  policy,               \* "fcfs" or "priority"
  priority,             \* of each request; a smaller value goes first
  connector,            \* whether a KV connector loads KV caches
  connector_defers,     \* ... and may not know yet what it can load
  Sessions,             \* the requests that are resumable
  PromptLens,           \* the lengths of prompts and of streamed chunks
  MaxArrivals,          \* bound on requests and chunks that arrive
  MaxResets,            \* bound on forced resets of the prefix cache
  PauseStates,          \* the states set_pause_state may set
  None

ASSUME SchedulerAssumption ==
  /\ IsFiniteSet(Request) /\ IsFiniteSet(Block)
  /\ block_size \in Nat \ {0}
  /\ max_num_running_reqs \in Nat \ {0}
  /\ max_num_scheduled_tokens \in Nat \ {0}
  /\ max_model_len \in Nat \ {0}
  /\ max_tokens \in Nat \ {0}
  /\ num_spec_tokens \in Nat
  /\ watermark_blocks \in Nat
  /\ async_scheduling \in BOOLEAN
  /\ max_concurrent_batches \in Nat \ {0}
  /\ max_concurrent_batches <= 2
  /\ async_scheduling => max_concurrent_batches = 2
  /\ num_spec_tokens > 0 => async_scheduling
  /\ policy \in {"fcfs", "priority"}
  /\ priority \in [Request -> Int]
  /\ connector \in BOOLEAN /\ connector_defers \in BOOLEAN
  /\ Sessions \subseteq Request
  /\ policy = "priority" => Sessions = {}
  /\ PromptLens \subseteq 1..max_model_len - 1
  /\ MaxArrivals \in Nat
  /\ MaxResets \in Nat
  /\ PauseStates \subseteq {"PAUSED_NEW", "PAUSED_ALL"}
  /\ None \notin Request

VARIABLES
  req,                               \* the fields of every request
  waiting, skipped_waiting, running,
  free,                              \* the free blocks
  deferred_frees,                    \* blocks a batch in flight may write
  sched_step_seq, processed_step_seq,
  finished_req_ids,
  reset_preempted_req_ids,
  num_waiting_for_streaming_input,
  inflight_prefills,
  loading,                           \* transfers of the connector under way
  loaded,                            \* ... over, not yet reported
  finished_recving,                  \* finished_recving_kv_req_ids
  pause_state,
  arrivals, resets,
  step,                              \* the local variables of the calls
  batch_queue,                       \* the batches in flight, oldest first
  occupied,                          \* the request slots of the model runner
  failed                             \* assertions that did not hold

queues  == <<waiting, skipped_waiting, running>>
blocks  == <<free, deferred_frees>>
seqs    == <<sched_step_seq, processed_step_seq>>
reports == <<finished_req_ids, reset_preempted_req_ids>>
loads   == <<loading, loaded, finished_recving>>
outside == <<pause_state, arrivals, resets>>
worker  == <<batch_queue, occupied>>
vars == <<req, queues, blocks, seqs, reports, num_waiting_for_streaming_input,
          inflight_prefills, loads, outside, step, worker, failed>>

Blocked  == {"REMOTE", "STREAMING"}           \* _is_blocked_waiting_status
Waiting  == {"WAITING", "PREEMPTED"} \cup Blocked
Finished == {"FINISHED", "GONE"}              \* GONE: no longer in requests
Statuses == {"NONE", "RUNNING"} \cup Waiting \cup Finished

NewRequest ==
  [status |-> "NONE", arrival_time |-> 0, num_prompt_tokens |-> 0,
   num_output_tokens |-> 0, num_tokens |-> 0, num_computed_tokens |-> 0,
   num_output_placeholders |-> 0, async_tokens_to_discard |-> 0,
   spec_token_ids |-> 0, is_prefill_chunk |-> FALSE, last_sched_seq |-> 0,
   preempted |-> FALSE, blocks |-> {}, streaming_queue |-> <<>>]

Idle ==
  [phase |-> "idle", request |-> None, num_new_tokens |-> 0, req_index |-> 1,
   token_budget |-> 0, scheduled |-> <<>>, new |-> {}, preempted |-> FALSE,
   prefill_scheduled |-> FALSE, skipped |-> <<>>]

\* A consumer connector with batches that overlap.
defer_block_free == connector /\ max_concurrent_batches > 1

\* An assert of the code: those that do not hold are remembered.
Asserted(holds, name) == IF holds THEN failed ELSE failed \cup {name}

cdiv(a, b) == (a + b - 1) \div b
AtMost(a, b)  == IF a <= b THEN a ELSE b

-----------------------------------------------------------------------------
\* Request.__lt__ with the fields R, and the two kinds of request queue.
Before(R, r, s) ==
  \/ priority[r] < priority[s]
  \/ priority[r] = priority[s] /\ R[r].arrival_time < R[s].arrival_time

Insert(R, q, r) ==
  LET k == Cardinality({i \in 1..Len(q) : Before(R, q[i], r)})
  IN SubSeq(q, 1, k) \o <<r>> \o SubSeq(q, k + 1, Len(q))

add_request(R, q, r) ==
  IF policy = "fcfs" THEN Append(q, r) ELSE Insert(R, q, r)

\* Mutant: a preempted request goes to the end of the queue.
prepend_request_last(q, r) ==
  IF policy = "fcfs" THEN Append(q, r) ELSE Insert(req, q, r)

prepend_request(q, r) ==
  IF policy = "fcfs" THEN <<r>> \o q ELSE Insert(req, q, r)

\* The requests of s, in their order, ahead of those of q.
prepend_requests(q, s) ==
  LET ahead[i \in 0..Len(s)] ==
        IF i = 0 THEN q ELSE prepend_request(ahead[i - 1], s[Len(s) + 1 - i])
  IN ahead[Len(s)]

remove_all(q, S) == Keep(q, Request \ S)

-----------------------------------------------------------------------------
requests == {r \in Request : req[r].status \notin {"NONE", "GONE"}}

get_num_unfinished_requests ==
  CASE pause_state = "PAUSED_ALL" -> 0
    [] pause_state = "PAUSED_NEW" -> Len(running)
    [] OTHER -> Len(waiting) + Len(skipped_waiting)
                - num_waiting_for_streaming_input + Len(running)

\* Mutant: aborted loads are forgotten.
has_unreported_requests == finished_req_ids # {}

has_finished_requests ==
  \/ finished_req_ids # {}
  \/ connector /\ Cardinality(requests) >
                    Len(waiting) + Len(skipped_waiting) + Len(running)

has_requests == get_num_unfinished_requests > 0 \/ has_finished_requests

\* Mutant: the last block is one that is full.
needed_full_blocks(r, n) ==
  LET m == AtMost(n, max_model_len) \div block_size - Cardinality(req[r].blocks)
  IN IF m > 0 THEN m ELSE 0

\* The blocks that r still needs for n tokens, and whether they are there.
Needed(r, n) ==
  LET m == cdiv(AtMost(n, max_model_len), block_size) - Cardinality(req[r].blocks)
  IN IF m > 0 THEN m ELSE 0

Fits(r, n, headroom) == Needed(r, n) + headroom <= Cardinality(free)

\* allocate_slots, once the blocks are known to be there: r has slots for n
\* tokens, and its other fields become those of R.
Allocate(r, n, R) ==
  LET new == CHOOSE S \in SUBSET free : Cardinality(S) = Needed(r, n)
  IN /\ free' = free \ new
     /\ req' = [req EXCEPT ![r] = [R EXCEPT !.blocks = @ \cup new]]

_inflight_prefill_reserved_blocks ==
  MapThenSumSet(LAMBDA r : Needed(r, req[r].num_tokens), inflight_prefills)

\* Mutant: at once, whatever is in flight.
free_request_blocks_at_once(r) ==
  /\ free' = free \cup req[r].blocks
  /\ UNCHANGED deferred_frees

\* Mutant: at once, and again after the batches in flight.
free_request_blocks_twice(r) ==
  /\ free' = free \cup req[r].blocks
  /\ deferred_frees' = Append(deferred_frees, [fence |-> sched_step_seq,
                                               blocks |-> req[r].blocks])

\* _free_request_blocks: at once, unless a batch in flight may write them.
_free_request_blocks(r) ==
  LET now == ~defer_block_free \/ req[r].last_sched_seq <= processed_step_seq
  IN /\ free' = IF now THEN free \cup req[r].blocks ELSE free
     /\ deferred_frees' =
          IF now \/ req[r].blocks = {} THEN deferred_frees
          ELSE Append(deferred_frees, [fence |-> sched_step_seq,
                                       blocks |-> req[r].blocks])

\* Mutant: the workers are not told.
preempt_request_unreported(r, R) ==
  /\ _free_request_blocks(r)
  /\ req' = [req EXCEPT ![r] =
       [R EXCEPT !.status = "PREEMPTED", !.num_computed_tokens = 0,
                 !.spec_token_ids = 0, !.preempted = TRUE, !.blocks = {}]]
  /\ inflight_prefills' = inflight_prefills \ {r}
  /\ waiting' = prepend_request(waiting, r)
  /\ UNCHANGED reset_preempted_req_ids

\* _preempt_request of a request that was taken out of running; its fields
\* are R but for those set here.
_preempt_request(r, R) ==
  /\ _free_request_blocks(r)
  /\ req' = [req EXCEPT ![r] =
       [R EXCEPT !.status = "PREEMPTED", !.num_computed_tokens = 0,
                 !.spec_token_ids = 0, !.preempted = TRUE, !.blocks = {}]]
  /\ inflight_prefills' = inflight_prefills \ {r}
  /\ waiting' = prepend_request(waiting, r)
  /\ reset_preempted_req_ids' = reset_preempted_req_ids \cup {r}

\* Mutant: the blocks are freed while the connector still writes them.
free_request_undelayed(r, delay_free_blocks) ==
  /\ inflight_prefills' = inflight_prefills \ {r}
  /\ finished_req_ids' = finished_req_ids \cup {r}
  /\ req' = [req EXCEPT ![r] = [NewRequest EXCEPT !.status = "GONE"]]
  /\ _free_request_blocks(r)

\* _free_request and, unless delayed, _free_blocks.
_free_request(r, delay_free_blocks) ==
  /\ inflight_prefills' = inflight_prefills \ {r}
  /\ finished_req_ids' = finished_req_ids \cup {r}
  /\ IF delay_free_blocks
     THEN /\ req' = [req EXCEPT ![r].status = "FINISHED"]
          /\ UNCHANGED blocks
     ELSE /\ req' = [req EXCEPT ![r] = [NewRequest EXCEPT !.status = "GONE"]]
          /\ _free_request_blocks(r)

\* Mutant: the session does not become WAITING.
update_request_keeping_status(R, update) ==
  LET kept == AtMost(R.num_tokens, R.num_computed_tokens)
      out  == kept - AtMost(kept, R.num_prompt_tokens)
  IN [R EXCEPT !.num_tokens = kept + update.len,
               !.num_prompt_tokens = @ + out + update.len,
               !.num_output_tokens = 0,
               !.arrival_time = update.arrival_time]

\* _update_request_as_session: the computed tokens stay, and a chunk follows.
_update_request_as_session(R, update) ==
  LET kept == AtMost(R.num_tokens, R.num_computed_tokens)
      out  == kept - AtMost(kept, R.num_prompt_tokens)
  IN [R EXCEPT !.num_tokens = kept + update.len,
               !.num_prompt_tokens = @ + out + update.len,
               !.num_output_tokens = 0,
               !.arrival_time = update.arrival_time,
               !.status = "WAITING"]

\* Mutant: the counter is not decremented.
still_streaming(r) == num_waiting_for_streaming_input

\* num_waiting_for_streaming_input once r does not wait for input any more.
NoLongerStreaming(r) ==
  num_waiting_for_streaming_input - (IF req[r].status = "STREAMING" THEN 1 ELSE 0)

-----------------------------------------------------------------------------
\* add_request of a request that is not known.
AddRequest(r, len) ==
  /\ step.phase = "idle"
  /\ arrivals < MaxArrivals
  /\ req[r].status = "NONE"
  /\ req' = [req EXCEPT ![r].status = "WAITING", ![r].arrival_time = arrivals + 1,
                        ![r].num_prompt_tokens = len, ![r].num_tokens = len]
  /\ waiting' = add_request(req', waiting, r)
  /\ arrivals' = arrivals + 1
  /\ UNCHANGED <<skipped_waiting, running, blocks, seqs, reports,
                 num_waiting_for_streaming_input, inflight_prefills, loads,
                 pause_state, resets, step, worker, failed>>

\* add_request of the next chunk of a session; one of length 0 is its end.
AddChunk(r, len) ==
  LET update == [len |-> len, arrival_time |-> arrivals + 1]
  IN /\ step.phase = "idle"
     /\ arrivals < MaxArrivals
     /\ r \in Sessions \cap requests
     /\ req[r].status # "FINISHED"
     /\ \A i \in 1..Len(req[r].streaming_queue) : req[r].streaming_queue[i].len > 0
     /\ arrivals' = arrivals + 1
     /\ IF req[r].status # "STREAMING"
        THEN /\ req' = [req EXCEPT ![r].streaming_queue = Append(@, update)]
             /\ UNCHANGED <<queues, blocks, finished_req_ids, inflight_prefills,
                            num_waiting_for_streaming_input>>
        ELSE /\ num_waiting_for_streaming_input' = NoLongerStreaming(r)
             /\ IF len > 0
                THEN /\ req' = [req EXCEPT ![r] = _update_request_as_session(@, update)]
                     /\ UNCHANGED <<queues, blocks, finished_req_ids, inflight_prefills>>
                ELSE /\ skipped_waiting' = remove_all(skipped_waiting, {r})
                     /\ waiting' = remove_all(waiting, {r})
                     /\ _free_request(r, FALSE)
                     /\ UNCHANGED running
     /\ UNCHANGED <<seqs, reset_preempted_req_ids, loads, pause_state, resets,
                    step, worker, failed>>

\* finish_requests for a request the client aborts, between two steps or
\* while the engine waits for a batch.
Abort(r) ==
  LET status == req[r].status
  IN /\ step.phase \in {"idle", "result"}
     /\ r \in requests
     /\ status # "FINISHED"
     /\ running' = IF status = "RUNNING" THEN remove_all(running, {r}) ELSE running
     /\ IF status = "RUNNING" THEN UNCHANGED <<waiting, skipped_waiting>>
        ELSE /\ waiting' = remove_all(waiting, {r})
             /\ skipped_waiting' = remove_all(skipped_waiting, {r})
     /\ num_waiting_for_streaming_input' = NoLongerStreaming(r)
     /\ _free_request(r, status = "REMOTE" /\ r \notin finished_recving)
     /\ finished_recving' = finished_recving \ {r}
     /\ UNCHANGED <<seqs, reset_preempted_req_ids, loading, loaded, outside, step,
                    worker, failed>>

\* Mutant: output in flight counts for the resumed request.
reset_keeping_placeholders ==
  LET r == running[Len(running)]
  IN /\ step.phase = "reset"
     /\ running' = SubSeq(running, 1, Len(running) - 1)
     /\ _preempt_request(r, [req[r] EXCEPT !.num_output_placeholders = 0])
     /\ step' = IF Len(running) = 1 THEN Idle ELSE step
     /\ UNCHANGED <<skipped_waiting, seqs, finished_req_ids,
                    num_waiting_for_streaming_input, loads, outside, worker, failed>>

\* reset_prefix_cache with reset_running_requests: every running request is
\* preempted, the last one first, and its output in flight is to be dropped.
StartReset ==
  /\ step.phase = "idle"
  /\ resets < MaxResets
  /\ running # <<>>
  /\ resets' = resets + 1
  /\ step' = [step EXCEPT !.phase = "reset"]
  /\ UNCHANGED <<req, queues, blocks, seqs, reports, num_waiting_for_streaming_input,
                 inflight_prefills, loads, pause_state, arrivals, worker, failed>>

ResetRunning ==
  LET r == running[Len(running)]
  IN /\ step.phase = "reset"
     /\ running' = SubSeq(running, 1, Len(running) - 1)
     /\ _preempt_request(r, [req[r] EXCEPT
          !.async_tokens_to_discard = req[r].num_output_placeholders,
          !.num_output_placeholders = 0])
     /\ step' = IF Len(running) = 1 THEN Idle ELSE step
     /\ UNCHANGED <<skipped_waiting, seqs, finished_req_ids,
                    num_waiting_for_streaming_input, loads, outside, worker, failed>>

set_pause_state(state) ==
  /\ step.phase = "idle"
  /\ pause_state # state
  /\ pause_state' = state
  /\ UNCHANGED <<req, queues, blocks, seqs, reports, num_waiting_for_streaming_input,
                 inflight_prefills, loads, arrivals, resets, step, worker, failed>>

\* The connector of a worker is done with a load.
LoadDone(r) ==
  /\ step.phase \in {"idle", "result"}
  /\ r \in loading
  /\ loading' = loading \ {r}
  /\ loaded' = loaded \cup {r}
  /\ UNCHANGED <<req, queues, blocks, seqs, reports, num_waiting_for_streaming_input,
                 inflight_prefills, finished_recving, outside, step, worker, failed>>

-----------------------------------------------------------------------------
\* step_with_batch_queue: schedule if there is anything to schedule or to tell
\* the workers, else wait for the oldest batch.
StartSchedule ==
  /\ step.phase = "idle"
  /\ \/ /\ has_requests
        /\ step' = [Idle EXCEPT
             !.phase = "running",
             !.token_budget = IF pause_state = "PAUSED_ALL" THEN 0
                              ELSE max_num_scheduled_tokens]
     \/ /\ ~has_requests
        /\ batch_queue # <<>>
        /\ step' = [Idle EXCEPT !.phase = "result"]
  /\ UNCHANGED <<req, queues, blocks, seqs, reports, num_waiting_for_streaming_input,
                 inflight_prefills, loads, outside, worker, failed>>

\* The request the RUNNING loop is at, and the number of tokens to schedule:
\* the one whose allocation failed, or the next one of running.
Retry         == step.num_new_tokens # 0
InRunningLoop == /\ step.phase = "running"
                 /\ \/ Retry
                    \/ step.req_index <= Len(running) /\ step.token_budget > 0
Current       == IF Retry THEN step.request ELSE running[step.req_index]

\* Mutant: no bound on the position.
num_new_tokens_unbounded ==
  LET R == req[Current]
  IN IF Retry THEN step.num_new_tokens
     ELSE AtMost(R.num_tokens + R.spec_token_ids + R.num_output_placeholders
                   - R.num_computed_tokens, step.token_budget)

NumNewTokens ==
  LET R == req[Current]
      n == Min({R.num_tokens + R.spec_token_ids + R.num_output_placeholders
                  - R.num_computed_tokens,
                step.token_budget,
                max_model_len - R.num_computed_tokens - 1})
  IN IF Retry THEN step.num_new_tokens
     ELSE IF /\ R.num_output_placeholders > 0
             /\ R.num_computed_tokens + 2 - R.num_output_placeholders
                  >= R.num_prompt_tokens + max_tokens
     THEN 0       \* the batch in flight reaches max_tokens
     ELSE n

Slots(r, n) == req[r].num_computed_tokens + n + num_spec_tokens

SkipRunning ==
  /\ InRunningLoop
  /\ NumNewTokens = 0
  /\ step' = [step EXCEPT !.req_index = @ + 1]
  /\ UNCHANGED <<req, queues, blocks, seqs, reports, num_waiting_for_streaming_input,
                 inflight_prefills, loads, outside, worker, failed>>

ScheduleRunning ==
  LET r     == Current
      n     == NumNewTokens
      extra == n + req[r].num_computed_tokens - req[r].num_tokens
                 - req[r].num_output_placeholders
      spec  == IF extra > 0 THEN AtMost(req[r].spec_token_ids, extra) ELSE 0
  IN /\ InRunningLoop
     /\ n # 0
     /\ Fits(r, Slots(r, n), 0)
     /\ Allocate(r, Slots(r, n), [req[r] EXCEPT !.spec_token_ids = 0])
     /\ step' = [step EXCEPT
          !.scheduled = Append(@, [id |-> r, n |-> n, spec |-> spec]),
          !.prefill_scheduled = @ \/ req[r].is_prefill_chunk,
          !.token_budget = @ - n, !.req_index = @ + 1,
          !.request = None, !.num_new_tokens = 0]
     /\ UNCHANGED <<queues, deferred_frees, seqs, reports,
                    num_waiting_for_streaming_input, inflight_prefills, loads,
                    outside, worker, failed>>

\* The request to preempt: the last one admitted, or that of lowest priority.
Victim ==
  IF policy = "fcfs" THEN running[Len(running)]
  ELSE CHOOSE v \in Elems(running) : \A r \in Elems(running) \ {v} : Before(req, r, v)

\* Mutant: the entry of the preempted request stays in the batch.
unscheduled_in_batch(v) == step

\* A request that this step has scheduled already gives its tokens back.
Unscheduled(v) ==
  LET entries == {e \in Elems(step.scheduled) : e.id = v}
  IN IF entries = {} THEN step
     ELSE [step EXCEPT
             !.scheduled = Keep(@, Elems(@) \ entries),
             !.token_budget = @ + (CHOOSE e \in entries : TRUE).n,
             !.req_index = @ - 1]

\* There are not enough blocks: one request is preempted and the allocation is
\* tried again, unless it is the request itself.
PreemptRunning ==
  LET r    == Current
      n    == NumNewTokens
      rest == Unscheduled(Victim)
  IN /\ InRunningLoop
     /\ n # 0
     /\ ~Fits(r, Slots(r, n), 0)
     /\ running' = remove_all(running, {Victim})
     /\ _preempt_request(Victim, req[Victim])
     /\ step' = IF Victim = r
                THEN [rest EXCEPT !.phase = "end", !.preempted = TRUE,
                                  !.request = None, !.num_new_tokens = 0]
                ELSE [rest EXCEPT !.preempted = TRUE,
                                  !.request = r, !.num_new_tokens = n]
     /\ UNCHANGED <<skipped_waiting, seqs, finished_req_ids,
                    num_waiting_for_streaming_input, loads, outside, worker, failed>>

EndRunning ==
  /\ step.phase = "running"
  /\ ~InRunningLoop
  /\ step' = [step EXCEPT !.phase = "waiting"]
  /\ UNCHANGED <<req, queues, blocks, seqs, reports, num_waiting_for_streaming_input,
                 inflight_prefills, loads, outside, worker, failed>>

-----------------------------------------------------------------------------
\* Mutant: one request too many.
in_waiting_loop_at_limit ==
  /\ step.phase = "waiting"
  /\ ~step.preempted
  /\ pause_state = "UNPAUSED"
  /\ waiting # <<>> \/ skipped_waiting # <<>>
  /\ step.token_budget > 0
  /\ Len(running) + num_waiting_for_streaming_input <= max_num_running_reqs

InWaitingLoop ==
  /\ step.phase = "waiting"
  /\ ~step.preempted
  /\ pause_state = "UNPAUSED"
  /\ waiting # <<>> \/ skipped_waiting # <<>>
  /\ step.token_budget > 0
  /\ Len(running) + num_waiting_for_streaming_input < max_num_running_reqs

\* _select_waiting_queue_for_scheduling, the request it offers, and taking it.
FromSkipped ==
  IF policy = "fcfs" THEN skipped_waiting # <<>>
  ELSE \/ waiting = <<>>
       \/ /\ skipped_waiting # <<>>
          /\ ~Before(req, Head(waiting), Head(skipped_waiting))
peek_request == IF FromSkipped THEN Head(skipped_waiting) ELSE Head(waiting)
pop_request ==
  /\ waiting' = IF FromSkipped THEN waiting ELSE Tail(waiting)
  /\ skipped_waiting' = IF FromSkipped THEN Tail(skipped_waiting) ELSE skipped_waiting

\* The request is blocked, or the connector cannot tell yet what it may load.
SkipWaiting ==
  LET r == peek_request
  IN /\ InWaitingLoop
     /\ \/ req[r].status = "STREAMING"
        \/ req[r].status = "REMOTE" /\ r \notin finished_recving
        \/ /\ connector /\ connector_defers
           /\ req[r].status \notin Blocked /\ req[r].num_computed_tokens = 0
     /\ pop_request
     /\ step' = [step EXCEPT !.skipped = Append(@, r)]
     /\ failed' = Asserted(req[r].status = "STREAMING" => req[r].streaming_queue = <<>>,
                         "streaming_queue")
     /\ UNCHANGED <<req, running, blocks, seqs, reports,
                    num_waiting_for_streaming_input, inflight_prefills, loads,
                    outside, worker>>

\* _try_promote_blocked_waiting_request of a request whose KV cache is there.
PromoteLoaded ==
  LET r == peek_request
      R == req[r]
  IN /\ InWaitingLoop
     /\ R.status = "REMOTE"
     /\ r \in finished_recving
     /\ req' = [req EXCEPT
          ![r].num_computed_tokens = IF @ = R.num_tokens THEN @ - 1 ELSE @,
          ![r].status = IF R.preempted THEN "PREEMPTED" ELSE "WAITING"]
     /\ finished_recving' = finished_recving \ {r}
     /\ UNCHANGED <<queues, blocks, seqs, reports, num_waiting_for_streaming_input,
                    inflight_prefills, loading, loaded, outside, step, worker, failed>>

\* The tokens a connector has for the request, beyond those it has itself.
External(r) ==
  IF connector /\ req[r].num_computed_tokens = 0 THEN 0..req[r].num_tokens ELSE {0}

\* Whether a new decode is padded to the size of the others of the batch.
pad_spec_decode(r, computed) ==
  /\ num_spec_tokens > 0
  /\ req[r].num_tokens - computed = 1
  /\ \E i \in 1..Len(step.scheduled) : step.scheduled[i].id \notin step.new
  /\ ~step.prefill_scheduled

WaitingTokens(r, computed) ==
  IF pad_spec_decode(r, computed) THEN 1 + num_spec_tokens
  ELSE AtMost(req[r].num_tokens - computed, step.token_budget)

\* Whether allocate_slots gives a waiting request slots for n tokens.
Admissible(r, n, reserved) ==
  LET headroom == IF running = <<>> THEN 0 ELSE watermark_blocks
  IN Fits(r, req[r].num_tokens, headroom) /\ Fits(r, n, headroom + reserved)

CanStart(r, computed) ==
  LET n == WaitingTokens(r, computed)
  IN /\ pad_spec_decode(r, computed) =>
          n <= step.token_budget /\ computed + n <= max_model_len
     /\ Admissible(r, computed + n + num_spec_tokens, 0)

CanLoad(r, ext) == Admissible(r, ext, _inflight_prefill_reserved_blocks)

\* The request is admitted; the connector loads ext tokens within the step.
ScheduleWaiting(ext) ==
  LET r        == peek_request
      computed == req[r].num_computed_tokens + ext
      n        == WaitingTokens(r, computed)
      spec     == IF pad_spec_decode(r, computed) THEN num_spec_tokens ELSE 0
  IN /\ InWaitingLoop
     /\ req[r].status \notin Blocked
     /\ ext \in External(r) \ {req[r].num_tokens}
     /\ CanStart(r, computed)
     /\ Allocate(r, computed + n + num_spec_tokens,
                 [req[r] EXCEPT !.status = "RUNNING", !.num_computed_tokens = computed])
     /\ pop_request
     /\ running' = Append(running, r)
     /\ inflight_prefills' = IF computed + n < req[r].num_tokens
                             THEN inflight_prefills \cup {r} ELSE inflight_prefills
     /\ step' = [step EXCEPT
          !.scheduled = Append(@, [id |-> r, n |-> n, spec |-> spec]),
          !.new = @ \cup {r}, !.token_budget = @ - n]
     /\ failed' = Asserted(n > 0, "num_new_tokens")
     /\ UNCHANGED <<deferred_frees, seqs, reports, num_waiting_for_streaming_input,
                    loads, outside, worker>>

\* The connector loads ext tokens while the request waits.
StartLoad(ext) ==
  LET r == peek_request
  IN /\ InWaitingLoop
     /\ req[r].status \notin Blocked
     /\ ext \in External(r) \ {0}
     /\ CanLoad(r, ext)
     /\ Allocate(r, ext,
                 [req[r] EXCEPT !.status = "REMOTE", !.num_computed_tokens = ext])
     /\ pop_request
     /\ inflight_prefills' = inflight_prefills \cup {r}
     /\ loading' = loading \cup {r}
     /\ step' = [step EXCEPT !.skipped = Append(@, r)]
     /\ UNCHANGED <<running, deferred_frees, seqs, reports, loaded, finished_recving,
                    num_waiting_for_streaming_input, outside, worker, failed>>

\* The first request that cannot be admitted ends the loop.
StopWaiting(ext) ==
  LET r == peek_request
  IN /\ InWaitingLoop
     /\ req[r].status \notin Blocked
     /\ ext \in External(r)
     /\ \/ /\ ext # req[r].num_tokens
           /\ ~CanStart(r, req[r].num_computed_tokens + ext)
        \/ ext # 0 /\ ~CanLoad(r, ext)
     /\ step' = [step EXCEPT !.phase = "end"]
     /\ UNCHANGED <<req, queues, blocks, seqs, reports, num_waiting_for_streaming_input,
                    inflight_prefills, loads, outside, worker, failed>>

-----------------------------------------------------------------------------
\* _update_after_schedule for an entry e of the batch.
IsPrefillChunk(e) ==
  req[e.id].num_computed_tokens + e.n
    < req[e.id].num_tokens + req[e.id].num_output_placeholders

AfterSchedule(e) ==
  LET grows == async_scheduling /\ ~IsPrefillChunk(e)
  IN [req[e.id] EXCEPT
        !.num_computed_tokens = @ + e.n,
        !.is_prefill_chunk = IsPrefillChunk(e),
        !.last_sched_seq = IF defer_block_free THEN sched_step_seq' ELSE @,
        !.num_output_placeholders = IF grows THEN @ + 1 + e.spec ELSE @,
        !.spec_token_ids = IF grows THEN num_spec_tokens ELSE @]

\* What the engine sends to the workers.
Batch ==
  [i \in 1..Len(step.scheduled) |->
     LET e == step.scheduled[i]
     IN [id |-> e.id, n |-> e.n, spec |-> e.spec,
         samples |-> ~IsPrefillChunk(e), blocks |-> req[e.id].blocks]]

\* The slots in use once the model runner knows which requests are over, and
\* once it has those that are new to it.
finish_requests == occupied \ (finished_req_ids \cup reset_preempted_req_ids)
add_requests    == finish_requests \cup step.new

\* The end of schedule, and the workers' part: update_requests looks for the
\* slots of the requests that are not new.
EndSchedule ==
  LET entries == Elems(step.scheduled)
      entry(r) == CHOOSE e \in entries : e.id = r
      ids     == {e.id : e \in entries}
      checks  == {<<step.token_budget >= 0 /\ Len(running) <= max_num_running_reqs
                      /\ Len(step.scheduled) <= Len(running), "constraints">>,
                  <<ids \ step.new \subseteq finish_requests, "no worker slot">>,
                  <<Cardinality(add_requests) <= max_num_running_reqs,
                    "No free indices">>}
  IN /\ \/ step.phase = "end"
        \/ step.phase = "waiting" /\ ~InWaitingLoop
     /\ skipped_waiting' = prepend_requests(skipped_waiting, step.skipped)
     /\ sched_step_seq' = IF defer_block_free /\ entries # {}
                          THEN sched_step_seq + 1 ELSE sched_step_seq
     /\ req' = [r \in Request |-> IF r \in ids THEN AfterSchedule(entry(r)) ELSE req[r]]
     /\ inflight_prefills' =
          inflight_prefills \ {e.id : e \in {e \in entries : ~IsPrefillChunk(e)}}
     /\ finished_req_ids' = {}
     /\ reset_preempted_req_ids' = {}
     /\ occupied' = add_requests
     /\ batch_queue' = Append(batch_queue, Batch)
     /\ failed' = failed \cup {c[2] : c \in {c \in checks : ~c[1]}}
     /\ UNCHANGED <<waiting, running, blocks, processed_step_seq, outside, loads,
                    num_waiting_for_streaming_input>>
     /\ step' = [Idle EXCEPT !.phase =
          IF Len(batch_queue') < max_concurrent_batches
             /\ (entries # {} \/ has_requests')
          THEN "idle" ELSE "result"]

-----------------------------------------------------------------------------
\* _drain_deferred_frees: blocks whose writers are all done become free.
_drain_deferred_frees(seq) ==
  LET done == {i \in 1..Len(deferred_frees) :
                 \A j \in 1..i : deferred_frees[j].fence <= seq}
  IN /\ free' = free \cup UNION {deferred_frees[i].blocks : i \in done}
     /\ deferred_frees' = SubSeq(deferred_frees, Cardinality(done) + 1,
                                 Len(deferred_frees))

\* The oldest batch is done: update_from_output begins.
BeginUpdate ==
  LET batch == Head(batch_queue)
      seq   == IF defer_block_free /\ batch # <<>>
               THEN processed_step_seq + 1 ELSE processed_step_seq
  IN /\ step.phase = "result"
     /\ batch_queue' = Tail(batch_queue)
     /\ processed_step_seq' = seq
     /\ _drain_deferred_frees(seq)
     /\ step' = [Idle EXCEPT !.phase = "update", !.scheduled = batch]
     /\ UNCHANGED <<req, queues, sched_step_seq, reports, outside, loads, occupied,
                    num_waiting_for_streaming_input, inflight_prefills, failed>>

\* The entry the loop of update_from_output is at.
InUpdateLoop == step.phase = "update" /\ step.scheduled # <<>>
Entry        == Head(step.scheduled)
NextEntry    == step' = [step EXCEPT !.scheduled = Tail(@)]

\* The request is no longer there, or the step was a part of its prompt.
SkipEntry ==
  /\ InUpdateLoop
  /\ req[Entry.id].status \in Finished \/ ~Entry.samples
  /\ NextEntry
  /\ failed' = Asserted(Entry.n > 0, "num_tokens_scheduled")
  /\ UNCHANGED <<req, queues, blocks, seqs, reports, num_waiting_for_streaming_input,
                 inflight_prefills, loads, outside, worker>>

\* The tokens were sampled before a reset: they are dropped.
DiscardFrame ==
  /\ InUpdateLoop
  /\ req[Entry.id].status \notin Finished /\ Entry.samples
  /\ req[Entry.id].async_tokens_to_discard > 0
  /\ req' = [req EXCEPT ![Entry.id].async_tokens_to_discard = @ - 1]
  /\ NextEntry
  /\ failed' = Asserted(Entry.n > 0, "num_tokens_scheduled")
  /\ UNCHANGED <<queues, blocks, seqs, reports, num_waiting_for_streaming_input,
                 inflight_prefills, loads, outside, worker>>

\* Mutant: rejected drafts keep their placeholders.
with_output_of_rejected(R, e, g, k) ==
  LET rejected == IF e.spec > 0 THEN e.spec + 1 - g ELSE 0
  IN [R EXCEPT
        !.num_computed_tokens = IF @ > 0 THEN @ - rejected ELSE @,
        !.num_output_placeholders = IF async_scheduling THEN @ - k ELSE @,
        !.num_tokens = @ + k,
        !.num_output_tokens = @ + k]

\* g tokens were sampled for the entry, and k of them appended: k is less than
\* g if one of them ends the request.  Drafts that were rejected do not count.
WithOutput(R, e, g, k) ==
  LET rejected == IF e.spec > 0 THEN e.spec + 1 - g ELSE 0
      placeholders == IF R.num_output_placeholders > 0
                      THEN R.num_output_placeholders - rejected ELSE 0
  IN [R EXCEPT
        !.num_computed_tokens = IF @ > 0 THEN @ - rejected ELSE @,
        !.num_output_placeholders =
           IF async_scheduling THEN placeholders - k ELSE placeholders,
        !.num_tokens = @ + k,
        !.num_output_tokens = @ + k]

\* The tokens up to the limit on the length (check_stop).
Room(R) == Max({1, Min({max_model_len - R.num_tokens,
                        max_tokens - R.num_output_tokens})})

\* _update_request_with_output, for a request that goes on.
AppendOutput(g) ==
  LET e == Entry
      R == WithOutput(req[e.id], e, g, g)
  IN /\ InUpdateLoop
     /\ req[e.id].status \notin Finished /\ e.samples
     /\ req[e.id].async_tokens_to_discard = 0
     /\ g \in 1..1 + e.spec
     /\ g < Room(req[e.id])
     /\ req' = [req EXCEPT ![e.id] = R]
     /\ NextEntry
     /\ failed' = Asserted(R.num_output_placeholders >= 0 /\ e.n > 0, "output")
     /\ UNCHANGED <<queues, blocks, seqs, reports, num_waiting_for_streaming_input,
                    inflight_prefills, loads, outside, worker>>

\* Mutant: a request that stops while preempted stays in the queue.
remove_stopped_running(q, r) == q

\* The waiting queue without r if it stops while it is preempted.
RemoveStopped(q, r) == IF req[r].status = "RUNNING" THEN q ELSE remove_all(q, {r})

\* _handle_stopped_request of r, whose fields are R now: it is over, or it is a
\* session, which goes on with the next chunk or waits for it.
_handle_stopped_request(r, R) ==
  LET q == R.streaming_queue
  IN \/ /\ r \notin Sessions \/ (q # <<>> /\ Head(q).len = 0)
        /\ _free_request(r, FALSE)
        /\ waiting' = RemoveStopped(waiting, r)
        /\ UNCHANGED <<skipped_waiting, num_waiting_for_streaming_input>>
     \/ /\ r \in Sessions /\ q # <<>> /\ Head(q).len > 0
        /\ req' = [req EXCEPT ![r] =
             _update_request_as_session([R EXCEPT !.streaming_queue = Tail(q)], Head(q))]
        /\ waiting' = RemoveStopped(add_request(req', waiting, r), r)
        /\ UNCHANGED <<skipped_waiting, blocks, inflight_prefills, finished_req_ids,
                       num_waiting_for_streaming_input>>
     \/ /\ r \in Sessions /\ q = <<>>
        /\ req' = [req EXCEPT ![r] = [R EXCEPT !.status = "STREAMING"]]
        /\ num_waiting_for_streaming_input' = num_waiting_for_streaming_input + 1
        /\ skipped_waiting' = add_request(req', skipped_waiting, r)
        /\ waiting' = RemoveStopped(waiting, r)
        /\ UNCHANGED <<blocks, inflight_prefills, finished_req_ids>>

\* ... and for one that stops after k of the tokens.
StopRequest(g, k) ==
  LET e == Entry
      r == e.id
      R == WithOutput(req[r], e, g, k)
  IN /\ InUpdateLoop
     /\ req[r].status \notin Finished /\ e.samples
     /\ req[r].async_tokens_to_discard = 0
     /\ g \in 1..1 + e.spec
     /\ k \in 1..AtMost(g, Room(req[r]))
     /\ _handle_stopped_request(r, R)
     /\ running' = IF req[r].status = "RUNNING" THEN remove_all(running, {r}) ELSE running
     /\ NextEntry
     /\ failed' = Asserted(R.num_output_placeholders >= 0 /\ e.n > 0, "output")
     /\ UNCHANGED <<seqs, reset_preempted_req_ids, loads, outside, worker>>

\* _update_from_kv_xfer_finished for a request whose load is over.
ReportLoaded(r) ==
  /\ step.phase = "update"
  /\ step.scheduled = <<>>
  /\ r \in loaded
  /\ loaded' = loaded \ {r}
  /\ IF req[r].status = "REMOTE"
     THEN /\ finished_recving' = finished_recving \cup {r}
          /\ UNCHANGED <<req, blocks>>
     ELSE /\ _free_request_blocks(r)
          /\ req' = [req EXCEPT ![r] = [NewRequest EXCEPT !.status = "GONE"]]
          /\ UNCHANGED finished_recving
  /\ failed' = Asserted(req[r].status \in {"REMOTE", "FINISHED"}, "finished_recving")
  /\ UNCHANGED <<queues, seqs, reports, num_waiting_for_streaming_input,
                 inflight_prefills, loading, outside, step, worker>>

EndUpdate ==
  /\ step.phase = "update"
  /\ step.scheduled = <<>>
  /\ loaded = {}
  /\ step' = Idle
  /\ UNCHANGED <<req, queues, blocks, seqs, reports, num_waiting_for_streaming_input,
                 inflight_prefills, loads, outside, worker, failed>>

-----------------------------------------------------------------------------
Init ==
  /\ req = [r \in Request |-> NewRequest]
  /\ waiting = <<>> /\ skipped_waiting = <<>> /\ running = <<>>
  /\ free = Block
  /\ deferred_frees = <<>>
  /\ sched_step_seq = 0 /\ processed_step_seq = 0
  /\ finished_req_ids = {} /\ reset_preempted_req_ids = {}
  /\ num_waiting_for_streaming_input = 0
  /\ inflight_prefills = {}
  /\ loading = {} /\ loaded = {} /\ finished_recving = {}
  /\ pause_state = "UNPAUSED"
  /\ arrivals = 0 /\ resets = 0
  /\ step = Idle
  /\ batch_queue = <<>>
  /\ occupied = {}
  /\ failed = {}

\* What the clients do, and what the engine core does by itself.
Client ==
  \/ \E r \in Request, len \in PromptLens : AddRequest(r, len)
  \/ \E r \in Request, len \in PromptLens \cup {0} : AddChunk(r, len)
  \/ \E r \in Request : Abort(r)
  \/ StartReset
  \/ \E state \in PauseStates \cup {"UNPAUSED"} : set_pause_state(state)

Schedule ==
  \/ StartSchedule \/ SkipRunning \/ ScheduleRunning \/ PreemptRunning \/ EndRunning
  \/ SkipWaiting \/ PromoteLoaded
  \/ \E ext \in 0..max_model_len :
       ScheduleWaiting(ext) \/ StartLoad(ext) \/ StopWaiting(ext)
  \/ EndSchedule

Update ==
  \/ BeginUpdate \/ SkipEntry \/ DiscardFrame
  \/ \E g \in 1..1 + num_spec_tokens : AppendOutput(g)
  \/ \E g, k \in 1..1 + num_spec_tokens : StopRequest(g, k)
  \/ \E r \in Request : ReportLoaded(r)
  \/ EndUpdate

Next ==
  Client \/ Schedule \/ Update \/ ResetRunning \/ \E r \in Request : LoadDone(r)

Spec == Init /\ [][Next]_vars

-----------------------------------------------------------------------------
Count(q, r) == Cardinality({i \in 1..Len(q) : q[i] = r})

\* The entries of r in batches whose output is still to come, oldest first.
InFlight(r) ==
  LET pending == IF step.phase = "update" THEN <<step.scheduled>> \o batch_queue
                 ELSE batch_queue
      of(batch) == Keep(batch, {e \in Elems(batch) : e.id = r /\ e.samples})
      upto[i \in 0..Len(pending)] ==
        IF i = 0 THEN <<>> ELSE upto[i - 1] \o of(pending[i])
  IN upto[Len(pending)]

\* The fields of requests and the scheduler's own have their types.
TypeOK ==
  /\ \A r \in Request :
       /\ DOMAIN req[r] = DOMAIN NewRequest
       /\ req[r].status \in Statuses
       /\ req[r].num_computed_tokens \in 0..max_model_len
       /\ req[r].num_tokens \in 0..max_model_len
       /\ req[r].num_output_tokens \in 0..max_tokens
       /\ req[r].num_output_placeholders \in Nat
       /\ req[r].async_tokens_to_discard \in Nat
       /\ req[r].spec_token_ids \in 0..num_spec_tokens
       /\ req[r].blocks \subseteq Block
  /\ {waiting, skipped_waiting, running} \subseteq Seq(Request)
  /\ free \subseteq Block
  /\ inflight_prefills \cup loading \cup loaded \cup finished_recving \subseteq Request
  /\ finished_req_ids \cup reset_preempted_req_ids \cup occupied \subseteq Request
  /\ Len(batch_queue) <= max_concurrent_batches

\* No assert of schedule and update_from_output fails, nor one of the model
\* runner when it looks for the slot of a request.
NoAssertFails == failed = {}

\* A request is in exactly one queue, the one of its status, from add_request
\* until it is finished; a finished one is in none.
OneQueue ==
  \A r \in Request :
    /\ Count(running, r) = (IF req[r].status = "RUNNING" THEN 1 ELSE 0)
    /\ Count(waiting \o skipped_waiting \o step.skipped, r) =
         (IF req[r].status \in Waiting THEN 1 ELSE 0)

\* Every block is free, or waits for a batch, or is in the table of one
\* request: preemption, aborts, stops and late loads neither leak a block
\* nor free it twice.
OneOwner ==
  LET Owners(b) == {<<"request", r>> : r \in {r \in Request : b \in req[r].blocks}}
                   \cup {<<"deferred", i>> : i \in {i \in 1..Len(deferred_frees) :
                                                     b \in deferred_frees[i].blocks}}
                   \cup (IF b \in free THEN {<<"free", 0>>} ELSE {})
  IN \A b \in Block : Cardinality(Owners(b)) = 1

\* The blocks of a request hold all the tokens it has or will have computed
\* once the batches in flight are done.
TablesLongEnough ==
  \A r \in Request : req[r].status \in {"RUNNING", "REMOTE"} =>
    cdiv(req[r].num_computed_tokens, block_size) <= Cardinality(req[r].blocks)

\* num_output_placeholders is the number of tokens that the batches in flight
\* may still return for the request, the frames to be discarded left out:
\* preemptions, resets and rejected drafts keep the two in step.
PlaceholdersExact ==
  \A r \in requests :
    async_scheduling /\ req[r].status # "FINISHED" =>
      LET f == InFlight(r)
          d == req[r].async_tokens_to_discard
      IN /\ d <= Len(f)
         /\ req[r].num_output_placeholders =
              MapThenSumSet(LAMBDA i : 1 + f[i].spec, d + 1..Len(f))

\* With defer_block_free a block that a batch in flight may write is not free
\* and not in the table of another request, whoever finished or was preempted.
InFlightBlocksKept ==
  defer_block_free =>
    \A i \in 1..Len(batch_queue) : \A e \in Elems(batch_queue[i]) : \A b \in e.blocks :
      /\ b \notin free
      /\ \A r \in Request \ {e.id} : b \notin req[r].blocks

\* While the connector loads a request, the blocks it writes stay with that
\* request, also if the client aborts it.
LoadsKeepBlocks ==
  \A r \in loading \cup loaded :
    /\ req[r].status \in {"REMOTE", "FINISHED"}
    /\ r \notin finished_recving
    /\ cdiv(req[r].num_computed_tokens, block_size) <= Cardinality(req[r].blocks)

\* Every request that holds a slot of the model runner, and will still hold it
\* after the next step, is counted when the scheduler admits requests.
SlotsCounted ==
  step.phase = "idle" =>
    Cardinality(occupied \ (finished_req_ids \cup reset_preempted_req_ids))
      <= Len(running) + num_waiting_for_streaming_input

\* With FCFS requests are admitted, and preempted ones resumed, in the order
\* in which they arrived.
FCFSOrder ==
  policy = "fcfs" =>
    LET q == running \o waiting
    IN \A i, j \in 1..Len(q) :
         i < j => req[q[i]].arrival_time < req[q[j]].arrival_time

\* The scheduler counts the sessions that wait for input.
StreamingCounted ==
  num_waiting_for_streaming_input =
    Cardinality({r \in Request : req[r].status = "STREAMING"})

\* The model runner has a slot for every request that the scheduler admits.
SlotForEveryRequest == "No free indices" \notin failed

\* The engine core's loop does not stop while there is work; a load ends (it
\* does so between two calls of the scheduler, hence the strong fairness); and
\* a connector that is asked about a request again and again answers.
Answered(r) ==
  /\ InWaitingLoop
  /\ peek_request = r
  /\ \E ext \in 0..max_model_len :
       ScheduleWaiting(ext) \/ StartLoad(ext) \/ StopWaiting(ext)

Fairness ==
  /\ WF_vars(Schedule \/ Update \/ ResetRunning)
  /\ \A r \in Request : SF_vars(LoadDone(r)) /\ SF_vars(Answered(r))

FairSpec == Spec /\ Fairness

\* Every request that arrives is finished and forgotten in the end: requests
\* that compete for blocks, be they loaded or computed, do not starve or
\* preempt each other for ever, and no aborted load is left behind.
EventuallyDone ==
  \A r \in Request : req[r].status # "NONE" ~> req[r].status = "GONE"
=============================================================================
