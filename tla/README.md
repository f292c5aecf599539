# The vLLM engine core in TLA+

A verification development kept beside the engine core of vLLM
(`vllm/v1/core`, `vllm/v1/engine`) and of the message queue under its executors
(`vllm/distributed/device_communicators/shm_broadcast.py`): TLA+ modules translated from the source, TLC
runs over small instances, and TLAPS proofs for all instances. `PROJECT.json`
has the map from definitions to source lines, the runs with their properties and
mutants, the hazards and the findings.

## 1. The system

A front end (`engine/async_llm.py`, `engine/core_client.py`) sends requests to
an *engine core* process. Its loop (`engine/core.py`) asks the *scheduler* for a
batch, gives it to the executor's workers, and hands the workers' output back to
the scheduler, with one or two batches in flight. The scheduler takes the memory
for keys and values from the *KV cache manager*, which keeps a pool of
blocks with reference counts and a prefix cache. A *KV connector* may load the
KV cache of a request from elsewhere.

The engine core and its worker processes talk through a *message queue*, a ring
buffer in shared memory that one process writes and several read without locks.
With data parallelism there are several engine cores. For a mixture-of-experts
model each forward pass is a collective of all of them, so they run in *waves*,
which a *coordinator* process starts and which end when an all-reduce finds
nobody with work.

| part | state | operations | what makes it hard |
|---|---|---|---|
| `FreeKVCacheBlockQueue` | links threaded through the blocks, counter | `popleft(_n)`, `remove`, `append(_n)`, `prepend_n` | removal from the middle, fake ends, links left behind |
| `BlockPool` | free queue, `ref_cnt`, `block_hash`, hash map, events | `get_new_blocks`, `touch`, `free_blocks`, `cache_full_blocks`, `evict_blocks`, `reset_prefix_cache` | several blocks with one hash; a hit is a free block until touched |
| `KVCacheManager`, coordinator, `FullAttentionManager` | `req_to_blocks`, `num_cached_block` | `get_computed_blocks`, `allocate_slots`, `cache_blocks`, `free` | capacity check against the allocation that follows; drafts; loads that fail in part |
| `Scheduler`, `AsyncScheduler` | queues, request counters, deferred frees, loads, sessions | `schedule`, `update_from_output`, `add_request`, `finish_requests`, `reset_prefix_cache` | output of batches in flight for requests preempted, aborted, stopped or reset since |
| engine core loop | batch queue, abort queue | `step`, `step_with_batch_queue` | aborts between a batch and its result |
| V2 model runner | request slots | `finish_requests`, `add_requests`, `update_requests` | learns of preemptions and ends one step later |
| `ShmRingBuffer`, `SpinCondition`, `MessageQueue` | chunks, a written flag and reader flags per chunk, indices, two kinds of sockets | `enqueue`, `dequeue`, `shutdown` | no locks; lost wake-ups; large messages beside the ring; the writer may die anywhere |
| `DPEngineCoreProc`, `DPCoordinatorProc`, `DPLBAsyncMPClient` | wave numbers and "running" flags in each process, messages between them, pause flags | requests, aborts, `START_DP_WAVE`, `start_wave`, `wave_complete`, pause, resume | each process acts on an old view of the others; a mistake is a collective that never completes |

The other parts (models, kernels, compilation, entry points, sampling,
attention) are numerical or translate requests; `PROJECT.json` lists each of
them with the reason for leaving it out.

What correctness means here:

* memory: a block is free or has owners, never both; capacity checks suffice;
  nothing writes a block after it went to someone else; nothing leaks;
* prefix sharing: requests share a block only if their tokens up to its end are
  the same; consumers of KV events are never told of a prefix that is not there;
* bookkeeping: every request is in one queue, counters of tokens computed and
  tokens in flight agree with the batches in flight, the worker has a slot for
  every request admitted, no assertion of the code fails;
* order and progress: FCFS order is kept, and every request ends;
* messages: a reader of the ring gets every message whole, once and in order, and
  is never left asleep; the ring never loses a message to a full buffer;
* waves: engines that meet in a collective mean the same one, no engine is left
  alone in one, every request is served, and a pause stops all engines and a
  resume starts them again.

## 2. Modules

| module | models | checked by |
|---|---|---|
| `Lists` | elements and filtering of Python lists | |
| `BlockQueue` | abstract: a queue of blocks from which any block may be taken | |
| `FreeBlockQueue` | `FreeKVCacheBlockQueue` | `MCFreeBlockQueue` |
| `BlockPool` | `BlockPool`, as operators from pool to pool | through `KVCacheManager` |
| `KVCacheManager` | the manager and the calls of the scheduler on it | `MCKVCacheSharing`, `MCKVCacheConnector` |
| `Scheduler` | `Scheduler`, `AsyncScheduler`, the engine loop, worker slots | `MCScheduler*` |
| `BroadcastQueue` | abstract: a bounded queue with one writer and several readers | |
| `ShmRingBuffer` | the message queue | `MCShmRingBuffer` |
| `DataParallel` | engines, coordinator and front end composed | `MCDataParallel*` |
| `BlockPoolProofs`, `KVCacheProofs` | proofs about the block pool and the KV cache | tlapm |
| `ShmRingProofs` | proofs about the ring | tlapm |
| `ListFacts` | facts about lists, finite sets and numbers, proved in `SchedulerProofs` | |
| `SchedulerInvariants` | the inductive invariant of the scheduler, in layers | |
| `SchedulerTypes`, `SchedulerBlocks`, `SchedulerBatches`, `SchedulerProofs` | proofs about the scheduler | tlapm |
| `DataParallelProofs` | proofs about waves, and about pauses | tlapm |

### FreeBlockQueue

`next_free_block` and `prev_free_block` are functions over the blocks and the
two fake ones. `popleft_n` walks the links (`NodeAt`) as the code does, so a
wrong link would show. `ListInSync` relates both directions, the counter and the
blocks outside. `QueueSpec` is refinement of `BlockQueue`, mapping the links to
the sequence reached from the fake head. The calls are those `BlockPool` makes:
blocks put back are outside, without duplicates, and any order of them.

### BlockPool and KVCacheManager

A pool is a record. A block hash chains the tokens of a block with the hash
before it, so the hash *is* the prefix that ends with the block; collisions are
outside the model. `failed` collects calls that raise or whose assertion does not
hold, so that "the call succeeds" is an invariant and not an assumption. `stored`
is what a consumer of the KV events believes to be cached. A hash may have
several blocks; `get_one_block` returns any of them. The null block is left out,
as it is never freed or hashed.

`KVCacheManager` has one action per use the scheduler makes of the manager:
`Admit` and `StartLoad` (WAITING loop), `Continue` (RUNNING loop), `FinishLoad`
(promotion after a load that may have failed in part), `Output` and `LateOutput`
(sampled tokens, with rejected drafts), `Preempt`, `Finish`, `DrainDeferredFrees`,
`EvictBlocks`, `ResetPrefixCache`. How many tokens are scheduled, which hits are
skipped, what a connector offers and what headroom is demanded are free choices,
so the results hold for every scheduling policy. `Admit` may also pad a request
that lacks a single token with drafts. External and new blocks are taken by one
`get_new_blocks`, which takes the same blocks as the two calls in the code.

`Preempt` and `Finish` release a table through `_free_request_blocks`: the blocks
go back to the pool or, when batches in flight may still write them
(`defer_block_free`), into an entry of `deferred_frees`. Here any free may be
deferred and any entry drained at any time; when the code does which, and that the
fences are right, is the subject of `Scheduler`. Blocks of an entry keep their
references and hashes, so `BlockAccounting` counts entries as holders and requests
may hit blocks that wait in one. The entries are a set of slots, the code's deque
has no bound: with all slots taken the free happens at once. A request aborted
during its load keeps its blocks until the load is over and is then freed with
nothing cached: that is `Finish` of a request in REMOTE.

### Scheduler

`schedule` and `update_from_output` are loops over requests. Each iteration is an
action and `step` has the local variables: `phase` tells which loop the engine
thread is in, `request` and `num_new_tokens` are set while an allocation is
retried after a preemption. Clients act only when the code lets them: adding,
resets and pauses between two calls, aborts also while the engine waits for a
result (`_process_aborts_queue`).

A request is a record of the counters of `Request`. Tokens are only counted.
Prefix caching is off here, so that a block has one owner. `batch_queue` has, for
every batch in flight, what each request was given and the blocks that may be
written; `occupied` is the set of requests with a slot in the model runner, which
learns of ends and preemptions from the next batch. A connector is an
environment: it offers any number of tokens, loads them within the step or
asynchronously, and with `connector_defers` may not know yet
(`get_num_new_matched_tokens` returns `None`).

Assertions of the code are collected in `failed`.

### ShmRingBuffer

The processes share only `written`, `read` and `data` (the metadata bytes and the
chunks), and the sockets. Each load and each store of a byte is an action:
`check()` of the writer is one `LoadReaderByte` per reader and then `CheckWrite`,
which loads the written byte; `check()` of a reader is `LoadOwnByte` and
`CheckRead`. Writing a chunk is `WriteBegin` and `WriteEnd`, with the content
`Torn` between them, and reading it `ReadBegin` and `ReadEnd`: whoever meets the
other side inside a chunk ends up with `Torn`. A message is its number. One that
does not fit into a chunk (`Large`) goes over `local_socket`, after its chunk is
published, as in `enqueue`.

`notify` sets a single flag per reader: the sockets keep one notification at most.
A reader in `poll` wakes for it, for `cancel()` or for its timeout; readers
outside `Timed` have none (`indefinite = True`). The busy-wait of `SpinCondition`
is the choice of `CheckRead` not to poll. `WriterDies` may happen between any two
steps; the readers' monitor threads then call `Shutdown`, and `cancel` in a second
step.

Memory is sequentially consistent in the model. The code has a fence at the start
of each `check()` and around the store of the written flag, and relies on the
hardware for the order of the two loads inside `check()`.

### DataParallel

One module composes the three kinds of processes, since every property is about
their interplay. A socket is a FIFO sequence: `input` from the front end to an
engine, `start` from the coordinator to an engine, `output` from an engine to the
coordinator, `to_coordinator` and `publish` between front end and coordinator,
`first_reqs` between the front end's two tasks. An engine merges its two inputs in
any order.

`pc` says where an engine is: reading its input queue, blocked in the forward pass,
blocked in the finish all-reduce (`sync`), back from it with its answer (`synced`),
or blocked in the all-reduce of a resume. The collectives are the actions
`Forward`, `sync_dp_state` and `ResumeTogether`, which are enabled when all engines
are blocked in the same one; a mistaken protocol shows as an engine that stays
blocked. An engine takes requests, aborts, `PAUSE`, `RESUME` and `START_DP_WAVE` at
`input`, in any number before it steps.

Simplifications: one front end; it may choose any engine, as the load counts are
not modelled; `step_counter` is kept modulo the interval, the only way it is used;
the periodic publication happens when it can change what the front end believes;
requests that have finished but are not yet reported (`finished_req_ids`), which
make an engine take one more step, the batch queue, sleeping executors and elastic
scaling are left out. A pause happens once in a behaviour.

## 3. Runs

| run | instance | shows |
|---|---|---|
| `free_queue` | 5 blocks | the linked list implements the queue |
| `kv_sharing` | 4 blocks of 1 token, 2 requests, 3 prompts | sharing is sound, the map is exact, prefixes are closed |
| `kv_connector` | 3 blocks of 2 tokens, 2 requests, 1 draft, loads, evicted blocks, 1 deferred free, asynchronous | counts are exact, no call fails, slots cover tokens, events are sound |
| `sched_async` | 3 requests, 2 slots, 4 blocks, 1 draft | placeholders, queues, FCFS order, no failed assert |
| `sched_connector` | 2 requests, 3 blocks, loads and aborts, answers at once | blocks outlive their writers and have one owner; every request ends |
| `sched_priority` | 3 requests, 2 priorities, 2 resets, pauses, watermark 1, no drafts | preemption of what was scheduled in the same step; slots; exactly the stale frames are dropped |
| `sched_streaming` | a session and a request, synchronous, pauses, loads, late answers | paused sessions are counted, queues are exact |
| `ring` | 2 readers, one without timeout, 2 chunks, 3 messages, the second too large | messages are read whole, in order and by all; nobody sleeps for ever; the writer's death releases the readers |
| `dp_waves` | 2 engines, 2 requests of 2 steps, all-reduce every 2 steps | same wave and step in every collective; no message ahead of its engine; every request is served |
| `dp_pause` | 2 engines, a request of 3 steps that may be aborted, all-reduce every step, a pause and a resume | collectives match, pauses complete, paused engines stay stopped, resumes are honoured |

The bounds are chosen so that the cases of interest occur. Everywhere the requests
together need more blocks than there are, so that they preempt each other, evict
or wait. But for `sched_streaming`, the token budget is below what two prompts
need, so that prompts are cut into chunks. `sched_async` and `sched_priority` have
more requests than slots. In `sched_streaming` four arrivals for two requests let
inputs of the session queue up behind a turn. In `ring` three messages take the
writer and the readers around a ring of two chunks, and one of the first two
chunks is rewritten while a reader may be late. In `dp_waves` the second request
can be sent during, at the end of or after the wave of the first, and with an
interval of two an engine that is one step off would show. In `dp_pause` three
steps leave time for the pause to arrive before, during and after the request's
wave; an interval of one is enough there, since the step counters are the subject
of `dp_waves`. Pause mode `abort` is an abort followed by `wait`, and is taken in
`dp_resume`.
`kv_sharing` reports no invalid blocks, because `PrefixClosed` holds only then;
`kv_connector` does. `scheduler_reserve_full_isl` is on in the first, as by default,
and off in the second, which admits more. Headroom makes `allocate_slots` refuse
more and do nothing else: it is 0 or 1 in `kv_sharing` and 0 in `kv_connector`,
where it would add no state. With two requests over three blocks one entry of
`deferred_frees` is enough for the blocks of one to wait while the other, or the
same one again, hits them, takes the rest or is freed. Mutants of the definitions, kept next to them, show that each
property is sensitive to the code it is about.

Some combinations are in no run: FCFS order across a forced reset; drafts together
with a reset; two requests together with a pause; and the invariants of blocks with a connector
that answers late under asynchronous scheduling. `FCFSOrder` speaks of plain
requests only: a session that gets its next turn, and a request that others pass
while its connector does not answer, do not keep their place.

Deadlock is not checked in the runs of the scheduler, the ring and the engines:
with nothing to do they wait for the next client, and arrivals are bounded. That
nobody waits in vain is what their liveness properties and `NoEngineStranded` say.

### Disagreements

Two runs end in a violation; each states what a comment or a test of the
repository says.

* `sched_slots`: a session that is WAITING for its next turn holds a worker slot
  that `schedule` does not count.
* `dp_resume`: while a resume is on its way, a `START_DP_WAVE` may reach an engine
  before its `RESUME` and is dropped as if it were stale. The coordinator takes the
  wave to be running and ignores the later report of the engine that got the
  request; that engine waits alone in the forward pass. `RequestsServed` and
  `NoEngineStranded` are therefore about behaviours without a pause.

### Known divergences

Other disagreements between the code and what it says of itself, found with
`MCScheduler` on instances of two requests and in reading the code; the settings
that matter are named.

* A paused session is counted twice. `scheduler.py:195` calls
  `num_waiting_for_streaming_input` a counter of requests; with
  `async_scheduling`, a session and no drafts the batch in flight stops a paused
  session a second time (`scheduler.py:1962`): `StreamingCounted` fails.
* A reset drops fresh frames. `scheduler.py:2287-2292` says
  `num_output_placeholders` is exactly the count of frames in flight; with a draft
  token and a reset it counts tokens, and `async_tokens_to_discard` exceeds
  the number of batches in flight.
* Padding schedules −1 tokens. With a connector, two drafts and `max_model_len` 6,
  a new decode padded up to `max_model_len` (`scheduler.py:871`) leaves −1 tokens
  for the next step (`scheduler.py:533-538`), against the assertion in
  `scheduler.py:1625`.
* A deferred answer deadlocks the queue. With `connector_defers`, three blocks and
  two prompts of three tokens, a request whose connector answered late waits for
  the blocks of a loaded one behind it (`scheduler.py:952`): `EventuallyDone` fails.
* A late stop leaves a finished request queued. `scheduler.py:1834` removes a
  request that stops after it was preempted from `waiting` only. With a connector,
  two batches in flight and a reset, the request may by then be loading, in
  `skipped_waiting`: it is freed with the blocks that the load writes and stays
  queued. `OneQueue` and `LoadsKeepBlocks` fail.
* Nobody is excluded from a wave. `coordinator.py:447-451` says `START_DP_WAVE`
  names the engine that needs no notification. The front end names it by its socket
  identity, a byte string (`core_client.py:632`, `1436`), which never equals the
  integer the engine compares it with (`core.py:1939`). The notification is
  redundant but harmless; excluding the engine would not be, as the mutant of
  `NoEngineStranded` shows.
* A reader with a timeout may get an old object. When `recv` times out after the
  chunk of a large message was marked read (`shm_broadcast.py:792`), the message
  stays in the socket for the next large one. `ObjectsInOrder` is about readers
  without a timeout. Likewise `shutdown` does not wake a reader in `recv`, which
  `ReadersReleased` leaves out.

### Fairness

`EventuallyDone` assumes weak fairness of the engine's own steps: `run_busy_loop`
goes on as long as there are requests or batches. A load ends, and a connector
that is asked about a request again and again answers at some time: strong
fairness, since both can happen only at certain points of the loop. Nothing is
assumed of clients, and nobody pauses the engine in that run.

In `ring`, the writer and each reader go on while they are alive (weak fairness of
`WriterStep` and `ReaderStep`): workers call `dequeue` in a loop. The operating
system closes the pipe of a dead writer and the monitor thread goes through with
`shutdown` (`Shutdown`, `cancel`). Timeouts, further messages and the death of the
writer may or may not happen.

In the data-parallel runs every process goes on: the stats task, the coordinator
for each engine's reports, the collectives, and an engine that has work. Reading
the input is strongly fair for both of its sockets, as `_process_input_queue` takes
all that has arrived before each step. Nothing obliges the front end to send,
abort, pause or resume.

## 4. Proofs

`KVCacheProofs` proves for every set of blocks and requests, every block size and
all bounds that each safety invariant of the KV cache runs holds: `TypeCorrect`,
`NeverFails`, `RefCountsExact`, `MapExact`, `SharingSound`, `SlotsSuffice`,
`EventsSound`, `PrefixesClosed`. The assumptions are `PoolAssumption` and
`ManagerAssumption`: finite sets, a positive block size, prompts that are not
empty and not longer than the model allows. `PrefixesClosed` assumes in addition
that the connector reports no block invalid (`Reports = {}`): `evict_blocks` takes
a block out of the middle of a cached prefix, and the property is false then.

The invariants are not inductive by themselves. That two requests sharing a block
have the same tokens, for instance, depends on what the hash map says of blocks
nobody holds. `IInv` adds:

* `Tables`: a holder's table has no block twice, and counts are the number of
  holders (`RefsOK`). A holder is a request or an entry of `deferred_frees`: its
  blocks are still shared, hit and part of chains. The tokens they hold are no
  longer known to anyone, as the request may be gone, so `InOrder` says that *some*
  tokens and cached counts of the entries put all tables in order: those the
  request had when its free was deferred. A block of a table that has a hash is
  among the first `num_cached_block` and its hash is the holder's prefix up to
  there; those blocks are full of known tokens (`HashesOK`). A block among them may have lost
  its hash (`evict_blocks`, a reset), so the converse does not hold, and sharing
  cannot be read off the hashes: `SharingOK` says separately that a block in two
  tables is at the same place, among the first `num_cached_block`, with equal
  prefixes. The pool is in order (`PoolOK`): the queue has no duplicates and
  exactly the blocks without reference, map, hashes and events agree, nothing
  failed. While no block is reported invalid the first `num_cached_block` blocks
  of a table all have their hash, and the prefix that a free cached block extends
  has a block that is in use or behind it in the queue (`ChainsOK`): eviction,
  which takes the head of the queue, takes prefixes from their ends. It is why
  `free` hands over the blocks of a table in reverse;
* `Counters`: per request, that computed tokens have slots, that a request that
  has not arrived has no blocks, that one waiting with blocks but nothing
  computed has a single token (it was loaded, and its last token is computed
  again), and that a load does not exceed the tokens there are.

`BlockPoolProofs` has a lemma for every operation of the pool: from `PoolOK`
to `PoolOK`, with what changed. It also has the lemmas about block tables: the parts of
an allocation (`AddHits`, `AddNew`, `CacheStep`), releasing and deferring
(`ReleaseStep`, `MoveStep`) and new tokens (`TokensStep`). `KVCacheProofs` has one
lemma per action, which `NextStep` combines.
`FewerBlocks` and `BlockCounts` hold the arithmetic of block sizes.

### The ring

`ShmRingProofs` proves for all readers, numbers of chunks and messages that the
types are kept, `ReadsInOrder`, `ObjectsInOrder` and `QueueSpec`, from `RingAssumption` (at least one
chunk). `IInv` relates three counts that nobody in the code knows together: the
messages published, the messages each reader has read, and the two indices. `Last`
is the message a chunk was last published with, computed from the writer's index.
`ChunksOK` says a chunk marked as written holds that message and has the flags of
exactly the readers that have read it. `WriterOK` has what the writer knows at each
line: a reader flag it has counted stays true, so that when it clears the written
flag nobody needs the chunk. `ReadersOK` has what a reader knows: it is at most one
ring behind, and having loaded its own flag as unset with nothing published means
that the chunk is not written yet. `NextMessage` is the central lemma: a reader
with messages left finds the next one at its index, and nobody is writing it. The
refinement follows: `Publish` is `Put`, `MarkRead` is `Take`, all else stutters.
For `ObjectsInOrder`, `SocketsOK` adds that the socket of a reader without a timeout
holds exactly the large messages between the ones it has read and the ones sent.

### Waves and pauses

From `DPAssumption` alone, for all numbers of engines, requests and steps and any
interval:

* waves: the types, `WavesAgree` and `NeverAhead`. The argument: only
  the finish all-reduce makes a new wave, and for all engines at once, although they
  learn it one after the other. `Wave(e)` is therefore the wave an engine is in *or
  has been told to enter*; `WavesOK` says that it is the same for all engines and
  that no number in any message or in the view of front end or coordinator is above
  it. `LockstepOK` says that step counters agree and that the engines enter `sync`
  together and leave it with one answer.
* pauses: a request on its way is sent to one engine and once
  (`RequestsOK`), so nobody else changes what an engine has to do; what an engine
  was told by the all-reduce is true of it until it acts (`SyncedOK`), which rests
  on `PauseAgreed`, the arithmetic of `pause_count % dp_size`. Each engine is unaware
  of the pause, pausing, stopped or resumed, according to the `PAUSE` and `RESUME`
  messages still in its input (`PauseOK`). `CollectivesMatch`, `ResumeHonoured` and
  `PausedEnginesStop` follow.
* wake-ups: `NoEngineStranded`, for two engines or more (a single one is alone in
  every forward pass). `Runs(e)` says that an engine steps until an all-reduce ends
  the wave, `Awake` that every engine does or has a `START_DP_WAVE` of the current
  wave on its way, `Called` that the coordinator has started the current wave or a
  `FIRST_REQ` is on its way to it, `Reported` that an engine's report of a started
  wave is. `WakeOK` says that one of the three holds whenever an engine has something
  to do, and what follows from each belief about the current wave: the coordinator
  takes it to be running only if `Awake`; the front end takes it to be running, or
  sends a request for it, only if `Called`; an engine reports it only if it runs. A
  wave that ends makes all of these void at once, because no number in any message
  is above it (`WavesOK`). `ViewsOK` adds that the front end is never ahead of the
  coordinator, `TargetsOK` that no engine is excluded from a `START_DP_WAVE` of the
  front end, and `PlacedOK` that a request in progress has an engine. All of
  `WakeOK` is claimed only until the first pause, as `NoEngineStranded` is; the run
  `dp_resume` shows that it fails after one.

### The scheduler

`SchedulerProofs` proves eight properties from `SchedulerAssumption`, for all numbers
of requests, blocks, slots and tokens, both policies, with and without drafts,
connector, sessions, pauses, aborts and resets:

| theorem | assumes | because |
|---|---|---|
| `SchedulerOneOwner`, `SchedulerInFlightBlocksKept` | the FCFS policy, or `Orderly` | the priority policy picks a victim by arrival time, unique only if the queues are in order |
| `SchedulerOneQueue`, `SchedulerLoadsKeepBlocks`, `SchedulerStreamingCounted` | `Orderly` | they fail otherwise (known divergences) |
| `SchedulerSlotsCounted`, `SchedulerSlotForEveryRequest` | `Orderly`, no sessions | `sched_slots` shows the failure with a session |
| `SchedulerFCFSOrder` | neither connector nor sessions | a request whose load is late is passed by others, as intended |

`Orderly` says that one batch is in flight at a time, or that there are no sessions
and not both resets and a connector. The two cases it leaves out are those where
the output of an old batch finds its request in a new life. `SchedulerFCFSOrder`
covers forced resets, which no run does.

The invariant is `IInv`, in layers, each needing the ones before:

* `TInv` (`SchedulerTypes`): types, and the control flow that they depend on. That
  `_preempt_request` never takes a request out of an empty list, for instance,
  needs the position in the RUNNING loop to be ahead of what is scheduled.
* `Owned`: a block is free, in one table, or in one deferred entry. Every action
  leaves the blocks alone, takes some from `free`, lets go of one request's, drains
  entries, or ends a step; a lemma for each of these five suffices.
* `Fenced`: `Numbered` gives each batch in flight the value of `sched_step_seq` it
  was made at, and a block of a batch is in its request's table with a
  `last_sched_seq` at least that high, or deferred with such a fence. That
  entries are drained in their order does not matter for this.
* `QueueInv`: which queue a request is in is decided by its status.
* `StepInv`: what the loop has scheduled is in `running`, once and before the
  position; what a preemption takes away again is taken out of both.
* `FlightInv`: a request of a batch in flight is running, finished, or preempted
  since and in `waiting`. This is what makes `update_from_output` find a request
  that stops in the list it is removed from.
* `LoadInv`: requests being loaded have their blocks and are REMOTE or aborted; the
  count of sessions that wait is exact.
* `NoSessionInv`: arrival times are distinct; a running request has a slot that the
  model runner will keep, or is new in this step, and no other request has.
* `OrderInv`: `running` and `waiting` are sorted, the first ahead of the second.

`Owned` and `Fenced` need only the types, the others all of it at once: the priority
policy finds its victim because arrival times are distinct, and they stay so because
queues hold no request twice.

`SchedulerInvariants` has the layers, and two collections of facts: `Facts`, what the
operators on queues, batches and entries compute, and `Effects`, what each action does
in the words of the layers. `SchedulerTypes` proves both, and that the types are kept,
with a lemma per action. `SchedulerBlocks` (`Owned`, `Fenced`, `QueueInv`, `StepInv`)
and `SchedulerBatches` (the other layers) take them as hypotheses and have a lemma per
layer and group of actions: clients, `schedule`, `update_from_output`.
`SchedulerProofs` discharges the hypotheses, proves `IInv` inductive and states the
theorems. What lists do (which elements a filter, an insertion or a concatenation
keeps, in which order, how often) is stated in `ListFacts` and proved at the
beginning of `SchedulerProofs`. The split keeps the number of facts in sight of each proof small.

`IInv` of each development was checked with TLC on the instances of its runs
before it was proved; that of the KV cache without deferred frees, as the
quantifier of `InOrder` over the tokens of the entries is beyond TLC.

### Only model-checked

* Liveness: `EventuallyDone`, `EveryMessageRead`, `EnqueueReturns`,
  `ReadersReleased`, `RequestsServed`, `PauseCompletes`. Fairness is out of the prover's reach.
* `ListInSync` and `QueueSpec` of `FreeBlockQueue`: what the walk along the links
  returns is an induction over the list.
* `PlaceholdersExact`, `TablesLongEnough`, `NoAssertFails` and `TypeOK` of the
  scheduler. Their bounds are sums over the batches in flight: how many tokens of a
  request are out, of which each output may reject some.

## 5. What is left out

* of the KV cache: hash collisions, several groups, sliding windows, Mamba and
  its partial blocks, cross attention, context parallelism, metrics;
* of the scheduler: encoder inputs, LoRA limits, structured output, Mamba
  alignment, DP prefill throttling, `long_prefill_token_threshold`, pooling,
  connectors that send, invalid blocks, pipeline parallelism, more than two
  batches in flight, `min_tokens`; reuse of a request id; sessions together with
  priorities (a heap whose keys change);
* of the message queue: remote readers, `wait_until_ready`, buffers that alias a
  chunk, weaker memory models;
* of the data-parallel engines: see the simplifications above;
* crashes: the engine keeps nothing across a restart. A writer of the ring may die.

### Not modelled

Encoder cache manager, hybrid and sliding-window managers, invalid-block recovery,
structured output, output processing, the executors' calls, offloading and the
connectors' own protocols have state and interleavings of their own, but no module
here. Invalid-block recovery and sessions with prefix caching (tokens are
truncated, hashes are not) would need the blocks of `KVCacheManager` and the queues
of `Scheduler` in one state space, too large at bounds where blocks are shared.
Models, kernels, compilation, attention, sampling, entry points and configuration
are most of the repository's lines; they are numerical or translate requests, and
have no behaviour a model checker would explore. The map covers a small share of
the repository for that reason.

## 6. Where to go on

1. Encoder cache manager with the workers' encoder cache.
2. Hybrid coordinator and sliding-window manager: several groups, null blocks,
   two-phase allocation, skipped blocks.
3. `collective_rpc` on top of `BroadcastQueue`: failed and late responses.
4. Proofs: the counters of tokens in flight (`PlaceholdersExact`); the free list as
   an implementation of the queue step by step.
