---------------------------- MODULE DataParallel ----------------------------
(***************************************************************************)
(* Data-parallel waves: the engine cores (DPEngineCoreProc), the           *)
(* coordinator (DPCoordinatorProc) and one front end (DPLBAsyncMPClient).  *)
(*                                                                         *)
(* A mixture-of-experts model makes every forward pass a collective of all *)
(* engines, so an engine with a request can only step while the others run *)
(* dummy batches.  The engines run in waves: a wave starts when some       *)
(* engine gets a request, and ends when an all-reduce, made every          *)
(* sync_interval steps, finds no engine with unfinished requests.  The     *)
(* coordinator wakes the idle engines with START_DP_WAVE; requests carry   *)
(* the wave the front end believes in, so that one sent to a wave that is  *)
(* over restarts the engines.  A pause is agreed on in the same            *)
(* all-reduce.                                                             *)
(*                                                                         *)
(* Each socket is a FIFO channel; an engine reads the front end's and the  *)
(* coordinator's in any interleaving (its input thread merges them).  A    *)
(* collective is a barrier: an engine that enters one stays in it until    *)
(* all are in the same one.                                                *)
(***************************************************************************)
EXTENDS Integers, Sequences, FiniteSets

CONSTANTS dp_size,        \* number of engines
          sync_interval,  \* steps between two finish all-reduces (32)
          MaxRequests,    \* bound on the requests the front end sends
          Steps,          \* engine steps a request needs
          Abortable,      \* the requests the front end may abort
          PauseModes      \* the modes the front end may pause with, once

ASSUME DPAssumption ==
    /\ {dp_size, sync_interval, Steps} \subseteq Nat \ {0}
    /\ MaxRequests \in Nat
    /\ Abortable \subseteq 1 .. MaxRequests
    /\ PauseModes \subseteq {"abort", "wait", "keep"}

Engines == 0 .. dp_size - 1
Requests == 1 .. MaxRequests
None == -1

\* Mutant: the front end names the engine by its index.
Index(e) == e

\* What a front end calls an engine: the identity of its socket, a byte string,
\* never equal to the index the engine itself goes by.
Identity(e) == dp_size + e

VARIABLES
    pc,                    \* engine: "input", "forward", "sync", "synced", "resume"
    engines_running, current_wave, step_counter,
    pause_state, pending_pause, ignore_start_dp_wave,
    idle_callback,         \* engine: its pause future, "none", "waiting", "resolved"
    dp_state,              \* engine: what the finish all-reduce returned to it
    status, engine, left,  \* request: its state, its engine, its steps to go
    input, start, output,  \* channels: front end, coordinator -> engine -> coordinator
    client_wave, client_running, first_reqs, aborts, pause,
    to_coordinator, publish,   \* channels between front end and coordinator
    coord_wave, coord_running

engineVars == <<pc, engines_running, current_wave, step_counter, pause_state,
                pending_pause, ignore_start_dp_wave, idle_callback, dp_state>>
requestVars == <<status, engine, left>>
clientVars == <<client_wave, client_running, first_reqs, aborts, pause>>
coordVars == <<coord_wave, coord_running>>
vars == <<engineVars, requestVars, clientVars, coordVars,
          input, start, output, to_coordinator, publish>>

Init ==
    /\ pc = [e \in Engines |-> "input"]
    /\ engines_running = [e \in Engines |-> FALSE]
    /\ current_wave = [e \in Engines |-> 0]
    /\ step_counter = [e \in Engines |-> 0]
    /\ pause_state = [e \in Engines |-> "UNPAUSED"]
    /\ pending_pause = [e \in Engines |-> FALSE]
    /\ ignore_start_dp_wave = [e \in Engines |-> FALSE]
    /\ idle_callback = [e \in Engines |-> "none"]
    /\ dp_state = [e \in Engines |-> [unfinished |-> FALSE, consensus |-> FALSE]]
    /\ status = [r \in Requests |-> "new"]
    /\ engine = [r \in Requests |-> None]
    /\ left = [r \in Requests |-> Steps]
    /\ input = [e \in Engines |-> <<>>]
    /\ start = [e \in Engines |-> <<>>]
    /\ output = [e \in Engines |-> <<>>]
    /\ client_wave = 0 /\ client_running = FALSE
    /\ first_reqs = <<>> /\ aborts = {} /\ pause = "none"
    /\ to_coordinator = <<>> /\ publish = <<>>
    /\ coord_wave = 0 /\ coord_running = FALSE

-----------------------------------------------------------------------------
(* The front end. *)

\* A request goes to some engine with the wave the front end believes in; if
\* the engines are believed idle, the stats task is told of it as well.
add_request_async(r, e) ==
    /\ status[r] = "new"
    /\ \A q \in 1 .. r - 1 : status[q] # "new"
    /\ status' = [status EXCEPT ![r] = "sent"]
    /\ engine' = [engine EXCEPT ![r] = e]
    /\ input' = [input EXCEPT ![e] =
                    Append(@, [type |-> "ADD", request |-> r, wave |-> client_wave])]
    /\ first_reqs' = IF client_running THEN first_reqs ELSE Append(first_reqs, Identity(e))
    /\ UNCHANGED <<engineVars, left, client_wave, client_running, aborts, pause,
                   coordVars, start, output, to_coordinator, publish>>

\* The stats task forwards a FIRST_REQ, with the wave it knows by now.
ForwardFirstReq ==
    /\ first_reqs # <<>>
    /\ first_reqs' = Tail(first_reqs)
    /\ client_running' = TRUE
    /\ to_coordinator' = Append(to_coordinator,
                                [target |-> Head(first_reqs), wave |-> client_wave])
    /\ UNCHANGED <<engineVars, requestVars, client_wave, aborts, pause,
                   coordVars, input, start, output, publish>>

\* The stats task takes the state the coordinator published.
UpdateStats ==
    /\ publish # <<>>
    /\ client_wave' = Head(publish).wave
    /\ client_running' = Head(publish).running
    /\ publish' = Tail(publish)
    /\ UNCHANGED <<engineVars, requestVars, first_reqs, aborts, pause,
                   coordVars, input, start, output, to_coordinator>>

\* The caller drops a request it has no final output of.
abort_requests_async(r) ==
    /\ r \in Abortable \ aborts
    /\ status[r] \in {"sent", "waiting", "running"}
    /\ aborts' = aborts \cup {r}
    /\ input' = [input EXCEPT ![engine[r]] = Append(@, [type |-> "ABORT", request |-> r])]
    /\ UNCHANGED <<engineVars, requestVars, client_wave, client_running, first_reqs, pause,
                   coordVars, start, output, to_coordinator, publish>>

\* call_utility_async sends the call to every engine and awaits all results.
pause_generation(mode) ==
    /\ pause = "none"
    /\ pause' = "pausing"
    /\ input' = [e \in Engines |-> Append(input[e], [type |-> "PAUSE", mode |-> mode])]
    /\ UNCHANGED <<engineVars, requestVars, client_wave, client_running, first_reqs, aborts,
                   coordVars, start, output, to_coordinator, publish>>

resume_generation ==
    /\ pause = "pausing"
    /\ \A e \in Engines : idle_callback[e] = "resolved"
    /\ pause' = "resumed"
    /\ input' = [e \in Engines |-> Append(input[e], [type |-> "RESUME"])]
    /\ UNCHANGED <<engineVars, requestVars, client_wave, client_running, first_reqs, aborts,
                   coordVars, start, output, to_coordinator, publish>>

-----------------------------------------------------------------------------
(* The coordinator. *)

Published(w, running) == Append(publish, [wave |-> w, running |-> running])

\* START_DP_WAVE for all engines.
SendStartWave(w, exclude) ==
    start' = [e \in Engines |-> Append(start[e], [wave |-> w, exclude |-> exclude])]

\* The engine a START_DP_WAVE leaves out: the one the front end names, unless
\* its wave is over.  The name is an identity, so no engine is left out.
Excluded(m) == IF m.wave < coord_wave THEN None ELSE m.target

\* A front end sent a request while it believed the engines idle.
FrontMessage ==
    /\ to_coordinator # <<>>
    /\ to_coordinator' = Tail(to_coordinator)
    /\ IF coord_running
       THEN UNCHANGED <<coord_running, start, publish>>
       ELSE /\ coord_running' = TRUE
            /\ SendStartWave(coord_wave, Excluded(Head(to_coordinator)))
            /\ publish' = Published(coord_wave, TRUE)
    /\ UNCHANGED <<engineVars, requestVars, clientVars, coord_wave, input, output>>

\* Mutant: a wave is skipped.
WaveSkipping(w) == w + 2

\* The wave after wave w.
WaveAfter(w) == w + 1

\* Rank 0 reports the end of a wave.
WaveComplete(e) ==
    /\ output[e] # <<>>
    /\ Head(output[e]).type = "wave_complete"
    /\ output' = [output EXCEPT ![e] = Tail(@)]
    /\ LET w == Head(output[e]).wave IN
       IF coord_wave <= w
       THEN /\ coord_wave' = WaveAfter(w)
            /\ coord_running' = FALSE
            /\ publish' = Published(WaveAfter(w), FALSE)
       ELSE UNCHANGED <<coordVars, publish>>
    /\ UNCHANGED <<engineVars, requestVars, clientVars, input, start, to_coordinator>>

\* Mutant: a wave the coordinator has already moved to is taken for running.
IsLaterWave(w) == w > coord_wave

\* Is an engine's report that it started wave w news to the coordinator?
IsNewWave(w) == w > coord_wave \/ (w = coord_wave /\ ~coord_running)

\* An engine started a wave for a request of an earlier one.
StartWave(e) ==
    /\ output[e] # <<>>
    /\ Head(output[e]).type = "start_wave"
    /\ output' = [output EXCEPT ![e] = Tail(@)]
    /\ LET w == Head(output[e]).wave IN
       IF IsNewWave(w)
       THEN /\ coord_wave' = w
            /\ coord_running' = TRUE
            /\ SendStartWave(w, e)
            /\ publish' = Published(w, TRUE)
       ELSE UNCHANGED <<coordVars, start, publish>>
    /\ UNCHANGED <<engineVars, requestVars, clientVars, input, to_coordinator>>

\* The wave state is also published at intervals, with the load statistics.
\* The model does so when the front end has taken the previous publication and
\* this one may change what it believes, now or after the FIRST_REQ it forwards.
PublishStats ==
    /\ publish = <<>>
    /\ \/ client_wave # coord_wave \/ client_running # coord_running
       \/ first_reqs # <<>>
    /\ publish' = Published(coord_wave, coord_running)
    /\ UNCHANGED <<engineVars, requestVars, clientVars, coordVars,
                   input, start, output, to_coordinator>>

-----------------------------------------------------------------------------
(* The engines. *)

\* The requests in engine e's scheduler.
Waiting(e) == {r \in Requests : engine[r] = e /\ status[r] = "waiting"}
Running(e) == {r \in Requests : engine[r] = e /\ status[r] = "running"}

has_unfinished_requests(e) ==
    CASE pause_state[e] = "PAUSED_ALL" -> FALSE
      [] pause_state[e] = "PAUSED_NEW" -> Running(e) # {}
      [] pause_state[e] = "UNPAUSED"   -> Running(e) \cup Waiting(e) # {}

has_work(e) == engines_running[e] \/ has_unfinished_requests(e)

\* Engine e takes the next message of the front end, of the given type.
Receive(e, type) ==
    /\ pc[e] = "input"
    /\ input[e] # <<>>
    /\ Head(input[e]).type = type
    /\ input' = [input EXCEPT ![e] = Tail(@)]
    /\ UNCHANGED <<clientVars, coordVars, dp_state, start, to_coordinator, publish>>

\* Mutant: a paused engine starts it, too.
StartsNextWavePaused(e, w) == w < current_wave[e] /\ ~engines_running[e]

\* A request sent for wave w, which is over, makes an idle engine start the
\* current one.
StartsNextWave(e, w) ==
    /\ w < current_wave[e]
    /\ ~engines_running[e]
    /\ pause_state[e] = "UNPAUSED"

\* A request of a later wave moves the engine to it; one of an earlier wave
\* may start the current one, and the coordinator is told.
add_request(e) ==
    /\ Receive(e, "ADD")
    /\ LET m == Head(input[e])
           restart == StartsNextWave(e, m.wave)
       IN /\ status' = [status EXCEPT ![m.request] = "waiting"]
          /\ current_wave' = [current_wave EXCEPT ![e] = IF m.wave > @ THEN m.wave ELSE @]
          /\ engines_running' = [engines_running EXCEPT ![e] = @ \/ restart]
          /\ output' = IF restart
                       THEN [output EXCEPT ![e] =
                               Append(@, [type |-> "start_wave", wave |-> current_wave[e]])]
                       ELSE output
    /\ UNCHANGED <<pc, step_counter, pause_state, pending_pause, ignore_start_dp_wave,
                   idle_callback, engine, left>>

\* Requests that are over leave the scheduler and the front end's table.
Finish(R, how) ==
    /\ status' = [r \in Requests |-> IF r \in R THEN how ELSE status[r]]
    /\ engine' = [r \in Requests |-> IF r \in R THEN None ELSE engine[r]]

abort_requests(e) ==
    /\ Receive(e, "ABORT")
    /\ Finish({Head(input[e]).request} \cap (Waiting(e) \cup Running(e)), "aborted")
    /\ UNCHANGED <<pc, engines_running, current_wave, step_counter, pause_state, pending_pause,
                   ignore_start_dp_wave, idle_callback, left, output>>

\* The scheduler pauses at once; the engine then runs until all engines agree.
pause_scheduler(e) ==
    /\ Receive(e, "PAUSE")
    /\ LET mode == Head(input[e]).mode IN
       /\ Finish(IF mode = "abort" THEN Waiting(e) \cup Running(e) ELSE {}, "aborted")
       /\ pause_state' = [pause_state EXCEPT ![e] =
                            IF mode = "keep" THEN "PAUSED_ALL" ELSE "PAUSED_NEW"]
    /\ pending_pause' = [pending_pause EXCEPT ![e] = TRUE]
    /\ engines_running' = [engines_running EXCEPT ![e] = TRUE]
    /\ idle_callback' = [idle_callback EXCEPT ![e] = "waiting"]
    /\ UNCHANGED <<pc, current_wave, step_counter, ignore_start_dp_wave, left, output>>

\* Refused while a pause is in flight, ignored while the engines run; otherwise
\* the engine waits in an all-reduce for the others to resume.
resume_scheduler(e) ==
    /\ Receive(e, "RESUME")
    /\ IF pending_pause[e] \/ engines_running[e]
       THEN UNCHANGED <<pc, pause_state, ignore_start_dp_wave>>
       ELSE /\ pause_state' = [pause_state EXCEPT ![e] = "UNPAUSED"]
            /\ ignore_start_dp_wave' = [ignore_start_dp_wave EXCEPT ![e] = FALSE]
            /\ pc' = [pc EXCEPT ![e] = "resume"]
    /\ UNCHANGED <<engines_running, current_wave, step_counter, pending_pause, idle_callback,
                   requestVars, output>>

\* Mutant: a wave that is over is joined, too.
JoinsAnyWave(e, m) == ~ignore_start_dp_wave[e] /\ m.exclude # e

\* Mutant: the agreement on a pause is not looked at.
JoinsPaused(e, m) == m.exclude # e /\ m.wave >= current_wave[e]

\* An engine that is not excluded joins the wave of a START_DP_WAVE, unless it
\* is over or the engines have agreed on a pause.
Joins(e, m) ==
    /\ ~ignore_start_dp_wave[e]
    /\ m.exclude # e
    /\ m.wave >= current_wave[e]

\* START_DP_WAVE.
HandleStartDpWave(e) ==
    /\ pc[e] = "input"
    /\ start[e] # <<>>
    /\ start' = [start EXCEPT ![e] = Tail(@)]
    /\ LET m == Head(start[e])
       IN /\ current_wave' = [current_wave EXCEPT ![e] = IF Joins(e, m) THEN m.wave ELSE @]
          /\ engines_running' = [engines_running EXCEPT ![e] = @ \/ Joins(e, m)]
    /\ UNCHANGED <<pc, step_counter, pause_state, pending_pause, ignore_start_dp_wave,
                   idle_callback, dp_state, requestVars, clientVars, coordVars,
                   input, output, to_coordinator, publish>>

\* With work to do the engine leaves its input queue and enters the forward
\* pass, of the requests the scheduler may run or of a dummy batch.
EnterForward(e) ==
    /\ pc[e] = "input"
    /\ has_work(e)
    /\ pc' = [pc EXCEPT ![e] = "forward"]
    /\ status' = [r \in Requests |->
                    IF r \in Waiting(e) /\ pause_state[e] = "UNPAUSED" THEN "running"
                                                                       ELSE status[r]]
    /\ UNCHANGED <<engines_running, current_wave, step_counter, pause_state, pending_pause,
                   ignore_start_dp_wave, idle_callback, dp_state, engine, left, clientVars,
                   coordVars, input, start, output, to_coordinator, publish>>

\* The aborts that have arrived by the end of a forward pass with requests are
\* applied to its results, and stay in the input queue.
EagerAbort(e) ==
    /\ pc[e] = "forward"
    /\ Running(e) # {} /\ pause_state[e] # "PAUSED_ALL"
    /\ \E n \in DOMAIN input[e] :
          LET arrived == {i \in 1 .. n : input[e][i].type = "ABORT"}
          IN Finish({input[e][i].request : i \in arrived} \cap (Waiting(e) \cup Running(e)),
                    "aborted")
    /\ UNCHANGED <<engineVars, left, clientVars, coordVars,
                   input, start, output, to_coordinator, publish>>

Blocked(c) == \A e \in Engines : pc[e] = c

\* Mutant: the counter is not reduced.
NextStepUnbounded(e) == step_counter[e] + 1

\* The steps since the last finish all-reduce; the counter itself is only used
\* modulo the interval.
NextStep(e) == (step_counter[e] + 1) % sync_interval

\* The forward pass of all engines: the requests in it advance, and every
\* sync_interval steps the engines go on to the finish all-reduce.
Forward ==
    /\ Blocked("forward")
    /\ LET batch == {r \in Requests : /\ status[r] = "running"
                                      /\ pause_state[engine[r]] # "PAUSED_ALL"}
       IN /\ left' = [r \in Requests |-> IF r \in batch THEN left[r] - 1 ELSE left[r]]
          /\ Finish({r \in batch : left[r] = 1}, "finished")
    /\ step_counter' = [e \in Engines |-> NextStep(e)]
    /\ pc' = [e \in Engines |-> IF NextStep(e) = 0 THEN "sync" ELSE "input"]
    /\ engines_running' = [e \in Engines |-> engines_running[e] \/ NextStep(e) # 0]
    /\ UNCHANGED <<current_wave, pause_state, pending_pause, ignore_start_dp_wave, idle_callback,
                   dp_state, clientVars, coordVars,
                   input, start, output, to_coordinator, publish>>

\* Mutant: a pause some engines have yet to hear of does not keep them running.
PauseNeverPartial(pausing) == FALSE

\* Some engines have heard of a pause and others have not: all keep running.
PausePartial(pausing) == Cardinality(pausing) % dp_size # 0

\* The finish all-reduce: is any engine unfinished, do all want to pause?
sync_dp_state ==
    /\ Blocked("sync")
    /\ LET pausing == {e \in Engines : pending_pause[e]}
       IN dp_state' = [e \in Engines |->
                         [unfinished |-> \/ \E f \in Engines : has_unfinished_requests(f)
                                         \/ PausePartial(pausing),
                          consensus  |-> pausing = Engines]]
    /\ pc' = [e \in Engines |-> "synced"]
    /\ UNCHANGED <<engines_running, current_wave, step_counter, pause_state, pending_pause,
                   ignore_start_dp_wave, idle_callback, requestVars, clientVars, coordVars,
                   input, start, output, to_coordinator, publish>>

\* Mutant: the future resolves with the agreement, before the engine is idle.
IdleCallbackEarly(e) ==
    IF idle_callback[e] = "waiting" /\ dp_state[e].consensus THEN "resolved"
                                                             ELSE idle_callback[e]

\* An engine that becomes idle resolves its pause future.
IdleCallback(e) ==
    IF idle_callback[e] = "waiting" /\ ~dp_state[e].unfinished THEN "resolved"
                                                               ELSE idle_callback[e]

\* An engine acts on it: the wave goes on, or it is over, which rank 0 reports.
FinishStep(e) ==
    /\ pc[e] = "synced"
    /\ pc' = [pc EXCEPT ![e] = "input"]
    /\ engines_running' = [engines_running EXCEPT ![e] = dp_state[e].unfinished]
    /\ ignore_start_dp_wave' = [ignore_start_dp_wave EXCEPT ![e] = @ \/ dp_state[e].consensus]
    /\ pending_pause' = [pending_pause EXCEPT ![e] = @ /\ ~dp_state[e].consensus]
    /\ idle_callback' = [idle_callback EXCEPT ![e] = IdleCallback(e)]
    /\ IF dp_state[e].unfinished
       THEN UNCHANGED <<current_wave, output>>
       ELSE /\ current_wave' = [current_wave EXCEPT ![e] = @ + 1]
            /\ output' = IF e # 0 THEN output
                         ELSE [output EXCEPT ![e] =
                                 Append(@, [type |-> "wave_complete", wave |-> current_wave[e]])]
    /\ dp_state' = [dp_state EXCEPT ![e] = [unfinished |-> FALSE, consensus |-> FALSE]]
    /\ UNCHANGED <<step_counter, pause_state, requestVars, clientVars, coordVars,
                   input, start, to_coordinator, publish>>

\* The all-reduce of resume_scheduler: all engines run if one has requests.
ResumeTogether ==
    /\ Blocked("resume")
    /\ engines_running' = [e \in Engines |->
                             \/ engines_running[e]
                             \/ \E f \in Engines : has_unfinished_requests(f)]
    /\ pc' = [e \in Engines |-> "input"]
    /\ UNCHANGED <<current_wave, step_counter, pause_state, pending_pause, ignore_start_dp_wave,
                   idle_callback, dp_state, requestVars, clientVars, coordVars,
                   input, start, output, to_coordinator, publish>>

-----------------------------------------------------------------------------
FrontEnd ==
    \/ \E r \in Requests, e \in Engines : add_request_async(r, e)
    \/ \E r \in Requests : abort_requests_async(r)
    \/ \E mode \in PauseModes : pause_generation(mode)
    \/ resume_generation

StatsTask == ForwardFirstReq \/ UpdateStats

Coordinator == FrontMessage \/ \E e \in Engines : WaveComplete(e) \/ StartWave(e)

HandleClientRequest(e) ==
    \/ add_request(e) \/ abort_requests(e) \/ pause_scheduler(e) \/ resume_scheduler(e)

BusyLoop(e) == EnterForward(e) \/ FinishStep(e)

Collective == Forward \/ sync_dp_state \/ ResumeTogether

Next ==
    \/ FrontEnd \/ StatsTask \/ Coordinator \/ PublishStats \/ Collective
    \/ \E e \in Engines : \/ HandleClientRequest(e) \/ HandleStartDpWave(e)
                          \/ BusyLoop(e) \/ EagerAbort(e)

Spec == Init /\ [][Next]_vars

\* Every process keeps running: an engine reads both its sockets and steps when
\* it has work, the coordinator and the stats task answer what they receive.
\* Nothing obliges the front end to send, abort, pause or resume.
FairSpec ==
    /\ Spec
    /\ WF_vars(ForwardFirstReq) /\ WF_vars(UpdateStats)
    /\ WF_vars(FrontMessage) /\ WF_vars(Collective)
    /\ \A e \in Engines :
          /\ WF_vars(WaveComplete(e) \/ StartWave(e))
          /\ SF_vars(HandleClientRequest(e)) /\ SF_vars(HandleStartDpWave(e))
          /\ WF_vars(BusyLoop(e))

-----------------------------------------------------------------------------
(* Properties. *)

\* What the channels carry.
Message == [type : {"ADD"}, request : Requests, wave : Nat]
           \cup [type : {"ABORT"}, request : Requests]
           \cup [type : {"PAUSE"}, mode : {"abort", "wait", "keep"}]
           \cup [type : {"RESUME"}]
StartMessage == [wave : Nat, exclude : Int]
Output == [type : {"start_wave", "wave_complete"}, wave : Nat]

EngineTypes ==
    /\ pc \in [Engines -> {"input", "forward", "sync", "synced", "resume"}]
    /\ engines_running \in [Engines -> BOOLEAN]
    /\ current_wave \in [Engines -> Nat]
    /\ step_counter \in [Engines -> 0 .. sync_interval - 1]
    /\ pause_state \in [Engines -> {"UNPAUSED", "PAUSED_NEW", "PAUSED_ALL"}]
    /\ pending_pause \in [Engines -> BOOLEAN]
    /\ ignore_start_dp_wave \in [Engines -> BOOLEAN]
    /\ idle_callback \in [Engines -> {"none", "waiting", "resolved"}]
    /\ dp_state \in [Engines -> [unfinished : BOOLEAN, consensus : BOOLEAN]]

RequestTypes ==
    /\ status \in [Requests -> {"new", "sent", "waiting", "running", "finished", "aborted"}]
    /\ engine \in [Requests -> Engines \cup {None}]
    /\ left \in [Requests -> Int]

ChannelTypes ==
    /\ input \in [Engines -> Seq(Message)]
    /\ start \in [Engines -> Seq(StartMessage)]
    /\ output \in [Engines -> Seq(Output)]
    /\ to_coordinator \in Seq([target : Int, wave : Nat])
    /\ publish \in Seq([wave : Nat, running : BOOLEAN])

ClientTypes ==
    /\ client_wave \in Nat /\ client_running \in BOOLEAN
    /\ first_reqs \in Seq(Int)
    /\ aborts \subseteq Requests
    /\ pause \in {"none", "pausing", "resumed"}
    /\ coord_wave \in Nat /\ coord_running \in BOOLEAN

\* The types of the variables; no step is counted past an all-reduce.
TypeOK == EngineTypes /\ RequestTypes /\ ChannelTypes /\ ClientTypes

\* Two engines never wait in different collectives, the forward pass of one
\* step, the finish all-reduce, the all-reduce of a resume: each would wait for
\* the other for ever.
CollectivesMatch ==
    \A e, f \in Engines :
        pc[e] \in {"forward", "sync", "resume"} /\ pc[f] \in {"forward", "sync", "resume"}
            => pc[e] = pc[f]

\* Engines that meet in a collective are in the same wave, at the same step of
\* it: "step_counter is identical across DP ranks".
WavesAgree ==
    \A e, f \in Engines :
        pc[e] = pc[f] /\ pc[e] # "input"
            => current_wave[e] = current_wave[f] /\ step_counter[e] = step_counter[f]

\* No message is ahead of the engine that reads it: neither a request nor a
\* START_DP_WAVE names a wave the engine has yet to reach.
NeverAhead ==
    \A e \in Engines : pc[e] = "input" =>
        /\ \A i \in DOMAIN input[e] :
              input[e][i].type = "ADD" => input[e][i].wave <= current_wave[e]
        /\ \A i \in DOMAIN start[e] : start[e][i].wave <= current_wave[e]

\* A resume sent once all the pause futures have resolved finds every engine
\* stopped: none refuses or ignores it, which would leave the others waiting in
\* its all-reduce.
ResumeHonoured ==
    \A e \in Engines :
        pc[e] = "input" /\ input[e] # <<>> /\ Head(input[e]).type = "RESUME"
            => ~pending_pause[e] /\ ~engines_running[e]

\* While a pause is in effect (its futures resolved, no resume sent) no engine
\* enters a collective, whatever requests and wake-ups arrive: the caller may
\* run collectives of its own.
PausedEnginesStop ==
    pause = "pausing" /\ (\A e \in Engines : idle_callback[e] = "resolved")
        => \A e \in Engines : pc[e] = "input" /\ ~has_work(e)

\* Engine e waits in a forward pass, the others are idle, and nothing is in
\* flight that could wake them.
Stranded(e) ==
    /\ pc[e] = "forward"
    /\ \A f \in Engines \ {e} : /\ pc[f] = "input" /\ ~has_work(f)
                                /\ input[f] = <<>> /\ start[f] = <<>> /\ output[f] = <<>>
    /\ output[e] = <<>> /\ first_reqs = <<>> /\ to_coordinator = <<>>

\* Until the front end pauses, nobody forgets to wake an engine: one that steps
\* is never left alone in a forward pass, even if the request that started the
\* wave is aborted before its engine has run a step.
NoEngineStranded == pause = "none" => \A e \in Engines : ~Stranded(e)

Over(r) == status[r] \in {"finished", "aborted"}
AtRest == \A e \in Engines : pc[e] = "input" /\ ~has_work(e)

\* Again and again, all requests sent are over and the engines at rest: every
\* request is served, whatever wave it was sent for, and the dummy batches of
\* the other engines end.  While a pause is in effect requests may wait.
RequestsServed ==
    []<>(\/ pause = "pausing"
         \/ AtRest /\ \A r \in Requests : status[r] = "new" \/ Over(r))

\* A pause completes: all engines agree on it, drain and resolve their futures,
\* whatever wave they were in or out of when they heard of it.
PauseCompletes ==
    []<>(pause = "pausing" => \A e \in Engines : idle_callback[e] = "resolved")

\* "Engines will move into running state when receiving a new request or
\* START_DP_WAVE message" (coordinator.py): a request sent once the pause is
\* over, or during it, is served.
ServedAfterPause ==
    []<>(pause = "pausing" \/ \A r \in Requests : status[r] = "new" \/ Over(r))
=============================================================================
