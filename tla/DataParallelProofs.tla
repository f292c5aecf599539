------------------------- MODULE DataParallelProofs -------------------------
(***************************************************************************)
(* Data-parallel waves: the types, and that the engines agree on the wave  *)
(* and on the step of it; then the waves through a pause: the requests of  *)
(* an engine are no other's, what the finish all-reduce tells an engine is *)
(* true until it acts on it, no two engines wait in different collectives, *)
(* a pause stops all of them and a resume is never refused; last, until a  *)
(* pause nobody forgets to wake an engine the others wait for. All for any *)
(* number of engines and requests, any interval between all-reduces and    *)
(* any interleaving of the channels.                                       *)
(***************************************************************************)
EXTENDS DataParallel, FiniteSetTheorems, TLAPS

(* Facts about the constants and the messages. *)

\* Rank 0 is an engine, and None is not.
LEMMA EngineFacts == 0 \in Engines /\ None \notin Engines /\ Engines \subseteq Int
  BY SMTT(30), DPAssumption DEF Engines, None

\* The step counter stays below the interval.
LEMMA StepBounded ==
  ASSUME TypeOK, NEW e \in Engines
  PROVE  NextStep(e) \in 0 .. sync_interval - 1
  <1>1. sync_interval \in Nat \ {0} /\ step_counter[e] \in Nat
    BY DPAssumption DEF TypeOK, EngineTypes
  <1> QED BY <1>1 DEF NextStep

\* The fields of the messages an engine reads.
LEMMA MessageFields ==
  ASSUME NEW m \in Message
  PROVE  /\ m.type \in {"ADD", "ABORT", "PAUSE", "RESUME"}
         /\ m.type = "ADD" => m.request \in Requests /\ m.wave \in Nat
         /\ m.type = "ABORT" => m.request \in Requests
  BY Zenon DEF Message

LEMMA NewMessages ==
  ASSUME NEW r \in Requests, NEW w \in Nat, NEW mode \in {"abort", "wait", "keep"}
  PROVE  /\ [type |-> "ADD", request |-> r, wave |-> w] \in Message
         /\ [type |-> "ABORT", request |-> r] \in Message
         /\ [type |-> "PAUSE", mode |-> mode] \in Message
         /\ [type |-> "RESUME"] \in Message
  BY Zenon DEF Message

LEMMA ElementFact ==
  ASSUME NEW S, NEW s \in Seq(S), NEW i \in DOMAIN s
  PROVE  s[i] \in S
  OBVIOUS

\* Taking the first element of a channel.
LEMMA TailFacts ==
  ASSUME NEW S, NEW s \in Seq(S), s # <<>>
  PROVE  /\ Head(s) \in S /\ Tail(s) \in Seq(S)
         /\ 1 \in DOMAIN s /\ Head(s) = s[1]
         /\ \A i \in DOMAIN Tail(s) : i + 1 \in DOMAIN s /\ Tail(s)[i] = s[i + 1]
         /\ \A i \in DOMAIN s : i # 1 => i - 1 \in DOMAIN Tail(s) /\ Tail(s)[i - 1] = s[i]
  OBVIOUS

\* Adding one at its end.
LEMMA AppendFacts ==
  ASSUME NEW S, NEW s \in Seq(S), NEW x \in S
  PROVE  /\ Append(s, x) \in Seq(S)
         /\ Len(s) + 1 \in DOMAIN Append(s, x) /\ Append(s, x)[Len(s) + 1] = x
         /\ \A i \in DOMAIN s : i \in DOMAIN Append(s, x) /\ Append(s, x)[i] = s[i]
         /\ \A i \in DOMAIN Append(s, x) : i \in DOMAIN s \/ i = Len(s) + 1
         /\ Len(s) + 1 \notin DOMAIN s
  OBVIOUS

\* The message an engine receives.
LEMMA ReceiveFacts ==
  ASSUME TypeOK, NEW e \in Engines, NEW type, Receive(e, type)
  PROVE  /\ pc[e] = "input"
         /\ Head(input[e]) \in Message
         /\ Head(input[e]).type = type
         /\ input[e] \in Seq(Message) /\ input[e] # <<>>
         /\ input' \in [Engines -> Seq(Message)]
         /\ input'[e] = Tail(input[e])
         /\ \A f \in Engines : f # e => input'[f] = input[f]
         /\ UNCHANGED <<clientVars, coordVars, dp_state, start, to_coordinator, publish>>
  <1>1. input[e] \in Seq(Message) /\ input[e] # <<>>
    BY Zenon DEF TypeOK, ChannelTypes, Receive
  <1>2. Head(input[e]) \in Message /\ Tail(input[e]) \in Seq(Message)
    BY <1>1, TailFacts, Zenon
  <1> QED BY <1>1, <1>2, Zenon DEF TypeOK, ChannelTypes, Receive

\* The requests that are over.
LEMMA FinishFacts ==
  ASSUME TypeOK, NEW R \in SUBSET Requests, NEW how \in {"finished", "aborted"}, Finish(R, how)
  PROVE  /\ status' \in [Requests -> {"new", "sent", "waiting", "running", "finished", "aborted"}]
         /\ engine' \in [Requests -> Engines \cup {None}]
         /\ \A r \in R : status'[r] = how
         /\ \A r \in Requests : r \notin R => status'[r] = status[r] /\ engine'[r] = engine[r]
  BY Zenon DEF TypeOK, RequestTypes, Finish

-----------------------------------------------------------------------------
(* Types. *)

LEMMA TypeInit == Init => TypeOK
  <1> SUFFICES ASSUME Init PROVE TypeOK
    BY Zenon
  <1>1. 0 \in 0 .. sync_interval - 1 /\ Steps \in Int
    BY DPAssumption
  <1>2. EngineTypes
    BY <1>1, Zenon DEF Init, EngineTypes
  <1>3. RequestTypes
    BY <1>1, Zenon DEF Init, RequestTypes
  <1>4. ChannelTypes
    BY DEF Init, ChannelTypes
  <1>5. ClientTypes
    <2>1. client_wave \in Nat /\ first_reqs \in Seq(Int) /\ aborts \subseteq Requests
            /\ pause \in {"none", "pausing", "resumed"} /\ coord_wave \in Nat
      BY SMTT(30) DEF Init
    <2>2. client_running \in BOOLEAN /\ coord_running \in BOOLEAN
      BY Zenon DEF Init
    <2> QED BY <2>1, <2>2, Zenon DEF ClientTypes
  <1> QED BY <1>2, <1>3, <1>4, <1>5, Zenon DEF TypeOK

\* What an action leaves alone keeps its types.
LEMMA TypesUnchanged ==
  ASSUME TypeOK
  PROVE  /\ UNCHANGED engineVars => EngineTypes'
         /\ UNCHANGED requestVars => RequestTypes'
         /\ UNCHANGED <<input, start, output, to_coordinator, publish>> => ChannelTypes'
         /\ UNCHANGED <<clientVars, coordVars>> => ClientTypes'
  BY SMTT(30) DEF TypeOK, EngineTypes, RequestTypes, ChannelTypes, ClientTypes,
         engineVars, requestVars, clientVars, coordVars

LEMMA FrontEndType == TypeOK /\ FrontEnd => TypeOK'
  <1> SUFFICES ASSUME TypeOK, FrontEnd PROVE TypeOK'
    BY Zenon
  <1>1. ASSUME NEW r \in Requests, NEW e \in Engines, add_request_async(r, e) PROVE TypeOK'
    <2>1. [type |-> "ADD", request |-> r, wave |-> client_wave] \in Message
      BY Zenon, NewMessages DEF TypeOK, ClientTypes
    <2>2. Identity(e) \in Int
      BY SMTT(30), DPAssumption DEF Identity, Engines
    <2>3. EngineTypes'
      BY <1>1, TypesUnchanged, Zenon DEF add_request_async
    <2>4. RequestTypes'
      BY <1>1, Zenon DEF TypeOK, RequestTypes, add_request_async
    <2>5. ChannelTypes'
      BY SMTT(30), <1>1, <2>1, AppendFacts DEF TypeOK, ChannelTypes, add_request_async
    <2>6. ClientTypes'
      BY <1>1, <2>2 DEF TypeOK, ClientTypes, add_request_async, coordVars
    <2> QED BY <2>3, <2>4, <2>5, <2>6, Zenon DEF TypeOK
  <1>2. ASSUME NEW r \in Requests, abort_requests_async(r) PROVE TypeOK'
    <2>1. [type |-> "ABORT", request |-> r] \in Message
      BY Zenon DEF Message
    <2>2. EngineTypes' /\ RequestTypes'
      BY <1>2, TypesUnchanged, Zenon DEF abort_requests_async
    <2>3. ChannelTypes'
      <3>1. \A f \in Engines :
               Append(input[f], [type |-> "ABORT", request |-> r]) \in Seq(Message)
        BY SMTT(30), <2>1, AppendFacts DEF TypeOK, ChannelTypes
      <3> QED BY Zenon, <1>2, <3>1 DEF TypeOK, ChannelTypes, abort_requests_async
    <2>4. ClientTypes'
      BY <1>2, Zenon DEF TypeOK, ClientTypes, abort_requests_async, coordVars
    <2> QED BY <2>2, <2>3, <2>4, Zenon DEF TypeOK
  <1>3. ASSUME NEW mode \in PauseModes, pause_generation(mode) PROVE TypeOK'
    <2>1. [type |-> "PAUSE", mode |-> mode] \in Message
      BY DPAssumption, Zenon DEF Message
    <2>2. EngineTypes' /\ RequestTypes'
      BY <1>3, TypesUnchanged, Zenon DEF pause_generation
    <2>3. ChannelTypes'
      BY <1>3, <2>1, AppendFacts DEF TypeOK, ChannelTypes, pause_generation
    <2>4. ClientTypes'
      BY <1>3, Zenon DEF TypeOK, ClientTypes, pause_generation, coordVars
    <2> QED BY <2>2, <2>3, <2>4, Zenon DEF TypeOK
  <1>4. CASE resume_generation
    <2>1. [type |-> "RESUME"] \in Message
      BY Zenon DEF Message
    <2>2. EngineTypes' /\ RequestTypes'
      BY <1>4, TypesUnchanged, Zenon DEF resume_generation
    <2>3. ChannelTypes'
      BY <1>4, <2>1, AppendFacts, Zenon DEF TypeOK, ChannelTypes, resume_generation
    <2>4. ClientTypes'
      BY <1>4, Zenon DEF TypeOK, ClientTypes, resume_generation, coordVars
    <2> QED BY <2>2, <2>3, <2>4, Zenon DEF TypeOK
  <1> QED BY <1>1, <1>2, <1>3, <1>4, Zenon DEF FrontEnd

LEMMA CoordinationType == TypeOK /\ (StatsTask \/ Coordinator \/ PublishStats) => TypeOK'
  <1> SUFFICES ASSUME TypeOK, StatsTask \/ Coordinator \/ PublishStats PROVE TypeOK'
    BY Zenon
  <1>0. ASSUME NEW w \in Nat, NEW b \in BOOLEAN
        PROVE  Published(w, b) \in Seq([wave : Nat, running : BOOLEAN])
    BY SMTT(30) DEF TypeOK, ChannelTypes, Published
  <1>1. CASE ForwardFirstReq
    <2>1. EngineTypes' /\ RequestTypes'
      BY <1>1, TypesUnchanged, Zenon DEF ForwardFirstReq
    <2>2. Head(first_reqs) \in Int /\ Tail(first_reqs) \in Seq(Int)
      BY <1>1, TailFacts, Zenon DEF TypeOK, ClientTypes, ForwardFirstReq
    <2>3. [target |-> Head(first_reqs), wave |-> client_wave] \in [target : Int, wave : Nat]
      BY <2>2, Zenon DEF TypeOK, ClientTypes
    <2>4. ChannelTypes'
      BY SMTT(30), <1>1, <2>3 DEF TypeOK, ChannelTypes, ForwardFirstReq
    <2>5. ClientTypes'
      BY <1>1, <2>2, Zenon DEF TypeOK, ClientTypes, ForwardFirstReq, coordVars
    <2> QED BY <2>1, <2>4, <2>5, Zenon DEF TypeOK
  <1>2. CASE UpdateStats
    <2>1. EngineTypes' /\ RequestTypes'
      BY <1>2, TypesUnchanged, Zenon DEF UpdateStats
    <2>2. /\ Head(publish) \in [wave : Nat, running : BOOLEAN]
          /\ Tail(publish) \in Seq([wave : Nat, running : BOOLEAN])
      BY Zenon, <1>2, TailFacts DEF TypeOK, ChannelTypes, UpdateStats
    <2>3. ChannelTypes'
      BY <1>2, <2>2, Zenon DEF TypeOK, ChannelTypes, UpdateStats
    <2>4. Head(publish).wave \in Nat /\ Head(publish).running \in BOOLEAN
      BY <2>2, Zenon
    <2>5. ClientTypes'
      BY <1>2, <2>4, Zenon DEF TypeOK, ClientTypes, UpdateStats, coordVars
    <2> QED BY <2>1, <2>3, <2>5, Zenon DEF TypeOK
  <1>3. CASE FrontMessage
    <2>1. EngineTypes' /\ RequestTypes'
      BY <1>3, TypesUnchanged, Zenon DEF FrontMessage
    <2>2. /\ Head(to_coordinator) \in [target : Int, wave : Nat]
          /\ Tail(to_coordinator) \in Seq([target : Int, wave : Nat])
      BY Zenon, <1>3, TailFacts DEF TypeOK, ChannelTypes, FrontMessage
    <2>3. Excluded(Head(to_coordinator)) \in Int
      BY SMTT(30), <2>2 DEF Excluded, None
    <2>4. [wave |-> coord_wave, exclude |-> Excluded(Head(to_coordinator))] \in StartMessage
      BY <2>3, Zenon DEF TypeOK, ClientTypes, StartMessage
    <2>5. start' \in [Engines -> Seq(StartMessage)]
      <3>1. \A f \in Engines : Append(start[f], [wave |-> coord_wave,
                                  exclude |-> Excluded(Head(to_coordinator))]) \in Seq(StartMessage)
        BY SMTT(30), <2>4, AppendFacts DEF TypeOK, ChannelTypes
      <3> QED BY Zenon, <1>3, <3>1 DEF TypeOK, ChannelTypes, FrontMessage, SendStartWave
    <2>6. publish' \in Seq([wave : Nat, running : BOOLEAN])
      BY Zenon, <1>3, <1>0 DEF TypeOK, ChannelTypes, ClientTypes, FrontMessage
    <2>7. ChannelTypes'
      BY <1>3, <2>2, <2>5, <2>6, Zenon DEF TypeOK, ChannelTypes, FrontMessage
    <2>8. ClientTypes'
      BY Zenon, <1>3 DEF TypeOK, ClientTypes, FrontMessage, clientVars
    <2> QED BY <2>1, <2>7, <2>8, Zenon DEF TypeOK
  <1>4. ASSUME NEW e \in Engines, WaveComplete(e) PROVE TypeOK'
    <2>1. EngineTypes' /\ RequestTypes'
      BY <1>4, TypesUnchanged, Zenon DEF WaveComplete
    <2>2. Head(output[e]) \in Output /\ Tail(output[e]) \in Seq(Output)
      BY <1>4, TailFacts, Zenon DEF TypeOK, ChannelTypes, WaveComplete
    <2>3. WaveAfter(Head(output[e]).wave) \in Nat
      BY <2>2 DEF Output, WaveAfter
    <2>4. publish' \in Seq([wave : Nat, running : BOOLEAN])
      BY Zenon, <1>4, <1>0, <2>3 DEF TypeOK, ChannelTypes, WaveComplete
    <2>5. ChannelTypes'
      BY <1>4, <2>2, <2>4, Zenon DEF TypeOK, ChannelTypes, WaveComplete
    <2>6. ClientTypes'
      BY Zenon, <1>4, <2>3 DEF TypeOK, ClientTypes, WaveComplete, clientVars, coordVars
    <2> QED BY <2>1, <2>5, <2>6, Zenon DEF TypeOK
  <1>5. ASSUME NEW e \in Engines, StartWave(e) PROVE TypeOK'
    <2>1. EngineTypes' /\ RequestTypes'
      BY <1>5, TypesUnchanged, Zenon DEF StartWave
    <2>2. Head(output[e]) \in Output /\ Tail(output[e]) \in Seq(Output)
      BY <1>5, TailFacts, Zenon DEF TypeOK, ChannelTypes, StartWave
    <2>3. Head(output[e]).wave \in Nat
      BY <2>2, Zenon DEF Output
    <2>4. publish' \in Seq([wave : Nat, running : BOOLEAN])
      BY Zenon, <1>5, <1>0, <2>3 DEF TypeOK, ChannelTypes, StartWave
    <2>5. [wave |-> Head(output[e]).wave, exclude |-> e] \in StartMessage
      BY <2>3, EngineFacts, Zenon DEF StartMessage
    <2>6. start' \in [Engines -> Seq(StartMessage)]
      <3>1. \A f \in Engines : Append(start[f], [wave |-> Head(output[e]).wave, exclude |-> e])
                                 \in Seq(StartMessage)
        BY SMTT(30), <2>5, AppendFacts DEF TypeOK, ChannelTypes
      <3> QED BY Zenon, <1>5, <3>1 DEF TypeOK, ChannelTypes, StartWave, SendStartWave
    <2>7. ChannelTypes'
      BY Zenon, <1>5, <2>2, <2>4, <2>6 DEF TypeOK, ChannelTypes, StartWave
    <2>8. ClientTypes'
      BY Zenon, <1>5, <2>3 DEF TypeOK, ClientTypes, StartWave, clientVars, coordVars
    <2> QED BY <2>1, <2>7, <2>8, Zenon DEF TypeOK
  <1>6. CASE PublishStats
    <2>1. EngineTypes' /\ RequestTypes' /\ ClientTypes'
      BY <1>6, TypesUnchanged, Zenon DEF PublishStats
    <2>2. ChannelTypes'
      BY Zenon, <1>6, <1>0 DEF TypeOK, ChannelTypes, ClientTypes, PublishStats
    <2> QED BY <2>1, <2>2, Zenon DEF TypeOK
  <1> QED BY <1>1, <1>2, <1>3, <1>4, <1>5, <1>6, Zenon DEF StatsTask, Coordinator

LEMMA HandleClientRequestType ==
  ASSUME TypeOK, NEW e \in Engines, HandleClientRequest(e)
  PROVE  TypeOK'
  <1>1. CASE add_request(e)
    <2> DEFINE m == Head(input[e])
    <2>1. Receive(e, "ADD")
      BY <1>1, Zenon DEF add_request
    <2>2. m.request \in Requests /\ m.wave \in Nat
      BY SMTT(30), <2>1, ReceiveFacts, MessageFields
    <2>3. /\ input' \in [Engines -> Seq(Message)]
          /\ UNCHANGED <<clientVars, coordVars, dp_state, start, to_coordinator, publish>>
      BY <2>1, ReceiveFacts, Zenon
    <2>4. output' \in [Engines -> Seq(Output)]
      <3>1. [type |-> "start_wave", wave |-> current_wave[e]] \in Output
        BY Zenon DEF TypeOK, EngineTypes, Output
      <3>2. Append(output[e], [type |-> "start_wave", wave |-> current_wave[e]]) \in Seq(Output)
        BY <3>1, AppendFacts DEF TypeOK, ChannelTypes
      <3> QED BY <1>1, <3>2, Zenon DEF TypeOK, ChannelTypes, add_request
    <2>5. engines_running' \in [Engines -> BOOLEAN]
      BY <1>1, Zenon DEF TypeOK, EngineTypes, add_request
    <2>6. current_wave' \in [Engines -> Nat]
      <3>1. \/ current_wave' = current_wave
            \/ current_wave' = [current_wave EXCEPT ![e] = m.wave]
        BY Zenon, <1>1 DEF add_request, TypeOK, EngineTypes
      <3> HIDE DEF m
      <3> QED BY <2>2, <3>1, Zenon DEF TypeOK, EngineTypes
    <2>7. EngineTypes'
      BY <1>1, <2>3, <2>5, <2>6, Zenon DEF TypeOK, EngineTypes, add_request
    <2>8. RequestTypes'
      <3>1. /\ status' = [status EXCEPT ![m.request] = "waiting"]
            /\ engine' = engine /\ left' = left
        BY <1>1, Zenon DEF add_request
      <3> QED BY <2>2, <3>1, Zenon DEF TypeOK, RequestTypes
    <2>9. ChannelTypes'
      BY <2>3, <2>4, Zenon DEF TypeOK, ChannelTypes
    <2>10. ClientTypes'
      BY <2>3, TypesUnchanged, Zenon
    <2> QED BY <2>7, <2>8, <2>9, <2>10, Zenon DEF TypeOK
  <1>2. CASE abort_requests(e)
    <2>1. Receive(e, "ABORT")
      BY <1>2, Zenon DEF abort_requests
    <2>2. /\ input' \in [Engines -> Seq(Message)]
          /\ UNCHANGED <<clientVars, coordVars, dp_state, start, to_coordinator, publish>>
      BY <2>1, ReceiveFacts, Zenon
    <2> DEFINE R == {Head(input[e]).request} \cap (Waiting(e) \cup Running(e))
    <2>3. R \in SUBSET Requests /\ Finish(R, "aborted")
      BY <1>2, Zenon DEF abort_requests, Waiting, Running
    <2> HIDE DEF R
    <2>4. /\ status' \in [Requests -> {"new", "sent", "waiting", "running", "finished", "aborted"}]
          /\ engine' \in [Requests -> Engines \cup {None}]
      BY <2>3, FinishFacts, Zenon
    <2>5. EngineTypes'
      BY <1>2, <2>2, Zenon DEF TypeOK, EngineTypes, abort_requests
    <2>6. RequestTypes'
      BY <1>2, <2>4, Zenon DEF TypeOK, RequestTypes, abort_requests
    <2>7. ChannelTypes'
      BY <1>2, <2>2, Zenon DEF TypeOK, ChannelTypes, abort_requests
    <2>8. ClientTypes'
      BY <2>2, TypesUnchanged, Zenon
    <2> QED BY <2>5, <2>6, <2>7, <2>8, Zenon DEF TypeOK
  <1>3. CASE pause_scheduler(e)
    <2>1. Receive(e, "PAUSE")
      BY <1>3, Zenon DEF pause_scheduler
    <2>2. /\ input' \in [Engines -> Seq(Message)]
          /\ UNCHANGED <<clientVars, coordVars, dp_state, start, to_coordinator, publish>>
      BY <2>1, ReceiveFacts, Zenon
    <2> DEFINE R == IF Head(input[e]).mode = "abort" THEN Waiting(e) \cup Running(e) ELSE {}
    <2>3. R \in SUBSET Requests /\ Finish(R, "aborted")
      BY <1>3, Zenon DEF pause_scheduler, Waiting, Running
    <2> HIDE DEF R
    <2>4. /\ status' \in [Requests -> {"new", "sent", "waiting", "running", "finished", "aborted"}]
          /\ engine' \in [Requests -> Engines \cup {None}]
      BY <2>3, FinishFacts, Zenon
    <2>5. EngineTypes'
      BY <1>3, <2>2, Zenon DEF TypeOK, EngineTypes, pause_scheduler
    <2>6. RequestTypes'
      BY <1>3, <2>4, Zenon DEF TypeOK, RequestTypes, pause_scheduler
    <2>7. ChannelTypes'
      BY <1>3, <2>2, Zenon DEF TypeOK, ChannelTypes, pause_scheduler
    <2>8. ClientTypes'
      BY <2>2, TypesUnchanged, Zenon
    <2> QED BY <2>5, <2>6, <2>7, <2>8, Zenon DEF TypeOK
  <1>4. CASE resume_scheduler(e)
    <2>1. Receive(e, "RESUME")
      BY <1>4, Zenon DEF resume_scheduler
    <2>2. /\ input' \in [Engines -> Seq(Message)]
          /\ UNCHANGED <<clientVars, coordVars, dp_state, start, to_coordinator, publish>>
      BY <2>1, ReceiveFacts, Zenon
    <2>3. EngineTypes'
      BY ZenonT(30), <1>4, <2>2 DEF TypeOK, EngineTypes, resume_scheduler
    <2>4. RequestTypes'
      BY <1>4, TypesUnchanged, Zenon DEF resume_scheduler
    <2>5. ChannelTypes'
      BY <1>4, <2>2, Zenon DEF TypeOK, ChannelTypes, resume_scheduler
    <2>6. ClientTypes'
      BY <2>2, TypesUnchanged, Zenon
    <2> QED BY <2>3, <2>4, <2>5, <2>6, Zenon DEF TypeOK
  <1> QED BY <1>1, <1>2, <1>3, <1>4, Zenon DEF HandleClientRequest

LEMMA EngineStepType ==
  ASSUME TypeOK, NEW e \in Engines, HandleStartDpWave(e) \/ BusyLoop(e) \/ EagerAbort(e)
  PROVE  TypeOK'
  <1>1. CASE HandleStartDpWave(e)
    <2>1. Head(start[e]) \in StartMessage /\ Tail(start[e]) \in Seq(StartMessage)
      BY <1>1, TailFacts, Zenon DEF TypeOK, ChannelTypes, HandleStartDpWave
    <2>2. Head(start[e]).wave \in Nat
      BY <2>1, Zenon DEF StartMessage
    <2>3. engines_running' \in [Engines -> BOOLEAN]
      BY <1>1, Zenon DEF TypeOK, EngineTypes, HandleStartDpWave
    <2>4. EngineTypes'
      BY Zenon, <1>1, <2>2, <2>3 DEF TypeOK, EngineTypes, HandleStartDpWave
    <2>5. ChannelTypes'
      BY Zenon, <1>1, <2>1 DEF TypeOK, ChannelTypes, HandleStartDpWave
    <2>6. RequestTypes' /\ ClientTypes'
      BY <1>1, TypesUnchanged, Zenon DEF HandleStartDpWave
    <2> QED BY <2>4, <2>5, <2>6, Zenon DEF TypeOK
  <1>2. CASE EnterForward(e)
    <2>1. EngineTypes'
      BY <1>2, Zenon DEF TypeOK, EngineTypes, EnterForward
    <2>2. RequestTypes'
      BY <1>2, Zenon DEF TypeOK, RequestTypes, EnterForward
    <2>3. ChannelTypes' /\ ClientTypes'
      BY <1>2, TypesUnchanged, Zenon DEF EnterForward
    <2> QED BY <2>1, <2>2, <2>3, Zenon DEF TypeOK
  <1>3. CASE FinishStep(e)
    <2>1. output' \in [Engines -> Seq(Output)]
      <3>1. [type |-> "wave_complete", wave |-> current_wave[e]] \in Output
        BY Zenon DEF TypeOK, EngineTypes, Output
      <3>2. Append(output[e], [type |-> "wave_complete", wave |-> current_wave[e]]) \in Seq(Output)
        BY SMTT(30), <3>1, AppendFacts DEF TypeOK, ChannelTypes
      <3> QED BY Zenon, <1>3, <3>2 DEF TypeOK, ChannelTypes, FinishStep
    <2>2. current_wave' \in [Engines -> Nat]
      <3>1. current_wave[e] + 1 \in Nat
        BY DEF TypeOK, EngineTypes
      <3>2. \/ current_wave' = current_wave
            \/ current_wave' = [current_wave EXCEPT ![e] = @ + 1]
        BY <1>3, Zenon DEF FinishStep
      <3> QED BY <3>1, <3>2, Zenon DEF TypeOK, EngineTypes
    <2>3. dp_state[e].unfinished \in BOOLEAN /\ dp_state[e].consensus \in BOOLEAN
      BY Zenon DEF TypeOK, EngineTypes
    <2>4. /\ engines_running' \in [Engines -> BOOLEAN]
          /\ ignore_start_dp_wave' \in [Engines -> BOOLEAN]
          /\ pending_pause' \in [Engines -> BOOLEAN]
      BY Zenon, <1>3, <2>3 DEF TypeOK, EngineTypes, FinishStep
    <2>5. EngineTypes'
      BY <1>3, <2>2, <2>4, Zenon DEF TypeOK, EngineTypes, FinishStep, IdleCallback
    <2>6. ChannelTypes'
      BY <1>3, <2>1, Zenon DEF TypeOK, ChannelTypes, FinishStep
    <2>7. RequestTypes' /\ ClientTypes'
      BY <1>3, TypesUnchanged, Zenon DEF FinishStep
    <2> QED BY <2>5, <2>6, <2>7, Zenon DEF TypeOK
  <1>4. CASE EagerAbort(e)
    <2>1. PICK R : R \subseteq Waiting(e) \cup Running(e) /\ Finish(R, "aborted")
      BY ZenonT(30), <1>4 DEF EagerAbort
    <2>2. R \in SUBSET Requests
      BY <2>1, Zenon DEF Running, Waiting
    <2>3. /\ status' \in [Requests -> {"new", "sent", "waiting", "running", "finished", "aborted"}]
          /\ engine' \in [Requests -> Engines \cup {None}]
      BY Zenon, <2>1, <2>2, FinishFacts
    <2>4. RequestTypes'
      BY Zenon, <1>4, <2>3 DEF TypeOK, RequestTypes, EagerAbort
    <2>5. EngineTypes' /\ ChannelTypes' /\ ClientTypes'
      BY Zenon, <1>4, TypesUnchanged DEF EagerAbort
    <2> QED BY <2>4, <2>5, Zenon DEF TypeOK
  <1> QED BY <1>1, <1>2, <1>3, <1>4, Zenon DEF BusyLoop

LEMMA CollectiveType == TypeOK /\ Collective => TypeOK'
  <1> SUFFICES ASSUME TypeOK, Collective PROVE TypeOK'
    BY Zenon
  <1>1. CASE Forward
    <2> DEFINE batch == {r \in Requests : /\ status[r] = "running"
                                          /\ pause_state[engine[r]] # "PAUSED_ALL"}
               R == {r \in batch : left[r] = 1}
    <2>1. R \in SUBSET Requests /\ Finish(R, "finished")
            /\ left' = [r \in Requests |-> IF r \in batch THEN left[r] - 1 ELSE left[r]]
      BY <1>1, Zenon DEF Forward
    <2> HIDE DEF R, batch
    <2>2. /\ status' \in [Requests -> {"new", "sent", "waiting", "running", "finished", "aborted"}]
          /\ engine' \in [Requests -> Engines \cup {None}]
      BY <2>1, FinishFacts, Zenon
    <2>3. RequestTypes'
      BY <2>1, <2>2 DEF TypeOK, RequestTypes
    <2>4. step_counter' \in [Engines -> 0 .. sync_interval - 1]
      BY <1>1, StepBounded, Zenon DEF Forward
    <2>5. engines_running' \in [Engines -> BOOLEAN]
      BY <1>1, Zenon DEF TypeOK, EngineTypes, Forward
    <2>6. pc' \in [Engines -> {"input", "forward", "sync", "synced", "resume"}]
      BY <1>1, Zenon DEF Forward
    <2>7. EngineTypes'
      BY <1>1, <2>4, <2>5, <2>6, Zenon DEF TypeOK, EngineTypes, Forward
    <2>8. ChannelTypes' /\ ClientTypes'
      BY <1>1, TypesUnchanged, Zenon DEF Forward
    <2> QED BY <2>3, <2>7, <2>8, Zenon DEF TypeOK
  <1>2. CASE sync_dp_state
    <2>1. dp_state' \in [Engines -> [unfinished : BOOLEAN, consensus : BOOLEAN]]
      BY Zenon, <1>2 DEF sync_dp_state, PausePartial
    <2>2. EngineTypes'
      BY <1>2, <2>1, Zenon DEF TypeOK, EngineTypes, sync_dp_state
    <2>3. RequestTypes' /\ ChannelTypes' /\ ClientTypes'
      BY <1>2, TypesUnchanged, Zenon DEF sync_dp_state
    <2> QED BY <2>2, <2>3, Zenon DEF TypeOK
  <1>3. CASE ResumeTogether
    <2>1. EngineTypes'
      BY <1>3, Zenon DEF TypeOK, EngineTypes, ResumeTogether
    <2>2. RequestTypes' /\ ChannelTypes' /\ ClientTypes'
      BY <1>3, TypesUnchanged, Zenon DEF ResumeTogether
    <2> QED BY <2>1, <2>2, Zenon DEF TypeOK
  <1> QED BY <1>1, <1>2, <1>3, Zenon DEF Collective

LEMMA TypePreserved == TypeOK /\ [Next]_vars => TypeOK'
  <1> SUFFICES ASSUME TypeOK, [Next]_vars PROVE TypeOK'
    BY Zenon
  <1>1. CASE UNCHANGED vars
    BY <1>1, TypesUnchanged, Zenon DEF vars, TypeOK
  <1> QED BY <1>1, FrontEndType, CoordinationType, HandleClientRequestType, EngineStepType,
             CollectiveType, Zenon DEF Next

\* The types, for any number of engines and requests and any interval.
THEOREM DataParallelTypeCorrect == Spec => []TypeOK
  <1>1. Init => TypeOK
    BY TypeInit, Zenon
  <1>2. TypeOK /\ [Next]_vars => TypeOK'
    BY TypePreserved, Zenon
  <1> QED BY <1>1, <1>2, PTL DEF Spec

\* The wave engine e is in, or enters as soon as it acts on the all-reduce.
Wave(e) ==
    IF pc[e] = "synced" /\ ~dp_state[e].unfinished THEN current_wave[e] + 1
                                                   ELSE current_wave[e]

\* No wave that is written down somewhere is later than the engines'.
Bounded(w) == w <= Wave(0)

EngineWaves == \A e \in Engines : Wave(e) = Wave(0)
ViewWaves == Bounded(client_wave) /\ Bounded(coord_wave)
PublishWaves == \A i \in DOMAIN publish : Bounded(publish[i].wave)
MessageBounded(m) == m.type = "ADD" => Bounded(m.wave)
InputWaves == \A e \in Engines : \A i \in DOMAIN input[e] : MessageBounded(input[e][i])
StartWaves == \A e \in Engines : \A i \in DOMAIN start[e] : Bounded(start[e][i].wave)
OutputBounded(o) == Bounded(IF o.type = "start_wave" THEN o.wave ELSE o.wave + 1)
OutputWaves == \A e \in Engines : \A i \in DOMAIN output[e] : OutputBounded(output[e][i])

WavesOK == EngineWaves /\ ViewWaves /\ PublishWaves /\ InputWaves /\ StartWaves /\ OutputWaves

\* The engines enter and leave the finish all-reduce together, with one answer.
LockstepOK ==
    /\ \A e, f \in Engines : pc[e] = "sync" => pc[f] = "sync"
    /\ \A e, f \in Engines : step_counter[e] = step_counter[f]
    /\ \A e, f \in Engines : pc[e] = "synced" /\ pc[f] = "synced" => dp_state[e] = dp_state[f]

-----------------------------------------------------------------------------
(* The waves: only the finish all-reduce makes a new one, for all at once. *)

LEMMA WaveIsNat == TypeOK => \A e \in Engines : Wave(e) \in Nat
  BY DEF TypeOK, EngineTypes, Wave

\* What is written down stays bounded while the waves of the engines grow.
LEMMA BoundedStays ==
  ASSUME Wave(0) \in Nat, Wave(0)' \in Nat, Wave(0) <= Wave(0)', NEW w \in Nat, Bounded(w)
  PROVE  Bounded(w)'
  BY SMTT(30) DEF Bounded

\* One lemma per channel: messages are read from its front and added at its end.
LEMMA InputStep ==
  ASSUME TypeOK, InputWaves, Wave(0)' = Wave(0),
         \A e \in Engines :
            \/ input'[e] = input[e]
            \/ input[e] # <<>> /\ input'[e] = Tail(input[e])
            \/ \E m \in Message : MessageBounded(m) /\ input'[e] = Append(input[e], m)
  PROVE  InputWaves'
  <1> SUFFICES ASSUME NEW e \in Engines, NEW i \in DOMAIN input'[e]
               PROVE  MessageBounded(input'[e][i])
    BY Zenon DEF InputWaves, MessageBounded, Bounded
  <1>1. input[e] \in Seq(Message) /\ \A j \in DOMAIN input[e] : MessageBounded(input[e][j])
    BY Zenon DEF TypeOK, ChannelTypes, InputWaves
  <1>2. CASE input'[e] = input[e]
    BY <1>1, <1>2, Zenon
  <1>3. CASE input[e] # <<>> /\ input'[e] = Tail(input[e])
    BY SMTT(30), <1>1, <1>3, TailFacts
  <1>4. CASE \E m \in Message : MessageBounded(m) /\ input'[e] = Append(input[e], m)
    BY SMTT(30), <1>1, <1>4, AppendFacts
  <1> QED BY <1>2, <1>3, <1>4, Zenon

LEMMA StartStep ==
  ASSUME TypeOK, StartWaves, Wave(0)' = Wave(0),
         \A e \in Engines :
            \/ start'[e] = start[e]
            \/ start[e] # <<>> /\ start'[e] = Tail(start[e])
            \/ \E m \in StartMessage : Bounded(m.wave) /\ start'[e] = Append(start[e], m)
  PROVE  StartWaves'
  <1> SUFFICES ASSUME NEW e \in Engines, NEW i \in DOMAIN start'[e]
               PROVE  Bounded(start'[e][i].wave)
    BY Zenon DEF StartWaves, Bounded
  <1>1. start[e] \in Seq(StartMessage) /\ \A j \in DOMAIN start[e] : Bounded(start[e][j].wave)
    BY Zenon DEF TypeOK, ChannelTypes, StartWaves
  <1>2. CASE start'[e] = start[e]
    BY <1>1, <1>2, Zenon
  <1>3. CASE start[e] # <<>> /\ start'[e] = Tail(start[e])
    BY SMTT(30), <1>1, <1>3, TailFacts
  <1>4. CASE \E m \in StartMessage : Bounded(m.wave) /\ start'[e] = Append(start[e], m)
    BY SMTT(30), <1>1, <1>4, AppendFacts
  <1> QED BY <1>2, <1>3, <1>4, Zenon

LEMMA OutputStep ==
  ASSUME TypeOK, OutputWaves, Wave(0)' = Wave(0),
         \A e \in Engines :
            \/ output'[e] = output[e]
            \/ output[e] # <<>> /\ output'[e] = Tail(output[e])
            \/ \E o \in Output : OutputBounded(o) /\ output'[e] = Append(output[e], o)
  PROVE  OutputWaves'
  <1> SUFFICES ASSUME NEW e \in Engines, NEW i \in DOMAIN output'[e]
               PROVE  OutputBounded(output'[e][i])
    BY Zenon DEF OutputWaves, OutputBounded, Bounded
  <1>1. output[e] \in Seq(Output) /\ \A j \in DOMAIN output[e] : OutputBounded(output[e][j])
    BY Zenon DEF TypeOK, ChannelTypes, OutputWaves
  <1>2. CASE output'[e] = output[e]
    BY <1>1, <1>2, Zenon
  <1>3. CASE output[e] # <<>> /\ output'[e] = Tail(output[e])
    BY SMTT(30), <1>1, <1>3, TailFacts
  <1>4. CASE \E o \in Output : OutputBounded(o) /\ output'[e] = Append(output[e], o)
    BY SMTT(30), <1>1, <1>4, AppendFacts
  <1> QED BY <1>2, <1>3, <1>4, Zenon

LEMMA PublishStep ==
  ASSUME TypeOK, PublishWaves, Wave(0)' = Wave(0),
         \/ publish' = publish
         \/ publish # <<>> /\ publish' = Tail(publish)
         \/ \E w \in Nat, b \in BOOLEAN : Bounded(w) /\ publish' = Published(w, b)
  PROVE  PublishWaves'
  <1> SUFFICES ASSUME NEW i \in DOMAIN publish' PROVE Bounded(publish'[i].wave)
    BY Zenon DEF PublishWaves, Bounded
  <1>1. /\ publish \in Seq([wave : Nat, running : BOOLEAN])
        /\ \A j \in DOMAIN publish : Bounded(publish[j].wave)
    BY Zenon DEF TypeOK, ChannelTypes, PublishWaves
  <1>2. CASE publish' = publish
    BY <1>1, <1>2, Zenon
  <1>3. CASE publish # <<>> /\ publish' = Tail(publish)
    BY SMTT(30), <1>1, <1>3, TailFacts
  <1>4. CASE \E w \in Nat, b \in BOOLEAN : Bounded(w) /\ publish' = Published(w, b)
    <2>1. PICK w \in Nat, b \in BOOLEAN : Bounded(w) /\ publish' = Published(w, b)
      BY <1>4, Zenon
    <2>2. [wave |-> w, running |-> b] \in [wave : Nat, running : BOOLEAN]
      BY Zenon
    <2> QED BY SMTT(30), <1>1, <2>1, <2>2, AppendFacts DEF Published
  <1> QED BY <1>2, <1>3, <1>4, Zenon

\* Parts of WavesOK an action leaves alone.
LEMMA WavesUnchanged ==
  ASSUME WavesOK, \A e \in Engines : Wave(e)' = Wave(e)
  PROVE  /\ Wave(0)' = Wave(0)
         /\ EngineWaves'
         /\ UNCHANGED <<client_wave, coord_wave>> => ViewWaves'
         /\ UNCHANGED publish => PublishWaves'
         /\ UNCHANGED input => InputWaves'
         /\ UNCHANGED start => StartWaves'
         /\ UNCHANGED output => OutputWaves'
  <1>1. Wave(0)' = Wave(0)
    BY EngineFacts, Zenon
  <1>2. EngineWaves'
    BY <1>1, Zenon DEF WavesOK, EngineWaves
  <1>3. UNCHANGED <<client_wave, coord_wave>> => ViewWaves'
    BY <1>1, Zenon DEF WavesOK, ViewWaves, Bounded
  <1>4. UNCHANGED publish => PublishWaves'
    BY <1>1, Zenon DEF WavesOK, PublishWaves, Bounded
  <1>5. UNCHANGED input => InputWaves'
    BY <1>1, Zenon DEF WavesOK, InputWaves, MessageBounded, Bounded
  <1>6. UNCHANGED start => StartWaves'
    BY <1>1, Zenon DEF WavesOK, StartWaves, Bounded
  <1>7. UNCHANGED output => OutputWaves'
    BY <1>1, ZenonT(30) DEF WavesOK, OutputWaves, OutputBounded, Bounded
  <1> QED BY <1>1, <1>2, <1>3, <1>4, <1>5, <1>6, <1>7, Zenon

LEMMA FrontEndWaves ==
  ASSUME TypeOK, WavesOK, FrontEnd \/ StatsTask
  PROVE  (\A f \in Engines : Wave(f)' = Wave(f)) /\ WavesOK'
  <1>1. \A e \in Engines : Wave(e)' = Wave(e)
    BY ZenonT(30) DEF FrontEnd, StatsTask, add_request_async, abort_requests_async, pause_generation,
           resume_generation, ForwardFirstReq, UpdateStats, engineVars, Wave
  <1>2. Wave(0)' = Wave(0) /\ InputWaves /\ EngineWaves'
    BY <1>1, WavesUnchanged, Zenon DEF WavesOK
  <1>3. CASE \E r \in Requests, e \in Engines : add_request_async(r, e)
    <2>1. PICK r \in Requests, e \in Engines : add_request_async(r, e)
      BY <1>3, Zenon
    <2> DEFINE m == [type |-> "ADD", request |-> r, wave |-> client_wave]
    <2>2. m \in Message /\ MessageBounded(m)
      BY Zenon, NewMessages DEF TypeOK, ClientTypes, WavesOK, ViewWaves, MessageBounded
    <2>3. input' = [input EXCEPT ![e] = Append(@, m)]
      BY <2>1, Zenon DEF add_request_async
    <2> HIDE DEF m
    <2>4. \A f \in Engines : input'[f] = input[f] \/ input'[f] = Append(input[f], m)
      BY <2>3, ZenonT(30) DEF TypeOK, ChannelTypes
    <2>5. InputWaves'
      BY Zenon, <1>2, <2>2, <2>4, InputStep
    <2> QED BY <1>1, <1>2, <2>1, <2>5, WavesUnchanged, Zenon
               DEF WavesOK, add_request_async, coordVars
  <1>4. CASE \E r \in Requests : abort_requests_async(r)
    <2>1. PICK r \in Requests : abort_requests_async(r)
      BY <1>4, Zenon
    <2> DEFINE m == [type |-> "ABORT", request |-> r]
    <2>2. m \in Message /\ MessageBounded(m)
      BY Zenon, NewMessages DEF MessageBounded
    <2>3. input' = [input EXCEPT ![engine[r]] = Append(@, m)]
      BY <2>1, Zenon DEF abort_requests_async
    <2> HIDE DEF m
    <2>4. \A f \in Engines : input'[f] = input[f] \/ input'[f] = Append(input[f], m)
      BY Zenon, <2>3 DEF TypeOK, ChannelTypes
    <2>5. InputWaves'
      BY <1>2, <2>2, <2>4, InputStep, Zenon
    <2> QED BY <1>1, <1>2, <2>1, <2>5, WavesUnchanged, Zenon
               DEF WavesOK, abort_requests_async, coordVars
  <1>5. CASE \E mode \in PauseModes : pause_generation(mode)
    <2>1. PICK mode \in PauseModes : pause_generation(mode)
      BY Zenon, <1>5
    <2> DEFINE m == [type |-> "PAUSE", mode |-> mode]
    <2>2. m \in Message /\ MessageBounded(m)
      BY DPAssumption, Zenon DEF Message, MessageBounded
    <2>3. input' = [e \in Engines |-> Append(input[e], m)]
      BY <2>1, Zenon DEF pause_generation
    <2> HIDE DEF m
    <2>4. InputWaves'
      BY <1>2, <2>2, <2>3, InputStep, Zenon
    <2> QED BY <1>1, <1>2, <2>1, <2>4, WavesUnchanged, Zenon
               DEF WavesOK, pause_generation, coordVars
  <1>6. CASE resume_generation
    <2> DEFINE m == [type |-> "RESUME"]
    <2>2. m \in Message /\ MessageBounded(m)
      BY Zenon DEF Message, MessageBounded
    <2>3. input' = [e \in Engines |-> Append(input[e], m)]
      BY <1>6, Zenon DEF resume_generation
    <2> HIDE DEF m
    <2>4. InputWaves'
      BY <1>2, <2>2, <2>3, InputStep, Zenon
    <2> QED BY <1>1, <1>2, <1>6, <2>4, WavesUnchanged, Zenon
               DEF WavesOK, resume_generation, coordVars
  <1>7. CASE ForwardFirstReq
    BY <1>1, <1>7, WavesUnchanged, Zenon DEF WavesOK, ForwardFirstReq, coordVars
  <1>8. CASE UpdateStats
    <2>1. publish # <<>> /\ publish' = Tail(publish)
      BY <1>8, Zenon DEF UpdateStats
    <2>2. PublishWaves'
      BY <1>2, <2>1, PublishStep, Zenon DEF WavesOK
    <2>3. 1 \in DOMAIN publish /\ Head(publish) = publish[1]
      BY <2>1, TailFacts, Zenon DEF TypeOK, ChannelTypes
    <2>4. ViewWaves'
      BY <1>2, <1>8, <2>3, Zenon
        DEF WavesOK, ViewWaves, PublishWaves, Bounded, UpdateStats, coordVars
    <2> QED BY <1>1, <1>2, <1>8, <2>2, <2>4, WavesUnchanged, Zenon DEF WavesOK, UpdateStats
  <1> QED BY <1>1, <1>3, <1>4, <1>5, <1>6, <1>7, <1>8, Zenon DEF FrontEnd, StatsTask

LEMMA CoordinatorWaves ==
  ASSUME TypeOK, WavesOK, Coordinator \/ PublishStats
  PROVE  (\A f \in Engines : Wave(f)' = Wave(f)) /\ WavesOK'
  <1>1. \A e \in Engines : Wave(e)' = Wave(e)
    BY Zenon DEF Coordinator, FrontMessage, WaveComplete, StartWave, PublishStats, engineVars, Wave
  <1>2. /\ Wave(0)' = Wave(0) /\ EngineWaves'
        /\ PublishWaves /\ StartWaves /\ OutputWaves /\ Bounded(client_wave) /\ Bounded(coord_wave)
    BY <1>1, WavesUnchanged, Zenon DEF WavesOK, ViewWaves
  <1>3. CASE FrontMessage
    <2>1. \/ publish' = publish
          \/ publish' = Published(coord_wave, TRUE)
      BY Zenon, <1>3 DEF FrontMessage
    <2>2. PublishWaves'
      BY Zenon, <1>2, <2>1, PublishStep DEF TypeOK, ClientTypes
    <2> DEFINE m == [wave |-> coord_wave, exclude |-> Excluded(Head(to_coordinator))]
    <2>3. m \in StartMessage /\ m.wave = coord_wave
      <3>1. Head(to_coordinator) \in [target : Int, wave : Nat]
        BY Zenon, <1>3, TailFacts DEF TypeOK, ChannelTypes, FrontMessage
      <3> QED BY <3>1 DEF StartMessage, Excluded, None, TypeOK, ClientTypes
    <2>4. \/ start' = start
          \/ start' = [e \in Engines |-> Append(start[e], m)]
      BY Zenon, <1>3 DEF FrontMessage, SendStartWave
    <2> HIDE DEF m
    <2>5. StartWaves'
      BY <1>2, <2>3, <2>4, StartStep, Zenon
    <2>6. ViewWaves'
      BY Zenon, <1>2, <1>3 DEF ViewWaves, Bounded, FrontMessage, clientVars
    <2> QED BY <1>1, <1>2, <1>3, <2>2, <2>5, <2>6, WavesUnchanged, Zenon
               DEF WavesOK, FrontMessage
  <1>4. CASE \E e \in Engines : WaveComplete(e)
    <2>1. PICK e \in Engines : WaveComplete(e)
      BY Zenon, <1>4
    <2>2. output[e] # <<>> /\ output[e] \in Seq(Output)
      BY ZenonT(30), <2>1 DEF WaveComplete, TypeOK, ChannelTypes
    <2> DEFINE w == Head(output[e]).wave
    <2>3. w \in Nat /\ WaveAfter(w) \in Nat /\ Bounded(WaveAfter(w))
      <3>1. 1 \in DOMAIN output[e] /\ Head(output[e]) = output[e][1] /\ Head(output[e]) \in Output
        BY <2>2, TailFacts, Zenon
      <3>2. OutputBounded(Head(output[e])) /\ Head(output[e]).type = "wave_complete"
        BY <1>2, <2>1, <3>1, ZenonT(30) DEF OutputWaves, WaveComplete
      <3>3. w \in Nat
        BY <3>1, Zenon DEF Output
      <3>4. Bounded(w + 1)
        BY Zenon, <3>2 DEF OutputBounded
      <3> QED BY SMTT(30), <3>3, <3>4 DEF WaveAfter
    <2>4. \A f \in Engines : output'[f] = output[f] \/ (f = e /\ output'[f] = Tail(output[f]))
      BY Zenon, <2>1 DEF WaveComplete, TypeOK, ChannelTypes
    <2>5. OutputWaves'
      BY <1>2, <2>2, <2>4, OutputStep, Zenon
    <2>6. /\ publish' = publish \/ publish' = Published(WaveAfter(w), FALSE)
          /\ coord_wave' = coord_wave \/ coord_wave' = WaveAfter(w)
      BY Zenon, <2>1 DEF WaveComplete, coordVars
    <2> HIDE DEF w
    <2>7. PublishWaves'
      BY ZenonT(30), <1>2, <2>3, <2>6, PublishStep
    <2>8. ViewWaves'
      BY Zenon, <1>2, <2>1, <2>3, <2>6 DEF ViewWaves, Bounded, WaveComplete, clientVars
    <2> QED BY Zenon, <1>1, <1>2, <2>1, <2>5, <2>7, <2>8, WavesUnchanged DEF WavesOK, WaveComplete
  <1>5. CASE \E e \in Engines : StartWave(e)
    <2>1. PICK e \in Engines : StartWave(e)
      BY <1>5, Zenon
    <2>2. output[e] # <<>> /\ output[e] \in Seq(Output)
      BY <2>1, Zenon DEF StartWave, TypeOK, ChannelTypes
    <2> DEFINE w == Head(output[e]).wave
    <2>3. w \in Nat /\ Bounded(w)
      <3>1. 1 \in DOMAIN output[e] /\ Head(output[e]) = output[e][1] /\ Head(output[e]) \in Output
        BY <2>2, TailFacts, Zenon
      <3>2. OutputBounded(Head(output[e])) /\ Head(output[e]).type = "start_wave"
        BY <1>2, <2>1, <3>1, Zenon DEF OutputWaves, StartWave
      <3> QED BY Zenon, <3>1, <3>2 DEF Output, OutputBounded
    <2>4. \A f \in Engines : output'[f] = output[f] \/ (f = e /\ output'[f] = Tail(output[f]))
      BY Zenon, <2>1 DEF StartWave, TypeOK, ChannelTypes
    <2>5. OutputWaves'
      BY <1>2, <2>2, <2>4, OutputStep, Zenon
    <2> DEFINE m == [wave |-> w, exclude |-> e]
    <2>6. /\ publish' = publish \/ publish' = Published(w, TRUE)
          /\ coord_wave' = coord_wave \/ coord_wave' = w
          /\ start' = start \/ start' = [f \in Engines |-> Append(start[f], m)]
      BY Zenon, <2>1 DEF StartWave, coordVars, SendStartWave
    <2>7. m \in StartMessage /\ m.wave = w
      BY <2>3, EngineFacts, Zenon DEF StartMessage
    <2> HIDE DEF m
    <2> HIDE DEF w
    <2>8. PublishWaves'
      BY Zenon, <1>2, <2>3, <2>6, PublishStep
    <2>9. StartWaves'
      BY Zenon, <1>2, <2>3, <2>6, <2>7, StartStep
    <2>10. ViewWaves'
      BY Zenon, <1>2, <2>1, <2>3, <2>6 DEF ViewWaves, Bounded, StartWave, clientVars
    <2> QED BY Zenon, <1>1, <1>2, <2>1, <2>5, <2>8, <2>9, <2>10, WavesUnchanged DEF WavesOK, StartWave
  <1>6. CASE PublishStats
    <2>1. PublishWaves'
      BY <1>2, <1>6, PublishStep, Zenon DEF TypeOK, ClientTypes, PublishStats
    <2> QED BY ZenonT(30), <1>1, <1>2, <1>6, <2>1, WavesUnchanged
            DEF WavesOK, PublishStats, clientVars, coordVars
  <1> QED BY <1>1, <1>3, <1>4, <1>5, <1>6, Zenon DEF Coordinator

LEMMA HandleClientRequestWaves ==
  ASSUME TypeOK, WavesOK, NEW e \in Engines, HandleClientRequest(e)
  PROVE  (\A f \in Engines : Wave(f)' = Wave(f)) /\ WavesOK'
  <1>1. PICK type : Receive(e, type)
    BY ZenonT(30) DEF HandleClientRequest, add_request, abort_requests, pause_scheduler, resume_scheduler
  <1>2. /\ pc[e] = "input" /\ input[e] \in Seq(Message) /\ input[e] # <<>>
        /\ Head(input[e]) \in Message
        /\ \A f \in Engines : f # e => input'[f] = input[f]
        /\ input'[e] = Tail(input[e])
        /\ UNCHANGED <<clientVars, coordVars, dp_state, start, publish>>
    BY Zenon, <1>1, ReceiveFacts
  <1>3. Wave(e) = current_wave[e] /\ Wave(e) = Wave(0) /\ current_wave[e] \in Nat
    BY Zenon, <1>2 DEF Wave, WavesOK, EngineWaves, TypeOK, EngineTypes
  <1>4. UNCHANGED current_wave
    <2>1. CASE add_request(e)
      <3>1. Head(input[e]).type = "ADD"
        BY Zenon, <2>1 DEF add_request, Receive
      <3>2. 1 \in DOMAIN input[e] /\ Head(input[e]) = input[e][1]
        BY Zenon, <1>2, TailFacts
      <3>3. Head(input[e]).wave <= current_wave[e] /\ Head(input[e]).wave \in Nat
        BY <1>2, <1>3, <3>1, <3>2, MessageFields, Zenon
          DEF WavesOK, InputWaves, MessageBounded, Bounded
      <3>4. ~(Head(input[e]).wave > current_wave[e])
        BY <1>3, <3>3
      <3> QED BY ZenonT(30), <2>1, <3>4 DEF add_request, TypeOK, EngineTypes
    <2> QED BY Zenon, <2>1 DEF HandleClientRequest, abort_requests, pause_scheduler, resume_scheduler
  <1>5. \A f \in Engines : pc'[f] = pc[f] \/ (pc[f] # "synced" /\ pc'[f] # "synced")
    BY ZenonT(30), <1>2 DEF HandleClientRequest, add_request, abort_requests, pause_scheduler,
                resume_scheduler, TypeOK, EngineTypes
  <1>6. \A f \in Engines : Wave(f)' = Wave(f)
    BY <1>2, <1>4, <1>5, Zenon DEF Wave
  <1>7. Wave(0)' = Wave(0) /\ EngineWaves' /\ InputWaves /\ OutputWaves
    BY Zenon, <1>6, WavesUnchanged DEF WavesOK
  <1>8. InputWaves'
    BY <1>2, <1>7, InputStep, ZenonT(30)
  <1>9. OutputWaves'
    <2> DEFINE o == [type |-> "start_wave", wave |-> current_wave[e]]
    <2>1. o \in Output /\ OutputBounded(o)
      BY <1>3 DEF Output, OutputBounded, Bounded
    <2>2. output' = output \/ output' = [output EXCEPT ![e] = Append(@, o)]
      BY Zenon DEF HandleClientRequest, add_request, abort_requests, pause_scheduler, resume_scheduler
    <2> HIDE DEF o
    <2>3. \A f \in Engines : output'[f] = output[f] \/ output'[f] = Append(output[f], o)
      BY Zenon, <2>2 DEF TypeOK, ChannelTypes
    <2> QED BY Zenon, <1>7, <2>1, <2>3, OutputStep
  <1>10. ViewWaves' /\ PublishWaves' /\ StartWaves'
    BY Zenon, <1>2, <1>6, WavesUnchanged DEF clientVars, coordVars
  <1> QED BY Zenon, <1>6, <1>7, <1>8, <1>9, <1>10 DEF WavesOK

LEMMA EngineStepWaves ==
  ASSUME TypeOK, WavesOK, NEW e \in Engines, HandleStartDpWave(e) \/ BusyLoop(e) \/ EagerAbort(e)
  PROVE  (\A f \in Engines : Wave(f)' = Wave(f)) /\ WavesOK'
  <1>1. CASE HandleStartDpWave(e)
    <2>1. start[e] # <<>> /\ start[e] \in Seq(StartMessage) /\ pc[e] = "input"
      BY Zenon, <1>1 DEF HandleStartDpWave, TypeOK, ChannelTypes
    <2>2. current_wave[e] = Wave(0) /\ current_wave[e] \in Nat
      BY ZenonT(30), <2>1 DEF Wave, WavesOK, EngineWaves, TypeOK, EngineTypes
    <2>3. Head(start[e]).wave <= current_wave[e] /\ Head(start[e]).wave \in Nat
      <3>1. 1 \in DOMAIN start[e] /\ Head(start[e]) = start[e][1] /\ Head(start[e]) \in StartMessage
        BY Zenon, <2>1, TailFacts
      <3> QED BY Zenon, <2>2, <3>1 DEF StartMessage, WavesOK, StartWaves, Bounded
    <2>4. Joins(e, Head(start[e])) => Head(start[e]).wave = current_wave[e]
      BY SMTT(30), <2>2, <2>3 DEF Joins
    <2>5. UNCHANGED current_wave
      BY Zenon, <1>1, <2>4 DEF HandleStartDpWave, TypeOK, EngineTypes
    <2>6. \A f \in Engines : Wave(f)' = Wave(f)
      BY ZenonT(30), <1>1, <2>5 DEF Wave, HandleStartDpWave
    <2>7. \A f \in Engines : start'[f] = start[f] \/ (f = e /\ start'[f] = Tail(start[f]))
      BY Zenon, <1>1 DEF HandleStartDpWave, TypeOK, ChannelTypes
    <2>8. Wave(0)' = Wave(0) /\ EngineWaves' /\ StartWaves
      BY <2>6, WavesUnchanged, Zenon DEF WavesOK
    <2>9. StartWaves'
      BY Zenon, <2>1, <2>7, <2>8, StartStep
    <2> QED BY ZenonT(30), <1>1, <2>6, <2>8, <2>9, WavesUnchanged
            DEF WavesOK, HandleStartDpWave, clientVars, coordVars
  <1>2. CASE EnterForward(e)
    <2>1. \A f \in Engines : Wave(f)' = Wave(f)
      BY Zenon, <1>2 DEF EnterForward, Wave, TypeOK, EngineTypes
    <2> QED BY ZenonT(30), <1>2, <2>1, WavesUnchanged DEF WavesOK, EnterForward, clientVars, coordVars
  <1>3. CASE FinishStep(e)
    <2>1. /\ pc[e] = "synced" /\ pc' = [pc EXCEPT ![e] = "input"]
          /\ dp_state[e].unfinished => UNCHANGED current_wave
          /\ ~dp_state[e].unfinished => current_wave' = [current_wave EXCEPT ![e] = @ + 1]
          /\ dp_state' = [dp_state EXCEPT ![e] = [unfinished |-> FALSE, consensus |-> FALSE]]
      BY <1>3, ZenonT(30) DEF FinishStep
    <2>2. \A f \in Engines : Wave(f)' = Wave(f)
      BY SMTT(30), <2>1 DEF Wave, TypeOK, EngineTypes
    <2>3. Wave(0)' = Wave(0) /\ EngineWaves' /\ OutputWaves
      BY <2>2, WavesUnchanged, Zenon DEF WavesOK
    <2> DEFINE o == [type |-> "wave_complete", wave |-> current_wave[e]]
    <2>4. o \in Output
      BY Zenon DEF Output, TypeOK, EngineTypes
    <2>5. ~dp_state[e].unfinished => OutputBounded(o)
      <3>1. current_wave[e] \in Nat /\ Wave(e) = Wave(0)
        BY Zenon DEF WavesOK, EngineWaves, TypeOK, EngineTypes
      <3> QED BY <2>1, <3>1 DEF OutputBounded, Bounded, Wave
    <2>6. \/ output' = output
          \/ ~dp_state[e].unfinished /\ output' = [output EXCEPT ![e] = Append(@, o)]
      BY <1>3, ZenonT(30) DEF FinishStep
    <2> HIDE DEF o
    <2>7. \A f \in Engines : \/ output'[f] = output[f]
                             \/ ~dp_state[e].unfinished /\ output'[f] = Append(output[f], o)
      BY Zenon, <2>6 DEF TypeOK, ChannelTypes
    <2>8. OutputWaves'
      BY Zenon, <2>3, <2>4, <2>5, <2>7, OutputStep
    <2> QED BY Zenon, <1>3, <2>2, <2>3, <2>8, WavesUnchanged DEF WavesOK, FinishStep, clientVars, coordVars
  <1>4. CASE EagerAbort(e)
    <2>1. \A f \in Engines : Wave(f)' = Wave(f)
      BY Zenon, <1>4 DEF EagerAbort, Wave, engineVars
    <2> QED BY Zenon, <1>4, <2>1, WavesUnchanged DEF WavesOK, EagerAbort, clientVars, coordVars
  <1> QED BY <1>1, <1>2, <1>3, <1>4, ZenonT(30) DEF BusyLoop

\* The finish all-reduce answers all engines alike.
LEMMA SyncAnswer ==
  ASSUME TypeOK, sync_dp_state
  PROVE  \E u \in BOOLEAN, c \in BOOLEAN :
            dp_state' = [e \in Engines |-> [unfinished |-> u, consensus |-> c]]
  <1> DEFINE pausing == {e \in Engines : pending_pause[e]}
             u == \/ \E f \in Engines : has_unfinished_requests(f)
                  \/ PausePartial(pausing)
             c == pausing = Engines
  <1>1. dp_state' = [e \in Engines |-> [unfinished |-> u, consensus |-> c]]
    BY Zenon DEF sync_dp_state
  <1>2. u \in BOOLEAN /\ c \in BOOLEAN
    BY Zenon DEF PausePartial
  <1> HIDE DEF u, c
  <1> QED BY Zenon, <1>1, <1>2

LEMMA CollectiveWaves ==
  ASSUME TypeOK, TypeOK', WavesOK, Collective
  PROVE  WavesOK'
  <1>1. CASE Forward
    <2>1. \A f \in Engines : Wave(f)' = Wave(f)
      BY Zenon, <1>1 DEF Forward, Blocked, Wave, TypeOK, EngineTypes
    <2> QED BY ZenonT(30), <1>1, <2>1, WavesUnchanged DEF WavesOK, Forward, clientVars, coordVars
  <1>2. CASE sync_dp_state
    <2>1. PICK u \in BOOLEAN, c \in BOOLEAN :
             dp_state' = [e \in Engines |-> [unfinished |-> u, consensus |-> c]]
      BY Zenon, <1>2, SyncAnswer
    <2>2. /\ \A e \in Engines : pc[e] = "sync" /\ pc'[e] = "synced"
          /\ UNCHANGED <<current_wave, client_wave, coord_wave, publish, input, start, output>>
      BY Zenon, <1>2 DEF sync_dp_state, Blocked, clientVars, coordVars
    <2>3. \A e \in Engines : Wave(e) \in Nat /\ Wave(e)' = IF u THEN Wave(e) ELSE Wave(e) + 1
      BY <2>1, <2>2, Zenon DEF Wave, TypeOK, EngineTypes
    <2>4. Wave(0) \in Nat /\ Wave(0)' \in Nat /\ Wave(0) <= Wave(0)'
      BY SMTT(30), <2>3, EngineFacts
    <2>5. EngineWaves'
      BY Zenon, <2>3, EngineFacts DEF WavesOK, EngineWaves
    <2>6. ViewWaves'
      BY Zenon, <2>2, <2>4, BoundedStays DEF WavesOK, ViewWaves, Bounded, TypeOK, ClientTypes
    <2>7. PublishWaves'
      <3> SUFFICES ASSUME NEW i \in DOMAIN publish PROVE Bounded(publish[i].wave)'
        BY <2>2, Zenon DEF PublishWaves, Bounded
      <3>1. publish[i] \in [wave : Nat, running : BOOLEAN]
        <4>1. publish \in Seq([wave : Nat, running : BOOLEAN])
          BY Zenon DEF TypeOK, ChannelTypes
        <4> QED BY Zenon, <4>1, ElementFact
      <3>2. publish[i].wave \in Nat
        BY <3>1, Zenon
      <3>3. Bounded(publish[i].wave)
        BY Zenon DEF WavesOK, PublishWaves
      <3>4. Bounded(publish[i].wave)' <=> publish[i].wave <= Wave(0)'
        BY ZenonT(30), <2>2 DEF Bounded
      <3>5. publish[i].wave <= Wave(0)'
        BY SMTT(30), <2>4, <3>2, <3>3 DEF Bounded
      <3> QED BY Zenon, <3>4, <3>5
    <2>8. InputWaves'
      <3> SUFFICES ASSUME NEW e \in Engines, NEW i \in DOMAIN input[e], input[e][i].type = "ADD"
                   PROVE  input[e][i].wave <= Wave(0)'
        BY Zenon, <2>2 DEF InputWaves, MessageBounded, Bounded
      <3>1. input[e][i] \in Message
        BY SMTT(30) DEF TypeOK, ChannelTypes
      <3>2. input[e][i].wave \in Nat
        BY <3>1, MessageFields, Zenon
      <3> QED BY <2>4, <3>2 DEF WavesOK, InputWaves, MessageBounded, Bounded
    <2>9. StartWaves'
      <3> SUFFICES ASSUME NEW e \in Engines, NEW i \in DOMAIN start[e]
                   PROVE  start[e][i].wave <= Wave(0)'
        BY <2>2, Zenon DEF StartWaves, Bounded
      <3>1. start[e][i] \in StartMessage
        BY SMTT(30) DEF TypeOK, ChannelTypes
      <3>2. start[e][i].wave \in Nat
        BY Zenon, <3>1 DEF StartMessage
      <3> QED BY SMTT(30), <2>4, <3>2 DEF WavesOK, StartWaves, Bounded
    <2>10. OutputWaves'
      <3> SUFFICES ASSUME NEW e \in Engines, NEW i \in DOMAIN output[e]
                   PROVE  (IF output[e][i].type = "start_wave" THEN output[e][i].wave
                           ELSE output[e][i].wave + 1) <= Wave(0)'
        BY <2>2, Zenon DEF OutputWaves, OutputBounded, Bounded
      <3>1. output[e][i] \in Output
        BY SMTT(30) DEF TypeOK, ChannelTypes
      <3>2. output[e][i].wave \in Nat
        BY Zenon, <3>1 DEF Output
      <3> QED BY <2>4, <3>2 DEF WavesOK, OutputWaves, OutputBounded, Bounded
    <2> QED BY <2>5, <2>6, <2>7, <2>8, <2>9, <2>10, Zenon DEF WavesOK
  <1>3. CASE ResumeTogether
    <2>1. \A f \in Engines : Wave(f)' = Wave(f)
      BY Zenon, <1>3 DEF ResumeTogether, Blocked, Wave
    <2> QED BY <1>3, <2>1, WavesUnchanged, Zenon
               DEF WavesOK, ResumeTogether, clientVars, coordVars
  <1> QED BY Zenon, <1>1, <1>2, <1>3 DEF Collective

LEMMA WavesPreserved ==
  ASSUME TypeOK, TypeOK', WavesOK, [Next]_vars
  PROVE  WavesOK'
  <1>1. CASE UNCHANGED vars
    <2>1. \A f \in Engines : Wave(f)' = Wave(f)
      BY Zenon, <1>1 DEF vars, engineVars, Wave
    <2> QED BY Zenon, <1>1, <2>1, WavesUnchanged DEF WavesOK, vars, clientVars, coordVars
  <1> QED BY <1>1, FrontEndWaves, CoordinatorWaves, HandleClientRequestWaves, EngineStepWaves,
             CollectiveWaves, Zenon DEF Next

-----------------------------------------------------------------------------
(* The finish all-reduce is entered by all engines in one step. *)

\* The steps that leave the state of the engines alone.
LEMMA QuietSteps ==
  ASSUME \/ FrontEnd \/ StatsTask \/ Coordinator \/ PublishStats \/ UNCHANGED vars
         \/ \E e \in Engines : EagerAbort(e)
  PROVE  UNCHANGED engineVars
  BY Zenon DEF vars, FrontEnd, add_request_async, abort_requests_async, pause_generation,
         resume_generation, StatsTask, ForwardFirstReq, UpdateStats, Coordinator, FrontMessage,
         WaveComplete, StartWave, PublishStats, EagerAbort

LEMMA LockstepPreserved ==
  ASSUME TypeOK, LockstepOK, [Next]_vars
  PROVE  LockstepOK'
  <1>1. CASE UNCHANGED <<pc, step_counter, dp_state>>
    BY Zenon, <1>1 DEF LockstepOK
  <1>2. CASE \E e \in Engines : resume_scheduler(e) \/ EnterForward(e) \/ FinishStep(e)
    <2>1. PICK e \in Engines : resume_scheduler(e) \/ EnterForward(e) \/ FinishStep(e)
      BY Zenon, <1>2
    <2>2. /\ pc[e] \in {"input", "synced"} /\ UNCHANGED step_counter
          /\ \A f \in Engines : f # e => pc'[f] = pc[f] /\ dp_state'[f] = dp_state[f]
          /\ pc'[e] \in {"input", "forward", "resume"}
      BY ZenonT(30), <2>1 DEF resume_scheduler, Receive, EnterForward, FinishStep, TypeOK, EngineTypes
    <2> QED BY <2>2 DEF LockstepOK
  <1>3. CASE Forward
    <2>1. /\ \A e, f \in Engines : NextStep(e) = NextStep(f)
          /\ step_counter' = [e \in Engines |-> NextStep(e)]
          /\ pc' = [e \in Engines |-> IF NextStep(e) = 0 THEN "sync" ELSE "input"]
      BY Zenon, <1>3 DEF LockstepOK, NextStep, Forward
    <2> QED BY Zenon, <2>1 DEF LockstepOK
  <1>4. CASE sync_dp_state
    <2>1. PICK u \in BOOLEAN, c \in BOOLEAN :
             dp_state' = [e \in Engines |-> [unfinished |-> u, consensus |-> c]]
      BY <1>4, SyncAnswer, Zenon
    <2>2. /\ \A e, f \in Engines : dp_state'[e] = dp_state'[f]
          /\ \A e \in Engines : pc'[e] = "synced"
          /\ step_counter' = step_counter
      BY Zenon, <1>4, <2>1 DEF sync_dp_state
    <2> QED BY <2>2, Zenon DEF LockstepOK
  <1>5. CASE ResumeTogether
    BY <1>5, Zenon DEF LockstepOK, ResumeTogether
  <1>6. [Next]_vars /\ ~(\E e \in Engines : resume_scheduler(e) \/ EnterForward(e) \/ FinishStep(e))
          /\ ~Collective => UNCHANGED <<pc, step_counter, dp_state>>
    BY ZenonT(30), QuietSteps DEF Next, engineVars, Receive, HandleClientRequest, add_request,
           abort_requests, pause_scheduler, HandleStartDpWave, BusyLoop
  <1> QED BY <1>1, <1>2, <1>3, <1>4, <1>5, <1>6, Zenon DEF Collective

-----------------------------------------------------------------------------
(* The theorems. *)

\* The inductive invariant of the waves.
WInv == TypeOK /\ WavesOK /\ LockstepOK

LEMMA WavesInit == Init => WInv
  <1> SUFFICES ASSUME Init PROVE WInv
    BY Zenon
  <1>1. TypeOK
    BY TypeInit, Zenon
  <1>2. 0 \in Engines
    BY EngineFacts, Zenon
  <1>3. \A e \in Engines : /\ pc[e] = "input" /\ current_wave[e] = 0 /\ step_counter[e] = 0
                           /\ DOMAIN input[e] = {} /\ DOMAIN start[e] = {} /\ DOMAIN output[e] = {}
    BY DEF Init
  <1>4. DOMAIN publish = {} /\ client_wave = 0 /\ coord_wave = 0
    BY DEF Init
  <1>5. \A e \in Engines : Wave(e) = 0
    BY Zenon, <1>3 DEF Wave
  <1>6. WavesOK
    BY <1>2, <1>3, <1>4, <1>5
    DEF WavesOK, EngineWaves, ViewWaves, PublishWaves, InputWaves, StartWaves, OutputWaves, Bounded
  <1>7. LockstepOK
    BY <1>3, Zenon DEF LockstepOK
  <1> QED BY <1>1, <1>6, <1>7, Zenon DEF WInv

\* The engines agree on the wave, no process is ahead of them, and they enter
\* and leave the finish all-reduce together.
THEOREM WavesInvariant == Spec => []WInv
  <1>1. Init => WInv
    BY WavesInit, Zenon
  <1>2. WInv /\ [Next]_vars => WInv'
    <2> SUFFICES ASSUME WInv, [Next]_vars PROVE WInv'
      BY Zenon
    <2>1. TypeOK /\ WavesOK /\ LockstepOK
      BY Zenon DEF WInv
    <2>2. TypeOK'
      BY <2>1, TypePreserved, Zenon
    <2>3. WavesOK'
      BY <2>1, <2>2, WavesPreserved, Zenon
    <2>4. LockstepOK'
      BY <2>1, LockstepPreserved, Zenon
    <2> QED BY <2>2, <2>3, <2>4, Zenon DEF WInv
  <1> QED BY <1>1, <1>2, PTL DEF Spec

\* Engines that meet in a collective of run_busy_loop are in the same wave, at
\* the same step of it.
THEOREM DataParallelWavesAgree == Spec => []WavesAgree
  <1>1. WInv => WavesAgree
    <2> SUFFICES ASSUME WInv, NEW e \in Engines, NEW f \in Engines, pc[e] = pc[f], pc[e] # "input"
                 PROVE  current_wave[e] = current_wave[f] /\ step_counter[e] = step_counter[f]
      BY Zenon DEF WavesAgree
    <2>1. step_counter[e] = step_counter[f]
      BY Zenon DEF WInv, LockstepOK
    <2>2. pc[e] = "synced" => dp_state[e] = dp_state[f]
      BY Zenon DEF WInv, LockstepOK
    <2>3. Wave(e) = Wave(f) /\ current_wave[e] \in Nat /\ current_wave[f] \in Nat
      BY Zenon DEF WInv, WavesOK, EngineWaves, TypeOK, EngineTypes
    <2> QED BY <2>1, <2>2, <2>3 DEF Wave
  <1> QED BY <1>1, WavesInvariant, PTL

\* Neither a request nor a START_DP_WAVE is ahead of the engine that reads it,
\* however the two sockets interleave.
THEOREM DataParallelNeverAhead == Spec => []NeverAhead
  <1>1. WInv => NeverAhead
    <2> SUFFICES ASSUME WInv, NEW e \in Engines, pc[e] = "input"
                 PROVE  /\ \A i \in DOMAIN input[e] :
                              input[e][i].type = "ADD" => input[e][i].wave <= current_wave[e]
                        /\ \A i \in DOMAIN start[e] : start[e][i].wave <= current_wave[e]
      BY Zenon DEF NeverAhead
    <2>1. current_wave[e] = Wave(0)
      BY Zenon DEF WInv, WavesOK, EngineWaves, Wave
    <2> QED BY Zenon, <2>1 DEF WInv, WavesOK, InputWaves, MessageBounded, StartWaves, Bounded
  <1> QED BY <1>1, WavesInvariant, PTL

-----------------------------------------------------------------------------
\* A request on its way to engine e is sent to it, and once.
RequestsOK ==
    \A e \in Engines : \A i \in DOMAIN input[e] :
        input[e][i].type = "ADD" =>
            /\ status[input[e][i].request] = "sent" /\ engine[input[e][i].request] = e
            /\ \A j \in DOMAIN input[e] :
                  input[e][j].type = "ADD" /\ input[e][j].request = input[e][i].request => i = j

\* What a synced engine was told is true of it.
SyncedOK ==
    \A e \in Engines : pc[e] = "synced" =>
        /\ dp_state[e].consensus => pending_pause[e]
        /\ ~dp_state[e].unfinished => /\ ~has_unfinished_requests(e)
                                      /\ pending_pause[e] => dp_state[e].consensus

-----------------------------------------------------------------------------
(* The requests of one engine are no other's. *)

\* A step that sends no request and leaves those on their way as they are.
LEMMA RequestsStep ==
  ASSUME TypeOK, RequestsOK,
         \A e \in Engines :
            \/ input'[e] = input[e]
            \/ input[e] # <<>> /\ input'[e] = Tail(input[e])
            \/ \E m \in Message : m.type # "ADD" /\ input'[e] = Append(input[e], m),
         \A r \in Requests :
            status[r] = "sent" => status'[r] = "sent" /\ engine'[r] = engine[r]
  PROVE  RequestsOK'
  <1> SUFFICES ASSUME NEW e \in Engines, NEW i \in DOMAIN input'[e], input'[e][i].type = "ADD"
               PROVE  /\ status'[input'[e][i].request] = "sent"
                      /\ engine'[input'[e][i].request] = e
                      /\ \A j \in DOMAIN input'[e] :
                            /\ input'[e][j].type = "ADD"
                            /\ input'[e][j].request = input'[e][i].request
                            => i = j
    BY SMTT(30) DEF RequestsOK
  <1>1. input[e] \in Seq(Message)
    BY Zenon DEF TypeOK, ChannelTypes
  <1>2. \A k \in DOMAIN input[e] : input[e][k] \in Message
    BY SMTT(30), <1>1
  <1>3. ASSUME NEW k \in DOMAIN input[e], input[e][k].type = "ADD"
        PROVE  /\ status'[input[e][k].request] = "sent"
               /\ engine'[input[e][k].request] = e
               /\ \A j \in DOMAIN input[e] :
                     input[e][j].type = "ADD" /\ input[e][j].request = input[e][k].request => k = j
    <2>1. input[e][k].request \in Requests
      BY <1>2, <1>3, MessageFields, Zenon
    <2> QED BY SMTT(30), <1>3, <2>1 DEF RequestsOK
  <1>4. CASE input'[e] = input[e]
    BY SMTT(30), <1>3, <1>4
  <1>5. CASE input[e] # <<>> /\ input'[e] = Tail(input[e])
    <2>1. \A j \in DOMAIN input'[e] :
             j \in Int /\ j + 1 \in DOMAIN input[e] /\ input'[e][j] = input[e][j + 1]
      BY SMTT(30), <1>1, <1>5, TailFacts
    <2>2. \A j \in DOMAIN input'[e] : i + 1 = j + 1 => i = j
      BY SMTT(30), <2>1
    <2> QED BY SMTT(30), <1>3, <2>1, <2>2
  <1>6. CASE \E m \in Message : m.type # "ADD" /\ input'[e] = Append(input[e], m)
    <2>1. \A j \in DOMAIN input'[e] :
             input'[e][j].type = "ADD" => j \in DOMAIN input[e] /\ input'[e][j] = input[e][j]
      BY SMTT(30), <1>1, <1>6, AppendFacts
    <2> QED BY SMTT(30), <1>3, <2>1
  <1> QED BY <1>4, <1>5, <1>6, ZenonT(30)

LEMMA AddSent ==
  ASSUME TypeOK, RequestsOK, NEW r \in Requests, NEW e \in Engines, add_request_async(r, e)
  PROVE  RequestsOK'
  <1> DEFINE m == [type |-> "ADD", request |-> r, wave |-> client_wave]
  <1>1. m \in Message /\ m.request = r
    BY Zenon, NewMessages DEF TypeOK, ClientTypes
  <1>2. /\ input' = [input EXCEPT ![e] = Append(@, m)] /\ status[r] = "new"
        /\ status' = [status EXCEPT ![r] = "sent"] /\ engine' = [engine EXCEPT ![r] = e]
    BY Zenon DEF add_request_async
  <1> HIDE DEF m
  <1>3. \A f \in Engines : \A i \in DOMAIN input[f] :
           input[f][i].type = "ADD" => input[f][i].request # r /\ input[f][i].request \in Requests
    <2> SUFFICES ASSUME NEW f \in Engines, NEW i \in DOMAIN input[f], input[f][i].type = "ADD"
                 PROVE  input[f][i].request # r /\ input[f][i].request \in Requests
      BY Zenon
    <2>1. input[f][i] \in Message
      BY SMTT(30) DEF TypeOK, ChannelTypes
    <2> QED BY <1>2, <2>1, MessageFields, ZenonT(30) DEF RequestsOK
  <1>4. input[e] \in Seq(Message)
    BY Zenon DEF TypeOK, ChannelTypes
  <1>5. /\ \A i \in DOMAIN input'[e] :
              \/ i \in DOMAIN input[e] /\ input'[e][i] = input[e][i]
              \/ i = Len(input[e]) + 1 /\ input'[e][i].request = r
        /\ \A f \in Engines : f # e => input'[f] = input[f]
    <2>1. input'[e] = Append(input[e], m) /\ \A f \in Engines : f # e => input'[f] = input[f]
      BY <1>2, ZenonT(30) DEF TypeOK, ChannelTypes
    <2> QED BY SMTT(30), <1>1, <1>4, <2>1, AppendFacts
  <1>6. /\ status'[r] = "sent" /\ engine'[r] = e
        /\ \A q \in Requests : q # r => status'[q] = status[q] /\ engine'[q] = engine[q]
    BY <1>2, Zenon DEF TypeOK, RequestTypes
  <1> SUFFICES ASSUME NEW f \in Engines, NEW i \in DOMAIN input'[f], input'[f][i].type = "ADD"
               PROVE  /\ status'[input'[f][i].request] = "sent"
                      /\ engine'[input'[f][i].request] = f
                      /\ \A j \in DOMAIN input'[f] :
                            /\ input'[f][j].type = "ADD"
                            /\ input'[f][j].request = input'[f][i].request
                            => i = j
    BY SMTT(30) DEF RequestsOK
  <1>7. CASE f # e
    BY SMTT(30), <1>3, <1>5, <1>6, <1>7 DEF RequestsOK
  <1>8. CASE f = e
    <2>1. CASE i \in DOMAIN input[e] /\ input'[e][i] = input[e][i]
      BY SMTT(30), <1>3, <1>5, <1>6, <1>8, <2>1 DEF RequestsOK
    <2>2. CASE i = Len(input[e]) + 1 /\ input'[e][i].request = r
      BY SMTT(30), <1>3, <1>5, <1>6, <1>8, <2>2
    <2> QED BY ZenonT(30), <1>5, <1>8, <2>1, <2>2
  <1> QED BY <1>7, <1>8, Zenon

LEMMA AddReceived ==
  ASSUME TypeOK, RequestsOK, NEW e \in Engines, add_request(e)
  PROVE  /\ RequestsOK'
         /\ Head(input[e]).request \in Requests /\ engine[Head(input[e]).request] = e
         /\ status[Head(input[e]).request] = "sent"
  <1>1. Receive(e, "ADD")
    BY ZenonT(30) DEF add_request
  <1>2. /\ input[e] \in Seq(Message) /\ input[e] # <<>> /\ Head(input[e]).type = "ADD"
        /\ Head(input[e]) \in Message /\ input'[e] = Tail(input[e])
        /\ \A f \in Engines : f # e => input'[f] = input[f]
    BY <1>1, ReceiveFacts, ZenonT(30)
  <1> DEFINE r == Head(input[e]).request
  <1>3. r \in Requests /\ 1 \in DOMAIN input[e] /\ Head(input[e]) = input[e][1]
    BY <1>2, MessageFields, TailFacts, Zenon
  <1>4. engine[r] = e /\ status[r] = "sent"
    BY SMTT(30), <1>2, <1>3 DEF RequestsOK
  <1>5. /\ UNCHANGED engine
        /\ \A q \in Requests : q # r => status'[q] = status[q]
    BY Zenon DEF add_request, TypeOK, RequestTypes
  <1>6. \A j \in DOMAIN input'[e] :
           /\ j \in Int /\ j + 1 # 1
           /\ j + 1 \in DOMAIN input[e] /\ input'[e][j] = input[e][j + 1]
    BY SMTT(30), <1>2, TailFacts
  <1>7. \A f \in Engines : \A i \in DOMAIN input[f] :
           input[f][i].type = "ADD" => input[f][i].request \in Requests
    BY SMTT(30), MessageFields DEF TypeOK, ChannelTypes
  <1>8. \A i \in DOMAIN input[e] : input[e][i].type = "ADD" /\ i # 1 => input[e][i].request # r
    BY SMTT(30), <1>2, <1>3 DEF RequestsOK
  <1> HIDE DEF r
  <1>9. RequestsOK'
    <2> SUFFICES ASSUME NEW f \in Engines, NEW i \in DOMAIN input'[f], input'[f][i].type = "ADD"
                 PROVE  /\ status'[input'[f][i].request] = "sent"
                        /\ engine'[input'[f][i].request] = f
                        /\ \A j \in DOMAIN input'[f] :
                              /\ input'[f][j].type = "ADD"
                              /\ input'[f][j].request = input'[f][i].request
                              => i = j
      BY SMTT(30) DEF RequestsOK
    <2>1. CASE f # e
      BY SMTT(30), <1>2, <1>4, <1>5, <1>7, <2>1 DEF RequestsOK
    <2>2. CASE f = e
      <3>1. \A j \in DOMAIN input'[e] : i + 1 = j + 1 => i = j
        BY SMTT(30), <1>6, <2>2
      <3> QED BY SMTT(30), <1>5, <1>6, <1>7, <1>8, <2>2, <3>1 DEF RequestsOK
    <2> QED BY <2>1, <2>2, Zenon
  <1> QED BY <1>3, <1>4, <1>9, Zenon DEF r

\* The requests an engine's scheduler holds: only a forward pass of its own adds
\* to the running ones, only a request it receives to the waiting ones.
LEMMA RequestsPreserved ==
  ASSUME TypeOK, RequestsOK, [Next]_vars
  PROVE  /\ RequestsOK'
         /\ \A f \in Engines : ~EnterForward(f) => Running(f)' \subseteq Running(f)
         /\ \A f \in Engines : ~add_request(f) => Waiting(f)' \subseteq Waiting(f)
  <1>1. CASE UNCHANGED <<input, status, engine>>
    BY <1>1 DEF RequestsOK, Running, Waiting
  <1>2. CASE \E r \in Requests, e \in Engines : add_request_async(r, e)
    <2>1. PICK r \in Requests, e \in Engines : add_request_async(r, e)
      BY <1>2, Zenon
    <2>2. /\ status' = [status EXCEPT ![r] = "sent"] /\ engine' = [engine EXCEPT ![r] = e]
      BY <2>1, Zenon DEF add_request_async
    <2>3. \A f \in Engines : Running(f)' \subseteq Running(f) /\ Waiting(f)' \subseteq Waiting(f)
      BY <2>2, Zenon DEF Running, Waiting, TypeOK, RequestTypes
    <2> QED BY <2>1, <2>3, AddSent, Zenon
  <1>3. CASE FrontEnd /\ ~(\E r \in Requests, e \in Engines : add_request_async(r, e))
    <2>1. UNCHANGED <<status, engine>>
      BY Zenon, <1>3 DEF FrontEnd, abort_requests_async, pause_generation, resume_generation, requestVars
    <2>2. PICK m \in Message : /\ m.type # "ADD"
                               /\ \A f \in Engines :
                                     input'[f] = input[f] \/ input'[f] = Append(input[f], m)
      <3>1. CASE \E r \in Requests : abort_requests_async(r)
        <4>1. PICK r \in Requests : abort_requests_async(r)
          BY <3>1, Zenon
        <4> DEFINE m == [type |-> "ABORT", request |-> r]
        <4>2. m \in Message /\ m.type # "ADD"
          BY Zenon DEF Message
        <4>3. input' = [input EXCEPT ![engine[r]] = Append(@, m)]
          BY <4>1, Zenon DEF abort_requests_async
        <4> HIDE DEF m
        <4> QED BY Zenon, <4>2, <4>3 DEF TypeOK, ChannelTypes
      <3>2. CASE \E mode \in PauseModes : pause_generation(mode)
        <4>1. PICK mode \in PauseModes : pause_generation(mode)
          BY <3>2, Zenon
        <4> DEFINE m == [type |-> "PAUSE", mode |-> mode]
        <4>2. m \in Message /\ m.type # "ADD"
          BY DPAssumption, Zenon DEF Message
        <4>3. input' = [f \in Engines |-> Append(input[f], m)]
          BY <4>1, Zenon DEF pause_generation
        <4> HIDE DEF m
        <4> QED BY <4>2, <4>3, Zenon
      <3>3. CASE resume_generation
        <4> DEFINE m == [type |-> "RESUME"]
        <4>2. m \in Message /\ m.type # "ADD"
          BY Zenon DEF Message
        <4>3. input' = [f \in Engines |-> Append(input[f], m)]
          BY <3>3, Zenon DEF resume_generation
        <4> HIDE DEF m
        <4> QED BY <4>2, <4>3, Zenon
      <3> QED BY <1>3, <3>1, <3>2, <3>3, Zenon DEF FrontEnd
    <2>3. RequestsOK'
      BY <2>1, <2>2, RequestsStep, Zenon
    <2> QED BY <2>1, <2>3, Zenon DEF Running, Waiting
  <1>4. CASE \E e \in Engines : add_request(e)
    <2>1. PICK e \in Engines : add_request(e)
      BY <1>4, Zenon
    <2>2. /\ RequestsOK'
          /\ Head(input[e]).request \in Requests /\ engine[Head(input[e]).request] = e
      BY Zenon, <2>1, AddReceived
    <2>3. UNCHANGED engine /\ status' = [status EXCEPT ![Head(input[e]).request] = "waiting"]
      BY <2>1, Zenon DEF add_request
    <2>4. \A f \in Engines : Running(f)' \subseteq Running(f)
      BY <2>2, <2>3, Zenon DEF Running, TypeOK, RequestTypes
    <2>5. \A f \in Engines : f # e => Waiting(f)' \subseteq Waiting(f)
      BY <2>2, <2>3, Zenon DEF Waiting, TypeOK, RequestTypes
    <2> QED BY <2>1, <2>2, <2>4, <2>5, Zenon
  <1>5. CASE \E e \in Engines : abort_requests(e) \/ pause_scheduler(e) \/ resume_scheduler(e)
    <2>1. PICK e \in Engines : abort_requests(e) \/ pause_scheduler(e) \/ resume_scheduler(e)
      BY <1>5, Zenon
    <2>2. PICK type : Receive(e, type)
      BY <2>1, Zenon DEF abort_requests, pause_scheduler, resume_scheduler
    <2>3. /\ input[e] # <<>> /\ input'[e] = Tail(input[e])
          /\ \A f \in Engines : f # e => input'[f] = input[f]
      BY Zenon, <2>2, ReceiveFacts
    <2>4. \A r \in Requests :
             \/ status'[r] = status[r] /\ engine'[r] = engine[r]
             \/ status[r] \in {"waiting", "running"} /\ status'[r] = "aborted"
      BY ZenonT(30), <2>1 DEF abort_requests, pause_scheduler, resume_scheduler, Finish, Waiting, Running,
                  requestVars
    <2>5. RequestsOK'
      BY <2>3, <2>4, RequestsStep, Zenon
    <2> QED BY <2>4, <2>5, Zenon DEF Running, Waiting
  <1>6. CASE \E e \in Engines : EnterForward(e)
    <2>1. PICK e \in Engines : EnterForward(e)
      BY <1>6, Zenon
    <2>2. /\ UNCHANGED <<engine, input>>
          /\ \A r \in Requests : status'[r] = status[r] \/ (r \in Waiting(e) /\ status'[r] = "running")
      BY <2>1, Zenon DEF EnterForward
    <2>3. RequestsOK'
      BY <2>2, RequestsStep, Zenon DEF Waiting
    <2>4. \A f \in Engines : /\ Waiting(f)' \subseteq Waiting(f)
                             /\ f # e => Running(f)' \subseteq Running(f)
      BY <2>2, Zenon DEF Waiting, Running
    <2> QED BY <2>1, <2>3, <2>4, Zenon
  <1>7. CASE Forward \/ \E e \in Engines : EagerAbort(e)
    <2>1. /\ UNCHANGED input
          /\ \A r \in Requests :
                \/ status'[r] = status[r] /\ engine'[r] = engine[r]
                \/ status[r] \in {"waiting", "running"} /\ status'[r] \in {"finished", "aborted"}
      <3>1. CASE Forward
        BY <3>1, Zenon DEF Forward, Finish
      <3>2. CASE \E e \in Engines : EagerAbort(e)
        <4>1. PICK e \in Engines : EagerAbort(e)
          BY <3>2, Zenon
        <4>2. PICK R : R \subseteq Waiting(e) \cup Running(e) /\ Finish(R, "aborted")
          BY Zenon, <4>1 DEF EagerAbort
        <4>3. UNCHANGED input
          BY <4>1, Zenon DEF EagerAbort
        <4> QED BY <4>2, <4>3, Zenon DEF Finish, Running, Waiting
      <3> QED BY <1>7, <3>1, <3>2, Zenon
    <2>2. RequestsOK'
      BY <2>1, RequestsStep, Zenon
    <2> QED BY <2>1, <2>2, Zenon DEF Running, Waiting
  <1>8. CASE \/ StatsTask \/ Coordinator \/ PublishStats \/ sync_dp_state \/ ResumeTogether
             \/ \E e \in Engines : HandleStartDpWave(e) \/ FinishStep(e)
             \/ UNCHANGED vars
    <2>1. UNCHANGED <<input, status, engine>>
      BY Zenon, <1>8 DEF StatsTask, ForwardFirstReq, UpdateStats, Coordinator, FrontMessage, WaveComplete,
             StartWave, PublishStats, sync_dp_state, ResumeTogether, HandleStartDpWave, FinishStep,
             vars, requestVars
    <2> QED BY <1>1, <2>1, Zenon
  <1> QED BY ZenonT(30), <1>2, <1>3, <1>4, <1>5, <1>6, <1>7, <1>8
          DEF Next, Collective, HandleClientRequest, BusyLoop

-----------------------------------------------------------------------------
(* The finish all-reduce tells the truth until the engines act on it. *)

\* A pause that no engine or every engine has heard of is the only one that the
\* all-reduce does not call partial.
LEMMA PauseAgreed ==
  ASSUME NEW P \in SUBSET Engines, ~PausePartial(P), P # {}
  PROVE  P = Engines
  <1>1. dp_size \in Nat \ {0}
    BY DPAssumption, Zenon
  <1>2. IsFiniteSet(Engines) /\ Cardinality(Engines) = dp_size
    BY SMTT(30), <1>1, FS_Interval DEF Engines
  <1>3. /\ IsFiniteSet(P) /\ Cardinality(P) \in Nat /\ Cardinality(P) <= dp_size
        /\ Cardinality(P) = dp_size => P = Engines
    <2>1. IsFiniteSet(P)
      BY <1>2, FS_Subset, Zenon
    <2>2. Cardinality(P) <= Cardinality(Engines)
      BY <1>2, FS_Subset, Zenon
    <2>3. Cardinality(P) = Cardinality(Engines) => P = Engines
      BY <1>2, FS_Subset, Zenon
    <2> QED BY <1>2, <2>1, <2>2, <2>3, FS_CardinalityType, Zenon
  <1>4. Cardinality(P) # 0
    BY <1>3, FS_EmptySet, Zenon
  <1>5. Cardinality(P) % dp_size = 0
    BY Zenon DEF PausePartial
  <1>6. ASSUME NEW n \in Nat, NEW d \in Nat \ {0}, n <= d, n # 0, n % d = 0
        PROVE  n = d
    <2>1. CASE n < d
      <3>1. n % d = n
        BY SMTT(30), <1>6, <2>1
      <3> QED BY <1>6, <3>1, Zenon
    <2> QED BY SMTT(30), <1>6, <2>1
  <1> QED BY <1>1, <1>3, <1>4, <1>5, <1>6, Zenon

LEMMA SyncedPreserved ==
  ASSUME TypeOK, LockstepOK, RequestsOK, SyncedOK, [Next]_vars
  PROVE  SyncedOK'
  <1>1. CASE sync_dp_state
    <2> DEFINE P == {e \in Engines : pending_pause[e]}
    <2>1. /\ \A e \in Engines :
                /\ dp_state'[e].consensus = (P = Engines)
                /\ ~dp_state'[e].unfinished => ~has_unfinished_requests(e) /\ ~PausePartial(P)
          /\ UNCHANGED <<pause_state, pending_pause, status, engine>>
      BY <1>1, Zenon DEF sync_dp_state, requestVars
    <2>2. \A e \in Engines : has_unfinished_requests(e)' = has_unfinished_requests(e)
      BY <2>1, Zenon DEF has_unfinished_requests, Running, Waiting
    <2>3. P \in SUBSET Engines /\ \A e \in Engines : (e \in P) = pending_pause[e]
      BY DEF TypeOK, EngineTypes
    <2> HIDE DEF P
    <2>4. \A e \in Engines : ~dp_state'[e].unfinished /\ pending_pause[e] => P = Engines
      BY Zenon, <2>1, <2>3, PauseAgreed
    <2> QED BY Zenon, <2>1, <2>2, <2>3, <2>4 DEF SyncedOK
  <1>2. CASE ~sync_dp_state
    <2> SUFFICES ASSUME NEW e \in Engines, pc'[e] = "synced"
                 PROVE  /\ dp_state'[e].consensus => pending_pause'[e]
                        /\ ~dp_state'[e].unfinished =>
                              /\ ~has_unfinished_requests(e)'
                              /\ pending_pause'[e] => dp_state'[e].consensus
      BY Zenon DEF SyncedOK
    <2>1. /\ pc[e] = "synced" /\ dp_state'[e] = dp_state[e]
          /\ pending_pause'[e] = pending_pause[e] /\ pause_state'[e] = pause_state[e]
      <3>1. CASE \/ FrontEnd \/ StatsTask \/ Coordinator \/ PublishStats \/ UNCHANGED vars
                 \/ \E f \in Engines : EagerAbort(f)
        BY <3>1, QuietSteps, Zenon DEF engineVars
      <3>2. CASE \E f \in Engines : HandleClientRequest(f)
        <4>1. PICK f \in Engines : HandleClientRequest(f)
          BY <3>2, ZenonT(30)
        <4>2. pc[f] = "input" /\ UNCHANGED dp_state
          BY ZenonT(30), <4>1 DEF HandleClientRequest, add_request, abort_requests, pause_scheduler,
                      resume_scheduler, Receive
        <4>3. \A g \in Engines \ {f} : /\ pc'[g] = pc[g]
                                       /\ pending_pause'[g] = pending_pause[g]
                                       /\ pause_state'[g] = pause_state[g]
          BY SMTT(30), <4>1 DEF HandleClientRequest, add_request, abort_requests, pause_scheduler,
                      resume_scheduler, TypeOK, EngineTypes
        <4>4. pc'[f] # "synced"
          BY ZenonT(30), <4>1, <4>2 DEF HandleClientRequest, add_request, abort_requests, pause_scheduler,
                      resume_scheduler, TypeOK, EngineTypes
        <4> QED BY <4>2, <4>3, <4>4, ZenonT(30)
      <3>3. CASE \E f \in Engines : HandleStartDpWave(f) \/ BusyLoop(f)
        BY SMTT(30), <3>3 DEF TypeOK, EngineTypes, HandleStartDpWave, BusyLoop, EnterForward, FinishStep
      <3>4. CASE Collective
        BY Zenon, <1>2, <3>4 DEF Collective, Forward, ResumeTogether
      <3> QED BY Zenon, <3>1, <3>2, <3>3, <3>4 DEF Next
    <2>2. ~EnterForward(e) /\ ~add_request(e)
      BY <2>1, Zenon DEF EnterForward, add_request, Receive
    <2>3. Running(e)' \subseteq Running(e) /\ Waiting(e)' \subseteq Waiting(e)
      BY <2>2, RequestsPreserved, Zenon
    <2>4. ~has_unfinished_requests(e) => ~has_unfinished_requests(e)'
      BY Zenon, <2>1, <2>3 DEF has_unfinished_requests, TypeOK, EngineTypes
    <2> QED BY <2>1, <2>4, Zenon DEF SyncedOK
  <1> QED BY <1>1, <1>2, Zenon

Has(s, type) == \E i \in DOMAIN s : s[i].type = type
AtMostOne(s, type) ==
    \A i, j \in DOMAIN s : s[i].type = type /\ s[j].type = type => i = j

\* Engine e has not heard of a pause.
Unaware(e) ==
    /\ pause_state[e] = "UNPAUSED"
    /\ ~pending_pause[e] /\ ~ignore_start_dp_wave[e] /\ idle_callback[e] = "none"

\* Engine e has heard of the pause and still runs.
Pausing(e) ==
    /\ pause_state[e] # "UNPAUSED"
    /\ idle_callback[e] = "waiting"
    /\ pending_pause[e] \/ ignore_start_dp_wave[e]

\* Engine e is stopped, and nothing but a resume gets it going.
Stopped(e) ==
    /\ pause_state[e] # "UNPAUSED"
    /\ pause_state[e] = "PAUSED_NEW" => Running(e) = {}
    /\ idle_callback[e] = "resolved"
    /\ pc[e] = "input"
    /\ ~pending_pause[e] /\ ignore_start_dp_wave[e] /\ ~engines_running[e]

\* Engine e has resumed.
Resumed(e) ==
    /\ pause_state[e] = "UNPAUSED"
    /\ ~pending_pause[e] /\ ~ignore_start_dp_wave[e] /\ idle_callback[e] = "resolved"

\* The stages of a pause: which messages are in flight, what the engines know.
PauseOK ==
    /\ \A e \in Engines : AtMostOne(input[e], "PAUSE") /\ AtMostOne(input[e], "RESUME")
    /\ pause = "none" =>
          \A e \in Engines : /\ ~Has(input[e], "PAUSE") /\ ~Has(input[e], "RESUME")
                             /\ pc[e] # "resume"
                             /\ Unaware(e)
    /\ pause = "pausing" =>
          \A e \in Engines : /\ ~Has(input[e], "RESUME")
                             /\ pc[e] # "resume"
                             /\ IF Has(input[e], "PAUSE") THEN Unaware(e)
                                                          ELSE Pausing(e) \/ Stopped(e)
    /\ pause = "resumed" =>
          /\ \A e \in Engines : ~Has(input[e], "PAUSE")
          /\ \/ \A e \in Engines :
                   IF Has(input[e], "RESUME") THEN Stopped(e)
                                              ELSE Resumed(e) /\ pc[e] = "resume"
             \/ \A e \in Engines :
                   ~Has(input[e], "RESUME") /\ Resumed(e) /\ pc[e] # "resume"

-----------------------------------------------------------------------------
(* The stages of a pause. *)

\* The PAUSE and RESUME messages of an engine's input, as it is read and added to.
LEMMA HasTail ==
  ASSUME NEW s \in Seq(Message), s # <<>>, NEW type
  PROVE  /\ Has(Tail(s), type) => Has(s, type)
         /\ Head(s).type = type => Has(s, type)
         /\ Head(s).type # type /\ Has(s, type) => Has(Tail(s), type)
         /\ Head(s).type = type /\ AtMostOne(s, type) => ~Has(Tail(s), type)
         /\ AtMostOne(s, type) => AtMostOne(Tail(s), type)
  <1>1. /\ 1 \in DOMAIN s /\ Head(s) = s[1]
        /\ \A i \in DOMAIN Tail(s) : /\ i \in Int /\ i + 1 # 1
                                     /\ i + 1 \in DOMAIN s /\ Tail(s)[i] = s[i + 1]
        /\ \A i \in DOMAIN s : i # 1 => i - 1 \in DOMAIN Tail(s) /\ Tail(s)[i - 1] = s[i]
    BY SMTT(30), TailFacts
  <1>2. \A i, j \in DOMAIN Tail(s) : i + 1 = j + 1 => i = j
    BY <1>1
  <1>3. Has(Tail(s), type) => Has(s, type)
    BY <1>1 DEF Has
  <1>4. Head(s).type = type => Has(s, type)
    BY <1>1, Zenon DEF Has
  <1>5. Head(s).type # type /\ Has(s, type) => Has(Tail(s), type)
    BY ZenonT(30), <1>1 DEF Has
  <1>6. Head(s).type = type /\ AtMostOne(s, type) => ~Has(Tail(s), type)
    BY <1>1, ZenonT(30) DEF Has, AtMostOne
  <1>7. AtMostOne(s, type) => AtMostOne(Tail(s), type)
    BY SMTT(30), <1>1, <1>2 DEF AtMostOne
  <1> QED BY Zenon, <1>3, <1>4, <1>5, <1>6, <1>7

LEMMA HasAppend ==
  ASSUME NEW s \in Seq(Message), NEW m \in Message, NEW type
  PROVE  /\ m.type # type => Has(Append(s, m), type) = Has(s, type)
         /\ m.type = type => Has(Append(s, m), type)
         /\ AtMostOne(s, type) /\ (m.type = type => ~Has(s, type)) => AtMostOne(Append(s, m), type)
  <1>1. /\ Len(s) + 1 \in DOMAIN Append(s, m) /\ Append(s, m)[Len(s) + 1] = m
        /\ \A i \in DOMAIN s : i \in DOMAIN Append(s, m) /\ Append(s, m)[i] = s[i]
        /\ \A i \in DOMAIN Append(s, m) : i \in DOMAIN s \/ i = Len(s) + 1
    BY Zenon, AppendFacts
  <1> QED BY <1>1, Zenon DEF Has, AtMostOne

\* PauseOK is about the following variables, and the running requests.
LEMMA StagesKept ==
  ASSUME TypeOK, PauseOK,
         UNCHANGED pause,
         \A e \in Engines :
            /\ \A type \in {"PAUSE", "RESUME"} :
                  /\ AtMostOne(input'[e], type)
                  /\ Has(input'[e], type) = Has(input[e], type)
            /\ (pc'[e] = "resume") = (pc[e] = "resume")
            /\ Unaware(e) => Unaware(e)'
            /\ Pausing(e) => (Pausing(e) \/ Stopped(e))'
            /\ Stopped(e) => Stopped(e)'
            /\ Resumed(e) => Resumed(e)'
  PROVE  PauseOK'
  <1>1. \A e \in Engines : AtMostOne(input'[e], "PAUSE") /\ AtMostOne(input'[e], "RESUME")
    BY Zenon
  <1>2. CASE pause = "none"
    BY Zenon, <1>1, <1>2 DEF PauseOK
  <1>3. CASE pause = "pausing"
    BY Zenon, <1>1, <1>3 DEF PauseOK
  <1>4. CASE pause = "resumed"
    <2>1. CASE \A e \in Engines :
                   IF Has(input[e], "RESUME") THEN Stopped(e)
                                              ELSE Resumed(e) /\ pc[e] = "resume"
      BY ZenonT(30), <1>1, <1>4, <2>1 DEF PauseOK
    <2>2. CASE \A e \in Engines : ~Has(input[e], "RESUME") /\ Resumed(e) /\ pc[e] # "resume"
      BY <1>1, <1>4, <2>2, Zenon DEF PauseOK
    <2> QED BY ZenonT(30), <1>4, <2>1, <2>2 DEF PauseOK
  <1> QED BY Zenon, <1>2, <1>3, <1>4 DEF TypeOK, ClientTypes

\* A paused engine without running requests has no work.
LEMMA StoppedIsIdle ==
  ASSUME TypeOK, NEW e \in Engines, Stopped(e)
  PROVE  ~has_work(e)
  BY Zenon DEF TypeOK, EngineTypes, Stopped, has_work, has_unfinished_requests

\* An engine whose own state and whose running requests a step leaves alone.
LEMMA StageUnchanged ==
  ASSUME NEW e \in Engines, Running(e)' \subseteq Running(e),
         UNCHANGED <<pc[e], engines_running[e], pause_state[e], pending_pause[e],
                     ignore_start_dp_wave[e], idle_callback[e]>>
  PROVE  /\ Unaware(e) => Unaware(e)'
         /\ Pausing(e) => Pausing(e)'
         /\ Stopped(e) => Stopped(e)'
         /\ Resumed(e) => Resumed(e)'
         /\ (pc'[e] = "resume") = (pc[e] = "resume")
  <1>1. Unaware(e) => Unaware(e)'
    BY Zenon DEF Unaware
  <1>2. Pausing(e) => Pausing(e)'
    BY Zenon DEF Pausing
  <1>3. Stopped(e) => Stopped(e)'
    BY Zenon DEF Stopped
  <1>4. Resumed(e) => Resumed(e)'
    BY Zenon DEF Resumed
  <1> QED BY Zenon, <1>1, <1>2, <1>3, <1>4

\* A step of one engine that reads no pause and no resume.
LEMMA StageOfOne ==
  ASSUME TypeOK, PauseOK, NEW e \in Engines, UNCHANGED <<pause>>,
         \A f \in Engines :
            \/ input'[f] = input[f]
            \/ /\ input[f] # <<>> /\ input'[f] = Tail(input[f])
               /\ Head(input[f]).type \notin {"PAUSE", "RESUME"},
         \A f \in Engines \ {e} :
            /\ Running(f)' \subseteq Running(f)
            /\ UNCHANGED <<pc[f], engines_running[f], pause_state[f], pending_pause[f],
                           ignore_start_dp_wave[f], idle_callback[f]>>,
         /\ (pc'[e] = "resume") = (pc[e] = "resume")
         /\ Unaware(e) => Unaware(e)'
         /\ Pausing(e) => (Pausing(e) \/ Stopped(e))'
         /\ Stopped(e) => Stopped(e)'
         /\ Resumed(e) => Resumed(e)'
  PROVE  PauseOK'
  <1>1. ASSUME NEW f \in Engines, NEW type \in {"PAUSE", "RESUME"}
        PROVE  AtMostOne(input'[f], type) /\ Has(input'[f], type) = Has(input[f], type)
    <2>1. input[f] \in Seq(Message) /\ AtMostOne(input[f], type)
      BY Zenon DEF TypeOK, ChannelTypes, PauseOK
    <2>2. CASE input'[f] = input[f]
      BY Zenon, <2>1, <2>2
    <2>3. CASE /\ input[f] # <<>> /\ input'[f] = Tail(input[f])
               /\ Head(input[f]).type \notin {"PAUSE", "RESUME"}
      <3>1. AtMostOne(Tail(input[f]), type)
        BY Zenon, <2>1, <2>3, HasTail
      <3>2. Has(Tail(input[f]), type) => Has(input[f], type)
        BY Zenon, <2>1, <2>3, HasTail
      <3>3. Head(input[f]).type # type
        BY Zenon, <2>3
      <3>4. Has(input[f], type) => Has(Tail(input[f]), type)
        BY Zenon, <2>1, <2>3, <3>3, HasTail
      <3>5. Has(input[f], type) \in BOOLEAN /\ Has(Tail(input[f]), type) \in BOOLEAN
        BY Zenon DEF Has
      <3> QED BY Zenon, <2>3, <3>1, <3>2, <3>4, <3>5
    <2> QED BY ZenonT(30), <2>2, <2>3
  <1>2. ASSUME NEW f \in Engines
        PROVE  /\ (pc'[f] = "resume") = (pc[f] = "resume")
               /\ Unaware(f) => Unaware(f)'
               /\ Pausing(f) => (Pausing(f) \/ Stopped(f))'
               /\ Stopped(f) => Stopped(f)'
               /\ Resumed(f) => Resumed(f)'
    <2>1. CASE f = e
      BY Zenon, <2>1
    <2>2. CASE f # e
      BY <2>2, StageUnchanged, Zenon
    <2> QED BY Zenon, <2>1, <2>2
  <1> QED BY Zenon, <1>1, <1>2, StagesKept

LEMMA FrontEndStages ==
  ASSUME TypeOK, RequestsOK, PauseOK, FrontEnd
  PROVE  PauseOK'
  <1>1. UNCHANGED engineVars
    BY QuietSteps, Zenon
  <1>2. \A e \in Engines : Running(e)' \subseteq Running(e)
    <2>1. [Next]_vars
      BY Zenon DEF Next
    <2>2. \A e \in Engines : EnterForward(e) => Running(e)' \subseteq Running(e)
      BY Zenon, <1>1 DEF engineVars, EnterForward, TypeOK, EngineTypes
    <2> QED BY <2>1, <2>2, RequestsPreserved, Zenon
  <1>3. ASSUME NEW e \in Engines
        PROVE  /\ Unaware(e) => Unaware(e)'
               /\ Pausing(e) => Pausing(e)'
               /\ Stopped(e) => Stopped(e)'
               /\ Resumed(e) => Resumed(e)'
               /\ pc'[e] = pc[e]
    BY Zenon, <1>1, <1>2, StageUnchanged DEF engineVars
  <1>4. CASE \/ \E r \in Requests, e \in Engines : add_request_async(r, e)
             \/ \E r \in Requests : abort_requests_async(r)
    <2>1. PICK m \in Message : /\ m.type \notin {"PAUSE", "RESUME"}
                               /\ \A f \in Engines :
                                     input'[f] = input[f] \/ input'[f] = Append(input[f], m)
      <3>1. CASE \E r \in Requests, e \in Engines : add_request_async(r, e)
        <4>1. PICK r \in Requests, e \in Engines : add_request_async(r, e)
          BY <3>1, Zenon
        <4> DEFINE m == [type |-> "ADD", request |-> r, wave |-> client_wave]
        <4>2. m \in Message /\ m.type \notin {"PAUSE", "RESUME"}
          BY Zenon, NewMessages DEF TypeOK, ClientTypes
        <4>3. input' = [input EXCEPT ![e] = Append(@, m)]
          BY <4>1, Zenon DEF add_request_async
        <4> HIDE DEF m
        <4> QED BY <4>2, <4>3, Zenon DEF TypeOK, ChannelTypes
      <3>2. CASE \E r \in Requests : abort_requests_async(r)
        <4>1. PICK r \in Requests : abort_requests_async(r)
          BY <3>2, Zenon
        <4> DEFINE m == [type |-> "ABORT", request |-> r]
        <4>2. m \in Message /\ m.type \notin {"PAUSE", "RESUME"}
          BY Zenon DEF Message
        <4>3. input' = [input EXCEPT ![engine[r]] = Append(@, m)]
          BY <4>1, Zenon DEF abort_requests_async
        <4> HIDE DEF m
        <4> QED BY Zenon, <4>2, <4>3 DEF TypeOK, ChannelTypes
      <3> QED BY Zenon, <1>4, <3>1, <3>2
    <2>2. ASSUME NEW f \in Engines, NEW type \in {"PAUSE", "RESUME"}
          PROVE  AtMostOne(input'[f], type) /\ Has(input'[f], type) = Has(input[f], type)
      <3>1. input[f] \in Seq(Message) /\ AtMostOne(input[f], type) /\ m.type # type
        BY <2>1, Zenon DEF TypeOK, ChannelTypes, PauseOK
      <3>2. AtMostOne(Append(input[f], m), type)
        BY <3>1, HasAppend, Zenon
      <3>3. Has(Append(input[f], m), type) = Has(input[f], type)
        BY <3>1, HasAppend, Zenon
      <3> QED BY Zenon, <2>1, <3>1, <3>2, <3>3
    <2>3. UNCHANGED pause
      BY Zenon, <1>4 DEF add_request_async, abort_requests_async
    <2> QED BY Zenon, <1>3, <2>2, <2>3, StagesKept
  <1>5. CASE \E mode \in PauseModes : pause_generation(mode)
    <2>1. PICK mode \in PauseModes : pause_generation(mode)
      BY Zenon, <1>5
    <2> DEFINE m == [type |-> "PAUSE", mode |-> mode]
    <2>2. m \in Message /\ m.type = "PAUSE"
      BY DPAssumption, Zenon DEF Message
    <2>3. /\ pause = "none" /\ pause' = "pausing"
          /\ \A e \in Engines : input'[e] = Append(input[e], m)
      BY <2>1, Zenon DEF pause_generation
    <2> HIDE DEF m
    <2>4. ASSUME NEW e \in Engines
          PROVE  /\ AtMostOne(input'[e], "PAUSE") /\ AtMostOne(input'[e], "RESUME")
                 /\ Has(input'[e], "PAUSE") /\ ~Has(input'[e], "RESUME")
      <3>1. /\ input[e] \in Seq(Message) /\ ~Has(input[e], "PAUSE") /\ ~Has(input[e], "RESUME")
            /\ AtMostOne(input[e], "PAUSE") /\ AtMostOne(input[e], "RESUME")
        BY <2>3, Zenon DEF PauseOK, TypeOK, ChannelTypes
      <3>2. Has(Append(input[e], m), "PAUSE") /\ AtMostOne(Append(input[e], m), "PAUSE")
        BY <2>2, <3>1, HasAppend, Zenon
      <3>3. Has(Append(input[e], m), "RESUME") = Has(input[e], "RESUME")
            /\ AtMostOne(Append(input[e], m), "RESUME")
        BY Zenon, <2>2, <3>1, HasAppend
      <3> QED BY ZenonT(30), <2>3, <3>1, <3>2, <3>3
    <2>5. \A e \in Engines : Unaware(e)' /\ pc'[e] # "resume"
      BY Zenon, <1>3, <2>3 DEF PauseOK
    <2> QED BY Zenon, <2>3, <2>4, <2>5 DEF PauseOK
  <1>6. CASE resume_generation
    <2> DEFINE m == [type |-> "RESUME"]
    <2>2. m \in Message /\ m.type = "RESUME"
      BY Zenon DEF Message
    <2>3. /\ pause = "pausing" /\ pause' = "resumed"
          /\ \A e \in Engines : input'[e] = Append(input[e], m) /\ idle_callback[e] = "resolved"
      BY Zenon, <1>6 DEF resume_generation
    <2> HIDE DEF m
    <2>4. \A e \in Engines : ~Has(input[e], "PAUSE") /\ Stopped(e)
      BY <2>3, Zenon DEF PauseOK, Unaware, Pausing
    <2>5. ASSUME NEW e \in Engines
          PROVE  /\ AtMostOne(input'[e], "PAUSE") /\ AtMostOne(input'[e], "RESUME")
                 /\ ~Has(input'[e], "PAUSE") /\ Has(input'[e], "RESUME")
      <3>1. /\ input[e] \in Seq(Message) /\ ~Has(input[e], "PAUSE") /\ ~Has(input[e], "RESUME")
            /\ AtMostOne(input[e], "PAUSE") /\ AtMostOne(input[e], "RESUME")
        BY Zenon, <2>3, <2>4 DEF PauseOK, TypeOK, ChannelTypes
      <3>2. Has(Append(input[e], m), "RESUME") /\ AtMostOne(Append(input[e], m), "RESUME")
        BY Zenon, <2>2, <3>1, HasAppend
      <3>3. Has(Append(input[e], m), "PAUSE") = Has(input[e], "PAUSE")
            /\ AtMostOne(Append(input[e], m), "PAUSE")
        BY Zenon, <2>2, <3>1, HasAppend
      <3> QED BY ZenonT(30), <2>3, <3>1, <3>2, <3>3
    <2>6. \A e \in Engines : Stopped(e)'
      BY Zenon, <1>3, <2>4
    <2> QED BY Zenon, <2>3, <2>5, <2>6 DEF PauseOK
  <1> QED BY <1>4, <1>5, <1>6, Zenon DEF FrontEnd

LEMMA QuietStages ==
  ASSUME TypeOK, RequestsOK, PauseOK,
         \/ StatsTask \/ Coordinator \/ PublishStats \/ UNCHANGED vars
         \/ \E e \in Engines : EagerAbort(e)
  PROVE  PauseOK'
  <1>1. UNCHANGED engineVars
    BY QuietSteps, Zenon
  <1>2. UNCHANGED <<input, pause>>
    BY Zenon DEF StatsTask, ForwardFirstReq, UpdateStats, Coordinator, FrontMessage, WaveComplete,
           StartWave, PublishStats, EagerAbort, vars, clientVars
  <1>3. \A e \in Engines : Running(e)' \subseteq Running(e)
    <2>1. [Next]_vars
      BY Zenon DEF Next
    <2>2. \A e \in Engines : EnterForward(e) => Running(e)' \subseteq Running(e)
      BY <1>1, ZenonT(30) DEF engineVars, EnterForward, TypeOK, EngineTypes
    <2> QED BY <2>1, <2>2, RequestsPreserved, Zenon
  <1>4. ASSUME NEW e \in Engines
        PROVE  /\ (pc'[e] = "resume") = (pc[e] = "resume")
               /\ Unaware(e) => Unaware(e)'
               /\ Pausing(e) => Pausing(e)'
               /\ Stopped(e) => Stopped(e)'
               /\ Resumed(e) => Resumed(e)'
    BY Zenon, <1>1, <1>3, StageUnchanged DEF engineVars
  <1>5. \A e \in Engines : AtMostOne(input[e], "PAUSE") /\ AtMostOne(input[e], "RESUME")
    BY Zenon DEF PauseOK
  <1> QED BY <1>2, <1>4, <1>5, StagesKept, Zenon

LEMMA HandleClientRequestStages ==
  ASSUME TypeOK, RequestsOK, PauseOK, NEW e \in Engines, HandleClientRequest(e)
  PROVE  PauseOK'
  <1>1. PICK type \in {"ADD", "ABORT", "PAUSE", "RESUME"} : Receive(e, type)
    BY ZenonT(30) DEF HandleClientRequest, add_request, abort_requests, pause_scheduler, resume_scheduler
  <1>2. /\ pc[e] = "input" /\ input[e] \in Seq(Message) /\ input[e] # <<>>
        /\ Head(input[e]).type = type
        /\ \A f \in Engines : f # e => input'[f] = input[f]
        /\ input'[e] = Tail(input[e])
        /\ UNCHANGED pause
    BY Zenon, <1>1, ReceiveFacts DEF clientVars
  <1>3. \A f \in Engines : Running(f)' \subseteq Running(f)
    <2>1. [Next]_vars
      BY Zenon DEF Next
    <2>2. \A f \in Engines : ~EnterForward(f)
      BY SMTT(30), <1>2 DEF EnterForward, TypeOK, ChannelTypes
    <2> QED BY <2>1, <2>2, RequestsPreserved, Zenon
  <1>4. \A f \in Engines \ {e} :
           UNCHANGED <<pc[f], engines_running[f], pause_state[f], pending_pause[f],
                       ignore_start_dp_wave[f], idle_callback[f]>>
    BY ZenonT(30) DEF HandleClientRequest, add_request, abort_requests, pause_scheduler, resume_scheduler,
           TypeOK, EngineTypes
  <1>5. CASE add_request(e) \/ abort_requests(e)
    <2>1. Head(input[e]).type \notin {"PAUSE", "RESUME"}
      BY Zenon, <1>5 DEF add_request, abort_requests, Receive
    <2>2. UNCHANGED <<pc, pause_state, pending_pause, ignore_start_dp_wave, idle_callback>>
      BY ZenonT(30), <1>5 DEF add_request, abort_requests
    <2>3. Stopped(e) => engines_running'[e] = engines_running[e]
      BY <1>5 DEF add_request, abort_requests, StartsNextWave, Stopped, TypeOK, EngineTypes
    <2>4. Stopped(e) => Stopped(e)'
      BY Zenon, <1>3, <2>2, <2>3 DEF Stopped
    <2>5. /\ Unaware(e) => Unaware(e)'
          /\ Pausing(e) => Pausing(e)'
          /\ Resumed(e) => Resumed(e)'
      BY <2>2, Zenon DEF Unaware, Pausing, Resumed
    <2> QED BY Zenon, <1>2, <1>3, <1>4, <2>1, <2>2, <2>4, <2>5, StageOfOne
  <1>6. CASE pause_scheduler(e)
    <2>1. Head(input[e]).type = "PAUSE"
      BY Zenon, <1>6 DEF pause_scheduler, Receive
    <2>2. Has(input[e], "PAUSE")
      BY Zenon, <1>2, <2>1, HasTail
    <2>3. pause = "pausing" /\ Unaware(e)
      BY ZenonT(30), <2>2 DEF PauseOK, TypeOK, ClientTypes
    <2>4. /\ AtMostOne(input[e], "PAUSE") /\ AtMostOne(input[e], "RESUME")
          /\ ~Has(input[e], "RESUME")
      BY ZenonT(30), <2>3 DEF PauseOK
    <2>5. ~Has(input'[e], "PAUSE") /\ AtMostOne(input'[e], "PAUSE")
      BY SMTT(30), <1>2, <2>1, <2>4, HasTail
    <2>6. ~Has(input'[e], "RESUME") /\ AtMostOne(input'[e], "RESUME")
      BY <1>2, <2>4, HasTail
    <2>7. Pausing(e)' /\ pc'[e] # "resume"
      BY Zenon, <1>2, <1>6 DEF pause_scheduler, Pausing, TypeOK, EngineTypes
    <2>8. ASSUME NEW f \in Engines, f # e
          PROVE  /\ AtMostOne(input'[f], "PAUSE") /\ AtMostOne(input'[f], "RESUME")
                 /\ ~Has(input'[f], "RESUME") /\ pc'[f] # "resume"
                 /\ IF Has(input'[f], "PAUSE") THEN Unaware(f)' ELSE (Pausing(f) \/ Stopped(f))'
      <3>1. /\ Unaware(f) => Unaware(f)'
            /\ Pausing(f) => Pausing(f)'
            /\ Stopped(f) => Stopped(f)'
            /\ (pc'[f] = "resume") = (pc[f] = "resume")
        BY Zenon, <1>3, <1>4, <2>8, StageUnchanged
      <3>2. /\ AtMostOne(input[f], "PAUSE") /\ AtMostOne(input[f], "RESUME")
            /\ ~Has(input[f], "RESUME") /\ pc[f] # "resume"
            /\ IF Has(input[f], "PAUSE") THEN Unaware(f) ELSE Pausing(f) \/ Stopped(f)
        BY <2>3, Zenon DEF PauseOK
      <3>3. input'[f] = input[f]
        BY <1>2, <2>8, Zenon
      <3> QED BY <3>1, <3>2, <3>3, Zenon
    <2>9. pause' = "pausing"
      BY Zenon, <1>2, <2>3
    <2> QED BY Zenon, <2>5, <2>6, <2>7, <2>8, <2>9 DEF PauseOK
  <1>7. CASE resume_scheduler(e)
    <2>1. Head(input[e]).type = "RESUME"
      BY Zenon, <1>7 DEF resume_scheduler, Receive
    <2>2. Has(input[e], "RESUME")
      BY Zenon, <1>2, <2>1, HasTail
    <2>3. /\ pause = "resumed"
          /\ \A f \in Engines : /\ ~Has(input[f], "PAUSE")
                                /\ IF Has(input[f], "RESUME") THEN Stopped(f)
                                   ELSE Resumed(f) /\ pc[f] = "resume"
      BY ZenonT(30), <2>2 DEF PauseOK, TypeOK, ClientTypes
    <2>4. Stopped(e) /\ AtMostOne(input[e], "PAUSE") /\ AtMostOne(input[e], "RESUME")
      BY ZenonT(30), <2>2, <2>3 DEF PauseOK
    <2>5. ~Has(input'[e], "RESUME") /\ AtMostOne(input'[e], "RESUME")
      BY SMTT(30), <1>2, <2>1, <2>4, HasTail
    <2>6. ~Has(input'[e], "PAUSE") /\ AtMostOne(input'[e], "PAUSE")
      BY SMTT(30), <1>2, <2>3, <2>4, HasTail
    <2>7. /\ pause_state' = [pause_state EXCEPT ![e] = "UNPAUSED"]
          /\ ignore_start_dp_wave' = [ignore_start_dp_wave EXCEPT ![e] = FALSE]
          /\ pc' = [pc EXCEPT ![e] = "resume"]
          /\ UNCHANGED <<pending_pause, idle_callback>>
      BY Zenon, <1>7, <2>4 DEF resume_scheduler, Stopped
    <2>8. Resumed(e)' /\ pc'[e] = "resume"
      BY Zenon, <2>4, <2>7 DEF Resumed, Stopped, TypeOK, EngineTypes
    <2>9. ASSUME NEW f \in Engines, f # e
          PROVE  /\ AtMostOne(input'[f], "PAUSE") /\ AtMostOne(input'[f], "RESUME")
                 /\ ~Has(input'[f], "PAUSE")
                 /\ IF Has(input'[f], "RESUME") THEN Stopped(f)' ELSE Resumed(f)' /\ pc'[f] = "resume"
      <3>1. /\ Stopped(f) => Stopped(f)'
            /\ Resumed(f) => Resumed(f)'
            /\ pc'[f] = pc[f]
        BY ZenonT(30), <1>3, <1>4, <2>9, StageUnchanged
      <3>2. input'[f] = input[f] /\ AtMostOne(input[f], "PAUSE") /\ AtMostOne(input[f], "RESUME")
        BY Zenon, <1>2, <2>9 DEF PauseOK
      <3> QED BY ZenonT(30), <2>3, <3>1, <3>2
    <2>10. pause' = "resumed"
      BY <1>2, <2>3, Zenon
    <2> QED BY ZenonT(30), <2>5, <2>6, <2>8, <2>9, <2>10 DEF PauseOK
  <1> QED BY Zenon, <1>5, <1>6, <1>7 DEF HandleClientRequest

LEMMA EngineStepStages ==
  ASSUME TypeOK, RequestsOK, SyncedOK, PauseOK, NEW e \in Engines, HandleStartDpWave(e) \/ BusyLoop(e)
  PROVE  PauseOK'
  <1>1. UNCHANGED <<input, pause>>
    BY Zenon DEF HandleStartDpWave, BusyLoop, EnterForward, FinishStep, clientVars
  <1>2. /\ \A f \in Engines : f # e => Running(f)' \subseteq Running(f)
        /\ ~EnterForward(e) => Running(e)' \subseteq Running(e)
    <2>1. [Next]_vars
      BY Zenon DEF Next
    <2>2. \A f \in Engines : f # e => ~EnterForward(f)
      <3>1. pc'[e] # pc[e] \/ UNCHANGED pc
        BY Zenon DEF HandleStartDpWave, BusyLoop, EnterForward, FinishStep, TypeOK, EngineTypes
      <3> QED BY ZenonT(30), <3>1 DEF EnterForward, TypeOK, EngineTypes
    <2> QED BY <2>1, <2>2, RequestsPreserved, Zenon
  <1>3. \A f \in Engines \ {e} :
           UNCHANGED <<pc[f], engines_running[f], pause_state[f], pending_pause[f],
                       ignore_start_dp_wave[f], idle_callback[f]>>
    BY ZenonT(30) DEF HandleStartDpWave, BusyLoop, EnterForward, FinishStep, TypeOK, EngineTypes
  <1>4. (pc'[e] = "resume") = (pc[e] = "resume")
    BY Zenon DEF HandleStartDpWave, BusyLoop, EnterForward, FinishStep, TypeOK, EngineTypes
  <1>5. CASE HandleStartDpWave(e)
    <2>1. UNCHANGED <<pc, pause_state, pending_pause, ignore_start_dp_wave, idle_callback>>
      BY Zenon, <1>5 DEF HandleStartDpWave
    <2>2. Stopped(e) => engines_running'[e] = engines_running[e]
      BY Zenon, <1>5 DEF HandleStartDpWave, Joins, Stopped, TypeOK, EngineTypes
    <2>3. ~EnterForward(e)
      BY <2>1, Zenon DEF EnterForward, TypeOK, EngineTypes
    <2>4. Stopped(e) => Stopped(e)'
      BY Zenon, <1>2, <2>1, <2>2, <2>3 DEF Stopped
    <2>5. /\ Unaware(e) => Unaware(e)'
          /\ Pausing(e) => Pausing(e)'
          /\ Resumed(e) => Resumed(e)'
      BY Zenon, <2>1 DEF Unaware, Pausing, Resumed
    <2> QED BY Zenon, <1>1, <1>2, <1>3, <1>4, <2>4, <2>5, StageOfOne
  <1>6. CASE EnterForward(e)
    <2>1. UNCHANGED <<pause_state, pending_pause, ignore_start_dp_wave, idle_callback>>
      BY <1>6, Zenon DEF EnterForward
    <2>2. ~Stopped(e)
      BY Zenon, <1>6, StoppedIsIdle DEF EnterForward
    <2>3. /\ Unaware(e) => Unaware(e)'
          /\ Pausing(e) => Pausing(e)'
          /\ Resumed(e) => Resumed(e)'
      BY Zenon, <2>1 DEF Unaware, Pausing, Resumed
    <2> QED BY ZenonT(30), <1>1, <1>2, <1>3, <1>4, <2>2, <2>3, StageOfOne
  <1>7. CASE FinishStep(e)
    <2>1. /\ pc[e] = "synced" /\ pc'[e] = "input" /\ UNCHANGED pause_state
          /\ engines_running'[e] = dp_state[e].unfinished
          /\ ignore_start_dp_wave'[e] = (ignore_start_dp_wave[e] \/ dp_state[e].consensus)
          /\ pending_pause'[e] = (pending_pause[e] /\ ~dp_state[e].consensus)
          /\ idle_callback'[e] = IdleCallback(e)
      BY Zenon, <1>7 DEF FinishStep, TypeOK, EngineTypes
    <2>2. /\ dp_state[e].consensus => pending_pause[e]
          /\ ~dp_state[e].unfinished => /\ ~has_unfinished_requests(e)
                                        /\ pending_pause[e] => dp_state[e].consensus
      BY ZenonT(30), <2>1 DEF SyncedOK
    <2>3. ~EnterForward(e)
      BY ZenonT(30), <2>1 DEF EnterForward
    <2>4. ~Stopped(e)
      BY Zenon, <2>1 DEF Stopped
    <2>5. Unaware(e) => Unaware(e)'
      BY Zenon, <2>1, <2>2 DEF Unaware, IdleCallback
    <2>6. Resumed(e) => Resumed(e)'
      BY ZenonT(30), <2>1, <2>2 DEF Resumed, IdleCallback
    <2>7. ASSUME Pausing(e), dp_state[e].unfinished PROVE Pausing(e)'
      BY Zenon, <2>1, <2>2, <2>7 DEF Pausing, IdleCallback
    <2>8. ASSUME Pausing(e), ~dp_state[e].unfinished PROVE Stopped(e)'
      <3>1. pause_state[e] = "PAUSED_NEW" => Running(e) = {}
        BY Zenon, <2>2, <2>8 DEF has_unfinished_requests
      <3>2. idle_callback'[e] = "resolved" /\ ~engines_running'[e]
        BY <2>1, <2>8, Zenon DEF Pausing, IdleCallback
      <3>3. ~pending_pause'[e] /\ ignore_start_dp_wave'[e]
        BY Zenon, <2>1, <2>2, <2>8 DEF Pausing
      <3> QED BY Zenon, <1>2, <2>1, <2>3, <2>8, <3>1, <3>2, <3>3 DEF Pausing, Stopped
    <2> QED BY ZenonT(30), <1>1, <1>2, <1>3, <1>4, <2>4, <2>5, <2>6, <2>7, <2>8, StageOfOne
  <1> QED BY Zenon, <1>5, <1>6, <1>7 DEF BusyLoop

LEMMA CollectiveStages ==
  ASSUME TypeOK, RequestsOK, PauseOK, Collective
  PROVE  PauseOK'
  <1>1. /\ UNCHANGED <<input, pause>>
        /\ UNCHANGED <<pause_state, pending_pause, ignore_start_dp_wave, idle_callback>>
    BY Zenon DEF Collective, Forward, sync_dp_state, ResumeTogether, clientVars
  <1>2. \A e \in Engines : /\ Unaware(e) => Unaware(e)'
                           /\ Pausing(e) => Pausing(e)'
                           /\ Resumed(e) => Resumed(e)'
    BY Zenon, <1>1 DEF Unaware, Pausing, Resumed
  <1>3. \A e \in Engines : pc[e] # "input" /\ ~Stopped(e)
    BY ZenonT(30) DEF Collective, Forward, sync_dp_state, ResumeTogether, Blocked, Stopped
  <1>4. CASE Forward \/ sync_dp_state
    <2>1. \A e \in Engines : pc[e] # "resume" /\ pc'[e] # "resume"
      BY Zenon, <1>4 DEF Forward, sync_dp_state, Blocked
    <2>2. \A e \in Engines : AtMostOne(input[e], "PAUSE") /\ AtMostOne(input[e], "RESUME")
      BY Zenon DEF PauseOK
    <2> QED BY ZenonT(30), <1>1, <1>2, <1>3, <2>1, <2>2, StagesKept
  <1>5. CASE ResumeTogether
    <2>1. \A e \in Engines : pc[e] = "resume" /\ pc'[e] = "input"
      BY Zenon, <1>5 DEF ResumeTogether, Blocked
    <2>2. 0 \in Engines
      BY EngineFacts, Zenon
    <2>3. pause = "resumed"
      BY Zenon, <2>1, <2>2 DEF PauseOK, TypeOK, ClientTypes
    <2>4. /\ \A e \in Engines : AtMostOne(input[e], "PAUSE") /\ AtMostOne(input[e], "RESUME")
          /\ \A e \in Engines : ~Has(input[e], "PAUSE") /\ ~Has(input[e], "RESUME") /\ Resumed(e)
      BY Zenon, <1>3, <2>1, <2>2, <2>3 DEF PauseOK
    <2>5. \A e \in Engines : Resumed(e)' /\ pc'[e] # "resume"
      BY <1>2, <2>1, <2>4, ZenonT(30)
    <2> QED BY Zenon, <1>1, <2>3, <2>4, <2>5 DEF PauseOK
  <1> QED BY <1>4, <1>5, Zenon DEF Collective

LEMMA PausePreserved ==
  ASSUME TypeOK, RequestsOK, SyncedOK, PauseOK, [Next]_vars
  PROVE  PauseOK'
  BY Zenon, FrontEndStages, QuietStages, HandleClientRequestStages, EngineStepStages, CollectiveStages
  DEF Next

-----------------------------------------------------------------------------
(* The theorems. *)

\* The inductive invariant.
IInv == WInv /\ RequestsOK /\ SyncedOK /\ PauseOK

LEMMA InitIInv == Init => IInv
  <1> SUFFICES ASSUME Init PROVE IInv
    BY Zenon
  <1>1. WInv
    BY Zenon, WavesInit
  <1>2. \A e \in Engines : pc[e] = "input" /\ DOMAIN input[e] = {}
    BY DEF Init
  <1>3. RequestsOK /\ SyncedOK
    BY <1>2, Zenon DEF RequestsOK, SyncedOK
  <1>4. pause = "none" /\ \A e \in Engines : Unaware(e)
    BY Zenon DEF Init, Unaware
  <1>5. PauseOK
    BY Zenon, <1>2, <1>4 DEF PauseOK, Has, AtMostOne
  <1> QED BY <1>1, <1>3, <1>5, Zenon DEF IInv

\* The stages of a pause, as DPEngineCoreProc keeps them on every engine.
THEOREM DataParallelInvariant == Spec => []IInv
  <1>1. Init => IInv
    BY InitIInv, Zenon
  <1>2. IInv /\ WInv' /\ [Next]_vars => IInv'
    <2> SUFFICES ASSUME IInv, WInv', [Next]_vars PROVE IInv'
      BY Zenon
    <2>1. TypeOK /\ LockstepOK /\ RequestsOK /\ SyncedOK /\ PauseOK
      BY Zenon DEF IInv, WInv
    <2>2. RequestsOK'
      BY <2>1, RequestsPreserved, Zenon
    <2>3. SyncedOK'
      BY <2>1, SyncedPreserved, ZenonT(30)
    <2>4. PauseOK'
      BY <2>1, PausePreserved, Zenon
    <2> QED BY <2>2, <2>3, <2>4, Zenon DEF IInv
  <1> QED BY <1>1, <1>2, WavesInvariant, PTL DEF Spec

\* No two engines wait in different collectives, through any pause and resume.
THEOREM DataParallelCollectivesMatch == Spec => []CollectivesMatch
  <1>1. IInv => CollectivesMatch
    <2> SUFFICES ASSUME IInv, NEW e \in Engines, NEW f \in Engines,
                        pc[e] \in {"forward", "sync", "resume"},
                        pc[f] \in {"forward", "sync", "resume"}
                 PROVE  pc[e] = pc[f]
      BY Zenon DEF CollectivesMatch
    <2>1. pc[e] = "sync" \/ pc[f] = "sync" => pc[e] = pc[f]
      BY Zenon DEF IInv, WInv, LockstepOK
    <2>2. ASSUME NEW g \in Engines, NEW h \in Engines, pc[g] = "resume", pc[h] # "input"
          PROVE  pc[h] = "resume"
      BY Zenon, <2>2 DEF IInv, WInv, PauseOK, TypeOK, ClientTypes, Stopped
    <2> QED BY SMTT(30), <2>1, <2>2
  <1> QED BY <1>1, DataParallelInvariant, PTL

\* A resume sent once the pause futures have resolved finds every engine
\* stopped: resume_scheduler neither refuses nor ignores it.
THEOREM DataParallelResumeHonoured == Spec => []ResumeHonoured
  <1>1. IInv => ResumeHonoured
    <2> SUFFICES ASSUME IInv, NEW e \in Engines, pc[e] = "input", input[e] # <<>>,
                        Head(input[e]).type = "RESUME"
                 PROVE  ~pending_pause[e] /\ ~engines_running[e]
      BY Zenon DEF ResumeHonoured
    <2>1. input[e] \in Seq(Message)
      BY Zenon DEF IInv, WInv, TypeOK, ChannelTypes
    <2>2. Has(input[e], "RESUME")
      BY <2>1, HasTail, Zenon
    <2>3. Stopped(e)
      BY Zenon, <2>2 DEF IInv, WInv, PauseOK, TypeOK, ClientTypes
    <2> QED BY Zenon, <2>3 DEF Stopped
  <1> QED BY <1>1, DataParallelInvariant, PTL

\* While a pause is in effect no engine has work or waits in a collective,
\* whatever requests and wake-ups reach it.
THEOREM DataParallelPausedEnginesStop == Spec => []PausedEnginesStop
  <1>1. IInv => PausedEnginesStop
    <2> SUFFICES ASSUME IInv, pause = "pausing", NEW e \in Engines,
                        \A f \in Engines : idle_callback[f] = "resolved"
                 PROVE  pc[e] = "input" /\ ~has_work(e)
      BY ZenonT(30) DEF PausedEnginesStop
    <2>1. Stopped(e)
      BY Zenon DEF IInv, WInv, PauseOK, Unaware, Pausing
    <2> QED BY <2>1, StoppedIsIdle, Zenon DEF IInv, WInv, Stopped
  <1> QED BY <1>1, DataParallelInvariant, PTL

-----------------------------------------------------------------------------
(* Nobody forgets to wake an engine, until the front end pauses. *)

\* The messages in a channel.
Carried(s) == {s[i] : i \in DOMAIN s}

\* Engine e steps in the current wave until an all-reduce ends it.
Runs(e) == IF pc[e] = "synced" THEN dp_state[e].unfinished ELSE engines_running[e]

\* It does, or a START_DP_WAVE is on its way that makes it.
Woken(e) == Runs(e) \/ \E m \in Carried(start[e]) : m.wave = Wave(0) /\ m.exclude # e
Awake == \A e \in Engines : Woken(e)

\* The coordinator has started the current wave, or a FIRST_REQ makes it.
Called ==
    /\ coord_wave = Wave(0)
    /\ coord_running \/ first_reqs # <<>> \/ to_coordinator # <<>>

\* An engine tells the coordinator that it has started the current wave.
IsStart(o) == o.type = "start_wave" /\ o.wave = Wave(0)
Reported == \E e \in Engines : \E o \in Carried(output[e]) : IsStart(o)

\* Some engine takes the others into a forward pass, now or when it steps next.
Active ==
    \/ \E r \in Requests : status[r] \in {"waiting", "running"}
    \/ \E e \in Engines : Runs(e) \/ pc[e] = "forward"

\* Then all engines are woken, or will be; and the same follows from whatever
\* the processes believe of the current wave and say of it.
ActiveOK == Active => Awake \/ Called \/ Reported
CoordOK == coord_running /\ coord_wave = Wave(0) => Awake
ClientOK == client_running /\ client_wave = Wave(0) => Called
PublishOK == \A p \in Carried(publish) : p.running /\ p.wave = Wave(0) => Called
InputOK == \A e \in Engines : \A m \in Carried(input[e]) :
              m.type = "ADD" /\ m.wave = Wave(0) => Called
StartOK == \A e \in Engines : \A m \in Carried(start[e]) : m.wave = Wave(0) => Called
ReportOK == \A e \in Engines : \A o \in Carried(output[e]) : IsStart(o) => Runs(e)

WakeOK ==
    ActiveOK /\ CoordOK /\ ClientOK /\ PublishOK /\ InputOK /\ StartOK /\ ReportOK

\* The front end is never ahead of the coordinator; the identities it sends are
\* no engine's index; a request in progress has an engine.
ViewsOK ==
    /\ client_wave <= coord_wave
    /\ \A p \in Carried(publish) : p.wave <= coord_wave
TargetsOK ==
    /\ \A t \in Carried(first_reqs) : t \notin Engines
    /\ \A m \in Carried(to_coordinator) : m.target \notin Engines
PlacedOK ==
    \A r \in Requests : status[r] \in {"sent", "waiting", "running"} => engine[r] \in Engines

LEMMA CarriedTail ==
  ASSUME NEW S, NEW s \in Seq(S), s # <<>>
  PROVE  /\ Head(s) \in Carried(s) /\ Carried(Tail(s)) \subseteq Carried(s)
         /\ \A x \in Carried(s) : x = Head(s) \/ x \in Carried(Tail(s))
  <1>1. /\ 1 \in DOMAIN s /\ Head(s) = s[1]
        /\ \A i \in DOMAIN Tail(s) : i + 1 \in DOMAIN s /\ Tail(s)[i] = s[i + 1]
        /\ \A i \in DOMAIN s : i # 1 => i - 1 \in DOMAIN Tail(s) /\ Tail(s)[i - 1] = s[i]
    BY TailFacts, ZenonT(30)
  <1>2. Head(s) \in Carried(s)
    BY <1>1, Zenon DEF Carried
  <1>3. Carried(Tail(s)) \subseteq Carried(s)
    <2>1. \A i \in DOMAIN Tail(s) : Tail(s)[i] \in Carried(s)
      BY <1>1, Zenon DEF Carried
    <2> QED BY <2>1, Zenon DEF Carried
  <1>4. \A x \in Carried(s) : x = Head(s) \/ x \in Carried(Tail(s))
    <2>1. \A i \in DOMAIN s : s[i] = Head(s) \/ s[i] \in Carried(Tail(s))
      BY <1>1, Zenon DEF Carried
    <2> QED BY <2>1, Zenon DEF Carried
  <1> QED BY <1>2, <1>3, <1>4, Zenon

LEMMA AppendNotEmpty ==
  ASSUME NEW S, NEW s \in Seq(S), NEW x \in S
  PROVE  Append(s, x) # <<>>
  <1>1. Len(Append(s, x)) = Len(s) + 1 /\ Len(s) \in Nat
    OBVIOUS
  <1> QED BY SMTT(30), <1>1

LEMMA CarriedAppend ==
  ASSUME NEW S, NEW s \in Seq(S), NEW x \in S
  PROVE  Carried(Append(s, x)) = Carried(s) \cup {x} /\ Append(s, x) # <<>>
  <1>1. /\ Len(s) + 1 \in DOMAIN Append(s, x) /\ Append(s, x)[Len(s) + 1] = x
        /\ \A i \in DOMAIN s : i \in DOMAIN Append(s, x) /\ Append(s, x)[i] = s[i]
        /\ \A i \in DOMAIN Append(s, x) : i \in DOMAIN s \/ i = Len(s) + 1
    BY AppendFacts, Zenon
  <1>2. Append(s, x) # <<>>
    BY <1>1
  <1> QED BY <1>1, <1>2, ZenonT(30) DEF Carried

LEMMA CarriedType ==
  ASSUME NEW S, NEW s \in Seq(S), NEW x \in Carried(s)
  PROVE  x \in S
  BY ElementFact, Zenon DEF Carried

\* What is not touched stays woken, called and reported.
LEMMA WakeUnchanged ==
  ASSUME Wave(0)' = Wave(0), \A e \in Engines : Runs(e) => Runs(e)'
  PROVE  /\ UNCHANGED start => (Awake => Awake')
         /\ UNCHANGED output => (Reported => Reported')
         /\ UNCHANGED <<coord_wave, coord_running, first_reqs, to_coordinator>> =>
               (Called => Called')
  <1>1. UNCHANGED start => (Awake => Awake')
    BY Zenon DEF Awake, Woken
  <1>2. UNCHANGED output => (Reported => Reported')
    BY ZenonT(30) DEF Reported, IsStart
  <1>3. UNCHANGED <<coord_wave, coord_running, first_reqs, to_coordinator>> =>
           (Called => Called')
    BY SMTT(30) DEF Called
  <1> QED BY <1>1, <1>2, <1>3, Zenon

\* ... and so does what follows from it.
LEMMA WakeKept ==
  ASSUME WakeOK, Wave(0)' = Wave(0), Called => Called'
  PROVE  /\ (Active' => Active) /\ (Awake => Awake') /\ (Reported => (Reported \/ Awake \/ Called)')
               => ActiveOK'
         /\ UNCHANGED <<coord_wave, coord_running>> /\ (Awake => Awake') => CoordOK'
         /\ UNCHANGED <<client_wave, client_running>> => ClientOK'
         /\ UNCHANGED publish => PublishOK'
         /\ UNCHANGED input => InputOK'
         /\ UNCHANGED start => StartOK'
         /\ UNCHANGED output /\ (\A e \in Engines : Runs(e) => Runs(e)') => ReportOK'
  <1>1. (Active' => Active) /\ (Awake => Awake') /\ (Reported => (Reported \/ Awake \/ Called)')
           => ActiveOK'
    BY Zenon DEF WakeOK, ActiveOK
  <1>2. UNCHANGED <<coord_wave, coord_running>> /\ (Awake => Awake') => CoordOK'
    BY Zenon DEF WakeOK, CoordOK
  <1>3. UNCHANGED <<client_wave, client_running>> => ClientOK'
    BY Zenon DEF WakeOK, ClientOK
  <1>4. UNCHANGED publish => PublishOK'
    BY Zenon DEF WakeOK, PublishOK
  <1>5. UNCHANGED input => InputOK'
    BY Zenon DEF WakeOK, InputOK
  <1>6. UNCHANGED output /\ (\A e \in Engines : Runs(e) => Runs(e)') => ReportOK'
    BY Zenon DEF WakeOK, ReportOK, IsStart
  <1>7. UNCHANGED start => StartOK'
    BY Zenon DEF WakeOK, StartOK
  <1> QED BY <1>1, <1>2, <1>3, <1>4, <1>5, <1>6, <1>7, Zenon

\* What the coordinator publishes is published once more.
LEMMA PublishCarries ==
  ASSUME TypeOK, NEW w \in Nat, NEW b \in BOOLEAN
  PROVE  \A p \in Carried(Published(w, b)) :
            p \in Carried(publish) \/ (p.wave = w /\ p.running = b)
  <1> DEFINE q == [wave |-> w, running |-> b]
             Q == [wave : Nat, running : BOOLEAN]
  <1>1. publish \in Seq(Q) /\ q \in Q
    BY Zenon DEF TypeOK, ChannelTypes
  <1>2. q.wave = w /\ q.running = b /\ Published(w, b) = Append(publish, q)
    BY ZenonT(30) DEF Published
  <1> HIDE DEF q, Q
  <1>3. Carried(Append(publish, q)) = Carried(publish) \cup {q}
    BY SMTT(30), <1>1, CarriedAppend
  <1> QED BY <1>2, <1>3, Zenon

\* The front end knows of waves what the coordinator has published.
LEMMA ViewsPreserved ==
  ASSUME TypeOK, ViewsOK, [Next]_vars
  PROVE  ViewsOK'
  <1>0. /\ publish \in Seq([wave : Nat, running : BOOLEAN]) /\ coord_wave \in Nat
        /\ \A p \in Carried(publish) : p.wave \in Nat /\ p.wave <= coord_wave
        /\ client_wave \in Nat /\ client_wave <= coord_wave
    <2>1. publish \in Seq([wave : Nat, running : BOOLEAN])
      BY Zenon DEF TypeOK, ChannelTypes
    <2>2. \A p \in Carried(publish) : p \in [wave : Nat, running : BOOLEAN]
      BY <2>1, CarriedType, Zenon
    <2>3. \A p \in Carried(publish) : p.wave \in Nat
      BY SMTT(30), <2>2
    <2> QED BY <2>1, <2>3, ZenonT(30) DEF TypeOK, ClientTypes, ViewsOK
  <1>1. ASSUME NEW w \in Nat, NEW b \in BOOLEAN, coord_wave <= w, coord_wave' = w,
               publish' = publish \/ publish' = Published(w, b), client_wave' = client_wave
        PROVE  ViewsOK'
    <2>3. \A p \in Carried(publish') : p \in Carried(publish) \/ p.wave = w
      BY <1>1, PublishCarries, Zenon
    <2>4. \A p \in Carried(publish) : p.wave <= w
      BY SMTT(30), <1>0, <1>1
    <2>5. \A p \in Carried(publish') : p.wave <= coord_wave'
      BY SMTT(30), <1>1, <2>3, <2>4
    <2>6. client_wave' <= coord_wave'
      BY <1>0, <1>1
    <2> QED BY <2>5, <2>6, Zenon DEF ViewsOK
  <1>2. CASE UNCHANGED <<client_wave, coord_wave, publish>>
    BY <1>2, ZenonT(30) DEF ViewsOK
  <1>3. CASE UpdateStats
    <2>1. /\ publish # <<>> /\ publish' = Tail(publish) /\ coord_wave' = coord_wave
          /\ client_wave' = Head(publish).wave
      BY <1>3, Zenon DEF UpdateStats, coordVars
    <2> QED BY <1>0, <2>1, CarriedTail, Zenon DEF ViewsOK
  <1>4. CASE FrontMessage
    <2>1. /\ coord_wave' = coord_wave /\ client_wave' = client_wave /\ TRUE \in BOOLEAN
          /\ publish' = publish \/ publish' = Published(coord_wave, TRUE)
      BY <1>4, Zenon DEF FrontMessage, clientVars
    <2>2. coord_wave <= coord_wave
      BY <1>0
    <2> QED BY <1>0, <1>1, <2>1, <2>2, ZenonT(30)
  <1>5. CASE PublishStats
    <2>1. /\ coord_wave' = coord_wave /\ client_wave' = client_wave /\ coord_running \in BOOLEAN
          /\ publish' = Published(coord_wave, coord_running)
      BY <1>5, Zenon DEF PublishStats, clientVars, coordVars, TypeOK, ClientTypes
    <2>2. coord_wave <= coord_wave
      BY <1>0
    <2> QED BY <1>0, <1>1, <2>1, <2>2, ZenonT(30)
  <1>6. ASSUME NEW e \in Engines, WaveComplete(e) \/ StartWave(e) PROVE ViewsOK'
    <2>1. output[e] # <<>> /\ output[e] \in Seq(Output) /\ client_wave' = client_wave
      BY <1>6, Zenon DEF WaveComplete, StartWave, clientVars, TypeOK, ChannelTypes
    <2> DEFINE w == Head(output[e]).wave
    <2>2. w \in Nat
      <3>1. Head(output[e]) \in Output
        BY <2>1, TailFacts, Zenon
      <3> QED BY <3>1, Zenon DEF Output
    <2>3. \/ UNCHANGED <<coord_wave, publish>>
          \/ /\ coord_wave <= w
             /\ coord_wave' = WaveAfter(w) /\ publish' = Published(WaveAfter(w), FALSE)
          \/ IsNewWave(w) /\ coord_wave' = w /\ publish' = Published(w, TRUE)
      BY <1>6, Zenon DEF WaveComplete, StartWave, coordVars
    <2> HIDE DEF w
    <2>4. /\ IsNewWave(w) => coord_wave <= w
          /\ coord_wave <= w => coord_wave <= WaveAfter(w)
          /\ WaveAfter(w) \in Nat
      BY <1>0, <2>2 DEF IsNewWave, WaveAfter
    <2>5. TRUE \in BOOLEAN /\ FALSE \in BOOLEAN
      BY ZenonT(30)
    <2> QED BY <1>1, <1>2, <2>1, <2>2, <2>3, <2>4, <2>5, ZenonT(30)
  <1>7. \/ UNCHANGED <<client_wave, coord_wave, publish>> \/ UpdateStats \/ FrontMessage
        \/ PublishStats \/ \E e \in Engines : WaveComplete(e) \/ StartWave(e)
    BY ZenonT(30) DEF Next, vars, FrontEnd, add_request_async, abort_requests_async, pause_generation,
         resume_generation, StatsTask, ForwardFirstReq, Coordinator, EagerAbort, Receive,
         HandleClientRequest, add_request, abort_requests, pause_scheduler, resume_scheduler,
         HandleStartDpWave, BusyLoop, EnterForward, FinishStep, Collective, Forward, sync_dp_state,
         ResumeTogether, clientVars, coordVars
  <1> QED BY <1>2, <1>3, <1>4, <1>5, <1>6, <1>7, Zenon

\* A front end names an engine by its identity, never by its index.
LEMMA TargetsPreserved ==
  ASSUME TypeOK, TargetsOK, [Next]_vars
  PROVE  TargetsOK'
  <1>0. first_reqs \in Seq(Int) /\ to_coordinator \in Seq([target : Int, wave : Nat])
    BY Zenon DEF TypeOK, ChannelTypes, ClientTypes
  <1>1. CASE UNCHANGED <<first_reqs, to_coordinator>>
    BY <1>1, Zenon DEF TargetsOK
  <1>2. ASSUME NEW r \in Requests, NEW e \in Engines, add_request_async(r, e) PROVE TargetsOK'
    <2>1. Identity(e) \in Int /\ Identity(e) \notin Engines
      BY DPAssumption DEF Identity, Engines
    <2>2. Carried(Append(first_reqs, Identity(e))) = Carried(first_reqs) \cup {Identity(e)}
      BY <1>0, <2>1, CarriedAppend, ZenonT(30)
    <2>3. /\ first_reqs' = first_reqs \/ first_reqs' = Append(first_reqs, Identity(e))
          /\ to_coordinator' = to_coordinator
      BY <1>2, Zenon DEF add_request_async
    <2>4. \A t \in Carried(first_reqs') : t \in Carried(first_reqs) \/ t = Identity(e)
      BY <2>2, <2>3, Zenon
    <2> QED BY <2>1, <2>3, <2>4, Zenon DEF TargetsOK
  <1>3. CASE ForwardFirstReq
    <2> DEFINE m == [target |-> Head(first_reqs), wave |-> client_wave]
               M == [target : Int, wave : Nat]
    <2>1. /\ first_reqs # <<>> /\ first_reqs' = Tail(first_reqs) /\ to_coordinator \in Seq(M)
          /\ to_coordinator' = Append(to_coordinator, m)
      BY <1>0, <1>3, Zenon DEF ForwardFirstReq
    <2>2. /\ Head(first_reqs) \in Carried(first_reqs)
          /\ Carried(Tail(first_reqs)) \subseteq Carried(first_reqs)
      BY <1>0, <2>1, CarriedTail, Zenon
    <2>3. m \in M /\ m.target \notin Engines
      BY <1>0, <2>2, CarriedType, Zenon DEF TargetsOK, TypeOK, ClientTypes
    <2> HIDE DEF m, M
    <2>4. Carried(to_coordinator') = Carried(to_coordinator) \cup {m}
      BY <2>1, <2>3, CarriedAppend, ZenonT(30)
    <2> QED BY <2>1, <2>2, <2>3, <2>4, Zenon DEF TargetsOK
  <1>4. CASE FrontMessage
    <2>1. /\ to_coordinator # <<>> /\ to_coordinator' = Tail(to_coordinator)
          /\ first_reqs' = first_reqs
      BY <1>4, Zenon DEF FrontMessage, clientVars
    <2>2. Carried(Tail(to_coordinator)) \subseteq Carried(to_coordinator)
      BY <1>0, <2>1, CarriedTail, Zenon
    <2> QED BY <2>1, <2>2, Zenon DEF TargetsOK
  <1>5. \/ UNCHANGED <<first_reqs, to_coordinator>> \/ ForwardFirstReq \/ FrontMessage
        \/ \E r \in Requests, e \in Engines : add_request_async(r, e)
    BY ZenonT(30) DEF Next, vars, FrontEnd, abort_requests_async, pause_generation,
         resume_generation, StatsTask, UpdateStats, Coordinator, WaveComplete, StartWave,
         PublishStats, EagerAbort, Receive, HandleClientRequest, add_request, abort_requests,
         pause_scheduler, resume_scheduler, HandleStartDpWave, BusyLoop, EnterForward, FinishStep,
         Collective, Forward, sync_dp_state, ResumeTogether, clientVars
  <1> QED BY <1>1, <1>2, <1>3, <1>4, <1>5, Zenon

\* Requests in progress are those that were, and the one an engine receives.
LEMMA FinishKeeps ==
  ASSUME NEW R, NEW how \in {"finished", "aborted"}, Finish(R, how)
  PROVE  \A r \in Requests :
            status'[r] \in {"sent", "waiting", "running"} =>
                status'[r] = status[r] /\ engine'[r] = engine[r]
  BY Zenon DEF Finish

LEMMA PlacedPreserved ==
  ASSUME TypeOK, RequestsOK, PlacedOK, [Next]_vars
  PROVE  PlacedOK'
  <1>1. CASE UNCHANGED <<status, engine>>
    BY <1>1, Zenon DEF PlacedOK
  <1>2. ASSUME NEW R, NEW how \in {"finished", "aborted"}, Finish(R, how) PROVE PlacedOK'
    BY <1>2, FinishKeeps, Zenon DEF PlacedOK
  <1>3. ASSUME NEW r \in Requests, NEW e \in Engines, add_request_async(r, e) PROVE PlacedOK'
    BY <1>3, Zenon DEF PlacedOK, add_request_async, TypeOK, RequestTypes
  <1>4. ASSUME NEW e \in Engines, add_request(e) PROVE PlacedOK'
    <2>1. /\ input[e] \in Seq(Message) /\ input[e] # <<>> /\ Head(input[e]).type = "ADD"
          /\ status' = [status EXCEPT ![Head(input[e]).request] = "waiting"]
          /\ engine' = engine
      BY <1>4, Zenon DEF add_request, Receive, TypeOK, ChannelTypes
    <2>2. 1 \in DOMAIN input[e] /\ Head(input[e]) = input[e][1]
      BY <2>1, TailFacts, Zenon
    <2>3. engine[Head(input[e]).request] = e
      <3>1. input[e][1].type = "ADD"
        BY <2>1, <2>2, Zenon
      <3>2. engine[input[e][1].request] = e
        BY <2>2, <3>1, Zenon DEF RequestsOK
      <3> QED BY <2>2, <3>2, Zenon
    <2> QED BY <2>1, <2>3, Zenon DEF PlacedOK, TypeOK, RequestTypes
  <1>5. ASSUME NEW e \in Engines, EnterForward(e) PROVE PlacedOK'
    BY <1>5, Zenon DEF PlacedOK, EnterForward, Waiting
  <1>6. Forward => \E R : Finish(R, "finished")
    BY Zenon DEF Forward
  <1>7. ASSUME NEW e \in Engines, abort_requests(e) \/ pause_scheduler(e) \/ EagerAbort(e)
        PROVE  \E R : Finish(R, "aborted")
    BY <1>7, Zenon DEF abort_requests, pause_scheduler, EagerAbort
  <1>8. \/ UNCHANGED <<status, engine>> \/ Forward
        \/ \E r \in Requests, e \in Engines : add_request_async(r, e)
        \/ \E e \in Engines : add_request(e) \/ EnterForward(e) \/ abort_requests(e)
                              \/ pause_scheduler(e) \/ EagerAbort(e)
    BY ZenonT(30) DEF Next, vars, FrontEnd, abort_requests_async, pause_generation,
         resume_generation, StatsTask, ForwardFirstReq, UpdateStats, Coordinator, FrontMessage,
         WaveComplete, StartWave, PublishStats, HandleClientRequest, resume_scheduler,
         HandleStartDpWave, BusyLoop, FinishStep, Collective, sync_dp_state, ResumeTogether,
         requestVars
  <1> QED BY <1>1, <1>2, <1>3, <1>4, <1>5, <1>6, <1>7, <1>8, Zenon

\* One message more at the end of an engine's input.
LEMMA InputCarries ==
  ASSUME TypeOK, NEW e \in Engines, NEW m \in Message, input' = [input EXCEPT ![e] = Append(@, m)]
  PROVE  \A f \in Engines : \A x \in Carried(input'[f]) : x \in Carried(input[f]) \/ x = m
  <1>1. input[e] \in Seq(Message) /\ input \in [Engines -> Seq(Message)]
    BY Zenon DEF TypeOK, ChannelTypes
  <1>2. Carried(Append(input[e], m)) = Carried(input[e]) \cup {m}
    BY <1>1, CarriedAppend
  <1>3. \A f \in Engines : input'[f] = IF f = e THEN Append(input[e], m) ELSE input[f]
    BY <1>1, Zenon
  <1> QED BY <1>2, <1>3, Zenon

\* The coordinator is not behind a front end that is in the current wave.
LEMMA CoordinatorKnows ==
  ASSUME TypeOK, WavesOK, ViewsOK
  PROVE  /\ client_wave = Wave(0) => coord_wave = Wave(0)
         /\ \A p \in Carried(publish) : p.wave = Wave(0) => coord_wave = Wave(0)
  <1>1. /\ client_wave \in Nat /\ coord_wave \in Nat /\ Wave(0) \in Nat
        /\ client_wave <= coord_wave /\ coord_wave <= Wave(0)
        /\ \A p \in Carried(publish) : p.wave <= coord_wave
    BY WaveIsNat, EngineFacts, Zenon
    DEF TypeOK, ClientTypes, ViewsOK, WavesOK, ViewWaves, Bounded
  <1>2. \A w \in {Wave(0)} : w <= coord_wave => coord_wave = Wave(0)
    BY SMTT(30), <1>1
  <1> QED BY <1>1, <1>2, ZenonT(30)

LEMMA FrontEndWakes ==
  ASSUME TypeOK, WavesOK, ViewsOK, WakeOK, FrontEnd \/ StatsTask, pause' = "none"
  PROVE  WakeOK'
  <1>1. UNCHANGED <<engineVars, coordVars, start, output>>
    BY Zenon DEF FrontEnd, StatsTask, add_request_async, abort_requests_async, pause_generation,
           resume_generation, ForwardFirstReq, UpdateStats
  <1>2. Wave(0)' = Wave(0)
    BY FrontEndWaves, EngineFacts, Zenon
  <1>3. \A e \in Engines : Runs(e)' = Runs(e) /\ pc'[e] = pc[e]
    BY <1>1, ZenonT(30) DEF Runs, engineVars
  <1>4. (Awake => Awake') /\ (Reported => Reported')
    BY <1>1, <1>2, <1>3, WakeUnchanged, ZenonT(30)
  <1>5. ASSUME \A r \in Requests : status'[r] \in {"waiting", "running"} => status'[r] = status[r]
        PROVE  Active' => Active
    BY <1>3, <1>5, Zenon DEF Active
  <1>6. CASE \E r \in Requests, e \in Engines : add_request_async(r, e)
    <2>1. PICK r \in Requests, e \in Engines : add_request_async(r, e)
      BY <1>6, Zenon
    <2>2. Active' => Active
      <3>1. \A q \in Requests : status'[q] \in {"waiting", "running"} => status'[q] = status[q]
        BY <2>1, ZenonT(30) DEF add_request_async, TypeOK, RequestTypes
      <3> QED BY <1>5, <3>1, Zenon
    <2>3. /\ client_running => first_reqs' = first_reqs
          /\ ~client_running => first_reqs' # <<>>
      <3>1. first_reqs \in Seq(Int) /\ Identity(e) \in Int
        BY SMTT(30), DPAssumption DEF TypeOK, ClientTypes, Identity, Engines
      <3>2. Append(first_reqs, Identity(e)) # <<>>
        BY SMTT(30), <3>1, CarriedAppend
      <3> QED BY <2>1, <3>2, ZenonT(30) DEF add_request_async
    <2>4. UNCHANGED <<coord_wave, coord_running, to_coordinator>>
      BY <1>1, <2>1, Zenon DEF add_request_async, coordVars
    <2>5. Called => Called'
      BY <1>2, <2>3, <2>4, Zenon DEF Called
    <2>6. client_wave = Wave(0) => Called'
      <3>1. CASE client_running
        BY <2>5, <3>1, Zenon DEF WakeOK, ClientOK
      <3>2. CASE ~client_running
        BY <1>2, <2>3, <2>4, <3>2, CoordinatorKnows, Zenon DEF Called
      <3> QED BY <3>1, <3>2, ZenonT(30)
    <2>7. InputOK'
      <3> DEFINE m == [type |-> "ADD", request |-> r, wave |-> client_wave]
      <3>1. m \in Message /\ m.wave = client_wave
        BY Zenon, NewMessages DEF TypeOK, ClientTypes
      <3>2. input' = [input EXCEPT ![e] = Append(@, m)]
        BY <2>1, Zenon DEF add_request_async
      <3> HIDE DEF m
      <3>3. \A f \in Engines : \A x \in Carried(input'[f]) : x \in Carried(input[f]) \/ x = m
        BY <3>1, <3>2, InputCarries, ZenonT(30)
      <3> QED BY <1>2, <2>5, <2>6, <3>1, <3>3, ZenonT(30) DEF WakeOK, InputOK
    <2>8. UNCHANGED <<client_wave, client_running, publish>>
      BY <2>1, ZenonT(30) DEF add_request_async
    <2> QED BY <1>1, <1>2, <1>3, <1>4, <2>2, <2>5, <2>7, <2>8, WakeKept, ZenonT(30) DEF WakeOK, coordVars
  <1>7. CASE \E r \in Requests : abort_requests_async(r)
    <2>1. PICK r \in Requests : abort_requests_async(r)
      BY <1>7, ZenonT(30)
    <2>2. UNCHANGED <<status, first_reqs, to_coordinator, client_wave, client_running, publish>>
      BY <2>1, Zenon DEF abort_requests_async, requestVars
    <2>3. Called => Called'
      BY <1>1, <1>2, <1>3, <2>2, WakeUnchanged, Zenon DEF coordVars
    <2>4. InputOK'
      <3> DEFINE m == [type |-> "ABORT", request |-> r]
      <3>1. m \in Message /\ m.type # "ADD"
        BY Zenon, NewMessages
      <3>2. input' = [input EXCEPT ![engine[r]] = Append(@, m)]
        BY <2>1, Zenon DEF abort_requests_async
      <3> HIDE DEF m
      <3>3. \A f \in Engines : input'[f] = input[f] \/ f = engine[r]
        BY <3>2, ZenonT(30) DEF TypeOK, ChannelTypes
      <3>4. \A f \in Engines : \A x \in Carried(input'[f]) : x \in Carried(input[f]) \/ x = m
        BY <3>1, <3>2, <3>3, InputCarries, ZenonT(30)
      <3> QED BY <1>2, <2>3, <3>1, <3>4, ZenonT(30) DEF WakeOK, InputOK
    <2>5. Active' => Active
      BY <1>5, <2>2, Zenon
    <2> QED BY <1>1, <1>2, <1>3, <1>4, <2>2, <2>3, <2>4, <2>5, WakeKept, Zenon DEF WakeOK, coordVars
  <1>8. CASE ForwardFirstReq
    <2>1. /\ client_running' = TRUE /\ UNCHANGED <<status, client_wave, input, publish>>
          /\ UNCHANGED <<coord_wave, coord_running>>
      BY <1>8, ZenonT(30) DEF ForwardFirstReq, requestVars, coordVars
    <2>2. to_coordinator' # <<>>
      <3> DEFINE m == [target |-> Head(first_reqs), wave |-> client_wave]
      <3>1. to_coordinator' = Append(to_coordinator, m) /\ first_reqs # <<>>
        BY <1>8, ZenonT(30) DEF ForwardFirstReq
      <3> DEFINE S == [target : Int, wave : Nat]
      <3>2. to_coordinator \in Seq(S)
        BY Zenon DEF TypeOK, ChannelTypes
      <3>3. m \in S
        BY <3>1, TailFacts, Zenon DEF TypeOK, ClientTypes
      <3> HIDE DEF m, S
      <3> QED BY <3>1, <3>2, <3>3, AppendNotEmpty, Zenon
    <2>3. Called => Called'
      BY <1>2, <2>1, <2>2, ZenonT(30) DEF Called
    <2>4. ClientOK'
      BY <1>2, <2>1, <2>2, CoordinatorKnows, Zenon DEF ClientOK, Called
    <2>5. Active' => Active
      BY <1>5, <2>1, Zenon
    <2> QED BY <1>1, <1>2, <1>3, <1>4, <2>1, <2>3, <2>4, <2>5, WakeKept, ZenonT(30) DEF WakeOK
  <1>9. CASE UpdateStats
    <2>1. /\ publish # <<>> /\ publish' = Tail(publish)
          /\ client_wave' = Head(publish).wave /\ client_running' = Head(publish).running
          /\ UNCHANGED <<status, input, first_reqs, to_coordinator, coord_wave, coord_running>>
      BY <1>9, Zenon DEF UpdateStats, requestVars, coordVars
    <2>2. Called => Called'
      BY <1>2, <1>3, <2>1, WakeUnchanged, Zenon
    <2>3. Head(publish) \in Carried(publish) /\ Carried(Tail(publish)) \subseteq Carried(publish)
      BY <2>1, CarriedTail, ZenonT(30) DEF TypeOK, ChannelTypes
    <2>4. ClientOK'
      BY <1>2, <2>1, <2>2, <2>3, ZenonT(30) DEF WakeOK, PublishOK, ClientOK
    <2>5. PublishOK'
      BY <1>2, <2>1, <2>2, <2>3, Zenon DEF WakeOK, PublishOK
    <2>6. Active' => Active
      BY <1>5, <2>1, ZenonT(30)
    <2> QED BY <1>1, <1>2, <1>3, <1>4, <2>1, <2>2, <2>4, <2>5, <2>6, WakeKept, ZenonT(30) DEF WakeOK
  <1>10. ~(\E mode \in PauseModes : pause_generation(mode)) /\ ~resume_generation
    BY Zenon DEF pause_generation, resume_generation
  <1> QED BY <1>6, <1>7, <1>8, <1>9, <1>10, ZenonT(30) DEF FrontEnd, StatsTask

\* A START_DP_WAVE for all engines wakes those it does not leave out.
LEMMA StartWakes ==
  ASSUME TypeOK, Wave(0)' = Wave(0), \A e \in Engines : Runs(e) => Runs(e)',
         NEW m \in StartMessage, start' = [e \in Engines |-> Append(start[e], m)]
  PROVE  /\ Awake => Awake'
         /\ m.wave = Wave(0) /\ (\A e \in Engines : m.exclude = e => Runs(e)) => Awake'
         /\ \A e \in Engines : \A x \in Carried(start'[e]) : x \in Carried(start[e]) \/ x = m
  <1>1. \A e \in Engines : start[e] \in Seq(StartMessage)
    BY Zenon DEF TypeOK, ChannelTypes
  <1>2. \A e \in Engines : Carried(Append(start[e], m)) = Carried(start[e]) \cup {m}
    BY SMTT(30), <1>1, CarriedAppend
  <1>3. \A e \in Engines : m \in Carried(start'[e]) /\ Carried(start[e]) \subseteq Carried(start'[e])
    BY <1>2, Zenon
  <1>4. \A e \in Engines : \A x \in Carried(start'[e]) : x \in Carried(start[e]) \/ x = m
    BY <1>2, Zenon
  <1>5. Awake => Awake'
    BY <1>3, Zenon DEF Awake, Woken
  <1>6. m.wave = Wave(0) /\ (\A e \in Engines : m.exclude = e => Runs(e)) => Awake'
    BY <1>3, Zenon DEF Awake, Woken
  <1> QED BY <1>4, <1>5, <1>6, Zenon

\* The coordinator takes the first message of an engine.
LEMMA OutputCarries ==
  ASSUME TypeOK, NEW e \in Engines, output[e] # <<>>, output' = [output EXCEPT ![e] = Tail(@)]
  PROVE  /\ Head(output[e]) \in Output /\ Head(output[e]) \in Carried(output[e])
         /\ \A f \in Engines :
               /\ Carried(output'[f]) \subseteq Carried(output[f])
               /\ \A o \in Carried(output[f]) : o \in Carried(output'[f]) \/ o = Head(output[e])
  <1>1. output \in [Engines -> Seq(Output)] /\ output[e] \in Seq(Output)
    BY Zenon DEF TypeOK, ChannelTypes
  <1>2. /\ Head(output[e]) \in Output /\ Head(output[e]) \in Carried(output[e])
        /\ Carried(Tail(output[e])) \subseteq Carried(output[e])
        /\ \A o \in Carried(output[e]) : o = Head(output[e]) \/ o \in Carried(Tail(output[e]))
    BY <1>1, TailFacts, CarriedTail, Zenon
  <1>3. \A f \in Engines : output'[f] = IF f = e THEN Tail(output[e]) ELSE output[f]
    BY <1>1, ZenonT(30)
  <1> QED BY <1>2, <1>3, ZenonT(30)

LEMMA CoordinatorWakes ==
  ASSUME TypeOK, WavesOK, ViewsOK, TargetsOK, WakeOK, Coordinator \/ PublishStats
  PROVE  WakeOK'
  <1>1. UNCHANGED <<engineVars, status, first_reqs, client_wave, client_running, input>>
    BY Zenon DEF Coordinator, FrontMessage, WaveComplete, StartWave, PublishStats, requestVars,
                 clientVars
  <1>2. Wave(0)' = Wave(0)
    BY CoordinatorWaves, EngineFacts, ZenonT(30)
  <1>3. \A e \in Engines : Runs(e)' = Runs(e) /\ pc'[e] = pc[e]
    BY <1>1, Zenon DEF Runs, engineVars
  <1>4. Active' => Active
    BY <1>1, <1>3, Zenon DEF Active
  <1>5. /\ UNCHANGED start => (Awake => Awake')
        /\ UNCHANGED output => (Reported => Reported')
    BY <1>2, <1>3, WakeUnchanged, ZenonT(30)
  <1>6. Wave(0) \in Nat /\ coord_wave \in Nat /\ coord_wave <= Wave(0)
    BY WaveIsNat, EngineFacts, Zenon DEF TypeOK, ClientTypes, WavesOK, ViewWaves, Bounded
  <1>7. CASE FrontMessage
    <2>1. /\ to_coordinator # <<>> /\ coord_wave' = coord_wave /\ UNCHANGED output
          /\ coord_running => UNCHANGED <<coord_running, start, publish>>
          /\ ~coord_running => /\ coord_running' = TRUE
                               /\ SendStartWave(coord_wave, Excluded(Head(to_coordinator)))
                               /\ publish' = Published(coord_wave, TRUE)
      BY <1>7, Zenon DEF FrontMessage
    <2>2. coord_running'
      <3>1. CASE coord_running
        <4>1. coord_running' = coord_running
          BY <2>1, <3>1, Zenon
        <4> QED BY <3>1, <4>1, Zenon
      <3>2. CASE ~coord_running
        <4>1. coord_running' = TRUE
          BY <2>1, <3>2, ZenonT(30)
        <4> QED BY <4>1, Zenon
      <3> QED BY <3>1, <3>2, Zenon
    <2>3. Called => Called'
      BY <1>2, <2>1, <2>2, ZenonT(30) DEF Called
    <2>4. CASE coord_running
      BY <1>1, <1>2, <1>3, <1>4, <1>5, <2>1, <2>3, <2>4, WakeKept, ZenonT(30) DEF WakeOK
    <2>5. CASE ~coord_running
      <3> DEFINE m == [wave |-> coord_wave, exclude |-> Excluded(Head(to_coordinator))]
      <3>1. Excluded(Head(to_coordinator)) \in Int /\ Excluded(Head(to_coordinator)) \notin Engines
        <4>1. /\ Head(to_coordinator) \in [target : Int, wave : Nat]
              /\ Head(to_coordinator) \in Carried(to_coordinator)
          BY <2>1, TailFacts, CarriedTail, Zenon DEF TypeOK, ChannelTypes
        <4>2. Head(to_coordinator).target \in Int /\ Head(to_coordinator).target \notin Engines
          BY <4>1, Zenon DEF TargetsOK
        <4>3. None \in Int /\ None \notin Engines
          BY SMTT(30), EngineFacts DEF None
        <4> QED BY <4>2, <4>3, ZenonT(30) DEF Excluded
      <3>2. /\ m \in StartMessage /\ m.wave = coord_wave /\ m.exclude \notin Engines
            /\ start' = [e \in Engines |-> Append(start[e], m)]
        BY <1>6, <2>1, <2>5, <3>1, ZenonT(30) DEF StartMessage, SendStartWave
      <3> HIDE DEF m
      <3>3. (Awake => Awake') /\ (m.wave = Wave(0) => Awake')
        BY <1>2, <1>3, <3>2, StartWakes, ZenonT(30)
      <3>7. StartOK'
        <4>1. \A e \in Engines : \A x \in Carried(start'[e]) : x \in Carried(start[e]) \/ x = m
          BY <1>2, <1>3, <3>2, StartWakes, ZenonT(30)
        <4>2. coord_wave = Wave(0) => Called'
          BY <1>2, <2>1, <2>2, Zenon DEF Called
        <4> QED BY <1>2, <2>3, <3>2, <4>1, <4>2, ZenonT(30) DEF WakeOK, StartOK
      <3>4. CoordOK'
        BY <1>2, <2>1, <3>2, <3>3, ZenonT(30) DEF CoordOK
      <3>5. \A p \in Carried(publish') : p \in Carried(publish) \/ p.wave = coord_wave
        BY <1>6, <2>1, <2>5, PublishCarries, ZenonT(30)
      <3>6. PublishOK'
        BY <1>2, <2>1, <2>2, <2>3, <3>5, ZenonT(30) DEF WakeOK, PublishOK, Called
      <3> QED BY <1>1, <1>2, <1>3, <1>4, <1>5, <2>1, <2>3, <3>3, <3>4, <3>6, <3>7, WakeKept,
                 ZenonT(30) DEF WakeOK
    <2> QED BY <2>4, <2>5, Zenon
  <1>8. CASE \E e \in Engines : WaveComplete(e)
    <2>1. PICK e \in Engines : WaveComplete(e)
      BY <1>8, Zenon
    <2> DEFINE w == Head(output[e]).wave
    <2>2. /\ output[e] # <<>> /\ Head(output[e]).type = "wave_complete"
          /\ output' = [output EXCEPT ![e] = Tail(@)] /\ UNCHANGED <<start, to_coordinator>>
          /\ \/ UNCHANGED <<coord_wave, coord_running, publish>>
             \/ /\ coord_wave <= w /\ coord_running' = FALSE
                /\ publish' = Published(WaveAfter(w), FALSE)
      BY <2>1, Zenon DEF WaveComplete, coordVars
    <2>3. /\ Head(output[e]) \in Output /\ Head(output[e]) \in Carried(output[e])
          /\ \A f \in Engines :
               /\ Carried(output'[f]) \subseteq Carried(output[f])
               /\ \A o \in Carried(output[f]) : o \in Carried(output'[f]) \/ o = Head(output[e])
      BY <2>2, OutputCarries, ZenonT(30)
    <2>4. w \in Nat /\ WaveAfter(w) \in Nat /\ w + 1 <= Wave(0)
      <3>1. w \in Nat
        BY <2>3, Zenon DEF Output
      <3>2. OutputBounded(Head(output[e]))
        BY <2>3, ZenonT(30) DEF WavesOK, OutputWaves, Carried
      <3>3. w + 1 <= Wave(0)
        BY <2>2, <3>2, Zenon DEF OutputBounded, Bounded
      <3> QED BY SMTT(30), <3>1, <3>3 DEF WaveAfter
    <2> HIDE DEF w
    <2>5. coord_wave <= w => coord_wave # Wave(0)
      BY SMTT(30), <1>6, <2>4
    <2>6. Called => Called'
      BY <1>1, <1>2, <2>2, <2>5, ZenonT(30) DEF Called
    <2>7. Reported => Reported'
      BY <1>2, <2>2, <2>3, Zenon DEF Reported, IsStart
    <2>8. CoordOK'
      BY <1>2, <1>5, <2>2, Zenon DEF WakeOK, CoordOK
    <2>9. \A p \in Carried(publish') : p \in Carried(publish) \/ p.running = FALSE
      <3>1. FALSE \in BOOLEAN
        BY Zenon
      <3> QED BY <2>2, <2>4, <3>1, PublishCarries, ZenonT(30)
    <2>10. PublishOK'
      BY <1>2, <2>6, <2>9, ZenonT(30) DEF WakeOK, PublishOK
    <2>11. ReportOK'
      BY <1>2, <1>3, <2>3, ZenonT(30) DEF WakeOK, ReportOK, IsStart
    <2> QED BY <1>1, <1>2, <1>4, <1>5, <2>2, <2>6, <2>7, <2>8, <2>10, <2>11, WakeKept, ZenonT(30) DEF WakeOK
  <1>9. CASE \E e \in Engines : StartWave(e)
    <2>1. PICK e \in Engines : StartWave(e)
      BY <1>9, Zenon
    <2> DEFINE w == Head(output[e]).wave
               m == [wave |-> w, exclude |-> e]
    <2>2. /\ output[e] # <<>> /\ Head(output[e]).type = "start_wave"
          /\ output' = [output EXCEPT ![e] = Tail(@)] /\ UNCHANGED to_coordinator
          /\ ~IsNewWave(w) => UNCHANGED <<coord_wave, coord_running, start, publish>>
          /\ IsNewWave(w) => /\ coord_wave' = w /\ coord_running' = TRUE
                             /\ start' = [f \in Engines |-> Append(start[f], m)]
                             /\ publish' = Published(w, TRUE)
      BY <2>1, ZenonT(30) DEF StartWave, SendStartWave, coordVars
    <2>3. /\ Head(output[e]) \in Output /\ Head(output[e]) \in Carried(output[e])
          /\ \A f \in Engines :
               /\ Carried(output'[f]) \subseteq Carried(output[f])
               /\ \A o \in Carried(output[f]) : o \in Carried(output'[f]) \/ o = Head(output[e])
      BY <2>2, OutputCarries, Zenon
    <2>4. w \in Nat /\ w <= Wave(0)
      <3>1. w \in Nat
        BY <2>3, Zenon DEF Output
      <3>2. OutputBounded(Head(output[e]))
        BY <2>3, Zenon DEF WavesOK, OutputWaves, Carried
      <3>3. w <= Wave(0)
        BY <2>2, <3>2, Zenon DEF OutputBounded, Bounded
      <3> QED BY SMTT(30), <3>1, <3>3
    <2>5. w = Wave(0) => Runs(e)
      BY <2>2, <2>3, ZenonT(30) DEF WakeOK, ReportOK, IsStart
    <2>6. m \in StartMessage /\ m.wave = w /\ m.exclude = e
      BY <2>4, EngineFacts, Zenon DEF StartMessage
    <2> HIDE DEF w, m
    <2>7. /\ IsNewWave(w) /\ coord_wave = Wave(0) => w = Wave(0)
          /\ ~IsNewWave(w) /\ w = Wave(0) => coord_wave = Wave(0) /\ coord_running
      BY SMTT(30), <1>6, <2>4 DEF IsNewWave
    <2>8. IsNewWave(w) => (Awake => Awake') /\ (w = Wave(0) => Awake')
      BY <1>2, <1>3, <2>2, <2>5, <2>6, StartWakes, ZenonT(30)
    <2>9. Awake => Awake'
      BY <1>5, <2>2, <2>8, Zenon
    <2>10. Called => Called'
      BY <1>1, <1>2, <2>2, <2>7, Zenon DEF Called
    <2>11. w = Wave(0) => (Awake \/ Called)'
      BY <1>2, <2>2, <2>7, <2>8, ZenonT(30) DEF Called
    <2>12. Reported => (Reported \/ Awake \/ Called)'
      <3>1. ASSUME NEW f \in Engines, NEW o \in Carried(output[f]), IsStart(o)
            PROVE  (Reported \/ Awake \/ Called)'
        <4>1. CASE o \in Carried(output'[f])
          BY <1>2, <3>1, <4>1, ZenonT(30) DEF Reported, IsStart
        <4>2. CASE o = Head(output[e])
          BY <2>11, <3>1, <4>2, Zenon DEF IsStart, w
        <4> QED BY <2>3, <4>1, <4>2, Zenon
      <3> QED BY <3>1, Zenon DEF Reported
    <2>13. CoordOK'
      BY <1>2, <2>2, <2>8, <2>9, Zenon DEF WakeOK, CoordOK
    <2>14. PublishOK'
      <3>1. CASE IsNewWave(w)
        <4>1. TRUE \in BOOLEAN
          BY Zenon
        <4>2. \A p \in Carried(publish') : p \in Carried(publish) \/ p.wave = w
          BY <2>2, <2>4, <3>1, <4>1, PublishCarries, ZenonT(30)
        <4>3. w = Wave(0) => Called'
          BY <1>2, <2>2, <3>1, ZenonT(30) DEF Called
        <4> QED BY <1>2, <2>10, <4>2, <4>3, Zenon DEF WakeOK, PublishOK
      <3>2. CASE ~IsNewWave(w)
        BY <1>2, <2>2, <2>10, <3>2, WakeKept, Zenon
      <3> QED BY <3>1, <3>2, ZenonT(30)
    <2>15. ReportOK'
      BY <1>2, <1>3, <2>3, ZenonT(30) DEF WakeOK, ReportOK, IsStart
    <2>16. StartOK'
      <3>1. CASE IsNewWave(w)
        <4>1. \A f \in Engines : \A x \in Carried(start'[f]) : x \in Carried(start[f]) \/ x = m
          BY <1>2, <1>3, <2>2, <2>6, <3>1, StartWakes, ZenonT(30)
        <4>2. w = Wave(0) => Called'
          BY <1>2, <2>2, <3>1, ZenonT(30) DEF Called
        <4> QED BY <1>2, <2>6, <2>10, <4>1, <4>2, ZenonT(30) DEF WakeOK, StartOK
      <3>2. CASE ~IsNewWave(w)
        BY <1>2, <2>2, <2>10, <3>2, WakeKept, ZenonT(30)
      <3> QED BY <3>1, <3>2, Zenon
    <2> QED BY <1>1, <1>2, <1>4, <2>9, <2>10, <2>12, <2>13, <2>14, <2>15, <2>16, WakeKept,
               ZenonT(30) DEF WakeOK
  <1>10. CASE PublishStats
    <2>1. /\ UNCHANGED <<coord_wave, coord_running, to_coordinator, start, output>>
          /\ publish' = Published(coord_wave, coord_running) /\ coord_running \in BOOLEAN
      BY <1>10, ZenonT(30) DEF PublishStats, coordVars, TypeOK, ClientTypes
    <2>2. Called => Called'
      BY <1>1, <1>2, <1>3, <2>1, WakeUnchanged, Zenon
    <2>3. \A p \in Carried(publish') :
             p \in Carried(publish) \/ (p.wave = coord_wave /\ p.running = coord_running)
      BY <1>6, <2>1, PublishCarries, ZenonT(30)
    <2>4. coord_wave = Wave(0) /\ coord_running => Called'
      BY <2>2, Zenon DEF Called
    <2>5. PublishOK'
      BY <1>2, <2>2, <2>3, <2>4, Zenon DEF WakeOK, PublishOK
    <2> QED BY <1>1, <1>2, <1>3, <1>4, <1>5, <2>1, <2>2, <2>5, WakeKept, ZenonT(30) DEF WakeOK
  <1> QED BY <1>7, <1>8, <1>9, <1>10, Zenon DEF Coordinator

LEMMA HandleClientRequestWakes ==
  ASSUME TypeOK, WavesOK, PauseOK, pause = "none", WakeOK, NEW e \in Engines, HandleClientRequest(e)
  PROVE  WakeOK'
  <1>1. add_request(e) \/ abort_requests(e)
    <2>1. ~Has(input[e], "PAUSE") /\ ~Has(input[e], "RESUME")
      BY Zenon DEF PauseOK
    <2>2. ASSUME NEW type, Receive(e, type) PROVE Has(input[e], type)
      BY <2>2, ReceiveFacts, HasTail, ZenonT(30)
    <2> QED BY <2>1, <2>2, Zenon DEF HandleClientRequest, pause_scheduler, resume_scheduler
  <1>2. Wave(0)' = Wave(0)
    BY HandleClientRequestWaves, EngineFacts, Zenon
  <1>3. PICK type : Receive(e, type)
    BY <1>1, Zenon DEF add_request, abort_requests
  <1>4. /\ pc[e] = "input" /\ input[e] \in Seq(Message) /\ input[e] # <<>>
        /\ Head(input[e]) \in Message /\ input'[e] = Tail(input[e])
        /\ \A f \in Engines : f # e => input'[f] = input[f]
        /\ UNCHANGED <<clientVars, coordVars, dp_state, start, to_coordinator, publish>>
    BY <1>3, ReceiveFacts, ZenonT(30)
  <1>5. Head(input[e]) \in Carried(input[e]) /\ Carried(Tail(input[e])) \subseteq Carried(input[e])
    BY <1>4, CarriedTail, Zenon
  <1>6. /\ UNCHANGED pc
        /\ \A f \in Engines : engines_running[f] => engines_running'[f]
    BY <1>1, ZenonT(30) DEF add_request, abort_requests, TypeOK, EngineTypes
  <1>7. \A f \in Engines : Runs(f) => Runs(f)'
    BY <1>4, <1>6, ZenonT(30) DEF Runs
  <1>8. (Called => Called') /\ (Awake => Awake')
    BY <1>2, <1>4, <1>7, WakeUnchanged, Zenon DEF clientVars, coordVars
  <1>9. InputOK'
    BY <1>2, <1>4, <1>5, <1>8, ZenonT(30) DEF WakeOK, InputOK
  <1>10. CoordOK' /\ ClientOK' /\ PublishOK' /\ StartOK'
    BY <1>2, <1>4, <1>8, WakeKept, Zenon DEF clientVars, coordVars
  <1>11. CASE abort_requests(e)
    <2>1. UNCHANGED <<engines_running, output>> /\ \E R : Finish(R, "aborted")
      BY <1>11, ZenonT(30) DEF abort_requests
    <2>2. \A f \in Engines : Runs(f)' => Runs(f)
      BY <1>4, <1>6, <2>1, Zenon DEF Runs
    <2>3. \A r \in Requests : status'[r] \in {"waiting", "running"} => status'[r] = status[r]
      BY <2>1, FinishKeeps, ZenonT(30)
    <2>4. Active' => Active
      BY <1>6, <2>2, <2>3, ZenonT(30) DEF Active
    <2>5. Reported => Reported'
      BY <1>2, <1>7, <2>1, WakeUnchanged, Zenon
    <2> QED BY <1>2, <1>7, <1>8, <1>9, <1>10, <2>1, <2>4, <2>5, WakeKept, Zenon DEF WakeOK
  <1>12. CASE add_request(e)
    <2> DEFINE m == Head(input[e])
               o == [type |-> "start_wave", wave |-> current_wave[e]]
    <2>1. /\ m.type = "ADD"
          /\ engines_running' = [engines_running EXCEPT ![e] = @ \/ StartsNextWave(e, m.wave)]
          /\ output' = IF StartsNextWave(e, m.wave) THEN [output EXCEPT ![e] = Append(@, o)]
                                                    ELSE output
      BY <1>12, Zenon DEF add_request, Receive
    <2>2. Wave(0) = current_wave[e] /\ current_wave[e] \in Nat
      BY <1>4, Zenon DEF Wave, WavesOK, EngineWaves, TypeOK, EngineTypes
    <2>3. m.wave \in Nat /\ m.wave <= Wave(0)
      <3>1. m.wave \in Nat
        BY <1>4, <2>1, MessageFields, Zenon
      <3>2. MessageBounded(m)
        BY <1>5, Zenon DEF WavesOK, InputWaves, Carried
      <3> QED BY <2>1, <3>1, <3>2, ZenonT(30) DEF MessageBounded, Bounded
    <2>4. m.wave = Wave(0) => Called
      BY <1>5, <2>1, ZenonT(30) DEF WakeOK, InputOK
    <2>5. o \in Output /\ IsStart(o)
      BY <2>2, Zenon DEF Output, IsStart
    <2> HIDE DEF m, o
    <2>6. CASE StartsNextWave(e, m.wave)
      <3>1. /\ output' = [output EXCEPT ![e] = Append(@, o)] /\ output \in [Engines -> Seq(Output)]
            /\ output[e] \in Seq(Output)
        BY <2>1, <2>6, ZenonT(30) DEF TypeOK, ChannelTypes
      <3>2. Carried(Append(output[e], o)) = Carried(output[e]) \cup {o}
        BY SMTT(30), <2>5, <3>1, CarriedAppend
      <3>3. \A f \in Engines : output'[f] = IF f = e THEN Append(output[e], o) ELSE output[f]
        BY <3>1, Zenon
      <3>4. Reported'
        BY <1>2, <2>5, <3>2, <3>3, ZenonT(30) DEF Reported, IsStart
      <3>5. ActiveOK'
        BY <3>4, ZenonT(30) DEF ActiveOK
      <3>6. Runs(e)'
        BY <1>4, <1>6, <2>1, <2>6, Zenon DEF Runs, TypeOK, EngineTypes
      <3>7. ReportOK'
        BY <1>2, <1>7, <3>2, <3>3, <3>6, ZenonT(30) DEF WakeOK, ReportOK, IsStart
      <3> QED BY <1>9, <1>10, <3>5, <3>7, Zenon DEF WakeOK
    <2>7. CASE ~StartsNextWave(e, m.wave)
      <3>1. UNCHANGED output
        BY <2>1, <2>7, Zenon
      <3>2. (Reported => Reported') /\ ReportOK'
        BY <1>2, <1>7, <1>8, <3>1, WakeUnchanged, WakeKept, ZenonT(30)
      <3>3. Called \/ Runs(e)
        <4>1. pause_state[e] = "UNPAUSED"
          BY Zenon DEF PauseOK, Unaware
        <4>2. m.wave = Wave(0) \/ m.wave < current_wave[e]
          BY SMTT(30), <2>2, <2>3
        <4>3. m.wave < current_wave[e] => Runs(e)
          BY <1>4, <2>7, <4>1, Zenon DEF StartsNextWave, Runs
        <4> QED BY <2>4, <4>2, <4>3, Zenon
      <3>4. Awake \/ Called \/ Reported
        BY <3>3, ZenonT(30) DEF WakeOK, ActiveOK, Active
      <3>5. ActiveOK'
        BY <1>8, <3>2, <3>4, ZenonT(30) DEF ActiveOK
      <3> QED BY <1>9, <1>10, <3>2, <3>5, ZenonT(30) DEF WakeOK
    <2> QED BY <2>6, <2>7, ZenonT(30)
  <1> QED BY <1>1, <1>11, <1>12, ZenonT(30)

\* A START_DP_WAVE that would wake an engine does when the engine reads it.
LEMMA HandleStartDpWaveWakes ==
  ASSUME TypeOK, WavesOK, PauseOK, pause = "none", WakeOK, NEW e \in Engines, HandleStartDpWave(e)
  PROVE  WakeOK'
  <1> DEFINE m == Head(start[e])
  <1>1. /\ pc[e] = "input" /\ start[e] # <<>> /\ start' = [start EXCEPT ![e] = Tail(@)]
        /\ engines_running' = [engines_running EXCEPT ![e] = @ \/ Joins(e, m)]
        /\ UNCHANGED <<pc, dp_state, status, client_wave, client_running, first_reqs, coord_wave,
                       coord_running, input, output, to_coordinator, publish>>
    BY Zenon DEF HandleStartDpWave, requestVars, clientVars, coordVars
  <1>2. Wave(0)' = Wave(0)
    BY EngineStepWaves, EngineFacts, ZenonT(30)
  <1>3. /\ m \in StartMessage /\ m \in Carried(start[e])
        /\ Carried(Tail(start[e])) \subseteq Carried(start[e])
        /\ \A x \in Carried(start[e]) : x = m \/ x \in Carried(Tail(start[e]))
    BY <1>1, TailFacts, CarriedTail, Zenon DEF TypeOK, ChannelTypes
  <1>4. /\ start'[e] = Tail(start[e])
        /\ \A f \in Engines : f # e => start'[f] = start[f]
    BY <1>1, Zenon DEF TypeOK, ChannelTypes
  <1>5. Wave(0) = current_wave[e] /\ current_wave[e] \in Nat
    BY <1>1, ZenonT(30) DEF Wave, WavesOK, EngineWaves, TypeOK, EngineTypes
  <1>6. m.wave \in Nat /\ m.wave <= Wave(0)
    <2>1. m.wave \in Nat
      BY <1>3, Zenon DEF StartMessage
    <2>2. Bounded(m.wave)
      BY <1>3, ZenonT(30) DEF WavesOK, StartWaves, Carried
    <2> QED BY <2>1, <2>2, Zenon DEF Bounded
  <1> HIDE DEF m
  <1>7. ~ignore_start_dp_wave[e]
    BY ZenonT(30) DEF PauseOK, Unaware
  <1>8. /\ Joins(e, m) => m.wave = Wave(0)
        /\ m.wave = Wave(0) /\ m.exclude # e => Joins(e, m)
    BY SMTT(30), <1>5, <1>6, <1>7 DEF Joins
  <1>9. /\ \A f \in Engines : Runs(f) => Runs(f)'
        /\ \A f \in Engines : Runs(f)' => Runs(f) \/ (f = e /\ Joins(e, m))
        /\ Joins(e, m) => Runs(e)'
    BY <1>1, ZenonT(30) DEF Runs, TypeOK, EngineTypes
  <1>10. Awake => Awake'
    BY <1>2, <1>3, <1>4, <1>8, <1>9, ZenonT(30) DEF Awake, Woken
  <1>11. (Called => Called') /\ (Reported => Reported')
    BY <1>1, <1>2, <1>9, WakeUnchanged, Zenon
  <1>12. StartOK'
    BY <1>2, <1>3, <1>4, <1>11, ZenonT(30) DEF WakeOK, StartOK
  <1>13. ActiveOK'
    <2>1. CASE Joins(e, m)
      <3>1. Called
        BY <1>3, <1>8, <2>1, ZenonT(30) DEF WakeOK, StartOK
      <3> QED BY <1>11, <3>1, Zenon DEF ActiveOK
    <2>2. CASE ~Joins(e, m)
      <3>1. Active' => Active
        BY <1>1, <1>9, <2>2, Zenon DEF Active
      <3> QED BY <1>2, <1>10, <1>11, <3>1, WakeKept, ZenonT(30)
    <2> QED BY <2>1, <2>2, Zenon
  <1> QED BY <1>1, <1>2, <1>9, <1>10, <1>11, <1>12, <1>13, WakeKept, ZenonT(30) DEF WakeOK

\* The scheduler of an engine that has not paused has unfinished requests if any.
LEMMA UnfinishedRequests ==
  ASSUME PauseOK, pause = "none", NEW e \in Engines
  PROVE  has_unfinished_requests(e) <=>
            \E r \in Requests : engine[r] = e /\ status[r] \in {"waiting", "running"}
  <1>1. pause_state[e] = "UNPAUSED"
    BY Zenon DEF PauseOK, Unaware
  <1>2. has_unfinished_requests(e) <=> Running(e) \cup Waiting(e) # {}
    BY SMTT(30), <1>1 DEF has_unfinished_requests
  <1> QED BY <1>2, Zenon DEF Running, Waiting

LEMMA EngineStepWakes ==
  ASSUME TypeOK, WavesOK, PauseOK, pause = "none", WakeOK, NEW e \in Engines,
         BusyLoop(e) \/ EagerAbort(e)
  PROVE  WakeOK'
  <1>1. UNCHANGED <<client_wave, client_running, first_reqs, coord_wave, coord_running, input, start,
                    to_coordinator, publish>>
    BY Zenon DEF BusyLoop, EnterForward, FinishStep, EagerAbort, clientVars, coordVars
  <1>2. Wave(0)' = Wave(0)
    BY EngineStepWaves, EngineFacts, Zenon
  <1>3. ASSUME \A f \in Engines : Runs(f)' = Runs(f), Active' => Active,
               Reported => Reported', ReportOK'
        PROVE  WakeOK'
    <2>1. (Called => Called') /\ (Awake => Awake')
      BY <1>1, <1>2, <1>3, WakeUnchanged, Zenon
    <2> QED BY <1>1, <1>2, <1>3, <2>1, WakeKept, ZenonT(30) DEF WakeOK
  <1>4. ASSUME \A f \in Engines : Runs(f)' = Runs(f), UNCHANGED output
        PROVE  (Reported => Reported') /\ ReportOK'
    BY <1>2, <1>4, Zenon DEF WakeOK, Reported, ReportOK, IsStart
  <1>5. CASE EnterForward(e)
    <2>1. \A f \in Engines : Runs(f)' = Runs(f) /\ (pc'[f] = "forward" => f = e \/ pc[f] = "forward")
      BY <1>5, Zenon DEF EnterForward, Runs, TypeOK, EngineTypes
    <2>2. Active
      <3>1. engines_running[e] \/ has_unfinished_requests(e)
        BY <1>5, Zenon DEF EnterForward, has_work
      <3>2. engines_running[e] => Runs(e)
        BY <1>5, Zenon DEF EnterForward, Runs
      <3> QED BY <3>1, <3>2, UnfinishedRequests, Zenon DEF Active
    <2>3. UNCHANGED output
      BY <1>5, Zenon DEF EnterForward
    <2> QED BY <1>3, <1>4, <2>1, <2>2, <2>3, ZenonT(30)
  <1>6. CASE FinishStep(e)
    <2>1. /\ pc[e] = "synced" /\ pc' = [pc EXCEPT ![e] = "input"]
          /\ engines_running' = [engines_running EXCEPT ![e] = dp_state[e].unfinished]
          /\ dp_state' = [dp_state EXCEPT ![e] = [unfinished |-> FALSE, consensus |-> FALSE]]
          /\ UNCHANGED status
      BY <1>6, Zenon DEF FinishStep, requestVars
    <2>2. /\ pc'[e] = "input" /\ engines_running'[e] = dp_state[e].unfinished
          /\ \A f \in Engines : f # e => /\ pc'[f] = pc[f] /\ dp_state'[f] = dp_state[f]
                                         /\ engines_running'[f] = engines_running[f]
      BY <2>1, Zenon DEF TypeOK, EngineTypes
    <2>3. \A f \in Engines : Runs(f)' = Runs(f)
      <3>1. Runs(e) = dp_state[e].unfinished /\ Runs(e)' = engines_running'[e]
        BY ZenonT(30), <2>1, <2>2 DEF Runs
      <3>2. \A f \in Engines : f # e => Runs(f)' = Runs(f)
        BY <2>2, Zenon DEF Runs
      <3> QED BY <2>2, <3>1, <3>2, ZenonT(30)
    <2>4. Active' => Active
      BY <2>1, <2>2, <2>3, ZenonT(30) DEF Active
    <2>5. (Reported => Reported') /\ ReportOK'
      <3> DEFINE o == [type |-> "wave_complete", wave |-> current_wave[e]]
      <3>1. o \in Output /\ o.type # "start_wave"
        BY Zenon DEF Output, TypeOK, EngineTypes
      <3>2. output' = output \/ output' = [output EXCEPT ![e] = Append(@, o)]
        BY <1>6, Zenon DEF FinishStep
      <3> HIDE DEF o
      <3>3. CASE output' = [output EXCEPT ![e] = Append(@, o)]
        <4>1. output \in [Engines -> Seq(Output)] /\ output[e] \in Seq(Output)
          BY Zenon DEF TypeOK, ChannelTypes
        <4>2. Carried(Append(output[e], o)) = Carried(output[e]) \cup {o}
          BY SMTT(30), <3>1, <4>1, CarriedAppend
        <4>3. \A f \in Engines : output'[f] = IF f = e THEN Append(output[e], o) ELSE output[f]
          BY <3>3, <4>1, Zenon
        <4>4. \A f \in Engines : /\ Carried(output[f]) \subseteq Carried(output'[f])
                                 /\ \A x \in Carried(output'[f]) : x \in Carried(output[f]) \/ x = o
          BY <4>2, <4>3, ZenonT(30)
        <4>5. Reported => Reported'
          BY <1>2, <4>4, Zenon DEF Reported, IsStart
        <4>6. ReportOK'
          BY <1>2, <2>3, <3>1, <4>4, ZenonT(30) DEF WakeOK, ReportOK, IsStart
        <4> QED BY <4>5, <4>6, Zenon
      <3> QED BY <1>4, <2>3, <3>2, <3>3, Zenon
    <2> QED BY <1>3, <2>3, <2>4, <2>5, ZenonT(30)
  <1>7. CASE EagerAbort(e)
    <2>1. UNCHANGED engineVars /\ UNCHANGED output /\ \E R : Finish(R, "aborted")
      BY <1>7, ZenonT(30) DEF EagerAbort
    <2>2. \A f \in Engines : Runs(f)' = Runs(f) /\ pc'[f] = pc[f]
      BY <2>1, Zenon DEF Runs, engineVars
    <2>3. \A r \in Requests : status'[r] \in {"waiting", "running"} => status'[r] = status[r]
      BY <2>1, FinishKeeps, Zenon
    <2>4. Active' => Active
      BY <2>2, <2>3, ZenonT(30) DEF Active
    <2> QED BY <1>3, <1>4, <2>1, <2>2, <2>4, Zenon
  <1> QED BY <1>5, <1>6, <1>7, ZenonT(30) DEF BusyLoop

\* The finish all-reduce ends a wave only if no engine is active; whatever was
\* said of the wave that is over says nothing of the next.
LEMMA SyncWakes ==
  ASSUME TypeOK, WavesOK, PlacedOK, PauseOK, pause = "none", WakeOK, sync_dp_state
  PROVE  WakeOK'
  <1>1. PICK u \in BOOLEAN, c \in BOOLEAN :
           dp_state' = [e \in Engines |-> [unfinished |-> u, consensus |-> c]]
    BY SyncAnswer, Zenon
  <1>2. /\ \A e \in Engines : pc[e] = "sync" /\ pc'[e] = "synced"
        /\ UNCHANGED <<status, current_wave, client_wave, client_running, first_reqs, coord_wave,
                       coord_running, input, start, output, to_coordinator, publish>>
    BY ZenonT(30) DEF sync_dp_state, Blocked, requestVars, clientVars, coordVars
  <1>3. \A e \in Engines : Runs(e)' = u
    BY <1>1, <1>2, ZenonT(30) DEF Runs
  <1>4. Wave(0) \in Nat /\ Wave(0)' = IF u THEN Wave(0) ELSE Wave(0) + 1
    BY <1>1, <1>2, EngineFacts, Zenon DEF Wave, TypeOK, EngineTypes
  <1>5. CASE u
    <2>1. Wave(0)' = Wave(0) /\ \A e \in Engines : Runs(e)'
      BY <1>3, <1>4, <1>5, Zenon
    <2>2. Awake'
      BY <2>1, Zenon DEF Awake, Woken
    <2>3. Called => Called'
      BY <1>2, <2>1, WakeUnchanged, ZenonT(30)
    <2>4. ActiveOK' /\ CoordOK'
      BY <2>2, Zenon DEF ActiveOK, CoordOK
    <2> QED BY <1>2, <2>1, <2>3, <2>4, WakeKept, ZenonT(30) DEF WakeOK
  <1>6. CASE ~u
    <2>1. Wave(0)' = Wave(0) + 1 /\ \A e \in Engines : ~Runs(e)'
      BY <1>3, <1>4, <1>6, ZenonT(30)
    <2>2. ~Active'
      <3>1. \A e \in Engines : ~has_unfinished_requests(e)
        <4>1. dp_state'[0].unfinished = u
          BY <1>1, EngineFacts, ZenonT(30)
        <4>2. ASSUME NEW e \in Engines, has_unfinished_requests(e) PROVE dp_state'[0].unfinished
          BY <4>2, EngineFacts, Zenon DEF sync_dp_state
        <4> QED BY <1>6, <4>1, <4>2, Zenon
      <3>2. \A r \in Requests : status[r] \notin {"waiting", "running"}
        BY <3>1, UnfinishedRequests, Zenon DEF PlacedOK
      <3> QED BY <1>2, <2>1, <3>2, Zenon DEF Active
    <2>3. ASSUME NEW w \in Nat, Bounded(w) PROVE w # Wave(0)'
      BY SMTT(30), <1>4, <2>1, <2>3 DEF Bounded
    <2>4. client_wave # Wave(0)' /\ coord_wave # Wave(0)'
      BY <2>3, Zenon DEF WavesOK, ViewWaves, TypeOK, ClientTypes
    <2>5. \A p \in Carried(publish) : p.wave # Wave(0)'
      <3> SUFFICES ASSUME NEW p \in Carried(publish) PROVE p.wave # Wave(0)'
        BY Zenon
      <3>1. p \in [wave : Nat, running : BOOLEAN]
        BY CarriedType, Zenon DEF TypeOK, ChannelTypes
      <3>2. p.wave \in Nat
        BY <3>1
      <3>3. Bounded(p.wave)
        BY ZenonT(30) DEF WavesOK, PublishWaves, Carried
      <3> QED BY <2>3, <3>2, <3>3, Zenon
    <2>6. \A e \in Engines : \A m \in Carried(input[e]) : m.type = "ADD" => m.wave # Wave(0)'
      <3> SUFFICES ASSUME NEW e \in Engines, NEW m \in Carried(input[e]), m.type = "ADD"
                   PROVE  m.wave # Wave(0)'
        BY Zenon
      <3>1. m \in Message /\ MessageBounded(m)
        BY CarriedType, ZenonT(30) DEF TypeOK, ChannelTypes, WavesOK, InputWaves, Carried
      <3>2. m.wave \in Nat /\ Bounded(m.wave)
        BY <3>1, MessageFields, Zenon DEF MessageBounded
      <3> QED BY <2>3, <3>2, Zenon
    <2>7. \A e \in Engines : \A m \in Carried(start[e]) : m.wave # Wave(0)'
      <3> SUFFICES ASSUME NEW e \in Engines, NEW m \in Carried(start[e]) PROVE m.wave # Wave(0)'
        BY Zenon
      <3>1. m \in StartMessage /\ Bounded(m.wave)
        BY CarriedType, ZenonT(30) DEF TypeOK, ChannelTypes, WavesOK, StartWaves, Carried
      <3>2. m.wave \in Nat
        BY <3>1, Zenon DEF StartMessage
      <3> QED BY <2>3, <3>1, <3>2, Zenon
    <2>8. \A e \in Engines : \A o \in Carried(output[e]) : o.type = "start_wave" => o.wave # Wave(0)'
      <3> SUFFICES ASSUME NEW e \in Engines, NEW o \in Carried(output[e]), o.type = "start_wave"
                   PROVE  o.wave # Wave(0)'
        BY Zenon
      <3>1. o \in Output /\ OutputBounded(o)
        BY CarriedType, ZenonT(30) DEF TypeOK, ChannelTypes, WavesOK, OutputWaves, Carried
      <3>2. o.wave \in Nat /\ Bounded(o.wave)
        BY <3>1, Zenon DEF Output, OutputBounded
      <3> QED BY <2>3, <3>2, Zenon
    <2>9. ActiveOK' /\ CoordOK' /\ ClientOK'
      BY <1>2, <2>2, <2>4, Zenon DEF ActiveOK, CoordOK, ClientOK
    <2>10. PublishOK' /\ InputOK' /\ StartOK' /\ ReportOK'
      BY <1>2, <2>5, <2>6, <2>7, <2>8, ZenonT(30) DEF PublishOK, InputOK, StartOK, ReportOK, IsStart
    <2> QED BY <2>9, <2>10, Zenon DEF WakeOK
  <1> QED BY <1>5, <1>6, Zenon

LEMMA CollectiveWakes ==
  ASSUME TypeOK, TypeOK', WavesOK, PlacedOK, PauseOK, pause = "none", WakeOK, Collective
  PROVE  WakeOK'
  <1>1. CASE Forward
    <2>1. /\ UNCHANGED <<dp_state, current_wave, client_wave, client_running, first_reqs, coord_wave,
                         coord_running, input, start, output, to_coordinator, publish>>
          /\ \A e \in Engines : /\ pc[e] = "forward" /\ pc'[e] \in {"input", "sync"}
                                /\ engines_running[e] => engines_running'[e]
      BY <1>1, ZenonT(30) DEF Forward, Blocked, clientVars, coordVars
    <2>2. Wave(0)' = Wave(0)
      BY <2>1, EngineFacts, Zenon DEF Wave
    <2>3. \A e \in Engines : Runs(e) => Runs(e)'
      BY <2>1, Zenon DEF Runs
    <2>4. Active
      BY <2>1, EngineFacts, ZenonT(30) DEF Active
    <2>5. (Called => Called') /\ (Awake => Awake') /\ (Reported => Reported')
      BY <2>1, <2>2, <2>3, WakeUnchanged, ZenonT(30)
    <2> QED BY <2>1, <2>2, <2>3, <2>4, <2>5, WakeKept, Zenon DEF WakeOK
  <1>2. CASE sync_dp_state
    BY <1>2, SyncWakes, Zenon
  <1>3. ~ResumeTogether
    BY EngineFacts, ZenonT(30) DEF ResumeTogether, Blocked, PauseOK
  <1> QED BY <1>1, <1>2, <1>3, ZenonT(30) DEF Collective

-----------------------------------------------------------------------------
\* The invariant of the wake-ups.
WakeInv == ViewsOK /\ TargetsOK /\ PlacedOK /\ (pause = "none" => WakeOK)

LEMMA WakeInit == Init => WakeInv
  <1> SUFFICES ASSUME Init PROVE WakeInv
    BY Zenon
  <1>1. /\ Carried(publish) = {} /\ Carried(first_reqs) = {} /\ Carried(to_coordinator) = {}
        /\ \A e \in Engines : /\ Carried(input[e]) = {} /\ Carried(start[e]) = {}
                              /\ Carried(output[e]) = {}
    <2>1. Carried(<<>>) = {}
      BY SMTT(30) DEF Carried
    <2> QED BY <2>1, ZenonT(30) DEF Init
  <1>2. ViewsOK
    BY <1>1 DEF Init, ViewsOK
  <1>3. TargetsOK /\ PlacedOK
    BY <1>1, Zenon DEF Init, TargetsOK, PlacedOK
  <1>4. ~Active
    BY Zenon DEF Init, Active, Runs
  <1>5. ~coord_running /\ ~client_running
    BY Zenon DEF Init
  <1>6. WakeOK
    BY <1>1, <1>4, <1>5, ZenonT(30)
    DEF WakeOK, ActiveOK, CoordOK, ClientOK, PublishOK, InputOK, StartOK, ReportOK
  <1> QED BY <1>2, <1>3, <1>6, Zenon DEF WakeInv

LEMMA WakePreserved ==
  ASSUME IInv, IInv', WakeInv, [Next]_vars
  PROVE  WakeInv'
  <1>1. /\ TypeOK /\ TypeOK' /\ WavesOK /\ RequestsOK /\ PauseOK
        /\ ViewsOK /\ TargetsOK /\ PlacedOK
    BY Zenon DEF IInv, WInv, WakeInv
  <1>2. ViewsOK' /\ TargetsOK' /\ PlacedOK'
    BY <1>1, ViewsPreserved, TargetsPreserved, PlacedPreserved, ZenonT(30)
  <1>3. ASSUME pause' = "none" PROVE WakeOK'
    <2>1. pause = "none"
      BY <1>3, ZenonT(30) DEF Next, vars, FrontEnd, add_request_async, abort_requests_async,
           pause_generation, resume_generation, StatsTask, ForwardFirstReq, UpdateStats,
           Coordinator, FrontMessage, WaveComplete, StartWave, PublishStats, EagerAbort, Receive,
           HandleClientRequest, add_request, abort_requests, pause_scheduler, resume_scheduler,
           HandleStartDpWave, BusyLoop, EnterForward, FinishStep, Collective, Forward,
           sync_dp_state, ResumeTogether, clientVars
    <2>2. WakeOK
      BY <2>1, Zenon DEF WakeInv
    <2>3. CASE UNCHANGED vars
      BY <2>2, <2>3, ZenonT(30) DEF vars, engineVars, requestVars, clientVars, coordVars, WakeOK,
           ActiveOK, CoordOK, ClientOK, PublishOK, InputOK, StartOK, ReportOK, Active, Awake,
           Called, Reported, IsStart, Woken, Runs, Wave
    <2> QED BY <1>1, <1>3, <2>1, <2>2, <2>3, FrontEndWakes, CoordinatorWakes,
               HandleClientRequestWakes, HandleStartDpWaveWakes, EngineStepWakes, CollectiveWakes,
               ZenonT(30) DEF Next
  <1> QED BY <1>2, <1>3, Zenon DEF WakeInv

\* Until the front end pauses, an engine that waits for the others in a forward
\* pass is never forgotten: each of the others runs too, or a START_DP_WAVE is
\* on its way to it, or the report of add_request, or the FIRST_REQ of the
\* front end, is on its way to the coordinator, which sends one.  A single
\* engine waits for nobody: it is alone in every pass.
THEOREM DataParallelNoEngineStranded ==
  ASSUME dp_size > 1
  PROVE  Spec => []NoEngineStranded
  <1>1. Spec => []WakeInv
    <2>1. Init => WakeInv
      BY WakeInit, Zenon
    <2>2. IInv /\ IInv' /\ WakeInv /\ [Next]_vars => WakeInv'
      BY WakePreserved, Zenon
    <2> QED BY <2>1, <2>2, DataParallelInvariant, PTL DEF Spec
  <1>2. WakeInv => NoEngineStranded
    <2> SUFFICES ASSUME WakeInv, pause = "none", NEW e \in Engines, Stranded(e)
                 PROVE  FALSE
      BY Zenon DEF NoEngineStranded
    <2>1. ActiveOK /\ CoordOK
      BY Zenon DEF WakeInv, WakeOK
    <2>2. PICK f \in Engines : f # e
      BY DPAssumption DEF Engines
    <2>3. Carried(<<>>) = {}
      BY DEF Carried
    <2>4. ~Runs(f)
      BY <2>2, Zenon DEF Stranded, has_work, Runs
    <2>5. ~Awake
      BY <2>2, <2>3, <2>4, Zenon DEF Stranded, Awake, Woken
    <2>6. ~Reported
      BY <2>3, Zenon DEF Stranded, Reported
    <2>7. ~Called
      BY <2>1, <2>5, Zenon DEF Stranded, Called, CoordOK
    <2>8. Active
      BY Zenon DEF Stranded, Active
    <2> QED BY <2>1, <2>5, <2>6, <2>7, <2>8, Zenon DEF ActiveOK
  <1> QED BY <1>1, <1>2, PTL
=============================================================================
