--------------------------- MODULE SchedulerBlocks ---------------------------
(***************************************************************************)
(* The blocks of the scheduler, its queues and the step in progress: every *)
(* action keeps what the invariant says of them.                           *)
(***************************************************************************)
EXTENDS SchedulerInvariants, TLAPS

LEMMA AllocatesFacts ==
  ASSUME NEW r \in Request, NEW R, Allocated(r, R), R.blocks = req[r].blocks,
         R.last_sched_seq = req[r].last_sched_seq, UNCHANGED <<seqs, batch_queue>>
  PROVE  Allocates(r)
BY Zenon DEF Allocated, Allocates, SameTables

LEMMA ReleasesFacts ==
  ASSUME ListFacts, Facts,
         ReqOK, NEW r \in Request, Released(r), UNCHANGED <<seqs, batch_queue>>,
         \A s \in Request : s # r => req'[s] = req[s],
         \/ req'[r] = Gone
         \/ req'[r].blocks = {} /\ req'[r].last_sched_seq = req[r].last_sched_seq
  PROVE  Releases(r)
<1>1. req[r].last_sched_seq \in Nat
  BY Zenon DEF ReqOK, Rec
<1>2. req'[r].blocks = {} /\ req'[r].last_sched_seq <= req[r].last_sched_seq
  BY SMTT(30), <1>1 DEF Facts, GoneFact
<1> QED BY <1>2, Zenon DEF Releases, SameTables

LEMMA UpdatedSame ==
  ASSUME Facts, NEW R \in Rec, NEW s \in Statuses, NEW c \in Int
  PROVE  /\ Updated(R, s, c).blocks = R.blocks
         /\ Updated(R, s, c).last_sched_seq = R.last_sched_seq
BY SMTT(30) DEF Facts, UpdatedFact

\* The clients' part.
LEMMA ClientBlocks ==
  ASSUME ListFacts, Facts, Effects, TInv, Client
  PROVE  SameBlocks \/ \E r \in Request : Releases(r)
<1>0. ReqOK
  BY Zenon DEF TInv
<1>1. ASSUME NEW r \in Request, NEW len \in PromptLens, AddRequest(r, len) PROVE SameBlocks
  <2>1. /\ \A s \in Request : s # r => req'[s] = req[s]
        /\ req'[r] = [req[r] EXCEPT !.status = "WAITING", !.arrival_time = arrivals + 1,
                                    !.num_prompt_tokens = len, !.num_tokens = len]
    BY <1>1, Zenon DEF Effects, AddRequestEffect
  <2>2. req[r] \in Rec
    BY <1>0, Zenon DEF ReqOK
  <2>3. req'[r].blocks = req[r].blocks /\ req'[r].last_sched_seq = req[r].last_sched_seq
    BY <2>1, <2>2, Zenon DEF Rec
  <2>4. UNCHANGED <<blocks, seqs, batch_queue>>
    BY <1>1, Zenon DEF AddRequest, worker
  <2> QED BY <2>1, <2>3, <2>4, Zenon DEF SameBlocks, SameTables
<1>2. ASSUME NEW r \in Request, NEW len \in PromptLens \cup {0}, AddChunk(r, len)
      PROVE  SameBlocks \/ Releases(r)
  <2>1. UNCHANGED <<seqs, batch_queue>>
    BY <1>2, Zenon DEF AddChunk, worker
  <2>2. /\ \A s \in Request : s # r => req'[s] = req[s]
        /\ \/ /\ req'[r].blocks = req[r].blocks
              /\ req'[r].last_sched_seq = req[r].last_sched_seq /\ UNCHANGED blocks
           \/ req'[r] = Gone /\ Released(r)
    BY <1>2, Zenon DEF Effects, AddChunkEffect
  <2>3. CASE req'[r] = Gone /\ Released(r)
    BY <1>0, <2>1, <2>2, <2>3, ReleasesFacts, ZenonT(30)
  <2>4. CASE ~(req'[r] = Gone /\ Released(r))
    BY <2>1, <2>2, <2>4, Zenon DEF SameBlocks, SameTables
  <2> QED BY <2>3, <2>4, Zenon
<1>3. ASSUME NEW r \in Request, Abort(r) PROVE SameBlocks \/ Releases(r)
  <2>1. UNCHANGED <<seqs, batch_queue>>
    BY <1>3, Zenon DEF Abort, worker
  <2>2. /\ \A s \in Request : s # r => req'[s] = req[s]
        /\ \/ /\ req'[r] = [req[r] EXCEPT !.status = "FINISHED"]
              /\ free' = free /\ deferred_frees' = deferred_frees
           \/ req'[r] = Gone /\ Released(r)
    BY <1>3, Zenon DEF Effects, AbortEffect
  <2>3. CASE req'[r] = Gone /\ Released(r)
    BY <1>0, <2>1, <2>2, <2>3, ReleasesFacts, Zenon
  <2>4. CASE /\ req'[r] = [req[r] EXCEPT !.status = "FINISHED"]
             /\ free' = free /\ deferred_frees' = deferred_frees
    <3>1. req[r] \in Rec
      BY <1>0, Zenon DEF ReqOK
    <3>2. req'[r].blocks = req[r].blocks /\ req'[r].last_sched_seq = req[r].last_sched_seq
      BY <2>4, <3>1, Zenon DEF Rec
    <3> QED BY <2>1, <2>2, <2>4, <3>2, Zenon DEF SameBlocks, SameTables, blocks
  <2> QED BY <2>2, <2>3, <2>4, Zenon
<1>4. ASSUME StartReset \/ \E state \in PauseStates \cup {"UNPAUSED"} : set_pause_state(state)
      PROVE  SameBlocks
  <2>1. UNCHANGED <<req, rest>>
    BY <1>4, Zenon DEF Effects, ControlEffect
  <2> QED BY <2>1, Zenon DEF SameBlocks, SameTables, rest
<1> QED BY <1>1, <1>2, <1>3, <1>4, Zenon DEF Client

\* The scheduler's part, and the rest.
LEMMA EngineBlocks ==
  ASSUME ListFacts, Facts, Effects,
         TInv, VictimOK, Schedule \/ Update \/ ResetRunning \/ \E r \in Request : LoadDone(r)
  PROVE  SameBlocks \/ (\E r \in Request : Allocates(r) \/ Releases(r))
         \/ EndSchedule \/ BeginUpdate
<1>0. ReqOK
  BY Zenon DEF TInv
<1>1. ASSUME \/ StartSchedule \/ SkipRunning \/ EndRunning
             \/ \E ext \in 0..max_model_len : StopWaiting(ext)
             \/ EndUpdate
      PROVE  SameBlocks
  <2>1. UNCHANGED <<req, rest>>
    BY <1>1, Zenon DEF Effects, ControlEffect
  <2> QED BY <2>1, Zenon DEF SameBlocks, SameTables, rest
<1>2. ASSUME ScheduleRunning PROVE \E r \in Request : Allocates(r)
  <2>1. Current \in Request /\ Allocated(Current, req[Current])
    BY <1>2, Zenon DEF Effects, ScheduleRunningEffect
  <2>2. UNCHANGED <<seqs, batch_queue>>
    BY <1>2, Zenon DEF ScheduleRunning, worker
  <2> QED BY <2>1, <2>2, AllocatesFacts, Zenon
<1>3. ASSUME PreemptRunning PROVE \E r \in Request : Releases(r)
  <2>1. /\ Victim \in Request /\ Released(Victim) /\ req'[Victim].blocks = {}
        /\ req'[Victim].last_sched_seq = req[Victim].last_sched_seq
        /\ \A s \in Request : s # Victim => req'[s] = req[s]
    BY <1>3, Zenon DEF Effects, PreemptRunningEffect
  <2>2. UNCHANGED <<seqs, batch_queue>>
    BY <1>3, Zenon DEF PreemptRunning, worker
  <2> QED BY <1>0, <2>1, <2>2, ReleasesFacts, Zenon
<1>4. ASSUME SkipWaiting PROVE SameBlocks
  <2>1. UNCHANGED <<req, rest>>
    BY <1>4, Zenon DEF Effects, SkipWaitingEffect
  <2> QED BY <2>1, Zenon DEF SameBlocks, SameTables, rest
<1>5. ASSUME PromoteLoaded PROVE SameBlocks
  <2> DEFINE r == peek_request
  <2>1. /\ r \in Request /\ UNCHANGED <<blocks, seqs, batch_queue>>
        /\ req'[r].blocks = req[r].blocks
        /\ req'[r].last_sched_seq = req[r].last_sched_seq
        /\ \A s \in Request : s # r => req'[s] = req[s]
    BY <1>5, Zenon DEF Effects, PromoteLoadedEffect
  <2> HIDE DEF r
  <2> QED BY <2>1, Zenon DEF SameBlocks, SameTables
<1>6. ASSUME NEW ext \in 0..max_model_len, ScheduleWaiting(ext)
      PROVE  \E r \in Request : Allocates(r)
  <2> DEFINE r == peek_request
  <2>1. /\ r \in Request /\ UNCHANGED <<seqs, batch_queue>>
        /\ \E c \in Int : Allocated(r, Updated(req[r], "RUNNING", c))
    BY <1>6, Zenon DEF Effects, ScheduleWaitingEffect
  <2> HIDE DEF r
  <2>2. PICK c \in Int : Allocated(r, Updated(req[r], "RUNNING", c))
    BY <2>1, Zenon
  <2>3. req[r] \in Rec /\ "RUNNING" \in Statuses
    BY <1>0, <2>1, Zenon DEF ReqOK, Statuses
  <2>4. /\ Updated(req[r], "RUNNING", c).blocks = req[r].blocks
        /\ Updated(req[r], "RUNNING", c).last_sched_seq = req[r].last_sched_seq
    BY <2>3, UpdatedSame, Zenon
  <2> QED BY <2>1, <2>2, <2>4, AllocatesFacts, Zenon
<1>7. ASSUME NEW ext \in 0..max_model_len, StartLoad(ext)
      PROVE  \E r \in Request : Allocates(r)
  <2> DEFINE r == peek_request
  <2>1. /\ r \in Request /\ UNCHANGED <<seqs, batch_queue>>
        /\ Allocated(r, Updated(req[r], "REMOTE", ext))
    BY <1>7, Zenon DEF Effects, StartLoadEffect
  <2> HIDE DEF r
  <2>3. req[r] \in Rec /\ "REMOTE" \in Statuses /\ ext \in Int
    BY <1>0, <2>1, SchedulerAssumption DEF ReqOK, Statuses, Waiting, Blocked
  <2>4. /\ Updated(req[r], "REMOTE", ext).blocks = req[r].blocks
        /\ Updated(req[r], "REMOTE", ext).last_sched_seq = req[r].last_sched_seq
    BY <2>3, UpdatedSame, Zenon
  <2> QED BY <2>1, <2>4, AllocatesFacts, ZenonT(30)
<1>8. ASSUME SkipEntry \/ DiscardFrame \/ \E g \in 1..1 + num_spec_tokens : AppendOutput(g)
      PROVE  SameBlocks
  <2>1. /\ UNCHANGED rest
        /\ \A r \in Request : /\ req'[r].blocks = req[r].blocks
                              /\ req'[r].last_sched_seq = req[r].last_sched_seq
    BY <1>8, Zenon DEF Effects, EntryEffect
  <2> QED BY <2>1, Zenon DEF SameBlocks, SameTables, rest
<1>9. ASSUME NEW g \in 1..1 + num_spec_tokens, NEW k \in 1..1 + num_spec_tokens,
             StopRequest(g, k)
      PROVE  SameBlocks \/ \E r \in Request : Releases(r)
  <2> DEFINE r == Entry.id
  <2>1. g \in Int /\ k \in Int
    BY SMTT(30), SchedulerAssumption
  <2>2. /\ r \in Request /\ UNCHANGED <<seqs, batch_queue>>
        /\ \A s \in Request : s # r => req'[s] = req[s]
        /\ \/ req'[r] = Gone /\ Released(r)
           \/ /\ req'[r].blocks = req[r].blocks
              /\ req'[r].last_sched_seq = req[r].last_sched_seq /\ UNCHANGED blocks
    BY <1>9, <2>1, Zenon DEF Effects, StopRequestEffect
  <2> HIDE DEF r
  <2>3. CASE req'[r] = Gone /\ Released(r)
    BY <1>0, <2>2, <2>3, ReleasesFacts, Zenon
  <2>4. CASE ~(req'[r] = Gone /\ Released(r))
    BY <2>2, <2>4, Zenon DEF SameBlocks, SameTables
  <2> QED BY <2>3, <2>4, Zenon
<1>10. ASSUME NEW r \in Request, ReportLoaded(r) PROVE SameBlocks \/ Releases(r)
  <2>1. /\ UNCHANGED <<seqs, batch_queue>>
        /\ \A s \in Request : s # r => req'[s] = req[s]
        /\ \/ UNCHANGED <<req, blocks>>
           \/ req'[r] = Gone /\ Released(r)
    BY <1>10, Zenon DEF Effects, ReportLoadedEffect
  <2>2. CASE req'[r] = Gone /\ Released(r)
    BY <1>0, <2>1, <2>2, ReleasesFacts, Zenon
  <2>3. CASE UNCHANGED <<req, blocks>>
    BY <2>1, <2>3, Zenon DEF SameBlocks, SameTables
  <2> QED BY <2>1, <2>2, <2>3, Zenon
<1>11. ASSUME ResetRunning PROVE \E r \in Request : Releases(r)
  <2> DEFINE r == running[Len(running)]
  <2>1. /\ r \in Request /\ Released(r) /\ req'[r].blocks = {}
        /\ req'[r].last_sched_seq = req[r].last_sched_seq
        /\ \A s \in Request : s # r => req'[s] = req[s]
    BY <1>11, Zenon DEF Effects, ResetRunningEffect
  <2>2. UNCHANGED <<seqs, batch_queue>>
    BY <1>11, Zenon DEF ResetRunning, worker
  <2> HIDE DEF r
  <2> QED BY <1>0, <2>1, <2>2, ReleasesFacts, Zenon
<1>12. ASSUME NEW r \in Request, LoadDone(r) PROVE SameBlocks
  <2>1. UNCHANGED <<req, blocks, seqs, batch_queue>>
    BY <1>12, Zenon DEF LoadDone, worker
  <2> QED BY <2>1, ZenonT(30) DEF SameBlocks, SameTables
<1> HIDE DEF SameBlocks, Allocates, Releases
<1>13. CASE Schedule
  BY <1>1, <1>2, <1>3, <1>4, <1>5, <1>6, <1>7, <1>13, Zenon DEF Schedule
<1>14. CASE Update
  BY <1>1, <1>8, <1>9, <1>10, <1>14, ZenonT(30) DEF Update
<1> QED BY <1>11, <1>12, <1>13, <1>14, Zenon

-----------------------------------------------------------------------------
(* A block keeps one owner, whatever the step does.                         *)
LEMMA OwnedSame ==
  ASSUME Owned, SameTables(Request), UNCHANGED blocks
  PROVE  Owned'
BY SMTT(30) DEF Owned, SameTables, blocks

LEMMA OwnedAllocates ==
  ASSUME BlocksOK, Owned, NEW r \in Request, Allocates(r)
  PROVE  Owned'
<1>1. PICK new \in SUBSET free :
        free' = free \ new /\ req'[r].blocks = req[r].blocks \cup new
  BY ZenonT(30) DEF Allocates
<1>2. /\ \A s \in Request : s # r => req'[s].blocks = req[s].blocks
      /\ deferred_frees' = deferred_frees
  BY Zenon DEF Allocates, SameTables
<1>3. \A s \in Request : \A b \in req'[s].blocks :
        b \notin free' /\ \A t \in Request : b \in req'[t].blocks => t = s
  BY SMTT(30), <1>1, <1>2 DEF Owned
<1>4. \A i \in 1..Len(deferred_frees') : \A b \in deferred_frees'[i].blocks :
        /\ b \notin free' /\ \A s \in Request : b \notin req'[s].blocks
        /\ \A j \in 1..Len(deferred_frees') : b \in deferred_frees'[j].blocks => j = i
  BY SMTT(30), <1>1, <1>2 DEF Owned
<1>5. ASSUME NEW b \in Block
      PROVE  \/ b \in free'
             \/ \E s \in Request : b \in req'[s].blocks
             \/ \E i \in 1..Len(deferred_frees') : b \in deferred_frees'[i].blocks
  <2>1. CASE b \in free
    BY <1>1, <2>1, Zenon
  <2>2. CASE \E s \in Request : b \in req[s].blocks
    BY <1>1, <1>2, <2>2, Zenon
  <2>3. CASE \E i \in 1..Len(deferred_frees) : b \in deferred_frees[i].blocks
    BY <1>2, <2>3, Zenon
  <2> QED BY <2>1, <2>2, <2>3, Zenon DEF Owned
<1> QED BY <1>3, <1>4, <1>5, Zenon DEF Owned

LEMMA OwnedReleases ==
  ASSUME ListFacts, ReqOK, BlocksOK, Owned, NEW r \in Request, Releases(r)
  PROVE  Owned'
<1> DEFINE q == deferred_frees
           n == Len(q)
<1>0. q \in Seq(Deferred) /\ n \in Nat
  BY Zenon DEF BlocksOK, ListFacts, LenFact
<1>1. req'[r].blocks = {} /\ \A s \in Request : s # r => req'[s].blocks = req[s].blocks
  BY Zenon DEF Releases, SameTables
<1>2. CASE free' = free \cup req[r].blocks /\ deferred_frees' = deferred_frees
  <2>1. \A s \in Request : \A b \in req'[s].blocks :
          b \notin free' /\ \A t \in Request : b \in req'[t].blocks => t = s
    BY <1>1, <1>2, ZenonT(30) DEF Owned
  <2>2. \A i \in 1..Len(deferred_frees') : \A b \in deferred_frees'[i].blocks :
          /\ b \notin free' /\ \A s \in Request : b \notin req'[s].blocks
          /\ \A j \in 1..Len(deferred_frees') : b \in deferred_frees'[j].blocks => j = i
    BY SMTT(30), <1>1, <1>2 DEF Owned
  <2>3. \A b \in Block :
          \/ b \in free'
          \/ \E s \in Request : b \in req'[s].blocks
          \/ \E i \in 1..Len(deferred_frees') : b \in deferred_frees'[i].blocks
    BY <1>1, <1>2, Zenon DEF Owned
  <2> QED BY <2>1, <2>2, <2>3, Zenon DEF Owned
<1>3. CASE /\ free' = free
           /\ deferred_frees' = Append(q, [fence |-> sched_step_seq,
                                           blocks |-> req[r].blocks])
  <2> DEFINE d == [fence |-> sched_step_seq, blocks |-> req[r].blocks]
             p == deferred_frees'
  <2>1. /\ p = Append(q, d) /\ d.blocks = req[r].blocks
    BY <1>3, Zenon
  <2> HIDE DEF d
  <2>2. /\ Len(p) = n + 1 /\ p[n + 1] = d /\ \A i \in 1..n : p[i] = q[i]
    BY <1>0, <2>1 DEF ListFacts, AppendFact
  <2>3. \A i \in 1..n + 1 : i \in 1..n \/ i = n + 1
    BY SMTT(30), <1>0
  <2>30. \A i \in 1..n : i \in 1..n + 1 /\ i # n + 1
    BY <1>0
  <2>31. n + 1 \in 1..n + 1
    BY <1>0
  <2> HIDE DEF p, q, n
  <2>4. \A s \in Request : \A b \in req'[s].blocks :
          b \notin free' /\ \A t \in Request : b \in req'[t].blocks => t = s
    BY <1>1, <1>3, Zenon DEF Owned
  <2>5. ASSUME NEW i \in 1..n + 1, NEW b \in p[i].blocks
        PROVE  /\ b \notin free' /\ \A s \in Request : b \notin req'[s].blocks
               /\ \A j \in 1..n + 1 : b \in p[j].blocks => j = i
    <3>0. /\ \A s \in Request : \A x \in req[s].blocks :
               x \notin free /\ \A t \in Request : x \in req[t].blocks => t = s
          /\ \A k \in 1..n : \A x \in q[k].blocks :
               /\ x \notin free /\ \A s \in Request : x \notin req[s].blocks
               /\ \A j \in 1..n : x \in q[j].blocks => j = k
      BY Zenon DEF Owned, q, n
    <3>1. CASE i \in 1..n
      <4>1. b \in q[i].blocks
        BY <2>2, <2>5, <3>1, Zenon
      <4>2. b \notin free /\ \A s \in Request : b \notin req[s].blocks
        BY <3>0, <3>1, <4>1, Zenon
      <4>3. \A s \in Request : b \notin req'[s].blocks
        BY <1>1, <4>2, Zenon
      <4>4. b \notin p[n + 1].blocks
        BY <2>1, <2>2, <4>2, Zenon
      <4>5. \A j \in 1..n : b \in p[j].blocks => j = i
        BY <2>2, <3>0, <3>1, <4>1, Zenon
      <4> QED BY <1>3, <2>3, <4>2, <4>3, <4>4, <4>5, Zenon
    <3>2. CASE i = n + 1
      <4>1. b \in req[r].blocks
        BY <2>1, <2>2, <2>5, <3>2, Zenon
      <4> QED BY <1>1, <1>3, <2>2, <2>3, <3>0, <3>2, <4>1, ZenonT(30)
    <3> QED BY <2>3, <3>1, <3>2, Zenon
  <2>6. ASSUME NEW b \in Block
        PROVE  \/ b \in free'
               \/ \E s \in Request : b \in req'[s].blocks
               \/ \E i \in 1..n + 1 : b \in p[i].blocks
    <3>1. CASE b \in free
      BY <1>3, <3>1, ZenonT(30)
    <3>2. CASE \E s \in Request : b \in req[s].blocks
      BY <1>1, <2>1, <2>2, <2>31, <3>2, Zenon
    <3>3. CASE \E i \in 1..n : b \in q[i].blocks
      BY <2>2, <2>30, <3>3, Zenon
    <3> QED BY <3>1, <3>2, <3>3, Zenon DEF Owned, q, n
  <2>7. Len(deferred_frees') = n + 1 /\ p = deferred_frees'
    BY <2>2, ZenonT(30) DEF p
  <2> QED BY <2>4, <2>5, <2>6, <2>7, ZenonT(30) DEF Owned
<1> QED BY <1>2, <1>3, Zenon DEF Releases, Released

Drains(k) ==
  /\ free' = free \cup UNION {deferred_frees[i].blocks : i \in 1..k}
  /\ deferred_frees' = SubSeq(deferred_frees, k + 1, Len(deferred_frees))
  /\ UNCHANGED req

LEMMA OwnedDrain ==
  ASSUME ListFacts, BlocksOK, Owned, NEW k \in 0..Len(deferred_frees), Drains(k)
  PROVE  Owned'
<1> DEFINE q == deferred_frees
           n == Len(q)
           p == deferred_frees'
<1>0. q \in Seq(Deferred) /\ n \in Nat /\ k \in 0..n /\ k \in Nat /\ k <= n
  BY SMTT(30) DEF BlocksOK, ListFacts, LenFact
<1>1. /\ Len(p) = n - k /\ \A i \in 1..n - k : p[i] = q[k + i]
  <2>1. q \in Seq(Deferred) /\ k \in 0..Len(q)
    BY <1>0, Zenon
  <2>2. p = SubSeq(q, k + 1, Len(q))
    BY Zenon DEF Drains
  <2> HIDE DEF q
  <2> QED BY SMTT(30), <2>1, <2>2 DEF ListFacts, SplitElemsFact
<1>2. \A b : b \in free' <=> b \in free \/ \E i \in 1..k : b \in q[i].blocks
  BY Zenon DEF Drains
<1>3. /\ \A s \in Request : \A b \in req[s].blocks :
           b \notin free /\ \A t \in Request : b \in req[t].blocks => t = s
      /\ \A i \in 1..n : \A b \in q[i].blocks :
           /\ b \notin free /\ \A s \in Request : b \notin req[s].blocks
           /\ \A j \in 1..n : b \in q[j].blocks => j = i
      /\ \A b \in Block : \/ b \in free
                          \/ \E s \in Request : b \in req[s].blocks
                          \/ \E i \in 1..n : b \in q[i].blocks
  BY Zenon DEF Owned
<1> HIDE DEF p, q, n
<1>4. \A s \in Request : \A b \in req'[s].blocks :
        b \notin free' /\ \A t \in Request : b \in req'[t].blocks => t = s
  <2>1. \A i \in 1..k : i \in 1..n
    BY SMTT(30), <1>0
  <2> QED BY <1>2, <1>3, <2>1, Zenon DEF Drains
<1>5. ASSUME NEW i \in 1..n - k, NEW b \in p[i].blocks
      PROVE  /\ b \notin free' /\ \A s \in Request : b \notin req'[s].blocks
             /\ \A j \in 1..n - k : b \in p[j].blocks => j = i
  <2>1. b \in q[k + i].blocks /\ k + i \in 1..n
    BY SMTT(30), <1>0, <1>1, <1>5
  <2>2. \A j \in 1..k : j \in 1..n /\ j # k + i
    BY SMTT(30), <1>0
  <2>3. b \notin free'
    BY <1>2, <1>3, <2>1, <2>2, Zenon
  <2>4. ASSUME NEW j \in 1..n - k, b \in p[j].blocks PROVE j = i
    <3>0. p[j] = q[k + j]
      BY <1>1, ZenonT(30)
    <3>1. b \in q[k + j].blocks /\ k + j \in 1..n
      BY SMTT(30), <1>0, <2>4, <3>0
    <3>2. k + j = k + i
      BY <1>3, <2>1, <3>1, Zenon
    <3> QED BY <1>0, <3>2
  <2> QED BY <1>3, <2>1, <2>3, <2>4, Zenon DEF Drains
<1>6. ASSUME NEW b \in Block
      PROVE  \/ b \in free'
             \/ \E s \in Request : b \in req'[s].blocks
             \/ \E i \in 1..Len(p) : b \in p[i].blocks
  <2>1. CASE \E i \in 1..n : b \in q[i].blocks
    <3>1. PICK i \in 1..n : b \in q[i].blocks
      BY <2>1, Zenon
    <3>2. CASE i \in 1..k
      BY <1>2, <3>1, <3>2, Zenon
    <3>3. CASE i \notin 1..k
      <4>1. i - k \in 1..n - k /\ k + (i - k) = i
        BY <1>0, <3>3
      <4> QED BY <1>1, <3>1, <4>1, Zenon
    <3> QED BY <3>2, <3>3, Zenon
  <2> QED BY <1>2, <1>3, <2>1, Zenon DEF Drains
<1>7. \A i \in 1..Len(p) : \A b \in p[i].blocks :
        /\ b \notin free' /\ \A s \in Request : b \notin req'[s].blocks
        /\ \A j \in 1..Len(p) : b \in p[j].blocks => j = i
  BY <1>1, <1>5, Zenon
<1>8. \A b \in Block :
        \/ b \in free'
        \/ \E s \in Request : b \in req'[s].blocks
        \/ \E i \in 1..Len(p) : b \in p[i].blocks
  BY <1>6, Zenon
<1> QED BY <1>4, <1>7, <1>8, Zenon DEF Owned, p

-----------------------------------------------------------------------------
(* A batch in flight keeps its blocks, whatever the step does.              *)
LEMMA FencedSame ==
  ASSUME ListFacts, Facts, BatchesOK, Fenced, SameBlocks
  PROVE  Fenced'
<1>1. PICK f : Numbered(f) /\ FencedBy(f)
  BY Zenon DEF Fenced
<1>2. /\ UNCHANGED <<deferred_frees, sched_step_seq, processed_step_seq, batch_queue>>
      /\ \A r \in Request : /\ req'[r].blocks = req[r].blocks
                            /\ req'[r].last_sched_seq = req[r].last_sched_seq
  BY Zenon DEF SameBlocks, SameTables, blocks, seqs
<1>3. Numbered(f)'
  BY <1>1, <1>2, Zenon DEF Numbered
<1>4. \A i \in 1..Len(batch_queue) : \A e \in Elems(batch_queue[i]) : e.id \in Request
  BY Zenon DEF Facts, BatchEntryFact
<1>5. FencedBy(f)'
  BY <1>1, <1>2, <1>4 DEF FencedBy
<1>6. \A r \in Request : req'[r].last_sched_seq <= sched_step_seq'
  BY <1>2, Zenon DEF Fenced
<1> QED BY <1>3, <1>5, <1>6, Zenon DEF Fenced

LEMMA FencedAllocates ==
  ASSUME ListFacts, Facts, BatchesOK, Fenced, NEW r \in Request, Allocates(r)
  PROVE  Fenced'
<1>1. PICK f : Numbered(f) /\ FencedBy(f)
  BY Zenon DEF Fenced
<1>2. /\ UNCHANGED <<deferred_frees, sched_step_seq, processed_step_seq, batch_queue>>
      /\ \A s \in Request : /\ req[s].blocks \subseteq req'[s].blocks
                            /\ req'[s].last_sched_seq = req[s].last_sched_seq
  BY Zenon DEF Allocates, SameTables, seqs
<1>3. Numbered(f)'
  BY <1>1, <1>2, ZenonT(30) DEF Numbered
<1>4. \A i \in 1..Len(batch_queue) : \A e \in Elems(batch_queue[i]) : e.id \in Request
  BY Zenon DEF Facts, BatchEntryFact
<1>5. FencedBy(f)'
  BY <1>1, <1>2, <1>4 DEF FencedBy
<1>6. \A s \in Request : req'[s].last_sched_seq <= sched_step_seq'
  BY <1>2, Zenon DEF Fenced
<1> QED BY <1>3, <1>5, <1>6, Zenon DEF Fenced

LEMMA FencedReleases ==
  ASSUME ListFacts, Facts,
         defer_block_free, ReqOK, ReqOK', BlocksOK, SeqsOK, BatchesOK, Fenced,
         NEW r \in Request, Releases(r)
  PROVE  Fenced'
<1>1. PICK f : Numbered(f) /\ FencedBy(f)
  BY Zenon DEF Fenced
<1> DEFINE n == Len(batch_queue)
           q == deferred_frees
           m == Len(q)
           d == [fence |-> sched_step_seq, blocks |-> req[r].blocks]
<1>2. /\ UNCHANGED <<sched_step_seq, processed_step_seq, batch_queue>>
      /\ \A s \in Request : s # r => /\ req'[s].blocks = req[s].blocks
                                     /\ req'[s].last_sched_seq = req[s].last_sched_seq
      /\ req'[r].last_sched_seq <= req[r].last_sched_seq
  BY Zenon DEF Releases, SameTables, seqs
<1>3. Numbered(f)'
  BY <1>1, <1>2, Zenon DEF Numbered
<1>4. \A i \in 1..n : \A e \in Elems(batch_queue[i]) : e.id \in Request /\ batch_queue[i] # <<>>
  BY Zenon DEF Facts, BatchEntryFact
<1>5. /\ q \in Seq(Deferred) /\ m \in Nat /\ n \in Nat /\ batch_queue \in Seq(Seq(InBatch))
  BY ZenonT(30) DEF BlocksOK, BatchesOK, ListFacts, LenFact
<1>6. /\ req[r].last_sched_seq \in Nat /\ sched_step_seq \in Nat /\ processed_step_seq \in Nat
      /\ req'[r].last_sched_seq \in Nat
  BY Zenon DEF ReqOK, Rec, SeqsOK
<1>7. \A i \in 1..n : /\ f[i] \in Nat /\ f[i] <= sched_step_seq
                      /\ batch_queue[i] # <<>> => processed_step_seq < f[i]
  <2> SUFFICES ASSUME NEW i \in 1..n
               PROVE  /\ f[i] \in Nat /\ f[i] <= sched_step_seq
                      /\ batch_queue[i] # <<>> => processed_step_seq < f[i]
    BY Zenon
  <2>1. i \in 0..n /\ i - 1 \in 0..n /\ 0 \in 0..n /\ n \in 0..n /\ 0 <= i - 1 /\ i <= n
    BY <1>5
  <2>2. f[i] \in Nat /\ f[i - 1] \in Nat /\ f[0] = processed_step_seq /\ f[n] = sched_step_seq
    BY <1>1, <2>1, Zenon DEF Numbered
  <2>3. f[i] <= f[n] /\ f[0] <= f[i - 1]
    BY <1>1, <2>1, Zenon DEF Numbered
  <2>4. f[i] = f[i - 1] + (IF batch_queue[i] = <<>> THEN 0 ELSE 1)
    BY <1>1, Zenon DEF Numbered
  <2> QED BY SMTT(30), <2>2, <2>3, <2>4, <1>6
<1>8. \A s \in Request : req'[s].last_sched_seq <= sched_step_seq'
  <2>1. req[r].last_sched_seq <= sched_step_seq
    BY Zenon DEF Fenced
  <2>2. req'[r].last_sched_seq <= sched_step_seq
    BY SMTT(30), <1>2, <1>6, <2>1
  <2> QED BY <1>2, <2>2, Zenon DEF Fenced
<1>9. CASE /\ deferred_frees' = q
           /\ req[r].last_sched_seq <= processed_step_seq \/ req[r].blocks = {}
  <2>1. ASSUME NEW i \in 1..n, NEW e \in Elems(batch_queue[i]), NEW b \in e.blocks
        PROVE  \/ b \in req'[e.id].blocks /\ f[i] <= req'[e.id].last_sched_seq
               \/ \E j \in 1..m : b \in q[j].blocks /\ f[i] <= q[j].fence
    <3>1. \/ b \in req[e.id].blocks /\ f[i] <= req[e.id].last_sched_seq
          \/ \E j \in 1..m : b \in q[j].blocks /\ f[i] <= q[j].fence
      BY <1>1, Zenon DEF FencedBy
    <3>2. processed_step_seq < f[i] /\ f[i] \in Nat /\ e.id \in Request
      BY <1>4, <1>7, ZenonT(30)
    <3>3. ASSUME e.id = r, b \in req[r].blocks, f[i] <= req[r].last_sched_seq PROVE FALSE
      BY SMTT(30), <1>6, <1>9, <3>2, <3>3
    <3> QED BY <1>2, <3>1, <3>2, <3>3, Zenon
  <2>2. FencedBy(f)'
    BY <1>2, <1>9, <2>1, ZenonT(30) DEF FencedBy
  <2> QED BY <1>3, <1>8, <2>2, Zenon DEF Fenced
<1>10. CASE deferred_frees' = Append(q, d)
  <2> DEFINE p == deferred_frees'
  <2>0. d.fence = sched_step_seq /\ d.blocks = req[r].blocks
    BY Zenon
  <2> HIDE DEF d
  <2>1. Len(p) = m + 1 /\ p[m + 1] = d /\ \A i \in 1..m : p[i] = q[i]
    BY SMTT(30), <1>5, <1>10 DEF ListFacts, AppendFact
  <2>2. m + 1 \in 1..m + 1 /\ \A i \in 1..m : i \in 1..m + 1
    BY SMTT(30), <1>5
  <2> HIDE DEF p
  <2>3. ASSUME NEW i \in 1..n, NEW e \in Elems(batch_queue[i]), NEW b \in e.blocks
        PROVE  \/ b \in req'[e.id].blocks /\ f[i] <= req'[e.id].last_sched_seq
               \/ \E j \in 1..m + 1 : b \in p[j].blocks /\ f[i] <= p[j].fence
    <3>1. \/ b \in req[e.id].blocks /\ f[i] <= req[e.id].last_sched_seq
          \/ \E j \in 1..m : b \in q[j].blocks /\ f[i] <= q[j].fence
      BY <1>1, Zenon DEF FencedBy
    <3>2. f[i] <= sched_step_seq /\ e.id \in Request
      BY <1>4, <1>7, Zenon
    <3>3. CASE e.id = r /\ b \in req[r].blocks
      BY <2>0, <2>1, <2>2, <3>2, <3>3, Zenon
    <3>4. CASE e.id # r /\ b \in req[e.id].blocks /\ f[i] <= req[e.id].last_sched_seq
      BY <1>2, <3>2, <3>4, Zenon
    <3>5. CASE \E j \in 1..m : b \in q[j].blocks /\ f[i] <= q[j].fence
      BY <2>1, <2>2, <3>5, Zenon
    <3> QED BY <3>1, <3>3, <3>4, <3>5, Zenon
  <2>4. Len(p) = m + 1 /\ p = deferred_frees' /\ batch_queue' = batch_queue
    BY <1>2, <2>1, Zenon DEF p
  <2>5. FencedBy(f)'
    BY <2>3, <2>4, Zenon DEF FencedBy
  <2> QED BY <1>3, <1>8, <2>5, Zenon DEF Fenced
<1> QED BY <1>9, <1>10, Zenon DEF Releases, Released

LEMMA FencedEnd ==
  ASSUME ListFacts, Facts, Effects, defer_block_free, TInv, Fenced, EndSchedule
  PROVE  Fenced'
<1>1. PICK f : Numbered(f) /\ FencedBy(f)
  BY Zenon DEF Fenced
<1> DEFINE n == Len(batch_queue)
           ids == {e.id : e \in Elems(step.scheduled)}
           w == sched_step_seq'
<1>0. ReqOK /\ SeqsOK /\ BatchesOK /\ ReqOK' /\ SeqsOK'
  BY Zenon DEF TInv, Effects, EndScheduleEffect
<1>2. /\ \A r \in Request :
           /\ req'[r].blocks = req[r].blocks
           /\ r \notin ids => req'[r] = req[r]
           /\ r \in ids => req'[r].last_sched_seq = w
      /\ w = IF step.scheduled # <<>> THEN sched_step_seq + 1 ELSE sched_step_seq
      /\ Batch \in Seq(InBatch) /\ Len(Batch) = Len(step.scheduled)
      /\ batch_queue' = Append(batch_queue, Batch)
      /\ UNCHANGED <<deferred_frees, processed_step_seq>>
      /\ step.scheduled \in Seq(Scheduled)
  BY Zenon DEF blocks, Effects, EndScheduleEffect
<1>3. \A i \in 1..Len(Batch) : /\ Batch[i].id = step.scheduled[i].id
                               /\ Batch[i].blocks = req[Batch[i].id].blocks
  BY Zenon DEF Effects, EndScheduleEffect
<1>4. n \in Nat /\ sched_step_seq \in Nat /\ processed_step_seq \in Nat /\ w \in Nat
  BY <1>0, ZenonT(30) DEF SeqsOK, BatchesOK, ListFacts, LenFact
<1>5. /\ Len(batch_queue') = n + 1 /\ batch_queue'[n + 1] = Batch
      /\ \A i \in 1..n : batch_queue'[i] = batch_queue[i]
  BY SMTT(30), <1>0, <1>2 DEF BatchesOK, ListFacts, AppendFact
<1>6. Batch = <<>> <=> step.scheduled = <<>>
  <2>1. Batch = <<>> <=> Len(Batch) = 0
    BY <1>2, ZenonT(30) DEF ListFacts, EmptySeqFact
  <2>2. step.scheduled = <<>> <=> Len(step.scheduled) = 0
    BY <1>2, Zenon DEF ListFacts, EmptySeqFact
  <2> QED BY <1>2, <2>1, <2>2, Zenon
<1>7. /\ f \in [0..n -> Nat] /\ f[0] = processed_step_seq /\ f[n] = sched_step_seq
      /\ \A i \in 1..n : f[i] = f[i - 1] + (IF batch_queue[i] = <<>> THEN 0 ELSE 1)
      /\ \A i, j \in 0..n : i <= j => f[i] <= f[j]
  BY <1>1, Zenon DEF Numbered
<1>70. sched_step_seq <= w
  BY SMTT(30), <1>2, <1>4
<1>71. w = sched_step_seq + (IF Batch = <<>> THEN 0 ELSE 1)
  BY SMTT(30), <1>2, <1>4, <1>6
<1> HIDE DEF n, w, ids
<1>8. PICK g : g \in [0..n + 1 -> Nat] /\ g[n + 1] = w /\ \A i \in 0..n : g[i] = f[i]
  <2> DEFINE h == [i \in 0..n + 1 |-> IF i = n + 1 THEN w ELSE f[i]]
  <2>1. h \in [0..n + 1 -> Nat] /\ h[n + 1] = w /\ \A i \in 0..n : h[i] = f[i]
    BY SMTT(30), <1>4, <1>7
  <2> HIDE DEF h
  <2> QED BY <2>1, Zenon
<1>9. Numbered(g)'
  <2>1. g[0] = processed_step_seq
    BY <1>4, <1>7, <1>8
  <2>2. ASSUME NEW i \in 1..n + 1
        PROVE  g[i] = g[i - 1] + (IF batch_queue'[i] = <<>> THEN 0 ELSE 1)
    <3>1. CASE i = n + 1
      <4>1. i - 1 = n /\ n \in 0..n
        BY <1>4, <3>1
      <4>2. g[i - 1] = sched_step_seq /\ g[i] = w /\ batch_queue'[i] = Batch
        BY <1>5, <1>7, <1>8, <3>1, <4>1, ZenonT(30)
      <4> QED BY <1>71, <4>2, Zenon
    <3>2. CASE i # n + 1
      <4>1. i \in 1..n /\ i \in 0..n /\ i - 1 \in 0..n
        BY <1>4, <3>2
      <4> QED BY <1>5, <1>7, <1>8, <4>1, Zenon
    <3> QED BY <3>1, <3>2, ZenonT(30)
  <2>3. ASSUME NEW i \in 0..n + 1, NEW j \in 0..n + 1, i <= j PROVE g[i] <= g[j]
    <3>0. n \in 0..n
      BY SMTT(30), <1>4
    <3>1. CASE i = n + 1
      <4>1. j = n + 1
        BY SMTT(30), <1>4, <2>3, <3>1
      <4> QED BY SMTT(30), <1>4, <1>8, <3>1, <4>1
    <3>2. CASE i # n + 1 /\ j = n + 1
      <4>1. i \in 0..n /\ i <= n
        BY <1>4, <3>2
      <4>2. f[i] <= f[n] /\ f[i] \in Nat
        BY <1>7, <3>0, <4>1, ZenonT(30)
      <4> QED BY SMTT(30), <1>4, <1>7, <1>70, <1>8, <3>2, <4>1, <4>2
    <3>3. CASE i # n + 1 /\ j # n + 1
      <4>1. i \in 0..n /\ j \in 0..n
        BY <1>4, <3>3
      <4> QED BY <1>7, <1>8, <2>3, <4>1, Zenon
    <3> QED BY <3>1, <3>2, <3>3, ZenonT(30)
  <2>4. /\ Len(batch_queue') = n + 1 /\ g[n + 1] = sched_step_seq'
        /\ g[0] = processed_step_seq'
    BY <1>2, <1>5, <1>8, <2>1, ZenonT(30) DEF w
  <2>5. g \in [0..n + 1 -> Nat]
    BY <1>8, Zenon
  <2> QED BY <2>2, <2>3, <2>4, <2>5, Zenon DEF Numbered
<1>10. \A r \in Request : /\ req[r].last_sched_seq \in Nat /\ req'[r].last_sched_seq \in Nat
                          /\ req[r].last_sched_seq <= sched_step_seq
                          /\ req'[r].last_sched_seq = w \/ req'[r].last_sched_seq = req[r].last_sched_seq
  <2>1. \A r \in Request : req[r].last_sched_seq \in Nat /\ req'[r].last_sched_seq \in Nat
    BY <1>0, ZenonT(30) DEF ReqOK, Rec
  <2> QED BY <1>2, <2>1, Zenon DEF Fenced
<1>11. \A r \in Request : req'[r].last_sched_seq <= w
  BY SMTT(30), <1>4, <1>10, <1>70
<1>12. ASSUME NEW i \in 1..n + 1, NEW e \in Elems(batch_queue'[i]), NEW b \in e.blocks
       PROVE  \/ b \in req'[e.id].blocks /\ g[i] <= req'[e.id].last_sched_seq
              \/ \E d \in 1..Len(deferred_frees) :
                   b \in deferred_frees[d].blocks /\ g[i] <= deferred_frees[d].fence
  <2>1. CASE i = n + 1
    <3>1. PICK j \in 1..Len(Batch) : e = Batch[j]
      BY <1>5, <2>1, Zenon DEF Elems
    <3>2. e \in InBatch
      BY <1>2, <3>1
    <3>3. e.id \in Request
      BY <3>2, ZenonT(30) DEF InBatch
    <3>4. e.id = step.scheduled[j].id /\ e.blocks = req[e.id].blocks /\ j \in 1..Len(step.scheduled)
      BY <1>2, <1>3, <3>1, Zenon
    <3>5. e.id \in ids
      BY <3>4, Zenon DEF ids, Elems
    <3>6. req'[e.id].last_sched_seq = w /\ b \in req'[e.id].blocks
      BY <1>2, <1>12, <3>3, <3>4, <3>5, ZenonT(30)
    <3> QED BY SMTT(30), <1>4, <1>8, <2>1, <3>6
  <2>2. CASE i # n + 1
    <3>1. i \in 1..n /\ i \in 0..n /\ n \in 0..n /\ i <= n
      BY <1>4, <2>2
    <3>2. e \in Elems(batch_queue[i]) /\ g[i] = f[i] /\ f[i] \in Nat /\ f[i] <= sched_step_seq
      <4>1. e \in Elems(batch_queue[i])
        BY <1>5, <3>1, Zenon
      <4> QED BY <1>7, <1>8, <3>1, <4>1, ZenonT(30)
    <3>3. e.id \in Request
      BY <1>0, <3>1, <3>2, Zenon DEF n, Facts, BatchEntryFact
    <3>4. \/ b \in req[e.id].blocks /\ f[i] <= req[e.id].last_sched_seq
          \/ \E d \in 1..Len(deferred_frees) :
               b \in deferred_frees[d].blocks /\ f[i] <= deferred_frees[d].fence
      BY <1>1, <3>1, <3>2, ZenonT(30) DEF FencedBy, n
    <3>5. CASE b \in req[e.id].blocks /\ f[i] <= req[e.id].last_sched_seq
      <4>1. b \in req'[e.id].blocks
        BY <1>2, <3>3, <3>5, Zenon
      <4>2. f[i] <= req'[e.id].last_sched_seq
        BY SMTT(30), <1>4, <1>10, <1>70, <3>2, <3>3, <3>5
      <4> QED BY <3>2, <4>1, <4>2, ZenonT(30)
    <3> QED BY <3>2, <3>4, <3>5, Zenon
  <2> QED BY <2>1, <2>2, Zenon
<1>13. FencedBy(g)'
  <2>1. Len(batch_queue') = n + 1 /\ deferred_frees' = deferred_frees
    BY <1>2, <1>5, Zenon
  <2> QED BY <1>12, <2>1, Zenon DEF FencedBy
<1> QED BY <1>9, <1>11, <1>13, Zenon DEF Fenced, w

LEMMA FencedBegin ==
  ASSUME ListFacts, Facts, Effects, defer_block_free, TInv, Fenced, BeginUpdate
  PROVE  Fenced'
<1>1. PICK f : Numbered(f) /\ FencedBy(f)
  BY Zenon DEF Fenced
<1> DEFINE n == Len(batch_queue)
           q == deferred_frees
           m == Len(q)
           v == processed_step_seq'
<1>0. BlocksOK /\ SeqsOK /\ BatchesOK /\ batch_queue # <<>>
  BY Zenon DEF TInv, Effects, BeginUpdateEffect
<1>2. /\ batch_queue' = Tail(batch_queue) /\ UNCHANGED <<req, sched_step_seq>>
      /\ v = IF Head(batch_queue) # <<>> THEN processed_step_seq + 1 ELSE processed_step_seq
  BY ZenonT(30) DEF Effects, BeginUpdateEffect
<1>3. PICK k \in 0..m : /\ \A i \in 1..k : q[i].fence <= v
                        /\ deferred_frees' = SubSeq(q, k + 1, m)
  BY Zenon DEF Effects, BeginUpdateEffect
<1>4. /\ n \in Nat \ {0} /\ q \in Seq(Deferred) /\ m \in Nat /\ k \in Nat /\ k <= m
      /\ batch_queue \in Seq(Seq(InBatch))
  BY SMTT(30), <1>0 DEF BlocksOK, BatchesOK, ListFacts, LenFact, EmptySeqFact
<1>5. /\ Len(batch_queue') = n - 1 /\ Head(batch_queue) = batch_queue[1]
      /\ \A i \in 1..n - 1 : batch_queue'[i] = batch_queue[i + 1]
  BY SMTT(30), <1>0, <1>2, <1>4 DEF ListFacts, TailElemsFact
<1>6. Len(deferred_frees') = m - k /\ \A i \in 1..m - k : deferred_frees'[i] = q[k + i]
  <2>1. q \in Seq(Deferred) /\ k \in 0..Len(q) /\ deferred_frees' = SubSeq(q, k + 1, Len(q))
    BY <1>3, <1>4, Zenon
  <2> HIDE DEF q
  <2> QED BY SMTT(30), <2>1 DEF ListFacts, SplitElemsFact
<1>7. /\ f \in [0..n -> Nat] /\ f[0] = processed_step_seq /\ f[n] = sched_step_seq
      /\ \A i \in 1..n : f[i] = f[i - 1] + (IF batch_queue[i] = <<>> THEN 0 ELSE 1)
      /\ \A i, j \in 0..n : i <= j => f[i] <= f[j]
  BY <1>1, ZenonT(30) DEF Numbered
<1>8. ASSUME NEW i \in 1..m PROVE q[i].fence \in Nat
  <2>1. q[i] \in Deferred
    BY SMTT(30), <1>4
  <2> HIDE DEF q
  <2> QED BY <2>1, Zenon DEF Deferred
<1> HIDE DEF n, m, q
<1>9. f[1] = v /\ v \in Nat
  <2>1. 1 \in 1..n /\ 1 - 1 = 0 /\ 0 \in 0..n
    BY SMTT(30), <1>4
  <2>2. f[1] = f[0] + (IF batch_queue[1] = <<>> THEN 0 ELSE 1) /\ f[0] \in Nat
    BY <1>7, <2>1, Zenon
  <2> QED BY SMTT(30), <1>2, <1>5, <1>7, <2>2
<1> HIDE DEF v
<1>10. PICK g : g \in [0..n - 1 -> Nat] /\ \A i \in 0..n - 1 : g[i] = f[i + 1]
  <2> DEFINE h == [i \in 0..n - 1 |-> f[i + 1]]
  <2>1. \A i \in 0..n - 1 : i + 1 \in 0..n
    BY SMTT(30), <1>4
  <2>2. h \in [0..n - 1 -> Nat] /\ \A i \in 0..n - 1 : h[i] = f[i + 1]
    BY <1>7, <2>1, Zenon
  <2> HIDE DEF h
  <2> QED BY <2>2, Zenon
<1>11. Numbered(g)'
  <2>0. \A i \in 0..n - 1 : i + 1 \in 0..n
    BY SMTT(30), <1>4
  <2>1. g[0] = v /\ g[n - 1] = sched_step_seq
    <3>1. 0 \in 0..n - 1 /\ 0 + 1 = 1 /\ n - 1 \in 0..n - 1 /\ (n - 1) + 1 = n
      BY SMTT(30), <1>4
    <3> QED BY <1>7, <1>9, <1>10, <3>1, Zenon
  <2>2. ASSUME NEW i \in 1..n - 1
        PROVE  g[i] = g[i - 1] + (IF batch_queue'[i] = <<>> THEN 0 ELSE 1)
    <3>1. i \in 0..n - 1 /\ i - 1 \in 0..n - 1 /\ i + 1 \in 1..n /\ (i - 1) + 1 = (i + 1) - 1
      BY SMTT(30), <1>4
    <3>2. f[i + 1] = f[(i + 1) - 1] + (IF batch_queue[i + 1] = <<>> THEN 0 ELSE 1)
      BY <1>7, <3>1, ZenonT(30)
    <3>3. g[i] = f[i + 1] /\ g[i - 1] = f[(i + 1) - 1] /\ batch_queue'[i] = batch_queue[i + 1]
      BY <1>5, <1>10, <3>1, Zenon
    <3> QED BY <3>2, <3>3, Zenon
  <2>3. ASSUME NEW i \in 0..n - 1, NEW j \in 0..n - 1, i <= j PROVE g[i] <= g[j]
    <3>1. i + 1 \in 0..n /\ j + 1 \in 0..n /\ i + 1 <= j + 1
      BY SMTT(30), <1>4, <2>3
    <3> QED BY <1>7, <1>10, <3>1, Zenon
  <2>4. /\ Len(batch_queue') = n - 1 /\ g[n - 1] = sched_step_seq'
        /\ g[0] = processed_step_seq' /\ g \in [0..n - 1 -> Nat]
    BY <1>2, <1>5, <1>10, <2>1, Zenon DEF v
  <2> QED BY <2>2, <2>3, <2>4, ZenonT(30) DEF Numbered
<1>12. ASSUME NEW i \in 1..n - 1, NEW e \in Elems(batch_queue'[i]), NEW b \in e.blocks
       PROVE  \/ b \in req'[e.id].blocks /\ g[i] <= req'[e.id].last_sched_seq
              \/ \E d \in 1..m - k :
                   b \in deferred_frees'[d].blocks /\ g[i] <= deferred_frees'[d].fence
  <2>1. /\ i + 1 \in 1..n /\ i + 1 \in 0..n /\ i \in 0..n - 1 /\ i \in 0..n /\ 1 \in 0..n
        /\ 1 <= i /\ (i + 1) - 1 = i
    BY SMTT(30), <1>4
  <2>2. e \in Elems(batch_queue[i + 1]) /\ g[i] = f[i + 1]
    BY <1>5, <1>10, <2>1, Zenon
  <2>3. batch_queue[i + 1] # <<>> /\ e.id \in Request
    BY <1>0, <2>1, <2>2, Zenon DEF n, Facts, BatchEntryFact
  <2>4. v < f[i + 1] /\ f[i + 1] \in Nat
    <3>1. f[i + 1] = f[i] + 1
      BY <1>7, <2>1, <2>3, Zenon
    <3>2. f[1] <= f[i] /\ f[i] \in Nat /\ f[i + 1] \in Nat
      BY <1>7, <2>1, Zenon
    <3> QED BY SMTT(30), <1>9, <3>1, <3>2
  <2>5. \/ b \in req[e.id].blocks /\ f[i + 1] <= req[e.id].last_sched_seq
        \/ \E d \in 1..m : b \in q[d].blocks /\ f[i + 1] <= q[d].fence
    BY <1>1, <2>1, <2>2, ZenonT(30) DEF FencedBy, n, m, q
  <2>6. ASSUME NEW d \in 1..m, b \in q[d].blocks, f[i + 1] <= q[d].fence
        PROVE  \E c \in 1..m - k :
                 b \in deferred_frees'[c].blocks /\ g[i] <= deferred_frees'[c].fence
    <3>1. d \notin 1..k
      <4> SUFFICES ASSUME d \in 1..k PROVE FALSE
        BY ZenonT(30)
      <4>1. q[d].fence <= v /\ q[d].fence \in Nat
        BY <1>3, <1>8, Zenon DEF v
      <4> QED BY SMTT(30), <1>9, <2>4, <2>6, <4>1
    <3>2. d - k \in 1..m - k /\ k + (d - k) = d
      BY SMTT(30), <1>4, <3>1
    <3>3. deferred_frees'[d - k] = q[d]
      BY <1>6, <3>2, Zenon
    <3> QED BY <2>2, <2>6, <3>2, <3>3, ZenonT(30)
  <2> QED BY <1>2, <2>2, <2>5, <2>6, Zenon
<1>13. FencedBy(g)'
  <2>1. Len(batch_queue') = n - 1 /\ Len(deferred_frees') = m - k
    BY <1>5, <1>6, Zenon
  <2> QED BY <1>12, <2>1, Zenon DEF FencedBy
<1>14. \A r \in Request : req'[r].last_sched_seq <= sched_step_seq'
  BY <1>2, Zenon DEF Fenced
<1> QED BY <1>11, <1>13, <1>14, Zenon DEF Fenced

-----------------------------------------------------------------------------
(* The initial state, and all the steps.                                    *)
LEMMA BlockInit == Init => BInv
<1> SUFFICES ASSUME Init PROVE BInv
  BY Zenon
<1>1. /\ req = [r \in Request |-> NewRequest] /\ free = Block /\ deferred_frees = <<>>
      /\ sched_step_seq = 0 /\ processed_step_seq = 0 /\ batch_queue = <<>>
  BY Zenon DEF Init
<1>2. Len(<<>>) = 0 /\ 1..0 = {}
  OBVIOUS
<1>3. \A r \in Request : req[r].blocks = {} /\ req[r].last_sched_seq = 0
  BY <1>1, Zenon DEF NewRequest
<1>4. Owned
  BY <1>1, <1>2, <1>3, ZenonT(30) DEF Owned
<1>5. PICK f : f \in [0..0 -> Nat] /\ f[0] = 0
  <2> DEFINE h == [i \in 0..0 |-> 0]
  <2>1. h \in [0..0 -> Nat] /\ h[0] = 0
    BY SMTT(30)
  <2> HIDE DEF h
  <2> QED BY <2>1, Zenon
<1>6. Numbered(f)
  BY SMTT(30), <1>1, <1>2, <1>5 DEF Numbered
<1>7. FencedBy(f)
  BY <1>1, <1>2, Zenon DEF FencedBy
<1>8. Fenced
  BY SMTT(30), <1>1, <1>3, <1>6, <1>7 DEF Fenced
<1> QED BY <1>4, <1>8, Zenon DEF BInv

LEMMA BlockStep ==
  ASSUME ListFacts, Facts, Effects, TInv, TInv', VictimOK, BInv, [Next]_vars
  PROVE  BInv'
<1>0. /\ ReqOK /\ BlocksOK /\ SeqsOK /\ BatchesOK /\ ReqOK'
      /\ Owned /\ (defer_block_free => Fenced)
  BY Zenon DEF TInv, BInv
<1>1. CASE SameBlocks
  <2>1. SameTables(Request) /\ UNCHANGED blocks
    BY <1>1, ZenonT(30) DEF SameBlocks
  <2> QED BY <1>0, <1>1, <2>1, OwnedSame, FencedSame, Zenon DEF BInv, defer_block_free
<1>2. CASE \E r \in Request : Allocates(r)
  BY <1>0, <1>2, OwnedAllocates, FencedAllocates, Zenon DEF BInv, defer_block_free
<1>3. CASE \E r \in Request : Releases(r)
  BY <1>0, <1>3, OwnedReleases, FencedReleases, Zenon DEF BInv, defer_block_free
<1>4. CASE EndSchedule
  <2>1. /\ \A r \in Request : req'[r].blocks = req[r].blocks
        /\ UNCHANGED blocks
    BY <1>4, ZenonT(30) DEF Effects, EndScheduleEffect
  <2>2. Owned'
    BY SMTT(30), <1>0, <2>1 DEF Owned, blocks
  <2> QED BY <1>0, <1>4, <2>2, FencedEnd, ZenonT(30) DEF BInv, defer_block_free
<1>5. CASE BeginUpdate
  <2>1. \E k \in 0..Len(deferred_frees) : Drains(k)
    BY <1>5, Zenon DEF Drains, Effects, BeginUpdateEffect
  <2>2. Owned'
    BY <1>0, <2>1, OwnedDrain, Zenon
  <2> QED BY <1>0, <1>5, <2>2, FencedBegin, Zenon DEF BInv, defer_block_free
<1>6. CASE UNCHANGED vars
  <2>1. UNCHANGED <<req, blocks, seqs, batch_queue>>
    BY <1>6, Zenon DEF vars, worker
  <2>2. SameBlocks
    BY <2>1, Zenon DEF SameBlocks, SameTables
  <2> QED BY <1>1, <2>2, Zenon
<1> QED BY <1>1, <1>2, <1>3, <1>4, <1>5, <1>6, ClientBlocks, EngineBlocks, ZenonT(30) DEF Next

(* What the invariant says.                                                 *)
LEMMA OwnedOnce ==
  ASSUME ListFacts, BlocksOK, Owned
  PROVE  OneOwner
<1> DEFINE q == deferred_frees
           Holders(b)  == {r \in Request : b \in req[r].blocks}
           Deferral(b) == {i \in 1..Len(q) : b \in q[i].blocks}
           Owners(b) == {<<"request", r>> : r \in Holders(b)}
                        \cup {<<"deferred", i>> : i \in Deferral(b)}
                        \cup (IF b \in free THEN {<<"free", 0>>} ELSE {})
<1>1. ASSUME NEW b \in Block PROVE Cardinality(Owners(b)) = 1
  <2>1. ASSUME NEW x, Owners(b) = {x} PROVE Cardinality(Owners(b)) = 1
    BY <2>1, Zenon DEF ListFacts, SingletonFact
  <2>2. CASE b \in free
    <3>1. Holders(b) = {} /\ Deferral(b) = {}
      BY <2>2, Zenon DEF Owned
    <3> HIDE DEF Holders, Deferral
    <3>2. Owners(b) = {<<"free", 0>>}
      BY <2>2, <3>1, Zenon
    <3> HIDE DEF Owners
    <3> QED BY <2>1, <3>2, Zenon
  <2>3. CASE \E r \in Request : b \in req[r].blocks
    <3>0. PICK r \in Request : b \in req[r].blocks
      BY <2>3, Zenon
    <3>1. Holders(b) = {r} /\ Deferral(b) = {} /\ b \notin free
      BY SMTT(30), <3>0 DEF Owned
    <3> HIDE DEF Holders, Deferral
    <3>2. Owners(b) = {<<"request", r>>}
      BY <3>1, ZenonT(30)
    <3> HIDE DEF Owners
    <3> QED BY <2>1, <3>2, ZenonT(30)
  <2>4. CASE \E i \in 1..Len(q) : b \in q[i].blocks
    <3>0. PICK i \in 1..Len(q) : b \in q[i].blocks
      BY <2>4, Zenon
    <3>1. Holders(b) = {} /\ Deferral(b) = {i} /\ b \notin free
      BY SMTT(30), <3>0 DEF Owned
    <3> HIDE DEF Holders, Deferral
    <3>2. Owners(b) = {<<"deferred", i>>}
      BY <3>1, Zenon
    <3> HIDE DEF Owners
    <3> QED BY <2>1, <3>2, Zenon
  <2> HIDE DEF Owners
  <2> QED BY <2>2, <2>3, <2>4, Zenon DEF Owned
<1> QED BY <1>1, Zenon DEF OneOwner

LEMMA FencedKept ==
  ASSUME ListFacts, Facts, BatchesOK, BInv
  PROVE  InFlightBlocksKept
<1> SUFFICES ASSUME defer_block_free, NEW i \in 1..Len(batch_queue),
                    NEW e \in Elems(batch_queue[i]), NEW b \in e.blocks
             PROVE  b \notin free /\ \A r \in Request \ {e.id} : b \notin req[r].blocks
  BY Zenon DEF InFlightBlocksKept
<1>1. Owned /\ Fenced
  BY Zenon DEF BInv
<1>2. e.id \in Request
  BY Zenon DEF Facts, BatchEntryFact
<1>3. \/ b \in req[e.id].blocks
      \/ \E d \in 1..Len(deferred_frees) : b \in deferred_frees[d].blocks
  BY <1>1, ZenonT(30) DEF Fenced, FencedBy
<1> QED BY <1>1, <1>2, <1>3, Zenon DEF Owned

-----------------------------------------------------------------------------
(* The step in progress.                                                    *)
LEMMA NoEntries == Distinct(<<>>) /\ Elems(<<>>) = {}
BY SMTT(30) DEF Distinct, Elems

LEMMA DistinctAppend ==
  ASSUME ListFacts, NEW q \in Seq(Scheduled), NEW e \in Scheduled, Distinct(q),
         \A d \in Elems(q) : d.id # e.id
  PROVE  Distinct(Append(q, e)) /\ Elems(Append(q, e)) = Elems(q) \cup {e}
<1> DEFINE z == Append(q, e)
           n == Len(q)
<1>1. /\ n \in Nat /\ Len(z) = n + 1 /\ z[n + 1] = e /\ \A i \in 1..n : z[i] = q[i]
  BY SMTT(30) DEF ListFacts, AppendFact, LenFact
<1>2. Elems(z) = Elems(q) \cup {e}
  BY SMTT(30) DEF ListFacts, AppendElemsFact
<1> HIDE DEF z
<1>3. ASSUME NEW i \in 1..n + 1, NEW j \in 1..n + 1, z[i].id = z[j].id PROVE i = j
  <2>1. CASE i \in 1..n /\ j \in 1..n
    BY <1>1, <1>3, <2>1, Zenon DEF Distinct
  <2>2. CASE i \in 1..n /\ j = n + 1
    <3>1. q[i] \in Elems(q) /\ q[i].id = e.id
      BY <1>1, <1>3, <2>2, Zenon DEF Elems
    <3> QED BY <3>1, Zenon
  <2>3. CASE i = n + 1 /\ j \in 1..n
    <3>1. q[j] \in Elems(q) /\ q[j].id = e.id
      BY <1>1, <1>3, <2>3, Zenon DEF Elems
    <3> QED BY <3>1, ZenonT(30)
  <2>4. CASE i = n + 1 /\ j = n + 1
    BY <2>4, Zenon
  <2>5. (i \in 1..n \/ i = n + 1) /\ (j \in 1..n \/ j = n + 1)
    BY SMTT(30), <1>1
  <2> QED BY <2>1, <2>2, <2>3, <2>4, <2>5, Zenon
<1>4. Distinct(z)
  BY <1>1, <1>3, ZenonT(30) DEF Distinct
<1> QED BY <1>2, <1>4, Zenon DEF z

LEMMA DistinctKeep ==
  ASSUME ListFacts, NEW T, NEW q \in Seq(T), Distinct(q), NEW S
  PROVE  Distinct(Keep(q, S))
<1> DEFINE z == Keep(q, S)
           m == Len(z)
           n == Len(q)
<1>1. /\ z \in Seq(T)
      /\ \E f \in [1..Len(z) -> 1..n] : /\ \A k \in 1..Len(z) : z[k] = q[f[k]]
                                        /\ \A k, l \in 1..Len(z) : k < l => f[k] < f[l]
  BY SMTT(30) DEF ListFacts, KeepFact
<1> HIDE DEF z
<1>2. PICK f \in [1..m -> 1..n] : /\ \A k \in 1..m : z[k] = q[f[k]]
                                  /\ \A k, l \in 1..m : k < l => f[k] < f[l]
  BY <1>1, Zenon
<1>3. m \in Nat /\ n \in Nat
  BY <1>1, Zenon DEF ListFacts, LenFact
<1>4. ASSUME NEW k \in 1..m, NEW l \in 1..m, z[k].id = z[l].id PROVE k = l
  <2>1. f[k] \in 1..n /\ f[l] \in 1..n /\ q[f[k]].id = q[f[l]].id
    BY <1>2, <1>4, Zenon
  <2>2. f[k] = f[l]
    BY <2>1, Zenon DEF Distinct
  <2>3. ~(k < l) /\ ~(l < k)
    BY SMTT(30), <1>2, <1>3, <2>1, <2>2
  <2> QED BY SMTT(30), <1>3, <2>3
<1> QED BY <1>4, Zenon DEF Distinct, z

\* Outside of schedule.
LEMMA StepQuiet ==
  ASSUME StepInv, step'.phase \notin {"running", "waiting", "end"},
         step'.skipped = <<>>, step'.new = {}, Distinct(step'.scheduled),
         step'.phase \in {"idle", "reset", "result"} => step'.scheduled = <<>>,
         step'.phase \in {"idle", "reset"} => ~step'.preempted,
         MaxResets = 0 => step'.phase # "reset"
  PROVE  StepInv'
BY Zenon DEF StepInv

LEMMA StepSame ==
  ASSUME StepInv, step' = step,
         running' = running \/ step.phase \notin {"running", "waiting", "end"}
  PROVE  StepInv'
<1>1. CASE running' = running
  BY <1>1, Zenon DEF StepInv, Retry
<1>2. CASE step.phase \notin {"running", "waiting", "end"}
  BY <1>2, StepQuiet, Zenon DEF StepInv
<1> QED BY <1>1, <1>2, Zenon

\* The place of the request the RUNNING loop is at.
LEMMA CurrentPlace ==
  ASSUME ListFacts, Facts, TInv, QueueInv, StepInv, InRunningLoop
  PROVE  /\ \E j \in 1..Len(running) : running[j] = Current /\ j <= step.req_index
         /\ \A e \in Elems(step.scheduled) : e.id # Current
<1>0. step.phase = "running"
  BY Zenon DEF InRunningLoop
<1>1. CASE Retry
  BY <1>0, <1>1, Zenon DEF StepInv, Current
<1>2. CASE ~Retry
  <2>1. Current = running[step.req_index] /\ step.req_index \in 1..Len(running)
    BY <1>2, ZenonT(30) DEF Current, Facts, CurrentFact
  <2>2. step.req_index <= step.req_index
    BY SMTT(30), <2>1
  <2>3. ASSUME NEW e \in Elems(step.scheduled), e.id = Current PROVE FALSE
    <3>1. PICK j \in 1..Len(running) : running[j] = e.id /\ j < step.req_index
      BY <1>0, Zenon DEF StepInv
    <3>2. j = step.req_index
      BY <2>1, <2>3, <3>1, Zenon DEF QueueInv, Injective
    <3> QED BY SMTT(30), <2>1, <3>1, <3>2
  <2> QED BY <2>1, <2>2, <2>3, Zenon
<1> QED BY <1>1, <1>2, Zenon

\* Taking v out of running moves the requests behind it by one position.
LEMMA PlaceWithout ==
  ASSUME ListFacts,
         NEW v \in Request, running \in Seq(Request), NEW i \in Int, NEW k \in Int,
         running' = remove_all(running, {v}),
         k = i \/ (k = i - 1 /\ \E p \in 1..Len(running) : running[p] = v /\ p < i)
  PROVE  /\ \A j \in 1..Len(running) : running[j] # v /\ j < i =>
              \E m \in 1..Len(running') : running'[m] = running[j] /\ m < k
         /\ \A j \in 1..Len(running) : running[j] # v /\ j <= i =>
              \E m \in 1..Len(running') : running'[m] = running[j] /\ m <= k
<1> DEFINE S == Request \ {v}
           n == Len(running)
<1>1. \A j \in 1..n : running[j] \in S =>
        \E m \in 1..Len(Keep(running, S)) :
          /\ Keep(running, S)[m] = running[j] /\ m <= j
          /\ (\E p \in 1..j : running[p] \notin S) => m < j
  <2> HIDE DEF S
  <2> QED BY ZenonT(30) DEF ListFacts, KeepFact
<1>2. running' = Keep(running, S)
  BY Zenon DEF remove_all
<1>3. \A j \in 1..n : running[j] \in Request /\ (running[j] \in S <=> running[j] # v)
  BY Zenon DEF ListFacts, LenFact
<1>4. n \in Nat /\ running' \in Seq(Request) /\ Len(running') \in Nat
  <2>1. Keep(running, S) \in Seq(Request)
    BY Zenon DEF ListFacts, KeepFact
  <2> HIDE DEF S
  <2> QED BY <1>2, <2>1, Zenon DEF ListFacts, LenFact
<1> HIDE DEF S
<1>5. ASSUME NEW j \in 1..n, running[j] # v, j <= i
      PROVE  \E m \in 1..Len(running') :
               running'[m] = running[j] /\ m <= k /\ (j < i => m < k)
  <2>1. PICK m \in 1..Len(running') :
          /\ running'[m] = running[j] /\ m <= j
          /\ (\E p \in 1..j : running[p] \notin S) => m < j
    BY <1>1, <1>2, <1>3, <1>5, Zenon
  <2>2. CASE k = i
    BY <1>4, <1>5, <2>1, <2>2
  <2>3. CASE k = i - 1 /\ \E p \in 1..n : running[p] = v /\ p < i
    <3>1. PICK p \in 1..n : running[p] = v /\ p < i
      BY <2>3, Zenon
    <3>2. CASE p <= j
      <4>1. p \in 1..j /\ running[p] \notin S
        BY <1>3, <1>4, <3>1, <3>2
      <4>2. m < j
        BY <2>1, <4>1, ZenonT(30)
      <4> QED BY SMTT(30), <1>4, <1>5, <2>1, <2>3, <4>2
    <3>3. CASE ~(p <= j)
      BY SMTT(30), <1>4, <1>5, <2>1, <2>3, <3>1, <3>3
    <3> QED BY <3>2, <3>3, Zenon
  <2> QED BY <2>2, <2>3, ZenonT(30)
<1>6. ASSUME NEW j \in 1..n, running[j] # v, j < i
      PROVE  \E m \in 1..Len(running') : running'[m] = running[j] /\ m < k
  <2>1. j <= i
    BY SMTT(30), <1>4, <1>6
  <2> QED BY <1>5, <1>6, <2>1, ZenonT(30)
<1> QED BY <1>5, <1>6, Zenon

LEMMA StepPreempt ==
  ASSUME ListFacts, Facts, Effects, TInv, VictimOK, QueueInv, StepInv, PreemptRunning
  PROVE  StepInv'
<1> DEFINE v == Victim
           x == Unscheduled(v)
           c == Current
<1>1. /\ v \in Request /\ v \in Elems(running) /\ step.phase = "running"
      /\ step'.phase \in {"running", "end"}
      /\ step'.phase = "running" => c # v /\ step'.request = c
      /\ step'.scheduled = x.scheduled /\ step'.req_index = x.req_index
      /\ step'.new = step.new /\ step'.skipped = step.skipped
  BY Zenon DEF Effects, PreemptRunningEffect
<1>2. running' = remove_all(running, {v}) /\ InRunningLoop
  BY Zenon DEF PreemptRunning
<1>3. /\ step \in Step /\ step.scheduled \in Seq(Scheduled) /\ step.req_index \in Int
      /\ Len(step.scheduled) < step.req_index /\ running \in Seq(Request)
  BY <1>1, Zenon DEF TInv, StepOK, Step, QueuesOK
<1>4. /\ Elems(x.scheduled) = {e \in Elems(step.scheduled) : e.id # v}
      /\ \/ x = step
         \/ /\ \E S : x.scheduled = Keep(step.scheduled, S)
            /\ \E e \in Elems(step.scheduled) : e.id = v
            /\ x.req_index = step.req_index - 1
  BY <1>1, <1>3, Zenon DEF Facts, UnscheduledFact
<1>5. /\ \A e \in Elems(step.scheduled) :
           \E j \in 1..Len(running) : running[j] = e.id /\ j < step.req_index
      /\ Distinct(step.scheduled) /\ step.new = {} /\ step.skipped = <<>>
  BY <1>1, Zenon DEF StepInv
<1>6. /\ \E j \in 1..Len(running) : running[j] = c /\ j <= step.req_index
      /\ \A e \in Elems(step.scheduled) : e.id # c
  BY <1>2, CurrentPlace, Zenon
<1>7. Elems(running') = Elems(running) \ {v}
  BY <1>1, <1>2, <1>3, ZenonT(30) DEF Facts, RemoveFact
<1> HIDE DEF v, x, c
<1> DEFINE i == step.req_index
           k == step'.req_index
           E == Elems(step'.scheduled)
<1>8. Distinct(step'.scheduled)
  BY SMTT(30), <1>1, <1>3, <1>4, <1>5, DistinctKeep
<1>9. \A e \in E : e \in Elems(step.scheduled) /\ e.id # v
  BY <1>1, <1>4, Zenon
<1>10. i \in Int /\ k \in Int
       /\ (k = i \/ (k = i - 1 /\ \E p \in 1..Len(running) : running[p] = v /\ p < i))
  BY SMTT(30), <1>1, <1>3, <1>4, <1>5
<1> HIDE DEF i, k
<1>11. /\ \A j \in 1..Len(running) : running[j] # v /\ j < i =>
            \E m \in 1..Len(running') : running'[m] = running[j] /\ m < k
       /\ \A j \in 1..Len(running) : running[j] # v /\ j <= i =>
            \E m \in 1..Len(running') : running'[m] = running[j] /\ m <= k
  BY ZenonT(30), <1>1, <1>2, <1>3, <1>10, PlaceWithout
<1>12. ASSUME NEW e \in E PROVE e.id \in Elems(running')
  BY <1>5, <1>7, <1>9, ZenonT(30) DEF Elems
<1>13. ASSUME step'.phase = "running"
       PROVE  /\ \A e \in E : \E m \in 1..Len(running') : running'[m] = e.id /\ m < k
              /\ \E m \in 1..Len(running') : running'[m] = step'.request /\ m <= k
              /\ \A e \in E : e.id # step'.request
  <2>1. \A e \in E : \E m \in 1..Len(running') : running'[m] = e.id /\ m < k
    BY SMTT(30), <1>5, <1>9, <1>11 DEF i
  <2>2. \E m \in 1..Len(running') : running'[m] = step'.request /\ m <= k
    BY <1>1, <1>6, <1>11, <1>13, ZenonT(30) DEF i
  <2> QED BY <1>1, <1>6, <1>9, <1>13, <2>1, <2>2, ZenonT(30)
<1> QED BY <1>1, <1>5, <1>8, <1>12, <1>13, Zenon DEF StepInv, k

LEMMA StepSchedule ==
  ASSUME ListFacts, Facts, Effects, TInv, VictimOK, QueueInv, StepInv, Schedule
  PROVE  StepInv'
<1>0. step \in Step
  BY Zenon DEF TInv, StepOK
<1>1. ASSUME StartSchedule PROVE StepInv'
  <2>1. /\ step'.scheduled = <<>> /\ step'.skipped = <<>> /\ step'.new = {}
        /\ ~step'.preempted /\ step'.num_new_tokens = 0
        /\ step'.phase \in {"running", "result"}
    BY <1>1, ZenonT(30) DEF StartSchedule, Idle
  <2>2. Distinct(step'.scheduled) /\ Elems(step'.scheduled) = {} /\ ~Retry'
    BY <2>1, NoEntries, Zenon DEF Retry
  <2> QED BY <2>1, <2>2, Zenon DEF StepInv
<1>2. ASSUME SkipRunning PROVE StepInv'
  <2>1. InRunningLoop /\ NumNewTokens = 0 /\ step.phase = "running" /\ step.req_index \in Int
    BY <1>0, <1>2, Zenon DEF SkipRunning, InRunningLoop, Step
  <2>2. ~Retry
    BY <2>1, Zenon DEF NumNewTokens, Retry
  <2>3. /\ step'.scheduled = step.scheduled /\ step'.skipped = step.skipped
        /\ step'.new = step.new /\ step'.phase = "running"
        /\ step'.req_index = step.req_index + 1 /\ step'.num_new_tokens = step.num_new_tokens
        /\ running' = running
    BY <1>0, <1>2, <2>1, ZenonT(30) DEF SkipRunning, Step, queues
  <2>4. ~Retry'
    BY <2>2, <2>3, Zenon DEF Retry
  <2>5. \A e \in Elems(step'.scheduled) :
          \E j \in 1..Len(running') : running'[j] = e.id /\ j < step'.req_index
    <3> SUFFICES ASSUME NEW e \in Elems(step.scheduled)
                 PROVE  \E j \in 1..Len(running) : running[j] = e.id /\ j < step.req_index + 1
      BY <2>3, ZenonT(30)
    <3>1. PICK j \in 1..Len(running) : running[j] = e.id /\ j < step.req_index
      BY <2>1, ZenonT(30) DEF StepInv
    <3>2. j < step.req_index + 1
      BY SMTT(30), <2>1, <3>1
    <3> QED BY <3>1, <3>2, Zenon
  <2> QED BY <2>1, <2>3, <2>4, <2>5, Zenon DEF StepInv
<1>3. ASSUME ScheduleRunning PROVE StepInv'
  <2>1. /\ Current \in Request /\ Current \in Elems(running)
        /\ step.phase = "running" /\ step'.phase = "running"
        /\ step'.num_new_tokens = 0 /\ step'.req_index = step.req_index + 1
        /\ step'.new = step.new /\ step'.skipped = step.skipped
    BY <1>3, Zenon DEF Effects, ScheduleRunningEffect
  <2>2. PICK e \in Scheduled : e.id = Current /\ step'.scheduled = Append(step.scheduled, e)
    BY <1>3, Zenon DEF Effects, ScheduleRunningEffect
  <2>3. /\ running' = running /\ InRunningLoop /\ step.req_index \in Int
        /\ step.scheduled \in Seq(Scheduled) /\ running \in Seq(Request)
    BY <1>0, <1>3, <2>1, ZenonT(30) DEF ScheduleRunning, queues, Step, TInv, StepOK, QueuesOK
  <2>4. /\ \E j \in 1..Len(running) : running[j] = Current /\ j <= step.req_index
        /\ \A d \in Elems(step.scheduled) : d.id # Current
    BY <2>3, CurrentPlace, ZenonT(30)
  <2>5. /\ Distinct(step'.scheduled)
        /\ Elems(step'.scheduled) = Elems(step.scheduled) \cup {e}
    BY <2>2, <2>3, <2>4, DistinctAppend, Zenon DEF StepInv
  <2>6. ASSUME NEW d \in Elems(step'.scheduled)
        PROVE  /\ d.id \in Elems(running)
               /\ \E j \in 1..Len(running) : running[j] = d.id /\ j < step.req_index + 1
    <3>1. \E j \in 1..Len(running) : running[j] = d.id /\ j <= step.req_index
      <4>1. CASE d = e
        BY <2>2, <2>4, <4>1, Zenon
      <4>2. CASE d \in Elems(step.scheduled)
        <5>1. PICK j \in 1..Len(running) : running[j] = d.id /\ j < step.req_index
          BY <2>1, <4>2, Zenon DEF StepInv
        <5>2. j <= step.req_index
          BY <2>3, <5>1
        <5> QED BY <5>1, <5>2, ZenonT(30)
      <4> QED BY <2>5, <4>1, <4>2, Zenon
    <3>2. PICK j \in 1..Len(running) : running[j] = d.id /\ j <= step.req_index
      BY <3>1, ZenonT(30)
    <3>3. j < step.req_index + 1 /\ d.id \in Elems(running)
      BY SMTT(30), <2>3, <3>2 DEF Elems
    <3> QED BY <3>2, <3>3, ZenonT(30)
  <2>7. ~Retry'
    BY <2>1, Zenon DEF Retry
  <2>8. \A d \in Elems(step'.scheduled) :
          \E j \in 1..Len(running') : running'[j] = d.id /\ j < step'.req_index
    BY <2>1, <2>3, <2>6, Zenon
  <2>9. \A d \in Elems(step'.scheduled) : d.id \in Elems(running')
    BY <2>3, <2>6, Zenon
  <2> QED BY <2>1, <2>3, <2>5, <2>7, <2>8, <2>9, ZenonT(30) DEF StepInv
<1>4. ASSUME PreemptRunning PROVE StepInv'
  BY <1>4, StepPreempt, ZenonT(30)
<1>5. ASSUME EndRunning \/ \E ext \in 0..max_model_len : StopWaiting(ext) PROVE StepInv'
  <2>1. /\ step'.scheduled = step.scheduled /\ step'.skipped = step.skipped
        /\ step'.new = step.new /\ running' = running
        /\ \/ step.phase = "running" /\ step'.phase = "waiting"
           \/ step.phase = "waiting" /\ step'.phase = "end"
    BY <1>0, <1>5, ZenonT(30) DEF EndRunning, StopWaiting, InWaitingLoop, Step, queues
  <2> QED BY <2>1, Zenon DEF StepInv
<1>6. ASSUME SkipWaiting PROVE StepInv'
  <2>1. /\ step'.scheduled = step.scheduled /\ step'.new = step.new /\ running' = running
        /\ step'.phase = "waiting" /\ step'.preempted = step.preempted /\ InWaitingLoop
    BY <1>6, Zenon DEF Effects, SkipWaitingEffect
  <2>2. step.phase = "waiting" /\ ~step.preempted
    BY <2>1, ZenonT(30) DEF InWaitingLoop
  <2> QED BY <2>1, <2>2, Zenon DEF StepInv
<1>7. ASSUME PromoteLoaded PROVE StepInv'
  <2>1. step' = step /\ running' = running
    BY <1>7, Zenon DEF queues, Effects, PromoteLoadedEffect
  <2> QED BY <2>1, StepSame, Zenon
<1>8. ASSUME NEW ext \in 0..max_model_len, ScheduleWaiting(ext) PROVE StepInv'
  <2> DEFINE r == peek_request
  <2>1. /\ InWaitingLoop /\ pop_request /\ r \in Request /\ running' = Append(running, r)
        /\ step'.phase = "waiting" /\ step'.new = step.new \cup {r}
        /\ step'.skipped = step.skipped /\ step'.preempted = step.preempted
        /\ \E e \in Scheduled : e.id = r /\ step'.scheduled = Append(step.scheduled, e)
    BY <1>8, Zenon DEF Effects, ScheduleWaitingEffect
  <2>2. r \in Queued
    BY <2>1, Zenon DEF Facts, PopFact
  <2> HIDE DEF r
  <2>3. PICK e \in Scheduled : e.id = r /\ step'.scheduled = Append(step.scheduled, e)
    BY <2>1, ZenonT(30)
  <2>4. r \notin Elems(running) /\ running \in Seq(Request)
    BY <2>1, <2>2, ZenonT(30) DEF Facts, StatusFact, QueueTypesFact
  <2>5. step.phase = "waiting" /\ ~step.preempted
    BY <2>1, Zenon DEF InWaitingLoop
  <2>6. step.scheduled \in Seq(Scheduled)
    BY <2>5, ZenonT(30) DEF TInv, StepOK
  <2>7. \A d \in Elems(step.scheduled) : d.id \in Elems(running)
    BY <2>5, Zenon DEF StepInv
  <2>8. /\ Distinct(step'.scheduled)
        /\ Elems(step'.scheduled) = Elems(step.scheduled) \cup {e}
    <3>1. Distinct(step.scheduled)
      BY ZenonT(30) DEF StepInv
    <3>2. \A d \in Elems(step.scheduled) : d.id # e.id
      BY <2>3, <2>4, <2>7, ZenonT(30)
    <3>3. /\ Distinct(Append(step.scheduled, e))
          /\ Elems(Append(step.scheduled, e)) = Elems(step.scheduled) \cup {e}
      BY <2>6, <3>1, <3>2, DistinctAppend, ZenonT(30)
    <3> QED BY <2>3, <3>3, Zenon
  <2>9. Elems(running') = Elems(running) \cup {r}
    BY SMTT(30), <2>1, <2>4 DEF ListFacts, AppendElemsFact
  <2>10. \A d \in Elems(step'.scheduled) : d.id \in Elems(running')
    BY <2>3, <2>7, <2>8, <2>9, Zenon
  <2>11. step'.new \subseteq Elems(running')
    BY <2>1, <2>9, Zenon DEF StepInv
  <2> QED BY <2>1, <2>5, <2>8, <2>10, <2>11, ZenonT(30) DEF StepInv
<1>9. ASSUME NEW ext \in 0..max_model_len, StartLoad(ext) PROVE StepInv'
  <2>1. /\ step'.scheduled = step.scheduled /\ step'.new = step.new /\ running' = running
        /\ step'.phase = "waiting" /\ step'.preempted = step.preempted /\ InWaitingLoop
    BY <1>9, Zenon DEF Effects, StartLoadEffect
  <2>2. step.phase = "waiting" /\ ~step.preempted
    BY <2>1, Zenon DEF InWaitingLoop
  <2> QED BY <2>1, <2>2, ZenonT(30) DEF StepInv
<1>10. ASSUME EndSchedule PROVE StepInv'
  <2>1. step' = [Idle EXCEPT !.phase = step'.phase] /\ step'.phase \in {"idle", "result"}
    BY <1>10, Zenon DEF Effects, EndScheduleEffect
  <2>2. /\ step'.scheduled = <<>> /\ step'.skipped = <<>> /\ step'.new = {} /\ ~step'.preempted
    BY <2>1, ZenonT(30) DEF Idle
  <2> QED BY <2>1, <2>2, NoEntries, StepQuiet, ZenonT(30)
<1> QED BY <1>1, <1>2, <1>3, <1>4, <1>5, <1>6, <1>7, <1>8, <1>9, <1>10, Zenon DEF Schedule

LEMMA StepOther ==
  ASSUME ListFacts, Facts, Effects, TInv, QueueInv, StepInv, FlightInv,
         Client \/ Update \/ ResetRunning \/ \E r \in Request : LoadDone(r)
  PROVE  StepInv'
<1>0. step \in Step
  BY Zenon DEF TInv, StepOK
<1>1. ASSUME StartReset PROVE StepInv'
  <2>1. /\ step' = [step EXCEPT !.phase = "reset"] /\ step.phase = "idle" /\ resets < MaxResets
    BY <1>1, Zenon DEF StartReset
  <2>2. /\ step'.phase = "reset" /\ step'.scheduled = step.scheduled
        /\ step'.skipped = step.skipped /\ step'.new = step.new
        /\ step'.preempted = step.preempted
    BY <1>0, <2>1, Zenon DEF Step
  <2>3. MaxResets # 0
    BY SMTT(30), <2>1, SchedulerAssumption DEF TInv, CountsOK
  <2> QED BY <2>1, <2>2, <2>3, StepQuiet, ZenonT(30) DEF StepInv
<1>2. ASSUME \/ \E r \in Request, len \in PromptLens : AddRequest(r, len)
             \/ \E r \in Request, len \in PromptLens \cup {0} : AddChunk(r, len)
             \/ \E r \in Request : Abort(r)
             \/ \E state \in PauseStates \cup {"UNPAUSED"} : set_pause_state(state)
             \/ \E r \in Request : LoadDone(r)
             \/ \E r \in Request : ReportLoaded(r)
      PROVE  StepInv'
  <2>1. step' = step /\ step.phase \in {"idle", "result", "update"}
    BY <1>2, ZenonT(30) DEF AddRequest, AddChunk, Abort, set_pause_state, LoadDone, ReportLoaded
  <2> QED BY <2>1, StepSame, Zenon
<1>3. ASSUME ResetRunning PROVE StepInv'
  <2>1. step.phase = "reset" /\ (step' = Idle \/ step' = step)
    BY <1>3, Zenon DEF ResetRunning
  <2>2. CASE step' = Idle
    <3>1. /\ step'.phase = "idle" /\ step'.scheduled = <<>> /\ step'.skipped = <<>>
          /\ step'.new = {} /\ ~step'.preempted
      BY <2>2, Zenon DEF Idle
    <3> QED BY <3>1, NoEntries, StepQuiet, ZenonT(30)
  <2>3. CASE step' = step
    BY <2>1, <2>3, StepSame, Zenon
  <2> QED BY <2>1, <2>2, <2>3, Zenon
<1>4. ASSUME BeginUpdate PROVE StepInv'
  <2>1. batch_queue # <<>> /\ step' = [Idle EXCEPT !.phase = "update",
                                                   !.scheduled = Head(batch_queue)]
    BY <1>4, Zenon DEF BeginUpdate, Effects, BeginUpdateEffect
  <2>2. /\ step'.phase = "update" /\ step'.scheduled = Head(batch_queue)
        /\ step'.skipped = <<>> /\ step'.new = {}
    BY <2>1, Zenon DEF Idle
  <2>3. batch_queue \in Seq(Seq(InBatch)) /\ Len(batch_queue) \in Nat \ {0}
    BY <2>1, ZenonT(30) DEF TInv, BatchesOK, ListFacts, EmptySeqFact, LenFact
  <2>4. Head(batch_queue) = batch_queue[1] /\ 1 \in 1..Len(batch_queue)
    BY SMTT(30), <2>1, <2>3 DEF ListFacts, TailElemsFact
  <2>5. Distinct(step'.scheduled)
    BY <2>2, <2>4, Zenon DEF FlightInv
  <2> QED BY <2>2, <2>5, StepQuiet, ZenonT(30)
<1>5. ASSUME InUpdateLoop, NextEntry PROVE StepInv'
  <2>1. step.phase = "update" /\ step.scheduled \in Seq(InBatch) /\ step.scheduled # <<>>
    BY <1>5, ZenonT(30) DEF Facts, EntryFact
  <2>2. /\ step'.phase = "update" /\ step'.scheduled = Tail(step.scheduled)
        /\ step'.skipped = step.skipped /\ step'.new = step.new
    BY <1>0, <1>5, <2>1, ZenonT(30) DEF NextEntry, Step
  <2>3. Distinct(step'.scheduled)
    BY SMTT(30), <2>1, <2>2 DEF StepInv, Facts, DistinctTailFact
  <2>4. step'.skipped = <<>> /\ step'.new = {}
    BY <2>1, <2>2, Zenon DEF StepInv
  <2> QED BY <2>2, <2>3, <2>4, StepQuiet, ZenonT(30)
<1>6. ASSUME EndUpdate PROVE StepInv'
  <2>1. /\ step'.phase = "idle" /\ step'.scheduled = <<>> /\ step'.skipped = <<>>
        /\ step'.new = {} /\ ~step'.preempted
    BY <1>6, Zenon DEF EndUpdate, Idle
  <2> QED BY <2>1, NoEntries, StepQuiet, Zenon
<1>7. ASSUME SkipEntry \/ DiscardFrame \/ (\E g \in 1..1 + num_spec_tokens : AppendOutput(g))
             \/ (\E g, k \in 1..1 + num_spec_tokens : StopRequest(g, k))
      PROVE  StepInv'
  <2>1. InUpdateLoop /\ NextEntry
    BY <1>7, Zenon DEF SkipEntry, DiscardFrame, AppendOutput, StopRequest
  <2> QED BY <1>5, <2>1, Zenon
<1>8. CASE Client
  BY <1>1, <1>2, <1>8, ZenonT(30) DEF Client
<1>9. CASE Update
  BY <1>2, <1>4, <1>6, <1>7, <1>9, ZenonT(30) DEF Update
<1> QED BY <1>2, <1>3, <1>8, <1>9, Zenon

-----------------------------------------------------------------------------
(* Where a request is.                                                      *)
\* One request moves, or none.
LEMMA QueueSame ==
  ASSUME QueueInv, UNCHANGED queues, step'.skipped = step.skipped,
         \A r \in Request : \/ req'[r].status = req[r].status
                            \/ req[r].status \in Waiting /\ req'[r].status \in Waiting
                            \/ req[r].status \in Finished /\ req'[r].status \in Finished
  PROVE  QueueInv'
<1>1. UNCHANGED <<waiting, skipped_waiting, running>> /\ Queued' = Queued
  BY Zenon DEF queues, Queued
<1>2. /\ "RUNNING" \notin Waiting /\ "RUNNING" \notin Finished
      /\ \A s \in Finished : s \notin Waiting
  BY Zenon DEF Waiting, Blocked, Finished
<1>3. \A r \in Request : /\ req'[r].status = "RUNNING" <=> req[r].status = "RUNNING"
                         /\ req'[r].status \in Waiting <=> req[r].status \in Waiting
  BY <1>2, Zenon
<1>4. \A r \in Request : r \in Elems(running') <=> req'[r].status = "RUNNING"
  BY <1>1, <1>3, Zenon DEF QueueInv
<1>5. \A r \in Request : r \in Queued' <=> req'[r].status \in Waiting
  BY <1>1, <1>3, Zenon DEF QueueInv
<1> QED BY <1>1, <1>4, <1>5, Zenon DEF QueueInv

LEMMA QueueMove ==
  ASSUME QueueInv, NEW r \in Request,
         \A s \in Request : s # r => req'[s].status = req[s].status,
         Injective(running'), Injective(waiting'), Injective(skipped_waiting'),
         Injective(step'.skipped),
         Elems(waiting') \cap Elems(skipped_waiting') = {},
         Elems(waiting') \cap Elems(step'.skipped) = {},
         Elems(skipped_waiting') \cap Elems(step'.skipped) = {},
         Elems(running') \ {r} = Elems(running) \ {r},
         r \in Elems(running') <=> req'[r].status = "RUNNING",
         Queued' \ {r} = Queued \ {r},
         r \in Queued' <=> req'[r].status \in Waiting
  PROVE  QueueInv'
<1>1. \A s \in Request : s \in Elems(running') <=> req'[s].status = "RUNNING"
  <2> SUFFICES ASSUME NEW s \in Request, s # r
               PROVE  s \in Elems(running') <=> req'[s].status = "RUNNING"
    BY Zenon
  <2>1. s \in Elems(running') <=> s \in Elems(running)
    BY Zenon
  <2> QED BY <2>1, Zenon DEF QueueInv
<1>2. \A s \in Request : s \in Queued' <=> req'[s].status \in Waiting
  <2> SUFFICES ASSUME NEW s \in Request, s # r
               PROVE  s \in Queued' <=> req'[s].status \in Waiting
    BY Zenon
  <2>1. s \in Queued' <=> s \in Queued
    BY Zenon
  <2> QED BY <2>1, Zenon DEF QueueInv
<1> QED BY <1>1, <1>2, Zenon DEF QueueInv

\* A request leaves the queues, or running, for good.
LEMMA QueueLeave ==
  ASSUME ListFacts, Facts, TInv, QueueInv, NEW r \in Request, step'.skipped = step.skipped,
         r \notin Elems(step.skipped),
         \A s \in Request : s # r => req'[s].status = req[s].status,
         req'[r].status \in Finished,
         \/ running' = remove_all(running, {r})
         \/ running' = running /\ r \notin Elems(running),
         \/ waiting' = remove_all(waiting, {r})
         \/ waiting' = waiting /\ r \notin Elems(waiting),
         \/ skipped_waiting' = remove_all(skipped_waiting, {r})
         \/ skipped_waiting' = skipped_waiting /\ r \notin Elems(skipped_waiting)
  PROVE  QueueInv'
<1>1. /\ Injective(running) /\ Injective(waiting) /\ Injective(skipped_waiting)
      /\ Injective(step.skipped)
      /\ Elems(waiting) \cap Elems(skipped_waiting) = {}
      /\ Elems(waiting) \cap Elems(step.skipped) = {}
      /\ Elems(skipped_waiting) \cap Elems(step.skipped) = {}
  BY ZenonT(30) DEF QueueInv
<1>2. /\ waiting \in Seq(Request) /\ skipped_waiting \in Seq(Request)
      /\ running \in Seq(Request)
  BY ZenonT(30) DEF Facts, QueueTypesFact
<1>3. Injective(running') /\ Elems(running') = Elems(running) \ {r}
  BY SMTT(30), <1>1, <1>2 DEF Facts, RemoveFact
<1>4. Injective(waiting') /\ Elems(waiting') = Elems(waiting) \ {r}
  BY SMTT(30), <1>1, <1>2 DEF Facts, RemoveFact
<1>5. Injective(skipped_waiting') /\ Elems(skipped_waiting') = Elems(skipped_waiting) \ {r}
  BY SMTT(30), <1>1, <1>2 DEF Facts, RemoveFact
<1>6. req'[r].status # "RUNNING" /\ req'[r].status \notin Waiting
  BY ZenonT(30) DEF Finished, Waiting, Blocked
<1>7. Queued' = Queued \ {r}
  BY <1>4, <1>5, ZenonT(30) DEF Queued
<1>8. /\ Elems(running') \ {r} = Elems(running) \ {r} /\ r \notin Elems(running')
      /\ Queued' \ {r} = Queued \ {r} /\ r \notin Queued'
  BY <1>3, <1>7, Zenon
<1>9. /\ Elems(waiting') \cap Elems(skipped_waiting') = {}
      /\ Elems(waiting') \cap Elems(step'.skipped) = {}
      /\ Elems(skipped_waiting') \cap Elems(step'.skipped) = {}
      /\ Injective(step'.skipped)
  BY <1>1, <1>4, <1>5, ZenonT(30)
<1> QED BY <1>3, <1>4, <1>5, <1>6, <1>8, <1>9, QueueMove, ZenonT(30)

\* A running request is preempted.
LEMMA QueuePreempt ==
  ASSUME ListFacts, Facts, TInv, QueueInv, NEW r \in Request, r \in Elems(running),
         step'.skipped = step.skipped,
         \A s \in Request : s # r => req'[s].status = req[s].status,
         req'[r].status \in Waiting,
         Injective(running'), Elems(running') = Elems(running) \ {r},
         waiting' = prepend_request(waiting, r) \/ waiting' = add_request(req', waiting, r),
         skipped_waiting' = skipped_waiting
  PROVE  QueueInv'
<1>1. /\ Injective(running) /\ Injective(waiting) /\ Injective(skipped_waiting)
      /\ Injective(step.skipped)
      /\ Elems(waiting) \cap Elems(skipped_waiting) = {}
      /\ Elems(waiting) \cap Elems(step.skipped) = {}
      /\ Elems(skipped_waiting) \cap Elems(step.skipped) = {}
  BY Zenon DEF QueueInv
<1>2. waiting \in Seq(Request)
  BY Zenon DEF Facts, QueueTypesFact
<1>3. r \notin Queued
  BY Zenon DEF Facts, StatusFact
<1>4. r \notin Elems(waiting) /\ r \notin Elems(skipped_waiting) /\ r \notin Elems(step.skipped)
  BY <1>3, ZenonT(30) DEF Queued
<1>5. Injective(waiting') /\ Elems(waiting') = Elems(waiting) \cup {r}
  <2>1. /\ Injective(prepend_request(waiting, r))
        /\ Elems(prepend_request(waiting, r)) = Elems(waiting) \cup {r}
    BY <1>1, <1>2, <1>4, ZenonT(30) DEF Facts, PrependOneFact
  <2>2. /\ Injective(add_request(req', waiting, r))
        /\ Elems(add_request(req', waiting, r)) = Elems(waiting) \cup {r}
    BY SMTT(30), <1>1, <1>2, <1>4 DEF Facts, AddOneFact
  <2> QED BY <2>1, <2>2, ZenonT(30)
<1>6. req'[r].status # "RUNNING"
  BY Zenon DEF Waiting, Blocked
<1>7. Queued' = Queued \cup {r}
  BY <1>5, Zenon DEF Queued
<1>8. /\ Elems(running') \ {r} = Elems(running) \ {r} /\ r \notin Elems(running')
      /\ Queued' \ {r} = Queued \ {r} /\ r \in Queued'
  BY <1>7, Zenon
<1>9. /\ Elems(waiting') \cap Elems(skipped_waiting') = {}
      /\ Elems(waiting') \cap Elems(step'.skipped) = {}
      /\ Elems(skipped_waiting') \cap Elems(step'.skipped) = {}
      /\ Injective(step'.skipped) /\ Injective(skipped_waiting')
  BY <1>1, <1>4, <1>5, ZenonT(30)
<1> QED BY <1>5, <1>6, <1>8, <1>9, QueueMove, ZenonT(30)

\* What the calls of the clients, schedule() and update_from_output do.
LEMMA QueueClient ==
  ASSUME ListFacts, Facts, Effects, TInv, QueueInv, StepInv, Client
  PROVE  QueueInv'
<1>1. ASSUME NEW r \in Request, NEW len \in PromptLens, AddRequest(r, len) PROVE QueueInv'
  <2>1. /\ \A s \in Request : s # r => req'[s].status = req[s].status
        /\ req'[r] = [req[r] EXCEPT !.status = "WAITING", !.arrival_time = arrivals + 1,
                                    !.num_prompt_tokens = len, !.num_tokens = len]
    BY <1>1, Zenon DEF Effects, AddRequestEffect
  <2>2. req[r] \in Rec /\ req[r].status = "NONE"
    BY <1>1, Zenon DEF TInv, ReqOK, AddRequest
  <2>3. req'[r].status = "WAITING"
    BY <2>1, <2>2, Zenon DEF Rec
  <2>4. /\ UNCHANGED <<skipped_waiting, running, step>>
        /\ waiting' = add_request(req', waiting, r)
    BY <1>1, Zenon DEF AddRequest
  <2>5. "NONE" \notin Waiting /\ "WAITING" \in Waiting
    BY Zenon DEF Waiting, Blocked
  <2>6. r \notin Queued /\ r \notin Elems(running)
    BY <2>2, <2>5, ZenonT(30) DEF Facts, StatusFact
  <2>7. waiting \in Seq(Request) /\ Injective(waiting) /\ r \notin Elems(waiting)
    BY <2>6, ZenonT(30) DEF QueueInv, Queued, Facts, QueueTypesFact
  <2>8. Injective(waiting') /\ Elems(waiting') = Elems(waiting) \cup {r}
    BY <2>4, <2>7 DEF Facts, AddOneFact
  <2>9. Queued' = Queued \cup {r}
    BY <2>4, <2>8, ZenonT(30) DEF Queued
  <2>10. /\ Injective(running') /\ Injective(skipped_waiting') /\ Injective(step'.skipped)
         /\ Elems(waiting') \cap Elems(skipped_waiting') = {}
         /\ Elems(waiting') \cap Elems(step'.skipped) = {}
         /\ Elems(skipped_waiting') \cap Elems(step'.skipped) = {}
         /\ Elems(running') \ {r} = Elems(running) \ {r} /\ r \notin Elems(running')
         /\ Queued' \ {r} = Queued \ {r} /\ r \in Queued'
    BY SMTT(30), <2>4, <2>6, <2>8, <2>9 DEF QueueInv, Queued
  <2> QED BY <2>1, <2>3, <2>5, <2>8, <2>10, QueueMove, ZenonT(30)
<1>2. ASSUME NEW r \in Request, NEW len \in PromptLens \cup {0}, AddChunk(r, len)
      PROVE  QueueInv'
  <2>0. step' = step /\ step.phase = "idle"
    BY <1>2, ZenonT(30) DEF AddChunk
  <2>1. /\ \A s \in Request : s # r => req'[s].status = req[s].status
        /\ \/ req'[r].status = req[r].status /\ UNCHANGED queues
           \/ req[r].status = "STREAMING" /\ req'[r].status = "WAITING" /\ UNCHANGED queues
           \/ /\ req[r].status = "STREAMING" /\ req'[r] = Gone
              /\ skipped_waiting' = remove_all(skipped_waiting, {r})
              /\ waiting' = remove_all(waiting, {r})
              /\ running' = running
    BY <1>2, ZenonT(30) DEF Effects, AddChunkEffect
  <2>2. CASE UNCHANGED queues /\ (\/ req'[r].status = req[r].status
                                  \/ req[r].status = "STREAMING" /\ req'[r].status = "WAITING")
    <3>1. "STREAMING" \in Waiting /\ "WAITING" \in Waiting
      BY ZenonT(30) DEF Waiting, Blocked
    <3> QED BY <2>0, <2>1, <2>2, <3>1, QueueSame, Zenon
  <2>3. CASE /\ req[r].status = "STREAMING" /\ req'[r] = Gone
             /\ skipped_waiting' = remove_all(skipped_waiting, {r})
             /\ waiting' = remove_all(waiting, {r})
             /\ running' = running
    <3>1. r \notin Elems(running)
      BY <2>3, Zenon DEF Facts, StatusFact
    <3>2. step.skipped = <<>>
      BY <2>0, ZenonT(30) DEF StepInv
    <3>3. r \notin Elems(step.skipped)
      BY <3>2, Zenon DEF Facts, QueueTypesFact, NoElemsFact
    <3>4. req'[r].status \in Finished
      BY <2>3, Zenon DEF Finished, Facts, GoneFact
    <3> QED BY <2>0, <2>1, <2>3, <3>1, <3>3, <3>4, QueueLeave, ZenonT(30)
  <2> QED BY <2>1, <2>2, <2>3, Zenon
<1>3. ASSUME NEW r \in Request, Abort(r) PROVE QueueInv'
  <2>1. /\ step' = step /\ step.phase \in {"idle", "result"}
        /\ running' = IF req[r].status = "RUNNING" THEN remove_all(running, {r}) ELSE running
        /\ IF req[r].status = "RUNNING" THEN UNCHANGED <<waiting, skipped_waiting>>
           ELSE /\ waiting' = remove_all(waiting, {r})
                /\ skipped_waiting' = remove_all(skipped_waiting, {r})
    BY <1>3, Zenon DEF Abort
  <2>2. /\ \A s \in Request : s # r => req'[s].status = req[s].status
        /\ req'[r] = [req[r] EXCEPT !.status = "FINISHED"] \/ req'[r] = Gone
    BY <1>3, Zenon DEF Effects, AbortEffect
  <2>3. req'[r].status \in Finished
    <3>1. req[r] \in Rec
      BY Zenon DEF TInv, ReqOK
    <3>2. [req[r] EXCEPT !.status = "FINISHED"].status = "FINISHED"
      BY <3>1, Zenon DEF Rec
    <3> QED BY <2>2, <3>2, Zenon DEF Finished, Facts, GoneFact
  <2>4. step.skipped = <<>>
    BY <2>1, Zenon DEF StepInv
  <2>5. r \notin Elems(step.skipped)
    BY <2>4, Zenon DEF Facts, QueueTypesFact, NoElemsFact
  <2>6. /\ req[r].status = "RUNNING" => r \notin Elems(waiting) /\ r \notin Elems(skipped_waiting)
        /\ req[r].status # "RUNNING" => r \notin Elems(running)
    BY Zenon DEF Queued, Facts, StatusFact
  <2> QED BY <2>1, <2>2, <2>3, <2>5, <2>6, QueueLeave, ZenonT(30)
<1>4. ASSUME StartReset \/ \E state \in PauseStates \cup {"UNPAUSED"} : set_pause_state(state)
      PROVE  QueueInv'
  <2>1. UNCHANGED <<req, queues>>
    BY <1>4, Zenon DEF Effects, ControlEffect
  <2>2. step.skipped \in Seq(Request) /\ step \in Step
    BY Zenon DEF TInv, StepOK, Step
  <2>3. step'.skipped = step.skipped
    BY <1>4, <2>2, ZenonT(30) DEF StartReset, set_pause_state, Step
  <2> QED BY <2>1, <2>3, QueueSame, Zenon
<1> QED BY <1>1, <1>2, <1>3, <1>4, ZenonT(30) DEF Client

LEMMA QueueSchedule ==
  ASSUME ListFacts, Facts, Effects, TInv, VictimOK, QueueInv, StepInv, Schedule
  PROVE  QueueInv'
<1>0. step \in Step
  BY Zenon DEF TInv, StepOK
<1>1. ASSUME \/ StartSchedule \/ SkipRunning \/ EndRunning
             \/ \E ext \in 0..max_model_len : StopWaiting(ext)
      PROVE  QueueInv'
  <2>1. UNCHANGED <<req, queues>>
    BY <1>1, Zenon DEF Effects, ControlEffect
  <2>2. CASE StartSchedule
    <3>1. step.skipped = <<>> /\ step'.skipped = <<>>
      BY <2>2, ZenonT(30) DEF StepInv, StartSchedule, Idle
    <3> QED BY <2>1, <3>1, QueueSame, Zenon
  <2>3. CASE SkipRunning \/ EndRunning \/ \E ext \in 0..max_model_len : StopWaiting(ext)
    <3>1. step'.skipped = step.skipped
      BY <1>0, <2>3, Zenon DEF SkipRunning, EndRunning, StopWaiting, Step
    <3> QED BY <2>1, <3>1, QueueSame, Zenon
  <2> QED BY <1>1, <2>2, <2>3, ZenonT(30)
<1>2. ASSUME ScheduleRunning PROVE QueueInv'
  <2>1. /\ Current \in Request /\ Allocated(Current, req[Current])
        /\ step'.skipped = step.skipped
    BY <1>2, Zenon DEF Effects, ScheduleRunningEffect
  <2>2. \A s \in Request : req'[s].status = req[s].status
    BY <2>1, Zenon DEF Allocated
  <2>3. UNCHANGED queues
    BY <1>2, ZenonT(30) DEF ScheduleRunning
  <2> QED BY <2>1, <2>2, <2>3, QueueSame, ZenonT(30)
<1>3. ASSUME PreemptRunning PROVE QueueInv'
  <2>1. /\ Victim \in Request /\ Victim \in Elems(running)
        /\ \A s \in Request : s # Victim => req'[s].status = req[s].status
        /\ req'[Victim].status = "PREEMPTED"
        /\ waiting' = prepend_request(waiting, Victim)
        /\ step'.skipped = step.skipped
    BY <1>3, Zenon DEF Effects, PreemptRunningEffect
  <2>2. running' = remove_all(running, {Victim}) /\ skipped_waiting' = skipped_waiting
    BY <1>3, ZenonT(30) DEF PreemptRunning
  <2>3. running \in Seq(Request) /\ Injective(running)
    BY Zenon DEF QueueInv, Facts, QueueTypesFact
  <2>4. Injective(running') /\ Elems(running') = Elems(running) \ {Victim}
    BY <2>1, <2>2, <2>3, Zenon DEF Facts, RemoveFact
  <2>5. "PREEMPTED" \in Waiting
    BY ZenonT(30) DEF Waiting
  <2> QED BY <2>1, <2>2, <2>4, <2>5, QueuePreempt, Zenon
<1>4. ASSUME SkipWaiting PROVE QueueInv'
  <2> DEFINE r == peek_request
  <2>1. /\ InWaitingLoop /\ pop_request /\ UNCHANGED <<req, running>>
        /\ step'.skipped = Append(step.skipped, r)
    BY <1>4, Zenon DEF Effects, SkipWaitingEffect
  <2>2. /\ r \in Queued /\ r \notin Elems(step.skipped) /\ req[r].status \in Waiting
        /\ Injective(waiting') /\ Elems(waiting') = Elems(waiting) \ {r}
        /\ Injective(skipped_waiting')
        /\ Elems(skipped_waiting') = Elems(skipped_waiting) \ {r}
    BY <2>1, ZenonT(30) DEF Facts, PopFact
  <2>3. r \in Request
    BY <2>2, ZenonT(30) DEF Facts, QueueTypesFact
  <2> HIDE DEF r
  <2>4. Injective(step'.skipped) /\ Elems(step'.skipped) = Elems(step.skipped) \cup {r}
    BY SMTT(30), <2>1, <2>2, <2>3 DEF QueueInv, Facts, ListFacts, QueueTypesFact, AppendElemsFact
  <2>5. Queued' = Queued
    BY <2>2, <2>4, Zenon DEF Queued
  <2>6. /\ Elems(waiting') \cap Elems(skipped_waiting') = {}
        /\ Elems(waiting') \cap Elems(step'.skipped) = {}
        /\ Elems(skipped_waiting') \cap Elems(step'.skipped) = {}
    BY <2>2, <2>4, Zenon DEF QueueInv
  <2> QED BY <2>1, <2>2, <2>4, <2>5, <2>6, Zenon DEF QueueInv
<1>5. ASSUME PromoteLoaded PROVE QueueInv'
  <2> DEFINE r == peek_request
  <2>1. /\ r \in Request /\ UNCHANGED <<queues, step>>
        /\ req[r].status = "REMOTE" /\ req'[r].status \in {"WAITING", "PREEMPTED"}
        /\ \A s \in Request : s # r => req'[s] = req[s]
    BY <1>5, Zenon DEF Effects, PromoteLoadedEffect
  <2> HIDE DEF r
  <2>2. "REMOTE" \in Waiting /\ {"WAITING", "PREEMPTED"} \subseteq Waiting
    BY Zenon DEF Waiting, Blocked
  <2> QED BY <2>1, <2>2, QueueSame, ZenonT(30)
<1>6. ASSUME NEW ext \in 0..max_model_len, ScheduleWaiting(ext) PROVE QueueInv'
  <2> DEFINE r == peek_request
  <2>1. /\ InWaitingLoop /\ pop_request /\ r \in Request
        /\ \E c \in Int : Allocated(r, Updated(req[r], "RUNNING", c))
        /\ running' = Append(running, r) /\ step'.skipped = step.skipped
    BY <1>6, Zenon DEF Effects, ScheduleWaitingEffect
  <2>2. /\ r \in Queued /\ r \notin Elems(step.skipped) /\ req[r].status \in Waiting
        /\ Injective(waiting') /\ Elems(waiting') = Elems(waiting) \ {r}
        /\ Injective(skipped_waiting')
        /\ Elems(skipped_waiting') = Elems(skipped_waiting) \ {r}
    BY <2>1, Zenon DEF Facts, PopFact
  <2> HIDE DEF r
  <2>3. PICK c \in Int : Allocated(r, Updated(req[r], "RUNNING", c))
    BY <2>1, Zenon
  <2>4. req[r] \in Rec /\ "RUNNING" \in Statuses
    BY <2>1, Zenon DEF TInv, ReqOK, Statuses
  <2>5. Updated(req[r], "RUNNING", c).status = "RUNNING"
    BY <2>4, ZenonT(30) DEF Facts, UpdatedFact
  <2>6. /\ req'[r].status = "RUNNING"
        /\ \A s \in Request : s # r => req'[s].status = req[s].status
    BY <2>3, <2>5, ZenonT(30) DEF Allocated
  <2>7. r \notin Elems(running)
    BY <2>1, <2>2, ZenonT(30) DEF Facts, StatusFact
  <2>8. Injective(running') /\ Elems(running') = Elems(running) \cup {r}
    BY SMTT(30), <2>1, <2>7 DEF QueueInv, Facts, ListFacts, QueueTypesFact, AppendElemsFact
  <2>9. Queued' = Queued \ {r}
    BY <2>1, <2>2, ZenonT(30) DEF Queued
  <2>10. /\ Elems(waiting') \cap Elems(skipped_waiting') = {}
         /\ Elems(waiting') \cap Elems(step'.skipped) = {}
         /\ Elems(skipped_waiting') \cap Elems(step'.skipped) = {}
         /\ Injective(step'.skipped)
    BY <2>1, <2>2, ZenonT(30) DEF QueueInv
  <2>11. /\ Elems(running') \ {r} = Elems(running) \ {r} /\ r \in Elems(running')
         /\ Queued' \ {r} = Queued \ {r} /\ r \notin Queued' /\ "RUNNING" \notin Waiting
    BY <2>8, <2>9, ZenonT(30) DEF Waiting, Blocked
  <2> QED BY <2>1, <2>2, <2>6, <2>8, <2>10, <2>11, QueueMove, ZenonT(30)
<1>7. ASSUME NEW ext \in 0..max_model_len, StartLoad(ext) PROVE QueueInv'
  <2> DEFINE r == peek_request
  <2>1. /\ InWaitingLoop /\ pop_request /\ r \in Request
        /\ Allocated(r, Updated(req[r], "REMOTE", ext))
        /\ running' = running /\ step'.skipped = Append(step.skipped, r)
    BY <1>7, Zenon DEF Effects, StartLoadEffect
  <2>2. /\ r \in Queued /\ r \notin Elems(step.skipped) /\ req[r].status \in Waiting
        /\ Injective(waiting') /\ Elems(waiting') = Elems(waiting) \ {r}
        /\ Injective(skipped_waiting')
        /\ Elems(skipped_waiting') = Elems(skipped_waiting) \ {r}
    BY <2>1, ZenonT(30) DEF Facts, PopFact
  <2> HIDE DEF r
  <2>4. req[r] \in Rec /\ "REMOTE" \in Statuses /\ "REMOTE" \in Waiting /\ ext \in Int
    BY SMTT(30), <2>1, SchedulerAssumption DEF TInv, ReqOK, Statuses, Waiting, Blocked
  <2>5. Updated(req[r], "REMOTE", ext).status = "REMOTE"
    BY <2>4, ZenonT(30) DEF Facts, UpdatedFact
  <2>6. /\ req'[r].status = "REMOTE"
        /\ \A s \in Request : s # r => req'[s].status = req[s].status
    BY <2>1, <2>5, ZenonT(30) DEF Allocated
  <2>7. Injective(step'.skipped) /\ Elems(step'.skipped) = Elems(step.skipped) \cup {r}
    BY SMTT(30), <2>1, <2>2 DEF QueueInv, Facts, ListFacts, QueueTypesFact, AppendElemsFact
  <2>8. Queued' = Queued
    BY <2>2, <2>7, Zenon DEF Queued
  <2>9. /\ Elems(waiting') \cap Elems(skipped_waiting') = {}
        /\ Elems(waiting') \cap Elems(step'.skipped) = {}
        /\ Elems(skipped_waiting') \cap Elems(step'.skipped) = {}
    BY <2>2, <2>7, Zenon DEF QueueInv
  <2>10. /\ Elems(running') = Elems(running) /\ r \notin Elems(running')
         /\ Injective(running') /\ r \in Queued'
    BY <2>1, <2>2, <2>8, ZenonT(30) DEF QueueInv, Facts, StatusFact
  <2> QED BY SMTT(30), <2>1, <2>2, <2>4, <2>6, <2>7, <2>8, <2>9, <2>10, QueueMove
<1>8. ASSUME EndSchedule PROVE QueueInv'
  <2>1. /\ skipped_waiting' = prepend_requests(skipped_waiting, step.skipped)
        /\ UNCHANGED <<waiting, running>>
        /\ \A r \in Request : req'[r].status = req[r].status
        /\ step' = [Idle EXCEPT !.phase = step'.phase]
    BY <1>8, Zenon DEF Effects, EndScheduleEffect
  <2>2. step'.skipped = <<>>
    BY <2>1, Zenon DEF Idle
  <2>3. Elems(<<>>) = {} /\ Injective(<<>>)
    BY SMTT(30) DEF Elems, Injective
  <2>4. /\ Injective(skipped_waiting')
        /\ Elems(skipped_waiting') = Elems(skipped_waiting) \cup Elems(step.skipped)
    BY <2>1, Zenon DEF QueueInv, Facts, QueueTypesFact, PrependAllFact
  <2>5. Queued' = Queued
    BY <2>1, <2>2, <2>3, <2>4, ZenonT(30) DEF Queued
  <2>6. /\ Elems(waiting') \cap Elems(skipped_waiting') = {}
        /\ Elems(waiting') \cap Elems(step'.skipped) = {}
        /\ Elems(skipped_waiting') \cap Elems(step'.skipped) = {}
        /\ Injective(step'.skipped) /\ Injective(running') /\ Injective(waiting')
    BY <2>1, <2>2, <2>3, <2>4, Zenon DEF QueueInv
  <2>7. \A r \in Request : /\ r \in Elems(running') <=> req'[r].status = "RUNNING"
                           /\ r \in Queued' <=> req'[r].status \in Waiting
    BY <2>1, <2>5, Zenon DEF QueueInv
  <2> QED BY <2>4, <2>6, <2>7, Zenon DEF QueueInv
<1> QED BY <1>1, <1>2, <1>3, <1>4, <1>5, <1>6, <1>7, <1>8, Zenon DEF Schedule

LEMMA QueueUpdate ==
  ASSUME ListFacts, Facts, Effects, TInv, QueueInv, StepInv, FlightInv, LoadInv, Orderly,
         Update \/ ResetRunning \/ \E r \in Request : LoadDone(r)
  PROVE  QueueInv'
<1>0. step \in Step
  BY Zenon DEF TInv, StepOK
<1>1. ASSUME EndUpdate PROVE QueueInv'
  <2>1. UNCHANGED <<req, queues>>
    BY <1>1, ZenonT(30) DEF Effects, ControlEffect
  <2>2. step.skipped = <<>> /\ step'.skipped = <<>>
    BY <1>1, Zenon DEF StepInv, EndUpdate, Idle
  <2> QED BY <2>1, <2>2, QueueSame, Zenon
<1>2. ASSUME BeginUpdate PROVE QueueInv'
  <2>1. UNCHANGED <<req, queues>> /\ step'.skipped = <<>> /\ step.phase = "result"
    BY <1>2, ZenonT(30) DEF Effects, BeginUpdateEffect
  <2>2. step.skipped = <<>>
    BY <2>1, Zenon DEF StepInv
  <2> QED BY <2>1, <2>2, QueueSame, Zenon
<1>3. ASSUME SkipEntry \/ DiscardFrame \/ \E g \in 1..1 + num_spec_tokens : AppendOutput(g)
      PROVE  QueueInv'
  <2>1. /\ InUpdateLoop /\ NextEntry /\ UNCHANGED queues
        /\ \A r \in Request : req'[r].status = req[r].status
    BY <1>3, ZenonT(30) DEF Effects, EntryEffect
  <2>2. step'.skipped = step.skipped
    BY <2>1, ZenonT(30) DEF Facts, EntryFact
  <2> QED BY <2>1, <2>2, QueueSame, Zenon
<1>4. ASSUME NEW g \in 1..1 + num_spec_tokens, NEW k \in 1..1 + num_spec_tokens,
             StopRequest(g, k)
      PROVE  QueueInv'
  <2> DEFINE r == Entry.id
  <2>0. g \in Int /\ k \in Int
    BY SMTT(30), SchedulerAssumption
  <2>1. /\ InUpdateLoop /\ NextEntry /\ r \in Request /\ req[r].status \notin Finished
        /\ \A s \in Request : s # r => req'[s].status = req[s].status
        /\ running' = IF req[r].status = "RUNNING" THEN remove_all(running, {r}) ELSE running
        /\ \/ /\ req'[r] = Gone /\ waiting' = RemoveStopped(waiting, r)
              /\ skipped_waiting' = skipped_waiting
           \/ /\ r \in Sessions /\ req'[r].status = "WAITING"
              /\ waiting' = RemoveStopped(add_request(req', waiting, r), r)
              /\ skipped_waiting' = skipped_waiting
           \/ /\ r \in Sessions /\ req'[r].status = "STREAMING"
              /\ skipped_waiting' = add_request(req', skipped_waiting, r)
              /\ waiting' = RemoveStopped(waiting, r)
    BY <1>4, <2>0, ZenonT(30) DEF Effects, StopRequestEffect
  <2>2. /\ req[r].status = "RUNNING" \/ (req[r].status = "PREEMPTED" /\ r \in Elems(waiting))
        /\ r \in Sessions => req[r].status = "RUNNING"
    <3>1. InFlightOK(Entry) /\ (max_concurrent_batches = 1 => req[r].status \in Live)
      BY <2>1, Zenon DEF Facts, EntryElemFact
    <3>2. r \in Sessions => max_concurrent_batches = 1
      BY Zenon DEF Orderly
    <3> QED BY <2>1, <3>1, <3>2, Zenon DEF InFlightOK, Live
  <2>3. step'.skipped = step.skipped /\ step.phase = "update"
    BY <2>1, Zenon DEF Facts, EntryFact
  <2>4. step.skipped = <<>>
    BY <2>3, Zenon DEF StepInv
  <2>5. r \notin Elems(step.skipped)
    BY <2>4, Zenon DEF Facts, QueueTypesFact, NoElemsFact
  <2> HIDE DEF r
  <2>6. /\ running \in Seq(Request) /\ waiting \in Seq(Request) /\ skipped_waiting \in Seq(Request)
        /\ Injective(running) /\ Injective(skipped_waiting)
    BY Zenon DEF QueueInv, Facts, QueueTypesFact
  <2>7. CASE /\ req'[r] = Gone /\ waiting' = RemoveStopped(waiting, r)
             /\ skipped_waiting' = skipped_waiting
    <3>1. req'[r].status \in Finished
      BY <2>7, ZenonT(30) DEF Finished, Facts, GoneFact
    <3>2. CASE req[r].status = "RUNNING"
      <4>1. r \notin Elems(waiting) /\ r \notin Elems(skipped_waiting)
        BY <2>1, <3>2, ZenonT(30) DEF Queued, Facts, StatusFact
      <4>2. running' = remove_all(running, {r}) /\ waiting' = waiting
        BY <2>1, <2>7, <3>2, ZenonT(30) DEF RemoveStopped
      <4> QED BY <2>1, <2>3, <2>5, <2>7, <3>1, <4>1, <4>2, QueueLeave, Zenon
    <3>3. CASE req[r].status = "PREEMPTED" /\ r \in Elems(waiting)
      <4>1. r \notin Elems(running) /\ r \notin Elems(skipped_waiting)
        BY <2>1, <3>3, ZenonT(30) DEF QueueInv, Facts, StatusFact
      <4>2. running' = running /\ waiting' = remove_all(waiting, {r})
        BY <2>1, <2>7, <3>3, Zenon DEF RemoveStopped
      <4> QED BY <2>1, <2>3, <2>5, <2>7, <3>1, <4>1, <4>2, QueueLeave, Zenon
    <3> QED BY <2>2, <3>2, <3>3, ZenonT(30)
  <2>8. CASE r \in Sessions
    <3>1. req[r].status = "RUNNING" /\ running' = remove_all(running, {r}) /\ r \in Elems(running)
      BY <2>1, <2>2, <2>8, ZenonT(30) DEF Facts, StatusFact
    <3>2. Injective(running') /\ Elems(running') = Elems(running) \ {r}
      BY SMTT(30), <2>1, <2>6, <3>1 DEF Facts, RemoveFact
    <3>3. CASE /\ req'[r].status = "WAITING"
               /\ waiting' = RemoveStopped(add_request(req', waiting, r), r)
               /\ skipped_waiting' = skipped_waiting
      <4>1. waiting' = add_request(req', waiting, r) /\ "WAITING" \in Waiting
        BY <3>1, <3>3, ZenonT(30) DEF RemoveStopped, Waiting
      <4> QED BY <2>1, <2>3, <3>1, <3>2, <3>3, <4>1, QueuePreempt, Zenon
    <3>4. CASE /\ req'[r].status = "STREAMING"
               /\ skipped_waiting' = add_request(req', skipped_waiting, r)
               /\ waiting' = RemoveStopped(waiting, r)
      <4>1. r \notin Queued
        BY <2>1, <3>1, Zenon DEF Facts, StatusFact
      <4>2. /\ r \notin Elems(waiting) /\ r \notin Elems(skipped_waiting)
            /\ waiting' = waiting /\ step'.skipped = step.skipped
        BY <2>3, <3>1, <3>4, <4>1, ZenonT(30) DEF Queued, RemoveStopped
      <4>3. /\ Injective(skipped_waiting')
            /\ Elems(skipped_waiting') = Elems(skipped_waiting) \cup {r}
        <5>1. /\ Injective(add_request(req', skipped_waiting, r))
              /\ Elems(add_request(req', skipped_waiting, r)) = Elems(skipped_waiting) \cup {r}
          BY <2>1, <2>6, <4>2 DEF Facts, AddOneFact
        <5> QED BY <3>4, <5>1, ZenonT(30)
      <4>4. Queued' = Queued \cup {r}
        BY <4>2, <4>3, ZenonT(30) DEF Queued
      <4>5. /\ Elems(waiting') \cap Elems(skipped_waiting') = {}
            /\ Elems(waiting') \cap Elems(step'.skipped) = {}
            /\ Elems(skipped_waiting') \cap Elems(step'.skipped) = {}
            /\ Injective(step'.skipped) /\ Injective(waiting')
        BY <2>5, <4>2, <4>3, Zenon DEF QueueInv
      <4>6. /\ Elems(running') \ {r} = Elems(running) \ {r} /\ r \notin Elems(running')
            /\ Queued' \ {r} = Queued \ {r} /\ r \in Queued'
            /\ req'[r].status # "RUNNING" /\ req'[r].status \in Waiting
        BY <3>2, <3>4, <4>4, Zenon DEF Waiting, Blocked
      <4> QED BY <2>1, <3>2, <4>3, <4>5, <4>6, QueueMove, ZenonT(30)
    <3>5. CASE req'[r] = Gone
      BY <2>1, <2>7, <3>3, <3>4, <3>5, ZenonT(30)
    <3> QED BY <2>1, <3>3, <3>4, <3>5, Zenon
  <2> QED BY <2>1, <2>7, <2>8, Zenon
<1>5. ASSUME NEW r \in Request, ReportLoaded(r) PROVE QueueInv'
  <2>1. /\ r \in loaded /\ UNCHANGED <<queues, step>>
        /\ \A s \in Request : s # r => req'[s] = req[s]
        /\ IF req[r].status = "REMOTE" THEN req' = req ELSE req'[r] = Gone
    BY <1>5, Zenon DEF Effects, ReportLoadedEffect
  <2>2. req[r].status \in {"REMOTE", "FINISHED"}
    BY <2>1, ZenonT(30) DEF LoadInv, LoadSets, LoadsKeepBlocks
  <2>3. \/ req'[r].status = req[r].status
        \/ req[r].status \in Finished /\ req'[r].status \in Finished
    BY <2>1, <2>2, Zenon DEF Finished, Facts, GoneFact
  <2> QED BY <2>1, <2>3, QueueSame, Zenon
<1>6. ASSUME ResetRunning PROVE QueueInv'
  <2> DEFINE r == running[Len(running)]
             n == Len(running)
  <2>1. /\ r \in Request /\ r \in Elems(running) /\ running # <<>>
        /\ \A s \in Request : s # r => req'[s].status = req[s].status
        /\ req'[r].status = "PREEMPTED" /\ waiting' = prepend_request(waiting, r)
        /\ step.phase = "reset"
    BY <1>6, Zenon DEF Effects, ResetRunningEffect
  <2>2. /\ running' = SubSeq(running, 1, n - 1) /\ skipped_waiting' = skipped_waiting
        /\ step' = IF n = 1 THEN Idle ELSE step
    BY <1>6, Zenon DEF ResetRunning
  <2>3. running \in Seq(Request) /\ Injective(running)
    BY Zenon DEF QueueInv, Facts, QueueTypesFact
  <2>4. Injective(running') /\ Elems(running') = Elems(running) \ {r}
    BY <2>1, <2>2, <2>3, Zenon DEF ListFacts, FrontElemsFact
  <2>5. step.skipped = <<>>
    BY <2>1, Zenon DEF StepInv
  <2>6. step'.skipped = step.skipped
    BY <2>2, <2>5, Zenon DEF Idle
  <2>7. "PREEMPTED" \in Waiting
    BY Zenon DEF Waiting
  <2> HIDE DEF r
  <2> QED BY <2>1, <2>2, <2>4, <2>6, <2>7, QueuePreempt, Zenon
<1>7. ASSUME NEW r \in Request, LoadDone(r) PROVE QueueInv'
  <2>1. UNCHANGED <<req, queues, step>>
    BY <1>7, Zenon DEF LoadDone
  <2> QED BY <2>1, QueueSame, Zenon
<1>8. CASE Update
  BY <1>1, <1>2, <1>3, <1>4, <1>5, <1>8, ZenonT(30) DEF Update
<1> QED BY <1>6, <1>7, <1>8, Zenon

LEMMA QueueStart ==
  Init => QueueInv /\ StepInv
<1> SUFFICES ASSUME Init PROVE QueueInv /\ StepInv
  BY Zenon
<1>1. /\ waiting = <<>> /\ skipped_waiting = <<>> /\ running = <<>> /\ batch_queue = <<>>
      /\ loading = {}
  BY ZenonT(30) DEF Init
<1>2. \A r \in Request : req[r].status = "NONE"
  BY Zenon DEF Init, NewRequest
<1>3. /\ step.phase = "idle" /\ step.scheduled = <<>> /\ step.skipped = <<>>
      /\ step.new = {} /\ step.preempted = FALSE
  BY DEF Init, Idle
<1>4. Len(<<>>) = 0 /\ 1..0 = {} /\ Elems(<<>>) = {} /\ Injective(<<>>) /\ Distinct(<<>>)
  BY SMTT(30) DEF Elems, Injective, Distinct
<1>5. QueueInv
  <2>1. Queued = {} /\ Elems(running) = {}
    BY <1>1, <1>3, <1>4 DEF Queued
  <2> QED BY <1>1, <1>2, <1>3, <1>4, <2>1, ZenonT(30) DEF QueueInv, Waiting, Blocked
<1>6. StepInv
  BY <1>1, <1>3, <1>4, ZenonT(30) DEF StepInv
<1> QED BY <1>5, <1>6, Zenon

\* Every step keeps a request in its queue, and the step in progress in order.
LEMMA QueueStep ==
  ASSUME ListFacts, Facts, Effects, Orderly, TInv, TInv', VictimOK, QInv, [Next]_vars
  PROVE  QueueInv' /\ StepInv'
<1>0. /\ QueueInv /\ StepInv /\ FlightInv /\ LoadInv /\ NoSessionInv /\ OrderInv
  BY Zenon DEF QInv
<1>1. ASSUME Client PROVE QueueInv' /\ StepInv'
  BY <1>0, <1>1, QueueClient, StepOther, ZenonT(30)
<1>2. ASSUME Schedule PROVE QueueInv' /\ StepInv'
  BY <1>0, <1>2, QueueSchedule, StepSchedule, ZenonT(30)
<1>3. ASSUME Update \/ ResetRunning \/ \E r \in Request : LoadDone(r)
      PROVE  QueueInv' /\ StepInv'
  BY <1>0, <1>3, QueueUpdate, StepOther, ZenonT(30)
<1>4. ASSUME UNCHANGED vars PROVE QueueInv' /\ StepInv'
  <2>1. UNCHANGED <<req, waiting, skipped_waiting, running, step, batch_queue>>
    BY <1>4, Zenon DEF vars, queues, worker
  <2> QED BY SMTT(30), <1>0, <2>1 DEF QueueInv, Queued, StepInv, Retry
<1> QED BY <1>1, <1>2, <1>3, <1>4, Zenon DEF Next

LEMMA CountOne ==
  ASSUME ListFacts, NEW T, NEW q \in Seq(T), Injective(q), NEW r
  PROVE  Count(q, r) = IF r \in Elems(q) THEN 1 ELSE 0
<1> DEFINE I == {i \in 1..Len(q) : q[i] = r}
<1>1. Count(q, r) = Cardinality(I)
  BY ZenonT(30) DEF Count
<1>2. CASE r \in Elems(q)
  <2>1. PICK k \in 1..Len(q) : q[k] = r
    BY <1>2, Zenon DEF Elems
  <2>2. I = {k}
    BY <2>1, Zenon DEF Injective
  <2>3. Cardinality({k}) = 1
    BY DEF ListFacts, SingletonFact
  <2> QED BY <1>1, <1>2, <2>2, <2>3
<1>3. CASE r \notin Elems(q)
  <2>1. I = {}
    BY <1>3, Zenon DEF Elems
  <2>2. Cardinality({}) = 0
    BY Zenon DEF ListFacts, EmptySetFact
  <2> QED BY <1>1, <1>3, <2>1, <2>2
<1> QED BY <1>2, <1>3, Zenon

LEMMA QueuedOnce ==
  ASSUME ListFacts, Facts, TInv, QueueInv
  PROVE  OneQueue
<1> DEFINE x == waiting \o skipped_waiting
           z == waiting \o skipped_waiting \o step.skipped
<1>1. /\ waiting \in Seq(Request) /\ skipped_waiting \in Seq(Request)
      /\ running \in Seq(Request) /\ step.skipped \in Seq(Request)
  BY Zenon DEF Facts, QueueTypesFact
<1>2. /\ Injective(running) /\ Injective(waiting) /\ Injective(skipped_waiting)
      /\ Injective(step.skipped)
      /\ Elems(waiting) \cap Elems(skipped_waiting) = {}
      /\ Elems(waiting) \cap Elems(step.skipped) = {}
      /\ Elems(skipped_waiting) \cap Elems(step.skipped) = {}
  BY DEF QueueInv
<1>3. x \in Seq(Request) /\ Elems(x) = Elems(waiting) \cup Elems(skipped_waiting) /\ Injective(x)
  <2>1. /\ x \in Seq(Request) /\ Elems(x) = Elems(waiting) \cup Elems(skipped_waiting)
        /\ Injective(waiting) /\ Injective(skipped_waiting)
             /\ Elems(waiting) \cap Elems(skipped_waiting) = {} => Injective(x)
    BY <1>1, ZenonT(30) DEF ListFacts, ConcatElemsFact
  <2> QED BY <1>2, <2>1, Zenon
<1>4. Elems(x) \cap Elems(step.skipped) = {}
  BY <1>2, <1>3, Zenon
<1> HIDE DEF x
<1>5. /\ x \o step.skipped \in Seq(Request) /\ Injective(x \o step.skipped)
      /\ Elems(x \o step.skipped) = Elems(x) \cup Elems(step.skipped)
  <2>1. /\ x \o step.skipped \in Seq(Request)
        /\ Elems(x \o step.skipped) = Elems(x) \cup Elems(step.skipped)
        /\ Injective(x) /\ Injective(step.skipped) /\ Elems(x) \cap Elems(step.skipped) = {}
             => Injective(x \o step.skipped)
    BY <1>1, <1>3, Zenon DEF ListFacts, ConcatElemsFact
  <2> QED BY <1>2, <1>3, <1>4, <2>1, Zenon
<1>6. z = x \o step.skipped
  BY ZenonT(30) DEF x
<1> HIDE DEF z
<1>7. z \in Seq(Request) /\ Injective(z) /\ Elems(z) = Queued
  BY <1>3, <1>5, <1>6, Zenon DEF Queued
<1>8. ASSUME NEW r \in Request
      PROVE  /\ Count(running, r) = (IF req[r].status = "RUNNING" THEN 1 ELSE 0)
             /\ Count(z, r) = (IF req[r].status \in Waiting THEN 1 ELSE 0)
  <2>1. /\ r \in Elems(running) <=> req[r].status = "RUNNING"
        /\ r \in Elems(z) <=> req[r].status \in Waiting
    BY <1>7, Zenon DEF QueueInv
  <2>2. /\ Count(running, r) = (IF r \in Elems(running) THEN 1 ELSE 0)
        /\ Count(z, r) = (IF r \in Elems(z) THEN 1 ELSE 0)
    BY <1>1, <1>2, <1>7, CountOne, Zenon
  <2> QED BY SMTT(30), <2>1, <2>2
<1> QED BY <1>8, Zenon DEF OneQueue, z
=============================================================================
