---------------------------- MODULE ShmRingBuffer ----------------------------
(***************************************************************************)
(* The shared-memory message queue between an executor and its workers:    *)
(* ShmRingBuffer, SpinCondition and MessageQueue of shm_broadcast.py, for  *)
(* one writer and its local readers.                                       *)
(*                                                                         *)
(* No lock protects the ring.  Every load and store of a metadata byte is  *)
(* an action of its own, and a chunk is written and read in two steps, so  *)
(* that a reader and the writer may meet inside it.  Memory is taken to be *)
(* sequentially consistent, which is what memory_fence claims to provide.  *)
(* Messages are numbered from 1; a chunk never written, or half written,   *)
(* has content Torn.                                                       *)
(***************************************************************************)
EXTENDS Integers, Sequences

CONSTANTS Readers,      \* local readers (one metadata byte each)
          max_chunks,   \* chunks of the ring
          Timed,        \* readers whose dequeue has a timeout; the others
                        \* call it with indefinite = True
          MaxMessages,  \* bound: messages enqueued in a behaviour
          Large         \* the messages that do not fit into a chunk

ASSUME RingAssumption == /\ max_chunks \in Nat \ {0}
                         /\ MaxMessages \in Nat
                         /\ Timed \subseteq Readers
                         /\ Large \subseteq 1 .. MaxMessages

VARIABLES
  written,        \* written[c]: byte 0 of the metadata of chunk c
  read,           \* read[c][r]: the byte of reader r
  data,           \* content of the chunks; byte 0 tells a message of Large,
                  \* of which the chunk holds nothing else
  wpc, widx,      \* the writer: where it is, current_idx
  left,           \* reader bytes the writer has still to load or to reset
  read_count,     \* reader bytes it found set
  sent,           \* messages published so far
  rpc, ridx,      \* the readers: where they are, current_idx
  read_flag,      \* the reader's own byte as check() loaded it
  buf,            \* what the reader found in the chunk
  nread,          \* chunks the reader has marked as read
  obj,            \* the message dequeue returned last
  local_socket,   \* messages sent over zmq that the reader has not received
  ping,           \* a notification waits in the reader's SUB socket
  shutting_down,  \* MessageQueue.shutting_down of the reader
  cancelled       \* the ping of cancel(); nothing ever receives it

writer == <<wpc, widx, left, read_count, sent>>
reader == <<rpc, ridx, read_flag, buf, nread, obj>>
stop == <<shutting_down, cancelled>>
vars == <<written, read, data, writer, reader, local_socket, ping, stop>>

Chunks == 0 .. max_chunks - 1
Torn == 0
Content == {Torn} \cup 1 .. MaxMessages

WriterPC == {"idle", "sum", "clear", "begin", "end", "reset", "send", "notify",
             "dead"}
ReaderPC == {"flag", "check", "poll", "begin", "end", "mark", "recv", "raised"}

Init ==
  /\ written = [c \in Chunks |-> FALSE]
  /\ read = [c \in Chunks |-> [r \in Readers |-> FALSE]]
  /\ data = [c \in Chunks |-> Torn]
  /\ wpc = "idle" /\ widx = 0 /\ left = {} /\ read_count = {}
  /\ sent = 0
  /\ rpc = [r \in Readers |-> "flag"]
  /\ ridx = [r \in Readers |-> 0]
  /\ read_flag = [r \in Readers |-> FALSE]
  /\ buf = [r \in Readers |-> Torn]
  /\ nread = [r \in Readers |-> 0]
  /\ obj = [r \in Readers |-> 0]
  /\ local_socket = [r \in Readers |-> <<>>]
  /\ ping = [r \in Readers |-> FALSE]
  /\ shutting_down = [r \in Readers |-> FALSE]
  /\ cancelled = [r \in Readers |-> FALSE]

next_idx(i) == (i + 1) % max_chunks

-----------------------------------------------------------------------------
(* The writer *)

\* enqueue pickles the object and waits for the chunk at current_idx.
Enqueue ==
  /\ wpc = "idle" /\ sent < MaxMessages
  /\ wpc' = "sum" /\ left' = Readers /\ read_count' = {}
  /\ UNCHANGED <<written, read, data, widx, sent, reader, local_socket, ping, stop>>

\* Mutant: sum(metadata_buffer[2:]) never sees the first reader.
CountedOffByOne(r) ==
  IF read[widx][r] /\ r # CHOOSE q \in Readers : TRUE THEN read_count \cup {r} ELSE read_count

Counted(r) == IF read[widx][r] THEN read_count \cup {r} ELSE read_count

\* check() of acquire_write adds up the reader bytes, one load each ...
LoadReaderByte(r) ==
  /\ wpc = "sum" /\ r \in left
  /\ left' = left \ {r}
  /\ read_count' = Counted(r)
  /\ UNCHANGED <<written, read, data, wpc, widx, sent, reader,
                 local_socket, ping, stop>>

\* Mutant: it is enough that one reader has read the chunk.
WritableOnceRead == ~ (written[widx] /\ read_count = {})

Writable == ~ (written[widx] /\ read_count # Readers)

\* ... and then loads the written byte.  A chunk that some reader has yet to
\* read sends the writer round the loop, or out of it when its timeout has
\* passed; nothing has been touched then.
CheckWrite ==
  /\ wpc = "sum" /\ left = {}
  /\ \/ /\ ~ Writable
        /\ \/ wpc' = "sum" /\ left' = Readers
           \/ wpc' = "idle" /\ UNCHANGED left
     \/ /\ Writable
        /\ wpc' = "clear" /\ UNCHANGED left
  /\ read_count' = {}
  /\ UNCHANGED <<written, read, data, widx, sent, reader, local_socket,
                 ping, stop>>

\* Mutant: the chunk still counts as written while it is being written.
KeepWritten ==
  /\ wpc = "clear"
  /\ wpc' = "begin"
  /\ UNCHANGED <<written, read, data, widx, left, read_count, sent, reader,
                 local_socket, ping, stop>>

ClearWritten ==
  /\ wpc = "clear"
  /\ written' = [written EXCEPT ![widx] = FALSE]
  /\ wpc' = "begin"
  /\ UNCHANGED <<read, data, widx, left, read_count, sent, reader,
                 local_socket, ping, stop>>

WriteBegin ==
  /\ wpc = "begin"
  /\ data' = [data EXCEPT ![widx] = Torn]
  /\ wpc' = "end"
  /\ UNCHANGED <<written, read, widx, left, read_count, sent, reader,
                 local_socket, ping, stop>>

WriteEnd ==
  /\ wpc = "end"
  /\ data' = [data EXCEPT ![widx] = sent + 1]
  /\ wpc' = "reset" /\ left' = Readers
  /\ UNCHANGED <<written, read, widx, read_count, sent, reader,
                 local_socket, ping, stop>>

ResetReaderByte(r) ==
  /\ wpc = "reset" /\ r \in left
  /\ read' = [read EXCEPT ![widx][r] = FALSE]
  /\ left' = left \ {r}
  /\ UNCHANGED <<written, data, wpc, widx, read_count, sent, reader,
                 local_socket, ping, stop>>

Publish ==
  /\ wpc = "reset" /\ left = {}
  /\ written' = [written EXCEPT ![widx] = TRUE]
  /\ sent' = sent + 1
  /\ widx' = next_idx(widx)
  /\ wpc' = IF sent + 1 \in Large THEN "send" ELSE "notify"
  /\ UNCHANGED <<read, data, left, read_count, reader, local_socket,
                 ping, stop>>

SendOverflow ==
  /\ wpc = "send"
  /\ local_socket' = [r \in Readers |-> Append(local_socket[r], sent)]
  /\ wpc' = "notify"
  /\ UNCHANGED <<written, read, data, widx, left, read_count, sent,
                 reader, ping, stop>>

\* Mutant: no notification on the way through the socket.
NotifiedInRing == [r \in Readers |-> ping[r] \/ sent \notin Large]

Notified == [r \in Readers |-> TRUE]

\* A PUB socket with SNDHWM 1 and a SUB socket with CONFLATE: a notification
\* the reader has not received yet absorbs the later ones.
notify ==
  /\ wpc = "notify"
  /\ ping' = Notified
  /\ wpc' = "idle"
  /\ UNCHANGED <<written, read, data, widx, left, read_count, sent,
                 reader, local_socket, stop>>

WriterStep ==
  \/ CheckWrite \/ ClearWritten \/ WriteBegin \/ WriteEnd
  \/ Publish \/ SendOverflow \/ notify
  \/ \E r \in Readers : LoadReaderByte(r) \/ ResetReaderByte(r)

\* The writer's process dies; its death closes the pipe that the monitor
\* thread of every reader waits on.
WriterDies ==
  /\ wpc # "dead"
  /\ wpc' = "dead" /\ left' = {} /\ read_count' = {}
  /\ UNCHANGED <<written, read, data, widx, sent, reader, local_socket,
                 ping, stop>>

-----------------------------------------------------------------------------
(* A reader *)

shared == <<written, data, writer, local_socket>>

\* dequeue: check() of acquire_read loads the reader's byte first ...
LoadOwnByte(r) ==
  /\ rpc[r] = "flag"
  /\ read_flag' = [read_flag EXCEPT ![r] = read[ridx[r]][r]]
  /\ rpc' = [rpc EXCEPT ![r] = "check"]
  /\ UNCHANGED <<shared, read, ridx, buf, nread, obj, ping, stop>>

\* Mutant: the reader does not look at shutting_down.
AfterWaitIgnoring(r) == "flag"

\* What acquire_read does when wait returns.
AfterWait(r) == IF shutting_down[r] THEN "raised" ELSE "flag"

\* ... and the written byte after it.  With nothing to read the reader calls
\* wait, which returns at once after a recent read and enters idle mode
\* otherwise; past the deadline timeout_ms() raises and the caller comes back
\* with another dequeue.
CheckRead(r) ==
  /\ rpc[r] = "check"
  /\ \/ /\ written[ridx[r]] /\ ~ read_flag[r]
        /\ rpc' = [rpc EXCEPT ![r] = "begin"]
     \/ /\ ~ (written[ridx[r]] /\ ~ read_flag[r])
        /\ \E next \in {AfterWait(r), "poll"} \cup (IF r \in Timed THEN {"flag"} ELSE {}) :
             rpc' = [rpc EXCEPT ![r] = next]
  /\ read_flag' = [read_flag EXCEPT ![r] = FALSE]
  /\ UNCHANGED <<shared, read, ridx, buf, nread, obj, ping, stop>>

\* poll returns for cancel, for a notification, which is then received, or
\* for its timeout, which an indefinite wait does not have.
WakeUp(r) ==
  /\ rpc[r] = "poll"
  /\ \/ cancelled[r] /\ UNCHANGED ping
     \/ ~ cancelled[r] /\ ping[r] /\ ping' = [ping EXCEPT ![r] = FALSE]
     \/ r \in Timed /\ ~ cancelled[r] /\ ~ ping[r] /\ UNCHANGED ping
  /\ rpc' = [rpc EXCEPT ![r] = AfterWait(r)]
  /\ UNCHANGED <<shared, read, ridx, read_flag, buf, nread, obj, stop>>

ReadBegin(r) ==
  /\ rpc[r] = "begin"
  /\ buf' = [buf EXCEPT ![r] = data[ridx[r]]]
  /\ rpc' = [rpc EXCEPT ![r] = "end"]
  /\ UNCHANGED <<shared, read, ridx, read_flag, nread, obj, ping, stop>>

ReadEnd(r) ==
  /\ rpc[r] = "end"
  /\ buf' = [buf EXCEPT ![r] = IF @ = data[ridx[r]] THEN @ ELSE Torn]
  /\ rpc' = [rpc EXCEPT ![r] = "mark"]
  /\ UNCHANGED <<shared, read, ridx, read_flag, nread, obj, ping, stop>>

\* Mutant: nobody fetches the message that overflowed.
AfterChunkDropping(r) == "flag"

AfterChunk(r) == IF buf[r] \in Large THEN "recv" ELSE "flag"

\* The end of acquire_read; a message in the chunk is returned, one that
\* overflowed has still to come over the socket.
MarkRead(r) ==
  /\ rpc[r] = "mark"
  /\ read' = [read EXCEPT ![ridx[r]][r] = TRUE]
  /\ ridx' = [ridx EXCEPT ![r] = next_idx(@)]
  /\ nread' = [nread EXCEPT ![r] = @ + 1]
  /\ rpc' = [rpc EXCEPT ![r] = AfterChunk(r)]
  /\ obj' = [obj EXCEPT ![r] = IF buf[r] \in Large THEN @ ELSE buf[r]]
  /\ buf' = [buf EXCEPT ![r] = Torn]
  /\ UNCHANGED <<shared, read_flag, ping, stop>>

recv(r) ==
  /\ rpc[r] = "recv" /\ local_socket[r] # <<>>
  /\ obj' = [obj EXCEPT ![r] = Head(local_socket[r])]
  /\ local_socket' = [local_socket EXCEPT ![r] = Tail(@)]
  /\ rpc' = [rpc EXCEPT ![r] = "flag"]
  /\ UNCHANGED <<written, data, writer, read, ridx, read_flag, buf, nread, ping, stop>>

\* The same timeout bounds the wait for the socket, after the chunk has been
\* given back.
RecvTimeout(r) ==
  /\ rpc[r] = "recv" /\ r \in Timed /\ local_socket[r] = <<>>
  /\ rpc' = [rpc EXCEPT ![r] = "flag"]
  /\ UNCHANGED <<shared, read, ridx, read_flag, buf, nread, obj, ping, stop>>

ReaderStep(r) ==
  \/ LoadOwnByte(r) \/ CheckRead(r) \/ WakeUp(r)
  \/ ReadBegin(r) \/ ReadEnd(r) \/ MarkRead(r) \/ recv(r)

\* The monitor thread of the reader's process, once the death pipe is closed,
\* calls shutdown(): the flag, and then the ping that ends a poll.
Shutdown(r) ==
  /\ wpc = "dead" /\ ~ shutting_down[r]
  /\ shutting_down' = [shutting_down EXCEPT ![r] = TRUE]
  /\ UNCHANGED <<shared, read, reader, ping, cancelled>>

cancel(r) ==
  /\ shutting_down[r] /\ ~ cancelled[r]
  /\ cancelled' = [cancelled EXCEPT ![r] = TRUE]
  /\ UNCHANGED <<shared, read, reader, ping, shutting_down>>

-----------------------------------------------------------------------------
Next ==
  \/ Enqueue \/ WriterStep \/ WriterDies
  \/ \E r \in Readers : ReaderStep(r) \/ RecvTimeout(r) \/ Shutdown(r) \/ cancel(r)

Spec == Init /\ [][Next]_vars

\* Processes that are alive keep running, readers call dequeue in a loop, the
\* operating system closes the death pipe, and a shutdown that began goes on
\* to cancel().  Nothing obliges anybody to enqueue, to time out or to die.
Fairness ==
  /\ WF_vars(WriterStep)
  /\ \A r \in Readers : /\ WF_vars(ReaderStep(r))
                        /\ WF_vars(Shutdown(r))
                        /\ WF_vars(cancel(r))

FairSpec == Spec /\ Fairness

-----------------------------------------------------------------------------
(* Properties *)

TypeOK ==
  /\ written \in [Chunks -> BOOLEAN]
  /\ read \in [Chunks -> [Readers -> BOOLEAN]]
  /\ data \in [Chunks -> Content]
  /\ wpc \in WriterPC /\ widx \in Chunks
  /\ left \subseteq Readers /\ read_count \subseteq Readers
  /\ sent \in 0 .. MaxMessages
  /\ rpc \in [Readers -> ReaderPC] /\ ridx \in [Readers -> Chunks]
  /\ read_flag \in [Readers -> BOOLEAN]
  /\ buf \in [Readers -> Content]
  /\ nread \in [Readers -> Nat] /\ obj \in [Readers -> Content]
  /\ local_socket \in [Readers -> Seq(1 .. MaxMessages)]
  /\ ping \in [Readers -> BOOLEAN]
  /\ shutting_down \in [Readers -> BOOLEAN] /\ cancelled \in [Readers -> BOOLEAN]

\* What a reader takes out of a chunk is the message that follows the ones it
\* has read: never one that is half written, one it has read already, or one
\* that the writer has put over a message it has yet to read.
ReadsInOrder ==
  \A r \in Readers : rpc[r] = "mark" => buf[r] = nread[r] + 1

\* A reader without a timeout gets the messages out of dequeue in the order of
\* enqueue, whichever of them went through the ring and whichever through the
\* socket.
ObjectsInOrder ==
  \A r \in Readers \ Timed :
    rpc[r] \in {"flag", "check", "poll"} => obj[r] = nread[r]

\* The ring with its flags is a bounded broadcast queue.
Queue == INSTANCE BroadcastQueue WITH taken <- nread
QueueSpec == Queue!Spec

\* No wake-up is lost: a message the writer has announced is read by every
\* reader, the ones that wait for a notification without a timeout included.
EveryMessageRead ==
  \A r \in Readers, k \in 1 .. MaxMessages :
    sent >= k ~> (nread[r] >= k \/ wpc = "dead")

\* A full ring holds the writer back, but only until the readers catch up.
EnqueueReturns ==
  wpc # "idle" ~> wpc \in {"idle", "dead"}

\* When the writer's process dies, every reader without a timeout leaves
\* dequeue with RuntimeError("cancelled"), unless it waits for an overflow
\* message.
ReadersReleased ==
  \A r \in Readers \ Timed : wpc = "dead" ~> rpc[r] \in {"raised", "recv"}
=============================================================================
