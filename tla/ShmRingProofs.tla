--------------------------- MODULE ShmRingProofs ----------------------------
(***************************************************************************)
(* For every number of readers, of chunks and of messages: readers of the  *)
(* shared-memory ring take the messages in order and whole, and the ring   *)
(* implements the bounded broadcast queue.                                 *)
(***************************************************************************)
EXTENDS ShmRingBuffer, SequenceTheorems, TLAPS

\* The number of the message that chunk c was last published with; it is not
\* positive for a chunk of a lap before the first.
Last(c) == IF c < widx THEN sent - widx + c + 1
                       ELSE sent - widx + c + 1 - max_chunks

\* The writer has room for one more message: nobody has still to read the
\* message that it would put out of the ring.
Room(r) == nread[r] >= sent + 1 - max_chunks

\* Where the writer is, what it knows.
WriterOK ==
  /\ wpc \in {"sum", "clear", "begin", "end", "reset"} => sent < MaxMessages
  /\ wpc = "send" => sent > 0
  /\ wpc = "sum" => \A r \in read_count : Room(r)
  /\ wpc = "clear" => \A r \in Readers : Room(r)
  /\ wpc \in {"begin", "end", "reset"} => ~ written[widx]
  /\ wpc = "reset" => /\ data[widx] = sent + 1
                      /\ \A r \in Readers \ left : ~ read[widx][r]

\* A chunk that is marked as written holds the last message published in it,
\* with the bytes of exactly the readers that have read that message; only the
\* chunk at the writer's index may be unmarked once it has been used, and then
\* no reader is interested in it.
ChunksOK ==
  /\ \A c \in Chunks : written[c] =>
       /\ Last(c) >= 1 /\ data[c] = Last(c)
       /\ \A r \in Readers : read[c][r] <=> Last(c) <= nread[r]
  /\ \A c \in Chunks : c # widx /\ Last(c) >= 1 => written[c]
  /\ ~ written[widx] => \A r \in Readers : Room(r)

\* A reader is at most a ring behind the writer, in its lap or in the one
\* before, and does not touch a chunk unless its next message is there.
ReadersOK ==
  \A r \in Readers :
    /\ nread[r] <= sent /\ sent <= nread[r] + max_chunks
    /\ \/ nread[r] - ridx[r] = sent - widx
       \/ nread[r] - ridx[r] = sent - widx - max_chunks
    /\ rpc[r] = "check" /\ ~ read_flag[r] /\ nread[r] = sent => ~ written[ridx[r]]
    /\ rpc[r] \in {"begin", "end", "mark"} => nread[r] < sent
    /\ rpc[r] \in {"end", "mark"} => buf[r] = nread[r] + 1

IInv == TypeOK /\ WriterOK /\ ChunksOK /\ ReadersOK

-----------------------------------------------------------------------------
LEMMA NextIdx ==
  ASSUME NEW i \in Chunks
  PROVE  next_idx(i) = IF i = max_chunks - 1 THEN 0 ELSE i + 1
BY RingAssumption, SMTT(30) DEF next_idx, Chunks

\* Where a reader is that has messages left to read: its index points at the
\* chunk of the next one, which is published and not being overwritten.
LEMMA NextMessage ==
  ASSUME IInv, NEW q \in Readers, nread[q] < sent
  PROVE  written[ridx[q]] /\ data[ridx[q]] = nread[q] + 1
<1>1. /\ ridx[q] \in Chunks /\ widx \in Chunks /\ sent \in Nat /\ nread[q] \in Nat
      /\ sent <= nread[q] + max_chunks
      /\ \/ nread[q] - ridx[q] = sent - widx
         \/ nread[q] - ridx[q] = sent - widx - max_chunks
  BY DEF IInv, TypeOK, ReadersOK
<1>2. Last(ridx[q]) = nread[q] + 1
  BY ONLY SMTT(30), <1>1, nread[q] < sent, RingAssumption DEF Last, Chunks
<1>3. ridx[q] = widx => ~ Room(q)
  BY ONLY <1>1, nread[q] < sent, RingAssumption DEF Room, Chunks
<1>4. written[ridx[q]]
  BY <1>1, <1>2, <1>3, SMTT(30) DEF IInv, ChunksOK
<1> QED
  BY <1>1, <1>2, <1>4, Zenon DEF IInv, ChunksOK

\* Every step keeps the types; that no message number passes MaxMessages
\* rests on where the writer is.
LEMMA TypePreserved ==
  ASSUME IInv, Next
  PROVE  TypeOK'
<1> USE RingAssumption DEF IInv, TypeOK, WriterPC, ReaderPC, Chunks, writer, reader,
                           stop, shared, Content, Torn
<1>1. CASE Enqueue
  BY <1>1, Zenon DEF Enqueue
<1>2. CASE CheckWrite
  BY <1>2, Zenon DEF CheckWrite, Writable
<1>3. CASE ClearWritten
  BY <1>3, Zenon DEF ClearWritten
<1>4. CASE WriteBegin
  BY <1>4, Zenon DEF WriteBegin
<1>5. CASE WriteEnd
  BY SMTT(30), <1>5 DEF WriteEnd, WriterOK
<1>6. CASE Publish
  BY <1>6, NextIdx, SMTT(30) DEF Publish, WriterOK
<1>7. CASE SendOverflow
  BY SMTT(30), <1>7 DEF SendOverflow, WriterOK
<1>8. CASE notify
  BY <1>8, Zenon DEF notify, Notified
<1>9. CASE WriterDies
  BY <1>9, Zenon DEF WriterDies
<1>10. ASSUME NEW q \in Readers, LoadReaderByte(q) PROVE TypeOK'
  BY <1>10, Zenon DEF LoadReaderByte, Counted
<1>11. ASSUME NEW q \in Readers, ResetReaderByte(q) PROVE TypeOK'
  BY <1>11, Zenon DEF ResetReaderByte
<1>12. ASSUME NEW q \in Readers, LoadOwnByte(q) PROVE TypeOK'
  BY SMTT(30), <1>12 DEF LoadOwnByte
<1>13. ASSUME NEW q \in Readers, CheckRead(q) PROVE TypeOK'
  BY ZenonT(30), <1>13 DEF CheckRead, AfterWait
<1>14. ASSUME NEW q \in Readers, WakeUp(q) PROVE TypeOK'
  BY <1>14, Zenon DEF WakeUp, AfterWait
<1>15. ASSUME NEW q \in Readers, ReadBegin(q) PROVE TypeOK'
  BY <1>15, Zenon DEF ReadBegin
<1>16. ASSUME NEW q \in Readers, ReadEnd(q) PROVE TypeOK'
  BY <1>16, Zenon DEF ReadEnd
<1>17. ASSUME NEW q \in Readers, MarkRead(q) PROVE TypeOK'
  <2>1. ridx[q] \in Chunks
    BY Zenon
  <2>2. next_idx(ridx[q]) \in Chunks
    BY SMTT(30), <2>1, NextIdx
  <2> QED
    BY <1>17, <2>2, SMTT(30) DEF MarkRead, AfterChunk
<1>18. ASSUME NEW q \in Readers, recv(q) PROVE TypeOK'
  BY <1>18, SMTT(30) DEF recv
<1>19. ASSUME NEW q \in Readers, RecvTimeout(q) PROVE TypeOK'
  BY <1>19, Zenon DEF RecvTimeout
<1>20. ASSUME NEW q \in Readers, Shutdown(q) PROVE TypeOK'
  BY <1>20, Zenon DEF Shutdown
<1>21. ASSUME NEW q \in Readers, cancel(q) PROVE TypeOK'
  BY <1>21, Zenon DEF cancel
<1> QED
  BY ZenonT(30), <1>1, <1>2, <1>3, <1>4, <1>5, <1>6, <1>7, <1>8, <1>9,
     <1>10, <1>11, <1>12, <1>13, <1>14, <1>15, <1>16, <1>17,
     <1>18, <1>19, <1>20, <1>21, Zenon DEF Next, WriterStep, ReaderStep

\* Every step keeps what the writer knows: readers only ever set their bytes,
\* so a byte it has counted stays set until it resets it.
LEMMA WriterPreserved ==
  ASSUME IInv, Next
  PROVE  WriterOK'
<1> USE RingAssumption DEF IInv, TypeOK, WriterPC, ReaderPC, Chunks, writer, reader,
                           stop, shared, WriterOK, Room
<1>1. CASE Enqueue
  <2>1. wpc' = "sum" /\ sent < MaxMessages /\ sent' = sent /\ read_count' = {}
    BY <1>1, Zenon DEF Enqueue
  <2> QED
    BY ONLY <2>1, Zenon DEF WriterOK
<1>2. CASE CheckWrite
  BY <1>2, Zenon DEF CheckWrite, Writable, ChunksOK, Last
<1>3. CASE ClearWritten
  BY <1>3, Zenon DEF ClearWritten
<1>4. CASE WriteBegin
  BY <1>4, Zenon DEF WriteBegin
<1>5. CASE WriteEnd
  BY <1>5, Zenon DEF WriteEnd
<1>6. CASE Publish
  BY <1>6 DEF Publish
<1>7. CASE SendOverflow
  BY <1>7, Zenon DEF SendOverflow
<1>8. CASE notify
  BY <1>8, Zenon DEF notify, Notified
<1>9. CASE WriterDies
  BY <1>9, Zenon DEF WriterDies
<1>10. ASSUME NEW q \in Readers, LoadReaderByte(q) PROVE WriterOK'
  BY <1>10 DEF LoadReaderByte, Counted, ChunksOK, Last
<1>11. ASSUME NEW q \in Readers, ResetReaderByte(q) PROVE WriterOK'
  BY <1>11, ZenonT(30) DEF ResetReaderByte
<1>12. ASSUME NEW q \in Readers, LoadOwnByte(q) PROVE WriterOK'
  BY <1>12, Zenon DEF LoadOwnByte
<1>13. ASSUME NEW q \in Readers, CheckRead(q) PROVE WriterOK'
  BY <1>13, Zenon DEF CheckRead, AfterWait
<1>14. ASSUME NEW q \in Readers, WakeUp(q) PROVE WriterOK'
  BY <1>14, Zenon DEF WakeUp, AfterWait
<1>15. ASSUME NEW q \in Readers, ReadBegin(q) PROVE WriterOK'
  BY <1>15, Zenon DEF ReadBegin
<1>16. ASSUME NEW q \in Readers, ReadEnd(q) PROVE WriterOK'
  BY <1>16, Zenon DEF ReadEnd
<1>17. ASSUME NEW q \in Readers, MarkRead(q) PROVE WriterOK'
  <2>1. /\ ridx[q] \in Chunks /\ widx \in Chunks /\ sent \in Nat /\ nread[q] \in Nat
        /\ nread[q] < sent /\ sent <= nread[q] + max_chunks
        /\ \/ nread[q] - ridx[q] = sent - widx
           \/ nread[q] - ridx[q] = sent - widx - max_chunks
    BY SMTT(30), <1>17 DEF MarkRead, ReadersOK
  <2>2. ~ written[widx] => ridx[q] # widx
    <3>1. ridx[q] = widx => ~ Room(q)
      BY ONLY SMTT(30), <2>1, RingAssumption DEF Room, Chunks
    <3> QED
      BY <3>1, Zenon DEF ChunksOK
  <2>3. \A r \in Readers : Room(r) => Room(r)'
    BY <1>17, <2>1, SMTT(30) DEF MarkRead
  <2>4. ~ written[widx] => \A r \in Readers : read'[widx][r] = read[widx][r]
    BY <1>17, <2>1, <2>2, Zenon DEF MarkRead
  <2>5. /\ wpc' = wpc /\ sent' = sent /\ widx' = widx /\ read_count' = read_count
        /\ written' = written /\ data' = data /\ left' = left
    BY <1>17, Zenon DEF MarkRead
  <2> QED
    BY <2>3, <2>4, <2>5, Zenon
<1>18. ASSUME NEW q \in Readers, recv(q) PROVE WriterOK'
  BY <1>18, Zenon DEF recv
<1>19. ASSUME NEW q \in Readers, RecvTimeout(q) PROVE WriterOK'
  BY <1>19, Zenon DEF RecvTimeout
<1>20. ASSUME NEW q \in Readers, Shutdown(q) PROVE WriterOK'
  BY <1>20, Zenon DEF Shutdown
<1>21. ASSUME NEW q \in Readers, cancel(q) PROVE WriterOK'
  BY <1>21, Zenon DEF cancel
<1> QED
  BY <1>1, <1>2, <1>3, <1>4, <1>5, <1>6, <1>7, <1>8, <1>9,
     <1>10, <1>11, <1>12, <1>13, <1>14, <1>15, <1>16, <1>17,
     <1>18, <1>19, <1>20, <1>21, Zenon DEF Next, WriterStep, ReaderStep

\* Every step keeps the chunks in order; Publish gives one chunk a new message
\* and moves the writer's index, MarkRead sets one byte.
LEMMA ChunksPreserved ==
  ASSUME IInv, Next
  PROVE  ChunksOK'
<1> USE RingAssumption DEF IInv, TypeOK, WriterPC, ReaderPC, Chunks, writer, reader,
                           stop, shared, ChunksOK, Room, Last
<1>1. CASE Enqueue
  BY <1>1, Zenon DEF Enqueue
<1>2. CASE CheckWrite
  BY <1>2, Zenon DEF CheckWrite, Writable
<1>3. CASE ClearWritten
  BY SMTT(30), <1>3 DEF ClearWritten, WriterOK
<1>4. CASE WriteBegin
  BY SMTT(30), <1>4 DEF WriteBegin, WriterOK
<1>5. CASE WriteEnd
  BY SMTT(30), <1>5 DEF WriteEnd, WriterOK
<1>6. CASE Publish
  <2>1. /\ widx \in Chunks /\ sent \in Nat /\ sent' = sent + 1
        /\ widx' = IF widx = max_chunks - 1 THEN 0 ELSE widx + 1
    BY SMTT(30), <1>6, NextIdx DEF Publish
  <2>2. /\ written' = [written EXCEPT ![widx] = TRUE]
        /\ read' = read /\ data' = data /\ nread' = nread
        /\ data[widx] = sent + 1 /\ ~ written[widx]
        /\ \A r \in Readers : ~ read[widx][r]
    BY <1>6, Zenon DEF Publish, WriterOK
  <2>3. \A c \in Chunks : c # widx => Last(c)' = Last(c)
    BY SMTT(30), <2>1
  <2>4. \A c \in Chunks : c = widx => Last(c)' = sent + 1
    BY <2>1
  <2>5. \A r \in Readers : nread[r] \in Nat /\ nread[r] <= sent
    BY Zenon DEF ReadersOK
  <2>6. ASSUME NEW c \in Chunks, written'[c]
        PROVE  /\ Last(c)' >= 1 /\ data'[c] = Last(c)'
               /\ \A r \in Readers : read'[c][r] <=> Last(c)' <= nread'[r]
    <3>1. CASE c = widx
      BY ONLY SMTT(30), <2>1, <2>2, <2>4, <2>5, <3>1, c \in Chunks
    <3>2. CASE c # widx
      <4>1. written[c]
        BY SMTT(30), <2>2, <2>6, <3>2
      <4> QED
        BY <4>1, <2>2, <2>3, <3>2, ZenonT(30)
    <3> QED
      BY <3>1, <3>2, Zenon
  <2>7. ASSUME NEW c \in Chunks, c # widx', Last(c)' >= 1
        PROVE  written'[c]
    BY <2>2, <2>3, <2>7, Zenon
  <2>8. ASSUME ~ written'[widx'], NEW r \in Readers
        PROVE  Room(r)'
    <3>1. widx' # widx /\ widx' \in Chunks /\ ~ written[widx']
      BY SMTT(30), <2>1, <2>2, <2>8
    <3>2. ~ (Last(widx') >= 1)
      BY <3>1, Zenon
    <3>3. sent + 2 - max_chunks <= 0
      BY <2>1, <3>1, <3>2
    <3> QED
      BY SMTT(30), <2>1, <2>2, <2>5, <3>3
  <2> QED
    BY <2>6, <2>7, <2>8, Zenon
<1>7. CASE SendOverflow
  BY <1>7, Zenon DEF SendOverflow
<1>8. CASE notify
  BY <1>8, ZenonT(30) DEF notify, Notified
<1>9. CASE WriterDies
  BY <1>9, ZenonT(30) DEF WriterDies
<1>10. ASSUME NEW q \in Readers, LoadReaderByte(q) PROVE ChunksOK'
  BY <1>10, Zenon DEF LoadReaderByte, Counted
<1>11. ASSUME NEW q \in Readers, ResetReaderByte(q) PROVE ChunksOK'
  BY <1>11, SMTT(30) DEF ResetReaderByte, WriterOK
<1>12. ASSUME NEW q \in Readers, LoadOwnByte(q) PROVE ChunksOK'
  BY <1>12, Zenon DEF LoadOwnByte
<1>13. ASSUME NEW q \in Readers, CheckRead(q) PROVE ChunksOK'
  BY <1>13, Zenon DEF CheckRead, AfterWait
<1>14. ASSUME NEW q \in Readers, WakeUp(q) PROVE ChunksOK'
  BY <1>14, Zenon DEF WakeUp, AfterWait
<1>15. ASSUME NEW q \in Readers, ReadBegin(q) PROVE ChunksOK'
  BY <1>15, Zenon DEF ReadBegin
<1>16. ASSUME NEW q \in Readers, ReadEnd(q) PROVE ChunksOK'
  BY <1>16, ZenonT(30) DEF ReadEnd
<1>17. ASSUME NEW q \in Readers, MarkRead(q) PROVE ChunksOK'
  <2>1. /\ ridx[q] \in Chunks /\ widx \in Chunks /\ sent \in Nat /\ nread[q] \in Nat
        /\ nread[q] < sent /\ sent <= nread[q] + max_chunks
        /\ \/ nread[q] - ridx[q] = sent - widx
           \/ nread[q] - ridx[q] = sent - widx - max_chunks
    BY SMTT(30), <1>17 DEF MarkRead, ReadersOK
  <2>2. /\ sent' = sent /\ widx' = widx /\ written' = written /\ data' = data
        /\ read' = [read EXCEPT ![ridx[q]][q] = TRUE]
        /\ nread' = [nread EXCEPT ![q] = @ + 1]
    BY <1>17, Zenon DEF MarkRead
  <2>3. \A c \in Chunks : Last(c)' = Last(c) /\ Last(c) \in Int
    BY <2>1, <2>2
  <2>4. Last(ridx[q]) = nread[q] + 1
    BY ONLY SMTT(30), <2>1, RingAssumption DEF Last, Chunks
  <2>5. \A c \in Chunks : c # ridx[q] => Last(c) # nread[q] + 1
    BY ONLY <2>1, RingAssumption DEF Last, Chunks
  <2>6. ASSUME NEW c \in Chunks, written[c], NEW r \in Readers
        PROVE  read'[c][r] <=> Last(c) <= nread'[r]
    <3>1. read[c][r] <=> Last(c) <= nread[r]
      BY <2>6, ZenonT(30)
    <3>2. CASE r = q /\ c = ridx[q]
      <4>1. read'[c][r] /\ nread'[r] = nread[q] + 1
        BY <2>1, <2>2, <3>2, SMTT(30)
      <4> QED
        BY ONLY SMTT(30), <4>1, <2>1, <2>4, <3>2
    <3>3. CASE r = q /\ c # ridx[q]
      <4>1. read'[c][r] = read[c][r] /\ nread'[r] = nread[q] + 1
        BY SMTT(30), <2>1, <2>2, <3>3
      <4>2. Last(c) \in Int /\ Last(c) # nread[q] + 1 /\ nread[q] \in Nat
        BY <2>1, <2>3, <2>5, <3>3, Zenon
      <4>3. Last(c) <= nread[q] <=> Last(c) <= nread[q] + 1
        BY ONLY SMTT(30), <4>2
      <4> QED BY <3>1, <3>3, <4>1, <4>3, ZenonT(30)
    <3>4. CASE r # q
      <4>1. read'[c][r] = read[c][r] /\ nread'[r] = nread[r]
        BY SMTT(30), <2>1, <2>2, <3>4
      <4> QED
        BY ONLY <4>1, <3>1, Zenon
    <3> QED
      BY <3>2, <3>3, <3>4, Zenon
  <2>7. \A r \in Readers : Room(r) => Room(r)'
    BY <2>1, <2>2, SMTT(30)
  <2> QED
    BY <2>2, <2>3, <2>6, <2>7, ZenonT(30)
<1>18. ASSUME NEW q \in Readers, recv(q) PROVE ChunksOK'
  BY <1>18, Zenon DEF recv
<1>19. ASSUME NEW q \in Readers, RecvTimeout(q) PROVE ChunksOK'
  BY <1>19, Zenon DEF RecvTimeout
<1>20. ASSUME NEW q \in Readers, Shutdown(q) PROVE ChunksOK'
  BY <1>20, Zenon DEF Shutdown
<1>21. ASSUME NEW q \in Readers, cancel(q) PROVE ChunksOK'
  BY <1>21, Zenon DEF cancel
<1> QED
  BY <1>1, <1>2, <1>3, <1>4, <1>5, <1>6, <1>7, <1>8, <1>9,
     <1>10, <1>11, <1>12, <1>13, <1>14, <1>15, <1>16, <1>17,
     <1>18, <1>19, <1>20, <1>21, Zenon DEF Next, WriterStep, ReaderStep

\* Every step keeps the readers within a ring of the writer and away from
\* chunks that are not theirs to read.
LEMMA ReadersPreserved ==
  ASSUME IInv, Next
  PROVE  ReadersOK'
<1> USE RingAssumption DEF IInv, TypeOK, WriterPC, ReaderPC, Chunks, writer, reader,
                           stop, shared, ReadersOK
<1>1. CASE Enqueue
  BY <1>1, Zenon DEF Enqueue
<1>2. CASE CheckWrite
  BY <1>2, Zenon DEF CheckWrite, Writable
<1>3. CASE ClearWritten
  BY <1>3, ZenonT(30) DEF ClearWritten
<1>4. CASE WriteBegin
  BY <1>4, Zenon DEF WriteBegin
<1>5. CASE WriteEnd
  BY <1>5, Zenon DEF WriteEnd
<1>6. CASE Publish
  <2>1. /\ widx \in Chunks /\ sent \in Nat /\ sent' = sent + 1
        /\ widx' = IF widx = max_chunks - 1 THEN 0 ELSE widx + 1
    BY <1>6, NextIdx DEF Publish
  <2>2. \A r \in Readers : nread[r] \in Nat /\ ridx[r] \in Chunks /\ Room(r)
    BY <1>6, Zenon DEF Publish, WriterOK, ChunksOK, Room
  <2>3. nread' = nread /\ ridx' = ridx /\ rpc' = rpc /\ buf' = buf
    BY <1>6, Zenon DEF Publish
  <2>4. ASSUME NEW r \in Readers
        PROVE  /\ nread[r] < sent' /\ sent' <= nread[r] + max_chunks
               /\ \/ nread[r] - ridx[r] = sent' - widx'
                  \/ nread[r] - ridx[r] = sent' - widx' - max_chunks
    <3>1. /\ nread[r] <= sent /\ sent <= nread[r] + max_chunks
          /\ \/ nread[r] - ridx[r] = sent - widx
             \/ nread[r] - ridx[r] = sent - widx - max_chunks
      BY Zenon
    <3>2. nread[r] \in Nat /\ ridx[r] \in Chunks /\ Room(r)
      BY <2>2, Zenon
    <3> QED
      BY ONLY <2>1, <3>1, <3>2, RingAssumption DEF Room, Chunks
  <2> QED
    BY SMTT(30), <2>1, <2>2, <2>3, <2>4
<1>7. CASE SendOverflow
  BY <1>7, Zenon DEF SendOverflow
<1>8. CASE notify
  BY <1>8, Zenon DEF notify, Notified
<1>9. CASE WriterDies
  BY <1>9, Zenon DEF WriterDies
<1>10. ASSUME NEW q \in Readers, LoadReaderByte(q) PROVE ReadersOK'
  BY <1>10, Zenon DEF LoadReaderByte, Counted
<1>11. ASSUME NEW q \in Readers, ResetReaderByte(q) PROVE ReadersOK'
  BY <1>11, Zenon DEF ResetReaderByte
<1>12. ASSUME NEW q \in Readers, LoadOwnByte(q) PROVE ReadersOK'
  <2>1. ridx[q] \in Chunks /\ widx \in Chunks /\ sent \in Nat
    BY SMTT(30)
  <2>2. Last(ridx[q]) <= sent
    BY ONLY SMTT(30), <2>1, RingAssumption DEF Last, Chunks
  <2>3. written[ridx[q]] /\ nread[q] = sent => read[ridx[q]][q]
    BY SMTT(30), <2>1, <2>2 DEF ChunksOK
  <2>4. /\ read_flag' = [read_flag EXCEPT ![q] = read[ridx[q]][q]]
        /\ rpc' = [rpc EXCEPT ![q] = "check"]
        /\ UNCHANGED <<written, widx, sent, ridx, nread, buf>>
    BY <1>12, Zenon DEF LoadOwnByte
  <2> QED
    BY <2>3, <2>4, ZenonT(30)
<1>13. ASSUME NEW q \in Readers, CheckRead(q) PROVE ReadersOK'
  <2>1. rpc'[q] = "begin" => nread[q] < sent
    BY SMTT(30), <1>13 DEF CheckRead, AfterWait
  <2>2. rpc'[q] \in {"begin", "poll", "flag", "raised"}
    BY SMTT(30), <1>13 DEF CheckRead, AfterWait
  <2>3. /\ \A r \in Readers \ {q} : rpc'[r] = rpc[r] /\ read_flag'[r] = read_flag[r]
        /\ UNCHANGED <<written, widx, sent, ridx, nread, buf>>
    BY SMTT(30), <1>13 DEF CheckRead
  <2> QED
    BY <2>1, <2>2, <2>3, ZenonT(30)
<1>14. ASSUME NEW q \in Readers, WakeUp(q) PROVE ReadersOK'
  BY <1>14, Zenon DEF WakeUp, AfterWait
<1>15. ASSUME NEW q \in Readers, ReadBegin(q) PROVE ReadersOK'
  <2>1. nread[q] < sent
    BY <1>15, Zenon DEF ReadBegin
  <2>2. data[ridx[q]] = nread[q] + 1
    BY ONLY IInv, q \in Readers, <2>1, NextMessage, Zenon
  <2> QED
    BY <1>15, <2>1, <2>2, Zenon DEF ReadBegin
<1>16. ASSUME NEW q \in Readers, ReadEnd(q) PROVE ReadersOK'
  <2>1. nread[q] < sent /\ buf[q] = nread[q] + 1
    BY <1>16, Zenon DEF ReadEnd
  <2>2. data[ridx[q]] = nread[q] + 1
    BY ONLY IInv, q \in Readers, <2>1, NextMessage, Zenon
  <2>3. buf' = buf
    BY <1>16, <2>1, <2>2, Zenon DEF ReadEnd
  <2> QED
    BY <1>16, <2>1, <2>3, ZenonT(30) DEF ReadEnd
<1>17. ASSUME NEW q \in Readers, MarkRead(q) PROVE ReadersOK'
  <2>1. /\ ridx[q] \in Chunks /\ widx \in Chunks /\ sent \in Nat /\ nread[q] \in Nat
        /\ nread[q] < sent /\ sent <= nread[q] + max_chunks
        /\ \/ nread[q] - ridx[q] = sent - widx
           \/ nread[q] - ridx[q] = sent - widx - max_chunks
    BY SMTT(30), <1>17 DEF MarkRead
  <2>2. /\ nread' = [nread EXCEPT ![q] = @ + 1]
        /\ ridx' = [ridx EXCEPT ![q] = IF @ = max_chunks - 1 THEN 0 ELSE @ + 1]
        /\ rpc' = [rpc EXCEPT ![q] = AfterChunk(q)]
        /\ buf' = [buf EXCEPT ![q] = Torn]
        /\ sent' = sent /\ widx' = widx /\ written' = written /\ read_flag' = read_flag
    BY <1>17, NextIdx, Zenon DEF MarkRead
  <2>3. /\ nread[q] + 1 <= sent /\ sent <= nread[q] + 1 + max_chunks
        /\ \/ nread[q] + 1 - ridx'[q] = sent - widx
           \/ nread[q] + 1 - ridx'[q] = sent - widx - max_chunks
    BY <2>1, <2>2, SMTT(30)
  <2>4. rpc'[q] \in {"recv", "flag"}
    BY <2>2, Zenon DEF AfterChunk
  <2>5. ASSUME NEW r \in Readers, r # q
        PROVE  /\ nread'[r] = nread[r] /\ ridx'[r] = ridx[r]
               /\ rpc'[r] = rpc[r] /\ buf'[r] = buf[r]
    BY <2>2, <2>5, Zenon
  <2>6. nread'[q] = nread[q] + 1
    BY <2>2, Zenon
  <2>7. ASSUME NEW r \in Readers
        PROVE  /\ nread'[r] <= sent' /\ sent' <= nread'[r] + max_chunks
               /\ \/ nread'[r] - ridx'[r] = sent' - widx'
                  \/ nread'[r] - ridx'[r] = sent' - widx' - max_chunks
    <3>1. CASE r = q
      BY ONLY <2>1, <2>2, <2>3, <2>6, <3>1, RingAssumption, SMTT(30)
    <3>2. CASE r # q
      <4>1. /\ nread[r] <= sent /\ sent <= nread[r] + max_chunks
            /\ \/ nread[r] - ridx[r] = sent - widx
               \/ nread[r] - ridx[r] = sent - widx - max_chunks
        BY Zenon
      <4> QED
        BY ONLY <2>2, <2>5, <3>2, <4>1, r \in Readers, Zenon
    <3> QED
      BY <3>1, <3>2, Zenon
  <2>8. ASSUME NEW r \in Readers
        PROVE  /\ rpc'[r] = "check" /\ ~ read_flag'[r] /\ nread'[r] = sent' => ~ written'[ridx'[r]]
               /\ rpc'[r] \in {"begin", "end", "mark"} => nread'[r] < sent'
               /\ rpc'[r] \in {"end", "mark"} => buf'[r] = nread'[r] + 1
    BY <2>2, <2>4, <2>5, Zenon
  <2> QED
    BY ONLY <2>7, <2>8, Zenon DEF ReadersOK
<1>18. ASSUME NEW q \in Readers, recv(q) PROVE ReadersOK'
  BY <1>18, Zenon DEF recv
<1>19. ASSUME NEW q \in Readers, RecvTimeout(q) PROVE ReadersOK'
  BY <1>19, Zenon DEF RecvTimeout
<1>20. ASSUME NEW q \in Readers, Shutdown(q) PROVE ReadersOK'
  BY <1>20, Zenon DEF Shutdown
<1>21. ASSUME NEW q \in Readers, cancel(q) PROVE ReadersOK'
  BY <1>21, Zenon DEF cancel
<1> QED
  BY <1>1, <1>2, <1>3, <1>4, <1>5, <1>6, <1>7, <1>8, <1>9,
     <1>10, <1>11, <1>12, <1>13, <1>14, <1>15, <1>16, <1>17,
     <1>18, <1>19, <1>20, <1>21, Zenon DEF Next, WriterStep, ReaderStep

\* In the initial state nothing is written and everybody is at chunk 0.
LEMMA InitIInv == Init => IInv
<1> USE RingAssumption DEF Init, TypeOK, WriterPC, ReaderPC, Chunks, Content, Torn
<1>1. Init => TypeOK
  OBVIOUS
<1>2. Init => WriterOK
  BY Zenon DEF WriterOK
<1>3. Init => ChunksOK
  BY DEF ChunksOK, Last, Room
<1>4. ASSUME Init PROVE ReadersOK
  <2>1. sent = 0 /\ widx = 0
    BY <1>4, Zenon
  <2>2. \A r \in Readers : nread[r] = 0 /\ ridx[r] = 0 /\ rpc[r] = "flag"
    BY <1>4, Zenon
  <2>3. ASSUME NEW r \in Readers
        PROVE  /\ nread[r] <= sent /\ sent <= nread[r] + max_chunks
               /\ nread[r] - ridx[r] = sent - widx
    BY ONLY <2>1, <2>2, RingAssumption
  <2>4. \A r \in Readers : rpc[r] \notin {"check", "begin", "end", "mark"}
    BY ONLY <2>2, Zenon
  <2> QED
    BY ONLY <2>3, <2>4, Zenon DEF ReadersOK
<1> QED
  BY <1>1, <1>2, <1>3, <1>4, Zenon DEF IInv

LEMMA StepIInv == IInv /\ [Next]_vars => IInv'
<1>1. ASSUME IInv, Next PROVE IInv'
  BY <1>1, TypePreserved, WriterPreserved, ChunksPreserved, ReadersPreserved, Zenon DEF IInv
<1>2. ASSUME IInv, UNCHANGED vars PROVE IInv'
  BY <1>2, ZenonT(30) DEF IInv, vars, writer, reader, stop, TypeOK, WriterOK, ChunksOK, ReadersOK,
              Last, Room
<1> QED
  BY <1>1, <1>2, Zenon

\* The inductive invariant holds in every state of acquire_write, acquire_read
\* and their interleavings.
THEOREM RingInvariant == Spec => []IInv
BY InitIInv, StepIInv, PTL DEF Spec

\* For every number of readers and chunks, a reader that is about to give its
\* chunk back has read the message after its last one, whole: acquire_write
\* never touches a chunk that acquire_read hands out.
THEOREM RingReadsInOrder == Spec => []ReadsInOrder
<1>1. IInv => ReadsInOrder
  BY Zenon DEF IInv, ReadersOK, ReadsInOrder
<1> QED
  BY <1>1, RingInvariant, PTL

\* The variables of MessageQueue always have their types; no index leaves the
\* ring and no chunk holds more than was enqueued.
THEOREM RingTypeCorrect == Spec => []TypeOK
<1>1. IInv => TypeOK
  BY Zenon DEF IInv
<1> QED
  BY <1>1, RingInvariant, PTL

-----------------------------------------------------------------------------
LEMMA InitQueue == Init => Queue!Init
BY Zenon DEF Init, Queue!Init

\* Publish is the Put of the abstract queue, MarkRead its Take; every other
\* step is invisible.
LEMMA StepQueue == IInv /\ [Next]_vars => [Queue!Next]_Queue!vars
<1> SUFFICES ASSUME IInv, [Next]_vars
             PROVE  [Queue!Next]_Queue!vars
  BY Zenon
<1>1. CASE Publish
  <2>1. /\ sent \in Nat /\ sent < MaxMessages /\ sent' = sent + 1 /\ nread' = nread
        /\ \A r \in Readers : nread[r] \in Nat /\ Room(r)
    BY SMTT(30), <1>1 DEF IInv, TypeOK, WriterOK, ChunksOK, Publish, reader
  <2>2. \A r \in Readers : sent - nread[r] < max_chunks
    BY <2>1, RingAssumption DEF Room
  <2> QED
    BY <2>1, <2>2, Zenon DEF Queue!Next, Queue!Put
<1>2. ASSUME NEW r \in Readers, MarkRead(r)
      PROVE  Queue!Take(r)
  BY <1>2, Zenon DEF IInv, ReadersOK, TypeOK, MarkRead, Queue!Take, shared, writer
<1>3. CASE UNCHANGED <<sent, nread>>
  BY <1>3, Zenon DEF Queue!vars
<1>4. CASE Enqueue \/ CheckWrite \/ ClearWritten \/ WriteBegin \/ WriteEnd
             \/ SendOverflow \/ notify \/ WriterDies
  BY <1>3, <1>4, Zenon DEF Enqueue, CheckWrite, ClearWritten, WriteBegin, WriteEnd,
                    SendOverflow, notify, WriterDies, writer, reader
<1>5. ASSUME NEW r \in Readers,
             LoadReaderByte(r) \/ ResetReaderByte(r) \/ LoadOwnByte(r) \/ CheckRead(r)
             \/ WakeUp(r) \/ ReadBegin(r) \/ ReadEnd(r) \/ recv(r) \/ RecvTimeout(r)
             \/ Shutdown(r) \/ cancel(r)
      PROVE  [Queue!Next]_Queue!vars
  BY <1>3, <1>5, Zenon DEF LoadReaderByte, ResetReaderByte, LoadOwnByte, CheckRead, WakeUp,
                    ReadBegin, ReadEnd, recv, RecvTimeout, Shutdown, cancel,
                    shared, writer, reader
<1>6. CASE UNCHANGED vars
  BY <1>3, <1>6, Zenon DEF vars, writer, reader
<1> QED
  BY <1>1, <1>2, <1>4, <1>5, <1>6, Zenon DEF Next, WriterStep, ReaderStep, Queue!Next

\* The ring of shm_broadcast.py implements the broadcast queue its docstring
\* promises: one enqueues, many dequeue, nothing is lost, repeated or
\* overwritten.
THEOREM RingImplementsQueue == Spec => QueueSpec
BY InitQueue, StepQueue, RingInvariant, PTL DEF Spec, Queue!Spec, QueueSpec

-----------------------------------------------------------------------------
\* The last message that reader r is through with.
Through(r) == IF rpc[r] = "recv" THEN nread[r] - 1 ELSE nread[r]

\* The sequence s is that of the overflowing messages after a and up to b.
Overflow(s, a, b) ==
  /\ \A i \in 1 .. Len(s) : s[i] \in Large /\ a < s[i] /\ s[i] <= b
  /\ \A i, j \in 1 .. Len(s) : i < j => s[i] < s[j]
  /\ \A m \in Large : a < m /\ m <= b => \E i \in 1 .. Len(s) : s[i] = m

\* The socket of a reader without a timeout holds the overflowing messages that
\* were published and that the reader has not got, oldest first.  Only the last
\* one published may be missing, while it is being sent or if its sender died.
\* The reader's last message is the one that dequeue returned.
SocketOf(r) ==
  /\ \E b \in {sent - 1, sent} :
       /\ Overflow(local_socket[r], Through(r), b)
       /\ b = sent \/ wpc \in {"send", "dead"}
       /\ wpc = "send" => b = sent - 1 /\ sent \in Large /\ Through(r) < sent
  /\ rpc[r] = "recv" => nread[r] \in Large
  /\ rpc[r] # "recv" => obj[r] = nread[r]

SocketsOK == \A r \in Readers \ Timed : SocketOf(r)

\* A message that fits into a chunk makes no difference to the socket.
LEMMA OverflowSame ==
  ASSUME NEW s, NEW a \in Int, NEW b \in Int, Overflow(s, a, b)
  PROVE  /\ b + 1 \notin Large => Overflow(s, a, b + 1)
         /\ a + 1 \notin Large => Overflow(s, a + 1, b)
<1>1. Large \subseteq Int
  BY RingAssumption
<1>2. \A m \in Int : /\ (m <= b + 1) <=> (m <= b \/ m = b + 1)
                    /\ (a < m) <=> (a + 1 < m \/ m = a + 1)
  OBVIOUS
<1>3. \A i \in 1 .. Len(s) : s[i] \in Int /\ s[i] \in Large /\ a < s[i] /\ s[i] <= b
  BY <1>1, Zenon DEF Overflow
<1>4. \A m \in Large : m \in Int /\ (a < m /\ m <= b => \E i \in 1 .. Len(s) : s[i] = m)
  BY <1>1, Zenon DEF Overflow
<1>5. \A i, j \in 1 .. Len(s) : i < j => s[i] < s[j]
  BY Zenon DEF Overflow
<1>6. b + 1 \notin Large => Overflow(s, a, b + 1)
  BY ONLY <1>2, <1>3, <1>4, <1>5, a \in Int, b \in Int DEF Overflow
<1>7. a + 1 \notin Large => Overflow(s, a + 1, b)
  BY ONLY SMTT(30), <1>2, <1>3, <1>4, <1>5, a \in Int, b \in Int DEF Overflow
<1> QED
  BY <1>6, <1>7, Zenon

\* The next one goes to the end of the queue in the socket.
LEMMA OverflowAppend ==
  ASSUME NEW s \in Seq(1 .. MaxMessages), NEW a \in Int, NEW b \in Int,
         Overflow(s, a, b), a <= b, b + 1 \in Large
  PROVE  Overflow(Append(s, b + 1), a, b + 1)
<1> DEFINE t == Append(s, b + 1)
<1>1. /\ Len(t) = Len(s) + 1 /\ Len(s) \in Nat
      /\ \A i \in 1 .. Len(s) : t[i] = s[i]
      /\ t[Len(s) + 1] = b + 1
  <2>1. b + 1 \in 1 .. MaxMessages
    BY RingAssumption, Zenon
  <2> QED
    BY <2>1
<1>2. Large \subseteq Int
  BY RingAssumption
<1> HIDE DEF t
<1>3. \A i \in 1 .. Len(t) : i \in 1 .. Len(s) \/ i = Len(s) + 1
  BY SMTT(30), <1>1
<1>s. /\ \A i \in 1 .. Len(s) : s[i] \in Int /\ s[i] \in Large /\ a < s[i] /\ s[i] <= b
      /\ \A i, j \in 1 .. Len(s) : i < j => s[i] < s[j]
  BY <1>2, Zenon DEF Overflow
<1>4. \A i \in 1 .. Len(t) : t[i] \in Large /\ a < t[i] /\ t[i] <= b + 1
  BY ONLY SMTT(30), <1>1, <1>3, <1>s, a \in Int, b \in Int, a <= b, b + 1 \in Large
<1>5. \A i, j \in 1 .. Len(t) : i < j => t[i] < t[j]
  BY ONLY SMTT(30), <1>1, <1>3, <1>s, a \in Int, b \in Int
<1>6. ASSUME NEW m \in Large, a < m, m <= b + 1
      PROVE  \E i \in 1 .. Len(t) : t[i] = m
  BY SMTT(30), <1>1, <1>2, <1>6 DEF Overflow
<1> QED
  BY <1>4, <1>5, <1>6, Zenon DEF t, Overflow

\* What a reader that waits for an overflowing message receives is that one.
LEMMA OverflowHead ==
  ASSUME NEW s \in Seq(1 .. MaxMessages), NEW a \in Int, NEW b \in Int,
         Overflow(s, a, b), s # <<>>, a + 1 \in Large
  PROVE  Head(s) = a + 1 /\ Overflow(Tail(s), a + 1, b)
<1> DEFINE t == Tail(s)
<1>1. /\ Len(t) = Len(s) - 1 /\ Len(s) \in Nat \ {0}
      /\ \A i \in 1 .. Len(s) - 1 : t[i] = s[i + 1]
      /\ Head(s) = s[1] /\ \A i \in 1 .. Len(s) : s[i] \in Int
  <2>1. Len(s) \in Nat \ {0}
    BY EmptySeq, Zenon
  <2>2. \A i \in 1 .. Len(s) : s[i] \in Int
    BY SMTT(30), RingAssumption DEF Overflow
  <2>3. Head(s) = s[1]
    OBVIOUS
  <2> QED
    BY <2>1, <2>2, <2>3, HeadTailProperties, Zenon
<1>2. Large \subseteq Int
  BY RingAssumption
<1> HIDE DEF t
<1>3. s[1] = a + 1
  <2>1. a < s[1] /\ s[1] <= b
    BY <1>1 DEF Overflow
  <2>2. PICK i \in 1 .. Len(s) : s[i] = a + 1
    BY SMTT(30), <1>1, <2>1 DEF Overflow
  <2>3. i # 1 => s[1] < s[i]
    BY SMTT(30), <1>1 DEF Overflow
  <2> QED
    BY SMTT(30), <1>1, <2>1, <2>2, <2>3
<1>4. \A i \in 1 .. Len(t) : i + 1 \in 1 .. Len(s) /\ s[1] < s[i + 1]
  BY SMTT(30), <1>1 DEF Overflow
<1>5. \A i \in 1 .. Len(t) : t[i] \in Large /\ a + 1 < t[i] /\ t[i] <= b
  BY SMTT(30), <1>1, <1>3, <1>4 DEF Overflow
<1>6. ASSUME NEW i \in 1 .. Len(t), NEW j \in 1 .. Len(t), i < j
      PROVE  t[i] < t[j]
  <2>1. i + 1 \in 1 .. Len(s) /\ j + 1 \in 1 .. Len(s) /\ i + 1 < j + 1
    BY <1>1, <1>6
  <2>2. s[i + 1] < s[j + 1]
    BY <2>1, Zenon DEF Overflow
  <2> QED
    BY <1>1, <2>1, <2>2, Zenon
<1>7. ASSUME NEW m \in Large, a + 1 < m, m <= b
      PROVE  \E i \in 1 .. Len(t) : t[i] = m
  <2>1. PICK i \in 1 .. Len(s) : s[i] = m
    BY <1>2, <1>7 DEF Overflow
  <2>2. i - 1 \in 1 .. Len(t) /\ t[i - 1] = m
    BY SMTT(30), <1>1, <1>2, <1>3, <1>7, <2>1
  <2> QED
    BY <2>2, Zenon
<1> QED
  BY <1>1, <1>3, <1>5, <1>6, <1>7, Zenon DEF t, Overflow

\* How a step establishes SocketOf.
LEMMA SocketAfter ==
  ASSUME NEW r \in Readers,
         \/ Overflow(local_socket'[r], Through(r)', sent') /\ wpc' # "send"
         \/ /\ Overflow(local_socket'[r], Through(r)', sent' - 1)
            /\ wpc' \in {"send", "dead"}
            /\ wpc' = "send" => sent' \in Large /\ Through(r)' < sent',
         rpc'[r] = "recv" => nread'[r] \in Large,
         rpc'[r] # "recv" => obj'[r] = nread'[r]
  PROVE  SocketOf(r)'
BY Zenon DEF SocketOf, Overflow

\* A step in which the reader gets nothing, and the writer neither publishes
\* nor sends.
LEMMA SocketUnchanged ==
  ASSUME NEW r \in Readers, SocketOf(r), sent' = sent,
         local_socket'[r] = local_socket[r], nread'[r] = nread[r], obj'[r] = obj[r],
         rpc'[r] = "recv" <=> rpc[r] = "recv",
         wpc' = "send" => wpc = "send",
         wpc \in {"send", "dead"} => wpc' \in {"send", "dead"}
  PROVE  SocketOf(r)'
<1>1. Through(r)' = Through(r)
  BY Zenon DEF Through
<1> QED
  BY <1>1 DEF SocketOf, Overflow

\* Every step of the writer keeps the sockets in step with the ring.
LEMMA WriterSockets ==
  ASSUME IInv, NEW r \in Readers, SocketOf(r), Enqueue \/ WriterStep \/ WriterDies
  PROVE  SocketOf(r)'
<1>a. /\ sent \in Nat /\ nread[r] \in Nat /\ nread[r] <= sent
      /\ local_socket[r] \in Seq(1 .. MaxMessages)
  BY SMTT(30) DEF IInv, TypeOK, ReadersOK
<1>b. Through(r) \in Int /\ Through(r) <= sent
  BY <1>a DEF Through
<1>1. CASE Enqueue \/ CheckWrite \/ ClearWritten \/ WriteBegin \/ WriteEnd
             \/ notify \/ \E q \in Readers : LoadReaderByte(q) \/ ResetReaderByte(q)
  <2>1. /\ UNCHANGED <<local_socket, sent, nread, obj, rpc>>
        /\ wpc' # "send" /\ wpc \notin {"send", "dead"}
    BY <1>1, Zenon DEF Enqueue, CheckWrite, ClearWritten, WriteBegin, WriteEnd,
                notify, LoadReaderByte, ResetReaderByte, writer, reader
  <2> QED
    BY <2>1, SocketUnchanged, Zenon
<1>2. CASE WriterDies
  <2>1. UNCHANGED <<local_socket, sent, nread, obj, rpc>> /\ wpc' = "dead"
    BY <1>2, Zenon DEF WriterDies, reader
  <2> QED
    BY <2>1, SocketUnchanged, Zenon
<1>3. CASE Publish
  <2>1. /\ UNCHANGED <<local_socket, nread, obj, rpc>> /\ sent' = sent + 1
        /\ wpc \notin {"send", "dead"} /\ wpc' # "dead"
        /\ sent + 1 \in Large <=> wpc' = "send"
    BY <1>3, Zenon DEF Publish, reader
  <2>2. Through(r)' = Through(r)
    BY <2>1, Zenon DEF Through
  <2>3. Overflow(local_socket[r], Through(r), sent)
    BY <2>1, Zenon DEF SocketOf
  <2>4. sent + 1 \notin Large => Overflow(local_socket[r], Through(r), sent + 1)
    BY <2>3, <1>a, <1>b, OverflowSame
  <2>5. sent' - 1 = sent /\ Through(r) < sent'
    BY SMTT(30), <2>1, <1>a, <1>b
  <2>6. \/ Overflow(local_socket'[r], Through(r)', sent') /\ wpc' # "send"
        \/ /\ Overflow(local_socket'[r], Through(r)', sent' - 1)
           /\ wpc' = "send" /\ sent' \in Large /\ Through(r)' < sent'
    BY <2>1, <2>2, <2>3, <2>4, <2>5, Zenon
  <2> QED
    BY <2>1, <2>6, SocketAfter, Zenon DEF SocketOf
<1>4. CASE SendOverflow
  <2>1. /\ UNCHANGED <<sent, nread, obj, rpc>> /\ wpc = "send" /\ wpc' = "notify"
        /\ local_socket'[r] = Append(local_socket[r], sent)
    BY <1>4, Zenon DEF SendOverflow, reader
  <2>2. Through(r)' = Through(r)
    BY <2>1, Zenon DEF Through
  <2>3. /\ Overflow(local_socket[r], Through(r), sent - 1)
        /\ sent \in Large /\ Through(r) < sent
    BY <2>1, Zenon DEF SocketOf
  <2>4. sent - 1 \in Int /\ sent - 1 + 1 = sent /\ Through(r) <= sent - 1
    BY SMTT(30), <2>3, <1>a, <1>b
  <2>5. Overflow(local_socket'[r], Through(r)', sent')
    BY <2>1, <2>2, <2>3, <2>4, <1>a, <1>b, OverflowAppend, Zenon
  <2> QED
    BY <2>1, <2>5, SocketAfter, Zenon DEF SocketOf
<1> QED
  BY <1>1, <1>2, <1>3, <1>4, Zenon DEF WriterStep

\* A reader's step leaves the sockets of the others alone.  Its own goes on with
\* the message after the one it is through with.
LEMMA ReaderSockets ==
  ASSUME IInv, NEW r \in Readers \ Timed, SocketOf(r), NEW q \in Readers,
         ReaderStep(q) \/ RecvTimeout(q) \/ Shutdown(q) \/ cancel(q)
  PROVE  SocketOf(r)'
<1>a. /\ sent \in Nat /\ nread[r] \in Nat /\ nread[r] <= sent /\ rpc[r] \in ReaderPC
      /\ local_socket[r] \in Seq(1 .. MaxMessages)
      /\ rpc \in [Readers -> ReaderPC] /\ nread \in [Readers -> Nat]
      /\ obj \in [Readers -> Content]
      /\ local_socket \in [Readers -> Seq(1 .. MaxMessages)]
  BY DEF IInv, TypeOK, ReadersOK
<1>b. UNCHANGED <<wpc, sent>>
  BY Zenon DEF ReaderStep, LoadOwnByte, CheckRead, WakeUp, ReadBegin, ReadEnd, MarkRead, recv,
         RecvTimeout, Shutdown, cancel, shared, writer
<1>1. CASE q # r
  <2>1. /\ local_socket'[r] = local_socket[r] /\ nread'[r] = nread[r]
        /\ obj'[r] = obj[r] /\ rpc'[r] = rpc[r]
    BY <1>1, <1>a, Zenon DEF ReaderStep, LoadOwnByte, CheckRead, WakeUp, ReadBegin, ReadEnd,
         MarkRead, recv, RecvTimeout, Shutdown, cancel, shared, writer, reader
  <2> QED
    BY <2>1, <1>b, SocketUnchanged, Zenon
<1>2. CASE q = r /\ (LoadOwnByte(q) \/ CheckRead(q) \/ WakeUp(q)
                     \/ ReadBegin(q) \/ ReadEnd(q) \/ Shutdown(q) \/ cancel(q))
  <2>1. UNCHANGED <<local_socket, nread, obj>> /\ (rpc'[r] = "recv" <=> rpc[r] = "recv")
    BY <1>2, <1>a, ZenonT(30) DEF LoadOwnByte, CheckRead, WakeUp, ReadBegin, ReadEnd, AfterWait,
         Shutdown, cancel, shared, writer, reader
  <2> QED
    BY <2>1, <1>b, SocketUnchanged, Zenon
<1>3. CASE q = r /\ MarkRead(r)
  <2>1. buf[r] = nread[r] + 1 /\ rpc[r] = "mark"
    BY <1>3, Zenon DEF MarkRead, IInv, ReadersOK
  <2>2. /\ local_socket' = local_socket /\ nread'[r] = nread[r] + 1
        /\ rpc'[r] = IF nread[r] + 1 \in Large THEN "recv" ELSE "flag"
        /\ nread[r] + 1 \notin Large => obj'[r] = nread[r] + 1
    BY <1>3, <2>1, <1>a, Zenon DEF MarkRead, AfterChunk, shared
  <2>3. /\ Through(r) = nread[r]
        /\ Through(r)' = IF nread[r] + 1 \in Large THEN nread[r] ELSE nread[r] + 1
    BY <2>1, <2>2, <1>a DEF Through
  <2>4. PICK b \in {sent - 1, sent} :
          /\ Overflow(local_socket[r], Through(r), b)
          /\ b = sent \/ wpc \in {"send", "dead"}
          /\ wpc = "send" => b = sent - 1 /\ sent \in Large /\ Through(r) < sent
    BY Zenon DEF SocketOf
  <2>5. Overflow(local_socket'[r], Through(r)', b)
    <3>1. CASE nread[r] + 1 \in Large
      BY <3>1, <2>2, <2>3, <2>4, ZenonT(30)
    <3>2. CASE nread[r] + 1 \notin Large
      BY SMTT(30), <3>2, <2>2, <2>3, <2>4, <1>a, OverflowSame
    <3> QED
      BY <3>1, <3>2, Zenon
  <2>6. wpc = "send" => Through(r)' < sent
    BY SMTT(30), <2>3, <2>4, <1>a
  <2>7. \/ Overflow(local_socket'[r], Through(r)', sent') /\ wpc' # "send"
        \/ /\ Overflow(local_socket'[r], Through(r)', sent' - 1)
           /\ wpc' \in {"send", "dead"}
           /\ wpc' = "send" => sent' \in Large /\ Through(r)' < sent'
    BY <2>4, <2>5, <2>6, <1>a, <1>b, Zenon
  <2> QED
    BY <2>2, <2>7, SocketAfter, Zenon
<1>4. CASE q = r /\ recv(r)
  <2>1. /\ rpc[r] = "recv" /\ rpc'[r] = "flag" /\ local_socket[r] # <<>>
        /\ obj'[r] = Head(local_socket[r]) /\ nread' = nread
        /\ local_socket'[r] = Tail(local_socket[r])
    BY <1>4, <1>a, Zenon DEF recv
  <2>a. nread[r] \in Large
    BY <2>1, Zenon DEF SocketOf
  <2>b. Through(r) = nread[r] - 1 /\ Through(r)' = nread[r]
    BY <2>1, Zenon DEF Through
  <2>2. /\ Through(r) = nread[r] - 1 /\ Through(r)' = nread[r]
        /\ nread[r] - 1 \in Int /\ nread[r] - 1 + 1 = nread[r] /\ nread[r] \in Large
    BY SMTT(30), <2>a, <2>b, <1>a
  <2>3. PICK b \in {sent - 1, sent} :
          /\ Overflow(local_socket[r], Through(r), b)
          /\ b = sent \/ wpc \in {"send", "dead"}
          /\ wpc = "send" => b = sent - 1 /\ sent \in Large /\ Through(r) < sent
    BY Zenon DEF SocketOf
  <2>4. b \in Int
    BY SMTT(30), <1>a
  <2>5. Head(local_socket[r]) = nread[r] /\ Overflow(local_socket'[r], Through(r)', b)
    BY SMTT(30), <2>1, <2>2, <2>3, <2>4, <1>a, OverflowHead
  <2>6. nread[r] <= b
    <3>1. Len(local_socket[r]) \in Nat \ {0}
      BY <2>1, <1>a, EmptySeq, Zenon
    <3>2. local_socket[r][1] <= b
      BY SMTT(30), <2>3, <3>1 DEF Overflow
    <3> QED
      BY <2>5, <3>2
  <2>7. wpc = "send" => Through(r)' < sent
    BY <2>2, <2>3, <2>6, <1>a
  <2>8. \/ Overflow(local_socket'[r], Through(r)', sent') /\ wpc' # "send"
        \/ /\ Overflow(local_socket'[r], Through(r)', sent' - 1)
           /\ wpc' \in {"send", "dead"}
           /\ wpc' = "send" => sent' \in Large /\ Through(r)' < sent'
    BY <2>3, <2>5, <2>7, <1>a, <1>b, Zenon
  <2> QED
    BY <2>1, <2>5, <2>8, SocketAfter, Zenon
<1>5. ~ RecvTimeout(r)
  BY Zenon DEF RecvTimeout
<1> QED
  BY <1>1, <1>2, <1>3, <1>4, <1>5, Zenon DEF ReaderStep

\* For every number of readers, chunks and messages, whichever of them
\* overflow a chunk: a reader without a timeout gets the messages out of
\* dequeue in the order of enqueue, although they come over two channels.
THEOREM RingObjectsInOrder == Spec => []ObjectsInOrder
<1>1. Init => SocketsOK
  <2>1. SUFFICES ASSUME Init, NEW r \in Readers \ Timed
                 PROVE  SocketOf(r)
    BY Zenon DEF SocketsOK
  <2>2. /\ sent = 0 /\ nread[r] = 0 /\ obj[r] = 0 /\ rpc[r] = "flag"
        /\ local_socket[r] = <<>> /\ wpc = "idle"
    BY <2>1, Zenon DEF Init
  <2>3. Overflow(<<>>, 0, 0)
    BY RingAssumption DEF Overflow
  <2> QED
    BY <2>2, <2>3, Zenon DEF SocketOf, Through
<1>2. IInv /\ SocketsOK /\ [Next]_vars => SocketsOK'
  <2>1. ASSUME IInv, SocketsOK, Next PROVE SocketsOK'
    <3>1. SUFFICES ASSUME NEW r \in Readers \ Timed
                   PROVE  SocketOf(r)'
      BY Zenon DEF SocketsOK
    <3>2. SocketOf(r)
      BY <2>1, Zenon DEF SocketsOK
    <3>3. CASE Enqueue \/ WriterStep \/ WriterDies
      BY <2>1, <3>2, <3>3, WriterSockets, Zenon
    <3>4. CASE \E q \in Readers : ReaderStep(q) \/ RecvTimeout(q) \/ Shutdown(q) \/ cancel(q)
      BY <2>1, <3>2, <3>4, ReaderSockets, Zenon
    <3> QED
      BY <2>1, <3>3, <3>4, Zenon DEF Next
  <2>2. ASSUME SocketsOK, UNCHANGED vars PROVE SocketsOK'
    BY <2>2, SocketUnchanged, Zenon DEF SocketsOK, vars, writer, reader
  <2> QED
    BY <2>1, <2>2, Zenon
<1>3. SocketsOK => ObjectsInOrder
  BY Zenon DEF SocketsOK, SocketOf, ObjectsInOrder
<1> QED
  BY <1>1, <1>2, <1>3, RingInvariant, PTL DEF Spec
=============================================================================
