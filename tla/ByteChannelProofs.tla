------------------------- MODULE ByteChannelProofs -------------------------
(***************************************************************************)
(* For every buffer size and every set of bytes: the cursors stay ordered, *)
(* no wakeup is lost, and the channel implements a FIFO of bytes.          *)
(***************************************************************************)
EXTENDS ByteChannel, TLAPS

\* The three invariants of the runs are inductive together.
IInv == TypeOK /\ NoLostWakeup /\ CursorsOrdered

USE BufLenAssumption, MaxChunkAssumption, BytesAssumption

\* The invariant holds initially.
LEMMA InitIInv == Init => IInv
  <1> SUFFICES ASSUME Init PROVE IInv
    OBVIOUS
  <1>1. Zero \in Bytes
    BY DEF Zero
  <1>2. buffer \in [Slots -> Bytes]
    BY <1>1 DEF Init
  <1>3. delivered \in Seq(Bytes)
    BY DEF Init
  <1>4. /\ write_end_closed \in BOOLEAN /\ read_end_closed \in BOOLEAN
        /\ read_waker \in BOOLEAN /\ write_waker \in BOOLEAN
        /\ writer \in {"ready", "waiting", "done"} /\ reader \in {"ready", "waiting", "done"}
    BY Zenon DEF Init
  <1>5. write_cursor \in 0 .. BufLen /\ read_cursor \in 0 .. BufLen
    BY DEF Init
  <1>6. TypeOK
    BY <1>2, <1>3, <1>4, <1>5, Zenon DEF TypeOK
  <1> QED
    BY <1>6 DEF Init, IInv, NoLostWakeup, CursorsOrdered

\* poll_read: nothing but the read cursor moves, and it stays behind the write cursor.
LEMMA PollReadStep == IInv /\ PollRead => IInv'
  <1> SUFFICES ASSUME IInv, PollRead PROVE IInv'
    OBVIOUS
  <1> USE DEF IInv, TypeOK, NoLostWakeup, CursorsOrdered, PollRead
  <1>1. CASE ReadEof
    BY <1>1 DEF ReadEof
  <1>2. CASE ReadPending
    BY <1>2 DEF ReadPending
  <1>3. CASE ReadSome
    <2>1. PICK room \in 1 .. MaxChunk :
              LET copy_len == min(room, write_cursor - read_cursor) IN
              /\ delivered' = [i \in 1 .. copy_len |-> buffer[read_cursor + i - 1]]
              /\ read_cursor' = read_cursor + copy_len
      BY <1>3 DEF ReadSome, ReadUpTo
    <2> DEFINE n == min(room, write_cursor - read_cursor)
    <2>2. n \in 1 .. write_cursor - read_cursor
      BY <1>3 DEF ReadSome, ReadUpTo, min
    <2>3. \A i \in 1 .. n : buffer[read_cursor + i - 1] \in Bytes
      BY <2>2 DEF Slots
    <2>4. delivered' \in Seq(Bytes)
      <3> HIDE DEF n
      <3> QED
        BY <2>1, <2>2, <2>3 DEF n
    <2>5. read_cursor' = read_cursor + n /\ read_cursor' \in 0 .. BufLen /\ read_cursor' <= write_cursor
      BY <2>1, <2>2
    <2>6. /\ UNCHANGED <<buffer, write_cursor, write_end_closed, read_end_closed, read_waker>>
          /\ reader' = "ready" /\ WakeWriter
      BY <1>3 DEF ReadSome, ReadUpTo
    <2> QED
      BY <2>4, <2>5, <2>6, Zenon DEF WakeWriter
  <1> QED
    BY <1>1, <1>2, <1>3

\* poll_write: the bytes go between the write cursor and the end of the buffer.
LEMMA PollWriteStep == IInv /\ PollWrite => IInv'
  <1> SUFFICES ASSUME IInv, PollWrite PROVE IInv'
    OBVIOUS
  <1> USE DEF IInv, TypeOK, NoLostWakeup, CursorsOrdered, PollWrite
  <1>1. CASE WriteRefused
    BY <1>1 DEF WriteRefused
  <1>2. CASE WritePending
    BY <1>2 DEF WritePending
  <1>3. CASE WriteSome
    <2> DEFINE rewind == write_cursor = BufLen /\ read_cursor = BufLen
               from == IF rewind THEN 0 ELSE write_cursor
    <2>1. PICK n \in 0 .. MaxChunk : \E buf \in [1 .. n -> Bytes] :
              WriteAt(from, min(n, BufLen - from), buf)
      BY <1>3 DEF WriteSome, WriteFrom, Rewound, From, CopyLen
    <2>2. PICK buf \in [1 .. n -> Bytes] : WriteAt(from, min(n, BufLen - from), buf)
      BY <2>1
    <2>3. from \in 0 .. BufLen - 1
      BY <1>3 DEF WriteSome, WriteFrom, Rewound, From, CopyLen
    <2>4. min(n, BufLen - from) \in 0 .. n /\ from + min(n, BufLen - from) <= BufLen
      BY <2>3 DEF min
    <2>5. read_cursor' = (IF rewind THEN 0 ELSE read_cursor) /\ WakeReader /\ writer' = "ready"
          /\ write_waker' = write_waker /\ ~ read_end_closed
      BY <1>3 DEF WriteSome, WriteFrom, Rewound, From, CopyLen
    <2>6. read_cursor' \in 0 .. from
      BY <1>3, <2>5
    <2>7. write_cursor' \in from .. BufLen
      BY <2>2, <2>3, <2>4 DEF WriteAt
    <2>8. buffer' \in [Slots -> Bytes]
      <3>1. buffer' = [i \in Slots |->
                IF i >= from /\ i < from + min(n, BufLen - from)
                THEN buf[i - from + 1] ELSE buffer[i]]
        BY <2>2 DEF WriteAt
      <3>2. ASSUME NEW i \in Slots, i >= from, i < from + min(n, BufLen - from)
            PROVE  buf[i - from + 1] \in Bytes
        BY <3>2, <2>3, <2>4 DEF Slots
      <3> QED
        BY <3>1, <3>2
    <2> HIDE DEF from, rewind
    <2>9. reader' # "waiting" /\ read_waker' = FALSE /\ reader' \in {"ready", "waiting", "done"}
      BY <2>5 DEF WakeReader
    <2>10. TypeOK'
      <3>1. write_cursor' \in 0 .. BufLen /\ read_cursor' \in 0 .. BufLen
        BY <2>3, <2>6, <2>7
      <3>2. read_waker' \in BOOLEAN
        BY <2>9, Zenon
      <3>3. UNCHANGED <<write_end_closed, read_end_closed, write_waker, delivered>>
        BY <2>5
      <3> QED
        BY <2>5, <2>8, <2>9, <3>1, <3>2, <3>3, Zenon
    <2>11. CursorsOrdered'
      BY <2>3, <2>6, <2>7
    <2> QED
      BY <2>5, <2>9, <2>10, <2>11
  <1> QED
    BY <1>1, <1>2, <1>3

\* Closing either end keeps the invariant.
LEMMA CloseSteps == IInv /\ (CloseWriteEnd \/ CloseReadEnd) => IInv'
  BY Zenon DEF IInv, TypeOK, NoLostWakeup, CursorsOrdered, CloseWriteEnd, CloseReadEnd,
         WakeReader, WakeWriter

\* Every step keeps the invariant.
LEMMA NextIInv == IInv /\ [Next]_vars => IInv'
  <1> SUFFICES ASSUME IInv, [Next]_vars PROVE IInv'
    OBVIOUS
  <1>1. CASE UNCHANGED vars
    BY <1>1 DEF vars, tasks, IInv, TypeOK, NoLostWakeup, CursorsOrdered
  <1> QED
    BY <1>1, PollReadStep, PollWriteStep, CloseSteps DEF Next

\* The type invariant of the channel, for every buffer size.
THEOREM ChannelTypeCorrect == Spec => []TypeOK
  <1>1. IInv => TypeOK
    BY DEF IInv
  <1> QED
    BY <1>1, InitIInv, NextIInv, PTL DEF Spec

\* For every buffer size the reader stays behind the writer, across the partial
\* reads and writes and the rewinding of both cursors in poll_write.
THEOREM ReaderStaysBehind == Spec => []CursorsOrdered
  <1>1. IInv => CursorsOrdered
    BY DEF IInv
  <1> QED
    BY InitIInv, NextIInv, <1>1, PTL DEF Spec

\* A task sleeps only while it has nothing to do and its waker is stored: the
\* take-and-wake of poll_read, poll_write, poll_shutdown and the drops is enough.
THEOREM WakeupsKept == Spec => []NoLostWakeup
  <1>1. IInv => NoLostWakeup
    BY DEF IInv
  <1> QED
    BY <1>1, InitIInv, NextIInv, PTL DEF Spec

----------------------------------------------------------------------------
\* What the refinement needs besides: who has stopped, and why.
Ends ==
    /\ write_end_closed => writer = "done"
    /\ read_end_closed => reader = "done"
    /\ reader = "done" /\ ~ read_end_closed => write_end_closed

\* It holds initially, when neither end is closed.
LEMMA InitEnds == Init => Ends
  BY DEF Init, Ends

\* What is known of the two ends is kept by every step.
LEMMA NextEnds == IInv /\ Ends /\ [Next]_vars => Ends'
  <1> SUFFICES ASSUME IInv, Ends, [Next]_vars PROVE Ends'
    OBVIOUS
  <1> USE DEF Ends, IInv, TypeOK
  <1>1. CASE UNCHANGED vars
    BY <1>1 DEF vars, tasks
  <1>2. CASE PollRead
    BY <1>2 DEF PollRead, ReadEof, ReadPending, ReadSome, ReadUpTo, WakeWriter
  <1>3. CASE PollWrite
    BY <1>3 DEF PollWrite, WriteRefused, WritePending, WriteSome, WriteFrom, WakeReader
  <1>4. CASE CloseWriteEnd \/ CloseReadEnd
    BY <1>4 DEF CloseWriteEnd, CloseReadEnd, WakeReader, WakeWriter
  <1> QED
    BY <1>1, <1>2, <1>3, <1>4 DEF Next

\* The bytes between the cursors, and how far the end of the stream has come:
\* the refinement mapping of Stream.
Content == [i \in 1 .. write_cursor - read_cursor |-> buffer[read_cursor + i - 1]]
Ended == IF ~ write_end_closed THEN "open"
         ELSE IF reader = "done" /\ ~ read_end_closed THEN "eof" ELSE "closed"

\* The part of a buffer between two cursors is a sequence of that length.
LEMMA SliceIsSeq ==
  ASSUME NEW buf \in [Slots -> Bytes], NEW lo \in 0 .. BufLen, NEW hi \in 0 .. BufLen, lo <= hi
  PROVE  LET slice == [i \in 1 .. hi - lo |-> buf[lo + i - 1]]
         IN  slice \in Seq(Bytes) /\ Len(slice) = hi - lo
  <1>1. \A i \in 1 .. hi - lo : buf[lo + i - 1] \in Bytes
    BY DEF Slots
  <1> QED
    BY <1>1

\* What stands between the cursors is a sequence of bytes.
LEMMA ContentIsSeq == IInv => Content \in Seq(Bytes) /\ Len(Content) = write_cursor - read_cursor
  BY SliceIsSeq, Zenon DEF IInv, TypeOK, CursorsOrdered, Content

\* An empty channel is an empty stream.
LEMMA InitStream == Init => Stream!Init
  BY DEF Init, Stream!Init

\* A read of the channel takes a prefix of the content.
LEMMA ReadStream == IInv /\ PollRead /\ ReadSome => Stream!Read
  <1> SUFFICES ASSUME IInv, PollRead, ReadSome PROVE Stream!Read
    OBVIOUS
  <1>1. PICK room \in 1 .. MaxChunk :
            LET copy_len == min(room, write_cursor - read_cursor) IN
            /\ delivered' = [i \in 1 .. copy_len |-> buffer[read_cursor + i - 1]]
            /\ read_cursor' = read_cursor + copy_len
    BY DEF ReadSome, ReadUpTo
  <1> DEFINE n == min(room, write_cursor - read_cursor)
  <1>2. n \in 1 .. write_cursor - read_cursor
    BY DEF ReadSome, ReadUpTo, min, IInv, TypeOK, CursorsOrdered
  <1>3. n \in 1 .. Len(Content)
    BY <1>2, ContentIsSeq
  <1>4. UNCHANGED <<buffer, write_cursor, write_end_closed, read_end_closed>> /\ reader # "done" /\ reader' = "ready"
    BY DEF ReadSome, ReadUpTo, PollRead
  <1>5. delivered' = [i \in 1 .. n |-> buffer[read_cursor + i - 1]] /\ read_cursor' = read_cursor + n
    BY <1>1
  <1> HIDE DEF n
  <1>6. write_cursor \in Int /\ read_cursor \in Int
    BY DEF IInv, TypeOK
  <1>7. delivered' = SubSeq(Content, 1, n)
    BY <1>2, <1>3, <1>5, <1>6, ContentIsSeq DEF Content
  <1>8. Content' = SubSeq(Content, n + 1, Len(Content))
    BY <1>2, <1>3, <1>4, <1>5, <1>6, ContentIsSeq DEF Content
  <1>9. Ended' = Ended
    BY <1>4 DEF Ended
  <1> QED
    BY <1>3, <1>7, <1>8, <1>9, Zenon DEF Content, Ended, Stream!Read

\* A write appends: the old content is a prefix of the new one, also when the
\* buffer, read to its end, is started again.
LEMMA WriteStream == IInv /\ Ends /\ PollWrite /\ WriteSome => Stream!Write
  <1> SUFFICES ASSUME IInv, Ends, PollWrite, WriteSome PROVE Stream!Write
    OBVIOUS
  <1> DEFINE rewind == write_cursor = BufLen /\ read_cursor = BufLen
             from == IF rewind THEN 0 ELSE write_cursor
             start == IF rewind THEN 0 ELSE read_cursor
  <1>1. PICK n \in 0 .. MaxChunk : \E buf \in [1 .. n -> Bytes] :
            WriteAt(from, min(n, BufLen - from), buf)
    BY DEF WriteSome, WriteFrom, Rewound, From, CopyLen
  <1>2. PICK buf \in [1 .. n -> Bytes] : WriteAt(from, min(n, BufLen - from), buf)
    BY <1>1
  <1>3. /\ from \in 0 .. BufLen - 1 /\ start \in 0 .. BufLen - 1
        /\ start <= from /\ from - start = write_cursor - read_cursor
    BY DEF WriteSome, WriteFrom, Rewound, From, CopyLen, IInv, TypeOK, CursorsOrdered
  <1>4. /\ read_cursor' = start
        /\ ~ rewind => from = write_cursor /\ start = read_cursor
        /\ rewind => from - start = 0
    BY DEF WriteSome, WriteFrom, Rewound, From, CopyLen
  <1> HIDE DEF from, start, rewind
  <1>5. PICK f \in 0 .. BufLen - 1, g \in 0 .. BufLen - 1 :
            /\ f = from /\ g = start /\ g <= f
            /\ f - g = write_cursor - read_cursor
    BY <1>3
  <1>6. /\ read_cursor' = g
        /\ ~ rewind => f = write_cursor /\ g = read_cursor
        /\ rewind => f - g = 0
        /\ WriteAt(f, min(n, BufLen - f), buf)
    BY <1>5, <1>2, <1>4
  <1>7. min(n, BufLen - f) \in 0 .. n
    BY <1>5 DEF min
  <1>8. PICK w \in Nat : w = write_cursor' /\ f <= w
    BY <1>6, <1>5, <1>7 DEF WriteAt
  <1>9. \A i \in Slots : i < f => buffer'[i] = buffer[i]
    BY <1>6, <1>5 DEF WriteAt, Slots
  <1>10. UNCHANGED <<write_end_closed, read_end_closed, delivered>> /\ ~ write_end_closed
    BY DEF PollWrite, Ends
  <1>11. IInv'
    BY PollWriteStep
  <1>12. Content' = [i \in 1 .. w - g |-> buffer'[g + i - 1]]
    BY <1>8, <1>6 DEF Content
  <1>13. write_cursor \in Int /\ read_cursor \in Int /\ f \in Int /\ g \in Int
    BY <1>5 DEF IInv, TypeOK
  <1>14. Content \in Seq(Bytes) /\ Len(Content) = f - g
    BY <1>5, ContentIsSeq
  <1>15. Content' \in Seq(Bytes) /\ Len(Content') = w - g
    <2>1. buffer' \in [Slots -> Bytes] /\ g <= w /\ w \in 0 .. BufLen /\ g \in 0 .. BufLen
      BY <1>8, <1>11, <1>6 DEF IInv, TypeOK, CursorsOrdered
    <2> QED
      BY <1>12, <2>1, SliceIsSeq, Zenon
  <1>16. g <= f /\ f <= w
    BY <1>5, <1>8
  <1>17. \A i \in 1 .. f - g : Content'[i] = Content[i]
    <2> SUFFICES ASSUME NEW i \in 1 .. f - g PROVE Content'[i] = Content[i]
      OBVIOUS
    <2>1. f = write_cursor /\ g = read_cursor
      BY <1>6, <1>13
    <2>2. Content[i] = buffer[g + i - 1]
      BY <2>1 DEF Content
    <2>3. Content'[i] = buffer'[g + i - 1]
      <3>1. i \in 1 .. w - g
        BY <1>13, <1>16
      <3> QED
        BY <3>1, <1>12
    <2>4. g + i - 1 \in Slots /\ g + i - 1 < f
      BY <1>5, <1>13 DEF Slots
    <2> QED
      BY <1>9, <2>2, <2>3, <2>4
  <1>18. SubSeq(Content', 1, Len(Content)) = Content
    <2> DEFINE p == SubSeq(Content', 1, Len(Content))
    <2>1. Len(Content) \in 0 .. Len(Content')
      BY <1>13, <1>14, <1>15, <1>16
    <2>2. /\ p \in Seq(Bytes) /\ Len(p) = Len(Content)
          /\ \A i \in 1 .. Len(Content) : p[i] = Content'[i]
      BY <2>1, <1>15
    <2>3. \A i \in 1 .. Len(Content) : p[i] = Content[i]
      BY <2>2, <1>14, <1>17
    <2> HIDE DEF p
    <2>4. p = Content
      BY <2>2, <2>3, <1>14
    <2> QED
      BY <2>4 DEF p
  <1>19. \E k \in 0 .. Len(Content') :
            /\ Content' \in Seq(Bytes)
            /\ k + Len(Content) = Len(Content')
            /\ SubSeq(Content', 1, Len(Content)) = Content
    <2>1. w - f \in 0 .. Len(Content')
      BY <1>13, <1>15, <1>16
    <2>2. w - f + Len(Content) = Len(Content')
      BY <1>13, <1>14, <1>15
    <2> QED
      BY <2>1, <2>2, <1>15, <1>18, Zenon
  <1>20. Ended = "open" /\ Ended' = "open"
    BY <1>10 DEF Ended
  <1> QED
    BY <1>10, <1>19, <1>20, Zenon DEF Content, Ended, Stream!Write

\* Every other step changes at most how far the end of the stream has come.
LEMMA NextStream == IInv /\ Ends /\ [Next]_vars => [Stream!Next]_(Stream!vars)
  <1> SUFFICES ASSUME IInv, Ends, [Next]_vars PROVE [Stream!Next]_(Stream!vars)
    OBVIOUS
  <1> USE DEF Stream!Next, Stream!vars
  <1>1. CASE UNCHANGED vars
    BY <1>1 DEF vars, tasks
  <1>2. CASE PollRead /\ ReadSome
    BY <1>2, ReadStream
  <1>3. CASE PollWrite /\ WriteSome
    BY <1>3, WriteStream
  <1>4. CASE PollRead /\ ReadEof
    <2>1. Content' = Content /\ delivered' = delivered
      BY <1>4 DEF PollRead, ReadEof, Content
    <2>2. Content = << >>
      BY <1>4 DEF ReadEof, Content, IInv, TypeOK
    <2>3. Ended = "closed" /\ Ended' = "eof"
      BY <1>4 DEF PollRead, ReadEof, Ended, Ends
    <2> QED
      BY <2>1, <2>2, <2>3 DEF Content, Ended, Stream!Eof
  <1>5. CASE PollRead /\ ReadPending
    BY <1>5 DEF PollRead, ReadPending
  <1>6. CASE PollWrite /\ (WriteRefused \/ WritePending)
    BY <1>6 DEF PollWrite, WriteRefused, WritePending
  <1>7. CASE CloseWriteEnd
    <2>1. Content' = Content /\ delivered' = delivered
      BY <1>7 DEF CloseWriteEnd, Content
    <2>2. Ended = "open" /\ Ended' = "closed"
      BY <1>7 DEF CloseWriteEnd, WakeReader, Ended, Ends
    <2> QED
      BY <2>1, <2>2 DEF Content, Ended, Stream!Close
  <1>8. CASE CloseReadEnd
    <2>1. Content' = Content /\ delivered' = delivered
      BY <1>8 DEF CloseReadEnd, Content
    <2>2. Ended' = Ended
      BY <1>8 DEF CloseReadEnd, Ended, Ends
    <2> QED
      BY <2>1, <2>2 DEF Content, Ended
  <1> QED
    BY <1>1, <1>2, <1>3, <1>4, <1>5, <1>6, <1>7, <1>8 DEF Next, PollRead, PollWrite

\* The channel is a FIFO of bytes whatever the size of its buffer: every poll and
\* every drop is a step of the abstract stream or leaves it alone.
THEOREM ChannelIsStream == Spec => ImplementsByteStream
  BY InitIInv, NextIInv, InitEnds, NextEnds, InitStream, NextStream, PTL
  DEF Spec, ImplementsByteStream, Stream!Spec
=============================================================================
