---------------------------- MODULE PackedStream ----------------------------
(***************************************************************************)
(* Messages over a byte channel: the framing of                            *)
(* capnp-futures/src/serialize.rs (a segment table, then the segments) and *)
(* the packing of capnp-futures/src/serialize_packed.rs, both of which may *)
(* be suspended at any byte.  One task writes messages with write_message, *)
(* the other reads them with try_read_message until it returns None or an  *)
(* error; the bytes go through the channel of module ByteChannel.  One     *)
(* turn of the loop of poll_write_aux, or of PackedRead::poll_read, is one *)
(* step.  A message is a sequence of segments, a segment the bytes of a    *)
(* whole number of words.                                                  *)
(***************************************************************************)
EXTENDS ByteChannel, SequencesExt

CONSTANTS Word,           \* bytes of a word and bits of a byte, 8 in the code
          Messages,       \* what the writer may write
          MaxMessages,    \* bound on the messages written
          SegmentsLimit,  \* 512 in the code
          Limit           \* traversal_limit_in_words of the reader

Base == 2 ^ Word
Half == Word \div 2       \* bytes of the u32 of a segment table

ASSUME WordAssumption == Word \in Nat \ {0} /\ 2 * Half = Word /\ Bytes = 0 .. Base - 1
ASSUME MessagesAssumption ==
    \A m \in Messages :
        Len(m) > 0 /\ \A i \in DOMAIN m : m[i] \in Seq(Bytes) /\ Len(m[i]) % Word = 0

VARIABLES
    begun, completed,     \* the messages begun, and how many write_message has finished
    out,                  \* the buffers left to write_all; the first is inbuf
    packer,               \* PackedWrite: stage, rest of packed_buf, its tag, run_bytes_remaining
    unpacker,             \* PackedRead: stage, buf, num_run_bytes_remaining
    frame,                \* what try_read_message awaits: need bytes, of which it has got
    received, result      \* what it has returned: messages, and how reading ended

writer_vars == <<begun, completed, out, packer>>
reader_vars == <<unpacker, frame, received, result>>
stream_vars == <<vars, writer_vars, reader_vars>>
shared == <<buffer, write_cursor, read_cursor, read_waker, write_waker, tasks>>

Packing == [stage |-> "Start", rest |-> << >>, tag |-> 0, run |-> 0]
Unpacking == [stage |-> "Start", buf |-> << >>, run |-> 0]
FirstWord == [phase |-> "first", need |-> Word, got |-> << >>, count |-> 0, lens |-> << >>]

SInit ==
    /\ Init
    /\ begun = << >> /\ completed = 0 /\ out = << >> /\ packer = Packing
    /\ unpacker = Unpacking /\ frame = FirstWord /\ received = << >> /\ result = "reading"

Drop(s, n) == SubSeq(s, n + 1, Len(s))
Zeros(n) == [i \in 1 .. n |-> 0]
WordAt(s, k) == SubSeq(s, Word * (k - 1) + 1, Word * k)
Sum(s) == FoldLeft(LAMBDA x, y : x + y, 0, s)

----------------------------------------------------------------------------
(* serialize::write_message *)

\* to_le_bytes and from_le_bytes; the i-th number of a table.
Encode(n) == [k \in 1 .. Half |-> (n \div Base ^ (k - 1)) % Base]
Decode(s, i) ==
    FoldRight(LAMBDA b, n : b + Base * n, SubSeq(s, Half * (i - 1) + 1, Half * i), 0)

\* The number of segments less one, their sizes, and padding to a word.
SegmentTable(m) ==
    LET sizes == FlattenSeq([i \in DOMAIN m |-> Encode(Len(m[i]) \div Word)]) IN
    Encode(Len(m) - 1) \o sizes \o (IF Len(m) % 2 = 0 THEN Encode(0) ELSE << >>)

\* The buffers of write_segment_table and write_segments; write_all does nothing
\* with an empty one.
Buffers(m) ==
    SelectSeq(<<SubSeq(SegmentTable(m), 1, Word), Drop(SegmentTable(m), Word)>> \o m,
              LAMBDA b : b # << >>)

BeginMessage(m) ==
    /\ writer = "ready" /\ completed = Len(begun) /\ Len(begun) < MaxMessages
    /\ begun' = Append(begun, m)
    /\ out' = Buffers(m)
    /\ packer' = Packing
    /\ UNCHANGED <<vars, completed, reader_vars>>

----------------------------------------------------------------------------
(* PackedWrite::poll_write_aux.  Buffers are whole words, so that a copy into
   buf always fills it.  In stage Start the other fields are not read again. *)

Inbuf == IF out = << >> THEN << >> ELSE Head(out)

ZeroBytes(w) == Cardinality({i \in DOMAIN w : w[i] = 0})
TagOf(w) == MapThenSumSet(LAMBDA i : 2 ^ (i - 1), {i \in DOMAIN w : w[i] # 0})
IsSet(tag, i) == (tag \div 2 ^ (i - 1)) % 2 = 1
Joins(tag, w) == IF tag = 0 THEN ZeroBytes(w) = Word ELSE ZeroBytes(w) <= 1

\* How many words of inbuf go on with the run that a word with this tag begins.
WordsInRun(tag, inbuf) ==
    Max({n \in 0 .. Len(inbuf) \div Word : \A k \in 1 .. n : Joins(tag, WordAt(inbuf, k))})

StartWord ==
    /\ packer.stage = "Start" /\ out # << >>
    /\ IF Inbuf = << >>
       THEN out' = Tail(out) /\ UNCHANGED packer
       ELSE LET w == WordAt(Inbuf, 1) IN
            /\ out' = <<Drop(Inbuf, Word)>> \o Tail(out)
            /\ packer' = [packer EXCEPT !.stage = "WriteWord", !.tag = TagOf(w),
                             !.rest = <<TagOf(w)>> \o SelectSeq(w, LAMBDA b : b # 0)]
    /\ UNCHANGED <<shared, completed>>

\* The inner writer fails, or is Pending: then what was consumed is returned, and
\* write_all goes on with the next buffer when this one is used up.  After the last,
\* finish_pending_writes does not go back to WriteUncompressedRun.
Blocked ==
    LET rest == IF out # << >> /\ Inbuf = << >> THEN Tail(out) ELSE out IN
    \/ WriteRefused /\ UNCHANGED <<out, packer>>
    \/ /\ WritePending
       /\ out' = rest
       /\ packer' = IF packer.stage = "WriteUncompressedRun" /\ rest = << >> THEN Packing ELSE packer

WriteWord ==
    LET rest == Drop(packer.rest, CopyLen(Len(packer.rest))) IN
    /\ packer.stage = "WriteWord"
    /\ \/ Blocked
       \/ /\ WriteFrom(Len(packer.rest), packer.rest)
          /\ packer' = IF rest # << >> THEN [packer EXCEPT !.rest = rest]
                       ELSE IF packer.tag \notin {0, Base - 1} THEN Packing
                       ELSE [packer EXCEPT !.rest = rest, !.stage = "WriteRunWordCount",
                                !.run = Word * WordsInRun(packer.tag, Inbuf)]
          /\ UNCHANGED out
    /\ UNCHANGED completed

\* The count of the words of the run, as u8.
WriteRunWordCount ==
    /\ packer.stage = "WriteRunWordCount"
    /\ \/ Blocked
       \/ /\ WriteFrom(1, <<(packer.run \div Word) % Base>>)
          /\ IF packer.tag = 0
             THEN /\ out' = IF out = << >> THEN out ELSE <<Drop(Inbuf, packer.run)>> \o Tail(out)
                  /\ packer' = Packing
             ELSE packer' = [packer EXCEPT !.stage = "WriteUncompressedRun"] /\ UNCHANGED out
    /\ UNCHANGED completed

WriteUncompressedRun ==
    LET run == SubSeq(Inbuf, 1, packer.run)
        n == CopyLen(packer.run) IN
    /\ packer.stage = "WriteUncompressedRun"
    /\ \/ Blocked
       \/ /\ WriteFrom(packer.run, run)
          /\ out' = IF out = << >> THEN out ELSE <<Drop(Inbuf, n)>> \o Tail(out)
          /\ packer' = IF n < packer.run THEN [packer EXCEPT !.run = @ - n]
                       ELSE Packing
    /\ UNCHANGED completed

\* FinishPendingWrites is done, and with it write_message.
EndMessage ==
    /\ out = << >> /\ packer.stage = "Start"
    /\ completed' = Len(begun)
    /\ writer' = "ready"
    /\ UNCHANGED <<buffer, write_cursor, read_cursor, read_waker, write_waker, reader, out, packer>>

PackedWrite ==
    /\ writer # "done" /\ completed < Len(begun)
    /\ StartWord \/ WriteWord \/ WriteRunWordCount \/ WriteUncompressedRun \/ EndMessage
    /\ UNCHANGED <<write_end_closed, read_end_closed, delivered, begun, reader_vars>>

----------------------------------------------------------------------------
(* serialize::try_read_message, at the bytes that poll_read returns *)

\* Mutant of Segments: a segment starts at the length of the one before it.
SegmentsAfterOne(bytes, lens) ==
    [i \in DOMAIN lens |-> LET from == IF i = 1 THEN 0 ELSE Word * lens[i - 1]
                           IN  SubSeq(bytes, from + 1, from + Word * lens[i])]

\* OwnedSegments: one buffer, and where each segment lies in it.
Segments(bytes, lens) ==
    [i \in DOMAIN lens |-> LET from == Word * Sum(SubSeq(lens, 1, i - 1))
                           IN  SubSeq(bytes, from + 1, from + Word * lens[i])]

Fail == result' = "error" /\ UNCHANGED <<unpacker, frame, received>>

\* read_segments is done; the next message is read with a new PackedRead.
Return(bytes, lens) ==
    /\ received' = Append(received, Segments(bytes, lens))
    /\ frame' = FirstWord /\ unpacker' = Unpacking
    /\ UNCHANGED result

\* The end of read_segment_table, and the start of read_segments.
TableRead(lens, u) ==
    IF Sum(lens) > Limit THEN Fail
    ELSE IF Sum(lens) = 0 THEN Return(<< >>, lens)
    ELSE /\ frame' = [phase |-> "segments", need |-> Word * Sum(lens), got |-> << >>,
                      count |-> Len(lens), lens |-> lens]
         /\ unpacker' = u
         /\ UNCHANGED <<received, result>>

\* parse_segment_table_first
FirstRead(word, u) ==
    LET count == (Decode(word, 1) + 1) % (Base ^ Half)
        len == Decode(word, 2) IN
    IF count >= SegmentsLimit \/ count = 0 THEN Fail
    ELSE IF count = 1 THEN TableRead(<<len>>, u)
    ELSE /\ frame' = [phase |-> "table", need |-> Half * (count - (count % 2)), got |-> << >>,
                      count |-> count, lens |-> <<len>>]
         /\ unpacker' = u
         /\ UNCHANGED <<received, result>>

\* poll_read returns bytes and leaves the PackedRead as u.
Deliver(bytes, u) ==
    LET got == frame.got \o bytes IN
    IF Len(got) < frame.need
    THEN frame' = [frame EXCEPT !.got = got] /\ unpacker' = u /\ UNCHANGED <<received, result>>
    ELSE CASE frame.phase = "first" -> FirstRead(got, u)
           [] frame.phase = "table" ->
                  TableRead(frame.lens \o [i \in 1 .. frame.count - 1 |-> Decode(got, i)], u)
           [] OTHER -> Return(got, frame.lens)

Room == frame.need - Len(frame.got)

----------------------------------------------------------------------------
(* PackedRead::poll_read.  Reads are of whole words, so that a buffered word is
   always drained at once. *)

\* Mutant of NoBytes: the end inside a word is not told from the end before one.
NoBytesQuiet ==
    \/ ReadPending /\ UNCHANGED reader_vars
    \/ /\ ReadEof
       /\ result' = IF frame.phase = "first" /\ frame.got = << >> THEN "end" ELSE "error"
       /\ UNCHANGED <<unpacker, frame, received>>

\* The inner reader is Pending, or at its end: no bytes are returned, which is an
\* error unless nothing was read of this message, or BufferingWord says so.
NoBytes ==
    \/ ReadPending /\ UNCHANGED reader_vars
    \/ /\ ReadEof
       /\ result' = IF frame.phase = "first" /\ frame.got = << >> /\ unpacker.stage # "BufferingWord"
                    THEN "end" ELSE "error"
       /\ UNCHANGED <<unpacker, frame, received>>

\* buf_size: the tag, the bytes it announces, and the count of pass-through words.
BufSize(tag) ==
    LET ones == Cardinality({i \in 1 .. Word : IsSet(tag, i)}) IN
    IF ones = Word THEN ones + 2 ELSE ones + 1

ReadTag ==
    LET buf == unpacker.buf \o delivered'
        next == IF Len(buf) < 2 THEN "Start" ELSE IF buf[1] = 0 THEN "WritingZeroes"
                ELSE IF BufSize(buf[1]) = 2 THEN "DrainingBuffer" ELSE "BufferingWord" IN
    /\ unpacker.stage = "Start"
    /\ \/ NoBytes
       \/ /\ ReadUpTo(2 - Len(unpacker.buf))
          /\ unpacker' = [stage |-> next, buf |-> buf,
                          run |-> IF next = "WritingZeroes" THEN Word * (buf[2] + 1) ELSE 0]
          /\ UNCHANGED <<frame, received, result>>

WritingZeroes ==
    LET n == min(Room, unpacker.run) IN
    /\ unpacker.stage = "WritingZeroes"
    /\ Deliver(Zeros(n), IF n = unpacker.run THEN Unpacking ELSE [unpacker EXCEPT !.run = @ - n])
    /\ UNCHANGED <<shared, delivered>>

BufferingWord ==
    LET buf == unpacker.buf \o delivered' IN
    /\ unpacker.stage = "BufferingWord"
    /\ \/ NoBytes
       \/ /\ ReadUpTo(BufSize(unpacker.buf[1]) - Len(unpacker.buf))
          /\ unpacker' = [unpacker EXCEPT !.buf = buf,
                 !.stage = IF Len(buf) = BufSize(buf[1]) THEN "DrainingBuffer" ELSE @]
          /\ UNCHANGED <<frame, received, result>>

\* The i-th byte of the word in buf.
Unpacked(buf, i) ==
    IF IsSet(buf[1], i) THEN buf[1 + Cardinality({j \in 1 .. i : IsSet(buf[1], j)})] ELSE 0

DrainingBuffer ==
    LET buf == unpacker.buf IN
    /\ unpacker.stage = "DrainingBuffer"
    /\ Deliver([i \in 1 .. Word |-> Unpacked(buf, i)],
               IF buf[1] # Base - 1 THEN Unpacking
               ELSE [stage |-> "WritingPassthrough", buf |-> << >>, run |-> Word * Last(buf)])
    /\ UNCHANGED <<shared, delivered>>

WritingPassthrough ==
    LET upper_bound == min(unpacker.run, Room)
        run == unpacker.run - Len(delivered') IN
    /\ unpacker.stage = "WritingPassthrough"
    /\ \/ /\ upper_bound = 0
          /\ unpacker' = Unpacking
          /\ UNCHANGED <<shared, delivered, frame, received, result>>
       \/ upper_bound > 0 /\ NoBytes
       \/ /\ upper_bound > 0
          /\ ReadUpTo(upper_bound)
          /\ Deliver(delivered', IF run = 0 THEN Unpacking ELSE [unpacker EXCEPT !.run = run])

PackedRead ==
    /\ reader # "done" /\ result = "reading"
    /\ ReadTag \/ WritingZeroes \/ BufferingWord \/ DrainingBuffer \/ WritingPassthrough
    /\ UNCHANGED <<write_cursor, write_end_closed, read_end_closed, writer_vars>>

----------------------------------------------------------------------------
\* Either task may be dropped between two steps, the reader's when it has failed.
DropWriter == CloseWriteEnd /\ UNCHANGED <<writer_vars, reader_vars>>
DropReader == CloseReadEnd /\ UNCHANGED <<writer_vars, reader_vars>>

SNext ==
    \/ PackedWrite \/ PackedRead \/ DropWriter \/ DropReader
    \/ \E m \in Messages : BeginMessage(m)

SSpec == SInit /\ [][SNext]_stream_vars

----------------------------------------------------------------------------
(* Properties *)

STypeOK ==
    /\ TypeOK
    /\ completed \in {Len(begun) - 1, Len(begun)}
    /\ \A b \in Range(out \o FlattenSeq(begun \o received)) : b \in Seq(Bytes)
    /\ packer.stage \in {"Start", "WriteWord", "WriteRunWordCount", "WriteUncompressedRun"}
    /\ packer.rest \in Seq(Bytes) /\ packer.tag \in Bytes /\ packer.run \in 0 .. Len(Inbuf)
    /\ unpacker.buf \in Seq(Bytes) /\ unpacker.run \in Nat
    /\ Len(frame.got) < frame.need
    /\ result \in {"reading", "end", "error"}

\* A run has Base words or more after its first, so that its count is truncated.
LongRun(b, tag) ==
    \E i \in 1 .. (Len(b) \div Word) - Base :
        TagOf(WordAt(b, i)) = tag /\ \A k \in 1 .. Base : Joins(tag, WordAt(b, i + k))
Countable(m) == \A i \in DOMAIN Buffers(m) : \A tag \in {0, Base - 1} : ~ LongRun(Buffers(m)[i], tag)
AllCountable == \A i \in DOMAIN begun : Countable(begun[i])

\* What try_read_message returns is what was given to write_message, segment by
\* segment and in order, wherever the two were suspended between two bytes, whatever
\* the runs and across the boundaries of the buffers, if no run is longer than its
\* count can say.
MessagesIntact == AllCountable => IsPrefix(received, begun)

TooLarge(m) == Len(m) >= SegmentsLimit \/ Sum([i \in DOMAIN m |-> Len(m[i]) \div Word]) > Limit

\* How many bytes are out of m, the message being written; 2 for any number from 2.
BytesOut(m) ==
    LET left == Sum([i \in DOMAIN out |-> Len(out[i])])
        all == Sum([i \in DOMAIN Buffers(m) |-> Len(Buffers(m)[i])])
        first == 1 + Word - ZeroBytes(Head(Buffers(m))) IN
    IF left = all THEN 0
    ELSE IF left = all - Word /\ packer.stage \in {"WriteWord", "WriteRunWordCount"}
    THEN min(2, first - Len(packer.rest)) ELSE 2

\* If no run is longer than its count can say: try_read_message returns None only when
\* it has returned every message of which anything was written, or all but the first
\* byte, the tag, of one; and an error only at a message that was not written to its
\* end, or is over the limits.
EndIsTrue ==
    AllCountable =>
        /\ result = "end" =>
               \/ Len(received) = Len(begun)
               \/ Len(received) = Len(begun) - 1 /\ BytesOut(Last(begun)) <= 1
        /\ result = "error" =>
               /\ Len(received) < Len(begun)
               /\ completed = Len(received) \/ TooLarge(begun[Len(received) + 1])

\* A message that is begun is written, unless a task is dropped, and one that is
\* written is returned, unless the reader has gone or has failed, or a message has a
\* run that is longer than its count can say.
MessagesArrive ==
    \A k \in 1 .. MaxMessages :
        /\ Len(begun) >= k ~> (completed >= k \/ writer = "done")
        /\ completed >= k /\ AllCountable ~> (Len(received) >= k \/ reader = "done" \/ ~ AllCountable)
=============================================================================
