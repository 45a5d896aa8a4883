---------------------------- MODULE ByteChannel ----------------------------
(***************************************************************************)
(* The in-memory byte stream of async-byte-channel/src/lib.rs: a buffer    *)
(* that is filled once, read to its end and then filled again, shared by a *)
(* writing and a reading task behind a mutex, so that every poll is one    *)
(* step.  A task whose poll is Pending sleeps until its waker is called;   *)
(* it may also be polled without having been woken.                        *)
(***************************************************************************)
EXTENDS Integers, Sequences

CONSTANTS Bytes,      \* the values of a byte
          BufLen,     \* the size of the buffer, 8096 in the code
          MaxChunk    \* bound on the length of the caller's buffers

ASSUME BufLenAssumption == BufLen \in Nat \ {0}
ASSUME MaxChunkAssumption == MaxChunk \in Nat \ {0}
ASSUME BytesAssumption == Bytes # {}

VARIABLES buffer, write_cursor, read_cursor,
          write_end_closed, read_end_closed,
          read_waker, write_waker,      \* whether a waker is stored
          writer, reader,               \* "ready", "waiting" or "done"
          delivered                     \* the bytes of the last poll_read

tasks == <<writer, reader>>
vars == <<buffer, write_cursor, read_cursor, write_end_closed, read_end_closed,
          read_waker, write_waker, tasks, delivered>>

Slots == 0 .. BufLen - 1
Zero == CHOOSE b \in Bytes : TRUE
min(a, b) == IF a < b THEN a ELSE b

TypeOK ==
    /\ buffer \in [Slots -> Bytes]
    /\ write_cursor \in 0 .. BufLen /\ read_cursor \in 0 .. BufLen
    /\ write_end_closed \in BOOLEAN /\ read_end_closed \in BOOLEAN
    /\ read_waker \in BOOLEAN /\ write_waker \in BOOLEAN
    /\ writer \in {"ready", "waiting", "done"} /\ reader \in {"ready", "waiting", "done"}
    /\ delivered \in Seq(Bytes)

Init ==
    /\ buffer = [i \in Slots |-> Zero]
    /\ write_cursor = 0 /\ read_cursor = 0
    /\ write_end_closed = FALSE /\ read_end_closed = FALSE
    /\ read_waker = FALSE /\ write_waker = FALSE
    /\ writer = "ready" /\ reader = "ready"
    /\ delivered = << >>

----------------------------------------------------------------------------
\* Mutant: the waker is taken and not called.
TakeOnly == read_waker' = FALSE /\ UNCHANGED reader

\* take() the waker and wake(): the task that stored it is scheduled.
WakeReader ==
    /\ read_waker' = FALSE
    /\ reader' = IF read_waker /\ reader = "waiting" THEN "ready" ELSE reader

WakeWriter ==
    /\ write_waker' = FALSE
    /\ writer' = IF write_waker /\ writer = "waiting" THEN "ready" ELSE writer

\* Mutant: a closed write end is the end of the stream, whatever is left in the buffer.
EofOnClose ==
    /\ write_end_closed
    /\ reader' = "done"
    /\ UNCHANGED <<buffer, read_cursor, read_waker, write_waker, writer, delivered>>

\* Mutant: the reader takes the end for a read of no bytes and goes on.
EofUnnoticed ==
    /\ read_cursor = write_cursor /\ write_end_closed
    /\ UNCHANGED <<buffer, read_cursor, read_waker, write_waker, tasks, delivered>>

\* poll_read
ReadEof ==
    /\ read_cursor = write_cursor /\ write_end_closed
    /\ reader' = "done"
    /\ UNCHANGED <<buffer, read_cursor, read_waker, write_waker, writer, delivered>>

ReadPending ==
    /\ read_cursor = write_cursor /\ ~ write_end_closed
    /\ read_waker' = TRUE
    /\ reader' = "waiting"
    /\ UNCHANGED <<buffer, read_cursor, write_waker, writer, delivered>>

ReadUpTo(room) ==
    LET copy_len == min(room, write_cursor - read_cursor) IN
    /\ read_cursor # write_cursor
    /\ delivered' = [i \in 1 .. copy_len |-> buffer[read_cursor + i - 1]]
    /\ read_cursor' = read_cursor + copy_len
    /\ WakeWriter
    /\ reader' = "ready"
    /\ UNCHANGED <<buffer, read_waker>>

ReadSome == \E room \in 1 .. MaxChunk : ReadUpTo(room)

PollRead ==
    /\ reader # "done"
    /\ ReadEof \/ ReadPending \/ ReadSome
    /\ UNCHANGED <<write_cursor, write_end_closed, read_end_closed>>

\* poll_write
WriteRefused ==
    /\ read_end_closed
    /\ writer' = "done"
    /\ UNCHANGED <<buffer, write_cursor, read_cursor, read_waker, write_waker, reader>>

WritePending ==
    /\ ~ read_end_closed
    /\ write_cursor = BufLen /\ read_cursor # BufLen
    /\ write_waker' = TRUE
    /\ writer' = "waiting"
    /\ UNCHANGED <<buffer, write_cursor, read_cursor, read_waker, reader>>

WriteAt(from, copy_len, buf) ==
    /\ buffer' = [i \in Slots |->
           IF i >= from /\ i < from + copy_len THEN buf[i - from + 1] ELSE buffer[i]]
    /\ write_cursor' = from + copy_len

\* The cursors go back to the start when everything has been read.
Rewound == write_cursor = BufLen /\ read_cursor = BufLen
From == IF Rewound THEN 0 ELSE write_cursor
CopyLen(n) == min(n, BufLen - From)

\* Mutant: a buffer that has been read to its end is not used again.
WriteOnce(n, buf) ==
    /\ ~ read_end_closed
    /\ write_cursor # BufLen
    /\ WriteAt(From, CopyLen(n), buf)
    /\ UNCHANGED read_cursor
    /\ WakeReader
    /\ writer' = "ready"
    /\ UNCHANGED write_waker

\* buf has n bytes, perhaps none; CopyLen(n) of them are taken.
WriteFrom(n, buf) ==
    /\ ~ read_end_closed
    /\ write_cursor # BufLen \/ read_cursor = BufLen
    /\ WriteAt(From, CopyLen(n), buf)
    /\ read_cursor' = IF Rewound THEN 0 ELSE read_cursor
    /\ WakeReader
    /\ writer' = "ready"
    /\ UNCHANGED write_waker

WriteSome == \E n \in 0 .. MaxChunk : \E buf \in [1 .. n -> Bytes] : WriteFrom(n, buf)

PollWrite ==
    /\ writer # "done"
    /\ WriteRefused \/ WritePending \/ WriteSome
    /\ UNCHANGED <<write_end_closed, read_end_closed, delivered>>

\* poll_shutdown, and Sender::drop.
CloseWriteEnd ==
    /\ ~ write_end_closed
    /\ write_end_closed' = TRUE
    /\ writer' = "done"
    /\ WakeReader
    /\ UNCHANGED <<buffer, write_cursor, read_cursor, read_end_closed, write_waker, delivered>>

\* Receiver::drop; after the end of the stream nobody is left to notice it.
CloseReadEnd ==
    /\ reader # "done"
    /\ read_end_closed' = TRUE
    /\ reader' = "done"
    /\ WakeWriter
    /\ UNCHANGED <<buffer, write_cursor, read_cursor, write_end_closed, read_waker, delivered>>

Next == PollRead \/ PollWrite \/ CloseWriteEnd \/ CloseReadEnd

Spec == Init /\ [][Next]_vars

----------------------------------------------------------------------------
(* Properties *)

\* No wakeup is lost: the reader sleeps only while there is nothing to read and
\* the writer has not closed, the writer only while the buffer is full and not
\* read to its end; so they never sleep both.  A write after the last read but
\* before the reader stored its waker would break it if polls were not atomic.
NoLostWakeup ==
    /\ reader = "waiting" =>
           read_waker /\ read_cursor = write_cursor /\ ~ write_end_closed
    /\ writer = "waiting" =>
           write_waker /\ write_cursor = BufLen /\ read_cursor < BufLen /\ ~ read_end_closed

\* assert!(read_cursor < write_cursor) and assert!(write_cursor < buffer.len()),
\* with the cursors moving back: the reader never overtakes the writer.
CursorsOrdered == read_cursor <= write_cursor

Stream == INSTANCE ByteStream WITH
    queue <- [i \in 1 .. write_cursor - read_cursor |-> buffer[read_cursor + i - 1]],
    ended <- IF ~ write_end_closed THEN "open"
             ELSE IF reader = "done" /\ ~ read_end_closed THEN "eof" ELSE "closed"

\* The channel is a FIFO of bytes, across partial reads, partial writes and the
\* reuse of the buffer; the reader sees the end only after the last byte.
ImplementsByteStream == Stream!Spec

\* Whatever was written before the writer closed is read, and then the end.
ReaderFinishes == write_end_closed ~> reader = "done"
=============================================================================
