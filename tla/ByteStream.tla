----------------------------- MODULE ByteStream -----------------------------
(***************************************************************************)
(* What a byte channel promises: the bytes come out in the order they went *)
(* in, none is lost, invented or read twice, and the end of the stream is  *)
(* reported only when everything written has been read.                    *)
(***************************************************************************)
EXTENDS Naturals, Sequences

CONSTANT Bytes

VARIABLES queue,       \* written and not yet read
          delivered,   \* the bytes of the last read
          ended        \* "open", "closed" by the writer, or "eof" seen by the reader

vars == <<queue, delivered, ended>>

Init == queue = << >> /\ delivered = << >> /\ ended = "open"

Write ==
    /\ ended = "open"
    /\ \E n \in 0 .. Len(queue') :
           /\ queue' \in Seq(Bytes)
           /\ n + Len(queue) = Len(queue')
           /\ SubSeq(queue', 1, Len(queue)) = queue
    /\ UNCHANGED <<delivered, ended>>

Read ==
    /\ \E n \in 1 .. Len(queue) :
           /\ delivered' = SubSeq(queue, 1, n)
           /\ queue' = SubSeq(queue, n + 1, Len(queue))
    /\ UNCHANGED ended

Close == ended = "open" /\ ended' = "closed" /\ UNCHANGED <<queue, delivered>>

Eof == ended = "closed" /\ queue = << >> /\ ended' = "eof" /\ UNCHANGED <<queue, delivered>>

Next == Write \/ Read \/ Close \/ Eof

Spec == Init /\ [][Next]_vars
=============================================================================
