---------------------------- MODULE WriteQueue -----------------------------
(***************************************************************************)
(* capnp-futures/src/write_queue.rs: senders put messages into an unbounded*)
(* channel; one task writes them to the stream, flushes, and tells each    *)
(* sender.  Every await of the task is a point where others run, where the *)
(* stream may fail, and where the task may be dropped.                     *)
(***************************************************************************)
EXTENDS Integers, Sequences, SequencesExt

CONSTANTS MaxSends, MaxTerminates    \* bounds on the calls of send and terminate

ASSUME MaxSendsAssumption == MaxSends \in Nat
ASSUME MaxTerminatesAssumption == MaxTerminates \in Nat

Messages == 1 .. MaxSends                \* in the order of the calls of send
Dones == -MaxTerminates .. -1            \* Item::Done, in the order of terminate
Items == Messages \cup Dones

VARIABLES queue,       \* the channel
          senders,     \* whether a Sender handle is left
          phase,       \* of the task: "next", "writing", "flushing" or "over"
          current,     \* the item of the task, 0 when it waits for one
          in_flight,
          outcome,     \* of the future that send or terminate returned
          wire,        \* the messages written in full
          flushed,     \* how many of them are flushed
          calls, terminates,
          sent_before  \* ghost: the calls of send before each terminate

sending == <<senders, calls, terminates, sent_before>>
stream == <<wire, flushed>>
vars == <<queue, phase, current, in_flight, outcome, sending, stream>>

TypeOK ==
    /\ queue \in Seq(Items)
    /\ senders \in BOOLEAN
    /\ phase \in {"next", "writing", "flushing", "over"}
    /\ current \in Messages \cup {0}
    /\ in_flight \in -MaxSends .. MaxSends
    /\ outcome \in [Items -> {"none", "pending", "ok", "failed"}]
    /\ wire \in Seq(Messages) /\ flushed \in 0 .. Len(wire)
    /\ calls \in 0 .. MaxSends /\ terminates \in 0 .. MaxTerminates
    /\ sent_before \in [Dones -> 0 .. MaxSends]

Init ==
    /\ queue = << >>
    /\ senders = TRUE
    /\ phase = "next"
    /\ current = 0
    /\ in_flight = 0
    /\ outcome = [i \in Items |-> "none"]
    /\ wire = << >> /\ flushed = 0
    /\ calls = 0 /\ terminates = 0
    /\ sent_before = [d \in Dones |-> 0]

----------------------------------------------------------------------------
\* Mutant: an item sent to a task that is over waits in the channel.
EnqueueAlways(items) ==
    /\ queue' = queue \o items
    /\ outcome' = [i \in Items |-> IF i \in ToSet(items) THEN "pending" ELSE outcome[i]]

\* The channel refuses an item, dropping its oneshot, once the receiver is gone.
Enqueue(items) ==
    IF phase = "over"
    THEN /\ outcome' = [i \in Items |-> IF i \in ToSet(items) THEN "failed" ELSE outcome[i]]
         /\ UNCHANGED queue
    ELSE /\ outcome' = [i \in Items |-> IF i \in ToSet(items) THEN "pending" ELSE outcome[i]]
         /\ queue' = queue \o items

Send ==
    /\ senders /\ calls < MaxSends
    /\ calls' = calls + 1
    /\ Enqueue(<<calls'>>)
    /\ UNCHANGED <<senders, terminates, sent_before, phase, current, in_flight, stream>>

Terminate ==
    /\ senders /\ terminates < MaxTerminates
    /\ terminates' = terminates + 1
    /\ sent_before' = [sent_before EXCEPT ![-terminates'] = calls]
    /\ Enqueue(<<-terminates'>>)
    /\ UNCHANGED <<senders, calls, phase, current, in_flight, stream>>

DropSenders ==
    /\ senders
    /\ senders' = FALSE
    /\ UNCHANGED <<queue, phase, current, in_flight, outcome, calls, terminates, sent_before, stream>>

\* The task returns: what it holds is dropped, the item it works on and the
\* receiver with the items left in it, and with them their oneshots.
Ends(res) ==
    /\ phase' = "over"
    /\ queue' = << >>
    /\ current' = 0
    /\ outcome' = [i \in Items |->
           IF i \in ToSet(queue) \cup {current} /\ res[i] = "pending" THEN "failed" ELSE res[i]]

\* rx_stream.next() gives a message ...
TakeMessage ==
    /\ phase = "next" /\ queue # << >> /\ Head(queue) \in Messages
    /\ current' = Head(queue)
    /\ queue' = Tail(queue)
    /\ phase' = "writing"
    /\ UNCHANGED <<in_flight, outcome, sending, stream>>

\* ... or Item::Done: the finisher is answered and the task returns.
TakeDone ==
    /\ phase = "next" /\ queue # << >> /\ Head(queue) \in Dones
    /\ Ends([outcome EXCEPT ![Head(queue)] = "ok"])
    /\ UNCHANGED <<in_flight, sending, stream>>

\* ... or nothing, when every Sender is gone.
StreamEnds ==
    /\ phase = "next" /\ queue = << >> /\ ~ senders
    /\ Ends(outcome)
    /\ UNCHANGED <<in_flight, sending, stream>>

\* Mutant: the sender is told before the flush.
WriteAnswers ==
    /\ phase = "writing"
    /\ wire' = Append(wire, current)
    /\ in_flight' = in_flight - 1
    /\ outcome' = [outcome EXCEPT ![current] = "ok"]
    /\ phase' = "flushing"
    /\ UNCHANGED <<queue, current, flushed, sending>>

WriteDone ==
    /\ phase = "writing"
    /\ wire' = Append(wire, current)
    /\ in_flight' = in_flight - 1
    /\ phase' = "flushing"
    /\ UNCHANGED <<queue, current, outcome, flushed, sending>>

WriteFails ==
    /\ phase = "writing"
    /\ in_flight' = in_flight - 1
    /\ Ends(outcome)
    /\ UNCHANGED <<sending, stream>>

FlushDone ==
    /\ phase = "flushing"
    /\ flushed' = Len(wire)
    /\ outcome' = [outcome EXCEPT ![current] = "ok"]
    /\ phase' = "next"
    /\ current' = 0
    /\ UNCHANGED <<queue, in_flight, wire, sending>>

FlushFails ==
    /\ phase = "flushing"
    /\ Ends(outcome)
    /\ UNCHANGED <<in_flight, sending, stream>>

\* The future of the task is dropped at whichever await it has reached.
DropTask ==
    /\ phase # "over"
    /\ Ends(outcome)
    /\ UNCHANGED <<in_flight, sending, stream>>

Writing == TakeMessage \/ TakeDone \/ StreamEnds \/ WriteDone \/ WriteFails \/ FlushDone \/ FlushFails

Next == Send \/ Terminate \/ DropSenders \/ Writing \/ DropTask

Spec == Init /\ [][Next]_vars

\* The task is polled when it can go on, and the stream answers every request.
FairSpec == Spec /\ WF_vars(Writing)

----------------------------------------------------------------------------
(* Properties *)

\* What reaches the stream is what was sent, in the order of the calls of send,
\* nothing skipped and nothing twice.
WireInOrder == \A k \in 1 .. Len(wire) : wire[k] = k

\* "The returned future resolves once the write has completed" (write_queue.rs:101):
\* a sender that is told so can rely on the flush too.
OkMeansFlushed == \A m \in Messages : outcome[m] = "ok" => m <= flushed

\* A terminate that is answered comes after every message sent before it, which
\* are then all written and flushed: a graceful shutdown loses nothing.
TerminateDrains == \A d \in Dones : outcome[d] = "ok" => flushed >= sent_before[d]

\* What the writing task promises to those who send and to the one who shuts it
\* down, whatever fails and whenever the task is dropped: order, true answers, and
\* a terminate that drains.
WritesAsPromised == WireInOrder /\ OkMeansFlushed /\ TerminateDrains

\* No future of send or terminate waits forever, whichever way the task ends.
EveryCallSettles == \A i \in Items : outcome[i] = "pending" ~> outcome[i] # "pending"
=============================================================================
