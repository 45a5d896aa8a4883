---------------------------- MODULE MessageStream ----------------------------
(***************************************************************************)
(* From one tree to the other: a task builds messages (module              *)
(* MessageBuilder), whose scratch space it reuses, and sends them packed   *)
(* over a byte channel (module PackedStream); whoever reads them follows   *)
(* their pointers.  Or it sends messages that it was given.                *)
(***************************************************************************)
EXTENDS PackedStream, MessageBuilder

CONSTANT MaxBeforeSending   \* bound on the operations of a task that has sent or is to send

ASSUME WidthAssumption == U32 = Base ^ Half /\ MaxBeforeSending \in Nat

VARIABLES
    builds,                 \* whether the task builds its messages
    trees                   \* ghost: the trees of the messages it has sent

message_vars == <<stream_vars, builder_vars, builds, trees>>

MInit ==
    /\ SInit /\ BuilderInit
    /\ builds \in BOOLEAN
    /\ trees = << >>

\* WireValue: the bytes of a word, the first of them the lowest.
WordBytes(w) == [k \in 1 .. Word |-> (w \div Base ^ (k - 1)) % Base]

\* Mutant of WordOf: the first byte is the highest.
WordOfBigEndian(bytes) == FoldLeft(LAMBDA n, b : b + Base * n, 0, bytes)

WordOf(bytes) == FoldRight(LAMBDA b, n : b + Base * n, bytes, 0)

Written(m) == [s \in DOMAIN m |-> FlattenSeq([k \in DOMAIN m[s] |-> WordBytes(m[s][k])])]
Read(m) == [s \in DOMAIN m |-> [k \in 1 .. Len(m[s]) \div Word |-> WordOf(WordAt(m[s], k))]]

\* The builder is borrowed while it is written.
BuildMessage ==
    /\ builds /\ writer = "ready" /\ completed = Len(begun)
    /\ begun = << >> \/ operations < MaxBeforeSending
    /\ BuilderNext
    /\ UNCHANGED <<stream_vars, builds, trees>>

\* write_message of the builder's get_segments_for_output.
SendBuilt ==
    /\ builds /\ arena.segments # << >> /\ operations <= MaxBeforeSending
    /\ BeginMessage(Written(Output(arena)))
    /\ trees' = Append(trees, Tree(tree, << >>))
    /\ UNCHANGED <<builder_vars, builds>>

SendGiven ==
    /\ ~ builds
    /\ \E m \in Messages : BeginMessage(m)
    /\ UNCHANGED <<builder_vars, builds, trees>>

Transmit ==
    /\ PackedWrite \/ PackedRead \/ DropWriter \/ DropReader
    /\ UNCHANGED <<builder_vars, builds, trees>>

MNext == BuildMessage \/ SendBuilt \/ SendGiven \/ Transmit

\* The executor polls the tasks that are scheduled; a reader that has failed is dropped.
FairMSpec ==
    /\ MInit /\ [][MNext]_message_vars
    /\ WF_message_vars(writer = "ready" /\ PackedWrite /\ Transmit)
    /\ WF_message_vars(reader = "ready" /\ PackedRead /\ Transmit)
    /\ WF_message_vars(result = "error" /\ DropReader /\ Transmit)

----------------------------------------------------------------------------
(* Properties *)

MTypeOK == STypeOK /\ BuilderTypeOK /\ Len(trees) = IF builds THEN Len(begun) ELSE 0

\* The tree that is read from a message is the one that was built when it was sent,
\* whatever was built afterwards in the same memory.
TreesArrive == builds => \A k \in DOMAIN received : ReadRoot(Read(received[k])) = trees[k]
=============================================================================
