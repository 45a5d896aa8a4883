---------------------------- MODULE SenderQueue ----------------------------
(***************************************************************************)
(* capnp-rpc/src/sender_queue.rs: values wait under increasing ids for the *)
(* consumer to drain them; each pushed value has a promise whose Remover   *)
(* takes the value out again when the promise is dropped, also after it    *)
(* has been resolved.  drain starts the ids again at 0.                    *)
(***************************************************************************)
EXTENDS Integers, Sequences, FiniteSets, Functions

CONSTANTS Values,    \* the values that are pushed, each at most once at a time
          MaxId,     \* bound on next_id
          Reused,    \* whether values are pushed after a drain
          None

ASSUME MaxIdAssumption == MaxId \in Nat
ASSUME ReusedAssumption == Reused \in BOOLEAN

VARIABLES next_id, map, alive,
          remover,     \* the id in the Remover of the value's promise, or None
          outcome,     \* of the promise: "none" when there is none
          drained,
          fifo         \* ghost: what a queue with removal would hold

vars == <<next_id, map, alive, remover, outcome, drained, fifo>>

Ids == 0 .. MaxId

TypeOK ==
    /\ next_id \in Ids
    /\ DOMAIN map \subseteq Ids /\ Range(map) \subseteq Values
    /\ alive \in BOOLEAN /\ drained \in BOOLEAN
    /\ remover \in [Values -> Ids \cup {None}]
    /\ outcome \in [Values -> {"none", "pending", "ok", "canceled"}]
    /\ fifo \in Seq(Values)

Init ==
    /\ next_id = 0
    /\ map = << >>
    /\ alive = TRUE
    /\ remover = [v \in Values |-> None]
    /\ outcome = [v \in Values |-> "none"]
    /\ drained = FALSE
    /\ fifo = << >>

----------------------------------------------------------------------------
\* Mutant: the id is not advanced.
InsertInPlace(v) ==
    /\ map' = [i \in DOMAIN map \cup {next_id} |-> IF i = next_id THEN v ELSE map[i]]
    /\ UNCHANGED next_id

Insert(v) ==
    /\ map' = [i \in DOMAIN map \cup {next_id} |-> IF i = next_id THEN v ELSE map[i]]
    /\ next_id' = next_id + 1

\* The caller still owns the value and pushes it.
Pushes(v) ==
    /\ alive /\ next_id < MaxId
    /\ drained => Reused
    /\ v \notin Range(map) /\ outcome[v] = "none"
    /\ Insert(v)
    /\ fifo' = Append(fifo, v)
    /\ UNCHANGED <<alive, drained>>

Push(v) ==
    /\ Pushes(v)
    /\ remover' = [remover EXCEPT ![v] = next_id]
    /\ outcome' = [outcome EXCEPT ![v] = "pending"]

PushDetach(v) == Pushes(v) /\ UNCHANGED <<remover, outcome>>

\* Dropping a (value, sender) pair cancels a promise that is still waiting.
Canceled(gone) ==
    [w \in Values |-> IF w \in gone /\ outcome[w] = "pending" THEN "canceled" ELSE outcome[w]]

\* drain(), and the caller's loop that answers every entry.
Drain ==
    /\ alive
    /\ next_id' = 0
    /\ outcome' = [v \in Values |->
           IF v \in Range(map) /\ outcome[v] = "pending" THEN "ok" ELSE outcome[v]]
    /\ map' = << >>
    /\ drained' = TRUE
    /\ fifo' = << >>
    /\ UNCHANGED <<alive, remover>>

\* Mutant: the oldest entry goes, not the promise's own.
RemoveOldest(v) ==
    IF alive /\ DOMAIN map # {}
    THEN map' = Restrict(map, {i \in DOMAIN map : \E j \in DOMAIN map : j < i})
    ELSE map' = map

\* Remover::drop; the Weak is dead once the queue is gone.
RemoverDrop(v) == map' = IF alive THEN Restrict(map, DOMAIN map \ {remover[v]}) ELSE map

\* A sequence without its p-th element.
Without(s, p) == SubSeq(s, 1, p - 1) \o SubSeq(s, p + 1, Len(s))

\* The promise goes away: cancelled by its owner, or polled after its outcome.
DropPromise(v) ==
    /\ outcome[v] # "none"
    /\ RemoverDrop(v)
    /\ remover' = [remover EXCEPT ![v] = None]
    /\ outcome' = [Canceled(Range(map) \ Range(map')) EXCEPT ![v] = "none"]
    /\ fifo' = IF outcome[v] = "pending" THEN Without(fifo, CHOOSE k \in DOMAIN fifo : fifo[k] = v)
               ELSE fifo
    /\ UNCHANGED <<next_id, alive, drained>>

\* The owner of the queue is dropped with the entries left in it.
DropQueue ==
    /\ alive
    /\ alive' = FALSE
    /\ map' = << >>
    /\ fifo' = << >>
    /\ outcome' = Canceled(Range(map))
    /\ UNCHANGED <<next_id, remover, drained>>

Next ==
    \/ \E v \in Values : Push(v) \/ PushDetach(v) \/ DropPromise(v)
    \/ Drain
    \/ DropQueue

Spec == Init /\ [][Next]_vars

----------------------------------------------------------------------------
(* Properties *)

\* The keys of the map, as drain's iterator visits them.
InIdOrder ==
    CHOOSE s \in Bijection(1 .. Cardinality(DOMAIN map), DOMAIN map) :
        \A i, j \in DOMAIN s : i < j => s[i] < s[j]

\* What drain() hands out is what a queue with removal would hold, in the order
\* of the pushes: queued calls are forwarded in the order they were made.
QueueIsFifo == fifo = [k \in 1 .. Len(InIdOrder) |-> map[InIdOrder[k]]]

\* "If the returned promised is dropped, then `value` is removed from the queue"
\* (sender_queue.rs:89): no other value is, so a promise fails only with its queue.
CanceledOnlyWithQueue == \A v \in Values : outcome[v] = "canceled" => ~ alive
=============================================================================
