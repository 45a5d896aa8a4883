---------------------------- MODULE ExportTable ----------------------------
(***************************************************************************)
(* The id table `ExportTable<T>` of capnp-rpc/src/rpc.rs, which holds the  *)
(* questions, the exports and the embargoes of a connection.               *)
(*                                                                         *)
(*   len       slots.len(): ids 0 .. len-1 have been handed out before     *)
(*   live      the ids whose slot is Some(_)                               *)
(*   free_ids  the binary heap of reusable ids, as a multiset: the heap    *)
(*             itself would accept the same id twice                       *)
(*   pushed    the id returned by the last push                            *)
(*                                                                         *)
(* The values stored in the slots are opaque to the table and left out.    *)
(***************************************************************************)
EXTENDS Integers

CONSTANT MaxLen          \* bound on the number of slots ever in use

ASSUME MaxLenAssumption == MaxLen \in Nat

VARIABLES len, live, free_ids, pushed

vars == <<len, live, free_ids, pushed>>

Ids == 0 .. MaxLen

TypeOK ==
    /\ len \in 0 .. MaxLen
    /\ live \in SUBSET Ids
    /\ free_ids \in [Ids -> Nat]
    /\ pushed \in Ids

----------------------------------------------------------------------------
Init ==
    /\ len = 0
    /\ live = {}
    /\ free_ids = [i \in Ids |-> 0]
    /\ pushed = 0

InHeap(i) == free_ids[i] > 0

\* BinaryHeap<Reverse<u32>>: the top of the heap is the smallest id in it.
HeapTop(i) == InHeap(i) /\ \A j \in Ids : InHeap(j) => i <= j

PushReused ==
    \E i \in Ids :
        /\ HeapTop(i)
        /\ free_ids' = [free_ids EXCEPT ![i] = @ - 1]
        /\ live' = live \cup {i}
        /\ pushed' = i
        /\ UNCHANGED len

\* Mutant of PushAppended: the vector grows by two slots.
PushAppendsTwo ==
    /\ \A i \in Ids : ~ InHeap(i)
    /\ len < MaxLen
    /\ len' = len + 2
    /\ live' = live \cup {len}
    /\ pushed' = len
    /\ UNCHANGED free_ids

PushAppended ==
    /\ \A i \in Ids : ~ InHeap(i)
    /\ len < MaxLen
    /\ len' = len + 1
    /\ live' = live \cup {len}
    /\ pushed' = len
    /\ UNCHANGED free_ids

\* Mutant of Push: it appends although reusable ids exist.
PushAlwaysAppends ==
    /\ len < MaxLen
    /\ len' = len + 1
    /\ live' = live \cup {len}
    /\ pushed' = len
    /\ UNCHANGED free_ids

Push == PushReused \/ PushAppended

\* find: None for an id out of range and for an empty slot.
Find(i) == i < len /\ i \in live

\* Every caller erases an id it has just found: QuestionRef::drop, the Return
\* handler, release_export and the Disembargo handler.
Erase(i) ==
    /\ Find(i)
    /\ live' = live \ {i}
    /\ free_ids' = [free_ids EXCEPT ![i] = @ + 1]
    /\ UNCHANGED <<len, pushed>>

Next == Push \/ \E i \in Ids : Erase(i)

Spec == Init /\ [][Next]_vars

----------------------------------------------------------------------------
\* An id is either occupied or on the heap, exactly once: erase and push lose
\* no id and never queue one twice (ExportTable::erase, ExportTable::push).
SlotsPartitioned ==
    /\ \A i \in Ids : i < len => (i \in live <=> ~ InHeap(i))
    /\ \A i \in Ids : i >= len => (i \notin live /\ ~ InHeap(i))
    /\ \A i \in Ids : free_ids[i] <= 1

\* A push returns the smallest id that is not in use, however pushes and
\* erasures were interleaved before: never an occupied one, which would
\* overwrite another question or export.
PushReturnsSmallestUnused ==
    [][Push => /\ pushed' \notin live
               /\ \A j \in Ids : j < pushed' => j \in live]_vars
=============================================================================
