----------------------------- MODULE CallOrder ------------------------------
(***************************************************************************)
(* E-order (capnp-rpc/schema/rpc.capnp, Disembargo): calls one vat makes   *)
(* on one reference arrive at the object behind it in the order in which   *)
(* they were made, each at most once.  A call may be lost, with its        *)
(* connection; those after it still keep their order.                      *)
(***************************************************************************)
EXTENDS Naturals, Sequences

CONSTANT Vats

VARIABLES made,      \* how many calls each vat has made, numbered from 1
          arrived    \* the numbers of its calls that have arrived, as they did

vars == <<made, arrived>>

Init == made = [v \in Vats |-> 0] /\ arrived = [v \in Vats |-> << >>]

Make(v) == made' = [made EXCEPT ![v] = @ + 1]

\* Several calls may arrive in one step, when a queue is emptied.
Extends(new, old, last) ==
    /\ Len(new) >= Len(old) /\ SubSeq(new, 1, Len(old)) = old
    /\ \A i \in Len(old) + 1 .. Len(new) :
           /\ new[i] <= last
           /\ \A j \in 1 .. i - 1 : new[j] < new[i]

Arrive == \A v \in Vats : Extends(arrived'[v], arrived[v], made'[v])

Next == (UNCHANGED made \/ \E v \in Vats : Make(v)) /\ Arrive

Spec == Init /\ [][Next]_vars
=============================================================================
