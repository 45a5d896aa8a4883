----------------------------- MODULE Reconnect ------------------------------
(***************************************************************************)
(* capnp-rpc/src/reconnect.rs: a client that calls connect again when a    *)
(* call fails with Disconnected.  Targets are numbered in the order they   *)
(* are got, by connect or by hand; a connect that fails gives a broken     *)
(* capability, whose calls fail with the same error.                       *)
(***************************************************************************)
EXTENDS Integers, Sequences

CONSTANTS Calls,        \* the calls the application makes
          MaxSets       \* bound on the uses of set_target

ASSUME MaxSetsAssumption == MaxSets \in Nat

VARIABLES
    health,             \* of each target: what its calls may end with, see below
    current,            \* ClientInner.current, 0 for None
    generation,         \* ClientInner.generation
    stage,              \* of each call
    target,             \* the target it was built on
    built, wrapped,     \* the generation when it was built, and when its promise was wrapped
    reconnectors,       \* ghost: the calls whose failure made the client reconnect
    sets,               \* how many times set_target was called
    set_by_hand         \* ghost: whether it was in the present generation

calls == <<stage, target, built, wrapped>>
reconnect_vars == <<health, current, generation, calls, reconnectors, sets, set_by_hand>>

\* The calls of a target that is up end as its methods please, with Disconnected
\* too: a callee passes on the error of a call of its own.  Those of a lost target end
\* with Disconnected, those of a broken one with another error.
Health == {"up", "lost", "broken"}
Stages == {"none", "built", "sent", "returned", "failed", "disconnected", "dropped"}

\* auto_reconnect has a target at once, lazy_auto_reconnect has none.
ReconnectInit ==
    /\ \/ health = << >> /\ current = 0
       \/ health = <<"up">> /\ current = 1
    /\ generation = 0
    /\ stage = [c \in Calls |-> "none"] /\ target = [c \in Calls |-> 0]
    /\ built = [c \in Calls |-> 0] /\ wrapped = [c \in Calls |-> 0]
    /\ reconnectors = {} /\ sets = 0 /\ set_by_hand = FALSE

\* (self.connect)(), the outcome made the current target.
Connect ==
    /\ \E h \in Health : health' = Append(health, h)
    /\ current' = Len(health) + 1

\* ClientInner::get_current: it connects on first use.
GetCurrent == IF current = 0 THEN Connect ELSE UNCHANGED <<health, current>>

\* Client::new_call: a request on the target of this moment.
NewCall(c) ==
    /\ stage[c] = "none"
    /\ GetCurrent
    /\ stage' = [stage EXCEPT ![c] = "built"]
    /\ target' = [target EXCEPT ![c] = current']
    /\ built' = [built EXCEPT ![c] = generation]
    /\ UNCHANGED <<generation, wrapped, reconnectors, sets, set_by_hand>>

\* Request::send: the promise is wrapped with the generation of this moment.
Send(c) ==
    /\ stage[c] = "built"
    /\ stage' = [stage EXCEPT ![c] = "sent"]
    /\ wrapped' = [wrapped EXCEPT ![c] = generation]
    /\ UNCHANGED <<health, current, generation, target, built, reconnectors, sets, set_by_hand>>

\* Client::call: both at once.
CallTarget(c) ==
    /\ stage[c] = "none"
    /\ GetCurrent
    /\ stage' = [stage EXCEPT ![c] = "sent"]
    /\ target' = [target EXCEPT ![c] = current']
    /\ built' = [built EXCEPT ![c] = generation]
    /\ wrapped' = [wrapped EXCEPT ![c] = generation]
    /\ UNCHANGED <<generation, reconnectors, sets, set_by_hand>>

\* Mutants of Wrap: the generation is not counted up; it is not compared; the
\* connection is left for the next call.
WrapSame(c, disconnected) ==
    IF disconnected /\ wrapped[c] = generation
    THEN /\ Connect
         /\ reconnectors' = reconnectors \cup {c}
         /\ set_by_hand' = FALSE
         /\ UNCHANGED generation
    ELSE UNCHANGED <<health, current, generation, reconnectors, set_by_hand>>
WrapAlways(c, disconnected) ==
    IF disconnected
    THEN /\ generation' = generation + 1
         /\ Connect
         /\ reconnectors' = reconnectors \cup {c}
         /\ set_by_hand' = FALSE
    ELSE UNCHANGED <<health, current, generation, reconnectors, set_by_hand>>
WrapLater(c, disconnected) ==
    IF disconnected /\ wrapped[c] = generation
    THEN /\ generation' = wrapped[c] + 1
         /\ set_by_hand' = FALSE
         /\ UNCHANGED <<health, current, reconnectors>>
    ELSE UNCHANGED <<health, current, generation, reconnectors, set_by_hand>>

\* Client::wrap, when the promise has failed.
Wrap(c, disconnected) ==
    IF disconnected /\ wrapped[c] = generation
    THEN /\ generation' = wrapped[c] + 1
         /\ Connect
         /\ reconnectors' = reconnectors \cup {c}
         /\ set_by_hand' = FALSE
    ELSE UNCHANGED <<health, current, generation, reconnectors, set_by_hand>>

\* A call ends: with results, with Disconnected, or with another error.
Return(c) ==
    /\ stage[c] = "sent" /\ health[target[c]] = "up"
    /\ stage' = [stage EXCEPT ![c] = "returned"]
    /\ UNCHANGED <<health, current, generation, target, built, wrapped, reconnectors, sets,
                   set_by_hand>>

Fail(c) ==
    /\ stage[c] = "sent" /\ health[target[c]] # "lost"
    /\ stage' = [stage EXCEPT ![c] = "failed"]
    /\ Wrap(c, FALSE)
    /\ UNCHANGED <<target, built, wrapped, sets>>

FailDisconnected(c) ==
    /\ stage[c] = "sent" /\ health[target[c]] # "broken"
    /\ stage' = [stage EXCEPT ![c] = "disconnected"]
    /\ Wrap(c, TRUE)
    /\ UNCHANGED <<target, built, wrapped, sets>>

\* The application drops a request or a promise: nobody polls what wrap has made.
DropCall(c) ==
    /\ stage[c] \in {"built", "sent"}
    /\ stage' = [stage EXCEPT ![c] = "dropped"]
    /\ UNCHANGED <<health, current, generation, target, built, wrapped, reconnectors, sets,
                   set_by_hand>>

\* The connection of a target is lost.
Lose ==
    /\ \E t \in DOMAIN health : health[t] = "up" /\ health' = [health EXCEPT ![t] = "lost"]
    /\ UNCHANGED <<current, generation, calls, reconnectors, sets, set_by_hand>>

\* Client::set_target, with a target of the application's; the generation stays.
SetTarget ==
    /\ sets < MaxSets
    /\ sets' = sets + 1
    /\ health' = Append(health, "up")
    /\ current' = Len(health) + 1
    /\ set_by_hand' = TRUE
    /\ UNCHANGED <<generation, calls, reconnectors>>

ReconnectNext ==
    \/ Lose \/ SetTarget
    \/ \E c \in Calls : \/ NewCall(c) \/ Send(c) \/ CallTarget(c) \/ Return(c) \/ Fail(c)
                        \/ FailDisconnected(c) \/ DropCall(c)

ReconnectSpec == ReconnectInit /\ [][ReconnectNext]_reconnect_vars

----------------------------------------------------------------------------
(* Properties *)

ReconnectTypeOK ==
    /\ health \in Seq(Health) /\ current \in 0 .. Len(health)
    /\ generation \in Nat /\ sets \in 0 .. MaxSets /\ set_by_hand \in BOOLEAN
    /\ stage \in [Calls -> Stages]
    /\ target \in [Calls -> 0 .. Len(health)]
    /\ built \in [Calls -> Nat] /\ wrapped \in [Calls -> Nat]
    /\ reconnectors \subseteq Calls

\* A request that was built before a reconnect, and sent after it.
Late(c) == built[c] # wrapped[c]

\* A target one of whose calls has ended with Disconnected is not the current one, nor
\* will it be: whichever of its calls reports first, and also when set_target or a late
\* request comes in between (wrap).
LostIsLeft == \A c \in Calls : stage[c] = "disconnected" => current # target[c]

\* "This should only cause the reconnector to reconnect once, not twice"
\* (reconnect_test.rs): however many calls of a target fail, in whatever order, one
\* of them reconnects, except that a late request may do so again (wrap).
OncePerLoss ==
    \A c, d \in reconnectors : c # d /\ target[c] = target[d] => Late(c) \/ Late(d)

\* The client leaves the target whose own call has ended with Disconnected, and no
\* other: an answer that arrives after a reconnect does not make it leave the target
\* it has got since.  Two exceptions are a late request, and a target set by hand in
\* the same generation (wrap, set_target).
LeavesOnlyReported ==
    [][ \A c \in reconnectors' \ reconnectors :
            ~ Late(c) /\ ~ set_by_hand => target[c] = current ]_reconnect_vars
=============================================================================
