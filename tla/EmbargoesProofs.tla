--------------------------- MODULE EmbargoesProofs --------------------------
(***************************************************************************)
(* For any number of calls, made by either vat or both, and connections    *)
(* lost at any moment: as long as promises are resolved to objects, the    *)
(* calls a vat makes on its peer's promise arrive in the order in which    *)
(* they were made, and neither vat rejects what the other sends.           *)
(*                                                                         *)
(* The invariant is EInv of EmbargoesInvariant.  Here are the steps that   *)
(* move calls (Call, HandleCall and Resolve), the step of Next, and the    *)
(* theorems.                                                               *)
(***************************************************************************)
EXTENDS EmbargoesInvariant

\* Messages are sent to the peer, while there is a connection.
WasSent(x, y, streams, ms) ==
    /\ net' \in [Vats -> Seq(Messages)] /\ net'[x] = streams[x]
    /\ conn[x] = TRUE => net'[y] = streams[y] \o ms
    /\ conn[x] = FALSE => net' = streams

\* They are by Sent.
LEMMA SentAll ==
    ASSUME NEW x \in Vats, NEW y \in Vats, Peers(x, y), NEW streams \in [Vats -> Seq(Messages)],
           NEW ms \in Seq(Messages), net' = Sent(streams, x, ms)
    PROVE  WasSent(x, y, streams, ms)
  BY SentIs, Zenon DEF WasSent

\* The numbers of calls.
LEMMA CallNumber ==
    /\ \A c \in Calls : c.n \in 1 .. MaxCalls /\ c.n \in Int /\ c.from \in Vats
    /\ \A m \in Messages : m.type = "Call" => m.call \in Calls /\ m.target \in {"promise", "object"}
  BY DEF Messages, Calls

\* What becomes of a call: it is lost, arrives, is sent or is held back.
CallOutcome(x, y, s) ==
    \/ conn[x] = FALSE /\ net' = net /\ arrived' = arrived /\ held' = held /\ received_call' = received_call
    \/ /\ net' = net /\ Leads(x) = "object" /\ conn[x] = TRUE /\ held' = held
       /\ arrived' = [u \in Vats |-> arrived[u] \o NumbersOf(s, u)]
    \/ /\ Leads(x) \in {"promise", "remote_object"} /\ conn[x] = TRUE /\ arrived' = arrived /\ held' = held
       /\ net' = Sent(net, x, CallMessages(s, IF Leads(x) = "promise" THEN "promise" ELSE "object"))
    \/ /\ Leads(x) = "embargo" /\ conn[x] = TRUE /\ arrived' = arrived /\ net' = net
       /\ held' = [held EXCEPT ![x] = held[x] \o s]

\* It is one of these, and the PromiseClient hears of it while there is a connection.
LEMMA CallOutcomes ==
    ASSUME Typed, NEW x \in Vats, NEW y \in Vats, Peers(x, y), Promise(x, y), NEW s \in Seq(Calls), s # << >>,
           Deliver(x, "promise", s, net, queue[x], held[x])
    PROVE  /\ CallOutcome(x, y, s) /\ queue' = queue
           /\ conn[x] = TRUE => received_call' = [received_call EXCEPT ![x] = TRUE]
           /\ conn[x] = FALSE => received_call' = received_call
  <1>0. Agree(x, y)
    BY DEF Promise
  <1>1. /\ net \in [Vats -> Seq(Messages)] /\ held[x] \in Seq(Calls) /\ queue[x] \in Seq(Calls)
        /\ held \in [Vats -> Seq(Calls)] /\ queue \in [Vats -> Seq(Calls)] /\ conn[x] \in BOOLEAN
    BY Types DEF Typed
  <1>2. queue = [queue EXCEPT ![x] = queue[x]] /\ held = [held EXCEPT ![x] = held[x]]
    BY <1>1
  <1>3. /\ Innermost(x, "promise") = Leads(x) /\ \E i \in 1 .. 4 : Path(x, "promise")[i] = "promise"
        /\ Lost(x, "promise") <=> Leads(x) = "broken" \/ conn[x] = FALSE
    <2>1. /\ Innermost(x, "promise") = Leads(x) /\ Path(x, "promise")[1] = "promise"
          /\ Lost(x, "promise") <=> Leads(x) = "broken" \/ conn[x] = FALSE
      BY <1>0, PathOfPromise, Zenon
    <2>2. 1 \in 1 .. 4
      OBVIOUS
    <2> QED
      BY <2>1, <2>2, Zenon
  <1>4. Leads(x) \in {"promise", "object", "remote_object", "embargo", "broken"}
    BY <1>0 DEF Leads, Agree
  <1>5. Leads(x) = "broken" => conn[x] = FALSE
    BY <1>0 DEF Leads, Agree
  <1>6. CASE conn[x] = FALSE
    <2>1. Lost(x, "promise")
      BY <1>3, <1>6
    <2>2. Loses(x, net, queue[x], held[x])
      BY <1>1, <2>1, DeliverLost, Zenon
    <2> QED
      BY <1>2, <1>6, <2>2 DEF Loses, CallOutcome
  <1>7. CASE conn[x] = TRUE
    <2>1. ~ Lost(x, "promise")
      BY <1>3, <1>5, <1>7
    <2>2. received_call' = [received_call EXCEPT ![x] = TRUE]
      BY <1>3, <2>1, DeliverHeard
    <2>3. CASE Leads(x) = "object"
      <3>1. Arrives(x, s, net, queue[x], held[x])
        BY <1>3, <2>1, <2>3, DeliverObject
      <3> QED
        BY <1>2, <1>7, <2>2, <2>3, <3>1 DEF Arrives, CallOutcome
    <2>4. CASE Leads(x) \in {"promise", "remote_object"}
      <3>1. Forwards(x, s, IF Leads(x) = "promise" THEN "promise" ELSE "object", net, queue[x], held[x])
        BY <1>3, <2>1, <2>4, DeliverRemote
      <3> QED
        BY <1>2, <1>7, <2>2, <2>4, <3>1 DEF Forwards, CallOutcome
    <2>5. CASE Leads(x) = "embargo"
      <3>1. HoldsBack(x, s, net, queue[x], held[x])
        BY <1>3, <2>1, <2>5, DeliverEmbargo
      <3> QED
        BY <1>2, <1>7, <2>2, <2>5, <3>1 DEF HoldsBack, CallOutcome
    <2> QED
      BY <1>4, <1>5, <1>7, <2>3, <2>4, <2>5, Zenon
  <1> QED
    BY <1>1, <1>6, <1>7, Zenon

\* A call goes behind those made before it, wherever they are.
LEMMA CallKeeps ==
    ASSUME Typed, NoProtocolError, NEW x \in Vats, NEW y \in Vats, Peers(x, y), Promise(x, y), Promise(y, x),
           Call(x)
    PROVE  EInv' /\ Grows(x) /\ Grows(y)
  <1>a. PICK r : r = [from |-> x, n |-> made[x] + 1]
    BY Zenon
  <1> DEFINE s == <<r>>
  <1>0. Agree(x, y) /\ Waiting(x, y) /\ Streams(x, y)
    BY DEF Promise
  <1>1. /\ x # y /\ net \in [Vats -> Seq(Messages)] /\ net[x] \in Seq(Messages) /\ net[y] \in Seq(Messages)
        /\ held \in [Vats -> Seq(Calls)] /\ held[x] \in Seq(Calls) /\ queue[y] \in Seq(Calls)
        /\ made \in [Vats -> 0 .. MaxCalls] /\ made[x] \in 0 .. MaxCalls
        /\ arrived \in [Vats -> Seq(1 .. MaxCalls)] /\ received_call \in [Vats -> BOOLEAN]
        /\ arrived[x] \in Seq(1 .. MaxCalls) /\ arrived[y] \in Seq(1 .. MaxCalls)
    BY Types DEF Typed, Peers
  <1>2. /\ made[x] < MaxCalls /\ made' = [made EXCEPT ![x] = @ + 1]
        /\ Deliver(x, "promise", s, net, queue[x], held[x])
        /\ UNCHANGED <<kind, conn, redirect, client_hook, resolve_op, is_resolved, cap, response, embargo,
                       replacement, echo, failed, panicked>>
    BY <1>a DEF Call, client_vars, embargo_vars
  <1>3. r \in Calls /\ r.from = x /\ r.n = made[x] + 1 /\ r.n \in 1 .. MaxCalls
    BY <1>a, <1>1, <1>2, BoundAssumption DEF Calls
  <1>4. /\ s \in Seq(Calls) /\ Elements(s) = {r} /\ s # << >>
        /\ Ordered(s, Earlier)
    BY <1>3, OneElement
  <1> HIDE DEF s
  <1>5. /\ made' \in [Vats -> 0 .. MaxCalls] /\ made'[x] = r.n /\ made'[y] = made[y]
        /\ \A n \in 1 .. MaxCalls : n <= made[x] => n <= made'[x] /\ n < r.n
    BY <1>1, <1>2, <1>3, BoundAssumption
  <1>6. /\ CallOutcome(x, y, s) /\ queue' = queue
        /\ conn[x] = TRUE => received_call' = [received_call EXCEPT ![x] = TRUE]
        /\ conn[x] = FALSE => received_call' = received_call
    BY <1>2, <1>4, CallOutcomes, Zenon
  <1>7. /\ \A m \in Elements(net[x]) : m \in Messages /\ ToHolder(x, y, m) /\ (IsCall(m, x) => m.call.n \in 1 .. MaxCalls)
        /\ \A m \in Elements(net[y]) : m \in Messages /\ ToOwner(x, y, m) /\ (IsCall(m, x) => m.call.n \in 1 .. MaxCalls)
    <2>1. Elements(net[x]) \subseteq Messages /\ Elements(net[y]) \subseteq Messages
      BY <1>1, ElementsIn, Zenon
    <2> QED
      BY <1>0, <2>1, CallNumber, Zenon DEF Streams, IsCall
  <1>8. /\ \A c \in Elements(queue[y]) : c \in Calls /\ c.n <= made'[x] /\ c.n < r.n
        /\ \A c \in Elements(held[x]) : c \in Calls /\ c.n <= made'[x] /\ c.n < r.n
        /\ \A a \in Elements(arrived[x]) : a <= made'[x] /\ a < r.n
    <2>1. Elements(queue[y]) \subseteq Calls /\ Elements(held[x]) \subseteq Calls /\ Elements(arrived[x]) \subseteq 1 .. MaxCalls
      BY <1>1, ElementsIn, Zenon
    <2> QED
      BY <1>0, <1>5, <2>1, CallNumber, Zenon DEF Waiting
  <1>9. AfterArrived(x, r.n) /\ AfterQueued(y, r.n)
    BY <1>8, Zenon DEF AfterArrived, AfterQueued
  <1>10. Agree(x, y)'
    <2>1. conn[x] = TRUE => received_call'[x] = TRUE
      BY <1>1, <1>6
    <2> QED
      BY <1>0, <1>2, <2>1 DEF Agree, Unsettled
  <1>11. UNCHANGED <<Settled(x), Unsettled(x), Direct(x)>>
    BY <1>2 DEF Settled, Unsettled, Direct
  <1> DEFINE Done ==
               /\ Waiting(x, y)' /\ Streams(x, y)'
               /\ net' \in [Vats -> Seq(Messages)] /\ net'[x] = net[x]
               /\ \E ms \in Seq(Messages) :
                     (\A m \in Elements(ms) : Other(y, m)) /\ (net'[y] = net[y] \/ net'[y] = net[y] \o ms)
               /\ held' \in [Vats -> Seq(Calls)] /\ held'[y] = held[y]
               /\ arrived' \in [Vats -> Seq(1 .. MaxCalls)] /\ arrived'[y] = arrived[y] /\ Grows(x)
  <1>12. net' = net => \E ms \in Seq(Messages) :
               (\A m \in Elements(ms) : Other(y, m)) /\ (net'[y] = net[y] \/ net'[y] = net[y] \o ms)
    BY NoMessages, Zenon
  <1>13. arrived' = arrived => Grows(x) /\ arrived' \in [Vats -> Seq(1 .. MaxCalls)] /\ arrived'[y] = arrived[y]
    BY <1>1, SameArrived, Zenon
  <1>14. ASSUME conn[x] = FALSE PROVE Done
    <2>1. net' = net /\ arrived' = arrived /\ held' = held
      BY <1>6, <1>14 DEF CallOutcome
    <2>2. Waiting(x, y)'
      BY <1>0, <1>2, <1>6, <1>8, <2>1, Zenon DEF Waiting, AfterArrived
    <2>3. Streams(x, y)'
      BY <1>0, <1>2, <1>5, <1>6, <1>7, <1>11, <2>1, Zenon
      DEF Streams, ToHolder, ToOwner, AfterArrived, BeforeHeld, AfterQueued
    <2> QED
      BY <1>1, <1>12, <1>13, <2>1, <2>2, <2>3, Zenon
  <1>15. ASSUME conn[x] = TRUE, Leads(x) = "object" PROVE Done
    <2>1. net' = net /\ held' = held /\ arrived' = [u \in Vats |-> arrived[u] \o NumbersOf(s, u)]
      BY <1>6, <1>15 DEF CallOutcome
    <2>2. (Settled(x) \/ Direct(x)) /\ redirect[y] = "remote_object" /\ embargo[x] \notin {"waiting", "fulfilled", "failing"}
      BY <1>0, <1>15 DEF Leads, Agree, Settled, Direct
    <2>3. queue[y] = << >> /\ held[x] = << >>
      BY <1>0, <2>2, NoneAssumption DEF Waiting, Caps
    <2>4. arrived'[x] = arrived[x] \o NumbersOf(s, x) /\ arrived'[y] = arrived[y] \o NumbersOf(s, y)
      BY <2>1
    <2>5. /\ arrived'[x] \in Seq(1 .. MaxCalls) /\ Ordered(arrived'[x], Below) /\ Grows(x)
          /\ \A a \in Elements(arrived'[x]) : a \in Elements(arrived[x]) \/ \E c \in Elements(s) : a = c.n
      <3>1. \A c \in Elements(s) : c.from = x /\ AfterArrived(x, c.n)
        BY <1>3, <1>4, <1>9, Zenon
      <3> QED
        BY <1>0, <1>4, <2>4, <3>1, Arrive, Zenon
    <2>6. arrived'[y] = arrived[y]
      <3>1. \A i \in DOMAIN s : s[i].from # y
        BY <1>1, <1>3, <1>4, Zenon DEF Elements
      <3>2. NumbersOf(s, y) = << >>
        BY <1>4, <3>1, NumbersNone
      <3> QED
        BY <1>1, <2>4, <3>2, ConcatEmpty
    <2>7. arrived' \in [Vats -> Seq(1 .. MaxCalls)]
      <3>1. arrived' = [u \in Vats |-> arrived'[u]]
        BY <2>1
      <3>2. \A u \in Vats : arrived'[u] \in Seq(1 .. MaxCalls)
        BY <1>1, <2>5, <2>6, Zenon DEF Peers
      <3> QED
        BY <3>1, <3>2, Zenon
    <2>8. \A a \in Elements(arrived'[x]) : a <= made'[x]
      <3>1. r.n <= made'[x]
        BY <1>3, <1>5
      <3> QED
        BY <1>4, <1>8, <2>5, <3>1, Zenon
    <2>9. Waiting(x, y)'
      <3>1. Elements(<< >>) = {} /\ Ordered(<< >>, Earlier)
        BY EmptyElements
      <3> QED
        BY <1>6, <2>1, <2>3, <2>5, <2>8, <3>1, Zenon DEF Waiting
    <2>10. Streams(x, y)'
      <3>1. /\ \A m \in Elements(net[x]) : ToHolder(x, y, m) /\ ~ IsCall(m, x)
            /\ \A m \in Elements(net[y]) : ToOwner(x, y, m) /\ ~ IsCall(m, x)
        BY <1>7, <2>2, Zenon DEF ToHolder, ToOwner
      <3> QED
        BY <1>0, <1>2, <1>11, <2>1, <3>1, Zenon DEF Streams, ToHolder, ToOwner
    <2> QED
      BY <1>1, <1>12, <2>1, <2>5, <2>6, <2>7, <2>9, <2>10, Zenon
  <1>16. ASSUME conn[x] = TRUE, Leads(x) \in {"promise", "remote_object"} PROVE Done
    <2>1. PICK target \in {"promise", "object"} :
              /\ net' = Sent(net, x, CallMessages(s, target)) /\ arrived' = arrived /\ held' = held
              /\ target = "object" => Leads(x) = "remote_object"
      BY <1>6, <1>16 DEF CallOutcome
    <2>2. /\ embargo[x] = "none" /\ ~ Settled(x) /\ ~ Unsettled(x) /\ ~ Direct(x) /\ echo[y] = None
          /\ target = "object" => redirect[y] = "object"
      BY <1>0, <1>16, <2>1 DEF Leads, Agree, Settled, Unsettled, Direct
    <2>3. held[x] = << >>
      BY <1>0, <2>2 DEF Waiting
    <2> DEFINE ms == CallMessages(s, target)
    <2>4. /\ ms \in Seq(Messages) /\ Ordered(ms, OwnerOrder(x))
          /\ \A m \in Elements(ms) : m.type = "Call" /\ m.target = target /\ m.call = r
      BY <1>4, CallMessagesAre, Zenon
    <2>5. net' = Sent(net, x, ms)
      BY <2>1
    <2> HIDE DEF ms
    <2>6. net' \in [Vats -> Seq(Messages)] /\ net'[x] = net[x] /\ net'[y] = net[y] \o ms
      <3>1. ms \in Seq(Messages) /\ net \in [Vats -> Seq(Messages)]
        BY <1>1, <2>4
      <3>2. WasSent(x, y, net, ms)
        BY <2>5, <3>1, SentAll, Zenon
      <3> QED
        BY <1>16, <3>2, Zenon DEF WasSent
    <2>7. \A m \in Elements(ms) : ~ IsSender(m) /\ ~ IsReceiver(m) /\ IsCall(m, x) /\ ~ IsCall(m, y) /\ Other(y, m)
      BY <1>1, <1>3, <2>4 DEF IsSender, IsReceiver, IsCall, Other
    <2>8. /\ \A m \in Elements(net[y]), w \in Elements(ms) : FrontToOwner(x, m, w)
          /\ \A m \in Elements(net[x]), w \in Elements(ms) : FrontAcross(x, m, w)
      <3>1. /\ \A m \in Elements(net[x]) : ~ IsReceiver(m) /\ (IsCall(m, x) => m.call.n < r.n)
            /\ \A m \in Elements(net[y]) : ~ IsSender(m) /\ (IsCall(m, x) => m.call.n < r.n)
        BY <1>5, <1>7, <2>2, Zenon DEF ToHolder, ToOwner
      <3> QED
        BY <2>4, <2>7, <3>1, Zenon DEF FrontToOwner, FrontAcross
    <2>9. Lined(x, net'[x], net'[y]) /\ Elements(net'[y]) \subseteq Elements(net[y]) \cup Elements(ms)
      <3>1. Lined(x, net[x], net[y])
        BY <1>0 DEF Streams
      <3>2. Lined(x, net[x], net[y] \o ms)
        BY <1>1, <2>4, <2>8, <3>1, SentToOwner, Zenon
      <3>3. Elements(net[y] \o ms) \subseteq Elements(net[y]) \cup Elements(ms)
        BY <1>1, <2>4, ConcatOf, Zenon
      <3> QED
        BY <2>6, <3>2, <3>3, Zenon
    <2>10. Waiting(x, y)'
      BY <1>0, <1>2, <1>6, <1>8, <2>1, Zenon DEF Waiting, AfterArrived
    <2>11. /\ \A m \in Elements(net[x]) : ToHolder(x, y, m)'
           /\ \A m \in Elements(net[y]) : ToOwner(x, y, m)'
      BY <1>2, <1>5, <1>6, <1>7, <1>11, <2>1, Zenon
      DEF ToHolder, ToOwner, AfterArrived, BeforeHeld, AfterQueued
    <2>12. \A m \in Elements(ms) : ToOwner(x, y, m)'
      <3>1. Elements(<< >>) = {} /\ BeforeHeld(x, r.n)'
        BY <2>1, <2>3, EmptyElements, Zenon DEF BeforeHeld
      <3>2. AfterArrived(x, r.n)' /\ AfterQueued(y, r.n)' /\ r.n <= made'[x]
        BY <1>3, <1>5, <1>6, <1>9, <2>1 DEF AfterArrived, AfterQueued
      <3> QED
        BY <1>2, <1>11, <2>2, <2>4, <2>7, <3>1, <3>2, Zenon DEF ToOwner
    <2>13. Streams(x, y)'
      BY <2>6, <2>9, <2>11, <2>12, Zenon DEF Streams
    <2> QED
      BY <1>1, <1>13, <2>1, <2>4, <2>6, <2>7, <2>10, <2>13, Zenon
  <1>17. ASSUME conn[x] = TRUE, Leads(x) = "embargo" PROVE Done
    <2>1. net' = net /\ arrived' = arrived /\ held' = [held EXCEPT ![x] = held[x] \o s]
      BY <1>6, <1>17 DEF CallOutcome
    <2>2. redirect[y] = "remote_object" /\ embargo[x] \in {"waiting", "fulfilled", "failing"}
      BY <1>0, <1>1, <1>17, Types DEF Leads, Agree, Typed
    <2>3. held[x] \o s \in Seq(Calls) /\ Elements(held[x] \o s) \subseteq Elements(held[x]) \cup {r}
      BY <1>1, <1>4, ConcatOf, Zenon
    <2>4. held' \in [Vats -> Seq(Calls)] /\ held'[x] = held[x] \o s /\ held'[y] = held[y]
      BY <1>1, <2>1, <2>3
    <2>5. Ordered(held'[x], Earlier)
      <3>1. \A c \in Elements(held[x]) : <<c, r>> \in Earlier
        BY <1>3, <1>8, CallOrders, Zenon
      <3>2. Ahead(held[x], s, Earlier)
        BY <1>4, <3>1, Zenon DEF Ahead
      <3>3. Ordered(held[x], Earlier)
        BY <1>0 DEF Waiting
      <3>4. Ordered(held[x] \o s, Earlier)
        BY <1>1, <1>4, <3>2, <3>3, ConcatOrdered, Zenon
      <3> QED
        BY <2>4, <3>4
    <2>6. r.n <= made'[x]
      BY <1>3, <1>5
    <2>7. Waiting(x, y)'
      <3>1. \A c \in Elements(held'[x]) : c.from = x /\ c.n <= made'[x] /\ AfterArrived(x, c.n)
        BY <1>0, <1>3, <1>8, <1>9, <2>3, <2>4, <2>6, Zenon DEF Waiting
      <3> QED
        BY <1>0, <1>2, <1>6, <1>8, <2>1, <2>2, <2>5, <3>1, Zenon DEF Waiting, AfterArrived
    <2>8. \A n \in 1 .. MaxCalls : n <= made[x] /\ BeforeHeld(x, n) => BeforeHeld(x, n)'
      BY <1>5, <2>3, <2>4, Zenon DEF BeforeHeld
    <2>9. Streams(x, y)'
      BY <1>0, <1>2, <1>5, <1>6, <1>7, <1>11, <2>1, <2>8, Zenon
      DEF Streams, ToHolder, ToOwner, AfterArrived, AfterQueued
    <2> QED
      BY <1>1, <1>12, <1>13, <2>1, <2>4, <2>7, <2>9, Zenon
  <1>18. Done
    BY <1>6, <1>14, <1>15, <1>16, <1>17, Zenon DEF CallOutcome
  <1>19. Promise(x, y)'
    BY <1>10, <1>18 DEF Promise
  <1>20. Promise(y, x)'
    <2>1. UNCHANGED Core(y, x) /\ received_call'[y] = received_call[y]
      BY <1>1, <1>2, <1>5, <1>6, <1>18 DEF Core, CallOutcome
    <2>2. Agree(y, x)'
      BY <1>2, <2>1, SameAgree DEF Promise
    <2>3. PICK ms \in Seq(Messages) : (\A m \in Elements(ms) : Other(y, m)) /\ (net'[y] = net[y] \/ net'[y] = net[y] \o ms)
      BY <1>18, Zenon
    <2> QED
      BY <1>18, <2>1, <2>2, <2>3, OwnerElsewhere, Zenon
  <1>21. Typed'
    <2>1. received_call' \in [Vats -> BOOLEAN]
      BY <1>1, <1>6, Types, Zenon DEF Typed
    <2> QED
      BY <1>2, <1>5, <1>6, <1>18, <2>1, Types, TypesNext, Zenon DEF Typed
  <1>22. Grows(y)
    BY <1>18, SameArrived
  <1> QED
    BY <1>2, <1>18, <1>19, <1>20, <1>21, <1>22, Kept DEF NoProtocolError

\* What a call that is read leaves as it is.
Quiet ==
    UNCHANGED <<kind, conn, redirect, client_hook, resolve_op, is_resolved, cap, response, embargo, replacement,
                echo, failed, panicked, made, received_call>>

\* A call arrives, the first of those still on their way.
LEMMA ArriveKeeps ==
    ASSUME Typed, NEW h \in Vats, NEW o \in Vats, Promise(h, o), Quiet, queue' = queue, held' = held,
           queue[o] = << >>, NEW c \in Calls, c.from = h, c.n <= made[h], AfterArrived(h, c.n), BeforeHeld(h, c.n),
           arrived'[h] = arrived[h] \o NumbersOf(<<c>>, h),
           \A w \in Elements(net'[h]) : w \in Elements(net[h]) /\ (IsCall(w, h) => c.n < w.call.n),
           \A w \in Elements(net'[o]) : w \in Elements(net[o]) /\ (IsCall(w, h) => c.n < w.call.n),
           Lined(h, net'[h], net'[o])
    PROVE  Promise(h, o)' /\ Grows(h) /\ arrived'[h] \in Seq(1 .. MaxCalls)
  <1>0. Agree(h, o) /\ Waiting(h, o) /\ Streams(h, o)
    BY DEF Promise
  <1>1. /\ kind' = kind /\ conn' = conn /\ redirect' = redirect /\ client_hook' = client_hook
        /\ resolve_op' = resolve_op /\ is_resolved' = is_resolved /\ cap' = cap /\ response' = response
        /\ embargo' = embargo /\ replacement' = replacement /\ echo' = echo /\ made' = made
        /\ received_call' = received_call
    BY DEF Quiet
  <1> DEFINE s == <<c>>
  <1>2. s \in Seq(Calls) /\ Elements(s) = {c} /\ Ordered(s, Earlier)
    BY OneElement, Zenon
  <1>3. arrived'[h] = arrived[h] \o NumbersOf(s, h)
    OBVIOUS
  <1> HIDE DEF s
  <1>4. /\ arrived'[h] \in Seq(1 .. MaxCalls) /\ Ordered(arrived'[h], Below) /\ Grows(h)
        /\ \A a \in Elements(arrived'[h]) : a \in Elements(arrived[h]) \/ \E d \in Elements(s) : a = d.n
    <2>1. \A d \in Elements(s) : d.from = h /\ AfterArrived(h, d.n)
      BY <1>2, Zenon
    <2> QED
      BY <1>0, <1>2, <1>3, <2>1, Arrive, Zenon
  <1>5. \A a \in Elements(arrived'[h]) : a \in Elements(arrived[h]) \/ a = c.n
    BY <1>2, <1>4, Zenon
  <1>6. \A n : AfterArrived(h, n) /\ c.n < n => AfterArrived(h, n)'
    BY <1>5, Zenon DEF AfterArrived
  <1>7. Agree(h, o)'
    BY <1>0, <1>1 DEF Agree, Unsettled
  <1>8. Waiting(h, o)'
    <2>1. Elements(<< >>) = {} /\ Ordered(<< >>, Earlier)
      BY EmptyElements, Zenon
    <2>2. \A d \in Elements(held[h]) : d.from = h /\ d.n <= made[h] /\ AfterArrived(h, d.n)'
      BY <1>0, <1>6, Zenon DEF Waiting, BeforeHeld
    <2>3. \A a \in Elements(arrived'[h]) : a <= made[h]
      BY <1>0, <1>5, Zenon DEF Waiting
    <2> QED
      BY <1>0, <1>1, <1>4, <2>1, <2>2, <2>3, Zenon DEF Waiting
  <1>9. UNCHANGED <<Settled(h), Unsettled(h), Direct(h)>>
    BY <1>1 DEF Settled, Unsettled, Direct
  <1>10. \A w \in Elements(net'[h]) : ToHolder(h, o, w)'
    BY <1>0, <1>1, <1>6, <1>9, Zenon DEF Streams, ToHolder, BeforeHeld
  <1>11. \A w \in Elements(net'[o]) : ToOwner(h, o, w)'
    BY <1>0, <1>1, <1>6, <1>9, Zenon DEF Streams, ToOwner, BeforeHeld, AfterQueued
  <1> QED
    BY <1>4, <1>7, <1>8, <1>10, <1>11, Zenon DEF Promise, Streams

\* No call of anyone else arrives.
LEMMA ArriveElse ==
    ASSUME Typed, NEW h \in Vats, NEW o \in Vats, Peers(h, o), NEW c \in Calls, c.from = h,
           arrived' = [u \in Vats |-> arrived[u] \o NumbersOf(<<c>>, u)], arrived'[h] \in Seq(1 .. MaxCalls)
    PROVE  arrived'[o] = arrived[o] /\ arrived' \in [Vats -> Seq(1 .. MaxCalls)]
  <1> DEFINE s == <<c>>
  <1>1. s \in Seq(Calls) /\ Elements(s) = {c}
    BY OneElement, Zenon
  <1>2. arrived' = [u \in Vats |-> arrived[u] \o NumbersOf(s, u)]
    OBVIOUS
  <1> HIDE DEF s
  <1>3. arrived[o] \in Seq(1 .. MaxCalls) /\ h # o /\ \A u \in Vats : u = h \/ u = o
    BY DEF Typed, TypeOK, Peers
  <1>4. arrived'[o] = arrived[o]
    <2>1. \A i \in DOMAIN s : s[i].from # o
      BY <1>1, <1>3, Zenon DEF Elements
    <2>2. NumbersOf(s, o) = << >>
      BY <1>1, <2>1, NumbersNone
    <2> QED
      BY <1>2, <1>3, <2>2, ConcatEmpty, Zenon
  <1>5. arrived' = [u \in Vats |-> arrived'[u]]
    BY <1>2
  <1>6. \A u \in Vats : arrived'[u] \in Seq(1 .. MaxCalls)
    BY <1>3, <1>4, Zenon
  <1> QED
    BY <1>4, <1>5, <1>6, Zenon

\* A call is queued, behind those that are.
LEMMA QueueKeeps ==
    ASSUME Typed, NEW h \in Vats, NEW o \in Vats, Promise(h, o), Quiet, arrived' = arrived, held' = held,
           redirect[o] = None, NEW c \in Calls, c.from = h, c.n <= made[h], AfterArrived(h, c.n), AfterQueued(o, c.n),
           queue'[o] = queue[o] \o <<c>>, net'[h] = net[h],
           \A w \in Elements(net'[o]) : w \in Elements(net[o]) /\ (IsCall(w, h) => c.n < w.call.n),
           Lined(h, net'[h], net'[o])
    PROVE  Promise(h, o)' /\ queue'[o] \in Seq(Calls)
  <1>0. Agree(h, o) /\ Waiting(h, o) /\ Streams(h, o) /\ queue[o] \in Seq(Calls)
    BY DEF Promise, Typed, TypeOK
  <1>1. /\ kind' = kind /\ conn' = conn /\ redirect' = redirect /\ client_hook' = client_hook
        /\ resolve_op' = resolve_op /\ is_resolved' = is_resolved /\ cap' = cap /\ response' = response
        /\ embargo' = embargo /\ replacement' = replacement /\ echo' = echo /\ made' = made
        /\ received_call' = received_call
    BY DEF Quiet
  <1> DEFINE s == <<c>>
  <1>2. s \in Seq(Calls) /\ Elements(s) = {c} /\ Ordered(s, Earlier)
    BY OneElement
  <1>3. queue'[o] = queue[o] \o s
    OBVIOUS
  <1> HIDE DEF s
  <1>4. queue[o] \o s \in Seq(Calls) /\ Elements(queue[o] \o s) \subseteq Elements(queue[o]) \cup Elements(s)
    BY <1>0, <1>2, ConcatOf, Zenon
  <1>5. queue'[o] \in Seq(Calls) /\ \A d \in Elements(queue'[o]) : d \in Elements(queue[o]) \/ d = c
    BY <1>2, <1>3, <1>4, Zenon
  <1>6. Ordered(queue'[o], Earlier)
    <2>1. Elements(queue[o]) \subseteq Calls
      BY <1>0, ElementsIn
    <2>2. Ahead(queue[o], s, Earlier)
      BY <1>2, <2>1, CallOrders, Zenon DEF Ahead, AfterQueued
    <2>3. Ordered(queue[o], Earlier)
      BY <1>0 DEF Waiting
    <2>4. Ordered(queue[o] \o s, Earlier)
      BY <1>0, <1>2, <2>2, <2>3, ConcatOrdered, Zenon
    <2> QED
      BY <1>3, <2>4, Zenon
  <1>7. Agree(h, o)'
    BY <1>0, <1>1 DEF Agree, Unsettled
  <1>8. Waiting(h, o)'
    <2>1. \A d \in Elements(queue'[o]) : d.from = h /\ d.n <= made[h] /\ AfterArrived(h, d.n)
      BY <1>0, <1>5, Zenon DEF Waiting
    <2> QED
      BY <1>0, <1>1, <1>6, <2>1, Zenon DEF Waiting, AfterArrived
  <1>9. UNCHANGED <<Settled(h), Unsettled(h), Direct(h)>>
    BY <1>1 DEF Settled, Unsettled, Direct
  <1>10. \A n : AfterQueued(o, n) /\ c.n < n => AfterQueued(o, n)'
    BY <1>5, Zenon DEF AfterQueued
  <1>11. \A w \in Elements(net'[h]) : ToHolder(h, o, w)'
    BY <1>0, <1>1, <1>9, Zenon DEF Streams, ToHolder, BeforeHeld, AfterArrived
  <1>12. \A w \in Elements(net'[o]) : ToOwner(h, o, w)'
    BY <1>0, <1>1, <1>9, <1>10, Zenon DEF Streams, ToOwner, BeforeHeld, AfterArrived
  <1> QED
    BY <1>5, <1>7, <1>8, <1>11, <1>12, Zenon DEF Promise, Streams

\* A call is sent back to the holder, where the object is.
LEMMA ForwardKeeps ==
    ASSUME Typed, NEW h \in Vats, NEW o \in Vats, Promise(h, o), Quiet, arrived' = arrived, held' = held, queue' = queue,
           redirect[o] = "remote_object", NEW m \in Messages, IsCall(m, h), ToOwner(h, o, m),
           net'[h] = net[h] \o CallMessages(<<m.call>>, "object"), net'[o] \in Seq(Messages),
           \A w \in Elements(net'[o]) : w \in Elements(net[o]) /\ FrontToOwner(h, m, w),
           \A w \in Elements(net[h]) : FrontAcross(h, w, m), Lined(h, net[h], net'[o])
    PROVE  Promise(h, o)'
  <1>0. /\ Agree(h, o) /\ Waiting(h, o) /\ Streams(h, o) /\ net[h] \in Seq(Messages)
        /\ m.call \in Calls /\ m.call.from = h
    BY CallNumber DEF Promise, Typed, IsCall
  <1>1. /\ kind' = kind /\ conn' = conn /\ redirect' = redirect /\ client_hook' = client_hook
        /\ resolve_op' = resolve_op /\ is_resolved' = is_resolved /\ cap' = cap /\ response' = response
        /\ embargo' = embargo /\ replacement' = replacement /\ echo' = echo /\ made' = made
        /\ received_call' = received_call
    BY DEF Quiet
  <1> DEFINE ms == CallMessages(<<m.call>>, "object")
  <1>2. /\ ms \in Seq(Messages) /\ Ordered(ms, HolderOrder(h))
        /\ \A w \in Elements(ms) : w.type = "Call" /\ w.target = "object" /\ w.call = m.call
    <2> DEFINE s == <<m.call>>
    <2>1. s \in Seq(Calls) /\ Elements(s) = {m.call} /\ Ordered(s, Earlier)
      BY <1>0, OneElement, Zenon
    <2> HIDE DEF s
    <2>2. /\ CallMessages(s, "object") \in Seq(Messages) /\ Ordered(CallMessages(s, "object"), HolderOrder(h))
          /\ \A w \in Elements(CallMessages(s, "object")) : w.type = "Call" /\ w.target = "object" /\ w.call \in Elements(s)
      BY <2>1, CallMessagesAre
    <2> QED
      BY <2>1, <2>2 DEF s
  <1>3. net'[h] = net[h] \o ms
    OBVIOUS
  <1> HIDE DEF ms
  <1>4. \A w \in Elements(ms) : IsCall(w, h) /\ ~ IsReceiver(w) /\ ~ IsSender(w) /\ w.type # "Resolve" /\ w.type # "Return"
    BY <1>0, <1>2 DEF IsCall, IsReceiver, IsSender
  <1>5. Lined(h, net'[h], net'[o]) /\ Elements(net'[h]) \subseteq Elements(net[h]) \cup Elements(ms)
    <2>1. \A w \in Elements(net[h]), v \in Elements(ms) : FrontToHolder(h, w, v)
      BY <1>2, <1>4, Zenon DEF FrontToHolder, FrontAcross
    <2>2. \A v \in Elements(ms), w \in Elements(net'[o]) : FrontAcross(h, v, w)
      BY <1>2, <1>4, Zenon DEF FrontToOwner, FrontAcross
    <2>3. Lined(h, net[h] \o ms, net'[o])
      BY <1>0, <1>2, <2>1, <2>2, SentToHolder, Zenon
    <2>4. Elements(net[h] \o ms) \subseteq Elements(net[h]) \cup Elements(ms)
      BY <1>0, <1>2, ConcatOf, Zenon
    <2> QED
      BY <1>3, <2>3, <2>4, Zenon
  <1>6. Agree(h, o)'
    BY <1>0, <1>1 DEF Agree, Unsettled
  <1>7. Waiting(h, o)'
    BY <1>0, <1>1, Zenon DEF Waiting, AfterArrived
  <1>8. UNCHANGED <<Settled(h), Unsettled(h), Direct(h)>>
    BY <1>1 DEF Settled, Unsettled, Direct
  <1>9. \A w \in Elements(net'[h]) : ToHolder(h, o, w)'
    <2>1. \A w \in Elements(net[h]) : ToHolder(h, o, w)'
      BY <1>0, <1>1, <1>8, Zenon DEF Streams, ToHolder, BeforeHeld, AfterArrived
    <2>2. \A w \in Elements(ms) : ToHolder(h, o, w)'
      BY <1>1, <1>2, <1>4, <1>8, Zenon DEF ToOwner, ToHolder, BeforeHeld, AfterArrived
    <2> QED
      BY <1>5, <2>1, <2>2, Zenon
  <1>10. \A w \in Elements(net'[o]) : ToOwner(h, o, w)'
    BY <1>0, <1>1, <1>8, Zenon DEF Streams, ToOwner, BeforeHeld, AfterArrived, AfterQueued
  <1> QED
    BY <1>5, <1>6, <1>7, <1>9, <1>10, Zenon DEF Promise, Streams

\* A call is read: it arrives when it has reached the object, waits in the queue
\* of a promise that is not resolved, or is sent back to where it came from.
LEMMA HandleCallKeeps ==
    ASSUME Typed, NoProtocolError, NEW x \in Vats, NEW y \in Vats, Peers(x, y), Promise(x, y), Promise(y, x),
           HandleCall(x)
    PROVE  EInv' /\ Grows(x) /\ Grows(y)
  <1>0. /\ Agree(x, y) /\ Waiting(x, y) /\ Streams(x, y) /\ Agree(y, x) /\ Waiting(y, x) /\ Streams(y, x)
    BY DEF Promise
  <1>1. /\ x # y /\ net \in [Vats -> Seq(Messages)] /\ net[x] \in Seq(Messages) /\ net[y] \in Seq(Messages)
        /\ held \in [Vats -> Seq(Calls)] /\ held[x] \in Seq(Calls) /\ queue[x] \in Seq(Calls)
        /\ queue \in [Vats -> Seq(Calls)] /\ arrived \in [Vats -> Seq(1 .. MaxCalls)]
    BY Types DEF Typed, Peers
  <1>2. PICK m : m = Head(net[x])
    OBVIOUS
  <1>3. PICK streams : streams = Rest(x)
    OBVIOUS
  <1>4. PICK to : to = IF m.target = "object" THEN "object" ELSE client_hook[x]
    OBVIOUS
  <1> DEFINE s == <<m.call>>
  <1>5. /\ net[x] # << >> /\ conn[x] = TRUE /\ m.type = "Call"
        /\ Deliver(x, to, s, streams, queue[x], held[x])
        /\ UNCHANGED <<kind, conn, redirect, client_hook, resolve_op, is_resolved, cap, response, embargo,
                       replacement, echo, failed, panicked, made>>
    BY <1>2, <1>3, <1>4, Types DEF HandleCall, Receives, client_vars, embargo_vars, Typed
  <1>6. streams \in [Vats -> Seq(Messages)] /\ streams[x] = Tail(net[x]) /\ streams[y] = net[y]
    BY <1>1, <1>3, <1>5, RestReads DEF Reads
  <1>7. /\ m \in Elements(net[x]) /\ m \in Messages /\ Elements(streams[x]) \subseteq Elements(net[x])
        /\ Lined(x, streams[x], net[y]) /\ Lined(y, net[y], streams[x])
        /\ \A w \in Elements(streams[x]) : FrontToHolder(x, m, w) /\ FrontToOwner(y, m, w)
        /\ \A w \in Elements(net[y]) : FrontAcross(x, m, w) /\ FrontAcross(y, w, m)
    <2>1. Lined(x, net[x], net[y]) /\ Lined(y, net[y], net[x])
      BY <1>0 DEF Streams
    <2>2. /\ Lined(x, Tail(net[x]), net[y]) /\ Elements(Tail(net[x])) \subseteq Elements(net[x])
          /\ m \in Elements(net[x]) /\ m \in Messages
          /\ \A w \in Elements(Tail(net[x])) : FrontToHolder(x, m, w)
          /\ \A w \in Elements(net[y]) : FrontAcross(x, m, w)
      BY <1>1, <1>2, <1>5, <2>1, HolderReads, Zenon
    <2>3. /\ Lined(y, net[y], Tail(net[x])) /\ \A w \in Elements(Tail(net[x])) : FrontToOwner(y, m, w)
          /\ \A w \in Elements(net[y]) : FrontAcross(y, w, m)
      BY <1>1, <1>2, <1>5, <2>1, OwnerReads, Zenon
    <2> QED
      BY <1>6, <2>2, <2>3, Zenon
  <1>8. m.call \in Calls /\ m.call.from \in {x, y} /\ m.target \in {"promise", "object"}
    BY <1>5, <1>7, CallNumber, Zenon DEF Peers
  <1>9. IsCall(m, m.call.from)
    BY <1>5 DEF IsCall
  <1>10. queue = [queue EXCEPT ![x] = queue[x]] /\ held = [held EXCEPT ![x] = held[x]]
    BY <1>1
  <1> DEFINE Done == /\ Promise(x, y)' /\ Promise(y, x)' /\ Quiet /\ net' \in [Vats -> Seq(Messages)]
                     /\ queue' \in [Vats -> Seq(Calls)] /\ held' = held
                     /\ arrived' \in [Vats -> Seq(1 .. MaxCalls)] /\ Grows(x) /\ Grows(y)
  <1>11. /\ IsCall(m, x) => ToHolder(x, y, m) /\ m.target = "object" /\ redirect[y] = "remote_object"
         /\ IsCall(m, y) => ToOwner(y, x, m) /\ (m.target = "object" => redirect[x] = "object")
    BY <1>0, <1>7, Zenon DEF Streams, ToHolder, ToOwner
  <1>12. ASSUME Innermost(x, to) = "object", \A i \in 1 .. 4 : Path(x, to)[i] \in {"own", "object"},
                NEW h \in {x, y}, NEW o \in {x, y}, Peers(h, o), IsCall(m, h)
         PROVE  /\ Quiet /\ net' = streams /\ queue' = queue /\ held' = held /\ m.call.from = h
                /\ arrived'[h] = arrived[h] \o NumbersOf(<<m.call>>, h)
                /\ arrived'[h] \in Seq(1 .. MaxCalls) =>
                      arrived'[o] = arrived[o] /\ arrived' \in [Vats -> Seq(1 .. MaxCalls)]
    <2>1. ~ Lost(x, to) /\ \A i \in 1 .. 4 : Path(x, to)[i] # "promise"
      BY <1>12 DEF Lost, Remote
    <2>2. received_call' = received_call
      BY <1>5, <2>1, DeliverHeard
    <2> HIDE DEF s
    <2>3. Arrives(x, s, streams, queue[x], held[x])
      BY <1>5, <1>12, <2>1, DeliverObject
    <2>4. /\ Quiet /\ net' = streams /\ queue' = queue /\ held' = held /\ m.call.from = h
          /\ arrived' = [u \in Vats |-> arrived[u] \o NumbersOf(s, u)]
      BY <1>5, <1>10, <1>12, <2>2, <2>3 DEF Arrives, Quiet, IsCall
    <2>5. arrived'[h] = arrived[h] \o NumbersOf(s, h)
      BY <2>4
    <2>6. arrived' = [u \in Vats |-> arrived[u] \o NumbersOf(<<m.call>>, u)]
      BY <2>4 DEF s
    <2>7. arrived'[h] \in Seq(1 .. MaxCalls) => arrived'[o] = arrived[o] /\ arrived' \in [Vats -> Seq(1 .. MaxCalls)]
      <3>1. h \in Vats /\ o \in Vats /\ Peers(h, o) /\ m.call \in Calls /\ m.call.from = h
        BY <1>8, <1>12, <2>4 DEF Peers
      <3> QED
        BY <2>6, <3>1, ArriveElse, Zenon
    <2> QED
      BY <2>4, <2>5, <2>7, Zenon DEF s
  <1>13. ASSUME IsCall(m, x) PROVE Done
    <2>1. to = "object" /\ redirect[y] # None
      BY <1>4, <1>11, <1>13, NoneAssumption DEF Caps
    <2>2. Innermost(x, to) = "object" /\ \A i \in 1 .. 4 : Path(x, to)[i] \in {"own", "object"}
      BY <2>1, PathOfObject
    <2>3. /\ Quiet /\ net' = streams /\ queue' = queue /\ held' = held /\ m.call.from = x
          /\ arrived'[x] = arrived[x] \o NumbersOf(<<m.call>>, x)
          /\ arrived'[x] \in Seq(1 .. MaxCalls) => arrived'[y] = arrived[y] /\ arrived' \in [Vats -> Seq(1 .. MaxCalls)]
      BY <1>12, <1>13, <2>2, Zenon
    <2>4. queue[y] = << >> /\ m.call.n <= made[x] /\ AfterArrived(x, m.call.n) /\ BeforeHeld(x, m.call.n)
      BY <1>0, <1>11, <1>13, <2>1, Zenon DEF ToHolder, Waiting
    <2>5. /\ \A w \in Elements(net'[x]) : w \in Elements(net[x]) /\ (IsCall(w, x) => m.call.n < w.call.n)
          /\ \A w \in Elements(net'[y]) : w \in Elements(net[y]) /\ (IsCall(w, x) => m.call.n < w.call.n)
      BY <1>6, <1>7, <1>13, <2>3, Zenon DEF FrontToHolder, FrontAcross
    <2>6. Lined(x, net'[x], net'[y])
      BY <1>6, <1>7, <2>3, Zenon
    <2>7. Promise(x, y)' /\ Grows(x) /\ arrived'[x] \in Seq(1 .. MaxCalls)
      BY <1>8, <2>3, <2>4, <2>5, <2>6, ArriveKeeps, Zenon
    <2>8. Promise(y, x)'
      <3>1. UNCHANGED Core(y, x)
        BY <2>3, <2>7 DEF Core, Quiet
      <3>2. Agree(y, x)'
        BY <1>0, <2>3, <3>1, SameAgree DEF Quiet
      <3> QED
        BY <1>5, <1>6, <2>3, <3>1, <3>2, NoMessages, OwnerElsewhere, Zenon
    <2> QED
      BY <1>1, <1>6, <2>3, <2>7, <2>8, SameArrived
  <1>14. ASSUME IsCall(m, y) /\ redirect[x] = "object" PROVE Done
    <2>1. redirect[x] # None
      BY <1>14, NoneAssumption DEF Caps
    <2>2. Innermost(x, to) = "object" /\ \A i \in 1 .. 4 : Path(x, to)[i] \in {"own", "object"}
      BY <1>0, <1>4, <1>14, <2>1, HookLeads, PathOfObject
    <2>3. Peers(y, x)
      BY DEF Peers
    <2>4. /\ Quiet /\ net' = streams /\ queue' = queue /\ held' = held /\ m.call.from = y
          /\ arrived'[y] = arrived[y] \o NumbersOf(<<m.call>>, y)
          /\ arrived'[y] \in Seq(1 .. MaxCalls) => arrived'[x] = arrived[x] /\ arrived' \in [Vats -> Seq(1 .. MaxCalls)]
      BY <1>12, <1>14, <2>2, <2>3, Zenon
    <2>5. queue[x] = << >> /\ m.call.n <= made[y] /\ AfterArrived(y, m.call.n) /\ BeforeHeld(y, m.call.n)
      BY <1>0, <1>11, <1>14, <2>1, Zenon DEF ToOwner, Waiting
    <2>6. \A w \in Elements(net[y]) : ~ IsCall(w, y)
      <3>1. redirect[x] # "remote_object"
        BY <1>14
      <3> QED
        BY <1>0, <3>1, Zenon DEF Streams, ToHolder
    <2>7. /\ \A w \in Elements(net'[x]) : w \in Elements(net[x]) /\ (IsCall(w, y) => m.call.n < w.call.n)
          /\ \A w \in Elements(net'[y]) : w \in Elements(net[y]) /\ (IsCall(w, y) => m.call.n < w.call.n)
      BY <1>6, <1>7, <1>14, <2>4, <2>6, Zenon DEF FrontToOwner
    <2>8. Lined(y, net'[y], net'[x])
      BY <1>6, <1>7, <2>4, Zenon
    <2>9. Promise(y, x)' /\ Grows(y) /\ arrived'[y] \in Seq(1 .. MaxCalls)
      BY <1>8, <2>4, <2>5, <2>7, <2>8, ArriveKeeps, Zenon
    <2>10. Promise(x, y)'
      <3>1. UNCHANGED Core(x, y)
        BY <2>4, <2>9 DEF Core, Quiet
      <3>2. Agree(x, y)'
        BY <1>0, <2>4, <3>1, SameAgree DEF Quiet
      <3> QED
        BY <1>5, <1>6, <2>4, <3>1, <3>2, NoMessages, HolderElsewhere, Zenon
    <2> QED
      BY <1>1, <1>6, <2>4, <2>9, <2>10, SameArrived
  <1>15. arrived' = arrived => Grows(x) /\ Grows(y)
    BY SameArrived
  <1>16. ASSUME IsCall(m, y) /\ redirect[x] = None PROVE Done
    <2>1. to = "own" /\ m.call.from = y
      BY <1>0, <1>4, <1>8, <1>11, <1>16, NoneAssumption DEF Agree, IsCall, Caps
    <2>2. Innermost(x, to) = "own" /\ \A i \in 1 .. 4 : Path(x, to)[i] = "own"
      <3>1. redirect[x] \in {None, "object", "remote_object"}
        BY <1>16
      <3>2. Innermost(x, "own") = "own" /\ \A i \in 1 .. 4 : Path(x, "own")[i] = "own"
        BY <1>16, <3>1, PathOfOwn
      <3> QED
        BY <2>1, <3>2, Zenon
    <2>3. ~ Lost(x, to) /\ \A i \in 1 .. 4 : Path(x, to)[i] # "promise"
      BY <2>2 DEF Lost, Remote
    <2>4. received_call' = received_call
      BY <1>5, <2>3, DeliverHeard
    <2>5. Queues(x, s, streams, queue[x], held[x])
      <3> HIDE DEF s
      <3> QED
        BY <1>5, <2>2, <2>3, DeliverOwn
    <2>6. /\ Quiet /\ net' = streams /\ held' = held /\ arrived' = arrived /\ queue' = [queue EXCEPT ![x] = queue[x] \o s]
      BY <1>5, <1>10, <2>4, <2>5 DEF Queues, Quiet
    <2>7. queue'[x] = queue[x] \o <<m.call>> /\ queue'[y] = queue[y]
      BY <1>1, <2>6
    <2>8. m.call.n <= made[y] /\ AfterArrived(y, m.call.n) /\ AfterQueued(x, m.call.n)
      BY <1>11, <1>16, Zenon DEF ToOwner
    <2>9. \A w \in Elements(net'[x]) : w \in Elements(net[x]) /\ (IsCall(w, y) => m.call.n < w.call.n)
      BY <1>6, <1>7, <1>16, <2>6, Zenon DEF FrontToOwner
    <2>10. Lined(y, net'[y], net'[x]) /\ net'[y] = net[y]
      BY <1>6, <1>7, <2>6, Zenon
    <2>11. Promise(y, x)' /\ queue'[x] \in Seq(Calls)
      BY <1>8, <1>16, <2>1, <2>6, <2>7, <2>8, <2>9, <2>10, QueueKeeps, Zenon
    <2>12. queue' \in [Vats -> Seq(Calls)]
      BY <1>1, <2>6, <2>7, <2>11
    <2>13. Promise(x, y)'
      <3>1. UNCHANGED Core(x, y)
        BY <2>6, <2>7 DEF Core, Quiet
      <3>2. Agree(x, y)'
        BY <1>0, <2>6, <3>1, SameAgree DEF Quiet
      <3> QED
        BY <1>5, <1>6, <2>6, <3>1, <3>2, NoMessages, HolderElsewhere, Zenon
    <2> QED
      BY <1>1, <1>6, <1>15, <2>6, <2>11, <2>12, <2>13
  <1>17. ASSUME IsCall(m, y) /\ redirect[x] = "remote_object" PROVE Done
    <2>1. redirect[x] # None /\ to = client_hook[x] /\ m.call.from = y
      BY <1>4, <1>11, <1>17, NoneAssumption DEF Caps, IsCall
    <2>2. Innermost(x, to) = "remote_object" /\ \A i \in 1 .. 4 : Path(x, to)[i] \in {"own", "remote_object"}
      BY <1>0, <1>17, <2>1, HookLeads
    <2>3. ~ Lost(x, to) /\ \A i \in 1 .. 4 : Path(x, to)[i] # "promise"
      BY <1>5, <2>2 DEF Lost, Remote
    <2>4. received_call' = received_call
      BY <1>5, <2>3, DeliverHeard
    <2>5. Forwards(x, s, "object", streams, queue[x], held[x])
      <3> HIDE DEF s
      <3>1. Forwards(x, s, IF "remote_object" = "promise" THEN "promise" ELSE "object", streams, queue[x], held[x])
        BY <1>5, <2>2, <2>3, DeliverRemote
      <3> QED
        BY <3>1
    <2> DEFINE ms == CallMessages(s, "object")
    <2>6. /\ Quiet /\ held' = held /\ arrived' = arrived /\ queue' = queue /\ net' = Sent(streams, x, ms)
      BY <1>5, <1>10, <2>4, <2>5 DEF Forwards, Quiet
    <2>7. /\ ms \in Seq(Messages) /\ \A w \in Elements(ms) : w.type = "Call" /\ w.call = m.call
      <3>1. s \in Seq(Calls) /\ Elements(s) = {m.call}
        BY <1>8, OneElement
      <3> HIDE DEF s
      <3>2. /\ CallMessages(s, "object") \in Seq(Messages)
            /\ \A w \in Elements(CallMessages(s, "object")) : w.type = "Call" /\ w.call \in Elements(s)
        BY <3>1, CallMessagesAre
      <3> QED
        BY <3>1, <3>2
    <2>8. \A w \in Elements(ms) : OtherOwned(x, w)
      <3> HIDE DEF ms
      <3> QED
        BY <1>1, <2>1, <2>7 DEF OtherOwned, IsCall, IsSender
    <2>9. net' \in [Vats -> Seq(Messages)] /\ net'[x] = streams[x] /\ (conn[x] = TRUE => net'[y] = streams[y] \o ms)
      <3> HIDE DEF ms
      <3>1. streams \in [Vats -> Seq(Messages)] /\ ms \in Seq(Messages) /\ net' = Sent(streams, x, ms)
        BY <1>6, <2>6, <2>7
      <3>2. WasSent(x, y, streams, ms)
        BY <3>1, SentAll, Zenon
      <3> QED
        BY <3>2, Zenon DEF WasSent
    <2>10. net'[x] = Tail(net[x]) /\ net'[y] = net[y] \o ms
      BY <1>5, <1>6, <2>9, Zenon
    <2>11. net'[x] \in Seq(Messages) /\ Lined(y, net[y], net'[x])
      BY <1>6, <1>7, <2>9, Zenon
    <2>12. Promise(y, x)'
      <3>1. \A w \in Elements(net'[x]) : w \in Elements(net[x]) /\ FrontToOwner(y, m, w)
        BY <1>6, <1>7, <2>10, Zenon
      <3>2. \A w \in Elements(net[y]) : FrontAcross(y, w, m)
        BY <1>7
      <3> QED
        BY <1>7, <1>11, <1>17, <2>6, <2>10, <2>11, <3>1, <3>2, ForwardKeeps, Zenon
    <2>13. Promise(x, y)'
      <3>1. UNCHANGED Core(x, y)
        BY <2>6 DEF Core, Quiet
      <3>2. Agree(x, y)'
        BY <1>0, <2>6, <3>1, SameAgree DEF Quiet
      <3> HIDE DEF ms
      <3> QED
        BY <1>5, <2>7, <2>8, <2>10, <3>1, <3>2, HolderElsewhere, Zenon
    <2> QED
      BY <1>1, <1>15, <2>6, <2>9, <2>12, <2>13, Zenon
  <1>18. Done
    BY <1>0, <1>8, <1>9, <1>13, <1>14, <1>16, <1>17 DEF Agree
  <1>19. Typed'
    BY <1>1, <1>18, Types, TypesNext, Zenon DEF Typed, Quiet
  <1> QED
    BY <1>18, <1>19, Kept DEF NoProtocolError, Quiet

\* What the owner sends when it resolves its promise: a Return, unless the
\* promise is an export, and behind it the calls s that have waited.
ResolveSent(x, y, c, s, r, streams) ==
    /\ streams[x] = net[x]
    /\ streams[y] = net[y] \/ (streams[y] = net[y] \o <<r>> /\ kind[x] = "answer")
    /\ Deliver(x, c, s, streams, << >>, held[x])
ResolveOutcome(x, y, c, s, streams) ==
    /\ queue' = [queue EXCEPT ![x] = << >>] /\ held' = held /\ received_call' = received_call
    /\ net' \in [Vats -> Seq(Messages)] /\ net'[x] = streams[x]
    /\ \/ net'[y] = streams[y]
       \/ c = "remote_object" /\ net'[y] = streams[y] \o CallMessages(s, "object")
    /\ \/ arrived' = arrived
       \/ /\ c = "object" /\ arrived' = [u \in Vats |-> arrived'[u]]
          /\ arrived'[x] = arrived[x] /\ arrived'[y] = arrived[y] \o NumbersOf(s, y)

\* The Return.
LEMMA ResolveSends ==
    ASSUME Typed, NEW x \in Vats, NEW y \in Vats, Peers(x, y), NEW c \in {"object", "remote_object"}, Resolve(x, c),
           NEW r, r = [type |-> "Return", cap |-> DescriptorOf(c)], NEW s, s = queue[x]
    PROVE  \E streams \in [Vats -> Seq(Messages)] : ResolveSent(x, y, c, s, r, streams)
  <1>1. Innermost(x, c) = c
    BY PathOfObject
  <1>2. Descriptor(x, c) = DescriptorOf(c)
    BY <1>1 DEF Descriptor, DescriptorOf
  <1>3. r \in Messages /\ net \in [Vats -> Seq(Messages)] /\ kind[x] \in {"export", "answer"}
    BY DEF Messages, DescriptorOf, Typed
  <1>4. PICK streams : streams = IF kind[x] = "export" THEN net ELSE Sent(net, x, <<r>>)
    OBVIOUS
  <1>5. Deliver(x, c, s, streams, << >>, held[x])
    BY <1>2, <1>4 DEF Resolve
  <1>6. CASE kind[x] = "export"
    BY <1>3, <1>4, <1>5, <1>6 DEF ResolveSent
  <1>7. CASE kind[x] = "answer"
    <2> DEFINE ms == <<r>>
    <2>1. ms \in Seq(Messages) /\ streams = Sent(net, x, ms)
      BY <1>3, <1>4, <1>7
    <2> HIDE DEF ms
    <2>2. /\ Sent(net, x, ms) \in [Vats -> Seq(Messages)] /\ Sent(net, x, ms)[x] = net[x]
          /\ Sent(net, x, ms)[y] = net[y] \/ Sent(net, x, ms)[y] = net[y] \o ms
      BY <1>3, <2>1, SentIs, Zenon
    <2>3. /\ streams \in [Vats -> Seq(Messages)] /\ streams[x] = net[x]
          /\ streams[y] = net[y] \/ streams[y] = net[y] \o <<r>>
      BY <2>1, <2>2, Zenon DEF ms
    <2> QED
      BY <1>5, <1>7, <2>3, Zenon DEF ResolveSent
  <1> QED
    BY <1>3, <1>6, <1>7

\* The calls that have waited arrive, are sent to the holder or are lost.
LEMMA ResolveOutcomes ==
    ASSUME Typed, NEW x \in Vats, NEW y \in Vats, Peers(x, y), NEW c \in {"object", "remote_object"},
           NEW s \in Seq(Calls), \A d \in Elements(s) : d.from = y,
           NEW streams \in [Vats -> Seq(Messages)], Deliver(x, c, s, streams, << >>, held[x])
    PROVE  ResolveOutcome(x, y, c, s, streams)
  <1>1. /\ x # y /\ held \in [Vats -> Seq(Calls)] /\ held[x] \in Seq(Calls) /\ << >> \in Seq(Calls)
        /\ conn[x] \in BOOLEAN /\ arrived[x] \in Seq(1 .. MaxCalls)
    BY Types DEF Typed, Peers
  <1>2. held = [held EXCEPT ![x] = held[x]]
    BY <1>1
  <1>3. Innermost(x, c) = c /\ \A i \in 1 .. 4 : Path(x, c)[i] = c
    BY PathOfObject
  <1>4. Lost(x, c) <=> c = "remote_object" /\ conn[x] = FALSE
    BY <1>1, <1>3 DEF Lost, Remote
  <1>5. ~ Lost(x, c) => received_call' = received_call
    BY <1>3, DeliverHeard
  <1>6. CASE Lost(x, c)
    <2>1. Loses(x, streams, << >>, held[x])
      BY <1>1, <1>6, DeliverLost, Zenon
    <2> QED
      BY <1>2, <2>1 DEF Loses, ResolveOutcome
  <1>7. CASE ~ Lost(x, c) /\ c = "object"
    <2>1. Arrives(x, s, streams, << >>, held[x])
      BY <1>3, <1>7, DeliverObject
    <2>2. \A i \in DOMAIN s : s[i].from # x
      BY <1>1, Zenon DEF Elements
    <2>3. NumbersOf(s, x) = << >>
      BY <2>2, NumbersNone
    <2>4. arrived' = [u \in Vats |-> arrived[u] \o NumbersOf(s, u)]
      BY <2>1 DEF Arrives
    <2>5. arrived'[x] = arrived[x] \o << >> /\ arrived'[y] = arrived[y] \o NumbersOf(s, y)
      BY <2>3, <2>4, Zenon
    <2>6. arrived'[x] = arrived[x]
      BY <1>1, <2>5, ConcatEmpty
    <2> QED
      BY <1>2, <1>5, <1>7, <2>1, <2>4, <2>5, <2>6 DEF Arrives, ResolveOutcome
  <1>8. CASE ~ Lost(x, c) /\ c = "remote_object"
    <2>1. Forwards(x, s, IF c = "promise" THEN "promise" ELSE "object", streams, << >>, held[x])
      BY <1>3, <1>8, DeliverRemote
    <2> DEFINE ms == CallMessages(s, "object")
    <2>2. ms \in Seq(Messages)
      BY CallMessagesAre
    <2>3. net' = Sent(streams, x, ms)
      BY <1>8, <2>1 DEF Forwards
    <2> HIDE DEF ms
    <2>4. net' \in [Vats -> Seq(Messages)] /\ net'[x] = streams[x] /\ (conn[x] = TRUE => net'[y] = streams[y] \o ms)
      <3>1. streams \in [Vats -> Seq(Messages)] /\ ms \in Seq(Messages) /\ net' = Sent(streams, x, ms)
        BY <2>2, <2>3
      <3>2. WasSent(x, y, streams, ms)
        BY <3>1, SentAll, Zenon
      <3> QED
        BY <3>2, Zenon DEF WasSent
    <2> QED
      BY <1>1, <1>2, <1>4, <1>5, <1>8, <2>1, <2>4 DEF Forwards, ms, ResolveOutcome
  <1> QED
    BY <1>6, <1>7, <1>8

\* A promise is resolved: the calls that have waited go before any other.
LEMMA ResolveKeeps ==
    ASSUME Typed, NoProtocolError, NEW x \in Vats, NEW y \in Vats, Peers(x, y), Promise(x, y), Promise(y, x),
           NEW c \in {"object", "remote_object"}, Resolve(x, c)
    PROVE  EInv' /\ Grows(x) /\ Grows(y)
  <1>0. /\ Agree(x, y) /\ Waiting(x, y) /\ Streams(x, y) /\ Agree(y, x) /\ Waiting(y, x) /\ Streams(y, x)
    BY DEF Promise
  <1>1. /\ x # y /\ net \in [Vats -> Seq(Messages)] /\ net[x] \in Seq(Messages) /\ net[y] \in Seq(Messages)
        /\ queue[x] \in Seq(Calls) /\ queue \in [Vats -> Seq(Calls)] /\ arrived \in [Vats -> Seq(1 .. MaxCalls)]
        /\ redirect \in [Vats -> Caps \cup {None}]
    BY Types DEF Typed, Peers
  <1>2. PICK r : r = [type |-> "Return", cap |-> DescriptorOf(c)]
    BY Zenon
  <1>3. PICK s : s = queue[x]
    OBVIOUS
  <1>4. PICK streams \in [Vats -> Seq(Messages)] : ResolveSent(x, y, c, s, r, streams)
    BY <1>2, <1>3, ResolveSends, Zenon
  <1>5. /\ redirect[x] = None /\ redirect' = [redirect EXCEPT ![x] = c]
        /\ UNCHANGED <<kind, conn, client_hook, resolve_op, is_resolved, cap, response, embargo, replacement, echo,
                       failed, panicked, made>>
    BY DEF Resolve, client_vars, embargo_vars
  <1>6. redirect'[x] = c /\ redirect'[y] = redirect[y] /\ c # None /\ redirect' \in [Vats -> Caps \cup {None}]
    BY <1>1, <1>5, NoneAssumption DEF Caps
  <1>7. s \in Seq(Calls) /\ Ordered(s, Earlier)
        /\ \A d \in Elements(s) : d \in Calls /\ d.from = y /\ d.n <= made[y] /\ AfterArrived(y, d.n)
    <2>1. Elements(queue[x]) \subseteq Calls
      BY <1>1, ElementsIn
    <2> QED
      BY <1>0, <1>1, <1>3, <2>1, Zenon DEF Waiting
  <1> DEFINE ms == CallMessages(s, "object")
  <1>8. /\ queue' = [queue EXCEPT ![x] = << >>] /\ held' = held /\ received_call' = received_call
        /\ net' \in [Vats -> Seq(Messages)] /\ net'[x] = net[x]
        /\ net'[y] = streams[y] \/ (c = "remote_object" /\ net'[y] = streams[y] \o ms)
        /\ \/ arrived' = arrived
           \/ /\ c = "object" /\ arrived' = [u \in Vats |-> arrived'[u]]
              /\ arrived'[x] = arrived[x] /\ arrived'[y] = arrived[y] \o NumbersOf(s, y)
    <2>1. Deliver(x, c, s, streams, << >>, held[x]) /\ \A d \in Elements(s) : d.from = y
      BY <1>4, <1>7, Zenon DEF ResolveSent
    <2>2. ResolveOutcome(x, y, c, s, streams)
      BY <1>7, <2>1, ResolveOutcomes
    <2> QED
      BY <1>4, <2>2, Zenon DEF ResolveSent, ResolveOutcome
  <1>9. /\ ms \in Seq(Messages) /\ Ordered(ms, HolderOrder(y))
        /\ \A w \in Elements(ms) : w.type = "Call" /\ w.target = "object" /\ w.call \in Elements(s)
    BY <1>7, CallMessagesAre
  <1> HIDE DEF ms
  <1>10. \A w \in Elements(ms) : /\ IsCall(w, y) /\ ~ IsCall(w, x) /\ ~ IsReceiver(w) /\ ~ IsSender(w)
                                 /\ w.type \notin {"Resolve", "Return"} /\ OtherOwned(x, w)
    BY <1>1, <1>7, <1>9 DEF IsCall, IsReceiver, IsSender, OtherOwned
  <1>11. /\ r \in Messages /\ r.type = "Return" /\ r.cap = DescriptorOf(c) /\ ~ IsCall(r, y) /\ ~ IsReceiver(r)
         /\ ~ IsSender(r) /\ OtherOwned(x, r)
    BY <1>2 DEF Messages, DescriptorOf, IsCall, IsReceiver, IsSender, OtherOwned
  <1>12. /\ client_hook[x] = "own" /\ response[y] \in {None, "broken"} /\ cap[y] \in {"remote_promise", "broken"}
         /\ embargo[y] = "none" /\ echo[x] = None /\ ~ Settled(y) /\ ~ Unsettled(y) /\ ~ Direct(y)
    BY <1>0, <1>5, NoneAssumption DEF Agree, Caps, Settled, Unsettled, Direct
  <1>13. held[y] = << >>
    BY <1>0, <1>12 DEF Waiting
  <1>14. \A w \in Elements(net[y]) :
            ~ IsCall(w, y) /\ w.type # "Resolve" /\ w.type # "Return" /\ ~ IsReceiver(w)
    <2>1. redirect[x] # "remote_object"
      BY <1>5, NoneAssumption DEF Caps
    <2> QED
      BY <1>0, <1>5, <1>12, <2>1, Zenon DEF Streams, ToHolder
  <1>15. \A w \in Elements(net[x]) :
            /\ ToOwner(y, x, w) /\ ~ IsSender(w)
            /\ IsCall(w, y) => w.target # "object" /\ \A d \in Elements(s) : d.n < w.call.n
    <2>1. redirect[x] # "object"
      BY <1>5, NoneAssumption DEF Caps
    <2> QED
      BY <1>0, <1>3, <1>12, <2>1, Zenon DEF Streams, ToOwner, AfterQueued
  <1>16. queue'[x] = << >> /\ queue'[y] = queue[y] /\ queue' \in [Vats -> Seq(Calls)]
    BY <1>1, <1>8
  <1>17. arrived'[x] = arrived[x] /\ arrived' \in [Vats -> Seq(1 .. MaxCalls)]
         /\ Ordered(arrived'[y], Below) /\ Grows(y)
         /\ \A a \in Elements(arrived'[y]) : a \in Elements(arrived[y]) \/ (c = "object" /\ \E d \in Elements(s) : a = d.n)
    <2>1. CASE arrived' = arrived
      BY <1>0, <1>1, <2>1, SameArrived, Zenon DEF Waiting
    <2>2. CASE c = "object" /\ arrived' = [u \in Vats |-> arrived'[u]] /\ arrived'[x] = arrived[x]
               /\ arrived'[y] = arrived[y] \o NumbersOf(s, y)
      <3>1. /\ arrived'[y] \in Seq(1 .. MaxCalls) /\ Ordered(arrived'[y], Below) /\ Grows(y)
            /\ \A a \in Elements(arrived'[y]) : a \in Elements(arrived[y]) \/ \E d \in Elements(s) : a = d.n
        <4>1. \A d \in Elements(s) : d.from = y /\ AfterArrived(y, d.n)
          BY <1>7, Zenon
        <4> QED
          BY <1>0, <1>7, <2>2, <4>1, Arrive, Zenon
      <3>2. \A u \in Vats : arrived'[u] \in Seq(1 .. MaxCalls)
        BY <1>1, <2>2, <3>1, Zenon DEF Peers
      <3>3. arrived' \in [Vats -> Seq(1 .. MaxCalls)]
        BY <2>2, <3>2, Zenon
      <3> QED
        BY <2>2, <3>1, <3>3, Zenon
    <2> QED
      BY <1>8, <2>1, <2>2, Zenon
  <1>18. UNCHANGED <<Settled(y), Unsettled(y), Direct(y)>>
    BY <1>5 DEF Settled, Unsettled, Direct
  <1>19. Agree(y, x)'
    BY <1>0, <1>5, <1>6, <1>8, <1>12, NoneAssumption DEF Agree, Unsettled, Caps
  <1>20. Elements(<< >>) = {} /\ Ordered(<< >>, Earlier) /\ (\A n : BeforeHeld(y, n)') /\ (\A n : AfterQueued(x, n)')
    <2>1. Elements(<< >>) = {} /\ Ordered(<< >>, Earlier)
      BY EmptyElements, Zenon
    <2> QED
      BY <1>8, <1>13, <1>16, <2>1, Zenon DEF BeforeHeld, AfterQueued
  <1>21. Waiting(y, x)'
    <2>1. \A a \in Elements(arrived'[y]) : a <= made[y]
      BY <1>0, <1>7, <1>17, Zenon DEF Waiting
    <2> QED
      BY <1>5, <1>8, <1>13, <1>16, <1>17, <1>20, <2>1, Zenon DEF Waiting
  <1>22. \A w \in Elements(net[x]) : ToOwner(y, x, w)'
    <2>1. \A n : AfterArrived(y, n) /\ (\A d \in Elements(s) : d.n < n) => AfterArrived(y, n)'
      BY <1>17, Zenon DEF AfterArrived
    <2> QED
      BY <1>5, <1>12, <1>15, <1>18, <1>20, <2>1, Zenon DEF ToOwner
  <1>23. (\A w \in Elements(net[y]) : ToHolder(y, x, w)') /\ (kind[x] = "answer" => ToHolder(y, x, r)')
    BY <1>5, <1>6, <1>11, <1>14, Zenon DEF ToHolder
  <1>24. c = "remote_object" => \A w \in Elements(ms) : ToHolder(y, x, w)'
    <2> SUFFICES ASSUME c = "remote_object", NEW w \in Elements(ms) PROVE ToHolder(y, x, w)'
      OBVIOUS
    <2>1. redirect'[x] = "remote_object" /\ arrived'[y] = arrived[y]
      BY <1>6, <1>8
    <2>2. AfterArrived(y, w.call.n)' /\ w.call.n <= made'[y]
      BY <1>5, <1>7, <1>9, <2>1, Zenon DEF AfterArrived
    <2> QED
      BY <1>9, <1>10, <1>12, <1>18, <1>20, <2>1, <2>2, Zenon DEF ToHolder
  <1> DEFINE rs == <<r>>
  <1>25. rs \in Seq(Messages) /\ Elements(rs) = {r} /\ Ordered(rs, HolderOrder(y)) /\ Ordered(rs, OwnerOrder(x))
    BY <1>11, OneElement, Zenon
  <1>26. streams[x] = net[x] /\ (streams[y] = net[y] \/ (streams[y] = net[y] \o rs /\ kind[x] = "answer"))
    BY <1>4, Zenon DEF ResolveSent
  <1> HIDE DEF rs
  <1>27. /\ streams[y] \in Seq(Messages) /\ Lined(y, streams[y], net[x])
         /\ \A w \in Elements(streams[y]) : w \in Elements(net[y]) \/ (w = r /\ kind[x] = "answer")
    <2>1. Lined(y, net[y], net[x])
      BY <1>0 DEF Streams
    <2>2. CASE streams[y] = net[y]
      BY <1>1, <2>1, <2>2, Zenon
    <2>3. CASE streams[y] = net[y] \o rs /\ kind[x] = "answer"
      <3>1. /\ \A m \in Elements(net[y]), w \in Elements(rs) : FrontToHolder(y, m, w)
            /\ \A m \in Elements(rs), w \in Elements(net[x]) : FrontAcross(y, m, w)
        BY <1>11, <1>14, <1>25, Zenon DEF FrontToHolder, FrontAcross
      <3>2. Lined(y, net[y] \o rs, net[x])
        BY <1>1, <1>25, <2>1, <3>1, SentToHolder, Zenon
      <3>3. net[y] \o rs \in Seq(Messages) /\ Elements(net[y] \o rs) \subseteq Elements(net[y]) \cup {r}
        BY <1>1, <1>25, ConcatOf, Zenon
      <3> QED
        BY <2>3, <3>2, <3>3, Zenon
    <2> QED
      BY <1>26, <2>2, <2>3
  <1>28. Lined(y, net'[y], net'[x])
         /\ \A w \in Elements(net'[y]) : w \in Elements(streams[y]) \/ (c = "remote_object" /\ w \in Elements(ms))
    <2>1. CASE net'[y] = streams[y]
      BY <1>8, <1>27, <2>1, Zenon
    <2>2. CASE c = "remote_object" /\ net'[y] = streams[y] \o ms
      <3>1. \A m \in Elements(streams[y]), w \in Elements(ms) : FrontToHolder(y, m, w)
        BY <1>10, <1>11, <1>14, <1>27, Zenon DEF FrontToHolder
      <3>2. \A m \in Elements(ms), w \in Elements(net[x]) : FrontAcross(y, m, w)
        BY <1>9, <1>10, <1>15, Zenon DEF FrontAcross
      <3>3. Lined(y, streams[y] \o ms, net[x])
        BY <1>1, <1>9, <1>27, <3>1, <3>2, SentToHolder, Zenon
      <3>4. Elements(streams[y] \o ms) \subseteq Elements(streams[y]) \cup Elements(ms)
        BY <1>9, <1>27, ConcatOf, Zenon
      <3> QED
        BY <1>8, <2>2, <3>3, <3>4, Zenon
    <2> QED
      BY <1>8, <2>1, <2>2, Zenon
  <1>29. Promise(y, x)'
    <2>1. \A w \in Elements(net'[y]) : ToHolder(y, x, w)'
      BY <1>23, <1>24, <1>27, <1>28, Zenon
    <2>2. \A w \in Elements(net'[x]) : ToOwner(y, x, w)'
      BY <1>8, <1>22, Zenon
    <2> QED
      BY <1>19, <1>21, <1>28, <2>1, <2>2, Zenon DEF Promise, Streams
  <1>30. Promise(x, y)'
    <2>1. UNCHANGED Core(x, y)
      BY <1>5, <1>6, <1>8, <1>16, <1>17 DEF Core
    <2>2. Agree(x, y)'
      BY <1>0, <1>5, <1>8, <2>1, SameAgree
    <2>3. Waiting(x, y)' /\ (\A w : ToHolder(x, y, w) => ToHolder(x, y, w)') /\ (\A w : ToOwner(x, y, w) => ToOwner(x, y, w)')
      BY <1>0, <2>1, SameCore, Zenon
    <2>4. Lined(x, net[x], streams[y])
      <3>1. Lined(x, net[x], net[y])
        BY <1>0 DEF Streams
      <3>2. Lined(x, net[x], net[y] \o rs)
        BY <1>1, <1>11, <1>25, <3>1, OthersToOwner, Zenon
      <3> QED
        BY <1>26, <3>1, <3>2, Zenon
    <2>5. Lined(x, net'[x], net'[y])
      <3>1. Lined(x, net[x], streams[y] \o ms)
        BY <1>1, <1>9, <1>10, <1>27, <2>4, OthersToOwner, Zenon
      <3> QED
        BY <1>8, <2>4, <3>1, Zenon
    <2>6. \A w \in Elements(net'[x]) : ToHolder(x, y, w)'
      BY <1>0, <1>8, <2>3, Zenon DEF Streams
    <2>7. \A w \in Elements(net'[y]) : ToOwner(x, y, w)'
      <3>1. \A w : OtherOwned(x, w) => ToOwner(x, y, w)'
        BY Zenon DEF OtherOwned, ToOwner
      <3> QED
        BY <1>0, <1>10, <1>11, <1>27, <1>28, <2>3, <3>1, Zenon DEF Streams
    <2> QED
      BY <2>2, <2>3, <2>5, <2>6, <2>7, Zenon DEF Promise, Streams
  <1>31. Typed'
    BY <1>5, <1>6, <1>8, <1>16, <1>17, Types, TypesNext, Zenon DEF Typed
  <1>32. Grows(x)
    BY <1>17, SameArrived
  <1> QED
    BY <1>5, <1>17, <1>29, <1>30, <1>31, <1>32, Kept DEF NoProtocolError
----------------------------------------------------------------------------
(* The specification *)

\* The invariant holds at the beginning.
LEMMA InitEInv == Init => EInv
  <1> SUFFICES ASSUME Init PROVE EInv
    OBVIOUS
  <1>1. /\ << >> \in Seq(Messages) /\ << >> \in Seq(Calls) /\ << >> \in Seq(1 .. MaxCalls) /\ Elements(<< >>) = {}
        /\ \A R : Ordered(<< >>, R)
    BY EmptyElements
  <1>2. TypeOK
    BY <1>1, Types, KindsAssumption, BoundAssumption DEF Init, Caps
  <1>3. Typed
    BY <1>1, <1>2, KindsAssumption, Zenon DEF Init, Typed
  <1>4. NoProtocolError
    BY DEF Init, NoProtocolError
  <1>5. ASSUME NEW h \in Vats, NEW o \in Vats PROVE Promise(h, o)
    <2>1. Agree(h, o)
      BY NoneAssumption, Zenon DEF Init, Agree, Unsettled, Caps
    <2>2. queue[o] = << >> /\ held[h] = << >> /\ arrived[h] = << >> /\ net[h] = << >> /\ net[o] = << >>
      BY DEF Init
    <2>3. Waiting(h, o)
      BY <1>1, <2>2, Zenon DEF Waiting
    <2>4. Streams(h, o)
      BY <1>1, <2>2, Zenon DEF Streams, Lined, Ahead
    <2> QED
      BY <2>1, <2>3, <2>4 DEF Promise
  <1>6. \A h \in Vats : Peer(h) \in Vats
    BY DEF Peer, Vats
  <1> QED
    BY <1>3, <1>4, <1>5, <1>6, Zenon DEF EInv

\* What has arrived is kept, and the calls made are counted one by one.
Counts == \/ made' = made
          \/ \E v \in Vats : made' = [made EXCEPT ![v] = @ + 1]
Progress == Counts /\ \A u \in Vats : Grows(u)

\* Every step keeps the invariant.
LEMMA NextEInv == ASSUME ToObjects, EInv, [Next]_vars PROVE EInv' /\ Progress
  <1>0. Typed /\ NoProtocolError /\ \A h \in Vats : Promise(h, Peer(h))
    BY DEF EInv
  <1>1. arrived' = arrived => \A u \in Vats : Grows(u)
    BY <1>0, SameArrived
  <1>2. CASE UNCHANGED vars
    <2>1. /\ kind' = kind /\ conn' = conn /\ net' = net /\ queue' = queue /\ redirect' = redirect
          /\ client_hook' = client_hook /\ resolve_op' = resolve_op /\ is_resolved' = is_resolved /\ cap' = cap
          /\ response' = response /\ received_call' = received_call /\ embargo' = embargo
          /\ replacement' = replacement /\ echo' = echo /\ held' = held /\ failed' = failed
          /\ panicked' = panicked /\ made' = made /\ arrived' = arrived
      BY <1>2 DEF vars, promise_vars, client_vars, embargo_vars
    <2>2. Typed' /\ NoProtocolError'
      BY <1>0, <2>1, Types, TypesNext DEF Typed, NoProtocolError
    <2>3. ASSUME NEW h \in Vats, NEW o \in Vats, Promise(h, o) PROVE Promise(h, o)'
      <3>1. UNCHANGED Core(h, o)
        BY <2>1 DEF Core
      <3>2. Agree(h, o)'
        BY <2>1, <2>3, <3>1, SameAgree DEF Promise
      <3> QED
        BY <1>0, <2>1, <2>3, <3>1, <3>2, NoMessages, HolderElsewhere, Zenon
    <2>4. \A h \in Vats : Peer(h) \in Vats
      BY DEF Peer, Vats
    <2>5. \A h \in Vats : Promise(h, Peer(h))'
      BY <1>0, <2>3, <2>4
    <2> QED
      BY <1>1, <2>1, <2>2, <2>5 DEF EInv, Progress, Counts
  <1>3. ASSUME NEW x \in Vats,
               Call(x) \/ Tasks(x) \/ MessageLoop(x) \/ Disconnects(x) \/ \E c \in Resolutions : Resolve(x, c)
        PROVE  EInv' /\ Progress
    <2>1. PICK y \in Vats : y = Peer(x)
      BY DEF Peer, Vats
    <2>2. Peers(x, y)
      BY <2>1, PeersAre
    <2>3. Promise(x, y) /\ Promise(y, x) /\ \A u \in Vats : u = x \/ u = y
      BY <1>0, <2>1, <2>2 DEF Peers
    <2>4. CASE Call(x)
      BY <1>0, <2>2, <2>3, <2>4, CallKeeps, Zenon DEF Call, Progress, Counts
    <2>5. ASSUME arrived' = arrived, EInv', made' = made PROVE EInv' /\ Progress
      BY <1>1, <2>5 DEF Progress, Counts
    <2>6. CASE Tasks(x)
      <3>1. CASE ResolveExportedPromise(x)
        BY <1>0, <2>2, <2>3, <2>5, <3>1, ResolveExportedPromiseKeeps, Zenon DEF ResolveExportedPromise
      <3>2. CASE PipelineResolve(x)
        BY <1>0, <2>2, <2>3, <2>5, <3>2, PipelineResolveKeeps DEF PipelineResolve
      <3>3. CASE Echo(x)
        <4>1. made' = made
          BY <3>3 DEF Echo, Fail, Disconnect
        <4> QED
          BY <1>0, <2>2, <2>3, <2>5, <3>3, <4>1, EchoKeeps
      <3>4. CASE LiftEmbargo(x)
        BY <1>0, <2>2, <2>3, <3>4, LiftEmbargoKeeps, Zenon DEF LiftEmbargo, Progress, Counts
      <3> QED
        BY <2>6, <3>1, <3>2, <3>3, <3>4 DEF Tasks
    <2>7. CASE MessageLoop(x)
      <3>1. CASE HandleCall(x)
        BY <1>0, <2>2, <2>3, <3>1, HandleCallKeeps DEF HandleCall, Progress, Counts
      <3>2. CASE HandleResolve(x)
        <4>1. made' = made
          BY <3>2 DEF HandleResolve, Fail, Disconnect
        <4> QED
          BY <1>0, <2>2, <2>3, <2>5, <3>2, <4>1, HandleResolveKeeps
      <3>3. CASE HandleReturn(x)
        BY <1>0, <2>2, <2>3, <2>5, <3>3, HandleReturnKeeps, Zenon DEF HandleReturn
      <3>4. CASE HandleAbort(x)
        <4>1. made' = made
          BY <3>4 DEF HandleAbort, Disconnect
        <4> QED
          BY <1>0, <2>2, <2>3, <2>5, <3>4, <4>1, DisconnectsKeep
      <3>5. CASE HandleSenderLoopback(x)
        <4>1. made' = made
          BY <3>5 DEF HandleSenderLoopback, Fail, Disconnect
        <4> QED
          BY <1>0, <2>2, <2>3, <2>5, <3>5, <4>1, HandleSenderLoopbackKeeps
      <3>6. CASE HandleReceiverLoopback(x)
        <4>1. made' = made
          BY <3>6 DEF HandleReceiverLoopback, Fail, Disconnect
        <4> QED
          BY <1>0, <2>2, <2>3, <2>5, <3>6, <4>1, HandleReceiverLoopbackKeeps
      <3> QED
        BY <2>7, <3>1, <3>2, <3>3, <3>4, <3>5, <3>6 DEF MessageLoop
    <2>8. CASE Disconnects(x)
      <3>1. made' = made
        BY <2>8 DEF Disconnects, Disconnect
      <3> QED
        BY <1>0, <2>2, <2>3, <2>5, <2>8, <3>1, DisconnectsKeep
    <2>9. CASE \E c \in Resolutions : Resolve(x, c)
      <3>1. PICK c \in {"object", "remote_object"} : Resolve(x, c)
        BY <2>9 DEF ToObjects
      <3> QED
        BY <1>0, <2>2, <2>3, <3>1, ResolveKeeps, Zenon DEF Resolve, Progress, Counts
    <2> QED
      BY <1>3, <2>4, <2>6, <2>7, <2>8, <2>9
  <1> QED
    BY <1>2, <1>3 DEF Next

\* Where promises are resolved to objects, and not to each other, neither vat ever
\* rejects what the other sends, however calls, resolutions, Disembargoes and the
\* loss of the connection interleave (handle_disembargo, handle_message,
\* resolve_exported_promise).
THEOREM NothingRejected == ASSUME ToObjects PROVE Spec => []NoProtocolError
  <1>1. EInv /\ [Next]_vars => EInv'
    BY NextEInv
  <1>2. EInv => NoProtocolError
    BY DEF EInv
  <1> QED
    BY <1>1, <1>2, InitEInv, PTL DEF Spec

\* The beginning of what grows.
LEMMA Prefix ==
    ASSUME NEW V, NEW s \in Seq(V), NEW t \in Seq(V)
    PROVE  Len(s \o t) >= Len(s) /\ SubSeq(s \o t, 1, Len(s)) = s
  <1> DEFINE u == s \o t
  <1>1. u \in Seq(V) /\ Len(u) = Len(s) + Len(t) /\ \A i \in 1 .. Len(s) : u[i] = s[i]
    OBVIOUS
  <1>2. Len(s) \in Nat /\ Len(t) \in Nat
    OBVIOUS
  <1> HIDE DEF u
  <1> DEFINE w == SubSeq(u, 1, Len(s))
  <1>3. w \in Seq(V) /\ Len(w) = Len(s) /\ \A i \in 1 .. Len(s) : w[i] = u[i]
    BY <1>1, <1>2
  <1> HIDE DEF w
  <1>4. w = [i \in 1 .. Len(w) |-> w[i]] /\ s = [i \in 1 .. Len(s) |-> s[i]]
    BY <1>3
  <1>5. w = s
    BY <1>1, <1>3, <1>4, Zenon
  <1> QED
    BY <1>1, <1>2, <1>5 DEF u, w

\* Every step is one that keeps the order of calls.
LEMMA StepKeepsOrder == ASSUME EInv, EInv', Progress PROVE Order!Next
  <1>1. UNCHANGED made \/ \E v \in Vats : Order!Make(v)
    BY DEF Progress, Counts, Order!Make
  <1>2. ASSUME NEW v \in Vats PROVE Order!Extends(arrived'[v], arrived[v], made'[v])
    <2>1. PICK w \in Seq(1 .. MaxCalls) : arrived'[v] = arrived[v] \o w
      BY DEF Progress, Grows
    <2>2. arrived[v] \in Seq(1 .. MaxCalls) /\ arrived'[v] \in Seq(1 .. MaxCalls)
      BY DEF EInv, Typed, TypeOK
    <2>3. Len(arrived'[v]) >= Len(arrived[v]) /\ SubSeq(arrived'[v], 1, Len(arrived[v])) = arrived[v]
      BY <2>1, <2>2, Prefix
    <2>4. Peer(v) \in Vats /\ Waiting(v, Peer(v))'
      BY DEF EInv, Promise, Peer, Vats
    <2>5. Ordered(arrived'[v], Below) /\ \A a \in Elements(arrived'[v]) : a <= made'[v]
      BY <2>4, Zenon DEF Waiting
    <2> DEFINE new == arrived'[v]
               old == arrived[v]
    <2>6. new \in Seq(1 .. MaxCalls) /\ old \in Seq(1 .. MaxCalls)
      BY <2>2
    <2>7. Ordered(new, Below) /\ \A a \in Elements(new) : a <= made'[v]
      BY <2>5
    <2>8. \A i \in DOMAIN new : new[i] \in 1 .. MaxCalls /\ new[i] <= made'[v]
      BY <2>6, <2>7, SeqElements, Zenon DEF Elements
    <2>9. \A i, j \in DOMAIN new : j < i => new[j] < new[i]
      BY <2>7, <2>8, CallOrders, Zenon DEF Ordered
    <2> HIDE DEF new, old
    <2>10. \A i \in Len(old) + 1 .. Len(new) :
              i \in DOMAIN new /\ \A j \in 1 .. i - 1 : j \in DOMAIN new /\ j < i
      BY <2>6
    <2>11. \A i \in Len(old) + 1 .. Len(new) : new[i] <= made'[v] /\ \A j \in 1 .. i - 1 : new[j] < new[i]
      BY <2>8, <2>9, <2>10, Zenon
    <2> QED
      BY <2>3, <2>11 DEF Order!Extends, new, old
  <1> QED
    BY <1>1, <1>2 DEF Order!Next, Order!Arrive

\* Where promises are resolved to objects, the calls one vat makes on a promise
\* arrive in the order they were made and at most once: through the peer, out of
\* a queue, from behind an embargo or straight to the object, for any number of
\* calls (PromiseClient::resolve, ClientInner::resolve, handle_disembargo).
THEOREM CallsKeepOrder == ASSUME ToObjects PROVE Spec => KeepsCallOrder
  <1>1. EInv /\ [Next]_vars => EInv' /\ Progress
    BY NextEInv
  <1>2. Init => Order!Init
    BY DEF Init, Order!Init
  <1>3. EInv /\ [Next]_vars => [Order!Next]_(Order!vars)
    BY <1>1, StepKeepsOrder
  <1>4. KeepsCallOrder <=> Order!Init /\ [][Order!Next]_(Order!vars)
    BY DEF KeepsCallOrder, Order!Spec
  <1> QED
    BY <1>1, <1>2, <1>3, <1>4, InitEInv, PTL DEF Spec
=============================================================================
