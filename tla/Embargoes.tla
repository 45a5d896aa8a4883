----------------------------- MODULE Embargoes ------------------------------
(***************************************************************************)
(* The order of calls across the resolution of promises (PromiseClient,    *)
(* resolve_exported_promise, PipelineState::resolve and handle_disembargo  *)
(* of capnp-rpc/src/rpc.rs, with the queues of capnp-rpc/src/queued.rs).   *)
(* Each of two vats holds a promise its peer has exported or returned, and *)
(* makes calls on it; each resolves its own promise when it likes, to an   *)
(* object of its own, to an object of the peer, or to the peer's promise.  *)
(*                                                                         *)
(* Inside a vat a capability is one of                                     *)
(*   "object"          the vat's object (a local::Client)                  *)
(*   "own"             its promise, a queued::Client                       *)
(*   "remote_object"   the ImportClient of the peer's object               *)
(*   "remote_promise"  the ImportClient or PipelineClient of the promise   *)
(*   "promise"         the PromiseClient around it                         *)
(*   "embargo"         the queued::Client of an embargo                    *)
(*   "broken"                                                              *)
(***************************************************************************)
EXTENDS Integers, Sequences

CONSTANTS Kinds,         \* how a promise may reach the peer: "export", "answer"
          Resolutions,   \* what a vat may resolve its promise to
          Callers,       \* the vats that make calls
          MaxCalls,      \* bound on the calls of each
          Disconnecting, \* the vats that disconnect of their own accord
          None

Vats == {"alice", "bob"}
Peer(v) == IF v = "alice" THEN "bob" ELSE "alice"
Caps == {"object", "own", "remote_object", "remote_promise", "promise", "embargo", "broken"}

ASSUME KindsAssumption == Kinds \subseteq {"export", "answer"}
ASSUME ResolutionsAssumption == Resolutions \subseteq {"object", "remote_object", "promise"}
ASSUME VatsAssumption == Callers \subseteq Vats /\ Disconnecting \subseteq Vats
ASSUME BoundAssumption == MaxCalls \in Nat
ASSUME NoneAssumption == None \notin Caps

VARIABLES
    kind,               \* in a CapDescriptor, or as the results of a call
    conn, net,          \* whether a vat is connected; the messages on the way to it
    queue, redirect,    \* ClientInner of a vat's own promise
    client_hook,        \* what calls addressed to its promise are delivered to
    resolve_op,         \* whether the task that is to send Resolve waits
    is_resolved, cap, received_call,    \* PromiseClient
    response,           \* what a Return has brought and the Pipeline not yet seen
    embargo, held, replacement,   \* the fulfiller; calls held back, and for what
    echo,               \* the target of a Disembargo a task is to send back
    failed, panicked,
    made, arrived       \* ghosts: the calls of a vat, and those that have arrived

promise_vars == <<queue, redirect, client_hook, resolve_op>>
client_vars == <<is_resolved, cap, response>>
embargo_vars == <<embargo, replacement, echo>>
vars == <<kind, conn, net, promise_vars, client_vars, received_call, embargo_vars, held,
          failed, panicked, made, arrived>>

Init ==
    /\ kind \in [Vats -> Kinds]
    /\ conn = [v \in Vats |-> TRUE] /\ net = [v \in Vats |-> << >>]
    /\ queue = [v \in Vats |-> << >>] /\ redirect = [v \in Vats |-> None]
    /\ client_hook = [v \in Vats |-> "own"]
    /\ resolve_op = [v \in Vats |-> kind[v] = "export"]
    /\ is_resolved = [v \in Vats |-> FALSE]
    /\ cap = [v \in Vats |-> "remote_promise"]
    /\ received_call = [v \in Vats |-> FALSE]
    /\ response = [v \in Vats |-> None]
    /\ embargo = [v \in Vats |-> "none"] /\ held = [v \in Vats |-> << >>]
    /\ replacement = [v \in Vats |-> None]
    /\ echo = [v \in Vats |-> None]
    /\ failed = {} /\ panicked = {}
    /\ made = [v \in Vats |-> 0] /\ arrived = [v \in Vats |-> << >>]

----------------------------------------------------------------------------
(* Where a call on a capability goes *)

\* get_resolved, one step.
Resolved(v, c) ==
    CASE c = "own" /\ redirect[v] # None -> redirect[v]
      [] c = "promise" /\ is_resolved[v] -> cap[v]
      [] c = "embargo" /\ embargo[v] = "lifted" -> replacement[v]
      [] c = "embargo" /\ embargo[v] = "broken" -> "broken"
      [] OTHER -> c

\* No chain is longer: own, promise, embargo, object.
Path(v, c) ==
    LET r(x) == Resolved(v, x) IN <<c, r(c), r(r(c)), r(r(r(c)))>>
Innermost(v, c) == Path(v, c)[4]

\* get_brand: whether calls go over the connection.
Remote(c) == c \in {"remote_object", "remote_promise", "promise"}

\* Client::new_call needs the connection, even for a promise that has resolved
\* to an object of this vat.
Lost(v, c) ==
    \/ Innermost(v, c) = "broken"
    \/ ~ conn[v] /\ \E i \in 1 .. 4 : Remote(Path(v, c)[i])

\* The numbers of the calls of u among the calls s.
NumbersOf(s, u) ==
    LET first[k \in 0 .. Len(s)] ==
            IF k = 0 THEN << >>
            ELSE IF s[k].from = u THEN Append(first[k - 1], s[k].n) ELSE first[k - 1]
    IN  first[Len(s)]

\* The streams after v has sent ms.
Sent(streams, v, ms) == IF conn[v] THEN [streams EXCEPT ![Peer(v)] = @ \o ms] ELSE streams

\* The calls s are made on c; streams is the network, q and h the two queues of
\* calls, all without these.
Deliver(v, c, s, streams, q, h) ==
    LET t == Innermost(v, c)
        k == IF Lost(v, c) THEN << >> ELSE s
        target == IF t = "promise" THEN "promise" ELSE "object"
        ms == [i \in DOMAIN k |-> [type |-> "Call", target |-> target, call |-> k[i]]]
    IN
    /\ received_call' = [received_call EXCEPT ![v] =
           @ \/ (k # << >> /\ \E i \in 1 .. 4 : Path(v, c)[i] = "promise")]
    /\ net' = IF Remote(t) THEN Sent(streams, v, ms) ELSE streams
    /\ arrived' = IF t = "object" THEN [u \in Vats |-> arrived[u] \o NumbersOf(k, u)] ELSE arrived
    /\ queue' = [queue EXCEPT ![v] = IF t = "own" THEN q \o k ELSE q]
    /\ held' = [held EXCEPT ![v] = IF t = "embargo" THEN h \o k ELSE h]

\* Request::send on the PromiseClient; redirected when that has resolved.
Call(v) ==
    /\ v \in Callers \ panicked /\ made[v] < MaxCalls
    /\ made' = [made EXCEPT ![v] = @ + 1]
    /\ Deliver(v, "promise", <<[from |-> v, n |-> made[v] + 1]>>, net, queue[v], held[v])
    /\ UNCHANGED <<kind, conn, redirect, client_hook, resolve_op, client_vars, embargo_vars,
                   failed, panicked>>

----------------------------------------------------------------------------
(* A vat resolves its promise *)

\* write_descriptor of a capability that is an object or the peer's.
Descriptor(v, c) ==
    CASE Innermost(v, c) = "remote_object" -> "receiverHosted"
      [] Innermost(v, c) = "promise" -> "receiverPromise"
      [] OTHER -> "senderHosted"

\* queued::ClientInner::resolve.  The results of a call are sent first
\* (from_results_inner), then the calls on them forwarded.
Resolve(v, c) ==
    /\ v \notin panicked /\ redirect[v] = None
    /\ redirect' = [redirect EXCEPT ![v] = c]
    /\ Deliver(v, c, queue[v],
               IF kind[v] = "export" THEN net
               ELSE Sent(net, v, <<[type |-> "Return", cap |-> Descriptor(v, c)]>>), << >>, held[v])
    /\ UNCHANGED <<kind, conn, client_hook, resolve_op, client_vars, embargo_vars,
                   failed, panicked, made>>

\* The task of resolve_exported_promise.
ResolveExportedPromise(v) ==
    LET c == Innermost(v, redirect[v]) IN
    /\ v \notin panicked /\ resolve_op[v] /\ redirect[v] # None
    /\ resolve_op' = [resolve_op EXCEPT ![v] = FALSE]
    /\ client_hook' = [client_hook EXCEPT ![v] = c]
    /\ IF c = "embargo"
       THEN panicked' = panicked \cup {v} /\ UNCHANGED <<net, received_call>>  \* unimplemented!()
       ELSE /\ net' = Sent(net, v, <<[type |-> "Resolve", cap |-> Descriptor(v, c)]>>)
            /\ received_call' = [received_call EXCEPT ![v] = @ \/ c = "promise"]
            /\ UNCHANGED panicked
    /\ UNCHANGED <<kind, conn, queue, redirect, client_vars, embargo_vars, held, failed, made, arrived>>

----------------------------------------------------------------------------
(* The holder learns of it *)

\* receive_cap
ReceiveCap(v, d) ==
    CASE d = "senderHosted" -> "remote_object"
      [] d = "receiverHosted" -> "object"
      [] d = "receiverPromise" -> client_hook[v]

Loopback(context) == [type |-> "Disembargo", context |-> context]

\* Mutant of PromiseClientResolve: no embargo.
ResolveAtOnce(v, c, streams) ==
    /\ is_resolved' = [is_resolved EXCEPT ![v] = TRUE]
    /\ cap' = [cap EXCEPT ![v] = c]
    /\ net' = streams
    /\ UNCHANGED <<embargo, replacement>>

\* Mutant of PromiseClientResolve: an embargo, and no Disembargo to lift it.
ResolveSilently(v, c, streams) ==
    LET embargoed == ~ Remote(c) /\ c # "broken" /\ received_call[v] /\ conn[v] IN
    /\ is_resolved' = [is_resolved EXCEPT ![v] = TRUE]
    /\ cap' = [cap EXCEPT ![v] = IF embargoed THEN "embargo" ELSE c]
    /\ embargo' = [embargo EXCEPT ![v] = IF embargoed THEN "waiting" ELSE @]
    /\ replacement' = [replacement EXCEPT ![v] = IF embargoed THEN c ELSE @]
    /\ net' = streams

\* Mutant of PromiseClientResolve: an embargo against objects of the peer too.
ResolveAlwaysEmbargoed(v, c, streams) ==
    LET embargoed == c # "broken" /\ received_call[v] /\ conn[v] IN
    /\ is_resolved' = [is_resolved EXCEPT ![v] = TRUE]
    /\ cap' = [cap EXCEPT ![v] = IF embargoed THEN "embargo" ELSE c]
    /\ embargo' = [embargo EXCEPT ![v] = IF embargoed THEN "waiting" ELSE @]
    /\ replacement' = [replacement EXCEPT ![v] = IF embargoed THEN c ELSE @]
    /\ net' = IF embargoed THEN Sent(streams, v, <<Loopback("sender")>>) ELSE streams

\* PromiseClient::resolve: calls on what was called through the peer, and turns
\* out to be here, are held back until a Disembargo has come round.
PromiseClientResolve(v, c, streams) ==
    LET embargoed == ~ Remote(c) /\ c # "broken" /\ received_call[v] /\ conn[v] IN
    /\ is_resolved' = [is_resolved EXCEPT ![v] = TRUE]
    /\ cap' = [cap EXCEPT ![v] = IF embargoed THEN "embargo" ELSE c]
    /\ embargo' = [embargo EXCEPT ![v] = IF embargoed THEN "waiting" ELSE @]
    /\ replacement' = [replacement EXCEPT ![v] = IF embargoed THEN c ELSE @]
    /\ net' = IF embargoed THEN Sent(streams, v, <<Loopback("sender")>>) ELSE streams

\* The task of a Pipeline, PipelineState::resolve.
PipelineResolve(v) ==
    /\ v \notin panicked /\ response[v] # None /\ ~ is_resolved[v]
    /\ PromiseClientResolve(v, response[v], net)
    /\ UNCHANGED <<kind, conn, promise_vars, response, received_call, echo, held, failed, panicked,
                   made, arrived>>

----------------------------------------------------------------------------
(* The message loop.  A vat that has disconnected rejects what it still reads. *)

Receives(v, type) ==
    v \notin panicked /\ conn[v] /\ net[v] # << >> /\ Head(net[v]).type = type
Rest(v) == [net EXCEPT ![v] = Tail(@)]

\* disconnect: a promise of the peer breaks, at once or through its Pipeline's task.
Disconnect(v, streams) ==
    LET answer == kind[Peer(v)] = "answer" IN
    /\ conn' = [conn EXCEPT ![v] = FALSE]
    /\ net' = Sent(streams, v, <<[type |-> "Abort"]>>)
    /\ resolve_op' = [resolve_op EXCEPT ![v] = FALSE]
    /\ response' = [response EXCEPT ![v] = IF answer /\ @ = None THEN "broken" ELSE @]
    /\ cap' = [cap EXCEPT ![v] = IF answer \/ is_resolved[v] THEN @ ELSE "broken"]
    /\ is_resolved' = [is_resolved EXCEPT ![v] = @ \/ ~ answer]
    /\ embargo' = [embargo EXCEPT ![v] = IF @ = "waiting" THEN "failing" ELSE @]
    /\ UNCHANGED <<kind, queue, redirect, client_hook, received_call, replacement, echo, held,
                   panicked, made, arrived>>

\* A handler or a task has returned an error (ConnectionErrorHandler).
Fail(v, streams) == failed' = failed \cup {v} /\ Disconnect(v, streams)

HandleCall(v) ==
    LET m == Head(net[v]) IN
    /\ Receives(v, "Call")
    /\ Deliver(v, IF m.target = "object" THEN "object" ELSE client_hook[v], <<m.call>>,
               Rest(v), queue[v], held[v])
    /\ UNCHANGED <<kind, conn, redirect, client_hook, resolve_op, client_vars, embargo_vars,
                   failed, panicked, made>>

HandleResolve(v) ==
    /\ Receives(v, "Resolve")
    /\ IF is_resolved[v] THEN Fail(v, Rest(v))
       ELSE /\ PromiseClientResolve(v, ReceiveCap(v, Head(net[v]).cap), Rest(v))
            /\ UNCHANGED <<kind, conn, promise_vars, response, received_call, echo, held, failed,
                           panicked, made, arrived>>

HandleReturn(v) ==
    /\ Receives(v, "Return")
    /\ response' = [response EXCEPT ![v] = ReceiveCap(v, Head(net[v]).cap)]
    /\ net' = Rest(v)
    /\ UNCHANGED <<kind, conn, promise_vars, is_resolved, cap, received_call, embargo_vars, held,
                   failed, panicked, made, arrived>>

HandleSenderLoopback(v) ==
    LET target == Innermost(v, client_hook[v]) IN
    /\ Receives(v, "Disembargo") /\ Head(net[v]).context = "sender"
    /\ IF ~ Remote(target) THEN Fail(v, Rest(v))
       ELSE /\ echo' = [echo EXCEPT ![v] = target]
            /\ net' = Rest(v)
            /\ UNCHANGED <<kind, conn, promise_vars, client_vars, received_call, embargo, replacement,
                           held, failed, panicked, made, arrived>>

\* The task handle_disembargo adds.
Echo(v) ==
    /\ v \notin panicked /\ echo[v] # None
    /\ IF conn[v] /\ ~ Remote(Innermost(v, echo[v])) THEN Fail(v, net)
       ELSE /\ echo' = [echo EXCEPT ![v] = None]
            /\ net' = Sent(net, v, <<Loopback("receiver")>>)
            /\ received_call' = [received_call EXCEPT ![v] = @ \/ echo[v] = "promise"]
            /\ UNCHANGED <<kind, conn, promise_vars, client_vars, embargo, replacement, held,
                           failed, panicked, made, arrived>>

HandleReceiverLoopback(v) ==
    /\ Receives(v, "Disembargo") /\ Head(net[v]).context = "receiver"
    /\ IF embargo[v] # "waiting" THEN Fail(v, Rest(v))
       ELSE /\ embargo' = [embargo EXCEPT ![v] = "fulfilled"]
            /\ net' = Rest(v)
            /\ UNCHANGED <<kind, conn, promise_vars, client_vars, received_call, replacement, echo, held,
                           failed, panicked, made, arrived>>

HandleAbort(v) ==
    /\ Receives(v, "Abort")
    /\ Disconnect(v, Rest(v))
    /\ UNCHANGED failed

\* The promise that drives the embargo's queued::Client is polled.
LiftEmbargo(v) ==
    /\ v \notin panicked /\ embargo[v] \in {"fulfilled", "failing"}
    /\ embargo' = [embargo EXCEPT ![v] = IF @ = "fulfilled" THEN "lifted" ELSE "broken"]
    /\ Deliver(v, IF embargo[v] = "fulfilled" THEN replacement[v] ELSE "broken", held[v],
               net, queue[v], << >>)
    /\ UNCHANGED <<kind, conn, redirect, client_hook, resolve_op, client_vars, replacement, echo,
                   failed, panicked, made>>

----------------------------------------------------------------------------
Tasks(v) == ResolveExportedPromise(v) \/ PipelineResolve(v) \/ Echo(v) \/ LiftEmbargo(v)

MessageLoop(v) ==
    \/ HandleCall(v) \/ HandleResolve(v) \/ HandleReturn(v) \/ HandleAbort(v)
    \/ HandleSenderLoopback(v) \/ HandleReceiverLoopback(v)

Disconnects(v) ==
    /\ v \in Disconnecting \ panicked /\ conn[v]
    /\ Disconnect(v, net)
    /\ UNCHANGED failed

\* Two promises for each other, or results that are themselves held back, are
\* not considered.
Next ==
    \E v \in Vats :
        \/ Call(v) \/ Tasks(v) \/ MessageLoop(v) \/ Disconnects(v)
        \/ \E c \in Resolutions :
               /\ c = "promise" => kind[v] = "export" /\ redirect[Peer(v)] # "promise"
               /\ Resolve(v, c)

Spec == Init /\ [][Next]_vars

\* A vat runs while it has a task or a message.  Each of its tasks runs once, so
\* that none can keep the others from running.
FairSpec == Spec /\ \A v \in Vats : WF_vars(Tasks(v) \/ MessageLoop(v))

----------------------------------------------------------------------------
(* Properties *)

Calls == [from : Vats, n : 1 .. MaxCalls]

TypeOK ==
    /\ conn \in [Vats -> BOOLEAN] /\ is_resolved \in [Vats -> BOOLEAN]
    /\ received_call \in [Vats -> BOOLEAN] /\ resolve_op \in [Vats -> BOOLEAN]
    /\ queue \in [Vats -> Seq(Calls)] /\ held \in [Vats -> Seq(Calls)]
    /\ client_hook \in [Vats -> Caps] /\ cap \in [Vats -> Caps]
    /\ \A f \in {redirect, response, replacement, echo} : f \in [Vats -> Caps \cup {None}]
    /\ embargo \in [Vats -> {"none", "waiting", "fulfilled", "lifted", "failing", "broken"}]
    /\ failed \subseteq Vats /\ panicked \subseteq Vats
    /\ made \in [Vats -> 0 .. MaxCalls] /\ arrived \in [Vats -> Seq(1 .. MaxCalls)]

\* Neither vat rejects what the other has sent: no Resolve for a promise that is
\* resolved, no Disembargo to what does not lead back to its sender, no unknown
\* embargo, no panic (handle_disembargo, handle_message, resolve_exported_promise).
NoProtocolError == failed = {} /\ panicked = {}

\* The calls one vat makes on the promise arrive in the order they were made and
\* at most once, whether they went through the peer, waited in a queue, were held
\* back by an embargo or went straight to the object (PromiseClient::resolve).
Order == INSTANCE CallOrder
KeepsCallOrder == Order!Spec

\* A call on a promise that has been resolved arrives in the end, unless the
\* connection is lost: no embargo stays for good, no queue keeps a call.
CallsArrive ==
    \A v \in Vats :
        redirect[Peer(v)] # None ~> (Len(arrived[v]) = made[v] \/ \E u \in Vats : ~ conn[u])
=============================================================================
