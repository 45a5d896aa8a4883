------------------------------- MODULE Queued -------------------------------
(***************************************************************************)
(* capnp-rpc/src/queued.rs: a client that queues calls until it is         *)
(* resolved (queued::Client), and a pipeline that hands out such clients   *)
(* (queued::Pipeline).  The application has one client, whose              *)
(* call_forwarding_queue is the queue of module SenderQueue; it was got    *)
(* from a pipeline, or is driven by a future (new_promise_client, an       *)
(* embargo).  Each call the peer makes on the pipeline gets a client of    *)
(* its own.                                                                *)
(***************************************************************************)
EXTENDS SenderQueue

CONSTANTS Piped,       \* the calls of the peer, in the order they are made
          Waiters      \* promises of when_more_resolved

ASSUME PipedAssumption == Piped \in Nat
ASSUME ReusedIsOff == ~ Reused
ASSUME NoneAssumption == None \notin {"cap", "broken"}
\* the calls of the two are told apart
ASSUME ValuesAssumption == Values \cap (0 .. Piped) = {}

VARIABLES
    source,            \* "pipeline" or "future"
    ready,             \* the outcome of complete, or of the future
    client_redirect, pipeline_redirect,
    clients,           \* clients_to_resolve: 0 for the application's, a call of the peer
    handle, pipeline,  \* whether somebody has the Client, the Pipeline
    waiter,
    piped,             \* how many calls of the peer have been made
    made, arrived,     \* ghosts: the calls of the application, and all that were forwarded
    lost               \* calls of the peer that have failed

queued_vars == <<source, ready, client_redirect, pipeline_redirect, clients, handle, pipeline,
                 waiter, piped, made, arrived, lost>>
all_vars == <<vars, queued_vars>>

QInit ==
    /\ Init
    /\ source \in {"pipeline", "future"}
    /\ ready = None
    /\ client_redirect = None /\ pipeline_redirect = None
    /\ clients = << >>
    /\ handle = (source = "future") /\ pipeline = (source = "pipeline")
    /\ waiter = [w \in Waiters |-> "none"]
    /\ piped = 0 /\ made = << >> /\ arrived = << >> /\ lost = {}

----------------------------------------------------------------------------
(* The application's client *)

Pending == {v \in Values : outcome[v] = "pending"}

\* A pending call keeps the ClientInner, and through it the PipelineInner.
ClientAlive == handle \/ Pending # {}

\* Pipeline::get_pipelined_cap, once.
GetPipelinedCap ==
    /\ pipeline /\ ~ handle /\ alive /\ 0 \notin Range(clients) /\ made = << >>
    /\ handle' = TRUE
    /\ IF pipeline_redirect = None
       THEN clients' = Append(clients, 0) /\ UNCHANGED client_redirect
       ELSE client_redirect' = pipeline_redirect /\ UNCHANGED clients
    /\ UNCHANGED <<vars, source, ready, pipeline_redirect, pipeline, waiter, piped, made, arrived,
                   lost>>

Forward(s, r) == arrived' = IF r = "cap" THEN arrived \o s ELSE arrived

\* Mutant of Call: it forwards as soon as the future is done.
CallOnReady(v) ==
    /\ handle /\ v \notin Range(made)
    /\ made' = Append(made, v)
    /\ IF ready = None
       THEN Push(v) /\ UNCHANGED arrived
       ELSE Forward(<<v>>, ready) /\ UNCHANGED vars
    /\ UNCHANGED <<source, ready, client_redirect, pipeline_redirect, clients, handle, pipeline,
                   waiter, piped, lost>>

\* Client::call
Call(v) ==
    /\ handle /\ v \notin Range(made)
    /\ made' = Append(made, v)
    /\ IF client_redirect = None
       THEN Push(v) /\ UNCHANGED arrived
       ELSE Forward(<<v>>, client_redirect) /\ UNCHANGED vars
    /\ UNCHANGED <<source, ready, client_redirect, pipeline_redirect, clients, handle, pipeline,
                   waiter, piped, lost>>

\* Mutant of WhenMoreResolved: it tells as soon as the future is done.
WhenReady(w) ==
    /\ handle /\ waiter[w] = "none"
    /\ waiter' = [waiter EXCEPT ![w] = IF ready = None THEN "waiting" ELSE "told"]
    /\ UNCHANGED <<vars, source, ready, client_redirect, pipeline_redirect, clients, handle,
                   pipeline, piped, made, arrived, lost>>

\* Client::when_more_resolved
WhenMoreResolved(w) ==
    /\ handle /\ waiter[w] = "none"
    /\ waiter' = [waiter EXCEPT ![w] = IF client_redirect = None THEN "waiting" ELSE "told"]
    /\ UNCHANGED <<vars, source, ready, client_redirect, pipeline_redirect, clients, handle,
                   pipeline, piped, made, arrived, lost>>

CanceledWaiters == [w \in Waiters |-> IF waiter[w] = "waiting" THEN "canceled" ELSE waiter[w]]

\* The last owner of the client goes: a handle, or a call that is cancelled.
DropHandle ==
    /\ handle
    /\ handle' = FALSE
    /\ IF Pending = {} /\ alive
       THEN DropQueue /\ waiter' = CanceledWaiters
       ELSE UNCHANGED <<vars, waiter>>
    /\ UNCHANGED <<source, ready, client_redirect, pipeline_redirect, clients, pipeline, piped,
                   made, arrived, lost>>

CancelCall(v) ==
    /\ DropPromise(v)
    /\ waiter' = IF handle \/ Pending \ {v} # {} THEN waiter ELSE CanceledWaiters
    /\ UNCHANGED <<source, ready, client_redirect, pipeline_redirect, clients, handle, pipeline,
                   piped, made, arrived, lost>>

----------------------------------------------------------------------------
(* The peer's calls on the pipeline *)

\* get_message_target and call: a new client with one call, or the resolved one.
PipedCall ==
    /\ pipeline /\ piped < Piped
    /\ piped' = piped + 1
    /\ CASE pipeline_redirect = None -> clients' = Append(clients, piped') /\ UNCHANGED <<arrived, lost>>
         [] pipeline_redirect = "cap" -> Forward(<<piped'>>, "cap") /\ UNCHANGED <<clients, lost>>
         [] OTHER -> lost' = lost \cup {piped'} /\ UNCHANGED <<clients, arrived>>
    /\ UNCHANGED <<vars, source, ready, client_redirect, pipeline_redirect, handle, pipeline,
                   waiter, made>>

\* The answer lets go of its pipeline; clients that wait keep the PipelineInner.
DropPipeline ==
    /\ pipeline
    /\ pipeline' = FALSE
    /\ UNCHANGED <<vars, source, ready, client_redirect, pipeline_redirect, clients, handle, waiter,
                   piped, made, arrived, lost>>

----------------------------------------------------------------------------
(* Resolution *)

Queued == [k \in 1 .. Len(InIdOrder) |-> map[InIdOrder[k]]]

\* ClientInner::resolve: the queued calls, then the waiters.
ResolveClient(r) ==
    /\ client_redirect' = r
    /\ Drain
    /\ waiter' = [w \in Waiters |-> IF waiter[w] = "waiting" THEN "told" ELSE waiter[w]]

PipelineAlive == pipeline \/ clients # << >>

\* PipelineInnerSender::complete, or its drop, and PipelineInner::resolve: the
\* clients in the order they were handed out, each with its calls.
ResolvePipeline(r) ==
    LET CallsOf(c) == IF c # 0 THEN <<c>> ELSE IF ClientAlive THEN Queued ELSE << >>
        first[n \in 0 .. Len(clients)] ==
            IF n = 0 THEN << >> ELSE first[n - 1] \o CallsOf(clients[n]) IN
    /\ source = "pipeline" /\ ready = None
    /\ ready' = r
    /\ pipeline_redirect' = IF PipelineAlive THEN r ELSE None
    /\ clients' = << >>
    /\ Forward(first[Len(clients)], r)
    /\ lost' = IF r = "cap" THEN lost ELSE lost \cup (Range(clients) \ {0})
    /\ IF 0 \in Range(clients) /\ ClientAlive THEN ResolveClient(r)
       ELSE UNCHANGED <<vars, client_redirect, waiter>>
    /\ UNCHANGED <<source, handle, pipeline, piped, made>>

\* The future is done.
Ready(r) ==
    /\ source = "future" /\ ready = None
    /\ ready' = r
    /\ UNCHANGED <<vars, source, client_redirect, pipeline_redirect, clients, handle, pipeline,
                   waiter, piped, made, arrived, lost>>

\* Mutant of Drive: a call does not poll promise_to_drive.
DriveByWaiters ==
    /\ source = "future" /\ ready # None /\ client_redirect = None /\ ClientAlive
    /\ \E w \in Waiters : waiter[w] = "waiting"
    /\ Forward(Queued, ready)
    /\ ResolveClient(ready)
    /\ UNCHANGED <<source, ready, pipeline_redirect, clients, handle, pipeline, piped, made, lost>>

\* Whoever awaits a call or a resolution polls promise_to_drive.
Drive ==
    /\ source = "future" /\ ready # None /\ client_redirect = None /\ ClientAlive
    /\ Pending # {} \/ \E w \in Waiters : waiter[w] = "waiting"
    /\ Forward(Queued, ready)
    /\ ResolveClient(ready)
    /\ UNCHANGED <<source, ready, pipeline_redirect, clients, handle, pipeline, piped, made, lost>>

Outcomes == {"cap", "broken"}

QNext ==
    \/ GetPipelinedCap \/ DropHandle \/ PipedCall \/ DropPipeline \/ Drive
    \/ \E v \in Values : Call(v) \/ CancelCall(v)
    \/ \E w \in Waiters : WhenMoreResolved(w)
    \/ \E r \in Outcomes : ResolvePipeline(r) \/ Ready(r)

QSpec == QInit /\ [][QNext]_all_vars

\* The one who awaits is polled; a call that runs ends, so that its results are
\* completed or dropped; a future ends.
QFairness ==
    /\ WF_all_vars(Drive)
    /\ WF_all_vars(\E r \in Outcomes : ResolvePipeline(r) \/ Ready(r))
FairQSpec == QSpec /\ QFairness

----------------------------------------------------------------------------
(* Properties *)

States == {"none", "waiting", "told", "canceled"}

QTypeOK ==
    /\ TypeOK
    /\ source \in {"pipeline", "future"} /\ handle \in BOOLEAN /\ pipeline \in BOOLEAN
    /\ {ready, client_redirect, pipeline_redirect} \subseteq Outcomes \cup {None}
    /\ clients \in Seq(0 .. Piped) /\ piped \in 0 .. Piped /\ lost \subseteq 1 .. Piped
    /\ waiter \in [Waiters -> States] /\ made \in Seq(Values)

MadeBefore(x, y) ==
    IF x \in Values THEN \E i, j \in DOMAIN made : i < j /\ made[i] = x /\ made[j] = y ELSE x < y

\* Calls reach the capability in the order they were made, and once: those of the
\* application on its client, and those of the peer on the pipeline, whether they
\* were queued, in one client or in one each, or came after the resolution
\* (Client::call, ClientInner::resolve, PipelineInner::resolve).
ForwardedInOrder ==
    \A i, j \in DOMAIN arrived :
        i < j /\ (arrived[i] \in Values <=> arrived[j] \in Values)
            => MadeBefore(arrived[i], arrived[j])

\* "This needs to occur *before* any 'whenMoreResolved()' promises resolve"
\* (queued.rs): whoever has been told of the resolution can no longer overtake a
\* queued call.
ToldAfterForwarding == (\E w \in Waiters : waiter[w] = "told") => map = << >>

\* No call and no waiter is left behind: when the results are completed or dropped,
\* or the future is done, each has been forwarded, failed or been told.
QueuedCallsSettle ==
    /\ \A v \in Values : outcome[v] = "pending" ~> outcome[v] # "pending"
    /\ \A w \in Waiters : waiter[w] = "waiting" ~> waiter[w] # "waiting"
    /\ \A c \in 1 .. Piped : piped >= c ~> (c \in Range(arrived) \cup lost)
=============================================================================
