----------------------------- MODULE RpcSystem ------------------------------
(***************************************************************************)
(* The life of one vat: RpcSystem (capnp-rpc/src/lib.rs) with its TaskSet, *)
(* the two-party network (twoparty.rs), ConnectionState::disconnect,       *)
(* message_loop and the Disconnector (rpc.rs), on top of the write queue   *)
(* of module WriteQueue.  The messages are those of WriteQueue; the peer   *)
(* is the input stream, which has messages, ends or fails.                 *)
(*                                                                         *)
(* ConnectionStates are numbered in the order they are made: a bootstrap   *)
(* after a disconnect makes another one on the same connection.            *)
(***************************************************************************)
EXTENDS WriteQueue

CONSTANT MaxStates      \* bound on the ConnectionStates that are made

ASSUME MaxStatesAssumption ==
    MaxStates \in Nat \ {0} /\ MaxStates <= MaxTerminates /\ MaxStates <= MaxSends

States == 1 .. MaxStates

VARIABLES
    system,             \* the future: "running", "done", or "dropped" before that
    accepted,           \* whether the accept task has taken VatNetwork.connection
    connection_state,   \* RpcSystem.connection_state, 0 for None
    connection,         \* ConnectionState.connection: "none" (no such state), "ok", "err"
    held,               \* the states the application has a client of
    draft,              \* the states an OutgoingMessage has been begun on
    loop,               \* of each message loop: "none", "reading", "broken", "over"
    input,              \* the input stream: 0 in ConnectionInner, or the loop that has it, or lost
    shutdown,           \* the on_disconnect task: "none", "waiting", "sent", "closing", "done"
    peer,               \* "open", or "closed": the input ends
    disconnector,       \* "new", "disconnecting", "disconnected"
    stream_failed       \* whether a write or a flush failed

life == <<system, accepted, peer, disconnector, stream_failed>>
states == <<connection_state, connection, held, draft, loop, input, shutdown>>
all_vars == <<vars, life, states>>

Lost == -1

RInit ==
    /\ Init
    /\ system = "running" /\ accepted = FALSE /\ peer = "open"
    /\ disconnector = "new" /\ stream_failed = FALSE
    /\ connection_state = 0
    /\ connection = [s \in States |-> "none"]
    /\ held = {} /\ draft = {}
    /\ loop = [s \in States |-> "none"]
    /\ input = 0
    /\ shutdown = [s \in States |-> "none"]

----------------------------------------------------------------------------
(* What owns what *)

\* The Rcs of a ConnectionState; its tasks have weak references only.
Alive(s) == connection_state = s \/ s \in held \cup draft

\* The Connection handles: of the network before accept, of a state that is up,
\* of a shutdown under way.
InnerAlive ==
    \/ ~ accepted /\ system # "dropped"
    \/ \E s \in States : \/ connection[s] = "ok" /\ Alive(s)
                         \/ shutdown[s] \in {"sent", "closing"}

----------------------------------------------------------------------------
(* Messages *)

\* The bound on messages leaves room for the Abort of each state.
Sends ==
    /\ calls + MaxStates - terminates < MaxSends
    /\ calls' = calls + 1
    /\ Enqueue(<<calls'>>)
    /\ UNCHANGED <<senders, terminates, sent_before, phase, current, in_flight, stream>>

\* The vat sends a message: a call, a Return, anything.
SendMessage(s) ==
    /\ Alive(s) /\ connection[s] = "ok"
    /\ Sends
    /\ UNCHANGED <<life, states>>

\* new_outgoing_message, and send when the connection may be gone.
BeginMessage(s) ==
    /\ Alive(s) /\ connection[s] = "ok" /\ s \notin draft
    /\ draft' = draft \cup {s}
    /\ UNCHANGED <<vars, life, connection_state, connection, held, loop, input, shutdown>>

SendDraft(s) ==
    /\ s \in draft
    /\ draft' = draft \ {s}
    /\ Sends
    /\ UNCHANGED <<life, connection_state, connection, held, loop, input, shutdown>>

DropClients(s) ==
    /\ s \in held
    /\ held' = held \ {s}
    /\ UNCHANGED <<vars, life, connection_state, connection, draft, loop, input, shutdown>>

----------------------------------------------------------------------------
(* Connecting *)

\* message_loop, as it is called: it takes the stream at once.  If another loop
\* has it, the task fails ("this should not be possible").
StartLoop(s, here) ==
    IF here THEN loop' = [loop EXCEPT ![s] = "reading"] /\ input' = s
            ELSE loop' = [loop EXCEPT ![s] = "broken"] /\ UNCHANGED input

\* get_connection_state
GetConnectionState(s) ==
    IF connection_state # 0
    THEN s = connection_state /\ UNCHANGED <<connection_state, connection, loop, input, shutdown>>
    ELSE /\ connection[s] = "none" /\ \A r \in 1 .. s - 1 : connection[r] # "none"
         /\ connection_state' = s
         /\ connection' = [connection EXCEPT ![s] = "ok"]
         /\ shutdown' = [shutdown EXCEPT ![s] = "waiting"]
         /\ StartLoop(s, input = 0)

\* accept_loop: if there is a state already, the handle is dropped.
Accept ==
    /\ system = "running" /\ ~ accepted
    /\ accepted' = TRUE
    /\ \E s \in States : GetConnectionState(s)
    /\ UNCHANGED <<vars, system, peer, disconnector, stream_failed, held, draft>>

\* RpcSystem::bootstrap.  Otherwise it panics: VatNetwork::connect when there is no
\* Connection left, ConnectionState::bootstrap on a state that is down.
Bootstrap ==
    /\ system = "running" /\ InnerAlive
    /\ \E s \in States :
           /\ connection[s] # "err"
           /\ GetConnectionState(s)
           /\ held' = held \cup {s}
    /\ Sends
    /\ UNCHANGED <<life, draft>>

----------------------------------------------------------------------------
(* Disconnecting *)

\* Mutant of Disconnect: the queue is terminated before the Abort is sent.
DisconnectAbortLast(s) ==
    /\ calls' = calls + 1 /\ terminates' = terminates + 1
    /\ sent_before' = [sent_before EXCEPT ![-terminates'] = calls']
    /\ Enqueue(<<-terminates', calls'>>)
    /\ connection' = [connection EXCEPT ![s] = "err"]
    /\ shutdown' = [shutdown EXCEPT ![s] = IF system = "dropped" THEN "done" ELSE "sent"]
    /\ UNCHANGED <<senders, phase, current, in_flight, stream>>

\* ConnectionState::disconnect on a state that is up: the Abort, terminate, and
\* the promise with the connection to the on_disconnect task.
Disconnect(s) ==
    /\ calls' = calls + 1 /\ terminates' = terminates + 1
    /\ sent_before' = [sent_before EXCEPT ![-terminates'] = calls']
    /\ Enqueue(<<calls', -terminates'>>)
    /\ connection' = [connection EXCEPT ![s] = "err"]
    /\ shutdown' = [shutdown EXCEPT ![s] = IF system = "dropped" THEN "done" ELSE "sent"]
    /\ UNCHANGED <<senders, phase, current, in_flight, stream>>

DisconnectIfUp(s) ==
    IF Alive(s) /\ connection[s] = "ok" THEN Disconnect(s)
                                        ELSE UNCHANGED <<vars, connection, shutdown>>

\* A message arrives and is handled; the loop asks for the next if the state is up.
\* If the handler fails, and always on Abort, the state disconnects.
HandleMessage(s) ==
    /\ system = "running" /\ loop[s] = "reading" /\ peer = "open"
    /\ \/ /\ Alive(s) /\ connection[s] = "ok"
          /\ held' \in {held, held \cup {s}}
          /\ UNCHANGED <<vars, connection, loop, input, shutdown>>
       \/ /\ loop' = [loop EXCEPT ![s] = "over"] /\ input' = 0
          /\ DisconnectIfUp(s)
          /\ UNCHANGED held
    /\ UNCHANGED <<life, connection_state, draft>>

PeerCloses ==
    /\ peer = "open"
    /\ peer' = "closed"
    /\ UNCHANGED <<vars, system, accepted, disconnector, stream_failed, states>>

\* Mutant of ReadEnd: the end of the input ends the loop and nothing else.
ReadEndQuietly(s) ==
    /\ system = "running" /\ loop[s] = "reading" /\ peer = "closed"
    /\ loop' = [loop EXCEPT ![s] = "over"]
    /\ input' = 0
    /\ UNCHANGED <<vars, life, connection_state, connection, held, draft, shutdown>>

\* The future of the system goes, and with it all its tasks and what they own.
TasksGo ==
    /\ system' = "dropped"
    /\ IF phase = "over" THEN UNCHANGED vars ELSE DropTask
    /\ loop' = [s \in States |-> IF loop[s] = "none" THEN "none" ELSE "over"]
    /\ shutdown' = [s \in States |-> IF shutdown[s] = "none" THEN "none" ELSE "done"]
    /\ UNCHANGED <<connection, input>>

\* The stream is at its end, and is given back; or the read fails, and it is not.
\* At the end, the loop of a state that is gone panics ("message loop outlived
\* connection state?"), and the system goes with it.
ReadEnd(s) ==
    /\ system = "running" /\ loop[s] = "reading" /\ peer = "closed"
    /\ \/ /\ input' \in IF Alive(s) THEN {0, Lost} ELSE {Lost}
          /\ loop' = [loop EXCEPT ![s] = "over"]
          /\ DisconnectIfUp(s)
          /\ UNCHANGED system
       \/ ~ Alive(s) /\ TasksGo
    /\ UNCHANGED <<accepted, peer, disconnector, stream_failed, connection_state, held, draft>>

\* The task of a loop that found no stream fails.
LoopFails(s) ==
    /\ system = "running" /\ loop[s] = "broken"
    /\ loop' = [loop EXCEPT ![s] = "over"]
    /\ DisconnectIfUp(s)
    /\ UNCHANGED <<life, connection_state, held, draft, input>>

\* The on_disconnect task clears the reference, whatever the shutdown does ...
OnDisconnect(s) ==
    /\ system = "running" /\ shutdown[s] = "sent"
    /\ shutdown' = [shutdown EXCEPT ![s] = "closing"]
    /\ connection_state' = 0
    /\ UNCHANGED <<vars, life, connection, held, draft, loop, input>>

\* Mutants of FinishShutdown: the connection is dropped at once, or kept.
FinishEarly(s) ==
    /\ system = "running" /\ shutdown[s] = "closing"
    /\ shutdown' = [shutdown EXCEPT ![s] = "done"]
    /\ UNCHANGED <<vars, life, connection_state, connection, held, draft, loop, input>>
FinishNever(s) == FinishEarly(s) /\ FALSE

\* ... and ends with the future of terminate, dropping its connection.
FinishShutdown(s) ==
    /\ system = "running" /\ shutdown[s] = "closing" /\ outcome[-s] # "pending"
    /\ shutdown' = [shutdown EXCEPT ![s] = "done"]
    /\ UNCHANGED <<vars, life, connection_state, connection, held, draft, loop, input>>

\* drive_until_shutdown: the write queue, then the drop of the last Connection;
\* then the TaskSet is terminated and the future is done.
Drive ==
    /\ system = "running"
    /\ \/ /\ TakeMessage \/ TakeDone \/ WriteDone \/ FlushDone
          /\ UNCHANGED <<system, stream_failed>>
       \/ (WriteFails \/ FlushFails) /\ stream_failed' = TRUE /\ UNCHANGED system
       \/ /\ phase = "over" /\ ~ InnerAlive
          /\ system' = "done"
          /\ UNCHANGED <<vars, stream_failed>>
    /\ UNCHANGED <<accepted, peer, disconnector, states>>

\* The application drops the system.
DropSystem ==
    /\ system = "running"
    /\ TasksGo
    /\ UNCHANGED <<accepted, peer, disconnector, stream_failed, connection_state, held, draft>>

\* Mutant of PollDisconnector: it waits for the state that it has disconnected.
PollUntilUp ==
    \/ /\ disconnector = "new" /\ disconnector' = "disconnecting"
       /\ IF connection_state = 0 THEN UNCHANGED <<vars, connection, shutdown>>
                                  ELSE DisconnectIfUp(connection_state)
       /\ UNCHANGED <<system, accepted, peer, stream_failed, connection_state, held,
                      draft, loop, input>>
    \/ /\ disconnector = "disconnecting" /\ connection_state # 0
       /\ connection[connection_state] = "ok"
       /\ disconnector' = "disconnected"
       /\ UNCHANGED <<vars, system, accepted, peer, stream_failed, states>>

PollDisconnector ==
    \/ /\ disconnector = "new" /\ disconnector' = "disconnecting"
       /\ IF connection_state = 0 THEN UNCHANGED <<vars, connection, shutdown>>
                                  ELSE DisconnectIfUp(connection_state)
       /\ UNCHANGED <<system, accepted, peer, stream_failed, connection_state, held,
                      draft, loop, input>>
    \/ /\ disconnector = "disconnecting" /\ connection_state = 0
       /\ disconnector' = "disconnected"
       /\ UNCHANGED <<vars, system, accepted, peer, stream_failed, states>>

----------------------------------------------------------------------------
Tasks ==
    \/ Accept \/ Drive
    \/ \E s \in States : ReadEnd(s) \/ LoopFails(s) \/ OnDisconnect(s) \/ FinishShutdown(s)

RNext ==
    \/ Tasks \/ Bootstrap \/ PeerCloses \/ DropSystem \/ PollDisconnector
    \/ \E s \in States : \/ SendMessage(s) \/ BeginMessage(s) \/ SendDraft(s) \/ DropClients(s)
                         \/ HandleMessage(s)

RSpec == RInit /\ [][RNext]_all_vars

\* The executor polls the system and the Disconnector, and the stream answers
\* every request; a peer owes nothing.
FairRSpec ==
    /\ RSpec
    /\ WF_all_vars(Tasks)
    /\ WF_all_vars(disconnector = "disconnecting" /\ PollDisconnector)

----------------------------------------------------------------------------
(* Properties *)

RTypeOK ==
    /\ TypeOK
    /\ system \in {"running", "done", "dropped"} /\ accepted \in BOOLEAN
    /\ peer \in {"open", "closed"} /\ stream_failed \in BOOLEAN
    /\ disconnector \in {"new", "disconnecting", "disconnected"}
    /\ connection_state \in States \cup {0} /\ held \cup draft \subseteq States
    /\ connection \in [States -> {"none", "ok", "err"}]
    /\ loop \in [States -> {"none", "reading", "broken", "over"}]
    /\ input \in States \cup {0, Lost} /\ \A s \in States : loop[s] = "reading" => input = s
    /\ shutdown \in [States -> {"none", "waiting", "sent", "closing", "done"}]

\* The write queue never ends because its Senders are gone, so that messages are
\* cut off by a failure of the stream or a terminate only: the Connection outlives
\* the queue (twoparty.rs: ConnectionInner.sender; disconnect attaches the
\* Connection to the future of terminate).
SenderLeft == system = "running" /\ phase # "over" => InnerAlive

\* When the system's future is done and the stream has not failed, everything sent
\* before the disconnect has been written and flushed, the Abort included.
GracefulShutdown ==
    system = "done" /\ ~ stream_failed => outcome[-1] = "ok" /\ flushed >= sent_before[-1]

Down == \A s \in States : connection[s] # "ok"

\* After a disconnect, for whichever reason, the system's future is done, unless the
\* application drops it or bootstraps again: no task and no handle keeps it.
SystemFinishes == accepted /\ Down ~> system # "running" \/ ~ Down

\* When the peer is gone, no connection state stays up (message_loop), also one
\* that was made too late and finds the stream taken or lost.
LossNoticed ==
    \A s \in States : peer = "closed" /\ connection[s] = "ok" ~> connection[s] = "err" \/ system # "running"

\* A Disconnector that waits for a state that is down is done in the end, unless the
\* application drops the system, and the tasks that would end it, or bootstraps again.
DisconnectorFinishes ==
    disconnector = "disconnecting" /\ accepted /\ Down
        ~> disconnector = "disconnected" \/ ~ Down \/ system = "dropped"
=============================================================================
