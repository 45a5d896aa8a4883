----------------------------- MODULE Questions -----------------------------
(***************************************************************************)
(* The life of a call on a two-party connection (capnp-rpc/src/rpc.rs):    *)
(* the question table of the vat that calls, the answer table of the vat   *)
(* that is called, and the two FIFO byte streams between them.  Each vat   *)
(* plays both roles on tables of their own; one direction is modelled.     *)
(*                                                                         *)
(* The client's QuestionRef is dropped when the application has dropped    *)
(* the promise, the response and every pipelined capability of a call, at  *)
(* any time.  The server's call finishes at any time.  Either vat may      *)
(* disconnect at any time (I/O error, Disconnector, a failed task).        *)
(* What the calls carry is the subject of module Capabilities.             *)
(***************************************************************************)
EXTENDS Integers, Sequences

CONSTANTS MaxIds,        \* bound on the question ids in use
          MaxRequests    \* bound on the requests built and not yet sent

ASSUME MaxIdsAssumption == MaxIds \in Nat
ASSUME MaxRequestsAssumption == MaxRequests \in Nat

Ids == 0 .. MaxIds - 1
Vats == {"client", "server"}

VARIABLES
    conn,                  \* ConnectionState.connection: TRUE for Ok(_)
    looping,               \* a message_loop task is waiting for a message
    failed,                \* vats whose handler rejected a message of the peer
    panicked,              \* the panics that have happened
    c2s, s2c,              \* messages sent and not yet received
    requests,              \* client: Requests built and not yet sent
    questions,             \* client: question ids whose slot is Some(_)
    is_awaiting_return,    \*    Question.is_awaiting_return
    self_ref,              \*    Question.self_ref is Some(_)
    question_refs,         \*    the QuestionRef objects alive
    fulfiller,             \*    QuestionRef.fulfiller is Some(_)
    answers,               \* server: ids in the answer table
    return_has_been_sent,  \*    Answer.return_has_been_sent
    received_finish,       \*    Answer.received_finish
    running                \*    calls whose future is still alive

client_vars == <<requests, questions, is_awaiting_return, self_ref,
                 question_refs, fulfiller>>
server_vars == <<answers, return_has_been_sent, received_finish, running>>
conn_vars == <<conn, looping, failed>>
vars == <<conn_vars, panicked, c2s, s2c, client_vars, server_vars>>

ReturnTypes == {"Results", "Exception", "Canceled"}
ToServer == [type : {"Call", "Bootstrap", "Finish"}, id : Ids]
                \cup [type : {"Abort", "Unimplemented"}]
ToClient == [type : ReturnTypes, id : Ids] \cup [type : {"Abort"}]
Panics == {"bootstrap", "drop_question_ref", "dangling_question_ref",
           "answer_has_sent_return"}

TypeOK ==
    /\ conn \in [Vats -> BOOLEAN]
    /\ looping \in [Vats -> BOOLEAN]
    /\ failed \in SUBSET Vats
    /\ panicked \in SUBSET Panics
    /\ c2s \in Seq(ToServer)
    /\ s2c \in Seq(ToClient)
    /\ requests \in 0 .. MaxRequests
    /\ questions \in SUBSET Ids
    /\ is_awaiting_return \in SUBSET questions
    /\ self_ref \in SUBSET questions
    /\ question_refs \in SUBSET Ids
    /\ fulfiller \in SUBSET question_refs
    /\ answers \in SUBSET Ids
    /\ return_has_been_sent \in SUBSET answers
    /\ received_finish \in SUBSET answers
    /\ running \in SUBSET answers

Init ==
    /\ conn = [v \in Vats |-> TRUE]
    /\ looping = [v \in Vats |-> TRUE]
    /\ failed = {}
    /\ panicked = {}
    /\ c2s = << >>
    /\ s2c = << >>
    /\ requests = 0
    /\ questions = {}
    /\ is_awaiting_return = {}
    /\ self_ref = {}
    /\ question_refs = {}
    /\ fulfiller = {}
    /\ answers = {}
    /\ return_has_been_sent = {}
    /\ received_finish = {}
    /\ running = {}

----------------------------------------------------------------------------
(* Connection plumbing *)

Msg(t, q) == [type |-> t, id |-> q]
Abort == [type |-> "Abort"]

\* A message handed to a terminated write queue is never written.
ClientSends(m) == c2s' = IF conn["client"] THEN Append(c2s, m) ELSE c2s
ServerSends(m) == s2c' = IF conn["server"] THEN Append(s2c, m) ELSE s2c

\* Mutant of DisconnectClient: the promises are left pending.
DisconnectRejectsNothing ==
    /\ conn' = [conn EXCEPT !["client"] = FALSE]
    /\ UNCHANGED fulfiller
    /\ ClientSends(Abort)

\* ConnectionState::disconnect at either vat: it tells the peer, once; the
\* client rejects the promise of every question that is still referenced.
DisconnectClient ==
    /\ conn' = [conn EXCEPT !["client"] = FALSE]
    /\ fulfiller' = IF conn["client"] THEN fulfiller \ self_ref ELSE fulfiller
    /\ ClientSends(Abort)

DisconnectServer ==
    /\ conn' = [conn EXCEPT !["server"] = FALSE]
    /\ ServerSends(Abort)

\* The loop takes the next message only if the connection is still up; a
\* receive that was already waiting when the vat disconnected handles one more.
Handled(v) ==
    /\ looping' = [looping EXCEPT ![v] = conn[v]]
    /\ UNCHANGED <<conn, failed>>

ClientReceives(types) ==
    /\ looping["client"] /\ s2c # << >> /\ Head(s2c).type \in types
    /\ s2c' = Tail(s2c)

ServerReceives(types) ==
    /\ looping["server"] /\ c2s # << >> /\ Head(c2s).type \in types
    /\ c2s' = Tail(c2s)

\* handle_message returns Err: the task fails, the error handler disconnects
\* (an Err on a connection that is already down changes nothing).
ClientFails ==
    /\ DisconnectClient
    /\ looping' = [looping EXCEPT !["client"] = FALSE]

ServerFails ==
    /\ DisconnectServer
    /\ looping' = [looping EXCEPT !["server"] = FALSE]

Rejected(v) == failed' = IF conn[v] THEN failed \cup {v} ELSE failed

\* A message of another kind (Release, Resolve, Disembargo, a call in the other
\* direction) touches nothing here, but may be the last one the loop takes.
HandleOther(v) ==
    /\ looping[v] /\ ~ conn[v]
    /\ Handled(v)
    /\ UNCHANGED <<panicked, c2s, s2c, client_vars, server_vars>>

----------------------------------------------------------------------------
(* The client *)

\* Request::new fails at once on a broken connection.
NewRequest ==
    /\ conn["client"]
    /\ requests < MaxRequests
    /\ requests' = requests + 1
    /\ UNCHANGED <<conn_vars, panicked, c2s, s2c, questions, is_awaiting_return,
                   self_ref, question_refs, fulfiller, server_vars>>

\* ExportTable::push returns the smallest unused id (theorem
\* PushSmallestUnused of PromiseExportsProofs).
NextQuestionId(i) == i \notin questions /\ \A j \in Ids : j < i => j \in questions

PushQuestion(i) ==
    /\ questions' = questions \cup {i}
    /\ is_awaiting_return' = is_awaiting_return \cup {i}
    /\ self_ref' = self_ref \cup {i}
    /\ question_refs' = question_refs \cup {i}
    /\ fulfiller' = fulfiller \cup {i}

\* Request::send: no check of the connection.
Send ==
    \E i \in Ids :
        /\ requests > 0
        /\ requests' = requests - 1
        /\ NextQuestionId(i)
        /\ PushQuestion(i)
        /\ ClientSends(Msg("Call", i))
        /\ UNCHANGED <<conn_vars, panicked, s2c, server_vars>>

\* ConnectionState::bootstrap panics when it has lost the connection.
Bootstrap ==
    \E i \in Ids :
        /\ conn["client"]
        /\ NextQuestionId(i)
        /\ PushQuestion(i)
        /\ ClientSends(Msg("Bootstrap", i))
        /\ UNCHANGED <<conn_vars, panicked, s2c, requests, server_vars>>

BootstrapDisconnected ==
    /\ ~ conn["client"]
    /\ panicked' = panicked \cup {"bootstrap"}
    /\ UNCHANGED <<conn_vars, c2s, s2c, client_vars, server_vars>>

\* Mutant of DropQuestionRef: the slot is freed before the Return arrives.
DropFreesSlot(q) ==
    /\ q \in question_refs
    /\ question_refs' = question_refs \ {q}
    /\ fulfiller' = fulfiller \ {q}
    /\ ClientSends(Msg("Finish", q))
    /\ questions' = questions \ {q}
    /\ is_awaiting_return' = is_awaiting_return \ {q}
    /\ self_ref' = self_ref \ {q}
    /\ UNCHANGED <<conn_vars, panicked, s2c, requests, server_vars>>

\* QuestionRef::drop.
DropQuestionRef(q) ==
    /\ q \in question_refs
    /\ question_refs' = question_refs \ {q}
    /\ fulfiller' = fulfiller \ {q}
    /\ \/ /\ q \notin questions
          /\ panicked' = panicked \cup {"drop_question_ref"}
          /\ UNCHANGED <<c2s, questions, self_ref>>
       \/ /\ q \in questions
          /\ ClientSends(Msg("Finish", q))
          /\ questions' = IF q \in is_awaiting_return THEN questions ELSE questions \ {q}
          /\ self_ref' = self_ref \ {q}
          /\ UNCHANGED panicked
    /\ UNCHANGED <<conn_vars, s2c, requests, is_awaiting_return, server_vars>>

\* Mutant of ReturnToCaller: the slot is freed although a QuestionRef is left.
ReturnFreesSlot(m) ==
    /\ m.id \in self_ref
    /\ fulfiller' = fulfiller \ {m.id}
    /\ questions' = questions \ {m.id}
    /\ UNCHANGED <<panicked, c2s>>

\* A Return for a question somebody still waits for settles its promise.  A
\* Canceled one is answered with Unimplemented and settles nothing.
ReturnToCaller(m) ==
    /\ m.id \in self_ref
    /\ \/ /\ m.id \notin question_refs
          /\ m.type \in {"Results", "Exception"}
          /\ panicked' = panicked \cup {"dangling_question_ref"}
          /\ UNCHANGED <<fulfiller, c2s>>
       \/ /\ m.id \in question_refs
          /\ m.type \in {"Results", "Exception"}
          /\ fulfiller' = fulfiller \ {m.id}
          /\ UNCHANGED <<panicked, c2s>>
       \/ /\ m.type = "Canceled"
          /\ ClientSends([type |-> "Unimplemented"])
          /\ UNCHANGED <<panicked, fulfiller>>
    /\ UNCHANGED questions

\* The promise is gone and Finish was sent: the id becomes reusable.
ReturnAfterFinish(m) ==
    /\ m.id \notin self_ref
    /\ questions' = questions \ {m.id}
    /\ UNCHANGED <<panicked, fulfiller, c2s>>

AcceptReturn ==
    LET m == Head(s2c) IN
    /\ m.id \in questions
    /\ is_awaiting_return' = is_awaiting_return \ {m.id}
    /\ ReturnToCaller(m) \/ ReturnAfterFinish(m)
    /\ Handled("client")
    /\ UNCHANGED <<requests, self_ref, question_refs, server_vars>>

\* "Invalid question ID in Return message."
RejectReturn ==
    /\ Head(s2c).id \notin questions
    /\ ClientFails
    /\ Rejected("client")
    /\ UNCHANGED <<panicked, requests, questions, is_awaiting_return, self_ref,
                   question_refs, server_vars>>

HandleReturn == ClientReceives(ReturnTypes) /\ (AcceptReturn \/ RejectReturn)

ClientHandleAbort ==
    /\ ClientReceives({"Abort"})
    /\ ClientFails
    /\ UNCHANGED <<failed, panicked, requests, questions, is_awaiting_return,
                   self_ref, question_refs, server_vars>>

ClientDisconnects ==
    /\ conn["client"]
    /\ DisconnectClient
    /\ UNCHANGED <<looping, failed, panicked, s2c, requests, questions,
                   is_awaiting_return, self_ref, question_refs, server_vars>>

----------------------------------------------------------------------------
(* The server *)

\* "Received a new call on in-use question id" / "questionId is already in use"
RejectInUse ==
    /\ Head(c2s).id \in answers
    /\ ServerFails
    /\ Rejected("server")
    /\ UNCHANGED <<panicked, client_vars, server_vars>>

AcceptCall ==
    LET q == Head(c2s).id IN
    /\ q \notin answers
    /\ answers' = answers \cup {q}
    /\ running' = running \cup {q}
    /\ Handled("server")
    /\ UNCHANGED <<panicked, s2c, client_vars, return_has_been_sent, received_finish>>

\* get_message_target: the exports are gone once the vat has disconnected.
NoTarget ==
    /\ ~ conn["server"]
    /\ Handled("server")
    /\ UNCHANGED <<panicked, s2c, client_vars, server_vars>>

HandleCall == ServerReceives({"Call"}) /\ (AcceptCall \/ NoTarget \/ RejectInUse)

\* handle_bootstrap answers at once; it ignores the message once the vat has
\* disconnected.
AcceptBootstrap ==
    LET q == Head(c2s).id IN
    /\ \/ /\ conn["server"] /\ q \notin answers
          /\ answers' = answers \cup {q}
          /\ return_has_been_sent' = return_has_been_sent \cup {q}
          /\ ServerSends(Msg("Results", q))
       \/ /\ ~ conn["server"]
          /\ UNCHANGED <<answers, return_has_been_sent, s2c>>
    /\ Handled("server")
    /\ UNCHANGED <<panicked, client_vars, received_finish, running>>

HandleBootstrap ==
    /\ ServerReceives({"Bootstrap"})
    /\ AcceptBootstrap \/ (conn["server"] /\ RejectInUse)

EraseAnswer(q) ==
    /\ answers' = answers \ {q}
    /\ received_finish' = received_finish \ {q}
    /\ return_has_been_sent' = return_has_been_sent \ {q}

\* handle_finish also drops the answer's pipeline and completion promise.  The
\* call itself ends later, in CancelCall or CompleteCall.
AcceptFinish ==
    LET q == Head(c2s).id IN
    /\ q \in answers
    /\ \/ /\ q \in return_has_been_sent
          /\ EraseAnswer(q)
       \/ /\ q \notin return_has_been_sent
          /\ received_finish' = received_finish \cup {q}
          /\ UNCHANGED <<answers, return_has_been_sent>>
    /\ Handled("server")
    /\ UNCHANGED <<panicked, s2c, client_vars, running>>

\* "Invalid question ID in Finish message."
RejectFinish ==
    /\ Head(c2s).id \notin answers
    /\ ServerFails
    /\ Rejected("server")
    /\ UNCHANGED <<panicked, client_vars, server_vars>>

HandleFinish == ServerReceives({"Finish"}) /\ (AcceptFinish \/ RejectFinish)

\* Abort, and Unimplemented: handle_unimplemented accepts only Resolve.
ServerHandleAbort ==
    /\ ServerReceives({"Abort", "Unimplemented"})
    /\ ServerFails
    /\ IF Head(c2s).type = "Unimplemented" THEN Rejected("server") ELSE UNCHANGED failed
    /\ UNCHANGED <<panicked, client_vars, server_vars>>

\* answer_has_sent_return
AnswerHasSentReturn(q) ==
    \/ /\ q \notin answers
       /\ panicked' = panicked \cup {"answer_has_sent_return"}
       /\ UNCHANGED <<answers, received_finish, return_has_been_sent>>
    \/ /\ q \in answers \cap received_finish
       /\ EraseAnswer(q)
       /\ UNCHANGED panicked
    \/ /\ q \in answers \ received_finish
       /\ return_has_been_sent' = return_has_been_sent \cup {q}
       /\ UNCHANGED <<panicked, answers, received_finish>>

\* ResultsDone::from_results_inner, the Rpc variant.
CompleteCall(q) ==
    /\ q \in running
    /\ running' = running \ {q}
    /\ IF q \in received_finish
       THEN ServerSends(Msg("Canceled", q))
       ELSE \E t \in {"Results", "Exception"} : ServerSends(Msg(t, q))
    /\ AnswerHasSentReturn(q)
    /\ UNCHANGED <<conn_vars, c2s, client_vars>>

\* The LocallyRedirected variant, taken when the call first touches its
\* results after the vat has disconnected: nothing is sent or cleaned up.
CompleteLocally(q) ==
    /\ q \in running
    /\ ~ conn["server"]
    /\ running' = running \ {q}
    /\ UNCHANGED <<conn_vars, panicked, c2s, s2c, client_vars, answers,
                   return_has_been_sent, received_finish>>

\* Finish cancels the call unless a pipelined call holds its pipeline: the
\* future is dropped, and with it whatever would have sent the Return.
CancelCall(q) ==
    /\ q \in running \cap received_finish
    /\ running' = running \ {q}
    /\ UNCHANGED <<conn_vars, panicked, c2s, s2c, client_vars, answers,
                   return_has_been_sent, received_finish>>

ServerDisconnects ==
    /\ conn["server"]
    /\ DisconnectServer
    /\ UNCHANGED <<looping, failed, panicked, c2s, client_vars, server_vars>>

----------------------------------------------------------------------------
ClientNext ==
    \/ NewRequest \/ Send \/ Bootstrap \/ BootstrapDisconnected
    \/ \E q \in Ids : DropQuestionRef(q)
    \/ HandleReturn \/ ClientHandleAbort \/ ClientDisconnects

ServerNext ==
    \/ HandleCall \/ HandleBootstrap \/ HandleFinish \/ ServerHandleAbort
    \/ \E q \in Ids : CompleteCall(q) \/ CompleteLocally(q) \/ CancelCall(q)
    \/ ServerDisconnects

Next == ClientNext \/ ServerNext \/ \E v \in Vats : HandleOther(v)

Spec == Init /\ [][Next]_vars

\* The executor polls both message loops, and every call ends: its method
\* returns, or it is cancelled.
ClientLoop == HandleReturn \/ ClientHandleAbort
ServerLoop == HandleCall \/ HandleBootstrap \/ HandleFinish \/ ServerHandleAbort
CallEnds(q) == CompleteCall(q) \/ CompleteLocally(q) \/ CancelCall(q)

Fairness ==
    /\ WF_vars(ClientLoop)
    /\ WF_vars(ServerLoop)
    /\ \A q \in Ids : WF_vars(CallEnds(q))

FairSpec == Spec /\ Fairness

----------------------------------------------------------------------------
(* Properties *)

\* Neither vat ever rejects a message of the other: no Call or Bootstrap
\* arrives on an id whose answer is still in the table, no Finish or Return
\* for an unknown id, and no Canceled Return for a question somebody waits for
\* (which the peer would reject as an unknown Unimplemented), although ids are
\* reused, Return and Finish cross, and either side may disconnect.
NoProtocolError == failed = {}

\* The branches the code marks unreachable!() or expects never to take are not
\* taken: QuestionRef::drop finds its slot, a Return's self_ref is alive,
\* answer_has_sent_return finds its answer.
NoUnreachable == panicked \subseteq {"bootstrap"}

\* A question asked on a working connection is settled or dropped: a Return
\* arrives, or the disconnect rejects it, even when the server goes away with
\* the call running.
QuestionsSettle ==
    \A q \in Ids : (q \in fulfiller /\ conn["client"]) ~> (q \notin fulfiller)

\* "Disconnected; fall back to a regular send() which will fail appropriately."
\* (rpc.rs, Request::tail_send): once the client has disconnected, no promise
\* it handed out is left without a result.
DisconnectedSendFails == ~ conn["client"] => fulfiller = {}

\* A cancelled question gets its Return ("send back a Return message with
\* canceled set", Finish in rpc.capnp), which frees its id.
CanceledQuestionsFreed ==
    \A q \in Ids : (q \in questions \ self_ref)
                        ~> (q \notin questions \/ ~ conn["client"] \/ ~ conn["server"])

----------------------------------------------------------------------------
(* The inductive invariant behind NoProtocolError and NoUnreachable: what the
   two tables and the two streams say about the same id.  Conjuncts that hold
   only while the client can still send, or the server still listens, say so. *)

C2S == 1 .. Len(c2s)
S2C == 1 .. Len(s2c)

CallAt(i, q) == i \in C2S /\ c2s[i].type \in {"Call", "Bootstrap"} /\ c2s[i].id = q
FinishAt(i, q) == i \in C2S /\ c2s[i].type = "Finish" /\ c2s[i].id = q
ReturnAt(i, q) == i \in S2C /\ s2c[i].type \in ReturnTypes /\ s2c[i].id = q

CallPending(q) == \E i \in C2S : CallAt(i, q)
ReturnPending(q) == \E i \in S2C : ReturnAt(i, q)
CanceledPending(q) == \E i \in S2C : ReturnAt(i, q) /\ s2c[i].type = "Canceled"

\* A Finish ends the call the server knows by this id, or, when it follows a
\* Call that is still under way, that one.
CallBefore(i, q) == \E j \in C2S : j < i /\ CallAt(j, q)
OldFinishPending(q) == \E i \in C2S : FinishAt(i, q) /\ ~ CallBefore(i, q)
NewFinishPending(q) == \E i \in C2S : FinishAt(i, q) /\ CallBefore(i, q)

Unreturned == answers \ return_has_been_sent
Unfinished == answers \ received_finish

TablesAgree ==
    /\ self_ref = question_refs
    /\ running \cap return_has_been_sent = {}
    /\ return_has_been_sent \cap received_finish = {}

\* At most one Call and one Return per id are under way; two Finishes have a
\* Call between them.
CallsDistinct ==
    \A q \in Ids : \A i, j \in C2S : CallAt(i, q) /\ CallAt(j, q) => i = j

FinishesSeparated ==
    \A q \in Ids : \A i, j \in C2S :
        i < j /\ FinishAt(i, q) /\ FinishAt(j, q)
            => \E k \in C2S : i < k /\ k < j /\ CallAt(k, q)

ReturnsDistinct ==
    \A q \in Ids : \A i, j \in S2C : ReturnAt(i, q) /\ ReturnAt(j, q) => i = j

NothingUnimplemented == \A i \in C2S : c2s[i].type # "Unimplemented"

\* Whatever is under way towards a Return has a question waiting for it.
Awaited(q) ==
    /\ CallPending(q) => /\ q \in is_awaiting_return
                         /\ ~ ReturnPending(q)
                         /\ q \notin Unreturned
    /\ q \in Unreturned => q \in is_awaiting_return
    /\ ReturnPending(q) => q \in is_awaiting_return /\ q \notin Unreturned

\* Whatever is under way after a Finish has nobody waiting for the result.
Unreferenced(q) ==
    /\ CanceledPending(q) => q \notin self_ref
    /\ q \in received_finish => q \notin self_ref
    /\ OldFinishPending(q) /\ q \in Unreturned => q \notin self_ref
    /\ NewFinishPending(q) => q \notin self_ref

\* What the server relies on when it takes the next message.
ServerListening(q) ==
    looping["server"] =>
        /\ CallPending(q) /\ q \in answers => OldFinishPending(q)
        /\ OldFinishPending(q) => q \in Unfinished

\* What the client relies on when it sends the next message.
ClientSending(q) ==
    conn["client"] =>
        /\ q \in self_ref /\ OldFinishPending(q) => CallPending(q)
        /\ q \in questions \ self_ref /\ CallPending(q) => NewFinishPending(q)

BothUp(q) ==
    conn["client"] /\ looping["server"] =>
        /\ q \in answers \ questions => OldFinishPending(q)
        /\ q \in self_ref /\ ~ CallPending(q) => q \in Unfinished
        /\ q \in (questions \ self_ref) \cap Unfinished
               => OldFinishPending(q) \/ NewFinishPending(q)

Streams ==
    /\ CallsDistinct
    /\ FinishesSeparated
    /\ ReturnsDistinct
    /\ NothingUnimplemented

Agreement(q) ==
    /\ Awaited(q)
    /\ Unreferenced(q)
    /\ ServerListening(q)
    /\ ClientSending(q)
    /\ BothUp(q)

\* The whole invariant: every message under way for an id matches what both
\* tables say of it, so that handle_message accepts it when it arrives.
IInv ==
    /\ TypeOK
    /\ NoProtocolError
    /\ NoUnreachable
    /\ TablesAgree
    /\ Streams
    /\ \A q \in Ids : Agreement(q)
=============================================================================
