---------------------------- MODULE Capabilities ----------------------------
(***************************************************************************)
(* What the calls of module Questions carry (capnp-rpc/src/rpc.rs): the    *)
(* export table of the called vat, the import table of the calling vat,    *)
(* and the reference counts the two keep of each other, through results,   *)
(* call parameters, Finish with releaseResultCaps, and Release.  Calls are *)
(* addressed to an imported capability or to the promised answer of an     *)
(* earlier question.  The variables of Questions keep their names and      *)
(* their meaning; self_ref stands for question_refs as well, which agree   *)
(* (TablesAgree in Questions).                                             *)
(*                                                                         *)
(* A capability is sent with its name, which no message of the code        *)
(* carries: it is there to tell whether an id still means what it meant.   *)
(***************************************************************************)
EXTENDS Integers, Sequences, FiniteSets, SequencesExt

CONSTANTS Caps,          \* the capabilities the server hosts (ClientHooks)
          Boot,          \* the one it offers as its bootstrap interface
          None,          \* no capability, no id
          MaxIds,        \* bound on the question ids in use
          MaxRequests,   \* bound on the requests built and not yet sent
          MaxCaps,       \* bound on the length of a cap table
          MaxRefs,       \* bound on the references to one export
          MaxQueue,      \* bound on the messages under way when a call is begun
          ClientOpen,    \* bounds on what a vat has open, calls and messages of its
          ServerOpen     \* own, when it disconnects of its own accord

ASSUME CapsAssumption == Boot \in Caps /\ IsFiniteSet(Caps)
ASSUME NoneAssumption == None \notin Caps \cup Int
ASSUME BoundsAssumption ==
    {MaxIds, MaxRequests, MaxCaps, MaxRefs, MaxQueue, ClientOpen, ServerOpen} \subseteq Nat

Ids == 0 .. MaxIds - 1
ExportIds == 0 .. Cardinality(Caps) - 1
Vats == {"client", "server"}
CapTables == UNION {[1 .. n -> Caps] : n \in 0 .. MaxCaps}

VARIABLES
    conn, looping, failed, panicked, c2s, s2c,       \* as in Questions
    questions, is_awaiting_return, self_ref, fulfiller,
    answers, return_has_been_sent, received_finish, running,
    requests,           \* client: the targets of the requests being built
    remote_ref_count,   \* client: ImportClient.remote_ref_count, 0 if there is none
    denotes,            \* client: the capability an import was received as
    export_cap,         \* server: Export.client_hook, None for an empty slot
    refcount,           \* server: Export.refcount
    exports_by_cap,     \* server: the reverse table
    result_exports,     \* server: Answer.result_exports
    waits_on            \* server: the call whose result a pipelined call waits for

conn_vars == <<conn, looping, failed>>
question_vars == <<questions, is_awaiting_return, self_ref, fulfiller>>
import_vars == <<remote_ref_count, denotes>>
answer_vars == <<answers, return_has_been_sent, received_finish, running, waits_on>>
export_vars == <<export_cap, refcount, exports_by_cap>>
client_vars == <<requests, question_vars, import_vars>>
server_vars == <<answer_vars, export_vars, result_exports>>
vars == <<conn_vars, panicked, c2s, s2c, client_vars, server_vars>>

Targets == [kind : {"import"}, id : ExportIds, cap : Caps]
               \cup [kind : {"answer"}, id : Ids, cap : {None}]
Descriptors == [id : ExportIds, cap : Caps]

Init ==
    /\ conn = [v \in Vats |-> TRUE]
    /\ looping = [v \in Vats |-> TRUE]
    /\ failed = {} /\ panicked = {}
    /\ c2s = << >> /\ s2c = << >>
    /\ questions = {} /\ is_awaiting_return = {} /\ self_ref = {} /\ fulfiller = {}
    /\ answers = {} /\ return_has_been_sent = {} /\ received_finish = {}
    /\ running = {} /\ waits_on = [q \in Ids |-> None]
    /\ requests = {}
    /\ remote_ref_count = [e \in ExportIds |-> 0]
    /\ denotes = [e \in ExportIds |-> None]
    /\ export_cap = [e \in ExportIds |-> None]
    /\ refcount = [e \in ExportIds |-> 0]
    /\ exports_by_cap = [c \in Caps |-> None]
    /\ result_exports = [q \in Ids |-> << >>]

----------------------------------------------------------------------------
(* Connection plumbing, as in Questions *)

Abort == [type |-> "Abort"]
ClientSends(m) == c2s' = IF conn["client"] THEN Append(c2s, m) ELSE c2s
ServerSends(m) == s2c' = IF conn["server"] THEN Append(s2c, m) ELSE s2c

DisconnectClient ==
    /\ conn' = [conn EXCEPT !["client"] = FALSE]
    /\ fulfiller' = IF conn["client"] THEN fulfiller \ self_ref ELSE fulfiller
    /\ ClientSends(Abort)

\* The server's exports are dropped; exports_by_cap is left as it was.
DisconnectServer ==
    /\ conn' = [conn EXCEPT !["server"] = FALSE]
    /\ export_cap' = IF conn["server"] THEN [e \in ExportIds |-> None] ELSE export_cap
    /\ refcount' = IF conn["server"] THEN [e \in ExportIds |-> 0] ELSE refcount
    /\ UNCHANGED exports_by_cap
    /\ ServerSends(Abort)

Handled(v) ==
    /\ looping' = [looping EXCEPT ![v] = conn[v]]
    /\ UNCHANGED <<conn, failed>>

ClientReceives(types) ==
    /\ looping["client"] /\ s2c # << >> /\ Head(s2c).type \in types
    /\ s2c' = Tail(s2c)

ServerReceives(types) ==
    /\ looping["server"] /\ c2s # << >> /\ Head(c2s).type \in types
    /\ c2s' = Tail(c2s)

ServerFails ==
    /\ DisconnectServer
    /\ looping' = [looping EXCEPT !["server"] = FALSE]
    /\ failed' = IF conn["server"] THEN failed \cup {"server"} ELSE failed

----------------------------------------------------------------------------
(* The client *)

Imported(e) == remote_ref_count[e] > 0

\* import, once per descriptor of a cap table: the ImportClient is found in the
\* table or created, and add_remote_ref counts the descriptor.
ReceiveCaps(caps) ==
    /\ remote_ref_count' = [e \in ExportIds |->
           remote_ref_count[e] + Cardinality({i \in DOMAIN caps : caps[i].id = e})]
    /\ denotes' = [e \in ExportIds |->
           IF ~ Imported(e) /\ \E d \in Range(caps) : d.id = e
           THEN (CHOOSE d \in Range(caps) : d.id = e).cap
           ELSE denotes[e]]

\* Client::new_call on an import or on a pipelined capability; the request
\* keeps its target alive.
NewRequest ==
    /\ conn["client"]
    /\ Cardinality(requests) < MaxRequests /\ Len(c2s) < MaxQueue
    /\ \E t \in Targets :
           /\ \/ t.kind = "import" /\ Imported(t.id) /\ t.cap = denotes[t.id]
              \/ t.kind = "answer" /\ t.id \in self_ref
           /\ requests' = requests \cup {t}
    /\ UNCHANGED <<conn_vars, panicked, c2s, s2c, question_vars, import_vars, server_vars>>

PushQuestion(i) ==
    /\ i \notin questions /\ \A j \in Ids : j < i => j \in questions
    /\ questions' = questions \cup {i}
    /\ is_awaiting_return' = is_awaiting_return \cup {i}
    /\ self_ref' = self_ref \cup {i}
    /\ fulfiller' = fulfiller \cup {i}

Send ==
    \E i \in Ids, t \in requests :
        /\ requests' = requests \ {t}
        /\ PushQuestion(i)
        /\ ClientSends([type |-> "Call", id |-> i, target |-> t])
        /\ UNCHANGED <<conn_vars, panicked, s2c, import_vars, server_vars>>

Bootstrap ==
    \E i \in Ids :
        /\ conn["client"]
        /\ Len(c2s) < MaxQueue /\ \A e \in ExportIds : refcount[e] < MaxRefs
        /\ PushQuestion(i)
        /\ ClientSends([type |-> "Bootstrap", id |-> i])
        /\ UNCHANGED <<conn_vars, panicked, s2c, requests, import_vars, server_vars>>

BootstrapDisconnected ==
    /\ ~ conn["client"]
    /\ panicked' = panicked \cup {"bootstrap"}
    /\ UNCHANGED <<conn_vars, c2s, s2c, client_vars, server_vars>>

\* Mutants of DropQuestionRef: the Finish always, or never, releases the results.
FinishWith(q, release) ==
    /\ q \in self_ref
    /\ \A t \in requests : t.kind = "answer" => t.id # q
    /\ ClientSends([type |-> "Finish", id |-> q, release |-> release])
    /\ questions' = IF q \in is_awaiting_return THEN questions ELSE questions \ {q}
    /\ self_ref' = self_ref \ {q}
    /\ fulfiller' = fulfiller \ {q}
    /\ UNCHANGED <<conn_vars, panicked, s2c, requests, is_awaiting_return, import_vars,
                   server_vars>>
FinishAlwaysReleases(q) == FinishWith(q, TRUE)
FinishNeverReleases(q) == FinishWith(q, FALSE)

\* QuestionRef::drop: the results are the server's to release unless the Return
\* has come and its capabilities have been imported.
DropQuestionRef(q) ==
    /\ q \in self_ref
    /\ \A t \in requests : t.kind = "answer" => t.id # q
    /\ ClientSends([type |-> "Finish", id |-> q, release |-> q \in is_awaiting_return])
    /\ questions' = IF q \in is_awaiting_return THEN questions ELSE questions \ {q}
    /\ self_ref' = self_ref \ {q}
    /\ fulfiller' = fulfiller \ {q}
    /\ UNCHANGED <<conn_vars, panicked, s2c, requests, is_awaiting_return, import_vars,
                   server_vars>>

\* ImportClient::drop, when the last reference is gone.
DropImport(e) ==
    /\ Imported(e)
    /\ \A t \in requests : t.kind = "import" => t.id # e
    /\ ClientSends([type |-> "Release", id |-> e, count |-> remote_ref_count[e]])
    /\ remote_ref_count' = [remote_ref_count EXCEPT ![e] = 0]
    /\ denotes' = [denotes EXCEPT ![e] = None]
    /\ UNCHANGED <<conn_vars, panicked, s2c, requests, question_vars, server_vars>>

\* The capabilities of a Return nobody waits for are not imported.
AcceptReturn(m) ==
    /\ m.id \in questions
    /\ is_awaiting_return' = is_awaiting_return \ {m.id}
    /\ IF m.id \in self_ref
       THEN /\ fulfiller' = IF m.type = "Canceled" THEN fulfiller ELSE fulfiller \ {m.id}
            /\ IF m.type = "Results" THEN ReceiveCaps(m.caps) ELSE UNCHANGED import_vars
            /\ IF m.type = "Canceled" THEN ClientSends([type |-> "Unimplemented"])
                                      ELSE UNCHANGED c2s
            /\ UNCHANGED questions
       ELSE /\ questions' = questions \ {m.id}
            /\ UNCHANGED <<fulfiller, c2s, import_vars>>
    /\ Handled("client")

RejectReturn(m) ==
    /\ m.id \notin questions
    /\ DisconnectClient
    /\ looping' = [looping EXCEPT !["client"] = FALSE]
    /\ failed' = IF conn["client"] THEN failed \cup {"client"} ELSE failed
    /\ UNCHANGED <<questions, is_awaiting_return, import_vars>>

HandleReturn ==
    /\ ClientReceives({"Results", "Exception", "Canceled"})
    /\ AcceptReturn(Head(s2c)) \/ RejectReturn(Head(s2c))
    /\ UNCHANGED <<panicked, requests, self_ref, server_vars>>

\* A call of the server to the client, of which only the parameters matter
\* here.  After the disconnect its target is gone and it is not looked at.
HandleServerCall ==
    /\ ClientReceives({"Call"})
    /\ IF conn["client"] THEN ReceiveCaps(Head(s2c).caps) ELSE UNCHANGED import_vars
    /\ Handled("client")
    /\ UNCHANGED <<panicked, c2s, requests, question_vars, server_vars>>

ClientHandleAbort ==
    /\ ClientReceives({"Abort"})
    /\ DisconnectClient
    /\ looping' = [looping EXCEPT !["client"] = FALSE]
    /\ UNCHANGED <<failed, panicked, requests, questions, is_awaiting_return, self_ref,
                   import_vars, server_vars>>

ClientDisconnects ==
    /\ conn["client"]
    /\ Cardinality(questions) + Cardinality(requests) + Len(c2s) <= ClientOpen
    /\ DisconnectClient
    /\ UNCHANGED <<looping, failed, panicked, s2c, requests, questions, is_awaiting_return,
                   self_ref, import_vars, server_vars>>

----------------------------------------------------------------------------
(* The server *)

\* Mutant of WriteDescriptor: an export that exists is not counted again.
KnownNotCounted(t, c) ==
    LET free == {e \in ExportIds : t.cap[e] = None}
        e == IF t.by_cap[c] # None THEN t.by_cap[c] ELSE CHOOSE i \in free : \A j \in free : i <= j
    IN  [t EXCEPT !.cap[e] = c, !.refcount[e] = IF t.by_cap[c] # None THEN @ ELSE 1,
                  !.by_cap[c] = e, !.sent = Append(@, [id |-> e, cap |-> c])]

\* write_descriptor: a capability that was exported before is counted again, a
\* new one takes the smallest free slot.  t holds the tables as they are
\* written, the ids and descriptors so far, and whether the code panicked.
WriteDescriptor(t, c) ==
    LET known == t.by_cap[c] # None
        free == {e \in ExportIds : t.cap[e] = None}
        e == IF known THEN t.by_cap[c] ELSE CHOOSE i \in free : \A j \in free : i <= j
    IN  IF known /\ t.cap[e] = None
        THEN [t EXCEPT !.unreachable = TRUE]
        ELSE [t EXCEPT !.cap[e] = c, !.refcount[e] = @ + 1, !.by_cap[c] = e,
                       !.sent = Append(@, [id |-> e, cap |-> c])]

WriteDescriptors(caps) ==
    FoldLeft(WriteDescriptor,
             [cap |-> export_cap, refcount |-> refcount, by_cap |-> exports_by_cap,
              sent |-> << >>, unreachable |-> FALSE],
             caps)

WithinBound(t) == \A e \in ExportIds : t.refcount[e] <= MaxRefs

Exported(t) ==
    /\ export_cap' = t.cap
    /\ refcount' = t.refcount
    /\ exports_by_cap' = t.by_cap

\* release_export(id, n): refused when n is more than is left, or the slot empty.
Releasable(e, n) == export_cap[e] # None /\ n <= refcount[e]

\* Mutant of ReleaseExports: the reverse table keeps the entry.
ReleaseKeepsEntry(n) ==
    /\ refcount' = [e \in ExportIds |-> refcount[e] - n[e]]
    /\ export_cap' = [e \in ExportIds |->
           IF n[e] > 0 /\ refcount[e] = n[e] THEN None ELSE export_cap[e]]
    /\ UNCHANGED exports_by_cap

\* Mutant of ReleaseExports: an export that nobody refers to is kept.
ReleaseKeepsExport(n) ==
    /\ refcount' = [e \in ExportIds |-> refcount[e] - n[e]]
    /\ UNCHANGED <<export_cap, exports_by_cap>>

ReleaseExports(n) ==
    LET gone == {e \in ExportIds : n[e] > 0 /\ refcount[e] = n[e]} IN
    /\ refcount' = [e \in ExportIds |-> refcount[e] - n[e]]
    /\ export_cap' = [e \in ExportIds |-> IF e \in gone THEN None ELSE export_cap[e]]
    /\ exports_by_cap' = [c \in Caps |->
           IF \E e \in gone : export_cap[e] = c THEN None ELSE exports_by_cap[c]]

\* get_message_target
ValidTarget(t) ==
    IF t.kind = "import" THEN export_cap[t.id] # None ELSE t.id \in answers

\* A pipelined call on a call that still runs is queued until that one is done.
HandleCall ==
    LET m == Head(c2s) IN
    /\ ServerReceives({"Call"})
    /\ IF ValidTarget(m.target) /\ m.id \notin answers
       THEN /\ answers' = answers \cup {m.id}
            /\ running' = running \cup {m.id}
            /\ waits_on' = [waits_on EXCEPT ![m.id] =
                   IF m.target.kind = "answer" /\ m.target.id \in running /\ conn["server"]
                   THEN m.target.id ELSE None]
            /\ Handled("server")
            /\ UNCHANGED <<s2c, export_vars>>
       ELSE ServerFails /\ UNCHANGED <<answers, running, waits_on>>
    /\ UNCHANGED <<panicked, client_vars, return_has_been_sent, received_finish, result_exports>>

\* handle_bootstrap releases the descriptor again when the id is in use.
HandleBootstrap ==
    LET q == Head(c2s).id
        t == WriteDescriptors(<<Boot>>)
    IN
    /\ ServerReceives({"Bootstrap"})
    /\ IF conn["server"] /\ q \notin answers
       THEN /\ Exported(t)
            /\ answers' = answers \cup {q}
            /\ return_has_been_sent' = return_has_been_sent \cup {q}
            /\ result_exports' = [result_exports EXCEPT ![q] = [i \in 1 .. 1 |-> t.sent[1].id]]
            /\ ServerSends([type |-> "Results", id |-> q, caps |-> t.sent])
            /\ Handled("server")
       ELSE /\ IF conn["server"] THEN ServerFails
                                 ELSE Handled("server") /\ UNCHANGED <<s2c, export_vars>>
            /\ UNCHANGED <<answers, return_has_been_sent, result_exports>>
    /\ UNCHANGED <<panicked, client_vars, received_finish, running, waits_on>>

EraseAnswer(q) ==
    /\ answers' = answers \ {q}
    /\ received_finish' = received_finish \ {q}
    /\ return_has_been_sent' = return_has_been_sent \ {q}

Count(es) == [e \in ExportIds |-> Cardinality({i \in DOMAIN es : es[i] = e})]

\* handle_finish: release_exports comes last, when the answer is gone already.
HandleFinish ==
    LET m == Head(c2s)
        n == Count(IF m.release THEN result_exports[m.id] ELSE << >>)
    IN
    /\ ServerReceives({"Finish"})
    /\ IF m.id \in return_has_been_sent
       THEN EraseAnswer(m.id)
       ELSE /\ received_finish' = received_finish \cup ({m.id} \cap answers)
            /\ UNCHANGED <<answers, return_has_been_sent>>
    /\ result_exports' = IF m.release \/ m.id \in return_has_been_sent
                         THEN [result_exports EXCEPT ![m.id] = << >>] ELSE result_exports
    /\ IF m.id \in answers /\ \A e \in ExportIds : n[e] > 0 => Releasable(e, n[e])
       THEN ReleaseExports(n) /\ Handled("server") /\ UNCHANGED s2c
       ELSE ServerFails
    /\ UNCHANGED <<panicked, client_vars, running, waits_on>>

HandleRelease ==
    LET m == Head(c2s) IN
    /\ ServerReceives({"Release"})
    /\ IF Releasable(m.id, m.count)
       THEN /\ ReleaseExports([e \in ExportIds |-> IF e = m.id THEN m.count ELSE 0])
            /\ Handled("server")
            /\ UNCHANGED s2c
       ELSE ServerFails
    /\ UNCHANGED <<panicked, client_vars, answer_vars, result_exports>>

\* Abort, and Unimplemented: handle_unimplemented accepts only Resolve.
ServerHandleAbort ==
    /\ ServerReceives({"Abort", "Unimplemented"})
    /\ DisconnectServer
    /\ looping' = [looping EXCEPT !["server"] = FALSE]
    /\ failed' = IF Head(c2s).type = "Unimplemented" /\ conn["server"]
                 THEN failed \cup {"server"} ELSE failed
    /\ UNCHANGED <<panicked, client_vars, answer_vars, result_exports>>

\* The calls queued on q go ahead once q has completed its pipeline.
CallDone(q) ==
    /\ running' = running \ {q}
    /\ waits_on' = [p \in Ids |-> IF waits_on[p] = q \/ p = q THEN None ELSE waits_on[p]]

\* Mutant of AnswerHasSentReturn: the answer is kept although it is finished.
ReturnKeepsAnswer(q, es) ==
    /\ return_has_been_sent' = return_has_been_sent \cup {q}
    /\ result_exports' = [result_exports EXCEPT ![q] = es]
    /\ UNCHANGED <<answers, received_finish>>

AnswerHasSentReturn(q, es) ==
    IF q \in received_finish
    THEN EraseAnswer(q) /\ UNCHANGED result_exports
    ELSE /\ return_has_been_sent' = return_has_been_sent \cup {q}
         /\ result_exports' = [result_exports EXCEPT ![q] = es]
         /\ UNCHANGED <<answers, received_finish>>

\* from_results_inner: a Return with results exports their capabilities first.
CompleteWithResults(q) ==
    \E caps \in CapTables :
        LET t == WriteDescriptors(caps) IN
        IF t.unreachable
        THEN /\ panicked' = panicked \cup {"write_descriptor"}
             /\ UNCHANGED <<s2c, answers, return_has_been_sent, received_finish,
                            export_vars, result_exports>>
        ELSE /\ WithinBound(t)
             /\ Exported(t)
             /\ ServerSends([type |-> "Results", id |-> q, caps |-> t.sent])
             /\ AnswerHasSentReturn(q, [i \in DOMAIN t.sent |-> t.sent[i].id])
             /\ UNCHANGED panicked

CompleteWithout(q, type) ==
    /\ ServerSends([type |-> type, id |-> q])
    /\ AnswerHasSentReturn(q, << >>)
    /\ UNCHANGED <<panicked, export_vars>>

CompleteCall(q) ==
    /\ q \in running /\ waits_on[q] = None
    /\ CallDone(q)
    /\ IF q \in received_finish
       THEN CompleteWithout(q, "Canceled")
       ELSE CompleteWithResults(q) \/ CompleteWithout(q, "Exception")
    /\ UNCHANGED <<conn_vars, c2s, client_vars>>

\* The LocallyRedirected variant, after the disconnect.
CompleteLocally(q) ==
    /\ q \in running /\ waits_on[q] = None
    /\ ~ conn["server"]
    /\ CallDone(q)
    /\ UNCHANGED <<conn_vars, panicked, c2s, s2c, client_vars, answers, return_has_been_sent,
                   received_finish, export_vars, result_exports>>

\* Finish cancels the call unless a call queued on it holds its pipeline.
CancelCall(q) ==
    /\ q \in running \cap received_finish
    /\ \A p \in running : waits_on[p] # q
    /\ CallDone(q)
    /\ UNCHANGED <<conn_vars, panicked, c2s, s2c, client_vars, answers, return_has_been_sent,
                   received_finish, export_vars, result_exports>>

\* Request::send at the server: a call to the client with capabilities of the
\* server among its parameters.
ServerCalls ==
    /\ conn["server"]
    /\ Len(s2c) < MaxQueue
    /\ \E caps \in CapTables \ {<< >>} :
           LET t == WriteDescriptors(caps) IN
           /\ WithinBound(t)
           /\ Exported(t)
           /\ ServerSends([type |-> "Call", caps |-> t.sent])
    /\ UNCHANGED <<conn_vars, panicked, c2s, client_vars, answer_vars, result_exports>>

ServerDisconnects ==
    /\ conn["server"]
    /\ Cardinality(answers) + Len(s2c) <= ServerOpen
    /\ DisconnectServer
    /\ UNCHANGED <<looping, failed, panicked, c2s, client_vars, answer_vars, result_exports>>

----------------------------------------------------------------------------
CallEnds(q) == CompleteCall(q) \/ CompleteLocally(q) \/ CancelCall(q)
ClientLoop == HandleReturn \/ HandleServerCall \/ ClientHandleAbort
ServerLoop == HandleCall \/ HandleBootstrap \/ HandleFinish \/ HandleRelease
                  \/ ServerHandleAbort

Next ==
    \/ NewRequest \/ Send \/ Bootstrap \/ BootstrapDisconnected
    \/ \E q \in Ids : DropQuestionRef(q)
    \/ \E e \in ExportIds : DropImport(e)
    \/ ClientLoop \/ ClientDisconnects
    \/ ServerLoop \/ ServerCalls \/ ServerDisconnects
    \/ \E q \in Ids : CallEnds(q)

Spec == Init /\ [][Next]_vars

FairSpec == Spec /\ WF_vars(ClientLoop) /\ WF_vars(ServerLoop)
                 /\ \A q \in Ids : WF_vars(CallEnds(q))

----------------------------------------------------------------------------
(* Properties *)

TypeOK ==
    /\ conn \in [Vats -> BOOLEAN] /\ looping \in [Vats -> BOOLEAN]
    /\ failed \subseteq Vats /\ panicked \subseteq {"bootstrap", "write_descriptor"}
    /\ is_awaiting_return \cup self_ref \subseteq questions /\ questions \subseteq Ids
    /\ fulfiller \subseteq self_ref
    /\ return_has_been_sent \cup received_finish \cup running \subseteq answers
    /\ answers \subseteq Ids
    /\ requests \subseteq Targets
    /\ waits_on \in [Ids -> Ids \cup {None}]
    /\ remote_ref_count \in [ExportIds -> Nat] /\ denotes \in [ExportIds -> Caps \cup {None}]
    /\ export_cap \in [ExportIds -> Caps \cup {None}] /\ refcount \in [ExportIds -> Nat]
    /\ exports_by_cap \in [Caps -> ExportIds \cup {None}]
    /\ result_exports \in [Ids -> Seq(ExportIds)]

\* The tables and messages of Questions inside this module.
CallMessage(m) == m.type \in {"Bootstrap", "Finish", "Abort", "Unimplemented"}
                      \/ (m.type = "Call" /\ "id" \in DOMAIN m)
                      \/ m.type \in {"Results", "Exception", "Canceled"}
Plain(m) == IF "id" \in DOMAIN m THEN [type |-> m.type, id |-> m.id] ELSE [type |-> m.type]
PlainStream(s) == LET t == SelectSeq(s, CallMessage) IN [i \in DOMAIN t |-> Plain(t[i])]

Q == INSTANCE Questions WITH
         question_refs <- self_ref,
         requests <- Cardinality(requests),
         panicked <- panicked \ {"write_descriptor"},
         c2s <- PlainStream(c2s),
         s2c <- PlainStream(s2c)

\* Capabilities in results and parameters change nothing of the life of a call:
\* with the capabilities left out, this is the protocol of Questions.
ImplementsQuestions == Q!Spec

\* Neither vat rejects a message of the other: no Call on a capability or an
\* answer that is gone, no Release of more references than there are, no Finish
\* that releases too much.
NoProtocolError == failed = {}

\* Where the references to an export are: under way to an import, given back by
\* a Release under way, or to be given back by the Finish of a dropped question.
UnderWay(e) == {<<i, j>> \in (1 .. Len(s2c)) \X (1 .. MaxCaps + 1) :
    /\ s2c[i].type = "Call" \/ (s2c[i].type = "Results" /\ s2c[i].id \in self_ref)
    /\ j \in DOMAIN s2c[i].caps /\ s2c[i].caps[j].id = e}
Returning(e) == {<<i, n>> \in (1 .. Len(c2s)) \X (1 .. 2 * MaxRefs + MaxIds) :
    c2s[i].type = "Release" /\ c2s[i].id = e /\ n <= c2s[i].count}
FinishReleases(q) == \E i \in DOMAIN c2s :
    /\ c2s[i].type = "Finish" /\ c2s[i].id = q /\ c2s[i].release
    /\ \A j \in 1 .. i - 1 : c2s[j].type \in {"Call", "Bootstrap"} => c2s[j].id # q
Unclaimed(e) == {<<q, j>> \in Ids \X (1 .. MaxCaps + 1) :
    FinishReleases(q) /\ j \in DOMAIN result_exports[q] /\ result_exports[q][j] = e}

\* An export's count is exactly the references the client holds, will hold or
\* is giving back: cancelling a call while its Return is under way, importing
\* the same capability again and releasing it at the same time lose none and
\* count none twice.
RefcountBalance ==
    conn["client"] /\ conn["server"] =>
        \A e \in ExportIds :
            refcount[e] = remote_ref_count[e] + Cardinality(UnderWay(e))
                              + Cardinality(Returning(e)) + Cardinality(Unclaimed(e))

\* Export ids are reused, but an id the client holds, and the target of a call
\* under way, still mean the capability they were received for.
IdsKeepMeaning ==
    /\ conn["client"] /\ conn["server"] =>
           \A e \in ExportIds : Imported(e) => export_cap[e] = denotes[e]
    /\ conn["server"] =>
           \A i \in DOMAIN c2s : c2s[i].type = "Call" /\ c2s[i].target.kind = "import"
               => export_cap[c2s[i].target.id] = c2s[i].target.cap

\* exports_by_cap is the reverse of the export table, so that a capability has
\* one id however often it is sent.
ReverseTable ==
    conn["server"] =>
        \A e \in ExportIds, c \in Caps : exports_by_cap[c] = e <=> export_cap[e] = c

\* A client that has let go of everything leaves nothing behind at the server:
\* every export is released in the end, calls cancelled in any state included.
ClientIdle == /\ conn["client"] /\ conn["server"]
              /\ self_ref = {} /\ requests = {} /\ \A e \in ExportIds : ~ Imported(e)
ExportsReleased ==
    <>[]ClientIdle => <>[](\A e \in ExportIds : export_cap[e] = None)

\* write_descriptor finds the export exports_by_cap names: the branch is marked
\* unreachable!().
ReverseTableReached == "write_descriptor" \notin panicked
=============================================================================
