--------------------------- MODULE PromiseExports ---------------------------
(***************************************************************************)
(* The life of an exported promise (capnp-rpc/src/rpc.rs): write_descriptor *)
(* exports it and starts the task of resolve_exported_promise, the peer    *)
(* imports it as a PromiseClient, and Resolve, Release and the reuse of    *)
(* ids cross on the way.  The exports of the one vat are the table of      *)
(* module ExportTable; the other vat imports.                              *)
(*                                                                         *)
(* A descriptor and a Resolve are sent with the capability they are about, *)
(* which no message of the code carries.                                   *)
(***************************************************************************)
EXTENDS ExportTable, Sequences, FiniteSets, Functions

CONSTANTS Promises,    \* local promises of the exporter (queued::Client)
          Objects,     \* its other capabilities
          None,
          MaxRefs,     \* bound on the references to exports when a capability is sent
          MaxNet,      \* bound on the messages under way when a capability is sent
          MaxCanceled, \* bound on the cancelled tasks not yet polled when one is sent
          Resending    \* whether a promise is sent again while it is exported

ASSUME CapsAssumption == IsFiniteSet(Promises) /\ IsFiniteSet(Objects) /\ Promises \cap Objects = {}
ASSUME NoneAssumption ==
    None \notin Promises \cup Objects \cup Int \cup {"error", "import", "promise"}
ASSUME BoundsAssumption == {MaxRefs, MaxNet, MaxCanceled} \subseteq Nat /\ Resending \in BOOLEAN

Caps == Promises \cup Objects
Error == "error"

VARIABLES
    client_hook, refcount, resolve_op,   \* Export; resolve_op names the promise awaited
    exports_by_cap,
    canceled,           \* how many tasks of erased exports have not been polled since
    stale,              \* ghost: whether one of them has done its work although cancelled
    redirect,           \* ClientInner.redirect of a promise, Error when it was rejected
    holds,              \* the promises the exporter's application still has
    to_importer, to_exporter,
    remote_ref_count,   \* ImportClient of an id, 0 if there is none
    denotes,            \* the capability it was received as
    app_client,         \* Import.app_client: None, "import" or "promise"
    to_resolve,         \* whether Import.promise_client_to_resolve is set
    import_refs,        \* ids whose ImportClient the application has
    promise_refs,       \* ids with a PromiseClient that is not resolved, and the application has
    old_caps,           \* ids whose ImportClient a task is to drop
    failed, panicked

table_vars == vars
export_vars == <<client_hook, refcount, resolve_op, exports_by_cap, canceled, stale>>
import_vars == <<remote_ref_count, denotes, app_client, to_resolve, import_refs, promise_refs,
                 old_caps>>
all_vars == <<table_vars, export_vars, redirect, holds, to_importer, to_exporter, import_vars,
              failed, panicked>>

PInit ==
    /\ Init
    /\ client_hook = [e \in Ids |-> None] /\ refcount = [e \in Ids |-> 0]
    /\ resolve_op = [e \in Ids |-> None]
    /\ exports_by_cap = [c \in Caps |-> None]
    /\ canceled = [e \in Ids |-> [p \in Promises |-> 0]] /\ stale = FALSE
    /\ redirect = [p \in Promises |-> None] /\ holds = Promises
    /\ to_importer = << >> /\ to_exporter = << >>
    /\ remote_ref_count = [e \in Ids |-> 0] /\ denotes = [e \in Ids |-> None]
    /\ app_client = [e \in Ids |-> None] /\ to_resolve = {}
    /\ import_refs = {} /\ promise_refs = {} /\ old_caps = {}
    /\ failed = FALSE /\ panicked = FALSE

Running == ~ failed /\ ~ panicked

----------------------------------------------------------------------------
(* The exporter *)

\* get_resolved, to the end; a rejected promise is a broken capability, and not sent.
Innermost(c) == IF c \in Promises /\ redirect[c] # None THEN redirect[c] ELSE c

Descriptor(e, c, is_promise) == [type |-> "Caps", id |-> e, cap |-> c, promise |-> is_promise]

\* write_descriptor of c, when the Export of the id changing is already in hook,
\* and the reverse table in by_cap.
WriteDescriptor(c, hook, by_cap, ops, d) ==
    LET e == by_cap[c] IN
    IF e # None
    THEN /\ d = Descriptor(e, c, FALSE)
         /\ refcount' = [refcount EXCEPT ![e] = @ + 1]
         /\ client_hook' = hook /\ exports_by_cap' = by_cap /\ resolve_op' = ops
         /\ UNCHANGED table_vars
    ELSE /\ Push
         /\ d = Descriptor(pushed', c, c \in Promises)
         /\ client_hook' = [hook EXCEPT ![pushed'] = c]
         /\ refcount' = [refcount EXCEPT ![pushed'] = 1]
         /\ exports_by_cap' = [by_cap EXCEPT ![c] = pushed']
         /\ resolve_op' = [ops EXCEPT ![pushed'] = IF c \in Promises THEN c ELSE None]

\* The references to exports, and the cancelled tasks not yet polled, numbered.
References == {r \in live \X (1 .. MaxRefs) : r[2] <= refcount[r[1]]}
Unpolled == {t \in Ids \X Promises \X (1 .. MaxCanceled + 1) : t[3] <= canceled[t[1]][t[2]]}

\* A call or a return carries c.
SendCap(c) ==
    LET i == Innermost(c) IN
    /\ Running /\ Len(to_importer) + Len(to_exporter) < MaxNet
    /\ Cardinality(Unpolled) <= MaxCanceled
    /\ c \in Promises => c \in holds
    /\ i \in Caps
    /\ Cardinality(References) < MaxRefs
    /\ i \in Promises /\ exports_by_cap[i] # None => Resending
    /\ \E e \in Ids, b \in BOOLEAN :
           /\ WriteDescriptor(i, client_hook, exports_by_cap, resolve_op, Descriptor(e, i, b))
           /\ to_importer' = Append(to_importer, Descriptor(e, i, b))
    /\ UNCHANGED <<canceled, stale, redirect, holds, to_exporter, import_vars, failed, panicked>>

\* The application drops its reference to p, or resolves it.
DropHold(p) ==
    /\ Running /\ p \in holds
    /\ holds' = holds \ {p}
    /\ UNCHANGED <<table_vars, export_vars, redirect, to_importer, to_exporter, import_vars,
                   failed, panicked>>

Alive(p) == p \in holds \/ \E e \in live : client_hook[e] = p

\* ClientInner::resolve; the tasks that wait for it can run from now on.
ResolvePromise(p, r) ==
    /\ Running /\ Alive(p) /\ redirect[p] = None
    /\ redirect' = [redirect EXCEPT ![p] = r]
    /\ UNCHANGED <<table_vars, export_vars, holds, to_importer, to_exporter, import_vars,
                   failed, panicked>>

\* Mutant of SendResolve: no message is sent.
SendNoResolve(e, p, ops) ==
    resolve_op' = ops /\ UNCHANGED <<table_vars, client_hook, refcount, exports_by_cap, to_importer>>

\* Mutant of SendResolve: the reverse table keeps the promise.
SendResolveKeepsEntry(e, p, ops) ==
    IF redirect[p] \in Objects
    THEN /\ Find(e)
         /\ \E d \in Ids :
                /\ WriteDescriptor(redirect[p], [client_hook EXCEPT ![e] = redirect[p]],
                       exports_by_cap, ops, Descriptor(d, redirect[p], FALSE))
                /\ to_importer' = Append(to_importer,
                       [type |-> "Resolve", promise_id |-> e, promise |-> p, id |-> d,
                        cap |-> redirect[p]])
    ELSE resolve_op' = ops /\ UNCHANGED <<table_vars, client_hook, refcount, exports_by_cap,
                                          to_importer>>

\* What the closure of resolve_exported_promise does, for id e and promise p.
SendResolve(e, p, ops) ==
    IF redirect[p] \in Objects
    THEN IF Find(e)
         THEN \E d \in Ids :
                  /\ WriteDescriptor(redirect[p], [client_hook EXCEPT ![e] = redirect[p]],
                         [exports_by_cap EXCEPT ![client_hook[e]] = None], ops,
                         Descriptor(d, redirect[p], FALSE))
                  /\ to_importer' = Append(to_importer,
                         [type |-> "Resolve", promise_id |-> e, promise |-> p, id |-> d,
                          cap |-> redirect[p]])
         ELSE resolve_op' = ops /\ UNCHANGED <<table_vars, client_hook, refcount, exports_by_cap,
                                               to_importer>>
    ELSE /\ to_importer' = Append(to_importer,
                [type |-> "Resolve", promise_id |-> e, promise |-> p, id |-> None, cap |-> Error])
         /\ resolve_op' = ops
         /\ UNCHANGED <<table_vars, client_hook, refcount, exports_by_cap>>

\* The task is polled: the promise has been resolved or rejected.
ResolveExported(e) ==
    LET p == resolve_op[e] IN
    /\ Running /\ p # None /\ redirect[p] # None
    /\ SendResolve(e, p, [resolve_op EXCEPT ![e] = None])
    /\ UNCHANGED <<canceled, stale, redirect, holds, to_exporter, import_vars, failed, panicked>>

\* A cancelled task is polled: select looks at the promise before it looks at the
\* cancellation, and a promise nobody has any more is rejected.
PollCanceled(e, p) ==
    /\ Running /\ canceled[e][p] > 0
    /\ canceled' = [canceled EXCEPT ![e][p] = @ - 1]
    /\ IF redirect[p] # None \/ ~ Alive(p)
       THEN SendResolve(e, p, resolve_op) /\ stale' = TRUE
       ELSE UNCHANGED <<table_vars, client_hook, refcount, resolve_op, exports_by_cap, stale,
                        to_importer>>
    /\ UNCHANGED <<redirect, holds, to_exporter, import_vars, failed, panicked>>

\* release_export
HandleRelease ==
    LET m == Head(to_exporter)
        e == m.id
    IN
    /\ Running /\ to_exporter # << >>
    /\ to_exporter' = Tail(to_exporter)
    /\ failed' = (~ Find(e) \/ m.count > refcount[e])
    /\ IF failed' \/ m.count < refcount[e]
       THEN /\ refcount' = IF failed' THEN refcount ELSE [refcount EXCEPT ![e] = @ - m.count]
            /\ UNCHANGED <<table_vars, client_hook, resolve_op, exports_by_cap, canceled>>
       ELSE /\ Erase(e)
            /\ refcount' = [refcount EXCEPT ![e] = 0]
            /\ client_hook' = [client_hook EXCEPT ![e] = None]
            /\ resolve_op' = [resolve_op EXCEPT ![e] = None]
            /\ exports_by_cap' = [exports_by_cap EXCEPT ![client_hook[e]] = None]
            /\ canceled' = IF resolve_op[e] = None THEN canceled
                           ELSE [canceled EXCEPT ![e][resolve_op[e]] = @ + 1]
    /\ UNCHANGED <<stale, redirect, holds, to_importer, import_vars, panicked>>

----------------------------------------------------------------------------
(* The importer *)

\* The stream to the exporter after the imports in dead have been dropped, in any
\* order, each giving back count of its references.
Released(dead, count) ==
    {to_exporter \o [i \in DOMAIN order |->
         [type |-> "Release", id |-> order[i], count |-> count[order[i]]]] :
     order \in Bijection(1 .. Cardinality(dead), dead)}

\* Mutant of Drop: an import gives back one reference, however many it has.
DropReleasesOne(rc, den, app, tr, irefs, prefs, old) ==
    LET dead == {e \in Ids : rc[e] > 0 /\ e \notin irefs \cup prefs \cup old} IN
    /\ remote_ref_count' = [e \in Ids |-> IF e \in dead THEN 0 ELSE rc[e]]
    /\ denotes' = [e \in Ids |-> IF e \in dead THEN None ELSE den[e]]
    /\ app_client' = [e \in Ids |-> IF e \in dead THEN None ELSE app[e]]
    /\ to_resolve' = tr \ dead
    /\ import_refs' = irefs /\ promise_refs' = prefs /\ old_caps' = old
    /\ to_exporter' \in Released(dead, [e \in Ids |-> 1])

\* What is left of the imports when the ImportClients nobody refers to have been
\* dropped: their entries go, and Release gives back their references.
Drop(rc, den, app, tr, irefs, prefs, old) ==
    LET dead == {e \in Ids : rc[e] > 0 /\ e \notin irefs \cup prefs \cup old} IN
    /\ remote_ref_count' = [e \in Ids |-> IF e \in dead THEN 0 ELSE rc[e]]
    /\ denotes' = [e \in Ids |-> IF e \in dead THEN None ELSE den[e]]
    /\ app_client' = [e \in Ids |-> IF e \in dead THEN None ELSE app[e]]
    /\ to_resolve' = tr \ dead
    /\ import_refs' = irefs /\ promise_refs' = prefs /\ old_caps' = old
    /\ to_exporter' \in Released(dead, rc)

\* import, for a descriptor of c with id e.
Counted(e) == [remote_ref_count EXCEPT ![e] = @ + 1]
Denoting(e, c) == [denotes EXCEPT ![e] = IF remote_ref_count[e] = 0 THEN c ELSE @]

ImportSettled(e, c) ==
    Drop(Counted(e), Denoting(e, c), [app_client EXCEPT ![e] = "import"], to_resolve,
         import_refs \cup {e}, promise_refs, old_caps)

ImportPromise(e, c) ==
    CASE app_client[e] = None ->
             /\ Drop(Counted(e), Denoting(e, c), [app_client EXCEPT ![e] = "promise"],
                     to_resolve \cup {e}, import_refs, promise_refs \cup {e}, old_caps)
             /\ UNCHANGED panicked
      [] app_client[e] = "import" ->
             /\ Drop(Counted(e), Denoting(e, c), app_client, to_resolve,
                     import_refs \cup {e}, promise_refs, old_caps)
             /\ UNCHANGED panicked
      [] app_client[e] = "promise" ->   \* "dangling client ref?"
             /\ panicked' = (e \notin promise_refs)
             /\ Drop(Counted(e), Denoting(e, c), app_client, to_resolve, import_refs,
                     promise_refs, old_caps)

HandleCaps ==
    LET m == Head(to_importer) IN
    /\ Running /\ to_importer # << >> /\ m.type = "Caps"
    /\ to_importer' = Tail(to_importer)
    /\ IF m.promise THEN ImportPromise(m.id, m.cap)
       ELSE ImportSettled(m.id, m.cap) /\ UNCHANGED panicked
    /\ UNCHANGED <<table_vars, export_vars, redirect, holds, failed>>

HandleResolve ==
    LET m == Head(to_importer)
        e == m.promise_id
        new == IF m.id = None THEN {} ELSE {m.id}     \* receive_cap comes first
        rc == [i \in Ids |-> IF i \in new THEN remote_ref_count[i] + 1 ELSE remote_ref_count[i]]
        den == [i \in Ids |-> IF i \in new /\ remote_ref_count[i] = 0 THEN m.cap ELSE denotes[i]]
        app == [i \in Ids |-> IF i \in new THEN "import" ELSE app_client[i]]
    IN
    /\ Running /\ to_importer # << >> /\ m.type = "Resolve"
    /\ to_importer' = Tail(to_importer)
    /\ failed' = (rc[e] > 0 /\ e \notin to_resolve)   \* 'Resolve' for a non-promise import
    /\ IF e \in to_resolve /\ e \in promise_refs
       THEN Drop(rc, den, app, to_resolve \ {e}, import_refs \cup new, promise_refs \ {e},
                 old_caps \cup {e})
       ELSE Drop(rc, den, app, to_resolve \ {e}, import_refs, promise_refs, old_caps)
    /\ UNCHANGED <<table_vars, export_vars, redirect, holds, panicked>>

Keep(irefs, prefs, old) ==
    /\ Drop(remote_ref_count, denotes, app_client, to_resolve, irefs, prefs, old)
    /\ UNCHANGED <<table_vars, export_vars, redirect, holds, to_importer, failed, panicked>>

\* The application drops what it has of an import.
DropImport(e) == Running /\ e \in import_refs /\ Keep(import_refs \ {e}, promise_refs, old_caps)
DropPromise(e) == Running /\ e \in promise_refs /\ Keep(import_refs, promise_refs \ {e}, old_caps)

\* The task PromiseClient::resolve adds.
DropOldCap(e) == Running /\ e \in old_caps /\ Keep(import_refs, promise_refs, old_caps \ {e})

----------------------------------------------------------------------------
ExporterTask == \E e \in Ids : ResolveExported(e) \/ \E p \in Promises : PollCanceled(e, p)
ImporterTask == HandleCaps \/ HandleResolve \/ \E e \in Ids : DropOldCap(e)

PNext ==
    \/ \E c \in Caps : SendCap(c)
    \/ \E p \in Promises : DropHold(p) \/ \E r \in Objects \cup {Error} : ResolvePromise(p, r)
    \/ ExporterTask \/ HandleRelease
    \/ ImporterTask
    \/ \E e \in Ids : DropImport(e) \/ DropPromise(e)

PSpec == PInit /\ [][PNext]_all_vars

\* The importer runs its message loop and the exporter its tasks.
FairPSpec ==
    /\ PSpec
    /\ WF_all_vars(HandleCaps \/ HandleResolve)
    /\ WF_all_vars(\E e \in Ids : ResolveExported(e))

----------------------------------------------------------------------------
(* Properties *)

Releases == [type : {"Release"}, id : Ids, count : Nat \ {0}]
Messages == [type : {"Caps"}, id : Ids, cap : Caps, promise : BOOLEAN]
                \cup [type : {"Resolve"}, promise_id : Ids, promise : Promises,
                      id : Ids \cup {None}, cap : Caps \cup {Error}]

PTypeOK ==
    /\ TypeOK
    /\ client_hook \in [Ids -> Caps \cup {None}] /\ refcount \in [Ids -> Nat]
    /\ resolve_op \in [Ids -> Promises \cup {None}]
    /\ exports_by_cap \in [Caps -> Ids \cup {None}]
    /\ canceled \in [Ids -> [Promises -> Nat]] /\ stale \in BOOLEAN
    /\ redirect \in [Promises -> Objects \cup {Error, None}] /\ holds \subseteq Promises
    /\ to_importer \in Seq(Messages) /\ to_exporter \in Seq(Releases)
    /\ remote_ref_count \in [Ids -> Nat] /\ denotes \in [Ids -> Caps \cup {None}]
    /\ app_client \in [Ids -> {None, "import", "promise"}]
    /\ to_resolve \subseteq Ids /\ import_refs \subseteq Ids /\ promise_refs \subseteq Ids
    /\ old_caps \subseteq Ids /\ failed \in BOOLEAN /\ panicked \in BOOLEAN

SeqSum(s) ==
    LET up_to[n \in 0 .. Len(s)] == IF n = 0 THEN 0 ELSE up_to[n - 1] + s[n] IN up_to[Len(s)]

Occurrences(s, e) == SeqSum([i \in DOMAIN s |-> IF s[i].id = e THEN 1 ELSE 0])
Returned(s, e) == SeqSum([i \in DOMAIN s |-> IF s[i].id = e THEN s[i].count ELSE 0])

\* The exporter counts what the importer has, will have and gives back: the
\* references of descriptors, and of Resolves, under way, those of the import and
\* those of Releases under way (write_descriptor, import, ImportClient::drop,
\* release_export).
RefcountBalance ==
    Running => \A e \in Ids :
        refcount[e] = Occurrences(to_importer, e) + remote_ref_count[e]
                          + Returned(to_exporter, e)

\* An entry of exports_by_cap names a live export of its own capability.
EntriesAreExports ==
    \A c \in Caps : exports_by_cap[c] # None =>
        Find(exports_by_cap[c]) /\ client_hook[exports_by_cap[c]] = c

\* What write_descriptor finds in the reverse table is an export of that very
\* capability (else unreachable!()), and import finds no dead client where it
\* upgrades one (else a panic), although a resolved promise leaves the one table
\* before its export leaves the other.
NoDanglingEntry == ~ panicked /\ EntriesAreExports

\* The PromiseClient of e is told of a resolution in this step.
Told(e) == e \in to_resolve \ to_resolve' /\ e \in promise_refs /\ to_importer' # to_importer

\* The application has the PromiseClient of a promise that has been resolved.
Kept(p) == redirect[p] # None /\ \E e \in promise_refs : denotes[e] = p

\* An application that keeps a promise is told of a resolution, and it is that of the
\* promise it keeps, whatever other promises and references are sent, dropped, released
\* and exported anew under the same ids meanwhile; nor does the connection fail before.
\* That is as long as no cancelled task has done its work, and unless a promise is sent
\* again while it is exported (resolve_exported_promise, PromiseClient::resolve).
PromisesSettle ==
    /\ [][ ~ stale => \A e \in Ids : Told(e) =>
               LET m == Head(to_importer) IN
               m.promise = denotes[e] /\ m.cap = redirect[denotes[e]] ]_all_vars
    /\ \A p \in Promises : Kept(p) ~> (~ Kept(p) \/ stale)

\* "We know that our entry in the export table is still live because when it is
\* destroyed the asynchronous resolution task (i.e. this code) is canceled" (rpc.rs,
\* resolve_exported_promise): a Resolve with a capability is sent for an export of the
\* very promise that has been resolved.
ResolvesLiveExport ==
    [][ \A m \in Range(to_importer') \ Range(to_importer) :
            m.type = "Resolve" /\ m.cap # Error =>
                Find(m.promise_id) /\ client_hook[m.promise_id] = m.promise ]_all_vars
=============================================================================
