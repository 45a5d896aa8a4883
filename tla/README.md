# A formal model of capstone-rs

This directory holds TLA+ models of the run-time parts of this repository (a
Rust implementation of Cap'n Proto serialization and RPC), the TLC
configurations that check them on small instances, and TLAPS proofs of the
results that hold for every instance. Paths below are relative to `src/`;
`rpc.rs` is `capnp-rpc/src/rpc.rs`.

`PROJECT.json` records which source lines each definition models, what every
run checks, a mutation of the model that breaks each property, the
disagreements found between code and documentation, and the hazards the
properties are aimed at.

## 1. The system

**Two vats and a connection.** `RpcSystem` (`capnp-rpc/src/lib.rs`) drives one
`ConnectionState` (`rpc.rs`) per vat over a `VatNetwork`; the network that is
provided is two-party (`twoparty.rs`), a pair of byte streams with framing
(`capnp-futures`). A `ConnectionState` keeps four tables:

| table | entry | state that matters |
| --- | --- | --- |
| questions | a call this vat made | `is_awaiting_return`, `self_ref` (weak), the `QuestionRef` and its fulfiller |
| answers | a call the peer made | `return_has_been_sent`, `received_finish`, `result_exports`, the pipeline, the completion promise |
| exports | a capability the peer may use | `refcount`, `client_hook`, reverse table `exports_by_cap` |
| imports | a capability of the peer | `ImportClient.remote_ref_count` |

Questions, exports and embargoes are `ExportTable`s: a vector of slots and a
heap of free ids, so ids are reused as early as possible.

**Operations.** The application builds and sends requests, drops promises and
capabilities, and bootstraps. `message_loop` receives one message after the
other and `handle_message` dispatches it: Call, Return, Finish, Release,
Bootstrap, Resolve, Disembargo, Abort, Unimplemented. Calls finish in tasks of
a `TaskSet`; a task that fails disconnects the vat. `disconnect` rejects the
questions, empties the tables, sends Abort and shuts the write queue down.

**What is hard about it.** Everything runs on one thread, yet each poll
interleaves with every other; a Return and a Finish cross on the wire; ids are
reused while messages with the old meaning may be under way; counts on the two
vats are updated at different times; objects are released in Rust `Drop`
handlers whenever the application lets go; either side may disconnect at any
moment, with calls running and messages half built.

**Promises.** A capability may be a promise. Calls on a local promise wait in a
`queued::Client`; a promise of the peer is a `PromiseClient` (`rpc.rs`) around an
import or a pipelined answer. When a promise resolves, its exporter sends Resolve
(`resolve_exported_promise`), and a vat that finds the resolution to be its own
object holds later calls back (an embargo) until a Disembargo has followed the
earlier ones to the peer and back.

**Around it.** `RpcSystem`, its `TaskSet`, the `Disconnector` and the two-party
network give a vat its life: connect, drive, shut down. `WriteQueue`
(`capnp-futures/src/write_queue.rs`) serialises the messages of a vat on its
stream. `SenderQueue` (`capnp-rpc/src/sender_queue.rs`) holds the calls and waiters
of a promise that has not resolved. `reconnect.rs` wraps a client that connects
again when its target is lost. `async-byte-channel` is the in-memory stream the
tests connect two vats with. Under all of it, `capnp` allocates, encodes and reads
messages (allocators, arena, pointer layout), `capnp-futures` frames and packs them
on a stream, and `capnpc` generates typed accessors.

**What correctness means here.** No vat sends what its peer must reject; no
branch marked `unreachable!()` is taken; every promise settles; every id and
every reference is given back exactly once; an id means the same thing at both
ends as long as somebody can use it; calls, messages and bytes keep their
order, also across the resolution of a promise and a shutdown; what is read from a
stream is what was built; nobody sleeps while there is work to do.

## 2. Modules

| module | models | checked by | proved in |
| --- | --- | --- | --- |
| `ExportTable` | `ExportTable<T>`, rpc.rs 70-143 | `promise_exports` | `PromiseExportsProofs` |
| `Questions` | the life of a call, both vats | `questions`, `questions_hang`, `questions_leak` | `QuestionsProofs` |
| `Capabilities` | exports, imports and their counts, on top of the life of a call | `capabilities`, `capabilities_panic` | |
| `PromiseExports` | exported promises, on top of `ExportTable` | `promise_exports`, `promise_exports_stale` | `PromiseExportsProofs` |
| `CallOrder` | what a reference promises: calls arrive in order, once | by refinement | `EmbargoesProofs` |
| `Embargoes` | promise resolution and embargoes, both vats | `embargoes`, `embargoes_tribble` | `EmbargoesInvariant`, `EmbargoesProofs` |
| `SenderQueue` | sender_queue.rs | `clients` | `QueuedProofs` |
| `Queued` | queued.rs, on top of `SenderQueue` | `clients` | `QueuedProofs` |
| `WriteQueue` | capnp-futures/src/write_queue.rs | `rpc_system` | `RpcSystemProofs` |
| `RpcSystem` | the life of a vat, on top of `WriteQueue` | `rpc_system` | `RpcSystemProofs` |
| `Reconnect` | reconnect.rs | `clients` | `ReconnectProofs` |
| `Clients` | `Queued` and `Reconnect`, one at a time | `clients` | |
| `ByteStream` | what a byte channel promises: a FIFO with an end | by refinement | `ByteChannelProofs` |
| `ByteChannel` | async-byte-channel/src/lib.rs | `message_stream` | `ByteChannelProofs` |
| `PackedStream` | asynchronous framing and packing, on top of `ByteChannel` | `message_stream` | |
| `MessageBuilder` | allocators, arena, struct and far pointers | `message_stream` | |
| `MessageStream` | `MessageBuilder` and `PackedStream` together | `message_stream` (`MCMessageStream`) | |

"On top of" is EXTENDS: the actions of the upper module are built from those of
the lower one, so that the lower one's properties are checked, and mostly proved,
of the composition.

In every module, a definition whose comment begins with "Mutant" is not part of
the specification: it is the form a plausible mistake would give to the
definition that follows it, and `PROJECT.json` says which property notices.

### ExportTable

State: `len` (`slots.len()`), `live` (the slots that are `Some`), `free_ids`
(the heap as a multiset, because the heap would accept an id twice), `pushed`
(the id the last `push` returned). `Push` pops the smallest id of the heap or
appends; `Erase` is only called for an id that `find` has just found, as every
caller does. The values in the slots are left out.

### Questions

One direction of a connection: the question table of the vat that calls
("client"), the answer table of the vat that is called ("server"), and the
streams `c2s` and `s2c`. Each vat plays both roles with tables of their own.

- `NewRequest` and `Send` are separate because the code's are: `Request::new`
  looks at the connection, `Request::send` does not.
- `DropQuestionRef` is `QuestionRef::drop`; it happens whenever the application
  has dropped the promise, the response and the pipelined capabilities.
- `HandleReturn`, `HandleCall`, `HandleBootstrap`, `HandleFinish`,
  `ClientHandleAbort`, `ServerHandleAbort` are the arms of `handle_message`.
  Where a handler returns an error, the task fails and the error handler
  disconnects: `ClientFails`, `ServerFails`. `failed` records it.
- `CompleteCall` is `ResultsDone::from_results_inner` with
  `answer_has_sent_return`; `CompleteLocally` is its LocallyRedirected variant,
  which a call gets that first touches its results after the disconnect;
  `CancelCall` is the drop of the call's future after a Finish.
- `message_loop` asks for the next message only if the connection is up, so a
  loop that was waiting when its vat disconnected still handles one message:
  `looping` goes down one message after `conn`. `HandleOther` is such a message
  of a kind this module does not have.
- Branches that panic record the panic in `panicked` and continue, so that a
  property can speak about them.

What a call does, its parameters and results are left out here.

### Capabilities

The same protocol with what calls carry. Calls name a target (an import, or the
answer to an earlier question), results and the server's own calls carry cap
tables, and Finish and Release give references back. `WriteDescriptor` is
`write_descriptor` folded over a cap table; `ReleaseExports` is
`release_export`; `ReceiveCaps` is `import` with `add_remote_ref`;
`waits_on` is the queue a pipelined call waits in, which also keeps the call
before it from being cancelled. Every descriptor carries, beside its id, the
capability it was written for. No message of the code has that field: it is
what `IdsKeepMeaning` compares with.

`DropQuestionRef` and `DropImport` wait until no request under construction
refers to the question or import, as the request holds a reference.

`Q == INSTANCE Questions WITH ...` maps the module to `Questions`: the extra
message kinds are dropped from the streams, the extra fields from messages.
`ImplementsQuestions` says that the mapped behaviours are behaviours of
`Questions`. It is what connects the proofs, which are about `Questions`, to
the model that has capabilities in it.

### PromiseExports

A vat that exports promises and objects, and the one that imports them.
`WriteDescriptor` is `write_descriptor`: it finds the capability in
`exports_by_cap` or pushes an Export, with a task if it is a promise. `ResolveExported`
is that task when the promise has resolved: the Export is pointed at the resolution,
the promise leaves the reverse table, and a Resolve is sent, with a capability or an
exception. A task that was cancelled with its Export may be polled once more
(`PollCanceled`); if it sends a Resolve then, `stale` records it, and what the importer
hears from there on may be about another capability. On the other side, `HandleCaps` is `import` (an ImportClient, or a
PromiseClient around it), `HandleResolve` the Resolve handler, and `DropImport`,
`DropPromise`, `DropOldCap` are the three ways an ImportClient goes; each Release
carries the count it has. Messages carry the capability they are about, which no
message of the code does: it is what `denotes` is compared with.

The table is that of `ExportTable`, whose `Push` and `Erase` are the only steps on it.

### Embargoes and CallOrder

`CallOrder` says what E-order is: the calls of a vat on one reference arrive in the
order they were made, each at most once; some may be lost with the connection.

`Embargoes` has two vats, each with an object, a promise of its own that the peer has
(exported in a CapDescriptor, or as the results of a call), and a `PromiseClient` for
the peer's. A capability inside a vat is one of seven kinds, and `Resolved` follows
`get_resolved` from one to the next. Calls go where `Deliver` says: onto the stream,
into the queue of a promise or of an embargo, or to the object. A vat resolves its
promise when it likes, to its own object, to the peer's object or to the peer's
promise (`Resolve`, then the tasks `ResolveExportedPromise` and `PipelineResolve`);
`PromiseClientResolve` decides whether to embargo, `HandleSenderLoopback` and `Echo`
are the two halves of `handle_disembargo`, `LiftEmbargo` is the task at the end.
Either vat may disconnect.

`KeepsCallOrder` is that `Embargoes` implements `CallOrder`. It fails if a promise
may resolve to the peer's promise (`embargoes_tribble`), and holds otherwise.

### SenderQueue and Queued

`map` and `next_id` are the code's. `remover` is the id in the `Remover` of a
value's promise; it is dropped with the promise, also long after the value was
drained. `Drain` includes the loop of every caller, which answers each entry.
`fifo` is a ghost: what a queue with removal would hold. `Reused` says whether
values are pushed after a drain, which `queued.rs` never does.

`Queued` is one `queued::Client`, got from a `queued::Pipeline` or driven by a future,
and the calls the peer makes on the same pipeline, each of which gets a client of its
own. `ResolveClient` is `ClientInner::resolve`: redirect, forward what is queued,
then answer the waiters. `ResolvePipeline` is the completion of a
`PipelineInnerSender`, or its drop, which breaks the pipeline. A client lives as long
as somebody has it or awaits a call of it; when it goes, its queue and its waiters go.
`made` and `arrived` are ghosts.

### WriteQueue and RpcSystem

`WriteQueue` is the channel, and the task as a machine with one phase per await
("next", "writing", "flushing", "over"). At each of them other handles send or
terminate, the stream may fail (`WriteFails`, `FlushFails`), and the task may be
dropped (`DropTask`). Messages are numbered in the order of the calls of `send`.
A `send` after `terminate` is queued behind the Done item and fails when the
task reaches it; the comment on `terminate` says that it fails immediately.
`EveryCallSettles` is what the code does guarantee.

`RpcSystem` is one vat around it, and its peer as a stream that has messages, ends
or fails. `Accept` and `Bootstrap` make a ConnectionState (`get_connection_state`),
which starts a message loop and an on_disconnect task. `Disconnect` puts the Abort
and a Done on the queue and hands the Connection to the task, whose two steps are
`OnDisconnect` and `FinishShutdown`. `Drive` is `drive_until_shutdown`. `Alive` and
`InnerAlive` say who owns a ConnectionState and the ConnectionInner; the second one's
drop ends the vat's future. A bootstrap after a disconnect makes a second
ConnectionState on the same connection, as in the code, whose loop finds the stream
taken or given back. The panics of `bootstrap` are guards, that of `message_loop`
("message loop outlived connection state?") is a step that drops the system.
What the messages say is in the other modules.

### Reconnect

Targets are numbered in the order the client gets them, by `connect`, which may fail,
or by `set_target`. A call remembers the target and the generation it was built with
and the generation its promise was wrapped with: `new_call` and `send` are two
moments. `Wrap` is the closure of `Client::wrap`. Two kinds of calls are named in the
properties because the code treats them otherwise than the rest: a late request
(built before a reconnect and sent after it), and calls of a generation in which
`set_target` was used. A call fails with Disconnected because its target is lost or
because a callee that is up says so: the client cannot tell them apart, and `Fail`
and `FailDisconnected` do not either. So the properties speak of what was reported,
not of what was lost.

### Clients

`queued::Client` and the reconnecting client share nothing but the trait `ClientHook`.
`Clients` puts the two modules side by side, and a behaviour is one of the one or one of
the other: either steps only while the other is in its initial state.

### ByteChannel and ByteStream

`PollRead` and `PollWrite` are whole polls, because the code holds a mutex
during each. A task is "ready", "waiting" (its last poll was Pending) or "done".
Polls of a waiting task are allowed, as futures may be polled at any time;
fairness is only assumed for ready ones. `delivered` holds the bytes the last
read returned, and with it `ByteStream` can say which bytes come out, not only
how many. The writer may shut down or be dropped at any time, the reader be
dropped at any time.

### PackedStream

`write_message` and `try_read_message` of `serialize_packed.rs`, with the framing of
`serialize.rs` inside. One turn of the loop of `poll_write_aux`, or of
`PackedRead::poll_read`, is one step and has the name of its stage (`StartWord`,
`WriteWord`, `WriteRunWordCount`, `WriteUncompressedRun`; `ReadTag`, `WritingZeroes`,
`BufferingWord`, `DrainingBuffer`, `WritingPassthrough`). Each may be stopped by a
channel that is full or empty, in the middle of a word, a tag and its count, or a run.
`out` is what `write_all` has left of the buffers of a message; runs end with their
buffer. `frame` is what the reader awaits: the first word, the rest of the table, the
segments. `SegmentTable`, `Encode` and `Decode` are the table as the code computes it,
with its limits.

### MessageBuilder

The application builds a tree of structs: `InitStruct`, `GetStruct` (which moves a
struct that is too small), `Clear` and `SetData`, in the memory of a
`BuilderArenaImpl` over a `ScratchSpaceHeapAllocator`; `NewBuilder` gives all
segments back and starts again in the same scratch space. Words are numbers, and
pointers are encoded and decoded as `WirePointer` does it, with narrower fields.
`NewObject` is `allocate` (in the segment, or behind a far pointer with a landing
pad), `TransferPointer` also writes double-far pointers, `ZeroObject` and
`ZeroPointerAndFars` clear. `ReadRoot` follows the pointers as a reader does, with the
bounds checks. `tree` is the reference: the tree of the operations alone.

### MessageStream

`MessageBuilder` and `PackedStream` as one task uses them: build, `write_message`,
build again in the same memory; the other task reads. Words become bytes, little end
first (`WireValue`). A behaviour either builds its messages or sends given ones, which
have the runs, segments and limits the builder does not reach.

## 3. What the runs show

Runs that pass:

| run | instance | distinct states | shows |
| --- | --- | --- | --- |
| `questions` | 2 ids, 2 requests | 130,291 | no message is rejected, no unreachable branch taken, and a question asked on a working connection settles |
| `capabilities` | 2 capabilities, 2 ids, cap tables of 1 | 580,540 | counts balance, ids keep their meaning, the reverse table is right, nothing is rejected; a client that lets go of everything leaves no export behind; the protocol of `Questions` is implemented |
| `promise_exports` | 2 promises and an object, 3 ids, 2 references | 443,148 | ids are handed out and freed as they should be, counts balance, no table entry dangles; until a cancelled task sends a Resolve, every promise that is kept is told of its resolution, and of no other one |
| `embargoes` | 3 calls of one vat, both kinds of promise, both vats disconnecting | 74,394 | calls keep their order across the resolution (`CallOrder`), nothing is rejected, every call arrives unless the connection is lost |
| `clients` | 3 calls, 2 calls of the peer, 1 waiter; 3 calls, 1 target set by hand | 482,954 | FIFO under any removals; calls are forwarded in order and before anybody is told; no call or waiter is left behind; a target reported lost is left for good, once, and one nobody reported is not left |
| `rpc_system` | 2 connection states, 4 messages | 173,620 | order on the wire, true answers and terminates that drain (`WritesAsPromised`), a shutdown that loses nothing; the vat, the Disconnector and every future end when they should; a lost peer is noticed |
| `message_stream` | 4 building operations, 2 messages, a channel of 3 bytes | 130,597 | what is read is what was built; nothing written is lost; the reader reports the end where the stream ends and an error inside a message, but for a lone tag byte; the channel is a FIFO of bytes without lost wakeups |

The type invariants and the strengthenings of section 4 are not among the properties
of the runs. Those of `ExportTable`, `Questions`, `WriteQueue`, `RpcSystem`,
`Reconnect` and `ByteChannel` are proved. `TypeOK` of `Capabilities` and `Embargoes`,
`PTypeOK`, `QTypeOK` and `MTypeOK` hold on the instances above when they are added to
the configuration.

Runs that show the code doing otherwise than a comment, an assertion or the
protocol's documentation says (quotations in `PROJECT.json` under "findings"):

| run | what happens |
| --- | --- |
| `questions_hang` | a request built before a disconnect and sent after it gets a promise that never settles |
| `questions_leak` | a running call cancelled by Finish never sends its Return, so the caller's question id is never freed |
| `capabilities_panic` | `disconnect` empties the export table but not `exports_by_cap`; a call that completes afterwards with a capability exported before reaches `unreachable!()` |
| `promise_exports_stale` | the task of an exported promise is cancelled by a Release and polled once more after its id went to another capability: it sends a Resolve for that one |
| `embargoes_tribble` | a promise resolves to the peer's promise, which resolves back to an object here: a later call overtakes an earlier one |

Seen while modelling, without a run of their own (details under "hazards"):

- The asynchronous packed writer truncates the count of a run of more than 256 words
  (`serialize_packed.rs:446`); the synchronous one does not. `MessagesIntact`,
  `EndIsTrue` and `MessagesArrive` are conditional on `AllCountable`: no message sent has
  such a run. With `AllCountable == TRUE` TLC refutes the first two, by the message `TooLong`, although the tests of that file expect any
  message to survive the round trip.
- A stream that breaks after the tag byte of a message's first word is reported as a
  clean end: `try_read_message` returns `None`, as the packed reader has yielded no byte
  yet, and the comment at `serialize_packed.rs:226` says otherwise. `EndIsTrue` allows
  for this one byte; with none TLC refutes it in seven states.
- A promise that is sent again while it is exported is described as `senderHosted`
  (`rpc.rs:1407`), although it has not resolved. If the importer has dropped its
  PromiseClient meanwhile, it makes a plain import of it, and the Resolve that follows
  fails the connection ("Got 'Resolve' for a non-promise import"), with everything else
  on it. With `Resending = TRUE` TLC
  refutes `PromisesSettle`: a second promise is never told.
- `SenderQueue::drain` starts ids again at 0, so that the remover of a drained value
  can remove a newer one: with `Reused = TRUE` TLC refutes `QueueIsFifo` and
  `CanceledOnlyWithQueue` in five states. `PromiseClient` in `rpc.rs` can use a queue so.
- `send` of the write queue never increments `in_flight`: `len()` is wrong after one
  send, and its assertion fails after one write.
- A reused `HeapAllocator` with a maximum below the suggested first size exceeds its
  maximum, and a subtraction underflows (`message.rs:725`, `744`).
- `bootstrap` after a disconnect panics in two places; a Disconnector polled too early
  waits for a state it never disconnected; a late request makes a reconnecting client
  leave a target nobody reported, and the failure of an older call one that was set by
  hand. `OncePerLoss` and `LeavesOnlyReported` except these two.

### Bounds

All bounds are constants of the modules and stand in guards.

- `questions`: two ids are enough for an id to be reused while another call is
  under way and for the smallest-free-id rule to matter. The streams need no bound of
  their own: an id has at most one Call, one Return and, between two Calls, one
  Finish under way, which is part of what the proofs establish for any number of ids.
- `capabilities`: `MaxRefs` bounds the references the server gives out for one export
  (in the actions that give them out, never in those that give them back) and
  `MaxQueue` the messages under way when a call is begun. With one reference at a time
  and two capabilities, an export id is freed and reused for the other capability
  while messages with the old id are under way. A vat disconnects of its own accord
  only while it has at most `ClientOpen` or `ServerOpen` calls and messages of its own
  open; an Abort it receives is handled whatever is open. Checked once on larger
  instances, with no error: at most one thing open on either side, all properties
  (2.1 million states); no bound on what is open, invariants only (11.5 million).
- `promise_exports`: with two promises, one may be resolved, dropped or freed while the
  other is kept; with three ids both and the object are exported together. `MaxRefs`
  bounds the references given out in all, `MaxCanceled` the cancelled tasks not yet
  polled, `MaxNet` the messages under way; all three are compared only when a capability
  is sent. `Resending = FALSE`: a promise is not sent again while it is exported, for
  the reason above; an object is, also as the resolution of a promise.
- `embargoes`: one call through the peer, one held back and one after; the promise
  resolves between any two. The calls of one vat suffice for order, which is per caller.
- `clients`, the queued client: three calls let a removal fall before, between and after other entries;
  two calls of the peer show the order of pipelined clients among themselves.
- `rpc_system`: a second ConnectionState needs a first one that is down; each needs
  room for its Abort, which leaves two other messages.
- `clients`, the reconnecting client: three calls are needed for two to fail on one
  target while a third is late. The number of targets has no bound but that of the
  calls; one more may be set by hand. Checked once with two set by hand, the reconnecting
  client alone, with no error (1.7 million states).
- `message_stream`: words of four bytes of four bits (`Word = 4`) and pointers with
  fields of four and eight bits (`U16 = 16`) in place of 8, 8 and 16, 32; the code's arithmetic
  depends on the widths through these constants only. Of the nine given messages,
  one has a run exactly as long as its count can say (`Longest`) and one a longer run
  (`TooLong`). A channel of three bytes is
  shorter than a word, so that every stage of both codecs is interrupted at every
  byte. A scratch space of 4 words and heap segments from 2 words on make the
  third to fifth operation reach far and double-far pointers. A message that is sent
  was built with at most `MaxBeforeSending` operations; `BuildsTheTree` and
  `UnusedIsZero` are checked up to `MaxOperations`. Checked once with no error:
  the builder alone with 6 operations (284,945 states); messages of up to 3 operations,
  5 in all, invariants only (1.8 million states), with double-far pointers on the wire.

`CHECK_DEADLOCK FALSE` stands where the system may come to rest: in every passing run
but `questions`, when the calls, messages or operations that the bounds allow are used
up, the tasks are done, or a vat has disconnected; in `capabilities` also when the ids
are used up by cancelled calls that never return (the leak above).

### Fairness

No fairness is assumed for anything the application or the peer decides: sending,
dropping, disconnecting, resolving a promise of its own in `Embargoes` and
`PromiseExports`.

- `Questions`, `Capabilities`: weak fairness of each message loop (the executor
  polls it when a message is there) and of the end of each call (its method
  returns, or its future is dropped).
- `Embargoes`: weak fairness of the message loops and of the tasks that are ready (the
  `TaskSet` polls them).
- `PromiseExports`: weak fairness of the importer's message loop and of the exporter's
  tasks whose promise has resolved. Nothing is owed to Releases or to a cancelled task.
- `Queued`: whoever awaits is polled, and drives the future; and the future, or the
  call whose results complete the pipeline, ends: `PipelineInnerSender` resolves the
  pipeline even when it is dropped.
- `RpcSystem`: weak fairness of the tasks of the system and of the Disconnector; the
  stream answers every request, with success or failure. The peer owes nothing.
- `MessageStream`: weak fairness of polling each task that is scheduled. A task
  that is waiting is owed nothing until it is woken, so that a lost wakeup
  would show.

`Reconnect` has no liveness property: nothing there happens unless a call is made.

## 4. What is proved

TLAPS checks the following for every value of the constants, from the
assumptions named in the modules (bounds are naturals; the buffer and the
chunks are not empty; there is a byte; `None` is no other value; a sender queue is
drained once; the calls of an application are not those of its peer). Where a proof is
by induction on a length (sums, calls put one behind the other), it takes the least
length at which a set of lengths fails (`WFMin`), as the induction rules of the library
have an operator as parameter, which the provers cannot instantiate.

**PromiseExportsProofs**, the table. `SlotsAlwaysPartitioned`: `SlotsPartitioned` is
inductive together with the type invariant. `PushSmallestUnused`, an action property,
follows: below the top of the heap there is no free id, so everything there is
live; if the heap is empty, everything below `len` is live.

**PromiseExportsProofs**, the exports. `UsesExportTable`: every step of the two vats of
`PromiseExports` leaves the table alone or is a step of `ExportTable`, so that the two
theorems above hold there too (`PromiseSlotsPartitioned`, `PromisePushSmallest`).
`ReverseTableIsRight`: an entry of `exports_by_cap` names a live export of that very
capability. The invariant `EInv` needs nothing else than types; the step that matters
is `resolve_exported_promise`, which takes the promise out of the one table before it
points its export elsewhere, and `release_export`, which does the same for an id that
is freed.

`ReferencesBalance`, `NothingDangles` and `ReleasesAccepted` (an action property: no
Release is ever rejected) rest on `CInv`, which adds to `RefcountBalance` what makes it
inductive: a free id has no count; an import with references is held by somebody who
will drop it (`Referenced`); and a descriptor that announces a new promise is the first
thing the importer hears of its id (`FirstOfItsId`), which is why `import` never finds
a client that is being dropped. The sums over the messages under way are handled by
lemmas on what appending a message and taking the first one do to a sum, and on the
Releases of several imports dropped at once, in any order.

**QuestionsProofs.** `NoProtocolError` alone is not inductive: that a Return is
accepted depends on what was under way when the id was last freed. The
invariant `IInv` says, for one id at a time, how the two tables and the two
streams agree:

- `Streams`: at most one Call and one Return are under way per id, and two
  Finishes have a Call between them;
- `Awaited`: a Call or a Return under way, or an answer that has not returned,
  has a question that awaits it, and only one of the three exists;
- `Unreferenced`: after a Finish nobody waits for the result, so a Canceled
  Return meets no caller;
- `ServerListening`: a Finish that precedes any Call of its id ends an answer
  that is still there, and if an answer is there a Call comes after such a Finish;
- `ClientSending`, `BothUp`: what is true only while the client can still
  send, or while both sides are up. A vat that is down drops what it sends, so
  these conjuncts cannot hold without that condition.

The proof first shows what appending a message or taking the first one does to
"pending" (`AppendCall`, `AppendFinish`, `TailCall`, ...), then has one lemma
per action. From `Invariance` follow `TypeCorrect`, `ProtocolSafe` and
`UnreachableSafe`. `NextQuestionId` of the module is what `PushSmallestUnused`
proves about the table.

**QueuedProofs.** `OnlyTheQueueCancels`: every step of `Queued` is a step of its
`SenderQueue` or leaves it alone, so the proof is about the queue. Its invariant `SInv`
says that ids in the map are below `next_id`, and that a Remover whose id is in the map
holds the id of its own value. `ForwardsBeforeTelling` rests on `TInv`: the map is
empty once the client is redirected, and whoever was told was told after that.

`DrainsInOrder` compares the map, which drains by key, with the list of values in the
order of the pushes. Its invariant `FInv` says that the list is the map read along some
upward enumeration of its keys; such an enumeration is unique, and removing a key, or
adding one above all others, does to it what `Without` and `Append` do to the list.
`CallsArriveInOrder` needs three invariants: what waits in the queue is in the order of
the calls (`WInv`), so is what has arrived (`AInv`), and the clients of a pipeline are
in the order in which calls were made on them, with nothing arriving before the pipeline
is resolved (`HInv`).

**EmbargoesInvariant, EmbargoesProofs.** `NothingRejected` and `CallsKeepOrder`: for any
number of calls, by one vat or both, and with disconnects at any moment, no message is
rejected and `Embargoes` implements `CallOrder`. Both have the hypothesis `ToObjects`,
that promises are resolved to objects of either vat and not to the peer's promise. It is
the hypothesis of the run `embargoes`, and call order is false without it, as
`embargoes_tribble` shows. The invariant `EInv` speaks of one promise at a time, with the
vat that holds it and the vat that owns it:

- `Agree`: what the holder has learnt of the promise is what the owner resolved it to,
  and the embargo, the replacement behind it and the echo at the owner fit together;
- `Waiting`: the calls in the owner's queue and those behind the embargo are in order,
  and behind all that have arrived;
- `Streams`: a call under way is ahead of those behind the embargo and not under way at
  all once calls go straight to the object; on either stream calls are in order, none is
  behind a Disembargo, and a call coming back from the owner is ahead of those still
  going there.

The last point is why the Disembargo must make the whole round trip: it pushes every
earlier call ahead of it through both streams. The lemmas on `Deliver` say where a call
goes in each state of the client (lost, arrived, forwarded, queued, held back); then
there is one lemma per action, for both promises, as a vat is the holder of one and the
owner of the other.

**RpcSystemProofs**, the write queue. `WritesInOrder`, `AnswersAreTrue` and `ShutdownLosesNothing` are
inductive together with `Running`, which describes the channel while the task runs
(`QueueOK`): it holds exactly the messages above the last one taken and all the Dones,
each kind in order, and a message behind a Done was sent after it.

**RpcSystemProofs**, the system. The invariant `JInv` adds three things to that of the write queue.
`StatesInOrder`: connection states are made and disconnected one after the other, the
n-th terminate is that of the n-th state, and at most the last is up. `Owned`: while
the queue runs, the on_disconnect task of every state that is down has a Connection;
and a queue that is over, on a stream that has not failed, has answered the first
terminate. `Room`: the bounds leave place for each Abort. From it follow
`SystemWrites`, `SenderIsLeft` and `ShutdownIsGraceful`.

**ReconnectProofs.** `IInv` relates generations and targets: calls of one target have
one generation; a call of an earlier generation is not on the current target, and one
of the present generation is, unless a target was set by hand; two calls that
reconnected were wrapped in different generations. `LostTargetsAreLeft`,
`ReconnectsOnce` and `OnlyReportedAreLeft` follow: the last because a call that makes the
client reconnect was wrapped in the present generation, and so, unless it was sent late,
is on the present target.

**ByteChannelProofs.** The conjunction of type invariant, `NoLostWakeup` and
`CursorsOrdered` is inductive for every buffer size (`ChannelTypeCorrect`,
`WakeupsKept`, `ReaderStaysBehind`). `ChannelIsStream` shows that every step of the
channel is a step of `ByteStream` or leaves it alone: a read takes a prefix of the
bytes between the cursors, a write adds at the end, and rewinding the cursors happens
only when there is nothing between them.

Only model-checked:

- every liveness property (`QuestionsSettle`, `ExportsReleased`, `PromisesSettle`,
  `CallsArrive`, `QueuedCallsSettle`, `EveryCallSettles`, `SystemFinishes`,
  `LossNoticed`, `DisconnectorFinishes`, `ReaderFinishes`, `MessagesArrive`), as
  liveness under fairness is out of the prover's reach;
- the four invariants of `Capabilities` and its refinement of `Questions`: they need the
  invariant of `QuestionsProofs` and that of `PromiseExportsProofs` at once, over the cap
  tables of calls and returns;
- `MessagesIntact`, `EndIsTrue`, `BuildsTheTree`, `UnusedIsZero`, `TreesArrive`: what
  folds and recursive definitions compute is out of the prover's reach.

## 5. What is not modelled

- Results redirected at the peer's request and `takeFromOtherQuestion` (tail calls):
  they couple three answers on two vats and would multiply the states of
  `Capabilities`. `handle_unimplemented` of a Resolve: no modelled vat refuses one.
- Capabilities the client hosts and the server uses, in `Capabilities`: the roles are
  symmetric and the tables of the other direction separate. `Embargoes` has both.
- A promise that resolves to another promise of the same vat, which the code does not
  implement when the promise is exported (`rpc.rs:1347`).
- Code of the application that runs while a client is mutably borrowed: a connect that
  uses the reconnecting client (`reconnect.rs:80`), a `ClientHook` whose `call` comes
  back to the queued client that forwards it (`queued.rs:55`).
- `local.rs`: calls on local objects run when the executor polls them, and their order
  is the executor's (`local.rs:366` says so). `CapabilityServerSet`: a map.
- `TaskSet` as a data structure: a task that is enqueued is polled.
- In `capnp`: lists, text, data, capability pointers, orphans, copies between
  messages, canonicalisation, the nesting and traversal limits of a reader;
  `SingleSegmentAllocator` and the no-alloc arena; the read limiter; the synchronous
  framing and packing, which have the formats of the asynchronous ones and no states
  in between.
- Direct use of `PackedRead` and `PackedWrite` with pieces that are not whole words.
- No state or protocol to model: `broken.rs`, generated code, the code generator
  `capnpc`, macros, schema import, examples and benchmarks.
- `capnp-import/capstone/c++`: the upstream C++ sources, which are built for the schema
  compiler only. They are by far the larger part of the lines in this repository; the
  models are of the Rust code.
