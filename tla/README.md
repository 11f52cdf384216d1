# Verification of mapepire-rs

TLA+ models of `mapepire`, an asynchronous Rust client for the Mapepire daemon of
IBM i (Db2 over JSON over a WebSocket). The modules describe what the code in
`src/src/` does; TLC checks them on small instances, TLAPS proves the safety
properties for every instance. `PROJECT.json` maps each definition to the lines it
models and lists runs, mutants, hazards, findings and theorems.

## 1. The system

| Part | Code | State it keeps | Operations |
|---|---|---|---|
| Dispatcher | `transport/dispatcher.rs`, `transport/socket.rs` | bounded `mpsc` queue, `pending` map from id to reply slot, `in_flight` counter, the socket | `send`, the two arms of `run`, two drains, abort on drop |
| Wire vocabulary | `protocol/request.rs`, `response.rs`, `dispatcher.rs` (`PendingKind`, `remap_response`) | none | which slot a request opens, how an ambiguous acknowledgement is read |
| Decoding | `protocol/decode.rs` | none | `decode_value`, `decode_tagged` |
| Job | `job.rs`, `job_helpers.rs` | a handle, an id allocator, the dispatcher | one request per method, `Exit` on drop |
| Result sets | `query.rs` (`Rows`, `StreamState`) | a page, `is_done`, the cursor handle | `Rows::new`, `stream`, its closure, two destructors, `spawn_close` |
| Prepared statements, parameters | `query.rs` (`Query`), `job.rs`, `protocol/request.rs` | optional server handle | `prepare`, `execute*`, `execute_batch`, `execute_sets`, `sqlclose` on drop |
| Pool | `pool/runtime.rs`, `routing.rs`, `manager.rs`, `builder.rs` | registry of weak references, deadpool's slots and permits, the reaper task | `execute*` (three tiers), `acquire`, `create`, `recycle`, `retain`, eager opens |
| Reserved, Executor | `pool/reserved.rs`, `executor.rs` | an `Object`, the sentinel in `in_flight`, the transaction state | statements, observed or not by the path they take; drop with `ROLLBACK` |
| Handshake, TLS, configuration | `transport/handshake.rs`, `transport/tls.rs`, `config.rs`, `password.rs` | the settings, a `Once`, one attempt's progress, the session it opens | builder, serialized form, `fetch_certificate`, `connect` |
| Ids | `protocol/codec.rs` | a prefix and a counter | `next` |
| Errors, row mapping, metrics | the other files | none over time | |

How they interact. A method of `Job`, `Query` or a stream builds a request with an
id and awaits `DispatcherHandle::send`. The dispatcher task takes it from the
queue, writes it, counts it and files the caller's oneshot under the id; an
inbound frame is decoded, looked up by id and passed to that oneshot. The pool
shares `Job`s by `Arc`, and its router reads each dispatcher's `in_flight`
counter; `Reserved` stores `u32::MAX` into that same word to hide a connection
from the router. Destructors spawn best-effort requests (`exit`, `sqlclose`,
`ROLLBACK`) that nobody waits for.

What is hard about it: futures may be dropped at any await; the dispatcher may be
aborted at any await; answers arrive in any order, twice, unreadable or never;
the counter is read and written by parties that do not know of one another; ids
come from several allocators; connections die while idle, checked out, pinged or
shared; the daemon's live dialect has no discriminant, so meaning depends on keys
and on the request; cursors on the daemon have one owner that changes hands.

What makes each part correct:

* Dispatcher: every call returns; nobody waits on a slot that no one can fill; an
  answer goes to its own call; the counter is the size of the map.
* Decoding: an object that names a request settles it; the daemon's success
  answers are understood; a failure is not taken for success.
* Pool: no live connection is lost to the router; a checkout is exclusive and
  accounted for; operations return; a dead connection does not poison retries.
* Result sets: rows in order, none lost silently; each cursor released exactly
  once by its owner, after the last fetch, however the stream ends.
* Transactions: the tracked state agrees with the daemon's; a forgotten transaction
  is rolled back, and no other holder works inside it.
* Connecting: the password goes to the daemon only; every attempt ends, and one that
  failed, was given up or closed leaves no session; a fresh `Job` has nothing in
  flight.
* Prepared statements: parameter sets are executed in order, each at most once, `Ok`
  means that the daemon answered each of them as a result; what the daemon keeps has
  an owner and is closed once.

## 2. Modules

| Module | Models | EXTENDS |
|---|---|---|
| `Protocol` | request and response vocabulary, `pending_kind`, `remap_response`, what callers accept | |
| `Dispatcher` | one connection with its callers, task, network and daemon | `Protocol` |
| `RequestReply` | abstract: what a connection promises to callers | |
| `DispatcherProofs` | theorems about `Dispatcher`; that it implements `RequestReply` | `Dispatcher` |
| `Decode` | one inbound object from bytes to the caller's result | `Protocol` |
| `Pool` | the pool, its router, reservations, reaper and builder | |
| `Rows` | result sets and cursors | |
| `Transactions` | holders of one reserved connection after each other, `TxState`, the `ROLLBACK` of the destructor | |
| `Config` | the settings: builder, defaults, serialized form, TCP target (operators only) | |
| `Connect` | `Job::connect` and `fetch_certificate` from the settings to the open session and its end | `Config` |
| `Prepared` | statements with parameters, `Query`, batches, their destructors | |
| `PoolProofs`, `RowsProofs`, `TransactionsProofs`, `ConnectProofs`, `PreparedProofs`, `DecodeProofs` | theorems about the module of that name | that module |
| `BatchProofs` | theorems about the parameter sets in `Prepared` | `PreparedProofs` |
| `MCDispatcher`, `MCPool`, `MCRows`, `MCTransactions`, `MCConnect`, `MCPrepared` | instances for TLC | the above |

Names ending in what a mistake would do (`ReturnKeepsPending`, `StreamClones`, ...)
are mutants: plausible wrong versions of the definition that follows them. Each
property of a passing run has one that TLC shows to violate it.

### Dispatcher

`call[c]` is where the future of `send` is (`idle`, `sending` for a full queue,
`waiting` on the oneshot, `done`, `cancelled`), `slot[c]` its oneshot, `queue` the
channel, `task` the program counter of `run` with `cur` and `result` for its
locals, `pending` the map, `inFlight` the atomic. `handles` says who keeps a
`DispatcherHandle` alive. `link`, `daemon` and `inbox` are the network and the
daemon (external).

The task can be aborted only at an await (`select`, `sending`, `sent`), but
between awaits it runs in parallel with other threads, so each counter update and
each oneshot send is a step of its own. `Write`/`Track` are the write and the
counting and filing after it; `WriteError` the failed write; `ReadResponse`,
`ReadUndecodable` and `ReadFatal` the inbound arm; `SendReply` the oneshot send;
`DrainNext`/`DrainDone` both drains, entry by entry in any order (a `HashMap`);
`RecvNone` the end when all handles are gone; `Abort` the drop of the future with
everything it owns (`Owned`, `Return`). `DropJob` is `Drop for Job` together with
the drop of its `Dispatcher` and the spawned `Exit`.

Frames carry, for the properties, the call the daemon was answering (`re`); the
code does not see it. Control frames are skipped by `WsTransport` and left out.
Tracing and payloads are left out.

`RequestReply` has no queue, map or wire: a submitted call is decided at most
once, by its own answer or by a failure, never answered once the connection is
closed, and returns only what was decided. The refinement mapping reads `phase`
off `call`, `outcome` off `slot` and `open` off `task`.

### Decode

A `Frame` is a set of keys, whether rows can be named, and `success`. `KnownKey` are
the keys `decode_value` and the bodies test for; `OtherKey`, a constant, are those
nobody reads, which serde skips. The three actions are decoding, routing by id with the slot's kind,
and the match of the method that sent the request. Field values are abstracted.
`BareFailureNeverOk` is about failures that decode as an error: untagged ones without
the keys of a result, and tagged ones of type `error`. A tagged `query_result` or
`prepared_statement` with `success: false` is `Ok` to its method, which does not look
at it (job.rs:494, 638), and so is an untagged failure with `data` or `has_results`.

### Pool

A client is an executor (`Pool::execute`), a reserver (`Pool::acquire` and its
`Reserved`) or the builder. `pc` follows its operation, `hold` how it keeps its
`Job`: an `arc` of its own, deadpool's `unready` object during the recycle ping,
or the `object`. A connection is reduced to what the router and the clients can
observe of `Dispatcher`: requests are queued, counted when written, un-counted
when answered, drained when it dies. Requests whose caller is gone, including the
`ROLLBACK` of `Drop for Reserved`, are numbers per connection (`ghosts`).

Abstractions: a registry scan is one step (it holds the registry's lock; the
references it upgrades and the counters it reads are taken at one moment); the
order of requests of one connection is left open; `execute`, `execute_with` and
their `_opts` forms differ only in the request and share their actions; names of
connections that no longer exist are reused. deadpool is external: semaphore,
FIFO of idle slots, `Object` and `UnreadyObject` as the crate's documented
behaviour and the code's use of it have them. The transaction state of `Reserved`
is in `Transactions`.

### Rows

`pc` follows the owner of a statement from `execute` through `Rows` to the stream;
`buf`, `done`, `cursor` are the page, `is_done` and the handle; `seen` is what the
caller got; `closing` counts spawned `sqlclose` tasks; `wire` is the connection's
FIFO. The daemon (external) pages through `RowCount[s]` rows, may report the end
with the last full page or after it, refuse, answer what is not understood (its
own state advanced), send an empty page that is not the last, or go away. What was
open when the connection went down stays open (query.rs:504-508, 832-835) until the
daemon's idle timer (`IdleTimer`, external) releases it.
`OffRuntime` names the statements whose destructors may run outside of a Tokio
runtime, where `spawn_best_effort` does nothing; `FailedPages` those whose
`sqlmore` may fail with the shape of a result.

`Transactions`, `Connect` and `Prepared` likewise use of a connection what
`Dispatcher` shows it to be: requests are served in the order in which they were
queued, an answer reaches the call with its id or nobody, and a connection that dies
fails every call on it.

### Transactions

A holder goes from `waiting` through the recycle ping to `held` and `dropped`; its
tasks share the `Reserved`. `call` is the statement each task awaits and whether the
path it took is an observed one (`observes`: the methods of `Reserved` and the `_opts`
methods of `Executor for Reserved` are, `Executor::execute`, `execute_with` and the
deref to `Job` are not). `Return` resolves it and observes it if it is `Ok`; `Cancel`
drops its future with the request on its way. `DropReserved` gives the connection
back and leaves the `ROLLBACK` to a task (`spawned`), which `QueueRollback` runs at
some later time. Statements are sequences of words, so that the first-word test of
`observe_sql` is modelled as it is. The daemon (external) applies, refuses or
misreports; `tx` is whose transaction is open. A `Query` or a stream made on a
`Reserved` has a handle of its own (query.rs:170) and may send requests after the
`Reserved` was dropped; this is left out, and listed as a hazard.

`upset` is history: it names what may come between the tracking and the truth.
`TrackingExact` and `RollbackExactly` hold for holders to whom none of it happened,
and the list in the module is therefore the exact statement of what `TxState` can be
trusted for.

### Config and Connect

`Config` has the builder as a record with `None` for what was not set, `build` with its
defaults and missing fields, and the serialized form with its own. `Connect` has the
settings being made and consumed, `fetch_certificate` whose result may be pinned, and
attempts: `at` is the await an attempt is at, `cfg` what it works with, `peer` the
certificate it was shown, `task` its dispatcher. Each await may fail, find the
connection lost, or be where the future is dropped (`Cancel`). `Drops` is what goes
with the future: the socket, or the `Dispatcher`, which aborts the task, which then
drops the socket (`Aborted`). Certificates are records (external); which of them a
configuration accepts is `verify_server_cert`, with the verifier each backend sets up.
Another peer may take over the address between attempts and within one (`Move`).
`answer` is what the daemon makes of the `Connect` request: it connects, answers with
an error of any kind, or with something else. The task un-counts the request
(`Answered`) and then hands the answer over (`HandOver`), on its own thread, before
`connect` goes on.

### Prepared

`query` is the one `Query` with its handle, `call[t]` the call a task is in with the
parameter sets still to go, `given` the sets of every call, `queue` the requests,
`held` the cursors callers have a `Rows` for, `spawned` what the `sqlclose` tasks will
close, `log` what the daemon executed for each call. A value is a scalar or an array, so that the
wire form of parameters (`serialize`: one set flat, several nested) and its reading
(`deserialize`) are modelled by what they do. `lost` is what the daemon keeps for a
request whose future was dropped or whose answer was not understood, and what was
dropped where no Tokio runtime was present (`spawn_best_effort`). As in `Rows`, what is
open when the connection goes down stays so until the daemon's idle timer.

A set may fail in two ways. `ServeError` is a failure the caller sees. In
`ServeFailedResult` the answer has the keys of a result, and `execute_inner` returns
`Ok`: a batch goes on. The log then has `None` in the place of a set that was not
executed, and `ExecutedInOrder` and `OkMeansServed` allow for exactly that. The model
takes such an answer for one without a cursor (no `is_done: false` in it).

## 3. Runs

Passing:

| Run | States | Checks |
|---|---|---|
| `MCDispatcher` | 484 k | Two callers and the `Exit` of `Drop for Job`, distinct ids, a queue of one. `InFlightExact`, `RepliesToOwnRequest`, `NoOrphan`, `ImplementsRequestReply`. |
| `MCDispatcherLive` | 216 k | Two callers with one id, and a stray frame (unknown id, no id, second answer, not JSON). `SentinelFree`, `ClosingFreesCallers`, `EveryCallReturns`. |
| `MCPool` | 1.04 M | An executor, a reserver and the builder on a pool of two with the reaper. `RegistryCoversLive`, `CheckoutExclusive`. |
| `MCPoolLive` | 24 k | A pool of one. `OperationsReturn`, `RetryRecovers`. |
| `MCDecode` | 282 k | All frames against all requests. `OwnFrameSettles`, `LiveAnswersUsable`, `BareFailureNeverOk`, `JobLogKept`. |
| `MCRows` | 74 k | A result set of three pages and one of exactly one page. `NoSilentLoss`, `ClosedByOwnerOnly`, `NoFetchAfterClose`, `CursorReleased`, `StreamEnds`. |
| `MCTransactions` | 618 k | Two holders, each with two tasks, three statements by all five paths, cancelled, refused, misreported. `TrackingExact`, `RollbackExactly`, `CleanHandOver` (a `ROLLBACK` queued before the next holder's recycle ping is over before that holder works), `ForgottenRolledBack`. |
| `MCConnect` | 534 k | Both backends, five certificates, all TLS modes, invalid names and pins, a peer that changes. `PasswordOnlyToDaemon`, `FreshCounterZero`, `PinnedPeerAccepted`, `NoSessionLeft`, `ConnectReturns`. |
| `MCPrepared` | 3.95 M | Two tasks, three calls and three requests. `ExecutedInOrder`, `OkMeansServed`, `NoExecuteAfterClose`, `ClosedOnce`, `NothingForgotten`. |

Disagreements between the code and what its docs say (violation runs; each has a
finding in `PROJECT.json`):

| Run | Shows |
|---|---|
| `MCPoolReserved` | A statement of the holder wraps the sentinel to 0, and the scan gives the reserved connection to one-shot work. |
| `MCPoolNoReaper` | Without a reaper a connection that died idle is the fast path's choice for ever. |
| `MCTransactionsLate` | The `ROLLBACK` of `Drop for Reserved` is queued behind the next holder's statement, which runs in the previous holder's transaction and is rolled back with it. |

Met while modelling, and kept as notes: the doc of `send` says that dropping its
future removes the pending entry (dispatcher.rs:78-80), which the code does not do
and the comment at 304-306 denies; `peek_idle` says a strong count of two means
nobody has the Job checked out (routing.rs:28-30), but an `Object` holds the one
reference the slot had; `server_version`, `db_job_name`, `set_trace` and
`fetch_trace` promise `Error::Server` for `success: false` (job.rs:701-702), but a
bare failure decodes as `Response::Error`, which they report as
`Error::Protocol`; two executors that retry in turn can hand a reaped, dead
connection to one another, because the registry offers whatever an `Arc` keeps
alive (`MCPoolLive` therefore has one executor).

Also kept as notes, each plain once the model is read beside the code:

* `Drop for Reserved` stores 0 over requests still counted (reserved.rs:367-370);
  their answers wrap the counter, in the worst case to the sentinel, and the comment
  "normal counting resumes" does not hold for that connection.
* The eager loop returns each connection before it asks for the next
  (builder.rs:201), so it opens one, whatever `starting_size` is.
* A failed statement whose answer has `data` or `has_results` is a `QueryResult`, and
  `execute` returns `Ok` (decode.rs:70, job.rs:493); a failed `sqlmore` with
  `data: []` ends the stream as if complete (query.rs:910-947). `execute_batch`, whose
  doc says "The first execution failure is returned as `Err`" (query.rs:379-381), then goes
  on with the sets behind the failed one.
* Any error answer to `Connect`, for bad `jdbc_props` as well, is `Error::Auth`
  (handshake.rs:123-126); the docs speak of rejected credentials (job.rs:160,
  handshake.rs:68-69).
* A transaction whose `BEGIN` was cancelled after it was queued is not tracked, and
  rollback_on_drop does nothing about it (reserved.rs:182); the first word alone decides
  (reserved.rs:304); tasks that share a `Reserved` may observe out of order
  (reserved.rs:305). `TrackingExact` counts all of them as upsets.
* `Executor::execute` and `execute_with` on a `Reserved` are not tracked, the `_opts`
  forms are (executor.rs:186-221). `TrackingExact` counts them as upsets.
* A failed native-tls handshake is `Error::Internal` (tls.rs:182-185), a failed rustls
  one `Error::Transport` (tls.rs:99).
* One empty parameter set is still sent, as `[]`; one set of nothing but arrays is
  sent flat and reads as a batch (request.rs:379, 393). `ExecutedInOrder` excepts
  the latter, by name (`Ambiguous`).
* With `TlsConfig::Ca` the public roots stay trusted on both backends.

### Bounds, and why they are enough

* Dispatcher: with a queue of one, three calls are one written, one queued, one
  blocked at the same time, together with an answer, a drain and an abort; a
  fourth only repeats a role. `U32Max` is small and larger than the number of
  calls, so wrapping in either direction is visible. Stray frames are in the run
  with shared ids; with distinct ids the theorems of section 4 cover any number of
  them. Symmetry is not used: calls
  carry different requests.
* Pool: two connections and one executor beside one reserver give every pair of
  roles on the same and on different connections; `Threshold` 2 separates idle,
  busy and saturated; one abandoned request per connection is enough to be counted
  on one side of a store and un-counted on the other.
* Rows: pages of two; five rows are a full, a full and a short page; two rows are
  the case where the end is known only afterwards. Two errors bound the polling
  after a failure.
* Decode: exhaustive but for `OtherKey`, of which there is one; the proofs take any.
* Transactions: three statements are a `BEGIN`, one that disturbs it and one of the
  next holder; two tasks are enough to answer out of order. `MCTransactionsLate` has
  plain statements only.
* Connect: one place for attempts, which follow one another without limit. Attempts
  share the settings, read-only by then, and the `Once`, so a second place adds no
  interaction. One change of peer, at any time, is before, between or within a fetch
  and a connect.
* Prepared: three requests are a `prepare` and a batch of two, or a batch and a
  competitor. Batches are empty, and of two sets of which one holds an array; a lone set
  of nothing but arrays, which the properties except, is left to the proofs. Tasks are
  interchangeable and under symmetry (the run has no temporal property).

Runs say `CHECK_DEADLOCK FALSE` because calls, statements and connections are
finite: a behaviour in which everyone is done may stop. That nobody is stuck is
what the liveness properties say.

### Fairness

* `Dispatcher!Polled`: Tokio polls a task that can go on and carries out an abort.
  Nobody has to call, cancel or drop; a write may block for ever; the network may
  stay silent. `ClosingFreesCallers` needs no more. `EveryCallReturns` is under
  `Responsive`: the peer takes what is written and answers in some form. Without a
  timeout in `send` nothing less will do, and a silently cut link is excepted.
* `Pool!Progress`: tasks are polled, connections answer or die, a `Reserved` is
  dropped some day, the daemon accepts connections, deadpool's semaphore is fair
  (Tokio's is FIFO). No timeout has to fire. `RetryRecovers` also assumes that
  callers retry, the reaper wakes (`Retrying`), and from some time on nothing new
  goes wrong (`Calm`).
* `Rows!DrivenSpec`: spawned tasks run, the daemon serves its queue, its idle timer
  runs once the connection is down, and the caller polls.
* `Transactions!FairSpec`: spawned tasks run, and the daemon serves its queue.
* `Connect!FairSpec`: futures and tasks are polled, and the peer answers or is seen
  to be gone. `connect` has no timeout, so nothing less will do. Nobody has to drop,
  cancel or retry.

## 4. Proofs

Every invariant and every action property that a run checks is proved for all values
of the constants; so is the refinement. A theorem about an
invariant rests on an inductive one, which TLC checked first; an action property is
proved as `Inv /\ [Next]_vars => [A]_vars` from it. Where many actions do the same
kind of thing (give back a connection, send a request, answer one), a lemma puts each
action into one of a few shapes, and the invariant is shown to survive the shapes.

Assumptions on constants say what a constant is (a finite set, a number, a distinct
value) and, where something more is meant, what the code relies on:

| Assumption | Says |
|---|---|
| `CallsAssumption`, `BoundsAssumption` | finitely many calls, ids of any assignment, a queue with room for one, fewer calls at a time than `u32::MAX` |
| `PoolAssumption` | finitely many clients, a pool of at least one, names for as many connections as can be referred to at a time, a threshold and a number of requests below `u32::MAX` |
| `RowsAssumption`, `TransactionsAssumption`, `PreparedAssumption`, `BatchesAssumption`, `NoneAssumption` | types only; `None` is no value |
| `KeysAssumption` | the keys nobody reads are not among those somebody reads |
| `ConnectAssumption`, `IssuersAssumption` | types; public roots, and the issuer a caller pinned, certify a host's name only for its holder |

`Refinement`, `Decisions`, `OwnAnswers` and `CounterExact` take `UniqueIds` as a hypothesis, as
their properties do: two `IdAllocator`s may draw the same prefix.

`DispatcherProofs`:

* `Typing`: `TypeOK`. The queue bound comes from the guard of `Enqueue`, the
  counter's width from `fetch_add` and `fetch_sub`.
* `NobodyOrphaned`: `NoOrphan`, for distinct ids and shared ones. Not inductive
  alone: when the task passes on the slot it holds, one must know that it holds
  one exactly between taking and passing on (`CurHeld`).
* `OwnAnswers`: `RepliesToOwnRequest`. An answer is delivered by id, so one needs
  that map entries are under the id of their request (`PendingById`), that frames
  carry the id of the request they answer (`AnswersById`), and that a result in
  the task's hands belongs to the slot in its hands (`ResultOwn`).
* `CounterExact`: `InFlightExact`. Inserting grows the map by exactly one only if
  the entry was free; with distinct ids that follows from a reply slot being in
  one place (`HeldOnce`) and only after its caller handed it over (`HandedOver`).
  `EntriesBounded` keeps the count below the width, so nothing wraps.
* `SentinelNeverReached`: `SentinelFree`, for clashing ids too, where the counter may
  exceed the map: it stays between the entries and the calls that were counted
  (`CounterBounded`).
* `Refinement`: `ImplementsRequestReply`. Each action is a step of `RequestReply` or
  leaves `phase`, `outcome` and `open` as they are. `SlotsOpen` says that a slot
  somebody may still fill has not been decided; without it a drain could be a second
  decision.
* `Decisions`: what this refinement means for callers, as an action property
  (`DecidedForGood`): a call that returned or gave up never changes again, a decision
  is taken once, none is an answer before the call was sent or after the connection
  began to close, and a closed connection stays closed.

`PoolProofs`:

* `PoolTypes`: `TypeOK`.
* `Exclusive`: `CheckoutExclusive`. `ExclusiveInv` gives each `Job` one base
  reference, in one idle slot or one client's `Object`; `SizeInv` relates deadpool's
  size, the slots and the permits, and is what keeps `size` and the connections being
  opened together within `MaxSize`; `ClientInv` ties how a client holds a `Job` to where
  it is in its operation.
* `Tracked`: `RegistryCoversLive`. A scan drops only entries that do not upgrade, and
  a `Job` that was just created is alive before it is listed (`RegistryInv`).

`RowsProofs`:

* `RowsTypes`: `TypeOK`.
* `NothingAfterClose`: `NoFetchAfterClose`; `OneOwner`: `ClosedByOwnerOnly`. A request
  for the next page is on the wire only for a stream that waits for it or was
  abandoned while waiting (`FetchInv`), and the handle, the spawned tasks and the
  `sqlclose` on the wire are together one at most (`CloseInv`). That they are at least
  one while the daemon has the cursor open is a second induction (`CursorsInv`): an
  answer that says it is the last page is on its way only if the daemon has released
  the cursor, and an execute is on the wire only for an owner who waits or gave up. On
  a dead connection the cursor is the idle timer's (`Closer`).
* `RowsComplete`: `NoSilentLoss`. What the caller has, what is buffered and what is
  in the answer follow on one another up to where the daemon is (`OrderInv`,
  `PrefixInv`), and the end is known only when nothing is left (`EndInv`).

`TransactionsProofs`:

* `Typing`: `TypeOK`; `Tracking`: `TrackingExact`; `RollbackWhenOpen`:
  `RollbackExactly`. One must follow a statement from its call through the daemon to
  `observe_sql`: `CleanHeld` says where it is and what the daemon's transaction is
  at each of these, and `QuietRecycle` that nothing of an earlier holder is in the
  queue by then.
* `HandOver`: `CleanHandOver`. `RollbackAhead` places the `ROLLBACK` in the queue
  before everything of the next holder, unless that holder is late; `NoStale` keeps
  earlier holders' statements out.
* `ForgottenFollowedUp`, from the same invariant: the `ROLLBACK` of a forgotten
  transaction is in its task or in the queue for as long as the daemon has that
  transaction open, and a transaction that ended after its holder left is not begun
  again.

`ConnectProofs`:

* `ConnectTypes`: `TypeOK`; `PasswordKept`: `PasswordOnlyToDaemon`; `FreshJobIdle`:
  `FreshCounterZero`. `AttemptInv` says at each await what was checked before it:
  the certificate the attempt was shown is one its configuration accepts; and that the
  request of the handshake is counted from its write to its answer, so that un-counting
  it neither wraps nor leaves anything behind.
* `PinIsAccepted`: `PinnedPeerAccepted`.
* `SessionsOwned`: a socket that is open is the connecting future's, or the running
  task's whose `Dispatcher` that future or its `Job` holds, or belongs to a task that
  was told to stop (`SessionInv` ties the task to where the attempt is).

`PreparedProofs`, `BatchProofs`:

* `PreparedTypes`: `TypeOK`; `NoLateExecute`: `NoExecuteAfterClose`; `OneClose`:
  `ClosedOnce`; `NothingLeaks`: `NothingForgotten`. Ids are used once (`WaitInv`,
  `QueueInv`); everything the daemon keeps has one owner at most (`OwnInv`), and one
  at least, while the connection is up, unless its close is on the way or it is among
  the exceptions in `lost` (`KeptInv`); `CloseInv` and `ExecInv` order the queue.
* `SetsInOrder`: `ExecutedInOrder`; `OkIsServed`: `OkMeansServed`. A number
  belongs to one call, which has one request on the way at most (`NumberInv`); the log
  accounts for its sets up to the m-th, each executed or answered like a result
  (`Account`, place by place), its request carries those behind
  the m-th, in whichever wire form (`RequestInv`, with `ExecutesOne` and `ExecutesAll`
  on `serialize` and `deserialize`), and an answer means that they are accounted for up
  to where the call is (`CallInv`).

`DecodeProofs`:

* `OwnFrame`: `OwnFrameSettles`; `LiveAnswers`: `LiveAnswersUsable`; `BareFailures`:
  `BareFailureNeverOk`; `JobLog`: `JobLogKept`. `DecodeInv` says that each stage has
  the result of those before it, so the properties are about
  `result_of(request, Routed(request, frame))`. Lemmas say what `body`, `loose` and
  `decode_tagged` give (`BodyDecodes`, `LooseDecodes`, `TaggedAnswers`), what is kept
  of the id and of success through `decode_value` and `remap_response`
  (`DecodedAnswers`, `Remaps`), and which variant a live answer or a bare failure
  decodes to (`LiveAnswerOk`, `BareFailureDecodes`).

The proofs about sequences use functions on indices where a recursive definition
(`SelectSeq`) would do for TLC: in `Pool` the i-th element of `retain` is the one
before which i - 1 others are kept; `log` of `Prepared` is kept by call.

Only model-checked is liveness (`EveryCallReturns`, `ClosingFreesCallers`,
`OperationsReturn`, `RetryRecovers`, `CursorReleased`, `StreamEnds`,
`ForgottenRolledBack`, `NoSessionLeft`, `ConnectReturns`): fairness and `ENABLED` are
out of the prover's reach. Of some the safety part is proved, that whatever is awaited
has somebody left who will act: `NobodyOrphaned` for the calls of a connection,
`OneOwner` for `CursorReleased`, `ForgottenFollowedUp` for `ForgottenRolledBack`,
`SessionsOwned` for `NoSessionLeft`. What remains of these is that a fair step that
is enabled happens.

## 5. Hazards

`PROJECT.json` lists them with their lines and properties. Some have no property, and
a note there says why:

* both ends of the socket blocking on writes (excluded by the responsiveness that
  `EveryCallReturns` assumes), and the eager loop's single connection (section 3);
* a connection reserved between the scan that picked it and the routed statement: in
  the runs, but `ScanSkipsReserved` judges the scan only;
* `acquire_timeout` bounds only the wait for a permit; `OperationsReturn` assumes that
  connections answer or die, so the missing bound is not seen by it;
* what takes `TxState` away from the truth (a cancelled `BEGIN`, paths that are not
  observed, first words, two tasks at once): in the runs, as upsets that the properties
  of `Transactions` except by name;
* a `Query` that outlives the `Reserved` it was made on;
* any error to `Connect` being `Error::Auth` (section 3).

Cursors and handles of a request whose caller is gone, or dropped where there is no
runtime, have no owner in the code: `NothingForgotten` says that there are no others
while the connection is up.

## 6. Not modelled

Errors and `FromRow` (data types and conversions of one value), observability
(names), zeroizing and redaction of the password (no state a model can tell apart),
how an id prefix is drawn from the clock (`Dispatcher` takes any assignment of ids,
clashes included). Chain building, signatures and expiry of certificates are the TLS
libraries'. Payloads, SQL text and formatting are abstracted everywhere except where a
property is about them (the first word of a statement, the wire form of parameters).

## 7. Plan

1. Done: `Protocol`, `Dispatcher`, `RequestReply`, `Decode`, `Pool`, `Rows`, and
   the first theorems; then `Transactions`, `Config`, `Connect` and `Prepared`; then
   the theorems of section 4.
2. Left to model: the reaper's period and `acquire_timeout`, with a clock; both socket
   buffers, for the blocked-write hazard.
3. Left to prove: the safety parts of `OperationsReturn` and `RetryRecovers` (who
   holds what a client of the pool waits for) and of `StreamEnds`.
