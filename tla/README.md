# SiriusMsg SDK: TLA+ verification project

SiriusMsg gives local programs access to Messages through a signed macOS service. This
repository holds the two SDKs (Python and TypeScript), the protocol schema and the documentation;
the service itself is not in it. The SDKs are small, but they are concurrent clients of an
unreliable peer: one connection carries a stream of events *and* the answers to acknowledgements
of several tasks, connections come and go, calls are cancelled, and a send whose answer is lost
must not be made twice. Those are the parts this project models.

## Inventory

| Part | State | Operations | Status |
|---|---|---|---|
| Python subscription engine (`client.py` 126-135, 388-413, 446-550) | connection, pending futures, reader task, write lock; per stream: event queue, place in `subscribe()` | `subscribe`, `ack`, reader task, routing, teardown | modelled, proved about |
| Python transport (`_transport.py`) | socket reader and writer | open, authenticate, write, read_response, close | outcomes modelled, bytes not |
| Python send (`client.py` 171-194, 561-591) | none in the client; operation ID in the caller; operation cache in the service | `send`, `send_content`, `_check_supported`, `_perform` | modelled, proved about |
| Python calls and tokens (`client.py` 105-168, 311-386, 415-443, 552-577, `errors.py`) | `_auth_token`, token file | health, capabilities, chats, history, allowlist, attachments, rotation, profile credentials | modelled, proved about |
| Python content and gate (`client.py` 196-338, 579-665) | none | constructors, `send_` helpers, feature of a content | modelled (pure) |
| Python managed typing (`_typing.py`, `client.py` 340) | heartbeat task, shielded stop | start, renew, stop under cancellation | modelled, proved about |
| Python control client (`control.py`) | none; one deadline per exchange | `send` and the owner's commands | modelled, proved about |
| Python reference runner (`examples/adapter.py`) | place in `run()`, durable store of the agent | `run` over subscribe, fetch, send, ack | modelled, proved about |
| TypeScript subscription engine and transport (`client.ts` 442-474, 509-614, 677-720, `transport.ts`) | per-connection pending map and event queue, response and reader queues, failure; the pair the client names | `subscribe`, pump, routing, `ack`, socket events | modelled, proved about |
| TypeScript typing and control | as in Python, with signals and destroyed sockets | as in Python | modelled, proved about |
| TypeScript send and runner | as in Python | as in Python | same steps as the Python models, proved about |
| Generated models, schema (`_models.py`) | - | validation | enumerations and records only |
| Service | subscriber, deliveries, ack cursor, operation cache, token, connections, typing indicator | accept, refuse, deliver, ack, dispatch, rotate, command, drop | external, from `docs/local-protocol.md` and `docs/sdk-python.md` |
| Hosted adapter, tools, site | - | - | not in the repository, or no behaviour to model |

How the parts interact. A consumer iterates over `subscribe()`, an async generator. The generator
opens a connection, subscribes, and starts a *reader task* that reads every later frame of that
connection: events go to the generator through a queue, answers settle the future of the `ack()`
that asked. `ack()` is called by the consumer between two events, or by other tasks; it writes on
the subscription connection under a lock. Every other call opens a connection of its own
(`_perform`). The runner of `examples/adapter.py` composes all of it: it consumes one stream, replies
with `send_content()` and `send_file()`, records completion in its durable store, and acks. A scope of `typing()`
sends too, from two tasks of its own. The owner's control client has another socket and meets the
clients only in the service: its commands create, change and remove the connections under which agents authenticate.

What is hard: answers interleaved with events and acks of several tasks; a connection that
dies, is replaced or torn down while an `ack()` stands between its three awaits; cancellation at each of
them; errors queued behind events; a send whose answer is lost while the service handles it
later; a runner that dies between two durable steps; a typing indicator that a late renewal turns on again; a
deadline that fires while a socket is closed; a token that is rotated while somebody authenticates; a command that
lands after its successor. `PROJECT.json` lists these under "hazards", each
at its line, with the properties that cover it.

What makes each part correct. Subscription engine: no lost, duplicated or reordered events; `ack()` is
truthful and returns; one reader at a time; reconnection for exactly the documented errors. Send: at most one
dispatch per intended message, truthful outcomes, no lost operation ID. Runner: one reply per message,
parts in order, ack only after completion, and every message acknowledged in the end. Typing: off after its scope, and
never the reason for how the scope ends. Gate: a reply that
is reported as not sent is not sent, so that an agent may say it otherwise. Control:
an owner is never told "done" or "rejected" when it is not so, and is told something by the deadline. Tokens: who is registered,
enabled and reads the file gets in; who was removed does not.

## Modules

| Module | What it is |
|---|---|
| `AckContract` | what `ack()` promises, without connections or tasks |
| `PySubscription` | the Python subscription engine and the service it talks to |
| `TsSubscription` | the TypeScript subscription engine, its connections' queues, the same service |
| `SendOperation` | `send()`, the callers that retry it, the service's operation cache |
| `ReplyContract` | what an adapter promises about each message |
| `AdapterRunner` | `run()` composed with `AckContract` (INSTANCE) and `SendOperation` (INSTANCE) |
| `Content` | what may be sent, the feature each kind needs, the gate (pure) |
| `ManagedTyping` | one scope of `typing()` in either SDK, and the reply after it; extends `Content` |
| `OwnerCommands` | the commands of the owner, as the control client builds them (pure) |
| `ControlExchange` | the control client of either SDK and its peer; extends `OwnerCommands` |
| `ClientRequests` | one-shot calls, rotation, attachment bytes, and the service that answers |
| `Registration` | `ControlExchange` composed with `ClientRequests`: they share the connections of the service |
| `MCPySubscription`, `MCTsSubscription`, `MCSendOperation`, `MCAdapterRunner`, `MCManagedTyping`, `MCControlExchange`, `MCRegistration` | instances for TLC |
| `PySubscription_proofs`, `TsSubscription_proofs`, `TsAckSafety_proofs`, `TsOrder_proofs`, `SendOperation_proofs`, `AdapterRunner_proofs`, `ManagedTyping_proofs`, `Registration_proofs` | theorems |

### PySubscription

One asyncio event loop runs every task, so an action is the code from one suspension point to the
next; what happens between two awaits is one step.

* Client fields: `conn`, `pending`, `readerTask`, `lock` are `_subscription_connection`, the keys of
  `_subscription_pending`, `_subscription_reader_task` and the holder and FIFO waiters of
  `_subscription_write_lock`.
* Generators: `spc` is the await a call of `subscribe()` is at ("opening" covers open, authenticate and
  the subscribe request), `cur` its connection, `outcome` how the attempt ended. `Raise` is the
  `except`: a transport error under the default policy sleeps *inside* the except clause
  ("backoff"); the finally clause runs afterwards (`CancelReader`, `Unwind`, `Closed`).
* Connections: `reader`, `queue`, `inbox`, `link` are the reader task, the event queue, the frames not read
  yet and the socket ("down": closed by the peer, "closed": by the client). Items a reader can read and then
  lose at teardown vanish with the queue.
* Calls of `ack()`: `cpc` is the await they are at, `fut` their future, `via` the connection they wrote
  on. A call is its own request ID. The future is created before the lock is awaited but can be seen by
  nobody before it is registered, so the model creates it with the registration (`Write`). A call that has ended keeps its future only where
  it is still registered, and of the exception it raised only that it raised one (`End`).
* Exceptions are five classes, the ones the code tells apart: `SiriusMsgTransportError` (a malformed frame
  is one, and so is an answer to `ack()` of another kind than "acked"), an error response, a raw `OSError`, the
  `UnicodeDecodeError` of a frame that is not UTF-8, `InvalidStateError`. The reset of a connection is a raw `OSError`
  because only `open()` wraps it; `json.loads` raises the `UnicodeDecodeError`, and `read_response()` does not catch it.
  A write to a peer that is gone is lost, or `drain()` raises the reset or EPIPE it finds (`DrainFails`).
* A generator that is closed, or whose task is cancelled, leaves by `Abandon`: from any await of the try block, from the backoff, and from
  the `close()` of the finally clause, whose rest does nothing. The await of the cancelled reader swallows a cancellation
  (`client.py` 493-496), and "joining" is that await, at which other tasks run.
* Service: one subscriber; a row is delivered until its ack is recorded; an ack counts only from the
  subscriber that was sent the row, once; backpressure is an error frame without a request, then EOF.
  Faults are switched on by the constant `Faults`.

The streams of one client are a constant set. A second `subscribe()` of one client replaces the dictionary of pending futures and
the reader's field (`client.py` 471-479), and the end of one fails and clears what the other has (497-500). No document promises two
streams of one client (the service has one subscriber), but nothing in the code forbids them, and an agent that starts a
new stream while an old generator still unwinds has two. So `py_acks` runs two, every proof is for any number, and the properties say what two streams cost:
`NoOrphanWaiter` excepts a call that wrote on a connection the client no longer names, of which nobody settles the future (in
TypeScript, where the map belongs to the connection, there is no such exception); `OneLiveReader` excepts a reader whose field another stream
has taken, which nobody cancels. With a single `subscribe()` (`Alone`) neither exception applies. Such a reader may go on and queue events
behind those its teardown dropped, for nobody to read: `EventsInOrder` asks of a closed connection only what its consumer was given.

`NothingLeftBehind` is about the ways out of `ack()`: whichever await a call leaves from, the lock and its line are rid of it; it stays
registered only if it was cancelled at its last await, which the except clause does not cover (that is what `py_cancelled_ack` shows);
and a call that finds no connection when its turn at the lock comes raises `AttributeError` without having sent anything.

### TsSubscription

JavaScript runs to completion: an action is the code between two awaits, or one event of a socket. A chunk that holds
several frames is as many `Receive` steps with nothing between them.

* `conn` is `subscriptionConnection`; `subscriptionPending` always is the map of that connection, because the two are
  set and cleared together. Unlike in Python, `pending`, `queue`, `queueFailure` and `pump` belong to a *connection*: a second
  generator replaces what the client names but not what the first one holds.
* `responses`, `reading`, `failure` are the queue of `NDJSONConnection`, the promise of its one reader, and its first failure.
  Queued responses are read before the failure is thrown, and a line that is damaged does not stop the lines behind it:
  a connection that has failed may still yield events, with a gap where the damaged frame was. `EventsInOrder` says just that.
* `spc` is the await of the generator. Its finally clause has no await, so it is part of the step that leaves the try block;
  under `reconnect` the sleep comes before it ("backoff"). `return()` is queued by the language while `next()` is under way,
  so it acts at a `yield` only. "opening" covers authentication and the subscribe request, whose replies fail in the same ways.
* `promise` is what `ack()` awaits, registered and written in one step; a socket that is gone swallows the frame.
* The error of a socket, also one that cannot be opened, is thrown as it is; so is the SyntaxError of `JSON.parse`. Only
  `SiriusMsgTransportError` and its subclasses are retried. A reconnecting stream therefore ends on a reset, and
  `RetriesInterruptions` is checked without resets: with them it fails against `docs/sdk-typescript.md` 88-90 as `py_reset` does for Python.
* An inline `ack()` after the pump has failed waits for the generator, which waits for its consumer, as in Python.

Left out: an `ack()` whose payload fails the request schema (`client.ts` 459-462), and a token file that cannot be read, which
throws before a connection is named.

### SendOperation

An operation is a message that its caller intends to send, perhaps by several calls. `phase` is the await of
the call: the capability check on a connection of its own, authentication, the answer. `Outcome` is the
classification of `send()`: five error codes mean that nothing was requested ("known"), any other error,
transport failure or mismatch raises `SiriusMsgSendOutcomeUnknownError`, which carries the ID (`Learn`). The
request stays with the service when the client gives up: `Dispatch`, `FailDispatch` and `Recall`
may happen long after a cancelled or failed call, even after its repetition was written.
`MayCall` is the caller's side, from `docs/sdk-python.md`: an intended message is called again when the call
said that nothing was sent, or with the operation ID once it has one. A caller that was cancelled before it
learned the generated ID does not repeat the call: nothing in the SDK would let it do so safely.
A response that is no answer to a send raises a plain transport error without the ID, though the request was
written (`client.py` 192-193): the outcome "unexpected", after which only a caller with an ID of its own may call again.
The TypeScript `send()` takes the same steps (`client.ts` 180-209, 645-664). It cannot be cancelled; `Cancel` is then the death of
the process.

### AdapterRunner

One consumer, and the process around it, which may die at any await (`Crash`) and is started again. `pc` names
the await in `run()`. The calls of `send_content()` and `send_file()` are steps of `SendOperation` with
`Operations <- Messages \X Parts`, all supplied with an ID, since the runner derives the operation ID from message and part.
`ack()` is `AckContract`, which `PySubscription` is shown to implement (`KeepsContract`), plus one
fact of the service: once a row's ack is recorded another is refused. `DurableHandler` is the agent's own; its doc
comments (`adapter.py` 42-48) say that `prepare` commits before it returns and replays the same reply.
The TypeScript runner takes the same steps.

### Content and ManagedTyping

`Content` keeps of a content its kind and, for unsupported content, the feature it names. `FeatureFor` and
`GateRejects` are `_check_supported()`. The gate rejects three levels of support and a missing entry, and lets "blocked", "degraded" and "receiveOnly" pass.
Read for the client alone, `docs/sdk-python.md` 173-175 ("fail before dispatch unless the current service capability matrix reports support")
says more than that; read for client and service together it holds, because the service enforces its current matrix by itself
(`docs/sdk-python.md` 193, `local-protocol.md` 140). The model has it so: `Performs` lets the service carry out only what its matrix of that moment
reports as supported or degraded, under the feature ids of the protocol document (`Serves`), and what it does not carry out it answers with a refusal or a failure.

What an agent can rely on is `SaidOnce`. The document shows an agent that handles `UnsupportedContentError`, and `send()` returns a
refusal as a result that is not accepted; an agent that then says the same in a text (`ReplyInstead`) must not find that its reply was sent
after all. The property has to survive a matrix that changes between the check and the request, a gate that passes what the service refuses and
refuses what it would take, lost answers, and requests handled after the client gave up. `typing` has all seven levels of support
and a missing entry for the reply.

`ManagedTyping` has the caller of a scope (`pc`), its heartbeat, the stop under way (`stopper`) and up to four sends
(`Roles`), each a capability check and a request on a connection of its own: `phase` is its await, `requests` what the service has
yet to handle, in any order and also after the client gave up. In Python every await of the caller can be cancelled;
the cleanup is shielded, so that a second cancellation leaves it running (`Escape`). In TypeScript `Abort` sets the signal, which is
looked at where the code looks. `Join` is the difference that matters: Python cancels the heartbeat and
abandons a renewal that may be written already; TypeScript waits for it. The docstring of `typing()` (`client.py` 340)
says that typing stops on exit. `ScopeEndsQuiet` says when it does, and its condition `Outlived` names, for Python only, a
cancelled renewal that the service handles after the stop.

### OwnerCommands, ControlExchange, ClientRequests, Registration

`ControlExchange` numbers the owner's exchanges (`turn`). `phase` is the await of `send()`: connecting, `drain()`,
reading the reply, `wait_closed()`. A `Large` frame does not fit the socket's buffers and stays "buffered" until the peer reads it. `Deadline` and
`Cancel` interrupt whatever is awaited. Python then closes and *waits*, TypeScript destroys the socket and drops what was not written.
`Close`, `Closed` and `CloseFails` are the finally clause; an error of `wait_closed()` replaces whatever `send()` was about to return or
raise, a cancellation included. `Outcome` is what the method makes of a reply or of its absence: EOF is a malformed frame in Python and an
unknown outcome in TypeScript. The peer handles a frame whenever it likes, also after its exchange is over; `by` remembers
which exchange changed a connection last. `Begin` starts an exchange when the last one has returned; `send()` keeps no state, so two
that run at once differ from that only in the order in which their frames land, and a frame may land after its successor here too. Only Python checks
the days of a retention before it sends (`control.py` 199-200); TypeScript leaves it to its types, and the peer refuses.

`ClientRequests` has callers (tasks) and clients. A client made by `connect()` reads the token file for every connection; a
loopback client was given its token and learns another one only by rotating. `step` is the await of `_perform()`: opening,
authenticating, the answer, and for attachments the read of the file. `ErrorFromService` maps codes to classes; three codes of the protocol have no
class (`historyUnavailable`, `sendOperationConflict`, `sendOperationUnresolved`) and arrive as the base class. `missed` and `overtaken` are history
variables: whom a rotation passed by, and who authenticates with a token rotated away since. The credential of a registered connection
is made from the token, so it dies with it. Other bytes than those described pass `fetch_attachment_data()` when their length is right and the
metadata has no hash (`client.py` 435). `docs/sdk-python.md` 110-113 sounds as if the hash were always checked; `local-protocol.md` 158 makes
it optional, and `CallsAreTrue` names the exception.

`Registration` lets both run against one service: `profiles` is the variable they share. A cast says who takes part, so that one run covers
several small instances.

## Runs

Bounds are constants of the configurations: `MaxConns` (connections opened), `MaxAttempts` (calls per
operation), `MaxCalls` (acks of the runner), `MaxFaults` (failures of the runner's or the callers' environment), `MaxFiles`,
`MaxCommands` (exchanges of the owner), `MaxRotations` (tokens).

| Run | Instance | Checks |
|---|---|---|
| `py_acks` | 2 streams of one client, 2 acks from workers, cancellable, 1 row, 2 connections that are lost or reset | `TypeOK`, `AckedMeansRecorded`, `NoOrphanWaiter`, `OneLiveReader`, `NoClosedConnection`, `NothingLeftBehind`, refinement `KeepsContract` |
| `py_events` | 1 stream, 1 ack from a worker, 2 rows, 2 connections, all faults but reset and undecodable frames, fair | `EventsInOrder`, `ErrorAfterEvents`, `RetriesInterruptions`; liveness `AcksReturn`, `FailureIsHandled` |
| `ts_acks` | 2 streams of one client, 2 acks (inline, worker), 1 row, 2 connections, lost, reset, unreachable or overfull | `TypeOK`, `NoOrphanWaiter`, `NamedIsHeld`, `NoSocketLeft`, refinement `KeepsContract` |
| `ts_events` | 1 stream, 1 ack from a worker, 2 rows, 2 connections, lost connections and damaged frames, fair | `EventsInOrder`, `ErrorAfterEvents`, `RetriesInterruptions`; liveness `AcksReturn`, `FailureIsHandled` |
| `send` | 2 messages, one with its caller's ID, 3 attempts each | `TypeOK`, `SentOnce`, `OutcomeIsTrue`, `UnknownKeepsID` |
| `adapter` | 1 message with text and up to 2 files, 1 notice, 3 faults of any kind, fair | `TypeOK`, `HandledOnce`, refinement `RepliesOnce`; liveness `EventuallyAcked` |
| `typing` | both SDKs, one scope, 12 capability matrices that change, 3 replies, fair | `TypeOK`, `ScopeEndsQuiet`, `TypingIsAdvisory`, `SaidOnce`; liveness `CleansUp` |
| `registration` | 6 casts of owners and agents, 2 commands, 2 rotations, 1 fault, a peer that reads, fair | `TypeOK`, `ControlTruth`, `CallsAreTrue`, `AccessFollowsOwner`; liveness `EverythingReturns` |
| `py_reset`, `py_cancelled_ack`, `py_inline_ack`, `control_deadline` | small instances | expected violations, see below |

Why the bounds are enough. Two connections are one failure and one successful or failing recovery; teardown
clears every field, so a third repeats the second (the proofs of the safety properties have no bound). Two acks
give every contention for the lock and for an answer; two rows give order; with one row and two acks
the second ack is a duplicate. Two streams in `py_acks` and `ts_acks` are the least for one to replace what the client names while the other's
acks wait; the service lets only one subscribe at a time, the other follows when a connection is lost. Two operations are enough in `send` because operations share nothing; they differ in who made the
ID. Three attempts are two repetitions, the least for a late answer of the first to meet a cached answer of
the second. One message with three parts has each pair of "before/after" in the runner; three faults allow a
crash, a lost answer and a refusal in one behaviour; `MaxCalls` and `MaxAttempts` of the runner exceed what
`MaxFaults` lets it use, so they never cut a behaviour short. Scopes of typing share nothing but the indicator, and
one scope already has two starts and a stop in the service in any order; the matrices have every level of support for a threaded reply, typing
supported, degraded, gated and absent, and a file reply gated. Two commands are the least for one that was given up to land after its successor. Two rotations
are the least for two to cross; one fault loses one answer of each kind. The casts put together who can disturb whom:
the owner alone with each control client (a large frame, a lost one, an invalid one), the owner with the agent it registers, an agent beside a client that
rotates, two tasks that rotate one client's token, and a fetch against a file that changes. The proofs of `Registration` are for any casts and bounds.
Symmetry (of the calls, and of the streams) is used in `py_acks` and `ts_acks` only, which
check no liveness. `CHECK_DEADLOCK FALSE` is stated everywhere, because streams end, calls
return and bounds are used up.

### Fairness

`PySubscription!FairSpec`: the event loop runs every ready task (weak fairness of each step of a
generator, a reader, an `ack()`), consumers return for the next event, and the service handles what it was sent
and notices closed sockets. Nothing makes a user close a stream or cancel a call, the service
deliver an event, or a fault happen. `TsSubscription!FairSpec` assumes the same of generators, pumps, socket events,
acks and service. `AdapterRunner!FairSpec`: the process is restarted whenever it is down, `run()` and a send under way
move on, the service delivers unacknowledged rows and records acks. Failures are not fair. `EventuallyAcked` excuses two cases the
code leaves open: a part that Messages could not confirm (the runner stops), and an ack in
progress on a lost connection, which is the hazard of `py_inline_ack`.

`ManagedTyping!FairSpec`: the event loop runs what is ready and the service handles what it was sent; nothing ends the body of
a scope, cancels it, wakes the heartbeat or fails by itself. `ControlExchange!Fairness`: time passes (`Deadline`), a reply that
arrived is read, a closed stream is noticed; that the peer reads what is written to it holds only where `PeerReads` says so.
`Registration!FairSpec` adds that agents call again and go on, and that the service answers them. Commands, rotations,
losses and refusals are not fair.

### What the expected violations show

* `py_reset`: a reset connection ends a reconnecting stream with `ConnectionResetError` (`_transport.py` 137, 143), while
  `docs/sdk-python.md` 105-106 says that socket interruptions are retried. An EPIPE of a write is the same, and the `UnicodeDecodeError`
  of a frame that is not UTF-8 ends the stream the same way; the fault "undecodable" switches it on.
* `py_cancelled_ack`: cancel an `ack()` that awaits its answer, and the answer kills the reader and the stream
  (`client.py` 406, 536), though no connection and no request failed.
* `py_inline_ack`: the documented consumer loop (`docs/sdk-python.md` 85-97) acks inline. When the connection
  is lost between the event and the `ack()`, the call registers a future after the reader
  has failed all futures; nobody will settle it, the generator cannot run, the stream never reconnects. With
  acks from other tasks (`py_events`) the generator fails the future in its finally clause, and both `AcksReturn` and
  `FailureIsHandled` hold. The runner inherits this: `EventuallyAcked` has to excuse an ack in progress on a lost connection.
* `control_deadline`: the docstring of `send()` promises "one request, one overall deadline" (`control.py` 61). When the deadline
  fires while a large frame is still buffered, the finally clause awaits `wait_closed()` (line 84), which waits for a peer that
  does not read: `send()` does not return. With a peer that reads (`registration`), or in TypeScript, it does.

## Proofs

All are for every value of the constants that satisfies the module's ASSUME. `tlapm` checks them to the last leaf.

* `PySubscription_proofs`: `TypeCorrect`, `NamedIsOpen`. The typing is inductive by itself; one lemma per group of variables.
  `NamedIsOpen` needs `Holders`: no two streams ever hold the same connection, so none closes the one another has named.
  `AckedIsRecorded`, `ImplementsContract`: `AckedMeansRecorded` is not inductive: the result
  of a call comes from its future, the future from a frame, the frame from the service. `AckTrail` follows that
  way back: before its future exists a call is not on any wire and not recorded; an acknowledgement in an inbox or in a
  future has been recorded. For `ImplementsContract`
  every action is shown to be a step of `AckContract` or a stutter: a yield hands out a row, the start of an `ack()` is a request,
  its end a success or a failure, and an ack the service accepts is the record. The trail is what
  makes a success follow its record, and a record follow its request.
  `NoOrphans` and `OneReader`, for any number of streams, rest on `FieldTrail`: while a single `subscribe()` has opened connections the client's
  fields belong to its current one (outside its try block no connection is named and nothing is pending), and a call writes only on a connection
  whose reader was begun. `NothingIsLeft` rests on `LeftTrail`: a registered call is at its last two awaits with a future that waits, or was cancelled there;
  the lock and its line hold each call once, and only calls that wait for it or write; a call that met no connection was never sent. `RowsComeInOrder` and `ErrorsComeLast`
  hold for any number of streams: they need `Holders`, `ReaderTrail` (a reader starts with the reply to its connection's request, and
  an exception is the last thing it queues), and `OrderTrail`: while its generator has not closed the connection, the frames on
  their way are a *line*, in which the event that is next in the order of sending, counted from what was yielded or queued, stands before
  the one after it, none twice, and none missing while the connection is up. Reading an event takes it from the line to the
  end of the queue; other frames come and go without disturbing it; a reset may cut the line short but never from the middle.
  `InterruptionsAreRetried` holds for any number of streams, but `ASSUME`s what `RetriesInterruptions` needs: no connection is reset,
  every frame is UTF-8 and no `ack()` is cancelled (`py_reset` and `py_cancelled_ack` are what happens otherwise). Its invariant `RetryTrail` says that then a reader
  queues transport failures and error responses only, because each registered future still waits when its response comes.
* `SendOperation_proofs`: `SendTypes`, `SendsOnce`, `UnknownOutcomesKeepID`, `OutcomesAreTrue`. The heart is `IDTrail`: all
  that the service knows of an operation it knows under one ID, the one the caller holds, or, before the
  caller holds one, the one of the single call that wrote and was not rejected. A second dispatch would need an
  unused ID, so `SentOnce` follows. `RequestTrail` and `TryTrail` say that a try is with the service or dispatched,
  never both, and is neither when its rejection is read; `DispatchTrail` ties the cache and the answers to what
  was dispatched. Without them neither theorem is inductive.
* `AdapterRunner_proofs`: `RunnerTypes`, `HandlesOnce`, `RunnerKeepsContract`. The contract counts how often a part was sent, the
  runner repeats `send()` after every crash; `PartTrail` brings the two together: the service knows a part under its one
  derived ID, so it was dispatched by at most one try, a request exists only for a part that is ready (it is of the committed reply
  and the parts before it are confirmed), and a confirmation follows the dispatch. `RunTrail` says what the places of `run()` know: parts
  before the one in hand are confirmed, an `ack()` names a completed message. The dispatch of a part is the contract's
  `SendPart`, the first `Prepare` its `Commit`, `Complete` its `Finish`, the record of the ack its `Acknowledge`; everything else stutters.

* `TsSubscription_proofs`: `TypeCorrect`, `NoOrphans`, `NamedHeld`, `SocketsAreLeftClosed`. Maps that belong to connections need no
  assumption on the number of streams: a generator holds its connection until its finally clause, which in one step
  rejects the map of that connection and forgets it if the client names it.
* `TsAckSafety_proofs`: `TrailHolds`, `ImplementsContract`. `AckTrail` is the TypeScript trail: nothing in an inbox, in the
  response queue, in the reader's promise or in a settled promise claims an ack that was not recorded. The steps of
  the contract are those of the Python proof. `InterruptionsAreRetried` is as for Python, where no connection is reset or
  refused and every line is JSON; `Expected` follows what a reader may throw from the inbox through its promise to the queue.
* `TsOrder_proofs`: `RowsComeInOrder`, `ErrorsComeLast`, for any number of streams of one client and with every fault. Both
  properties are far from inductive: rows pass an inbox, a response queue, a promise and an event queue, a failure passes beside them, and
  what is queued behind a failure is still read. The invariant `OrderTrail` (defined in the proof module, since only the proofs need it) says
  of each connection: `SentOrder`, its frames are a line in which events stand as they were sent, none behind a refusal, and no call is
  answered twice; `NoGap`, each row that arrived before the failure has come to the consumer or is received and will be read, and until a
  failure the next to arrive is the next that was sent, unless a damaged frame stands before it; `AnswerTrail`, an answer on its way is
  awaited by a call of this connection, so that an error read by the pump is a refusal, which is the last thing the service sends;
  `OpeningTrail` and `Unopened`, a connection has no rows before its subscription is answered; `FailedTrail`, the event queue fails
  only when all that arrived has been pushed; and of each stream `EndTrail`, what an interrupted stream leaves behind stays complete. A connection
  that is `Over` (it failed, or the service has left it and no event is on its way) receives no row any more, which is what makes the last
  two stable. `Known` and `Aloof` are how the proof handles several streams: a step is about one connection (`Target`), and what is known of the others stays.

* `ManagedTyping_proofs`: `TypingTypes`, `ScopeIsQuiet`, `TypingAdvises`, `RepliesAreSaidOnce`. `ScopeTrail` is their inductive invariant,
  one conjunct per question: `SendTrail` (a start that the service holds or handled late is awaited or was given up), `PlaceTrail` (which tasks exist
  where the caller is), `TaskTrail` (a renewal belongs to the heartbeat, and the stop comes after both), `LightTrail` (every reason for which the
  indicator may be on), `ExitTrail` and `AnswerTrail` (an answer with the service, or dispatched, is awaited or its sender was told nothing for certain; text is
  sent after a refusal only). At the end of a scope `LightTrail` leaves the failed stop and the late
  start; `SendTrail` says that such a start had been given up. `AnswerTrail` is stronger than `SaidOnce`, which does not know who still waits.
* `Registration_proofs`: `RegistrationTypes`, `OwnerIsToldTheTruth`, `CallersAreToldTheTruth`, `AccessIsTheOwners`. A step of one side leaves the
  other's variables alone except `profiles`, so each side has an inductive invariant of its own. `OwnerTrail`: an answer on the wire or about to be returned is
  true of the frame; a connection is as the exchange `by` left it; an applied command stands or was followed by a later or an
  open one. `AgentTrail`: a client that no rotation passed by has the token or the answer that brings it; two rotations of one client at once
  count as passing by. `AccessFollowsOwner` relates the two sides: what the owner knows of a connection is its state (`OwnerKnows`), and
  the service refuses and admits by that state and the token alone.

The inductive invariants were checked with TLC on the instances above before they were proved.

Every safety property of a passing run is stated by a theorem. Only model-checked is liveness, which is out of the prover's reach: `AcksReturn` and `FailureIsHandled` of both engines,
`EventuallyAcked`, `CleansUp`, `EverythingReturns`.

## Not modelled

JSON encoding and the byte counts of the frame limits (a frame is whole, damaged or oversized); the generated models beyond the enumerations and records that decide what the
client does; what the provider does with the typing indicator by itself; the text of a message (which `_fallback_text` makes for the service to show); the hosted adapter, whose package is not in the repository; the release tooling and the site.

## Plan

Done in this order: `PySubscription` first (it holds the concurrency of the SDK), `SendOperation`, the runner that
composes them, `TsSubscription`, `ManagedTyping`, `ControlExchange`, `ClientRequests` and their composition `Registration`. Left:

1. Frame limits of both SDKs (with and without the newline) as operators with a reference definition.
