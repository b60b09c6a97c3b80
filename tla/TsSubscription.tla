--------------------------- MODULE TsSubscription ---------------------------
(***************************************************************************)
(* The subscription engine of one TypeScript SiriusMsgClient: subscribe(), *)
(* pumpSubscription(), ack(), AsyncSubscriptionQueue, and the response and *)
(* reader queues of NDJSONConnection.  JavaScript runs to completion, so   *)
(* an action is the code between two awaits, or one event of a socket.     *)
(* A chunk of several frames is as many Receive steps with nothing between *)
(* them.                                                                   *)
(*                                                                         *)
(* Unlike the Python client's, the map of pending acks and the event queue *)
(* belong to one connection; the client only names the current pair.       *)
(* The Service actions are the external service, as in PySubscription.     *)
(*                                                                         *)
(* MaxConns bounds how many connections the streams may open.              *)
(***************************************************************************)
EXTENDS Naturals, Sequences, SequencesExt

CONSTANTS
  Streams,      \* calls of subscribe(), each iterated by a consumer of its own
  Calls,        \* calls of ack(); a call is its own request ID and its own promise
  Rows,         \* message rows the service has to deliver
  MaxConns,     \* bound on the connections opened
  Reconnect,    \* the option reconnect
  InlineAcks,   \* a consumer awaits ack() before it asks for the next event
  WorkerAcks,   \* ack() is also awaited by code that iterates over no stream
  Faults,       \* what may befall a connection
  None

(* A damaged frame fails the schema, is no JSON, or exceeds the limit.     *)
Damages == {"malformed", "syntax", "oversized"}
FaultKinds == Damages \cup {"eof", "reset", "unreachable", "backpressure", "refused"}

ASSUME ConstantsAssumption ==
  /\ MaxConns \in Nat
  /\ {Reconnect, InlineAcks, WorkerAcks} \subseteq BOOLEAN
  /\ Faults \subseteq FaultKinds
  /\ None \notin Streams \cup Calls \cup Rows \cup Nat

Conns == 1..MaxConns

(* SiriusMsgTransportError (a SiriusMsgMalformedFrameError is one), an     *)
(* error response, the error of a socket, and the SyntaxError of           *)
(* JSON.parse.                                                             *)
Errors == {"transport", "service", "os", "syntax"}

Responses == [kind : {"event"}, row : Rows]
               \cup [kind : {"acked", "error"}, call : Calls \cup {None}]
               \cup [kind : {"subscribed"}]
Frames == Responses \cup [kind : Damages \cup {"reset", "close"}]

(* The promise of readResponse(): none, unsettled, resolved, or rejected.  *)
NotReading == [kind |-> "none"]
Waiting == [kind |-> "waiting"]
Rejected(e) == [kind |-> "rejected", error |-> e]
Readings == {NotReading, Waiting} \cup Responses \cup {Rejected(e) : e \in Errors}

VARIABLES
  \* fields of the client: subscriptionConnection, which also tells
  \* subscriptionPending, the map of that connection
  conn,
  \* the generators
  spc, cur, outcome,
  \* what subscribe() makes for each connection: keys of pending, values and
  \* failure of events, the pump
  pending, queue, queueFailure, pump,
  \* NDJSONConnection: responses, the promise of its reader, failure
  responses, reading, failure,
  \* sockets: their state, the data and events not handled yet
  link, inbox,
  \* ack() calls
  cpc, row, promise, caller, via, result,
  \* the service, and the rows yielded
  asked, wire, active, sent, recorded, yielded,
  \* rows received on a connection before it failed
  arrived

streamVars == <<spc, cur, outcome>>
eventVars == <<queue, queueFailure>>
connVars == <<responses, reading, failure>>
socketVars == <<link, inbox>>
callVars == <<cpc, row, caller, via, result>>
serviceVars == <<asked, wire, active, sent, recorded>>
history == <<yielded, arrived>>
vars == <<conn, streamVars, pending, eventVars, pump, connVars, socketVars,
          callVars, promise, serviceVars, history>>

Init ==
  /\ conn = None
  /\ spc = [s \in Streams |-> "ready"]
  /\ cur = [s \in Streams |-> None]
  /\ outcome = [s \in Streams |-> "none"]
  /\ pending = [c \in Conns |-> {}]
  /\ queue = [c \in Conns |-> <<>>]
  /\ queueFailure = [c \in Conns |-> "none"]
  /\ pump = [c \in Conns |-> "none"]
  /\ responses = [c \in Conns |-> <<>>]
  /\ reading = [c \in Conns |-> NotReading]
  /\ failure = [c \in Conns |-> "none"]
  /\ link = [c \in Conns |-> "new"]
  /\ inbox = [c \in Conns |-> <<>>]
  /\ cpc = [k \in Calls |-> "idle"]
  /\ row = [k \in Calls |-> None]
  /\ promise = [k \in Calls |-> "none"]
  /\ caller = [k \in Calls |-> None]
  /\ via = [k \in Calls |-> None]
  /\ result = [k \in Calls |-> "none"]
  /\ asked = {} /\ active = None /\ recorded = {}
  /\ wire = [c \in Conns |-> {}]
  /\ sent = [c \in Conns |-> <<>>]
  /\ yielded = [c \in Conns |-> <<>>]
  /\ arrived = [c \in Conns |-> <<>>]

-----------------------------------------------------------------------------
(* NDJSONConnection: reject(), the parsed frames, readResponse(), close(). *)

\* Mutant: the failure is noted, and the reader that waits keeps waiting.
FailUnheard(c, e) ==
  /\ failure' = [failure EXCEPT ![c] = IF @ = "none" THEN e ELSE @]
  /\ UNCHANGED reading

Fail(c, e) ==
  /\ failure' = [failure EXCEPT ![c] = IF @ = "none" THEN e ELSE @]
  /\ reading' = [reading EXCEPT ![c] = IF @ = Waiting THEN Rejected(e) ELSE @]

Resolve(c, f) ==
  IF reading[c] = Waiting
  THEN /\ reading' = [reading EXCEPT ![c] = f]
       /\ UNCHANGED responses
  ELSE /\ responses' = [responses EXCEPT ![c] = Append(@, f)]
       /\ UNCHANGED reading

(* Responses already received come before the failure.                     *)
ReadResponse(c) ==
  IF responses[c] # <<>>
  THEN /\ reading' = [reading EXCEPT ![c] = Head(responses[c])]
       /\ responses' = [responses EXCEPT ![c] = Tail(@)]
  ELSE /\ reading' = [reading EXCEPT ![c] = IF failure[c] = "none" THEN Waiting ELSE Rejected(failure[c])]
       /\ UNCHANGED responses

\* Mutant: close() only forgets the socket.
DestroyNothing(c) == UNCHANGED socketVars

(* socket.destroy(): what was not handled is gone, "close" is emitted yet. *)
Destroy(c) ==
  IF link[c] = "closed" THEN UNCHANGED socketVars
  ELSE /\ link' = [link EXCEPT ![c] = "destroyed"]
       /\ inbox' = [inbox EXCEPT ![c] = <<[kind |-> "close"]>>]

Unhandled(c) == inbox' = [inbox EXCEPT ![c] = Tail(@)]

ReceiveResponse(c) ==
  LET f == Head(inbox[c]) IN
  /\ inbox[c] # <<>> /\ f.kind \in {"event", "acked", "error", "subscribed"}
  /\ Resolve(c, f)
  /\ arrived' = IF f.kind = "event" /\ failure[c] = "none"
                THEN [arrived EXCEPT ![c] = Append(@, f.row)] ELSE arrived
  /\ Unhandled(c)
  /\ UNCHANGED <<conn, streamVars, pending, eventVars, pump, failure, link, callVars, promise, serviceVars, yielded>>

\* Mutant: a frame that fails the schema is no SiriusMsgTransportError.
FrameErrorUntyped(f) == IF f.kind \in {"malformed", "syntax"} THEN "syntax" ELSE "transport"

FrameError(f) == IF f.kind = "syntax" THEN "syntax" ELSE "transport"

(* The loop goes on after a damaged line; an oversized one ends it.        *)
ReceiveDamaged(c) ==
  LET f == Head(inbox[c]) IN
  /\ inbox[c] # <<>> /\ f.kind \in Damages
  /\ Fail(c, FrameError(f))
  /\ IF f.kind = "oversized" THEN Destroy(c) ELSE Unhandled(c) /\ UNCHANGED link
  /\ UNCHANGED <<conn, streamVars, pending, eventVars, pump, responses, callVars, promise, serviceVars, history>>

SocketEvent(c) ==
  LET f == Head(inbox[c]) IN
  /\ inbox[c] # <<>> /\ f.kind \in {"reset", "close"}
  /\ Fail(c, IF f.kind = "reset" THEN "os" ELSE "transport")
  /\ link' = IF f.kind = "close" THEN [link EXCEPT ![c] = "closed"] ELSE link
  /\ Unhandled(c)
  /\ UNCHANGED <<conn, streamVars, pending, eventVars, pump, responses, callVars, promise, serviceVars, history>>

-----------------------------------------------------------------------------
(* rejectSubscriptionPending() and AsyncSubscriptionQueue.fail().          *)

\* Mutant: the map is cleared and its promises are forgotten.
RejectPendingForgets(c, e) ==
  /\ pending' = [pending EXCEPT ![c] = {}]
  /\ UNCHANGED promise

RejectPending(c, e) ==
  /\ promise' = [k \in Calls |-> IF k \in pending[c] THEN e ELSE promise[k]]
  /\ pending' = [pending EXCEPT ![c] = {}]

FailQueue(c, e) == queueFailure' = [queueFailure EXCEPT ![c] = IF @ = "none" THEN e ELSE @]

-----------------------------------------------------------------------------
(* subscribe().  "ready" is before or in open(); "opening" covers          *)
(* authenticate() and the subscribe request up to its reply; "next" awaits *)
(* events.next(); "backoff" sleeps inside the catch clause.                *)

\* Mutant: the client keeps naming the connection.
ForgetNothing(c) == conn

Forget(c) == IF conn = c THEN None ELSE conn

(* The finally clause has no await: it is one step with what led to it.    *)
Finally(c) ==
  /\ conn' = Forget(c)
  /\ RejectPending(c, "transport")
  /\ FailQueue(c, "transport")
  /\ Destroy(c)

(* The error leaves the try block: retried after a sleep, or thrown.       *)
Raise(s, c, e) ==
  IF e = "transport" /\ Reconnect
  THEN /\ spc' = [spc EXCEPT ![s] = "backoff"]
       /\ outcome' = [outcome EXCEPT ![s] = "again"]
       /\ UNCHANGED <<conn, pending, promise, queueFailure, socketVars>>
  ELSE /\ spc' = [spc EXCEPT ![s] = "ended"]
       /\ outcome' = [outcome EXCEPT ![s] = e]
       /\ Finally(c)

NextConn(c) == link[c] = "new" /\ \A d \in Conns : link[d] = "new" => c <= d

OpenConnection(s) ==
  \E c \in Conns :
    /\ spc[s] = "ready" /\ NextConn(c)
    /\ link' = [link EXCEPT ![c] = "up"]
    /\ asked' = asked \cup {c}
    /\ reading' = [reading EXCEPT ![c] = Waiting]
    /\ cur' = [cur EXCEPT ![s] = c]
    /\ spc' = [spc EXCEPT ![s] = "opening"]
    /\ outcome' = [outcome EXCEPT ![s] = "none"]
    /\ UNCHANGED <<conn, pending, eventVars, pump, responses, failure, inbox, callVars, promise,
                   wire, active, sent, recorded, history>>

(* open() throws the error of the socket as it is.                         *)
OpenFails(s) ==
  \E c \in Conns :
    /\ "unreachable" \in Faults
    /\ spc[s] = "ready" /\ NextConn(c)
    /\ failure' = [failure EXCEPT ![c] = "os"]
    /\ cur' = [cur EXCEPT ![s] = c]
    /\ Raise(s, c, "os")
    /\ UNCHANGED <<queue, pump, responses, reading, callVars, serviceVars, history>>

Read(c) == reading[c].kind \notin {"none", "waiting"}

(* The pump starts, and asks for its first response, before the generator  *)
(* asks for its first event.                                               *)
Subscribed(s) ==
  LET c == cur[s] IN
  /\ spc[s] = "opening" /\ reading[c].kind = "subscribed"
  /\ conn' = c
  /\ pump' = [pump EXCEPT ![c] = "running"]
  /\ ReadResponse(c)
  /\ spc' = [spc EXCEPT ![s] = "next"]
  /\ UNCHANGED <<cur, outcome, pending, eventVars, failure, socketVars, callVars, promise, serviceVars, history>>

ReplyError(f) ==
  CASE f.kind = "rejected" -> f.error
    [] f.kind = "error" -> "service"
    [] OTHER -> "transport"

SubscribeFails(s) ==
  LET c == cur[s] IN
  /\ spc[s] = "opening" /\ Read(c) /\ reading[c].kind # "subscribed"
  /\ reading' = [reading EXCEPT ![c] = NotReading]
  /\ Raise(s, c, ReplyError(reading[c]))
  /\ UNCHANGED <<cur, queue, pump, responses, failure, callVars, serviceVars, history>>

YieldEvent(s) ==
  LET c == cur[s] IN
  /\ spc[s] = "next" /\ queue[c] # <<>>
  /\ queue' = [queue EXCEPT ![c] = Tail(@)]
  /\ yielded' = [yielded EXCEPT ![c] = Append(@, Head(queue[c]))]
  /\ spc' = [spc EXCEPT ![s] = "yielded"]
  /\ UNCHANGED <<conn, cur, outcome, pending, queueFailure, pump, connVars, socketVars, callVars, promise,
                 serviceVars, arrived>>

\* Mutant: next() looks at the failure before the values.
OutOfEventsEarly(c) == queueFailure[c] # "none"

(* next(): the values first, then the failure.                             *)
OutOfEvents(c) == queue[c] = <<>> /\ queueFailure[c] # "none"

EventsFail(s) ==
  LET c == cur[s] IN
  /\ spc[s] = "next" /\ OutOfEvents(c)
  /\ Raise(s, c, queueFailure[c])
  /\ UNCHANGED <<cur, queue, pump, connVars, callVars, serviceVars, history>>

(* The consumer asks for the next event, unless it is inside ack().        *)
Blocked(s) == \E k \in Calls : caller[k] = s /\ cpc[k] # "done"

NextEvent(s) ==
  /\ spc[s] = "yielded" /\ ~Blocked(s)
  /\ spc' = [spc EXCEPT ![s] = "next"]
  /\ UNCHANGED <<conn, cur, outcome, pending, eventVars, pump, connVars, socketVars, callVars, promise,
                 serviceVars, history>>

(* return(), as `break` calls it; while next() is under way it is queued   *)
(* until the generator yields.                                             *)
Return(s) ==
  LET c == cur[s] IN
  /\ spc[s] = "yielded" /\ ~Blocked(s)
  /\ spc' = [spc EXCEPT ![s] = "ended"]
  /\ outcome' = [outcome EXCEPT ![s] = "closed"]
  /\ Finally(c)
  /\ UNCHANGED <<cur, queue, pump, connVars, callVars, serviceVars, history>>

Wake(s) ==
  LET c == cur[s] IN
  /\ spc[s] = "backoff"
  /\ spc' = [spc EXCEPT ![s] = "ready"]
  /\ Finally(c)
  /\ UNCHANGED <<cur, outcome, queue, pump, connVars, callVars, serviceVars, history>>

-----------------------------------------------------------------------------
(* pumpSubscription() and routeSubscriptionResponse(), from one            *)
(* readResponse() to the next.                                             *)

Answered(c, f) == f.kind \in {"acked", "error"} /\ f.call \in pending[c]

\* Mutant: the promise is resolved with the response, of whatever kind.
AnswerRaw(f) == f.kind

\* Mutant: an error response counts as an acknowledgement.
AnswerUnchecked(f) == "acked"

Answer(f) == IF f.kind = "acked" THEN "acked" ELSE "service"

RouteAnswer(c) ==
  LET f == reading[c] IN
  /\ Answered(c, f)
  /\ pending' = [pending EXCEPT ![c] = @ \ {f.call}]
  /\ promise' = [promise EXCEPT ![f.call] = Answer(f)]
  /\ ReadResponse(c)
  /\ UNCHANGED <<eventVars, pump>>

\* Mutant: an event that arrives while an ack waits is taken for its answer.
PushUnlessWaiting(c, r) ==
  queue' = IF queueFailure[c] = "none" /\ pending[c] = {} THEN [queue EXCEPT ![c] = Append(@, r)] ELSE queue

(* push(): after fail() an event is dropped.                               *)
Push(c, r) ==
  queue' = IF queueFailure[c] = "none" THEN [queue EXCEPT ![c] = Append(@, r)] ELSE queue

RouteEvent(c) ==
  LET f == reading[c] IN
  /\ f.kind = "event"
  /\ Push(c, f.row)
  /\ ReadResponse(c)
  /\ UNCHANGED <<pending, promise, queueFailure, pump>>

(* A response nobody waits for is dropped unless it is an error.           *)
RouteUnclaimed(c) ==
  LET f == reading[c] IN
  /\ f.kind \in {"acked", "subscribed"} /\ ~Answered(c, f)
  /\ ReadResponse(c)
  /\ UNCHANGED <<pending, promise, eventVars, pump>>

PumpFails(c) ==
  LET f == reading[c] IN
  /\ f.kind \in {"error", "rejected"} /\ ~Answered(c, f)
  /\ RejectPending(c, ReplyError(f))
  /\ FailQueue(c, ReplyError(f))
  /\ pump' = [pump EXCEPT ![c] = "done"]
  /\ reading' = [reading EXCEPT ![c] = NotReading]
  /\ UNCHANGED <<queue, responses>>

Pump(c) ==
  /\ pump[c] = "running" /\ Read(c)
  /\ RouteAnswer(c) \/ RouteEvent(c) \/ RouteUnclaimed(c) \/ PumpFails(c)
  /\ UNCHANGED <<conn, streamVars, failure, socketVars, callVars, serviceVars, history>>

-----------------------------------------------------------------------------
(* ack(): "await" awaits the promise, "perform" is the one-shot request.   *)
(* Whoever calls it names a row that a stream has yielded.                 *)
Seen == UNION {Range(yielded[c]) : c \in Conns}

MayCall(s) ==
  IF s = None THEN WorkerAcks
  ELSE InlineAcks /\ spc[s] = "yielded" /\ ~Blocked(s)

(* The promise is registered and the frame written in one step; a socket   *)
(* that is gone swallows it.                                               *)
Write(k) ==
  /\ pending' = [pending EXCEPT ![conn] = @ \cup {k}]
  /\ promise' = [promise EXCEPT ![k] = "waiting"]
  /\ wire' = IF link[conn] = "up" THEN [wire EXCEPT ![conn] = @ \cup {k}] ELSE wire
  /\ via' = [via EXCEPT ![k] = conn]
  /\ cpc' = [cpc EXCEPT ![k] = "await"]

AckBegin(k) ==
  \E r \in Seen, s \in Streams \cup {None} :
    /\ cpc[k] = "idle" /\ MayCall(s)
    /\ row' = [row EXCEPT ![k] = r]
    /\ caller' = [caller EXCEPT ![k] = s]
    /\ \/ conn # None /\ Write(k)
       \/ /\ conn = None
          /\ cpc' = [cpc EXCEPT ![k] = "perform"]
          /\ UNCHANGED <<pending, promise, wire, via>>
    /\ UNCHANGED <<conn, streamVars, eventVars, pump, connVars, socketVars, result, asked, active,
                   sent, recorded, history>>

AckReturn(k) ==
  /\ cpc[k] = "await" /\ promise[k] # "waiting"
  /\ cpc' = [cpc EXCEPT ![k] = "done"]
  /\ result' = [result EXCEPT ![k] = promise[k]]
  /\ UNCHANGED <<conn, streamVars, pending, eventVars, pump, connVars, socketVars, row, caller, via, promise,
                 serviceVars, history>>

(* A fresh connection never is the subscriber: the service refuses.        *)
AckPerform(k) ==
  /\ cpc[k] = "perform"
  /\ cpc' = [cpc EXCEPT ![k] = "done"]
  /\ \E e \in Errors : result' = [result EXCEPT ![k] = e]
  /\ UNCHANGED <<conn, streamVars, pending, eventVars, pump, connVars, socketVars, row, caller, via, promise,
                 serviceVars, history>>

-----------------------------------------------------------------------------
(* The service (external).  Any frame may arrive damaged.                  *)
ClientVars == <<conn, streamVars, pending, eventVars, pump, connVars, callVars, promise, history>>

Send(c, frame) ==
  \E f \in {frame} \cup [kind : Damages \cap Faults] :
    inbox' = [inbox EXCEPT ![c] = Append(@, f)]

Accept(c) ==
  /\ c \in asked /\ link[c] = "up" /\ active = None
  /\ asked' = asked \ {c}
  /\ active' = c
  /\ Send(c, [kind |-> "subscribed"])
  /\ UNCHANGED <<ClientVars, link, wire, sent, recorded>>

(* subscriptionAlreadyActive, or a failed authentication ("refused").      *)
Refuse(c) ==
  /\ c \in asked /\ link[c] = "up" /\ (active # None \/ "refused" \in Faults)
  /\ asked' = asked \ {c}
  /\ Send(c, [kind |-> "error", call |-> None])
  /\ UNCHANGED <<ClientVars, link, wire, active, sent, recorded>>

RecordedRows == {row[k] : k \in recorded}

Deliver(c, r) ==
  /\ active = c /\ link[c] = "up"
  /\ r \notin RecordedRows \cup Range(sent[c])
  /\ sent' = [sent EXCEPT ![c] = Append(@, r)]
  /\ Send(c, [kind |-> "event", row |-> r])
  /\ UNCHANGED <<ClientVars, link, asked, wire, active, recorded>>

(* Only the subscriber that was sent the row, and only once, may ack it.   *)
Outstanding(c, k) == active = c /\ row[k] \in Range(sent[c]) \ RecordedRows

HandleAck(c, k) ==
  /\ k \in wire[c]
  /\ wire' = [wire EXCEPT ![c] = @ \ {k}]
  /\ recorded' = IF Outstanding(c, k) THEN recorded \cup {k} ELSE recorded
  /\ IF link[c] = "up"
     THEN Send(c, [kind |-> IF Outstanding(c, k) THEN "acked" ELSE "error", call |-> k])
     ELSE UNCHANGED inbox
  /\ UNCHANGED <<ClientVars, link, asked, active, sent>>

Drop(c, frames) ==
  /\ link[c] = "up"
  /\ link' = [link EXCEPT ![c] = "down"]
  /\ inbox' = [inbox EXCEPT ![c] = Append(frames, [kind |-> "close"])]
  /\ active' = IF active = c THEN None ELSE active
  /\ asked' = asked \ {c}
  /\ wire' = [wire EXCEPT ![c] = {}]
  /\ UNCHANGED <<ClientVars, sent, recorded>>

Disconnect(c) == "eof" \in Faults /\ Drop(c, inbox[c])

Reset(c) == "reset" \in Faults /\ Drop(c, <<[kind |-> "reset"]>>)

Backpressure(c) ==
  /\ "backpressure" \in Faults /\ active = c
  /\ Drop(c, Append(inbox[c], [kind |-> "error", call |-> None]))

(* The service notices that the client closed its end.                     *)
NoticeClosed(c) ==
  /\ link[c] \in {"destroyed", "closed"} /\ (active = c \/ wire[c] # {} \/ c \in asked)
  /\ active' = IF active = c THEN None ELSE active
  /\ asked' = asked \ {c}
  /\ wire' = [wire EXCEPT ![c] = {}]
  /\ UNCHANGED <<ClientVars, socketVars, sent, recorded>>

-----------------------------------------------------------------------------
Subscribe(s) ==
  \/ OpenConnection(s) \/ OpenFails(s) \/ Subscribed(s) \/ SubscribeFails(s)
  \/ YieldEvent(s) \/ EventsFail(s) \/ NextEvent(s) \/ Return(s) \/ Wake(s)

Socket(c) == ReceiveResponse(c) \/ ReceiveDamaged(c) \/ SocketEvent(c)

Ack(k) == AckBegin(k) \/ AckReturn(k) \/ AckPerform(k)

Service(c) ==
  \/ Accept(c) \/ Refuse(c) \/ \E r \in Rows : Deliver(c, r)
  \/ \E k \in Calls : HandleAck(c, k)
  \/ Disconnect(c) \/ Reset(c) \/ Backpressure(c) \/ NoticeClosed(c)

Next ==
  \/ \E s \in Streams : Subscribe(s)
  \/ \E c \in Conns : Socket(c) \/ Pump(c) \/ Service(c)
  \/ \E k \in Calls : Ack(k)

Spec == Init /\ [][Next]_vars

(* The event loop runs what can run, consumers come back for the next      *)
(* event, and the service answers what it has been sent.  Nothing is       *)
(* assumed of return(), new acks, deliveries or faults.                    *)
Fairness ==
  /\ \A s \in Streams :
       /\ WF_vars(OpenConnection(s)) /\ WF_vars(Subscribed(s)) /\ WF_vars(SubscribeFails(s))
       /\ WF_vars(YieldEvent(s)) /\ WF_vars(EventsFail(s)) /\ WF_vars(NextEvent(s)) /\ WF_vars(Wake(s))
  /\ \A k \in Calls : WF_vars(AckReturn(k)) /\ WF_vars(AckPerform(k))
  /\ \A c \in Conns :
       /\ WF_vars(Socket(c)) /\ WF_vars(Pump(c))
       /\ WF_vars(Accept(c) \/ Refuse(c)) /\ WF_vars(NoticeClosed(c))
       /\ \A k \in Calls : WF_vars(HandleAck(c, k))

FairSpec == Spec /\ Fairness

-----------------------------------------------------------------------------
(* The type of every variable, group by group.                             *)
StreamTypeOK ==
  /\ spc \in [Streams -> {"ready", "opening", "next", "yielded", "backoff", "ended"}]
  /\ cur \in [Streams -> Conns \cup {None}]
  /\ outcome \in [Streams -> {"none", "again", "closed"} \cup Errors]
  /\ \A s \in Streams : spc[s] # "ready" => cur[s] \in Conns

EventTypeOK ==
  /\ conn \in Conns \cup {None}
  /\ queue \in [Conns -> Seq(Rows)]
  /\ queueFailure \in [Conns -> {"none"} \cup Errors]
  /\ pump \in [Conns -> {"none", "running", "done"}]

ConnTypeOK ==
  /\ responses \in [Conns -> Seq(Responses)]
  /\ reading \in [Conns -> Readings]
  /\ failure \in [Conns -> {"none"} \cup Errors]

SocketTypeOK ==
  /\ link \in [Conns -> {"new", "up", "down", "destroyed", "closed"}]
  /\ inbox \in [Conns -> Seq(Frames)]

PromiseTypeOK ==
  /\ pending \in [Conns -> SUBSET Calls]
  /\ promise \in [Calls -> {"none", "waiting", "acked"} \cup Errors]

CallTypeOK ==
  /\ cpc \in [Calls -> {"idle", "await", "perform", "done"}]
  /\ row \in [Calls -> Rows \cup {None}]
  /\ caller \in [Calls -> Streams \cup {None}]
  /\ via \in [Calls -> Conns \cup {None}]
  /\ result \in [Calls -> {"none", "acked"} \cup Errors]

ServiceTypeOK ==
  /\ asked \subseteq Conns /\ wire \in [Conns -> SUBSET Calls]
  /\ active \in Conns \cup {None} /\ recorded \subseteq Calls
  /\ sent \in [Conns -> Seq(Rows)]
  /\ yielded \in [Conns -> Seq(Rows)] /\ arrived \in [Conns -> Seq(Rows)]

TypeOK ==
  /\ StreamTypeOK /\ EventTypeOK /\ ConnTypeOK /\ SocketTypeOK
  /\ PromiseTypeOK /\ CallTypeOK /\ ServiceTypeOK

(* A promise that ack() awaits is in the map of the connection the ack was *)
(* written on, and the generator of that connection has its finally clause *)
(* before it: whatever becomes of the pump, somebody settles the promise.  *)
Holds(s, c) == cur[s] = c /\ spc[s] \in {"next", "yielded", "backoff"}

NoOrphanWaiter ==
  \A k \in Calls : promise[k] = "waiting" =>
    /\ k \in pending[via[k]]
    /\ \E s \in Streams : Holds(s, via[k])

(* The connection that ack() writes on is one a generator holds between    *)
(* its subscription and its finally clause, also when another subscribe()  *)
(* of the client ends or replaces it.                                      *)
NamedIsHeld == conn # None => \E s \in Streams : Holds(s, conn)

(* A stream that has ended or waits to open again has left no socket open. *)
NoSocketLeft ==
  \A c \in Conns : link[c] \in {"up", "down"} =>
    \E s \in Streams : cur[s] = c /\ spc[s] \notin {"ready", "ended"}

(* The consumer sees the rows of a connection in the order they were sent; *)
(* one may be missing between two others only if its frame was damaged,    *)
(* and then the connection has failed, so that it will be sent again.      *)
Before(c, r, q) ==
  \E i, j \in 1..Len(sent[c]) : i < j /\ sent[c][i] = r /\ sent[c][j] = q

EventsInOrder ==
  \A c \in Conns :
    LET rows == yielded[c] \o queue[c] IN
    /\ Range(rows) \subseteq Range(sent[c])
    /\ \A i, j \in 1..Len(rows) : i < j => Before(c, rows[i], rows[j])
    /\ IsPrefix(rows, sent[c]) \/ failure[c] # "none"

(* A stream is interrupted only after its consumer has been given every    *)
(* event that arrived before the connection failed.                        *)
ErrorAfterEvents ==
  \A s \in Streams : spc[s] \in {"backoff", "ended"} /\ outcome[s] # "closed" =>
    IsPrefix(arrived[cur[s]], yielded[cur[s]])

(* A reconnecting stream ends only because it was closed or because of an  *)
(* error response of the service: docs/sdk-typescript.md:88-90.            *)
RetriesInterruptions ==
  Reconnect => \A s \in Streams : outcome[s] \in {"none", "again", "closed", "service"}

(* Every ack() that has been called returns.                               *)
AcksReturn ==
  \A k \in Calls : cpc[k] # "idle" ~> cpc[k] = "done"

(* A connection that has failed is left behind: its stream opens another   *)
(* one or ends.                                                            *)
FailureIsHandled ==
  \A s \in Streams, c \in Conns :
    (cur[s] = c /\ failure[c] # "none") ~> (cur[s] # c \/ spc[s] \in {"ready", "ended"})

(* What ack() promises its callers, whatever the connections go through.   *)
Status(k) ==
  IF cpc[k] = "idle" THEN "idle"
  ELSE IF cpc[k] # "done" THEN "running"
  ELSE IF result[k] = "acked" THEN "acked" ELSE "failed"

Contract == INSTANCE AckContract WITH
  delivered <- Seen, named <- row, status <- [k \in Calls |-> Status(k)]

(* The engine implements the contract.                                     *)
KeepsContract == Contract!Spec

-----------------------------------------------------------------------------
(* What makes the refinement inductive: a call meets the service only      *)
(* after its promise was registered; an acknowledgement that is on its     *)
(* way, received, read or handed to a promise has been recorded.           *)
Truthful(f) == f.kind = "acked" => f.call \in recorded

CallTrail(k) ==
  /\ cpc[k] \in {"idle", "perform"} =>
       /\ promise[k] = "none" /\ k \notin recorded
       /\ \A c \in Conns : k \notin wire[c] \cup pending[c]
  /\ promise[k] = "acked" => k \in recorded
  /\ cpc[k] # "done" => result[k] = "none"
  /\ result[k] = "acked" => k \in recorded

ConnTrail(c) ==
  /\ \A f \in Range(inbox[c]) \cup Range(responses[c]) : Truthful(f)
  /\ Truthful(reading[c])

AckTrail == (\A k \in Calls : CallTrail(k)) /\ (\A c \in Conns : ConnTrail(c))

(* Where no connection is reset or refused and every line is JSON, nothing *)
(* but a transport failure or an error response reaches a generator.       *)
Calm(c) == \A f \in Range(inbox[c]) : f.kind \notin {"reset", "syntax"}
Expected(c) ==
  /\ Calm(c) /\ failure[c] \in {"none", "transport"}
  /\ reading[c].kind = "rejected" => reading[c].error = "transport"
  /\ queueFailure[c] \in {"none", "transport", "service"}
RetryTrail == (\A c \in Conns : Expected(c)) /\ RetriesInterruptions
=============================================================================
