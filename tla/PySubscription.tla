--------------------------- MODULE PySubscription ---------------------------
(***************************************************************************)
(* The subscription engine of one Python SiriusMsgClient: subscribe(),     *)
(* its reader task, the routing of responses to waiting ack() calls, and   *)
(* the teardown of a connection.  One asyncio event loop runs every task,  *)
(* so an action is the code from one suspension point to the next one.     *)
(*                                                                         *)
(* The signed service is not part of the repository.  The Service actions  *)
(* model it from docs/local-protocol.md ("Delivery And Cursors" and        *)
(* "Backpressure") and from what the client must be ready to read.         *)
(*                                                                         *)
(* MaxConns bounds how many connections the streams may open.              *)
(***************************************************************************)
EXTENDS Naturals, Sequences, SequencesExt

CONSTANTS
  Streams,      \* calls of subscribe(), each driven by a consumer task of its own
  Calls,        \* calls of ack(); a call is its own request ID and its own future
  Rows,         \* message rows the service has to deliver
  MaxConns,     \* bound on the connections opened
  Reconnect,    \* reconnect_policy is "default"
  InlineAcks,   \* a consumer awaits ack() itself before it asks for the next event
  WorkerAcks,   \* ack() is also awaited by tasks that drive no stream
  Cancels,      \* an ack() call may be cancelled, as asyncio.wait_for does
  Faults,       \* what may befall a connection: "eof", "reset", "malformed", ...
  None

FaultKinds ==
  {"eof", "reset", "malformed", "undecodable", "unexpected", "backpressure", "refused"}

ASSUME ConstantsAssumption ==
  /\ MaxConns \in Nat
  /\ {Reconnect, InlineAcks, WorkerAcks, Cancels} \subseteq BOOLEAN
  /\ Faults \subseteq FaultKinds
  /\ None \notin Streams \cup Calls \cup Rows \cup Nat

Conns == 1..MaxConns

(* The exception classes the generator and the callers tell apart:         *)
(* SiriusMsgTransportError (a malformed frame is one), an error response   *)
(* of the service, a raw OSError, the UnicodeDecodeError of a frame that is*)
(* not UTF-8, and asyncio's InvalidStateError.                             *)
Errors == {"transport", "service", "os", "unicode", "invalidState"}

(* "other" is a response of a kind that does not answer an ack.            *)
Frames == [kind : {"event"}, row : Rows]
            \cup [kind : {"acked", "error", "other"}, call : Calls \cup {None}]
            \cup [kind : {"subscribed", "malformed", "undecodable", "eof", "reset"}]
Items == [kind : {"event"}, row : Rows] \cup [kind : {"raise"}, error : Errors]

VARIABLES
  \* fields of the client
  conn,         \* _subscription_connection
  pending,      \* keys of _subscription_pending
  readerTask,   \* the connection whose reader is _subscription_reader_task
  lock,         \* _subscription_write_lock: the holder, then its FIFO waiters
  \* the generators
  spc, cur, outcome,
  \* connections: reader task, event queue, frames not yet read, socket
  reader, queue, inbox, link,
  \* ack() calls
  cpc, row, fut, caller, via, result,
  \* the service: subscribe requests and acks it has not handled, its
  \* subscriber, rows sent, calls whose ack it recorded; and rows yielded
  asked, wire, active, sent, recorded, yielded

clientVars == <<conn, pending, readerTask, lock>>
streamVars == <<spc, cur, outcome>>
connVars == <<reader, queue, inbox, link>>
callVars == <<cpc, row, fut, caller, via, result>>
serviceVars == <<asked, wire, active, sent, recorded>>
vars == <<clientVars, streamVars, connVars, callVars, serviceVars, yielded>>

Init ==
  /\ conn = None /\ pending = {} /\ readerTask = None /\ lock = <<>>
  /\ spc = [s \in Streams |-> "ready"]
  /\ cur = [s \in Streams |-> None]
  /\ outcome = [s \in Streams |-> "none"]
  /\ reader = [c \in Conns |-> "none"]
  /\ queue = [c \in Conns |-> <<>>]
  /\ inbox = [c \in Conns |-> <<>>]
  /\ link = [c \in Conns |-> "new"]
  /\ cpc = [k \in Calls |-> "idle"]
  /\ row = [k \in Calls |-> None]
  /\ fut = [k \in Calls |-> "none"]
  /\ caller = [k \in Calls |-> None]
  /\ via = [k \in Calls |-> None]
  /\ result = [k \in Calls |-> "none"]
  /\ asked = {}
  /\ wire = [c \in Conns |-> {}]
  /\ active = None
  /\ sent = [c \in Conns |-> <<>>]
  /\ recorded = {}
  /\ yielded = [c \in Conns |-> <<>>]

-----------------------------------------------------------------------------
(* _fail_subscription_pending: every registered future that is not done    *)
(* gets the exception, and the client starts an empty dictionary.          *)

\* Mutant: the dictionary is emptied and its futures are forgotten.
FailPendingForgets(e) == pending' = {} /\ UNCHANGED fut

FailPending(e) ==
  /\ fut' = [k \in Calls |-> IF k \in pending /\ fut[k] = "waiting" THEN e ELSE fut[k]]
  /\ pending' = {}

-----------------------------------------------------------------------------
(* subscribe().  "opening" covers open(), authenticate() and the subscribe *)
(* request up to its reply; "queue" waits in event_queue.get(); "backoff"  *)
(* sleeps inside the except clause, before the finally clause has run.     *)

OpenConnection(s) ==
  \E c \in Conns :
    /\ spc[s] = "ready"
    /\ link[c] = "new" /\ \A d \in Conns : link[d] = "new" => c <= d
    /\ link' = [link EXCEPT ![c] = "up"]
    /\ asked' = asked \cup {c}
    /\ cur' = [cur EXCEPT ![s] = c]
    /\ spc' = [spc EXCEPT ![s] = "opening"]
    /\ outcome' = [outcome EXCEPT ![s] = "none"]
    /\ UNCHANGED <<clientVars, reader, queue, inbox, callVars, wire, active, sent, recorded, yielded>>

(* The exception leaves the try block: retried, or on its way out.         *)
Raise(s, e) ==
  IF e = "transport" /\ Reconnect
  THEN /\ spc' = [spc EXCEPT ![s] = "backoff"]
       /\ outcome' = [outcome EXCEPT ![s] = "again"]
  ELSE /\ spc' = [spc EXCEPT ![s] = "unwind"]
       /\ outcome' = [outcome EXCEPT ![s] = e]

\* Mutant: a malformed frame is not a SiriusMsgTransportError.
FrameErrorUntyped(f) ==
  CASE f.kind = "error" -> "service"
    [] f.kind \in {"reset", "malformed"} -> "os"
    [] OTHER -> "transport"

FrameError(f) ==
  CASE f.kind = "error" -> "service"
    [] f.kind = "reset" -> "os"
    [] f.kind = "undecodable" -> "unicode"
    [] OTHER -> "transport"

Subscribed(s) ==
  LET c == cur[s] IN
  /\ spc[s] = "opening" /\ inbox[c] # <<>> /\ Head(inbox[c]).kind = "subscribed"
  /\ inbox' = [inbox EXCEPT ![c] = Tail(@)]
  /\ conn' = c
  /\ pending' = {}
  /\ readerTask' = c
  /\ reader' = [reader EXCEPT ![c] = "running"]
  /\ spc' = [spc EXCEPT ![s] = "queue"]
  /\ UNCHANGED <<lock, cur, outcome, queue, link, callVars, serviceVars, yielded>>

SubscribeFails(s) ==
  LET c == cur[s] IN
  /\ spc[s] = "opening" /\ inbox[c] # <<>> /\ Head(inbox[c]).kind # "subscribed"
  /\ inbox' = [inbox EXCEPT ![c] = Tail(@)]
  /\ Raise(s, FrameError(Head(inbox[c])))
  /\ UNCHANGED <<clientVars, cur, reader, queue, link, callVars, serviceVars, yielded>>

YieldEvent(s) ==
  LET c == cur[s] IN
  /\ spc[s] = "queue" /\ queue[c] # <<>> /\ Head(queue[c]).kind = "event"
  /\ queue' = [queue EXCEPT ![c] = Tail(@)]
  /\ yielded' = [yielded EXCEPT ![c] = Append(@, Head(queue[c]).row)]
  /\ spc' = [spc EXCEPT ![s] = "yielded"]
  /\ UNCHANGED <<clientVars, cur, outcome, reader, inbox, link, callVars, serviceVars>>

RaiseItem(s) ==
  LET c == cur[s] IN
  /\ spc[s] = "queue" /\ queue[c] # <<>> /\ Head(queue[c]).kind = "raise"
  /\ queue' = [queue EXCEPT ![c] = Tail(@)]
  /\ Raise(s, Head(queue[c]).error)
  /\ UNCHANGED <<clientVars, cur, reader, inbox, link, callVars, serviceVars, yielded>>

(* The consumer asks for the next event, unless it is inside ack().        *)
Blocked(s) == \E k \in Calls : caller[k] = s /\ cpc[k] # "done"

NextEvent(s) ==
  /\ spc[s] = "yielded" /\ ~Blocked(s)
  /\ spc' = [spc EXCEPT ![s] = "queue"]
  /\ UNCHANGED <<clientVars, cur, outcome, connVars, callVars, serviceVars, yielded>>

(* aclose() at the yield, or cancellation of the task at any other await;  *)
(* what is left of a cancelled close() does nothing.  The unwinding itself *)
(* swallows a cancellation where it awaits its reader.                     *)
Abandon(s) ==
  /\ ~Blocked(s)
  /\ \/ /\ spc[s] \in {"opening", "queue", "yielded", "backoff"}
        /\ spc' = [spc EXCEPT ![s] = "unwind"]
     \/ /\ spc[s] = "closing"
        /\ spc' = [spc EXCEPT ![s] = "ended"]
  /\ outcome' = [outcome EXCEPT ![s] = "closed"]
  /\ UNCHANGED <<clientVars, cur, connVars, callVars, serviceVars, yielded>>

Wake(s) ==
  /\ spc[s] = "backoff"
  /\ spc' = [spc EXCEPT ![s] = "unwind"]
  /\ UNCHANGED <<clientVars, cur, outcome, connVars, callVars, serviceVars, yielded>>

(* finally: the reader is cancelled and awaited only while the client      *)
(* still names it, and the await lets other tasks run; then, without       *)
(* another suspension, the fields are cleared, the futures fail and the    *)
(* transport is closed.  After the await the reader's field is cleared     *)
(* whatever it names by then.  The frames and events nobody can read any   *)
(* more go with the connection and its queue.                              *)
\* Mutant: the finally clause leaves the reader running.
OwnsReaderNever(s) == FALSE

OwnsReader(s) == readerTask = cur[s] /\ reader[cur[s]] = "running"

CancelReader(s) ==
  /\ spc[s] = "unwind" /\ OwnsReader(s)
  /\ reader' = [reader EXCEPT ![cur[s]] = "done"]
  /\ spc' = [spc EXCEPT ![s] = "joining"]
  /\ UNCHANGED <<clientVars, cur, outcome, queue, inbox, link, callVars, serviceVars, yielded>>

\* Mutant: the field keeps naming the connection.
ForgetNothing(field, c) == field

Forget(field, c) == IF field = c THEN None ELSE field

Unwind(s) ==
  LET c == cur[s] IN
  /\ spc[s] = "joining" \/ (spc[s] = "unwind" /\ ~OwnsReader(s))
  /\ FailPending("transport")
  /\ readerTask' = IF spc[s] = "joining" THEN None ELSE Forget(readerTask, c)
  /\ conn' = Forget(conn, c)
  /\ link' = [link EXCEPT ![c] = "closed"]
  /\ inbox' = [inbox EXCEPT ![c] = IF reader[c] = "running" THEN Append(@, [kind |-> "eof"]) ELSE <<>>]
  /\ queue' = [queue EXCEPT ![c] = <<>>]
  /\ spc' = [spc EXCEPT ![s] = "closing"]
  /\ UNCHANGED <<lock, cur, outcome, reader, cpc, row, caller, via, result, serviceVars, yielded>>

Closed(s) ==
  /\ spc[s] = "closing"
  /\ spc' = [spc EXCEPT ![s] = IF outcome[s] = "again" THEN "ready" ELSE "ended"]
  /\ UNCHANGED <<clientVars, cur, outcome, connVars, callVars, serviceVars, yielded>>

-----------------------------------------------------------------------------
(* _read_subscription() and _route_subscription_response().                *)

\* Mutant: the error overtakes the events that were read before it.
ReaderFailsFirst(c, e) ==
  /\ FailPending(e)
  /\ queue' = [queue EXCEPT ![c] = <<[kind |-> "raise", error |-> e]>> \o @]
  /\ reader' = [reader EXCEPT ![c] = "done"]

\* Mutant: the error never reaches the generator.
ReaderFailsSilently(c, e) ==
  /\ FailPending(e)
  /\ reader' = [reader EXCEPT ![c] = "done"]
  /\ UNCHANGED queue

ReaderFails(c, e) ==
  /\ FailPending(e)
  /\ queue' = [queue EXCEPT ![c] = Append(@, [kind |-> "raise", error |-> e])]
  /\ reader' = [reader EXCEPT ![c] = "done"]

Answered(f) == f.kind \in {"acked", "error", "other"} /\ f.call \in pending

Answer(f) == IF f.kind = "error" THEN "service" ELSE f.kind

\* Mutant: a response settles whichever call waits, not the one it answers.
RouteAnswerToAnyone(c) ==
  LET f == Head(inbox[c]) IN
  \E k \in pending :
    /\ f.kind \in {"acked", "error"} /\ fut[k] = "waiting"
    /\ pending' = pending \ {k}
    /\ fut' = [fut EXCEPT ![k] = Answer(f)]
    /\ UNCHANGED <<queue, reader>>

(* A response whose request is registered settles that call's future.      *)
RouteAnswer(c) ==
  LET f == Head(inbox[c]) IN
  /\ Answered(f) /\ fut[f.call] = "waiting"
  /\ pending' = pending \ {f.call}
  /\ fut' = [fut EXCEPT ![f.call] = Answer(f)]
  /\ UNCHANGED <<queue, reader>>

(* Settling a cancelled future raises InvalidStateError in the reader.     *)
RouteToCancelled(c) ==
  LET f == Head(inbox[c]) IN
  /\ Answered(f) /\ fut[f.call] # "waiting"
  /\ ReaderFails(c, "invalidState")

\* Mutant: a frame that is not an event is put on the event queue.
RouteEventUnchecked(c) ==
  /\ ~Answered(Head(inbox[c]))
  /\ queue' = [queue EXCEPT ![c] = Append(@, Head(inbox[c]))]
  /\ UNCHANGED <<pending, fut, reader>>

\* Mutant: an event that arrives while an ack waits is taken for its answer.
RouteEventUnlessWaiting(c) ==
  /\ Head(inbox[c]).kind = "event"
  /\ queue' = IF pending = {} THEN [queue EXCEPT ![c] = Append(@, Head(inbox[c]))] ELSE queue
  /\ UNCHANGED <<pending, fut, reader>>

RouteEvent(c) ==
  /\ Head(inbox[c]).kind = "event"
  /\ queue' = [queue EXCEPT ![c] = Append(@, Head(inbox[c]))]
  /\ UNCHANGED <<pending, fut, reader>>

(* A response nobody waits for is dropped; an error or a failure is fatal. *)
RouteUnclaimed(c) ==
  LET f == Head(inbox[c]) IN
  /\ f.kind # "event" /\ ~Answered(f)
  /\ IF f.kind \in {"acked", "other", "subscribed"}
     THEN UNCHANGED <<pending, fut, queue, reader>>
     ELSE ReaderFails(c, FrameError(f))

ReadFrame(c) ==
  /\ reader[c] = "running" /\ inbox[c] # <<>>
  /\ inbox' = [inbox EXCEPT ![c] = Tail(@)]
  /\ RouteAnswer(c) \/ RouteToCancelled(c) \/ RouteEvent(c) \/ RouteUnclaimed(c)
  /\ UNCHANGED <<conn, readerTask, lock, streamVars, link, cpc, row, caller, via, result, serviceVars, yielded>>

-----------------------------------------------------------------------------
(* ack().  "lock" waits for the write lock, "drain" holds it in drain(),   *)
(* "await" awaits the response future, "perform" is the one-shot path.     *)

Seen == UNION {Range(yielded[c]) : c \in Conns}

MayCall(s) ==
  \/ s = None /\ WorkerAcks
  \/ s \in Streams /\ InlineAcks /\ spc[s] = "yielded" /\ ~Blocked(s)

Release == lock' = SubSeq(lock, 2, Len(lock))

(* Register the future, then write on whatever connection the client has;  *)
(* bytes for a peer that is gone are lost, and drain() may find that out.  *)
Write(k) ==
  /\ pending' = pending \cup {k}
  /\ fut' = [fut EXCEPT ![k] = "waiting"]
  /\ via' = [via EXCEPT ![k] = conn]
  /\ wire' = [wire EXCEPT ![conn] = IF link[conn] = "up" THEN @ \cup {k} ELSE @]
  /\ cpc' = [cpc EXCEPT ![k] = "drain"]

AckBegin(k) ==
  \E r \in Seen, s \in Streams \cup {None} :
    /\ cpc[k] = "idle" /\ MayCall(s)
    /\ row' = [row EXCEPT ![k] = r]
    /\ caller' = [caller EXCEPT ![k] = s]
    /\ \/ /\ conn = None
          /\ cpc' = [cpc EXCEPT ![k] = "perform"]
          /\ UNCHANGED <<pending, lock, fut, via, wire>>
       \/ /\ conn # None /\ lock # <<>>
          /\ cpc' = [cpc EXCEPT ![k] = "lock"]
          /\ lock' = Append(lock, k)
          /\ UNCHANGED <<pending, fut, via, wire>>
       \/ /\ conn # None /\ lock = <<>>
          /\ lock' = <<k>>
          /\ Write(k)
    /\ UNCHANGED <<conn, readerTask, streamVars, connVars, result, asked, active, sent, recorded, yielded>>

(* A call that ends is acked, cancelled, met no connection, or failed: which*)
(* exception it raised then makes no difference here.  Its future lives on *)
(* only where it is still registered.                                      *)
End(k, e) ==
  /\ cpc' = [cpc EXCEPT ![k] = "done"]
  /\ result' = [result EXCEPT ![k] = e]
  /\ via' = [via EXCEPT ![k] = None]

(* Inside the lock _subscription_connection is read again: it may be None  *)
(* by now, and None.write() raises AttributeError.                         *)
AckAcquire(k) ==
  /\ cpc[k] = "lock" /\ lock # <<>> /\ lock[1] = k
  /\ \/ /\ conn # None
        /\ Write(k)
        /\ UNCHANGED <<lock, result>>
     \/ /\ conn = None
        /\ End(k, "attribute")
        /\ Release
        /\ UNCHANGED <<pending, fut, wire>>
  /\ UNCHANGED <<conn, readerTask, streamVars, connVars, row, caller, asked, active, sent, recorded, yielded>>

DrainDone(k) ==
  /\ cpc[k] = "drain"
  /\ cpc' = [cpc EXCEPT ![k] = "await"]
  /\ Release
  /\ UNCHANGED <<conn, pending, readerTask, streamVars, connVars, row, fut, caller, via, result, serviceVars, yielded>>

\* Mutant: the except clause leaves the future registered.
LeaveWriteRegistered(k, e) ==
  /\ fut' = [fut EXCEPT ![k] = IF @ = "waiting" THEN "cancelled" ELSE @]
  /\ \E i \in 1..Len(lock) : lock[i] = k /\ lock' = RemoveAt(lock, i)
  /\ End(k, e)
  /\ UNCHANGED <<conn, pending, readerTask, streamVars, connVars, row, caller, serviceVars, yielded>>

(* The call ends without reaching its own await: unregister and drop the   *)
(* future, let the next waiter have the lock.                              *)
LeaveWrite(k, e) ==
  /\ pending' = pending \ {k}
  /\ fut' = [fut EXCEPT ![k] = "none"]
  /\ \E i \in 1..Len(lock) : lock[i] = k /\ lock' = RemoveAt(lock, i)
  /\ End(k, e)
  /\ UNCHANGED <<conn, readerTask, streamVars, connVars, row, caller, serviceVars, yielded>>

(* drain() may raise once the transport has failed: a reset, or EPIPE.     *)
DrainFails(k) ==
  /\ cpc[k] = "drain" /\ link[via[k]] # "up"
  /\ LeaveWrite(k, "failed")

\* Mutant: an error response counts as an acknowledgement.
AckReturnUnchecked(k) ==
  /\ cpc[k] = "await" /\ fut[k] # "waiting"
  /\ End(k, IF fut[k] \in {"acked", "service"} THEN "acked" ELSE "failed")
  /\ fut' = [fut EXCEPT ![k] = "none"]
  /\ UNCHANGED <<clientVars, streamVars, connVars, row, caller, serviceVars, yielded>>

(* An error response or a failure of the connection is raised, and so is   *)
(* a transport error for a response of another kind ("other").             *)
AckReturn(k) ==
  /\ cpc[k] = "await" /\ fut[k] # "waiting"
  /\ End(k, IF fut[k] = "acked" THEN "acked" ELSE "failed")
  /\ fut' = [fut EXCEPT ![k] = "none"]
  /\ UNCHANGED <<clientVars, streamVars, connVars, row, caller, serviceVars, yielded>>

(* A fresh connection never is the subscriber: the service refuses.        *)
AckPerform(k) ==
  /\ cpc[k] = "perform"
  /\ End(k, "failed")
  /\ UNCHANGED <<clientVars, streamVars, connVars, row, fut, caller, serviceVars, yielded>>

(* Cancellation while the lock is awaited or held runs the except clause;  *)
(* cancellation at the final await only cancels the future.                *)
CancelWrite(k) ==
  /\ Cancels /\ cpc[k] \in {"lock", "drain"}
  /\ LeaveWrite(k, "cancelled")

CancelAwait(k) ==
  /\ Cancels /\ cpc[k] \in {"await", "perform"}
  /\ End(k, "cancelled")
  /\ fut' = [fut EXCEPT ![k] = IF k \in pending THEN "cancelled" ELSE "none"]
  /\ UNCHANGED <<clientVars, streamVars, connVars, row, caller, serviceVars, yielded>>

-----------------------------------------------------------------------------
(* The service (external).                                                 *)

Send(c, frames) == inbox' = [inbox EXCEPT ![c] = @ \o frames]

Accept(c) ==
  /\ c \in asked /\ link[c] = "up" /\ active = None
  /\ asked' = asked \ {c}
  /\ active' = c
  /\ Send(c, <<[kind |-> "subscribed"]>>)
  /\ UNCHANGED <<clientVars, streamVars, reader, queue, link, callVars, wire, sent, recorded, yielded>>

(* subscriptionAlreadyActive, or a failed authentication ("refused").      *)
Refuse(c) ==
  /\ c \in asked /\ link[c] = "up" /\ (active # None \/ "refused" \in Faults)
  /\ asked' = asked \ {c}
  /\ Send(c, <<[kind |-> "error", call |-> None]>>)
  /\ UNCHANGED <<clientVars, streamVars, reader, queue, link, callVars, wire, active, sent, recorded, yielded>>

RecordedRows == {row[k] : k \in recorded}

Deliver(c, r) ==
  /\ active = c /\ link[c] = "up"
  /\ r \notin RecordedRows \cup Range(sent[c])
  /\ sent' = [sent EXCEPT ![c] = Append(@, r)]
  /\ Send(c, <<[kind |-> "event", row |-> r]>>)
  /\ UNCHANGED <<clientVars, streamVars, reader, queue, link, callVars, asked, wire, active, recorded, yielded>>

(* Only the subscriber that was sent the row, and only once, may ack it.   *)
(* The answer is lost when the client has closed its end meanwhile.        *)
Outstanding(c, k) == active = c /\ row[k] \in Range(sent[c]) \ RecordedRows

Responses(c, k) ==
  {IF Outstanding(c, k) THEN "acked" ELSE "error"} \cup (IF "unexpected" \in Faults THEN {"other"} ELSE {})

HandleAck(c, k) ==
  /\ k \in wire[c] /\ link[c] \in {"up", "closed"}
  /\ wire' = [wire EXCEPT ![c] = @ \ {k}]
  /\ recorded' = IF Outstanding(c, k) THEN recorded \cup {k} ELSE recorded
  /\ IF link[c] = "up"
     THEN \E a \in Responses(c, k) : Send(c, <<[kind |-> a, call |-> k]>>)
     ELSE UNCHANGED inbox
  /\ UNCHANGED <<clientVars, streamVars, reader, queue, link, callVars, asked, active, sent, yielded>>

(* The service drops the connection; frames already sent still arrive,     *)
(* unless the socket was reset.                                            *)
Drop(c, frames) ==
  /\ link[c] = "up"
  /\ link' = [link EXCEPT ![c] = "down"]
  /\ inbox' = [inbox EXCEPT ![c] = frames]
  /\ active' = IF active = c THEN None ELSE active
  /\ asked' = asked \ {c}
  /\ wire' = [wire EXCEPT ![c] = {}]
  /\ UNCHANGED <<clientVars, streamVars, reader, queue, callVars, sent, recorded, yielded>>

Lost(c) ==
  \/ "eof" \in Faults /\ Drop(c, Append(inbox[c], [kind |-> "eof"]))
  \/ "reset" \in Faults /\ Drop(c, <<[kind |-> "reset"]>>)

Backpressure(c) ==
  /\ "backpressure" \in Faults /\ active = c
  /\ Drop(c, inbox[c] \o <<[kind |-> "error", call |-> None], [kind |-> "eof"]>>)

(* A frame that is too long, does not parse or is not even UTF-8; the      *)
(* socket stays open.                                                      *)
Damage == {"malformed", "undecodable"}

Garble(c) ==
  /\ link[c] = "up" /\ reader[c] # "done"
  /\ \A i \in 1..Len(inbox[c]) : inbox[c][i].kind \notin Damage
  /\ \E d \in Damage \cap Faults : Send(c, <<[kind |-> d]>>)
  /\ UNCHANGED <<clientVars, streamVars, reader, queue, link, callVars, serviceVars, yielded>>

(* The service notices that the client closed its end.                     *)
NoticeClosed(c) ==
  /\ link[c] = "closed" /\ (active = c \/ wire[c] # {} \/ c \in asked)
  /\ active' = IF active = c THEN None ELSE active
  /\ asked' = asked \ {c}
  /\ wire' = [wire EXCEPT ![c] = {}]
  /\ UNCHANGED <<clientVars, streamVars, connVars, callVars, sent, recorded, yielded>>

-----------------------------------------------------------------------------
Subscribe(s) ==
  \/ OpenConnection(s) \/ Subscribed(s) \/ SubscribeFails(s)
  \/ YieldEvent(s) \/ RaiseItem(s) \/ NextEvent(s) \/ Abandon(s)
  \/ Wake(s) \/ CancelReader(s) \/ Unwind(s) \/ Closed(s)

Ack(k) ==
  \/ AckBegin(k) \/ AckAcquire(k) \/ DrainDone(k) \/ DrainFails(k)
  \/ AckReturn(k) \/ AckPerform(k) \/ CancelWrite(k) \/ CancelAwait(k)

Service(c) ==
  \/ Accept(c) \/ Refuse(c) \/ \E r \in Rows : Deliver(c, r)
  \/ \E k \in Calls : HandleAck(c, k)
  \/ Lost(c) \/ Backpressure(c) \/ Garble(c) \/ NoticeClosed(c)

Next ==
  \/ \E s \in Streams : Subscribe(s)
  \/ \E c \in Conns : ReadFrame(c) \/ Service(c)
  \/ \E k \in Calls : Ack(k)

Spec == Init /\ [][Next]_vars

-----------------------------------------------------------------------------
(* The event loop runs every task that can run, consumers come back for    *)
(* the next event, and the service answers what it has been sent.  Nothing *)
(* is assumed of aclose(), cancellation, new acks, deliveries or faults.   *)
Fairness ==
  /\ \A s \in Streams :
       /\ WF_vars(OpenConnection(s)) /\ WF_vars(Subscribed(s)) /\ WF_vars(SubscribeFails(s))
       /\ WF_vars(YieldEvent(s)) /\ WF_vars(RaiseItem(s)) /\ WF_vars(NextEvent(s))
       /\ WF_vars(Wake(s)) /\ WF_vars(CancelReader(s)) /\ WF_vars(Unwind(s)) /\ WF_vars(Closed(s))
  /\ \A k \in Calls :
       /\ WF_vars(AckAcquire(k)) /\ WF_vars(DrainDone(k) \/ DrainFails(k))
       /\ WF_vars(AckReturn(k)) /\ WF_vars(AckPerform(k))
  /\ \A c \in Conns :
       /\ WF_vars(ReadFrame(c)) /\ WF_vars(Accept(c) \/ Refuse(c)) /\ WF_vars(NoticeClosed(c))
       /\ \A k \in Calls : WF_vars(HandleAck(c, k))

FairSpec == Spec /\ Fairness

-----------------------------------------------------------------------------
(* The type of every variable, group by group.                             *)
ClientTypeOK ==
  /\ conn \in Conns \cup {None} /\ readerTask \in Conns \cup {None}
  /\ pending \subseteq Calls /\ lock \in Seq(Calls)

StreamTypeOK ==
  /\ spc \in [Streams -> {"ready", "opening", "queue", "yielded", "backoff", "unwind", "joining", "closing",
                     "ended"}]
  /\ cur \in [Streams -> Conns \cup {None}]
  /\ outcome \in [Streams -> {"none", "again", "closed"} \cup Errors]
  /\ \A s \in Streams : spc[s] # "ready" => cur[s] \in Conns

ConnTypeOK ==
  /\ reader \in [Conns -> {"none", "running", "done"}]
  /\ queue \in [Conns -> Seq(Items)]
  /\ inbox \in [Conns -> Seq(Frames)]
  /\ link \in [Conns -> {"new", "up", "down", "closed"}]

CallTypeOK ==
  /\ cpc \in [Calls -> {"idle", "lock", "drain", "await", "perform", "done"}]
  /\ row \in [Calls -> Rows \cup {None}]
  /\ fut \in [Calls -> {"none", "waiting", "acked", "other", "cancelled"} \cup Errors]
  /\ caller \in [Calls -> Streams \cup {None}]
  /\ via \in [Calls -> Conns \cup {None}]
  /\ result \in [Calls -> {"none", "acked", "cancelled", "attribute", "failed"}]
  /\ \A k \in Calls : cpc[k] = "drain" => via[k] \in Conns

ServiceTypeOK ==
  /\ asked \subseteq Conns /\ wire \in [Conns -> SUBSET Calls]
  /\ active \in Conns \cup {None} /\ recorded \subseteq Calls
  /\ sent \in [Conns -> Seq(Rows)] /\ yielded \in [Conns -> Seq(Rows)]

TypeOK == ClientTypeOK /\ StreamTypeOK /\ ConnTypeOK /\ CallTypeOK /\ ServiceTypeOK

(* ack() returns normally only if the service recorded this very request,  *)
(* and not another call's ack of the same row.                             *)
AckedMeansRecorded == \A k \in Calls : result[k] = "acked" => k \in recorded

(* No second subscribe() of this client has opened a connection.           *)
Alone == \A s, t \in Streams : cur[s] # None /\ cur[t] # None => s = t

(* A call whose response is still owed has its future registered, so that  *)
(* a response, the reader's failure or the teardown will settle it, but for*)
(* one thing: a second subscribe() has named its own connection since the  *)
(* call wrote on another, and emptied the dictionary (client.py:471-472).  *)
NoOrphanWaiter ==
  \A k \in Calls : cpc[k] \in {"drain", "await"} /\ fut[k] = "waiting" =>
    k \in pending \/ (via[k] # conn /\ ~Alone)

(* A running reader belongs to the connection the client names, and that   *)
(* connection to a generator that has not left its try/finally yet, so that*)
(* the reader will be stopped.  A second subscribe() may take the field    *)
(* away, by naming its own reader or by clearing the field after it awaited*)
(* the end of its own (client.py:479 and 497), and nobody stops it then.   *)
OneLiveReader ==
  \A c \in Conns : reader[c] = "running" =>
    IF readerTask = c
    THEN conn = c /\ \E s \in Streams : cur[s] = c /\ spc[s] \in {"queue", "yielded", "unwind"}
    ELSE ~Alone

(* The client never names a connection whose transport it has closed.      *)
NoClosedConnection == conn # None => link[conn] # "closed"

(* The consumer sees the rows of a connection in the order they were sent, *)
(* without a gap, whatever acks and errors are interleaved with them: the  *)
(* events in its queue come next, until the finally clause drops it.       *)
RowsInOrder(c) ==
  LET n == Len(yielded[c]) IN
  /\ IsPrefix(yielded[c], sent[c])
  /\ link[c] # "closed" => \A i \in 1..Len(queue[c]) : queue[c][i].kind = "event" =>
       n + i <= Len(sent[c]) /\ queue[c][i].row = sent[c][n + i]

EventsInOrder == \A c \in Conns : RowsInOrder(c)

(* An error reaches the consumer only after every event read before it.    *)
ErrorAfterEvents ==
  \A s \in Streams : spc[s] \in {"backoff", "unwind", "joining"} /\ outcome[s] # "closed" =>
    \A i \in 1..Len(queue[cur[s]]) : queue[cur[s]][i].kind # "event"

(* A call that has ended leaves nothing behind it, however it ended: it has*)
(* neither the lock nor a place in its line; it is registered only if it   *)
(* was cancelled at its last await (client.py:406, after the except clause *)
(* that unregisters it); and one that found the connection gone when it had*)
(* the lock was never sent (client.py:400).                                *)
NothingLeftBehind ==
  \A k \in Calls : cpc[k] = "done" =>
    /\ k \notin Range(lock)
    /\ k \in pending => result[k] = "cancelled" /\ fut[k] = "cancelled"
    /\ result[k] = "attribute" => k \notin recorded /\ \A c \in Conns : k \notin wire[c]

(* A reconnecting stream ends only because it was closed or because of an  *)
(* error response of the service: docs/sdk-python.md:105-108.              *)
RetriesInterruptions ==
  Reconnect => \A s \in Streams : outcome[s] \in {"none", "again", "closed", "service"}

(* Every ack() that has been called returns.                               *)
AcksReturn ==
  \A k \in Calls : cpc[k] # "idle" ~> cpc[k] = "done"

(* What ack() promises its callers, whatever the connections go through.   *)
Status(k) ==
  IF cpc[k] = "idle" THEN "idle"
  ELSE IF cpc[k] # "done" THEN "running"
  ELSE IF result[k] = "acked" THEN "acked" ELSE "failed"

Contract == INSTANCE AckContract WITH
  delivered <- Seen, named <- row, status <- [k \in Calls |-> Status(k)]

(* The engine implements the contract.                                     *)
KeepsContract == Contract!Spec

(* A connection whose reader has failed is left behind: the stream retries *)
(* it or ends.                                                             *)
FailureIsHandled ==
  \A s \in Streams, c \in Conns :
    (cur[s] = c /\ reader[c] = "done") ~> (cur[s] # c \/ spc[s] \in {"ready", "ended"})
-----------------------------------------------------------------------------
(* What makes the invariants above inductive.                              *)

(* A call meets the service only after its future was created, and an      *)
(* acknowledgement on its way, or handed to a future, has been recorded.   *)
AckTrail ==
  /\ \A k \in Calls :
       /\ cpc[k] \in {"idle", "lock", "perform"} =>
            fut[k] = "none" /\ k \notin recorded /\ \A c \in Conns : k \notin wire[c]
       /\ fut[k] = "acked" => k \in recorded
       /\ result[k] = "acked" => k \in recorded
  /\ \A c \in Conns : \A i \in 1..Len(inbox[c]) :
       inbox[c][i].kind = "acked" => inbox[c][i].call \in recorded

(* No two streams ever have the same connection, and a stream closes its   *)
(* own only in its finally clause.                                         *)
Holders ==
  /\ \A s \in Streams : cur[s] # None => link[cur[s]] # "new"
  /\ \A s, t \in Streams : cur[s] = cur[t] => s = t \/ cur[s] = None
  /\ \A s \in Streams : spc[s] \notin {"ready", "closing", "ended"} => link[cur[s]] # "closed"

(* A reader starts with the reply to its connection's subscribe request,   *)
(* and putting an exception on the queue is the last thing it does.        *)
Unread ==
  /\ \A s \in Streams : spc[s] = "opening" => reader[cur[s]] = "none"
  /\ \A c \in Conns : link[c] = "new" => reader[c] = "none"
LastWords ==
  \A c \in Conns : \A i \in 1..Len(queue[c]) :
    queue[c][i].kind = "raise" => reader[c] = "done"

ReaderTrail == Unread /\ LastWords

(* While a single subscribe() has opened connections the fields are its    *)
(* own: outside its try block no connection is named and no future is      *)
(* registered.  A call only writes on a connection whose reader was begun. *)
Named == Alone /\ conn # None => \E s \in Streams : conn = cur[s]
Outside == {"ready", "opening", "closing", "ended"}
Quiet ==
  Alone /\ (\A s \in Streams : cur[s] # None => spc[s] \in Outside) => conn = None /\ pending = {}
Begun(c) == c \in Conns /\ reader[c] # "none"
Started ==
  /\ conn # None => Begun(conn)
  /\ \A k \in Calls : cpc[k] \in {"drain", "await"} => Begun(via[k])

FieldTrail == Named /\ Quiet /\ Started

(* A line of frames q, of the rows s that were sent and of which h were    *)
(* handed over: each row is in it at most once, the next one to come or    *)
(* behind the one before it; while the connection is up they all are.      *)
EventOf(r) == [kind |-> "event", row |-> r]
Single(q) == \A i, j \in 1..Len(q) : q[i].kind = "event" /\ q[i] = q[j] => i = j
NextInLine(q, s, h) ==
  \A i \in 1..Len(q) : q[i].kind = "event" =>
    \E p \in (h + 1)..Len(s) :
      /\ q[i] = EventOf(s[p])
      /\ p = h + 1 \/ \E j \in 1..(i - 1) : q[j] = EventOf(s[p - 1])
AllThere(q, s, h) == \A p \in (h + 1)..Len(s) : \E i \in 1..Len(q) : q[i] = EventOf(s[p])
Line(q, s, h, up) == Single(q) /\ NextInLine(q, s, h) /\ (up => AllThere(q, s, h))

Handed(c) == Len(yielded[c]) + Len(queue[c])
InLine(c) == Line(inbox[c], sent[c], Handed(c), link[c] = "up")
Listening(c) ==
  /\ link[c] # "closed"
  /\ reader[c] = "running" \/ \E s \in Streams : cur[s] = c /\ spc[s] = "opening"
Distinct(s) == \A i, j \in 1..Len(s) : s[i] = s[j] => i = j

(* An exception is the last item of its queue; before its reader runs a   *)
(* queue is empty, and before it is opened a connection has no past.       *)
InSequence(c) ==
  /\ Distinct(sent[c]) /\ (Listening(c) => InLine(c)) /\ RowsInOrder(c)
  /\ \A i \in 1..Len(queue[c]) : queue[c][i].kind = "raise" => i = Len(queue[c])
  /\ reader[c] = "none" => queue[c] = <<>>
  /\ link[c] = "new" => inbox[c] = <<>> /\ sent[c] = <<>> /\ yielded[c] = <<>>

(* Once an error is on its way to the consumer nothing is left to read.    *)
Over ==
  \A s \in Streams : spc[s] \in {"backoff", "unwind", "joining"} /\ outcome[s] # "closed" =>
    reader[cur[s]] # "running" /\ queue[cur[s]] = <<>>

OrderTrail == (\A c \in Conns : InSequence(c)) /\ Over

(* What a call has while it runs: a future that waits for as long as it is *)
(* registered, and the lock while it writes, or a place in its line.       *)
Registered ==
  \A k \in pending :
    \/ cpc[k] \in {"drain", "await"} /\ fut[k] = "waiting"
    \/ cpc[k] = "done" /\ result[k] = "cancelled" /\ fut[k] = "cancelled"
InLock ==
  /\ Distinct(lock) /\ \A i \in 1..Len(lock) : cpc[lock[i]] \in {"lock", "drain"}
  /\ \A k \in Calls : cpc[k] = "drain" => lock # <<>> /\ lock[1] = k
Unsent ==
  \A k \in Calls :
    /\ result[k] # "none" => cpc[k] = "done"
    /\ result[k] = "attribute" => k \notin recorded /\ \A c \in Conns : k \notin wire[c]

LeftTrail == Registered /\ InLock /\ Unsent

(* Without resets, frames that are not UTF-8 and cancelled calls a reader  *)
(* fails with a transport failure or an error response only.               *)
Calm(q) == \A i \in 1..Len(q) : q[i].kind \notin {"reset", "undecodable"}
Mild(q) == \A i \in 1..Len(q) : q[i].kind = "raise" => q[i].error \in {"transport", "service"}
RetryTrail ==
  /\ \A c \in Conns : Calm(inbox[c]) /\ Mild(queue[c])
  /\ \A k \in pending : fut[k] = "waiting"
  /\ RetriesInterruptions
=============================================================================
