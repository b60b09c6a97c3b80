----------------------- MODULE TsSubscription_proofs -----------------------
(* What TLAPS proves of TsSubscription, for any streams (several of one    *)
(* client included), calls, rows, faults and number of connections.        *)
EXTENDS TsSubscription, TLAPS

-----------------------------------------------------------------------------
(* Taking the first element of a sequence.                                 *)
LEMMA TakeFirst ==
  ASSUME NEW S, NEW q \in Seq(S), q # <<>>
  PROVE  Head(q) \in S /\ Tail(q) \in Seq(S)
OBVIOUS

(* Adding an element at the end of a sequence.                             *)
LEMMA AddLast ==
  ASSUME NEW S, NEW q \in Seq(S), NEW e \in S
  PROVE  Append(q, e) \in Seq(S)
OBVIOUS

(* The fields of a frame, and of what readResponse() settles with.         *)
LEMMA FrameTypes ==
  /\ Responses \subseteq Frames
  /\ \A f \in Frames : f.kind \in {"event", "acked", "error", "subscribed"} => f \in Responses
  /\ \A f \in Readings : f.kind = "event" => f.row \in Rows
  /\ \A f \in Readings : ReplyError(f) \in Errors
  /\ \A f \in Frames : FrameError(f) \in Errors
  /\ [kind |-> "close"] \in Frames /\ [kind |-> "reset"] \in Frames
BY DEF Frames, Responses, Readings, Damages, Errors, NotReading, Waiting, Rejected, ReplyError, FrameError

(* Every frame the service writes is a response, damaged or not a frame.   *)
LEMMA SentTypes ==
  /\ [kind |-> "subscribed"] \in Responses
  /\ [kind |-> "error", call |-> None] \in Responses
  /\ \A r \in Rows : [kind |-> "event", row |-> r] \in Responses
  /\ \A b \in {"acked", "error"}, k \in Calls : [kind |-> b, call |-> k] \in Responses
  /\ [kind : Damages \cap Faults] \subseteq Frames
BY DEF Responses, Frames

-----------------------------------------------------------------------------
(* The helpers of the connection keep its part of the types.               *)

(* A failure is an error, and rejects the promise with an error.           *)
LEMMA FailType ==
  ASSUME NEW c \in Conns, NEW e \in Errors, ConnTypeOK, Fail(c, e)
  PROVE  /\ reading' \in [Conns -> Readings]
         /\ failure' \in [Conns -> {"none"} \cup Errors]
<1>1. Rejected(e) \in Readings
  BY DEF Readings
<1>2. QED
  BY <1>1 DEF ConnTypeOK, Fail

(* A response is handed over or queued.                                    *)
LEMMA ResolveType ==
  ASSUME NEW c \in Conns, NEW f \in Responses, ConnTypeOK, Resolve(c, f)
  PROVE  /\ reading' \in [Conns -> Readings]
         /\ responses' \in [Conns -> Seq(Responses)]
<1>1. f \in Readings /\ Append(responses[c], f) \in Seq(Responses)
  BY AddLast DEF Readings, ConnTypeOK
<1>2. QED
  BY <1>1 DEF ConnTypeOK, Resolve

(* The next response is a queued one, a failure, or is waited for.         *)
LEMMA ReadType ==
  ASSUME NEW c \in Conns, ConnTypeOK, ReadResponse(c)
  PROVE  /\ reading' \in [Conns -> Readings]
         /\ responses' \in [Conns -> Seq(Responses)]
<1>1. CASE responses[c] # <<>>
  <2>1. Head(responses[c]) \in Readings /\ Tail(responses[c]) \in Seq(Responses)
    BY <1>1, TakeFirst DEF ConnTypeOK, Readings
  <2>2. QED
    BY <1>1, <2>1 DEF ConnTypeOK, ReadResponse
<1>2. CASE responses[c] = <<>>
  <2>1. Waiting \in Readings /\ \A e \in Errors : Rejected(e) \in Readings
    BY DEF Readings
  <2>2. failure[c] # "none" => failure[c] \in Errors
    BY DEF ConnTypeOK
  <2>3. QED
    BY <1>2, <2>1, <2>2 DEF ConnTypeOK, ReadResponse
<1>3. QED
  BY <1>1, <1>2

(* A destroyed socket only has its "close" event to emit.                  *)
LEMMA DestroyType ==
  ASSUME NEW c \in Conns, SocketTypeOK, Destroy(c)
  PROVE  SocketTypeOK'
<1>1. <<[kind |-> "close"]>> \in Seq(Frames)
  BY FrameTypes
<1>2. QED
  BY <1>1 DEF SocketTypeOK, Destroy, socketVars

(* Rejecting the promises of a connection keeps the other maps.            *)
LEMMA RejectType ==
  ASSUME NEW c \in Conns, NEW e \in Errors, PromiseTypeOK, RejectPending(c, e)
  PROVE  PromiseTypeOK'
BY DEF PromiseTypeOK, RejectPending

(* The finally clause keeps the types of all it changes.                   *)
LEMMA FinallyType ==
  ASSUME TypeOK, NEW c \in Conns, Finally(c)
  PROVE  /\ PromiseTypeOK' /\ SocketTypeOK'
         /\ conn' \in Conns \cup {None}
         /\ queueFailure' \in [Conns -> {"none"} \cup Errors]
<1>1. PromiseTypeOK' /\ SocketTypeOK'
  BY RejectType, DestroyType DEF Finally, Errors, TypeOK
<1>2. QED
  BY <1>1 DEF Finally, Forget, FailQueue, TypeOK, EventTypeOK, Errors

(* So does an error that leaves the try block.                             *)
LEMMA RaiseType ==
  ASSUME TypeOK, NEW s \in Streams, NEW c \in Conns, NEW e \in Errors,
         Raise(s, c, e), cur' = cur \/ cur' = [cur EXCEPT ![s] = c], spc[s] # "ready" \/ cur'[s] = c
  PROVE  /\ StreamTypeOK' /\ PromiseTypeOK' /\ SocketTypeOK'
         /\ conn' \in Conns \cup {None}
         /\ queueFailure' \in [Conns -> {"none"} \cup Errors]
<1>1. CASE e = "transport" /\ Reconnect
  <2>1. UNCHANGED <<conn, pending, promise, queueFailure, socketVars>>
        /\ spc' = [spc EXCEPT ![s] = "backoff"] /\ outcome' = [outcome EXCEPT ![s] = "again"]
    BY <1>1 DEF Raise
  <2>2. QED
    BY <2>1 DEF TypeOK, EventTypeOK, StreamTypeOK, PromiseTypeOK, SocketTypeOK, socketVars
<1>2. CASE ~(e = "transport" /\ Reconnect)
  <2>1. Finally(c) /\ spc' = [spc EXCEPT ![s] = "ended"] /\ outcome' = [outcome EXCEPT ![s] = e]
    BY <1>2 DEF Raise
  <2>2. QED
    BY <2>1, FinallyType DEF TypeOK, StreamTypeOK
<1>3. QED
  BY <1>1, <1>2

-----------------------------------------------------------------------------
(* Every variable keeps its type.                                          *)
LEMMA TypeInit == Init => TypeOK
BY ConstantsAssumption DEF Init, TypeOK, StreamTypeOK, EventTypeOK, ConnTypeOK, SocketTypeOK, PromiseTypeOK,
  CallTypeOK, ServiceTypeOK, Readings

(* The steps of a stream, one by one.                                      *)
LEMMA TypeSubscribe ==
  ASSUME TypeOK, NEW s \in Streams, Subscribe(s)
  PROVE  TypeOK'
<1> USE ConstantsAssumption DEF TypeOK, streamVars, eventVars, connVars, socketVars, callVars, serviceVars, history
<1>1. CASE OpenConnection(s)
  <2>1. PICK c \in Conns :
          /\ link' = [link EXCEPT ![c] = "up"]
          /\ asked' = asked \cup {c}
          /\ reading' = [reading EXCEPT ![c] = Waiting]
          /\ cur' = [cur EXCEPT ![s] = c]
          /\ spc' = [spc EXCEPT ![s] = "opening"]
          /\ outcome' = [outcome EXCEPT ![s] = "none"]
          /\ UNCHANGED <<conn, pending, eventVars, pump, responses, failure, inbox, callVars, promise,
                         wire, active, sent, recorded, history>>
    BY <1>1 DEF OpenConnection
  <2>2. StreamTypeOK'
    BY <2>1 DEF StreamTypeOK
  <2>3. ConnTypeOK' /\ SocketTypeOK'
    <3>1. Waiting \in Readings
      BY DEF Readings
    <3>2. QED
      BY <2>1, <3>1 DEF ConnTypeOK, SocketTypeOK
  <2>4. ServiceTypeOK'
    BY <2>1 DEF ServiceTypeOK
  <2>5. QED
    BY <2>1, <2>2, <2>3, <2>4 DEF EventTypeOK, PromiseTypeOK, CallTypeOK
<1>2. CASE OpenFails(s)
  <2>1. PICK c \in Conns :
          /\ failure' = [failure EXCEPT ![c] = "os"]
          /\ cur' = [cur EXCEPT ![s] = c]
          /\ Raise(s, c, "os")
          /\ UNCHANGED <<queue, pump, responses, reading, callVars, serviceVars, history>>
    BY <1>2 DEF OpenFails
  <2>2. cur'[s] = c
    BY <2>1 DEF StreamTypeOK
  <2>3. "os" \in Errors
    BY DEF Errors
  <2>4. /\ StreamTypeOK' /\ PromiseTypeOK' /\ SocketTypeOK'
        /\ conn' \in Conns \cup {None}
        /\ queueFailure' \in [Conns -> {"none"} \cup Errors]
    BY <2>1, <2>2, <2>3, RaiseType
  <2>5. QED
    BY <2>1, <2>3, <2>4 DEF EventTypeOK, ConnTypeOK, CallTypeOK, ServiceTypeOK
<1>3. CASE Subscribed(s)
  <2>1. cur[s] \in Conns
    BY <1>3 DEF Subscribed, StreamTypeOK
  <2>2. ConnTypeOK'
    BY <1>3, <2>1, ReadType DEF Subscribed, ConnTypeOK
  <2>3. QED
    BY <1>3, <2>1, <2>2 DEF Subscribed, StreamTypeOK, EventTypeOK, SocketTypeOK, PromiseTypeOK, CallTypeOK, ServiceTypeOK
<1>4. CASE SubscribeFails(s)
  <2>1. cur[s] \in Conns
    BY <1>4 DEF SubscribeFails, StreamTypeOK
  <2>2. ReplyError(reading[cur[s]]) \in Errors /\ NotReading \in Readings
    BY <2>1, FrameTypes DEF ConnTypeOK, Readings
  <2>3. /\ StreamTypeOK' /\ PromiseTypeOK' /\ SocketTypeOK'
        /\ conn' \in Conns \cup {None}
        /\ queueFailure' \in [Conns -> {"none"} \cup Errors]
    BY <1>4, <2>1, <2>2, RaiseType DEF SubscribeFails
  <2>4. QED
    BY <1>4, <2>1, <2>2, <2>3 DEF SubscribeFails, EventTypeOK, ConnTypeOK, CallTypeOK, ServiceTypeOK
<1>5. CASE YieldEvent(s)
  <2>1. cur[s] \in Conns
    BY <1>5 DEF YieldEvent, StreamTypeOK
  <2>2. Head(queue[cur[s]]) \in Rows /\ Tail(queue[cur[s]]) \in Seq(Rows)
    BY <1>5, <2>1, TakeFirst DEF YieldEvent, EventTypeOK
  <2>3. Append(yielded[cur[s]], Head(queue[cur[s]])) \in Seq(Rows)
    BY <2>1, <2>2, AddLast DEF ServiceTypeOK
  <2>4. QED
    BY <1>5, <2>1, <2>2, <2>3 DEF YieldEvent, StreamTypeOK, EventTypeOK, ConnTypeOK, SocketTypeOK, PromiseTypeOK,
      CallTypeOK, ServiceTypeOK
<1>6. CASE EventsFail(s)
  <2>1. cur[s] \in Conns
    BY <1>6 DEF EventsFail, StreamTypeOK
  <2>2. queueFailure[cur[s]] \in Errors
    BY <1>6, <2>1 DEF EventsFail, OutOfEvents, EventTypeOK
  <2>3. /\ StreamTypeOK' /\ PromiseTypeOK' /\ SocketTypeOK'
        /\ conn' \in Conns \cup {None}
        /\ queueFailure' \in [Conns -> {"none"} \cup Errors]
    BY <1>6, <2>1, <2>2, RaiseType DEF EventsFail
  <2>4. QED
    BY <1>6, <2>3 DEF EventsFail, EventTypeOK, ConnTypeOK, CallTypeOK, ServiceTypeOK
<1>7. CASE NextEvent(s)
  BY <1>7 DEF NextEvent, StreamTypeOK, EventTypeOK, ConnTypeOK, SocketTypeOK, PromiseTypeOK, CallTypeOK, ServiceTypeOK
<1>8. CASE Return(s)
  <2>1. cur[s] \in Conns
    BY <1>8 DEF Return, StreamTypeOK
  <2>2. QED
    BY <1>8, <2>1, FinallyType DEF Return, StreamTypeOK, EventTypeOK, ConnTypeOK, CallTypeOK, ServiceTypeOK
<1>9. CASE Wake(s)
  <2>1. cur[s] \in Conns
    BY <1>9 DEF Wake, StreamTypeOK
  <2>2. QED
    BY <1>9, <2>1, FinallyType DEF Wake, StreamTypeOK, EventTypeOK, ConnTypeOK, CallTypeOK, ServiceTypeOK
<1>10. QED
  BY <1>1, <1>2, <1>3, <1>4, <1>5, <1>6, <1>7, <1>8, <1>9 DEF Subscribe

(* The events of a socket.                                                 *)
LEMMA TypeSocket ==
  ASSUME TypeOK, NEW c \in Conns, Socket(c)
  PROVE  TypeOK'
<1> USE DEF TypeOK, streamVars, eventVars, connVars, socketVars, callVars, serviceVars, history
<1> DEFINE f == Head(inbox[c])
<1>1. inbox[c] # <<>> => f \in Frames /\ Tail(inbox[c]) \in Seq(Frames)
  BY TakeFirst DEF SocketTypeOK
<1>2. ASSUME inbox[c] # <<>>, Unhandled(c), link' \in [Conns -> {"new", "up", "down", "destroyed", "closed"}]
      PROVE  SocketTypeOK'
  BY <1>1, <1>2 DEF Unhandled, SocketTypeOK
<1>3. CASE ReceiveResponse(c)
  <2>1. inbox[c] # <<>> /\ f \in Responses /\ (f.kind = "event" => f.row \in Rows)
    BY <1>1, <1>3, FrameTypes DEF ReceiveResponse, Readings
  <2>2. ConnTypeOK'
    BY <1>3, <2>1, ResolveType DEF ReceiveResponse, ConnTypeOK
  <2>3. SocketTypeOK'
    BY <1>2, <1>3, <2>1 DEF ReceiveResponse, SocketTypeOK
  <2>4. ServiceTypeOK'
    <3>1. f.kind = "event" => Append(arrived[c], f.row) \in Seq(Rows)
      BY <2>1, AddLast DEF ServiceTypeOK
    <3>2. QED
      BY <1>3, <3>1 DEF ReceiveResponse, ServiceTypeOK
  <2>5. QED
    BY <1>3, <2>2, <2>3, <2>4 DEF ReceiveResponse, StreamTypeOK, EventTypeOK, PromiseTypeOK, CallTypeOK
<1>4. CASE ReceiveDamaged(c)
  <2>1. inbox[c] # <<>> /\ FrameError(f) \in Errors
    BY <1>1, <1>4, FrameTypes DEF ReceiveDamaged
  <2>2. ConnTypeOK'
    BY <1>4, <2>1, FailType DEF ReceiveDamaged, ConnTypeOK
  <2>3. SocketTypeOK'
    BY <1>2, <1>4, <2>1, DestroyType DEF ReceiveDamaged, SocketTypeOK
  <2>4. QED
    BY <1>4, <2>2, <2>3 DEF ReceiveDamaged, StreamTypeOK, EventTypeOK, PromiseTypeOK, CallTypeOK, ServiceTypeOK
<1>5. CASE SocketEvent(c)
  <2>1. inbox[c] # <<>> /\ "os" \in Errors /\ "transport" \in Errors
    BY <1>5 DEF SocketEvent, Errors
  <2>2. ConnTypeOK'
    BY <1>5, <2>1, FailType DEF SocketEvent, ConnTypeOK
  <2>3. SocketTypeOK'
    BY <1>2, <1>5, <2>1 DEF SocketEvent, SocketTypeOK
  <2>4. QED
    BY <1>5, <2>2, <2>3 DEF SocketEvent, StreamTypeOK, EventTypeOK, PromiseTypeOK, CallTypeOK, ServiceTypeOK
<1>6. QED
  BY <1>3, <1>4, <1>5 DEF Socket

(* The pump, by the way it routes a response.                              *)
LEMMA TypePump ==
  ASSUME TypeOK, NEW c \in Conns, Pump(c)
  PROVE  TypeOK'
<1> USE DEF TypeOK, streamVars, eventVars, connVars, socketVars, callVars, serviceVars, history
<1> DEFINE f == reading[c]
<1>1. UNCHANGED <<conn, streamVars, failure, socketVars, callVars, serviceVars, history>>
  BY DEF Pump
<1>2. StreamTypeOK' /\ SocketTypeOK' /\ CallTypeOK' /\ ServiceTypeOK'
  BY <1>1 DEF StreamTypeOK, SocketTypeOK, CallTypeOK, ServiceTypeOK
<1>3. f \in Readings
  BY DEF ConnTypeOK
<1>4. ReadResponse(c) => ConnTypeOK'
  BY <1>1, ReadType DEF ConnTypeOK
<1>5. CASE RouteAnswer(c)
  BY <1>1, <1>2, <1>4, <1>5 DEF RouteAnswer, Answer, EventTypeOK, PromiseTypeOK, Errors
<1>6. CASE RouteEvent(c)
  <2>1. f.row \in Rows
    BY <1>3, <1>6, FrameTypes DEF RouteEvent
  <2>2. Append(queue[c], f.row) \in Seq(Rows)
    BY <2>1, AddLast DEF EventTypeOK
  <2>3. QED
    BY <1>1, <1>2, <1>4, <1>6, <2>2 DEF RouteEvent, Push, EventTypeOK, PromiseTypeOK
<1>7. CASE RouteUnclaimed(c)
  BY <1>1, <1>2, <1>4, <1>7 DEF RouteUnclaimed, EventTypeOK, PromiseTypeOK
<1>8. CASE PumpFails(c)
  <2>1. ReplyError(f) \in Errors
    BY <1>3, FrameTypes
  <2>2. PromiseTypeOK'
    BY <1>8, <2>1, RejectType DEF PumpFails
  <2>3. ConnTypeOK'
    <3>1. NotReading \in Readings
      BY DEF Readings
    <3>2. QED
      BY <1>1, <1>8, <3>1 DEF PumpFails, ConnTypeOK
  <2>4. EventTypeOK'
    BY <1>1, <1>8, <2>1 DEF PumpFails, FailQueue, EventTypeOK
  <2>5. QED
    BY <1>2, <2>2, <2>3, <2>4
<1>9. QED
  BY <1>5, <1>6, <1>7, <1>8 DEF Pump

(* A call only names a row that was yielded, and every row has a type.     *)
LEMMA SeenRows == ASSUME ServiceTypeOK PROVE Seen \subseteq Rows
BY DEF ServiceTypeOK, Seen, Range

(* The steps of a call, one by one.                                        *)
LEMMA TypeAck ==
  ASSUME TypeOK, NEW k \in Calls, Ack(k)
  PROVE  TypeOK'
<1> USE DEF TypeOK, streamVars, eventVars, connVars, socketVars, callVars, serviceVars, history
<1>1. CASE AckBegin(k)
  <2>1. PICK r \in Seen, s \in Streams \cup {None} :
          /\ row' = [row EXCEPT ![k] = r]
          /\ caller' = [caller EXCEPT ![k] = s]
          /\ \/ conn # None /\ Write(k)
             \/ cpc' = [cpc EXCEPT ![k] = "perform"] /\ UNCHANGED <<pending, promise, wire, via>>
          /\ UNCHANGED <<conn, streamVars, eventVars, pump, connVars, socketVars, result, asked, active,
                         sent, recorded, history>>
    BY <1>1 DEF AckBegin
  <2>2. r \in Rows
    BY SeenRows
  <2>3. CASE conn # None /\ Write(k)
    <3>1. conn \in Conns
      BY <2>3 DEF EventTypeOK
    <3>2. PromiseTypeOK' /\ CallTypeOK'
      BY <2>1, <2>2, <2>3, <3>1 DEF Write, PromiseTypeOK, CallTypeOK
    <3>3. ServiceTypeOK'
      BY <2>1, <2>3, <3>1 DEF Write, ServiceTypeOK
    <3>4. QED
      BY <2>1, <3>2, <3>3 DEF StreamTypeOK, EventTypeOK, ConnTypeOK, SocketTypeOK
  <2>4. CASE cpc' = [cpc EXCEPT ![k] = "perform"] /\ UNCHANGED <<pending, promise, wire, via>>
    BY <2>1, <2>2, <2>4 DEF StreamTypeOK, EventTypeOK, ConnTypeOK, SocketTypeOK, PromiseTypeOK, CallTypeOK, ServiceTypeOK
  <2>5. QED
    BY <2>1, <2>3, <2>4
<1>2. CASE AckReturn(k)
  <2>1. promise[k] # "waiting" /\ promise[k] \in {"none", "waiting", "acked"} \cup Errors
    BY <1>2 DEF AckReturn, PromiseTypeOK
  <2>2. CallTypeOK'
    BY <1>2, <2>1 DEF AckReturn, CallTypeOK
  <2>3. QED
    BY <1>2, <2>2 DEF AckReturn, StreamTypeOK, EventTypeOK, ConnTypeOK, SocketTypeOK, PromiseTypeOK, ServiceTypeOK
<1>3. CASE AckPerform(k)
  <2>1. CallTypeOK'
    BY <1>3 DEF AckPerform, CallTypeOK
  <2>2. QED
    BY <1>3, <2>1 DEF AckPerform, StreamTypeOK, EventTypeOK, ConnTypeOK, SocketTypeOK, PromiseTypeOK, ServiceTypeOK
<1>4. QED
  BY <1>1, <1>2, <1>3 DEF Ack

(* Frames sent, damaged or not, are added to the inbox.                    *)
LEMMA SendType ==
  ASSUME NEW c \in Conns, NEW r \in Responses, inbox \in [Conns -> Seq(Frames)], Send(c, r)
  PROVE  inbox' \in [Conns -> Seq(Frames)]
<1>1. PICK f \in {r} \cup [kind : Damages \cap Faults] : inbox' = [inbox EXCEPT ![c] = Append(@, f)]
  BY DEF Send
<1>2. f \in Frames
  BY FrameTypes, SentTypes
<1>3. Append(inbox[c], f) \in Seq(Frames)
  BY <1>2, AddLast
<1>4. QED
  BY <1>1, <1>3

(* The steps of the service, one by one.                                   *)
LEMMA TypeService ==
  ASSUME TypeOK, NEW c \in Conns, Service(c)
  PROVE  TypeOK'
<1> USE DEF TypeOK, streamVars, eventVars, connVars, socketVars, callVars, history
<1>1. ASSUME UNCHANGED ClientVars
      PROVE  StreamTypeOK' /\ EventTypeOK' /\ ConnTypeOK' /\ PromiseTypeOK' /\ CallTypeOK'
  BY <1>1 DEF ClientVars, StreamTypeOK, EventTypeOK, ConnTypeOK, PromiseTypeOK, CallTypeOK
<1>2. ASSUME NEW r \in Responses, Send(c, r), UNCHANGED link
      PROVE  SocketTypeOK'
  BY <1>2, SendType DEF SocketTypeOK
<1>3. CASE Accept(c)
  <2>1. SocketTypeOK'
    BY <1>2, <1>3, SentTypes DEF Accept
  <2>2. ServiceTypeOK'
    BY <1>3 DEF Accept, ServiceTypeOK, ClientVars
  <2>3. QED
    BY <1>1, <1>3, <2>1, <2>2 DEF Accept
<1>4. CASE Refuse(c)
  <2>1. SocketTypeOK'
    BY <1>2, <1>4, SentTypes DEF Refuse
  <2>2. ServiceTypeOK'
    BY <1>4 DEF Refuse, ServiceTypeOK, ClientVars
  <2>3. QED
    BY <1>1, <1>4, <2>1, <2>2 DEF Refuse
<1>5. ASSUME NEW r \in Rows, Deliver(c, r)
      PROVE  TypeOK'
  <2>1. SocketTypeOK'
    BY <1>2, <1>5, SentTypes DEF Deliver
  <2>2. Append(sent[c], r) \in Seq(Rows)
    BY AddLast DEF ServiceTypeOK
  <2>3. ServiceTypeOK'
    BY <1>5, <2>2 DEF Deliver, ServiceTypeOK, ClientVars
  <2>4. QED
    BY <1>1, <1>5, <2>1, <2>3 DEF Deliver
<1>6. ASSUME NEW k \in Calls, HandleAck(c, k)
      PROVE  TypeOK'
  <2>1. SocketTypeOK'
    <3>1. CASE link[c] = "up"
      <4>1. [kind |-> IF Outstanding(c, k) THEN "acked" ELSE "error", call |-> k] \in Responses
        BY SentTypes
      <4>2. QED
        BY <1>2, <1>6, <3>1, <4>1 DEF HandleAck
    <3>2. CASE link[c] # "up"
      BY <1>6, <3>2 DEF HandleAck, SocketTypeOK
    <3>3. QED
      BY <3>1, <3>2
  <2>2. ServiceTypeOK'
    BY <1>6 DEF HandleAck, ServiceTypeOK, ClientVars
  <2>3. QED
    BY <1>1, <1>6, <2>1, <2>2 DEF HandleAck
<1>7. ASSUME NEW fs \in Seq(Frames), Drop(c, fs)
      PROVE  TypeOK'
  <2>1. Append(fs, [kind |-> "close"]) \in Seq(Frames)
    BY FrameTypes, AddLast
  <2>2. SocketTypeOK'
    BY <1>7, <2>1 DEF Drop, SocketTypeOK
  <2>3. ServiceTypeOK'
    BY <1>7 DEF Drop, ServiceTypeOK, ClientVars
  <2>4. QED
    BY <1>1, <1>7, <2>2, <2>3 DEF Drop
<1>8. CASE Disconnect(c)
  BY <1>7, <1>8 DEF Disconnect, SocketTypeOK
<1>9. CASE Reset(c)
  <2>1. <<[kind |-> "reset"]>> \in Seq(Frames)
    BY FrameTypes
  <2>2. QED
    BY <1>7, <1>9, <2>1 DEF Reset
<1>10. CASE Backpressure(c)
  <2>1. Append(inbox[c], [kind |-> "error", call |-> None]) \in Seq(Frames)
    BY SentTypes, FrameTypes, AddLast DEF SocketTypeOK
  <2>2. QED
    BY <1>7, <1>10, <2>1 DEF Backpressure
<1>11. CASE NoticeClosed(c)
  <2>1. SocketTypeOK' /\ ServiceTypeOK'
    BY <1>11 DEF NoticeClosed, SocketTypeOK, ServiceTypeOK, ClientVars
  <2>2. QED
    BY <1>1, <1>11, <2>1 DEF NoticeClosed
<1>12. QED
  BY <1>3, <1>4, <1>5, <1>6, <1>8, <1>9, <1>10, <1>11 DEF Service

(* TypeOK is an invariant of the engine: every step keeps every variable   *)
(* of the client, its connections, its ack() calls and the service typed.  *)
THEOREM TypeCorrect == Spec => []TypeOK
<1>1. TypeOK /\ [Next]_vars => TypeOK'
  <2> SUFFICES ASSUME TypeOK, [Next]_vars PROVE TypeOK'
    OBVIOUS
  <2>1. CASE Next
    BY <2>1, TypeSubscribe, TypeSocket, TypePump, TypeAck, TypeService DEF Next
  <2>2. CASE UNCHANGED vars
    BY <2>2 DEF vars, TypeOK, StreamTypeOK, EventTypeOK, ConnTypeOK, SocketTypeOK, PromiseTypeOK, CallTypeOK,
      ServiceTypeOK, streamVars, eventVars, connVars, socketVars, callVars, serviceVars, history
  <2>3. QED
    BY <2>1, <2>2
<1>2. QED
  BY TypeInit, <1>1, PTL DEF Spec

-----------------------------------------------------------------------------
(* NoOrphanWaiter and NamedIsHeld, together inductive given the types: an  *)
(* ack registers with the connection the client names, and that one is     *)
(* held by a generator until its finally clause settles and forgets it.    *)

Held == NoOrphanWaiter /\ NamedIsHeld

Holding == {"next", "yielded", "backoff"}

(* No generator that holds a connection lets it go.                        *)
KeepsHolding(s) == spc[s] \in Holding => spc'[s] \in Holding /\ cur'[s] = cur[s]

(* Nobody lets a connection go, and no waiter comes or goes.               *)
LEMMA HeldKept ==
  ASSUME Held, UNCHANGED <<conn, pending, promise, via>>, \A s \in Streams : KeepsHolding(s)
  PROVE  Held'
BY DEF Held, NoOrphanWaiter, NamedIsHeld, Holds, Holding, KeepsHolding

(* A settled map, with the rest of the waiters as they were.               *)
LEMMA HeldAfterReject ==
  ASSUME TypeOK, Held, NEW c \in Conns, NEW e \in Errors, RejectPending(c, e), UNCHANGED <<conn, via>>,
         \A s \in Streams : KeepsHolding(s)
  PROVE  Held'
<1>1. \A k \in Calls : promise'[k] = "waiting" => promise[k] = "waiting" /\ k \notin pending[c]
  BY DEF RejectPending, Errors
<1>2. \A k \in Calls : promise'[k] = "waiting" => k \in pending'[via[k]]
  BY <1>1 DEF RejectPending, Held, NoOrphanWaiter, TypeOK, PromiseTypeOK
<1>3. QED
  BY <1>1, <1>2 DEF Held, NoOrphanWaiter, NamedIsHeld, Holds, Holding, KeepsHolding

(* The finally clause of the generator that lets the connection go.        *)
LEMMA HeldAfterFinally ==
  ASSUME TypeOK, Held, NEW s \in Streams, NEW c \in Conns, Finally(c), UNCHANGED via,
         cur[s] = c \/ spc[s] \notin Holding,
         \A t \in Streams : t # s => KeepsHolding(t)
  PROVE  Held'
<1>1. \A k \in Calls : promise'[k] = "waiting" => promise[k] = "waiting" /\ k \notin pending[c]
  BY DEF Finally, RejectPending
<1>2. \A k \in Calls : promise'[k] = "waiting" => via[k] # c /\ k \in pending'[via[k]]
  BY <1>1 DEF Finally, RejectPending, Held, NoOrphanWaiter, TypeOK, PromiseTypeOK
<1>3. \A t \in Streams : \A d : d # c /\ Holds(t, d) => t # s
  BY DEF Holds, Holding
<1>4. \A t \in Streams : \A d : d # c /\ Holds(t, d) => cur'[t] = d /\ spc'[t] \in Holding
  BY <1>3 DEF Holds, Holding, KeepsHolding
<1>5. NoOrphanWaiter'
  BY <1>1, <1>2, <1>4 DEF Held, NoOrphanWaiter, Holds, Holding
<1>6. NamedIsHeld'
  <2>1. conn' # None => conn' = conn /\ conn # c
    BY DEF Finally, Forget
  <2>2. QED
    BY <1>4, <2>1 DEF Held, NamedIsHeld, Holds, Holding
<1>7. QED
  BY <1>5, <1>6 DEF Held

(* An error in the try block: the generator holds on until it wakes, or    *)
(* runs its finally clause.                                                *)
LEMMA HeldAfterRaise ==
  ASSUME TypeOK, Held, NEW s \in Streams, NEW c \in Conns, NEW e, Raise(s, c, e), UNCHANGED via,
         cur[s] = c \/ spc[s] \notin Holding, cur'[s] = c,
         \A t \in Streams : t # s => cur'[t] = cur[t]
  PROVE  Held'
<1>1. \A t \in Streams : t # s => KeepsHolding(t)
  BY DEF Raise, KeepsHolding, TypeOK, StreamTypeOK
<1>2. CASE e = "transport" /\ Reconnect
  <2>1. UNCHANGED <<conn, pending, promise, via>> /\ spc' = [spc EXCEPT ![s] = "backoff"]
    BY <1>2 DEF Raise
  <2>2. KeepsHolding(s)
    BY <2>1 DEF KeepsHolding, Holding, TypeOK, StreamTypeOK
  <2>3. QED
    BY <1>1, <2>1, <2>2, HeldKept
<1>3. CASE ~(e = "transport" /\ Reconnect)
  <2>1. Finally(c)
    BY <1>3 DEF Raise
  <2>2. QED
    BY <1>1, <2>1, HeldAfterFinally
<1>4. QED
  BY <1>2, <1>3

(* The steps of a stream, one by one.                                      *)
LEMMA HeldSubscribe ==
  ASSUME TypeOK, Held, NEW s \in Streams, Subscribe(s)
  PROVE  Held'
<1> USE DEF streamVars, eventVars, connVars, callVars
<1>1. CASE OpenConnection(s)
  <2>1. UNCHANGED <<conn, pending, promise, via>> /\ spc[s] \notin Holding
        /\ \A t \in Streams : t # s => spc'[t] = spc[t] /\ cur'[t] = cur[t]
    BY <1>1 DEF OpenConnection, Holding, TypeOK, StreamTypeOK
  <2>2. QED
    BY <2>1, HeldKept DEF KeepsHolding
<1>2. CASE OpenFails(s)
  <2>1. PICK c \in Conns : Raise(s, c, "os") /\ cur' = [cur EXCEPT ![s] = c] /\ via' = via
    BY <1>2 DEF OpenFails
  <2>2. spc[s] \notin Holding
    BY <1>2 DEF OpenFails, Holding
  <2>3. cur'[s] = c /\ \A t \in Streams : t # s => cur'[t] = cur[t]
    BY <2>1 DEF TypeOK, StreamTypeOK
  <2>4. QED
    BY <2>1, <2>2, <2>3, HeldAfterRaise
<1>3. CASE Subscribed(s)
  <2>1. conn' = cur[s] /\ cur' = cur /\ spc' = [spc EXCEPT ![s] = "next"] /\ UNCHANGED <<pending, promise, via>>
    BY <1>3 DEF Subscribed
  <2>2. \A t \in Streams : KeepsHolding(t)
    BY <2>1 DEF KeepsHolding, Holding, TypeOK, StreamTypeOK
  <2>3. NoOrphanWaiter'
    BY <2>1, <2>2 DEF Held, NoOrphanWaiter, Holds, Holding, KeepsHolding
  <2>4. NamedIsHeld'
    BY <2>1 DEF NamedIsHeld, Holds, TypeOK, StreamTypeOK
  <2>5. QED
    BY <2>3, <2>4 DEF Held
<1>4. CASE SubscribeFails(s)
  <2>1. cur[s] \in Conns
    BY <1>4 DEF SubscribeFails, TypeOK, StreamTypeOK
  <2>2. PICK e : Raise(s, cur[s], e) /\ cur' = cur /\ via' = via
    BY <1>4, <2>1 DEF SubscribeFails
  <2>3. cur'[s] = cur[s] /\ \A t \in Streams : t # s => cur'[t] = cur[t]
    BY <2>2
  <2>4. QED
    BY <2>1, <2>2, <2>3, HeldAfterRaise
<1>5. CASE YieldEvent(s)
  BY <1>5, HeldKept DEF YieldEvent, KeepsHolding, Holding, TypeOK, StreamTypeOK
<1>6. CASE EventsFail(s)
  <2>1. cur[s] \in Conns
    BY <1>6 DEF EventsFail, TypeOK, StreamTypeOK
  <2>2. PICK e : Raise(s, cur[s], e) /\ cur' = cur /\ via' = via
    BY <1>6, <2>1 DEF EventsFail
  <2>3. cur'[s] = cur[s] /\ \A t \in Streams : t # s => cur'[t] = cur[t]
    BY <2>2
  <2>4. QED
    BY <2>1, <2>2, <2>3, HeldAfterRaise
<1>7. CASE NextEvent(s)
  BY <1>7, HeldKept DEF NextEvent, KeepsHolding, Holding, TypeOK, StreamTypeOK
<1>8. CASE Return(s)
  <2>1. cur[s] \in Conns /\ \A t \in Streams : t # s => KeepsHolding(t)
    BY <1>8 DEF Return, KeepsHolding, TypeOK, StreamTypeOK
  <2>2. QED
    BY <1>8, <2>1, HeldAfterFinally DEF Return
<1>9. CASE Wake(s)
  <2>1. cur[s] \in Conns /\ \A t \in Streams : t # s => KeepsHolding(t)
    BY <1>9 DEF Wake, KeepsHolding, TypeOK, StreamTypeOK
  <2>2. QED
    BY <1>9, <2>1, HeldAfterFinally DEF Wake
<1>10. QED
  BY <1>1, <1>2, <1>3, <1>4, <1>5, <1>6, <1>7, <1>8, <1>9 DEF Subscribe

(* The pump settles what it removes from the map.                          *)
LEMMA HeldPump ==
  ASSUME TypeOK, Held, NEW c \in Conns, Pump(c)
  PROVE  Held'
<1> DEFINE f == reading[c]
<1>1. UNCHANGED <<conn, via>> /\ \A s \in Streams : KeepsHolding(s)
  BY DEF Pump, streamVars, callVars, KeepsHolding
<1>2. CASE RouteAnswer(c)
  <2>1. f.call \in pending[c] /\ pending' = [pending EXCEPT ![c] = @ \ {f.call}]
        /\ promise' = [promise EXCEPT ![f.call] = Answer(f)]
    BY <1>2 DEF RouteAnswer, Answered
  <2>2. Answer(f) # "waiting" /\ f.call \in Calls
    BY <2>1 DEF Answer, TypeOK, PromiseTypeOK
  <2>3. \A k \in Calls : promise'[k] = "waiting" =>
          promise[k] = "waiting" /\ k \in pending'[via[k]]
    BY <2>1, <2>2 DEF Held, NoOrphanWaiter, TypeOK, PromiseTypeOK
  <2>4. QED
    BY <1>1, <2>3 DEF Held, NoOrphanWaiter, NamedIsHeld, Holds, Holding, KeepsHolding
<1>3. CASE RouteEvent(c) \/ RouteUnclaimed(c)
  BY <1>1, <1>3, HeldKept DEF RouteEvent, RouteUnclaimed
<1>4. CASE PumpFails(c)
  <2>1. ReplyError(f) \in Errors
    BY FrameTypes DEF TypeOK, ConnTypeOK
  <2>2. QED
    BY <1>1, <1>4, <2>1, HeldAfterReject DEF PumpFails
<1>5. QED
  BY <1>2, <1>3, <1>4 DEF Pump

(* A call registers with the connection that is named, hence held.         *)
LEMMA HeldAck ==
  ASSUME TypeOK, Held, NEW k \in Calls, Ack(k)
  PROVE  Held'
<1>1. \A s \in Streams : KeepsHolding(s)
  BY DEF Ack, AckBegin, AckReturn, AckPerform, streamVars, KeepsHolding
<1>2. conn' = conn
  BY DEF Ack, AckBegin, AckReturn, AckPerform
<1>3. CASE UNCHANGED <<pending, promise, via>>
  BY <1>1, <1>2, <1>3, HeldKept
<1>4. CASE conn # None /\ Write(k)
  <2>1. conn \in Conns
    BY <1>4 DEF TypeOK, EventTypeOK
  <2>2. \E s \in Streams : Holds(s, conn)
    BY <1>4 DEF Held, NamedIsHeld
  <2>3. promise'[k] = "waiting" => k \in pending'[via'[k]] /\ via'[k] = conn
    BY <1>4, <2>1 DEF Write, TypeOK, PromiseTypeOK, CallTypeOK
  <2>4. \A j \in Calls : j # k /\ promise'[j] = "waiting" =>
          promise[j] = "waiting" /\ via'[j] = via[j] /\ j \in pending'[via[j]]
    BY <1>4, <2>1 DEF Write, TypeOK, PromiseTypeOK, CallTypeOK, Held, NoOrphanWaiter
  <2>5. \A s \in Streams : \A d : Holds(s, d) => cur'[s] = d /\ spc'[s] \in Holding
    BY <1>1 DEF KeepsHolding, Holds, Holding
  <2>6. QED
    BY <1>2, <2>2, <2>3, <2>4, <2>5 DEF Held, NoOrphanWaiter, NamedIsHeld, Holds, Holding
<1>5. QED
  BY <1>3, <1>4 DEF Ack, AckBegin, AckReturn, AckPerform, callVars

(* Sockets and service touch neither the generators nor the waiters.       *)
LEMMA HeldRest ==
  ASSUME Held, NEW c \in Conns, Socket(c) \/ Service(c)
  PROVE  Held'
<1>1. CASE Socket(c)
  BY <1>1, HeldKept DEF Socket, ReceiveResponse, ReceiveDamaged, SocketEvent, streamVars, callVars, KeepsHolding
<1>2. CASE Service(c)
  BY <1>2, HeldKept DEF Service, Accept, Refuse, Deliver, HandleAck, Disconnect, Reset, Backpressure, Drop,
    NoticeClosed, ClientVars, streamVars, callVars, KeepsHolding
<1>3. QED
  BY <1>1, <1>2

(* The invariant of the two theorems below.                                *)
LEMMA HeldInvariant == Spec => [](TypeOK /\ Held)
<1>1. Init => Held
  BY ConstantsAssumption DEF Init, Held, NoOrphanWaiter, NamedIsHeld
<1>2. TypeOK /\ Held /\ [Next]_vars => Held'
  <2> SUFFICES ASSUME TypeOK, Held, [Next]_vars PROVE Held'
    OBVIOUS
  <2>1. CASE Next
    BY <2>1, HeldSubscribe, HeldPump, HeldAck, HeldRest DEF Next
  <2>2. CASE UNCHANGED vars
    BY <2>2 DEF vars, streamVars, callVars, Held, NoOrphanWaiter, NamedIsHeld, Holds
  <2>3. QED
    BY <2>1, <2>2
<1>3. QED
  BY <1>1, <1>2, TypeCorrect, PTL DEF Spec

(* Whatever streams a client has, and whatever befalls its connections, a  *)
(* promise that ack() awaits is registered with the connection it was      *)
(* written on, and the generator of that one has yet to clear its map.     *)
THEOREM NoOrphans == Spec => []NoOrphanWaiter
<1>1. TypeOK /\ Held => NoOrphanWaiter
  BY DEF Held
<1>2. QED
  BY <1>1, HeldInvariant, PTL

(* The client never names a connection whose generator has let it go, even *)
(* when several calls of subscribe() replace each other's.                 *)
THEOREM NamedHeld == Spec => []NamedIsHeld
<1>1. TypeOK /\ Held => NamedIsHeld
  BY DEF Held
<1>2. QED
  BY <1>1, HeldInvariant, PTL

-----------------------------------------------------------------------------
(* NoSocketLeft: whatever way a generator leaves its try block, its finally *)
(* clause destroys the socket.                                             *)

(* A socket that was destroyed is neither up nor down.                     *)
LEMMA DestroyLeavesNone ==
  ASSUME TypeOK, NEW c \in Conns, Destroy(c)
  PROVE  /\ link'[c] \notin {"up", "down"}
         /\ \A d \in Conns : d # c => link'[d] = link[d]
BY DEF TypeOK, SocketTypeOK, Destroy, socketVars

(* An error that leaves the try block keeps the socket or destroys it.     *)
LEMMA RaiseLeavesNone ==
  ASSUME TypeOK, NEW s \in Streams, NEW c \in Conns, NEW e, Raise(s, c, e)
  PROVE  /\ \A d \in Conns : d # c => link'[d] = link[d]
         /\ \A t \in Streams : t # s => spc'[t] = spc[t]
         /\ link'[c] \notin {"up", "down"} \/ (link' = link /\ spc'[s] = "backoff")
<1>1. DOMAIN spc = Streams
  BY DEF TypeOK, StreamTypeOK
<1>2. CASE e = "transport" /\ Reconnect
  BY <1>1, <1>2 DEF Raise, socketVars
<1>3. CASE ~(e = "transport" /\ Reconnect)
  <2>1. Destroy(c) /\ spc' = [spc EXCEPT ![s] = "ended"]
    BY <1>3 DEF Raise, Finally
  <2>2. link'[c] \notin {"up", "down"} /\ \A d \in Conns : d # c => link'[d] = link[d]
    BY <2>1, DestroyLeavesNone
  <2>3. \A t \in Streams : t # s => spc'[t] = spc[t]
    BY <1>1, <2>1
  <2>4. QED
    BY <2>2, <2>3
<1>4. QED
  BY <1>2, <1>3

(* The steps of a stream.                                                  *)
LEMMA SocketsSubscribe ==
  ASSUME TypeOK, NoSocketLeft, NEW s \in Streams, Subscribe(s)
  PROVE  NoSocketLeft'
<1> USE DEF NoSocketLeft, streamVars, socketVars
<1>1. DOMAIN spc = Streams /\ DOMAIN cur = Streams /\ link \in [Conns -> {"new", "up", "down", "destroyed", "closed"}]
  BY DEF TypeOK, StreamTypeOK, SocketTypeOK
<1>2. spc[s] # "ready" => cur[s] \in Conns
  BY DEF TypeOK, StreamTypeOK
<1>3. CASE OpenConnection(s)
  <2>1. PICK c \in Conns :
          /\ spc[s] = "ready"
          /\ link' = [link EXCEPT ![c] = "up"]
          /\ cur' = [cur EXCEPT ![s] = c]
          /\ spc' = [spc EXCEPT ![s] = "opening"]
    BY <1>3 DEF OpenConnection
  <2>2. QED
    BY <1>1, <2>1
<1>4. CASE OpenFails(s)
  <2>1. PICK c \in Conns :
          /\ spc[s] = "ready" /\ link[c] = "new"
          /\ cur' = [cur EXCEPT ![s] = c]
          /\ Raise(s, c, "os")
    BY <1>4 DEF OpenFails, NextConn
  <2>2. QED
    BY <1>1, <2>1, RaiseLeavesNone
<1>5. CASE SubscribeFails(s) \/ EventsFail(s)
  <2>1. spc[s] # "ready" /\ UNCHANGED cur /\ \E e : Raise(s, cur[s], e)
    BY <1>5 DEF SubscribeFails, EventsFail
  <2>2. QED
    BY <1>2, <2>1, RaiseLeavesNone
<1>6. CASE Return(s) \/ Wake(s)
  <2>1. /\ spc[s] # "ready" /\ UNCHANGED cur /\ Destroy(cur[s])
        /\ \A t \in Streams : t # s => spc'[t] = spc[t]
    BY <1>1, <1>6 DEF Return, Wake, Finally
  <2>2. QED
    BY <1>2, <2>1, DestroyLeavesNone
<1>7. CASE Subscribed(s) \/ YieldEvent(s) \/ NextEvent(s)
  <2>1. UNCHANGED <<cur, link>> /\ \E p \in {"next", "yielded"} : spc' = [spc EXCEPT ![s] = p]
    BY <1>7 DEF Subscribed, YieldEvent, NextEvent
  <2>2. QED
    BY <1>1, <2>1
<1>8. QED
  BY <1>3, <1>4, <1>5, <1>6, <1>7 DEF Subscribe

(* Elsewhere a socket that is up only goes down, is destroyed or closes.   *)
LEMMA SocketsElsewhere ==
  ASSUME TypeOK, NoSocketLeft,
         \/ \E k \in Calls : Ack(k)
         \/ \E c \in Conns : Socket(c) \/ Pump(c) \/ Service(c)
  PROVE  NoSocketLeft'
<1> USE DEF streamVars, socketVars
<1>1. link \in [Conns -> {"new", "up", "down", "destroyed", "closed"}]
  BY DEF TypeOK, SocketTypeOK
<1>2. UNCHANGED <<spc, cur>> /\ \A c \in Conns : link'[c] \in {"up", "down"} => link[c] \in {"up", "down"}
  <2>1. CASE \E k \in Calls : Ack(k)
    BY <2>1 DEF Ack, AckBegin, AckReturn, AckPerform
  <2>2. CASE \E c \in Conns : Pump(c)
    BY <2>2 DEF Pump
  <2>3. ASSUME NEW c \in Conns, Socket(c)
        PROVE  UNCHANGED <<spc, cur>> /\ \A d \in Conns : link'[d] \in {"up", "down"} => link[d] \in {"up", "down"}
    <3>1. Destroy(c) => \A d \in Conns : link'[d] \in {"up", "down"} => link[d] \in {"up", "down"}
      BY DestroyLeavesNone
    <3>2. QED
      BY <1>1, <2>3, <3>1 DEF Socket, ReceiveResponse, ReceiveDamaged, SocketEvent
  <2>4. ASSUME NEW c \in Conns, Service(c)
        PROVE  UNCHANGED <<spc, cur>> /\ \A d \in Conns : link'[d] \in {"up", "down"} => link[d] \in {"up", "down"}
    BY <1>1, <2>4 DEF Service, Accept, Refuse, Deliver, HandleAck, Disconnect, Reset, Backpressure, Drop,
      NoticeClosed, ClientVars
  <2>5. QED
    BY <2>1, <2>2, <2>3, <2>4
<1>3. QED
  BY <1>2 DEF NoSocketLeft

(* A stream that has ended or waits to open again has left no socket open, *)
(* however many streams the client has.                                    *)
THEOREM SocketsAreLeftClosed == Spec => []NoSocketLeft
<1>1. Init => NoSocketLeft
  BY DEF Init, NoSocketLeft
<1>2. TypeOK /\ NoSocketLeft /\ [Next]_vars => NoSocketLeft'
  <2> SUFFICES ASSUME TypeOK, NoSocketLeft, [Next]_vars PROVE NoSocketLeft'
    OBVIOUS
  <2>1. CASE Next
    BY <2>1, SocketsSubscribe, SocketsElsewhere DEF Next
  <2>2. CASE UNCHANGED vars
    BY <2>2 DEF vars, streamVars, socketVars, NoSocketLeft
  <2>3. QED
    BY <2>1, <2>2
<1>3. QED
  BY <1>1, <1>2, TypeCorrect, PTL DEF Spec
=============================================================================
