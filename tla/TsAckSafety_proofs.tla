------------------------- MODULE TsAckSafety_proofs -------------------------
(* The TypeScript engine implements AckContract: the inductive invariant   *)
(* AckTrail, and the step of the contract that each action is; and it      *)
(* retries interruptions (RetryTrail).                                     *)
EXTENDS TsSubscription_proofs

-----------------------------------------------------------------------------
(* The elements of a sequence, as a set.                                   *)

(* Taking from the front brings no new element.                            *)
LEMMA RangeTake ==
  ASSUME NEW S, NEW q \in Seq(S), q # <<>>
  PROVE  Head(q) \in Range(q) /\ Range(Tail(q)) \subseteq Range(q)
BY DEF Range

(* Adding an element adds just that one.                                   *)
LEMMA RangeAdd ==
  ASSUME NEW S, NEW q \in Seq(S), NEW e \in S
  PROVE  Range(Append(q, e)) = Range(q) \cup {e}
<1>1. Range(Append(q, e)) \subseteq Range(q) \cup {e}
  BY DEF Range
<1>2. \A i \in 1..Len(q) : Append(q, e)[i] = q[i] /\ i \in 1..Len(Append(q, e))
  OBVIOUS
<1>3. Range(q) \subseteq Range(Append(q, e))
  BY <1>2 DEF Range
<1>4. e \in Range(Append(q, e))
  <2>1. Len(q) + 1 \in 1..Len(Append(q, e)) /\ Append(q, e)[Len(q) + 1] = e
    OBVIOUS
  <2>2. QED
    BY <2>1 DEF Range
<1>5. QED
  BY <1>1, <1>3, <1>4

(* A sequence of one element.                                              *)
LEMMA RangeOne == ASSUME NEW e PROVE Range(<<e>>) = {e}
BY DEF Range

-----------------------------------------------------------------------------
(* AckTrail: what keeps the frames of a connection truthful: the one being *)
(* read, those received, those on their way.                               *)
FramesOf(c) == Range(inbox[c]) \cup Range(responses[c]) \cup {reading[c]}

(* No frame came that claims something untrue.                             *)
LEMMA TrailFrames ==
  ASSUME NEW c \in Conns, ConnTrail(c), recorded \subseteq recorded',
         \A f \in FramesOf(c)' : f \in FramesOf(c) \/ Truthful(f)'
  PROVE  ConnTrail(c)'
<1>1. \A f \in FramesOf(c) : Truthful(f)
  BY DEF ConnTrail, FramesOf
<1>2. \A f \in FramesOf(c) : Truthful(f)'
  BY <1>1 DEF Truthful
<1>3. \A f \in FramesOf(c)' : Truthful(f)'
  BY <1>2
<1>4. QED
  BY <1>3 DEF ConnTrail, FramesOf

(* Neither the promise that waits nor one that is rejected acknowledges.   *)
LEMMA NoAck ==
  /\ \A r : ~(Waiting.kind = "acked") /\ ~(NotReading.kind = "acked") /\ ~(Rejected(r).kind = "acked")
  /\ ~([kind |-> "close"].kind = "acked") /\ ~([kind |-> "reset"].kind = "acked")
BY DEF Waiting, NotReading, Rejected

(* What is read was queued, or is no acknowledgement.                      *)
LEMMA TrailRead ==
  ASSUME TypeOK, NEW c \in Conns, ReadResponse(c), UNCHANGED <<inbox, recorded>>, NEW d \in Conns, ConnTrail(d)
  PROVE  ConnTrail(d)'
<1>1. responses[c] \in Seq(Responses)
  BY DEF TypeOK, ConnTypeOK
<1>2. CASE d = c /\ responses[c] # <<>>
  <2>1. Head(responses[c]) \in Range(responses[c]) /\ Range(Tail(responses[c])) \subseteq Range(responses[c])
    BY <1>1, <1>2, RangeTake
  <2>2. reading'[c] = Head(responses[c]) /\ responses'[c] = Tail(responses[c])
    BY <1>2 DEF ReadResponse, TypeOK, ConnTypeOK
  <2>3. QED
    BY <1>2, <2>1, <2>2, TrailFrames DEF FramesOf
<1>3. CASE d = c /\ responses[c] = <<>>
  <2>1. responses' = responses /\ (reading'[c] = Waiting \/ \E e : reading'[c] = Rejected(e))
    BY <1>3 DEF ReadResponse, TypeOK, ConnTypeOK
  <2>2. Truthful(reading[c])'
    BY <2>1, NoAck DEF Truthful
  <2>3. QED
    BY <1>3, <2>1, <2>2, TrailFrames DEF FramesOf
<1>4. CASE d # c
  <2>1. reading'[d] = reading[d] /\ responses'[d] = responses[d]
    BY <1>4 DEF ReadResponse, TypeOK, ConnTypeOK
  <2>2. QED
    BY <2>1, TrailFrames DEF FramesOf
<1>5. QED
  BY <1>2, <1>3, <1>4

(* A frame dropped from the front.                                         *)
LEMMA RangeUnhandled ==
  ASSUME TypeOK, NEW c \in Conns, inbox[c] # <<>>, Unhandled(c)
  PROVE  /\ Range(inbox'[c]) \subseteq Range(inbox[c])
         /\ \A d \in Conns : d # c => inbox'[d] = inbox[d]
<1>1. inbox[c] \in Seq(Frames) /\ inbox'[c] = Tail(inbox[c])
  BY DEF Unhandled, TypeOK, SocketTypeOK
<1>2. QED
  BY <1>1, RangeTake DEF Unhandled, TypeOK, SocketTypeOK

(* A destroyed socket keeps what it had or has only its "close" event.     *)
LEMMA TrailDestroy ==
  ASSUME TypeOK, NEW c \in Conns, Destroy(c), UNCHANGED <<responses, reading, recorded>>, NEW d \in Conns, ConnTrail(d)
  PROVE  ConnTrail(d)'
<1>1. inbox'[d] = inbox[d] \/ inbox'[d] = <<[kind |-> "close"]>>
  BY DEF Destroy, socketVars, TypeOK, SocketTypeOK
<1>2. CASE inbox'[d] = inbox[d]
  BY <1>2, TrailFrames DEF FramesOf
<1>3. CASE inbox'[d] = <<[kind |-> "close"]>>
  <2>1. \A f \in Range(inbox'[d]) : Truthful(f)'
    BY <1>3, RangeOne, NoAck DEF Truthful
  <2>2. QED
    BY <2>1, TrailFrames DEF FramesOf
<1>4. QED
  BY <1>1, <1>2, <1>3

(* A failure rejects the promise of the reader, if there is one.           *)
LEMMA FailReading ==
  ASSUME TypeOK, NEW c \in Conns, NEW e, Fail(c, e)
  PROVE  \A d \in Conns : reading'[d] = reading[d] \/ Truthful(reading[d])'
<1>1. \A d \in Conns : reading'[d] = reading[d] \/ reading'[d] = Rejected(e)
  BY DEF Fail, TypeOK, ConnTypeOK
<1>2. QED
  BY <1>1, NoAck DEF Truthful

(* The events of a socket.                                                 *)
LEMMA TrailSocket ==
  ASSUME TypeOK, NEW c \in Conns, Socket(c), NEW d \in Conns, ConnTrail(d)
  PROVE  ConnTrail(d)'
<1>1. recorded' = recorded
  BY DEF Socket, ReceiveResponse, ReceiveDamaged, SocketEvent, serviceVars
<1>2. CASE ReceiveResponse(c)
  <2>1. inbox[c] # <<>> /\ Unhandled(c) /\ Resolve(c, Head(inbox[c]))
    BY <1>2 DEF ReceiveResponse
  <2>2. Head(inbox[c]) \in Range(inbox[c]) /\ Head(inbox[c]) \in Responses
    BY <1>2, <2>1, RangeTake, TakeFirst, FrameTypes DEF ReceiveResponse, TypeOK, SocketTypeOK
  <2>3. CASE d = c
    <3>1. \A f \in FramesOf(c)' : f \in FramesOf(c)
      <4>1. Range(inbox'[c]) \subseteq Range(inbox[c])
        BY <2>1, RangeUnhandled
      <4>2. CASE reading[c] = Waiting
        BY <2>1, <2>2, <4>1, <4>2 DEF Resolve, FramesOf, TypeOK, ConnTypeOK
      <4>3. CASE reading[c] # Waiting
        <5>1. responses'[c] = Append(responses[c], Head(inbox[c])) /\ reading' = reading
          BY <2>1, <4>3 DEF Resolve, TypeOK, ConnTypeOK
        <5>2. Range(responses'[c]) = Range(responses[c]) \cup {Head(inbox[c])}
          BY <2>2, <5>1, RangeAdd DEF TypeOK, ConnTypeOK
        <5>3. QED
          BY <2>2, <4>1, <5>1, <5>2 DEF FramesOf
      <4>4. QED
        BY <4>2, <4>3
    <3>2. QED
      BY <1>1, <2>3, <3>1, TrailFrames
  <2>4. CASE d # c
    <3>1. inbox'[d] = inbox[d] /\ responses'[d] = responses[d] /\ reading'[d] = reading[d]
      BY <2>1, <2>4 DEF Unhandled, Resolve, TypeOK, ConnTypeOK, SocketTypeOK
    <3>2. QED
      BY <1>1, <3>1, TrailFrames DEF FramesOf
  <2>5. QED
    BY <2>3, <2>4
<1>3. CASE ReceiveDamaged(c)
  <2>1. Fail(c, FrameError(Head(inbox[c]))) /\ responses' = responses /\ inbox[c] # <<>>
    BY <1>3 DEF ReceiveDamaged
  <2>2. \A f \in Range(inbox'[d]) : f \in Range(inbox[d]) \/ Truthful(f)'
    <3>1. CASE Unhandled(c)
      BY <2>1, <3>1, RangeUnhandled
    <3>2. CASE Destroy(c)
      <4>1. inbox'[d] = inbox[d] \/ inbox'[d] = <<[kind |-> "close"]>>
        BY <3>2 DEF Destroy, socketVars, TypeOK, SocketTypeOK
      <4>2. QED
        BY <4>1, RangeOne, NoAck DEF Truthful
    <3>3. QED
      BY <1>3, <3>1, <3>2 DEF ReceiveDamaged
  <2>3. reading'[d] = reading[d] \/ Truthful(reading[d])'
    BY <2>1, FailReading
  <2>4. QED
    BY <1>1, <2>1, <2>2, <2>3, TrailFrames DEF FramesOf
<1>4. CASE SocketEvent(c)
  <2>1. PICK e : Fail(c, e) /\ responses' = responses /\ inbox[c] # <<>> /\ Unhandled(c)
    BY <1>4 DEF SocketEvent
  <2>2. Range(inbox'[d]) \subseteq Range(inbox[d])
    BY <2>1, RangeUnhandled
  <2>3. reading'[d] = reading[d] \/ Truthful(reading[d])'
    BY <2>1, FailReading
  <2>4. QED
    BY <1>1, <2>1, <2>2, <2>3, TrailFrames DEF FramesOf
<1>5. QED
  BY <1>2, <1>3, <1>4 DEF Socket

(* A frame that the service writes, if it claims nothing untrue.           *)
LEMMA TrailSend ==
  ASSUME TypeOK, NEW c \in Conns, NEW r \in Responses, Send(c, r), UNCHANGED <<responses, reading>>,
         recorded \subseteq recorded', r.kind = "acked" => r.call \in recorded', NEW d \in Conns, ConnTrail(d)
  PROVE  ConnTrail(d)'
<1>1. PICK f \in {r} \cup [kind : Damages \cap Faults] : inbox' = [inbox EXCEPT ![c] = Append(@, f)]
  BY DEF Send
<1>2. f \in Frames /\ (f.kind = "acked" => f.call \in recorded')
  BY FrameTypes, SentTypes DEF Damages
<1>3. CASE d = c
  <2>1. Range(inbox'[c]) = Range(inbox[c]) \cup {f}
    BY <1>1, <1>2, RangeAdd DEF TypeOK, SocketTypeOK
  <2>2. QED
    BY <1>2, <1>3, <2>1, TrailFrames DEF FramesOf, Truthful
<1>4. CASE d # c
  <2>1. inbox'[d] = inbox[d]
    BY <1>1, <1>4 DEF TypeOK, SocketTypeOK
  <2>2. QED
    BY <2>1, TrailFrames DEF FramesOf
<1>5. QED
  BY <1>3, <1>4

(* The steps of the service: an acknowledgement follows its recording.     *)
LEMMA TrailService ==
  ASSUME TypeOK, NEW c \in Conns, Service(c), NEW d \in Conns, ConnTrail(d)
  PROVE  ConnTrail(d)'
<1>1. UNCHANGED <<responses, reading>>
  BY DEF Service, Accept, Refuse, Deliver, HandleAck, Disconnect, Reset, Backpressure, Drop, NoticeClosed,
    ClientVars, connVars
<1>2. ASSUME NEW fs \in Seq(Frames), Drop(c, fs), \A f \in Range(fs) : f \in Range(inbox[c]) \/ f.kind # "acked"
      PROVE  ConnTrail(d)'
  <2>1. inbox' = [inbox EXCEPT ![c] = Append(fs, [kind |-> "close"])] /\ recorded' = recorded
    BY <1>2 DEF Drop
  <2>2. \A f \in Range(inbox'[d]) : f \in Range(inbox[d]) \/ Truthful(f)'
    <3>1. CASE d = c
      <4>1. Range(inbox'[c]) = Range(fs) \cup {[kind |-> "close"]}
        BY <2>1, FrameTypes, RangeAdd DEF TypeOK, SocketTypeOK
      <4>2. QED
        BY <1>2, <3>1, <4>1, NoAck DEF Truthful
    <3>2. CASE d # c
      BY <2>1, <3>2 DEF TypeOK, SocketTypeOK
    <3>3. QED
      BY <3>1, <3>2
  <2>3. QED
    BY <1>1, <2>1, <2>2, TrailFrames DEF FramesOf
<1>3. CASE Accept(c)
  BY <1>1, <1>3, TrailSend, SentTypes DEF Accept
<1>4. CASE Refuse(c)
  BY <1>1, <1>4, TrailSend, SentTypes DEF Refuse
<1>5. ASSUME NEW r \in Rows, Deliver(c, r)
      PROVE  ConnTrail(d)'
  BY <1>1, <1>5, TrailSend, SentTypes DEF Deliver
<1>6. ASSUME NEW k \in Calls, HandleAck(c, k)
      PROVE  ConnTrail(d)'
  <2>1. recorded \subseteq recorded' /\ (Outstanding(c, k) => k \in recorded')
    BY <1>6 DEF HandleAck
  <2>2. CASE link[c] = "up"
    <3>1. PICK b \in {"acked", "error"} :
            Send(c, [kind |-> b, call |-> k]) /\ (b = "acked" => Outstanding(c, k))
      BY <1>6, <2>2 DEF HandleAck
    <3>2. QED
      BY <1>1, <2>1, <3>1, TrailSend, SentTypes
  <2>3. CASE link[c] # "up"
    BY <1>1, <1>6, <2>1, <2>3, TrailFrames DEF HandleAck, FramesOf
  <2>4. QED
    BY <2>2, <2>3
<1>7. CASE Disconnect(c)
  BY <1>2, <1>7 DEF Disconnect, TypeOK, SocketTypeOK
<1>8. CASE Reset(c)
  <2>1. <<[kind |-> "reset"]>> \in Seq(Frames)
    BY FrameTypes
  <2>2. \A f \in Range(<<[kind |-> "reset"]>>) : f.kind # "acked"
    BY RangeOne, NoAck
  <2>3. QED
    BY <1>2, <1>8, <2>1, <2>2 DEF Reset
<1>9. CASE Backpressure(c)
  <2>1. [kind |-> "error", call |-> None] \in Frames /\ [kind |-> "error", call |-> None].kind # "acked"
    BY SentTypes, FrameTypes
  <2>2. Append(inbox[c], [kind |-> "error", call |-> None]) \in Seq(Frames)
    BY <2>1, AddLast DEF TypeOK, SocketTypeOK
  <2>3. Range(Append(inbox[c], [kind |-> "error", call |-> None])) = Range(inbox[c]) \cup {[kind |-> "error", call |-> None]}
    BY <2>1, RangeAdd DEF TypeOK, SocketTypeOK
  <2>4. QED
    BY <1>2, <1>9, <2>1, <2>2, <2>3 DEF Backpressure
<1>10. CASE NoticeClosed(c)
  BY <1>1, <1>10, TrailFrames DEF NoticeClosed, FramesOf, socketVars
<1>11. QED
  BY <1>3, <1>4, <1>5, <1>6, <1>7, <1>8, <1>9, <1>10 DEF Service

(* The steps of a stream: what it reads was queued.                        *)
LEMMA TrailSubscribe ==
  ASSUME TypeOK, NEW s \in Streams, Subscribe(s), NEW d \in Conns, ConnTrail(d)
  PROVE  ConnTrail(d)'
<1> USE DEF connVars, socketVars, serviceVars
<1>1. recorded' = recorded
  BY DEF Subscribe, OpenConnection, OpenFails, Subscribed, SubscribeFails, YieldEvent, EventsFail, NextEvent,
    Return, Wake
<1>2. ASSUME responses' = responses, reading'[d] = reading[d] \/ reading'[d] \in {Waiting, NotReading},
             inbox'[d] = inbox[d] \/ inbox'[d] = <<[kind |-> "close"]>>
      PROVE  ConnTrail(d)'
  <2>1. \A f \in Range(inbox'[d]) : f \in Range(inbox[d]) \/ Truthful(f)'
    BY <1>2, RangeOne, NoAck DEF Truthful
  <2>2. reading'[d] = reading[d] \/ Truthful(reading[d])'
    BY <1>2, NoAck DEF Truthful
  <2>3. QED
    BY <1>1, <1>2, <2>1, <2>2, TrailFrames DEF FramesOf
<1>3. \A c \in Conns : Destroy(c) => inbox'[d] = inbox[d] \/ inbox'[d] = <<[kind |-> "close"]>>
  BY DEF Destroy, TypeOK, SocketTypeOK
<1>4. \A c \in Conns : \A e : Raise(s, c, e) => inbox'[d] = inbox[d] \/ inbox'[d] = <<[kind |-> "close"]>>
  BY <1>3 DEF Raise, Finally
<1>5. spc[s] # "ready" => cur[s] \in Conns
  BY DEF TypeOK, StreamTypeOK
<1>6. CASE OpenConnection(s)
  BY <1>2, <1>6 DEF OpenConnection, TypeOK, ConnTypeOK
<1>7. CASE OpenFails(s)
  BY <1>2, <1>4, <1>7 DEF OpenFails
<1>8. CASE Subscribed(s)
  BY <1>5, <1>8, TrailRead DEF Subscribed
<1>9. CASE SubscribeFails(s)
  <2>1. inbox'[d] = inbox[d] \/ inbox'[d] = <<[kind |-> "close"]>>
    BY <1>4, <1>5, <1>9 DEF SubscribeFails
  <2>2. reading'[d] = reading[d] \/ reading'[d] = NotReading
    BY <1>5, <1>9 DEF SubscribeFails, TypeOK, ConnTypeOK
  <2>3. QED
    BY <1>2, <1>9, <2>1, <2>2 DEF SubscribeFails
<1>10. CASE YieldEvent(s) \/ NextEvent(s)
  BY <1>2, <1>10 DEF YieldEvent, NextEvent
<1>11. CASE EventsFail(s)
  BY <1>2, <1>4, <1>5, <1>11 DEF EventsFail
<1>12. CASE Return(s) \/ Wake(s)
  BY <1>2, <1>3, <1>5, <1>12 DEF Return, Wake, Finally
<1>13. QED
  BY <1>6, <1>7, <1>8, <1>9, <1>10, <1>11, <1>12 DEF Subscribe

(* The pump only reads on.                                                 *)
LEMMA TrailPump ==
  ASSUME TypeOK, NEW c \in Conns, Pump(c), NEW d \in Conns, ConnTrail(d)
  PROVE  ConnTrail(d)'
<1>1. UNCHANGED <<inbox, recorded>>
  BY DEF Pump, socketVars, serviceVars
<1>2. CASE ReadResponse(c)
  BY <1>1, <1>2, TrailRead
<1>3. CASE PumpFails(c)
  <2>1. responses' = responses /\ (reading'[d] = reading[d] \/ reading'[d] = NotReading)
    BY <1>3 DEF PumpFails, TypeOK, ConnTypeOK
  <2>2. reading'[d] = reading[d] \/ Truthful(reading[d])'
    BY <2>1, NoAck DEF Truthful
  <2>3. QED
    BY <1>1, <2>1, <2>2, TrailFrames DEF FramesOf
<1>4. QED
  BY <1>2, <1>3 DEF Pump, RouteAnswer, RouteEvent, RouteUnclaimed

-----------------------------------------------------------------------------
(* AckTrail: the calls.                                                    *)

(* Whoever records nothing and registers nobody: promises are settled, if  *)
(* at all, for calls in a map, and as acked only for recorded ones.        *)
LEMMA CallKept ==
  ASSUME NEW k \in Calls, CallTrail(k),
         cpc'[k] = cpc[k], result'[k] = result[k], recorded' = recorded,
         \A c \in Conns : wire'[c] \subseteq wire[c] /\ pending'[c] \subseteq pending[c],
         \/ promise'[k] = promise[k]
         \/ (\E c \in Conns : k \in pending[c]) /\ (promise'[k] = "acked" => k \in recorded)
  PROVE  CallTrail(k)'
BY DEF CallTrail

(* A map whose promises are rejected.                                      *)
LEMMA CallRejected ==
  ASSUME TypeOK, NEW c \in Conns, NEW e \in Errors, RejectPending(c, e), NEW k \in Calls, CallTrail(k),
         UNCHANGED <<cpc, result, recorded, wire>>
  PROVE  CallTrail(k)'
<1>1. \A d \in Conns : pending'[d] \subseteq pending[d]
  BY DEF RejectPending, TypeOK, PromiseTypeOK
<1>2. promise'[k] = IF k \in pending[c] THEN e ELSE promise[k]
  BY DEF RejectPending
<1>3. e # "acked"
  BY DEF Errors
<1>4. QED
  BY <1>1, <1>2, <1>3, CallKept

(* An error in the try block settles nothing, or rejects the map.          *)
LEMMA CallRaise ==
  ASSUME TypeOK, NEW s \in Streams, NEW c \in Conns, NEW e, Raise(s, c, e), NEW k \in Calls, CallTrail(k),
         UNCHANGED <<cpc, result, recorded, wire>>
  PROVE  CallTrail(k)'
<1>1. CASE e = "transport" /\ Reconnect
  <2>1. UNCHANGED <<pending, promise>>
    BY <1>1 DEF Raise
  <2>2. QED
    BY <2>1, CallKept
<1>2. CASE ~(e = "transport" /\ Reconnect)
  <2>1. RejectPending(c, "transport")
    BY <1>2 DEF Raise, Finally
  <2>2. QED
    BY <2>1, CallRejected DEF Errors
<1>3. QED
  BY <1>1, <1>2

(* Streams, sockets and the pump.                                          *)
LEMMA CallsElsewhere ==
  ASSUME TypeOK, AckTrail, NEW k \in Calls,
         \/ \E s \in Streams : Subscribe(s)
         \/ \E c \in Conns : Socket(c) \/ Pump(c)
  PROVE  CallTrail(k)'
<1> USE DEF callVars, serviceVars
<1>1. CallTrail(k)
  BY DEF AckTrail
<1>2. ASSUME NEW s \in Streams, Subscribe(s)
      PROVE  CallTrail(k)'
  <2>1. UNCHANGED <<cpc, result, recorded, wire>>
    BY <1>2 DEF Subscribe, OpenConnection, OpenFails, Subscribed, SubscribeFails, YieldEvent, EventsFail,
      NextEvent, Return, Wake
  <2>2. CASE UNCHANGED <<pending, promise>>
    BY <1>1, <2>1, <2>2, CallKept
  <2>3. ASSUME NEW c \in Conns, NEW e, Raise(s, c, e)
        PROVE  CallTrail(k)'
    BY <1>1, <2>1, <2>3, CallRaise
  <2>4. CASE Return(s) \/ Wake(s)
    <3>1. cur[s] \in Conns /\ RejectPending(cur[s], "transport")
      BY <2>4 DEF Return, Wake, Finally, TypeOK, StreamTypeOK
    <3>2. QED
      BY <1>1, <2>1, <3>1, CallRejected DEF Errors
  <2>5. CASE OpenFails(s)
    BY <2>3, <2>5 DEF OpenFails
  <2>6. CASE SubscribeFails(s) \/ EventsFail(s)
    <3>1. PICK e : cur[s] \in Conns /\ Raise(s, cur[s], e)
      BY <2>6 DEF SubscribeFails, EventsFail, TypeOK, StreamTypeOK
    <3>2. QED
      BY <2>3, <3>1
  <2>7. QED
    BY <1>2, <2>2, <2>4, <2>5, <2>6 DEF Subscribe, OpenConnection, Subscribed, YieldEvent, NextEvent
<1>3. ASSUME NEW c \in Conns, Socket(c)
      PROVE  CallTrail(k)'
  <2>1. UNCHANGED <<cpc, result, recorded, wire, pending, promise>>
    BY <1>3 DEF Socket, ReceiveResponse, ReceiveDamaged, SocketEvent
  <2>2. QED
    BY <1>1, <2>1, CallKept
<1>4. ASSUME NEW c \in Conns, Pump(c)
      PROVE  CallTrail(k)'
  <2>1. UNCHANGED <<cpc, result, recorded, wire>>
    BY <1>4 DEF Pump
  <2>2. CASE RouteAnswer(c)
    <3>1. /\ reading[c].call \in pending[c]
          /\ pending' = [pending EXCEPT ![c] = @ \ {reading[c].call}]
          /\ promise' = [promise EXCEPT ![reading[c].call] = Answer(reading[c])]
      BY <2>2 DEF RouteAnswer, Answered
    <3>2. Answer(reading[c]) = "acked" => reading[c].call \in recorded
      BY DEF Answer, AckTrail, ConnTrail, Truthful
    <3>3. \A d \in Conns : pending'[d] \subseteq pending[d]
      BY <3>1 DEF TypeOK, PromiseTypeOK
    <3>4. \/ promise'[k] = promise[k]
          \/ k \in pending[c] /\ (promise'[k] = "acked" => k \in recorded)
      BY <3>1, <3>2 DEF TypeOK, PromiseTypeOK
    <3>5. QED
      BY <1>1, <2>1, <3>3, <3>4, CallKept
  <2>3. CASE RouteEvent(c) \/ RouteUnclaimed(c)
    BY <1>1, <2>1, <2>3, CallKept DEF RouteEvent, RouteUnclaimed
  <2>4. CASE PumpFails(c)
    <3>1. ReplyError(reading[c]) \in Errors
      BY FrameTypes DEF TypeOK, ConnTypeOK
    <3>2. QED
      BY <1>1, <2>1, <2>4, <3>1, CallRejected DEF PumpFails
  <2>5. QED
    BY <1>4, <2>2, <2>3, <2>4 DEF Pump
<1>5. QED
  BY <1>2, <1>3, <1>4

(* The steps of a call.                                                    *)
LEMMA CallsAck ==
  ASSUME TypeOK, AckTrail, NEW j \in Calls, Ack(j), NEW k \in Calls
  PROVE  CallTrail(k)'
<1> USE DEF callVars, serviceVars
<1>1. CallTrail(k) /\ CallTrail(j)
  BY DEF AckTrail
<1>2. CASE AckBegin(j)
  <2>1. cpc[j] = "idle" /\ UNCHANGED <<conn, result, recorded>>
    BY <1>2 DEF AckBegin
  <2>2. CASE conn # None /\ Write(j)
    <3>1. conn \in Conns
      BY <2>2 DEF TypeOK, EventTypeOK
    <3>2. /\ cpc'[j] = "await" /\ promise'[j] = "waiting"
          /\ \A i \in Calls : i # j => cpc'[i] = cpc[i] /\ promise'[i] = promise[i]
      BY <2>2 DEF Write, TypeOK, CallTypeOK, PromiseTypeOK
    <3>3. \A c \in Conns : wire'[c] \subseteq wire[c] \cup {j} /\ pending'[c] \subseteq pending[c] \cup {j}
      BY <2>2, <3>1 DEF Write, TypeOK, PromiseTypeOK, ServiceTypeOK
    <3>4. QED
      BY <1>1, <2>1, <3>2, <3>3 DEF CallTrail
  <2>3. CASE cpc' = [cpc EXCEPT ![j] = "perform"] /\ UNCHANGED <<pending, promise, wire, via>>
    BY <1>1, <2>1, <2>3 DEF CallTrail, TypeOK, CallTypeOK
  <2>4. QED
    BY <1>2, <2>2, <2>3 DEF AckBegin
<1>3. CASE AckReturn(j)
  BY <1>1, <1>3 DEF AckReturn, CallTrail, TypeOK, CallTypeOK
<1>4. CASE AckPerform(j)
  BY <1>1, <1>4 DEF AckPerform, CallTrail, TypeOK, CallTypeOK, Errors
<1>5. QED
  BY <1>2, <1>3, <1>4 DEF Ack

(* The service records only what it read on a wire.                        *)
LEMMA CallsService ==
  ASSUME TypeOK, AckTrail, NEW c \in Conns, Service(c), NEW k \in Calls
  PROVE  CallTrail(k)'
<1> USE DEF callVars, ClientVars
<1>1. CallTrail(k)
  BY DEF AckTrail
<1>2. ASSUME NEW j \in Calls, HandleAck(c, j)
      PROVE  CallTrail(k)'
  <2>1. UNCHANGED <<cpc, result, promise, pending>>
    BY <1>2 DEF HandleAck
  <2>2. \A d \in Conns : wire'[d] \subseteq wire[d]
    BY <1>2 DEF HandleAck, TypeOK, ServiceTypeOK
  <2>3. j \in wire[c] /\ recorded \subseteq recorded' /\ recorded' \subseteq recorded \cup {j}
    BY <1>2 DEF HandleAck
  <2>4. QED
    BY <1>1, <2>1, <2>2, <2>3 DEF CallTrail
<1>3. CASE Accept(c) \/ Refuse(c) \/ (\E r \in Rows : Deliver(c, r)) \/ Disconnect(c) \/ Reset(c)
           \/ Backpressure(c) \/ NoticeClosed(c)
  <2>1. UNCHANGED <<cpc, result, promise, pending, recorded>>
    BY <1>3 DEF Accept, Refuse, Deliver, Disconnect, Reset, Backpressure, Drop, NoticeClosed
  <2>2. \A d \in Conns : wire'[d] \subseteq wire[d]
    BY <1>3 DEF Accept, Refuse, Deliver, Disconnect, Reset, Backpressure, Drop, NoticeClosed, TypeOK, ServiceTypeOK
  <2>3. QED
    BY <1>1, <2>1, <2>2, CallKept
<1>4. QED
  BY <1>2, <1>3 DEF Service

-----------------------------------------------------------------------------
(* AckTrail is inductive with the types.                                   *)

LEMMA TrailInit == Init => AckTrail
<1>1. SUFFICES ASSUME Init
      PROVE  AckTrail
  OBVIOUS
<1>2. \A k \in Calls : CallTrail(k)
  BY <1>1 DEF Init, CallTrail
<1>3. ASSUME NEW c \in Conns
      PROVE  ConnTrail(c)
  <2>1. inbox[c] = <<>> /\ responses[c] = <<>> /\ reading[c] = NotReading
    BY <1>1 DEF Init
  <2>2. Range(inbox[c]) = {} /\ Range(responses[c]) = {}
    BY <2>1 DEF Range
  <2>3. QED
    BY <2>1, <2>2, NoAck DEF ConnTrail, Truthful
<1>4. QED
  BY <1>2, <1>3 DEF AckTrail

LEMMA TrailStep == TypeOK /\ AckTrail /\ [Next]_vars => AckTrail'
<1>1. SUFFICES ASSUME TypeOK, AckTrail, [Next]_vars
      PROVE  AckTrail'
  OBVIOUS
<1>2. ASSUME NEW d \in Conns
      PROVE  ConnTrail(d)'
  <2>1. ConnTrail(d)
    BY <1>1 DEF AckTrail
  <2>2. ASSUME UNCHANGED <<inbox, responses, reading, recorded>>
        PROVE  ConnTrail(d)'
    BY <2>1, <2>2, TrailFrames DEF FramesOf
  <2>3. ASSUME NEW k \in Calls, Ack(k)
        PROVE  ConnTrail(d)'
    BY <2>2, <2>3 DEF Ack, AckBegin, AckReturn, AckPerform, connVars, socketVars, serviceVars
  <2>4. CASE UNCHANGED vars
    BY <2>2, <2>4 DEF vars, connVars, socketVars, serviceVars
  <2>5. QED
    BY <1>1, <2>1, <2>3, <2>4, TrailSubscribe, TrailSocket, TrailPump, TrailService DEF Next
<1>3. ASSUME NEW k \in Calls
      PROVE  CallTrail(k)'
  <2>1. CASE UNCHANGED vars
    BY <1>1, <2>1, CallKept DEF vars, callVars, serviceVars, AckTrail
  <2>2. QED
    BY <1>1, <2>1, CallsElsewhere, CallsAck, CallsService DEF Next
<1>4. QED
  BY <1>2, <1>3 DEF AckTrail

(* No acknowledgement exists anywhere that the service did not record.     *)
THEOREM TrailHolds == Spec => []AckTrail
<1>1. Spec => []TypeOK
  BY TypeCorrect
<1>2. QED
  BY <1>1, TrailInit, TrailStep, PTL DEF Spec

-----------------------------------------------------------------------------
(* The steps of the contract.                                              *)

(* Nothing the contract speaks of has changed.                             *)
LEMMA Quiet == UNCHANGED <<yielded, row, cpc, result, recorded>> => UNCHANGED Contract!vars
BY DEF Contract!vars, Seen, Status

LEMMA ContractInit == Init => Contract!Init
<1>1. SUFFICES ASSUME Init
      PROVE  Contract!Init
  OBVIOUS
<1>2. Seen = {}
  BY <1>1 DEF Init, Seen, Range
<1>3. QED
  BY <1>1, <1>2 DEF Init, Contract!Init, Status

(* A row that is yielded is handed out.                                    *)
LEMMA YieldHands ==
  ASSUME TypeOK, NEW s \in Streams, YieldEvent(s)
  PROVE  \E r \in Rows : Contract!Hand(r)
<1> DEFINE c == cur[s]
           r == Head(queue[c])
<1>1. c \in Conns
  BY DEF YieldEvent, TypeOK, StreamTypeOK
<1>2. queue[c] \in Seq(Rows) /\ queue[c] # <<>> /\ r \in Rows
  BY <1>1 DEF YieldEvent, TypeOK, EventTypeOK
<1>3. yielded' = [yielded EXCEPT ![c] = Append(@, r)] /\ UNCHANGED <<row, cpc, result, recorded>>
  BY DEF YieldEvent, callVars, serviceVars
<1>4. \A d \in Conns : Range(yielded'[d]) = Range(yielded[d]) \cup (IF d = c THEN {r} ELSE {})
  BY <1>1, <1>2, <1>3, RangeAdd DEF TypeOK, ServiceTypeOK
<1>5. Seen' = Seen \cup {r}
  BY <1>1, <1>4 DEF Seen
<1>6. [k \in Calls |-> Status(k)]' = [k \in Calls |-> Status(k)]
  BY <1>3 DEF Status
<1>7. QED
  BY <1>2, <1>3, <1>5, <1>6 DEF Contract!Hand

(* The steps of a call are those of the contract.                          *)
LEMMA AckSteps ==
  ASSUME TypeOK, AckTrail, NEW k \in Calls, Ack(k)
  PROVE  Contract!Request(k) \/ Contract!Succeed(k) \/ Contract!Fail(k)
<1>1. UNCHANGED <<yielded, recorded>> /\ Seen' = Seen
  BY DEF Ack, AckBegin, AckReturn, AckPerform, serviceVars, history, Seen
<1>2. CASE AckBegin(k)
  <2>1. PICK r \in Seen : cpc[k] = "idle" /\ row' = [row EXCEPT ![k] = r] /\ UNCHANGED result
    BY <1>2 DEF AckBegin
  <2>2. cpc' = [cpc EXCEPT ![k] = "await"] \/ cpc' = [cpc EXCEPT ![k] = "perform"]
    BY <1>2 DEF AckBegin, Write
  <2>3. /\ Status(k) = "idle"
        /\ [j \in Calls |-> Status(j)]' = [[j \in Calls |-> Status(j)] EXCEPT ![k] = "running"]
    BY <2>1, <2>2 DEF Status, TypeOK, CallTypeOK
  <2>4. QED
    BY <1>1, <2>1, <2>3 DEF Contract!Request
<1>3. ASSUME cpc[k] \in {"await", "perform"}, UNCHANGED row, cpc' = [cpc EXCEPT ![k] = "done"],
             NEW v, result' = [result EXCEPT ![k] = v], v = "acked" => k \in recorded
      PROVE  Contract!Succeed(k) \/ Contract!Fail(k)
  <2>1. Status(k) = "running"
    BY <1>3 DEF Status
  <2>2. [j \in Calls |-> Status(j)]'
          = [[j \in Calls |-> Status(j)] EXCEPT ![k] = IF v = "acked" THEN "acked" ELSE "failed"]
    BY <1>3 DEF Status, TypeOK, CallTypeOK
  <2>3. QED
    BY <1>1, <1>3, <2>1, <2>2 DEF Contract!Succeed, Contract!Fail
<1>4. CASE AckReturn(k)
  BY <1>3, <1>4 DEF AckReturn, AckTrail, CallTrail
<1>5. CASE AckPerform(k)
  BY <1>3, <1>5 DEF AckPerform, Errors
<1>6. QED
  BY <1>2, <1>4, <1>5 DEF Ack

(* The service records a call that has met it, and no row twice.           *)
LEMMA ServiceSteps ==
  ASSUME TypeOK, AckTrail, NEW c \in Conns, Service(c)
  PROVE  (\E k \in Calls : Contract!Record(k)) \/ UNCHANGED Contract!vars
<1>1. UNCHANGED <<yielded, row, cpc, result>> /\ Seen' = Seen
      /\ [k \in Calls |-> Status(k)]' = [k \in Calls |-> Status(k)]
  BY DEF Service, Accept, Refuse, Deliver, HandleAck, Disconnect, Reset, Backpressure, Drop, NoticeClosed,
    ClientVars, callVars, history, Seen, Status
<1>2. CASE recorded' = recorded
  BY <1>1, <1>2, Quiet
<1>3. ASSUME NEW k \in Calls, HandleAck(c, k), Outstanding(c, k)
      PROVE  Contract!Record(k)
  <2>1. k \in wire[c] /\ recorded' = recorded \cup {k}
    BY <1>3 DEF HandleAck
  <2>2. \A j \in recorded : row[j] # row[k]
    BY <1>3 DEF Outstanding, RecordedRows
  <2>3. Status(k) \in {"running", "failed"} /\ k \notin recorded
    BY <2>1, <2>2 DEF AckTrail, CallTrail, Status, TypeOK, CallTypeOK
  <2>4. QED
    BY <1>1, <2>1, <2>2, <2>3 DEF Contract!Record
<1>4. QED
  BY <1>2, <1>3 DEF Service, Accept, Refuse, Deliver, HandleAck, Disconnect, Reset, Backpressure, Drop, NoticeClosed

LEMMA ContractStep == TypeOK /\ AckTrail /\ [Next]_vars => [Contract!Next]_(Contract!vars)
<1>1. SUFFICES ASSUME TypeOK, AckTrail, [Next]_vars
      PROVE  [Contract!Next]_(Contract!vars)
  OBVIOUS
<1>2. ASSUME NEW s \in Streams, Subscribe(s)
      PROVE  [Contract!Next]_(Contract!vars)
  <2>1. CASE YieldEvent(s)
    BY <1>1, <2>1, YieldHands DEF Contract!Next
  <2>2. CASE ~YieldEvent(s)
    BY <1>2, <2>2, Quiet DEF Subscribe, OpenConnection, OpenFails, Subscribed, SubscribeFails, EventsFail,
      NextEvent, Return, Wake, callVars, serviceVars, history
  <2>3. QED
    BY <2>1, <2>2
<1>3. ASSUME NEW c \in Conns, Socket(c) \/ Pump(c)
      PROVE  UNCHANGED Contract!vars
  BY <1>3, Quiet DEF Socket, ReceiveResponse, ReceiveDamaged, SocketEvent, Pump, callVars, serviceVars, history
<1>4. CASE UNCHANGED vars
  BY <1>4, Quiet DEF vars, callVars, serviceVars, history
<1>5. QED
  BY <1>1, <1>2, <1>3, <1>4, AckSteps, ServiceSteps DEF Next, Contract!Next

(* Whatever its connections go through, the engine keeps the contract of   *)
(* ack(): a call succeeds only after the service recorded its own ack, and *)
(* of the calls for a row at most one is recorded.                         *)
THEOREM ImplementsContract == Spec => KeepsContract
<1>1. Spec => []TypeOK
  BY TypeCorrect
<1>2. Spec => []AckTrail
  BY TrailHolds
<1>3. QED
  BY <1>1, <1>2, ContractInit, ContractStep, PTL DEF Spec, KeepsContract, Contract!Spec

-----------------------------------------------------------------------------
(* Interruptions are retried: RetryTrail, for any number of streams.       *)

Unsurprising == "reset" \notin Faults /\ "syntax" \notin Faults /\ "unreachable" \notin Faults

(* What is left of an inbox was in it, or is the event that ends it.       *)
LEMMA CalmTake ==
  ASSUME TypeOK, NEW c \in Conns, \A d \in Conns : Calm(d),
         (inbox[c] # <<>> /\ Unhandled(c)) \/ Destroy(c)
  PROVE  \A d \in Conns : Calm(d)'
<1>1. CASE inbox[c] # <<>> /\ Unhandled(c)
  BY <1>1, RangeUnhandled DEF Calm
<1>2. CASE Destroy(c)
  <2>1. \A d \in Conns : inbox'[d] = inbox[d] \/ inbox'[d] = <<[kind |-> "close"]>>
    BY <1>2 DEF Destroy, socketVars, TypeOK, SocketTypeOK
  <2>2. \A f \in Range(<<[kind |-> "close"]>>) : f.kind \notin {"reset", "syntax"}
    BY RangeOne
  <2>3. QED
    BY <2>1, <2>2 DEF Calm
<1>3. QED
  BY <1>1, <1>2

(* A frame that is added is a response or damaged as the service may.      *)
LEMMA CalmAdd ==
  ASSUME TypeOK, NEW c \in Conns, \A d \in Conns : Calm(d), NEW q \in Seq(Frames), NEW f \in Frames,
         f.kind \notin {"reset", "syntax"}, \A g \in Range(q) : g.kind \notin {"reset", "syntax"},
         inbox' = [inbox EXCEPT ![c] = Append(q, f)]
  PROVE  \A d \in Conns : Calm(d)'
<1>1. Range(Append(q, f)) = Range(q) \cup {f}
  BY RangeAdd
<1>2. \A d \in Conns : IF d = c THEN inbox'[d] = Append(q, f) ELSE inbox'[d] = inbox[d]
  BY DEF TypeOK, SocketTypeOK
<1>3. QED
  BY <1>1, <1>2 DEF Calm

(* The steps of the service.                                               *)
LEMMA RetryService ==
  ASSUME Unsurprising, TypeOK, RetryTrail, NEW c \in Conns, Service(c)
  PROVE  RetryTrail'
<1>1. UNCHANGED <<outcome, failure, reading, queueFailure>>
  BY DEF Service, Accept, Refuse, Deliver, HandleAck, Disconnect, Reset, Backpressure, Drop, NoticeClosed,
    ClientVars, streamVars, eventVars, connVars
<1>2. \A d \in Conns : Calm(d)
  BY DEF RetryTrail, Expected
<1>3. inbox[c] \in Seq(Frames)
  BY DEF TypeOK, SocketTypeOK
<1>4. ASSUME NEW r \in Responses, Send(c, r) PROVE \A d \in Conns : Calm(d)'
  <2>1. PICK f \in {r} \cup [kind : Damages \cap Faults] : inbox' = [inbox EXCEPT ![c] = Append(inbox[c], f)]
    BY <1>4 DEF Send
  <2>2. f \in Frames
    BY FrameTypes, SentTypes
  <2>3. f.kind \notin {"reset", "syntax"}
    BY DEF Responses, Unsurprising, Damages
  <2>4. QED
    BY <1>2, <1>3, <2>1, <2>2, <2>3, CalmAdd DEF Calm
<1>5. ASSUME NEW fs \in Seq(Frames), Drop(c, fs), \A g \in Range(fs) : g.kind \notin {"reset", "syntax"}
      PROVE  \A d \in Conns : Calm(d)'
  <2>1. [kind |-> "close"] \in Frames /\ [kind |-> "close"].kind \notin {"reset", "syntax"}
    BY FrameTypes
  <2>2. inbox' = [inbox EXCEPT ![c] = Append(fs, [kind |-> "close"])]
    BY <1>5 DEF Drop
  <2>3. QED
    BY <1>2, <1>5, <2>1, <2>2, CalmAdd
<1>6. \A d \in Conns : Calm(d)'
  <2>1. CASE Accept(c)
    BY <1>4, <2>1, SentTypes DEF Accept
  <2>2. CASE Refuse(c)
    BY <1>4, <2>2, SentTypes DEF Refuse
  <2>3. ASSUME NEW r \in Rows, Deliver(c, r) PROVE \A d \in Conns : Calm(d)'
    BY <1>4, <2>3, SentTypes DEF Deliver
  <2>4. ASSUME NEW k \in Calls, HandleAck(c, k) PROVE \A d \in Conns : Calm(d)'
    <3>1. CASE link[c] = "up"
      <4>1. PICK b \in {"acked", "error"} : Send(c, [kind |-> b, call |-> k])
        BY <2>4, <3>1 DEF HandleAck
      <4>2. QED
        BY <1>4, <4>1, SentTypes
    <3>2. CASE link[c] # "up"
      BY <1>2, <2>4, <3>2 DEF HandleAck, Calm
    <3>3. QED
      BY <3>1, <3>2
  <2>5. CASE Disconnect(c)
    BY <1>2, <1>3, <1>5, <2>5 DEF Disconnect, Calm
  <2>6. CASE Backpressure(c)
    <3> DEFINE f == [kind |-> "error", call |-> None]
    <3>1. f \in Frames /\ f.kind \notin {"reset", "syntax"}
      BY SentTypes, FrameTypes
    <3>2. Drop(c, Append(inbox[c], f))
      BY <2>6 DEF Backpressure
    <3> HIDE DEF f
    <3>3. Append(inbox[c], f) \in Seq(Frames) /\ Range(Append(inbox[c], f)) = Range(inbox[c]) \cup {f}
      BY <1>3, <3>1, AddLast, RangeAdd
    <3>4. QED
      BY <1>2, <1>5, <3>1, <3>2, <3>3 DEF Calm
  <2>7. CASE NoticeClosed(c)
    BY <1>2, <2>7 DEF NoticeClosed, socketVars, Calm
  <2>8. QED
    BY <2>1, <2>2, <2>3, <2>4, <2>5, <2>6, <2>7 DEF Service, Reset, Unsurprising
<1>7. QED
  BY <1>1, <1>6 DEF RetryTrail, Expected, RetriesInterruptions

(* The events of a socket fail a connection with a transport error.        *)
LEMMA RetrySocket ==
  ASSUME TypeOK, RetryTrail, NEW c \in Conns, Socket(c)
  PROVE  RetryTrail'
<1>1. UNCHANGED <<outcome, queueFailure>>
  BY DEF Socket, ReceiveResponse, ReceiveDamaged, SocketEvent, streamVars, eventVars
<1>2. \A d \in Conns : Expected(d) /\ Calm(d)
  BY DEF RetryTrail, Expected
<1>3. inbox[c] # <<>> /\ Head(inbox[c]) \in Frames /\ Head(inbox[c]).kind \notin {"reset", "syntax"}
  <2>1. inbox[c] # <<>> /\ inbox[c] \in Seq(Frames)
    BY DEF Socket, ReceiveResponse, ReceiveDamaged, SocketEvent, TypeOK, SocketTypeOK
  <2>2. Head(inbox[c]) \in Frames /\ Head(inbox[c]) \in Range(inbox[c])
    BY <2>1, TakeFirst, RangeTake
  <2>3. QED
    BY <1>2, <2>1, <2>2 DEF Calm
<1>4. \A d \in Conns : Calm(d)'
  <2>1. Unhandled(c) \/ Destroy(c)
    BY DEF Socket, ReceiveResponse, ReceiveDamaged, SocketEvent
  <2>2. QED
    BY <1>2, <1>3, <2>1, CalmTake
<1>5. ASSUME NEW d \in Conns
      PROVE  /\ failure'[d] \in {"none", "transport"}
             /\ reading'[d].kind = "rejected" => reading'[d].error = "transport"
  <2>1. CASE ReceiveResponse(c)
    <3>1. failure' = failure /\ Resolve(c, Head(inbox[c])) /\ Head(inbox[c]).kind # "rejected"
      BY <2>1 DEF ReceiveResponse
    <3>2. reading'[d] = reading[d] \/ reading'[d] = Head(inbox[c])
      BY <3>1 DEF Resolve, TypeOK, ConnTypeOK
    <3>3. QED
      BY <1>2, <3>1, <3>2 DEF Expected
  <2>2. CASE ReceiveDamaged(c) \/ SocketEvent(c)
    <3>1. Fail(c, "transport")
      BY <1>3, <2>2 DEF ReceiveDamaged, SocketEvent, FrameError
    <3>2. /\ reading'[d] = reading[d] \/ reading'[d] = Rejected("transport")
          /\ failure'[d] = failure[d] \/ failure'[d] = "transport"
      BY <3>1 DEF Fail, TypeOK, ConnTypeOK
    <3>3. QED
      BY <1>2, <3>2 DEF Expected, Rejected
  <2>3. QED
    BY <2>1, <2>2 DEF Socket
<1>6. QED
  BY <1>1, <1>2, <1>4, <1>5 DEF RetryTrail, Expected, RetriesInterruptions

(* Reading on settles with a response or with the failure.                 *)
LEMMA ReadExpected ==
  ASSUME TypeOK, NEW c \in Conns, ReadResponse(c), \A d \in Conns : Expected(d)
  PROVE  \A d \in Conns : reading'[d].kind = "rejected" => reading'[d].error = "transport"
<1> SUFFICES ASSUME NEW d \in Conns PROVE reading'[d].kind = "rejected" => reading'[d].error = "transport"
  OBVIOUS
<1>1. responses[c] # <<>> => Head(responses[c]).kind # "rejected"
  <2>1. responses[c] # <<>> => Head(responses[c]) \in Responses
    BY TakeFirst DEF TypeOK, ConnTypeOK
  <2>2. QED
    BY <2>1 DEF Responses
<1>2. reading'[d] = reading[d] \/ (responses[c] # <<>> /\ reading'[d] = Head(responses[c]))
        \/ reading'[d] = Waiting \/ (failure[c] # "none" /\ reading'[d] = Rejected(failure[c]))
  BY DEF ReadResponse, TypeOK, ConnTypeOK
<1>3. QED
  BY <1>1, <1>2 DEF Expected, Waiting, Rejected

(* What a request or the pump makes of what was read.                      *)
LEMMA ReplyExpected ==
  ASSUME TypeOK, NEW c \in Conns, Expected(c)
  PROVE  ReplyError(reading[c]) \in {"transport", "service"}
BY DEF Expected, ReplyError

(* The steps of the pump.                                                  *)
LEMMA RetryPump ==
  ASSUME TypeOK, RetryTrail, NEW c \in Conns, Pump(c)
  PROVE  RetryTrail'
<1>1. UNCHANGED <<outcome, failure, inbox>>
  BY DEF Pump, streamVars, socketVars
<1>2. \A d \in Conns : Expected(d)
  BY DEF RetryTrail
<1>3. CASE ReadResponse(c) /\ queueFailure' = queueFailure
  <2>1. \A d \in Conns : reading'[d].kind = "rejected" => reading'[d].error = "transport"
    BY <1>2, <1>3, ReadExpected
  <2>2. QED
    BY <1>1, <1>2, <1>3, <2>1 DEF RetryTrail, Expected, Calm, RetriesInterruptions
<1>4. CASE PumpFails(c)
  <2>1. ReplyError(reading[c]) \in {"transport", "service"}
    BY <1>2, ReplyExpected
  <2>2. /\ queueFailure' = [queueFailure EXCEPT ![c] = IF @ = "none" THEN ReplyError(reading[c]) ELSE @]
        /\ reading' = [reading EXCEPT ![c] = NotReading]
    BY <1>4 DEF PumpFails, FailQueue
  <2>3. \A d \in Conns : /\ queueFailure'[d] \in {"none", "transport", "service"}
                         /\ reading'[d] = reading[d] \/ reading'[d] = NotReading
    BY <1>2, <2>1, <2>2 DEF Expected, TypeOK, ConnTypeOK, EventTypeOK
  <2>4. QED
    BY <1>1, <1>2, <2>3 DEF RetryTrail, Expected, Calm, RetriesInterruptions, NotReading
<1>5. QED
  BY <1>3, <1>4 DEF Pump, RouteAnswer, RouteEvent, RouteUnclaimed, eventVars

(* An error of the two kinds is retried or ends the stream as an error     *)
(* response; the finally clause fails what is left of the queue.           *)
LEMMA RaiseExpected ==
  ASSUME TypeOK, RetryTrail, NEW s \in Streams, NEW c \in Conns, UNCHANGED failure,
         \A d \in Conns : reading'[d].kind = "rejected" => reading'[d].error = "transport",
         \/ \E e \in {"transport", "service"} : Raise(s, c, e)
         \/ Finally(c) /\ (UNCHANGED outcome \/ outcome' = [outcome EXCEPT ![s] = "closed"])
  PROVE  RetryTrail'
<1>1. \A d \in Conns : Expected(d) /\ Calm(d)
  BY DEF RetryTrail, Expected
<1>2. RetriesInterruptions'
  BY DEF Raise, RetryTrail, RetriesInterruptions, TypeOK, StreamTypeOK
<1>3. UNCHANGED <<queueFailure, inbox>> \/ Finally(c)
  BY DEF Raise, socketVars
<1>4. \A d \in Conns : Calm(d)'
  <2>1. Finally(c) => Destroy(c)
    BY DEF Finally
  <2>2. QED
    BY <1>1, <1>3, <2>1, CalmTake DEF Calm
<1>5. \A d \in Conns : queueFailure'[d] \in {"none", "transport", "service"}
  BY <1>1, <1>3 DEF Finally, FailQueue, Expected, TypeOK, EventTypeOK
<1>6. QED
  BY <1>1, <1>2, <1>4, <1>5 DEF RetryTrail, Expected

(* The steps of a stream.                                                  *)
LEMMA RetrySubscribe ==
  ASSUME Unsurprising, TypeOK, RetryTrail, NEW s \in Streams, Subscribe(s)
  PROVE  RetryTrail'
<1> USE DEF streamVars, eventVars, connVars, socketVars
<1>0. PICK c : c = cur[s]
  OBVIOUS
<1>1. spc[s] # "ready" => c \in Conns
  BY <1>0 DEF TypeOK, StreamTypeOK
<1>2. \A d \in Conns : Expected(d)
  BY DEF RetryTrail
<1>3. CASE OpenConnection(s)
  <2>1. PICK n \in Conns : /\ reading' = [reading EXCEPT ![n] = Waiting] /\ outcome' = [outcome EXCEPT ![s] = "none"]
                           /\ UNCHANGED <<failure, inbox, queueFailure>>
    BY <1>3 DEF OpenConnection
  <2>2. \A d \in Conns : reading'[d] = reading[d] \/ reading'[d] = Waiting
    BY <2>1 DEF TypeOK, ConnTypeOK
  <2>3. RetriesInterruptions'
    BY <2>1 DEF RetryTrail, RetriesInterruptions, TypeOK, StreamTypeOK
  <2>4. QED
    BY <1>2, <2>1, <2>2, <2>3 DEF RetryTrail, Expected, Calm, Waiting
<1>4. CASE Subscribed(s)
  <2>1. c \in Conns /\ ReadResponse(c) /\ UNCHANGED <<failure, inbox, queueFailure, outcome>>
    BY <1>0, <1>1, <1>4 DEF Subscribed
  <2>2. \A d \in Conns : reading'[d].kind = "rejected" => reading'[d].error = "transport"
    BY <1>2, <2>1, ReadExpected
  <2>3. QED
    BY <1>2, <2>1, <2>2 DEF RetryTrail, Expected, Calm, RetriesInterruptions
<1>5. CASE SubscribeFails(s)
  <2>1. c \in Conns /\ reading' = [reading EXCEPT ![c] = NotReading] /\ Raise(s, c, ReplyError(reading[c])) /\ UNCHANGED failure
    BY <1>0, <1>1, <1>5 DEF SubscribeFails
  <2>2. \A d \in Conns : reading'[d] = reading[d] \/ reading'[d] = NotReading
    BY <2>1 DEF TypeOK, ConnTypeOK
  <2>3. \A d \in Conns : reading'[d].kind = "rejected" => reading'[d].error = "transport"
    BY <1>2, <2>2 DEF Expected, NotReading
  <2>4. ReplyError(reading[c]) \in {"transport", "service"}
    BY <1>2, <2>1, ReplyExpected
  <2>5. QED
    BY <2>1, <2>3, <2>4, RaiseExpected
<1>6. CASE EventsFail(s)
  <2>1. c \in Conns /\ queueFailure[c] # "none" /\ Raise(s, c, queueFailure[c]) /\ UNCHANGED <<failure, reading>>
    BY <1>0, <1>1, <1>6 DEF EventsFail, OutOfEvents
  <2>2. queueFailure[c] \in {"transport", "service"}
    BY <1>2, <2>1 DEF Expected
  <2>3. QED
    BY <1>2, <2>1, <2>2, RaiseExpected DEF Expected
<1>7. CASE Return(s) \/ Wake(s)
  <2>1. /\ c \in Conns /\ Finally(c) /\ UNCHANGED <<failure, reading>>
        /\ UNCHANGED outcome \/ outcome' = [outcome EXCEPT ![s] = "closed"]
    BY <1>0, <1>1, <1>7 DEF Return, Wake
  <2>2. QED
    BY <1>2, <2>1, RaiseExpected DEF Expected
<1>8. CASE YieldEvent(s) \/ NextEvent(s)
  BY <1>8 DEF YieldEvent, NextEvent, RetryTrail, Expected, Calm, RetriesInterruptions
<1>9. QED
  BY <1>3, <1>4, <1>5, <1>6, <1>7, <1>8 DEF Subscribe, OpenFails, Unsurprising

(* A reconnecting stream ends only because it was closed or because of an  *)
(* error response, as long as no connection is reset or cannot be opened   *)
(* and every line is JSON; with any of these it may end otherwise.         *)
THEOREM InterruptionsAreRetried ==
  ASSUME Unsurprising
  PROVE  Spec => []RetriesInterruptions
<1>1. Init => RetryTrail
  <2>1. Range(<<>>) = {}
    BY DEF Range
  <2>2. QED
    BY <2>1 DEF Init, RetryTrail, Expected, Calm, RetriesInterruptions, NotReading
<1>2. TypeOK /\ RetryTrail /\ [Next]_vars => RetryTrail'
  <2> SUFFICES ASSUME TypeOK, RetryTrail, [Next]_vars PROVE RetryTrail'
    OBVIOUS
  <2>1. ASSUME UNCHANGED <<outcome, failure, reading, queueFailure, inbox>> PROVE RetryTrail'
    BY <2>1 DEF RetryTrail, Expected, Calm, RetriesInterruptions
  <2>2. ASSUME NEW k \in Calls, Ack(k) PROVE RetryTrail'
    BY <2>1, <2>2 DEF Ack, AckBegin, AckReturn, AckPerform, streamVars, eventVars, connVars, socketVars
  <2>3. CASE UNCHANGED vars
    BY <2>1, <2>3 DEF vars, streamVars, eventVars, connVars, socketVars
  <2>4. QED
    BY <2>2, <2>3, RetrySubscribe, RetrySocket, RetryPump, RetryService DEF Next
<1>3. RetryTrail => RetriesInterruptions
  BY DEF RetryTrail
<1>4. QED
  BY <1>1, <1>2, <1>3, TypeCorrect, PTL DEF Spec
=============================================================================
