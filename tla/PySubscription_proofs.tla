----------------------- MODULE PySubscription_proofs -----------------------
(* What TLAPS proves of PySubscription, for any streams, calls, rows and   *)
(* number of connections: its types, the safety of ack(), what its calls   *)
(* leave behind, the fields of the client and the order of events.  The    *)
(* inductive invariants are AckTrail, LeftTrail, ReaderTrail, Fields,      *)
(* OrderTrail and, where interruptions are retried, RetryTrail.            *)
EXTENDS PySubscription, TLAPS

-----------------------------------------------------------------------------
(* Sequences: what taking from the front and adding at the end preserve.   *)

(* Taking the first element of a sequence.                                 *)
LEMMA TakeFirst ==
  ASSUME NEW S, NEW q \in Seq(S), q # <<>>
  PROVE  Head(q) \in S /\ Tail(q) \in Seq(S)
OBVIOUS

(* Adding an element at the end of a sequence.                             *)
LEMMA AddLast ==
  ASSUME NEW S, NEW q \in Seq(S), NEW e \in S
  PROVE  Append(q, e) \in Seq(S)
OBVIOUS

(* Removing one element of a sequence, as a cancelled waiter of the lock.  *)
LEMMA RemoveOne ==
  ASSUME NEW S, NEW q \in Seq(S), NEW i \in 1..Len(q)
  PROVE  RemoveAt(q, i) \in Seq(S)
BY DEF RemoveAt

(* What a frame turns into has the type of a queue item or of an error.    *)
LEMMA ErrorTypes ==
  /\ \A f \in Frames : FrameError(f) \in Errors
  /\ \A e \in Errors : [kind |-> "raise", error |-> e] \in Items
  /\ \A f \in Frames : f.kind = "event" => f \in Items /\ f.row \in Rows
  /\ \A i \in Items : i.kind = "event" => i.row \in Rows
  /\ \A i \in Items : i.kind = "raise" => i.error \in Errors
  /\ [kind |-> "eof"] \in Frames
BY DEF FrameError, Frames, Errors, Items

-----------------------------------------------------------------------------
(* Every variable keeps its type.                                          *)
LEMMA TypeInit == Init => TypeOK
BY ConstantsAssumption DEF Init, TypeOK, ClientTypeOK, StreamTypeOK, ConnTypeOK, CallTypeOK, ServiceTypeOK

(* An exception sends the generator to its backoff or to its finally.      *)
LEMMA RaiseEffect ==
  ASSUME NEW s \in Streams, NEW e \in Errors, Raise(s, e)
  PROVE  \E p \in {"backoff", "unwind"}, o \in {"again"} \cup Errors :
           /\ spc' = [spc EXCEPT ![s] = p]
           /\ outcome' = [outcome EXCEPT ![s] = o]
BY DEF Raise

(* The steps of a stream, one by one.                                      *)
LEMMA TypeSubscribe ==
  ASSUME TypeOK, NEW s \in Streams, Subscribe(s)
  PROVE  TypeOK'
<1> USE ConstantsAssumption DEF TypeOK, ClientTypeOK, StreamTypeOK, ConnTypeOK, CallTypeOK, ServiceTypeOK,
      clientVars, streamVars, connVars, callVars, serviceVars
<1>1. CASE OpenConnection(s)
  BY SMTT(30), <1>1 DEF OpenConnection
<1>2. CASE Subscribed(s)
  <2>1. cur[s] \in Conns /\ inbox[cur[s]] \in Seq(Frames) /\ Tail(inbox[cur[s]]) \in Seq(Frames)
    BY <1>2, TakeFirst DEF Subscribed
  <2>2. QED
    BY <1>2, <2>1 DEF Subscribed
<1>3. CASE SubscribeFails(s)
  <2>1. /\ cur[s] \in Conns /\ Tail(inbox[cur[s]]) \in Seq(Frames)
        /\ FrameError(Head(inbox[cur[s]])) \in Errors
    BY <1>3, TakeFirst, ErrorTypes DEF SubscribeFails
  <2>2. PICK e \in Errors : Raise(s, e) /\ UNCHANGED cur
    BY <1>3, <2>1 DEF SubscribeFails
  <2>5. cur[s] \in Conns
    BY <2>1
  <2>6. StreamTypeOK'
    <3>1. PICK p \in {"backoff", "unwind"}, o \in {"again"} \cup Errors :
            /\ spc' = [spc EXCEPT ![s] = p]
            /\ outcome' = [outcome EXCEPT ![s] = o]
      BY <2>2, RaiseEffect
    <3>2. QED
      BY <2>2, <2>5, <3>1
  <2>3. ClientTypeOK' /\ ConnTypeOK' /\ CallTypeOK' /\ ServiceTypeOK'
    BY <1>3, <2>1 DEF SubscribeFails
  <2>4. QED
    BY <2>6, <2>3
<1>4. CASE YieldEvent(s)
  <2>1. /\ cur[s] \in Conns /\ Tail(queue[cur[s]]) \in Seq(Items)
        /\ Head(queue[cur[s]]).row \in Rows
    BY <1>4, TakeFirst, ErrorTypes DEF YieldEvent
  <2>2. Append(yielded[cur[s]], Head(queue[cur[s]]).row) \in Seq(Rows)
    BY <2>1, AddLast
  <2>3. QED
    BY <1>4, <2>1, <2>2 DEF YieldEvent
<1>5. CASE RaiseItem(s)
  <2>1. /\ cur[s] \in Conns /\ Tail(queue[cur[s]]) \in Seq(Items)
        /\ Head(queue[cur[s]]).error \in Errors
    BY <1>5, TakeFirst, ErrorTypes DEF RaiseItem
  <2>2. QED
    BY <1>5, <2>1 DEF RaiseItem, Raise
<1>6. CASE NextEvent(s)
  BY <1>6 DEF NextEvent
<1>7. CASE Abandon(s)
  BY <1>7 DEF Abandon
<1>8. CASE Wake(s)
  BY <1>8 DEF Wake
<1>9. CASE CancelReader(s)
  BY <1>9 DEF CancelReader
<1>10. CASE Unwind(s)
  <2>1. cur[s] \in Conns /\ Append(inbox[cur[s]], [kind |-> "eof"]) \in Seq(Frames)
    BY <1>10, AddLast, ErrorTypes DEF Unwind
  <2>2. ClientTypeOK'
    BY <1>10 DEF Unwind, FailPending, Forget
  <2>3. ConnTypeOK'
    <3>1. inbox' \in [Conns -> Seq(Frames)]
      BY <1>10, <2>1 DEF Unwind
    <3>2. queue' \in [Conns -> Seq(Items)]
      BY <1>10, <2>1 DEF Unwind
    <3>3. link' \in [Conns -> {"new", "up", "down", "closed"}] /\ reader' = reader
      BY <1>10, <2>1 DEF Unwind
    <3>4. QED
      BY <3>1, <3>2, <3>3
  <2>4. CallTypeOK'
    BY <1>10 DEF Unwind, FailPending, Errors
  <2>5. StreamTypeOK' /\ ServiceTypeOK'
    BY <1>10 DEF Unwind
  <2>6. QED
    BY <2>2, <2>3, <2>4, <2>5
<1>11. CASE Closed(s)
  BY <1>11 DEF Closed
<1>12. QED
  BY <1>1, <1>2, <1>3, <1>4, <1>5, <1>6, <1>7, <1>8, <1>9, <1>10, <1>11 DEF Subscribe

(* The steps of a reader, by the way it routes the frame.                  *)
LEMMA TypeReadFrame ==
  ASSUME TypeOK, NEW c \in Conns, ReadFrame(c)
  PROVE  TypeOK'
<1> USE ConstantsAssumption DEF TypeOK, ClientTypeOK, StreamTypeOK, ConnTypeOK, CallTypeOK, ServiceTypeOK,
      clientVars, streamVars, connVars, callVars, serviceVars
<1> DEFINE f == Head(inbox[c])
<1>1. /\ f \in Frames /\ Tail(inbox[c]) \in Seq(Frames)
      /\ inbox' = [inbox EXCEPT ![c] = Tail(@)]
      /\ UNCHANGED <<conn, readerTask, lock, streamVars, link, cpc, row, caller, via, result, serviceVars, yielded>>
  BY TakeFirst DEF ReadFrame
<1>2. StreamTypeOK' /\ ServiceTypeOK'
  BY <1>1
<1>3. ASSUME NEW e \in Errors, ReaderFails(c, e)
      PROVE  ClientTypeOK' /\ ConnTypeOK' /\ CallTypeOK'
  <2>1. Append(queue[c], [kind |-> "raise", error |-> e]) \in Seq(Items)
    BY AddLast, ErrorTypes
  <2>2. ConnTypeOK'
    BY <1>1, <1>3, <2>1 DEF ReaderFails
  <2>3. ClientTypeOK' /\ CallTypeOK'
    BY <1>1, <1>3 DEF ReaderFails, FailPending
  <2>4. QED
    BY <2>2, <2>3
<1>4. CASE RouteAnswer(c)
  BY <1>1, <1>2, <1>4 DEF RouteAnswer, Answer, Answered, Errors
<1>5. CASE RouteToCancelled(c)
  BY <1>2, <1>3, <1>5 DEF RouteToCancelled, Errors
<1>6. CASE RouteEvent(c)
  <2>1. Append(queue[c], f) \in Seq(Items)
    BY <1>1, <1>6, AddLast, ErrorTypes DEF RouteEvent
  <2>2. QED
    BY <1>1, <1>2, <1>6, <2>1 DEF RouteEvent
<1>7. CASE RouteUnclaimed(c)
  <2>1. FrameError(f) \in Errors
    BY <1>1, ErrorTypes
  <2>2. CASE UNCHANGED <<pending, fut, queue, reader>>
    BY <1>1, <1>2, <2>2
  <2>3. CASE ReaderFails(c, FrameError(f))
    BY <1>2, <1>3, <2>1, <2>3
  <2>4. QED
    BY <1>7, <2>2, <2>3 DEF RouteUnclaimed
<1>8. QED
  BY <1>4, <1>5, <1>6, <1>7 DEF ReadFrame

(* A call only ever names a row that was yielded, and every row has a type. *)
LEMMA SeenRows == ASSUME ServiceTypeOK PROVE Seen \subseteq Rows
BY DEF ServiceTypeOK, Seen, Range

(* The steps of a call, one by one.                                        *)
LEMMA TypeAck ==
  ASSUME TypeOK, NEW k \in Calls, Ack(k)
  PROVE  TypeOK'
<1> USE ConstantsAssumption DEF TypeOK, ClientTypeOK, StreamTypeOK, ConnTypeOK, CallTypeOK, ServiceTypeOK,
      clientVars, streamVars, connVars, callVars, serviceVars
<1>1. ASSUME NEW e \in {"failed", "cancelled"}, LeaveWrite(k, e)
      PROVE  TypeOK'
  <2>1. PICK i \in 1..Len(lock) : lock' = RemoveAt(lock, i)
    BY <1>1 DEF LeaveWrite, End
  <2>2. lock' \in Seq(Calls)
    BY <2>1, RemoveOne
  <2>3. CallTypeOK'
    BY <1>1 DEF LeaveWrite, End, Errors
  <2>4. QED
    BY <1>1, <2>2, <2>3 DEF LeaveWrite, End
<1>2. ASSUME Write(k), conn # None
      PROVE  /\ pending' \subseteq Calls /\ wire' \in [Conns -> SUBSET Calls]
             /\ fut' \in [Calls -> {"none", "waiting", "acked", "other", "cancelled"} \cup Errors]
             /\ via' \in [Calls -> Conns \cup {None}] /\ via'[k] \in Conns
             /\ \A j \in Calls : j # k => cpc'[j] = cpc[j] /\ via'[j] = via[j]
             /\ cpc' \in [Calls -> {"idle", "lock", "drain", "await", "perform", "done"}]
  BY <1>2 DEF Write
<1>3. CASE AckBegin(k)
  <2>1. PICK r \in Seen, s \in Streams \cup {None} :
          /\ row' = [row EXCEPT ![k] = r]
          /\ caller' = [caller EXCEPT ![k] = s]
          /\ \/ /\ cpc' = [cpc EXCEPT ![k] = "perform"]
                /\ UNCHANGED <<pending, lock, fut, via, wire>>
             \/ /\ cpc' = [cpc EXCEPT ![k] = "lock"]
                /\ lock' = Append(lock, k)
                /\ UNCHANGED <<pending, fut, via, wire>>
             \/ conn # None /\ lock' = <<k>> /\ Write(k)
          /\ UNCHANGED <<conn, readerTask, streamVars, connVars, result, asked, active, sent, recorded, yielded>>
    BY <1>3 DEF AckBegin
  <2>2. r \in Rows /\ Append(lock, k) \in Seq(Calls) /\ <<k>> \in Seq(Calls)
    BY SeenRows, AddLast
  <2>3. CASE cpc' = [cpc EXCEPT ![k] = "perform"] /\ UNCHANGED <<pending, lock, fut, via, wire>>
    BY <2>1, <2>2, <2>3
  <2>4. CASE /\ cpc' = [cpc EXCEPT ![k] = "lock"] /\ lock' = Append(lock, k)
             /\ UNCHANGED <<pending, fut, via, wire>>
    BY <2>1, <2>2, <2>4
  <2>5. CASE conn # None /\ lock' = <<k>> /\ Write(k)
    BY <1>2, <2>1, <2>2, <2>5
  <2>6. QED
    BY <2>1, <2>3, <2>4, <2>5
<1>11. ASSUME Release PROVE lock' \in Seq(Calls)
  BY <1>11 DEF Release
<1>4. CASE AckAcquire(k)
  <2>1. UNCHANGED <<conn, readerTask, streamVars, connVars, row, caller, asked, active, sent, recorded, yielded>>
    BY <1>4 DEF AckAcquire, End
  <2>2. CASE conn # None /\ Write(k) /\ UNCHANGED <<lock, result>>
    BY <1>2, <2>1, <2>2
  <2>3. CASE End(k, "attribute") /\ Release /\ UNCHANGED <<pending, fut, wire>>
    BY <1>11, <2>1, <2>3 DEF End
  <2>4. QED
    BY <1>4, <2>2, <2>3 DEF AckAcquire
<1>12. CASE DrainDone(k)
  BY <1>11, <1>12 DEF DrainDone
<1>5. CASE DrainFails(k)
  BY <1>1, <1>5 DEF DrainFails
<1>6. CASE AckReturn(k)
  BY <1>6 DEF AckReturn, End, Errors
<1>7. CASE AckPerform(k)
  BY <1>7 DEF AckPerform, End, Errors
<1>8. CASE CancelWrite(k)
  BY <1>1, <1>8 DEF CancelWrite
<1>9. CASE CancelAwait(k)
  BY <1>9 DEF CancelAwait, End
<1>10. QED
  BY <1>3, <1>4, <1>5, <1>6, <1>7, <1>8, <1>9, <1>12 DEF Ack

(* Every frame the service writes is a frame.                              *)
LEMMA FrameTypes ==
  /\ <<[kind |-> "subscribed"]>> \in Seq(Frames)
  /\ \A d \in Damage : <<[kind |-> d]>> \in Seq(Frames)
  /\ <<[kind |-> "reset"]>> \in Seq(Frames)
  /\ <<[kind |-> "error", call |-> None]>> \in Seq(Frames)
  /\ <<[kind |-> "error", call |-> None], [kind |-> "eof"]>> \in Seq(Frames)
  /\ \A r \in Rows : <<[kind |-> "event", row |-> r]>> \in Seq(Frames)
  /\ \A b \in {"acked", "error", "other"}, k \in Calls : <<[kind |-> b, call |-> k]>> \in Seq(Frames)
BY DEF Frames, Damage

(* Frames sent are added to the inbox of the connection.                   *)
LEMMA SendType ==
  ASSUME NEW c \in Conns, NEW fs \in Seq(Frames), inbox \in [Conns -> Seq(Frames)], Send(c, fs)
  PROVE  inbox' \in [Conns -> Seq(Frames)]
BY DEF Send

(* The steps of the service, one by one.                                   *)
LEMMA TypeService ==
  ASSUME TypeOK, NEW c \in Conns, Service(c)
  PROVE  TypeOK'
<1> USE ConstantsAssumption DEF TypeOK, ClientTypeOK, StreamTypeOK, ConnTypeOK, CallTypeOK, ServiceTypeOK,
      clientVars, streamVars, connVars, callVars, serviceVars
<1>1. ASSUME NEW fs \in Seq(Frames), Drop(c, fs)
      PROVE  TypeOK'
  BY <1>1 DEF Drop
<1>2. CASE Accept(c)
  <2>1. inbox' \in [Conns -> Seq(Frames)]
    BY <1>2, SendType, FrameTypes DEF Accept
  <2>2. QED
    BY <1>2, <2>1 DEF Accept
<1>3. CASE Refuse(c)
  <2>1. inbox' \in [Conns -> Seq(Frames)]
    BY <1>3, SendType, FrameTypes DEF Refuse
  <2>2. QED
    BY <1>3, <2>1 DEF Refuse
<1>4. ASSUME NEW r \in Rows, Deliver(c, r)
      PROVE  TypeOK'
  <2>1. inbox' \in [Conns -> Seq(Frames)]
    BY <1>4, SendType, FrameTypes DEF Deliver
  <2>2. Append(sent[c], r) \in Seq(Rows)
    BY AddLast
  <2>3. QED
    BY <1>4, <2>1, <2>2 DEF Deliver
<1>5. ASSUME NEW k \in Calls, HandleAck(c, k)
      PROVE  TypeOK'
  <2>1. inbox' \in [Conns -> Seq(Frames)]
    <3>1. \A b \in {"acked", "error", "other"} :
            Send(c, <<[kind |-> b, call |-> k]>>) => inbox' \in [Conns -> Seq(Frames)]
      BY SendType, FrameTypes
    <3>2. Responses(c, k) \subseteq {"acked", "error", "other"}
      BY DEF Responses
    <3>3. QED
      BY <1>5, <3>1, <3>2 DEF HandleAck
  <2>2. recorded' \subseteq Calls
    BY <1>5 DEF HandleAck
  <2>3. QED
    BY <1>5, <2>1, <2>2 DEF HandleAck
<1>6. CASE Lost(c)
  <2>1. Append(inbox[c], [kind |-> "eof"]) \in Seq(Frames)
    BY AddLast, ErrorTypes
  <2>2. QED
    BY <1>1, <1>6, <2>1, FrameTypes DEF Lost
<1>8. CASE Backpressure(c)
  <2>1. inbox[c] \o <<[kind |-> "error", call |-> None], [kind |-> "eof"]>> \in Seq(Frames)
    BY FrameTypes
  <2>2. QED
    BY <1>1, <1>8, <2>1 DEF Backpressure
<1>9. CASE Garble(c)
  <2>1. inbox' \in [Conns -> Seq(Frames)]
    BY <1>9, SendType, FrameTypes DEF Garble
  <2>2. QED
    BY <1>9, <2>1 DEF Garble
<1>10. CASE NoticeClosed(c)
  BY <1>10 DEF NoticeClosed
<1>11. QED
  BY <1>2, <1>3, <1>4, <1>5, <1>6, <1>8, <1>9, <1>10 DEF Service

(* TypeOK is an invariant of the engine: every step keeps every variable   *)
(* of the client, its connections, its ack() calls and the service typed.  *)
THEOREM TypeCorrect == Spec => []TypeOK
<1>1. TypeOK /\ [Next]_vars => TypeOK'
  <2> SUFFICES ASSUME TypeOK, [Next]_vars PROVE TypeOK'
    OBVIOUS
  <2>1. CASE Next
    BY <2>1, TypeSubscribe, TypeReadFrame, TypeAck, TypeService DEF Next
  <2>2. CASE UNCHANGED vars
    BY <2>2 DEF vars, TypeOK, ClientTypeOK, StreamTypeOK, ConnTypeOK, CallTypeOK, ServiceTypeOK,
      clientVars, streamVars, connVars, callVars, serviceVars
  <2>3. QED
    BY <2>1, <2>2
<1>2. QED
  BY TypeInit, <1>1, PTL DEF Spec

-----------------------------------------------------------------------------
(* NoClosedConnection, with any number of streams of one client.           *)
Open == Holders /\ NoClosedConnection

(* Of the steps of a stream only the first and the last but one touch the  *)
(* socket; the finally clause forgets what it closes.                      *)
LEMMA OpenSubscribe ==
  ASSUME TypeOK, Open, NEW s \in Streams, Subscribe(s)
  PROVE  Open'
<1> USE ConstantsAssumption DEF Open, Holders, NoClosedConnection, clientVars, streamVars, connVars
<1>1. cur \in [Streams -> Conns \cup {None}] /\ link \in [Conns -> {"new", "up", "down", "closed"}]
      /\ conn \in Conns \cup {None} /\ DOMAIN spc = Streams
  BY DEF TypeOK, StreamTypeOK, ConnTypeOK, ClientTypeOK
<1>2. \A c \in Conns : c # None
  BY DEF Conns
<1>3. spc[s] # "ready" => cur[s] \in Conns
  BY DEF TypeOK, StreamTypeOK
<1>4. CASE OpenConnection(s)
  <2>1. PICK c \in Conns :
          /\ link[c] = "new" /\ link' = [link EXCEPT ![c] = "up"]
          /\ cur' = [cur EXCEPT ![s] = c] /\ spc' = [spc EXCEPT ![s] = "opening"]
          /\ conn' = conn
    BY <1>4 DEF OpenConnection
  <2>2. \A t \in Streams : cur[t] # c
    BY <1>2, <2>1
  <2>3. QED
    BY <1>1, <1>2, <2>1, <2>2
<1>5. CASE Unwind(s)
  <2>1. /\ link' = [link EXCEPT ![cur[s]] = "closed"] /\ spc' = [spc EXCEPT ![s] = "closing"]
        /\ conn' = Forget(conn, cur[s]) /\ UNCHANGED cur
    BY <1>5 DEF Unwind
  <2>2. cur[s] \in Conns
    BY <1>3, <1>5 DEF Unwind
  <2>3. \A t \in Streams : t # s => cur[t] # cur[s]
    BY <1>2, <2>2
  <2>4. QED
    BY <1>1, <1>2, <2>1, <2>2, <2>3 DEF Forget
<1>6. CASE Subscribed(s)
  BY <1>1, <1>3, <1>6 DEF Subscribed
<1>7. CASE SubscribeFails(s) \/ RaiseItem(s)
  BY <1>1, <1>7 DEF SubscribeFails, RaiseItem, Raise
<1>8. CASE YieldEvent(s) \/ NextEvent(s) \/ Abandon(s) \/ Wake(s) \/ CancelReader(s) \/ Closed(s)
  BY <1>1, <1>8 DEF YieldEvent, NextEvent, Abandon, Wake, CancelReader, Closed
<1>9. QED
  BY <1>4, <1>5, <1>6, <1>7, <1>8 DEF Subscribe

(* Readers and calls leave the sockets alone; the service takes one down.  *)
LEMMA OpenElsewhere ==
  ASSUME TypeOK, Open,
         \/ \E k \in Calls : Ack(k)
         \/ \E c \in Conns : ReadFrame(c) \/ Service(c)
  PROVE  Open'
<1> USE DEF Open, Holders, NoClosedConnection, clientVars, streamVars, connVars
<1>1. UNCHANGED <<conn, spc, cur>> /\ (link' = link \/ \E c \in Conns : link' = [link EXCEPT ![c] = "down"])
  <2>1. CASE \E k \in Calls : Ack(k)
    BY <2>1 DEF Ack, AckBegin, AckAcquire, End, DrainDone, DrainFails, LeaveWrite, AckReturn, AckPerform,
      CancelWrite, CancelAwait
  <2>2. CASE \E c \in Conns : ReadFrame(c)
    BY <2>2 DEF ReadFrame
  <2>3. CASE \E c \in Conns : Service(c)
    BY <2>3 DEF Service, Accept, Refuse, Deliver, HandleAck, Lost, Backpressure, Drop, Garble, NoticeClosed
  <2>4. QED
    BY <2>1, <2>2, <2>3
<1>2. link \in [Conns -> {"new", "up", "down", "closed"}]
  BY DEF TypeOK, ConnTypeOK
<1>3. \A c \in Conns : link'[c] \in {link[c], "down"}
  BY <1>1, <1>2
<1>4. \A s \in Streams : cur[s] \in Conns \/ cur[s] = None
  BY DEF TypeOK, StreamTypeOK
<1>5. \A s \in Streams : spc[s] # "ready" => cur[s] \in Conns
  BY DEF TypeOK, StreamTypeOK
<1>6. conn # None => conn \in Conns
  BY DEF TypeOK, ClientTypeOK
<1>7. QED
  BY <1>1, <1>3, <1>4, <1>5, <1>6

(* Who holds a connection and what the client names, with any number of    *)
(* streams.                                                                *)
LEMMA OpenInvariant == Spec => []Open
<1>1. Init => Open
  BY ConstantsAssumption DEF Init, Open, Holders, NoClosedConnection
<1>2. TypeOK /\ Open /\ [Next]_vars => Open'
  <2> SUFFICES ASSUME TypeOK, Open, [Next]_vars PROVE Open'
    OBVIOUS
  <2>1. CASE Next
    BY <2>1, OpenSubscribe, OpenElsewhere DEF Next
  <2>2. CASE UNCHANGED vars
    BY <2>2 DEF vars, clientVars, streamVars, connVars, Open, Holders, NoClosedConnection
  <2>3. QED
    BY <2>1, <2>2
<1>3. QED
  BY <1>1, <1>2, TypeCorrect, PTL DEF Spec

(* The client never names a connection whose transport it has closed,      *)
(* however many streams it has and whatever befalls their connections.     *)
THEOREM NamedIsOpen == Spec => []NoClosedConnection
<1>1. Open => NoClosedConnection
  BY DEF Open
<1>2. QED
  BY <1>1, OpenInvariant, PTL

-----------------------------------------------------------------------------
(* Sequences of frames: a property of every element survives what the      *)
(* reader and the service do to an inbox or a queue.                       *)

(* Every element of a tail is an element of the sequence, one place on.    *)
LEMMA TailElements ==
  ASSUME NEW S, NEW q \in Seq(S), q # <<>>, NEW i \in 1..Len(Tail(q))
  PROVE  i + 1 \in 1..Len(q) /\ Tail(q)[i] = q[i + 1]
OBVIOUS

(* The head of a sequence is its first element.                            *)
LEMMA HeadElement ==
  ASSUME NEW S, NEW q \in Seq(S), q # <<>>
  PROVE  1 \in 1..Len(q) /\ Head(q) = q[1]
OBVIOUS

(* An element of a concatenation is an element of one of its parts.        *)
LEMMA ConcatElements ==
  ASSUME NEW S, NEW q \in Seq(S), NEW t \in Seq(S), NEW i \in 1..Len(q \o t)
  PROVE  \/ i \in 1..Len(q) /\ (q \o t)[i] = q[i]
         \/ \E j \in 1..Len(t) : (q \o t)[i] = t[j]
<1>1. CASE i <= Len(q)
  BY <1>1
<1>2. CASE i > Len(q)
  <2>1. i - Len(q) \in 1..Len(t) /\ (q \o t)[i] = t[i - Len(q)]
    BY <1>2
  <2>2. QED
    BY <2>1
<1>3. QED
  BY <1>1, <1>2

(* Append adds one element at the end and moves none.                      *)
LEMMA AppendElements ==
  ASSUME NEW S, NEW q \in Seq(S), NEW e \in S, NEW i \in 1..Len(Append(q, e))
  PROVE  \/ i \in 1..Len(q) /\ Append(q, e)[i] = q[i]
         \/ Append(q, e)[i] = e
OBVIOUS

-----------------------------------------------------------------------------
(* AckTrail.  InboxTruth is its last conjunct for one connection.          *)

InboxTruth(c) ==
  \A i \in 1..Len(inbox[c]) : inbox[c][i].kind = "acked" => inbox[c][i].call \in recorded

CallTrail(k) ==
  /\ cpc[k] \in {"idle", "lock", "perform"} =>
       fut[k] = "none" /\ k \notin recorded /\ \A c \in Conns : k \notin wire[c]
  /\ fut[k] = "acked" => k \in recorded
  /\ result[k] = "acked" => k \in recorded

CallsTrail == \A k \in Calls : CallTrail(k)

(* AckTrail, split into what it says of each call and of each inbox.       *)
LEMMA AckTrailParts ==
  AckTrail <=> (\A k \in Calls : CallTrail(k)) /\ (\A c \in Conns : InboxTruth(c))
BY DEF AckTrail, CallTrail, InboxTruth

(* Nothing has been called or answered in the initial states.              *)
LEMMA TrailInit == Init => AckTrail
BY DEF Init, AckTrail

(* Frames taken from the front leave the rest of an inbox truthful.        *)
LEMMA TruthAfterTake ==
  ASSUME TypeOK, NEW c \in Conns, inbox[c] # <<>>, \A d \in Conns : InboxTruth(d),
         inbox' = [inbox EXCEPT ![c] = Tail(@)], UNCHANGED recorded
  PROVE  \A d \in Conns : InboxTruth(d)'
<1> SUFFICES ASSUME NEW d \in Conns, NEW i \in 1..Len(inbox'[d]), inbox'[d][i].kind = "acked"
             PROVE  inbox'[d][i].call \in recorded'
  BY DEF InboxTruth
<1>1. inbox[c] \in Seq(Frames) /\ inbox \in [Conns -> Seq(Frames)]
  BY DEF TypeOK, ConnTypeOK
<1>2. CASE d = c
  <2>1. inbox'[d] = Tail(inbox[c])
    BY <1>1, <1>2
  <2>2. i + 1 \in 1..Len(inbox[c]) /\ inbox'[d][i] = inbox[c][i + 1]
    BY <1>1, <2>1, TailElements
  <2>3. QED
    BY <2>2 DEF InboxTruth
<1>3. CASE d # c
  BY <1>1, <1>3 DEF InboxTruth
<1>4. QED
  BY <1>2, <1>3

(* Frames that claim nothing untrue may be added at the end.               *)
LEMMA TruthAfterSend ==
  ASSUME TypeOK, NEW c \in Conns, NEW fs \in Seq(Frames), \A d \in Conns : InboxTruth(d),
         inbox' = [inbox EXCEPT ![c] = @ \o fs], recorded \subseteq recorded',
         \A j \in 1..Len(fs) : fs[j].kind = "acked" => fs[j].call \in recorded'
  PROVE  \A d \in Conns : InboxTruth(d)'
<1> SUFFICES ASSUME NEW d \in Conns, NEW i \in 1..Len(inbox'[d]), inbox'[d][i].kind = "acked"
             PROVE  inbox'[d][i].call \in recorded'
  BY DEF InboxTruth
<1>1. inbox[c] \in Seq(Frames) /\ inbox \in [Conns -> Seq(Frames)]
  BY DEF TypeOK, ConnTypeOK
<1>2. CASE d = c
  <2>1. inbox'[d] = inbox[c] \o fs
    BY <1>1, <1>2
  <2>2. \/ i \in 1..Len(inbox[c]) /\ inbox'[d][i] = inbox[c][i]
        \/ \E j \in 1..Len(fs) : inbox'[d][i] = fs[j]
    BY <1>1, <2>1, ConcatElements
  <2>3. QED
    BY <2>2 DEF InboxTruth
<1>3. CASE d # c
  BY <1>1, <1>3 DEF InboxTruth
<1>4. QED
  BY <1>2, <1>3

(* The steps of a stream: only its teardown settles futures, none as       *)
(* acked.                                                                  *)
LEMMA TrailSubscribe ==
  ASSUME TypeOK, AckTrail, NEW s \in Streams, Subscribe(s)
  PROVE  AckTrail'
<1> USE DEF clientVars, streamVars, connVars, callVars, serviceVars
<1>1. \A k \in Calls : CallTrail(k)'
  <2>1. CASE Unwind(s)
    BY <2>1 DEF Unwind, FailPending, AckTrail, CallTrail, Errors
  <2>2. CASE UNCHANGED <<cpc, fut, result, wire, recorded>>
    BY <2>2 DEF AckTrail, CallTrail
  <2>3. QED
    BY <2>1, <2>2 DEF Subscribe, OpenConnection, Subscribed, SubscribeFails, YieldEvent, RaiseItem,
      NextEvent, Abandon, Wake, CancelReader, Closed
<1>2. \A c \in Conns : InboxTruth(c)'
  <2> USE AckTrailParts
  <2>1. CASE UNCHANGED <<inbox, recorded>>
    BY <2>1 DEF InboxTruth
  <2>2. CASE Subscribed(s) \/ SubscribeFails(s)
    <3>1. cur[s] \in Conns /\ inbox[cur[s]] # <<>>
      BY <2>2 DEF TypeOK, StreamTypeOK, Subscribed, SubscribeFails
    <3>2. inbox' = [inbox EXCEPT ![cur[s]] = Tail(@)] /\ UNCHANGED recorded
      BY <2>2 DEF Subscribed, SubscribeFails
    <3>3. QED
      BY <3>1, <3>2, TruthAfterTake
  <2>3. CASE Unwind(s)
    <3> DEFINE fs == <<[kind |-> "eof"]>>
    <3>1. cur[s] \in Conns /\ inbox[cur[s]] \in Seq(Frames) /\ fs \in Seq(Frames)
      BY <2>3, ErrorTypes DEF Unwind, TypeOK, StreamTypeOK, ConnTypeOK
    <3>2. CASE inbox' = [inbox EXCEPT ![cur[s]] = @ \o fs]
      <4>1. \A j \in 1..Len(fs) : fs[j].kind # "acked"
        OBVIOUS
      <4>2. recorded' = recorded
        BY <2>3 DEF Unwind
      <4>3. QED
        BY <3>1, <3>2, <4>1, <4>2, TruthAfterSend
    <3>3. CASE inbox' = [inbox EXCEPT ![cur[s]] = <<>>]
      <4>1. recorded' = recorded /\ \A d \in Conns \ {cur[s]} : inbox'[d] = inbox[d]
        BY <2>3, <3>3 DEF Unwind, TypeOK, ConnTypeOK
      <4>2. inbox'[cur[s]] = <<>>
        BY <3>1, <3>3 DEF TypeOK, ConnTypeOK
      <4>3. QED
        BY <4>1, <4>2 DEF InboxTruth
    <3>4. Append(inbox[cur[s]], [kind |-> "eof"]) = inbox[cur[s]] \o fs
      BY <3>1
    <3>5. QED
      BY <2>3, <3>2, <3>3, <3>4 DEF Unwind
  <2>4. QED
    BY <2>1, <2>2, <2>3 DEF Subscribe, OpenConnection, YieldEvent, RaiseItem,
      NextEvent, Abandon, Wake, CancelReader, Closed
<1>3. QED
  BY <1>1, <1>2 DEF AckTrail, CallTrail, InboxTruth

(* The steps of a reader: it hands a future what the service has sent.     *)
LEMMA TrailReadFrame ==
  ASSUME TypeOK, AckTrail, NEW c \in Conns, ReadFrame(c)
  PROVE  AckTrail'
<1> USE DEF clientVars, streamVars, connVars, callVars, serviceVars
<1> DEFINE f == Head(inbox[c])
<1>1. /\ inbox[c] # <<>> /\ inbox' = [inbox EXCEPT ![c] = Tail(@)]
      /\ UNCHANGED <<cpc, result, wire, recorded>>
  BY DEF ReadFrame
<1>2. \A d \in Conns : InboxTruth(d)'
  BY <1>1, TruthAfterTake, AckTrailParts
<1>3. f \in Frames /\ (f.kind = "acked" => f.call \in recorded)
  <2>1. inbox[c] \in Seq(Frames) /\ inbox[c] # <<>>
    BY <1>1 DEF TypeOK, ConnTypeOK
  <2>2. 1 \in 1..Len(inbox[c]) /\ f = inbox[c][1]
    BY <2>1, HeadElement
  <2>3. f \in Frames
    BY <2>1, <2>2
  <2>4. f.kind = "acked" => f.call \in recorded
    BY <2>2 DEF AckTrail
  <2>5. QED
    BY <2>3, <2>4
<1>4. ASSUME NEW e \in Errors, FailPending(e)
      PROVE  \A k \in Calls : CallTrail(k)'
  BY <1>1, <1>4 DEF FailPending, AckTrail, CallTrail, Errors
<1>5. \A k \in Calls : CallTrail(k)'
  <2>1. CASE RouteAnswer(c)
    BY <1>1, <1>3, <2>1 DEF RouteAnswer, Answered, Answer, AckTrail, CallTrail, TypeOK, CallTypeOK
  <2>2. CASE RouteToCancelled(c)
    BY <1>4, <2>2 DEF RouteToCancelled, ReaderFails, Errors
  <2>3. CASE UNCHANGED fut
    BY <1>1, <2>3 DEF AckTrail, CallTrail
  <2>4. CASE RouteUnclaimed(c)
    <3>1. FrameError(f) \in Errors
      BY <1>3, ErrorTypes
    <3>2. QED
      BY <1>4, <2>3, <2>4, <3>1 DEF RouteUnclaimed, ReaderFails
  <2>5. QED
    BY <2>1, <2>2, <2>3, <2>4 DEF ReadFrame, RouteEvent
<1>6. QED
  BY <1>2, <1>5 DEF AckTrail, CallTrail, InboxTruth

(* The steps of a call: it reaches the service only once its future        *)
(* exists.                                                                 *)
LEMMA TrailAck ==
  ASSUME TypeOK, AckTrail, NEW k \in Calls, Ack(k)
  PROVE  AckTrail'
<1> USE DEF clientVars, streamVars, connVars, callVars, serviceVars
<1>1. UNCHANGED <<inbox, recorded>>
  BY DEF Ack, AckBegin, AckAcquire, End, DrainDone, DrainFails, LeaveWrite, AckReturn, AckPerform,
    CancelWrite, CancelAwait
<1>2. \A c \in Conns : InboxTruth(c)'
  BY <1>1, AckTrailParts DEF InboxTruth
<1> SUFFICES CallsTrail'
  BY <1>2 DEF AckTrail, CallsTrail, CallTrail, InboxTruth
<1>3. ASSUME NEW e \in {"failed", "cancelled"}, LeaveWrite(k, e)
      PROVE  CallsTrail'
  BY <1>1, <1>3 DEF LeaveWrite, End, AckTrail, CallsTrail, CallTrail, TypeOK, CallTypeOK
<1>4. ASSUME Write(k), conn # None, UNCHANGED result
      PROVE  CallsTrail'
  BY <1>1, <1>4 DEF Write, AckTrail, CallsTrail, CallTrail, TypeOK, CallTypeOK, ClientTypeOK, ServiceTypeOK
<1>5. CASE AckBegin(k)
  <2>1. CASE cpc' \in {[cpc EXCEPT ![k] = "perform"], [cpc EXCEPT ![k] = "lock"]} /\ UNCHANGED <<fut, wire, result>>
    BY <1>1, <1>5, <2>1 DEF AckBegin, AckTrail, CallsTrail, CallTrail, TypeOK, CallTypeOK
  <2>2. CASE Write(k) /\ conn # None
    BY <1>4, <1>5, <2>2 DEF AckBegin
  <2>3. QED
    BY <1>5, <2>1, <2>2 DEF AckBegin
<1>6. CASE AckAcquire(k)
  <2>1. CASE Write(k) /\ conn # None /\ UNCHANGED result
    BY <1>4, <2>1
  <2>2. CASE /\ cpc' = [cpc EXCEPT ![k] = "done"] /\ result' = [result EXCEPT ![k] = "attribute"]
             /\ UNCHANGED <<fut, wire>>
    BY <1>1, <2>2 DEF AckTrail, CallsTrail, CallTrail, TypeOK, CallTypeOK
  <2>3. QED
    BY <1>6, <2>1, <2>2 DEF AckAcquire, End
<1>7. CASE DrainDone(k)
  BY <1>1, <1>7 DEF DrainDone, AckTrail, CallsTrail, CallTrail, TypeOK, CallTypeOK
<1>8. CASE DrainFails(k)
  BY <1>3, <1>8 DEF DrainFails
<1>9. CASE AckReturn(k)
  BY <1>1, <1>9 DEF AckReturn, End, AckTrail, CallsTrail, CallTrail, TypeOK, CallTypeOK
<1>10. CASE AckPerform(k)
  BY <1>1, <1>10 DEF AckPerform, End, AckTrail, CallsTrail, CallTrail, TypeOK, CallTypeOK
<1>11. CASE CancelWrite(k)
  BY <1>3, <1>11 DEF CancelWrite
<1>12. CASE CancelAwait(k)
  BY <1>1, <1>12 DEF CancelAwait, End, AckTrail, CallsTrail, CallTrail, TypeOK, CallTypeOK
<1>13. QED
  BY <1>5, <1>6, <1>7, <1>8, <1>9, <1>10, <1>11, <1>12 DEF Ack

(* A send of one or two frames that are no acknowledgement claims none.    *)
LEMMA NotAcked ==
  /\ \A f : f.kind # "acked" => \A j \in 1..Len(<<f>>) : <<f>>[j].kind # "acked"
  /\ \A f, g : f.kind # "acked" /\ g.kind # "acked" =>
       \A j \in 1..Len(<<f, g>>) : <<f, g>>[j].kind # "acked"
OBVIOUS

(* Of the service's steps only HandleAck records an ack or answers one.    *)
LEMMA TrailService ==
  ASSUME TypeOK, AckTrail, NEW c \in Conns, Service(c)
  PROVE  AckTrail'
<1> USE DEF clientVars, streamVars, connVars, callVars, serviceVars
<1>1. inbox[c] \in Seq(Frames) /\ inbox \in [Conns -> Seq(Frames)]
  BY DEF TypeOK, ConnTypeOK
<1>2. ASSUME NEW fs \in Seq(Frames), Send(c, fs), \A j \in 1..Len(fs) : fs[j].kind # "acked",
             UNCHANGED <<callVars, recorded, wire>>
      PROVE  AckTrail'
  <2>1. \A d \in Conns : InboxTruth(d)'
    BY <1>2, TruthAfterSend, AckTrailParts DEF Send
  <2>2. QED
    BY <1>2, <2>1 DEF AckTrail, InboxTruth
<1>3. ASSUME NEW fs \in Seq(Frames), Drop(c, inbox[c] \o fs), \A j \in 1..Len(fs) : fs[j].kind # "acked"
      PROVE  AckTrail'
  <2>1. \A d \in Conns : InboxTruth(d)'
    BY <1>3, TruthAfterSend, AckTrailParts DEF Drop
  <2>2. QED
    BY <1>3, <2>1 DEF Drop, AckTrail, InboxTruth, TypeOK, ServiceTypeOK
<1>4. CASE Accept(c)
  <2> DEFINE f == [kind |-> "subscribed"]
  <2>1. <<f>> \in Seq(Frames) /\ \A j \in 1..Len(<<f>>) : <<f>>[j].kind # "acked"
    BY FrameTypes, NotAcked
  <2>2. Send(c, <<f>>) /\ UNCHANGED <<callVars, recorded, wire>>
    BY <1>4 DEF Accept
  <2> HIDE DEF f
  <2>3. QED
    BY <1>2, <2>1, <2>2
<1>5. CASE Refuse(c)
  <2> DEFINE f == [kind |-> "error", call |-> None]
  <2>1. <<f>> \in Seq(Frames) /\ \A j \in 1..Len(<<f>>) : <<f>>[j].kind # "acked"
    BY FrameTypes, NotAcked
  <2>2. Send(c, <<f>>) /\ UNCHANGED <<callVars, recorded, wire>>
    BY <1>5 DEF Refuse
  <2> HIDE DEF f
  <2>3. QED
    BY <1>2, <2>1, <2>2
<1>6. ASSUME NEW r \in Rows, Deliver(c, r)
      PROVE  AckTrail'
  <2> DEFINE f == [kind |-> "event", row |-> r]
  <2>1. <<f>> \in Seq(Frames) /\ \A j \in 1..Len(<<f>>) : <<f>>[j].kind # "acked"
    BY FrameTypes, NotAcked
  <2>2. Send(c, <<f>>) /\ UNCHANGED <<callVars, recorded, wire>>
    BY <1>6 DEF Deliver
  <2> HIDE DEF f
  <2>3. QED
    BY <1>2, <2>1, <2>2
<1>7. CASE Garble(c)
  <2>0. PICK d \in Damage : Send(c, <<[kind |-> d]>>)
    BY <1>7 DEF Garble
  <2> DEFINE f == [kind |-> d]
  <2>1. <<f>> \in Seq(Frames) /\ \A j \in 1..Len(<<f>>) : <<f>>[j].kind # "acked"
    BY FrameTypes, NotAcked DEF Damage
  <2>2. Send(c, <<f>>) /\ UNCHANGED <<callVars, recorded, wire>>
    BY <1>7, <2>0 DEF Garble
  <2> HIDE DEF f
  <2>3. QED
    BY <1>2, <2>1, <2>2
<1>8. CASE Lost(c)
  <2>1. Append(inbox[c], [kind |-> "eof"]) = inbox[c] \o <<[kind |-> "eof"]>> /\ <<[kind |-> "eof"]>> \in Seq(Frames)
    BY <1>1, ErrorTypes
  <2>2. \A j \in 1..Len(<<[kind |-> "eof"]>>) : <<[kind |-> "eof"]>>[j].kind # "acked"
    BY NotAcked
  <2>3. CASE Drop(c, <<[kind |-> "reset"]>>)
    <3>1. inbox' = [inbox EXCEPT ![c] = <<[kind |-> "reset"]>>] /\ UNCHANGED <<callVars, recorded>>
      BY <2>3 DEF Drop
    <3>2. \A d \in Conns : InboxTruth(d)'
      BY <1>1, <3>1, AckTrailParts DEF InboxTruth
    <3>3. QED
      BY <2>3, <3>1, <3>2 DEF Drop, AckTrail, InboxTruth, TypeOK, ServiceTypeOK
  <2>4. QED
    BY <1>3, <1>8, <2>1, <2>2, <2>3 DEF Lost
<1>9. CASE Backpressure(c)
  <2> DEFINE fs == <<[kind |-> "error", call |-> None], [kind |-> "eof"]>>
  <2>1. fs \in Seq(Frames) /\ \A j \in 1..Len(fs) : fs[j].kind # "acked"
    BY FrameTypes, NotAcked
  <2>2. Drop(c, inbox[c] \o fs)
    BY <1>9 DEF Backpressure
  <2> HIDE DEF fs
  <2>3. QED
    BY <1>3, <2>1, <2>2
<1>11. CASE NoticeClosed(c)
  BY <1>11 DEF NoticeClosed, AckTrail, TypeOK, ServiceTypeOK
<1>12. ASSUME NEW k \in Calls, HandleAck(c, k)
       PROVE  AckTrail'
  <2>1. /\ k \in wire[c] /\ wire' = [wire EXCEPT ![c] = @ \ {k}] /\ recorded \subseteq recorded'
        /\ recorded' \subseteq recorded \cup {k} /\ UNCHANGED callVars
    BY <1>12 DEF HandleAck
  <2>2. CallsTrail'
    BY <2>1 DEF AckTrail, CallsTrail, CallTrail, TypeOK, ServiceTypeOK
  <2>3. \A d \in Conns : InboxTruth(d)'
    <3>1. ASSUME NEW a \in Responses(c, k), Send(c, <<[kind |-> a, call |-> k]>>)
          PROVE  \A d \in Conns : InboxTruth(d)'
      <4> DEFINE fs == <<[kind |-> a, call |-> k]>>
      <4>1. fs \in Seq(Frames)
        BY FrameTypes DEF Responses
      <4>2. \A j \in 1..Len(fs) : fs[j].kind = "acked" => fs[j].call \in recorded'
        BY <1>12 DEF HandleAck, Responses
      <4>3. QED
        BY <2>1, <3>1, <4>1, <4>2, TruthAfterSend, AckTrailParts DEF Send
    <3>2. CASE UNCHANGED inbox
      BY <2>1, <3>2, AckTrailParts DEF InboxTruth
    <3>3. QED
      BY <1>12, <3>1, <3>2 DEF HandleAck
  <2>4. QED
    BY <2>2, <2>3 DEF AckTrail, CallsTrail, CallTrail, InboxTruth
<1>13. QED
  BY <1>4, <1>5, <1>6, <1>7, <1>8, <1>9, <1>11, <1>12 DEF Service

(* AckTrail is inductive, given the types.                                 *)
LEMMA TrailNext == TypeOK /\ AckTrail /\ [Next]_vars => AckTrail'
<1> SUFFICES ASSUME TypeOK, AckTrail, [Next]_vars PROVE AckTrail'
  OBVIOUS
<1>1. CASE Next
  BY <1>1, TrailSubscribe, TrailReadFrame, TrailAck, TrailService DEF Next
<1>2. CASE UNCHANGED vars
  BY <1>2 DEF vars, AckTrail, connVars, callVars, serviceVars
<1>3. QED
  BY <1>1, <1>2

(* An acknowledgement, on its way or handed to a future, was recorded by   *)
(* the service for that very call.                                         *)
THEOREM TrailInvariant == Spec => []AckTrail
BY TrailInit, TrailNext, TypeCorrect, PTL DEF Spec

(* ack() returns normally only if the service recorded this very request,  *)
(* for any number of streams, calls, rows, connections and faults.         *)
THEOREM AckedIsRecorded == Spec => []AckedMeansRecorded
<1>1. AckTrail => AckedMeansRecorded
  BY DEF AckTrail, AckedMeansRecorded
<1>2. QED
  BY <1>1, TrailInvariant, PTL

-----------------------------------------------------------------------------
(* What a call leaves behind.  First the line of the lock.                 *)

(* The elements of a sequence with one of them removed.                    *)
LEMMA RemoveElements ==
  ASSUME NEW S, NEW q \in Seq(S), NEW i \in 1..Len(q)
  PROVE  /\ RemoveAt(q, i) \in Seq(S) /\ Len(RemoveAt(q, i)) = Len(q) - 1
         /\ \A j \in 1..(Len(q) - 1) : RemoveAt(q, i)[j] = IF j < i THEN q[j] ELSE q[j + 1]
<1>1. /\ SubSeq(q, 1, i - 1) \in Seq(S) /\ Len(SubSeq(q, 1, i - 1)) = i - 1
      /\ \A j \in 1..(i - 1) : SubSeq(q, 1, i - 1)[j] = q[j]
  OBVIOUS
<1>2. /\ SubSeq(q, i + 1, Len(q)) \in Seq(S) /\ Len(SubSeq(q, i + 1, Len(q))) = Len(q) - i
      /\ \A j \in 1..(Len(q) - i) : SubSeq(q, i + 1, Len(q))[j] = q[i + j]
  OBVIOUS
<1> DEFINE a == SubSeq(q, 1, i - 1)
           b == SubSeq(q, i + 1, Len(q))
<1>5. RemoveAt(q, i) = a \o b
  BY DEF RemoveAt
<1>0. a \in Seq(S) /\ b \in Seq(S) /\ Len(a) = i - 1 /\ Len(b) = Len(q) - i
  BY <1>1, <1>2
<1> HIDE DEF a, b
<1>3. a \o b \in Seq(S) /\ Len(a \o b) = Len(q) - 1
  BY <1>0
<1>4. \A j \in 1..(Len(q) - 1) : (a \o b)[j] = IF j < i THEN a[j] ELSE b[j - (i - 1)]
  BY <1>0
<1>6. ASSUME NEW j \in 1..(Len(q) - 1) PROVE (a \o b)[j] = IF j < i THEN q[j] ELSE q[j + 1]
  <2>1. CASE j < i
    BY <1>1, <1>4, <2>1 DEF a
  <2>2. CASE ~(j < i)
    <3>1. j - (i - 1) \in 1..(Len(q) - i) /\ i + (j - (i - 1)) = j + 1
      BY <2>2
    <3>2. QED
      BY <1>2, <1>4, <2>2, <3>1 DEF b
  <2>3. QED
    BY <2>1, <2>2
<1>7. QED
  BY <1>3, <1>5, <1>6

(* When a call leaves the line of the lock, those that stay are in it once,*)
(* in the same order, and the call is not.                                 *)
LEMMA LineShrinks ==
  ASSUME NEW q \in Seq(Calls), Distinct(q), NEW i \in 1..Len(q), NEW r, r = RemoveAt(q, i)
  PROVE  /\ r \in Seq(Calls) /\ Distinct(r)
         /\ \A j \in 1..Len(r) : r[j] # q[i] /\ \E n \in 1..Len(q) : r[j] = q[n]
         /\ i # 1 => r # <<>> /\ r[1] = q[1]
<1>1. /\ r \in Seq(Calls) /\ Len(r) = Len(q) - 1
      /\ \A j \in 1..(Len(q) - 1) : r[j] = IF j < i THEN q[j] ELSE q[j + 1]
  BY RemoveElements
<1>2. \A j \in 1..Len(r) : \E n \in 1..Len(q) : n # i /\ r[j] = q[n]
  BY <1>1
<1>3. \A j, l \in 1..Len(r) : r[j] = r[l] => j = l
  BY <1>1 DEF Distinct
<1>4. i # 1 => r # <<>> /\ r[1] = q[1]
  BY <1>1
<1>5. QED
  BY <1>1, <1>2, <1>3, <1>4 DEF Distinct

(* Releasing the lock removes the first of its line.                       *)
LEMMA ReleaseRemoves ==
  ASSUME NEW q \in Seq(Calls), q # <<>>
  PROVE  SubSeq(q, 2, Len(q)) = RemoveAt(q, 1)
<1>1. /\ SubSeq(q, 1, 0) = <<>> /\ SubSeq(q, 2, Len(q)) \in Seq(Calls)
      /\ RemoveAt(q, 1) = SubSeq(q, 1, 0) \o SubSeq(q, 2, Len(q))
  BY DEF RemoveAt
<1>2. \A t \in Seq(Calls) : <<>> \o t = t
  OBVIOUS
<1>3. QED
  BY <1>1, <1>2

-----------------------------------------------------------------------------
(* The line stays in order when the call that leaves it neither waits for  *)
(* the lock nor holds it any more.                                         *)
LEMMA LockAfterLeaving ==
  ASSUME TypeOK, InLock, NEW k \in Calls, NEW i \in 1..Len(lock), lock[i] = k,
         lock' = RemoveAt(lock, i), NEW p \in {"await", "done"}, cpc' = [cpc EXCEPT ![k] = p]
  PROVE  InLock'
<1>1. /\ lock \in Seq(Calls)
      /\ cpc \in [Calls -> {"idle", "lock", "drain", "await", "perform", "done"}]
  BY DEF TypeOK, ClientTypeOK, CallTypeOK
<1>2. /\ lock' \in Seq(Calls) /\ Distinct(lock')
      /\ \A j \in 1..Len(lock') : lock'[j] # k /\ \E n \in 1..Len(lock) : lock'[j] = lock[n]
      /\ i # 1 => lock' # <<>> /\ lock'[1] = lock[1]
  BY <1>1, LineShrinks DEF InLock
<1>3. \A j \in 1..Len(lock') : cpc'[lock'[j]] \in {"lock", "drain"}
  BY <1>1, <1>2 DEF InLock
<1>4. \A m \in Calls : cpc'[m] = "drain" => m # k /\ cpc[m] = "drain"
  BY <1>1
<1>5. \A m \in Calls : cpc'[m] = "drain" => lock' # <<>> /\ lock'[1] = m
  BY <1>2, <1>4 DEF InLock
<1>6. QED
  BY <1>2, <1>3, <1>5 DEF InLock

(* The steps of a call: it is in the line, or registered, or done.         *)
LEMMA LeftAck ==
  ASSUME TypeOK, AckTrail, LeftTrail, NEW k \in Calls, Ack(k)
  PROVE  LeftTrail'
<1> USE DEF clientVars, streamVars, connVars, callVars, serviceVars
<1>0. /\ lock \in Seq(Calls) /\ pending \subseteq Calls
      /\ cpc \in [Calls -> {"idle", "lock", "drain", "await", "perform", "done"}]
      /\ fut \in [Calls -> {"none", "waiting", "acked", "other", "cancelled"} \cup Errors]
      /\ result \in [Calls -> {"none", "acked", "cancelled", "attribute", "failed"}]
      /\ wire \in [Conns -> SUBSET Calls]
  BY DEF TypeOK, ClientTypeOK, CallTypeOK, ServiceTypeOK
<1>00. /\ Registered /\ InLock /\ Unsent
       /\ UNCHANGED recorded
  BY DEF LeftTrail, Ack, AckBegin, AckAcquire, End, DrainDone, DrainFails, LeaveWrite, AckReturn, AckPerform,
    CancelWrite, CancelAwait
<1>1. cpc[k] # "done" => result[k] = "none"
  BY <1>00 DEF Unsent
<1>2. cpc[k] \in {"idle", "lock", "perform"} => k \notin pending
  BY <1>00 DEF Registered
<1>3. ASSUME cpc[k] \notin {"lock", "drain"}, NEW p \in {"perform", "done"}, cpc' = [cpc EXCEPT ![k] = p],
             UNCHANGED lock
      PROVE  InLock'
  BY <1>0, <1>00, <1>3 DEF InLock
<1>4. ASSUME Write(k), conn \in Conns, cpc[k] \in {"idle", "lock"}, UNCHANGED result PROVE Registered' /\ Unsent'
  <2>1. Registered'
    BY <1>0, <1>00, <1>4 DEF Registered, Write
  <2>2. wire'[conn] \subseteq wire[conn] \cup {k} /\ \A c \in Conns : c # conn => wire'[c] = wire[c]
    BY <1>0, <1>4 DEF Write
  <2>3. Unsent'
    BY <1>0, <1>00, <1>1, <1>4, <2>2 DEF Unsent, Write
  <2>4. QED
    BY <2>1, <2>3
<1>5. conn # None => conn \in Conns
  BY DEF TypeOK, ClientTypeOK
<1>6. CASE AckBegin(k)
  <2>1. cpc[k] = "idle" /\ UNCHANGED result
    BY <1>6 DEF AckBegin
  <2>2. CASE conn = None /\ cpc' = [cpc EXCEPT ![k] = "perform"] /\ UNCHANGED <<pending, lock, fut, via, wire>>
    <3>1. Registered' /\ Unsent'
      BY <1>0, <1>00, <1>1, <1>2, <2>1, <2>2 DEF Registered, Unsent
    <3>2. QED
      BY <1>3, <2>1, <2>2, <3>1 DEF LeftTrail
  <2>3. CASE /\ cpc' = [cpc EXCEPT ![k] = "lock"] /\ lock # <<>> /\ lock' = Append(lock, k)
             /\ UNCHANGED <<pending, fut, via, wire>>
    <3>1. Registered' /\ Unsent'
      BY <1>0, <1>00, <1>1, <1>2, <2>1, <2>3 DEF Registered, Unsent
    <3>2. \A i \in 1..Len(lock) : lock[i] # k
      BY <1>00, <2>1 DEF InLock
    <3>3. Len(lock') = Len(lock) + 1 /\ lock'[Len(lock) + 1] = k /\ \A i \in 1..Len(lock) : lock'[i] = lock[i]
      BY <1>0, <2>3
    <3>4. Distinct(lock')
      BY <1>0, <1>00, <3>2, <3>3 DEF InLock, Distinct
    <3>5. \A i \in 1..Len(lock') : cpc'[lock'[i]] \in {"lock", "drain"}
      BY <1>0, <1>00, <2>3, <3>3 DEF InLock
    <3>6. \A m \in Calls : cpc'[m] = "drain" => lock' # <<>> /\ lock'[1] = m
      BY <1>0, <1>00, <2>3, <3>3 DEF InLock
    <3>7. QED
      BY <3>1, <3>4, <3>5, <3>6 DEF LeftTrail, InLock
  <2>4. CASE conn # None /\ lock = <<>> /\ lock' = <<k>> /\ Write(k)
    <3>1. cpc' = [cpc EXCEPT ![k] = "drain"]
      BY <2>4 DEF Write
    <3>2. InLock'
      BY <1>0, <1>00, <2>4, <3>1 DEF InLock, Distinct
    <3>3. QED
      BY <1>4, <1>5, <2>1, <2>4, <3>2 DEF LeftTrail
  <2>5. QED
    BY <1>6, <2>2, <2>3, <2>4 DEF AckBegin
<1>7. CASE AckAcquire(k)
  <2>1. cpc[k] = "lock" /\ lock # <<>> /\ lock[1] = k
    BY <1>7 DEF AckAcquire, End
  <2>2. CASE conn # None /\ Write(k) /\ UNCHANGED <<lock, result>>
    <3>1. cpc' = [cpc EXCEPT ![k] = "drain"]
      BY <2>2 DEF Write
    <3>2. InLock'
      BY <1>0, <1>00, <2>1, <2>2, <3>1 DEF InLock
    <3>3. QED
      BY <1>4, <1>5, <2>1, <2>2, <3>2 DEF LeftTrail
  <2>3. CASE /\ cpc' = [cpc EXCEPT ![k] = "done"] /\ result' = [result EXCEPT ![k] = "attribute"]
             /\ Release /\ UNCHANGED <<pending, fut, wire>>
    <3>1. Registered'
      BY <1>0, <1>00, <1>2, <2>1, <2>3 DEF Registered
    <3>2. Unsent'
      BY <1>0, <1>00, <2>1, <2>3 DEF Unsent, AckTrail
    <3>3. 1 \in 1..Len(lock) /\ lock' = RemoveAt(lock, 1)
      BY <1>0, <2>1, <2>3, ReleaseRemoves DEF Release
    <3>4. InLock'
      BY <1>00, <2>1, <2>3, <3>3, LockAfterLeaving
    <3>5. QED
      BY <3>1, <3>2, <3>4 DEF LeftTrail
  <2>4. QED
    BY <1>7, <2>2, <2>3 DEF AckAcquire, End
<1>8. CASE DrainDone(k)
  <2>1. cpc[k] = "drain" /\ cpc' = [cpc EXCEPT ![k] = "await"] /\ Release /\ UNCHANGED <<pending, fut, result, wire>>
    BY <1>8 DEF DrainDone
  <2>2. Registered' /\ Unsent'
    BY <1>0, <1>00, <1>1, <2>1 DEF Registered, Unsent
  <2>3. lock # <<>> /\ lock[1] = k
    BY <1>00, <2>1 DEF InLock
  <2>4. 1 \in 1..Len(lock) /\ lock' = RemoveAt(lock, 1)
    BY <1>0, <2>1, <2>3, ReleaseRemoves DEF Release
  <2>5. InLock'
    BY <1>00, <2>1, <2>3, <2>4, LockAfterLeaving
  <2>6. QED
    BY <2>2, <2>5 DEF LeftTrail
<1>9. ASSUME NEW e \in {"failed", "cancelled"}, LeaveWrite(k, e) PROVE LeftTrail'
  <2>1. PICK i \in 1..Len(lock) : lock[i] = k /\ lock' = RemoveAt(lock, i)
    BY <1>9 DEF LeaveWrite, End
  <2>2. /\ cpc' = [cpc EXCEPT ![k] = "done"] /\ result' = [result EXCEPT ![k] = e] /\ pending' = pending \ {k}
        /\ fut' = [fut EXCEPT ![k] = "none"] /\ UNCHANGED wire
    BY <1>9 DEF LeaveWrite, End
  <2>3. Registered' /\ Unsent'
    BY <1>0, <1>00, <2>2 DEF Registered, Unsent
  <2>4. InLock'
    BY <1>00, <2>1, <2>2, LockAfterLeaving
  <2>5. QED
    BY <2>3, <2>4 DEF LeftTrail
<1>10. CASE AckReturn(k) \/ AckPerform(k) \/ CancelAwait(k)
  <2>1. /\ cpc[k] \in {"await", "perform"} /\ cpc' = [cpc EXCEPT ![k] = "done"]
        /\ UNCHANGED <<pending, lock, wire>>
    BY <1>10 DEF AckReturn, End, AckPerform, CancelAwait
  <2>2. InLock'
    BY <1>3, <2>1
  <2>3. PICK e : e # "attribute" /\ result' = [result EXCEPT ![k] = e]
    BY <1>0, <1>10 DEF AckReturn, End, AckPerform, CancelAwait, Errors
  <2>4. Unsent'
    BY <1>0, <1>00, <2>1, <2>3 DEF Unsent
  <2>5. Registered'
    <3>1. CASE CancelAwait(k)
      BY <1>0, <1>00, <3>1 DEF CancelAwait, End, Registered
    <3>2. CASE AckReturn(k) \/ AckPerform(k)
      <4>1. k \notin pending /\ \A j \in Calls \ {k} : fut'[j] = fut[j]
        BY <1>0, <1>00, <3>2 DEF AckReturn, AckPerform, Registered
      <4>2. QED
        BY <1>0, <1>00, <2>1, <2>3, <4>1 DEF Registered
    <3>3. QED
      BY <1>10, <3>1, <3>2
  <2>6. QED
    BY <2>2, <2>4, <2>5 DEF LeftTrail
<1>11. QED
  BY <1>6, <1>7, <1>8, <1>9, <1>10 DEF Ack, DrainFails, CancelWrite

(* LeftTrail is inductive, given the types and the trail of ack(): streams *)
(* and readers only take registrations away, and the service only records  *)
(* what was sent to it.                                                    *)
LEMMA LeftNext == TypeOK /\ AckTrail /\ LeftTrail /\ [Next]_vars => LeftTrail'
<1> SUFFICES ASSUME TypeOK, AckTrail, LeftTrail, [Next]_vars
             PROVE  LeftTrail'
  OBVIOUS
<1> USE DEF clientVars, streamVars, connVars, callVars, serviceVars
<1>1. ASSUME UNCHANGED <<lock, cpc, result, recorded, wire>>,
             \A k \in pending' : k \in pending /\ fut'[k] = fut[k]
      PROVE  LeftTrail'
  BY <1>1 DEF LeftTrail, Registered, InLock, Unsent
<1>2. ASSUME NEW s \in Streams, Subscribe(s) PROVE LeftTrail'
  BY <1>1, <1>2 DEF Subscribe, OpenConnection, Subscribed, SubscribeFails, YieldEvent, RaiseItem, NextEvent,
    Abandon, Wake, CancelReader, Unwind, FailPending, Closed
<1>3. ASSUME NEW c \in Conns, ReadFrame(c) PROVE LeftTrail'
  <2>1. UNCHANGED <<lock, cpc, result, recorded, wire>>
    BY <1>3 DEF ReadFrame
  <2>2. pending' = {} \/ UNCHANGED <<pending, fut>> \/ RouteAnswer(c)
    BY <1>3 DEF ReadFrame, RouteToCancelled, RouteEvent, RouteUnclaimed, ReaderFails, FailPending
  <2>3. RouteAnswer(c) => \A k \in pending' : k \in pending /\ fut'[k] = fut[k]
    BY DEF RouteAnswer, TypeOK, ClientTypeOK, CallTypeOK
  <2>4. QED
    BY <1>1, <2>1, <2>2, <2>3
<1>4. ASSUME NEW c \in Conns, Service(c) PROVE LeftTrail'
  <2>1. UNCHANGED <<lock, cpc, result, pending, fut>> /\ wire \in [Conns -> SUBSET Calls]
    BY <1>4 DEF Service, Accept, Refuse, Deliver, HandleAck, Lost, Backpressure, Drop, Garble, NoticeClosed, TypeOK,
      ServiceTypeOK
  <2>2. \/ UNCHANGED wire
        \/ wire' = [wire EXCEPT ![c] = {}]
        \/ \E k \in Calls : wire' = [wire EXCEPT ![c] = @ \ {k}]
    BY <1>4 DEF Service, Accept, Refuse, Deliver, HandleAck, Lost, Backpressure, Drop, Garble, NoticeClosed
  <2>3. \A d \in Conns : wire'[d] \subseteq wire[d]
    BY <2>1, <2>2
  <2>4. recorded' = recorded \/ \E k \in wire[c] : recorded' = recorded \cup {k}
    BY <1>4 DEF Service, Accept, Refuse, Deliver, HandleAck, Lost, Backpressure, Drop, Garble, NoticeClosed
  <2>5. Unsent'
    BY <2>1, <2>3, <2>4 DEF LeftTrail, Unsent
  <2>6. QED
    BY <2>1, <2>5 DEF LeftTrail, Registered, InLock
<1>5. CASE UNCHANGED vars
  BY <1>1, <1>5 DEF vars
<1>6. QED
  BY <1>2, <1>3, <1>4, <1>5, LeftAck DEF Next

(* A call of ack() that has ended, by an answer, a failure or cancellation *)
(* at any of its awaits, has left the lock and its line and, unless it was *)
(* cancelled at its last await, the client's dictionary; and one that      *)
(* found the connection gone when it had the lock never reached a service. *)
THEOREM NothingIsLeft == Spec => []NothingLeftBehind
<1>1. Init => LeftTrail
  BY DEF Init, LeftTrail, Registered, InLock, Unsent, Distinct
<1>2. TypeOK /\ LeftTrail => NothingLeftBehind
  BY DEF TypeOK, ClientTypeOK, LeftTrail, Registered, InLock, Unsent, NothingLeftBehind, Range
<1>3. QED
  BY <1>1, <1>2, LeftNext, TypeCorrect, TrailInvariant, PTL DEF Spec

-----------------------------------------------------------------------------
(* The engine implements AckContract: the step that each action is.        *)

(* Nothing the contract speaks of has changed.                             *)
LEMMA ContractStutter == UNCHANGED <<yielded, row, cpc, result, recorded>> => UNCHANGED Contract!vars
BY DEF Contract!vars, Seen, Status

LEMMA ContractInit == Init => Contract!Init
<1>1. SUFFICES ASSUME Init
      PROVE  Contract!Init
  OBVIOUS
<1>2. Seen = {}
  BY <1>1 DEF Init, Seen, Range
<1>3. QED
  BY <1>1, <1>2 DEF Init, Contract!Init, Status

(* Appending adds one element to the set of elements.                      *)
LEMMA RangeAdd ==
  ASSUME NEW S, NEW q \in Seq(S), NEW e \in S
  PROVE  Range(Append(q, e)) = Range(q) \cup {e}
<1>1. \A i \in 1..Len(q) : Append(q, e)[i] = q[i] /\ i \in 1..Len(Append(q, e))
  OBVIOUS
<1>2. Range(Append(q, e)) \subseteq Range(q) \cup {e} /\ Range(q) \subseteq Range(Append(q, e))
  BY <1>1 DEF Range
<1>3. Len(q) + 1 \in 1..Len(Append(q, e)) /\ Append(q, e)[Len(q) + 1] = e
  OBVIOUS
<1>4. QED
  BY <1>2, <1>3 DEF Range

(* A row that is yielded is handed out.                                    *)
LEMMA YieldHands ==
  ASSUME TypeOK, NEW s \in Streams, YieldEvent(s)
  PROVE  \E r \in Rows : Contract!Hand(r)
<1> DEFINE c == cur[s]
           r == Head(queue[c]).row
<1>1. c \in Conns
  BY DEF YieldEvent, TypeOK, StreamTypeOK
<1>2. Head(queue[c]) \in Items /\ Head(queue[c]).kind = "event"
  BY <1>1 DEF YieldEvent, TypeOK, ConnTypeOK
<1>3. r \in Rows
  BY <1>2 DEF Items
<1>4. yielded' = [yielded EXCEPT ![c] = Append(@, r)] /\ UNCHANGED <<row, cpc, result, recorded>>
  BY DEF YieldEvent, callVars, serviceVars
<1>5. \A d \in Conns : Range(yielded'[d]) = Range(yielded[d]) \cup (IF d = c THEN {r} ELSE {})
  BY <1>1, <1>3, <1>4, RangeAdd DEF TypeOK, ServiceTypeOK
<1>6. Seen' = Seen \cup {r}
  BY <1>1, <1>5 DEF Seen
<1>7. [k \in Calls |-> Status(k)]' = [k \in Calls |-> Status(k)]
  BY <1>4 DEF Status
<1>8. QED
  BY <1>3, <1>4, <1>6, <1>7 DEF Contract!Hand

(* A call starts, goes on without the contract's notice, or returns.       *)
LEMMA AckSteps ==
  ASSUME TypeOK, AckTrail, NEW k \in Calls, Ack(k)
  PROVE  Contract!Request(k) \/ Contract!Succeed(k) \/ Contract!Fail(k) \/ UNCHANGED Contract!vars
<1>1. UNCHANGED <<yielded, recorded>> /\ Seen' = Seen
  BY DEF Ack, AckBegin, AckAcquire, End, DrainDone, DrainFails, LeaveWrite, AckReturn, AckPerform, CancelWrite,
    CancelAwait, serviceVars, Seen
<1>2. CASE AckBegin(k)
  <2>1. PICK r \in Seen : cpc[k] = "idle" /\ row' = [row EXCEPT ![k] = r] /\ UNCHANGED result
    BY <1>2 DEF AckBegin
  <2>2. PICK p \in {"perform", "lock", "drain"} : cpc' = [cpc EXCEPT ![k] = p]
    BY <1>2 DEF AckBegin, Write
  <2>3. /\ Status(k) = "idle"
        /\ [j \in Calls |-> Status(j)]' = [[j \in Calls |-> Status(j)] EXCEPT ![k] = "running"]
    BY <2>1, <2>2 DEF Status, TypeOK, CallTypeOK
  <2>4. QED
    BY <1>1, <2>1, <2>3 DEF Contract!Request
<1>3. ASSUME cpc[k] \in {"lock", "drain"}, UNCHANGED <<row, result>>,
             NEW p \in {"drain", "await"}, cpc' = [cpc EXCEPT ![k] = p]
      PROVE  UNCHANGED Contract!vars
  <2>1. [j \in Calls |-> Status(j)]' = [j \in Calls |-> Status(j)]
    BY <1>3 DEF Status, TypeOK, CallTypeOK
  <2>2. QED
    BY <1>1, <1>3, <2>1 DEF Contract!vars
<1>4. ASSUME cpc[k] \in {"lock", "drain", "await", "perform"}, UNCHANGED row, cpc' = [cpc EXCEPT ![k] = "done"],
             NEW v, result' = [result EXCEPT ![k] = v], v = "acked" => k \in recorded
      PROVE  Contract!Succeed(k) \/ Contract!Fail(k)
  <2>1. Status(k) = "running"
    BY <1>4 DEF Status
  <2>2. [j \in Calls |-> Status(j)]'
          = [[j \in Calls |-> Status(j)] EXCEPT ![k] = IF v = "acked" THEN "acked" ELSE "failed"]
    BY <1>4 DEF Status, TypeOK, CallTypeOK
  <2>3. QED
    BY <1>1, <1>4, <2>1, <2>2 DEF Contract!Succeed, Contract!Fail
<1>5. CASE AckAcquire(k)
  <2>1. CASE conn # None
    <3>1. cpc[k] = "lock" /\ cpc' = [cpc EXCEPT ![k] = "drain"] /\ UNCHANGED <<row, result>>
      BY <1>5, <2>1 DEF AckAcquire, End, Write
    <3>2. QED
      BY <1>3, <3>1
  <2>2. CASE conn = None
    BY <1>4, <1>5, <2>2 DEF AckAcquire, End
  <2>3. QED
    BY <2>1, <2>2
<1>6. CASE DrainDone(k)
  BY <1>3, <1>6 DEF DrainDone
<1>7. CASE DrainFails(k) \/ CancelWrite(k)
  BY <1>4, <1>7 DEF DrainFails, CancelWrite, LeaveWrite, End
<1>8. CASE AckReturn(k)
  BY <1>4, <1>8 DEF AckReturn, End, AckTrail
<1>9. CASE AckPerform(k) \/ CancelAwait(k)
  BY <1>4, <1>9 DEF AckPerform, End, CancelAwait
<1>10. QED
  BY <1>2, <1>5, <1>6, <1>7, <1>8, <1>9 DEF Ack

(* The service records a call that has met it, and no row twice.           *)
LEMMA ServiceSteps ==
  ASSUME TypeOK, AckTrail, NEW c \in Conns, Service(c)
  PROVE  (\E k \in Calls : Contract!Record(k)) \/ UNCHANGED Contract!vars
<1>1. UNCHANGED <<yielded, row, cpc, result>> /\ Seen' = Seen
      /\ [k \in Calls |-> Status(k)]' = [k \in Calls |-> Status(k)]
  BY DEF Service, Accept, Refuse, Deliver, HandleAck, Lost, Backpressure, Drop, Garble, NoticeClosed,
    callVars, Seen, Status
<1>2. CASE recorded' = recorded
  BY <1>1, <1>2, ContractStutter
<1>3. ASSUME NEW k \in Calls, HandleAck(c, k), Outstanding(c, k)
      PROVE  Contract!Record(k)
  <2>1. k \in wire[c] /\ recorded' = recorded \cup {k}
    BY <1>3 DEF HandleAck
  <2>2. \A j \in recorded : row[j] # row[k]
    BY <1>3 DEF Outstanding, RecordedRows
  <2>3. Status(k) \in {"running", "failed"} /\ k \notin recorded
    BY <2>1, <2>2 DEF AckTrail, Status, TypeOK, CallTypeOK
  <2>4. QED
    BY <1>1, <2>1, <2>2, <2>3 DEF Contract!Record
<1>4. QED
  BY <1>2, <1>3 DEF Service, Accept, Refuse, Deliver, HandleAck, Lost, Backpressure, Drop, Garble,
    NoticeClosed, serviceVars

LEMMA ContractStep == TypeOK /\ AckTrail /\ [Next]_vars => [Contract!Next]_(Contract!vars)
<1>1. SUFFICES ASSUME TypeOK, AckTrail, [Next]_vars
      PROVE  [Contract!Next]_(Contract!vars)
  OBVIOUS
<1>2. ASSUME NEW s \in Streams, Subscribe(s)
      PROVE  [Contract!Next]_(Contract!vars)
  <2>1. CASE YieldEvent(s)
    BY <2>1, <1>1, YieldHands DEF Contract!Next
  <2>2. CASE ~YieldEvent(s)
    BY <1>2, <2>2, ContractStutter DEF Subscribe, OpenConnection, Subscribed, SubscribeFails, RaiseItem,
      NextEvent, Abandon, Wake, CancelReader, Unwind, Closed, callVars, serviceVars
  <2>3. QED
    BY <2>1, <2>2
<1>3. ASSUME NEW c \in Conns, ReadFrame(c)
      PROVE  UNCHANGED Contract!vars
  BY <1>3, ContractStutter DEF ReadFrame, callVars, serviceVars
<1>4. CASE UNCHANGED vars
  BY <1>4, ContractStutter DEF vars, callVars, serviceVars
<1>5. QED
  BY <1>1, <1>2, <1>3, <1>4, AckSteps, ServiceSteps DEF Next, Contract!Next

(* Whatever its connections go through, and whichever calls are cancelled, *)
(* the engine keeps the contract of ack(): a call succeeds only after the  *)
(* service recorded its own ack, and no row is recorded twice.             *)
THEOREM ImplementsContract == Spec => KeepsContract
BY ContractInit, ContractStep, TypeCorrect, TrailInvariant, PTL DEF Spec, KeepsContract, Contract!Spec

-----------------------------------------------------------------------------
(* What the reader of a connection leaves behind, with any number of       *)
(* streams.                                                                *)

(* The typed fields of one connection.                                     *)
LEMMA ConnFields ==
  ASSUME TypeOK, NEW c \in Conns
  PROVE  /\ inbox[c] \in Seq(Frames) /\ queue[c] \in Seq(Items)
         /\ sent[c] \in Seq(Rows) /\ yielded[c] \in Seq(Rows)
         /\ Len(inbox[c]) \in Nat /\ Len(queue[c]) \in Nat /\ Len(sent[c]) \in Nat /\ Len(yielded[c]) \in Nat
         /\ Handed(c) \in Nat /\ (link[c] = "up") \in BOOLEAN
BY DEF TypeOK, ConnTypeOK, ServiceTypeOK, Handed

(* What the reader does with a frame: an event is queued, an exception     *)
(* ends it, anything else leaves the queue alone.                          *)
LEMMA ReadEffect ==
  ASSUME TypeOK, NEW c \in Conns, ReadFrame(c)
  PROVE  /\ inbox[c] # <<>> /\ Head(inbox[c]) \in Frames /\ inbox' = [inbox EXCEPT ![c] = Tail(@)]
         /\ reader[c] = "running" /\ UNCHANGED <<spc, cur, outcome, link, sent, yielded>>
         /\ \/ /\ Head(inbox[c]).kind = "event"
               /\ queue' = [queue EXCEPT ![c] = Append(@, Head(inbox[c]))] /\ reader' = reader
            \/ Head(inbox[c]).kind # "event" /\ queue' = queue /\ reader' = reader
            \/ \E e \in Errors : /\ queue' = [queue EXCEPT ![c] = Append(@, [kind |-> "raise", error |-> e])]
                                 /\ reader' = [reader EXCEPT ![c] = "done"]
<1> USE DEF streamVars, serviceVars
<1> DEFINE f == Head(inbox[c])
<1>1. /\ inbox[c] # <<>> /\ inbox' = [inbox EXCEPT ![c] = Tail(@)]
      /\ reader[c] = "running" /\ UNCHANGED <<spc, cur, outcome, link, sent, yielded>>
  BY DEF ReadFrame
<1>2. f \in Frames
  BY <1>1, ConnFields, TakeFirst
<1>3. CASE RouteAnswer(c)
  BY <1>1, <1>2, <1>3 DEF RouteAnswer, Answered
<1>4. CASE RouteToCancelled(c)
  BY <1>1, <1>2, <1>4 DEF RouteToCancelled, ReaderFails, Errors
<1>5. CASE RouteEvent(c)
  BY <1>1, <1>2, <1>5 DEF RouteEvent
<1>6. CASE RouteUnclaimed(c)
  <2>1. FrameError(f) \in Errors
    BY <1>2, ErrorTypes
  <2>2. QED
    BY <1>1, <1>2, <1>6, <2>1 DEF RouteUnclaimed, ReaderFails
<1>7. QED
  BY <1>3, <1>4, <1>5, <1>6 DEF ReadFrame

(* Taking an item from a queue leaves the others in it.                    *)
LEMMA LastWordsAfterTake ==
  ASSUME TypeOK, LastWords, NEW c \in Conns, queue[c] # <<>>,
         queue' = [queue EXCEPT ![c] = Tail(@)], UNCHANGED reader
  PROVE  LastWords'
<1> SUFFICES ASSUME NEW d \in Conns, NEW i \in 1..Len(queue'[d]), queue'[d][i].kind = "raise"
             PROVE  reader'[d] = "done"
  BY DEF LastWords
<1>1. queue[c] \in Seq(Items) /\ queue \in [Conns -> Seq(Items)]
  BY DEF TypeOK, ConnTypeOK
<1>2. CASE d = c
  <2>1. i + 1 \in 1..Len(queue[c]) /\ queue'[d][i] = queue[c][i + 1]
    BY <1>1, <1>2, TailElements
  <2>2. QED
    BY <1>2, <2>1 DEF LastWords
<1>3. CASE d # c
  BY <1>1, <1>3 DEF LastWords
<1>4. QED
  BY <1>2, <1>3

(* Only the last act of a reader puts an exception on its queue.           *)
LEMMA LastWordsAfterPut ==
  ASSUME TypeOK, LastWords, NEW c \in Conns, NEW e \in Items, reader[c] = "running",
         queue' = [queue EXCEPT ![c] = Append(@, e)],
         \/ e.kind = "event" /\ UNCHANGED reader
         \/ reader' = [reader EXCEPT ![c] = "done"]
  PROVE  LastWords'
<1> SUFFICES ASSUME NEW d \in Conns, NEW i \in 1..Len(queue'[d]), queue'[d][i].kind = "raise"
             PROVE  reader'[d] = "done"
  BY DEF LastWords
<1>1. /\ queue[c] \in Seq(Items) /\ queue \in [Conns -> Seq(Items)]
      /\ reader \in [Conns -> {"none", "running", "done"}]
  BY DEF TypeOK, ConnTypeOK
<1>2. CASE d = c
  <2>1. queue'[d] = Append(queue[c], e)
    BY <1>1, <1>2
  <2>2. \/ i \in 1..Len(queue[c]) /\ queue'[d][i] = queue[c][i]
        \/ queue'[d][i] = e
    BY <1>1, <2>1, AppendElements
  <2>3. CASE reader' = [reader EXCEPT ![c] = "done"]
    BY <1>1, <1>2, <2>3
  <2>4. CASE e.kind = "event" /\ UNCHANGED reader
    BY <1>2, <2>2, <2>4 DEF LastWords
  <2>5. QED
    BY <2>3, <2>4
<1>3. CASE d # c
  BY <1>1, <1>3 DEF LastWords
<1>4. QED
  BY <1>2, <1>3

(* The steps of a stream start the reader of its own connection, or stop   *)
(* it, and take from its own queue.                                        *)
LEMMA ReaderSubscribe ==
  ASSUME TypeOK, Open, ReaderTrail, NEW s \in Streams, Subscribe(s)
  PROVE  ReaderTrail'
<1> USE DEF ReaderTrail, clientVars, streamVars, connVars
<1> DEFINE c == cur[s]
<1>1. /\ spc \in [Streams -> {"ready", "opening", "queue", "yielded", "backoff", "unwind", "joining", "closing", "ended"}]
      /\ cur \in [Streams -> Conns \cup {None}]
      /\ \A t \in Streams : spc[t] # "ready" => cur[t] \in Conns
      /\ reader \in [Conns -> {"none", "running", "done"}]
      /\ link \in [Conns -> {"new", "up", "down", "closed"}]
      /\ queue \in [Conns -> Seq(Items)]
  BY DEF TypeOK, StreamTypeOK, ConnTypeOK
<1>2. c \in Conns => link[c] # "new" /\ \A t \in Streams : t # s => cur[t] # c
  BY ConstantsAssumption DEF Open, Holders, Conns
<1>3. CASE OpenConnection(s)
  <2>1. PICK n \in Conns : /\ link[n] = "new" /\ link' = [link EXCEPT ![n] = "up"]
                           /\ cur' = [cur EXCEPT ![s] = n] /\ spc' = [spc EXCEPT ![s] = "opening"]
                           /\ UNCHANGED <<reader, queue>>
    BY <1>3 DEF OpenConnection
  <2>2. Unread' /\ LastWords'
    BY <1>1, <2>1 DEF Unread, LastWords
  <2>3. QED
    BY <2>2
<1>4. CASE Subscribed(s)
  <2>1. /\ c \in Conns /\ reader[c] = "none" /\ reader' = [reader EXCEPT ![c] = "running"]
        /\ spc' = [spc EXCEPT ![s] = "queue"] /\ UNCHANGED <<cur, queue, link>>
    BY <1>1, <1>4 DEF Subscribed, Unread
  <2>2. Unread' /\ LastWords'
    BY <1>1, <1>2, <2>1 DEF Unread, LastWords
  <2>3. QED
    BY <2>2
<1>5. CASE YieldEvent(s) \/ RaiseItem(s)
  <2>1. /\ c \in Conns /\ queue[c] # <<>> /\ queue' = [queue EXCEPT ![c] = Tail(@)]
        /\ UNCHANGED <<cur, reader, link>>
    BY <1>1, <1>5 DEF YieldEvent, RaiseItem
  <2>2. \A t \in Streams : spc'[t] = "opening" => spc[t] = "opening"
    BY <1>1, <1>5 DEF YieldEvent, RaiseItem, Raise
  <2>3. Unread' /\ LastWords'
    BY <2>1, <2>2, LastWordsAfterTake DEF Unread
  <2>4. QED
    BY <2>3
<1>6. CASE Unwind(s)
  <2>1. /\ c \in Conns /\ spc' = [spc EXCEPT ![s] = "closing"]
        /\ link' = [link EXCEPT ![c] = "closed"] /\ queue' = [queue EXCEPT ![c] = <<>>]
        /\ UNCHANGED <<cur, reader>>
    BY <1>1, <1>6 DEF Unwind
  <2>2. Unread' /\ LastWords'
    BY <1>1, <2>1 DEF Unread, LastWords
  <2>3. QED
    BY <2>2
<1>7. CASE CancelReader(s)
  <2>1. /\ c \in Conns /\ reader[c] = "running" /\ reader' = [reader EXCEPT ![c] = "done"]
        /\ spc[s] = "unwind" /\ spc' = [spc EXCEPT ![s] = "joining"] /\ UNCHANGED <<cur, queue, link>>
    BY <1>1, <1>7 DEF CancelReader, OwnsReader
  <2>2. Unread' /\ LastWords'
    BY <1>1, <1>2, <2>1 DEF Unread, LastWords
  <2>3. QED
    BY <2>2
<1>8. CASE SubscribeFails(s) \/ NextEvent(s) \/ Abandon(s) \/ Wake(s) \/ Closed(s)
  <2>1. UNCHANGED <<cur, reader, queue, link>>
    BY <1>8 DEF SubscribeFails, NextEvent, Abandon, Wake, Closed
  <2>2. \A t \in Streams : spc'[t] = "opening" => spc[t] = "opening"
    BY <1>1, <1>8 DEF SubscribeFails, Raise, NextEvent, Abandon, Wake, Closed
  <2>3. Unread' /\ LastWords'
    BY <2>1, <2>2 DEF Unread, LastWords
  <2>4. QED
    BY <2>3
<1>9. QED
  BY <1>3, <1>4, <1>5, <1>6, <1>7, <1>8 DEF Subscribe

(* The reader itself: it puts an event, or an exception and stops.         *)
LEMMA ReaderReads ==
  ASSUME TypeOK, ReaderTrail, NEW c \in Conns, ReadFrame(c)
  PROVE  ReaderTrail'
<1> DEFINE f == Head(inbox[c])
<1>1. /\ f \in Frames /\ reader[c] = "running" /\ UNCHANGED <<spc, cur, link>>
      /\ \/ f.kind = "event" /\ queue' = [queue EXCEPT ![c] = Append(@, f)] /\ reader' = reader
         \/ f.kind # "event" /\ queue' = queue /\ reader' = reader
         \/ \E e \in Errors : /\ queue' = [queue EXCEPT ![c] = Append(@, [kind |-> "raise", error |-> e])]
                              /\ reader' = [reader EXCEPT ![c] = "done"]
  BY ReadEffect
<1> HIDE DEF f
<1>2. reader \in [Conns -> {"none", "running", "done"}]
  BY DEF TypeOK, ConnTypeOK
<1>3. \A d \in Conns : reader[d] = "none" => reader'[d] = "none"
  BY <1>1, <1>2
<1>4. \A s \in Streams : spc[s] = "opening" => cur[s] \in Conns
  BY DEF TypeOK, StreamTypeOK
<1>5. Unread'
  BY <1>1, <1>3, <1>4 DEF ReaderTrail, Unread
<1>6. CASE f.kind = "event" /\ queue' = [queue EXCEPT ![c] = Append(@, f)] /\ reader' = reader
  <2>1. f \in Items
    BY <1>1, <1>6 DEF Frames, Items
  <2>2. LastWords'
    BY <1>1, <1>6, <2>1, LastWordsAfterPut DEF ReaderTrail
  <2>3. QED
    BY <1>5, <2>2 DEF ReaderTrail
<1>7. CASE queue' = queue /\ reader' = reader
  BY <1>5, <1>7 DEF ReaderTrail, LastWords
<1>8. ASSUME NEW e \in Errors, queue' = [queue EXCEPT ![c] = Append(@, [kind |-> "raise", error |-> e])],
             reader' = [reader EXCEPT ![c] = "done"]
      PROVE  ReaderTrail'
  <2>1. [kind |-> "raise", error |-> e] \in Items
    BY DEF Items
  <2>2. LastWords'
    BY <1>1, <1>8, <2>1, LastWordsAfterPut DEF ReaderTrail
  <2>3. QED
    BY <1>5, <2>2 DEF ReaderTrail
<1>9. QED
  BY <1>1, <1>6, <1>7, <1>8

(* ReaderTrail is an invariant with any number of streams.                 *)
LEMMA ReaderInvariant == Spec => []ReaderTrail
<1> USE DEF streamVars, connVars
<1>1. Init => ReaderTrail
  BY DEF Init, ReaderTrail, Unread, LastWords
<1>2. TypeOK /\ Open /\ ReaderTrail /\ [Next]_vars => ReaderTrail'
  <2> SUFFICES ASSUME TypeOK, Open, ReaderTrail, [Next]_vars PROVE ReaderTrail'
    OBVIOUS
  <2>1. ASSUME UNCHANGED <<spc, cur, reader, queue>>, \A c \in Conns : link'[c] = "new" => link[c] = "new"
        PROVE  ReaderTrail'
    BY <2>1 DEF ReaderTrail, Unread, LastWords
  <2>2. ASSUME NEW c \in Conns, Service(c) PROVE ReaderTrail'
    <3>1. /\ UNCHANGED <<spc, cur, reader, queue>>
          /\ link' = link \/ link' = [link EXCEPT ![c] = "down"]
      BY <2>2 DEF Service, Accept, Refuse, Deliver, HandleAck, Lost, Backpressure, Drop, Garble, NoticeClosed
    <3>2. link \in [Conns -> {"new", "up", "down", "closed"}]
      BY DEF TypeOK, ConnTypeOK
    <3>3. \A d \in Conns : link'[d] = "new" => link[d] = "new"
      BY <3>1, <3>2
    <3>4. QED
      BY <2>1, <3>1, <3>3
  <2>3. ASSUME NEW k \in Calls, Ack(k) PROVE ReaderTrail'
    BY <2>1, <2>3 DEF Ack, AckBegin, AckAcquire, End, DrainDone, DrainFails, LeaveWrite, AckReturn, AckPerform,
      CancelWrite, CancelAwait
  <2>4. CASE UNCHANGED vars
    BY <2>1, <2>4 DEF vars
  <2>5. QED
    BY <2>2, <2>3, <2>4, ReaderSubscribe, ReaderReads DEF Next
<1>3. QED
  BY <1>1, <1>2, TypeCorrect, OpenInvariant, PTL DEF Spec

-----------------------------------------------------------------------------
(* The fields of the client: no ack() call is forgotten and no reader is   *)
(* left running, but by a second subscribe().  The two properties are      *)
(* inductive together with what the fields name.                           *)
Fields == FieldTrail /\ NoOrphanWaiter /\ OneLiveReader

(* The client starts without streams, connections or calls.                *)
LEMMA FieldsInit == Init => Fields
BY DEF Init, Fields, FieldTrail, Named, Quiet, Started, NoOrphanWaiter, OneLiveReader

(* A step that only moves a stream, and not out of the try block, or from  *)
(* one place outside of it to another, and from the places where a reader  *)
(* may run only if its own does not run, or to another such place.         *)
LEMMA FieldsMove ==
  ASSUME TypeOK, Fields, NEW s \in Streams, spc[s] # "ready",
         UNCHANGED <<conn, pending, readerTask, cur, reader, cpc, fut, via>>,
         NEW p, spc' = [spc EXCEPT ![s] = p],
         p \in Outside => spc[s] \in Outside,
         \/ spc[s] \notin {"queue", "yielded", "unwind"} \/ p \in {"queue", "yielded", "unwind"}
         \/ reader[cur[s]] # "running"
  PROVE  Fields'
<1>1. /\ spc \in [Streams -> {"ready", "opening", "queue", "yielded", "backoff", "unwind", "joining", "closing", "ended"}]
      /\ cur[s] \in Conns /\ None \notin Conns
  BY ConstantsAssumption DEF TypeOK, StreamTypeOK, Conns
<1>2. Named' /\ Started' /\ NoOrphanWaiter'
  BY DEF Fields, FieldTrail, Named, Alone, Started, Begun, NoOrphanWaiter
<1>3. Quiet'
  BY <1>1 DEF Fields, FieldTrail, Quiet, Alone
<1>4. OneLiveReader'
  BY <1>1 DEF Fields, OneLiveReader, Alone
<1>5. QED
  BY <1>2, <1>3, <1>4 DEF Fields, FieldTrail

-----------------------------------------------------------------------------
(* The steps of a stream: a second connection ends the time alone, and the *)
(* only field a stream takes from another is then that other's.            *)
LEMMA FieldsSubscribe ==
  ASSUME TypeOK, ReaderTrail, Fields, NEW s \in Streams, Subscribe(s)
  PROVE  Fields'
<1> USE DEF clientVars, streamVars, connVars, callVars, serviceVars
<1> DEFINE c == cur[s]
<1>0. /\ spc \in [Streams -> {"ready", "opening", "queue", "yielded", "backoff", "unwind", "joining", "closing", "ended"}]
      /\ cur \in [Streams -> Conns \cup {None}] /\ (spc[s] # "ready" => c \in Conns)
      /\ None \notin Conns
      /\ reader \in [Conns -> {"none", "running", "done"}]
      /\ queue \in [Conns -> Seq(Items)]
  BY ConstantsAssumption DEF TypeOK, StreamTypeOK, ConnTypeOK, Conns
<1>00. Named /\ Quiet /\ Started /\ NoOrphanWaiter /\ OneLiveReader
  BY DEF Fields, FieldTrail
<1>1. CASE OpenConnection(s)
  <2>1. PICK d \in Conns : cur' = [cur EXCEPT ![s] = d] /\ spc' = [spc EXCEPT ![s] = "opening"]
    BY <1>1 DEF OpenConnection
  <2>2. spc[s] = "ready" /\ UNCHANGED <<conn, pending, readerTask, reader, cpc, fut, via>>
    BY <1>1 DEF OpenConnection
  <2>3. Alone' => Alone /\ \A t \in Streams : cur[t] # None => t = s
    BY <1>0, <2>1 DEF Alone
  <2>4. Alone' => conn = None /\ pending = {}
    BY <1>00, <2>2, <2>3 DEF Quiet, Outside
  <2>5. Named' /\ Quiet' /\ Started'
    BY <1>00, <2>2, <2>4 DEF Named, Quiet, Started, Begun
  <2>6. NoOrphanWaiter'
    BY <1>00, <2>2, <2>3 DEF NoOrphanWaiter
  <2>7. OneLiveReader'
    BY <1>0, <1>00, <2>1, <2>2, <2>3 DEF OneLiveReader
  <2>8. QED
    BY <2>5, <2>6, <2>7 DEF Fields, FieldTrail
<1>2. CASE Subscribed(s)
  <2>1. /\ c \in Conns /\ spc[s] = "opening" /\ conn' = c /\ readerTask' = c /\ pending' = {}
        /\ reader' = [reader EXCEPT ![c] = "running"] /\ spc' = [spc EXCEPT ![s] = "queue"]
        /\ reader[c] = "none"
        /\ UNCHANGED <<cur, cpc, fut, via>>
    BY <1>0, <1>2 DEF Subscribed, ReaderTrail, Unread
  <2>2. Alone' <=> Alone
    BY <2>1 DEF Alone
  <2>3. Named' /\ Quiet' /\ Started'
    BY <1>0, <1>00, <2>1 DEF Named, Quiet, Started, Begun, Outside
  <2>4. Alone => pending = {}
    BY <1>0, <1>00, <2>1 DEF Quiet, Outside, Alone
  <2>5. NoOrphanWaiter'
    BY <1>00, <2>1, <2>2, <2>4 DEF NoOrphanWaiter, Started, Begun
  <2>6. ASSUME NEW d \in Conns, reader'[d] = "running", d # c PROVE ~Alone
    BY <1>0, <1>00, <2>1, <2>6 DEF OneLiveReader, Alone
  <2>7. OneLiveReader'
    BY <1>0, <2>1, <2>2, <2>6 DEF OneLiveReader
  <2>8. QED
    BY <2>3, <2>5, <2>7 DEF Fields, FieldTrail
<1>3. CASE SubscribeFails(s)
  <2>1. PICK p \in {"backoff", "unwind"} : spc' = [spc EXCEPT ![s] = p]
    BY <1>3 DEF SubscribeFails, Raise
  <2>2. spc[s] = "opening" /\ UNCHANGED <<conn, pending, readerTask, cur, reader, cpc, fut, via>>
    BY <1>3 DEF SubscribeFails
  <2>3. QED
    BY <2>1, <2>2, FieldsMove DEF Outside
<1>4. CASE YieldEvent(s) \/ NextEvent(s) \/ Wake(s)
  <2>1. PICK p \in {"queue", "yielded", "unwind"} : spc' = [spc EXCEPT ![s] = p]
    BY <1>4 DEF YieldEvent, NextEvent, Wake
  <2>2. spc[s] # "ready" /\ UNCHANGED <<conn, pending, readerTask, cur, reader, cpc, fut, via>>
    BY <1>4 DEF YieldEvent, NextEvent, Wake
  <2>3. QED
    BY <2>1, <2>2, FieldsMove DEF Outside
<1>5. CASE RaiseItem(s)
  <2>1. PICK p \in {"backoff", "unwind"} : spc' = [spc EXCEPT ![s] = p]
    BY <1>5 DEF RaiseItem, Raise
  <2>2. spc[s] = "queue" /\ UNCHANGED <<conn, pending, readerTask, cur, reader, cpc, fut, via>>
    BY <1>5 DEF RaiseItem
  <2>3. reader[c] = "done"
    BY <1>0, <1>5, HeadElement DEF RaiseItem, ReaderTrail, LastWords
  <2>4. QED
    BY <2>1, <2>2, <2>3, FieldsMove DEF Outside
<1>6. CASE Abandon(s)
  <2>1. UNCHANGED <<conn, pending, readerTask, cur, reader, cpc, fut, via>>
    BY <1>6 DEF Abandon
  <2>2. CASE spc[s] \in {"opening", "queue", "yielded", "backoff"} /\ spc' = [spc EXCEPT ![s] = "unwind"]
    BY <2>1, <2>2, FieldsMove DEF Outside
  <2>3. CASE spc[s] = "closing" /\ spc' = [spc EXCEPT ![s] = "ended"]
    BY <2>1, <2>3, FieldsMove DEF Outside
  <2>4. QED
    BY <1>6, <2>2, <2>3 DEF Abandon
<1>7. CASE CancelReader(s)
  <2>1. /\ c \in Conns /\ reader' = [reader EXCEPT ![c] = "done"]
        /\ spc[s] = "unwind" /\ spc' = [spc EXCEPT ![s] = "joining"]
        /\ UNCHANGED <<conn, pending, readerTask, cur, cpc, fut, via>>
    BY <1>0, <1>7 DEF CancelReader
  <2>2. Named' /\ Started' /\ NoOrphanWaiter'
    BY <1>0, <1>00, <2>1 DEF Named, Alone, Started, Begun, NoOrphanWaiter
  <2>3. Quiet'
    BY <1>0, <2>1 DEF Quiet, Outside
  <2>4. OneLiveReader'
    BY <1>0, <1>00, <2>1 DEF OneLiveReader, Alone
  <2>5. QED
    BY <2>2, <2>3, <2>4 DEF Fields, FieldTrail
<1>8. CASE Unwind(s)
  <2>1. /\ c \in Conns /\ spc[s] \in {"unwind", "joining"} /\ spc' = [spc EXCEPT ![s] = "closing"]
        /\ conn' = Forget(conn, c) /\ pending' = {}
        /\ UNCHANGED <<cur, reader, cpc, via>>
    BY <1>0, <1>8 DEF Unwind, FailPending
  <2>2. Alone' <=> Alone
    BY <2>1 DEF Alone
  <2>3. Named' /\ Started'
    BY <1>00, <2>1, <2>2 DEF Named, Forget, Started, Begun
  <2>4. Alone => conn' = None
    BY <1>0, <1>00, <2>1 DEF Named, Alone, Forget
  <2>5. Quiet'
    BY <2>1, <2>2, <2>4 DEF Quiet
  <2>6. \A k \in Calls : fut'[k] = "waiting" => fut[k] = "waiting" /\ k \notin pending
    BY <1>8 DEF Unwind, FailPending, TypeOK, CallTypeOK
  <2>7. NoOrphanWaiter'
    BY <1>0, <1>00, <2>1, <2>2, <2>6 DEF NoOrphanWaiter, Forget, Started, Begun
  <2>8. ASSUME NEW d \in Conns, reader[d] = "running" PROVE
          IF readerTask' = d
          THEN conn' = d /\ \E t \in Streams : cur[t] = d /\ spc'[t] \in {"queue", "yielded", "unwind"}
          ELSE ~Alone
    <3>1. CASE readerTask # d
      BY <1>0, <1>8, <1>00, <2>8, <3>1 DEF Unwind, OneLiveReader, Forget
    <3>2. CASE readerTask = d
      <4>1. PICK t \in Streams : conn = d /\ cur[t] = d /\ spc[t] \in {"queue", "yielded", "unwind"}
        BY <1>00, <2>8, <3>2 DEF OneLiveReader
      <4>2. CASE spc[s] = "joining"
        BY <1>0, <1>8, <2>1, <4>1, <4>2 DEF Unwind, Alone
      <4>3. CASE spc[s] = "unwind"
        <5>1. d # c
          BY <1>8, <2>8, <3>2, <4>3 DEF Unwind, OwnsReader
        <5>2. readerTask' = d /\ conn' = d
          BY <1>8, <2>1, <3>2, <4>1, <4>3, <5>1 DEF Unwind, Forget
        <5>3. QED
          BY <1>0, <2>1, <4>1, <5>1, <5>2
      <4>4. QED
        BY <2>1, <4>2, <4>3
    <3>3. QED
      BY <3>1, <3>2
  <2>9. OneLiveReader'
    BY <2>1, <2>2, <2>8 DEF OneLiveReader
  <2>10. QED
    BY <2>3, <2>5, <2>7, <2>9 DEF Fields, FieldTrail
<1>9. CASE Closed(s)
  <2>1. PICK p \in {"ready", "ended"} : spc' = [spc EXCEPT ![s] = p]
    BY <1>9 DEF Closed
  <2>2. spc[s] = "closing" /\ UNCHANGED <<conn, pending, readerTask, cur, reader, cpc, fut, via>>
    BY <1>9 DEF Closed
  <2>3. QED
    BY <2>1, <2>2, FieldsMove DEF Outside
<1>10. QED
  BY <1>1, <1>2, <1>3, <1>4, <1>5, <1>6, <1>7, <1>8, <1>9 DEF Subscribe

-----------------------------------------------------------------------------
(* The steps of the reader: it stops, or it stays and puts an event.       *)
LEMMA FieldsReadFrame ==
  ASSUME TypeOK, Fields, NEW c \in Conns, ReadFrame(c)
  PROVE  Fields'
<1> USE DEF streamVars, serviceVars
<1> DEFINE f == Head(inbox[c])
<1>1. /\ f \in Frames /\ reader[c] = "running"
      /\ reader \in [Conns -> {"none", "running", "done"}]
      /\ fut \in [Calls -> {"none", "waiting", "acked", "other", "cancelled"} \cup Errors]
      /\ UNCHANGED <<conn, readerTask, spc, cur, cpc, via>>
  BY TakeFirst DEF ReadFrame, TypeOK, ConnTypeOK, CallTypeOK
<1>2. Named /\ Quiet /\ Started /\ NoOrphanWaiter /\ OneLiveReader
  BY DEF Fields, FieldTrail
<1>3. ASSUME reader' \in {reader, [reader EXCEPT ![c] = "done"]}, pending' \subseteq pending,
             \A k \in Calls : fut'[k] = "waiting" => fut[k] = "waiting" /\ (k \in pending => k \in pending')
      PROVE  Fields'
  <2>1. Alone' <=> Alone
    BY <1>1 DEF Alone
  <2>2. Named' /\ Quiet' /\ NoOrphanWaiter'
    BY <1>1, <1>2, <1>3, <2>1 DEF Named, Quiet, NoOrphanWaiter
  <2>3. Started' /\ OneLiveReader'
    BY <1>1, <1>2, <1>3, <2>1 DEF Started, Begun, OneLiveReader
  <2>4. QED
    BY <2>2, <2>3 DEF Fields, FieldTrail
<1>4. ASSUME NEW e \in Errors, ReaderFails(c, e) PROVE Fields'
  BY <1>1, <1>3, <1>4 DEF ReaderFails, FailPending, Errors
<1>5. CASE RouteAnswer(c)
  BY <1>1, <1>3, <1>5 DEF RouteAnswer, Answered, Answer
<1>6. CASE RouteToCancelled(c)
  BY <1>4, <1>6 DEF RouteToCancelled, Errors
<1>7. CASE RouteEvent(c)
  BY <1>3, <1>7 DEF RouteEvent
<1>8. CASE RouteUnclaimed(c)
  <2>1. FrameError(f) \in Errors
    BY <1>1, ErrorTypes
  <2>2. QED
    BY <1>3, <1>4, <1>8, <2>1 DEF RouteUnclaimed
<1>9. QED
  BY <1>5, <1>6, <1>7, <1>8 DEF ReadFrame

(* The steps of a call.  A future is registered only while the client      *)
(* names a connection, so never while a sole stream is outside its try.    *)
LEMMA FieldsAck ==
  ASSUME TypeOK, Fields, NEW k \in Calls, Ack(k)
  PROVE  Fields'
<1> USE DEF clientVars, streamVars, connVars, callVars, serviceVars
<1>1. /\ UNCHANGED <<conn, readerTask, spc, cur, reader>>
      /\ cpc \in [Calls -> {"idle", "lock", "drain", "await", "perform", "done"}]
      /\ fut \in [Calls -> {"none", "waiting", "acked", "other", "cancelled"} \cup Errors]
      /\ via \in [Calls -> Conns \cup {None}]
  BY DEF Ack, AckBegin, AckAcquire, End, DrainDone, DrainFails, LeaveWrite, AckReturn, AckPerform,
    CancelWrite, CancelAwait, TypeOK, CallTypeOK
<1>2. Named /\ Quiet /\ Started /\ NoOrphanWaiter /\ OneLiveReader
  BY DEF Fields, FieldTrail
<1>3. Alone' <=> Alone
  BY <1>1 DEF Alone
<1>4. Named' /\ OneLiveReader'
  BY <1>1, <1>2, <1>3 DEF Named, OneLiveReader
<1> SUFFICES Quiet' /\ Started' /\ NoOrphanWaiter'
  BY <1>4 DEF Fields, FieldTrail
<1>5. ASSUME Write(k), conn # None
      PROVE  Quiet' /\ Started' /\ NoOrphanWaiter'
  <2>1. Quiet' /\ NoOrphanWaiter'
    BY <1>1, <1>2, <1>3, <1>5 DEF Write, Quiet, NoOrphanWaiter
  <2>2. Started'
    BY <1>1, <1>2, <1>5 DEF Write, Started, Begun
  <2>3. QED
    BY <2>1, <2>2
<1>6. ASSUME UNCHANGED <<pending, fut, via>>, NEW p \in {"lock", "perform"}, cpc' = [cpc EXCEPT ![k] = p]
      PROVE  Quiet' /\ Started' /\ NoOrphanWaiter'
  BY <1>1, <1>2, <1>3, <1>6 DEF Quiet, Started, Begun, NoOrphanWaiter
<1>7. ASSUME NEW e, LeaveWrite(k, e)
      PROVE  Quiet' /\ Started' /\ NoOrphanWaiter'
  BY <1>1, <1>2, <1>3, <1>7 DEF LeaveWrite, End, Quiet, Started, Begun, NoOrphanWaiter
<1>8. CASE AckBegin(k)
  BY <1>5, <1>6, <1>8 DEF AckBegin
<1>15. ASSUME NEW e, End(k, e), UNCHANGED pending, fut' \in {fut, [fut EXCEPT ![k] = "none"]}
       PROVE  Quiet' /\ Started' /\ NoOrphanWaiter'
  BY <1>1, <1>2, <1>3, <1>15 DEF End, Quiet, Started, Begun, NoOrphanWaiter
<1>9. CASE AckAcquire(k)
  BY <1>5, <1>9, <1>15 DEF AckAcquire
<1>10. CASE DrainDone(k)
  BY <1>1, <1>2, <1>3, <1>10 DEF DrainDone, Quiet, Started, Begun, NoOrphanWaiter
<1>11. CASE DrainFails(k) \/ CancelWrite(k)
  BY <1>7, <1>11 DEF DrainFails, CancelWrite
<1>12. CASE AckReturn(k) \/ AckPerform(k)
  BY <1>12, <1>15 DEF AckReturn, AckPerform
<1>13. CASE CancelAwait(k)
  BY <1>1, <1>2, <1>3, <1>13 DEF CancelAwait, End, Quiet, Started, Begun, NoOrphanWaiter
<1>14. QED
  BY <1>8, <1>9, <1>10, <1>11, <1>12, <1>13 DEF Ack

(* Fields is inductive, given the types and what readers leave behind: the *)
(* service changes nothing of it.                                          *)
LEMMA FieldsNext == TypeOK /\ ReaderTrail /\ Fields /\ [Next]_vars => Fields'
<1> SUFFICES ASSUME TypeOK, ReaderTrail, Fields, [Next]_vars
             PROVE  Fields'
  OBVIOUS
<1> USE DEF clientVars, streamVars, connVars, callVars, serviceVars
<1>1. ASSUME UNCHANGED <<conn, pending, readerTask, spc, cur, reader, cpc, fut, via>> PROVE Fields'
  BY <1>1 DEF Fields, FieldTrail, Named, Quiet, Started, Begun, Alone, NoOrphanWaiter, OneLiveReader
<1>2. ASSUME NEW c \in Conns, Service(c) PROVE Fields'
  BY <1>1, <1>2 DEF Service, Accept, Refuse, Deliver, HandleAck, Lost, Backpressure, Drop, Garble, NoticeClosed
<1>3. CASE UNCHANGED vars
  BY <1>1, <1>3 DEF vars
<1>4. QED
  BY <1>2, <1>3, FieldsSubscribe, FieldsReadFrame, FieldsAck DEF Next

-----------------------------------------------------------------------------
(* A call of ack() whose response is still owed has its future in the      *)
(* client's dictionary, however connections fail and are replaced, unless a*)
(* second subscribe() has put another connection in the client since.      *)
THEOREM NoOrphans == Spec => []NoOrphanWaiter
<1>1. Fields => NoOrphanWaiter
  BY DEF Fields
<1>2. QED
  BY <1>1, FieldsInit, FieldsNext, TypeCorrect, ReaderInvariant, PTL DEF Spec

(* A running reader serves the connection the client names, and a          *)
(* generator that has yet to run its finally clause owns that connection,  *)
(* unless the client has had a second subscribe().                         *)
THEOREM OneReader == Spec => []OneLiveReader
<1>1. Fields => OneLiveReader
  BY DEF Fields
<1>2. QED
  BY <1>1, FieldsInit, FieldsNext, TypeCorrect, ReaderInvariant, PTL DEF Spec

-----------------------------------------------------------------------------
(* The order of events.  First the line of frames.                         *)

(* The frames of a line, by the number of their place.                     *)
LEMMA PlaceOfFirst ==
  ASSUME NEW q \in Seq(Frames), q # <<>>
  PROVE  /\ 1 \in 1..Len(q) /\ q[1] = Head(q) /\ Tail(q) \in Seq(Frames) /\ Len(Tail(q)) = Len(q) - 1
         /\ \A i \in 1..Len(Tail(q)) : i + 1 \in 1..Len(q) /\ Tail(q)[i] = q[i + 1]
         /\ \A i \in 2..Len(q) : i - 1 \in 1..Len(Tail(q)) /\ Tail(q)[i - 1] = q[i]
OBVIOUS

(* Taking a frame that is no event from the front keeps the line.          *)
LEMMA LineAfterOther ==
  ASSUME NEW q \in Seq(Frames), q # <<>>, Head(q).kind # "event",
         NEW s \in Seq(Rows), NEW h \in Nat, NEW up \in BOOLEAN, Line(q, s, h, up)
  PROVE  Line(Tail(q), s, h, up)
<1> DEFINE t == Tail(q)
<1>1. /\ Len(q) \in Nat /\ Len(t) = Len(q) - 1
      /\ \A i \in 1..Len(t) : i + 1 \in 1..Len(q) /\ t[i] = q[i + 1]
      /\ \A i \in 2..Len(q) : i - 1 \in 1..Len(t) /\ t[i - 1] = q[i]
  BY PlaceOfFirst
<1>2. \A r : q[1] # EventOf(r)
  BY PlaceOfFirst DEF EventOf
<1> HIDE DEF t
<1>3. Single(t)
  <2> SUFFICES ASSUME NEW i \in 1..Len(t), NEW j \in 1..Len(t), t[i].kind = "event", t[i] = t[j] PROVE i = j
    BY DEF Single
  <2>1. i + 1 \in 1..Len(q) /\ j + 1 \in 1..Len(q) /\ q[i + 1].kind = "event" /\ q[i + 1] = q[j + 1]
    BY <1>1
  <2>2. QED
    BY <2>1 DEF Line, Single
<1>4. NextInLine(t, s, h)
  <2> SUFFICES ASSUME NEW i \in 1..Len(t), t[i].kind = "event"
               PROVE  \E p \in (h + 1)..Len(s) :
                        /\ t[i] = EventOf(s[p])
                        /\ p = h + 1 \/ \E j \in 1..(i - 1) : t[j] = EventOf(s[p - 1])
    BY DEF NextInLine
  <2>1. PICK p \in (h + 1)..Len(s) :
          /\ q[i + 1] = EventOf(s[p])
          /\ p = h + 1 \/ \E j \in 1..i : q[j] = EventOf(s[p - 1])
    BY <1>1 DEF Line, NextInLine
  <2>2. ASSUME NEW j \in 1..i, q[j] = EventOf(s[p - 1])
        PROVE  j - 1 \in 1..(i - 1) /\ t[j - 1] = EventOf(s[p - 1])
    <3>1. j # 1
      BY <1>2, <2>2
    <3>2. j \in 2..Len(q)
      BY <1>1, <3>1
    <3>3. QED
      BY <1>1, <2>2, <3>1, <3>2
  <2>3. QED
    BY <1>1, <2>1, <2>2
<1>5. ASSUME up PROVE AllThere(t, s, h)
  <2> SUFFICES ASSUME NEW p \in (h + 1)..Len(s) PROVE \E i \in 1..Len(t) : t[i] = EventOf(s[p])
    BY DEF AllThere
  <2>1. PICK i \in 1..Len(q) : q[i] = EventOf(s[p])
    BY <1>5 DEF Line, AllThere
  <2>2. i \in 2..Len(q)
    BY <1>1, <1>2, <2>1
  <2>3. QED
    BY <1>1, <2>1, <2>2
<1>6. QED
  BY <1>3, <1>4, <1>5 DEF Line, t

(* An event at the front is the row to hand over next, and the line goes   *)
(* on behind it.                                                           *)
LEMMA LineAfterEvent ==
  ASSUME NEW q \in Seq(Frames), q # <<>>, Head(q).kind = "event",
         NEW s \in Seq(Rows), NEW h \in Nat, NEW up \in BOOLEAN, Line(q, s, h, up), Distinct(s)
  PROVE  h + 1 <= Len(s) /\ Head(q) = EventOf(s[h + 1]) /\ Line(Tail(q), s, h + 1, up)
<1> DEFINE t == Tail(q)
<1>1. /\ Len(q) \in Nat /\ Len(t) = Len(q) - 1 /\ 1 \in 1..Len(q) /\ q[1] = Head(q)
      /\ \A i \in 1..Len(t) : i + 1 \in 1..Len(q) /\ t[i] = q[i + 1]
      /\ \A i \in 2..Len(q) : i - 1 \in 1..Len(t) /\ t[i - 1] = q[i]
  BY PlaceOfFirst
<1> HIDE DEF t
<1>2. h + 1 \in 1..Len(s) /\ q[1] = EventOf(s[h + 1])
  BY <1>1 DEF Line, NextInLine
<1>3. \A p, r \in 1..Len(s) : EventOf(s[p]) = EventOf(s[r]) => p = r
  BY DEF Distinct, EventOf
<1>4. Single(t)
  <2> SUFFICES ASSUME NEW i \in 1..Len(t), NEW j \in 1..Len(t), t[i].kind = "event", t[i] = t[j] PROVE i = j
    BY DEF Single
  <2>1. i + 1 \in 1..Len(q) /\ j + 1 \in 1..Len(q) /\ q[i + 1].kind = "event" /\ q[i + 1] = q[j + 1]
    BY <1>1
  <2>2. QED
    BY <2>1 DEF Line, Single
<1>5. NextInLine(t, s, h + 1)
  <2> SUFFICES ASSUME NEW i \in 1..Len(t), t[i].kind = "event"
               PROVE  \E p \in (h + 2)..Len(s) :
                        /\ t[i] = EventOf(s[p])
                        /\ p = h + 2 \/ \E j \in 1..(i - 1) : t[j] = EventOf(s[p - 1])
    BY DEF NextInLine
  <2>1. PICK p \in (h + 1)..Len(s) :
          /\ q[i + 1] = EventOf(s[p])
          /\ p = h + 1 \/ \E j \in 1..i : q[j] = EventOf(s[p - 1])
    BY <1>1 DEF Line, NextInLine
  <2>2. p # h + 1
    <3>1. q[1] # q[i + 1]
      BY <1>1 DEF Line, Single
    <3>2. QED
      BY <1>2, <2>1, <3>1
  <2>3. ASSUME NEW j \in 1..i, q[j] = EventOf(s[p - 1])
        PROVE  p = h + 2 \/ \E k \in 1..(i - 1) : t[k] = EventOf(s[p - 1])
    <3>1. CASE j = 1
      BY <1>2, <1>3, <2>2, <2>3, <3>1
    <3>2. CASE j # 1
      <4>1. j \in 2..Len(q)
        BY <1>1, <3>2
      <4>2. j - 1 \in 1..(i - 1) /\ t[j - 1] = EventOf(s[p - 1])
        BY <1>1, <2>3, <3>2, <4>1
      <4>3. QED
        BY <4>2
    <3>3. QED
      BY <3>1, <3>2
  <2>4. QED
    BY <2>1, <2>2, <2>3, <1>1
<1>6. ASSUME up PROVE AllThere(t, s, h + 1)
  <2> SUFFICES ASSUME NEW p \in (h + 2)..Len(s) PROVE \E i \in 1..Len(t) : t[i] = EventOf(s[p])
    BY DEF AllThere
  <2>1. PICK i \in 1..Len(q) : q[i] = EventOf(s[p])
    BY <1>6 DEF Line, AllThere
  <2>2. i # 1
    BY <1>2, <1>3, <2>1
  <2>3. QED
    BY <1>1, <2>1, <2>2
<1>7. QED
  BY <1>1, <1>2, <1>4, <1>5, <1>6 DEF Line, t

(* Frames that are no events may be added behind it.                       *)
LEMMA LineBeforeOthers ==
  ASSUME NEW q \in Seq(Frames), NEW fs \in Seq(Frames), \A j \in 1..Len(fs) : fs[j].kind # "event",
         NEW s \in Seq(Rows), NEW h \in Nat, NEW up \in BOOLEAN, Line(q, s, h, up)
  PROVE  Line(q \o fs, s, h, up)
<1> DEFINE t == q \o fs
<1>1. /\ Len(q) \in Nat /\ 1..Len(q) \subseteq 1..Len(t) /\ Len(t) \in Nat
      /\ \A i \in 1..Len(q) : t[i] = q[i]
  OBVIOUS
<1>2. \A i \in 1..Len(t) : t[i].kind = "event" => i \in 1..Len(q)
  BY ConcatElements
<1> HIDE DEF t
<1>3. Single(t)
  <2> SUFFICES ASSUME NEW i \in 1..Len(t), NEW j \in 1..Len(t), t[i].kind = "event", t[i] = t[j] PROVE i = j
    BY DEF Single
  <2>1. i \in 1..Len(q) /\ j \in 1..Len(q)
    BY <1>2
  <2>2. QED
    BY <1>1, <2>1 DEF Line, Single
<1>4. NextInLine(t, s, h)
  <2> SUFFICES ASSUME NEW i \in 1..Len(t), t[i].kind = "event"
               PROVE  \E p \in (h + 1)..Len(s) :
                        /\ t[i] = EventOf(s[p])
                        /\ p = h + 1 \/ \E j \in 1..(i - 1) : t[j] = EventOf(s[p - 1])
    BY DEF NextInLine
  <2>1. i \in 1..Len(q) /\ t[i] = q[i] /\ \A j \in 1..(i - 1) : t[j] = q[j]
    BY <1>1, <1>2
  <2>2. QED
    BY <2>1 DEF Line, NextInLine
<1>5. up => AllThere(t, s, h)
  BY <1>1 DEF Line, AllThere
<1>6. QED
  BY <1>3, <1>4, <1>5 DEF Line, t

(* A row that was never sent before joins the line at its end.             *)
LEMMA LineBeforeEvent ==
  ASSUME NEW q \in Seq(Frames), NEW s \in Seq(Rows), NEW h \in Nat, h <= Len(s), Line(q, s, h, TRUE),
         NEW r \in Rows, \A p \in 1..Len(s) : s[p] # r
  PROVE  Line(Append(q, EventOf(r)), Append(s, r), h, TRUE)
<1> DEFINE t == Append(q, EventOf(r))
           u == Append(s, r)
<1>1. /\ Len(q) \in Nat /\ Len(t) = Len(q) + 1 /\ t[Len(t)] = EventOf(r)
      /\ \A i \in 1..Len(q) : t[i] = q[i]
  OBVIOUS
<1>2. /\ Len(s) \in Nat /\ Len(u) = Len(s) + 1 /\ u[Len(u)] = r
      /\ \A p \in 1..Len(s) : u[p] = s[p]
  OBVIOUS
<1>3. ASSUME NEW i \in 1..Len(q) PROVE q[i] # EventOf(r)
  <2>1. SUFFICES ASSUME q[i] = EventOf(r) PROVE FALSE
    OBVIOUS
  <2>2. q[i].kind = "event"
    BY <2>1 DEF EventOf
  <2>3. PICK p \in (h + 1)..Len(s) : q[i] = EventOf(s[p])
    BY <2>2 DEF Line, NextInLine
  <2>4. s[p] = r
    BY <2>1, <2>3 DEF EventOf
  <2>5. QED
    BY <2>4
<1> HIDE DEF t, u
<1>4. Single(t)
  <2> SUFFICES ASSUME NEW i \in 1..Len(t), NEW j \in 1..Len(t), t[i].kind = "event", t[i] = t[j] PROVE i = j
    BY DEF Single
  <2>1. i \in 1..Len(q) \/ i = Len(t)
    BY <1>1
  <2>2. j \in 1..Len(q) \/ j = Len(t)
    BY <1>1
  <2>3. QED
    BY <1>1, <1>3, <2>1, <2>2 DEF Line, Single
<1>5. NextInLine(t, u, h)
  <2> SUFFICES ASSUME NEW i \in 1..Len(t), t[i].kind = "event"
               PROVE  \E p \in (h + 1)..Len(u) :
                        /\ t[i] = EventOf(u[p])
                        /\ p = h + 1 \/ \E j \in 1..(i - 1) : t[j] = EventOf(u[p - 1])
    BY DEF NextInLine
  <2>1. CASE i \in 1..Len(q)
    <3>1. PICK p \in (h + 1)..Len(s) :
            /\ q[i] = EventOf(s[p])
            /\ p = h + 1 \/ \E j \in 1..(i - 1) : q[j] = EventOf(s[p - 1])
      BY <1>1, <2>1 DEF Line, NextInLine
    <3>2. p \in (h + 1)..Len(u) /\ u[p] = s[p] /\ (p # h + 1 => u[p - 1] = s[p - 1])
      BY <1>2, <3>1
    <3>3. t[i] = q[i] /\ \A j \in 1..(i - 1) : t[j] = q[j]
      BY <1>1, <2>1
    <3>4. QED
      BY <3>1, <3>2, <3>3
  <2>2. CASE i = Len(t)
    <3>1. Len(u) \in (h + 1)..Len(u) /\ t[i] = EventOf(u[Len(u)])
      BY <1>1, <1>2, <2>2
    <3>2. ASSUME Len(u) # h + 1
          PROVE  \E j \in 1..(i - 1) : t[j] = EventOf(u[Len(u) - 1])
      <4>1. Len(s) \in (h + 1)..Len(s) /\ u[Len(u) - 1] = s[Len(s)]
        BY <1>2, <3>2
      <4>2. PICK j \in 1..Len(q) : q[j] = EventOf(s[Len(s)])
        BY <4>1 DEF Line, AllThere
      <4>3. QED
        BY <1>1, <2>2, <4>1, <4>2
    <3>3. QED
      BY <3>1, <3>2
  <2>3. QED
    BY <1>1, <2>1, <2>2
<1>6. AllThere(t, u, h)
  <2> SUFFICES ASSUME NEW p \in (h + 1)..Len(u) PROVE \E i \in 1..Len(t) : t[i] = EventOf(u[p])
    BY DEF AllThere
  <2>1. CASE p \in (h + 1)..Len(s)
    BY <1>1, <1>2, <2>1 DEF Line, AllThere
  <2>2. CASE p = Len(u)
    BY <1>1, <1>2, <2>2
  <2>3. QED
    BY <1>2, <2>1, <2>2
<1>7. QED
  BY <1>4, <1>5, <1>6 DEF Line, t, u

-----------------------------------------------------------------------------
(* A prefix, element by element.                                           *)
LEMMA PrefixElements ==
  ASSUME NEW y \in Seq(Rows), NEW s \in Seq(Rows)
  PROVE  IsPrefix(y, s) <=> Len(y) <= Len(s) /\ \A i \in 1..Len(y) : y[i] = s[i]
<1>1. ASSUME Len(y) <= Len(s)
      PROVE  SubSeq(y, 1, Len(y)) = SubSeq(s, 1, Len(y)) <=> \A i \in 1..Len(y) : y[i] = s[i]
  <2>1. /\ SubSeq(y, 1, Len(y)) = [i \in 1..Len(y) |-> y[i]]
        /\ SubSeq(s, 1, Len(y)) = [i \in 1..Len(y) |-> s[i]]
    BY <1>1
  <2>2. QED
    BY <2>1
<1>2. QED
  BY <1>1 DEF IsPrefix

(* A connection on which nothing happens stays in sequence.                *)
LEMMA SequenceKept ==
  ASSUME NEW c \in Conns, InSequence(c), Listening(c)' => Listening(c),
         /\ queue'[c] = queue[c] /\ inbox'[c] = inbox[c] /\ (reader'[c] = "none" => reader[c] = "none")
         /\ sent'[c] = sent[c] /\ yielded'[c] = yielded[c],
         link'[c] \in {"up", "new"} => link'[c] = link[c], link[c] = "closed" => link'[c] = "closed"
  PROVE  InSequence(c)'
BY DEF InSequence, RowsInOrder, InLine, Line, Handed

(* While frames are still to be read the queue holds events only.          *)
LEMMA OnlyEvents ==
  ASSUME TypeOK, ReaderTrail, NEW c \in Conns, InSequence(c), Listening(c)
  PROVE  Handed(c) <= Len(sent[c])
<1>1. reader[c] # "done"
  BY DEF ReaderTrail, Unread, Listening
<1>2. \A i \in 1..Len(queue[c]) : queue[c][i].kind = "event"
  <2>1. \A i \in 1..Len(queue[c]) : queue[c][i] \in Items /\ queue[c][i].kind # "raise"
    BY <1>1, ConnFields DEF ReaderTrail, LastWords
  <2>2. QED
    BY <2>1 DEF Items
<1>3. Len(yielded[c]) <= Len(sent[c])
  BY ConnFields, PrefixElements DEF InSequence, RowsInOrder
<1>4. CASE Len(queue[c]) = 0
  BY <1>3, <1>4, ConnFields DEF Handed
<1>5. CASE Len(queue[c]) # 0
  <2>1. Len(queue[c]) \in 1..Len(queue[c])
    BY <1>5, ConnFields
  <2>2. QED
    BY <1>2, <2>1 DEF InSequence, RowsInOrder, Handed, Listening
<1>6. QED
  BY <1>4, <1>5

(* The number that is next after a sum.                                    *)
LEMMA SumNext == \A a, b \in Nat : a + (b + 1) = (a + b) + 1
OBVIOUS

(* Putting an item on the queue of a connection, in its place.             *)
LEMMA RowsAfterPut ==
  ASSUME TypeOK, NEW c \in Conns, link[c] # "closed", RowsInOrder(c), NEW e \in Items,
         queue' = [queue EXCEPT ![c] = Append(@, e)], UNCHANGED <<link, sent, yielded>>,
         e.kind = "event" => Handed(c) + 1 <= Len(sent[c]) /\ e.row = sent[c][Handed(c) + 1]
  PROVE  RowsInOrder(c)'
<1>1. queue'[c] = Append(queue[c], e) /\ Len(queue'[c]) = Len(queue[c]) + 1
  BY ConnFields DEF TypeOK, ConnTypeOK
<1>2. ASSUME NEW i \in 1..Len(queue'[c]), queue'[c][i].kind = "event"
      PROVE  Len(yielded[c]) + i <= Len(sent[c]) /\ queue'[c][i].row = sent[c][Len(yielded[c]) + i]
  <2>1. CASE i \in 1..Len(queue[c])
    <3>1. queue'[c][i] = queue[c][i]
      BY <1>1, <2>1, ConnFields
    <3>2. QED
      BY <1>2, <2>1, <3>1 DEF RowsInOrder
  <2>2. CASE i = Len(queue[c]) + 1
    <3>1. queue'[c][i] = e
      BY <1>1, <2>2, ConnFields
    <3>2. Len(yielded[c]) + i = Handed(c) + 1
      BY <2>2, ConnFields, SumNext, Zenon DEF Handed
    <3>3. QED
      BY <1>2, <3>1, <3>2
  <2>3. QED
    BY <1>1, <2>1, <2>2, ConnFields
<1>3. QED
  BY <1>2 DEF RowsInOrder

(* The reader keeps its connection in sequence.                            *)
LEMMA SequenceRead ==
  ASSUME TypeOK, ReaderTrail, OrderTrail, NEW c \in Conns, ReadFrame(c)
  PROVE  OrderTrail'
<1> DEFINE f == Head(inbox[c])
<1>1. /\ inbox[c] # <<>> /\ f \in Frames /\ inbox' = [inbox EXCEPT ![c] = Tail(@)]
      /\ reader[c] = "running" /\ UNCHANGED <<spc, cur, outcome, link, sent, yielded>>
      /\ \/ f.kind = "event" /\ queue' = [queue EXCEPT ![c] = Append(@, f)] /\ reader' = reader
         \/ f.kind # "event" /\ queue' = queue /\ reader' = reader
         \/ \E e \in Errors : /\ queue' = [queue EXCEPT ![c] = Append(@, [kind |-> "raise", error |-> e])]
                              /\ reader' = [reader EXCEPT ![c] = "done"]
  BY ReadEffect
<1> HIDE DEF f
<1>2. /\ inbox \in [Conns -> Seq(Frames)] /\ queue \in [Conns -> Seq(Items)]
      /\ reader \in [Conns -> {"none", "running", "done"}]
  BY DEF TypeOK, ConnTypeOK
<1>3. InSequence(c) /\ inbox'[c] = Tail(inbox[c]) /\ (link[c] # "closed" => Listening(c) /\ InLine(c))
  BY <1>1, <1>2 DEF OrderTrail, InSequence, Listening
<1>4. \A i \in 1..Len(queue[c]) : queue[c][i].kind # "raise"
  BY <1>1 DEF ReaderTrail, LastWords
<1>5. ASSUME NEW d \in Conns, d # c PROVE InSequence(d)'
  <2>1. /\ inbox'[d] = inbox[d] /\ queue'[d] = queue[d] /\ reader'[d] = reader[d] /\ sent'[d] = sent[d]
        /\ yielded'[d] = yielded[d] /\ link'[d] = link[d]
    BY <1>1, <1>2, <1>5
  <2>2. Listening(d)' => Listening(d)
    BY <1>1, <2>1 DEF Listening
  <2>3. QED
    BY <2>1, <2>2, SequenceKept DEF OrderTrail
<1>6. ASSUME NEW e \in Items, queue' = [queue EXCEPT ![c] = Append(@, e)]
      PROVE  /\ \A i \in 1..Len(queue'[c]) : queue'[c][i].kind = "raise" => i = Len(queue'[c])
             /\ Len(queue'[c]) = Len(queue[c]) + 1
  <2>1. queue'[c] = Append(queue[c], e) /\ Len(queue'[c]) = Len(queue[c]) + 1
    BY <1>2, <1>6
  <2>2. \A i \in 1..Len(queue[c]) : queue'[c][i] = queue[c][i]
    BY <1>2, <2>1
  <2>3. \A i \in 1..Len(queue'[c]) : i \in 1..Len(queue[c]) \/ i = Len(queue'[c])
    BY <1>2, <2>1
  <2>4. QED
    BY <1>4, <2>1, <2>2, <2>3
<1>7. Over'
  <2> SUFFICES ASSUME NEW s \in Streams, spc[s] \in {"backoff", "unwind", "joining"}, outcome[s] # "closed"
               PROVE  reader'[cur[s]] # "running" /\ queue'[cur[s]] = <<>>
    BY <1>1 DEF Over
  <2>1. cur[s] \in Conns /\ reader[cur[s]] # "running" /\ queue[cur[s]] = <<>>
    BY DEF OrderTrail, Over, TypeOK, StreamTypeOK
  <2>2. cur[s] # c
    BY <1>1, <2>1
  <2>3. QED
    BY <1>1, <1>2, <2>1, <2>2
<1>8. ASSUME link[c] = "closed" PROVE InSequence(c)'
  <2>1. ~Listening(c)' /\ reader'[c] # "none" /\ RowsInOrder(c)'
    BY <1>1, <1>2, <1>3, <1>8 DEF Listening, InSequence, RowsInOrder
  <2>2. \A i \in 1..Len(queue'[c]) : queue'[c][i].kind = "raise" => i = Len(queue'[c])
    <3>1. f.kind = "event" => f \in Items
      BY <1>1 DEF Frames, Items
    <3>2. \A e \in Errors : [kind |-> "raise", error |-> e] \in Items
      BY DEF Items
    <3>3. CASE queue' = queue
      BY <1>3, <3>3 DEF InSequence
    <3>4. QED
      BY <1>1, <1>6, <3>1, <3>2, <3>3
  <2>3. QED
    BY <1>1, <1>3, <1>8, <2>1, <2>2 DEF InSequence
<1>9. ASSUME link[c] # "closed" PROVE InSequence(c)'
  <2>1. CASE f.kind = "event" /\ queue' = [queue EXCEPT ![c] = Append(@, f)] /\ reader' = reader
    <3>1. f \in Items
      BY <1>1, <2>1 DEF Frames, Items
    <3>2. /\ Handed(c) + 1 <= Len(sent[c]) /\ f = EventOf(sent[c][Handed(c) + 1])
          /\ Line(Tail(inbox[c]), sent[c], Handed(c) + 1, link[c] = "up")
      <4>1. Line(inbox[c], sent[c], Handed(c), link[c] = "up") /\ Distinct(sent[c])
        BY <1>3, <1>9 DEF InSequence, InLine
      <4>2. inbox[c] \in Seq(Frames) /\ sent[c] \in Seq(Rows) /\ Handed(c) \in Nat /\ (link[c] = "up") \in BOOLEAN
        BY ConnFields
      <4>3. QED
        BY <1>1, <2>1, <4>1, <4>2, LineAfterEvent DEF f
    <3>3. RowsInOrder(c)'
      BY <1>1, <1>3, <1>9, <2>1, <3>1, <3>2, RowsAfterPut DEF InSequence, EventOf
    <3>4. InLine(c)'
      <4>1. Handed(c)' = Handed(c) + 1
        <5>1. yielded' = yielded /\ Len(queue'[c]) = Len(queue[c]) + 1
          BY <1>1, <1>6, <2>1, <3>1
        <5>2. QED
          BY <5>1, ConnFields, SumNext, Zenon DEF Handed
      <4>2. QED
        BY <1>1, <1>3, <3>2, <4>1 DEF InLine
    <3>5. QED
      BY <1>1, <1>3, <1>6, <2>1, <3>1, <3>3, <3>4 DEF InSequence, ReaderTrail, Unread
  <2>2. CASE f.kind # "event" /\ queue' = queue /\ reader' = reader
    <3>1. InLine(c)'
      <4>1. Line(Tail(inbox[c]), sent[c], Handed(c), link[c] = "up")
        BY <1>1, <1>3, <1>9, <2>2, ConnFields, LineAfterOther DEF InLine, f
      <4>2. QED
        BY <1>1, <1>3, <2>2, <4>1 DEF InLine, Handed
    <3>2. QED
      BY <1>1, <1>3, <2>2, <3>1 DEF InSequence, RowsInOrder, ReaderTrail, Unread
  <2>3. ASSUME NEW e \in Errors, queue' = [queue EXCEPT ![c] = Append(@, [kind |-> "raise", error |-> e])],
               reader' = [reader EXCEPT ![c] = "done"]
        PROVE  InSequence(c)'
    <3>1. [kind |-> "raise", error |-> e] \in Items
      BY DEF Items
    <3>2. RowsInOrder(c)'
      BY <1>1, <1>3, <1>9, <2>3, <3>1, RowsAfterPut DEF InSequence
    <3>3. ~Listening(c)' /\ reader'[c] = "done"
      BY <1>1, <1>2, <2>3 DEF Listening, ReaderTrail, Unread
    <3>4. QED
      BY <1>1, <1>3, <1>6, <2>3, <3>1, <3>2, <3>3 DEF InSequence, ReaderTrail, Unread
  <2>4. QED
    BY <1>1, <2>1, <2>2, <2>3
<1>10. QED
  BY <1>5, <1>7, <1>8, <1>9 DEF OrderTrail

(* A frame that is neither an event nor a reset, nor, unless that may      *)
(* befall a connection, one that is not UTF-8.                             *)
Plain(f) == f.kind \notin {"event", "reset"} /\ (f.kind = "undecodable" => "undecodable" \in Faults)

(* What the service does to a connection: frames that are neither events   *)
(* nor resets at the end of an inbox, a reset, or the next row.            *)
LEMMA ServiceEffect ==
  ASSUME TypeOK, NEW c \in Conns, Service(c)
  PROVE  /\ UNCHANGED <<spc, cur, outcome, reader, queue, yielded>>
         /\ \/ UNCHANGED <<inbox, sent, link>>
            \/ /\ link[c] = "up" /\ link' \in {link, [link EXCEPT ![c] = "down"]} /\ sent' = sent
               /\ \E fs \in Seq(Frames) : /\ \A j \in 1..Len(fs) : Plain(fs[j])
                                          /\ inbox' = [inbox EXCEPT ![c] = @ \o fs]
            \/ /\ link[c] = "up" /\ link' = [link EXCEPT ![c] = "down"] /\ sent' = sent
               /\ "reset" \in Faults /\ inbox' = [inbox EXCEPT ![c] = <<[kind |-> "reset"]>>]
            \/ \E r \in Rows : Deliver(c, r)
<1> USE DEF streamVars, connVars, callVars, clientVars, serviceVars
<1>1. UNCHANGED <<spc, cur, outcome, reader, queue, yielded>>
  BY DEF Service, Accept, Refuse, Deliver, HandleAck, Lost, Backpressure, Drop, Garble, NoticeClosed
<1> DEFINE Others(fs) == /\ link[c] = "up" /\ link' \in {link, [link EXCEPT ![c] = "down"]} /\ sent' = sent
                         /\ fs \in Seq(Frames) /\ \A j \in 1..Len(fs) : Plain(fs[j])
                         /\ inbox' = [inbox EXCEPT ![c] = @ \o fs]
<1>2. ASSUME NEW f \in Frames, Plain(f), link[c] = "up", link' = link, sent' = sent, Send(c, <<f>>)
      PROVE  \E fs : Others(fs)
  <2>1. Others(<<f>>)
    BY <1>2 DEF Send
  <2> HIDE DEF Others
  <2>2. QED
    BY <2>1
<1>3. inbox[c] \in Seq(Frames)
  BY ConnFields
<1>4. ASSUME Accept(c) PROVE \E fs : Others(fs)
  <2> DEFINE f == [kind |-> "subscribed"]
  <2>1. f \in Frames /\ Plain(f)
    BY FrameTypes DEF Plain
  <2>2. link[c] = "up" /\ link' = link /\ sent' = sent /\ Send(c, <<f>>)
    BY <1>4 DEF Accept
  <2> HIDE DEF f
  <2>3. QED
    BY <1>2, <2>1, <2>2
<1>5. ASSUME Refuse(c) PROVE \E fs : Others(fs)
  <2> DEFINE f == [kind |-> "error", call |-> None]
  <2>1. f \in Frames /\ Plain(f)
    BY FrameTypes DEF Plain
  <2>2. link[c] = "up" /\ link' = link /\ sent' = sent /\ Send(c, <<f>>)
    BY <1>5 DEF Refuse
  <2> HIDE DEF f
  <2>3. QED
    BY <1>2, <2>1, <2>2
<1>6. ASSUME Garble(c) PROVE \E fs : Others(fs)
  <2>1. PICK d \in Damage \cap Faults : link[c] = "up" /\ link' = link /\ sent' = sent /\ Send(c, <<[kind |-> d]>>)
    BY <1>6 DEF Garble
  <2>2. [kind |-> d] \in Frames /\ Plain([kind |-> d])
    BY DEF Damage, Frames, Plain
  <2>3. QED
    BY <1>2, <2>1, <2>2
<1>7. ASSUME "eof" \in Faults, Drop(c, Append(inbox[c], [kind |-> "eof"])) PROVE \E fs : Others(fs)
  <2> DEFINE fs == <<[kind |-> "eof"]>>
  <2>1. fs \in Seq(Frames) /\ Append(inbox[c], [kind |-> "eof"]) = inbox[c] \o fs /\ \A j \in 1..Len(fs) : Plain(fs[j])
    BY <1>3, ErrorTypes DEF Plain
  <2>2. Others(fs)
    BY <1>7, <2>1 DEF Drop
  <2> HIDE DEF fs
  <2>3. QED
    BY <2>2
<1>8. ASSUME Backpressure(c) PROVE \E fs : Others(fs)
  <2> DEFINE fs == <<[kind |-> "error", call |-> None], [kind |-> "eof"]>>
  <2>1. fs \in Seq(Frames) /\ \A j \in 1..Len(fs) : Plain(fs[j])
    BY FrameTypes DEF Plain
  <2>2. Others(fs)
    BY <1>8, <2>1 DEF Backpressure, Drop
  <2> HIDE DEF fs
  <2>3. QED
    BY <2>2
<1>9. ASSUME NEW k \in Calls, HandleAck(c, k)
      PROVE  (\E fs : Others(fs)) \/ UNCHANGED <<inbox, sent, link>>
  <2>1. CASE link[c] = "up"
    <3>1. PICK a \in Responses(c, k) : Send(c, <<[kind |-> a, call |-> k]>>) /\ link' = link /\ sent' = sent
      BY <1>9, <2>1 DEF HandleAck
    <3>2. [kind |-> a, call |-> k] \in Frames /\ Plain([kind |-> a, call |-> k])
      BY DEF Responses, Frames, Plain
    <3>3. QED
      BY <1>2, <2>1, <3>1, <3>2
  <2>2. CASE link[c] # "up"
    BY <1>9, <2>2 DEF HandleAck
  <2>3. QED
    BY <2>1, <2>2
<1>10. NoticeClosed(c) => UNCHANGED <<inbox, sent, link>>
  BY DEF NoticeClosed
<1>11. CASE "reset" \in Faults /\ Drop(c, <<[kind |-> "reset"]>>)
  BY <1>1, <1>11 DEF Drop
<1> HIDE DEF Others
<1>12. (\E fs : Others(fs)) \/ UNCHANGED <<inbox, sent, link>>
       \/ ("reset" \in Faults /\ Drop(c, <<[kind |-> "reset"]>>)) \/ \E r \in Rows : Deliver(c, r)
  BY <1>2, <1>4, <1>5, <1>6, <1>7, <1>8, <1>9, <1>10 DEF Service, Lost
<1>13. CASE \E fs : Others(fs)
  BY <1>1, <1>13 DEF Others
<1>14. QED
  BY <1>1, <1>11, <1>12, <1>13

(* The service keeps every connection in sequence.                         *)
LEMMA SequenceService ==
  ASSUME TypeOK, ReaderTrail, OrderTrail, NEW c \in Conns, Service(c)
  PROVE  OrderTrail'
<1>1. UNCHANGED <<spc, cur, outcome, reader, queue, yielded>>
  BY ServiceEffect
<1>2. /\ inbox \in [Conns -> Seq(Frames)] /\ sent \in [Conns -> Seq(Rows)]
      /\ link \in [Conns -> {"new", "up", "down", "closed"}]
  BY DEF TypeOK, ConnTypeOK, ServiceTypeOK
<1>3. \A d \in Conns : InSequence(d) /\ (Listening(d)' <=> Listening(d))
  <2>1. link' = link \/ (link[c] = "up" /\ link' = [link EXCEPT ![c] = "down"])
    BY ServiceEffect DEF Deliver, connVars
  <2>2. \A d \in Conns : link'[d] = "closed" <=> link[d] = "closed"
    BY <1>2, <2>1
  <2>3. QED
    BY <1>1, <2>2 DEF OrderTrail, Listening
<1>4. Over'
  BY <1>1 DEF OrderTrail, Over
<1> SUFFICES \A d \in Conns : InSequence(d)'
  BY <1>4 DEF OrderTrail
<1>5. CASE UNCHANGED <<inbox, sent, link>>
  BY <1>1, <1>3, <1>5, SequenceKept
<1>6. ASSUME link[c] = "up", link' \in {link, [link EXCEPT ![c] = "down"]}, sent' = sent, NEW q \in Seq(Frames),
             inbox' = [inbox EXCEPT ![c] = q],
             Listening(c) => Line(q, sent[c], Handed(c), link'[c] = "up")
      PROVE  \A d \in Conns : InSequence(d)'
  <2>1. InSequence(c)'
    <3>1. inbox'[c] = q /\ link'[c] \in {"up", "down"}
      BY <1>2, <1>6
    <3>2. QED
      BY <1>1, <1>3, <1>6, <3>1 DEF InSequence, RowsInOrder, InLine, Handed
  <2>2. ASSUME NEW d \in Conns, d # c PROVE InSequence(d)'
    <3>1. inbox'[d] = inbox[d] /\ sent'[d] = sent[d] /\ link'[d] = link[d]
      BY <1>2, <1>6, <2>2
    <3>2. QED
      BY <1>1, <1>3, <3>1, SequenceKept
  <2>3. QED
    BY <2>1, <2>2
<1>7. ASSUME link[c] = "up", link' \in {link, [link EXCEPT ![c] = "down"]}, sent' = sent, NEW fs \in Seq(Frames),
             \A j \in 1..Len(fs) : fs[j].kind # "event", inbox' = [inbox EXCEPT ![c] = @ \o fs]
      PROVE  \A d \in Conns : InSequence(d)'
  <2>1. inbox[c] \o fs \in Seq(Frames)
    BY <1>2, <1>7
  <2>2. ASSUME Listening(c)
        PROVE  Line(inbox[c] \o fs, sent[c], Handed(c), link'[c] = "up")
    <3>1. Line(inbox[c], sent[c], Handed(c), TRUE)
      BY <1>3, <1>7, <2>2 DEF InSequence, InLine
    <3>2. Line(inbox[c] \o fs, sent[c], Handed(c), TRUE)
      BY <1>7, <3>1, ConnFields, LineBeforeOthers
    <3>3. QED
      BY <3>2 DEF Line
  <2>3. QED
    BY <1>6, <1>7, <2>1, <2>2
<1>8. ASSUME link[c] = "up", link' = [link EXCEPT ![c] = "down"], sent' = sent,
             inbox' = [inbox EXCEPT ![c] = <<[kind |-> "reset"]>>]
      PROVE  \A d \in Conns : InSequence(d)'
  <2> DEFINE q == <<[kind |-> "reset"]>>
  <2>1. q \in Seq(Frames) /\ \A i \in 1..Len(q) : q[i].kind # "event"
    BY FrameTypes
  <2>2. link'[c] = "down"
    BY <1>2, <1>8
  <2> HIDE DEF q
  <2>3. Line(q, sent[c], Handed(c), link'[c] = "up")
    BY <2>1, <2>2 DEF Line, Single, NextInLine
  <2>4. inbox' = [inbox EXCEPT ![c] = q]
    BY <1>8 DEF q
  <2>5. QED
    BY <1>6, <1>8, <2>1, <2>3, <2>4
<1>9. ASSUME NEW r \in Rows, Deliver(c, r)
       PROVE  \A d \in Conns : InSequence(d)'
  <2> DEFINE s == sent[c]
             u == Append(sent[c], r)
  <2>1. /\ link[c] = "up" /\ link' = link /\ r \notin Range(s)
        /\ sent' = [sent EXCEPT ![c] = u] /\ inbox' = [inbox EXCEPT ![c] = @ \o <<EventOf(r)>>]
    BY <1>9 DEF Deliver, Send, EventOf, connVars
  <2>2. /\ s \in Seq(Rows) /\ Len(s) \in Nat /\ u \in Seq(Rows) /\ Len(u) = Len(s) + 1
        /\ u[Len(u)] = r /\ \A p \in 1..Len(s) : u[p] = s[p]
    BY ConnFields
  <2>3. \A p \in 1..Len(s) : s[p] # r
    BY <2>1, <2>2 DEF Range
  <2>4. EventOf(r) \in Frames /\ inbox[c] \o <<EventOf(r)>> = Append(inbox[c], EventOf(r))
    BY ConnFields, FrameTypes DEF EventOf
  <2>5. /\ inbox'[c] = Append(inbox[c], EventOf(r)) /\ sent'[c] = u
        /\ \A d \in Conns : d # c => inbox'[d] = inbox[d] /\ sent'[d] = sent[d]
    BY <1>2, <2>1, <2>4
  <2> HIDE DEF u
  <2>6. Distinct(u)
    <3> SUFFICES ASSUME NEW i \in 1..Len(u), NEW j \in 1..Len(u), u[i] = u[j] PROVE i = j
      BY DEF Distinct
    <3>1. i \in 1..Len(s) \/ i = Len(u)
      BY <2>2
    <3>2. j \in 1..Len(s) \/ j = Len(u)
      BY <2>2
    <3>3. Distinct(s)
      BY <1>3 DEF InSequence
    <3>4. QED
      BY <2>2, <2>3, <3>1, <3>2, <3>3 DEF Distinct
  <2>7. Listening(c) => InLine(c)'
    <3> SUFFICES ASSUME Listening(c) PROVE InLine(c)'
      OBVIOUS
    <3>1. Line(inbox[c], s, Handed(c), TRUE) /\ Handed(c) <= Len(s)
      BY <1>3, <2>1, OnlyEvents DEF InSequence, InLine
    <3>2. Line(Append(inbox[c], EventOf(r)), u, Handed(c), TRUE)
      BY <2>3, <3>1, ConnFields, LineBeforeEvent DEF u
    <3>3. QED
      BY <1>1, <2>1, <2>5, <3>2 DEF InLine, Handed
  <2>8. RowsInOrder(c)'
    <3>1. IsPrefix(yielded[c], u)
      <4>1. Len(yielded[c]) <= Len(s) /\ \A i \in 1..Len(yielded[c]) : yielded[c][i] = s[i]
        BY <1>3, ConnFields, PrefixElements DEF InSequence, RowsInOrder
      <4>2. Len(yielded[c]) <= Len(u) /\ \A i \in 1..Len(yielded[c]) : yielded[c][i] = u[i]
        BY <2>2, <4>1, ConnFields
      <4>3. QED
        BY <2>2, <4>2, ConnFields, PrefixElements
    <3>2. ASSUME NEW i \in 1..Len(queue[c]), queue[c][i].kind = "event"
          PROVE  Len(yielded[c]) + i <= Len(u) /\ queue[c][i].row = u[Len(yielded[c]) + i]
      <4>1. Len(yielded[c]) + i <= Len(s) /\ queue[c][i].row = s[Len(yielded[c]) + i]
        BY <1>3, <2>1, <3>2 DEF InSequence, RowsInOrder
      <4>2. Len(yielded[c]) + i \in 1..Len(s)
        BY <4>1, ConnFields
      <4>3. QED
        BY <2>2, <4>1, <4>2
    <3>3. QED
      BY <1>1, <2>5, <3>1, <3>2 DEF RowsInOrder
  <2>9. InSequence(c)'
    BY <1>1, <1>3, <2>1, <2>5, <2>6, <2>7, <2>8 DEF InSequence
  <2>10. QED
    BY <1>1, <1>3, <2>1, <2>5, <2>9, SequenceKept
<1>10. QED
  BY <1>5, <1>7, <1>8, <1>9, ServiceEffect DEF Plain

(* The end of a sequence is the end of its tail.                           *)
LEMMA EndOfTail ==
  ASSUME NEW q \in Seq(Items), q # <<>>
  PROVE  /\ Len(q) = 1 => Tail(q) = <<>>
         /\ \A i \in 1..Len(Tail(q)) : i + 1 = Len(q) => i = Len(Tail(q))
<1>1. Tail(q) \in Seq(Items) /\ Len(Tail(q)) = Len(q) - 1 /\ Len(q) \in Nat
  OBVIOUS
<1>2. Len(q) = 1 => Tail(q) = <<>>
  <2>1. ASSUME NEW u \in Seq(Items), Len(u) = 0 PROVE u = <<>>
    BY <2>1
  <2>2. Len(q) = 1 => Len(Tail(q)) = 0
    BY <1>1
  <2>3. QED
    BY <1>1, <2>1, <2>2
<1>3. \A m, n \in Nat : m = n - 1 => \A i \in 1..m : i + 1 = n => i = m
  OBVIOUS
<1>4. Len(Tail(q)) \in Nat
  BY <1>1
<1>5. \A i \in 1..Len(Tail(q)) : i + 1 = Len(q) => i = Len(Tail(q))
  BY <1>1, <1>3, <1>4, Zenon
<1>6. QED
  BY <1>2, <1>5

(* Taking the first item from a queue: an event is yielded, an exception   *)
(* was the last item.                                                      *)
LEMMA SequenceTake ==
  ASSUME TypeOK, ReaderTrail, OrderTrail, NEW c \in Conns, queue[c] # <<>>, link[c] # "closed",
         queue' = [queue EXCEPT ![c] = Tail(@)], UNCHANGED <<reader, inbox, link, sent>>,
         Listening(c)' => Listening(c),
         \/ Head(queue[c]).kind = "event" /\ yielded' = [yielded EXCEPT ![c] = Append(@, Head(queue[c]).row)]
         \/ Head(queue[c]).kind = "raise" /\ yielded' = yielded
  PROVE  /\ InSequence(c)'
         /\ Head(queue[c]).kind = "raise" => queue'[c] = <<>> /\ reader[c] = "done"
<1> DEFINE q == queue[c]
           y == yielded[c]
           s == sent[c]
<1>1. /\ q \in Seq(Items) /\ Len(q) \in Nat /\ 1 \in 1..Len(q) /\ Head(q) = q[1] /\ Head(q) \in Items
      /\ Tail(q) \in Seq(Items) /\ Len(Tail(q)) = Len(q) - 1
      /\ \A i \in 1..Len(Tail(q)) : i + 1 \in 1..Len(q) /\ Tail(q)[i] = q[i + 1]
  BY ConnFields
<1>2. y \in Seq(Rows) /\ s \in Seq(Rows) /\ Len(y) \in Nat /\ Len(s) \in Nat
  BY ConnFields
<1>3. queue'[c] = Tail(q)
  BY DEF TypeOK, ConnTypeOK
<1>4. InSequence(c) /\ RowsInOrder(c)
  BY DEF OrderTrail, InSequence
<1>5. Len(y) <= Len(s) /\ \A i \in 1..Len(y) : y[i] = s[i]
  BY <1>2, <1>4, PrefixElements DEF RowsInOrder
<1>6. \A i \in 1..Len(q) : q[i].kind = "event" => Len(y) + i <= Len(s) /\ q[i].row = s[Len(y) + i]
  BY <1>4 DEF RowsInOrder
<1>7. reader[c] # "none" /\ \A i \in 1..Len(q) : q[i].kind = "raise" => i = Len(q) /\ reader[c] = "done"
  BY <1>4 DEF InSequence, ReaderTrail, LastWords
<1> HIDE DEF q, y, s
<1>8. ASSUME NEW i \in 1..Len(Tail(q)), Tail(q)[i].kind = "raise" PROVE i = Len(Tail(q))
  <2>1. i + 1 \in 1..Len(q) /\ q[i + 1].kind = "raise"
    BY <1>1, <1>8
  <2>2. i + 1 = Len(q)
    BY <1>7, <2>1
  <2>3. q \in Seq(Items) /\ q # <<>>
    BY <1>1 DEF q
  <2>4. QED
    BY <1>8, <2>2, <2>3, EndOfTail, Zenon
<1>9. CASE Head(q).kind = "event" /\ yielded' = [yielded EXCEPT ![c] = Append(@, Head(q).row)]
  <2>1. /\ yielded'[c] = Append(y, q[1].row) /\ q[1].row \in Rows /\ q[1].row = s[Len(y) + 1] /\ Len(y) + 1 <= Len(s)
    BY <1>1, <1>6, <1>9 DEF TypeOK, ServiceTypeOK, y, Items
  <2>2. /\ yielded'[c] \in Seq(Rows) /\ Len(yielded'[c]) = Len(y) + 1
        /\ \A i \in 1..Len(y) : yielded'[c][i] = y[i]
        /\ yielded'[c][Len(y) + 1] = q[1].row
    BY <1>2, <2>1
  <2>3. IsPrefix(yielded'[c], s)
    <3>1. \A i \in 1..Len(yielded'[c]) : i \in 1..Len(y) \/ i = Len(y) + 1
      BY <1>2, <2>2
    <3>2. \A i \in 1..Len(yielded'[c]) : yielded'[c][i] = s[i]
      BY <1>5, <2>1, <2>2, <3>1
    <3>3. QED
      BY <1>2, <2>1, <2>2, <3>2, PrefixElements
  <2>4. ASSUME NEW i \in 1..Len(Tail(q)), Tail(q)[i].kind = "event"
        PROVE  Len(yielded'[c]) + i <= Len(s) /\ Tail(q)[i].row = s[Len(yielded'[c]) + i]
    <3>1. Len(yielded'[c]) + i = Len(y) + (i + 1)
      BY <1>2, <2>2
    <3>2. QED
      BY <1>1, <1>6, <2>4, <3>1
  <2>5. RowsInOrder(c)'
    BY <1>3, <2>3, <2>4 DEF RowsInOrder, s
  <2>6. Handed(c)' = Handed(c)
    <3>1. Len(yielded'[c]) + Len(Tail(q)) = Len(y) + Len(q)
      BY <1>1, <1>2, <2>2
    <3>2. QED
      BY <1>3, <3>1 DEF Handed, q, y
  <2>7. InSequence(c)'
    <3>1. Listening(c)' => InLine(c)'
      BY <1>4, <2>6 DEF InSequence, InLine
    <3>2. link[c] # "new"
      <4>1. link[c] = "new" => s = <<>>
        BY <1>4 DEF InSequence, s
      <4>2. s # <<>>
        BY <1>2, <2>1
      <4>3. QED
        BY <4>1, <4>2
    <3>3. QED
      BY <1>3, <1>4, <1>7, <1>8, <2>5, <3>1, <3>2 DEF InSequence
  <2>8. QED
    BY <1>9, <2>7 DEF q
<1>10. CASE Head(q).kind = "raise" /\ yielded' = yielded
  <2>1. 1 = Len(q) /\ reader[c] = "done"
    BY <1>1, <1>7, <1>10
  <2>2. q # <<>>
    BY DEF q
  <2>3. Tail(q) = <<>>
    BY <1>1, <2>1, <2>2, EndOfTail
  <2>4. ~Listening(c)'
    <3>1. ~Listening(c)
      BY <2>1 DEF ReaderTrail, Unread, Listening
    <3>2. QED
      BY <3>1
  <2>5. RowsInOrder(c)'
    <3>1. IsPrefix(yielded'[c], sent'[c])
      BY <1>4, <1>10 DEF RowsInOrder
    <3>2. 1..Len(queue'[c]) = {}
      <4>1. queue'[c] = <<>>
        BY <1>3, <2>3, Zenon
      <4>2. Len(<<>>) = 0 /\ 1..0 = {}
        OBVIOUS
      <4>3. QED
        BY <4>1, <4>2, Zenon
    <3>3. QED
      BY <3>1, <3>2 DEF RowsInOrder
  <2>6. InSequence(c)'
    BY <1>3, <1>4, <1>10, <2>3, <2>4, <2>5 DEF InSequence
  <2>7. QED
    BY <1>3, <2>1, <2>3, <2>6
<1>11. QED
  BY <1>9, <1>10 DEF q

(* The steps of the stream.                                                *)
LEMMA SequenceSubscribe ==
  ASSUME TypeOK, Open, ReaderTrail, OrderTrail, NEW s \in Streams, Subscribe(s)
  PROVE  OrderTrail'
<1> USE DEF streamVars, connVars, clientVars, serviceVars
<1>0. PICK c : c = cur[s]
  OBVIOUS
<1>1. /\ spc[s] # "ready" => c \in Conns
      /\ \A t \in Streams : t # s => spc'[t] = spc[t] /\ outcome'[t] = outcome[t]
      /\ DOMAIN spc = Streams /\ DOMAIN outcome = Streams /\ DOMAIN cur = Streams
  <2>1. (spc[s] # "ready" => cur[s] \in Conns) /\ DOMAIN spc = Streams /\ DOMAIN outcome = Streams /\ DOMAIN cur = Streams
    BY DEF TypeOK, StreamTypeOK
  <2>2. \A t \in Streams : t # s => spc'[t] = spc[t] /\ outcome'[t] = outcome[t]
    BY <2>1 DEF Subscribe, OpenConnection, Subscribed, SubscribeFails, Raise, YieldEvent, RaiseItem, NextEvent, Abandon,
      Wake, CancelReader, Unwind, Closed
  <2>3. QED
    BY <1>0, <2>1, <2>2
<1>2. /\ reader \in [Conns -> {"none", "running", "done"}] /\ queue \in [Conns -> Seq(Items)]
      /\ inbox \in [Conns -> Seq(Frames)] /\ link \in [Conns -> {"new", "up", "down", "closed"}]
      /\ yielded \in [Conns -> Seq(Rows)]
  BY DEF TypeOK, ConnTypeOK, ServiceTypeOK
<1>3. \A d \in Conns : InSequence(d)
  BY DEF OrderTrail
<1>4. /\ c \in Conns => link[c] # "new" /\ \A t \in Streams : t # s => cur[t] # c
      /\ spc[s] \in {"opening", "queue", "yielded", "backoff", "unwind", "joining"} => link[c] # "closed"
  BY <1>0, ConstantsAssumption DEF Open, Holders, Conns
<1>5. ASSUME cur' = cur, NEW d \in Conns, d # c,
             /\ reader'[d] = reader[d] /\ queue'[d] = queue[d] /\ inbox'[d] = inbox[d]
             /\ link'[d] = link[d] /\ sent'[d] = sent[d] /\ yielded'[d] = yielded[d]
      PROVE  InSequence(d)'
  <2>1. Listening(d)' => Listening(d)
    BY <1>0, <1>1, <1>5 DEF Listening
  <2>2. QED
    BY <1>3, <1>5, <2>1, SequenceKept
<1>6. ASSUME cur' = cur, c \in Conns
      PROVE  Listening(c)' <=> link'[c] # "closed" /\ (reader'[c] = "running" \/ spc'[s] = "opening")
  BY <1>0, <1>4, <1>6 DEF Listening
<1>7. ASSUME cur' = cur, c \in Conns, \A d \in Conns : d # c => reader'[d] = reader[d] /\ queue'[d] = queue[d],
             spc'[s] \in {"backoff", "unwind", "joining"} /\ outcome'[s] # "closed" => reader'[c] # "running" /\ queue'[c] = <<>>
      PROVE  Over'
  <2> SUFFICES ASSUME NEW t \in Streams, spc'[t] \in {"backoff", "unwind", "joining"}, outcome'[t] # "closed"
               PROVE  reader'[cur'[t]] # "running" /\ queue'[cur'[t]] = <<>>
    BY DEF Over
  <2>1. CASE t = s
    BY <1>0, <1>7, <2>1
  <2>2. CASE t # s
    <3>1. /\ spc[t] \in {"backoff", "unwind", "joining"} /\ outcome[t] # "closed" /\ cur[t] # c /\ cur[t] \in Conns
      BY <1>1, <1>4, <1>7, <2>2 DEF TypeOK, StreamTypeOK
    <3>2. QED
      BY <1>7, <3>1 DEF OrderTrail, Over
  <2>3. QED
    BY <2>1, <2>2
<1> USE <1>0
<1>8. CASE OpenConnection(s)
  <2>1. PICK n \in Conns :
          /\ link[n] = "new" /\ link' = [link EXCEPT ![n] = "up"]
          /\ cur' = [cur EXCEPT ![s] = n] /\ spc' = [spc EXCEPT ![s] = "opening"]
          /\ UNCHANGED <<reader, queue, inbox, sent, yielded>>
    BY <1>8 DEF OpenConnection
  <2>2. ASSUME NEW d \in Conns, d # n PROVE InSequence(d)'
    <3>1. link'[d] = link[d]
      BY <1>2, <2>1, <2>2
    <3>2. Listening(d)' => Listening(d)
      BY <1>1, <2>1, <2>2, <3>1 DEF Listening
    <3>3. QED
      BY <1>3, <2>1, <3>1, <3>2, SequenceKept
  <2>3. InSequence(n)'
    <3>1. reader[n] = "none"
      BY <2>1 DEF ReaderTrail, Unread
    <3>2. inbox[n] = <<>> /\ sent[n] = <<>> /\ yielded[n] = <<>> /\ queue[n] = <<>>
      BY <1>3, <2>1, <3>1 DEF InSequence
    <3>3. Line(<<>>, <<>>, Len(<<>>) + Len(<<>>), TRUE) /\ Line(<<>>, <<>>, Len(<<>>) + Len(<<>>), FALSE)
      BY DEF Line, Single, NextInLine, AllThere
    <3>4. InLine(n)'
      BY <2>1, <3>2, <3>3 DEF InLine, Handed
    <3>5. link'[n] = "up" /\ link[n] # "closed"
      BY <1>2, <2>1
    <3>6. QED
      BY <1>3, <2>1, <3>4, <3>5 DEF InSequence, RowsInOrder
  <2>4. Over'
    <3> SUFFICES ASSUME NEW t \in Streams, spc'[t] \in {"backoff", "unwind", "joining"}, outcome'[t] # "closed"
                 PROVE  reader'[cur'[t]] # "running" /\ queue'[cur'[t]] = <<>>
      BY DEF Over
    <3>1. t # s
      BY <1>1, <2>1
    <3>2. spc[t] \in {"backoff", "unwind", "joining"} /\ outcome[t] # "closed" /\ cur'[t] = cur[t]
      BY <1>1, <2>1, <3>1
    <3>3. QED
      BY <2>1, <3>2 DEF OrderTrail, Over
  <2>5. QED
    BY <2>2, <2>3, <2>4 DEF OrderTrail
<1>9. CASE Subscribed(s)
  <2>1. /\ c \in Conns /\ inbox[c] # <<>> /\ Head(inbox[c]).kind # "event" /\ spc[s] = "opening"
        /\ inbox' = [inbox EXCEPT ![c] = Tail(@)] /\ reader' = [reader EXCEPT ![c] = "running"]
        /\ spc' = [spc EXCEPT ![s] = "queue"] /\ UNCHANGED <<cur, queue, link, sent, yielded>>
    BY <1>1, <1>9 DEF Subscribed
  <2>2. ASSUME NEW d \in Conns, d # c
        PROVE  inbox'[d] = inbox[d] /\ reader'[d] = reader[d] /\ InSequence(d)'
    <3>1. inbox'[d] = inbox[d] /\ reader'[d] = reader[d]
      BY <1>2, <2>1, <2>2
    <3>2. QED
      BY <1>5, <2>1, <2>2, <3>1
  <2>3. InSequence(c)'
    <3>1. Line(inbox[c], sent[c], Handed(c), link[c] = "up")
      BY <1>3, <1>4, <2>1 DEF InSequence, InLine, Listening
    <3>2. Line(Tail(inbox[c]), sent[c], Handed(c), link[c] = "up")
      BY <2>1, <3>1, ConnFields, LineAfterOther
    <3>3. inbox'[c] = Tail(inbox[c]) /\ reader'[c] = "running" /\ link[c] # "new"
      BY <1>2, <1>4, <2>1
    <3>4. QED
      BY <1>3, <2>1, <3>2, <3>3 DEF InSequence, RowsInOrder, InLine, Handed
  <2>4. Over'
    BY <1>1, <1>7, <2>1, <2>2
  <2>5. QED
    BY <2>2, <2>3, <2>4 DEF OrderTrail
<1>10. CASE SubscribeFails(s)
  <2>1. /\ c \in Conns /\ spc[s] = "opening" /\ cur' = cur
        /\ inbox' = [inbox EXCEPT ![c] = Tail(@)] /\ UNCHANGED <<reader, queue, link, sent, yielded>>
    BY <1>1, <1>10 DEF SubscribeFails
  <2>2. spc'[s] \in {"backoff", "unwind"}
    BY <1>1, <1>10 DEF SubscribeFails, Raise
  <2>3. reader[c] = "none" /\ queue[c] = <<>> /\ link[c] # "new"
    BY <1>3, <1>4, <2>1 DEF ReaderTrail, Unread, InSequence
  <2>4. ASSUME NEW d \in Conns, d # c PROVE InSequence(d)'
    <3>1. inbox'[d] = inbox[d]
      BY <1>2, <2>1, <2>4
    <3>2. QED
      BY <1>5, <2>1, <2>4, <3>1
  <2>5. ~Listening(c)'
    BY <1>6, <2>1, <2>2, <2>3
  <2>6. InSequence(c)'
    BY <1>3, <2>1, <2>3, <2>5 DEF InSequence, RowsInOrder
  <2>7. Over'
    BY <1>7, <2>1, <2>3
  <2>8. QED
    BY <2>4, <2>6, <2>7 DEF OrderTrail
<1>11. CASE YieldEvent(s)
  <2>1. /\ c \in Conns /\ queue[c] # <<>> /\ Head(queue[c]).kind = "event" /\ spc[s] = "queue"
        /\ queue' = [queue EXCEPT ![c] = Tail(@)] /\ yielded' = [yielded EXCEPT ![c] = Append(@, Head(queue[c]).row)]
        /\ spc' = [spc EXCEPT ![s] = "yielded"] /\ UNCHANGED <<cur, reader, inbox, link, sent>>
    BY <1>1, <1>11 DEF YieldEvent
  <2>2. ASSUME NEW d \in Conns, d # c
        PROVE  queue'[d] = queue[d] /\ InSequence(d)'
    <3>1. queue'[d] = queue[d] /\ yielded'[d] = yielded[d]
      BY <1>2, <2>1, <2>2
    <3>2. QED
      BY <1>5, <2>1, <2>2, <3>1
  <2>3. Listening(c)' => Listening(c)
    BY <1>1, <1>6, <2>1 DEF Listening
  <2>4. InSequence(c)'
    BY <1>4, <2>1, <2>3, SequenceTake
  <2>5. Over'
    BY <1>1, <1>7, <2>1, <2>2
  <2>6. QED
    BY <2>2, <2>4, <2>5 DEF OrderTrail
<1>12. CASE RaiseItem(s)
  <2>1. /\ c \in Conns /\ spc[s] = "queue" /\ queue[c] # <<>> /\ Head(queue[c]).kind = "raise"
        /\ queue' = [queue EXCEPT ![c] = Tail(@)] /\ UNCHANGED <<cur, reader, inbox, link, sent, yielded>>
    BY <1>1, <1>12 DEF RaiseItem
  <2>2. spc'[s] \in {"backoff", "unwind"}
    BY <1>1, <1>12 DEF RaiseItem, Raise
  <2>3. Listening(c)' => Listening(c)
    BY <1>6, <2>1, <2>2 DEF Listening
  <2>4. ASSUME NEW d \in Conns, d # c
        PROVE  queue'[d] = queue[d] /\ InSequence(d)'
    <3>1. queue'[d] = queue[d]
      BY <1>2, <2>1, <2>4
    <3>2. QED
      BY <1>5, <2>1, <2>4, <3>1
  <2>5. InSequence(c)' /\ queue'[c] = <<>> /\ reader[c] = "done"
    BY <1>4, <2>1, <2>3, SequenceTake
  <2>6. Over'
    BY <1>7, <2>1, <2>4, <2>5
  <2>7. QED
    BY <2>4, <2>5, <2>6 DEF OrderTrail
<1>13. CASE Unwind(s)
  <2>1. /\ c \in Conns /\ spc'[s] = "closing" /\ spc[s] \in {"unwind", "joining"}
        /\ link' = [link EXCEPT ![c] = "closed"] /\ queue' = [queue EXCEPT ![c] = <<>>]
        /\ (\A d \in Conns : d # c => inbox'[d] = inbox[d]) /\ UNCHANGED <<cur, reader, sent, yielded>>
    BY <1>1, <1>2, <1>13 DEF Unwind
  <2>2. ASSUME NEW d \in Conns, d # c
        PROVE  queue'[d] = queue[d] /\ InSequence(d)'
    <3>1. queue'[d] = queue[d] /\ link'[d] = link[d]
      BY <1>2, <2>1, <2>2
    <3>2. QED
      BY <1>5, <2>1, <2>2, <3>1
  <2>3. InSequence(c)'
    <3>1. queue'[c] = <<>> /\ link'[c] = "closed"
      BY <1>2, <2>1
    <3>2. ~Listening(c)'
      BY <3>1 DEF Listening
    <3>3. QED
      BY <1>3, <2>1, <3>1, <3>2 DEF InSequence, RowsInOrder
  <2>4. Over'
    BY <1>7, <2>1, <2>2
  <2>5. QED
    BY <2>2, <2>3, <2>4 DEF OrderTrail
<1>14. CASE NextEvent(s) \/ Abandon(s) \/ Wake(s) \/ CancelReader(s) \/ Closed(s)
  <2>1. /\ UNCHANGED <<cur, queue, inbox, link, sent, yielded>> /\ c \in Conns
        /\ reader' \in {reader, [reader EXCEPT ![c] = "done"]}
    BY <1>1, <1>14 DEF NextEvent, Abandon, Wake, CancelReader, Closed
  <2>2. spc'[s] = "opening" => spc[s] = "opening"
    BY <1>1, <1>14 DEF NextEvent, Abandon, Wake, CancelReader, Closed
  <2>3. \A d \in Conns : IF d = c THEN reader'[d] \in {reader[d], "done"} ELSE reader'[d] = reader[d]
    <3>1. CASE reader' = reader
      BY <3>1
    <3>2. CASE reader' = [reader EXCEPT ![c] = "done"]
      BY <1>2, <3>2
    <3>3. QED
      BY <2>1, <3>1, <3>2
  <2>4. \A d \in Conns : d # c => InSequence(d)'
    BY <1>5, <2>1, <2>3
  <2>5. InSequence(c)'
    <3>1. Listening(c)' => Listening(c)
      BY <1>6, <2>1, <2>2, <2>3 DEF Listening
    <3>2. QED
      BY <1>3, <2>1, <2>3, <3>1, SequenceKept
  <2>6. Over'
    <3>1. spc'[s] \in {"backoff", "unwind", "joining"} /\ outcome'[s] # "closed" =>
            spc[s] \in {"backoff", "unwind", "joining"} /\ outcome[s] # "closed"
      BY <1>1, <1>14 DEF NextEvent, Abandon, Wake, CancelReader, Closed
    <3>2. spc'[s] \in {"backoff", "unwind", "joining"} /\ outcome'[s] # "closed" => reader'[c] # "running" /\ queue'[c] = <<>>
      BY <2>1, <2>3, <3>1 DEF OrderTrail, Over
    <3>3. QED
      BY <1>7, <2>1, <2>3, <3>2
  <2>7. QED
    BY <2>4, <2>5, <2>6 DEF OrderTrail
<1>15. QED
  BY <1>8, <1>9, <1>10, <1>11, <1>12, <1>13, <1>14 DEF Subscribe

(* Calls leave the sequence of events alone.                               *)
LEMMA SequenceUnchanged ==
  ASSUME OrderTrail, UNCHANGED <<spc, cur, outcome, reader, queue, inbox, link, sent, yielded>>
  PROVE  OrderTrail'
<1>1. \A c \in Conns : Listening(c)' <=> Listening(c)
  BY DEF Listening
<1>2. \A c \in Conns : InSequence(c)'
  BY <1>1, SequenceKept DEF OrderTrail
<1>3. QED
  BY <1>2 DEF OrderTrail, Over

(* Nothing was sent or read in the initial states.                         *)
LEMMA SequenceInit == Init => OrderTrail
<1> SUFFICES ASSUME Init PROVE OrderTrail
  OBVIOUS
<1>1. IsPrefix(<<>>, <<>>)
  BY DEF IsPrefix
<1>2. \A c \in Conns : InSequence(c)
  BY <1>1 DEF Init, InSequence, Distinct, Listening, RowsInOrder
<1>3. QED
  BY <1>2 DEF Init, OrderTrail, Over

(* OrderTrail is an invariant of the engine with any number of streams.    *)
LEMMA SequenceInvariant == Spec => []OrderTrail
<1>1. TypeOK /\ Open /\ ReaderTrail /\ OrderTrail /\ [Next]_vars => OrderTrail'
  <2> SUFFICES ASSUME TypeOK, Open, ReaderTrail, OrderTrail, [Next]_vars PROVE OrderTrail'
    OBVIOUS
  <2>1. ASSUME NEW k \in Calls, Ack(k) PROVE OrderTrail'
    BY <2>1, SequenceUnchanged DEF Ack, AckBegin, AckAcquire, End, DrainDone, DrainFails, LeaveWrite, AckReturn, AckPerform,
      CancelWrite, CancelAwait, streamVars, connVars, serviceVars
  <2>2. CASE UNCHANGED vars
    BY <2>2, SequenceUnchanged DEF vars, streamVars, connVars, serviceVars
  <2>3. QED
    BY <2>1, <2>2, SequenceSubscribe, SequenceRead, SequenceService DEF Next
<1>2. QED
  BY <1>1, SequenceInit, OpenInvariant, ReaderInvariant, TypeCorrect, PTL DEF Spec

(* Each consumer sees the rows of its connection in the order in which     *)
(* they were sent and without a gap, for any number of streams of one      *)
(* client, of rows, calls and connections, and whatever befalls them.      *)
THEOREM RowsComeInOrder == Spec => []EventsInOrder
<1>1. OrderTrail => EventsInOrder
  BY DEF OrderTrail, InSequence, EventsInOrder
<1>2. QED
  BY <1>1, SequenceInvariant, PTL

(* An error reaches the consumer after every event read before it.         *)
THEOREM ErrorsComeLast == Spec => []ErrorAfterEvents
<1>1. OrderTrail => ErrorAfterEvents
  BY DEF OrderTrail, Over, ErrorAfterEvents
<1>2. QED
  BY <1>1, SequenceInvariant, PTL

-----------------------------------------------------------------------------
(* Interruptions are retried: no reset, no frame that is not UTF-8 and no  *)
(* cancelled call means that a reader fails in one of two ways.  Any number*)
(* of streams.                                                             *)

(* Taking the head leaves a calm inbox and a mild queue.                   *)
LEMMA MildTail ==
  /\ \A q \in Seq(Frames) : q # <<>> /\ Calm(q) => Calm(Tail(q)) /\ Head(q).kind \notin {"reset", "undecodable"}
  /\ \A q \in Seq(Items) : q # <<>> /\ Mild(q) =>
       Mild(Tail(q)) /\ (Head(q).kind = "raise" => Head(q).error \in {"transport", "service"})
<1>1. ASSUME NEW q \in Seq(Frames), q # <<>>, Calm(q)
      PROVE  Calm(Tail(q)) /\ Head(q).kind \notin {"reset", "undecodable"}
  BY <1>1, TailElements, HeadElement DEF Calm
<1>2. ASSUME NEW q \in Seq(Items), q # <<>>, Mild(q)
      PROVE  Mild(Tail(q)) /\ (Head(q).kind = "raise" => Head(q).error \in {"transport", "service"})
  BY <1>2, TailElements, HeadElement DEF Mild
<1>3. QED
  BY <1>1, <1>2

(* So does adding what is calm or mild.                                    *)
LEMMA MildAdd ==
  /\ \A q, fs \in Seq(Frames) : Calm(q) /\ Calm(fs) => Calm(q \o fs)
  /\ \A q \in Seq(Items), e \in Items :
       Mild(q) /\ (e.kind = "raise" => e.error \in {"transport", "service"}) => Mild(Append(q, e))
<1>1. ASSUME NEW q \in Seq(Frames), NEW fs \in Seq(Frames), Calm(q), Calm(fs)
      PROVE  Calm(q \o fs)
  BY <1>1, ConcatElements DEF Calm
<1>2. ASSUME NEW q \in Seq(Items), NEW e \in Items, Mild(q), e.kind = "raise" => e.error \in {"transport", "service"}
      PROVE  Mild(Append(q, e))
  BY <1>2, AppendElements DEF Mild
<1>3. QED
  BY <1>1, <1>2

(* The frames that follow are what the reader or the service leaves of an  *)
(* inbox; the queue of one connection changes at most.                     *)
LEMMA MildUpdate ==
  ASSUME TypeOK, RetryTrail, NEW c \in Conns,
         inbox' = inbox \/ \E q : Calm(q) /\ inbox' = [inbox EXCEPT ![c] = q],
         queue' = queue \/ \E q : Mild(q) /\ queue' = [queue EXCEPT ![c] = q]
  PROVE  \A d \in Conns : Calm(inbox'[d]) /\ Mild(queue'[d])
<1> SUFFICES ASSUME NEW d \in Conns PROVE Calm(inbox'[d]) /\ Mild(queue'[d])
  OBVIOUS
<1>1. DOMAIN inbox = Conns /\ DOMAIN queue = Conns /\ Calm(inbox[d]) /\ Mild(queue[d])
  BY DEF RetryTrail, TypeOK, ConnTypeOK
<1>2. Calm(inbox'[d])
  BY <1>1
<1>3. Mild(queue'[d])
  BY <1>1
<1>4. QED
  BY <1>2, <1>3

(* The exception of a mild item or a calm frame is retried or ends the     *)
(* stream as an error response.                                            *)
LEMMA RaiseMild ==
  ASSUME TypeOK, RetriesInterruptions, NEW s \in Streams, NEW e \in {"transport", "service"}, Raise(s, e)
  PROVE  RetriesInterruptions'
BY DEF TypeOK, StreamTypeOK, RetriesInterruptions, Raise

(* The steps of a stream.                                                  *)
LEMMA RetrySubscribe ==
  ASSUME TypeOK, RetryTrail, NEW s \in Streams, Subscribe(s)
  PROVE  RetryTrail'
<1> USE DEF clientVars, streamVars, connVars, callVars, serviceVars
<1>0. PICK c : c = cur[s]
  OBVIOUS
<1>1. spc[s] # "ready" => c \in Conns /\ inbox[c] \in Seq(Frames) /\ queue[c] \in Seq(Items)
  BY <1>0, ConnFields DEF TypeOK, StreamTypeOK
<1>2. \A k \in pending' : fut'[k] = "waiting"
  <2>1. CASE UNCHANGED <<pending, fut>> \/ pending' = {}
    BY <2>1 DEF RetryTrail
  <2>2. QED
    BY <2>1 DEF Subscribe, OpenConnection, Subscribed, SubscribeFails, YieldEvent, RaiseItem,
      NextEvent, Abandon, Wake, CancelReader, Unwind, FailPending, Closed
<1>3. (\A d \in Conns : Calm(inbox'[d]) /\ Mild(queue'[d])) /\ RetriesInterruptions' => RetryTrail'
  BY <1>2 DEF RetryTrail
<1>4. RetriesInterruptions
  BY DEF RetryTrail
<1>5. CASE Subscribed(s) \/ SubscribeFails(s)
  <2>1. c \in Conns /\ inbox[c] # <<>> /\ inbox' = [inbox EXCEPT ![c] = Tail(inbox[c])] /\ queue' = queue
    BY <1>0, <1>1, <1>5 DEF Subscribed, SubscribeFails
  <2>2. Calm(Tail(inbox[c])) /\ Head(inbox[c]).kind \notin {"reset", "undecodable"}
    BY <1>1, <2>1, ConnFields, MildTail DEF RetryTrail
  <2>3. \A d \in Conns : Calm(inbox'[d]) /\ Mild(queue'[d])
    BY <2>1, <2>2, MildUpdate
  <2>4. CASE Subscribed(s)
    BY <1>3, <1>4, <2>3, <2>4 DEF Subscribed, RetriesInterruptions
  <2>5. CASE SubscribeFails(s)
    <3>1. Raise(s, FrameError(Head(inbox[c])))
      BY <1>0, <2>5 DEF SubscribeFails
    <3>2. FrameError(Head(inbox[c])) \in {"transport", "service"}
      BY <2>2 DEF FrameError
    <3>3. QED
      BY <1>3, <1>4, <2>3, <3>1, <3>2, RaiseMild
  <2>6. QED
    BY <1>5, <2>4, <2>5
<1>6. CASE YieldEvent(s) \/ RaiseItem(s)
  <2>1. c \in Conns /\ queue[c] # <<>> /\ queue' = [queue EXCEPT ![c] = Tail(queue[c])] /\ inbox' = inbox
    BY <1>0, <1>1, <1>6 DEF YieldEvent, RaiseItem
  <2>2. Mild(Tail(queue[c])) /\ (Head(queue[c]).kind = "raise" => Head(queue[c]).error \in {"transport", "service"})
    BY <2>1, ConnFields, MildTail DEF RetryTrail
  <2>3. \A d \in Conns : Calm(inbox'[d]) /\ Mild(queue'[d])
    BY <2>1, <2>2, MildUpdate
  <2>4. CASE YieldEvent(s)
    BY <1>3, <1>4, <2>3, <2>4 DEF YieldEvent, RetriesInterruptions
  <2>5. CASE RaiseItem(s)
    <3>1. Raise(s, Head(queue[c]).error) /\ Head(queue[c]).kind = "raise"
      BY <1>0, <2>5 DEF RaiseItem
    <3>2. QED
      BY <1>3, <1>4, <2>2, <2>3, <3>1, RaiseMild
  <2>6. QED
    BY <1>6, <2>4, <2>5
<1>7. CASE Unwind(s)
  <2>1. c \in Conns /\ outcome' = outcome /\ queue' = [queue EXCEPT ![c] = <<>>]
        /\ inbox' = [inbox EXCEPT ![c] = IF reader[c] = "running" THEN Append(inbox[c], [kind |-> "eof"]) ELSE <<>>]
    BY <1>0, <1>1, <1>7 DEF Unwind
  <2>2. Calm(<<>>) /\ Mild(<<>>)
    BY DEF Calm, Mild
  <2>3. Calm(Append(inbox[c], [kind |-> "eof"]))
    <3>1. inbox[c] \in Seq(Frames) /\ [kind |-> "eof"] \in Frames /\ Calm(inbox[c])
      BY <2>1, ConnFields, ErrorTypes DEF RetryTrail
    <3>2. QED
      BY <3>1, AppendElements DEF Calm
  <2>4. \A d \in Conns : Calm(inbox'[d]) /\ Mild(queue'[d])
    BY <2>1, <2>2, <2>3, MildUpdate
  <2>5. QED
    BY <1>3, <1>4, <2>1, <2>4 DEF RetriesInterruptions
<1>8. CASE OpenConnection(s) \/ NextEvent(s) \/ Abandon(s) \/ Wake(s) \/ CancelReader(s) \/ Closed(s)
  <2>1. inbox' = inbox /\ queue' = queue
    BY <1>8 DEF OpenConnection, NextEvent, Abandon, Wake, CancelReader, Closed
  <2>2. outcome' = outcome \/ outcome' = [outcome EXCEPT ![s] = "none"] \/ outcome' = [outcome EXCEPT ![s] = "closed"]
    BY <1>8 DEF OpenConnection, NextEvent, Abandon, Wake, CancelReader, Closed
  <2>3. RetriesInterruptions'
    BY <1>4, <2>2 DEF RetriesInterruptions, TypeOK, StreamTypeOK
  <2>4. QED
    BY <1>3, <2>1, <2>3 DEF RetryTrail
<1>9. QED
  BY <1>5, <1>6, <1>7, <1>8 DEF Subscribe

(* The steps of a reader: without such a frame, and with every registered  *)
(* future still waiting, it fails in one of two ways.                      *)
LEMMA RetryReadFrame ==
  ASSUME TypeOK, RetryTrail, NEW c \in Conns, ReadFrame(c)
  PROVE  RetryTrail'
<1> USE DEF clientVars, streamVars, connVars, callVars, serviceVars
<1> DEFINE f == Head(inbox[c])
<1>1. inbox[c] \in Seq(Frames) /\ queue[c] \in Seq(Items) /\ Mild(queue[c]) /\ Calm(inbox[c])
  BY ConnFields DEF RetryTrail
<1>2. inbox[c] # <<>> /\ inbox' = [inbox EXCEPT ![c] = Tail(inbox[c])] /\ outcome' = outcome
  BY DEF ReadFrame
<1>3. f \in Frames /\ f.kind \notin {"reset", "undecodable"} /\ Calm(Tail(inbox[c]))
  BY <1>1, <1>2, MildTail, TakeFirst
<1>4. RetriesInterruptions'
  BY <1>2 DEF RetryTrail, RetriesInterruptions
<1>5. (queue' = queue \/ \E q : Mild(q) /\ queue' = [queue EXCEPT ![c] = q]) =>
        \A d \in Conns : Calm(inbox'[d]) /\ Mild(queue'[d])
  BY <1>2, <1>3, MildUpdate
<1>6. ASSUME NEW e \in {"transport", "service"}, ReaderFails(c, e)
      PROVE  RetryTrail'
  <2>1. [kind |-> "raise", error |-> e] \in Items
    BY <1>6, ErrorTypes DEF Errors
  <2>2. Mild(Append(queue[c], [kind |-> "raise", error |-> e]))
    BY <1>1, <1>6, <2>1, MildAdd
  <2>3. queue' = [queue EXCEPT ![c] = Append(queue[c], [kind |-> "raise", error |-> e])] /\ pending' = {}
    BY <1>6 DEF ReaderFails, FailPending
  <2>4. QED
    BY <1>4, <1>5, <2>2, <2>3 DEF RetryTrail
<1>7. CASE RouteAnswer(c)
  <2>1. queue' = queue /\ pending' = pending \ {f.call} /\ fut' = [fut EXCEPT ![f.call] = Answer(f)]
    BY <1>7 DEF RouteAnswer
  <2>2. \A k \in pending' : fut'[k] = "waiting"
    BY <2>1 DEF RetryTrail
  <2>3. QED
    BY <1>4, <1>5, <2>1, <2>2 DEF RetryTrail
<1>8. CASE RouteToCancelled(c)
  BY <1>8 DEF RouteToCancelled, Answered, RetryTrail
<1>9. CASE RouteEvent(c)
  <2>1. f.kind = "event" /\ queue' = [queue EXCEPT ![c] = Append(queue[c], f)] /\ UNCHANGED <<pending, fut>>
    BY <1>9 DEF RouteEvent
  <2>2. Mild(Append(queue[c], f))
    BY <1>1, <1>3, <2>1, MildAdd, ErrorTypes
  <2>3. QED
    BY <1>4, <1>5, <2>1, <2>2 DEF RetryTrail
<1>10. CASE RouteUnclaimed(c)
  <2>1. UNCHANGED <<pending, fut, queue>> \/ ReaderFails(c, FrameError(f))
    BY <1>10 DEF RouteUnclaimed
  <2>2. FrameError(f) \in {"transport", "service"}
    BY <1>3 DEF FrameError
  <2>3. QED
    BY <1>4, <1>5, <1>6, <2>1, <2>2 DEF RetryTrail
<1>11. QED
  BY <1>7, <1>8, <1>9, <1>10 DEF ReadFrame

(* The steps of a call that nobody cancels at its last await: a future     *)
(* that is settled or given up is no longer registered.                    *)
LEMMA RetryAck ==
  ASSUME TypeOK, RetryTrail, ~Cancels, NEW k \in Calls, Ack(k)
  PROVE  RetryTrail'
<1> USE DEF clientVars, streamVars, connVars, callVars, serviceVars
<1>1. UNCHANGED <<inbox, queue, outcome>>
  BY DEF Ack, AckBegin, AckAcquire, End, DrainDone, DrainFails, LeaveWrite, AckReturn, AckPerform,
    CancelWrite, CancelAwait
<1>2. (\A j \in pending' : fut'[j] = "waiting") => RetryTrail'
  BY <1>1 DEF RetryTrail, RetriesInterruptions
<1>3. \A j \in pending : fut[j] = "waiting" /\ j \in Calls
  BY DEF RetryTrail, TypeOK, ClientTypeOK
<1>4. fut \in [Calls -> {"none", "waiting", "acked", "other", "cancelled"} \cup Errors]
  BY DEF TypeOK, CallTypeOK
<1>5. CASE Write(k)
  BY <1>2, <1>3, <1>4, <1>5 DEF Write
<1>6. ASSUME NEW e \in {"failed", "cancelled"}, LeaveWrite(k, e)
      PROVE  RetryTrail'
  BY <1>2, <1>3, <1>4, <1>6 DEF LeaveWrite, End
<1>7. CASE UNCHANGED <<pending, fut>>
  BY <1>2, <1>3, <1>7
<1>8. CASE AckReturn(k)
  BY <1>2, <1>3, <1>4, <1>8 DEF AckReturn
<1>9. QED
  BY <1>5, <1>6, <1>7, <1>8 DEF Ack, AckBegin, AckAcquire, DrainDone, DrainFails, AckPerform, CancelWrite, CancelAwait

(* The steps of a service that resets no connection and writes UTF-8.      *)
LEMMA RetryService ==
  ASSUME TypeOK, RetryTrail, Faults \cap {"reset", "undecodable"} = {}, NEW c \in Conns, Service(c)
  PROVE  RetryTrail'
<1> USE DEF clientVars, streamVars, connVars, callVars, serviceVars
<1>1. UNCHANGED <<pending, fut, outcome, queue>>
  BY DEF Service, Accept, Refuse, Deliver, HandleAck, Lost, Backpressure, Drop, Garble, NoticeClosed
<1>2. inbox[c] \in Seq(Frames) /\ Calm(inbox[c])
  BY ConnFields DEF RetryTrail
<1>3. inbox' = inbox \/ \E fs \in Seq(Frames) : Calm(fs) /\ inbox' = [inbox EXCEPT ![c] = inbox[c] \o fs]
  <2>1. ASSUME NEW fs \in Seq(Frames), \A j \in 1..Len(fs) : Plain(fs[j])
        PROVE  Calm(fs)
    BY <2>1 DEF Calm, Plain
  <2>2. ASSUME NEW r \in Rows, Deliver(c, r)
        PROVE  \E fs \in Seq(Frames) : Calm(fs) /\ inbox' = [inbox EXCEPT ![c] = inbox[c] \o fs]
    <3> DEFINE fs == <<[kind |-> "event", row |-> r]>>
    <3>1. fs \in Seq(Frames) /\ Calm(fs)
      BY FrameTypes DEF Calm
    <3>2. inbox' = [inbox EXCEPT ![c] = inbox[c] \o fs]
      BY <2>2 DEF Deliver, Send
    <3> HIDE DEF fs
    <3>3. QED
      BY <3>1, <3>2
  <2>3. QED
    BY <2>1, <2>2, ServiceEffect
<1>4. inbox' = inbox \/ \E q : Calm(q) /\ inbox' = [inbox EXCEPT ![c] = q]
  BY <1>2, <1>3, MildAdd
<1>5. \A d \in Conns : Calm(inbox'[d]) /\ Mild(queue'[d])
  BY <1>1, <1>4, MildUpdate
<1>6. QED
  BY <1>1, <1>5 DEF RetryTrail, RetriesInterruptions

(* A reconnecting stream ends only because it was closed or because of an  *)
(* error response, as long as no connection is reset, no frame is anything *)
(* but UTF-8 and no ack() is cancelled; with any of them it may end        *)
(* otherwise.                                                              *)
THEOREM InterruptionsAreRetried ==
  ASSUME Faults \cap {"reset", "undecodable"} = {}, ~Cancels
  PROVE  Spec => []RetriesInterruptions
<1>1. Init => RetryTrail
  BY DEF Init, RetryTrail, Calm, Mild, RetriesInterruptions
<1>2. TypeOK /\ RetryTrail /\ [Next]_vars => RetryTrail'
  <2> SUFFICES ASSUME TypeOK, RetryTrail, [Next]_vars PROVE RetryTrail'
    OBVIOUS
  <2>1. ASSUME NEW c \in Conns, ReadFrame(c) \/ Service(c) PROVE RetryTrail'
    BY <2>1, RetryReadFrame, RetryService
  <2>2. CASE UNCHANGED vars
    BY <2>2 DEF vars, clientVars, streamVars, connVars, callVars, RetryTrail, RetriesInterruptions
  <2>3. QED
    BY <2>1, <2>2, RetrySubscribe, RetryAck DEF Next
<1>3. RetryTrail => RetriesInterruptions
  BY DEF RetryTrail
<1>4. QED
  BY <1>1, <1>2, <1>3, TypeCorrect, PTL DEF Spec
=============================================================================
