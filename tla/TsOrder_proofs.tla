--------------------------- MODULE TsOrder_proofs ---------------------------
(* The TypeScript engine yields the events of a connection in the order    *)
(* the service sent them, and before what interrupts the stream, for any   *)
(* number of streams, calls, rows and connections, whatever befalls these: *)
(* the inductive invariant OrderTrail.                                     *)
EXTENDS TsAckSafety_proofs

-----------------------------------------------------------------------------
(* The order of events: what makes it inductive.  The frames of a          *)
(* connection are a line: the one being read, those received, those on     *)
(* their way.                                                              *)
Refusal == [kind |-> "error", call |-> None]
Answers(f, k) == f.kind \in {"acked", "error"} /\ f.call = k

(* What may stand behind what: events as they were sent, no event behind a *)
(* refusal, and no second answer to a call.                                *)
MayPrecede(c, f, g) ==
  /\ f.kind = "event" /\ g.kind = "event" => Before(c, f.row, g.row)
  /\ f = Refusal => g.kind # "event"
  /\ \A k \in Calls : ~(Answers(f, k) /\ Answers(g, k))

Chain(c, q) == \A i, j \in 1..Len(q) : i < j => MayPrecede(c, q[i], q[j])

Line(c) ==
  /\ Chain(c, responses[c]) /\ Chain(c, inbox[c])
  /\ \A f \in Range(responses[c]), g \in Range(inbox[c]) : MayPrecede(c, f, g)
  /\ \A g \in Range(responses[c]) \cup Range(inbox[c]) : MayPrecede(c, reading[c], g)

(* Nothing that ends the rows of a connection is followed by more.         *)
NoMore(c) == link[c] = "up" => active # c /\ c \notin asked
Hushed(c) == NoMore(c) /\ \A f \in Range(inbox[c]) : f.kind # "event"
Over(c) == failure[c] # "none" \/ Hushed(c)

(* Rows that the pump has pushed, in the order sent; frames behind them.   *)
Came(c) == yielded[c] \o queue[c]
Ascending(c, q) == \A i, j \in 1..Len(q) : i < j => Before(c, q[i], q[j])

SentOrder(c) ==
  /\ \A i, j \in 1..Len(sent[c]) : sent[c][i] = sent[c][j] => i = j
  /\ Line(c) /\ Ascending(c, Came(c)) /\ Range(Came(c)) \subseteq Range(sent[c])
  /\ \A f \in FramesOf(c) : f.kind = "event" =>
       f.row \in Range(sent[c]) /\ \A r \in Range(Came(c)) : Before(c, r, f.row)
  /\ reading[c] = Waiting => responses[c] = <<>>
  /\ reading[c].kind = "rejected" => failure[c] # "none"
  /\ Refusal \in FramesOf(c) => NoMore(c)
  /\ reading[c] = Refusal => Hushed(c)

(* Of the rows that arrived before a failure none is lost: each has come,  *)
(* or was received and will be read.  Until there is a failure they are    *)
(* all there is, and the next one to arrive is the next that was sent.     *)
EventOf(r) == [kind |-> "event", row |-> r]
InHand(c) == {reading[c]} \cup Range(responses[c])
Handed(c) == \A i \in 1..Len(arrived[c]) : i <= Len(Came(c)) /\ Came(c)[i] = arrived[c][i]

Kept(c) ==
  \A i \in 1..Len(arrived[c]) :
    \/ i <= Len(Came(c)) /\ Came(c)[i] = arrived[c][i]
    \/ i > Len(Came(c)) /\ EventOf(arrived[c][i]) \in InHand(c)

Coming(c) ==
  \A p \in (Len(arrived[c]) + 1)..Len(sent[c]) :
    /\ link[c] = "up" => \E j \in 1..Len(inbox[c]) : inbox[c][j].kind \in Damages \/ inbox[c][j] = EventOf(sent[c][p])
    /\ \A q \in (p + 1)..Len(sent[c]), i \in 1..Len(inbox[c]) :
         inbox[c][i] = EventOf(sent[c][q]) =>
           \E j \in 1..(i - 1) : inbox[c][j].kind \in Damages \/ inbox[c][j] = EventOf(sent[c][p])

Unbroken(c) ==
  /\ IsPrefix(Came(c), arrived[c]) /\ Coming(c)
  /\ \A f \in InHand(c) : f.kind = "event" => f.row \in Range(arrived[c])
  /\ \A f \in Range(inbox[c]) : f.kind = "event" => f.row \notin Range(arrived[c])

NoGap(c) ==
  /\ IsPrefix(arrived[c], sent[c])
  /\ queueFailure[c] = "none" => Kept(c)
  /\ failure[c] = "none" => Unbroken(c)
  /\ queueFailure[c] = "none" /\ reading[c].kind \in {"waiting", "rejected"} => Handed(c)

(* A call has one answer, on the connection it was written on, and while   *)
(* the pump runs for its stream the answer is awaited.                     *)
InStage(c, stages) == \E s \in Streams : cur[s] = c /\ spc[s] \in stages
Served(c) == InStage(c, {"next", "yielded"})

AnswerTrail(c) ==
  \A k \in Calls :
    LET answered == \E f \in FramesOf(c) : Answers(f, k) IN
    /\ k \in wire[c] => ~answered
    /\ k \in wire[c] \/ answered =>
         /\ via[k] = c /\ cpc[k] \in {"await", "done"}
         /\ pump[c] = "running" /\ Served(c) => k \in pending[c]

(* Before it is subscribed a connection has no rows and no calls.          *)
OpeningTrail(c) ==
  InStage(c, {"opening"}) =>
    /\ Came(c) = <<>> /\ pump[c] = "none" /\ queueFailure[c] = "none" /\ \A k \in Calls : via[k] # c
    /\ reading[c].kind \notin {"none", "event"}
    /\ reading[c].kind # "subscribed" => arrived[c] = <<>>
    /\ reading[c] = Waiting =>
         /\ active = c => \E j \in 1..Len(inbox[c]) : inbox[c][j].kind \in Damages \cup {"subscribed"}
         /\ \A i \in 1..Len(inbox[c]) : inbox[c][i].kind = "event" =>
              \E j \in 1..(i - 1) : inbox[c][j].kind \in Damages \cup {"subscribed"}

Unopened(c) ==
  link[c] = "new" =>
    /\ c \notin asked /\ active # c /\ conn # c /\ wire[c] = {} /\ \A k \in Calls : via[k] # c
    /\ reading[c] = NotReading /\ failure[c] = "none" /\ queueFailure[c] = "none" /\ pump[c] = "none"
    /\ {inbox[c], responses[c], queue[c], yielded[c], sent[c], arrived[c]} = {<<>>}
    /\ \A s \in Streams : cur[s] # c

(* A failed queue has all that arrived, and no more arrives.               *)
FailedTrail(c) == Served(c) /\ queueFailure[c] # "none" => Handed(c) /\ Over(c)

(* So has a stream that is interrupted.                                    *)
EndTrail(s) ==
  spc[s] \in {"backoff", "ended"} /\ outcome[s] # "closed" =>
    IsPrefix(arrived[cur[s]], yielded[cur[s]]) /\ Over(cur[s])

Apart ==
  /\ \A s, t \in Streams : cur[s] = cur[t] /\ cur[s] # None => s = t
  /\ active \notin asked

OrderTrail ==
  /\ Apart /\ \A s \in Streams : EndTrail(s)
  /\ \A c \in Conns :
       SentOrder(c) /\ NoGap(c) /\ AnswerTrail(c) /\ OpeningTrail(c) /\ Unopened(c) /\ FailedTrail(c)

-----------------------------------------------------------------------------
(* The order of events: OrderTrail.                                        *)

(* The fields of a connection, each of its own type.                       *)
LEMMA ConnFields ==
  ASSUME TypeOK, NEW c \in Conns
  PROVE  /\ inbox[c] \in Seq(Frames) /\ responses[c] \in Seq(Responses) /\ reading[c] \in Readings
         /\ {queue[c], yielded[c], sent[c], arrived[c]} \subseteq Seq(Rows)
         /\ failure[c] \in {"none"} \cup Errors /\ queueFailure[c] \in {"none"} \cup Errors
BY DEF TypeOK, SocketTypeOK, ConnTypeOK, EventTypeOK, ServiceTypeOK

(* The frames by their kinds.                                              *)
Dull(f) == f.kind \notin {"event", "acked", "error"}

LEMMA Kinds ==
  /\ \A f \in Frames : f.kind \in {"event", "acked", "error", "subscribed"} \cup Damages \cup {"reset", "close"}
  /\ \A f \in Responses : f.kind \in {"event", "acked", "error", "subscribed"}
  /\ \A f \in Readings : f.kind \in {"event", "acked", "error", "subscribed", "none", "waiting", "rejected"}
  /\ \A f \in Readings : f.kind = "waiting" <=> f = Waiting
  /\ \A f \in Readings : f.kind = "none" <=> f = NotReading
  /\ \A f \in Frames \cup Responses \cup Readings : f.kind = "event" => f = EventOf(f.row)
  /\ \A f \in Frames \cup Responses \cup Readings :
       f.kind \in {"error", "acked"} => f.call \in Calls \/ (f.kind = "error" /\ f = Refusal) \/ f = [kind |-> "acked", call |-> None]
  /\ Dull(Waiting) /\ Dull(NotReading) /\ \A e : Dull(Rejected(e))
  /\ Dull([kind |-> "close"]) /\ Dull([kind |-> "reset"]) /\ Dull([kind |-> "subscribed"])
  /\ \A f \in [kind : Damages] : Dull(f)
BY DEF Frames, Responses, Readings, Waiting, NotReading, Rejected, Refusal, EventOf, Dull, Damages

(* What is no event and no answer may stand anywhere.                      *)
LEMMA DullAnywhere ==
  ASSUME NEW c \in Conns, NEW f, Dull(f)
  PROVE  /\ f # Refusal /\ \A g : MayPrecede(c, f, g) /\ MayPrecede(c, g, f)
         /\ \A g : MayPrecede(c, f, g)' /\ MayPrecede(c, g, f)'
BY DEF Dull, MayPrecede, Answers, Refusal

(* The order of the rows sent depends on them only.                        *)
LEMMA MayStay ==
  ASSUME NEW c \in Conns, sent'[c] = sent[c]
  PROVE  /\ \A f, g : MayPrecede(c, f, g)' <=> MayPrecede(c, f, g)
         /\ \A r, q : Before(c, r, q)' <=> Before(c, r, q)
BY DEF MayPrecede, Before

(* What is left of a chain.                                                *)
LEMMA ChainTake ==
  ASSUME NEW S, NEW q \in Seq(S), q # <<>>, NEW c \in Conns, Chain(c, q)
  PROVE  Chain(c, Tail(q)) /\ \A f \in Range(Tail(q)) : MayPrecede(c, Head(q), f)
<1>1. \A i \in 1..Len(Tail(q)) : Tail(q)[i] = q[i + 1] /\ i + 1 \in 1..Len(q)
  OBVIOUS
<1>2. Chain(c, Tail(q))
  BY <1>1 DEF Chain
<1>3. ASSUME NEW f \in Range(Tail(q)) PROVE MayPrecede(c, Head(q), f)
  <2>1. PICK i \in 1..Len(Tail(q)) : f = Tail(q)[i]
    BY <1>3 DEF Range
  <2>2. 1 \in 1..Len(q) /\ Head(q) = q[1] /\ 1 < i + 1
    BY <2>1
  <2>3. QED
    BY <1>1, <2>1, <2>2 DEF Chain
<1>4. QED
  BY <1>2, <1>3

(* A chain with one more frame at its end.                                 *)
LEMMA ChainAdd ==
  ASSUME NEW S, NEW q \in Seq(S), NEW e \in S, NEW c \in Conns, Chain(c, q), \A f \in Range(q) : MayPrecede(c, f, e)
  PROVE  Chain(c, Append(q, e))
<1>1. \A i \in 1..Len(q) : Append(q, e)[i] = q[i] /\ q[i] \in Range(q)
  BY DEF Range
<1>2. Len(Append(q, e)) = Len(q) + 1 /\ Append(q, e)[Len(q) + 1] = e
  OBVIOUS
<1>3. SUFFICES ASSUME NEW i \in 1..Len(Append(q, e)), NEW j \in 1..Len(Append(q, e)), i < j
               PROVE  MayPrecede(c, Append(q, e)[i], Append(q, e)[j])
  BY DEF Chain
<1>4. i \in 1..Len(q) /\ (j \in 1..Len(q) \/ j = Len(q) + 1)
  BY <1>2, <1>3
<1>5. CASE j \in 1..Len(q)
  BY <1>1, <1>3, <1>4, <1>5 DEF Chain
<1>6. CASE j = Len(q) + 1
  BY <1>1, <1>2, <1>4, <1>6
<1>7. QED
  BY <1>4, <1>5, <1>6

(* No frames, or one, make a chain.                                        *)
LEMMA ChainNone == ASSUME NEW c \in Conns PROVE Chain(c, <<>>) /\ \A e : Chain(c, <<e>>)
BY DEF Chain

(* A chain is one whatever else changes.                                   *)
LEMMA ChainStays ==
  ASSUME NEW c \in Conns, sent'[c] = sent[c], NEW q, Chain(c, q)
  PROVE  Chain(c, q)'
BY MayStay DEF Chain

(* The line after frames were taken out of it, or dull ones put in.        *)
LEMMA LineFewer ==
  ASSUME NEW c \in Conns, Line(c), sent'[c] = sent[c], responses'[c] = responses[c], Chain(c, inbox'[c]),
         \A f \in Range(inbox'[c]) : f \in Range(inbox[c]) \/ Dull(f),
         reading'[c] = reading[c] \/ Dull(reading'[c])
  PROVE  Line(c)'
<1>0. PICK q, r, p : q = inbox'[c] /\ r = reading'[c] /\ p = responses[c]
  OBVIOUS
<1>1. Chain(c, q)' /\ Chain(c, p)'
  BY <1>0, ChainStays DEF Line
<1>2. \A f \in Range(p), g \in Range(q) : MayPrecede(c, f, g)'
  BY <1>0, MayStay, DullAnywhere DEF Line
<1>3. \A g \in Range(p) \cup Range(q) : MayPrecede(c, r, g)'
  BY <1>0, MayStay, DullAnywhere DEF Line
<1>4. QED
  BY <1>0, <1>1, <1>2, <1>3 DEF Line, Chain

(* The same for all of SentOrder.                                          *)
LEMMA OrderFewer ==
  ASSUME NEW c \in Conns, SentOrder(c), sent'[c] = sent[c], responses'[c] = responses[c], Chain(c, inbox'[c]),
         \A f \in Range(inbox'[c]) : f \in Range(inbox[c]) \/ Dull(f),
         reading'[c] = reading[c] \/ Dull(reading'[c]),
         yielded'[c] \o queue'[c] = yielded[c] \o queue[c], failure[c] # "none" => failure'[c] # "none",
         reading'[c] = reading[c] \/ (reading'[c] = Waiting /\ responses[c] = <<>>)
           \/ (reading'[c] # Waiting /\ (reading'[c].kind = "rejected" => failure'[c] # "none")),
         Refusal \in FramesOf(c) /\ NoMore(c) => NoMore(c)'
  PROVE  SentOrder(c)'
<1>0. PICK u, q, r, p, w : u = sent'[c] /\ q = inbox'[c] /\ r = reading'[c] /\ p = responses'[c] /\ w = yielded'[c] \o queue'[c]
  OBVIOUS
<1>1. Line(c)'
  BY LineFewer DEF SentOrder
<1>2. /\ \A i, j \in 1..Len(u) : u[i] = u[j] => i = j
      /\ \A i, j \in 1..Len(w) : i < j => Before(c, w[i], w[j])'
      /\ Range(w) \subseteq Range(u)
  <2>1. u = sent[c] /\ w = Came(c)
    BY <1>0 DEF Came
  <2>2. \A i, j \in 1..Len(w) : i < j => Before(c, w[i], w[j])
    BY <2>1 DEF SentOrder, Ascending
  <2>3. \A i, j \in 1..Len(w) : i < j => Before(c, w[i], w[j])'
    BY <2>2, MayStay
  <2>4. QED
    BY <2>1, <2>3 DEF SentOrder
<1>3. \A f \in Range(q) \cup Range(p) \cup {r} : f \in FramesOf(c) \/ Dull(f)
  BY <1>0 DEF FramesOf
<1>4. \A f \in Range(q) \cup Range(p) \cup {r} : f.kind = "event" =>
        f.row \in Range(u) /\ \A b \in Range(w) : Before(c, b, f.row)'
  BY <1>0, <1>3, MayStay DEF SentOrder, Came, Dull
<1>5. r = Waiting => p = <<>>
  BY <1>0 DEF SentOrder
<1>6. r.kind = "rejected" => failure'[c] # "none"
  BY <1>0 DEF SentOrder, Waiting
<1>7. Refusal \in Range(q) \cup Range(p) \cup {r} => NoMore(c)'
  BY <1>3 DEF SentOrder, Dull, Refusal
<1>8. r = Refusal => NoMore(c)' /\ \A f \in Range(q) : f.kind # "event"
  <2>1. r = Refusal => reading[c] = Refusal /\ Refusal \in FramesOf(c)
    BY <1>0 DEF Dull, Refusal, FramesOf
  <2>2. QED
    BY <1>0, <2>1 DEF SentOrder, Hushed, Dull
<1>9. QED
  BY <1>0, <1>1, <1>2, <1>4, <1>5, <1>6, <1>7, <1>8 DEF SentOrder, Ascending, Came, FramesOf, Hushed

(* Nothing happens to the connection.                                      *)
LEMMA OrderStays ==
  ASSUME NEW c \in Conns, SentOrder(c), sent'[c] = sent[c], responses'[c] = responses[c], inbox'[c] = inbox[c],
         reading'[c] = reading[c], yielded'[c] \o queue'[c] = yielded[c] \o queue[c],
         failure[c] # "none" => failure'[c] # "none", NoMore(c) => NoMore(c)'
  PROVE  SentOrder(c)'
BY OrderFewer DEF SentOrder, Line

(* A response is handed over or queued.                                    *)
LEMMA OrderReceive ==
  ASSUME TypeOK, NEW c \in Conns, SentOrder(c), ReceiveResponse(c)
  PROVE  SentOrder(c)'
<1> DEFINE f == Head(inbox[c])
<1>1. /\ inbox[c] # <<>> /\ inbox[c] \in Seq(Frames) /\ inbox'[c] = Tail(inbox[c]) /\ Resolve(c, f)
      /\ f \in Range(inbox[c]) /\ f \in Responses /\ f # Waiting /\ f.kind # "rejected"
      /\ Range(Tail(inbox[c])) \subseteq Range(inbox[c])
  BY RangeTake, TakeFirst, FrameTypes DEF ReceiveResponse, Unhandled, TypeOK, SocketTypeOK, Waiting
<1>2. /\ sent' = sent /\ failure' = failure /\ yielded' = yielded /\ queue' = queue
      /\ link' = link /\ active' = active /\ asked' = asked
  BY DEF ReceiveResponse, Unhandled, serviceVars, eventVars
<1>3. Chain(c, Tail(inbox[c])) /\ \A g \in Range(Tail(inbox[c])) : MayPrecede(c, f, g)
  BY <1>1, ChainTake DEF SentOrder, Line
<1>4. IF reading[c] = Waiting THEN reading'[c] = f /\ responses'[c] = responses[c] /\ responses[c] = <<>>
      ELSE reading'[c] = reading[c] /\ responses'[c] = Append(responses[c], f)
  BY <1>1 DEF Resolve, SentOrder, TypeOK, ConnTypeOK
<1>5. Range(responses'[c]) \cup {reading'[c]} \subseteq Range(responses[c]) \cup {reading[c], f}
  <2>1. Range(Append(responses[c], f)) = Range(responses[c]) \cup {f}
    BY <1>1, ConnFields, RangeAdd
  <2>2. QED
    BY <1>4, <2>1
<1>6. Line(c)'
  <2>0. PICK q, r, p : q = inbox'[c] /\ r = reading'[c] /\ p = responses'[c]
    OBVIOUS
  <2>1. Chain(c, q)'
    BY <1>1, <1>2, <1>3, <2>0, ChainStays
  <2>2. Chain(c, p)
    <3>1. CASE reading[c] = Waiting
      BY <1>4, <2>0, <3>1 DEF SentOrder, Line
    <3>2. CASE reading[c] # Waiting
      BY <1>1, <1>4, <2>0, <3>2, ChainAdd, ConnFields DEF SentOrder, Line
    <3>3. QED
      BY <3>1, <3>2
  <2>3. Chain(c, p)'
    BY <1>2, <2>2, ChainStays
  <2>4. \A g \in Range(q), h \in Range(p) \cup {r} : MayPrecede(c, h, g)
    BY <1>1, <1>3, <1>5, <2>0 DEF SentOrder, Line
  <2>5. \A g \in Range(p) : MayPrecede(c, r, g)
    <3>1. CASE reading[c] = Waiting
      BY <1>4, <2>0, <3>1 DEF Range
    <3>2. CASE reading[c] # Waiting
      <4>0. Range(Append(responses[c], f)) = Range(responses[c]) \cup {f}
        BY <1>1, RangeAdd, ConnFields
      <4>1. Range(p) = Range(responses[c]) \cup {f} /\ r = reading[c]
        BY <1>4, <2>0, <3>2, <4>0
      <4>2. QED
        BY <1>1, <4>1 DEF SentOrder, Line
    <3>3. QED
      BY <3>1, <3>2
  <2>6. QED
    BY <1>2, <2>0, <2>1, <2>3, <2>4, <2>5, MayStay DEF Line
<1>7. FramesOf(c)' \subseteq FramesOf(c)
  BY <1>1, <1>5 DEF FramesOf
<1>8. \A x \in FramesOf(c)' : x.kind = "event" =>
        x.row \in Range(sent[c]) /\ \A b \in Range(Came(c)) : Before(c, b, x.row)
  BY <1>7 DEF SentOrder
<1>9. reading'[c] = Refusal => Hushed(c)'
  <2>1. CASE reading[c] = Waiting
    <3>1. reading'[c] = Refusal => NoMore(c)
      BY <1>1, <1>4, <2>1 DEF SentOrder, FramesOf
    <3>2. reading'[c] = Refusal => \A g \in Range(Tail(inbox[c])) : g.kind # "event"
      BY <1>3, <1>4, <2>1 DEF MayPrecede
    <3>3. QED
      BY <1>1, <1>2, <3>1, <3>2 DEF Hushed, NoMore
  <2>2. CASE reading[c] # Waiting
    BY <1>1, <1>2, <1>4, <2>2 DEF SentOrder, Hushed, NoMore
  <2>3. QED
    BY <2>1, <2>2
<1>10. /\ reading'[c] = Waiting => responses'[c] = <<>>
       /\ reading'[c].kind = "rejected" => failure'[c] # "none"
       /\ Refusal \in FramesOf(c)' => NoMore(c)'
  BY <1>1, <1>2, <1>4, <1>7 DEF SentOrder, NoMore
<1>11. Ascending(c, Came(c))' /\ Range(Came(c))' \subseteq Range(sent[c])' /\ Came(c)' = Came(c)
  BY <1>2, MayStay DEF SentOrder, Ascending, Came
<1>12. \A x \in FramesOf(c)' : x.kind = "event" =>
        x.row \in Range(sent'[c]) /\ \A b \in Range(Came(c)') : Before(c, b, x.row)'
  BY <1>2, <1>8, <1>11, MayStay
<1>13. QED
  BY <1>2, <1>6, <1>9, <1>10, <1>11, <1>12 DEF SentOrder

(* A row that is yielded was the first in the queue; one that is pushed    *)
(* becomes the last.                                                       *)
LEMMA YieldJoins ==
  ASSUME NEW S, NEW y \in Seq(S), NEW q \in Seq(S), q # <<>>
  PROVE  Append(y, Head(q)) \o Tail(q) = y \o q
<1>1. Append(y, Head(q)) \in Seq(S) /\ Tail(q) \in Seq(S) /\ Len(Append(y, Head(q))) = Len(y) + 1 /\ Len(Tail(q)) = Len(q) - 1
  OBVIOUS
<1>2. Len(Append(y, Head(q)) \o Tail(q)) = Len(y \o q)
  BY <1>1
<1>3. \A i \in 1..Len(y \o q) : (Append(y, Head(q)) \o Tail(q))[i] = (y \o q)[i]
  BY <1>1
<1>4. QED
  BY <1>1, <1>2, <1>3

(* One that is pushed becomes the last.                                    *)
LEMMA PushJoins ==
  ASSUME NEW S, NEW y \in Seq(S), NEW q \in Seq(S), NEW r \in S
  PROVE  y \o Append(q, r) = Append(y \o q, r)
<1>1. y \o q \in Seq(S) /\ Append(q, r) \in Seq(S)
  OBVIOUS
<1>2. Len(y \o Append(q, r)) = Len(Append(y \o q, r))
  BY <1>1
<1>3. \A i \in 1..Len(Append(y \o q, r)) : (y \o Append(q, r))[i] = Append(y \o q, r)[i]
  BY <1>1
<1>4. QED
  BY <1>1, <1>2, <1>3

(* A row sent after those that came may come behind them.                  *)
LEMMA AscendingAdd ==
  ASSUME NEW S, NEW q \in Seq(S), NEW r \in S, NEW c \in Conns, Ascending(c, q), \A b \in Range(q) : Before(c, b, r)
  PROVE  Ascending(c, Append(q, r))
<1>1. \A i \in 1..Len(q) : Append(q, r)[i] = q[i] /\ q[i] \in Range(q)
  BY DEF Range
<1>2. Len(Append(q, r)) = Len(q) + 1 /\ Append(q, r)[Len(q) + 1] = r
  OBVIOUS
<1>3. SUFFICES ASSUME NEW i \in 1..Len(Append(q, r)), NEW j \in 1..Len(Append(q, r)), i < j
               PROVE  Before(c, Append(q, r)[i], Append(q, r)[j])
  BY DEF Ascending
<1>4. i \in 1..Len(q) /\ (j \in 1..Len(q) \/ j = Len(q) + 1)
  BY <1>2, <1>3
<1>5. CASE j \in 1..Len(q)
  BY <1>1, <1>3, <1>4, <1>5 DEF Ascending
<1>6. CASE j = Len(q) + 1
  BY <1>1, <1>2, <1>4, <1>6
<1>7. QED
  BY <1>4, <1>5, <1>6

(* What readResponse() settles with next: the first of the responses, or   *)
(* nothing that has an order; what was read may have been pushed.          *)
LEMMA ReadNext ==
  ASSUME TypeOK, NEW c \in Conns, ReadResponse(c)
  PROVE  \/ /\ responses[c] # <<>> /\ reading'[c] = Head(responses[c]) /\ responses'[c] = Tail(responses[c])
            /\ reading'[c] \in Range(responses[c]) /\ Range(responses'[c]) \subseteq Range(responses[c])
            /\ reading'[c] # Waiting /\ reading'[c].kind # "rejected"
         \/ /\ responses[c] = <<>> /\ responses'[c] = <<>> /\ Dull(reading'[c])
            /\ reading'[c].kind = "rejected" => failure[c] # "none"
            /\ reading'[c] = Waiting \/ (reading'[c].kind = "rejected" /\ reading'[c] # Waiting)
<1>1. CASE responses[c] # <<>>
  <2>1. reading'[c] = Head(responses[c]) /\ responses'[c] = Tail(responses[c])
    BY <1>1 DEF ReadResponse, TypeOK, ConnTypeOK
  <2>2. Head(responses[c]) \in Range(responses[c]) /\ Range(Tail(responses[c])) \subseteq Range(responses[c])
    BY <1>1, ConnFields, RangeTake
  <2>3. Head(responses[c]) \in Responses
    BY <1>1, ConnFields, TakeFirst
  <2>4. QED
    BY <1>1, <2>1, <2>2, <2>3, Kinds DEF Waiting
<1>2. CASE responses[c] = <<>>
  BY <1>2, Kinds DEF ReadResponse, TypeOK, ConnTypeOK, Waiting, Rejected
<1>3. QED
  BY <1>1, <1>2

(* Reading on keeps the order; what was read may have been pushed.         *)
LEMMA OrderRead ==
  ASSUME TypeOK, NEW c \in Conns, SentOrder(c), ReadResponse(c), inbox'[c] = inbox[c], sent'[c] = sent[c],
         failure'[c] = failure[c], NoMore(c) => NoMore(c)',
         \/ Came(c)' = Came(c)
         \/ reading[c].kind = "event" /\ Came(c)' = Append(Came(c), reading[c].row)
  PROVE  SentOrder(c)'
<1>0. PICK u, q, r, p, w : u = sent'[c] /\ q = inbox'[c] /\ r = reading'[c] /\ p = responses'[c] /\ w = Came(c)'
  OBVIOUS
<1>1. \A f \in Range(p) \cup {r} : f \in Range(responses[c]) \/ Dull(f)
  BY <1>0, ReadNext DEF Range
<1>2. Chain(c, p) /\ \A f \in Range(p) : MayPrecede(c, r, f)
  <2>1. CASE responses[c] # <<>>
    BY <1>0, <2>1, ReadNext, ChainTake, ConnFields DEF SentOrder, Line
  <2>2. CASE responses[c] = <<>>
    BY <1>0, <2>2, ReadNext, ChainNone DEF Range
  <2>3. QED
    BY <2>1, <2>2
<1>3. \A f \in Range(p) \cup {r}, g \in Range(q) : MayPrecede(c, f, g)
  BY <1>0, <1>1, DullAnywhere DEF SentOrder, Line
<1>4. Chain(c, q)
  BY <1>0 DEF SentOrder, Line
<1>5. Line(c)'
  <2>1. Chain(c, q)' /\ Chain(c, p)'
    BY <1>2, <1>4, ChainStays
  <2>2. (\A f \in Range(p) \cup {r}, g \in Range(q) : MayPrecede(c, f, g)') /\ \A f \in Range(p) : MayPrecede(c, r, f)'
    BY <1>2, <1>3, MayStay
  <2>3. QED
    BY <1>0, <2>1, <2>2 DEF Line
<1>6. \A f \in Range(q) \cup Range(p) \cup {r} : f \in Range(responses[c]) \cup Range(inbox[c]) \/ Dull(f)
  BY <1>0, <1>1
<1>7. /\ Ascending(c, w) /\ Range(w) \subseteq Range(u)
      /\ \A f \in Range(q) \cup Range(p) \cup {r} : f.kind = "event" =>
           f.row \in Range(u) /\ \A b \in Range(w) : Before(c, b, f.row)
  <2>1. \A f \in Range(q) \cup Range(p) \cup {r} : f.kind = "event" =>
           /\ f \in FramesOf(c) /\ f.row \in Range(u) /\ \A b \in Range(Came(c)) : Before(c, b, f.row)
           /\ reading[c].kind = "event" => Before(c, reading[c].row, f.row)
    BY <1>0, <1>6 DEF SentOrder, Line, MayPrecede, FramesOf, Dull
  <2>2. CASE w = Came(c)
    BY <1>0, <2>1, <2>2 DEF SentOrder
  <2>3. CASE reading[c].kind = "event" /\ w = Append(Came(c), reading[c].row)
    <3>1. Came(c) \in Seq(Rows) /\ reading[c].row \in Rows
      BY <2>3, ConnFields, FrameTypes DEF Came
    <3>2. Range(w) = Range(Came(c)) \cup {reading[c].row}
      BY <2>3, <3>1, RangeAdd
    <3>3. reading[c].row \in Range(u) /\ \A b \in Range(Came(c)) : Before(c, b, reading[c].row)
      BY <1>0, <2>3 DEF SentOrder, FramesOf
    <3>4. Ascending(c, w)
      BY <2>3, <3>1, <3>3, AscendingAdd DEF SentOrder
    <3>5. QED
      BY <1>0, <2>1, <2>3, <3>2, <3>3, <3>4 DEF SentOrder
  <2>4. QED
    BY <1>0, <2>2, <2>3
<1>8. /\ Ascending(c, w)'
      /\ \A f \in Range(q) \cup Range(p) \cup {r} : f.kind = "event" =>
           f.row \in Range(u) /\ \A b \in Range(w) : Before(c, b, f.row)'
  BY <1>7, MayStay DEF Ascending
<1>9. /\ r = Waiting => p = <<>>
      /\ r.kind = "rejected" => failure'[c] # "none"
  BY <1>0, ReadNext
<1>10. /\ Refusal \in Range(q) \cup Range(p) \cup {r} => NoMore(c)'
       /\ r = Refusal => \A f \in Range(q) : f.kind # "event"
  BY <1>3, <1>6, DullAnywhere DEF SentOrder, FramesOf, MayPrecede
<1>11. \A i, j \in 1..Len(u) : u[i] = u[j] => i = j
  BY <1>0 DEF SentOrder
<1>12. QED
  BY <1>0, <1>5, <1>7, <1>8, <1>9, <1>10, <1>11 DEF SentOrder, FramesOf, Hushed, Ascending

(* A refusal may stand behind anything.                                    *)
LEMMA RefusalLast ==
  ASSUME NEW c \in Conns, NEW g
  PROVE  MayPrecede(c, g, Refusal) /\ MayPrecede(c, g, Refusal)'
BY ConstantsAssumption DEF MayPrecede, Answers, Refusal

(* A frame is added behind those that are left of the inbox; the rows sent *)
(* may be more than before.                                                *)
LEMMA OrderAdd ==
  ASSUME TypeOK, NEW c \in Conns, SentOrder(c), NEW q \in Seq(Frames), NEW f \in Frames, inbox'[c] = Append(q, f),
         Chain(c, q), \A g \in Range(q) : g \in Range(inbox[c]) \/ Dull(g) \/ (g = Refusal /\ NoMore(c)'),
         responses'[c] = responses[c], reading'[c] = reading[c], Came(c)' = Came(c), failure'[c] = failure[c],
         \A x, y : Before(c, x, y) => Before(c, x, y)', Range(sent[c]) \subseteq Range(sent'[c]),
         \A i, j \in 1..Len(sent'[c]) : sent'[c][i] = sent'[c][j] => i = j,
         \A g \in FramesOf(c) \cup Range(q) : MayPrecede(c, g, f)',
         f.kind = "event" => f.row \in Range(sent'[c]) /\ \A b \in Range(Came(c)) : Before(c, b, f.row)',
         NoMore(c) => NoMore(c)', f = Refusal => NoMore(c)'
  PROVE  SentOrder(c)'
<1>0. PICK u, b, r, p, w : u = sent'[c] /\ b = inbox'[c] /\ r = reading'[c] /\ p = responses'[c] /\ w = Came(c)'
  OBVIOUS
<1>1. \A x, y : MayPrecede(c, x, y) => MayPrecede(c, x, y)'
  BY DEF MayPrecede
<1>2. Range(b) = Range(q) \cup {f}
  BY <1>0, RangeAdd
<1>3. \A g \in Range(q) : MayPrecede(c, g, f)'
  OBVIOUS
<1>4. \A i, j \in 1..Len(b) : i < j => MayPrecede(c, b[i], b[j])'
  <2>1. \A i \in 1..Len(q) : b[i] = q[i] /\ q[i] \in Range(q)
    BY <1>0 DEF Range
  <2>2. Len(b) = Len(q) + 1 /\ b[Len(q) + 1] = f
    BY <1>0
  <2>3. SUFFICES ASSUME NEW i \in 1..Len(b), NEW j \in 1..Len(b), i < j PROVE MayPrecede(c, b[i], b[j])'
    OBVIOUS
  <2>4. i \in 1..Len(q) /\ (j \in 1..Len(q) \/ j = Len(q) + 1)
    BY <2>2, <2>3
  <2>5. CASE j \in 1..Len(q)
    BY <1>1, <2>1, <2>3, <2>4, <2>5 DEF Chain
  <2>6. CASE j = Len(q) + 1
    BY <1>3, <2>1, <2>2, <2>4, <2>6
  <2>7. QED
    BY <2>4, <2>5, <2>6
<1>5. Line(c)'
  <2>1. \A i, j \in 1..Len(p) : i < j => MayPrecede(c, p[i], p[j])'
    BY <1>0, <1>1 DEF SentOrder, Line, Chain
  <2>2. \A g \in Range(p), h \in Range(q) : MayPrecede(c, g, h)'
    BY <1>0, <1>1, DullAnywhere, RefusalLast DEF SentOrder, Line
  <2>3. \A h \in Range(p) \cup Range(q) : MayPrecede(c, r, h)'
    BY <1>0, <1>1, DullAnywhere, RefusalLast DEF SentOrder, Line
  <2>4. \A g \in Range(p) \cup {r} : MayPrecede(c, g, f)'
    BY <1>0 DEF FramesOf
  <2>5. QED
    BY <1>0, <1>2, <1>4, <2>1, <2>2, <2>3, <2>4 DEF Line, Chain
<1>6. \A g \in Range(b) \cup Range(p) \cup {r} : g \in FramesOf(c) \/ Dull(g) \/ g = f \/ (g = Refusal /\ NoMore(c)')
  BY <1>0, <1>2 DEF FramesOf
<1>7. /\ \A i, j \in 1..Len(w) : i < j => Before(c, w[i], w[j])'
      /\ Range(w) \subseteq Range(u)
      /\ \A g \in Range(b) \cup Range(p) \cup {r} : g.kind = "event" =>
           g.row \in Range(u) /\ \A x \in Range(w) : Before(c, x, g.row)'
  <2>1. \A i, j \in 1..Len(w) : i < j => Before(c, w[i], w[j])'
    BY <1>0 DEF SentOrder, Ascending
  <2>2. Range(w) \subseteq Range(u)
    BY <1>0 DEF SentOrder
  <2>3. ASSUME NEW g \in Range(b) \cup Range(p) \cup {r}, g.kind = "event"
        PROVE  g.row \in Range(u) /\ \A x \in Range(w) : Before(c, x, g.row)'
    BY <1>0, <1>6, <2>3 DEF SentOrder, Dull, Refusal
  <2>4. QED
    BY <2>1, <2>2, <2>3
<1>8. /\ r = Waiting => p = <<>>
      /\ r.kind = "rejected" => failure'[c] # "none"
  BY <1>0 DEF SentOrder
<1>9. Refusal \in Range(b) \cup Range(p) \cup {r} => NoMore(c)'
  BY <1>6, DullAnywhere DEF SentOrder
<1>10. r = Refusal => \A g \in Range(b) : g.kind # "event"
  BY <1>0, <1>5 DEF Line, MayPrecede
<1>11. QED
  BY <1>0, <1>5, <1>7, <1>8, <1>9, <1>10 DEF SentOrder, FramesOf, Hushed, Ascending

(* Taking nothing away, the service adds a frame, which may be damaged.    *)
LEMMA OrderSend ==
  ASSUME TypeOK, NEW c \in Conns, SentOrder(c), NEW f \in Responses, Send(c, f),
         responses'[c] = responses[c], reading'[c] = reading[c], Came(c)' = Came(c), failure'[c] = failure[c],
         \A x, y : Before(c, x, y) => Before(c, x, y)', Range(sent[c]) \subseteq Range(sent'[c]),
         \A i, j \in 1..Len(sent'[c]) : sent'[c][i] = sent'[c][j] => i = j,
         \A g \in FramesOf(c) : MayPrecede(c, g, f)',
         f.kind = "event" => f.row \in Range(sent'[c]) /\ \A b \in Range(Came(c)) : Before(c, b, f.row)',
         NoMore(c) => NoMore(c)', f = Refusal => NoMore(c)'
  PROVE  SentOrder(c)'
<1>1. PICK g \in {f} \cup [kind : Damages \cap Faults] : inbox' = [inbox EXCEPT ![c] = Append(inbox[c], g)]
  BY DEF Send
<1>2. inbox'[c] = Append(inbox[c], g) /\ inbox[c] \in Seq(Frames)
  BY <1>1 DEF TypeOK, SocketTypeOK
<1>3. g \in Frames /\ (g = f \/ Dull(g))
  <2>1. g \in [kind : Damages \cap Faults] => g \in [kind : Damages]
    OBVIOUS
  <2>2. QED
    BY <1>1, <2>1, Kinds, FrameTypes, SentTypes
<1>4. Chain(c, inbox[c])
  BY DEF SentOrder, Line
<1>5. CASE g = f
  BY <1>2, <1>3, <1>4, <1>5, OrderAdd DEF FramesOf
<1>6. CASE Dull(g)
  <2>1. (\A h \in FramesOf(c) : MayPrecede(c, h, g)') /\ g # Refusal /\ g.kind # "event"
    BY <1>6, DullAnywhere DEF Dull
  <2>2. QED
    BY <1>2, <1>3, <1>4, <2>1, OrderAdd DEF FramesOf
<1>7. QED
  BY <1>3, <1>5, <1>6

(* The steps of the service.                                               *)
LEMMA OrderService ==
  ASSUME TypeOK, Apart, NEW c \in Conns, SentOrder(c), AnswerTrail(c), Service(c)
  PROVE  SentOrder(c)'
<1>1. /\ UNCHANGED <<responses, reading, queue, yielded, failure>> /\ Came(c)' = Came(c)
  BY DEF Service, Accept, Refuse, Deliver, HandleAck, Disconnect, Reset, Backpressure, Drop, NoticeClosed,
    ClientVars, eventVars, connVars, history, Came
<1>2. inbox[c] \in Seq(Frames) /\ sent[c] \in Seq(Rows)
  BY ConnFields
<1>3. ASSUME sent' = sent
      PROVE  /\ \A x, y : Before(c, x, y) => Before(c, x, y)'
             /\ Range(sent[c]) \subseteq Range(sent'[c])
             /\ \A i, j \in 1..Len(sent'[c]) : sent'[c][i] = sent'[c][j] => i = j
  BY <1>3, MayStay DEF SentOrder
<1>4. CASE Accept(c)
  <2>1. NoMore(c) => NoMore(c)'
    BY <1>4 DEF Accept, NoMore
  <2>2. \A g \in FramesOf(c) : MayPrecede(c, g, [kind |-> "subscribed"])'
    BY Kinds, DullAnywhere
  <2>3. [kind |-> "subscribed"] \in Responses /\ [kind |-> "subscribed"] # Refusal
    BY SentTypes DEF Refusal
  <2>4. QED
    BY <1>1, <1>3, <1>4, <2>1, <2>2, <2>3, OrderSend DEF Accept
<1>5. CASE Refuse(c)
  <2>1. NoMore(c) => NoMore(c)'
    BY <1>5 DEF Refuse, NoMore
  <2>2. NoMore(c)'
    BY <1>5 DEF Refuse, NoMore, Apart
  <2>3. QED
    BY <1>1, <1>3, <1>5, <2>1, <2>2, OrderSend, RefusalLast, SentTypes DEF Refuse, Refusal
<1>6. ASSUME NEW r \in Rows, Deliver(c, r) PROVE SentOrder(c)'
  <2> DEFINE f == [kind |-> "event", row |-> r]
  <2>1. sent'[c] = Append(sent[c], r) /\ r \notin Range(sent[c]) /\ f \in Responses /\ Send(c, f)
    BY <1>6, SentTypes DEF Deliver, TypeOK, ServiceTypeOK
  <2>2. \A i \in 1..Len(sent[c]) : sent'[c][i] = sent[c][i] /\ sent[c][i] \in Range(sent[c])
    BY <1>2, <2>1 DEF Range
  <2>3. Len(sent'[c]) = Len(sent[c]) + 1 /\ sent'[c][Len(sent[c]) + 1] = r /\ Range(sent'[c]) = Range(sent[c]) \cup {r}
    BY <1>2, <2>1, RangeAdd
  <2>4. \A x, y : Before(c, x, y) => Before(c, x, y)'
    BY <2>2, <2>3, SMTT(30) DEF Before
  <2>5. \A x \in Range(sent[c]) : Before(c, x, r)'
    <3>1. SUFFICES ASSUME NEW x \in Range(sent[c]) PROVE Before(c, x, r)'
      OBVIOUS
    <3>2. PICK i \in 1..Len(sent[c]) : sent[c][i] = x
      BY DEF Range
    <3>3. i \in 1..Len(sent'[c]) /\ Len(sent[c]) + 1 \in 1..Len(sent'[c]) /\ i < Len(sent[c]) + 1
      BY <1>2, <2>3
    <3>4. QED
      BY <2>2, <2>3, <3>2, <3>3 DEF Before
  <2>6. \A i, j \in 1..Len(sent'[c]) : sent'[c][i] = sent'[c][j] => i = j
    BY <1>2, <2>1, <2>2, <2>3 DEF SentOrder
  <2>7. ~NoMore(c) /\ (NoMore(c) => NoMore(c)') /\ f # Refusal
    BY <1>6 DEF Deliver, NoMore, Refusal
  <2>8. \A g \in FramesOf(c) : MayPrecede(c, g, f)'
    <3>1. SUFFICES ASSUME NEW g \in FramesOf(c) PROVE MayPrecede(c, g, f)'
      OBVIOUS
    <3>2. g # Refusal /\ (g.kind = "event" => g.row \in Range(sent[c]))
      BY <2>7 DEF SentOrder
    <3>3. QED
      BY <2>5, <3>2 DEF MayPrecede, Answers
  <2>9. \A b \in Range(Came(c)) : Before(c, b, f.row)'
    BY <2>5 DEF SentOrder
  <2>10. f.row \in Range(sent'[c]) /\ Range(sent[c]) \subseteq Range(sent'[c])
    BY <2>3
  <2>11. QED
    BY <1>1, <2>1, <2>4, <2>6, <2>7, <2>8, <2>9, <2>10, OrderSend
<1>7. ASSUME NEW k \in Calls, HandleAck(c, k) PROVE SentOrder(c)'
  <2>1. NoMore(c) => NoMore(c)'
    BY <1>7 DEF HandleAck, NoMore
  <2>2. CASE link[c] = "up"
    <3>1. PICK b \in {"acked", "error"} : Send(c, [kind |-> b, call |-> k])
      BY <1>7, <2>2 DEF HandleAck
    <3>2. [kind |-> b, call |-> k] \in Responses /\ [kind |-> b, call |-> k] # Refusal
      BY SentTypes, ConstantsAssumption DEF Refusal
    <3>3. k \in wire[c]
      BY <1>7 DEF HandleAck
    <3>4. \A g \in FramesOf(c) : MayPrecede(c, g, [kind |-> b, call |-> k])'
      BY <3>3 DEF AnswerTrail, MayPrecede, Answers
    <3>5. sent' = sent
      BY <1>7 DEF HandleAck
    <3>6. QED
      BY <1>1, <1>3, <2>1, <3>1, <3>2, <3>4, <3>5, OrderSend
  <2>3. CASE link[c] # "up"
    BY <1>1, <1>7, <2>1, <2>3, OrderStays DEF HandleAck
  <2>4. QED
    BY <2>2, <2>3
<1>8. ASSUME NEW q \in Seq(Frames), Drop(c, q), Chain(c, q), \A g \in Range(q) : g \in Range(inbox[c]) \/ Dull(g) \/ g = Refusal
      PROVE  SentOrder(c)'
  <2>1. /\ inbox'[c] = Append(q, [kind |-> "close"]) /\ sent' = sent /\ NoMore(c)'
        /\ [kind |-> "close"] \in Frames /\ Dull([kind |-> "close"])
    BY <1>8, FrameTypes, Kinds DEF Drop, NoMore, TypeOK, SocketTypeOK
  <2>2. \A g \in FramesOf(c) \cup Range(q) : MayPrecede(c, g, [kind |-> "close"])'
    BY <2>1, DullAnywhere
  <2>3. [kind |-> "close"].kind # "event"
    OBVIOUS
  <2>4. QED
    BY <1>1, <1>3, <1>8, <2>1, <2>2, <2>3, OrderAdd
<1>9. CASE Disconnect(c)
  BY <1>2, <1>8, <1>9 DEF Disconnect, SentOrder, Line
<1>10. CASE Reset(c)
  <2>1. <<[kind |-> "reset"]>> \in Seq(Frames) /\ Chain(c, <<[kind |-> "reset"]>>)
    BY FrameTypes, ChainNone
  <2>2. \A g \in Range(<<[kind |-> "reset"]>>) : Dull(g)
    BY RangeOne, Kinds
  <2>3. QED
    BY <1>8, <1>10, <2>1, <2>2 DEF Reset
<1>11. CASE NoticeClosed(c)
  BY <1>1, <1>11, OrderStays DEF NoticeClosed, socketVars, NoMore
<1>12. CASE Backpressure(c)
  <2>0. PICK q : q = Append(inbox[c], Refusal)
    OBVIOUS
  <2>1. Drop(c, q) /\ Refusal \in Frames
    BY <1>12, <2>0, FrameTypes, SentTypes DEF Backpressure, Refusal
  <2>2. q \in Seq(Frames) /\ Range(q) = Range(inbox[c]) \cup {Refusal}
    BY <1>2, <2>0, <2>1, AddLast, RangeAdd
  <2>3. Chain(c, q)
    BY <1>2, <2>0, <2>1, RefusalLast, ChainAdd DEF SentOrder, Line
  <2>4. QED
    BY <1>8, <2>1, <2>2, <2>3
<1>13. QED
  BY <1>4, <1>5, <1>6, <1>7, <1>9, <1>10, <1>11, <1>12 DEF Service

(* A destroyed socket has nothing but its "close" left.                    *)
LEMMA DestroyShrinks ==
  ASSUME TypeOK, NEW c \in Conns, Destroy(c), Chain(c, inbox[c]), UNCHANGED <<active, asked>>
  PROVE  /\ Chain(c, inbox'[c]) /\ \A f \in Range(inbox'[c]) : f \in Range(inbox[c]) \/ Dull(f)
         /\ NoMore(c) => NoMore(c)'
         /\ link[c] # "closed" => link'[c] = "destroyed" /\ inbox'[c] = <<[kind |-> "close"]>>
         /\ link[c] = "closed" => link'[c] = "closed" /\ inbox'[c] = inbox[c]
<1>1. \A f \in Range(<<[kind |-> "close"]>>) : Dull(f)
  BY RangeOne, Kinds
<1>2. CASE link[c] = "closed"
  BY <1>2 DEF Destroy, socketVars, NoMore
<1>3. CASE link[c] # "closed"
  <2>1. inbox'[c] = <<[kind |-> "close"]>> /\ link'[c] = "destroyed"
    BY <1>3 DEF Destroy, TypeOK, SocketTypeOK
  <2>2. QED
    BY <1>1, <1>3, <2>1, ChainNone DEF NoMore
<1>4. QED
  BY <1>2, <1>3

(* The events of a socket.                                                 *)
LEMMA OrderSocket ==
  ASSUME TypeOK, NEW c \in Conns, SentOrder(c), Socket(c)
  PROVE  SentOrder(c)'
<1>1. CASE ReceiveResponse(c)
  BY <1>1, OrderReceive
<1>2. CASE ReceiveDamaged(c) \/ SocketEvent(c)
  <2>1. PICK e \in Errors : Fail(c, e)
    BY <1>2 DEF ReceiveDamaged, SocketEvent, FrameError, Errors
  <2>2. /\ sent' = sent /\ responses' = responses /\ yielded' = yielded /\ queue' = queue
        /\ UNCHANGED <<active, asked>> /\ inbox[c] # <<>> /\ inbox[c] \in Seq(Frames) /\ Chain(c, inbox[c])
        /\ Destroy(c) \/ (Unhandled(c) /\ (link' = link \/ link' = [link EXCEPT ![c] = "closed"]))
    BY <1>2, ConnFields DEF ReceiveDamaged, SocketEvent, serviceVars, eventVars, history, SentOrder, Line
  <2>3. /\ Chain(c, inbox'[c]) /\ \A f \in Range(inbox'[c]) : f \in Range(inbox[c]) \/ Dull(f)
        /\ NoMore(c) => NoMore(c)'
    <3>1. CASE Destroy(c)
      BY <2>2, <3>1, DestroyShrinks
    <3>2. CASE Unhandled(c) /\ (link' = link \/ link' = [link EXCEPT ![c] = "closed"])
      <4>1. inbox'[c] = Tail(inbox[c])
        BY <3>2 DEF Unhandled, TypeOK, SocketTypeOK
      <4>2. Chain(c, inbox'[c]) /\ Range(inbox'[c]) \subseteq Range(inbox[c])
        BY <2>2, <4>1, ChainTake, RangeTake
      <4>3. NoMore(c) => NoMore(c)'
        BY <2>2, <3>2 DEF NoMore, TypeOK, SocketTypeOK
      <4>4. QED
        BY <4>2, <4>3
    <3>3. QED
      BY <2>2, <3>1, <3>2
  <2>4. /\ failure'[c] # "none"
        /\ reading'[c] = reading[c] \/ (reading'[c] # Waiting /\ Dull(reading'[c]))
    BY <2>1, Kinds DEF Fail, TypeOK, ConnTypeOK, Rejected, Waiting, Errors
  <2>5. QED
    BY <2>2, <2>3, <2>4, OrderFewer
<1>3. QED
  BY <1>1, <1>2 DEF Socket

(* An event that is pushed comes behind those that came.                   *)
LEMMA PushCame ==
  ASSUME TypeOK, NEW c \in Conns, reading[c].kind = "event", queueFailure[c] = "none", Push(c, reading[c].row),
         yielded' = yielded
  PROVE  Came(c)' = Append(Came(c), reading[c].row)
<1>1. queue'[c] = Append(queue[c], reading[c].row) /\ reading[c].row \in Rows
  BY ConnFields, FrameTypes DEF Push, TypeOK, EventTypeOK
<1>2. PICK y, q, r : y = yielded[c] /\ q = queue[c] /\ r = reading[c].row
  OBVIOUS
<1>3. y \in Seq(Rows) /\ q \in Seq(Rows) /\ r \in Rows
  BY <1>1, <1>2, ConnFields
<1>4. y \o Append(q, r) = Append(y \o q, r)
  BY ONLY <1>3, PushJoins
<1>5. QED
  BY <1>1, <1>2, <1>4 DEF Came

(* The steps of the pump.                                                  *)
LEMMA OrderPump ==
  ASSUME TypeOK, NEW c \in Conns, SentOrder(c), Pump(c)
  PROVE  SentOrder(c)'
<1>1. /\ UNCHANGED <<inbox, sent, failure, yielded, link, active, asked>>
      /\ NoMore(c) => NoMore(c)'
  BY DEF Pump, socketVars, serviceVars, history, NoMore
<1>2. CASE ReadResponse(c) /\ queue' = queue
  BY <1>1, <1>2, OrderRead DEF Came
<1>3. CASE RouteEvent(c)
  <2>1. ReadResponse(c) /\ reading[c].kind = "event" /\ Push(c, reading[c].row)
    BY <1>3 DEF RouteEvent
  <2>2. CASE queueFailure[c] # "none"
    BY <1>2, <2>1, <2>2 DEF Push
  <2>3. CASE queueFailure[c] = "none"
    BY <1>1, <2>1, <2>3, PushCame, OrderRead
  <2>4. QED
    BY <2>2, <2>3
<1>4. CASE PumpFails(c)
  <2>1. reading'[c] = NotReading /\ responses' = responses /\ queue' = queue
    BY <1>4 DEF PumpFails, TypeOK, ConnTypeOK
  <2>2. Dull(NotReading) /\ NotReading # Waiting /\ NotReading.kind # "rejected"
    BY Kinds DEF NotReading, Waiting
  <2>3. QED
    BY <1>1, <2>1, <2>2, OrderFewer DEF SentOrder, Line
<1>5. QED
  BY <1>2, <1>3, <1>4 DEF Pump, RouteAnswer, RouteUnclaimed, eventVars

-----------------------------------------------------------------------------
(* What a step leaves alone at a connection.                               *)
Same(d) ==
  /\ inbox'[d] = inbox[d] /\ responses'[d] = responses[d] /\ reading'[d] = reading[d] /\ failure'[d] = failure[d]
  /\ queue'[d] = queue[d] /\ queueFailure'[d] = queueFailure[d] /\ pump'[d] = pump[d] /\ link'[d] = link[d]
  /\ sent'[d] = sent[d] /\ arrived'[d] = arrived[d] /\ yielded'[d] = yielded[d]
  /\ active' = d => active = d
  /\ d \in asked' => d \in asked

(* A step of one connection leaves the others alone ...                    *)
LEMMA SameElsewhere ==
  ASSUME TypeOK, NEW c \in Conns, NEW d \in Conns, d # c, Socket(c) \/ Pump(c) \/ Service(c)
  PROVE  Same(d) /\ pending'[d] = pending[d] /\ wire'[d] = wire[d]
<1> USE DEF TypeOK, EventTypeOK, ConnTypeOK, SocketTypeOK, ServiceTypeOK, PromiseTypeOK, Same, history, eventVars, connVars,
      socketVars, serviceVars
<1>1. CASE Socket(c)
  BY <1>1 DEF Socket, ReceiveResponse, ReceiveDamaged, SocketEvent, Resolve, Fail, Unhandled, Destroy
<1>2. CASE Pump(c)
  BY <1>2 DEF Pump, RouteAnswer, RouteEvent, RouteUnclaimed, PumpFails, ReadResponse, Push, RejectPending, FailQueue
<1>3. CASE Service(c)
  <2>1. CASE Accept(c) \/ Refuse(c)
    BY <2>1 DEF Accept, Refuse, Send, ClientVars
  <2>2. ASSUME NEW r \in Rows, Deliver(c, r) PROVE Same(d) /\ pending'[d] = pending[d] /\ wire'[d] = wire[d]
    BY <2>2 DEF Deliver, Send, ClientVars
  <2>3. ASSUME NEW k \in Calls, HandleAck(c, k) PROVE Same(d) /\ pending'[d] = pending[d] /\ wire'[d] = wire[d]
    BY <2>3 DEF HandleAck, Send, ClientVars
  <2>4. CASE Disconnect(c) \/ Reset(c) \/ Backpressure(c)
    <3>1. PICK q : Drop(c, q)
      BY <2>4 DEF Disconnect, Reset, Backpressure
    <3>2. (active' = active \/ active' = None) /\ asked' \subseteq asked /\ d # None
      BY <3>1, ConstantsAssumption DEF Drop, Conns
    <3>3. QED
      BY <3>1, <3>2 DEF Drop, ClientVars
  <2>5. CASE NoticeClosed(c)
    BY <2>5, ConstantsAssumption DEF NoticeClosed, ClientVars, Conns
  <2>6. QED
    BY <1>3, <2>1, <2>2, <2>3, <2>4, <2>5 DEF Service
<1>4. QED
  BY <1>1, <1>2, <1>3

(* ... an ack() leaves them all alone ...                                  *)
LEMMA SameInAck ==
  ASSUME TypeOK, NEW k \in Calls, Ack(k), NEW d \in Conns
  PROVE  Same(d) /\ conn' = conn /\ UNCHANGED <<spc, cur, outcome>>
BY DEF Ack, AckBegin, AckReturn, AckPerform, Write, Same, history, eventVars, connVars, socketVars, serviceVars, streamVars

(* The connection a stream works on, in a step of its own.                 *)
Target(s, c) == c = IF spc[s] = "ready" THEN cur'[s] ELSE cur[s]

(* Every step of a stream has such a connection.                           *)
LEMMA SubscribeTarget ==
  ASSUME TypeOK, NEW s \in Streams, Subscribe(s)
  PROVE  \E c \in Conns : Target(s, c)
<1>1. CASE spc[s] = "ready"
  BY <1>1 DEF Subscribe, OpenConnection, OpenFails, Subscribed, SubscribeFails, YieldEvent, EventsFail, NextEvent,
    Return, Wake, Target, TypeOK, StreamTypeOK
<1>2. CASE spc[s] # "ready"
  BY <1>2 DEF Target, TypeOK, StreamTypeOK
<1>3. QED
  BY <1>1, <1>2

(* ... and a step of a stream leaves alone those it does not work on.      *)
LEMMA SameInSubscribe ==
  ASSUME TypeOK, NEW s \in Streams, Subscribe(s), NEW c \in Conns, Target(s, c), NEW d \in Conns, d # c
  PROVE  Same(d) /\ pending'[d] = pending[d] /\ wire'[d] = wire[d]
<1> USE DEF TypeOK, EventTypeOK, ConnTypeOK, SocketTypeOK, ServiceTypeOK, PromiseTypeOK, Same, history, eventVars, connVars,
      socketVars, serviceVars, Target
<1>1. ASSUME NEW e, Finally(e), e = c
      PROVE  /\ queueFailure'[d] = queueFailure[d] /\ inbox'[d] = inbox[d] /\ link'[d] = link[d] /\ pending'[d] = pending[d]
  BY <1>1 DEF Finally, RejectPending, FailQueue, Destroy
<1>2. ASSUME NEW e, NEW x, Raise(s, e, x), e = c
      PROVE  /\ queueFailure'[d] = queueFailure[d] /\ inbox'[d] = inbox[d] /\ link'[d] = link[d] /\ pending'[d] = pending[d]
  BY <1>1, <1>2 DEF Raise
<1>3. CASE OpenConnection(s)
  BY <1>3 DEF OpenConnection, StreamTypeOK
<1>4. CASE OpenFails(s)
  <2>1. PICK e \in Conns : spc[s] = "ready" /\ failure' = [failure EXCEPT ![e] = "os"] /\ cur' = [cur EXCEPT ![s] = e] /\ Raise(s, e, "os")
    BY <1>4 DEF OpenFails
  <2>2. e = c
    BY <2>1 DEF StreamTypeOK
  <2>3. QED
    BY <1>2, <1>4, <2>1, <2>2 DEF OpenFails
<1>5. CASE Subscribed(s)
  BY <1>5 DEF Subscribed, ReadResponse
<1>6. CASE SubscribeFails(s)
  BY <1>2, <1>6 DEF SubscribeFails
<1>7. CASE YieldEvent(s) \/ NextEvent(s)
  BY <1>7 DEF YieldEvent, NextEvent
<1>8. CASE EventsFail(s)
  BY <1>2, <1>8 DEF EventsFail
<1>9. CASE Return(s) \/ Wake(s)
  BY <1>1, <1>9 DEF Return, Wake
<1>10. QED
  BY <1>3, <1>4, <1>5, <1>6, <1>7, <1>8, <1>9 DEF Subscribe

(* What is left alone keeps its order.                                     *)
LEMMA OrderSame ==
  ASSUME NEW d \in Conns, SentOrder(d), Same(d)
  PROVE  SentOrder(d)'
BY OrderStays DEF Same, NoMore

(* What a generator that leaves its try block keeps of the frames.         *)
LEMMA RaiseShrinks ==
  ASSUME TypeOK, NEW c \in Conns, Finally(c) \/ (\E s \in Streams : \E e : Raise(s, c, e)), Chain(c, inbox[c]), UNCHANGED <<active, asked>>
  PROVE  /\ Chain(c, inbox'[c]) /\ \A f \in Range(inbox'[c]) : f \in Range(inbox[c]) \/ Dull(f)
         /\ NoMore(c) => NoMore(c)'
<1>1. CASE Destroy(c)
  BY <1>1, DestroyShrinks
<1>2. CASE UNCHANGED socketVars
  BY <1>2 DEF socketVars, NoMore
<1>3. QED
  BY <1>1, <1>2 DEF Raise, Finally

(* The steps of a stream.                                                  *)
LEMMA OrderSubscribe ==
  ASSUME TypeOK, NEW s \in Streams, Subscribe(s), NEW c \in Conns, Target(s, c), SentOrder(c), Unopened(c)
  PROVE  SentOrder(c)'
<1> USE DEF streamVars, eventVars, connVars, socketVars, serviceVars, history
<1>1. Chain(c, inbox[c])
  BY DEF SentOrder, Line
<1>2. ASSUME Finally(c) \/ (\E e : Raise(s, c, e)), UNCHANGED <<active, asked, sent, responses, queue, yielded>>,
             reading'[c] = reading[c] \/ reading'[c] = NotReading, failure[c] # "none" => failure'[c] # "none"
      PROVE  SentOrder(c)'
  <2>1. Dull(NotReading) /\ NotReading # Waiting /\ NotReading.kind # "rejected"
    BY Kinds DEF NotReading, Waiting
  <2>2. QED
    BY <1>1, <1>2, <2>1, RaiseShrinks, OrderFewer
<1>3. CASE OpenConnection(s)
  <2>1. PICK n \in Conns : /\ NextConn(n) /\ reading' = [reading EXCEPT ![n] = Waiting] /\ cur' = [cur EXCEPT ![s] = n]
                           /\ spc[s] = "ready"
                           /\ UNCHANGED <<queue, yielded, sent, responses, inbox, failure>>
    BY <1>3 DEF OpenConnection
  <2>2. n = c
    BY <2>1 DEF Target, TypeOK, StreamTypeOK
  <2>3. reading'[c] = Waiting /\ responses[c] = <<>> /\ inbox[c] = <<>> /\ reading[c] = NotReading /\ Dull(Waiting)
    BY <2>1, <2>2, Kinds DEF NextConn, Unopened, TypeOK, ConnTypeOK
  <2>4. Refusal \notin FramesOf(c)
    BY <2>3 DEF FramesOf, Range, Refusal, NotReading
  <2>5. QED
    BY <1>1, <2>1, <2>3, <2>4, OrderFewer
<1>4. CASE OpenFails(s)
  <2>1. PICK n \in Conns : /\ failure' = [failure EXCEPT ![n] = "os"] /\ cur' = [cur EXCEPT ![s] = n] /\ Raise(s, n, "os")
                           /\ spc[s] = "ready"
                           /\ UNCHANGED <<active, asked, sent, responses, queue, yielded, reading>>
    BY <1>4 DEF OpenFails
  <2>2. n = c
    BY <2>1 DEF Target, TypeOK, StreamTypeOK
  <2>3. failure'[c] = "os"
    BY <2>1, <2>2 DEF TypeOK, ConnTypeOK
  <2>4. QED
    BY <1>2, <2>1, <2>2, <2>3
<1>5. CASE Subscribed(s)
  <2>1. ReadResponse(c) /\ UNCHANGED <<inbox, link, sent, failure, queue, yielded, active, asked>>
    BY <1>5 DEF Subscribed, Target
  <2>2. QED
    BY <2>1, OrderRead DEF Came, NoMore
<1>6. CASE SubscribeFails(s)
  <2>1. reading'[c] = NotReading /\ \E e : Raise(s, c, e)
    BY <1>6 DEF SubscribeFails, Target, TypeOK, ConnTypeOK
  <2>2. QED
    BY <1>2, <1>6, <2>1 DEF SubscribeFails
<1>7. CASE YieldEvent(s)
  <2>1. /\ queue[c] # <<>> /\ queue'[c] = Tail(queue[c]) /\ yielded'[c] = Append(yielded[c], Head(queue[c]))
        /\ UNCHANGED <<link, inbox, responses, reading, failure, sent, active, asked>>
    BY <1>7 DEF YieldEvent, Target, TypeOK, EventTypeOK, ServiceTypeOK
  <2>2. queue[c] \in Seq(Rows) /\ yielded[c] \in Seq(Rows)
    BY ConnFields
  <2>3. yielded'[c] \o queue'[c] = yielded[c] \o queue[c]
    BY <2>1, <2>2, YieldJoins
  <2>4. QED
    BY <2>1, <2>3, OrderStays DEF NoMore
<1>8. CASE NextEvent(s)
  BY <1>8, OrderStays DEF NextEvent, NoMore
<1>9. CASE EventsFail(s)
  <2>1. \E e : Raise(s, c, e)
    BY <1>9 DEF EventsFail, Target, OutOfEvents
  <2>2. QED
    BY <1>2, <1>9, <2>1 DEF EventsFail
<1>10. CASE Return(s) \/ Wake(s)
  BY <1>2, <1>10 DEF Return, Wake, Target
<1>11. QED
  BY <1>3, <1>4, <1>5, <1>6, <1>7, <1>8, <1>9, <1>10 DEF Subscribe

(* Nothing else touches the order.                                         *)
LEMMA OrderStep ==
  ASSUME TypeOK, OrderTrail, [Next]_vars
  PROVE  \A d \in Conns : SentOrder(d)'
<1> SUFFICES ASSUME NEW d \in Conns PROVE SentOrder(d)'
  OBVIOUS
<1>1. SentOrder(d) /\ AnswerTrail(d) /\ Unopened(d) /\ Apart
  BY DEF OrderTrail
<1>2. ASSUME NEW c \in Conns, Socket(c) \/ Pump(c) \/ Service(c) PROVE SentOrder(d)'
  <2>1. CASE d = c
    BY <1>1, <1>2, <2>1, OrderSocket, OrderPump, OrderService
  <2>2. CASE d # c
    BY <1>1, <1>2, <2>2, SameElsewhere, OrderSame
  <2>3. QED
    BY <2>1, <2>2
<1>3. ASSUME NEW s \in Streams, Subscribe(s) PROVE SentOrder(d)'
  <2>1. PICK c \in Conns : Target(s, c)
    BY <1>3, SubscribeTarget
  <2>2. CASE d = c
    BY <1>1, <1>3, <2>1, <2>2, OrderSubscribe
  <2>3. CASE d # c
    BY <1>1, <1>3, <2>1, <2>3, SameInSubscribe, OrderSame
  <2>4. QED
    BY <2>2, <2>3
<1>4. ASSUME NEW k \in Calls, Ack(k) PROVE SentOrder(d)'
  BY <1>1, <1>4, SameInAck, OrderSame
<1>5. CASE UNCHANGED vars
  <2>1. Same(d)
    BY <1>5 DEF Same, vars, eventVars, connVars, socketVars, serviceVars, history
  <2>2. QED
    BY <1>1, <2>1, OrderSame
<1>6. QED
  BY <1>2, <1>3, <1>4, <1>5 DEF Next

(* A prefix, element by element.                                           *)
LEMMA PrefixElements ==
  ASSUME NEW y \in Seq(Rows), NEW s \in Seq(Rows)
  PROVE  IsPrefix(y, s) <=> Len(y) <= Len(s) /\ \A i \in 1..Len(y) : y[i] = s[i]
<1>1. ASSUME Len(y) <= Len(s)
      PROVE  SubSeq(y, 1, Len(y)) = SubSeq(s, 1, Len(y)) <=> \A i \in 1..Len(y) : y[i] = s[i]
  <2>1. /\ SubSeq(y, 1, Len(y)) = [i \in 1..Len(y) |-> y[i]]
        /\ SubSeq(s, 1, Len(y)) = [i \in 1..Len(y) |-> s[i]]
    BY <1>1
  <2>2. QED
    BY <2>1
<1>2. QED
  BY <1>1 DEF IsPrefix

(* A step that is not about connection d.                                  *)
Aloof(d) ==
  /\ Same(d) /\ pending'[d] = pending[d] /\ wire'[d] = wire[d] /\ via' = via /\ cpc' = cpc
  /\ conn' = d => conn = d
  /\ \A t \in Streams : cur'[t] = d => cur[t] = d /\ spc'[t] = spc[t] /\ outcome'[t] = outcome[t]

(* A step of one connection is not about the others.                       *)
LEMMA AloofElsewhere ==
  ASSUME TypeOK, NEW c \in Conns, NEW d \in Conns, d # c,
         \/ Socket(c) \/ Pump(c) \/ Service(c)
         \/ \E s \in Streams : Subscribe(s) /\ Target(s, c)
  PROVE  Aloof(d)
<1>1. CASE Socket(c) \/ Pump(c) \/ Service(c)
  <2>1. UNCHANGED <<conn, streamVars, via, cpc>>
    BY <1>1 DEF Socket, ReceiveResponse, ReceiveDamaged, SocketEvent, Pump, Service, Accept, Refuse, Deliver, HandleAck,
      Disconnect, Reset, Backpressure, Drop, NoticeClosed, ClientVars, callVars
  <2>2. QED
    BY <1>1, <2>1, SameElsewhere DEF Aloof, streamVars
<1>2. ASSUME NEW s \in Streams, Subscribe(s), Target(s, c) PROVE Aloof(d)
  <2>1. Same(d) /\ pending'[d] = pending[d] /\ wire'[d] = wire[d]
    BY <1>2, SameInSubscribe
  <2>2. via' = via /\ cpc' = cpc
    BY <1>2 DEF Subscribe, OpenConnection, OpenFails, Subscribed, SubscribeFails, YieldEvent, EventsFail, NextEvent,
      Return, Wake, callVars
  <2>3. /\ spc[s] # "ready" => cur' = cur
        /\ cur'[s] = c
        /\ \A t \in Streams : t # s => cur'[t] = cur[t] /\ spc'[t] = spc[t] /\ outcome'[t] = outcome[t]
    BY <1>2 DEF Subscribe, OpenConnection, OpenFails, Subscribed, SubscribeFails, YieldEvent, EventsFail, NextEvent,
      Return, Wake, Raise, Target, TypeOK, StreamTypeOK, streamVars
  <2>4. conn' \in {conn, None, c}
    BY <1>2 DEF Subscribe, OpenConnection, OpenFails, Subscribed, SubscribeFails, YieldEvent, EventsFail, NextEvent,
      Return, Wake, Raise, Finally, Forget, Target
  <2>5. d # None
    BY ConstantsAssumption DEF Conns
  <2>6. QED
    BY <2>1, <2>2, <2>3, <2>4, <2>5 DEF Aloof
<1>3. QED
  BY <1>1, <1>2

(* What is known of a connection stays known where nothing is done to it.  *)
Known(c) == NoGap(c) /\ AnswerTrail(c) /\ OpeningTrail(c) /\ Unopened(c) /\ FailedTrail(c)

(* What is still to come, where nothing comes.                             *)
LEMMA ComingKept ==
  ASSUME NEW c \in Conns, Coming(c), arrived'[c] = arrived[c], sent'[c] = sent[c],
         inbox'[c] = inbox[c], link'[c] = "up" => link[c] = "up"
  PROVE  Coming(c)'
<1>1. PICK a, u, q : a = arrived[c] /\ u = sent[c] /\ q = inbox[c]
  OBVIOUS
<1>2. QED
  BY <1>1 DEF Coming

(* No row is lost where nothing is received and the events in hand stay.   *)
LEMMA GapKept ==
  ASSUME NEW c \in Conns, NoGap(c), arrived'[c] = arrived[c], sent'[c] = sent[c], Came(c)' = Came(c),
         queueFailure'[c] = "none" => queueFailure[c] = "none", failure'[c] = "none" => failure[c] = "none",
         queueFailure'[c] = "none" => \A f \in InHand(c) : f.kind = "event" => f \in InHand(c)',
         failure'[c] = "none" => \A f \in InHand(c)' : f.kind = "event" => f \in InHand(c),
         failure'[c] = "none" => Coming(c)' /\ \A f \in Range(inbox'[c]) : f.kind = "event" => f \in Range(inbox[c]),
         queueFailure'[c] = "none" /\ reading'[c].kind \in {"waiting", "rejected"} => Handed(c)
  PROVE  NoGap(c)'
<1>1. PICK a, u, w : a = arrived[c] /\ u = sent[c] /\ w = Came(c)
  OBVIOUS
<1>2. queueFailure'[c] = "none" => \A r : EventOf(r) \in InHand(c) => EventOf(r) \in InHand(c)'
  BY DEF EventOf
<1>3. queueFailure'[c] = "none" => (Kept(c) => Kept(c)')
  BY <1>1, <1>2 DEF Kept
<1>4. Handed(c) => Handed(c)'
  BY DEF Handed
<1>5. failure'[c] = "none" => Unbroken(c)'
  BY DEF NoGap, Unbroken
<1>6. QED
  BY <1>3, <1>4, <1>5 DEF NoGap

(* No row is lost of a connection that is left alone.                      *)
LEMMA GapSame ==
  ASSUME NEW d \in Conns, NoGap(d), Same(d)
  PROVE  NoGap(d)'
<1>1. Came(d)' = Came(d) /\ InHand(d)' = InHand(d)
  BY DEF Same, Came, InHand
<1>2. failure[d] = "none" => Coming(d)'
  BY ComingKept DEF Same, NoGap, Unbroken
<1>3. QED
  BY <1>1, <1>2, GapKept DEF Same, NoGap

(* What is known of a connection stays known when a step is not about it.  *)
LEMMA KnownAloof ==
  ASSUME TypeOK, NEW d \in Conns, Known(d), Aloof(d)
  PROVE  Known(d)'
<1>1. /\ \A S : InStage(d, S)' => InStage(d, S)
      /\ Served(d)' => Served(d)
  BY DEF Aloof, InStage, Served
<1>2. NoGap(d)'
  BY GapSame DEF Known, Aloof
<1>3. AnswerTrail(d)'
  BY <1>1 DEF Known, Aloof, Same, AnswerTrail, FramesOf
<1>4. OpeningTrail(d)'
  <2>1. InStage(d, {"opening"})' => InStage(d, {"opening"})
    BY <1>1
  <2>2. QED
    BY <2>1 DEF Known, Aloof, Same, OpeningTrail, Came
<1>5. Unopened(d)'
  BY DEF Known, Aloof, Same, Unopened
<1>6. FailedTrail(d)'
  BY <1>1 DEF Known, Aloof, Same, FailedTrail, Handed, Over, Hushed, NoMore, Came
<1>7. QED
  BY <1>2, <1>3, <1>4, <1>5, <1>6 DEF Known

-----------------------------------------------------------------------------
(* A row has one place among those sent.                                   *)
LEMMA OnePlace ==
  ASSUME NEW c \in Conns, SentOrder(c)
  PROVE  /\ \A i, j \in 1..Len(sent[c]) : Before(c, sent[c][i], sent[c][j]) => i < j
         /\ \A r : ~Before(c, r, r)
<1>1. \A i, j \in 1..Len(sent[c]) : sent[c][i] = sent[c][j] => i = j
  BY DEF SentOrder
<1>2. QED
  BY <1>1 DEF Before

(* What the rows that arrived and came are, element by element.            *)
LEMMA GapRows ==
  ASSUME TypeOK, NEW c \in Conns, NoGap(c)
  PROVE  /\ arrived[c] \in Seq(Rows) /\ sent[c] \in Seq(Rows) /\ Came(c) \in Seq(Rows)
         /\ Len(arrived[c]) <= Len(sent[c]) /\ \A i \in 1..Len(arrived[c]) : arrived[c][i] = sent[c][i]
         /\ failure[c] = "none" => Len(Came(c)) <= Len(arrived[c]) /\ \A i \in 1..Len(Came(c)) : Came(c)[i] = arrived[c][i]
<1>1. arrived[c] \in Seq(Rows) /\ sent[c] \in Seq(Rows) /\ Came(c) \in Seq(Rows)
  BY ConnFields DEF Came
<1>2. QED
  BY <1>1, PrefixElements DEF NoGap, Unbroken

(* The event being read is the first of those not pushed yet.              *)
LEMMA FirstInHand ==
  ASSUME TypeOK, NEW c \in Conns, SentOrder(c), NoGap(c), queueFailure[c] = "none", reading[c].kind = "event",
         Len(Came(c)) < Len(arrived[c])
  PROVE  reading[c].row = arrived[c][Len(Came(c)) + 1]
<1> DEFINE m == Len(Came(c))
           r == reading[c].row
<1>1. m \in Nat /\ m + 1 \in 1..Len(arrived[c]) /\ m + 1 \in 1..Len(sent[c])
  BY GapRows
<1>2. reading[c] = EventOf(r)
  BY Kinds, ConnFields
<1>3. EventOf(arrived[c][m + 1]) \in InHand(c)
  BY <1>1 DEF NoGap, Kept
<1>4. CASE EventOf(arrived[c][m + 1]) = reading[c]
  BY <1>2, <1>4 DEF EventOf
<1>5. CASE EventOf(arrived[c][m + 1]) \in Range(responses[c])
  <2>1. Before(c, r, sent[c][m + 1])
    BY <1>1, <1>2, <1>5, GapRows DEF SentOrder, Line, MayPrecede, EventOf
  <2>2. PICK j \in 1..Len(sent[c]) : sent[c][j] = r
    BY <2>1 DEF Before
  <2>3. j < m + 1
    BY <1>1, <2>1, <2>2, OnePlace
  <2>4. j \in 1..Len(arrived[c]) /\ arrived[c][j] = r /\ j \in 1..m
    BY <1>1, <2>2, <2>3, GapRows
  <2>5. Came(c)[j] = r
    BY <2>4 DEF NoGap, Kept
  <2>6. r \in Range(Came(c))
    BY <2>4, <2>5, GapRows DEF Range
  <2>7. Before(c, r, r)
    BY <1>2, <2>6 DEF SentOrder, FramesOf
  <2>8. QED
    BY <2>7, OnePlace
<1>6. QED
  BY <1>3, <1>4, <1>5 DEF InHand

(* A row that is received while nothing has failed is the next one sent.   *)
LEMMA NextArrives ==
  ASSUME TypeOK, NEW c \in Conns, SentOrder(c), NoGap(c), failure[c] = "none", inbox[c] # <<>>, Head(inbox[c]).kind = "event"
  PROVE  /\ Len(arrived[c]) + 1 \in 1..Len(sent[c])
         /\ Head(inbox[c]) = EventOf(sent[c][Len(arrived[c]) + 1])
<1> DEFINE n == Len(arrived[c])
           f == Head(inbox[c])
<1>1. f \in Range(inbox[c]) /\ f \in Frames /\ f = inbox[c][1] /\ 1 \in 1..Len(inbox[c])
  BY ConnFields, RangeTake, TakeFirst
<1>2. f = EventOf(f.row)
  BY <1>1, Kinds
<1>3. f.row \in Range(sent[c]) /\ f.row \notin Range(arrived[c])
  BY <1>1 DEF SentOrder, FramesOf, NoGap, Unbroken
<1>4. PICK q \in 1..Len(sent[c]) : sent[c][q] = f.row
  BY <1>3 DEF Range
<1>5. n \in Nat /\ Len(sent[c]) \in Nat /\ ~(q \in 1..n)
  BY <1>3, <1>4, GapRows DEF Range
<1>6. ~(q > n + 1)
  <2>1. SUFFICES ASSUME q > n + 1 PROVE FALSE
    OBVIOUS
  <2>2. n + 1 \in (n + 1)..Len(sent[c]) /\ q \in ((n + 1) + 1)..Len(sent[c])
    BY <1>5, <2>1
  <2>3. \E j \in 1..(1 - 1) : inbox[c][j].kind \in Damages \/ inbox[c][j] = EventOf(sent[c][n + 1])
    BY <1>1, <1>2, <1>4, <2>2, SMTT(30) DEF NoGap, Unbroken, Coming
  <2>4. QED
    BY <2>3
<1>7. q = n + 1
  BY <1>5, <1>6
<1>8. QED
  BY <1>2, <1>4, <1>7

(* What is still to come, when the first frame was another.                *)
LEMMA ComingShifts ==
  ASSUME TypeOK, NEW c \in Conns, Coming(c), inbox[c] # <<>>, inbox'[c] = Tail(inbox[c]), sent'[c] = sent[c],
         link'[c] = link[c], Len(arrived[c]) <= Len(arrived'[c]), arrived'[c] \in Seq(Rows),
         Head(inbox[c]).kind \notin Damages,
         \A p \in (Len(arrived'[c]) + 1)..Len(sent[c]) : Head(inbox[c]) # EventOf(sent[c][p])
  PROVE  Coming(c)'
<1>1. PICK q, u, n, m : q = Tail(inbox[c]) /\ u = sent[c] /\ n = Len(arrived[c]) /\ m = Len(arrived'[c])
  OBVIOUS
<1>2. n \in Nat /\ m \in Nat /\ n <= m /\ Len(u) \in Nat
  BY <1>1, ConnFields
<1>3. /\ Len(q) \in Nat /\ Len(inbox[c]) = Len(q) + 1 /\ inbox[c][1] = Head(inbox[c])
      /\ \A i \in 1..Len(q) : inbox[c][i + 1] = q[i]
  BY <1>1, ConnFields
<1>4. ASSUME NEW p \in (m + 1)..Len(u), NEW l \in 1..(Len(q) + 2),
             \E j \in 1..(l - 1) : inbox[c][j].kind \in Damages \/ inbox[c][j] = EventOf(u[p])
      PROVE  \E j \in 1..(l - 2) : q[j].kind \in Damages \/ q[j] = EventOf(u[p])
  <2>1. PICK j \in 1..(l - 1) : inbox[c][j].kind \in Damages \/ inbox[c][j] = EventOf(u[p])
    BY <1>4
  <2>2. j # 1
    BY <1>1, <1>3, <1>4, <2>1
  <2>3. j - 1 \in 1..(l - 2) /\ j - 1 \in 1..Len(q) /\ (j - 1) + 1 = j
    BY <1>3, <1>4, <2>1, <2>2
  <2>4. q[j - 1] = inbox[c][j]
    BY <1>3, <2>3
  <2>5. QED
    BY <2>1, <2>3, <2>4
<1>5. ASSUME NEW p \in (m + 1)..Len(u), link[c] = "up"
      PROVE  \E j \in 1..Len(q) : q[j].kind \in Damages \/ q[j] = EventOf(u[p])
  <2>1. p \in (n + 1)..Len(u) /\ Len(q) + 2 \in 1..(Len(q) + 2) /\ (Len(q) + 2) - 1 = Len(inbox[c]) /\ (Len(q) + 2) - 2 = Len(q)
    BY <1>2, <1>3, <1>5
  <2>2. \E j \in 1..Len(inbox[c]) : inbox[c][j].kind \in Damages \/ inbox[c][j] = EventOf(u[p])
    BY <1>1, <1>5, <2>1 DEF Coming
  <2>3. QED
    BY <1>4, <2>1, <2>2
<1>6. ASSUME NEW p \in (m + 1)..Len(u), NEW o \in (p + 1)..Len(u), NEW i \in 1..Len(q), q[i] = EventOf(u[o])
      PROVE  \E j \in 1..(i - 1) : q[j].kind \in Damages \/ q[j] = EventOf(u[p])
  <2>1. p \in (n + 1)..Len(u) /\ i + 1 \in 1..Len(inbox[c]) /\ inbox[c][i + 1] = EventOf(u[o])
    BY <1>2, <1>3, <1>6
  <2>2. \E j \in 1..((i + 1) - 1) : inbox[c][j].kind \in Damages \/ inbox[c][j] = EventOf(u[p])
    BY <1>1, <1>6, <2>1 DEF Coming
  <2>3. i + 1 \in 1..(Len(q) + 2) /\ (i + 1) - 2 = i - 1
    BY <1>3
  <2>4. QED
    BY <1>4, <2>2, <2>3
<1>7. \A p \in (m + 1)..Len(u) :
        /\ link[c] = "up" => \E j \in 1..Len(q) : q[j].kind \in Damages \/ q[j] = EventOf(u[p])
        /\ \A o \in (p + 1)..Len(u), i \in 1..Len(q) :
             q[i] = EventOf(u[o]) => \E j \in 1..(i - 1) : q[j].kind \in Damages \/ q[j] = EventOf(u[p])
  BY <1>5, <1>6
<1>8. inbox'[c] = q /\ sent'[c] = u /\ Len(arrived'[c]) = m /\ link'[c] = link[c]
  BY <1>1
<1>9. QED
  BY <1>7, <1>8, ZenonT(60) DEF Coming

(* A response is received.                                                 *)
LEMMA GapReceive ==
  ASSUME TypeOK, NEW c \in Conns, SentOrder(c), NoGap(c), ReceiveResponse(c)
  PROVE  NoGap(c)'
<1> DEFINE f == Head(inbox[c])
<1>1. /\ inbox[c] # <<>> /\ inbox[c] \in Seq(Frames) /\ inbox'[c] = Tail(inbox[c]) /\ Resolve(c, f)
      /\ f \in Range(inbox[c]) /\ f \in Frames /\ f \in Responses /\ f.kind \notin {"waiting", "rejected"} \cup Damages
      /\ Range(Tail(inbox[c])) \subseteq Range(inbox[c])
  BY RangeTake, TakeFirst, FrameTypes, ConnFields DEF ReceiveResponse, Unhandled, TypeOK, SocketTypeOK, Damages
<1>2. /\ sent' = sent /\ failure' = failure /\ yielded' = yielded /\ queue' = queue /\ queueFailure' = queueFailure
      /\ link' = link /\ Came(c)' = Came(c)
  BY DEF ReceiveResponse, serviceVars, eventVars, Came
<1>3. IF reading[c] = Waiting THEN reading'[c] = f /\ responses'[c] = responses[c]
      ELSE reading'[c] = reading[c] /\ responses'[c] = Append(responses[c], f)
  BY <1>1 DEF Resolve, TypeOK, ConnTypeOK
<1>4. /\ InHand(c)' \subseteq InHand(c) \cup {f} /\ f \in InHand(c)'
      /\ \A e \in InHand(c) : e.kind = "event" => e \in InHand(c)'
  <2>1. Range(Append(responses[c], f)) = Range(responses[c]) \cup {f}
    BY <1>1, ConnFields, RangeAdd
  <2>2. InHand(c)' = {reading'[c]} \cup Range(responses'[c])
    BY DEF InHand
  <2>3. CASE reading[c] = Waiting
    BY <1>3, <2>2, <2>3 DEF InHand, Waiting
  <2>4. CASE reading[c] # Waiting
    BY <1>3, <2>1, <2>2, <2>4 DEF InHand
  <2>5. QED
    BY <2>3, <2>4
<1>5. queueFailure'[c] = "none" /\ reading'[c].kind \in {"waiting", "rejected"} => Handed(c) /\ failure[c] # "none"
  <2>1. reading'[c].kind \in {"waiting", "rejected"} => reading[c] # Waiting /\ reading'[c] = reading[c]
    BY <1>1, <1>3
  <2>2. reading'[c].kind \in {"waiting", "rejected"} => reading[c].kind = "rejected"
    BY <2>1, ConnFields, Kinds
  <2>3. QED
    BY <1>2, <2>1, <2>2 DEF NoGap, SentOrder
<1>6. CASE ~(f.kind = "event" /\ failure[c] = "none")
  <2>1. arrived'[c] = arrived[c]
    BY <1>6 DEF ReceiveResponse
  <2>2. failure'[c] = "none" => Coming(c)'
    <3>1. f.kind # "event" => \A r : f # EventOf(r)
      BY DEF EventOf
    <3>2. arrived[c] \in Seq(Rows) /\ Len(arrived[c]) \in Nat
      BY ConnFields
    <3>3. QED
      BY <1>1, <1>2, <1>6, <2>1, <3>1, <3>2, ComingShifts DEF NoGap, Unbroken
  <2>3. QED
    BY <1>1, <1>2, <1>4, <1>5, <1>6, <2>1, <2>2, GapKept
<1>7. CASE f.kind = "event" /\ failure[c] = "none"
  <2>0. PICK a, u, r : a = arrived[c] /\ u = sent[c] /\ r = f.row
    OBVIOUS
  <2> DEFINE n == Len(a)
  <2>1. /\ arrived'[c] = Append(a, r) /\ a \in Seq(Rows) /\ u \in Seq(Rows) /\ r \in Rows
        /\ f = EventOf(r)
    <3>1. f.row \in Rows /\ f = EventOf(f.row)
      BY <1>1, <1>7, Kinds, FrameTypes DEF Readings
    <3>2. QED
      BY <1>7, <2>0, <3>1, ConnFields DEF ReceiveResponse, TypeOK, ServiceTypeOK
  <2>2. n + 1 \in 1..Len(u) /\ r = u[n + 1] /\ n \in Nat /\ n <= Len(u) /\ \A i \in 1..n : a[i] = u[i]
    <3>1. /\ Len(a) + 1 \in 1..Len(u) /\ f = EventOf(u[Len(a) + 1])
      BY <1>1, <1>7, <2>0, NextArrives
    <3>2. Len(a) \in Nat /\ Len(a) <= Len(u) /\ \A i \in 1..Len(a) : a[i] = u[i]
      BY <2>0, <2>1, GapRows
    <3>3. r = u[n + 1]
      BY <2>0, <3>1 DEF EventOf
    <3>4. QED
      BY <3>1, <3>2, <3>3
  <2>3. /\ Append(a, r) \in Seq(Rows) /\ Len(Append(a, r)) = n + 1
        /\ \A i \in 1..n : Append(a, r)[i] = a[i]
        /\ Append(a, r)[n + 1] = r /\ \A i \in 1..(n + 1) : i \in 1..n \/ i = n + 1
        /\ Range(Append(a, r)) = Range(a) \cup {r}
    BY <2>1, <2>2, RangeAdd
  <2>4. IsPrefix(arrived[c], sent[c])'
    <3>1. IsPrefix(Append(a, r), u)
      <4>1. \A i \in 1..Len(Append(a, r)) : Append(a, r)[i] = u[i]
        BY <2>2, <2>3
      <4>2. Len(Append(a, r)) <= Len(u)
        BY <2>2, <2>3
      <4>3. QED
        BY <2>1, <2>3, <4>1, <4>2, PrefixElements
    <3>2. QED
      BY <1>2, <2>0, <2>1, <3>1
  <2>5. /\ Came(c) \in Seq(Rows) /\ Len(Came(c)) \in Nat /\ Len(Came(c)) <= n
        /\ \A i \in 1..Len(Came(c)) : Came(c)[i] = a[i]
    BY <1>7, <2>0, GapRows
  <2>6. Kept(c) => Kept(c)'
    <3>1. Kept(c) => \A i \in 1..n :
            \/ i <= Len(Came(c)) /\ Came(c)[i] = a[i]
            \/ i > Len(Came(c)) /\ EventOf(a[i]) \in InHand(c)'
      <4>1. \A q : EventOf(q) \in InHand(c) => EventOf(q) \in InHand(c)'
        BY <1>4 DEF EventOf
      <4>2. QED
        BY <2>0, <4>1 DEF Kept
    <3>2. n + 1 > Len(Came(c)) /\ EventOf(r) \in InHand(c)'
      BY <1>4, <2>1, <2>2, <2>5
    <3>3. QED
      BY <1>2, <2>1, <2>3, <3>1, <3>2 DEF Kept
  <2>7. Unbroken(c)'
    <3>1. IsPrefix(Came(c), arrived[c])'
      <4>1. \A i \in 1..Len(Came(c)) : i \in 1..n
        BY <2>2, <2>5
      <4>2. PICK w : w = Came(c)
        OBVIOUS
      <4>3. IsPrefix(w, Append(a, r))
        <5>1. w \in Seq(Rows) /\ \A i \in 1..Len(w) : w[i] = Append(a, r)[i]
          BY <2>3, <2>5, <4>1, <4>2
        <5>2. Len(w) <= Len(Append(a, r))
          BY <2>2, <2>3, <2>5, <4>2
        <5>3. QED
          BY <2>3, <5>1, <5>2, PrefixElements
      <4>4. QED
        BY <1>2, <2>1, <4>2, <4>3
    <3>2. Coming(c)'
      <4>1. \A p \in ((n + 1) + 1)..Len(u) : u[p] # r
        BY <2>0, <2>2 DEF SentOrder
      <4>2. \A p \in (Len(arrived'[c]) + 1)..Len(sent[c]) : f # EventOf(sent[c][p])
        BY <2>0, <2>1, <2>3, <4>1 DEF EventOf
      <4>3. /\ Len(arrived[c]) <= Len(arrived'[c]) /\ arrived'[c] \in Seq(Rows)
        BY <2>0, <2>1, <2>2, <2>3
      <4>4. QED
        BY <1>1, <1>2, <1>7, <4>2, <4>3, ComingShifts DEF NoGap, Unbroken
    <3>3. \A e \in InHand(c)' : e.kind = "event" => e.row \in Range(arrived'[c])
      BY <1>4, <1>7, <2>0, <2>1, <2>3 DEF NoGap, Unbroken
    <3>4. ASSUME NEW e \in Range(Tail(inbox[c])), e.kind = "event" PROVE e.row \notin Range(arrived'[c])
      <4>1. e.row \notin Range(a)
        BY <1>1, <1>7, <2>0, <3>4 DEF NoGap, Unbroken
      <4>2. MayPrecede(c, f, e)
        BY <1>1, <3>4, ChainTake DEF SentOrder, Line
      <4>3. Before(c, r, e.row)
        BY <1>7, <2>0, <3>4, <4>2 DEF MayPrecede
      <4>4. e.row # r
        BY <4>3, OnePlace
      <4>5. QED
        BY <2>1, <2>3, <4>1, <4>4
    <3>5. QED
      BY <1>1, <3>1, <3>2, <3>3, <3>4 DEF Unbroken
  <2>8. QED
    BY <1>2, <1>5, <1>7, <2>4, <2>6, <2>7 DEF NoGap
<1>8. QED
  BY <1>6, <1>7

(* A sequence is its head and the rest.                                    *)
LEMMA RangeParts ==
  ASSUME NEW S, NEW q \in Seq(S), q # <<>>, NEW e \in Range(q)
  PROVE  e = Head(q) \/ e \in Range(Tail(q))
<1>1. PICK i \in 1..Len(q) : e = q[i]
  BY DEF Range
<1>2. CASE i = 1
  BY <1>1, <1>2
<1>3. CASE i # 1
  <2>1. i - 1 \in 1..Len(Tail(q)) /\ Tail(q)[i - 1] = q[i]
    BY <1>3
  <2>2. DOMAIN Tail(q) = 1..Len(Tail(q))
    OBVIOUS
  <2>3. QED
    BY <1>1, <2>1, <2>2 DEF Range
<1>4. QED
  BY <1>2, <1>3

(* Reading on leaves in hand what was received.                            *)
LEMMA InHandNext ==
  ASSUME TypeOK, NEW c \in Conns, ReadResponse(c)
  PROVE  /\ Range(responses[c]) \subseteq InHand(c)'
         /\ \A e \in InHand(c)' : e.kind = "event" => e \in Range(responses[c])
         /\ reading'[c].kind \in {"waiting", "rejected"} => responses[c] = <<>>
<1>1. InHand(c)' = {reading'[c]} \cup Range(responses'[c])
  BY DEF InHand
<1>2. CASE responses[c] # <<>>
  <2>1. /\ reading'[c] = Head(responses[c]) /\ responses'[c] = Tail(responses[c])
        /\ reading'[c] \in Range(responses[c]) /\ Range(responses'[c]) \subseteq Range(responses[c])
    BY <1>2, ReadNext
  <2>2. \A e \in Range(responses[c]) : e = Head(responses[c]) \/ e \in Range(Tail(responses[c]))
    BY <1>2, ConnFields, RangeParts
  <2>3. Head(responses[c]) \in Responses
    BY <1>2, ConnFields, TakeFirst
  <2>4. QED
    BY <1>1, <2>1, <2>2, <2>3, Kinds
<1>3. CASE responses[c] = <<>>
  <2>1. responses'[c] = <<>> /\ Dull(reading'[c])
    BY <1>3, ReadNext
  <2>2. QED
    BY <1>1, <1>3, <2>1 DEF Dull, Range
<1>4. QED
  BY <1>2, <1>3

(* Nothing was received that did not come: it has all been handed over.    *)
LEMMA AllHanded ==
  ASSUME NEW c \in Conns, Kept(c), \A e \in InHand(c) : e.kind # "event"
  PROVE  Handed(c)
BY DEF Kept, Handed, EventOf

(* The pump reads on, and what it read was no event or is not wanted.      *)
LEMMA GapRead ==
  ASSUME TypeOK, NEW c \in Conns, NoGap(c), ReadResponse(c), Came(c)' = Came(c), arrived'[c] = arrived[c], sent'[c] = sent[c],
         inbox'[c] = inbox[c], link'[c] = link[c], failure'[c] = failure[c], queueFailure'[c] = queueFailure[c],
         reading[c].kind # "event" \/ queueFailure[c] # "none"
  PROVE  NoGap(c)'
<1>1. queueFailure'[c] = "none" => \A e \in InHand(c) : e.kind = "event" => e \in InHand(c)'
  BY InHandNext DEF InHand
<1>2. \A e \in InHand(c)' : e.kind = "event" => e \in InHand(c)
  BY InHandNext DEF InHand
<1>3. failure'[c] = "none" => Coming(c)'
  BY ComingKept DEF NoGap, Unbroken
<1>4. queueFailure'[c] = "none" /\ reading'[c].kind \in {"waiting", "rejected"} => Handed(c)
  <2>1. responses[c] = <<>> => Range(responses[c]) = {}
    BY DEF Range
  <2>2. QED
    BY <2>1, InHandNext, AllHanded DEF InHand, NoGap
<1>5. QED
  BY <1>1, <1>2, <1>3, <1>4, GapKept

(* The pump pushes the event it read.                                      *)
LEMMA GapPush ==
  ASSUME TypeOK, NEW c \in Conns, SentOrder(c), NoGap(c), ReadResponse(c), reading[c].kind = "event",
         queueFailure[c] = "none", queueFailure'[c] = "none", Came(c)' = Append(Came(c), reading[c].row),
         arrived'[c] = arrived[c], sent'[c] = sent[c], inbox'[c] = inbox[c], link'[c] = link[c], failure'[c] = failure[c]
  PROVE  NoGap(c)'
<1>0. PICK a, u, w, r : a = arrived[c] /\ u = sent[c] /\ w = Came(c) /\ r = reading[c].row
  OBVIOUS
<1> DEFINE n == Len(a)
           m == Len(w)
<1>1. /\ a \in Seq(Rows) /\ u \in Seq(Rows) /\ w \in Seq(Rows) /\ r \in Rows
      /\ n \in Nat /\ m \in Nat /\ Len(u) \in Nat /\ n <= Len(u) /\ \A i \in 1..n : a[i] = u[i]
  BY <1>0, GapRows, ConnFields, FrameTypes
<1>2. /\ Append(w, r) \in Seq(Rows) /\ Len(Append(w, r)) = m + 1
      /\ \A i \in 1..m : Append(w, r)[i] = w[i]
      /\ Append(w, r)[m + 1] = r
  BY <1>1
<1>3. m < n => r = a[m + 1] /\ m + 1 \in 1..n
  BY <1>0, <1>1, FirstInHand
<1>4. /\ reading[c] = EventOf(r)
      /\ \A i, j \in 1..n : a[i] = a[j] => i = j
  <2>1. \A i, j \in 1..Len(u) : u[i] = u[j] => i = j
    BY <1>0 DEF SentOrder
  <2>2. reading[c] = EventOf(r)
    BY <1>0, Kinds, ConnFields
  <2>3. QED
    BY <1>1, <2>1, <2>2
<1>5. ASSUME NEW i \in 1..n
      PROVE  \/ i <= m + 1 /\ Append(w, r)[i] = a[i]
             \/ i > m + 1 /\ EventOf(a[i]) \in Range(responses[c])
  <2>1. (i <= m /\ w[i] = a[i]) \/ (i > m /\ EventOf(a[i]) \in InHand(c))
    <3>1. \A j \in 1..Len(arrived[c]) :
            \/ j <= Len(Came(c)) /\ Came(c)[j] = arrived[c][j]
            \/ j > Len(Came(c)) /\ EventOf(arrived[c][j]) \in InHand(c)
      BY DEF NoGap, Kept
    <3>2. QED
      BY <1>0, <3>1
  <2>2. CASE i <= m /\ w[i] = a[i]
    BY <1>1, <1>2, <2>2
  <2>3. CASE i = m + 1
    BY <1>1, <1>2, <1>3, <2>3
  <2>4. CASE i > m + 1 /\ EventOf(a[i]) \in InHand(c)
    <3>1. m < n /\ a[i] # r
      BY <1>1, <1>3, <1>4, <2>4
    <3>2. EventOf(a[i]) # reading[c]
      BY <1>4, <3>1 DEF EventOf
    <3>3. QED
      BY <2>4, <3>2 DEF InHand
  <2>5. QED
    BY <1>1, <2>1, <2>2, <2>3, <2>4
<1>6. Came(c)' = Append(w, r) /\ arrived'[c] = a /\ sent'[c] = u
  BY <1>0
<1>7. Kept(c)'
  <2>1. \A i \in 1..n : \/ i <= m + 1 /\ Append(w, r)[i] = a[i]
                        \/ i > m + 1 /\ EventOf(a[i]) \in InHand(c)'
    BY <1>5, InHandNext
  <2>2. QED
    BY <1>2, <1>6, <2>1 DEF Kept
<1>8. reading'[c].kind \in {"waiting", "rejected"} => Handed(c)'
  <2>1. responses[c] = <<>> => Range(responses[c]) = {}
    BY DEF Range
  <2>2. responses[c] = <<>> => \A i \in 1..n : i <= m + 1 /\ Append(w, r)[i] = a[i]
    BY <1>5, <2>1
  <2>3. QED
    BY <1>2, <1>6, <2>2, InHandNext DEF Handed
<1>9. failure[c] = "none" => Unbroken(c)'
  <2> SUFFICES ASSUME failure[c] = "none" PROVE Unbroken(c)'
    OBVIOUS
  <2>1. m <= n /\ \A i \in 1..m : w[i] = a[i]
    BY <1>0, GapRows
  <2>2. m < n
    <3>1. r \in Range(a)
      BY <1>0 DEF NoGap, Unbroken, InHand
    <3>2. PICK i \in 1..n : a[i] = r
      BY <3>1, SMTT(30) DEF Range
    <3>3. ASSUME i <= m PROVE FALSE
      <4>1. i \in 1..m /\ w[i] = r
        BY <1>1, <2>1, <3>2, <3>3
      <4>2. r \in Range(Came(c))
        BY <1>0, <4>1 DEF Range
      <4>3. Before(c, r, r)
        BY <1>0, <4>2 DEF SentOrder, FramesOf
      <4>4. QED
        BY <4>3, OnePlace
    <3>4. QED
      BY <1>1, <3>3
  <2>3. IsPrefix(Append(w, r), a)
    <3>1. \A i \in 1..Len(Append(w, r)) : Append(w, r)[i] = a[i]
      BY <1>1, <1>2, <1>3, <2>1, <2>2
    <3>2. Len(Append(w, r)) <= Len(a)
      BY <1>1, <1>2, <2>2
    <3>3. QED
      BY <1>1, <1>2, <3>1, <3>2, PrefixElements
  <2>4. Coming(c)'
    BY ComingKept DEF NoGap, Unbroken
  <2>5. \A e \in InHand(c)' : e.kind = "event" => e.row \in Range(a)
    BY <1>0, InHandNext DEF NoGap, Unbroken, InHand
  <2>6. \A e \in Range(inbox'[c]) : e.kind = "event" => e.row \notin Range(a)
    BY <1>0 DEF NoGap, Unbroken
  <2>7. QED
    BY <1>6, <2>3, <2>4, <2>5, <2>6 DEF Unbroken
<1>10. IsPrefix(a, u)
  BY <1>0 DEF NoGap
<1>11. QED
  BY <1>6, <1>7, <1>8, <1>9, <1>10 DEF NoGap

(* Frames that are no events take nothing from what is still to come.      *)
Longer(q, p) ==
  /\ Len(q) \in Nat /\ Len(p) \in Nat /\ Len(q) <= Len(p) /\ DOMAIN q = 1..Len(q) /\ DOMAIN p = 1..Len(p)
  /\ \A i \in 1..Len(q) : p[i] = q[i]
  /\ \A i \in 1..Len(p) : i > Len(q) => p[i].kind # "event"

(* What is still to come, behind which frames that are no events are added.*)
LEMMA ComingLonger ==
  ASSUME NEW c \in Conns, Coming(c), arrived'[c] = arrived[c], sent'[c] = sent[c], Longer(inbox[c], inbox'[c]),
         link'[c] = "up" => link[c] = "up"
  PROVE  Coming(c)' /\ \A f \in Range(inbox'[c]) : f.kind = "event" => f \in Range(inbox[c])
<1>1. PICK a, u, q, p : a = arrived[c] /\ u = sent[c] /\ q = inbox[c] /\ p = inbox'[c]
  OBVIOUS
<1>2. /\ Len(q) \in Nat /\ Len(p) \in Nat /\ Len(q) <= Len(p) /\ DOMAIN q = 1..Len(q) /\ DOMAIN p = 1..Len(p)
      /\ \A i \in 1..Len(q) : p[i] = q[i] /\ i \in 1..Len(p)
      /\ \A i \in 1..Len(p) : p[i].kind = "event" => i \in 1..Len(q)
  BY <1>1 DEF Longer
<1>3. \A i \in (Len(a) + 1)..Len(u) :
        /\ link[c] = "up" => \E j \in 1..Len(q) : q[j].kind \in Damages \/ q[j] = EventOf(u[i])
        /\ \A o \in (i + 1)..Len(u), l \in 1..Len(q) :
             q[l] = EventOf(u[o]) => \E j \in 1..(l - 1) : q[j].kind \in Damages \/ q[j] = EventOf(u[i])
  <2>1. SUFFICES ASSUME NEW i \in (Len(a) + 1)..Len(u)
                 PROVE  /\ link[c] = "up" => \E j \in 1..Len(q) : q[j].kind \in Damages \/ q[j] = EventOf(u[i])
                        /\ \A o \in (i + 1)..Len(u), l \in 1..Len(q) :
                             q[l] = EventOf(u[o]) => \E j \in 1..(l - 1) : q[j].kind \in Damages \/ q[j] = EventOf(u[i])
    OBVIOUS
  <2>2. i \in (Len(arrived[c]) + 1)..Len(sent[c])
    BY <1>1
  <2>3. link[c] = "up" => \E j \in 1..Len(inbox[c]) : inbox[c][j].kind \in Damages \/ inbox[c][j] = EventOf(sent[c][i])
    BY <2>2 DEF Coming
  <2>4. \A o \in (i + 1)..Len(sent[c]), l \in 1..Len(inbox[c]) :
          inbox[c][l] = EventOf(sent[c][o]) =>
            \E j \in 1..(l - 1) : inbox[c][j].kind \in Damages \/ inbox[c][j] = EventOf(sent[c][i])
    BY <2>2 DEF Coming
  <2>5. QED
    BY <1>1, <2>3, <2>4
<1>4. ASSUME NEW i \in (Len(a) + 1)..Len(u)
      PROVE  /\ link'[c] = "up" => \E j \in 1..Len(p) : p[j].kind \in Damages \/ p[j] = EventOf(u[i])
             /\ \A o \in (i + 1)..Len(u), l \in 1..Len(p) :
                  p[l] = EventOf(u[o]) => \E j \in 1..(l - 1) : p[j].kind \in Damages \/ p[j] = EventOf(u[i])
  <2>1. link'[c] = "up" => \E j \in 1..Len(p) : p[j].kind \in Damages \/ p[j] = EventOf(u[i])
    BY <1>2, <1>3
  <2>2. ASSUME NEW o \in (i + 1)..Len(u), NEW l \in 1..Len(p), p[l] = EventOf(u[o])
        PROVE  \E j \in 1..(l - 1) : p[j].kind \in Damages \/ p[j] = EventOf(u[i])
    <3>1. l \in 1..Len(q) /\ q[l] = EventOf(u[o])
      BY <1>2, <2>2 DEF EventOf
    <3>2. \E j \in 1..(l - 1) : q[j].kind \in Damages \/ q[j] = EventOf(u[i])
      BY <1>3, <3>1
    <3>3. \A j \in 1..(l - 1) : j \in 1..Len(q)
      BY <1>2, <3>1
    <3>4. QED
      BY <1>2, <3>2, <3>3
  <2>3. QED
    BY <2>1, <2>2
<1>5. Coming(c)'
  <2>1. arrived'[c] = a /\ sent'[c] = u /\ inbox'[c] = p
    BY <1>1
  <2>2. QED
    BY <1>4, <2>1, ZenonT(60) DEF Coming
<1>6. \A f \in Range(p) : f.kind = "event" => f \in Range(q)
  BY <1>2 DEF Range
<1>7. QED
  BY <1>1, <1>5, <1>6

(* One frame or two that are no events may be added.                       *)
LEMMA LongerByOne ==
  ASSUME NEW q \in Seq(Frames), NEW f \in Frames, f.kind # "event"
  PROVE  Longer(q, Append(q, f)) /\ \A g \in Frames : g.kind # "event" => Longer(q, Append(Append(q, f), g))
<1>1. Longer(q, Append(q, f))
  BY DEF Longer
<1>2. ASSUME NEW g \in Frames, g.kind # "event" PROVE Longer(q, Append(Append(q, f), g))
  <2>1. Append(q, f) \in Seq(Frames) /\ Append(Append(q, f), g) \in Seq(Frames)
    OBVIOUS
  <2>2. /\ Len(Append(Append(q, f), g)) = Len(q) + 2
        /\ \A i \in 1..Len(q) : Append(Append(q, f), g)[i] = q[i]
        /\ Append(Append(q, f), g)[Len(q) + 1] = f
        /\ Append(Append(q, f), g)[Len(q) + 2] = g
    BY <2>1
  <2>3. QED
    BY <1>2, <2>1, <2>2 DEF Longer
<1>3. QED
  BY <1>1, <1>2

(* A step of the service that delivers nothing loses nothing.              *)
LEMMA GapLonger ==
  ASSUME NEW c \in Conns, NoGap(c), arrived'[c] = arrived[c], sent'[c] = sent[c], Came(c)' = Came(c),
         queueFailure'[c] = queueFailure[c], failure'[c] = failure[c], responses'[c] = responses[c], reading'[c] = reading[c],
         Coming(c) => Coming(c)' /\ \A f \in Range(inbox'[c]) : f.kind = "event" => f \in Range(inbox[c])
  PROVE  NoGap(c)'
<1>1. InHand(c)' = InHand(c)
  BY DEF InHand
<1>2. QED
  BY <1>1, GapKept DEF NoGap, Unbroken

(* Without a socket nothing comes any more.                                *)
LEMMA ComingNone ==
  ASSUME NEW c \in Conns, link'[c] # "up", \A f \in Range(inbox'[c]) : f.kind # "event",
         DOMAIN inbox'[c] = 1..Len(inbox'[c])
  PROVE  Coming(c)'
<1>1. PICK a, u, q : a = arrived'[c] /\ u = sent'[c] /\ q = inbox'[c]
  OBVIOUS
<1>2. \A i \in 1..Len(q) : q[i].kind # "event"
  BY <1>1 DEF Range
<1>3. \A i \in 1..Len(q) : \A r : q[i] # EventOf(r)
  BY <1>2 DEF EventOf
<1>4. QED
  BY <1>1, <1>3 DEF Coming

(* A row is sent: its frame, or a damaged one, comes behind all others.    *)
LEMMA ComingDeliver ==
  ASSUME TypeOK, NEW c \in Conns, SentOrder(c), Coming(c), NEW r \in Rows, NEW f \in Frames,
         link[c] = "up", r \notin Range(sent[c]), f = EventOf(r) \/ f.kind \in Damages,
         arrived'[c] = arrived[c], sent'[c] = Append(sent[c], r), inbox'[c] = Append(inbox[c], f)
  PROVE  Coming(c)'
<1>1. PICK n, u, q : n = Len(arrived[c]) /\ u = sent[c] /\ q = inbox[c]
  OBVIOUS
<1>2. u \in Seq(Rows) /\ q \in Seq(Frames) /\ n \in Nat
  BY <1>1, ConnFields
<1>0. PICK v, p : v = Append(u, r) /\ p = Append(q, f)
  OBVIOUS
<1>3. /\ Len(u) \in Nat /\ Len(v) = Len(u) + 1 /\ v[Len(u) + 1] = r
      /\ \A i \in 1..Len(u) : v[i] = u[i] /\ u[i] # r
  BY <1>0, <1>1, <1>2 DEF Range
<1>4. /\ Len(q) \in Nat /\ Len(p) = Len(q) + 1 /\ p[Len(q) + 1] = f
      /\ \A i \in 1..Len(q) : p[i] = q[i]
  BY <1>0, <1>2
<1>5. \A l \in 1..Len(q) : q[l] # EventOf(r)
  <2>1. \A l \in 1..Len(q) : q[l] \in FramesOf(c)
    BY <1>1 DEF FramesOf, Range
  <2>2. EventOf(r).kind = "event" /\ EventOf(r).row = r
    BY DEF EventOf
  <2>3. QED
    BY <2>1, <2>2 DEF SentOrder
<1>6. ASSUME NEW i \in (n + 1)..Len(u)
      PROVE  /\ \E j \in 1..Len(q) : q[j].kind \in Damages \/ q[j] = EventOf(u[i])
             /\ \A o \in (i + 1)..Len(u), l \in 1..Len(q) :
                  q[l] = EventOf(u[o]) => \E j \in 1..(l - 1) : q[j].kind \in Damages \/ q[j] = EventOf(u[i])
  <2>1. i \in (Len(arrived[c]) + 1)..Len(sent[c])
    BY <1>1
  <2>2. \E j \in 1..Len(inbox[c]) : inbox[c][j].kind \in Damages \/ inbox[c][j] = EventOf(sent[c][i])
    BY <2>1 DEF Coming
  <2>3. \A o \in (i + 1)..Len(sent[c]), l \in 1..Len(inbox[c]) :
          inbox[c][l] = EventOf(sent[c][o]) =>
            \E j \in 1..(l - 1) : inbox[c][j].kind \in Damages \/ inbox[c][j] = EventOf(sent[c][i])
    BY <2>1 DEF Coming
  <2>4. QED
    BY <1>1, <2>2, <2>3
<1>7. ASSUME NEW i \in (n + 1)..Len(v)
      PROVE  /\ \E j \in 1..Len(p) : p[j].kind \in Damages \/ p[j] = EventOf(v[i])
             /\ \A o \in (i + 1)..Len(v), l \in 1..Len(p) :
                  p[l] = EventOf(v[o]) => \E j \in 1..(l - 1) : p[j].kind \in Damages \/ p[j] = EventOf(v[i])
  <2>1. CASE i = Len(u) + 1
    <3>1. Len(q) + 1 \in 1..Len(p) /\ (p[Len(q) + 1].kind \in Damages \/ p[Len(q) + 1] = EventOf(v[i]))
      BY <1>3, <1>4, <2>1
    <3>2. \A o \in (i + 1)..Len(v) : FALSE
      BY <1>3, <2>1
    <3>3. QED
      BY <3>1, <3>2
  <2>2. CASE i # Len(u) + 1
    <3>1. i \in (n + 1)..Len(u) /\ v[i] = u[i]
      BY <1>2, <1>3, <2>2
    <3>2. PICK j \in 1..Len(q) : q[j].kind \in Damages \/ q[j] = EventOf(u[i])
      BY <1>6, <3>1
    <3>3. j \in 1..Len(p) /\ p[j] = q[j]
      BY <1>4, <3>2
    <3>4. ASSUME NEW o \in (i + 1)..Len(v), NEW l \in 1..Len(p), p[l] = EventOf(v[o])
          PROVE  \E h \in 1..(l - 1) : p[h].kind \in Damages \/ p[h] = EventOf(v[i])
      <4>1. CASE l = Len(q) + 1
        <5>1. j \in 1..(l - 1)
          BY <1>4, <3>2, <4>1
        <5>2. QED
          BY <3>1, <3>2, <3>3, <5>1
      <4>2. CASE l # Len(q) + 1
        <5>0. l \in 1..Len(q)
          <6>1. Len(q) \in Nat /\ l \in 1..(Len(q) + 1)
            BY <1>4
          <6>2. QED
            BY ONLY <4>2, <6>1
        <5>1. l \in 1..Len(q) /\ q[l] = EventOf(v[o])
          BY <1>4, <3>4, <5>0
        <5>2. v[o] # r
          BY <1>5, <5>1
        <5>3. o \in (i + 1)..Len(u) /\ v[o] = u[o]
          BY <1>2, <1>3, <3>1, <3>4, <5>2
        <5>4. PICK h \in 1..(l - 1) : q[h].kind \in Damages \/ q[h] = EventOf(u[i])
          BY <1>6, <3>1, <5>1, <5>3
        <5>5. p[h] = q[h]
          BY <1>4, <5>1, <5>4
        <5>6. QED
          BY <3>1, <5>4, <5>5
      <4>3. QED
        BY <4>1, <4>2
    <3>5. QED
      BY <3>1, <3>2, <3>3, <3>4
  <2>3. QED
    BY <2>1, <2>2
<1>8. Len(arrived'[c]) = n /\ sent'[c] = v /\ inbox'[c] = p
  BY <1>0, <1>1
<1>9. QED
  BY <1>7, <1>8, ZenonT(60) DEF Coming

(* A row that is sent is not missing.                                      *)
LEMMA GapDeliver ==
  ASSUME TypeOK, NEW c \in Conns, SentOrder(c), NoGap(c), NEW r \in Rows, Deliver(c, r)
  PROVE  NoGap(c)'
<1>1. /\ UNCHANGED <<arrived, queue, yielded, queueFailure, failure, responses, reading>>
      /\ Came(c)' = Came(c) /\ InHand(c)' = InHand(c)
      /\ link[c] = "up" /\ r \notin Range(sent[c]) /\ sent'[c] = Append(sent[c], r)
  BY DEF Deliver, ClientVars, eventVars, connVars, history, Came, InHand, TypeOK, ServiceTypeOK
<1>2. PICK f \in Frames : (f = EventOf(r) \/ f.kind \in Damages) /\ inbox'[c] = Append(inbox[c], f)
  <2>1. PICK f \in {EventOf(r)} \cup [kind : Damages \cap Faults] : inbox' = [inbox EXCEPT ![c] = Append(@, f)]
    BY DEF Deliver, Send, EventOf
  <2>2. f \in Frames
    BY <2>1, SentTypes, FrameTypes DEF EventOf
  <2>3. f = EventOf(r) \/ f.kind \in Damages
    BY <2>1
  <2>4. QED
    BY <2>1, <2>2, <2>3 DEF TypeOK, SocketTypeOK
<1>3. PICK a, u, w : a = arrived[c] /\ u = sent[c] /\ w = Came(c)
  OBVIOUS
<1>4. a \in Seq(Rows) /\ u \in Seq(Rows) /\ Len(a) <= Len(u) /\ \A i \in 1..Len(a) : a[i] = u[i]
  BY <1>3, GapRows
<1>5. IsPrefix(a, Append(u, r))
  <2>1. /\ Append(u, r) \in Seq(Rows) /\ Len(a) <= Len(Append(u, r))
        /\ \A i \in 1..Len(a) : a[i] = Append(u, r)[i]
    BY <1>4
  <2>2. QED
    BY <1>4, <2>1, PrefixElements
<1>6. r \notin Range(a)
  <2>1. \A i \in 1..Len(a) : i \in 1..Len(u) /\ a[i] = u[i]
    BY <1>4
  <2>2. \A i \in 1..Len(u) : u[i] # r
    BY <1>1, <1>3, <1>4 DEF Range
  <2>3. \A i \in 1..Len(a) : a[i] # r
    BY <2>1, <2>2
  <2>4. QED
    BY <1>4, <2>3 DEF Range
<1>7. failure[c] = "none" => Unbroken(c)'
  <2> SUFFICES ASSUME failure[c] = "none" PROVE Unbroken(c)'
    OBVIOUS
  <2>1. Coming(c)'
    BY <1>1, <1>2, ComingDeliver DEF NoGap, Unbroken
  <2>2. \A g \in Range(inbox'[c]) : g \in Range(inbox[c]) \/ g.kind # "event" \/ g.row = r
    <3>1. Range(Append(inbox[c], f)) = Range(inbox[c]) \cup {f}
      BY ConnFields, RangeAdd
    <3>2. f.kind # "event" \/ f.row = r
      BY <1>2 DEF EventOf, Damages
    <3>3. QED
      BY <1>2, <3>1, <3>2
  <2>3. QED
    BY <1>1, <1>3, <1>6, <2>1, <2>2 DEF NoGap, Unbroken
<1>8. (Kept(c) => Kept(c)') /\ (Handed(c) => Handed(c)')
  BY <1>1 DEF Kept, Handed
<1>9. QED
  BY <1>1, <1>3, <1>5, <1>7, <1>8 DEF NoGap

(* The steps of the service.                                               *)
LEMMA GapService ==
  ASSUME TypeOK, NEW c \in Conns, SentOrder(c), NoGap(c), Service(c)
  PROVE  NoGap(c)'
<1>1. /\ UNCHANGED <<responses, reading, queue, yielded, failure, queueFailure, arrived>> /\ Came(c)' = Came(c)
  BY DEF Service, Accept, Refuse, Deliver, HandleAck, Disconnect, Reset, Backpressure, Drop, NoticeClosed,
    ClientVars, eventVars, connVars, history, Came
<1>2. inbox[c] \in Seq(Frames) /\ inbox \in [Conns -> Seq(Frames)] /\ link \in [Conns -> {"new", "up", "down", "destroyed", "closed"}]
  BY DEF TypeOK, SocketTypeOK
<1>3. ASSUME sent' = sent, Coming(c) => Coming(c)' /\ \A f \in Range(inbox'[c]) : f.kind = "event" => f \in Range(inbox[c])
      PROVE  NoGap(c)'
  BY <1>1, <1>3, GapLonger
<1>4. ASSUME NEW f \in Responses, f.kind # "event", Send(c, f), link' = link, sent' = sent PROVE NoGap(c)'
  <2>1. PICK g \in {f} \cup [kind : Damages \cap Faults] : inbox' = [inbox EXCEPT ![c] = Append(@, g)]
    BY <1>4 DEF Send
  <2>2. g \in Frames /\ g.kind # "event"
    BY <1>4, <2>1, SentTypes, FrameTypes DEF Damages
  <2>3. Longer(inbox[c], inbox'[c])
    BY <1>2, <2>1, <2>2, LongerByOne
  <2>4. QED
    BY <1>1, <1>3, <1>4, <2>3, ComingLonger
<1>5. CASE Accept(c) \/ Refuse(c)
  BY <1>4, <1>5, SentTypes DEF Accept, Refuse
<1>6. ASSUME NEW r \in Rows, Deliver(c, r) PROVE NoGap(c)'
  BY <1>6, GapDeliver
<1>7. ASSUME NEW k \in Calls, HandleAck(c, k) PROVE NoGap(c)'
  <2>1. link' = link /\ sent' = sent
    BY <1>7 DEF HandleAck
  <2>2. CASE link[c] = "up"
    <3>1. PICK b \in {"acked", "error"} : Send(c, [kind |-> b, call |-> k])
      BY <1>7, <2>2 DEF HandleAck
    <3>2. [kind |-> b, call |-> k] \in Responses /\ [kind |-> b, call |-> k].kind # "event"
      BY SentTypes
    <3>3. QED
      BY <1>4, <2>1, <3>1, <3>2
  <2>3. CASE link[c] # "up"
    <3>1. inbox' = inbox
      BY <1>7, <2>3 DEF HandleAck
    <3>2. QED
      BY <1>1, <1>3, <2>1, <3>1, ComingKept
  <2>4. QED
    BY <2>2, <2>3
<1>8. CASE Disconnect(c) \/ Reset(c) \/ Backpressure(c)
  <2> DEFINE close == [kind |-> "close"]
  <2>1. close \in Frames /\ close.kind # "event" /\ [kind |-> "reset"] \in Frames /\ Refusal \in Frames /\ Refusal.kind # "event"
    BY SentTypes, FrameTypes DEF Frames, Refusal
  <2>2. PICK q : /\ Drop(c, q)
                 /\ q \in {inbox[c], <<[kind |-> "reset"]>>, Append(inbox[c], Refusal)}
    BY <1>8 DEF Disconnect, Reset, Backpressure, Refusal
  <2>3. sent' = sent /\ link'[c] = "down" /\ inbox'[c] = Append(q, close)
    BY <1>2, <2>2 DEF Drop
  <2>4. CASE q = <<[kind |-> "reset"]>>
    <3>1. q \in Seq(Frames) /\ Range(q) = {[kind |-> "reset"]}
      BY <2>1, <2>4, RangeOne
    <3>2. /\ DOMAIN inbox'[c] = 1..Len(inbox'[c]) /\ \A f \in Range(inbox'[c]) : f.kind # "event"
      BY <2>1, <2>3, <3>1, RangeAdd
    <3>3. QED
      BY <1>3, <2>3, <3>2, ComingNone
  <2>5. CASE q # <<[kind |-> "reset"]>>
    <3>1. Longer(inbox[c], inbox'[c])
      BY <1>2, <2>1, <2>2, <2>3, <2>5, LongerByOne
    <3>2. QED
      BY <1>1, <1>3, <2>3, <3>1, ComingLonger
  <2>6. QED
    BY <2>4, <2>5
<1>9. CASE NoticeClosed(c)
  <2>1. sent' = sent /\ inbox' = inbox /\ link' = link
    BY <1>9 DEF NoticeClosed, socketVars
  <2>2. QED
    BY <1>1, <1>3, <2>1, ComingKept
<1>10. QED
  BY <1>5, <1>6, <1>7, <1>8, <1>9 DEF Service

(* The events of a socket.                                                 *)
LEMMA GapSocket ==
  ASSUME TypeOK, NEW c \in Conns, SentOrder(c), NoGap(c), Socket(c)
  PROVE  NoGap(c)'
<1>1. CASE ReceiveResponse(c)
  BY <1>1, GapReceive
<1>2. CASE ReceiveDamaged(c) \/ SocketEvent(c)
  <2>1. PICK e \in Errors : Fail(c, e)
    BY <1>2 DEF ReceiveDamaged, SocketEvent, FrameError, Errors
  <2>2. /\ UNCHANGED <<sent, responses, queueFailure, arrived>> /\ Came(c)' = Came(c)
    BY <1>2 DEF ReceiveDamaged, SocketEvent, serviceVars, eventVars, history, Came
  <2>3. failure'[c] # "none" /\ reading'[c] = IF reading[c] = Waiting THEN Rejected(e) ELSE reading[c]
    BY <2>1 DEF Fail, TypeOK, ConnTypeOK, Errors
  <2>4. InHand(c)' = {reading'[c]} \cup Range(responses[c])
    BY <2>2 DEF InHand
  <2>5. \A f \in InHand(c) : f.kind = "event" => f \in InHand(c)'
    BY <2>3, <2>4 DEF InHand, Waiting
  <2>6. queueFailure'[c] = "none" /\ reading'[c].kind \in {"waiting", "rejected"} => Handed(c)
    BY <2>2, <2>3 DEF NoGap, Waiting
  <2>7. QED
    BY <2>2, <2>3, <2>5, <2>6, GapKept
<1>3. QED
  BY <1>1, <1>2 DEF Socket

(* The steps of the pump.                                                  *)
LEMMA GapPump ==
  ASSUME TypeOK, NEW c \in Conns, SentOrder(c), NoGap(c), Pump(c)
  PROVE  NoGap(c)'
<1>1. UNCHANGED <<inbox, sent, failure, yielded, link, arrived>>
  BY DEF Pump, socketVars, serviceVars, history
<1>2. CASE ReadResponse(c) /\ UNCHANGED <<queue, queueFailure>> /\ (reading[c].kind # "event" \/ queueFailure[c] # "none")
  <2>1. Came(c)' = Came(c)
    BY <1>1, <1>2 DEF Came
  <2>2. QED
    BY <1>1, <1>2, <2>1, GapRead
<1>3. CASE RouteEvent(c)
  <2>1. ReadResponse(c) /\ reading[c].kind = "event" /\ Push(c, reading[c].row) /\ queueFailure' = queueFailure
    BY <1>3 DEF RouteEvent
  <2>2. CASE queueFailure[c] # "none"
    BY <1>2, <2>1, <2>2 DEF Push
  <2>3. CASE queueFailure[c] = "none"
    <3>1. Came(c)' = Append(Came(c), reading[c].row)
      BY <1>1, <2>1, <2>3, PushCame
    <3>2. QED
      BY <1>1, <2>1, <2>3, <3>1, GapPush
  <2>4. QED
    BY <2>2, <2>3
<1>4. CASE PumpFails(c)
  <2>1. /\ reading'[c] = NotReading /\ responses' = responses /\ queue' = queue
        /\ queueFailure'[c] # "none" /\ reading[c].kind # "event"
    BY <1>4, ConnFields, FrameTypes DEF PumpFails, FailQueue, TypeOK, ConnTypeOK, EventTypeOK, Errors
  <2>2. Came(c)' = Came(c) /\ InHand(c)' = {NotReading} \cup Range(responses[c])
    BY <1>1, <2>1 DEF Came, InHand
  <2>3. \A f \in InHand(c)' : f.kind = "event" => f \in InHand(c)
    BY <2>2 DEF InHand, NotReading
  <2>4. failure'[c] = "none" => Coming(c)'
    BY <1>1, ComingKept DEF NoGap, Unbroken
  <2>5. QED
    BY <1>1, <2>1, <2>2, <2>3, <2>4, GapKept
<1>5. QED
  BY <1>2, <1>3, <1>4 DEF Pump, RouteAnswer, RouteUnclaimed, Answered, eventVars

(* What the end of the try block, or the finally clause, does.             *)
LEMMA RaiseLeaves ==
  ASSUME TypeOK, NEW s \in Streams, NEW c \in Conns, Finally(c) \/ (\E e : Raise(s, c, e))
  PROVE  /\ queueFailure'[c] = "none" => queueFailure[c] = "none"
         /\ \/ link'[c] = link[c] /\ inbox'[c] = inbox[c]
            \/ link'[c] = "destroyed" /\ inbox'[c] = <<[kind |-> "close"]>>
         /\ link'[c] = "new" => spc'[s] = "backoff"
         /\ conn' = conn \/ conn' = None
<1>1. CASE Finally(c)
  <2>1. \/ link'[c] = link[c] /\ inbox'[c] = inbox[c] /\ link[c] = "closed"
        \/ link'[c] = "destroyed" /\ inbox'[c] = <<[kind |-> "close"]>>
    BY <1>1 DEF Finally, Destroy, socketVars, TypeOK, SocketTypeOK
  <2>2. queueFailure'[c] = "none" => queueFailure[c] = "none"
    BY <1>1 DEF Finally, FailQueue, TypeOK, EventTypeOK
  <2>3. QED
    BY <1>1, <2>1, <2>2 DEF Finally, Forget
<1>2. CASE UNCHANGED <<conn, pending, promise, queueFailure, socketVars>> /\ spc' = [spc EXCEPT ![s] = "backoff"]
  BY <1>2 DEF socketVars, TypeOK, StreamTypeOK
<1>3. QED
  BY <1>1, <1>2 DEF Raise

(* A generator that leaves its try block loses no row.                     *)
LEMMA GapEnd ==
  ASSUME TypeOK, NEW s \in Streams, NEW c \in Conns, NoGap(c), Finally(c) \/ (\E e : Raise(s, c, e)),
         arrived'[c] = arrived[c], sent'[c] = sent[c], responses'[c] = responses[c], Came(c)' = Came(c),
         failure'[c] = "none" => failure[c] = "none",
         reading'[c] = reading[c] \/ (reading'[c] = NotReading /\ reading[c].kind # "event")
  PROVE  NoGap(c)'
<1>1. InHand(c)' = {reading'[c]} \cup Range(responses[c])
  BY DEF InHand
<1>2. \A f : f.kind = "event" => (f \in InHand(c)' <=> f \in InHand(c))
  BY <1>1 DEF InHand, NotReading
<1>3. reading'[c].kind \in {"waiting", "rejected"} => reading'[c] = reading[c]
  BY DEF NotReading
<1>4. queueFailure'[c] = "none" => queueFailure[c] = "none"
  BY RaiseLeaves
<1>5. Coming(c) => Coming(c)' /\ \A f \in Range(inbox'[c]) : f.kind = "event" => f \in Range(inbox[c])
  <2>1. CASE link'[c] = link[c] /\ inbox'[c] = inbox[c]
    BY <2>1, ComingKept
  <2>2. CASE link'[c] = "destroyed" /\ inbox'[c] = <<[kind |-> "close"]>>
    <3>1. (\A f \in Range(inbox'[c]) : f.kind # "event") /\ DOMAIN inbox'[c] = 1..Len(inbox'[c])
      BY <2>2 DEF Range
    <3>2. QED
      BY <2>2, <3>1, ComingNone
  <2>3. QED
    BY <2>1, <2>2, RaiseLeaves
<1>6. queueFailure'[c] = "none" /\ reading'[c].kind \in {"waiting", "rejected"} => Handed(c)
  BY <1>3, <1>4 DEF NoGap
<1>7. failure'[c] = "none" => Coming(c)' /\ \A f \in Range(inbox'[c]) : f.kind = "event" => f \in Range(inbox[c])
  BY <1>5 DEF NoGap, Unbroken
<1>8. QED
  BY <1>2, <1>4, <1>6, <1>7, GapKept

(* Where nothing has happened nothing is missing.                          *)
LEMMA GapEmpty ==
  ASSUME NEW c \in Conns, Came(c)' = <<>>, arrived'[c] = <<>>, sent'[c] = <<>>, inbox'[c] = <<>>, responses'[c] = <<>>,
         reading'[c].kind # "event"
  PROVE  NoGap(c)'
<1>1. IsPrefix(<<>>, <<>>)
  BY DEF IsPrefix
<1>2. InHand(c)' = {reading'[c]} /\ Range(inbox'[c]) = {}
  BY DEF InHand, Range
<1>3. Kept(c)' /\ Handed(c)'
  BY DEF Kept, Handed
<1>4. Coming(c)'
  BY DEF Coming
<1>5. QED
  BY <1>1, <1>2, <1>3, <1>4 DEF NoGap, Unbroken

(* The steps of a stream.                                                  *)
LEMMA GapSubscribe ==
  ASSUME TypeOK, NEW s \in Streams, Subscribe(s), NEW c \in Conns, Target(s, c), NoGap(c), Unopened(c), OpeningTrail(c)
  PROVE  NoGap(c)'
<1> USE DEF streamVars, eventVars, connVars, socketVars, serviceVars, history
<1>1. ASSUME Finally(c) \/ (\E e : Raise(s, c, e)), UNCHANGED <<arrived, sent, responses, queue, yielded>>,
             failure'[c] = "none" => failure[c] = "none",
             reading'[c] = reading[c] \/ (reading'[c] = NotReading /\ reading[c].kind # "event")
      PROVE  NoGap(c)'
  BY <1>1, GapEnd DEF Came
<1>2. ASSUME link[c] = "new"
      PROVE  /\ inbox[c] = <<>> /\ responses[c] = <<>> /\ sent[c] = <<>> /\ arrived[c] = <<>>
             /\ queue[c] = <<>> /\ yielded[c] = <<>> /\ Came(c) = <<>>
  <2>1. <<>> \o <<>> = <<>>
    OBVIOUS
  <2>2. QED
    BY <1>2, <2>1 DEF Unopened, Came
<1>3. CASE OpenConnection(s)
  <2>1. PICK n \in Conns : /\ NextConn(n) /\ reading' = [reading EXCEPT ![n] = Waiting] /\ cur' = [cur EXCEPT ![s] = n]
                           /\ spc[s] = "ready"
                           /\ UNCHANGED <<queue, yielded, sent, responses, inbox, arrived>>
    BY <1>3 DEF OpenConnection
  <2>2. n = c
    BY <2>1 DEF Target, TypeOK, StreamTypeOK
  <2>3. /\ Came(c)' = <<>> /\ arrived'[c] = <<>> /\ sent'[c] = <<>> /\ inbox'[c] = <<>> /\ responses'[c] = <<>>
        /\ reading'[c].kind # "event"
    BY <1>2, <2>1, <2>2 DEF NextConn, TypeOK, ConnTypeOK, Waiting, Came
  <2>4. QED
    BY <2>3, GapEmpty
<1>4. CASE OpenFails(s)
  <2>1. PICK n \in Conns : /\ failure' = [failure EXCEPT ![n] = "os"] /\ cur' = [cur EXCEPT ![s] = n] /\ Raise(s, n, "os")
                           /\ spc[s] = "ready"
                           /\ UNCHANGED <<arrived, sent, responses, queue, yielded, reading>>
    BY <1>4 DEF OpenFails
  <2>2. n = c
    BY <2>1 DEF Target, TypeOK, StreamTypeOK
  <2>3. failure'[c] = "os"
    BY <2>1, <2>2 DEF TypeOK, ConnTypeOK
  <2>4. QED
    BY <1>1, <2>1, <2>2, <2>3
<1>5. CASE Subscribed(s)
  <2>1. ReadResponse(c) /\ UNCHANGED <<inbox, link, sent, failure, queue, queueFailure, yielded, arrived>>
    BY <1>5 DEF Subscribed, Target
  <2>2. reading[c].kind # "event"
    BY <1>5 DEF Subscribed, Target
  <2>3. Came(c)' = Came(c)
    BY <2>1 DEF Came
  <2>4. QED
    BY <2>1, <2>2, <2>3, GapRead
<1>6. CASE SubscribeFails(s)
  <2>1. reading'[c] = NotReading /\ \E e : Raise(s, c, e)
    BY <1>6 DEF SubscribeFails, Target, TypeOK, ConnTypeOK
  <2>2. reading[c].kind # "event"
    BY <1>6 DEF SubscribeFails, Target, OpeningTrail, InStage
  <2>3. QED
    BY <1>1, <1>6, <2>1, <2>2 DEF SubscribeFails
<1>7. CASE YieldEvent(s)
  <2>1. /\ queue[c] # <<>> /\ queue'[c] = Tail(queue[c]) /\ yielded'[c] = Append(yielded[c], Head(queue[c]))
        /\ UNCHANGED <<link, inbox, responses, reading, failure, queueFailure, sent, arrived>>
    BY <1>7 DEF YieldEvent, Target, TypeOK, EventTypeOK, ServiceTypeOK
  <2>2. queue[c] \in Seq(Rows) /\ yielded[c] \in Seq(Rows)
    BY ConnFields
  <2>3. Came(c)' = Came(c)
    BY <2>1, <2>2, YieldJoins DEF Came
  <2>4. QED
    BY <2>1, <2>3, GapLonger, ComingKept
<1>8. CASE NextEvent(s)
  <2>1. UNCHANGED <<arrived, sent, queue, yielded, queueFailure, failure, responses, reading, inbox, link>>
    BY <1>8 DEF NextEvent
  <2>2. QED
    BY <2>1, GapLonger, ComingKept DEF Came
<1>9. CASE EventsFail(s)
  <2>1. \E e : Raise(s, c, e)
    BY <1>9 DEF EventsFail, Target, OutOfEvents
  <2>2. QED
    BY <1>1, <1>9, <2>1 DEF EventsFail
<1>10. CASE Return(s) \/ Wake(s)
  BY <1>1, <1>10 DEF Return, Wake, Target
<1>11. QED
  BY <1>3, <1>4, <1>5, <1>6, <1>7, <1>8, <1>9, <1>10 DEF Subscribe

-----------------------------------------------------------------------------
(* The stream that takes a step is the only one of its connection.         *)
LEMMA SoleStage ==
  ASSUME TypeOK, Apart, NEW s \in Streams, Subscribe(s), NEW c \in Conns, Target(s, c), Unopened(c)
  PROVE  /\ cur'[s] = c /\ \A S : InStage(c, S)' <=> spc'[s] \in S
         /\ spc[s] # "ready" => cur[s] = c /\ (\A S : InStage(c, S) <=> spc[s] \in S) /\ link[c] # "new"
         /\ spc[s] = "ready" => link[c] = "new" /\ (OpenConnection(s) \/ OpenFails(s))
         /\ \A t \in Streams : t # s => cur'[t] # c
<1>1. /\ spc[s] # "ready" => cur' = cur
      /\ cur'[s] = c
      /\ \A t \in Streams : t # s => cur'[t] = cur[t]
      /\ spc[s] = "ready" => link[c] = "new" /\ (OpenConnection(s) \/ OpenFails(s))
  <2>1. CASE OpenConnection(s) \/ OpenFails(s)
    <3>1. PICK n \in Conns : NextConn(n) /\ cur' = [cur EXCEPT ![s] = n] /\ spc[s] = "ready"
      BY <2>1 DEF OpenConnection, OpenFails
    <3>2. QED
      BY <2>1, <3>1 DEF Target, NextConn, TypeOK, StreamTypeOK
  <2>2. CASE ~(OpenConnection(s) \/ OpenFails(s))
    BY <2>2 DEF Subscribe, Subscribed, SubscribeFails, YieldEvent, EventsFail, NextEvent,
      Return, Wake, Target, streamVars
  <2>3. QED
    BY <2>1, <2>2
<1>2. c # None
  BY ConstantsAssumption DEF Conns
<1>3. CASE spc[s] = "ready"
  BY <1>1, <1>3 DEF Unopened, InStage
<1>4. CASE spc[s] # "ready"
  BY <1>1, <1>2, <1>4 DEF Unopened, InStage, Apart
<1>5. QED
  BY <1>1, <1>3, <1>4

(* What a step adds to the frames of a connection.                         *)
LEMMA FramesRead ==
  ASSUME TypeOK, NEW c \in Conns, ReadResponse(c), inbox'[c] = inbox[c]
  PROVE  \A f \in FramesOf(c)' : f \in Range(inbox[c]) \cup Range(responses[c]) \/ Dull(f)
<1>1. FramesOf(c)' = Range(inbox[c]) \cup Range(responses'[c]) \cup {reading'[c]}
  BY DEF FramesOf
<1>2. CASE responses[c] # <<>>
  <2>1. reading'[c] \in Range(responses[c]) /\ Range(responses'[c]) \subseteq Range(responses[c])
    BY <1>2, ReadNext
  <2>2. QED
    BY <1>1, <2>1
<1>3. CASE responses[c] = <<>>
  <2>1. responses'[c] = <<>> /\ Dull(reading'[c])
    BY <1>3, ReadNext
  <2>2. QED
    BY <1>1, <1>3, <2>1
<1>4. QED
  BY <1>2, <1>3

(* A socket brings no new frame but a dull one.                            *)
LEMMA FramesSocket ==
  ASSUME TypeOK, NEW c \in Conns, Socket(c)
  PROVE  \A f \in FramesOf(c)' : f \in FramesOf(c) \/ Dull(f)
<1>1. FramesOf(c)' = Range(inbox'[c]) \cup Range(responses'[c]) \cup {reading'[c]}
  BY DEF FramesOf
<1>2. CASE ReceiveResponse(c)
  <2>1. /\ inbox[c] # <<>> /\ inbox'[c] = Tail(inbox[c]) /\ Resolve(c, Head(inbox[c])) /\ Head(inbox[c]) \in Responses
        /\ Head(inbox[c]) \in Range(inbox[c]) /\ Range(Tail(inbox[c])) \subseteq Range(inbox[c])
    BY <1>2, ConnFields, RangeTake, TakeFirst, FrameTypes DEF ReceiveResponse, Unhandled, TypeOK, SocketTypeOK
  <2>2. CASE reading[c] = Waiting
    BY <1>1, <2>1, <2>2 DEF Resolve, FramesOf, TypeOK, ConnTypeOK
  <2>3. CASE reading[c] # Waiting
    <3>1. Range(Append(responses[c], Head(inbox[c]))) = Range(responses[c]) \cup {Head(inbox[c])}
      BY <2>1, ConnFields, RangeAdd
    <3>2. reading'[c] = reading[c] /\ responses'[c] = Append(responses[c], Head(inbox[c]))
      BY <2>1, <2>3 DEF Resolve, TypeOK, ConnTypeOK
    <3>3. QED
      BY <1>1, <2>1, <3>1, <3>2 DEF FramesOf
  <2>4. QED
    BY <2>2, <2>3
<1>3. CASE ReceiveDamaged(c) \/ SocketEvent(c)
  <2>1. PICK e \in Errors : Fail(c, e)
    BY <1>3 DEF ReceiveDamaged, SocketEvent, FrameError, Errors
  <2>2. reading'[c] = reading[c] \/ Dull(reading'[c])
    BY <2>1, Kinds DEF Fail, TypeOK, ConnTypeOK
  <2>3. responses' = responses /\ inbox[c] # <<>> /\ (Destroy(c) \/ Unhandled(c))
    BY <1>3 DEF ReceiveDamaged, SocketEvent
  <2>4. \A f \in Range(inbox'[c]) : f \in Range(inbox[c]) \/ Dull(f)
    <3>1. CASE Destroy(c)
      <4>1. inbox'[c] = inbox[c] \/ inbox'[c] = <<[kind |-> "close"]>>
        BY <3>1 DEF Destroy, socketVars, TypeOK, SocketTypeOK
      <4>2. \A f \in Range(<<[kind |-> "close"]>>) : Dull(f)
        BY RangeOne, Kinds
      <4>3. QED
        BY <4>1, <4>2
    <3>2. CASE Unhandled(c)
      BY <2>3, <3>2, RangeUnhandled
    <3>3. QED
      BY <2>3, <3>1, <3>2
  <2>5. QED
    BY <1>1, <2>2, <2>3, <2>4 DEF FramesOf
<1>4. QED
  BY <1>2, <1>3 DEF Socket

(* The service adds what it sends, or a damaged frame.                     *)
LEMMA FramesSend ==
  ASSUME TypeOK, NEW c \in Conns, NEW f \in Responses, Send(c, f), responses'[c] = responses[c], reading'[c] = reading[c]
  PROVE  \A g \in FramesOf(c)' : g \in FramesOf(c) \/ g = f \/ Dull(g)
<1>1. PICK g \in {f} \cup [kind : Damages \cap Faults] : inbox' = [inbox EXCEPT ![c] = Append(@, g)]
  BY DEF Send
<1>2. g \in Frames /\ (g = f \/ Dull(g))
  BY <1>1, SentTypes, FrameTypes, Kinds
<1>3. inbox'[c] = Append(inbox[c], g) /\ Range(Append(inbox[c], g)) = Range(inbox[c]) \cup {g}
  BY <1>1, <1>2, ConnFields, RangeAdd DEF TypeOK, SocketTypeOK
<1>4. QED
  BY <1>2, <1>3 DEF FramesOf

(* A connection that is dropped may end with a refusal.                    *)
LEMMA FramesDrop ==
  ASSUME TypeOK, NEW c \in Conns, Disconnect(c) \/ Reset(c) \/ Backpressure(c)
  PROVE  \A g \in FramesOf(c)' : g \in FramesOf(c) \/ g = Refusal \/ Dull(g)
<1> DEFINE close == [kind |-> "close"]
<1>1. close \in Frames /\ [kind |-> "reset"] \in Frames /\ Refusal \in Frames /\ Dull(close) /\ Dull([kind |-> "reset"])
  BY SentTypes, FrameTypes, Kinds DEF Frames, Refusal
<1>2. PICK q : Drop(c, q) /\ q \in {inbox[c], <<[kind |-> "reset"]>>, Append(inbox[c], Refusal)}
  BY DEF Disconnect, Reset, Backpressure, Refusal
<1>3. inbox'[c] = Append(q, close) /\ responses' = responses /\ reading' = reading
  BY <1>2 DEF Drop, ClientVars, connVars, TypeOK, SocketTypeOK
<1>4. q \in Seq(Frames) /\ \A g \in Range(q) : g \in Range(inbox[c]) \/ g = Refusal \/ Dull(g)
  <2>1. CASE q = inbox[c]
    BY <2>1, ConnFields
  <2>2. CASE q = <<[kind |-> "reset"]>>
    BY <1>1, <2>2, RangeOne
  <2>3. CASE q = Append(inbox[c], Refusal)
    BY <1>1, <2>3, ConnFields, RangeAdd
  <2>4. QED
    BY <1>2, <2>1, <2>2, <2>3
<1>5. Range(Append(q, close)) = Range(q) \cup {close}
  BY <1>1, <1>4, RangeAdd
<1>6. QED
  BY <1>1, <1>3, <1>4, <1>5 DEF FramesOf

(* AnswerTrail.  Calls that were written and answers that are on their way *)
(* become fewer, and what is awaited stays awaited.                        *)
LEMMA AnswersFewer ==
  ASSUME NEW c \in Conns, AnswerTrail(c), wire'[c] \subseteq wire[c],
         \A k \in Calls, f \in FramesOf(c)' : Answers(f, k) => f \in FramesOf(c),
         via' = via, \A k \in Calls : cpc'[k] = cpc[k] \/ cpc'[k] = "done",
         pump'[c] = "running" /\ Served(c)' => pump[c] = "running" /\ Served(c) /\ pending[c] \subseteq pending'[c]
  PROVE  AnswerTrail(c)'
<1> SUFFICES ASSUME NEW k \in Calls
             PROVE  LET answered == \E f \in FramesOf(c)' : Answers(f, k) IN
                    /\ k \in wire'[c] => ~answered
                    /\ k \in wire'[c] \/ answered =>
                         /\ via'[k] = c /\ cpc'[k] \in {"await", "done"}
                         /\ pump'[c] = "running" /\ Served(c)' => k \in pending'[c]
  BY DEF AnswerTrail, Answers
<1> DEFINE was == \E f \in FramesOf(c) : Answers(f, k)
<1>1. /\ k \in wire[c] => ~was
      /\ k \in wire[c] \/ was =>
           /\ via[k] = c /\ cpc[k] \in {"await", "done"}
           /\ pump[c] = "running" /\ Served(c) => k \in pending[c]
  BY DEF AnswerTrail
<1>2. (\E f \in FramesOf(c)' : Answers(f, k)) => was
  OBVIOUS
<1>3. QED
  BY <1>1, <1>2

(* What is dull, an event or a refusal answers no call.                    *)
LEMMA NoAnswer ==
  ASSUME NEW k \in Calls
  PROVE  /\ \A f : Dull(f) \/ f.kind = "event" => ~Answers(f, k)
         /\ ~Answers(Refusal, k)
BY ConstantsAssumption DEF Dull, Answers, Refusal

(* The events of a socket answer nothing anew.                             *)
LEMMA AnswerSocket ==
  ASSUME TypeOK, NEW c \in Conns, AnswerTrail(c), Socket(c)
  PROVE  AnswerTrail(c)'
<1>1. UNCHANGED <<wire, via, cpc, pump, pending, spc, cur>>
  BY DEF Socket, ReceiveResponse, ReceiveDamaged, SocketEvent, serviceVars, callVars, streamVars
<1>2. \A k \in Calls, f \in FramesOf(c)' : Answers(f, k) => f \in FramesOf(c)
  BY FramesSocket, NoAnswer
<1>3. Served(c)' => Served(c)
  BY <1>1 DEF Served, InStage
<1>4. QED
  BY <1>1, <1>2, <1>3, AnswersFewer

(* The pump takes the answer it has read from the calls that wait.         *)
LEMMA AnswerPump ==
  ASSUME TypeOK, NEW c \in Conns, SentOrder(c), AnswerTrail(c), Pump(c)
  PROVE  AnswerTrail(c)'
<1>1. UNCHANGED <<inbox, wire, via, cpc, spc, cur>>
  BY DEF Pump, socketVars, serviceVars, callVars, streamVars
<1>2. Served(c)' => Served(c)
  BY <1>1 DEF Served, InStage
<1>3. ASSUME ReadResponse(c) PROVE \A k \in Calls, f \in FramesOf(c)' : Answers(f, k) => f \in Range(inbox[c]) \cup Range(responses[c])
  BY <1>1, <1>3, FramesRead, NoAnswer
<1>4. Range(inbox[c]) \cup Range(responses[c]) \subseteq FramesOf(c)
  BY DEF FramesOf
<1>5. CASE ReadResponse(c) /\ UNCHANGED <<pending, pump>>
  BY <1>1, <1>2, <1>3, <1>4, <1>5, AnswersFewer
<1>6. CASE RouteAnswer(c)
  <2> DEFINE j == reading[c].call
  <2>1. /\ ReadResponse(c) /\ reading[c].kind \in {"acked", "error"} /\ j \in pending[c] /\ j \in Calls
        /\ pending'[c] = pending[c] \ {j} /\ pump' = pump
    BY <1>6 DEF RouteAnswer, Answered, TypeOK, PromiseTypeOK
  <2>2. \A k \in Calls, f \in FramesOf(c)' : Answers(f, k) => f \in FramesOf(c) /\ k # j
    <3>1. ASSUME NEW f \in Range(inbox[c]) \cup Range(responses[c]), Answers(f, j) PROVE FALSE
      <4>1. MayPrecede(c, reading[c], f)
        BY <3>1 DEF SentOrder, Line
      <4>2. QED
        BY <2>1, <3>1, <4>1 DEF MayPrecede, Answers
    <3>2. QED
      BY <1>3, <1>4, <2>1, <3>1
  <2>3. j \notin wire[c]
    BY <2>1 DEF AnswerTrail, Answers, FramesOf
  <2> SUFFICES ASSUME NEW k \in Calls
               PROVE  LET answered == \E f \in FramesOf(c)' : Answers(f, k) IN
                      /\ k \in wire'[c] => ~answered
                      /\ k \in wire'[c] \/ answered =>
                           /\ via'[k] = c /\ cpc'[k] \in {"await", "done"}
                           /\ pump'[c] = "running" /\ Served(c)' => k \in pending'[c]
    BY DEF AnswerTrail, Answers
  <2> DEFINE was == \E f \in FramesOf(c) : Answers(f, k)
  <2>4. /\ k \in wire[c] => ~was
        /\ k \in wire[c] \/ was =>
             /\ via[k] = c /\ cpc[k] \in {"await", "done"}
             /\ pump[c] = "running" /\ Served(c) => k \in pending[c]
    BY DEF AnswerTrail
  <2>5. (\E f \in FramesOf(c)' : Answers(f, k)) => was /\ k # j
    BY <2>2
  <2>6. QED
    BY <1>1, <1>2, <2>1, <2>3, <2>4, <2>5
<1>7. CASE PumpFails(c)
  <2>1. pump'[c] = "done" /\ reading'[c] = NotReading /\ responses' = responses
    BY <1>7 DEF PumpFails, TypeOK, EventTypeOK, ConnTypeOK
  <2>2. \A k \in Calls, f \in FramesOf(c)' : Answers(f, k) => f \in FramesOf(c)
    BY <1>1, <2>1, NoAnswer, Kinds DEF FramesOf
  <2>3. QED
    BY <1>1, <2>1, <2>2, AnswersFewer
<1>8. QED
  BY <1>5, <1>6, <1>7 DEF Pump, RouteEvent, RouteUnclaimed

(* The service answers what was written, once.                             *)
LEMMA AnswerService ==
  ASSUME TypeOK, NEW c \in Conns, AnswerTrail(c), Service(c)
  PROVE  AnswerTrail(c)'
<1>1. UNCHANGED <<via, cpc, pump, pending, spc, cur, responses, reading>>
  BY DEF Service, Accept, Refuse, Deliver, HandleAck, Disconnect, Reset, Backpressure, Drop, NoticeClosed,
    ClientVars, callVars, streamVars, connVars
<1>2. Served(c)' => Served(c)
  BY <1>1 DEF Served, InStage
<1>3. ASSUME wire'[c] \subseteq wire[c], \A k \in Calls, f \in FramesOf(c)' : Answers(f, k) => f \in FramesOf(c)
      PROVE  AnswerTrail(c)'
  BY <1>1, <1>2, <1>3, AnswersFewer
<1>4. ASSUME NEW f \in Responses, Send(c, f), wire' = wire, f.kind \in {"subscribed", "event"} \/ f = Refusal
      PROVE  AnswerTrail(c)'
  <2>1. \A g \in FramesOf(c)' : g \in FramesOf(c) \/ g = f \/ Dull(g)
    BY <1>1, <1>4, FramesSend
  <2>2. \A k \in Calls : ~Answers(f, k)
    BY <1>4, NoAnswer DEF Dull
  <2>3. QED
    BY <1>3, <1>4, <2>1, <2>2, NoAnswer
<1>5. CASE Accept(c) \/ Refuse(c)
  BY <1>4, <1>5, SentTypes DEF Accept, Refuse, Refusal
<1>6. ASSUME NEW r \in Rows, Deliver(c, r) PROVE AnswerTrail(c)'
  BY <1>4, <1>6, SentTypes DEF Deliver
<1>7. ASSUME NEW j \in Calls, HandleAck(c, j) PROVE AnswerTrail(c)'
  <2>1. j \in wire[c] /\ wire'[c] = wire[c] \ {j}
    BY <1>7 DEF HandleAck, TypeOK, ServiceTypeOK
  <2>2. \A k \in Calls, f \in FramesOf(c)' : Answers(f, k) => f \in FramesOf(c) \/ k = j
    <3>1. CASE link[c] = "up"
      <4>1. PICK b \in {"acked", "error"} : Send(c, [kind |-> b, call |-> j])
        BY <1>7, <3>1 DEF HandleAck
      <4>2. [kind |-> b, call |-> j] \in Responses
        BY SentTypes
      <4>3. \A g \in FramesOf(c)' : g \in FramesOf(c) \/ g = [kind |-> b, call |-> j] \/ Dull(g)
        BY <1>1, <4>1, <4>2, FramesSend
      <4>4. \A k \in Calls : Answers([kind |-> b, call |-> j], k) => k = j
        BY DEF Answers
      <4>5. QED
        BY <4>3, <4>4, NoAnswer
    <3>2. CASE link[c] # "up"
      BY <1>1, <1>7, <3>2 DEF HandleAck, FramesOf
    <3>3. QED
      BY <3>1, <3>2
  <2> SUFFICES ASSUME NEW k \in Calls
               PROVE  LET answered == \E f \in FramesOf(c)' : Answers(f, k) IN
                      /\ k \in wire'[c] => ~answered
                      /\ k \in wire'[c] \/ answered =>
                           /\ via'[k] = c /\ cpc'[k] \in {"await", "done"}
                           /\ pump'[c] = "running" /\ Served(c)' => k \in pending'[c]
    BY DEF AnswerTrail, Answers
  <2> DEFINE was == \E f \in FramesOf(c) : Answers(f, k)
  <2>3. /\ k \in wire[c] => ~was
        /\ k \in wire[c] \/ was =>
             /\ via[k] = c /\ cpc[k] \in {"await", "done"}
             /\ pump[c] = "running" /\ Served(c) => k \in pending[c]
    BY DEF AnswerTrail
  <2>4. (\E f \in FramesOf(c)' : Answers(f, k)) => was \/ k = j
    BY <2>2
  <2>5. QED
    BY <1>1, <1>2, <2>1, <2>3, <2>4
<1>8. CASE Disconnect(c) \/ Reset(c) \/ Backpressure(c)
  <2>1. wire'[c] = {}
    BY <1>8 DEF Disconnect, Reset, Backpressure, Drop, TypeOK, ServiceTypeOK
  <2>2. QED
    BY <1>3, <1>8, <2>1, FramesDrop, NoAnswer
<1>9. CASE NoticeClosed(c)
  <2>1. wire'[c] = {} /\ FramesOf(c)' = FramesOf(c)
    BY <1>1, <1>9 DEF NoticeClosed, socketVars, FramesOf, TypeOK, ServiceTypeOK
  <2>2. QED
    BY <1>3, <2>1
<1>10. QED
  BY <1>5, <1>6, <1>7, <1>8, <1>9 DEF Service

(* The steps of a stream: only a subscription starts a pump, and it starts *)
(* it on a connection nobody has written an ack on.                        *)
LEMMA AnswerSubscribe ==
  ASSUME TypeOK, Apart, NEW s \in Streams, Subscribe(s), NEW c \in Conns, Target(s, c), Unopened(c), OpeningTrail(c),
         AnswerTrail(c)
  PROVE  AnswerTrail(c)'
<1> USE DEF streamVars, eventVars, connVars, socketVars, callVars, serviceVars, history
<1>1. UNCHANGED <<wire, via, cpc>>
  BY DEF Subscribe, OpenConnection, OpenFails, Subscribed, SubscribeFails, YieldEvent, EventsFail, NextEvent, Return, Wake
<1>2. Served(c)' <=> spc'[s] \in {"next", "yielded"}
  BY SoleStage DEF Served
<1>3. ASSUME \A k \in Calls, f \in FramesOf(c)' : Answers(f, k) => f \in FramesOf(c),
             pump'[c] = "running" /\ Served(c)' => pump[c] = "running" /\ Served(c) /\ pending[c] \subseteq pending'[c]
      PROVE  AnswerTrail(c)'
  BY <1>1, <1>3, AnswersFewer
<1>4. ASSUME Finally(c) \/ (\E e : Raise(s, c, e)), responses' = responses,
             reading'[c] = reading[c] \/ reading'[c] = NotReading
      PROVE  \A k \in Calls, f \in FramesOf(c)' : Answers(f, k) => f \in FramesOf(c)
  <2>1. FramesOf(c)' = Range(inbox'[c]) \cup Range(responses[c]) \cup {reading'[c]}
    BY <1>4 DEF FramesOf
  <2>2. \A f \in Range(<<[kind |-> "close"]>>) : Dull(f)
    BY RangeOne, Kinds
  <2>3. \A f \in Range(inbox'[c]) : f \in Range(inbox[c]) \/ Dull(f)
    BY <1>4, <2>2, RaiseLeaves
  <2>4. \A f \in FramesOf(c)' : f \in FramesOf(c) \/ Dull(f)
    BY <1>4, <2>1, <2>3, Kinds DEF FramesOf
  <2>5. QED
    BY <2>4, NoAnswer
<1>5. ASSUME NEW e, Raise(s, c, e) PROVE spc'[s] \in {"backoff", "ended"}
  BY <1>5 DEF Raise, TypeOK, StreamTypeOK
<1>6. CASE OpenConnection(s)
  <2>1. spc[s] = "ready" /\ pump' = pump /\ \A f \in FramesOf(c)' : f \in FramesOf(c) \/ f = Waiting
    BY <1>6 DEF OpenConnection, FramesOf, TypeOK, ConnTypeOK
  <2>2. pump[c] = "none"
    BY <2>1, SoleStage DEF Unopened
  <2>3. QED
    BY <1>3, <2>1, <2>2, NoAnswer, Kinds
<1>7. CASE OpenFails(s)
  <2>1. PICK n \in Conns : cur' = [cur EXCEPT ![s] = n] /\ Raise(s, n, "os") /\ UNCHANGED <<responses, reading>>
    BY <1>7 DEF OpenFails
  <2>2. n = c
    BY <2>1, SoleStage DEF TypeOK, StreamTypeOK
  <2>3. QED
    BY <1>2, <1>3, <1>4, <1>5, <2>1, <2>2
<1>8. CASE Subscribed(s)
  <2>1. ReadResponse(c) /\ inbox' = inbox /\ spc[s] = "opening"
    BY <1>8 DEF Subscribed, Target
  <2>2. \A k \in Calls : via[k] # c
    BY <2>1, SoleStage DEF OpeningTrail
  <2>3. wire[c] = {} /\ \A k \in Calls, f \in FramesOf(c) : ~Answers(f, k)
    BY <2>2 DEF AnswerTrail, TypeOK, ServiceTypeOK
  <2>4. Range(inbox[c]) \cup Range(responses[c]) \subseteq FramesOf(c)
    BY DEF FramesOf
  <2>5. \A k \in Calls, f \in FramesOf(c)' : ~Answers(f, k)
    BY <2>1, <2>3, <2>4, FramesRead, NoAnswer
  <2>6. QED
    BY <1>1, <2>3, <2>5 DEF AnswerTrail, Answers
<1>9. CASE SubscribeFails(s)
  <2>1. reading'[c] = NotReading /\ responses' = responses /\ \E e : Raise(s, c, e)
    BY <1>9 DEF SubscribeFails, Target, TypeOK, ConnTypeOK
  <2>2. QED
    BY <1>2, <1>3, <1>4, <1>5, <2>1
<1>10. CASE YieldEvent(s) \/ NextEvent(s)
  <2>1. UNCHANGED <<pump, pending, inbox, responses, reading>> /\ spc[s] \in {"next", "yielded"}
    BY <1>10 DEF YieldEvent, NextEvent
  <2>2. Served(c)
    BY <2>1, SoleStage DEF Served
  <2>3. QED
    BY <1>3, <2>1, <2>2 DEF FramesOf
<1>11. CASE EventsFail(s)
  <2>1. (\E e : Raise(s, c, e)) /\ UNCHANGED <<responses, reading>>
    BY <1>11 DEF EventsFail, Target, OutOfEvents
  <2>2. QED
    BY <1>2, <1>3, <1>4, <1>5, <2>1
<1>12. CASE Return(s) \/ Wake(s)
  <2>1. Finally(c) /\ UNCHANGED <<responses, reading>> /\ spc'[s] \in {"ended", "ready"}
    BY <1>12 DEF Return, Wake, Target, TypeOK, StreamTypeOK
  <2>2. QED
    BY <1>2, <1>3, <1>4, <2>1
<1>13. QED
  BY <1>6, <1>7, <1>8, <1>9, <1>10, <1>11, <1>12 DEF Subscribe

(* A call is written for the first time, and its promise is registered in  *)
(* the same step.                                                          *)
LEMMA AnswerAck ==
  ASSUME TypeOK, NEW j \in Calls, Ack(j), NEW d \in Conns, AnswerTrail(d)
  PROVE  AnswerTrail(d)'
<1>1. /\ FramesOf(d)' = FramesOf(d) /\ pump' = pump
      /\ Served(d)' <=> Served(d)
  BY DEF Ack, AckBegin, AckReturn, AckPerform, connVars, socketVars, streamVars, FramesOf, Served, InStage
<1>2. CASE AckReturn(j) \/ AckPerform(j)
  <2>1. UNCHANGED <<wire, via, pending>> /\ \A k \in Calls : cpc'[k] = cpc[k] \/ cpc'[k] = "done"
    BY <1>2 DEF AckReturn, AckPerform, serviceVars, TypeOK, CallTypeOK
  <2>2. QED
    BY <1>1, <2>1, AnswersFewer
<1>3. CASE AckBegin(j)
  <2>1. /\ cpc[j] = "idle"
        /\ \/ conn \in Conns /\ Write(j)
           \/ cpc' = [cpc EXCEPT ![j] = "perform"] /\ pending' = pending /\ wire' = wire /\ via' = via
    <3>1. PICK r \in Seen, t \in Streams \cup {None} :
            /\ cpc[j] = "idle"
            /\ \/ conn # None /\ Write(j)
               \/ cpc' = [cpc EXCEPT ![j] = "perform"] /\ pending' = pending /\ wire' = wire /\ via' = via
      BY <1>3 DEF AckBegin
    <3>2. conn # None => conn \in Conns
      BY DEF TypeOK, EventTypeOK
    <3>3. QED
      BY <3>1, <3>2
  <2>2. j \notin wire[d] /\ \A f \in FramesOf(d) : ~Answers(f, j)
    BY <2>1 DEF AnswerTrail
  <2>3. \A k \in Calls : k # j => cpc'[k] = cpc[k] /\ via'[k] = via[k]
    BY <2>1 DEF Write, TypeOK, CallTypeOK
  <2>4. pending[d] \subseteq pending'[d] /\ wire[d] \subseteq wire'[d] /\ wire'[d] \subseteq wire[d] \cup {j}
    <3>1. CASE Write(j)
      <4>1. pending[d] \subseteq pending'[d]
        BY <3>1 DEF Write, TypeOK, PromiseTypeOK
      <4>2. wire[d] \subseteq wire'[d] /\ wire'[d] \subseteq wire[d] \cup {j}
        BY <3>1 DEF Write, TypeOK, ServiceTypeOK
      <4>3. QED
        BY <4>1, <4>2
    <3>2. CASE pending' = pending /\ wire' = wire
      BY <3>2
    <3>3. QED
      BY <2>1, <3>1, <3>2
  <2>5. j \in wire'[d] => via'[j] = d /\ cpc'[j] = "await" /\ j \in pending'[d]
    <3>1. CASE Write(j) /\ conn = d
      BY <3>1 DEF Write, TypeOK, PromiseTypeOK, CallTypeOK
    <3>2. CASE ~(Write(j) /\ conn = d)
      BY <2>1, <2>2, <3>2 DEF Write, TypeOK, ServiceTypeOK
    <3>3. QED
      BY <3>1, <3>2
  <2> SUFFICES ASSUME NEW k \in Calls
               PROVE  LET answered == \E f \in FramesOf(d)' : Answers(f, k) IN
                      /\ k \in wire'[d] => ~answered
                      /\ k \in wire'[d] \/ answered =>
                           /\ via'[k] = d /\ cpc'[k] \in {"await", "done"}
                           /\ pump'[d] = "running" /\ Served(d)' => k \in pending'[d]
    BY DEF AnswerTrail, Answers
  <2> DEFINE was == \E f \in FramesOf(d) : Answers(f, k)
  <2>6. /\ k \in wire[d] => ~was
        /\ k \in wire[d] \/ was =>
             /\ via[k] = d /\ cpc[k] \in {"await", "done"}
             /\ pump[d] = "running" /\ Served(d) => k \in pending[d]
    BY DEF AnswerTrail
  <2>7. (\E f \in FramesOf(d)' : Answers(f, k)) <=> was
    BY <1>1
  <2>8. CASE k = j
    <3>1. ~was
      BY <2>2, <2>8
    <3>2. QED
      BY <2>5, <2>7, <2>8, <3>1
  <2>9. CASE k # j
    <3>1. k \in wire'[d] => k \in wire[d]
      BY <2>4, <2>9
    <3>2. QED
      BY <1>1, <2>3, <2>4, <2>6, <2>7, <2>9, <3>1
  <2>10. QED
    BY <2>8, <2>9
<1>4. QED
  BY <1>2, <1>3 DEF Ack

(* Unopened.  Whatever is done to a connection, it is not new afterwards.  *)
LEMMA NotNew ==
  ASSUME TypeOK, Apart, NEW c \in Conns, Unopened(c),
         \/ Socket(c) \/ Pump(c) \/ Service(c)
         \/ \E s \in Streams : Subscribe(s) /\ Target(s, c)
  PROVE  Unopened(c)'
<1> USE DEF streamVars, socketVars
<1>1. link \in [Conns -> {"new", "up", "down", "destroyed", "closed"}]
  BY DEF TypeOK, SocketTypeOK
<1>2. CASE Socket(c)
  <2>1. link[c] # "new"
    BY <1>2 DEF Socket, ReceiveResponse, ReceiveDamaged, SocketEvent, Unopened
  <2>2. QED
    BY <1>1, <1>2, <2>1 DEF Socket, ReceiveResponse, ReceiveDamaged, SocketEvent, Destroy, Unopened
<1>3. CASE Pump(c)
  BY <1>3 DEF Pump, Unopened
<1>4. CASE Service(c)
  <2>1. CASE Accept(c) \/ Refuse(c) \/ (\E r \in Rows : Deliver(c, r))
    BY <2>1 DEF Accept, Refuse, Deliver, Unopened
  <2>2. ASSUME NEW k \in Calls, HandleAck(c, k) PROVE Unopened(c)'
    BY <2>2 DEF HandleAck, Unopened
  <2>3. CASE Disconnect(c) \/ Reset(c) \/ Backpressure(c)
    BY <1>1, <2>3 DEF Disconnect, Reset, Backpressure, Drop, Unopened
  <2>4. CASE NoticeClosed(c)
    BY <2>4 DEF NoticeClosed, Unopened
  <2>5. QED
    BY <1>4, <2>1, <2>2, <2>3, <2>4 DEF Service
<1>5. ASSUME NEW s \in Streams, Subscribe(s), Target(s, c) PROVE Unopened(c)'
  <2>1. CASE OpenConnection(s)
    <3>1. PICK n \in Conns : link' = [link EXCEPT ![n] = "up"] /\ cur' = [cur EXCEPT ![s] = n]
      BY <2>1 DEF OpenConnection
    <3>2. n = c
      BY <1>5, <3>1, SoleStage DEF TypeOK, StreamTypeOK
    <3>3. QED
      BY <1>1, <3>1, <3>2 DEF Unopened
  <2>2. CASE OpenFails(s)
    <3>1. PICK n \in Conns : cur' = [cur EXCEPT ![s] = n] /\ Raise(s, n, "os") /\ link[n] = "new"
      BY <2>2 DEF OpenFails, NextConn
    <3>2. n = c
      BY <1>5, <3>1, SoleStage DEF TypeOK, StreamTypeOK
    <3>3. link'[c] = "destroyed"
      BY <1>1, <3>1, <3>2 DEF Raise, Finally, Destroy
    <3>4. QED
      BY <3>3 DEF Unopened
  <2>3. CASE ~(OpenConnection(s) \/ OpenFails(s))
    <3>1. link[c] # "new"
      BY <1>5, <2>3, SoleStage
    <3>2. CASE link' = link
      BY <3>1, <3>2 DEF Unopened
    <3>3. CASE Finally(c) \/ (\E e : Raise(s, c, e))
      <4>1. link'[c] = link[c] \/ link'[c] = "destroyed"
        BY <1>5, <3>3, RaiseLeaves
      <4>2. QED
        BY <3>1, <4>1 DEF Unopened
    <3>4. QED
      BY <1>5, <2>3, <3>2, <3>3 DEF Subscribe, Subscribed, SubscribeFails, YieldEvent, EventsFail, NextEvent,
        Return, Wake, Target, OutOfEvents
  <2>4. QED
    BY <2>1, <2>2, <2>3
<1>6. QED
  BY <1>2, <1>3, <1>4, <1>5

(* An ack() is not written on a connection that is new.                    *)
LEMMA UnopenedAck ==
  ASSUME TypeOK, NEW j \in Calls, Ack(j), NEW d \in Conns, Unopened(d)
  PROVE  Unopened(d)'
<1>1. Same(d) /\ conn' = conn /\ UNCHANGED <<spc, cur, outcome>>
  BY SameInAck
<1>2. link[d] = "new" => (\A k \in Calls : via'[k] # d) /\ wire'[d] = {}
  <2>1. CASE via' = via /\ wire' = wire
    BY <2>1 DEF Unopened
  <2>2. CASE Write(j) /\ conn # None
    BY <2>2 DEF Write, Unopened, TypeOK, CallTypeOK, ServiceTypeOK, EventTypeOK
  <2>3. QED
    BY <2>1, <2>2 DEF Ack, AckBegin, AckReturn, AckPerform, callVars, serviceVars
<1>3. QED
  BY <1>1, <1>2 DEF Unopened, Same

-----------------------------------------------------------------------------
(* OpeningTrail.  The reply to a subscription that is refused names no     *)
(* call: none was written on the connection yet.                           *)
LEMMA OpeningReply ==
  ASSUME TypeOK, NEW c \in Conns, ConnTrail(c), AnswerTrail(c), \A k \in Calls : via[k] # c, reading[c].kind \in {"acked", "error"}
  PROVE  reading[c] = Refusal
<1>1. \A k \in Calls : ~Answers(reading[c], k)
  BY DEF AnswerTrail, FramesOf
<1>2. reading[c].kind = "acked" => reading[c].call \in Calls
  BY DEF ConnTrail, Truthful, TypeOK, ServiceTypeOK
<1>3. reading[c].call \in Calls \/ (reading[c].kind = "error" /\ reading[c] = Refusal) \/ reading[c] = [kind |-> "acked", call |-> None]
  BY ConnFields, Kinds
<1>4. reading[c] = [kind |-> "acked", call |-> None] => reading[c].call \in Calls
  BY <1>2
<1>5. QED
  BY <1>1, <1>3, <1>4 DEF Answers

(* No event is received before the reply, nor after a refusal.             *)
LEMMA OpeningSocket ==
  ASSUME TypeOK, NEW c \in Conns, ConnTrail(c), SentOrder(c), AnswerTrail(c), OpeningTrail(c), Socket(c)
  PROVE  OpeningTrail(c)'
<1> SUFFICES ASSUME InStage(c, {"opening"})' PROVE OpeningTrail(c)'
  BY DEF OpeningTrail
<1>1. UNCHANGED <<yielded, queue, pump, queueFailure, via, spc, cur>>
  BY DEF Socket, ReceiveResponse, ReceiveDamaged, SocketEvent, eventVars, callVars, streamVars, history
<1>2. /\ Came(c) = <<>> /\ pump[c] = "none" /\ queueFailure[c] = "none" /\ \A k \in Calls : via[k] # c
      /\ reading[c].kind \notin {"none", "event"}
      /\ reading[c].kind # "subscribed" => arrived[c] = <<>>
      /\ reading[c] = Waiting =>
           \A i \in 1..Len(inbox[c]) : inbox[c][i].kind = "event" =>
              \E j \in 1..(i - 1) : inbox[c][j].kind \in Damages \cup {"subscribed"}
  BY <1>1 DEF OpeningTrail, InStage
<1>3. Came(c)' = Came(c)
  BY <1>1 DEF Came
<1>4. CASE ReceiveResponse(c)
  <2> DEFINE f == Head(inbox[c])
  <2>1. /\ inbox[c] # <<>> /\ Resolve(c, f) /\ f \in Range(inbox[c]) /\ f.kind \in {"event", "acked", "error", "subscribed"}
        /\ f = inbox[c][1] /\ 1 \in 1..Len(inbox[c])
    BY <1>4, RangeTake, ConnFields DEF ReceiveResponse
  <2>2. CASE reading[c] = Waiting
    <3>1. f.kind # "event"
      <4>1. f.kind = "event" => \E j \in 1..(1 - 1) : inbox[c][j].kind \in Damages \cup {"subscribed"}
        BY <1>2, <2>1, <2>2
      <4>2. QED
        BY <4>1
    <3>2. reading'[c] = f /\ arrived' = arrived /\ reading[c].kind # "subscribed"
      BY <1>4, <2>1, <2>2, <3>1 DEF Resolve, ReceiveResponse, TypeOK, ConnTypeOK, Waiting
    <3>3. QED
      BY <1>1, <1>2, <1>3, <2>1, <3>1, <3>2 DEF OpeningTrail, Waiting
  <2>3. CASE reading[c] # Waiting
    <3>1. reading' = reading
      BY <2>1, <2>3 DEF Resolve
    <3>2. reading[c].kind \in {"subscribed", "rejected", "acked", "error"}
      BY <1>2, <2>3, ConnFields, Kinds
    <3>3. reading[c].kind # "subscribed" => f.kind # "event" \/ failure[c] # "none"
      <4>1. reading[c].kind \in {"acked", "error"} => f.kind # "event"
        BY <1>2, <2>1, OpeningReply DEF SentOrder, Hushed
      <4>2. QED
        BY <3>2, <4>1 DEF SentOrder
    <3>4. reading[c].kind # "subscribed" => arrived'[c] = <<>>
      BY <1>2, <1>4, <3>3 DEF ReceiveResponse
    <3>5. QED
      BY <1>1, <1>2, <1>3, <2>3, <3>1, <3>4 DEF OpeningTrail
  <2>4. QED
    BY <2>2, <2>3
<1>5. CASE ReceiveDamaged(c) \/ SocketEvent(c)
  <2>1. PICK e \in Errors : Fail(c, e)
    BY <1>5 DEF ReceiveDamaged, SocketEvent, FrameError, Errors
  <2>2. arrived' = arrived /\ reading'[c] = IF reading[c] = Waiting THEN Rejected(e) ELSE reading[c]
    BY <1>5, <2>1 DEF ReceiveDamaged, SocketEvent, history, Fail, TypeOK, ConnTypeOK
  <2>3. /\ reading'[c] # Waiting /\ reading'[c].kind \notin {"none", "event"}
        /\ reading'[c].kind # "subscribed" => arrived'[c] = <<>>
    BY <1>2, <2>2 DEF Rejected, Waiting
  <2>4. QED
    BY <1>1, <1>2, <1>3, <2>3 DEF OpeningTrail
<1>6. QED
  BY <1>4, <1>5 DEF Socket

(* What comes before the reply, or instead of it.                          *)
LEMMA OpeningMore ==
  ASSUME NEW c \in Conns, OpeningTrail(c), UNCHANGED <<spc, cur, yielded, queue, pump, queueFailure, via, reading, arrived>>,
         InStage(c, {"opening"}) /\ reading[c] = Waiting =>
           /\ active' = c => \E j \in 1..Len(inbox'[c]) : inbox'[c][j].kind \in Damages \cup {"subscribed"}
           /\ \A i \in 1..Len(inbox'[c]) : inbox'[c][i].kind = "event" =>
                \E j \in 1..(i - 1) : inbox'[c][j].kind \in Damages \cup {"subscribed"}
  PROVE  OpeningTrail(c)'
<1>1. InStage(c, {"opening"})' <=> InStage(c, {"opening"})
  BY DEF InStage
<1>2. Came(c)' = Came(c)
  BY DEF Came
<1>3. QED
  BY <1>1, <1>2 DEF OpeningTrail

(* The same, of the frames on their way.                                   *)
LEMMA OpeningFrames ==
  ASSUME NEW c \in Conns, OpeningTrail(c), InStage(c, {"opening"}), reading[c] = Waiting, Longer(inbox[c], inbox'[c])
  PROVE  /\ active = c => \E j \in 1..Len(inbox'[c]) : inbox'[c][j].kind \in Damages \cup {"subscribed"}
         /\ \A i \in 1..Len(inbox'[c]) : inbox'[c][i].kind = "event" =>
              \E j \in 1..(i - 1) : inbox'[c][j].kind \in Damages \cup {"subscribed"}
<1>1. PICK q, p : q = inbox[c] /\ p = inbox'[c]
  OBVIOUS
<1>2. /\ Len(q) \in Nat /\ Len(p) \in Nat /\ Len(q) <= Len(p)
      /\ \A i \in 1..Len(q) : p[i] = q[i] /\ i \in 1..Len(p)
      /\ \A i \in 1..Len(p) : p[i].kind = "event" => i \in 1..Len(q)
  BY <1>1 DEF Longer
<1>3. /\ active = c => \E j \in 1..Len(q) : q[j].kind \in Damages \cup {"subscribed"}
      /\ \A i \in 1..Len(q) : q[i].kind = "event" => \E j \in 1..(i - 1) : q[j].kind \in Damages \cup {"subscribed"}
  BY <1>1 DEF OpeningTrail
<1>4. active = c => \E j \in 1..Len(p) : p[j].kind \in Damages \cup {"subscribed"}
  BY <1>2, <1>3
<1>5. ASSUME NEW i \in 1..Len(p), p[i].kind = "event"
      PROVE  \E j \in 1..(i - 1) : p[j].kind \in Damages \cup {"subscribed"}
  <2>1. i \in 1..Len(q) /\ q[i].kind = "event"
    BY <1>2, <1>5
  <2>2. PICK j \in 1..(i - 1) : q[j].kind \in Damages \cup {"subscribed"}
    BY <1>3, <2>1
  <2>3. j \in 1..Len(q)
    BY <1>2, <2>1
  <2>4. QED
    BY <1>2, <2>2, <2>3
<1>6. QED
  BY <1>1, <1>4, <1>5

(* The service replies before it delivers.                                 *)
LEMMA OpeningService ==
  ASSUME TypeOK, NEW c \in Conns, OpeningTrail(c), Service(c)
  PROVE  OpeningTrail(c)'
<1>1. UNCHANGED <<spc, cur, yielded, queue, pump, queueFailure, via, reading, arrived>>
  BY DEF Service, Accept, Refuse, Deliver, HandleAck, Disconnect, Reset, Backpressure, Drop, NoticeClosed,
    ClientVars, callVars, streamVars, connVars, eventVars, history
<1>2. inbox \in [Conns -> Seq(Frames)] /\ inbox[c] \in Seq(Frames) /\ c # None
  BY ConstantsAssumption DEF TypeOK, SocketTypeOK, Conns
<1> SUFFICES ASSUME InStage(c, {"opening"}), reading[c] = Waiting
             PROVE  /\ active' = c => \E j \in 1..Len(inbox'[c]) : inbox'[c][j].kind \in Damages \cup {"subscribed"}
                    /\ \A i \in 1..Len(inbox'[c]) : inbox'[c][i].kind = "event" =>
                         \E j \in 1..(i - 1) : inbox'[c][j].kind \in Damages \cup {"subscribed"}
  BY <1>1, OpeningMore
<1> DEFINE Fine == /\ active' = c => \E j \in 1..Len(inbox'[c]) : inbox'[c][j].kind \in Damages \cup {"subscribed"}
                   /\ \A i \in 1..Len(inbox'[c]) : inbox'[c][i].kind = "event" =>
                        \E j \in 1..(i - 1) : inbox'[c][j].kind \in Damages \cup {"subscribed"}
<1>3. ASSUME NEW f \in Responses, f.kind # "event", Send(c, f), active' = active PROVE Fine
  <2>1. PICK g \in {f} \cup [kind : Damages \cap Faults] : inbox' = [inbox EXCEPT ![c] = Append(@, g)]
    BY <1>3 DEF Send
  <2>2. g \in Frames /\ g.kind # "event"
    BY <1>3, <2>1, SentTypes, FrameTypes DEF Damages
  <2>3. Longer(inbox[c], inbox'[c])
    BY <1>2, <2>1, <2>2, LongerByOne
  <2>4. QED
    BY <1>3, <2>3, OpeningFrames
<1>4. CASE Accept(c)
  <2>1. PICK g \in {[kind |-> "subscribed"]} \cup [kind : Damages \cap Faults] : inbox' = [inbox EXCEPT ![c] = Append(@, g)]
    BY <1>4 DEF Accept, Send
  <2>2. g \in Frames /\ g.kind # "event" /\ g.kind \in Damages \cup {"subscribed"}
    BY <2>1, SentTypes, FrameTypes DEF Damages
  <2>3. Longer(inbox[c], inbox'[c])
    BY <1>2, <2>1, <2>2, LongerByOne
  <2>4. Len(inbox'[c]) \in 1..Len(inbox'[c]) /\ inbox'[c][Len(inbox'[c])] = g
    BY <1>2, <2>1, <2>2
  <2>5. QED
    BY <2>2, <2>3, <2>4, OpeningFrames
<1>5. CASE Refuse(c)
  BY <1>3, <1>5, SentTypes DEF Refuse
<1>6. ASSUME NEW r \in Rows, Deliver(c, r) PROVE Fine
  <2>1. PICK g \in {EventOf(r)} \cup [kind : Damages \cap Faults] : inbox' = [inbox EXCEPT ![c] = Append(@, g)]
    BY <1>6 DEF Deliver, Send, EventOf
  <2>2. g \in Frames
    BY <2>1, SentTypes, FrameTypes DEF EventOf
  <2>3. PICK q, p : q = inbox[c] /\ p = inbox'[c]
    OBVIOUS
  <2>4. /\ q \in Seq(Frames) /\ p = Append(q, g)
        /\ \E j \in 1..Len(q) : q[j].kind \in Damages \cup {"subscribed"}
        /\ \A i \in 1..Len(q) : q[i].kind = "event" => \E j \in 1..(i - 1) : q[j].kind \in Damages \cup {"subscribed"}
    BY <1>2, <1>6, <2>1, <2>3 DEF Deliver, OpeningTrail
  <2>5. /\ Len(q) \in Nat /\ Len(p) = Len(q) + 1 /\ \A i \in 1..Len(q) : p[i] = q[i] /\ i \in 1..Len(p)
    BY <2>2, <2>4
  <2>6. PICK j \in 1..Len(q) : p[j].kind \in Damages \cup {"subscribed"}
    BY <2>4, <2>5
  <2>7. ASSUME NEW i \in 1..Len(p), p[i].kind = "event"
        PROVE  \E h \in 1..(i - 1) : p[h].kind \in Damages \cup {"subscribed"}
    <3>1. CASE i \in 1..Len(q)
      <4>1. PICK h \in 1..(i - 1) : q[h].kind \in Damages \cup {"subscribed"}
        BY <2>4, <2>5, <2>7, <3>1
      <4>2. h \in 1..Len(q)
        BY <3>1
      <4>3. QED
        BY <2>5, <4>1, <4>2
    <3>2. CASE i = Len(q) + 1
      <4>1. j \in 1..(i - 1)
        BY <2>5, <3>2
      <4>2. QED
        BY <2>6, <4>1
    <3>3. QED
      BY <2>5, <3>1, <3>2
  <2>8. j \in 1..Len(p)
    BY <2>5
  <2>9. QED
    BY <2>3, <2>6, <2>7, <2>8
<1>7. ASSUME NEW k \in Calls, HandleAck(c, k) PROVE Fine
  <2>1. CASE link[c] = "up"
    <3>1. PICK b \in {"acked", "error"} : Send(c, [kind |-> b, call |-> k])
      BY <1>7, <2>1 DEF HandleAck
    <3>2. [kind |-> b, call |-> k] \in Responses /\ [kind |-> b, call |-> k].kind # "event"
      BY SentTypes
    <3>3. QED
      BY <1>3, <1>7, <3>1, <3>2 DEF HandleAck
  <2>2. CASE link[c] # "up"
    BY <1>7, <2>2 DEF HandleAck, OpeningTrail
  <2>3. QED
    BY <2>1, <2>2
<1>8. CASE Disconnect(c) \/ Reset(c) \/ Backpressure(c)
  <2> DEFINE close == [kind |-> "close"]
  <2>1. close \in Frames /\ close.kind # "event" /\ [kind |-> "reset"] \in Frames /\ Refusal \in Frames /\ Refusal.kind # "event"
    BY SentTypes, FrameTypes DEF Frames, Refusal
  <2>2. PICK q : /\ Drop(c, q)
                 /\ q \in {inbox[c], <<[kind |-> "reset"]>>, Append(inbox[c], Refusal)}
    BY <1>8 DEF Disconnect, Reset, Backpressure, Refusal
  <2>3. inbox'[c] = Append(q, close) /\ active' # c
    BY <1>2, <2>2 DEF Drop
  <2>4. CASE q = <<[kind |-> "reset"]>>
    <3>1. q \in Seq(Frames) /\ Range(q) = {[kind |-> "reset"]}
      BY <2>1, <2>4, RangeOne
    <3>2. /\ DOMAIN inbox'[c] = 1..Len(inbox'[c]) /\ \A f \in Range(inbox'[c]) : f.kind # "event"
      BY <2>1, <2>3, <3>1, RangeAdd
    <3>3. QED
      BY <2>3, <3>2 DEF Range
  <2>5. CASE q # <<[kind |-> "reset"]>>
    <3>1. Longer(inbox[c], inbox'[c])
      BY <1>2, <2>1, <2>2, <2>3, <2>5, LongerByOne
    <3>2. QED
      BY <2>3, <3>1, OpeningFrames
  <2>6. QED
    BY <2>4, <2>5
<1>9. CASE NoticeClosed(c)
  BY <1>2, <1>9 DEF NoticeClosed, socketVars, OpeningTrail
<1>10. QED
  BY <1>4, <1>5, <1>6, <1>7, <1>8, <1>9 DEF Service

(* A connection that has a pump is subscribed.                             *)
LEMMA OpeningPump ==
  ASSUME TypeOK, NEW c \in Conns, OpeningTrail(c), Pump(c)
  PROVE  OpeningTrail(c)'
<1>1. ~InStage(c, {"opening"}) /\ UNCHANGED <<spc, cur>>
  BY DEF Pump, OpeningTrail, streamVars
<1>2. QED
  BY <1>1 DEF OpeningTrail, InStage

(* The steps of a stream: it opens one connection, or leaves its opening.  *)
LEMMA OpeningSubscribe ==
  ASSUME TypeOK, Apart, NEW s \in Streams, Subscribe(s), NEW c \in Conns, Target(s, c), Unopened(c), OpeningTrail(c)
  PROVE  OpeningTrail(c)'
<1>1. InStage(c, {"opening"})' => spc'[s] = "opening"
  BY SoleStage
<1>2. spc'[s] = "opening" => OpenConnection(s)
  BY DEF Subscribe, OpenConnection, OpenFails, Subscribed, SubscribeFails, YieldEvent, EventsFail, NextEvent,
    Return, Wake, Raise, TypeOK, StreamTypeOK
<1>3. CASE OpenConnection(s)
  <2>1. PICK n \in Conns : reading' = [reading EXCEPT ![n] = Waiting] /\ cur' = [cur EXCEPT ![s] = n]
    BY <1>3 DEF OpenConnection
  <2>2. n = c /\ spc[s] = "ready"
    BY <1>3, <2>1, SoleStage DEF OpenConnection, TypeOK, StreamTypeOK
  <2>3. UNCHANGED <<yielded, queue, pump, queueFailure, via, arrived, active, inbox>>
    BY <1>3 DEF OpenConnection, history, eventVars, callVars
  <2>4. /\ pump[c] = "none" /\ queueFailure[c] = "none" /\ (\A k \in Calls : via[k] # c) /\ active # c
        /\ inbox[c] = <<>> /\ arrived[c] = <<>> /\ yielded[c] = <<>> /\ queue[c] = <<>>
    BY <2>2, SoleStage DEF Unopened
  <2>5. Came(c)' = <<>>
    <3>1. <<>> \o <<>> = <<>>
      OBVIOUS
    <3>2. QED
      BY <2>3, <2>4, <3>1 DEF Came
  <2>6. reading'[c] = Waiting /\ Waiting.kind = "waiting"
    BY <2>1, <2>2 DEF Waiting, TypeOK, ConnTypeOK
  <2>7. QED
    BY <2>3, <2>4, <2>5, <2>6 DEF OpeningTrail
<1>4. QED
  BY <1>1, <1>2, <1>3 DEF OpeningTrail

(* The connection that ack() writes on is past its opening.                *)
LEMMA OpeningAck ==
  ASSUME TypeOK, Apart, NamedIsHeld, NEW j \in Calls, Ack(j), NEW d \in Conns, OpeningTrail(d)
  PROVE  OpeningTrail(d)'
<1>1. Same(d) /\ conn' = conn /\ UNCHANGED <<spc, cur, outcome>>
  BY SameInAck
<1>2. InStage(d, {"opening"})' <=> InStage(d, {"opening"})
  BY <1>1 DEF InStage
<1>3. InStage(d, {"opening"}) => conn # d
  BY ConstantsAssumption DEF InStage, NamedIsHeld, Holds, Apart, Conns
<1>4. InStage(d, {"opening"}) => \A k \in Calls : via'[k] # d
  <2>1. CASE via' = via
    BY <2>1 DEF OpeningTrail
  <2>2. CASE Write(j)
    BY <1>3, <2>2 DEF Write, OpeningTrail, TypeOK, CallTypeOK
  <2>3. QED
    BY <2>1, <2>2 DEF Ack, AckBegin, AckReturn, AckPerform, callVars
<1>5. Came(d)' = Came(d)
  BY <1>1 DEF Same, Came
<1>6. QED
  BY <1>1, <1>2, <1>4, <1>5 DEF OpeningTrail, Same

-----------------------------------------------------------------------------
(* A connection that is over stays over, and no row arrives on it.         *)
LEMMA OverStays ==
  ASSUME TypeOK, Apart, NEW c \in Conns, Unopened(c), Over(c), link[c] # "new",
         \/ Socket(c) \/ Pump(c) \/ Service(c)
         \/ \E s \in Streams : Subscribe(s) /\ Target(s, c)
  PROVE  Over(c)' /\ arrived'[c] = arrived[c]
<1> USE DEF streamVars, socketVars, connVars, serviceVars, history
<1>1. ASSUME UNCHANGED <<active, asked, arrived>>, failure[c] # "none" => failure'[c] # "none",
             link'[c] = "up" => link[c] = "up", \A f \in Range(inbox'[c]) : f \in Range(inbox[c]) \/ f.kind # "event"
      PROVE  Over(c)' /\ arrived'[c] = arrived[c]
  BY <1>1 DEF Over, Hushed, NoMore
<1>2. CASE Socket(c)
  <2>1. inbox[c] # <<>> /\ UNCHANGED <<active, asked>>
    BY <1>2 DEF Socket, ReceiveResponse, ReceiveDamaged, SocketEvent
  <2>2. failure[c] # "none" => failure'[c] # "none"
    BY <1>2 DEF Socket, ReceiveResponse, ReceiveDamaged, SocketEvent, Fail, TypeOK, ConnTypeOK
  <2>3. arrived' = arrived
    <3>1. CASE ReceiveResponse(c)
      <4>1. Head(inbox[c]) \in Range(inbox[c])
        BY <2>1, ConnFields, RangeTake
      <4>2. QED
        BY <3>1, <4>1 DEF ReceiveResponse, Over, Hushed
    <3>2. CASE ReceiveDamaged(c) \/ SocketEvent(c)
      BY <3>2 DEF ReceiveDamaged, SocketEvent
    <3>3. QED
      BY <1>2, <3>1, <3>2 DEF Socket
  <2>4. /\ link'[c] = "up" => link[c] = "up"
        /\ \A f \in Range(inbox'[c]) : f \in Range(inbox[c]) \/ f.kind # "event"
    <3>1. CASE Destroy(c)
      <4>1. \/ inbox'[c] = inbox[c] /\ link'[c] = link[c]
            \/ inbox'[c] = <<[kind |-> "close"]>> /\ link'[c] = "destroyed"
        BY <3>1 DEF Destroy, TypeOK, SocketTypeOK
      <4>2. \A f \in Range(<<[kind |-> "close"]>>) : f.kind # "event"
        BY RangeOne
      <4>3. QED
        BY <4>1, <4>2
    <3>2. CASE Unhandled(c) /\ (link' = link \/ link' = [link EXCEPT ![c] = "closed"])
      BY <2>1, <3>2, RangeUnhandled DEF TypeOK, SocketTypeOK
    <3>3. QED
      BY <1>2, <3>1, <3>2 DEF Socket, ReceiveResponse, ReceiveDamaged, SocketEvent
  <2>5. QED
    BY <1>1, <2>1, <2>2, <2>3, <2>4
<1>3. CASE Pump(c)
  BY <1>1, <1>3 DEF Pump
<1>4. CASE Service(c)
  <2>1. UNCHANGED <<failure, arrived, responses, reading>>
    BY <1>4 DEF Service, Accept, Refuse, Deliver, HandleAck, Disconnect, Reset, Backpressure, Drop, NoticeClosed, ClientVars
  <2>2. CASE failure[c] # "none"
    BY <2>1, <2>2 DEF Over
  <2>3. CASE Hushed(c)
    <3>1. ~(Accept(c) \/ Refuse(c) \/ \E r \in Rows : Deliver(c, r))
      BY <2>3 DEF Accept, Refuse, Deliver, Hushed, NoMore
    <3>2. ASSUME NEW k \in Calls, HandleAck(c, k) PROVE Over(c)' /\ arrived'[c] = arrived[c]
      <4>1. CASE link[c] = "up"
        <5>1. PICK b \in {"acked", "error"} : Send(c, [kind |-> b, call |-> k])
          BY <3>2, <4>1 DEF HandleAck
        <5>2. PICK g \in {[kind |-> b, call |-> k]} \cup [kind : Damages \cap Faults] : inbox' = [inbox EXCEPT ![c] = Append(@, g)]
          BY <5>1 DEF Send
        <5>3. g \in Frames /\ g.kind # "event"
          BY <5>2, SentTypes, FrameTypes DEF Damages
        <5>4. inbox'[c] = Append(inbox[c], g) /\ Range(Append(inbox[c], g)) = Range(inbox[c]) \cup {g}
          BY <5>2, <5>3, ConnFields, RangeAdd DEF TypeOK, SocketTypeOK
        <5>5. QED
          BY <1>1, <2>1, <3>2, <5>3, <5>4 DEF HandleAck
      <4>2. CASE link[c] # "up"
        BY <1>1, <2>1, <3>2, <4>2 DEF HandleAck
      <4>3. QED
        BY <4>1, <4>2
    <3>3. CASE Disconnect(c) \/ Reset(c) \/ Backpressure(c)
      <4>1. link'[c] = "down"
        BY <3>3 DEF Disconnect, Reset, Backpressure, Drop, TypeOK, SocketTypeOK
      <4>2. \A g \in Range(inbox'[c]) : g \in FramesOf(c)'
        BY DEF FramesOf
      <4>3. \A g \in Range(inbox'[c]) : g.kind # "event"
        <5> DEFINE close == [kind |-> "close"]
        <5>1. close \in Frames /\ [kind |-> "reset"] \in Frames /\ Refusal \in Frames /\ Refusal.kind # "event"
          BY SentTypes, FrameTypes DEF Frames, Refusal
        <5>2. PICK q : Drop(c, q) /\ q \in {inbox[c], <<[kind |-> "reset"]>>, Append(inbox[c], Refusal)}
          BY <3>3 DEF Disconnect, Reset, Backpressure, Refusal
        <5>3. inbox'[c] = Append(q, close)
          BY <5>2 DEF Drop, TypeOK, SocketTypeOK
        <5>4. Range(<<[kind |-> "reset"]>>) = {[kind |-> "reset"]} /\ Range(Append(inbox[c], Refusal)) = Range(inbox[c]) \cup {Refusal}
          BY <5>1, ConnFields, RangeOne, RangeAdd
        <5>5. q \in Seq(Frames) /\ \A g \in Range(q) : g.kind # "event"
          <6>1. inbox[c] \in Seq(Frames) /\ \A g \in Range(inbox[c]) : g.kind # "event"
            BY <2>3, ConnFields DEF Hushed
          <6>2. CASE q = inbox[c]
            BY <6>1, <6>2
          <6>3. CASE q = <<[kind |-> "reset"]>>
            <7>1. q \in Seq(Frames)
              BY <5>1, <6>3
            <7>2. QED
              BY <5>4, <6>3, <7>1
          <6>4. CASE q = Append(inbox[c], Refusal)
            <7>1. q \in Seq(Frames)
              BY <5>1, <6>1, <6>4
            <7>2. QED
              BY <5>1, <5>4, <6>1, <6>4, <7>1
          <6>5. QED
            BY <5>2, <6>2, <6>3, <6>4
        <5>6. Range(Append(q, close)) = Range(q) \cup {close}
          BY <5>1, <5>5, RangeAdd
        <5>7. QED
          BY <5>3, <5>5, <5>6
      <4>4. QED
        BY <2>1, <4>1, <4>3 DEF Over, Hushed, NoMore
    <3>4. CASE NoticeClosed(c)
      BY <2>1, <2>3, <3>4 DEF NoticeClosed, Over, Hushed, NoMore
    <3>5. QED
      BY <1>4, <3>1, <3>2, <3>3, <3>4 DEF Service
  <2>4. QED
    BY <2>2, <2>3 DEF Over
<1>5. ASSUME NEW s \in Streams, Subscribe(s), Target(s, c) PROVE Over(c)' /\ arrived'[c] = arrived[c]
  <2>1. spc[s] # "ready"
    BY <1>5, SoleStage
  <2>2. UNCHANGED <<active, asked, arrived, failure>>
    BY <1>5, <2>1 DEF Subscribe, OpenConnection, OpenFails, Subscribed, SubscribeFails, YieldEvent, EventsFail, NextEvent,
      Return, Wake
  <2>3. CASE UNCHANGED <<link, inbox>>
    BY <1>1, <2>2, <2>3
  <2>4. CASE Finally(c) \/ (\E e : Raise(s, c, e))
    <3>1. \A f \in Range(<<[kind |-> "close"]>>) : f.kind # "event"
      BY RangeOne
    <3>2. QED
      BY <1>1, <1>5, <2>2, <2>4, <3>1, RaiseLeaves
  <2>5. QED
    BY <1>5, <2>1, <2>3, <2>4 DEF Subscribe, OpenConnection, OpenFails, Subscribed, SubscribeFails, YieldEvent, EventsFail,
      NextEvent, Return, Wake, Target, OutOfEvents
<1>6. QED
  BY <1>2, <1>3, <1>4, <1>5

(* Once the queue has failed no event comes behind those that came.        *)
LEMMA CameStays ==
  ASSUME TypeOK, NEW c \in Conns, queueFailure[c] # "none",
         \/ Socket(c) \/ Pump(c) \/ Service(c)
         \/ \E s \in Streams : Subscribe(s) /\ Target(s, c)
  PROVE  Came(c)' = Came(c)
<1> USE DEF eventVars, history
<1>1. CASE Socket(c) \/ Service(c)
  BY <1>1 DEF Socket, ReceiveResponse, ReceiveDamaged, SocketEvent, Service, Accept, Refuse, Deliver, HandleAck,
    Disconnect, Reset, Backpressure, Drop, NoticeClosed, ClientVars, Came
<1>2. CASE Pump(c)
  BY <1>2 DEF Pump, RouteAnswer, RouteEvent, RouteUnclaimed, PumpFails, Push, Came
<1>3. ASSUME NEW s \in Streams, Subscribe(s), Target(s, c) PROVE Came(c)' = Came(c)
  <2>1. CASE YieldEvent(s)
    <3>1. /\ queue[c] # <<>> /\ queue'[c] = Tail(queue[c]) /\ yielded'[c] = Append(yielded[c], Head(queue[c]))
      BY <1>3, <2>1 DEF YieldEvent, Target, TypeOK, EventTypeOK, ServiceTypeOK
    <3>2. queue[c] \in Seq(Rows) /\ yielded[c] \in Seq(Rows)
      BY ConnFields
    <3>3. QED
      BY <3>1, <3>2, YieldJoins DEF Came
  <2>2. CASE ~YieldEvent(s)
    BY <1>3, <2>2 DEF Subscribe, OpenConnection, OpenFails, Subscribed, SubscribeFails, EventsFail, NextEvent,
      Return, Wake, Came
  <2>3. QED
    BY <2>1, <2>2
<1>4. QED
  BY <1>1, <1>2, <1>3

(* The pump fails the queue after the rows: all that arrived has come.     *)
LEMMA FailedPump ==
  ASSUME TypeOK, NEW c \in Conns, SentOrder(c), NoGap(c), AnswerTrail(c), Pump(c), Served(c), queueFailure[c] = "none",
         queueFailure'[c] # "none"
  PROVE  Handed(c)' /\ Over(c)'
<1> USE DEF streamVars, socketVars, connVars, serviceVars, history
<1>1. PumpFails(c) /\ UNCHANGED <<failure, link, inbox, active, asked, arrived, yielded, queue>> /\ pump[c] = "running"
  BY DEF Pump, RouteAnswer, RouteEvent, RouteUnclaimed, PumpFails, eventVars
<1>2. (Handed(c) => Handed(c)') /\ (Over(c) => Over(c)')
  BY <1>1 DEF Handed, Came, Over, Hushed, NoMore
<1>3. reading[c] \in Readings /\ Kept(c)
  BY ConnFields DEF NoGap
<1>4. CASE reading[c].kind = "rejected"
  BY <1>2, <1>4 DEF NoGap, SentOrder, Over
<1>5. CASE reading[c].kind = "error"
  <2>1. reading[c].call \notin Calls
    <3>1. SUFFICES ASSUME reading[c].call \in Calls PROVE FALSE
      OBVIOUS
    <3>2. Answers(reading[c], reading[c].call) /\ reading[c] \in FramesOf(c)
      BY <1>5 DEF Answers, FramesOf
    <3>3. reading[c].call \in pending[c]
      BY <1>1, <3>1, <3>2 DEF AnswerTrail
    <3>4. QED
      BY <1>1, <1>5, <3>3 DEF PumpFails, Answered
  <2>2. reading[c] = Refusal
    <3>1. reading[c].kind # "acked"
      BY <1>5
    <3>2. QED
      BY <1>3, <1>5, <2>1, <3>1, Kinds
  <2>3. Over(c)
    BY <2>2 DEF SentOrder, Over
  <2>4. \A e \in InHand(c) : e.kind # "event"
    BY <1>5, <2>2 DEF SentOrder, Line, MayPrecede, InHand
  <2>5. QED
    BY <1>2, <1>3, <2>3, <2>4, AllHanded
<1>6. QED
  BY <1>1, <1>4, <1>5 DEF PumpFails

(* A failed queue has all that arrived.                                    *)
LEMMA FailedStep ==
  ASSUME TypeOK, Apart, NEW c \in Conns, SentOrder(c), NoGap(c), AnswerTrail(c), OpeningTrail(c), Unopened(c), FailedTrail(c),
         \/ Socket(c) \/ Pump(c) \/ Service(c)
         \/ \E s \in Streams : Subscribe(s) /\ Target(s, c)
  PROVE  FailedTrail(c)'
<1> USE DEF streamVars, eventVars
<1>1. SUFFICES ASSUME Served(c)', queueFailure'[c] # "none" PROVE Handed(c)' /\ Over(c)'
  BY DEF FailedTrail
<1>2. CASE Served(c) /\ queueFailure[c] # "none"
  <2>1. link[c] # "new"
    BY <1>2 DEF Served, InStage, Unopened
  <2>2. Handed(c) /\ Over(c)
    BY <1>2 DEF FailedTrail
  <2>3. Over(c)' /\ arrived'[c] = arrived[c]
    BY <2>1, <2>2, OverStays
  <2>4. Came(c)' = Came(c)
    BY <1>2, CameStays
  <2>5. QED
    BY <2>2, <2>3, <2>4 DEF Handed
<1>3. CASE Pump(c)
  <2>1. Served(c)
    BY <1>1, <1>3 DEF Pump, Served, InStage
  <2>2. QED
    BY <1>1, <1>2, <1>3, <2>1, FailedPump
<1>4. CASE Socket(c) \/ Service(c)
  <2>1. UNCHANGED <<spc, cur, queueFailure>>
    BY <1>4 DEF Socket, ReceiveResponse, ReceiveDamaged, SocketEvent, Service, Accept, Refuse, Deliver, HandleAck,
      Disconnect, Reset, Backpressure, Drop, NoticeClosed, ClientVars
  <2>2. QED
    BY <1>1, <1>2, <2>1 DEF Served, InStage
<1>5. ASSUME NEW s \in Streams, Subscribe(s), Target(s, c) PROVE Handed(c)' /\ Over(c)'
  <2>1. spc'[s] \in {"next", "yielded"}
    BY <1>1, <1>5, SoleStage DEF Served
  <2>2. spc \in [Streams -> {"ready", "opening", "next", "yielded", "backoff", "ended"}]
    BY DEF TypeOK, StreamTypeOK
  <2>3. Subscribed(s) \/ YieldEvent(s) \/ NextEvent(s)
    BY <1>5, <2>1, <2>2 DEF Subscribe, OpenConnection, OpenFails, SubscribeFails, EventsFail, Return, Wake, Raise
  <2>4. queueFailure' = queueFailure /\ spc[s] \in {"opening", "next", "yielded"}
    BY <2>3 DEF Subscribed, YieldEvent, NextEvent
  <2>5. \A S : InStage(c, S) <=> spc[s] \in S
    BY <1>5, <2>4, SoleStage
  <2>6. CASE Subscribed(s)
    <3>1. InStage(c, {"opening"})
      BY <2>5, <2>6 DEF Subscribed
    <3>2. QED
      BY <1>1, <2>4, <3>1 DEF OpeningTrail
  <2>7. CASE YieldEvent(s) \/ NextEvent(s)
    <3>1. Served(c)
      BY <2>5, <2>7 DEF YieldEvent, NextEvent, Served
    <3>2. QED
      BY <1>1, <1>2, <2>4, <3>1
  <2>8. QED
    BY <2>3, <2>6, <2>7
<1>6. QED
  BY <1>3, <1>4, <1>5

(* An ack() changes nothing of it.                                         *)
LEMMA FailedAck ==
  ASSUME TypeOK, NEW j \in Calls, Ack(j), NEW d \in Conns, FailedTrail(d)
  PROVE  FailedTrail(d)'
<1>1. Same(d) /\ UNCHANGED <<spc, cur, outcome>>
  BY SameInAck
<1>2. QED
  BY <1>1 DEF Same, FailedTrail, Served, InStage, Handed, Came, Over, Hushed, NoMore

(* What a stream that was interrupted has left, stays as it is.            *)
LEMMA EndSame ==
  ASSUME TypeOK, NEW s \in Streams, EndTrail(s), spc'[s] = spc[s], outcome'[s] = outcome[s], cur'[s] = cur[s],
         spc[s] # "ready" => Same(cur[s])
  PROVE  EndTrail(s)'
<1>1. SUFFICES ASSUME spc[s] \in {"backoff", "ended"}, outcome[s] # "closed"
               PROVE  IsPrefix(arrived[cur[s]], yielded[cur[s]])' /\ Over(cur[s])'
  BY DEF EndTrail
<1>2. PICK c : c = cur[s]
  OBVIOUS
<1>3. IsPrefix(arrived[c], yielded[c]) /\ Over(c) /\ Same(c)
  BY <1>1, <1>2 DEF EndTrail
<1>4. IsPrefix(arrived[c], yielded[c])' /\ Over(c)'
  BY <1>3 DEF Same, Over, Hushed, NoMore
<1>5. QED
  BY <1>2, <1>4 DEF Over, Hushed, NoMore

(* What a connection does to a stream that was interrupted.                *)
LEMMA EndConns ==
  ASSUME TypeOK, Apart, NEW s \in Streams, EndTrail(s), NEW c \in Conns, Unopened(c), Socket(c) \/ Pump(c) \/ Service(c)
  PROVE  EndTrail(s)'
<1> USE DEF streamVars, history
<1>1. UNCHANGED <<spc, cur, outcome, yielded>>
  BY DEF Socket, ReceiveResponse, ReceiveDamaged, SocketEvent, Pump, Service, Accept, Refuse, Deliver, HandleAck,
    Disconnect, Reset, Backpressure, Drop, NoticeClosed, ClientVars
<1>2. CASE cur[s] # c
  <2>1. spc[s] # "ready" => Same(cur[s])
    BY <1>2, SameElsewhere DEF TypeOK, StreamTypeOK
  <2>2. QED
    BY <1>1, <2>1, EndSame
<1>3. CASE cur[s] = c
  <2>1. SUFFICES ASSUME spc[s] \in {"backoff", "ended"}, outcome[s] # "closed"
                 PROVE  IsPrefix(arrived'[c], yielded'[c]) /\ Over(c)'
    BY <1>1, <1>3 DEF EndTrail, Over, Hushed, NoMore
  <2>2. IsPrefix(arrived[c], yielded[c]) /\ Over(c)
    BY <1>3, <2>1 DEF EndTrail
  <2>3. link[c] # "new"
    BY <1>3 DEF Unopened
  <2>4. Over(c)' /\ arrived'[c] = arrived[c]
    BY <2>2, <2>3, OverStays
  <2>5. QED
    BY <1>1, <2>2, <2>4
<1>4. QED
  BY <1>2, <1>3

(* A stream is interrupted when its connection is over and the rows that   *)
(* arrived have been yielded.                                              *)
LEMMA EndSubscribe ==
  ASSUME TypeOK, Apart, NEW s \in Streams, Subscribe(s), NEW c \in Conns, Target(s, c), ConnTrail(c), SentOrder(c), NoGap(c),
         AnswerTrail(c), OpeningTrail(c), Unopened(c), FailedTrail(c), EndTrail(s)
  PROVE  EndTrail(s)'
<1> USE DEF streamVars, history, connVars
<1>1. cur'[s] = c
  BY SoleStage
<1>2. SUFFICES ASSUME spc'[s] \in {"backoff", "ended"}, outcome'[s] # "closed"
               PROVE  IsPrefix(arrived'[c], yielded'[c]) /\ Over(c)'
  BY <1>1 DEF EndTrail, Over, Hushed, NoMore
<1>3. {arrived[c], yielded[c]} \subseteq Seq(Rows) /\ IsPrefix(<<>>, yielded[c])
  <2>1. {arrived[c], yielded[c]} \subseteq Seq(Rows)
    BY ConnFields
  <2>2. <<>> \in Seq(Rows) /\ Len(<<>>) = 0 /\ Len(yielded[c]) >= 0
    BY <2>1
  <2>3. IsPrefix(<<>>, yielded[c]) <=> Len(<<>>) <= Len(yielded[c]) /\ \A i \in 1..Len(<<>>) : <<>>[i] = yielded[c][i]
    BY <2>1, <2>2, PrefixElements
  <2>4. QED
    BY <2>1, <2>2, <2>3
<1>4. EventsFail(s) \/ SubscribeFails(s) \/ OpenFails(s)
  BY <1>2 DEF Subscribe, OpenConnection, Subscribed, YieldEvent, NextEvent, Return, Wake, TypeOK, StreamTypeOK
<1>5. arrived' = arrived /\ yielded' = yielded
  BY <1>4 DEF EventsFail, SubscribeFails, OpenFails
<1>6. CASE OpenFails(s)
  <2>1. spc[s] = "ready" /\ link[c] = "new"
    BY <1>6, SoleStage DEF OpenFails
  <2>2. arrived[c] = <<>>
    BY <2>1 DEF Unopened
  <2>3. failure'[c] = "os"
    BY <1>1, <1>6 DEF OpenFails, TypeOK, StreamTypeOK, ConnTypeOK
  <2>4. QED
    BY <1>3, <1>5, <2>2, <2>3 DEF Over
<1>7. ASSUME EventsFail(s) \/ SubscribeFails(s), Over(c), IsPrefix(arrived[c], yielded[c])
      PROVE  IsPrefix(arrived'[c], yielded'[c]) /\ Over(c)'
  <2>1. link[c] # "new"
    BY <1>7, SoleStage DEF EventsFail, SubscribeFails
  <2>2. Over(c)'
    BY <1>7, <2>1, OverStays
  <2>3. QED
    BY <1>5, <1>7, <2>2
<1>8. CASE EventsFail(s)
  <2>1. spc[s] = "next" /\ cur[s] = c /\ queue[c] = <<>> /\ queueFailure[c] # "none"
    BY <1>8, SoleStage DEF EventsFail, OutOfEvents
  <2>2. Handed(c) /\ Over(c)
    BY <2>1 DEF FailedTrail, Served, InStage
  <2>3. Came(c) = yielded[c]
    BY <1>3, <2>1 DEF Came
  <2>4. IsPrefix(arrived[c], yielded[c])
    <3>1. \A i \in 1..Len(arrived[c]) : i <= Len(yielded[c]) /\ yielded[c][i] = arrived[c][i]
      BY <2>2, <2>3 DEF Handed
    <3>2. Len(arrived[c]) \in Nat /\ Len(yielded[c]) \in Nat
      BY <1>3
    <3>3. Len(arrived[c]) <= Len(yielded[c])
      BY <3>1, <3>2
    <3>4. QED
      BY <1>3, <3>1, <3>3, PrefixElements
  <2>5. QED
    BY <1>7, <1>8, <2>2, <2>4
<1>9. CASE SubscribeFails(s)
  <2>1. spc[s] = "opening" /\ cur[s] = c /\ Read(c) /\ reading[c].kind # "subscribed"
    BY <1>9, SoleStage DEF SubscribeFails
  <2>2. InStage(c, {"opening"})
    BY <2>1 DEF InStage
  <2>3. arrived[c] = <<>> /\ reading[c].kind \notin {"none", "event"} /\ \A k \in Calls : via[k] # c
    BY <2>1, <2>2 DEF OpeningTrail
  <2>4. reading[c].kind \in {"acked", "error", "rejected"}
    BY <2>1, <2>3, ConnFields, Kinds DEF Read
  <2>5. Over(c)
    <3>1. CASE reading[c].kind = "rejected"
      BY <3>1 DEF SentOrder, Over
    <3>2. CASE reading[c].kind \in {"acked", "error"}
      BY <2>3, <3>2, OpeningReply DEF SentOrder, Over
    <3>3. QED
      BY <2>4, <3>1, <3>2
  <2>6. QED
    BY <1>3, <1>7, <1>9, <2>3, <2>5
<1>10. QED
  BY <1>4, <1>6, <1>8, <1>9

(* The other streams have nothing to do with it.                           *)
LEMMA EndOthers ==
  ASSUME TypeOK, Apart, NEW t \in Streams, Subscribe(t), NEW c \in Conns, Target(t, c), Unopened(c),
         NEW s \in Streams, s # t, EndTrail(s)
  PROVE  EndTrail(s)'
<1> USE DEF streamVars
<1>1. spc'[s] = spc[s] /\ outcome'[s] = outcome[s] /\ cur'[s] = cur[s]
  BY DEF Subscribe, OpenConnection, OpenFails, Subscribed, SubscribeFails, YieldEvent, EventsFail, NextEvent,
    Return, Wake, Raise, TypeOK, StreamTypeOK
<1>2. cur'[s] # c
  BY SoleStage
<1>3. spc[s] # "ready" => Same(cur[s])
  BY <1>1, <1>2, SameInSubscribe DEF TypeOK, StreamTypeOK
<1>4. QED
  BY <1>1, <1>3, EndSame

(* An ack() changes nothing of it.                                         *)
LEMMA EndAck ==
  ASSUME TypeOK, NEW j \in Calls, Ack(j), NEW s \in Streams, EndTrail(s)
  PROVE  EndTrail(s)'
<1>1. UNCHANGED <<spc, cur, outcome>>
  BY DEF Ack, AckBegin, AckReturn, AckPerform, streamVars
<1>2. spc[s] # "ready" => Same(cur[s])
  BY SameInAck DEF TypeOK, StreamTypeOK
<1>3. QED
  BY <1>1, <1>2, EndSame

-----------------------------------------------------------------------------
(* Every stream has a connection of its own, and the service has answered  *)
(* the subscriber it serves.                                               *)
LEMMA ApartStep ==
  ASSUME TypeOK, Apart, NEW c \in Conns, Unopened(c),
         \/ Socket(c) \/ Pump(c) \/ Service(c)
         \/ \E s \in Streams : Subscribe(s) /\ Target(s, c)
  PROVE  Apart'
<1> USE DEF streamVars, serviceVars
<1>1. None \notin asked
  <2>1. None \notin Nat
    BY ConstantsAssumption
  <2>2. Conns \subseteq Nat
    BY ConstantsAssumption DEF Conns
  <2>3. asked \subseteq Conns
    BY DEF TypeOK, ServiceTypeOK
  <2>4. QED
    BY <2>1, <2>2, <2>3
<1>2. CASE Socket(c) \/ Pump(c)
  BY <1>2 DEF Socket, ReceiveResponse, ReceiveDamaged, SocketEvent, Pump, Apart
<1>3. CASE Service(c)
  <2>1. cur' = cur
    BY <1>3 DEF Service, Accept, Refuse, Deliver, HandleAck, Disconnect, Reset, Backpressure, Drop, NoticeClosed, ClientVars
  <2>2. \/ active' \in {active, None} /\ asked' \subseteq asked
        \/ active' = c /\ asked' = asked \ {c}
    BY <1>3 DEF Service, Accept, Refuse, Deliver, HandleAck, Disconnect, Reset, Backpressure, Drop, NoticeClosed, ClientVars
  <2>3. QED
    BY <1>1, <2>1, <2>2 DEF Apart
<1>4. ASSUME NEW s \in Streams, Subscribe(s), Target(s, c) PROVE Apart'
  <2>1. cur'[s] = c /\ \A t \in Streams : t # s => cur'[t] # c
    BY <1>4, SoleStage
  <2>2. \A t \in Streams : t # s => cur'[t] = cur[t]
    BY <1>4 DEF Subscribe, OpenConnection, OpenFails, Subscribed, SubscribeFails, YieldEvent, EventsFail, NextEvent,
      Return, Wake, TypeOK, StreamTypeOK
  <2>3. \A t, u \in Streams : cur'[t] = cur'[u] /\ cur'[t] # None => t = u
    BY <2>1, <2>2 DEF Apart
  <2>4. active' \notin asked'
    <3>1. CASE OpenConnection(s)
      <4>1. active # c
        BY <1>4, <3>1, SoleStage DEF Unopened, OpenConnection
      <4>2. asked' = asked \cup {c} /\ active' = active
        BY <2>1, <3>1 DEF OpenConnection, TypeOK, StreamTypeOK
      <4>3. QED
        BY <4>1, <4>2 DEF Apart
    <3>2. CASE ~OpenConnection(s)
      BY <1>4, <3>2 DEF Subscribe, OpenFails, Subscribed, SubscribeFails, YieldEvent, EventsFail, NextEvent,
        Return, Wake, Apart
    <3>3. QED
      BY <3>1, <3>2
  <2>5. QED
    BY <2>3, <2>4 DEF Apart
<1>5. QED
  BY <1>2, <1>3, <1>4

(* What one connection does keeps what is known of it.                     *)
LEMMA KnownActs ==
  ASSUME TypeOK, AckTrail, OrderTrail, NEW c \in Conns,
         \/ Socket(c) \/ Pump(c) \/ Service(c)
         \/ \E s \in Streams : Subscribe(s) /\ Target(s, c)
  PROVE  Known(c)'
<1>1. /\ Apart /\ SentOrder(c) /\ NoGap(c) /\ AnswerTrail(c) /\ OpeningTrail(c) /\ Unopened(c) /\ FailedTrail(c)
      /\ ConnTrail(c)
  BY DEF OrderTrail, AckTrail
<1>2. Unopened(c)' /\ FailedTrail(c)'
  BY <1>1, NotNew, FailedStep
<1>3. CASE Socket(c)
  BY <1>1, <1>2, <1>3, GapSocket, AnswerSocket, OpeningSocket DEF Known
<1>4. CASE Pump(c)
  BY <1>1, <1>2, <1>4, GapPump, AnswerPump, OpeningPump DEF Known
<1>5. CASE Service(c)
  BY <1>1, <1>2, <1>5, GapService, AnswerService, OpeningService DEF Known
<1>6. CASE \E s \in Streams : Subscribe(s) /\ Target(s, c)
  BY <1>1, <1>2, <1>6, GapSubscribe, AnswerSubscribe, OpeningSubscribe DEF Known
<1>7. QED
  BY <1>3, <1>4, <1>5, <1>6

(* OrderTrail is kept by whatever happens on a connection ...              *)
LEMMA TrailActs ==
  ASSUME TypeOK, AckTrail, OrderTrail, Next, NEW c \in Conns,
         \/ Socket(c) \/ Pump(c) \/ Service(c)
         \/ \E s \in Streams : Subscribe(s) /\ Target(s, c)
  PROVE  OrderTrail'
<1>1. \A d \in Conns : SentOrder(d)'
  BY OrderStep
<1>2. ASSUME NEW d \in Conns PROVE Known(d)'
  <2>1. CASE d = c
    BY <2>1, KnownActs
  <2>2. CASE d # c
    BY <2>2, AloofElsewhere, KnownAloof DEF Known, OrderTrail
  <2>3. QED
    BY <2>1, <2>2
<1>3. Apart'
  BY ApartStep DEF OrderTrail
<1>4. ASSUME NEW s \in Streams PROVE EndTrail(s)'
  <2>1. /\ Apart /\ SentOrder(c) /\ NoGap(c) /\ AnswerTrail(c) /\ OpeningTrail(c) /\ Unopened(c) /\ FailedTrail(c)
        /\ ConnTrail(c) /\ EndTrail(s)
    BY DEF OrderTrail, AckTrail
  <2>2. CASE Socket(c) \/ Pump(c) \/ Service(c)
    BY <2>1, <2>2, EndConns
  <2>3. ASSUME NEW t \in Streams, Subscribe(t), Target(t, c) PROVE EndTrail(s)'
    BY <2>1, <2>3, EndSubscribe, EndOthers
  <2>4. QED
    BY <2>2, <2>3
<1>5. QED
  BY <1>1, <1>2, <1>3, <1>4 DEF OrderTrail, Known

(* ... and by an ack().                                                    *)
LEMMA TrailAcks ==
  ASSUME TypeOK, NamedIsHeld, OrderTrail, Next, NEW j \in Calls, Ack(j)
  PROVE  OrderTrail'
<1>1. \A d \in Conns : SentOrder(d)'
  BY OrderStep
<1>2. ASSUME NEW d \in Conns
      PROVE  NoGap(d)' /\ AnswerTrail(d)' /\ OpeningTrail(d)' /\ Unopened(d)' /\ FailedTrail(d)'
  <2>1. /\ Apart /\ NoGap(d) /\ AnswerTrail(d) /\ OpeningTrail(d) /\ Unopened(d) /\ FailedTrail(d)
    BY DEF OrderTrail
  <2>2. NoGap(d)'
    BY <2>1, SameInAck, GapSame
  <2>3. QED
    BY <2>1, <2>2, AnswerAck, OpeningAck, UnopenedAck, FailedAck
<1>3. Apart'
  BY DEF OrderTrail, Apart, Ack, AckBegin, AckReturn, AckPerform, Write, streamVars, serviceVars
<1>4. \A s \in Streams : EndTrail(s)'
  BY EndAck DEF OrderTrail
<1>5. QED
  BY <1>1, <1>2, <1>3, <1>4 DEF OrderTrail

(* OrderTrail holds at the start ...                                       *)
LEMMA OrderTrailInit == Init => OrderTrail
<1> SUFFICES ASSUME Init PROVE OrderTrail
  OBVIOUS
<1>1. Range(<<>>) = {}
  BY DEF Range
<1>2. Apart
  BY DEF Init, Apart
<1>3. \A s \in Streams : EndTrail(s)
  BY DEF Init, EndTrail
<1>4. ASSUME NEW c \in Conns
      PROVE  SentOrder(c) /\ NoGap(c) /\ AnswerTrail(c) /\ OpeningTrail(c) /\ Unopened(c) /\ FailedTrail(c)
  <2>1. /\ inbox[c] = <<>> /\ responses[c] = <<>> /\ reading[c] = NotReading /\ sent[c] = <<>> /\ arrived[c] = <<>>
        /\ queue[c] = <<>> /\ yielded[c] = <<>> /\ link[c] = "new" /\ failure[c] = "none" /\ queueFailure[c] = "none"
        /\ wire[c] = {} /\ pump[c] = "none" /\ asked = {} /\ active = None /\ conn = None
        /\ \A k \in Calls : via[k] = None
        /\ \A s \in Streams : spc[s] = "ready" /\ cur[s] = None
    BY DEF Init
  <2>2. c # None
    BY ConstantsAssumption DEF Conns
  <2>3. Came(c) = <<>> /\ Len(<<>>) = 0 /\ FramesOf(c) = {NotReading} /\ InHand(c) = {NotReading}
    BY <1>1, <2>1 DEF Came, FramesOf, InHand
  <2>4. Dull(NotReading) /\ NotReading # Refusal /\ NotReading # Waiting /\ NotReading.kind = "none"
    BY DEF Dull, NotReading, Refusal, Waiting
  <2>5. SentOrder(c)
    <3>1. Line(c)
      BY <1>1, <2>1, ChainNone DEF Line
    <3>2. Ascending(c, Came(c))
      BY <2>3 DEF Ascending
    <3>3. QED
      BY <1>1, <2>1, <2>3, <2>4, <3>1, <3>2 DEF SentOrder
  <2>6. NoGap(c)
    <3>1. IsPrefix(<<>>, <<>>)
      <4>1. <<>> \in Seq(Rows) /\ Len(<<>>) <= Len(<<>>) /\ \A i \in 1..Len(<<>>) : <<>>[i] = <<>>[i]
        OBVIOUS
      <4>2. QED
        BY <4>1, PrefixElements
    <3>2. Kept(c) /\ Handed(c) /\ Coming(c)
      BY <2>1, <2>3 DEF Kept, Handed, Coming
    <3>3. Unbroken(c)
      BY <1>1, <2>1, <2>3, <2>4, <3>1, <3>2 DEF Unbroken
    <3>4. QED
      BY <2>1, <3>1, <3>2, <3>3 DEF NoGap
  <2>7. AnswerTrail(c)
    BY <2>1, <2>3, <2>4, NoAnswer DEF AnswerTrail
  <2>8. OpeningTrail(c) /\ FailedTrail(c)
    BY <2>1 DEF OpeningTrail, FailedTrail, InStage
  <2>9. Unopened(c)
    BY <2>1, <2>2 DEF Unopened
  <2>10. QED
    BY <2>5, <2>6, <2>7, <2>8, <2>9
<1>5. QED
  BY <1>2, <1>3, <1>4 DEF OrderTrail

(* ... and in every step.                                                  *)
LEMMA OrderTrailStep == TypeOK /\ AckTrail /\ NamedIsHeld /\ OrderTrail /\ [Next]_vars => OrderTrail'
<1> SUFFICES ASSUME TypeOK, AckTrail, NamedIsHeld, OrderTrail, [Next]_vars PROVE OrderTrail'
  OBVIOUS
<1>1. ASSUME NEW s \in Streams, Subscribe(s) PROVE OrderTrail'
  <2>1. PICK c \in Conns : Target(s, c)
    BY <1>1, SubscribeTarget
  <2>2. Next
    BY <1>1 DEF Next
  <2>3. QED
    BY <1>1, <2>1, <2>2, TrailActs
<1>2. ASSUME NEW c \in Conns, Socket(c) \/ Pump(c) \/ Service(c) PROVE OrderTrail'
  <2>1. Next
    BY <1>2 DEF Next
  <2>2. QED
    BY <1>2, <2>1, TrailActs
<1>3. ASSUME NEW k \in Calls, Ack(k) PROVE OrderTrail'
  <2>1. Next
    BY <1>3 DEF Next
  <2>2. QED
    BY <1>3, <2>1, TrailAcks
<1>4. CASE UNCHANGED vars
  <2>1. \A d \in Conns : SentOrder(d)'
    BY OrderStep
  <2>2. ASSUME NEW d \in Conns PROVE Known(d)'
    <3>1. Aloof(d)
      BY <1>4 DEF vars, Aloof, Same, streamVars, eventVars, connVars, socketVars, callVars, serviceVars, history
    <3>2. QED
      BY <3>1, KnownAloof DEF Known, OrderTrail
  <2>3. Apart'
    BY <1>4 DEF vars, streamVars, serviceVars, OrderTrail, Apart
  <2>4. ASSUME NEW s \in Streams PROVE EndTrail(s)'
    <3>1. UNCHANGED <<spc, cur, outcome>> /\ \A d \in Conns : Same(d)
      BY <1>4 DEF vars, Same, streamVars, eventVars, connVars, socketVars, callVars, serviceVars, history
    <3>2. spc[s] # "ready" => Same(cur[s])
      BY <3>1 DEF TypeOK, StreamTypeOK
    <3>3. QED
      BY <3>1, <3>2, EndSame DEF OrderTrail
  <2>5. QED
    BY <2>1, <2>2, <2>3, <2>4 DEF OrderTrail, Known
<1>5. QED
  BY <1>1, <1>2, <1>3, <1>4 DEF Next

(* OrderTrail holds whatever befalls the connections, for any number of    *)
(* streams, calls, rows and connections.                                   *)
THEOREM OrderTrailHolds == Spec => []OrderTrail
<1>1. Spec => []TypeOK
  BY TypeCorrect
<1>2. Spec => []AckTrail
  BY TrailHolds
<1>3. Spec => []NamedIsHeld
  BY NamedHeld
<1>4. QED
  BY <1>1, <1>2, <1>3, OrderTrailInit, OrderTrailStep, PTL DEF Spec

(* EventsInOrder: the consumer sees the rows of a connection in the order  *)
(* the service sent them, and none is missing between two others unless    *)
(* the connection has failed.                                              *)
THEOREM RowsComeInOrder == Spec => []EventsInOrder
<1>1. TypeOK /\ OrderTrail => EventsInOrder
  <2> SUFFICES ASSUME TypeOK, OrderTrail, NEW c \in Conns
               PROVE  /\ Range(Came(c)) \subseteq Range(sent[c])
                      /\ \A i, j \in 1..Len(Came(c)) : i < j => Before(c, Came(c)[i], Came(c)[j])
                      /\ IsPrefix(Came(c), sent[c]) \/ failure[c] # "none"
    BY DEF EventsInOrder, Came
  <2>1. SentOrder(c) /\ NoGap(c)
    BY DEF OrderTrail
  <2>2. ASSUME failure[c] = "none" PROVE IsPrefix(Came(c), sent[c])
    <3>1. /\ Came(c) \in Seq(Rows) /\ sent[c] \in Seq(Rows) /\ arrived[c] \in Seq(Rows)
          /\ Len(Came(c)) <= Len(arrived[c]) /\ Len(arrived[c]) <= Len(sent[c])
          /\ \A i \in 1..Len(arrived[c]) : arrived[c][i] = sent[c][i]
          /\ \A i \in 1..Len(Came(c)) : Came(c)[i] = arrived[c][i]
      BY <2>1, <2>2, GapRows
    <3>2. Len(Came(c)) <= Len(sent[c]) /\ \A i \in 1..Len(Came(c)) : Came(c)[i] = sent[c][i]
      BY <3>1
    <3>3. QED
      BY <3>1, <3>2, PrefixElements
  <2>3. QED
    BY <2>1, <2>2 DEF SentOrder, Ascending
<1>2. QED
  BY <1>1, TypeCorrect, OrderTrailHolds, PTL

(* ErrorAfterEvents: a stream is interrupted only after its consumer has   *)
(* been given every event that arrived before the connection failed.       *)
THEOREM ErrorsComeLast == Spec => []ErrorAfterEvents
<1>1. OrderTrail => ErrorAfterEvents
  BY DEF OrderTrail, EndTrail, ErrorAfterEvents
<1>2. QED
  BY <1>1, OrderTrailHolds, PTL
=============================================================================
