--------------------------- MODULE AdapterRunner ----------------------------
(***************************************************************************)
(* run() of the reference runner, examples/adapter.py: one consumer of one *)
(* subscription that handles each message, replies, completes it in the    *)
(* adapter's durable store and acknowledges it; and the process around it, *)
(* which may die at any await and is started again.                        *)
(*                                                                         *)
(* Its two calls into the SDK are components of their own: send_content()  *)
(* and send_file() are SendOperation with an operation ID derived from the *)
(* message and the part, and ack() is AckContract, what PySubscription is  *)
(* shown to implement.  The stream is the list of events the generator has *)
(* queued.  DurableHandler, the agent's own store, is external: the doc    *)
(* comments of adapter.py:35-50 say what it must do.                       *)
(*                                                                         *)
(* MaxFaults bounds the failures of every kind taken together, MaxAttempts *)
(* the sends of one part, MaxCalls the calls of ack().                     *)
(***************************************************************************)
EXTENDS Naturals, Sequences, FiniteSets, SequencesExt, FiniteSetsExt

CONSTANTS
  Messages,     \* incoming messages
  Notices,      \* events without a message: reactions, edits, health
  MaxFiles,     \* files in a reply at most
  FetchesBytes, \* attachment_mode is "bytes" and the messages have attachments
  Faults,       \* "crash", "drop", "fetch", "prepare", "send", "refuse", "ack"
  MaxFaults, MaxAttempts, MaxCalls, None

(* A reply is the set of its parts: 0 is the text, i the i-th file.        *)
Parts == 0..MaxFiles
Replies == {t \cup f : t \in {{}, {0}}, f \in {1..n : n \in Parts}}
Sends == Messages \X Parts
Calls == 1..MaxCalls

ASSUME RunnerAssumption ==
  /\ {MaxFiles, MaxFaults, MaxAttempts, MaxCalls} \subseteq Nat /\ MaxAttempts # 0
  /\ FetchesBytes \in BOOLEAN
  /\ Faults \subseteq {"crash", "drop", "fetch", "prepare", "send", "refuse", "ack"}
  /\ Messages \cap Notices = {} /\ None \notin Messages \cup Notices
  /\ None \notin Replies /\ None \notin (Messages \X Nat) \X Nat

VARIABLES
  \* the process: where run() is, its locals, and the durable store
  pc, at, part, prepared, completed,
  \* the stream
  feed, live,
  \* ack(): AckContract, and the call in progress
  delivered, named, recorded, status, call,
  \* send(): SendOperation
  phase, attempt, given, reply, outcome, requests, cache, dispatched,
  faults

runVars == <<pc, at, part>>
storeVars == <<prepared, completed>>
streamVars == <<feed, live>>
ackVars == <<delivered, named, recorded, status, call>>
sendVars == <<phase, attempt, given, reply, outcome, requests, cache, dispatched>>
vars == <<runVars, storeVars, streamVars, ackVars, sendVars, faults>>

Ack == INSTANCE AckContract WITH Rows <- Messages
Send == INSTANCE SendOperation WITH Operations <- Sends, Supplied <- Sends, Cancels <- TRUE

Init ==
  /\ pc = "down" /\ at = None /\ part = 0
  /\ prepared = [m \in Messages |-> None] /\ completed = {}
  /\ feed = <<>> /\ live = FALSE
  /\ Ack!Init /\ call = 0
  /\ Send!Init
  /\ faults = 0

Acknowledged == {named[k] : k \in recorded}

Fault(kind) == kind \in Faults /\ faults < MaxFaults /\ faults' = faults + 1

-----------------------------------------------------------------------------
(* The process.                                                            *)
Start ==
  /\ pc = "down"
  /\ pc' = "wait"
  /\ feed' = <<>> /\ live' = TRUE
  /\ UNCHANGED <<at, part, storeVars, ackVars, sendVars, faults>>

(* run() raises: aclosing() closes the stream and the process ends.        *)
Raise == pc' = "down" /\ at' = None /\ live' = FALSE /\ UNCHANGED <<part, feed>>

(* A call in progress is abandoned: its request may still be handled.      *)
Crash ==
  /\ pc # "down" /\ Fault("crash")
  /\ Raise
  /\ IF pc = "sending" THEN Send!Cancel(<<at, part>>) ELSE UNCHANGED sendVars
  /\ UNCHANGED <<storeVars, ackVars>>

-----------------------------------------------------------------------------
(* The stream.                                                             *)
\* Mutant: an event without a message is handled like one.
NextEventUnfiltered ==
  /\ pc = "wait" /\ feed # <<>>
  /\ feed' = Tail(feed)
  /\ at' = Head(feed) /\ pc' = "lookup"
  /\ Ack!Hand(Head(feed))
  /\ UNCHANGED <<part, call, storeVars, live, sendVars, faults>>

NextEvent ==
  /\ pc = "wait" /\ feed # <<>>
  /\ feed' = Tail(feed)
  /\ IF Head(feed) \in Messages
     THEN /\ at' = Head(feed) /\ pc' = "lookup"
          /\ Ack!Hand(Head(feed)) /\ UNCHANGED call
     ELSE UNCHANGED <<at, pc, ackVars>>
  /\ UNCHANGED <<part, storeVars, live, sendVars, faults>>

(* The generator resubscribes, or raises what it may not retry.            *)
Reconnect ==
  /\ pc = "wait" /\ feed = <<>> /\ ~live
  /\ live' = TRUE
  /\ UNCHANGED <<runVars, storeVars, feed, ackVars, sendVars, faults>>

StreamFails ==
  /\ pc = "wait" /\ feed = <<>> /\ ~live
  /\ Raise
  /\ UNCHANGED <<storeVars, ackVars, sendVars, faults>>

-----------------------------------------------------------------------------
(* One message.                                                            *)
\* Mutant: a message that is already complete is skipped, not acknowledged.
IsCompleteSkips ==
  /\ pc = "lookup"
  /\ pc' = IF at \in completed THEN "wait" ELSE "fetch"
  /\ at' = IF at \in completed THEN None ELSE at
  /\ part' = 0
  /\ UNCHANGED <<storeVars, streamVars, ackVars, sendVars, faults>>

\* Mutant: the durable store is not asked.
IsCompleteUnasked ==
  /\ pc = "lookup"
  /\ pc' = "fetch"
  /\ part' = 0
  /\ UNCHANGED <<at, storeVars, streamVars, ackVars, sendVars, faults>>

IsComplete ==
  /\ pc = "lookup"
  /\ pc' = IF at \in completed THEN "ack" ELSE "fetch"
  /\ part' = 0
  /\ UNCHANGED <<at, storeVars, streamVars, ackVars, sendVars, faults>>

Fetch ==
  /\ pc = "fetch"
  /\ \/ pc' = "prepare" /\ UNCHANGED <<at, part, streamVars, faults>>
     \/ FetchesBytes /\ Fault("fetch") /\ Raise
  /\ UNCHANGED <<storeVars, ackVars, sendVars>>

(* The handler commits the reply before it returns it, and a replay yields *)
(* the reply that was committed; it may fail before or after the commit.   *)
Prepare ==
  /\ pc = "prepare"
  /\ \E r \in IF prepared[at] = None THEN Replies ELSE {prepared[at]} :
       prepared' = [prepared EXCEPT ![at] = r]
  /\ \/ pc' = "reply" /\ UNCHANGED <<at, part, streamVars, faults>>
     \/ Fault("prepare") /\ Raise
  /\ UNCHANGED <<completed, ackVars, sendVars>>

(* The operation ID is a hash of the connection, the message and the part. *)
Left == {p \in prepared[at] : p >= part}

SendPart ==
  /\ pc = "reply" /\ Left # {}
  /\ part' = Min(Left)
  /\ Send!Begin(<<at, part'>>)
  /\ pc' = "sending"
  /\ UNCHANGED <<at, storeVars, streamVars, ackVars, faults>>

\* Mutant: the receipt of an accepted but unconfirmed part is enough.
ConfirmedAccepted(e) == e \in {"confirmed", "unconfirmed"}

Confirmed(e) == e = "confirmed"

Sent ==
  /\ pc = "sending" /\ phase[<<at, part>>] = "idle"
  /\ IF Confirmed(outcome[<<at, part>>])
     THEN pc' = "reply" /\ part' = part + 1 /\ UNCHANGED <<at, streamVars>>
     ELSE Raise
  /\ UNCHANGED <<storeVars, ackVars, sendVars, faults>>

Complete ==
  /\ pc = "reply" /\ Left = {}
  /\ completed' = completed \cup {at}
  /\ pc' = "ack"
  /\ UNCHANGED <<at, part, prepared, streamVars, ackVars, sendVars, faults>>

CallAck ==
  /\ pc = "ack" /\ call < MaxCalls
  /\ call' = call + 1
  /\ Ack!Request(call') /\ named'[call'] = at
  /\ pc' = "acking"
  /\ UNCHANGED <<at, part, storeVars, streamVars, sendVars, faults>>

(* ack() returns only to a reader that is alive; once the reader is gone it*)
(* may raise, or wait forever.                                             *)
Acked ==
  /\ pc = "acking" /\ live
  /\ Ack!Succeed(call)
  /\ pc' = "wait" /\ at' = None
  /\ UNCHANGED <<part, storeVars, streamVars, call, sendVars, faults>>

(* ackNotOutstanding: an abandoned call was recorded in the meantime.      *)
AckRefused ==
  /\ pc = "acking" /\ live /\ at \in Acknowledged /\ call \notin recorded
  /\ Ack!Fail(call)
  /\ Raise
  /\ UNCHANGED <<storeVars, call, sendVars, faults>>

AckFails ==
  /\ pc = "acking"
  /\ (~live /\ UNCHANGED faults) \/ Fault("ack")
  /\ Ack!Fail(call)
  /\ Raise
  /\ UNCHANGED <<storeVars, call, sendVars>>

-----------------------------------------------------------------------------
(* The service (external), and the connections.                            *)
Deliver(e) ==
  /\ live /\ e \notin Acknowledged \cup Range(feed) \cup {at}
  /\ e \in Notices => Len(feed) < Cardinality(Messages)
  /\ feed' = Append(feed, e)
  /\ UNCHANGED <<runVars, storeVars, live, ackVars, sendVars, faults>>

Drop ==
  /\ live /\ Fault("drop")
  /\ live' = FALSE
  /\ UNCHANGED <<runVars, storeVars, feed, ackVars, sendVars>>

RecordAck(k) ==
  /\ Ack!Record(k)
  /\ UNCHANGED <<runVars, storeVars, streamVars, call, sendVars, faults>>

(* send() on its way; only the failures count as faults.                   *)
SendStep ==
  /\ \/ /\ UNCHANGED faults
        /\ \/ \E o \in Sends : Send!CheckPasses(o) \/ Send!WriteRequest(o) \/ Send!Receive(o)
           \/ \E q \in requests : Send!Recall(q)
           \/ \E q \in requests : Send!Dispatch(q) /\ cache'[q.id] = "confirmed"
     \/ /\ Fault("send")
        /\ \E o \in Sends : Send!CheckFails(o) \/ Send!NotWritten(o) \/ Send!Lose(o)
     \/ /\ Fault("refuse")
        /\ \E q \in requests :
             \/ Send!Refuse(q) \/ Send!FailDispatch(q)
             \/ Send!Dispatch(q) /\ cache'[q.id] = "unconfirmed"
  /\ UNCHANGED <<runVars, storeVars, streamVars, ackVars>>

-----------------------------------------------------------------------------
Run ==
  \/ Start \/ NextEvent \/ Reconnect \/ StreamFails \/ IsComplete \/ Fetch \/ Prepare
  \/ SendPart \/ Sent \/ Complete \/ CallAck \/ Acked \/ AckRefused

Next ==
  \/ Run \/ AckFails \/ Crash \/ SendStep \/ Drop
  \/ \E e \in Messages \cup Notices : Deliver(e)
  \/ \E k \in Calls : RecordAck(k)

Spec == Init /\ [][Next]_vars

(* The process is started again whenever it is down, run() moves on, the   *)
(* service delivers, handles and records what it can.  Failures are not    *)
(* fair.                                                                   *)
Fairness ==
  /\ WF_vars(Run) /\ WF_vars(SendStep)
  /\ \A m \in Messages : WF_vars(Deliver(m))
  /\ \A k \in Calls : WF_vars(RecordAck(k))

FairSpec == Spec /\ Fairness

-----------------------------------------------------------------------------
(* The type of every variable.                                             *)
TypeOK ==
  /\ pc \in {"down", "wait", "lookup", "fetch", "prepare", "reply", "sending", "ack", "acking"}
  /\ at \in Messages \cup {None} /\ part \in 0..(MaxFiles + 1)
  /\ prepared \in [Messages -> Replies \cup {None}] /\ completed \subseteq Messages
  /\ feed \in Seq(Messages \cup Notices) /\ live \in BOOLEAN
  /\ call \in 0..MaxCalls /\ faults \in 0..MaxFaults
  /\ Send!TypeOK

(* Every message gets one reply, its parts in order, none twice, and an    *)
(* ack only once all of it was confirmed and completed.                    *)
Times(o) == Cardinality({n \in 1..MaxAttempts : <<o, n>> \in dispatched})

Reply == INSTANCE ReplyContract WITH
  reply <- prepared,
  sent <- [o \in Sends |-> Times(o)],
  confirmed <- {o \in Sends : cache[<<o, 1>>] = "confirmed"},
  finished <- completed,
  acknowledged <- Acknowledged

RepliesOnce == Reply!Spec

(* A message that was completed is never fetched, prepared or replied to   *)
(* again, however often it is delivered before its ack is recorded.        *)
HandledOnce ==
  pc \in {"fetch", "prepare", "reply", "sending"} => at \notin completed

(* Whatever process dies, connection is lost and request fails, a message  *)
(* is acknowledged in the end, unless Messages could not confirm a part of *)
(* its reply, or the runner waits for an answer that no reader will route: *)
(* its ack is in progress and the connection is gone (client.py:406).      *)
Unanswerable(m) == \E p \in Parts : cache[<<<<m, p>>, 1>>] \in {"unconfirmed", "uncertain"}

EventuallyAcked ==
  \/ <>[](pc = "acking" /\ ~live)
  \/ \A m \in Messages : <>(m \in Acknowledged \/ \E n \in Messages : Unanswerable(n))

-----------------------------------------------------------------------------
(* What makes HandledOnce and the refinement inductive.                    *)
AckTypes ==
  /\ delivered \subseteq Messages /\ recorded \subseteq Calls
  /\ named \in [Calls -> Messages \cup {None}]
  /\ status \in [Calls -> {"idle", "running", "acked", "failed"}]

(* A part is ready to be sent once every part before it was confirmed.     *)
Done(o) == cache[<<o, 1>>] = "confirmed"

DoneBefore(m, p) == prepared[m] # None /\ \A i \in prepared[m] : i < p => Done(<<m, i>>)

Ready(o) == DoneBefore(o[1], o[2]) /\ o[2] \in prepared[o[1]]

(* The service knows a part under one ID, by requests that were ready, and *)
(* has dispatched it at most once; who reads "confirmed" reads the truth.  *)
PartTrail ==
  /\ given = [o \in Sends |-> <<o, 1>>]
  /\ \A q \in requests : q.id = <<q.op, 1>> /\ Ready(q.op)
  /\ \A o \in Sends :
       /\ phase[o] # "idle" => Ready(o) /\ attempt[o] >= 1
       /\ "confirmed" \in {reply[o], outcome[o]} => Done(o)
       /\ \A n \in 1..MaxAttempts : <<o, n>> \in dispatched =>
            /\ cache[<<o, 1>>] # "none"
            /\ \A i \in 1..MaxAttempts : <<o, i>> \in dispatched => i = n

(* Where run() is, and what it has behind it.                              *)
RunTrail ==
  /\ pc \notin {"down", "wait"} => at \in Messages
  /\ pc \in {"fetch", "prepare"} => part = 0
  /\ pc \in {"reply", "sending"} => DoneBefore(at, part)
  /\ pc = "sending" => part \in prepared[at]
  /\ pc \in {"ack", "acking"} => at \in completed
  /\ \A k \in Calls : status[k] # "idle" => named[k] \in completed
  /\ \A k \in recorded : status[k] # "idle"

RunnerTrail == AckTypes /\ PartTrail /\ RunTrail
=============================================================================
