------------------------ MODULE AdapterRunner_proofs ------------------------
(* What TLAPS proves of AdapterRunner, for any messages, faults and bounds: *)
(* types, HandledOnce, and that the runner implements ReplyContract.        *)
EXTENDS AdapterRunner, FiniteSetTheorems, TLAPS

(* The parts of a reply.                                                   *)
LEMMA ReplyParts ==
  ASSUME NEW r \in Replies
  PROVE  r \subseteq Parts /\ Parts \subseteq Nat
BY RunnerAssumption DEF Replies, Parts

(* The first part that is left is left, and no part before it is.          *)
LEMMA FirstLeft ==
  ASSUME NEW r \in Replies, NEW i \in 0..(MaxFiles + 1), NEW S, S = {p \in r : p >= i}, S # {}
  PROVE  Min(S) \in S /\ \A p \in r : p < Min(S) => p < i
<1>1. PICK n \in Parts : r = 1..n \/ r = {0} \cup 1..n
  <2>1. PICK t \in {{}, {0}}, f \in {1..n : n \in Parts} : r = t \cup f
    BY DEF Replies
  <2>2. PICK n \in Parts : f = 1..n
    BY <2>1
  <2>3. QED
    BY <2>1, <2>2
<1>2. ASSUME NEW x \in S, \A y \in S : x <= y PROVE Min(S) \in S /\ \A y \in S : Min(S) <= y
  BY <1>2 DEF Min
<1>3. \E x \in S : \A y \in S : x <= y
  <2>1. n \in Nat /\ S \subseteq Nat
    BY <1>1, RunnerAssumption DEF Parts
  <2>2. CASE 0 \in S
    BY <2>1, <2>2
  <2>3. CASE 0 \notin S /\ i = 0
    <3>1. S = 1..n /\ 1 \in S
      BY <1>1, <2>1, <2>3
    <3>2. QED
      BY <3>1
  <2>4. CASE i # 0
    <3>1. S = i..n /\ i \in S
      BY <1>1, <2>1, <2>4
    <3>2. QED
      BY <3>1
  <2>5. QED
    BY <2>2, <2>3, <2>4
<1>4. Min(S) \in S /\ \A y \in S : Min(S) <= y
  BY <1>2, <1>3
<1>5. S \subseteq Nat /\ r \subseteq Nat /\ i \in Nat
  BY ReplyParts, RunnerAssumption
<1>6. QED
  BY <1>4, <1>5

-----------------------------------------------------------------------------
(* What is ready stays ready: a committed reply and a confirmed part stay. *)
LEMMA ReadyStays ==
  ASSUME prepared \in [Messages -> Replies \cup {None}], NEW o \in Sends, Ready(o),
         \A m \in Messages : prepared[m] # None => prepared'[m] = prepared[m],
         \A s \in Sends : Done(s) => Done(s)'
  PROVE  Ready(o)'
<1>1. o[1] \in Messages /\ prepared[o[1]] # None /\ prepared'[o[1]] = prepared[o[1]]
  BY DEF Ready, DoneBefore, Sends
<1>2. prepared[o[1]] \in Replies
  BY <1>1
<1>3. \A i \in prepared[o[1]] : <<o[1], i>> \in Sends
  BY <1>1, <1>2, ReplyParts DEF Sends
<1>4. QED
  BY <1>1, <1>3 DEF Ready, DoneBefore

(* None is no operation ID.                                                *)
LEMMA PartIDs ==
  /\ \A o \in Sends : <<o, 1>> \in Send!IDs /\ <<o, 1>> # None
  /\ 1 \in 1..MaxAttempts /\ MaxAttempts \in Nat
BY RunnerAssumption DEF Send!IDs, Send!Attempts, Sends, Parts

(* The steps of a call to send() tell the service nothing new, except that *)
(* a request that is ready is written.                                     *)
LEMMA ClientKeepsParts ==
  ASSUME Send!TypeOK, PartTrail, NEW o \in Sends, UNCHANGED prepared,
         \/ Send!CheckPasses(o) \/ Send!CheckFails(o) \/ Send!WriteRequest(o)
         \/ Send!NotWritten(o) \/ Send!Receive(o) \/ Send!Lose(o) \/ Send!Cancel(o)
  PROVE  Send!TypeOK' /\ PartTrail'
<1>1. UNCHANGED <<given, cache, dispatched>>
  BY PartIDs DEF Send!CheckPasses, Send!CheckFails, Send!WriteRequest, Send!NotWritten, Send!Receive,
    Send!Lose, Send!Cancel, Send!Learn, Send!OperationID, Send!Return, PartTrail
<1>2. \A s \in Sends : (Done(s)' <=> Done(s)) /\ (Ready(s)' <=> Ready(s))
  BY <1>1 DEF Ready, DoneBefore, Done
<1>3. /\ phase[o] # "idle" /\ UNCHANGED attempt
      /\ \A s \in Sends \ {o} : phase'[s] = phase[s] /\ reply'[s] = reply[s] /\ outcome'[s] = outcome[s]
      /\ "confirmed" \in {reply'[o], outcome'[o]} => "confirmed" \in {reply[o], outcome[o]}
  BY DEF Send!CheckPasses, Send!CheckFails, Send!WriteRequest, Send!NotWritten, Send!Receive,
    Send!Lose, Send!Cancel, Send!Return, Send!Exceptions, Send!Outcome, Send!Results, Send!TypeOK
<1>4. /\ requests' \subseteq requests \cup {[op |-> o, id |-> <<o, 1>>, try |-> attempt[o]]}
      /\ attempt[o] \in Send!Attempts
  <2>1. Send!OperationID(o) = <<o, 1>>
    BY PartIDs DEF Send!OperationID, PartTrail
  <2>2. attempt[o] \in Send!Attempts
    BY <1>3, PartIDs DEF PartTrail, Send!TypeOK, Send!Attempts
  <2>3. QED
    BY <2>1, <2>2 DEF Send!CheckPasses, Send!CheckFails, Send!WriteRequest, Send!NotWritten,
      Send!Receive, Send!Lose, Send!Cancel
<1>5. PartTrail'
  <2>1. \A q \in requests' : q.id = <<q.op, 1>> /\ Ready(q.op)'
    <3>1. Ready(o) /\ \A q \in requests : q.op \in Sends
      BY <1>3 DEF PartTrail, Send!TypeOK, Send!Requests
    <3>2. QED
      BY <1>2, <1>4, <3>1 DEF PartTrail
  <2>2. \A s \in Sends : phase'[s] # "idle" => Ready(s)' /\ attempt'[s] >= 1
    BY <1>2, <1>3 DEF PartTrail
  <2>3. \A s \in Sends : "confirmed" \in {reply'[s], outcome'[s]} => Done(s)'
    BY <1>2, <1>3 DEF PartTrail
  <2>4. QED
    BY <1>1, <2>1, <2>2, <2>3 DEF PartTrail
<1>6. requests' \subseteq Send!Requests
  BY <1>4, PartIDs DEF Send!TypeOK, Send!Requests
<1>7. /\ phase' \in [Sends -> {"idle", "check", "auth", "await"}]
      /\ reply' \in [Sends -> {"none", "refused", "known", "error"} \cup Send!Results \cup Send!Exceptions]
      /\ outcome' \in [Sends -> {"none", "unsupported", "unchecked", "rejected", "unknown", "cancelled",
                                "unexpected"} \cup Send!Results]
  <2>1. Send!Outcome(reply[o]) \in {"rejected", "unexpected", "unknown"} \cup Send!Results
    BY DEF Send!Outcome
  <2>2. CASE Send!CheckPasses(o) \/ Send!WriteRequest(o) \/ Send!NotWritten(o) \/ Send!Lose(o)
    BY <2>2 DEF Send!CheckPasses, Send!WriteRequest, Send!NotWritten, Send!Lose, Send!Exceptions, Send!TypeOK
  <2>3. CASE Send!CheckFails(o) \/ Send!Receive(o) \/ Send!Cancel(o)
    BY <2>1, <2>3 DEF Send!CheckFails, Send!Receive, Send!Cancel, Send!Return, Send!TypeOK
  <2>4. QED
    BY <2>2, <2>3
<1>8. QED
  BY <1>1, <1>3, <1>5, <1>6, <1>7 DEF Send!TypeOK

(* The runner calls send() for a part that is ready.                       *)
LEMMA BeginKeepsParts ==
  ASSUME Send!TypeOK, PartTrail, NEW o \in Sends, UNCHANGED prepared, Ready(o), Send!Begin(o)
  PROVE  Send!TypeOK' /\ PartTrail'
<1>1. /\ phase' = [phase EXCEPT ![o] = "check"] /\ outcome' = [outcome EXCEPT ![o] = "none"]
      /\ UNCHANGED <<given, reply, requests, cache, dispatched>>
      /\ attempt[o] < MaxAttempts /\ attempt' = [attempt EXCEPT ![o] = @ + 1]
  BY DEF Send!Begin
<1>2. \A s \in Sends : (Done(s)' <=> Done(s)) /\ (Ready(s)' <=> Ready(s))
  BY <1>1 DEF Ready, DoneBefore, Done
<1>3. attempt' \in [Sends -> 0..MaxAttempts] /\ attempt'[o] >= 1
      /\ \A s \in Sends \ {o} : attempt'[s] = attempt[s]
  BY <1>1, PartIDs DEF Send!TypeOK
<1>4. \A s \in Sends : phase'[s] # "idle" => Ready(s)' /\ attempt'[s] >= 1
  BY <1>1, <1>2, <1>3 DEF PartTrail, Send!TypeOK
<1>5. \A s \in Sends : "confirmed" \in {reply'[s], outcome'[s]} => "confirmed" \in {reply[s], outcome[s]}
  BY <1>1 DEF Send!TypeOK
<1>6. PartTrail'
  <2>1. \A q \in requests' : q.id = <<q.op, 1>> /\ Ready(q.op)'
    <3>1. \A q \in requests : q.op \in Sends
      BY DEF Send!TypeOK, Send!Requests
    <3>2. QED
      BY <1>1, <1>2, <3>1 DEF PartTrail
  <2>2. \A s \in Sends : "confirmed" \in {reply'[s], outcome'[s]} => Done(s)'
    BY <1>2, <1>5 DEF PartTrail
  <2>3. QED
    BY <1>1, <1>4, <2>1, <2>2 DEF PartTrail
<1>7. QED
  BY <1>1, <1>3, <1>6 DEF Send!TypeOK

(* What the service does with a request: it is answered, and either        *)
(* nothing else happens, or its operation was unknown and is known now.    *)
Service(q) == Send!Refuse(q) \/ Send!Dispatch(q) \/ Send!FailDispatch(q) \/ Send!Recall(q)

LEMMA ServiceIs ==
  ASSUME Send!TypeOK, PartTrail, NEW q \in requests, Service(q)
  PROVE  /\ q.op \in Sends /\ q.try \in 1..MaxAttempts /\ Ready(q.op)
         /\ requests' = requests \ {q} /\ UNCHANGED <<phase, attempt, given, outcome>>
         /\ \E r \in {"refused", "known", "error"} \cup Send!Results :
              /\ reply' = reply \/ reply' = [reply EXCEPT ![q.op] = r]
              /\ r = "confirmed" => cache'[<<q.op, 1>>] = "confirmed"
         /\ \/ UNCHANGED <<cache, dispatched>>
            \/ /\ cache[<<q.op, 1>>] = "none"
               /\ \E e \in {"uncertain"} \cup Send!Results : cache' = [cache EXCEPT ![<<q.op, 1>>] = e]
               /\ dispatched' \in {dispatched, dispatched \cup {<<q.op, q.try>>}}
<1>1. q.op \in Sends /\ q.try \in 1..MaxAttempts /\ q.id = <<q.op, 1>> /\ Ready(q.op) /\ q.id \in Send!IDs
  BY DEF PartTrail, Send!TypeOK, Send!Requests, Send!Attempts
<1>2. cache[q.id] \in {"none", "uncertain"} \cup Send!Results
  BY <1>1 DEF Send!TypeOK
<1>3. CASE Send!Refuse(q)
  BY <1>1, <1>3 DEF Send!Refuse, Send!Handle, Send!Answer, Send!Results
<1>4. CASE Send!Dispatch(q)
  <2>1. PICK r \in Send!Results : Send!Handle(q, r) /\ cache' = [cache EXCEPT ![q.id] = r]
    BY <1>4 DEF Send!Dispatch
  <2>2. cache'[q.id] = r
    BY <1>1, <2>1 DEF Send!TypeOK
  <2>3. QED
    BY <1>1, <1>4, <2>1, <2>2 DEF Send!Dispatch, Send!Handle, Send!Answer
<1>5. CASE Send!FailDispatch(q)
  BY ZenonT(60), <1>1, <1>5 DEF Send!FailDispatch, Send!Handle, Send!Answer
<1>6. CASE Send!Recall(q)
  <2>1. cache[q.id] = "uncertain" \/ cache[q.id] \in Send!Results
    BY <1>2, <1>6 DEF Send!Recall
  <2>2. PICK r \in {"error"} \cup Send!Results :
          Send!Handle(q, r) /\ (r = "confirmed" => cache[q.id] = "confirmed")
    BY <1>6, <2>1 DEF Send!Recall, Send!Results
  <2>3. QED
    BY <1>1, <1>6, <2>2 DEF Send!Recall, Send!Handle, Send!Answer
<1>7. QED
  BY <1>3, <1>4, <1>5, <1>6 DEF Service

(* What the service says of a part is so, and it sends a part once.        *)
LEMMA ServiceKeepsParts ==
  ASSUME Send!TypeOK, PartTrail, NEW q \in requests, Service(q),
         prepared \in [Messages -> Replies \cup {None}], UNCHANGED prepared
  PROVE  Send!TypeOK' /\ PartTrail' /\ \A s \in Sends : Done(s) => Done(s)'
<1>1. /\ q.op \in Sends /\ q.try \in 1..MaxAttempts /\ <<q.op, 1>> \in Send!IDs
      /\ requests' = requests \ {q} /\ UNCHANGED <<phase, attempt, given, outcome>>
      /\ \A s \in Sends : <<s, 1>> \in Send!IDs
  BY ServiceIs, PartIDs
<1>2. PICK r \in {"refused", "known", "error"} \cup Send!Results :
        /\ reply' = reply \/ reply' = [reply EXCEPT ![q.op] = r]
        /\ r = "confirmed" => Done(q.op)'
  BY ServiceIs DEF Done
<1>3. \/ UNCHANGED <<cache, dispatched>>
      \/ /\ cache[<<q.op, 1>>] = "none"
         /\ \E e \in {"uncertain"} \cup Send!Results : cache' = [cache EXCEPT ![<<q.op, 1>>] = e]
         /\ dispatched' \in {dispatched, dispatched \cup {<<q.op, q.try>>}}
  BY ServiceIs
<1>4. \A s \in Sends : Done(s) => Done(s)'
  BY <1>1, <1>3 DEF Done, Send!TypeOK
<1>5. \A s \in Sends : Ready(s) => Ready(s)'
  <2>1. ASSUME NEW s \in Sends, Ready(s) PROVE Ready(s)'
    <3>1. QED
      BY <1>4, <2>1, ReadyStays
  <2>2. QED
    BY <2>1
<1>6. \A s \in Sends, n \in 1..MaxAttempts : <<s, n>> \in dispatched' =>
        /\ cache'[<<s, 1>>] # "none"
        /\ \A i \in 1..MaxAttempts : <<s, i>> \in dispatched' => i = n
  <2>1. CASE UNCHANGED <<cache, dispatched>>
    BY <2>1 DEF PartTrail
  <2>2. CASE cache[<<q.op, 1>>] = "none"
    <3>1. \A n \in 1..MaxAttempts : <<q.op, n>> \notin dispatched
      BY <1>1, <2>2 DEF PartTrail
    <3>2. dispatched' \subseteq dispatched \cup {<<q.op, q.try>>}
      BY <1>3
    <3>3. \A s \in Sends \ {q.op} : cache'[<<s, 1>>] = cache[<<s, 1>>]
      BY <1>1, <1>3 DEF Send!TypeOK
    <3>4. cache'[<<q.op, 1>>] # "none" \/ dispatched' = dispatched
      BY <1>1, <1>3 DEF Send!TypeOK, Send!Results
    <3>5. QED
      BY <1>1, <3>1, <3>2, <3>3, <3>4 DEF PartTrail
  <2>3. QED
    BY <1>3, <2>1, <2>2
<1>7. PartTrail'
  <2>1. \A p \in requests' : p.id = <<p.op, 1>> /\ Ready(p.op)'
    <3>1. \A p \in requests : p.op \in Sends
      BY DEF Send!TypeOK, Send!Requests
    <3>2. QED
      BY <1>1, <1>5, <3>1 DEF PartTrail
  <2>2. \A s \in Sends : phase'[s] # "idle" => Ready(s)' /\ attempt'[s] >= 1
    BY <1>1, <1>5 DEF PartTrail
  <2>3. \A s \in Sends : "confirmed" \in {reply'[s], outcome'[s]} => Done(s)'
    BY <1>1, <1>2, <1>4 DEF PartTrail, Send!TypeOK
  <2>4. QED
    BY <1>1, <1>6, <2>1, <2>2, <2>3 DEF PartTrail
<1>8. Send!TypeOK'
  <2>1. reply' \in [Sends -> {"none", "refused", "known", "error"} \cup Send!Results \cup Send!Exceptions]
    BY <1>2 DEF Send!TypeOK
  <2>2. cache' \in [Send!IDs -> {"none", "uncertain"} \cup Send!Results]
    BY <1>3 DEF Send!TypeOK
  <2>3. dispatched' \subseteq Sends \X Send!Attempts
    BY <1>1, <1>3 DEF Send!TypeOK, Send!Attempts
  <2>4. QED
    BY <1>1, <2>1, <2>2, <2>3 DEF Send!TypeOK
<1>9. QED
  BY <1>4, <1>7, <1>8

(* A step that leaves send() alone, and at most commits a reply.           *)
LEMMA OthersKeepParts ==
  ASSUME Send!TypeOK, PartTrail, UNCHANGED sendVars,
         prepared \in [Messages -> Replies \cup {None}],
         \A m \in Messages : prepared[m] # None => prepared'[m] = prepared[m]
  PROVE  Send!TypeOK' /\ PartTrail'
<1>1. \A s \in Sends : Done(s)' <=> Done(s)
  BY DEF Done, sendVars
<1>2. \A s \in Sends : Ready(s) => Ready(s)'
  <2>1. ASSUME NEW s \in Sends, Ready(s) PROVE Ready(s)'
    BY <1>1, <2>1, ReadyStays
  <2>2. QED
    BY <2>1
<1>3. \A q \in requests : q.op \in Sends
  BY DEF Send!TypeOK, Send!Requests
<1>4. PartTrail'
  BY <1>1, <1>2, <1>3 DEF PartTrail, sendVars
<1>5. QED
  BY <1>4 DEF Send!TypeOK, sendVars

(* Prepare() commits one reply, and a replay yields it again.              *)
LEMMA PrepareIs ==
  ASSUME TypeOK, RunTrail, Prepare
  PROVE  /\ at \in Messages /\ prepared' \in [Messages -> Replies \cup {None}]
         /\ prepared'[at] \in Replies
         /\ \A m \in Messages : prepared'[m] = prepared[m] \/ (m = at /\ prepared[m] = None)
<1>1. at \in Messages
  BY DEF Prepare, RunTrail
<1>2. prepared[at] = None \/ prepared[at] \in Replies
  BY <1>1 DEF TypeOK
<1>3. PICK r \in Replies : prepared' = [prepared EXCEPT ![at] = r] /\ (prepared[at] # None => r = prepared[at])
  BY <1>2 DEF Prepare
<1>4. QED
  BY <1>1, <1>3 DEF TypeOK

(* The part that SendPart hands to send() is ready.                        *)
LEMMA SendPartIs ==
  ASSUME TypeOK, RunTrail, SendPart
  PROVE  /\ at \in Messages /\ part' \in Parts /\ part' \in prepared[at]
         /\ DoneBefore(at, part') /\ <<at, part'>> \in Sends
<1>1. at \in Messages /\ prepared[at] \in Replies /\ DoneBefore(at, part)
  BY DEF SendPart, RunTrail, TypeOK, DoneBefore
<1>2. part' \in Left /\ \A p \in prepared[at] : p < part' => p < part
  <2>1. part \in 0..(MaxFiles + 1) /\ part' = Min(Left) /\ Left # {}
    BY DEF TypeOK, SendPart
  <2>2. QED
    BY <1>1, <2>1, FirstLeft DEF Left
<1>3. part' \in prepared[at] /\ prepared[at] \subseteq Parts
  BY <1>1, <1>2, ReplyParts DEF Left
<1>4. QED
  BY <1>1, <1>2, <1>3 DEF DoneBefore, Sends

(* No step makes the service or the calls of send() forget what they know. *)
LEMMA PartsKept ==
  ASSUME TypeOK, RunnerTrail, Next
  PROVE  Send!TypeOK' /\ PartTrail'
<1> USE DEF RunnerTrail
<1>1. Send!TypeOK /\ prepared \in [Messages -> Replies \cup {None}]
  BY DEF TypeOK
<1>2. CASE UNCHANGED <<prepared, sendVars>>
  BY <1>1, <1>2, OthersKeepParts
<1>3. CASE Prepare
  BY <1>1, <1>3, OthersKeepParts, PrepareIs DEF Prepare
<1>4. CASE SendPart
  <2>1. <<at, part'>> \in Sends /\ Ready(<<at, part'>>)
    BY <1>4, SendPartIs DEF Ready
  <2>2. QED
    BY <1>1, <1>4, <2>1, BeginKeepsParts DEF SendPart, storeVars
<1>5. CASE Crash
  <2>1. CASE pc # "sending"
    BY <1>2, <1>5, <2>1 DEF Crash, storeVars
  <2>2. CASE pc = "sending"
    <3>1. <<at, part>> \in Sends
      BY <2>2, ReplyParts DEF RunTrail, DoneBefore, TypeOK, Sends
    <3>2. QED
      BY <1>1, <1>5, <2>2, <3>1, ClientKeepsParts DEF Crash, storeVars
  <2>3. QED
    BY <2>1, <2>2
<1>6. CASE SendStep
  <2>1. UNCHANGED prepared
    BY <1>6 DEF SendStep, storeVars
  <2>2. \/ \E o \in Sends : \/ Send!CheckPasses(o) \/ Send!CheckFails(o) \/ Send!WriteRequest(o)
                            \/ Send!NotWritten(o) \/ Send!Receive(o) \/ Send!Lose(o) \/ Send!Cancel(o)
        \/ \E q \in requests : Service(q)
    BY <1>6 DEF SendStep, Service
  <2>3. QED
    BY <1>1, <2>1, <2>2, ClientKeepsParts, ServiceKeepsParts
<1>7. Prepare \/ SendPart \/ Crash \/ SendStep \/ UNCHANGED <<prepared, sendVars>>
  BY DEF Next, Run, Start, NextEvent, Reconnect, StreamFails, IsComplete, Fetch, Sent, Complete,
    CallAck, Acked, AckRefused, AckFails, Drop, Deliver, RecordAck, storeVars
<1>8. QED
  BY <1>2, <1>3, <1>4, <1>5, <1>6, <1>7

(* What was confirmed stays confirmed, and a committed reply stays.        *)
LEMMA DoneStays ==
  ASSUME TypeOK, RunnerTrail, Next
  PROVE  /\ \A s \in Sends : Done(s) => Done(s)'
         /\ \A m \in Messages : prepared[m] # None => prepared'[m] = prepared[m]
<1>1. Send!TypeOK /\ prepared \in [Messages -> Replies \cup {None}]
  BY DEF TypeOK
<1>2. CASE SendStep
  <2>1. UNCHANGED prepared
    BY <1>2 DEF SendStep, storeVars
  <2>2. CASE \E q \in requests : Service(q)
    BY <1>1, <2>1, <2>2, ServiceKeepsParts DEF RunnerTrail
  <2>3. CASE UNCHANGED cache
    BY <2>1, <2>3 DEF Done
  <2>4. UNCHANGED cache \/ \E q \in requests : Service(q)
    BY <1>2 DEF SendStep, Service, Send!CheckPasses, Send!CheckFails, Send!WriteRequest,
      Send!NotWritten, Send!Receive, Send!Lose
  <2>5. QED
    BY <2>1, <2>2, <2>3, <2>4
<1>3. CASE Prepare
  BY <1>3, PrepareIs DEF Prepare, sendVars, Done, RunnerTrail
<1>4. CASE UNCHANGED <<prepared, cache>>
  BY <1>4 DEF Done
<1>5. SendStep \/ Prepare \/ UNCHANGED <<prepared, cache>>
  BY DEF Next, Run, Start, NextEvent, Reconnect, StreamFails, IsComplete, Fetch, SendPart, Sent,
    Complete, CallAck, Acked, AckRefused, AckFails, Crash, Drop, Deliver, RecordAck, storeVars,
    sendVars, Send!Begin, Send!Cancel
<1>6. QED
  BY <1>2, <1>3, <1>4, <1>5

(* Every variable has its type.                                            *)
LEMMA TypeInit == Init => TypeOK
<1> SUFFICES ASSUME Init PROVE TypeOK
  OBVIOUS
<1>1. Send!TypeOK
  BY PartIDs DEF Init, Send!Init, Send!TypeOK
<1>2. MaxFiles \in Nat /\ MaxFaults \in Nat /\ MaxCalls \in Nat
  BY RunnerAssumption
<1>3. feed \in Seq(Messages \cup Notices)
  BY DEF Init
<1>4. /\ part \in 0..(MaxFiles + 1) /\ call \in 0..MaxCalls /\ faults \in 0..MaxFaults
      /\ live \in BOOLEAN /\ completed \subseteq Messages
      /\ prepared \in [Messages -> Replies \cup {None}]
  <2>1. part = 0 /\ call = 0 /\ faults = 0
    BY DEF Init
  <2>2. live \in BOOLEAN /\ completed \subseteq Messages
    BY DEF Init
  <2>3. prepared \in [Messages -> Replies \cup {None}]
    BY DEF Init
  <2>4. part \in 0..(MaxFiles + 1) /\ call \in 0..MaxCalls /\ faults \in 0..MaxFaults
    BY <1>2, <2>1
  <2>5. QED
    BY <2>2, <2>3, <2>4
<1>5. QED
  BY <1>1, <1>3, <1>4 DEF Init, TypeOK

(* The steps of the process keep every type.                               *)
LEMMA TypeNext ==
  ASSUME TypeOK, RunnerTrail, Next
  PROVE  TypeOK'
<1>1. Send!TypeOK'
  BY PartsKept
<1>2. faults' \in 0..MaxFaults
  BY RunnerAssumption DEF TypeOK, Next, Run, Start, NextEvent, Reconnect, StreamFails, IsComplete,
    Fetch, Prepare, SendPart, Sent, Complete, CallAck, Acked, AckRefused, AckFails, Crash, Drop,
    Deliver, RecordAck, SendStep, Fault, vars
<1>3. call' \in 0..MaxCalls
  BY RunnerAssumption DEF TypeOK, Next, Run, Start, NextEvent, Reconnect, StreamFails, IsComplete,
    Fetch, Prepare, SendPart, Sent, Complete, CallAck, Acked, AckRefused, AckFails, Crash, Drop,
    Deliver, RecordAck, SendStep, ackVars
<1>4. feed' \in Seq(Messages \cup Notices) /\ live' \in BOOLEAN
  <2>1. feed \in Seq(Messages \cup Notices) /\ live \in BOOLEAN
    BY DEF TypeOK
  <2>2. CASE NextEvent
    BY <2>1, <2>2 DEF NextEvent
  <2>3. ASSUME NEW e \in Messages \cup Notices, Deliver(e) PROVE feed' \in Seq(Messages \cup Notices) /\ live' \in BOOLEAN
    BY <2>1, <2>3 DEF Deliver
  <2>4. CASE feed' \in {feed, <<>>} /\ live' \in {live, TRUE, FALSE}
    <3>1. <<>> \in Seq(Messages \cup Notices)
      OBVIOUS
    <3>2. QED
      BY <2>1, <2>4, <3>1
  <2>5. QED
    BY <2>2, <2>3, <2>4 DEF Next, Run, Start, Reconnect, StreamFails, IsComplete, Fetch, Prepare,
      SendPart, Sent, Complete, CallAck, Acked, AckRefused, AckFails, Crash, Drop, RecordAck, SendStep,
      streamVars, Raise
<1>5. completed' \subseteq Messages /\ prepared' \in [Messages -> Replies \cup {None}]
  <2>1. CASE Prepare
    BY <2>1, PrepareIs DEF Prepare, RunnerTrail, TypeOK
  <2>2. CASE Complete
    BY <2>2 DEF Complete, RunnerTrail, RunTrail, TypeOK
  <2>3. CASE UNCHANGED storeVars
    BY <2>3 DEF storeVars, TypeOK
  <2>4. QED
    BY <2>1, <2>2, <2>3 DEF Next, Run, Start, NextEvent, Reconnect, StreamFails, IsComplete, Fetch,
      SendPart, Sent, CallAck, Acked, AckRefused, AckFails, Crash, Drop, Deliver, RecordAck, SendStep
<1>6. at' \in Messages \cup {None}
  BY DEF TypeOK, Next, Run, Start, NextEvent, Reconnect, StreamFails, IsComplete, Fetch, Prepare,
    SendPart, Sent, Complete, CallAck, Acked, AckRefused, AckFails, Crash, Drop, Deliver, RecordAck,
    SendStep, runVars, Raise
<1>7. pc' \in {"down", "wait", "lookup", "fetch", "prepare", "reply", "sending", "ack", "acking"}
  BY DEF TypeOK, Next, Run, Start, NextEvent, Reconnect, StreamFails, IsComplete, Fetch, Prepare,
    SendPart, Sent, Complete, CallAck, Acked, AckRefused, AckFails, Crash, Drop, Deliver, RecordAck,
    SendStep, runVars, Raise
<1>8. part' \in 0..(MaxFiles + 1)
  <2>1. CASE SendPart
    BY <2>1, SendPartIs, RunnerAssumption DEF RunnerTrail, Parts
  <2>2. CASE Sent
    <3>1. part \in Parts
      BY <2>2, ReplyParts DEF Sent, RunnerTrail, RunTrail, DoneBefore, TypeOK
    <3>2. QED
      BY <2>2, <3>1, RunnerAssumption DEF Sent, Raise, Parts
  <2>3. CASE part' = part \/ part' = 0
    BY <2>3, RunnerAssumption DEF TypeOK
  <2>4. QED
    BY <2>1, <2>2, <2>3 DEF Next, Run, Start, NextEvent, Reconnect, StreamFails, IsComplete, Fetch,
      Prepare, Complete, CallAck, Acked, AckRefused, AckFails, Crash, Drop, Deliver, RecordAck,
      SendStep, runVars, Raise
<1>9. QED
  BY <1>1, <1>2, <1>3, <1>4, <1>5, <1>6, <1>7, <1>8 DEF TypeOK

(* The calls of ack() keep their types.                                    *)
LEMMA AcksKept ==
  ASSUME TypeOK, RunnerTrail, Next
  PROVE  AckTypes'
<1>1. CASE UNCHANGED ackVars
  BY <1>1 DEF ackVars, AckTypes, RunnerTrail
<1>2. CASE NextEvent
  BY <1>2 DEF NextEvent, Ack!Hand, ackVars, AckTypes, RunnerTrail
<1>3. CASE CallAck
  BY <1>3, RunnerAssumption DEF CallAck, Ack!Request, AckTypes, RunnerTrail, Calls, TypeOK
<1>4. CASE Acked \/ AckRefused \/ AckFails
  BY <1>4 DEF Acked, AckRefused, AckFails, Ack!Succeed, Ack!Fail, AckTypes, RunnerTrail
<1>5. ASSUME NEW k \in Calls, RecordAck(k) PROVE AckTypes'
  BY <1>5 DEF RecordAck, Ack!Record, AckTypes, RunnerTrail
<1>6. QED
  BY <1>1, <1>2, <1>3, <1>4, <1>5 DEF Next, Run, Start, Reconnect, StreamFails, IsComplete, Fetch,
    Prepare, SendPart, Sent, Complete, Crash, Drop, Deliver, SendStep

(* What is before a part stays done.                                       *)
LEMMA BeforeStays ==
  ASSUME TypeOK, RunnerTrail, Next, NEW m \in Messages, NEW p \in Nat, DoneBefore(m, p)
  PROVE  DoneBefore(m, p)'
<1>1. prepared[m] \in Replies /\ prepared'[m] = prepared[m] /\ prepared[m] # None
  BY DoneStays DEF DoneBefore, TypeOK
<1>2. \A i \in prepared[m] : <<m, i>> \in Sends
  BY <1>1, ReplyParts DEF Sends
<1>3. QED
  BY <1>1, <1>2, DoneStays DEF DoneBefore

(* Where run() is.                                                         *)
LEMMA RunKept ==
  ASSUME TypeOK, RunnerTrail, Next
  PROVE  RunTrail'
<1> USE DEF RunnerTrail
<1>1. pc' \notin {"down", "wait"} => at' \in Messages
  BY DEF RunTrail, Next, Run, Start, NextEvent, Reconnect, StreamFails, IsComplete, Fetch, Prepare,
    SendPart, Sent, Complete, CallAck, Acked, AckRefused, AckFails, Crash, Drop, Deliver, RecordAck,
    SendStep, runVars, Raise
<1>2. pc' \in {"fetch", "prepare"} => part' = 0
  BY DEF RunTrail, Next, Run, Start, NextEvent, Reconnect, StreamFails, IsComplete, Fetch, Prepare,
    SendPart, Sent, Complete, CallAck, Acked, AckRefused, AckFails, Crash, Drop, Deliver, RecordAck,
    SendStep, runVars, Raise
<1>3. /\ pc' \in {"reply", "sending"} => DoneBefore(at, part)'
      /\ pc' = "sending" => part' \in prepared'[at']
  <2>1. CASE Prepare
    <3>1. prepared'[at] \in Replies /\ (pc' = "reply" => at' = at /\ part' = 0) /\ pc' # "sending"
      BY <2>1, PrepareIs DEF Prepare, RunTrail, Raise
    <3>2. prepared'[at] # None /\ \A i \in prepared'[at] : ~(i < 0)
      BY <3>1, ReplyParts, RunnerAssumption
    <3>3. QED
      BY <3>1, <3>2 DEF DoneBefore
  <2>2. CASE SendPart
    <3>1. DoneBefore(at, part') /\ at \in Messages /\ part' \in Nat /\ part' \in prepared[at]
      BY <2>2, SendPartIs, RunnerAssumption DEF Parts
    <3>2. UNCHANGED <<at, prepared, cache>>
      BY <2>2 DEF SendPart, Send!Begin, storeVars
    <3>3. QED
      BY <3>1, <3>2 DEF DoneBefore, Done
  <2>3. CASE Sent
    <3>1. at \in Messages /\ DoneBefore(at, part) /\ part \in prepared[at] /\ prepared[at] \in Replies
      BY <2>3 DEF Sent, RunTrail, DoneBefore, TypeOK
    <3>2. part \in Nat /\ prepared[at] \subseteq Nat /\ <<at, part>> \in Sends
      BY <3>1, ReplyParts DEF Sends
    <3>3. CASE pc' = "reply"
      <4>1. part' = part + 1 /\ UNCHANGED <<at, prepared, cache>> /\ outcome[<<at, part>>] = "confirmed"
        BY <2>3, <3>3 DEF Sent, Raise, Confirmed, storeVars, sendVars
      <4>2. Done(<<at, part>>)
        BY <3>2, <4>1 DEF PartTrail
      <4>3. QED
        BY <3>1, <3>2, <3>3, <4>1, <4>2 DEF DoneBefore, Done
    <3>4. QED
      BY <2>3, <3>3 DEF Sent, Raise
  <2>4. CASE pc' \in {"reply", "sending"} => UNCHANGED runVars
    <3>1. ASSUME pc' \in {"reply", "sending"} PROVE DoneBefore(at, part)'
      <4>1. UNCHANGED runVars /\ at \in Messages /\ part \in Nat /\ DoneBefore(at, part)
        BY <2>4, <3>1, RunnerAssumption DEF runVars, RunTrail, TypeOK
      <4>2. DoneBefore(at, part)'
        BY <4>1, BeforeStays DEF runVars, DoneBefore
      <4>3. QED
        BY <4>2
    <3>2. ASSUME pc' = "sending" PROVE part' \in prepared'[at']
      <4>1. UNCHANGED runVars /\ at \in Messages /\ prepared[at] # None /\ part \in prepared[at]
        BY <2>4, <3>2 DEF runVars, RunTrail, DoneBefore
      <4>2. QED
        BY <4>1, DoneStays DEF runVars
    <3>3. QED
      BY <3>1, <3>2
  <2>5. QED
    BY <2>1, <2>2, <2>3, <2>4 DEF Next, Run, Start, NextEvent, Reconnect, StreamFails, IsComplete,
      Fetch, Complete, CallAck, Acked, AckRefused, AckFails, Crash, Drop, Deliver, RecordAck, SendStep,
      runVars, Raise
<1>4. pc' \in {"ack", "acking"} => at' \in completed'
  BY DEF RunTrail, Next, Run, Start, NextEvent, Reconnect, StreamFails, IsComplete, Fetch, Prepare,
    SendPart, Sent, Complete, CallAck, Acked, AckRefused, AckFails, Crash, Drop, Deliver, RecordAck,
    SendStep, runVars, storeVars, Raise
<1>5. completed \subseteq completed'
  BY DEF Next, Run, Start, NextEvent, Reconnect, StreamFails, IsComplete, Fetch, Prepare, SendPart,
    Sent, Complete, CallAck, Acked, AckRefused, AckFails, Crash, Drop, Deliver, RecordAck, SendStep,
    storeVars
<1>6. /\ \A k \in Calls : status'[k] # "idle" => named'[k] \in completed'
      /\ \A k \in recorded' : status'[k] # "idle"
  <2>1. CASE UNCHANGED <<named, recorded, status>>
    BY <1>5, <2>1 DEF RunTrail
  <2>2. CASE CallAck
    <3>1. call' \in Calls /\ at \in completed /\ named'[call'] = at
      BY <2>2, RunnerAssumption DEF CallAck, RunTrail, TypeOK, Calls
    <3>2. PICK r \in delivered : /\ named' = [named EXCEPT ![call'] = r]
                                 /\ status' = [status EXCEPT ![call'] = "running"]
                                 /\ UNCHANGED recorded
      BY <2>2 DEF CallAck, Ack!Request
    <3>3. QED
      BY <1>5, <3>1, <3>2 DEF RunTrail, AckTypes
  <2>3. CASE Acked \/ AckRefused \/ AckFails
    BY <1>5, <2>3 DEF Acked, AckRefused, AckFails, Ack!Succeed, Ack!Fail, RunTrail, AckTypes
  <2>4. ASSUME NEW k \in Calls, RecordAck(k) PROVE /\ UNCHANGED <<named, status>>
                                                   /\ recorded' = recorded \cup {k} /\ status[k] # "idle"
    BY <2>4 DEF RecordAck, Ack!Record
  <2>5. QED
    BY <1>5, <2>1, <2>2, <2>3, <2>4 DEF RunTrail, Next, Run, Start, NextEvent, Ack!Hand, Reconnect,
      StreamFails, IsComplete, Fetch, Prepare, SendPart, Sent, Complete, Crash, Drop, Deliver, SendStep,
      ackVars
<1>7. QED
  BY <1>1, <1>2, <1>3, <1>4, <1>6 DEF RunTrail

(* A fresh process knows nothing, and the trail starts there.              *)
LEMMA TrailInit == Init => RunnerTrail
<1> SUFFICES ASSUME Init PROVE RunnerTrail
  OBVIOUS
<1>1. AckTypes /\ RunTrail
  BY DEF Init, Ack!Init, AckTypes, RunTrail
<1>2. PartTrail
  BY DEF Init, Send!Init, PartTrail
<1>3. QED
  BY <1>1, <1>2 DEF RunnerTrail

LEMMA Inductive == Spec => [](TypeOK /\ RunnerTrail)
<1>1. Init => TypeOK /\ RunnerTrail
  BY TypeInit, TrailInit
<1>2. TypeOK /\ RunnerTrail /\ [Next]_vars => (TypeOK /\ RunnerTrail)'
  <2> SUFFICES ASSUME TypeOK, RunnerTrail, [Next]_vars PROVE TypeOK' /\ RunnerTrail'
    OBVIOUS
  <2>1. CASE Next
    BY <2>1, TypeNext, AcksKept, PartsKept, RunKept DEF RunnerTrail
  <2>2. CASE UNCHANGED vars
    <3>1. AckTypes' /\ RunTrail'
      BY <2>2 DEF vars, runVars, storeVars, ackVars, sendVars, RunnerTrail, AckTypes, RunTrail,
        DoneBefore, Done
    <3>2. PartTrail' /\ Send!TypeOK'
      BY <2>2, OthersKeepParts DEF vars, storeVars, RunnerTrail, TypeOK
    <3>3. QED
      BY <2>2, <3>1, <3>2 DEF RunnerTrail, TypeOK, vars, runVars, storeVars, streamVars, ackVars
  <2>3. QED
    BY <2>1, <2>2
<1>3. QED
  BY <1>1, <1>2, PTL DEF Spec

-----------------------------------------------------------------------------
(* Type correctness of the runner, its calls and its store, for any        *)
(* messages, faults and bounds (adapter.py:74-107).                        *)
THEOREM RunnerTypes == Spec => []TypeOK
BY Inductive, PTL

(* A message that was completed is never fetched, prepared or replied to   *)
(* again (adapter.py:79-80 asks the store first).                          *)
THEOREM HandlesOnce == Spec => []HandledOnce
<1>1. Init => HandledOnce
  BY DEF Init, HandledOnce
<1>2. HandledOnce /\ [Next]_vars => HandledOnce'
  BY DEF HandledOnce, Next, Run, Start, NextEvent, Reconnect, StreamFails, IsComplete, Fetch, Prepare,
    SendPart, Sent, Complete, CallAck, Acked, AckRefused, AckFails, Crash, Drop, Deliver, RecordAck,
    SendStep, Raise, vars, runVars, storeVars
<1>3. QED
  BY <1>1, <1>2, PTL DEF Spec

-----------------------------------------------------------------------------
(* The refinement.                                                         *)

(* The parts the contract speaks of are those the runner sends.            *)
LEMMA ContractParts == Reply!Parts = Parts
<1>1. Reply!Parts \subseteq Parts
  BY ReplyParts DEF Reply!Parts
<1>2. ASSUME NEW i \in Parts PROVE i \in Reply!Parts
  <2>1. {} \cup 1..i \in Replies /\ {0} \cup 1..i \in Replies
    <3>1. /\ {} \in {{}, {0}} /\ {0} \in {{}, {0}}
          /\ 1..i \in {1..n : n \in Parts}
      OBVIOUS
    <3>2. ASSUME NEW t \in {{}, {0}}, NEW f \in {1..n : n \in Parts} PROVE t \cup f \in Replies
      <4>1. \E a \in {{}, {0}} : \E b \in {1..n : n \in Parts} : t \cup f = a \cup b
        <5>1. WITNESS t \in {{}, {0}}
        <5>2. WITNESS f \in {1..n : n \in Parts}
        <5>3. QED
          OBVIOUS
      <4>2. QED
        BY <4>1, SMT DEF Replies
    <3>3. QED
      BY <3>1, <3>2, Zenon
  <2>2. i \in {} \cup 1..i \/ i \in {0} \cup 1..i
    BY RunnerAssumption DEF Parts
  <2>3. QED
    BY <2>1, <2>2 DEF Reply!Parts
<1>3. QED
  BY <1>1, <1>2

(* A part that was not dispatched was sent no times, another one once.     *)
LEMMA TimesSent ==
  ASSUME NEW o \in Sends
  PROVE  /\ (\A n \in 1..MaxAttempts : <<o, n>> \notin dispatched) => Times(o) = 0
         /\ \A n \in 1..MaxAttempts :
              (\A i \in 1..MaxAttempts : <<o, i>> \in dispatched <=> i = n) => Times(o) = 1
<1>1. ASSUME \A n \in 1..MaxAttempts : <<o, n>> \notin dispatched PROVE Times(o) = 0
  <2>1. {n \in 1..MaxAttempts : <<o, n>> \in dispatched} = {}
    BY <1>1
  <2>2. QED
    BY <2>1, FS_EmptySet DEF Times
<1>2. ASSUME NEW n \in 1..MaxAttempts, \A i \in 1..MaxAttempts : <<o, i>> \in dispatched <=> i = n
      PROVE  Times(o) = 1
  <2>1. {i \in 1..MaxAttempts : <<o, i>> \in dispatched} = {n}
    BY <1>2
  <2>2. QED
    BY <2>1, FS_Singleton DEF Times
<1>3. QED
  BY <1>1, <1>2

(* A runner without a past is the contract's beginning.                    *)
LEMMA ContractInit == Init => Reply!Init
<1> SUFFICES ASSUME Init PROVE Reply!Init
  OBVIOUS
<1>1. dispatched = {} /\ recorded = {} /\ completed = {} /\ prepared = [m \in Messages |-> None]
  BY DEF Init, Send!Init, Ack!Init
<1>2. [o \in Sends |-> Times(o)] = [p \in Messages \X Reply!Parts |-> 0]
  <2>1. \A o \in Sends : Times(o) = 0
    BY <1>1, TimesSent
  <2>2. QED
    BY <2>1, ContractParts DEF Sends
<1>3. {o \in Sends : cache[<<o, 1>>] = "confirmed"} = {}
  BY PartIDs DEF Init, Send!Init
<1>4. Acknowledged = {}
  BY <1>1 DEF Acknowledged
<1>5. QED
  BY <1>1, <1>2, <1>3, <1>4 DEF Reply!Init

(* What the contract does not see.                                         *)
LEMMA ContractStutter ==
  UNCHANGED <<prepared, cache, dispatched, completed, Acknowledged>> => UNCHANGED Reply!vars
BY DEF Reply!vars, Times

(* The service drives Messages for a part: the contract sends it.          *)
LEMMA DispatchSends ==
  ASSUME TypeOK, RunnerTrail, NEW q \in requests, UNCHANGED <<prepared, completed, Acknowledged>>,
         cache[<<q.op, 1>>] = "none",
         NEW e \in {"uncertain"} \cup Send!Results, cache' = [cache EXCEPT ![<<q.op, 1>>] = e],
         dispatched' = dispatched \cup {<<q.op, q.try>>}
  PROVE  Reply!Next
<1> DEFINE m == q.op[1]
           p == q.op[2]
           sent == [o \in Sends |-> Times(o)]
           confirmed == {o \in Sends : cache[<<o, 1>>] = "confirmed"}
<1>1. /\ q.op \in Sends /\ q.try \in 1..MaxAttempts /\ Ready(q.op) /\ Send!TypeOK
      /\ m \in Messages /\ p \in Parts /\ q.op = <<m, p>>
  BY DEF TypeOK, Send!TypeOK, Send!Requests, Send!Attempts, RunnerTrail, PartTrail, Sends
<1>2. \A n \in 1..MaxAttempts : <<q.op, n>> \notin dispatched
  BY <1>1 DEF RunnerTrail, PartTrail
<1>3. sent[q.op] = 0
  BY <1>1, <1>2, TimesSent
<1>4. sent' = [sent EXCEPT ![q.op] = 1]
  <2>1. Times(q.op)' = 1
    <3>1. {n \in 1..MaxAttempts : <<q.op, n>> \in dispatched'} = {q.try}
      BY <1>1, <1>2
    <3>2. QED
      BY <3>1, FS_Singleton DEF Times
  <2>2. \A o \in Sends \ {q.op} : Times(o)' = Times(o)
    <3>1. ASSUME NEW o \in Sends \ {q.op} PROVE Times(o)' = Times(o)
      <4>1. \A n \in 1..MaxAttempts : <<o, n>> \in dispatched' <=> <<o, n>> \in dispatched
        OBVIOUS
      <4>2. QED
        BY <4>1 DEF Times
    <3>2. QED
      BY <3>1
  <2>3. QED
    BY <1>1, <2>1, <2>2
<1>5. confirmed' \in {confirmed, confirmed \cup {<<m, p>>}}
  <2>1. \A o \in Sends : <<o, 1>> \in Send!IDs
    BY PartIDs
  <2>2. \A o \in Sends \ {q.op} : cache'[<<o, 1>>] = cache[<<o, 1>>]
    BY <1>1, <2>1 DEF Send!TypeOK
  <2>3. q.op \notin confirmed
    OBVIOUS
  <2>4. QED
    BY <1>1, <2>2, <2>3
<1>6. prepared[m] # None /\ p \in prepared[m] /\ \A i \in prepared[m] : i < p => <<m, i>> \in confirmed
  <2>1. prepared[m] # None /\ p \in prepared[m] /\ \A i \in prepared[m] : i < p => Done(<<m, i>>)
    BY <1>1 DEF Ready, DoneBefore
  <2>2. \A i \in prepared[m] : <<m, i>> \in Sends
    BY <1>1, <2>1, ReplyParts DEF TypeOK, Sends
  <2>3. QED
    BY <2>1, <2>2 DEF Done
<1>7. Reply!SendPart(m, p)
  BY <1>1, <1>3, <1>4, <1>5, <1>6 DEF Reply!SendPart
<1>8. QED
  BY <1>1, <1>7, ContractParts DEF Reply!Next

(* Every step of the runner is one of the contract, or none.               *)
LEMMA ContractStep ==
  ASSUME TypeOK, RunnerTrail, Next
  PROVE  Reply!Next \/ UNCHANGED Reply!vars
<1>1. CASE UNCHANGED <<prepared, cache, dispatched, completed, Acknowledged>>
  BY <1>1, ContractStutter
<1>2. CASE Prepare
  <2>1. UNCHANGED <<cache, dispatched, completed, Acknowledged>>
    BY <1>2 DEF Prepare, sendVars, ackVars, Acknowledged
  <2>2. CASE prepared[at] = None
    <3>1. at \in Messages /\ \E r \in Replies : prepared' = [prepared EXCEPT ![at] = r]
      BY <1>2, <2>2 DEF Prepare, RunnerTrail, RunTrail
    <3>2. Reply!Commit(at)
      BY <2>1, <2>2, <3>1 DEF Reply!Commit, Times
    <3>3. QED
      BY <3>1, <3>2 DEF Reply!Next
  <2>3. CASE prepared[at] # None
    <3>1. prepared' = prepared
      BY <1>2, <2>3 DEF Prepare, TypeOK
    <3>2. QED
      BY <2>1, <3>1, ContractStutter
  <2>4. QED
    BY <2>2, <2>3
<1>3. CASE Complete
  <2>1. UNCHANGED <<prepared, cache, dispatched, Acknowledged>>
    BY <1>3 DEF Complete, sendVars, ackVars, Acknowledged
  <2>2. at \in Messages /\ DoneBefore(at, part) /\ prepared[at] \in Replies
    BY <1>3 DEF Complete, RunnerTrail, RunTrail, DoneBefore, TypeOK
  <2>3. \A i \in prepared[at] : i < part /\ <<at, i>> \in Sends
    <3>1. part \in Nat /\ prepared[at] \subseteq Nat /\ prepared[at] \subseteq Parts
      BY <2>2, ReplyParts, RunnerAssumption DEF TypeOK
    <3>2. QED
      BY <1>3, <2>2, <3>1 DEF Complete, Left, Sends
  <2>4. Reply!Finish(at)
    BY <1>3, <2>1, <2>2, <2>3 DEF Complete, DoneBefore, Done, Times, Reply!Finish
  <2>5. QED
    BY <2>2, <2>4 DEF Reply!Next
<1>4. ASSUME NEW k \in Calls, RecordAck(k) PROVE Reply!Next
  <2>1. UNCHANGED <<prepared, cache, dispatched, completed, named>> /\ recorded' = recorded \cup {k}
    BY <1>4 DEF RecordAck, Ack!Record, sendVars, storeVars
  <2>2. named[k] \in completed /\ named[k] \in Messages
    BY <1>4 DEF RecordAck, Ack!Record, RunnerTrail, RunTrail, TypeOK
  <2>3. Acknowledged' = Acknowledged \cup {named[k]}
    BY <2>1 DEF Acknowledged
  <2>4. Reply!Acknowledge(named[k])
    BY <2>1, <2>2, <2>3 DEF Reply!Acknowledge, Times
  <2>5. QED
    BY <2>2, <2>4 DEF Reply!Next
<1>5. CASE CallAck
  <2>1. UNCHANGED <<prepared, cache, dispatched, completed, recorded>> /\ call' \notin recorded
        /\ \E r \in delivered : named' = [named EXCEPT ![call'] = r]
    BY <1>5 DEF CallAck, Ack!Request, sendVars, storeVars, RunnerTrail, RunTrail
  <2>2. \A k \in recorded : named'[k] = named[k]
    BY <2>1 DEF RunnerTrail, AckTypes
  <2>3. QED
    BY <2>1, <2>2, ContractStutter DEF Acknowledged
<1>6. CASE SendStep
  <2>1. UNCHANGED <<prepared, completed, Acknowledged>>
    BY <1>6 DEF SendStep, storeVars, ackVars, Acknowledged
  <2>2. ASSUME NEW q \in requests, Send!Dispatch(q) \/ Send!FailDispatch(q)
        PROVE  Reply!Next \/ UNCHANGED Reply!vars
    <3>1. q.op \in Sends /\ q.id = <<q.op, 1>> /\ q.id \in Send!IDs /\ cache[q.id] = "none"
      BY <2>2 DEF Send!Dispatch, Send!FailDispatch, RunnerTrail, PartTrail, TypeOK, Send!TypeOK,
        Send!Requests
    <3>2. PICK e \in {"uncertain"} \cup Send!Results :
            /\ cache' = [cache EXCEPT ![q.id] = e]
            /\ \/ dispatched' = dispatched \cup {<<q.op, q.try>>}
               \/ dispatched' = dispatched /\ e = "uncertain"
      BY <2>2 DEF Send!Dispatch, Send!FailDispatch
    <3>3. CASE dispatched' = dispatched \cup {<<q.op, q.try>>}
      BY <2>1, <3>1, <3>2, <3>3, DispatchSends
    <3>4. CASE dispatched' = dispatched /\ e = "uncertain"
      <4>1. \A o \in Sends : cache'[<<o, 1>>] = "confirmed" <=> cache[<<o, 1>>] = "confirmed"
        BY <3>1, <3>2, <3>4, PartIDs DEF TypeOK, Send!TypeOK
      <4>2. QED
        BY <2>1, <3>4, <4>1 DEF Reply!vars, Times
    <3>5. QED
      BY <3>2, <3>3, <3>4
  <2>3. \/ UNCHANGED <<cache, dispatched>>
        \/ \E q \in requests : Send!Dispatch(q) \/ Send!FailDispatch(q)
    BY <1>6 DEF SendStep, Send!CheckPasses, Send!CheckFails, Send!WriteRequest, Send!NotWritten,
      Send!Receive, Send!Lose, Send!Refuse, Send!Recall
  <2>4. QED
    BY <1>1, <2>1, <2>2, <2>3
<1>7. \/ Prepare \/ Complete \/ CallAck \/ SendStep
      \/ \E k \in Calls : RecordAck(k)
      \/ UNCHANGED <<prepared, cache, dispatched, completed, named, recorded>>
  BY DEF Next, Run, Start, NextEvent, Reconnect, StreamFails, IsComplete, Fetch, SendPart, Sent, Acked,
    AckRefused, AckFails, Crash, Drop, Deliver, storeVars, sendVars, ackVars, Send!Begin, Send!Cancel,
    Ack!Hand, Ack!Succeed, Ack!Fail
<1>8. UNCHANGED <<named, recorded>> => UNCHANGED Acknowledged
  BY DEF Acknowledged
<1>9. QED
  BY <1>1, <1>2, <1>3, <1>4, <1>5, <1>6, <1>7, <1>8

(* The runner implements what an adapter promises: one reply per message,  *)
(* its parts in order, none twice, each after the one before it was        *)
(* confirmed, and an ack only after all of it; whatever dies or is lost,   *)
(* and for any number of files, attempts and failures.                     *)
THEOREM RunnerKeepsContract == Spec => RepliesOnce
<1>1. TypeOK /\ RunnerTrail /\ [Next]_vars => [Reply!Next]_(Reply!vars)
  <2> SUFFICES ASSUME TypeOK, RunnerTrail, [Next]_vars PROVE Reply!Next \/ UNCHANGED Reply!vars
    OBVIOUS
  <2>1. CASE UNCHANGED vars
    BY <2>1, ContractStutter DEF vars, storeVars, sendVars, ackVars, Acknowledged
  <2>2. QED
    BY <2>1, ContractStep
<1>2. QED
  BY <1>1, ContractInit, Inductive, PTL DEF Spec, RepliesOnce, Reply!Spec

=============================================================================
