------------------------ MODULE SendOperation_proofs ------------------------
(* What TLAPS proves of SendOperation, for any operations, callers and     *)
(* number of attempts.                                                     *)
EXTENDS SendOperation, TLAPS

(* Return ends a call and leaves the others alone.                         *)
LEMMA TypeReturn ==
  ASSUME TypeOK, NEW o \in Operations,
         NEW e \in {"none", "unsupported", "unchecked", "rejected", "unknown", "cancelled", "unexpected"} \cup Results,
         Return(o, e), UNCHANGED <<attempt, requests, cache, dispatched>>,
         given' \in [Operations -> IDs \cup {None}]
  PROVE  TypeOK'
BY DEF TypeOK, Return

(* A call always has an operation ID to write.                             *)
LEMMA IDType ==
  ASSUME TypeOK, TryTrail, NEW o \in Operations, phase[o] # "idle"
  PROVE  /\ OperationID(o) \in IDs /\ attempt[o] \in Attempts
         /\ (given[o] = None => OperationID(o) = <<o, attempt[o]>>)
         /\ (given[o] # None => OperationID(o) = given[o])
BY SendAssumption DEF TypeOK, TryTrail, OperationID, IDs, Attempts

(* None is no operation ID.                                                *)
LEMMA NoneIsNoID == None \notin IDs
BY SendAssumption DEF IDs, Attempts

(* Every variable keeps its type.                                          *)
LEMMA TypeInit == Init => TypeOK
<1> SUFFICES ASSUME Init, NEW o \in Operations, o \in Supplied PROVE <<o, 1>> \in IDs
  BY SendAssumption DEF Init, TypeOK
<1> QED
  BY SendAssumption DEF IDs, Attempts

(* The steps of the client keep every type.                                *)
LEMMA TypeClient ==
  ASSUME TypeOK, TryTrail, NEW o \in Operations, Client(o) \/ Lose(o)
  PROVE  TypeOK'
<1>1. CASE MayCall(o) /\ Begin(o)
  BY <1>1, SendAssumption DEF Begin, TypeOK
<1>2. CASE CheckFails(o)
  BY <1>2, TypeReturn DEF CheckFails, TypeOK
<1>3. CASE CheckPasses(o)
  BY <1>3 DEF CheckPasses, TypeOK
<1>4. CASE WriteRequest(o)
  <2>1. [op |-> o, id |-> OperationID(o), try |-> attempt[o]] \in Requests
    BY <1>4, IDType DEF WriteRequest, Requests
  <2>2. QED
    BY <1>4, <2>1 DEF WriteRequest, TypeOK
<1>5. CASE NotWritten(o) \/ Lose(o)
  BY <1>5 DEF NotWritten, Lose, TypeOK, Exceptions
<1>6. CASE Receive(o)
  <2>1. given' \in [Operations -> IDs \cup {None}]
    BY <1>6, IDType DEF Receive, Learn, TypeOK
  <2>2. Outcome(reply[o]) \in {"rejected", "unknown", "unexpected"} \cup Results
    BY DEF Outcome
  <2>3. QED
    BY <1>6, <2>1, <2>2, TypeReturn DEF Receive
<1>7. CASE Cancel(o)
  BY <1>7, TypeReturn DEF Cancel, TypeOK
<1>8. QED
  BY <1>1, <1>2, <1>3, <1>4, <1>5, <1>6, <1>7 DEF Client

(* The response of the service is of the call it answers, or of none.      *)
Answered(q, r) ==
  \/ UNCHANGED reply
  \/ /\ phase[q.op] = "await" /\ attempt[q.op] = q.try /\ reply[q.op] = "none"
     /\ reply' = [reply EXCEPT ![q.op] = r]

(* The four ways the service handles a request.                            *)
LEMMA ServiceCases ==
  ASSUME NEW q \in requests, Service(q)
  PROVE  /\ requests' = requests \ {q} /\ UNCHANGED <<phase, attempt, given, outcome>>
         /\ \/ /\ cache[q.id] = "none" /\ UNCHANGED <<cache, dispatched>>
               /\ Answered(q, "refused") \/ Answered(q, "known")
            \/ /\ cache[q.id] = "none" /\ dispatched' = dispatched \cup {<<q.op, q.try>>}
               /\ \E r \in Results : Answered(q, r) /\ cache' = [cache EXCEPT ![q.id] = r]
            \/ /\ cache[q.id] = "none" /\ dispatched' \in {dispatched, dispatched \cup {<<q.op, q.try>>}}
               /\ Answered(q, "error") /\ cache' = [cache EXCEPT ![q.id] = "uncertain"]
            \/ /\ cache[q.id] # "none" /\ UNCHANGED <<cache, dispatched>>
               /\ Answered(q, IF cache[q.id] = "uncertain" THEN "error" ELSE cache[q.id])
BY DEF Service, Refuse, Dispatch, FailDispatch, Recall, Handle, Answer, Answered

(* The steps of the service keep every type.                               *)
LEMMA TypeService ==
  ASSUME TypeOK, NEW q \in requests, Service(q)
  PROVE  TypeOK'
<1>1. q.op \in Operations /\ q.id \in IDs /\ q.try \in Attempts /\ cache[q.id] \in {"none", "uncertain"} \cup Results
  BY DEF TypeOK, Requests
<1>2. ASSUME NEW r \in {"refused", "known", "error"} \cup Results, Answered(q, r)
      PROVE  reply' \in [Operations -> {"none", "refused", "known", "error"} \cup Results \cup Exceptions]
  BY <1>2 DEF Answered, TypeOK
<1>3. reply' \in [Operations -> {"none", "refused", "known", "error"} \cup Results \cup Exceptions]
  BY <1>1, <1>2, ServiceCases
<1>4. cache' \in [IDs -> {"none", "uncertain"} \cup Results] /\ dispatched' \subseteq Operations \X Attempts
  BY <1>1, ServiceCases DEF TypeOK
<1>5. requests' \subseteq Requests /\ UNCHANGED <<phase, attempt, given, outcome>>
  BY ServiceCases DEF TypeOK
<1>6. QED
  BY <1>3, <1>4, <1>5 DEF TypeOK

-----------------------------------------------------------------------------
(* The trails hold at the start.                                           *)
LEMMA TrailInit == Init => SendTrail
BY SendAssumption DEF Init, SendTrail, IDTrail, OneID, Uses, RequestTrail, TryTrail, DispatchTrail, Untouched, IDs,
  Results

(* IDTrail and TryTrail speak of each operation apart: a step of one call   *)
(* has to show them for its own operation.                                 *)
LEMMA OwnTrail ==
  ASSUME TypeOK, SendTrail, NEW o \in Operations, UNCHANGED <<cache, dispatched>>,
         requests' \ requests \subseteq {q \in Requests : q.op = o}, requests \subseteq requests',
         \A p \in Operations \ {o} :
           /\ phase'[p] = phase[p] /\ attempt'[p] = attempt[p] /\ given'[p] = given[p]
           /\ reply'[p] = reply[p] /\ outcome'[p] = outcome[p],
         OneID(o)',
         phase'[o] \in {"check", "auth"} \/ reply'[o] \in {"refused", "known"} => Untouched(o)',
         phase'[o] # "idle" => attempt'[o] >= 1 /\ outcome'[o] = "none"
  PROVE  IDTrail' /\ TryTrail'
<1>1. ASSUME NEW p \in Operations, p # o PROVE OneID(p)'
  <2>1. \A i \in IDs : Uses(p, i)' => Uses(p, i)
    BY <1>1 DEF Uses
  <2>2. Pending(p) => Pending(p)'
    BY <1>1 DEF Pending
  <2>3. OneID(p)
    BY DEF SendTrail, IDTrail
  <2>4. QED
    BY <1>1, <2>1, <2>2, <2>3 DEF OneID
<1>2. ASSUME NEW p \in Operations, p # o
      PROVE  /\ phase'[p] \in {"check", "auth"} => Untouched(p)'
             /\ phase'[p] # "idle" => attempt'[p] >= 1 /\ outcome'[p] = "none"
             /\ reply'[p] \in {"refused", "known"} => Untouched(p)'
  <2>1. Untouched(p) => Untouched(p)'
    BY <1>2 DEF Untouched
  <2>2. QED
    BY <1>2, <2>1 DEF SendTrail, TryTrail
<1>3. QED
  BY <1>1, <1>2 DEF IDTrail, TryTrail

(* A call that ends, and one that raises where it was reading.             *)
LEMMA TrailReturn ==
  ASSUME TypeOK, SendTrail, NEW o \in Operations, NEW e, Return(o, e), phase[o] # "idle",
         UNCHANGED <<attempt, requests, cache, dispatched>>,
         \/ e = "unknown" /\ given' = [given EXCEPT ![o] = OperationID(o)]
         \/ e # "unknown" /\ UNCHANGED given,
         \/ e \in {"cancelled", "unexpected"}
         \/ e \in {"unsupported", "unchecked"} /\ phase[o] = "check"
         \/ e = "rejected" /\ reply[o] \in {"refused", "known"}
         \/ e = "unknown"
         \/ e \in Results /\ phase[o] \in {"auth", "await"} /\ reply[o] = e
  PROVE  SendTrail'
<1>1. /\ phase'[o] = "idle" /\ reply'[o] = "none" /\ outcome'[o] = e
      /\ \A p \in Operations \ {o} :
           phase'[p] = phase[p] /\ given'[p] = given[p] /\ reply'[p] = reply[p] /\ outcome'[p] = outcome[p]
  BY DEF Return, TypeOK
<1>2. OneID(o)
  BY DEF SendTrail, IDTrail
<1>3. OperationID(o) \in IDs /\ OperationID(o)[1] = o /\ OperationID(o) # None
  <2>1. /\ OperationID(o) \in IDs
        /\ given[o] = None => OperationID(o) = <<o, attempt[o]>>
        /\ given[o] # None => OperationID(o) = given[o]
    BY IDType DEF SendTrail
  <2>2. OperationID(o)[1] = o
    BY <1>2, <2>1 DEF OneID
  <2>3. QED
    BY <2>1, <2>2, NoneIsNoID
<1>4. OneID(o)'
  <2>1. \A i \in IDs : Uses(o, i)' <=> Uses(o, i)
    BY DEF Uses
  <2>2. CASE e = "unknown"
    <3>1. given'[o] = OperationID(o)
      BY <2>2 DEF TypeOK
    <3>2. \A i \in IDs : Uses(o, i) => OperationID(o) = i
      BY <1>2, NoneIsNoID DEF OneID, OperationID
    <3>3. QED
      BY <1>1, <1>3, <2>1, <3>1, <3>2 DEF OneID
  <2>3. CASE e # "unknown"
    <3>1. given'[o] = given[o]
      BY <2>3
    <3>2. \A i \in IDs : Uses(o, i) /\ given[o] # i => e \in Results \cup {"cancelled", "unexpected"}
      BY <1>2, <2>3, TypeOK DEF OneID, Pending, Results
    <3>3. QED
      BY <1>1, <1>2, <2>1, <2>3, <3>1, <3>2 DEF OneID, Pending
  <2>4. QED
    BY <2>2, <2>3
<1>5. IDTrail' /\ TryTrail'
  <2>1. requests' \ requests \subseteq {q \in Requests : q.op = o} /\ requests \subseteq requests'
    OBVIOUS
  <2>2. QED
    BY <1>1, <1>4, <2>1, OwnTrail
<1>6. RequestTrail'
  <2>1. \A p \in Operations : given'[p] = None => given[p] = None
    BY <1>1, <1>3 DEF TypeOK
  <2>2. \A q \in requests : q.op \in Operations
    BY DEF TypeOK, Requests
  <2>3. QED
    BY <2>1, <2>2 DEF SendTrail, RequestTrail
<1>7. DispatchTrail'
  <2>1. \A p \in Operations : reply'[p] \in Results => reply[p] \in Results
    BY <1>1 DEF Results
  <2>2. QED
    BY <2>1 DEF SendTrail, DispatchTrail
<1>8. QED
  BY <1>5, <1>6, <1>7 DEF SendTrail

(* A call whose connection fails: none of its reading says it was sent.    *)
LEMMA TrailRaise ==
  ASSUME TypeOK, SendTrail, NEW o \in Operations, NEW r,
         \/ r \in Exceptions \cup {"error"} /\ phase[o] \in {"auth", "await"}
         \/ r = "known" /\ phase[o] = "auth",
         reply' = [reply EXCEPT ![o] = r],
         UNCHANGED <<phase, attempt, given, outcome, requests, cache, dispatched>>
  PROVE  SendTrail'
<1>1. reply'[o] = r /\ \A p \in Operations \ {o} : reply'[p] = reply[p]
  BY DEF TypeOK
<1>2. OneID(o)'
  <2>1. \A i \in IDs : Uses(o, i)' <=> Uses(o, i)
    BY DEF Uses
  <2>2. Pending(o) => Pending(o)'
    BY <1>1 DEF Pending, Exceptions
  <2>3. QED
    BY <2>1, <2>2 DEF OneID, SendTrail, IDTrail
<1>3. Untouched(o) => Untouched(o)'
  BY DEF Untouched
<1>4. phase'[o] \in {"check", "auth"} \/ reply'[o] \in {"refused", "known"} => Untouched(o)'
  BY <1>1, <1>3 DEF SendTrail, TryTrail, Exceptions
<1>5. IDTrail' /\ TryTrail'
  <2>1. requests' \ requests \subseteq {q \in Requests : q.op = o} /\ requests \subseteq requests'
    OBVIOUS
  <2>2. phase'[o] # "idle" => attempt'[o] >= 1 /\ outcome'[o] = "none"
    BY DEF SendTrail, TryTrail
  <2>3. QED
    BY <1>1, <1>2, <1>4, <2>1, <2>2, OwnTrail
<1>6. RequestTrail'
  BY DEF SendTrail, RequestTrail
<1>7. DispatchTrail'
  <2>1. \A p \in Operations : reply'[p] \in Results => reply[p] \in Results
    BY <1>1 DEF Results, Exceptions
  <2>2. QED
    BY <2>1 DEF SendTrail, DispatchTrail
<1>8. QED
  BY <1>5, <1>6, <1>7 DEF SendTrail

(* The steps of the client.                                                *)
LEMMA TrailClient ==
  ASSUME TypeOK, SendTrail, NEW o \in Operations, Client(o) \/ Lose(o)
  PROVE  SendTrail'
<1> OneID(o)
  BY DEF SendTrail, IDTrail
<1>1. CASE MayCall(o) /\ Begin(o)
  <2>1. /\ phase[o] = "idle" /\ attempt[o] \in Nat /\ attempt'[o] = attempt[o] + 1
        /\ phase'[o] = "check" /\ outcome'[o] = "none" /\ given'[o] = given[o]
        /\ UNCHANGED <<given, reply, requests, cache, dispatched>>
        /\ \A p \in Operations \ {o} :
             phase'[p] = phase[p] /\ attempt'[p] = attempt[p] /\ outcome'[p] = outcome[p]
    BY <1>1, SendAssumption DEF Begin, TypeOK
  <2>2. \A p \in Operations : attempt[p] \in Nat /\ attempt'[p] \in Nat /\ attempt[p] <= attempt'[p]
    BY <2>1, SendAssumption DEF TypeOK
  <2>3. OneID(o)'
    <3>1. \A i \in IDs : Uses(o, i) => given[o] = i
      BY <1>1, <2>1 DEF MayCall, OneID, Pending, Results
    <3>2. QED
      BY <2>1, <3>1 DEF OneID, Uses
  <2>4. Untouched(o)'
    <3>1. <<o, attempt[o] + 1>> \notin dispatched
      BY <2>1 DEF SendTrail, DispatchTrail, TypeOK, Attempts
    <3>2. ASSUME NEW q \in requests, q.op = o PROVE q.try <= attempt[o] /\ q.try \in Nat
      <4>1. q.try \in Nat
        BY DEF TypeOK, Requests, Attempts
      <4>2. q.try <= attempt[q.op]
        BY DEF SendTrail, RequestTrail
      <4>3. QED
        BY <3>2, <4>1, <4>2
    <3>3. QED
      BY <2>1, <3>1, <3>2 DEF Untouched
  <2>5. IDTrail' /\ TryTrail'
    <3>1. requests' \ requests \subseteq {q \in Requests : q.op = o} /\ requests \subseteq requests'
      BY <2>1
    <3>2. QED
      BY <2>1, <2>3, <2>4, <3>1, OwnTrail
  <2>6. RequestTrail'
    <3>1. \A q \in requests : q.op \in Operations /\ q.try \in Nat
      BY DEF TypeOK, Requests, Attempts
    <3>2. ASSUME NEW q \in requests PROVE q.try <= attempt'[q.op]
      <4>1. q.try <= attempt[q.op]
        BY DEF SendTrail, RequestTrail
      <4>2. QED
        BY <2>2, <3>1, <4>1
    <3>3. QED
      BY <2>1, <3>2 DEF SendTrail, RequestTrail
  <2>7. DispatchTrail'
    <3>1. \A p \in Operations, n \in Attempts : <<p, n>> \in dispatched => n <= attempt'[p]
      BY <2>2 DEF SendTrail, DispatchTrail, Attempts
    <3>2. QED
      BY <2>1, <3>1 DEF SendTrail, DispatchTrail
  <2>8. QED
    BY <2>5, <2>6, <2>7 DEF SendTrail
<1>2. CASE CheckFails(o)
  BY <1>2, TrailReturn DEF CheckFails
<1>3. CASE CheckPasses(o)
  <2>1. /\ phase[o] = "check" /\ phase'[o] = "auth"
        /\ UNCHANGED <<attempt, given, reply, outcome, requests, cache, dispatched>>
        /\ \A p \in Operations \ {o} : phase'[p] = phase[p]
    BY <1>3 DEF CheckPasses, TypeOK
  <2>2. OneID(o)'
    BY <2>1 DEF OneID, Uses, Pending
  <2>3. Untouched(o)'
    BY <2>1 DEF Untouched, SendTrail, TryTrail
  <2>4. IDTrail' /\ TryTrail'
    <3>1. attempt'[o] >= 1 /\ outcome'[o] = "none"
      BY <2>1 DEF SendTrail, TryTrail
    <3>2. requests' \ requests \subseteq {q \in Requests : q.op = o} /\ requests \subseteq requests'
      BY <2>1
    <3>3. QED
      BY <2>1, <2>2, <2>3, <3>1, <3>2, OwnTrail
  <2>5. RequestTrail' /\ DispatchTrail'
    BY <2>1 DEF SendTrail, RequestTrail, DispatchTrail
  <2>6. QED
    BY <2>4, <2>5 DEF SendTrail
<1>4. CASE WriteRequest(o)
  <2> DEFINE q == [op |-> o, id |-> OperationID(o), try |-> attempt[o]]
  <2>1. /\ phase[o] = "auth" /\ reply[o] = "none" /\ requests' = requests \cup {q}
        /\ phase'[o] = "await" /\ \A p \in Operations \ {o} : phase'[p] = phase[p]
        /\ UNCHANGED <<attempt, given, reply, outcome, cache, dispatched>>
    BY <1>4 DEF WriteRequest, TypeOK
  <2>2. q \in Requests /\ OperationID(o) \in IDs /\ attempt[o] \in Attempts /\ OperationID(o)[1] = o
    BY <2>1, IDType DEF OneID, SendTrail, Requests, IDs
  <2>3. Untouched(o)
    BY <2>1 DEF SendTrail, TryTrail
  <2>4. OneID(o)'
    <3>1. Pending(o)'
      BY <2>1 DEF Pending
    <3>2. \A i \in IDs : Uses(o, i) => given[o] = i
      BY <2>1 DEF OneID, Pending
    <3>3. \A i \in IDs : Uses(o, i)' => Uses(o, i) \/ i = OperationID(o)
      BY <2>1 DEF Uses
    <3>4. given[o] # None => OperationID(o) = given[o]
      BY DEF OperationID
    <3>5. given[o] = None => OperationID(o) = <<o, attempt[o]>>
      BY DEF OperationID
    <3>6. QED
      BY <2>1, <3>1, <3>2, <3>3, <3>4, <3>5 DEF OneID
  <2>5. IDTrail' /\ TryTrail'
    <3>1. attempt'[o] >= 1 /\ outcome'[o] = "none" /\ reply'[o] = "none"
      BY <2>1 DEF SendTrail, TryTrail
    <3>2. requests' \ requests \subseteq {s \in Requests : s.op = o} /\ requests \subseteq requests'
      BY <2>1, <2>2
    <3>3. QED
      BY <2>1, <2>4, <3>1, <3>2, OwnTrail
  <2>6. RequestTrail'
    <3>1. \A s \in requests : s.op = o => s.try # attempt[o]
      BY <2>3 DEF Untouched
    <3>2. /\ q.id[1] = q.op /\ q.try <= attempt[q.op] /\ <<q.op, q.try>> \notin dispatched
          /\ given[q.op] = None => q.id = <<q.op, q.try>>
      BY <2>2, <2>3, SendAssumption DEF Untouched, Attempts, OperationID
    <3>3. \A s \in requests : s.op = q.op => s.try # q.try
      BY <3>1
    <3> HIDE DEF q
    <3>4. \A r, s \in requests' : s.op = r.op /\ s.try = r.try => s = r
      BY <2>1, <3>3 DEF SendTrail, RequestTrail
    <3>5. ASSUME NEW r \in requests'
          PROVE  /\ r.id[1] = r.op /\ r.try <= attempt[r.op] /\ <<r.op, r.try>> \notin dispatched
                 /\ given[r.op] = None => r.id = <<r.op, r.try>>
      BY <2>1, <3>2 DEF SendTrail, RequestTrail
    <3>6. QED
      BY <2>1, <3>4, <3>5 DEF RequestTrail
  <2>7. DispatchTrail'
    BY <2>1 DEF SendTrail, DispatchTrail
  <2>8. QED
    BY <2>5, <2>6, <2>7 DEF SendTrail
<1>5. CASE NotWritten(o)
  BY <1>5, TrailRaise DEF NotWritten, Exceptions
<1>6. CASE Lose(o)
  BY <1>6, TrailRaise DEF Lose
<1>7. CASE Receive(o)
  <2>1. Outcome(reply[o]) \in {"rejected", "unknown", "unexpected"} \cup Results
    BY DEF Outcome
  <2>2. /\ Outcome(reply[o]) = "rejected" => reply[o] \in {"refused", "known"}
        /\ Outcome(reply[o]) \in Results => reply[o] = Outcome(reply[o])
    BY DEF Outcome, Results
  <2>3. QED
    BY <1>7, <2>1, <2>2, TrailReturn DEF Receive, Learn, Results
<1>8. CASE Cancel(o)
  BY <1>8, TrailReturn DEF Cancel
<1>9. QED
  BY <1>1, <1>2, <1>3, <1>4, <1>5, <1>6, <1>7, <1>8 DEF Client

-----------------------------------------------------------------------------
(* The steps of the service keep the caller's ID the only one in use: what *)
(* it newly caches, it handled a request for.                              *)
LEMMA ServiceIDs ==
  ASSUME TypeOK, SendTrail, NEW q \in requests, Service(q)
  PROVE  IDTrail'
<1>1. requests' = requests \ {q} /\ UNCHANGED <<phase, attempt, given, outcome>>
  BY ServiceCases
<1>2. q.op \in Operations /\ q.id \in IDs /\ q.id[1] = q.op
  BY DEF TypeOK, Requests, SendTrail, RequestTrail
<1>3. \A i \in IDs : i # q.id => cache'[i] = cache[i]
  BY <1>2, ServiceCases DEF TypeOK
<1>4. ASSUME NEW o \in Operations PROVE OneID(o)'
  <2>1. OneID(o)
    BY DEF SendTrail, IDTrail
  <2>2. \A i \in IDs : Uses(o, i)' => Uses(o, i)
    BY <1>1, <1>2, <1>3 DEF Uses
  <2>3. Pending(o) => Pending(o)' \/ (reply'[o] \in {"refused", "known"} /\ phase[o] = "await")
    BY <1>1 DEF Pending
  <2>4. ASSUME NEW i \in IDs, Uses(o, i)', given[o] = None, Pending(o), i = <<o, attempt[o]>>,
               reply'[o] \in {"refused", "known"}, phase[o] = "await"
        PROVE  FALSE
    <3>1. q.op = o /\ q.try = attempt[o] /\ cache' = cache /\ cache[q.id] = "none"
      BY <1>2, <2>4, ServiceCases DEF Answered, TypeOK, Pending, Results
    <3>2. q.id = i
      BY <2>4, <3>1 DEF SendTrail, RequestTrail
    <3>3. PICK r \in requests : r # q /\ r.op = o /\ r.id = i
      BY <1>1, <2>4, <3>1, <3>2 DEF Uses
    <3>4. r.id = <<o, r.try>>
      BY <1>1, <2>4, <3>3 DEF SendTrail, RequestTrail
    <3>5. r.try = q.try
      BY <2>4, <3>1, <3>3, <3>4
    <3>6. QED
      BY <3>1, <3>3, <3>5 DEF SendTrail, RequestTrail
  <2>5. QED
    BY <1>1, <2>1, <2>2, <2>3, <2>4 DEF OneID
<1>5. QED
  BY <1>4 DEF IDTrail

(* They touch no operation whose try is neither with the service nor       *)
(* dispatched.                                                             *)
LEMMA ServiceUntouched ==
  ASSUME TypeOK, NEW q \in requests, Service(q), NEW o \in Operations, Untouched(o)
  PROVE  Untouched(o)'
<1>1. requests' = requests \ {q} /\ attempt' = attempt /\ dispatched' \subseteq dispatched \cup {<<q.op, q.try>>}
  BY ServiceCases
<1>2. q.op # o \/ q.try # attempt[o]
  BY DEF Untouched
<1>3. QED
  BY <1>1, <1>2 DEF Untouched

(* They keep a try where it is: with the service, or dispatched.           *)
LEMMA ServiceRequests ==
  ASSUME TypeOK, SendTrail, NEW q \in requests, Service(q)
  PROVE  RequestTrail' /\ TryTrail'
<1>1. requests' = requests \ {q} /\ UNCHANGED <<phase, attempt, given, outcome>>
  BY ServiceCases
<1>2. dispatched' \subseteq dispatched \cup {<<q.op, q.try>>}
  BY ServiceCases
<1>3. RequestTrail'
  <2>1. \A r \in requests' : <<r.op, r.try>> \notin dispatched'
    BY <1>1, <1>2 DEF SendTrail, RequestTrail
  <2>2. QED
    BY <1>1, <2>1 DEF SendTrail, RequestTrail
<1>4. ASSUME NEW o \in Operations, Untouched(o) PROVE Untouched(o)'
  BY <1>4, ServiceUntouched
<1>5. ASSUME NEW o \in Operations, reply'[o] \in {"refused", "known"} PROVE Untouched(o)'
  <2>1. CASE reply'[o] = reply[o]
    BY <1>4, <1>5, <2>1 DEF SendTrail, TryTrail
  <2>2. CASE reply'[o] # reply[o]
    <3>1. q.op = o /\ q.try = attempt[o] /\ dispatched' = dispatched
      BY <1>5, <2>2, ServiceCases DEF Answered, TypeOK, Requests, Results
    <3>2. <<o, attempt[o]>> \notin dispatched'
      BY <3>1 DEF SendTrail, RequestTrail
    <3>3. \A r \in requests' : r.op = o => r.try # attempt[o]
      BY <1>1, <3>1 DEF SendTrail, RequestTrail
    <3>4. QED
      BY <1>1, <3>2, <3>3 DEF Untouched
  <2>3. QED
    BY <2>1, <2>2
<1>6. TryTrail'
  BY <1>1, <1>4, <1>5 DEF SendTrail, TryTrail
<1>7. QED
  BY <1>3, <1>6

(* What they dispatch they cache, and what they answer they dispatched.    *)
LEMMA ServiceDispatches ==
  ASSUME TypeOK, SendTrail, NEW q \in requests, Service(q)
  PROVE  DispatchTrail'
<1>1. requests' = requests \ {q} /\ UNCHANGED <<phase, attempt, given, outcome>>
  BY ServiceCases
<1>2. /\ q.op \in Operations /\ q.id \in IDs /\ q.id[1] = q.op
      /\ q.try \in Attempts /\ q.try <= attempt[q.op]
  BY DEF TypeOK, Requests, SendTrail, RequestTrail
<1>3. /\ dispatched \subseteq dispatched' /\ dispatched' \subseteq dispatched \cup {<<q.op, q.try>>}
      /\ \A i \in IDs : cache[i] # "none" => cache'[i] = cache[i]
      /\ dispatched' # dispatched => cache'[q.id] # "none"
  BY <1>2, ServiceCases DEF TypeOK, Results
<1>4. \A o \in Operations, n \in Attempts : <<o, n>> \in dispatched' =>
        n <= attempt'[o] /\ \E i \in IDs : i[1] = o /\ cache'[i] # "none"
  BY <1>1, <1>2, <1>3 DEF SendTrail, DispatchTrail
<1>5. ASSUME NEW i \in IDs, cache'[i] \in Results PROVE \E n \in Attempts : <<i[1], n>> \in dispatched'
  <2>1. CASE cache'[i] = cache[i]
    BY <1>3, <1>5, <2>1 DEF SendTrail, DispatchTrail
  <2>2. CASE cache'[i] # cache[i]
    <3>1. i = q.id /\ <<q.op, q.try>> \in dispatched'
      BY <1>2, <1>5, <2>2, ServiceCases DEF TypeOK, Results
    <3>2. QED
      BY <1>2, <3>1
  <2>3. QED
    BY <2>1, <2>2
<1>6. ASSUME NEW o \in Operations, reply'[o] \in Results PROVE \E n \in Attempts : <<o, n>> \in dispatched'
  <2>1. CASE reply'[o] = reply[o]
    BY <1>3, <1>6, <2>1 DEF SendTrail, DispatchTrail
  <2>2. CASE reply'[o] # reply[o]
    <3>1. q.op = o /\ cache'[q.id] \in Results
      BY <1>2, <1>6, <2>2, ServiceCases DEF Answered, TypeOK, Results
    <3>2. QED
      BY <1>2, <1>5, <3>1
  <2>3. QED
    BY <2>1, <2>2
<1>7. QED
  BY <1>4, <1>5, <1>6 DEF DispatchTrail

-----------------------------------------------------------------------------
(* The types and the trails hold in every state.                           *)
LEMMA SendInvariant == Spec => [](TypeOK /\ SendTrail)
<1>1. Init => TypeOK /\ SendTrail
  BY TypeInit, TrailInit
<1>2. TypeOK /\ SendTrail /\ [Next]_sendVars => (TypeOK /\ SendTrail)'
  <2> SUFFICES ASSUME TypeOK, SendTrail, [Next]_sendVars PROVE TypeOK' /\ SendTrail'
    OBVIOUS
  <2>1. ASSUME NEW o \in Operations, Client(o) \/ Lose(o) PROVE TypeOK' /\ SendTrail'
    BY <2>1, TypeClient, TrailClient DEF SendTrail
  <2>2. ASSUME NEW q \in requests, Service(q) PROVE TypeOK' /\ SendTrail'
    BY <2>2, TypeService, ServiceIDs, ServiceRequests, ServiceDispatches DEF SendTrail
  <2>3. CASE UNCHANGED sendVars
    <3>1. TypeOK'
      BY <2>3 DEF sendVars, TypeOK
    <3>2. IDTrail'
      BY <2>3 DEF sendVars, SendTrail, IDTrail, OneID, Uses, Pending
    <3>3. RequestTrail' /\ TryTrail' /\ DispatchTrail'
      BY <2>3 DEF sendVars, SendTrail, RequestTrail, TryTrail, Untouched, DispatchTrail
    <3>4. QED
      BY <3>1, <3>2, <3>3 DEF SendTrail
  <2>4. QED
    BY <2>1, <2>2, <2>3 DEF Next
<1>3. QED
  BY <1>1, <1>2, PTL DEF Spec

(* Every variable keeps its type.                                          *)
THEOREM SendTypes == Spec => []TypeOK
BY SendInvariant, PTL

(* Messages sends an intended message at most once.  A second dispatch     *)
(* would find the ID of the first one in the cache: OneID says that the    *)
(* service knows the operation under no other.                             *)
THEOREM SendsOnce == Spec => []SentOnce
<1>1. Init => SentOnce
  BY DEF Init, SentOnce
<1>2. TypeOK /\ SendTrail /\ SentOnce /\ [Next]_sendVars => SentOnce'
  <2> SUFFICES ASSUME TypeOK, SendTrail, SentOnce, [Next]_sendVars PROVE SentOnce'
    OBVIOUS
  <2>1. CASE dispatched' = dispatched
    BY <2>1 DEF SentOnce
  <2>2. ASSUME NEW q \in requests, Service(q), dispatched' # dispatched PROVE SentOnce'
    <3>1. /\ dispatched' = dispatched \cup {<<q.op, q.try>>} /\ cache[q.id] = "none"
          /\ q.op \in Operations /\ q.id \in IDs
      BY <2>2, ServiceCases DEF TypeOK, Requests
    <3>2. \A n \in Attempts : <<q.op, n>> \notin dispatched
      <4> SUFFICES ASSUME NEW n \in Attempts, <<q.op, n>> \in dispatched PROVE FALSE
        OBVIOUS
      <4>1. PICK i \in IDs : i[1] = q.op /\ cache[i] # "none"
        BY <3>1 DEF SendTrail, DispatchTrail
      <4>2. Uses(q.op, i) /\ Uses(q.op, q.id)
        BY <4>1 DEF Uses
      <4>3. i = q.id
        BY <3>1, <4>2, NoneIsNoID DEF SendTrail, IDTrail, OneID
      <4>4. QED
        BY <3>1, <4>1, <4>3
    <3>3. QED
      BY <3>1, <3>2 DEF SentOnce
  <2>3. ASSUME NEW o \in Operations, Client(o) \/ Lose(o) PROVE dispatched' = dispatched
    BY <2>3 DEF Client, Lose, Begin, CheckFails, CheckPasses, WriteRequest, NotWritten, Receive, Cancel
  <2>4. QED
    BY <2>1, <2>2, <2>3 DEF Next, sendVars
<1>3. QED
  BY <1>1, <1>2, SendInvariant, PTL DEF Spec

(* A caller told that the outcome is unknown holds the only operation ID   *)
(* under which the service can know the message.                           *)
THEOREM UnknownOutcomesKeepID == Spec => []UnknownKeepsID
<1>1. TypeOK /\ SendTrail => UnknownKeepsID
  BY DEF SendTrail, IDTrail, OneID, UnknownKeepsID
<1>2. QED
  BY <1>1, SendInvariant, PTL

(* What send() returns or raises is so.  A rejection is only read while    *)
(* the try is neither with the service nor dispatched (TryTrail), a result *)
(* only after it was dispatched (DispatchTrail).                           *)
THEOREM OutcomesAreTrue == Spec => []OutcomeIsTrue
<1> DEFINE Holds(o) == /\ outcome[o] \in {"rejected", "unsupported", "unchecked"} => Untouched(o)
                       /\ outcome[o] \in Results => \E n \in Attempts : <<o, n>> \in dispatched
<1>1. Init => OutcomeIsTrue
  BY DEF Init, OutcomeIsTrue, Results
<1>2. TypeOK /\ SendTrail /\ OutcomeIsTrue /\ [Next]_sendVars => OutcomeIsTrue'
  <2> SUFFICES ASSUME TypeOK, SendTrail, OutcomeIsTrue, [Next]_sendVars PROVE OutcomeIsTrue'
    OBVIOUS
  <2>1. \A p \in Operations : Holds(p)
    BY DEF OutcomeIsTrue
  <2>2. ASSUME NEW o \in Operations, Client(o) \/ Lose(o) PROVE OutcomeIsTrue'
    <3>1. dispatched' = dispatched
      BY <2>2 DEF Client, Lose, Begin, CheckFails, CheckPasses, WriteRequest, NotWritten, Receive, Cancel
    <3>2. ASSUME NEW p \in Operations, p # o PROVE Holds(p)'
      <4>1. outcome'[p] = outcome[p] /\ attempt'[p] = attempt[p]
        BY <2>2, <3>2
        DEF Client, Lose, Begin, CheckFails, CheckPasses, WriteRequest, NotWritten, Receive, Cancel, Return, TypeOK
      <4>2. \A q \in requests' : q.op = p => q \in requests
        BY <2>2, <3>2 DEF Client, Lose, Begin, CheckFails, CheckPasses, WriteRequest, NotWritten, Receive, Cancel
      <4>3. Untouched(p) => Untouched(p)'
        BY <3>1, <4>1, <4>2 DEF Untouched
      <4>4. Holds(p)
        BY <2>1
      <4>5. outcome'[p] \in {"rejected", "unsupported", "unchecked"} => Untouched(p)'
        BY <4>1, <4>3, <4>4
      <4>6. outcome'[p] \in Results => \E n \in Attempts : <<p, n>> \in dispatched'
        BY <3>1, <4>1, <4>4
      <4>7. QED
        BY <4>5, <4>6 DEF Results
    <3>3. Holds(o)'
      <4>1. CASE CheckFails(o)
        <5>1. Untouched(o)' /\ outcome'[o] \in {"unsupported", "unchecked"}
          BY <4>1 DEF CheckFails, Return, SendTrail, TryTrail, Untouched, TypeOK
        <5>2. QED
          BY <5>1 DEF Results
      <4>2. CASE Receive(o)
        <5>1. /\ outcome'[o] = Outcome(reply[o])
              /\ reply[o] \in {"refused", "known"} => Untouched(o)'
              /\ reply[o] \in Results => \E n \in Attempts : <<o, n>> \in dispatched'
          BY <4>2 DEF Receive, Return, SendTrail, TryTrail, DispatchTrail, Untouched, TypeOK
        <5>2. QED
          BY <5>1 DEF Outcome, Results
      <4>3. CASE Cancel(o)
        BY <4>3 DEF Cancel, Return, TypeOK, Results
      <4>4. CASE MayCall(o) /\ Begin(o)
        BY <4>4 DEF Begin, TypeOK, Results
      <4>5. CASE CheckPasses(o) \/ WriteRequest(o) \/ NotWritten(o) \/ Lose(o)
        <5>1. phase[o] # "idle" /\ outcome' = outcome
          BY <4>5 DEF CheckPasses, WriteRequest, NotWritten, Lose
        <5>2. outcome'[o] = "none"
          BY <5>1 DEF SendTrail, TryTrail
        <5>3. QED
          BY <5>2 DEF Results
      <4>6. QED
        BY <2>2, <4>1, <4>2, <4>3, <4>4, <4>5 DEF Client
    <3>4. \A p \in Operations : Holds(p)'
      BY <3>2, <3>3
    <3>5. QED
      BY <3>4 DEF OutcomeIsTrue, Results
  <2>3. ASSUME NEW q \in requests, Service(q) PROVE OutcomeIsTrue'
    <3>1. outcome' = outcome /\ dispatched \subseteq dispatched'
      BY <2>3, ServiceCases
    <3>2. \A p \in Operations : Untouched(p) => Untouched(p)'
      BY <2>3, ServiceUntouched
    <3>3. QED
      BY <2>1, <3>1, <3>2 DEF OutcomeIsTrue
  <2>4. CASE UNCHANGED sendVars
    BY <2>4 DEF sendVars, OutcomeIsTrue, Untouched
  <2>5. QED
    BY <2>2, <2>3, <2>4 DEF Next
<1>3. QED
  BY <1>1, <1>2, SendInvariant, PTL DEF Spec
=============================================================================
