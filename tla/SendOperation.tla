--------------------------- MODULE SendOperation ----------------------------
(***************************************************************************)
(* send() of the Python SiriusMsgClient, and the callers that retry it.    *)
(* An attempt checks the capability matrix over one connection (except     *)
(* send() itself, which skips that), then opens another one, authenticates,*)
(* writes the request and reads one response: _perform().                  *)
(*                                                                         *)
(* The service is external: docs/sdk-python.md:68 says that it answers a   *)
(* repeated operation ID from a cache and fails closed when the operation's*)
(* own outcome is uncertain.  It may handle a request long after the       *)
(* client has given up on the connection that carried it.                  *)
(*                                                                         *)
(* MaxAttempts bounds the attempts made for one intended message.          *)
(***************************************************************************)
EXTENDS Naturals, FiniteSets

CONSTANTS
  Operations,   \* messages a caller intends to send
  Supplied,     \* those whose caller chose the operation ID itself
  MaxAttempts,  \* bound on the calls of send() per operation
  Cancels,      \* a call may be cancelled, or its process die
  None

ASSUME SendAssumption ==
  /\ Supplied \subseteq Operations /\ MaxAttempts \in Nat \ {0} /\ Cancels \in BOOLEAN
  /\ None \notin Operations \X Nat

Attempts == 1..MaxAttempts
IDs == Operations \X Attempts
Results == {"confirmed", "unconfirmed"}
Exceptions == {"transport", "os", "mismatch", "otherKind"}
Requests == [op : Operations, id : IDs, try : Attempts]

VARIABLES
  phase,       \* where the call is: "idle", "check", "auth", "await"
  attempt,     \* calls of send() made so far
  given,       \* the operation ID the caller has, or None
  reply,       \* what the pending read_response() of the call will yield
  outcome,     \* what the last call returned or raised
  requests,    \* requests the service has yet to handle
  cache,       \* the service's result per operation ID
  dispatched   \* attempts that drove Messages to send

sendVars == <<phase, attempt, given, reply, outcome, requests, cache, dispatched>>

Init ==
  /\ phase = [o \in Operations |-> "idle"]
  /\ attempt = [o \in Operations |-> 0]
  /\ given = [o \in Operations |-> IF o \in Supplied THEN <<o, 1>> ELSE None]
  /\ reply = [o \in Operations |-> "none"]
  /\ outcome = [o \in Operations |-> "none"]
  /\ requests = {}
  /\ cache = [i \in IDs |-> "none"]
  /\ dispatched = {}

-----------------------------------------------------------------------------
(* The client.  Return ends the call with what it returns or raises.       *)
Return(o, e) ==
  /\ outcome' = [outcome EXCEPT ![o] = e]
  /\ phase' = [phase EXCEPT ![o] = "idle"]
  /\ reply' = [reply EXCEPT ![o] = "none"]

Begin(o) ==
  /\ phase[o] = "idle" /\ attempt[o] < MaxAttempts
  /\ attempt' = [attempt EXCEPT ![o] = @ + 1]
  /\ phase' = [phase EXCEPT ![o] = "check"]
  /\ outcome' = [outcome EXCEPT ![o] = "none"]
  /\ UNCHANGED <<given, reply, requests, cache, dispatched>>

(* _check_supported: UnsupportedContentError, or what capabilities() raised.*)
CheckFails(o) ==
  /\ phase[o] = "check"
  /\ \E e \in {"unsupported", "unchecked"} : Return(o, e)
  /\ UNCHANGED <<attempt, given, requests, cache, dispatched>>

CheckPasses(o) ==
  /\ phase[o] = "check"
  /\ phase' = [phase EXCEPT ![o] = "auth"]
  /\ UNCHANGED <<attempt, given, reply, outcome, requests, cache, dispatched>>

\* Mutant: every call makes an ID of its own.
OperationIDFresh(o) == <<o, attempt[o]>>

OperationID(o) == IF given[o] # None THEN given[o] ELSE <<o, attempt[o]>>

(* The service authenticated the connection; the request is written.       *)
WriteRequest(o) ==
  /\ phase[o] = "auth" /\ reply[o] = "none"
  /\ requests' = requests \cup {[op |-> o, id |-> OperationID(o), try |-> attempt[o]]}
  /\ phase' = [phase EXCEPT ![o] = "await"]
  /\ UNCHANGED <<attempt, given, reply, outcome, cache, dispatched>>

(* The service answers authenticate with an error, or the connection is    *)
(* refused or lost before the request is written.                          *)
NotWritten(o) ==
  /\ phase[o] = "auth" /\ reply[o] = "none"
  /\ \E r \in {"transport", "os", "known", "error"} : reply' = [reply EXCEPT ![o] = r]
  /\ UNCHANGED <<phase, attempt, given, outcome, requests, cache, dispatched>>

\* Mutant: the except clauses are missing.
OutcomeRaw(r) == r

\* Mutant: every error response of the service counts as a rejection.
OutcomeTrusting(r) ==
  IF r \in Results THEN r
  ELSE IF r \in {"refused", "known", "error"} THEN "rejected"
  ELSE IF r = "otherKind" THEN "unexpected" ELSE "unknown"

(* The except clauses of send(): "known" stands for the five error codes   *)
(* that promise the operation was never requested, "error" for any other,  *)
(* "refused" for a send result that was not accepted.  A response that is  *)
(* no send result is a SiriusMsgTransportError without the operation ID.   *)
Outcome(r) ==
  IF r \in Results THEN r
  ELSE IF r \in {"refused", "known"} THEN "rejected"
  ELSE IF r = "otherKind" THEN "unexpected" ELSE "unknown"

\* Mutant: only SiriusMsgTransportError and service errors are wrapped, so
\* that an OSError escapes without the operation ID.
LearnTransportOnly(o) ==
  given' = IF Outcome(reply[o]) = "unknown" /\ reply[o] # "os"
           THEN [given EXCEPT ![o] = OperationID(o)] ELSE given

(* SiriusMsgSendOutcomeUnknownError carries the ID to the caller.          *)
Learn(o) ==
  given' = IF Outcome(reply[o]) = "unknown" THEN [given EXCEPT ![o] = OperationID(o)] ELSE given

Receive(o) ==
  /\ phase[o] \in {"auth", "await"} /\ reply[o] # "none"
  /\ Return(o, Outcome(reply[o]))
  /\ Learn(o)
  /\ UNCHANGED <<attempt, requests, cache, dispatched>>

(* CancelledError is no Exception: it passes through with no operation ID. *)
Cancel(o) ==
  /\ phase[o] # "idle"
  /\ Return(o, "cancelled")
  /\ UNCHANGED <<attempt, given, requests, cache, dispatched>>

-----------------------------------------------------------------------------
(* The service (external).  The response reaches the call that wrote the   *)
(* request if that call still reads.                                       *)
Answer(q, r) ==
  reply' = IF phase[q.op] = "await" /\ attempt[q.op] = q.try /\ reply[q.op] = "none"
           THEN [reply EXCEPT ![q.op] = r] ELSE reply

Handle(q, r) ==
  /\ q \in requests
  /\ requests' = requests \ {q}
  /\ Answer(q, r)
  /\ UNCHANGED <<phase, attempt, given, outcome>>

Refuse(q) ==
  /\ cache[q.id] = "none"
  /\ \E r \in {"refused", "known"} : Handle(q, r)
  /\ UNCHANGED <<cache, dispatched>>

Dispatch(q) ==
  /\ cache[q.id] = "none"
  /\ \E r \in Results : Handle(q, r) /\ cache' = [cache EXCEPT ![q.id] = r]
  /\ dispatched' = dispatched \cup {<<q.op, q.try>>}

(* An internal failure before or after Messages was driven.                *)
FailDispatch(q) ==
  /\ cache[q.id] = "none"
  /\ Handle(q, "error")
  /\ cache' = [cache EXCEPT ![q.id] = "uncertain"]
  /\ dispatched' \in {dispatched, dispatched \cup {<<q.op, q.try>>}}

Recall(q) ==
  /\ cache[q.id] # "none"
  /\ Handle(q, IF cache[q.id] = "uncertain" THEN "error" ELSE cache[q.id])
  /\ UNCHANGED <<cache, dispatched>>

(* The connection is lost, or the response is not one, or not to a send.   *)
Lose(o) ==
  /\ phase[o] = "await" /\ reply[o] = "none"
  /\ \E r \in Exceptions : reply' = [reply EXCEPT ![o] = r]
  /\ UNCHANGED <<phase, attempt, given, outcome, requests, cache, dispatched>>

-----------------------------------------------------------------------------
(* A caller repeats the call when nothing was sent, or when it holds the   *)
(* operation ID and so repeats the same operation.                         *)
MayCall(o) ==
  \/ outcome[o] \in {"none", "unsupported", "unchecked", "rejected"}
  \/ outcome[o] \in {"unknown", "cancelled", "unexpected"} /\ given[o] # None

Client(o) ==
  \/ MayCall(o) /\ Begin(o)
  \/ CheckFails(o) \/ CheckPasses(o) \/ WriteRequest(o) \/ NotWritten(o) \/ Receive(o)
  \/ Cancels /\ Cancel(o)

Service(q) == Refuse(q) \/ Dispatch(q) \/ FailDispatch(q) \/ Recall(q)

Next ==
  \/ \E o \in Operations : Client(o) \/ Lose(o)
  \/ \E q \in requests : Service(q)

Spec == Init /\ [][Next]_sendVars

-----------------------------------------------------------------------------
(* The type of every variable.                                             *)
TypeOK ==
  /\ phase \in [Operations -> {"idle", "check", "auth", "await"}]
  /\ attempt \in [Operations -> 0..MaxAttempts]
  /\ given \in [Operations -> IDs \cup {None}]
  /\ reply \in [Operations -> {"none", "refused", "known", "error"} \cup Results \cup Exceptions]
  /\ outcome \in [Operations -> {"none", "unsupported", "unchecked", "rejected", "unknown", "cancelled",
                             "unexpected"} \cup Results]
  /\ requests \subseteq Requests
  /\ cache \in [IDs -> {"none", "uncertain"} \cup Results]
  /\ dispatched \subseteq Operations \X Attempts

(* However often a call fails, is cancelled or repeated, Messages sends an *)
(* intended message at most once.                                          *)
SentOnce ==
  \A o \in Operations, m, n \in Attempts :
    <<o, m>> \in dispatched /\ <<o, n>> \in dispatched => m = n

(* What a call tells its caller is so: a rejected call neither drove       *)
(* Messages nor can do so yet, a confirmed message was sent, and a call    *)
(* that failed its capability check wrote nothing.                         *)
Untouched(o) ==
  /\ <<o, attempt[o]>> \notin dispatched
  /\ \A q \in requests : q.op = o => q.try # attempt[o]

OutcomeIsTrue ==
  \A o \in Operations :
    /\ outcome[o] \in {"rejected", "unsupported", "unchecked"} => Untouched(o)
    /\ outcome[o] \in Results => \E n \in Attempts : <<o, n>> \in dispatched

(* A caller that learns that the outcome is unknown holds the one ID under *)
(* which the service knows the operation.                                  *)
Uses(o, i) ==
  \/ i[1] = o /\ cache[i] # "none"
  \/ \E q \in requests : q.op = o /\ q.id = i

UnknownKeepsID ==
  \A o \in Operations : outcome[o] = "unknown" =>
    given[o] # None /\ \A i \in IDs : Uses(o, i) => i = given[o]

-----------------------------------------------------------------------------
(* What makes the invariants above inductive.                              *)

(* All the service knows of an operation, it knows under one ID: the one   *)
(* the caller holds, or, before the caller holds one, the one of the only  *)
(* call that got as far as writing, and that call has not been rejected.   *)
Pending(o) ==
  \/ phase[o] = "await" /\ reply[o] \notin {"refused", "known"}
  \/ phase[o] = "idle" /\ outcome[o] \in Results \cup {"cancelled", "unexpected"}

OneID(o) ==
  /\ \A i \in IDs : Uses(o, i) =>
       \/ given[o] = i
       \/ given[o] = None /\ i = <<o, attempt[o]>> /\ Pending(o)
  /\ outcome[o] = "unknown" => given[o] # None
  /\ given[o] # None => given[o][1] = o

IDTrail == \A o \in Operations : OneID(o)

(* A try is written once, under its own ID if the caller has none, and is  *)
(* either with the service or dispatched; a rejection reaches the call only*)
(* while its try is neither.                                               *)
RequestTrail ==
  \A q \in requests :
    /\ q.id[1] = q.op /\ q.try <= attempt[q.op] /\ <<q.op, q.try>> \notin dispatched
    /\ given[q.op] = None => q.id = <<q.op, q.try>>
    /\ \A r \in requests : r.op = q.op /\ r.try = q.try => r = q

TryTrail ==
  \A o \in Operations :
    /\ phase[o] \in {"check", "auth"} => Untouched(o)
    /\ phase[o] # "idle" => attempt[o] >= 1 /\ outcome[o] = "none"
    /\ reply[o] \in {"refused", "known"} => Untouched(o)

(* What was dispatched is in the cache, and a result in the cache or on    *)
(* its way to a call was dispatched.                                       *)
DispatchTrail ==
  /\ \A o \in Operations, n \in Attempts : <<o, n>> \in dispatched =>
       n <= attempt[o] /\ \E i \in IDs : i[1] = o /\ cache[i] # "none"
  /\ \A i \in IDs : cache[i] \in Results => \E n \in Attempts : <<i[1], n>> \in dispatched
  /\ \A o \in Operations : reply[o] \in Results => \E n \in Attempts : <<o, n>> \in dispatched

SendTrail == IDTrail /\ RequestTrail /\ TryTrail /\ DispatchTrail
=============================================================================
