--------------------------- MODULE ClientRequests ---------------------------
(***************************************************************************)
(* The one-shot calls of SiriusMsgClient: _perform() and the methods around*)
(* it, token rotation and attachment bytes.  Every call opens a connection,*)
(* authenticates with the credential of the moment, writes one request and *)
(* reads one response.  A reconnect of a stream authenticates likewise.    *)
(*                                                                         *)
(* A client has its token from the owner-only file, read again for every   *)
(* connection, and perhaps derives the credential of a registered          *)
(* connection from it; or it was given the token (loopback) and learns     *)
(* another one only by rotating it.  Callers are tasks; several may share a*)
(* client.  Tokens are numbered; `token` is the one the service accepts and*)
(* the file holds.                                                         *)
(*                                                                         *)
(* MaxRotations bounds the tokens, MaxFaults the lost connections, garbled *)
(* responses and service errors taken together.                            *)
(***************************************************************************)
EXTENDS Naturals

CONSTANTS
  Callers,      \* tasks that call
  Clients,      \* the clients they call
  ClientOf,     \* the client of each caller
  FileClients,  \* clients made by connect()
  ProfileOf,    \* the registered connection of a client, or None
  CallsOf,      \* the kinds of request each caller makes
  Profiles,
  Contents,     \* what may be in the file of the attachment: <<size, hash>>
  MaxRotations, MaxFaults, None

(* What must come back, and whether it must carry something.               *)
QueryAnswer ==
  [health |-> "health", capabilities |-> "capabilities", listAllowedChats |-> "allowedChats",
   readHistory |-> "historyPage", searchHistory |-> "historyPage"]
Kinds == DOMAIN QueryAnswer \cup {"updateAllowlist", "rotateAuthToken", "fetchAttachment"}
NeedsPayload == Kinds \ {"updateAllowlist"}

(* The codes of the service, and those that have a class of their own; any *)
(* other is reported as the base class, whose code is internalError.       *)
MappedCodes ==
  {"ackNotOutstanding", "attachmentHashMismatch", "attachmentNotDelivered", "attachmentNotFound",
   "attachmentTooLarge", "attachmentTransportUnsupported", "attachmentUnavailable",
   "attachmentUnsupportedType", "authFailed", "authRequired", "backpressure", "internalError",
   "invalidRequest", "malformedFrame", "peerCredentialsRejected", "protocolVersionUnsupported",
   "sendRejected", "subscriptionAlreadyActive", "tokenRotationFailed", "transportUnavailable"}
ServiceCodes ==
  MappedCodes \cup {"historyUnavailable", "sendOperationConflict", "sendOperationUnresolved"}

\* Mutant: a code without a class of its own is passed through.
ErrorFromServiceRaw(code) == code

ErrorFromService(code) == IF code \in MappedCodes THEN code ELSE "internalError"

Tokens == 0..MaxRotations
Sizes == {c[1] : c \in Contents}

(* What an instance has to provide.                                       *)
RequestsAssumption ==
  /\ MaxRotations \in Nat /\ MaxFaults \in Nat
  /\ ClientOf \in [Callers -> Clients] /\ FileClients \subseteq Clients
  /\ ProfileOf \in [Clients -> Profiles \cup {None}]
  /\ CallsOf \in [Callers -> SUBSET Kinds]
  /\ Contents \subseteq Nat \X STRING
  /\ None \notin Profiles \cup Contents

VARIABLES
  step,        \* each caller: "idle", "open", "auth", "ready", "sent", "answered", "reading"
  kind,        \* what it calls
  credential,  \* the token its credential was made from
  response,    \* what the service answered: its status, and what it carries
  result,      \* how its last call ended
  bytes,       \* the data its last call returned
  memory,      \* each client: _auth_token
  token, disk, stray,  \* the service: the token, the file, rotations nobody awaits
  faults,
  profiles,    \* the service: "enabled" connections and others
  overtaken,   \* history: callers that authenticate with a token rotated away since
  missed       \* history: clients that a rotation passed by

callVars == <<step, kind, credential, response, result, bytes, memory>>
serviceVars == <<token, disk, stray, profiles>>
historyVars == <<overtaken, missed>>
requestVars == <<callVars, serviceVars, faults, historyVars>>

NoResponse == [status |-> "none", token |-> 0, size |-> 0, hash |-> None]

Init ==
  /\ step = [t \in Callers |-> "idle"] /\ kind = [t \in Callers |-> "health"]
  /\ credential = [t \in Callers |-> 0] /\ response = [t \in Callers |-> NoResponse]
  /\ result = [t \in Callers |-> "none"] /\ bytes = [t \in Callers |-> None]
  /\ memory = [c \in Clients |-> 0]
  /\ token = 0 /\ disk = None /\ stray = 0 /\ faults = 0
  /\ profiles \in [Profiles -> {"absent", "enabled"}]
  /\ overtaken = {} /\ missed = {}

Fault == faults < MaxFaults /\ faults' = faults + 1

-----------------------------------------------------------------------------
(* The client.                                                             *)
Finish(t, e) ==
  /\ step' = [step EXCEPT ![t] = "idle"]
  /\ result' = [result EXCEPT ![t] = e]

(* Two rotations of one client at a time: either answer may be the last.   *)
Rotating(t) == step[t] # "idle" /\ kind[t] = "rotateAuthToken"

Open(t, k) ==
  /\ step[t] = "idle"
  /\ step' = [step EXCEPT ![t] = "open"] /\ kind' = [kind EXCEPT ![t] = k]
  /\ result' = [result EXCEPT ![t] = "none"] /\ bytes' = [bytes EXCEPT ![t] = None]
  /\ response' = [response EXCEPT ![t] = NoResponse]
  /\ overtaken' = overtaken \ {t}
  /\ missed' = IF k = "rotateAuthToken" /\ \E u \in Callers : ClientOf[u] = ClientOf[t] /\ Rotating(u)
               THEN missed \cup {ClientOf[t]} ELSE missed
  /\ UNCHANGED <<credential, memory, serviceVars, faults>>

\* Mutant: the file is read by connect() only.
CurrentAuthTokenOnce(c) == memory[c]

CurrentAuthToken(c) == IF c \in FileClients THEN token ELSE memory[c]

Authenticate(t) ==
  /\ step[t] = "open"
  /\ LET c == ClientOf[t]  now == CurrentAuthToken(c) IN
     /\ credential' = [credential EXCEPT ![t] = now]
     /\ memory' = [memory EXCEPT ![c] = now]
  /\ step' = [step EXCEPT ![t] = "auth"]
  /\ UNCHANGED <<kind, response, result, bytes, serviceVars, faults, historyVars>>

WriteRequest(t) ==
  /\ step[t] = "ready"
  /\ step' = [step EXCEPT ![t] = "sent"]
  /\ UNCHANGED <<kind, credential, response, result, bytes, memory, serviceVars, faults, historyVars>>

(* _raise_if_error, the request ID, and the kind and payload the method    *)
(* expects.                                                                *)
Understand(t, s) ==
  IF s \in ServiceCodes THEN ErrorFromService(s)
  ELSE IF s = "whole" \/ (s = "bare" /\ kind[t] \notin NeedsPayload) THEN "answered"
  ELSE "transport"

\* Mutant: a rotated token is returned but not kept.
KeepNothing(t) == UNCHANGED memory

Keep(t) ==
  memory' = IF kind[t] = "rotateAuthToken" THEN [memory EXCEPT ![ClientOf[t]] = response[t].token]
            ELSE memory

Receive(t) ==
  /\ step[t] = "answered"
  /\ LET e == Understand(t, response[t].status) IN
     IF e # "answered" THEN Finish(t, e) /\ UNCHANGED memory
     ELSE IF kind[t] = "fetchAttachment"
     THEN step' = [step EXCEPT ![t] = "reading"] /\ UNCHANGED <<result, memory>>
     ELSE Finish(t, e) /\ Keep(t)
  /\ UNCHANGED <<kind, credential, response, bytes, serviceVars, faults, historyVars>>

(* Length first, then the hash if the metadata has one.                    *)
Verified(t, c) ==
  c[1] = response[t].size /\ (response[t].hash # None => c[2] = response[t].hash)

ReadBytes(t) ==
  /\ step[t] = "reading"
  /\ IF disk = None THEN Finish(t, "os") /\ UNCHANGED bytes
     ELSE IF Verified(t, disk) THEN Finish(t, "answered") /\ bytes' = [bytes EXCEPT ![t] = disk]
     ELSE Finish(t, "mismatch") /\ UNCHANGED bytes
  /\ UNCHANGED <<kind, credential, response, memory, serviceVars, faults, historyVars>>

(* The connection cannot be opened or is lost, or the frame is no response.*)
Lose(t) ==
  /\ step[t] \in {"open", "auth", "ready", "sent", "answered"} /\ Fault
  /\ Finish(t, "transport")
  /\ response' = [response EXCEPT ![t] = NoResponse]
  /\ credential' = [credential EXCEPT ![t] = 0]
  /\ stray' = IF step[t] = "sent" /\ kind[t] = "rotateAuthToken" /\ stray < MaxRotations
              THEN stray + 1 ELSE stray
  /\ missed' = IF step[t] \in {"sent", "answered"} /\ Rotating(t) THEN missed \cup {ClientOf[t]} ELSE missed
  /\ UNCHANGED <<kind, bytes, memory, token, disk, profiles, overtaken>>

-----------------------------------------------------------------------------
(* The service (external).                                                 *)
Recognised(t) ==
  LET p == ProfileOf[ClientOf[t]] IN p # None => profiles[p] = "enabled"

Admits(t) == credential[t] = token /\ Recognised(t)

Admit(t) ==
  /\ step[t] = "auth" /\ Admits(t)
  /\ step' = [step EXCEPT ![t] = "ready"] /\ credential' = [credential EXCEPT ![t] = 0]
  /\ UNCHANGED <<kind, response, result, bytes, memory, serviceVars, faults, historyVars>>

Refuse(t) ==
  /\ step[t] = "auth" /\ ~Admits(t)
  /\ Finish(t, ErrorFromService("authFailed")) /\ credential' = [credential EXCEPT ![t] = 0]
  /\ UNCHANGED <<kind, response, bytes, memory, serviceVars, faults, historyVars>>

(* Replaces the token and its file; every other client has missed it, and  *)
(* whoever authenticates with the old one is overtaken.                    *)
Rotate(by) ==
  /\ token < MaxRotations /\ token' = token + 1
  /\ missed' = missed \cup (Clients \ by)
  /\ overtaken' = overtaken \cup {t \in Callers : step[t] = "auth"}

Answer(t, r) ==
  /\ step' = [step EXCEPT ![t] = "answered"]
  /\ response' = [response EXCEPT ![t] = r]
  /\ UNCHANGED <<kind, credential, result, bytes, memory, profiles, disk, stray>>

(* A response of the expected kind; only most kinds carry something.       *)
Whole == [NoResponse EXCEPT !.status = "whole"]

Serve(t) ==
  /\ step[t] = "sent"
  /\ CASE kind[t] = "rotateAuthToken" ->
            Rotate({ClientOf[t]}) /\ Answer(t, [Whole EXCEPT !.token = token + 1])
       [] kind[t] = "fetchAttachment" ->
            /\ disk # None
            /\ \E h \in {disk[2], None} :
                 Answer(t, [status |-> "whole", token |-> 0, size |-> disk[1], hash |-> h])
            /\ UNCHANGED <<token, historyVars>>
       [] OTHER ->
            /\ Answer(t, [Whole EXCEPT !.status = IF kind[t] \in NeedsPayload THEN "whole" ELSE "bare"])
            /\ UNCHANGED <<token, historyVars>>
  /\ UNCHANGED faults

(* An error, or the answer to something else.                              *)
Garble(t) ==
  /\ step[t] = "sent" /\ Fault
  /\ \E s \in {"bare", "otherKind", "foreign", "historyUnavailable"} :
       (s = "bare" => kind[t] \in NeedsPayload) /\ Answer(t, [NoResponse EXCEPT !.status = s])
  /\ UNCHANGED <<token, historyVars>>

RotateStray ==
  /\ stray > 0 /\ stray' = stray - 1
  /\ Rotate({})
  /\ UNCHANGED <<callVars, disk, profiles, faults>>

(* The attachment's file is written again, or removed.                     *)
Rewrite ==
  /\ \E t \in Callers : "fetchAttachment" \in CallsOf[t]
  /\ disk' \in Contents \cup {None}
  /\ UNCHANGED <<callVars, token, stray, profiles, faults, historyVars>>

-----------------------------------------------------------------------------
Progress(t) ==
  \/ Authenticate(t) \/ Admit(t) \/ Refuse(t) \/ WriteRequest(t) \/ Serve(t)
  \/ Receive(t) \/ ReadBytes(t)

Call(t) == \E k \in CallsOf[t] : Open(t, k)

Step(t) == Call(t) \/ Progress(t) \/ Lose(t) \/ Garble(t)

Next == (\E t \in Callers : Step(t)) \/ RotateStray \/ Rewrite

Spec == Init /\ [][Next]_requestVars

-----------------------------------------------------------------------------
(* The type of every variable.                                             *)
Statuses == {"none", "whole", "bare", "otherKind", "foreign"} \cup ServiceCodes
Responses ==
  [status : Statuses, token : Tokens, size : Sizes \cup {0}, hash : {c[2] : c \in Contents} \cup {None}]
Results == {"none", "answered", "transport", "os", "mismatch"} \cup MappedCodes

TypeOK ==
  /\ step \in [Callers -> {"idle", "open", "auth", "ready", "sent", "answered", "reading"}]
  /\ kind \in [Callers -> Kinds] /\ credential \in [Callers -> Tokens]
  /\ response \in [Callers -> Responses] /\ result \in [Callers -> Results]
  /\ bytes \in [Callers -> Contents \cup {None}] /\ memory \in [Clients -> Tokens]
  /\ token \in Tokens /\ disk \in Contents \cup {None} /\ stray \in 0..MaxRotations
  /\ faults \in 0..MaxFaults /\ profiles \in [Profiles -> {"absent", "enabled", "disabled"}]
  /\ overtaken \subseteq Callers /\ missed \subseteq Clients

(* A call that returns was answered by the service, with what it asked for;*)
(* the bytes it returns are those the service described, or, described     *)
(* without a hash, others of the same length.                              *)
AnswersAreTrue ==
  \A t \in Callers :
    /\ result[t] = "answered" =>
         response[t].status = IF kind[t] \in NeedsPayload THEN "whole" ELSE "bare"
    /\ bytes[t] # None =>
         bytes[t][1] = response[t].size /\ response[t].hash \in {None, bytes[t][2]}

(* A client that was given its token holds the current one, unless another *)
(* client rotated it, an answer to a rotation was lost, or two rotations of*)
(* its own crossed (client.py:381-386).                                    *)
OnItsWay(c) ==
  \E t \in Callers : ClientOf[t] = c /\ step[t] = "answered" /\ Rotating(t) /\ response[t].token = token

RotationKept ==
  \A c \in Clients \ (FileClients \cup missed) : memory[c] = token \/ OnItsWay(c)

CallsAreTrue == AnswersAreTrue /\ RotationKept

-----------------------------------------------------------------------------
(* What makes the invariants above inductive.                              *)
CallTrail ==
  \A t \in Callers :
    /\ step[t] # "idle" => result[t] = "none" /\ bytes[t] = None
    /\ response[t].status \in {"none", "whole", "bare", "otherKind", "foreign", "historyUnavailable"}
    /\ kind[t] \notin NeedsPayload => response[t].status # "whole"
    /\ step[t] = "reading" => kind[t] \in NeedsPayload /\ response[t].status = "whole"

(* Who authenticates from the file is right, or has been overtaken.        *)
CredentialTrail ==
  \A t \in Callers :
    step[t] = "auth" /\ ClientOf[t] \in FileClients => credential[t] = token \/ t \in overtaken

(* A client that no rotation passed by rotates once at a time, and has the *)
(* token or the answer that brings it.                                     *)
Brings(t) == step[t] = "answered" /\ Rotating(t) /\ response[t].status = "whole"

RotationTrail ==
  /\ \A t, u \in Callers :
       t # u /\ ClientOf[t] = ClientOf[u] /\ Rotating(t) /\ Rotating(u) => ClientOf[t] \in missed
  /\ \A t \in Callers : Brings(t) /\ ClientOf[t] \notin missed => response[t].token = token
  /\ \A c \in Clients \ (FileClients \cup missed) :
       memory[c] = token \/ \E t \in Callers : ClientOf[t] = c /\ Brings(t)

AgentTrail == CallTrail /\ CredentialTrail /\ AnswersAreTrue /\ RotationTrail
=============================================================================
