--------------------------- MODULE ManagedTyping ----------------------------
(***************************************************************************)
(* One scope of typing() and the reply sent after it.  The client asks for *)
(* the capability matrix, sends `started`, renews it from a heartbeat while*)
(* the body of the scope prepares a reply, and sends `stopped` on the way  *)
(* out, shielded from the cancellation of its caller.  Every send is a     *)
(* send_content(): the capability check, then one request on a connection  *)
(* of its own, which the service may handle after the client gave it up.   *)
(*                                                                         *)
(* Both SDKs are modelled.  In Python a cancellation interrupts the await  *)
(* the caller is at; in TypeScript it is an AbortSignal that is looked at  *)
(* between the awaits and raced against the body, and the cleanup waits for*)
(* a renewal in flight, which Python cancels.                              *)
(*                                                                         *)
(* The service (external) handles requests of several connections in any   *)
(* order and carries out what its matrix of that moment supports; `typing` *)
(* says whether the last start or stop it carried out was a start.  That a *)
(* provider may clear the indicator by itself is left out.                 *)
(*                                                                         *)
(* The agent (external) sends its reply once, and text instead of it when  *)
(* it is told that the reply is not sent, as docs/sdk-python.md:165-173    *)
(* shows it: UnsupportedContentError, or a result that is not accepted.    *)
(***************************************************************************)
EXTENDS Content

CONSTANTS
  SDKs,      \* which SDKs the instance has
  Matrices,  \* the capability matrices the service may have
  Replies    \* contents the agent may reply with

Starts == {"start", "renew"}
Answers == {"reply", "instead"}
Roles == Starts \cup {"stop"} \cup Answers

ASSUME TypingAssumption ==
  /\ SDKs \subseteq {"python", "typescript"}
  /\ Matrices \subseteq [Features -> Supports \cup {None}]
  /\ DOMAIN FeatureTable = ContentKinds \ {"unsupported"}
  /\ Replies \subseteq HelperContents \cup UnsupportedContent
  /\ None \notin Features \cup Supports /\ None \notin Replies

VARIABLES
  sdk, matrix,
  pc,         \* the caller: "asking", "starting", "uncertain", "body", "cleanup", "left"
  body,       \* what the body did: "none", "value", "error", "cut" short
  exit,       \* how the scope ends: "none", "value", "error", "cancelled"
  aborted,    \* TypeScript: the signal
  escaped,    \* Python: cancelled while it waited for the shielded stop
  heartbeat,  \* "none", "sleep", "renewing", "done"
  stopper,    \* the stop under way: "none", "joining" the heartbeat, "stopping", "done"
  phase,      \* each send: "idle", "check", "write", "await"
  result,     \* what it returned or raised last
  requests,   \* sends the service has yet to handle
  typing, late,  \* the service: the indicator; sends handled that nobody awaited
  dispatched, \* answers that Messages was given
  content     \* the reply

scopeVars == <<pc, body, exit, aborted, escaped>>
taskVars == <<heartbeat, stopper>>
sendVars == <<phase, result>>
serviceVars == <<requests, typing, late, dispatched>>
vars == <<sdk, matrix, scopeVars, taskVars, sendVars, serviceVars, content>>

Init ==
  /\ sdk \in SDKs /\ matrix \in Matrices
  /\ pc = "asking" /\ body = "none" /\ exit = "none"
  /\ aborted = FALSE /\ escaped = FALSE
  /\ heartbeat = "none" /\ stopper = "none"
  /\ phase = [r \in Roles |-> "idle"] /\ result = [r \in Roles |-> "none"]
  /\ requests = {} /\ typing = FALSE /\ late = {} /\ dispatched = {}
  /\ content = None

-----------------------------------------------------------------------------
(* A send: send_content(), send_typing().                                  *)
Calling(r) ==
  /\ phase' = [phase EXCEPT ![r] = "check"]
  /\ result' = [result EXCEPT ![r] = "none"]

Finish(r, e) ==
  /\ phase' = [phase EXCEPT ![r] = "idle"]
  /\ result' = [result EXCEPT ![r] = e]

Sent(r) ==
  CASE r = "reply" -> content
    [] r = "instead" -> TextContent
    [] OTHER -> TypingContent

CheckPasses(r) ==
  /\ phase[r] = "check" /\ FeatureFor(sdk, Sent(r)) # None /\ ~GateRejects(sdk, matrix, Sent(r))
  /\ phase' = [phase EXCEPT ![r] = "write"]
  /\ UNCHANGED <<sdk, matrix, scopeVars, taskVars, result, serviceVars, content>>

(* UnsupportedContentError, or what capabilities() or the table raised.    *)
CheckFails(r) ==
  /\ phase[r] = "check"
  /\ \/ GateRejects(sdk, matrix, Sent(r)) /\ Finish(r, "unsupported")
     \/ Finish(r, "failed")
  /\ UNCHANGED <<sdk, matrix, scopeVars, taskVars, serviceVars, content>>

WriteRequest(r) ==
  /\ phase[r] = "write"
  /\ phase' = [phase EXCEPT ![r] = "await"]
  /\ requests' = requests \cup {r}
  /\ UNCHANGED <<sdk, matrix, scopeVars, taskVars, result, typing, late, dispatched, content>>

(* Authentication refused, which send() returns as not accepted, or the    *)
(* connection lost.                                                        *)
NotWritten(r) ==
  /\ phase[r] = "write"
  /\ \E e \in {"refused", "failed"} : Finish(r, e)
  /\ UNCHANGED <<sdk, matrix, scopeVars, taskVars, serviceVars, content>>

\* Mutant: a lost answer is returned as a result that was not accepted.
LoseRefuses(r) ==
  /\ phase[r] = "await"
  /\ Finish(r, "refused")
  /\ UNCHANGED <<sdk, matrix, scopeVars, taskVars, serviceVars, content>>

Lose(r) ==
  /\ phase[r] = "await"
  /\ Finish(r, "failed")
  /\ UNCHANGED <<sdk, matrix, scopeVars, taskVars, serviceVars, content>>

(* Only Python cancels a send of its caller.                               *)
CancelAnswer(r) ==
  /\ sdk = "python" /\ phase[r] # "idle"
  /\ Finish(r, "cancelled")
  /\ UNCHANGED <<sdk, matrix, scopeVars, taskVars, serviceVars, content>>

(* The service handles a request; a failure may come before or after it    *)
(* was carried out.                                                        *)
Indicates(r) == IF r \in Starts THEN TRUE ELSE IF r = "stop" THEN FALSE ELSE typing

Handle(r) ==
  /\ r \in requests
  /\ requests' = requests \ {r}
  /\ \E e \in {"accepted", "refused", "failed"}, done \in BOOLEAN :
       /\ (e = "accepted" => done) /\ (e = "refused" => ~done)
       /\ done => Performs(matrix, Sent(r))
       /\ IF phase[r] = "await" THEN Finish(r, e) ELSE UNCHANGED sendVars
       /\ typing' = IF done THEN Indicates(r) ELSE typing
       /\ dispatched' = IF done THEN dispatched \cup ({r} \cap Answers) ELSE dispatched
  /\ late' = IF phase[r] = "await" THEN late ELSE late \cup {r}
  /\ UNCHANGED <<sdk, matrix, scopeVars, taskVars, content>>

ChangeMatrix ==
  /\ matrix' \in Matrices
  /\ UNCHANGED <<sdk, scopeVars, taskVars, sendVars, serviceVars, content>>

-----------------------------------------------------------------------------
(* The way in.  An abort of TypeScript shows at the next checkpoint.       *)
Leave(e) == pc' = "left" /\ exit' = e /\ UNCHANGED <<body, aborted, escaped>>

GoTo(p) == pc' = p /\ UNCHANGED <<body, exit, aborted, escaped>>

Enter == IF aborted THEN Leave("cancelled") ELSE GoTo("body")

(* typing() asks for the matrix; a failure means that typing is not used.  *)
Ask ==
  /\ pc = "asking"
  /\ \E answered \in BOOLEAN :
       IF answered /\ matrix["sendTypingIndicator"] = "supported" /\ ~aborted
       THEN GoTo("starting") /\ Calling("start")
       ELSE Enter /\ UNCHANGED sendVars
  /\ UNCHANGED <<sdk, matrix, taskVars, serviceVars, content>>

CancelAsk ==
  /\ pc = "asking" /\ sdk = "python"
  /\ Leave("cancelled")
  /\ UNCHANGED <<sdk, matrix, taskVars, sendVars, serviceVars, content>>

Returned(r, e) == phase[r] = "idle" /\ result[r] \in e

(* The heartbeat starts before the signal is looked at again.              *)
StartAccepted ==
  /\ pc = "starting" /\ Returned("start", {"accepted"})
  /\ heartbeat' = "sleep"
  /\ IF aborted
     THEN /\ pc' = "cleanup" /\ exit' = "cancelled" /\ stopper' = "joining"
          /\ UNCHANGED <<body, aborted, escaped>>
     ELSE GoTo("body") /\ UNCHANGED stopper
  /\ UNCHANGED <<sdk, matrix, sendVars, serviceVars, content>>

StartRefused ==
  /\ pc = "starting" /\ Returned("start", {"refused", "unsupported"})
  /\ Enter
  /\ UNCHANGED <<sdk, matrix, taskVars, sendVars, serviceVars, content>>

\* Mutant: a lost receipt is raised to the caller.
StartUncertainRaises ==
  /\ pc = "starting" /\ Returned("start", {"failed"})
  /\ Leave("error")
  /\ UNCHANGED <<sdk, matrix, taskVars, sendVars, serviceVars, content>>

(* A lost receipt may still own typing: stop first.                        *)
StartUncertain ==
  /\ pc = "starting" /\ Returned("start", {"failed"})
  /\ GoTo("uncertain")
  /\ stopper' = "stopping" /\ Calling("stop")
  /\ UNCHANGED <<sdk, matrix, heartbeat, serviceVars, content>>

CancelStart ==
  /\ pc = "starting" /\ sdk = "python"
  /\ pc' = "uncertain" /\ exit' = "cancelled"
  /\ phase' = [phase EXCEPT !["start"] = "idle", !["stop"] = "check"]
  /\ result' = [result EXCEPT !["start"] = "cancelled", !["stop"] = "none"]
  /\ stopper' = "stopping"
  /\ UNCHANGED <<sdk, matrix, body, aborted, escaped, heartbeat, serviceVars, content>>

AfterUncertain ==
  /\ pc = "uncertain" /\ stopper = "done"
  /\ IF exit = "cancelled" THEN Leave("cancelled") ELSE Enter
  /\ UNCHANGED <<sdk, matrix, taskVars, sendVars, serviceVars, content>>

-----------------------------------------------------------------------------
(* The body, and the way out.                                              *)
Owned == heartbeat # "none"

Unwind(b, e) ==
  /\ body' = b /\ exit' = e
  /\ IF Owned THEN pc' = "cleanup" /\ stopper' = "joining" ELSE pc' = "left" /\ UNCHANGED stopper
  /\ UNCHANGED <<sdk, matrix, aborted, escaped, heartbeat, sendVars, serviceVars, content>>

BodyEnds ==
  /\ pc = "body"
  /\ \E b \in {"value", "error"} :
       Unwind(b, IF b = "value" /\ aborted /\ Owned THEN "cancelled" ELSE b)

(* Only a scope that owns typing races the signal against the body.        *)
BodyCut ==
  /\ pc = "body" /\ (sdk = "python" \/ (aborted /\ Owned))
  /\ Unwind("cut", "cancelled")

CleanedUp ==
  /\ pc = "cleanup" /\ stopper = "done"
  /\ GoTo("left")
  /\ UNCHANGED <<sdk, matrix, taskVars, sendVars, serviceVars, content>>

\* Mutant: the stop is not shielded.
EscapeUnshielded ==
  /\ pc \in {"uncertain", "cleanup"} /\ sdk = "python"
  /\ pc' = "left" /\ exit' = "cancelled" /\ escaped' = TRUE
  /\ stopper' = "done" /\ heartbeat' = IF Owned THEN "done" ELSE heartbeat
  /\ Finish("stop", "cancelled")
  /\ UNCHANGED <<sdk, matrix, body, aborted, serviceVars, content>>

(* The wait for the shielded stop is cancelled: the stop goes on alone.    *)
Escape ==
  /\ pc \in {"uncertain", "cleanup"} /\ sdk = "python"
  /\ pc' = "left" /\ exit' = "cancelled" /\ escaped' = TRUE
  /\ UNCHANGED <<sdk, matrix, body, aborted, taskVars, sendVars, serviceVars, content>>

Abort ==
  /\ sdk = "typescript" /\ ~aborted /\ pc # "left"
  /\ aborted' = TRUE
  /\ UNCHANGED <<sdk, matrix, pc, body, exit, escaped, taskVars, sendVars, serviceVars, content>>

-----------------------------------------------------------------------------
(* The heartbeat, and the cleanup that ends it before it sends `stopped`.  *)
Renew ==
  /\ heartbeat = "sleep" /\ (sdk = "typescript" => stopper = "none")
  /\ heartbeat' = "renewing" /\ Calling("renew")
  /\ UNCHANGED <<sdk, matrix, scopeVars, stopper, serviceVars, content>>

\* Mutant: the heartbeat takes the outcome of its renewal for its state.
RenewedRaw ==
  /\ heartbeat = "renewing" /\ phase["renew"] = "idle"
  /\ heartbeat' = IF result["renew"] = "accepted" THEN "sleep" ELSE result["renew"]
  /\ UNCHANGED <<sdk, matrix, scopeVars, stopper, sendVars, serviceVars, content>>

Renewed ==
  /\ heartbeat = "renewing" /\ phase["renew"] = "idle"
  /\ heartbeat' = IF result["renew"] = "accepted" THEN "sleep" ELSE "done"
  /\ UNCHANGED <<sdk, matrix, scopeVars, stopper, sendVars, serviceVars, content>>

\* Mutant: the stop is sent beside a renewal that goes on.
JoinNobody ==
  /\ stopper = "joining"
  /\ stopper' = "stopping" /\ Calling("stop")
  /\ UNCHANGED <<sdk, matrix, scopeVars, heartbeat, serviceVars, content>>

(* Python cancels the heartbeat and so abandons its renewal; TypeScript    *)
(* wakes it and waits for its end.                                         *)
Join ==
  /\ stopper = "joining" /\ (sdk = "typescript" => heartbeat # "renewing")
  /\ heartbeat' = "done" /\ stopper' = "stopping"
  /\ phase' = [phase EXCEPT !["renew"] = "idle", !["stop"] = "check"]
  /\ result' = [result EXCEPT !["renew"] = IF heartbeat = "renewing" THEN "cancelled" ELSE @,
                              !["stop"] = "none"]
  /\ UNCHANGED <<sdk, matrix, scopeVars, serviceVars, content>>

Stopped ==
  /\ stopper = "stopping" /\ phase["stop"] = "idle"
  /\ stopper' = "done"
  /\ UNCHANGED <<sdk, matrix, scopeVars, heartbeat, sendVars, serviceVars, content>>

(* The agent sends the reply it prepared, and text instead of a reply that *)
(* it was told is not sent (external).                                     *)
Reply ==
  /\ pc = "left" /\ exit = "value" /\ content = None
  /\ content' \in Replies
  /\ Calling("reply")
  /\ UNCHANGED <<sdk, matrix, scopeVars, taskVars, serviceVars>>

ReplyInstead ==
  /\ Returned("reply", {"unsupported", "refused"}) /\ Returned("instead", {"none"})
  /\ Calling("instead")
  /\ UNCHANGED <<sdk, matrix, scopeVars, taskVars, serviceVars, content>>

-----------------------------------------------------------------------------
Progress ==
  \/ Ask \/ StartAccepted \/ StartRefused \/ StartUncertain \/ AfterUncertain \/ CleanedUp
  \/ Join \/ Stopped \/ Renewed

Interrupt == CancelAsk \/ CancelStart \/ BodyCut \/ Escape \/ Abort

SendProgress(r) == CheckPasses(r) \/ CheckFails(r) \/ WriteRequest(r)

Next ==
  \/ Progress \/ Interrupt \/ BodyEnds \/ Renew \/ Reply \/ ReplyInstead \/ ChangeMatrix
  \/ \E r \in Answers : CancelAnswer(r)
  \/ \E r \in Roles : SendProgress(r) \/ NotWritten(r) \/ Lose(r) \/ Handle(r)

Spec == Init /\ [][Next]_vars

(* The event loop runs what is ready, and the service handles what it was  *)
(* sent.  Nothing ends the body, cancels, renews or fails by itself.       *)
Fairness ==
  /\ WF_vars(Ask) /\ WF_vars(StartAccepted \/ StartRefused \/ StartUncertain)
  /\ WF_vars(AfterUncertain) /\ WF_vars(CleanedUp)
  /\ WF_vars(Join) /\ WF_vars(Stopped) /\ WF_vars(Renewed)
  /\ \A r \in Roles : WF_vars(SendProgress(r)) /\ WF_vars(Handle(r))

FairSpec == Spec /\ Fairness

-----------------------------------------------------------------------------
(* The type of every variable.                                             *)
TypeOK ==
  /\ sdk \in SDKs /\ matrix \in Matrices
  /\ pc \in {"asking", "starting", "uncertain", "body", "cleanup", "left"}
  /\ body \in {"none", "value", "error", "cut"}
  /\ exit \in {"none", "value", "error", "cancelled"}
  /\ aborted \in BOOLEAN /\ escaped \in BOOLEAN
  /\ heartbeat \in {"none", "sleep", "renewing", "done"}
  /\ stopper \in {"none", "joining", "stopping", "done"}
  /\ phase \in [Roles -> {"idle", "check", "write", "await"}]
  /\ result \in [Roles -> {"none", "accepted", "refused", "failed", "unsupported", "cancelled"}]
  /\ requests \subseteq Roles /\ typing \in BOOLEAN /\ late \subseteq Roles
  /\ dispatched \subseteq Answers /\ content \in Replies \cup {None}

(* Typing is over when the scope is: once its caller has waited for the    *)
(* scope to end and the stop was accepted, the indicator is off, unless the*)
(* service handled a start after the call that made it had failed, or, in  *)
(* Python only, had been cancelled by the cleanup (_typing.py:50-59,       *)
(* typing.ts:56-65).  Without an accepted stop it may be on only if a stop *)
(* was tried (docstring of typing(): "send it after typing stops on exit").*)
Outlived(r) ==
  r \in late /\ (result[r] = "failed" \/ (sdk = "python" /\ result[r] = "cancelled"))

ScopeEndsQuiet ==
  pc = "left" /\ ~escaped /\ typing =>
    result["stop"] \in {"refused", "failed", "unsupported"} \/ \E r \in Starts : Outlived(r)

(* Typing is advisory: whatever its sends do, the scope ends as its body   *)
(* did, unless the caller was cancelled (errors.py:194-199).               *)
TypingIsAdvisory ==
  pc = "left" => exit = body \/ (exit = "cancelled" /\ (sdk = "typescript" => aborted))

(* An agent that sends text when it is told that its reply is not sent     *)
(* never says it twice: by then the service does not have the reply and    *)
(* never will, although the matrix the gate read over one connection may   *)
(* change before the request is written on another, the service refuses by *)
(* its own matrix, and answers are lost (docs/sdk-python.md:165-175 and    *)
(* 193; client.py:249, where the request follows the check).               *)
SaidOnce ==
  /\ \A r \in Answers : result[r] \in {"unsupported", "refused"} => r \notin requests \cup dispatched
  /\ "instead" \in requests \cup dispatched => "reply" \notin requests \cup dispatched

(* However a scope that may have shown typing was left, its heartbeat ends *)
(* and a stop is sent and answered; and a body that ended does leave.      *)
CleansUp ==
  /\ (body # "none") ~> (pc = "left")
  /\ (pc = "left" /\ result["start"] \in {"accepted", "failed", "cancelled"})
       ~> (/\ heartbeat \in {"none", "done"} /\ stopper = "done"
           /\ result["stop"] \notin {"none", "cancelled"})

-----------------------------------------------------------------------------
(* What makes the invariants above inductive.                              *)

(* A call of a start that the client has given up; the service has or      *)
(* handles late only the requests of such calls.                           *)
Abandoned(r) ==
  phase[r] = "idle" /\ (result[r] = "failed" \/ (sdk = "python" /\ result[r] = "cancelled"))

SendTrail ==
  /\ \A r \in Roles : phase[r] # "idle" => result[r] = "none"
  /\ \A r \in Starts :
       /\ r \in requests => phase[r] = "await" \/ Abandoned(r)
       /\ r \in late => Abandoned(r)

(* Where the caller is, and the tasks it has by then.                      *)
PlaceTrail ==
  /\ pc = "asking" => phase["start"] = "idle" /\ result["start"] = "none"
  /\ phase["start"] # "idle" => pc = "starting"
  /\ pc \in {"asking", "starting"} => ~Owned /\ stopper = "none"
  /\ pc = "uncertain" => ~Owned /\ stopper \in {"stopping", "done"}
  /\ pc = "body" => stopper = "none" \/ (~Owned /\ stopper = "done")
  /\ pc = "cleanup" => Owned /\ stopper # "none"
  /\ pc = "left" /\ ~escaped => stopper = "done" \/ (~Owned /\ stopper = "none")

(* A renewal belongs to the heartbeat, and the stop comes after both.      *)
TaskTrail ==
  /\ heartbeat \in {"none", "sleep"} => result["renew"] \in {"none", "accepted"}
  /\ phase["renew"] # "idle" => heartbeat = "renewing"
  /\ stopper \in {"stopping", "done"} => heartbeat \in {"none", "done"}
  /\ phase["stop"] # "idle" => stopper = "stopping"
  /\ stopper \in {"stopping", "done"} /\ phase["stop"] = "idle" =>
       result["stop"] \in {"accepted", "refused", "failed", "unsupported"}

(* Why the indicator may be on: a start handled late, one that the caller  *)
(* is about to learn of, a stop yet to be accepted, a stop that failed.    *)
LightTrail ==
  typing =>
    \/ late \cap Starts # {}
    \/ pc = "starting" /\ phase["start"] = "idle" /\ result["start"] \in {"accepted", "failed"}
    \/ Owned /\ stopper = "none"
    \/ stopper = "joining"
    \/ stopper = "stopping" /\ result["stop"] # "accepted"
    \/ stopper = "done" /\ result["stop"] \in {"refused", "failed", "unsupported"}

Cancelled == exit = "cancelled" /\ (sdk = "typescript" => aborted)

ExitTrail ==
  /\ pc \in {"asking", "starting", "body"} => exit = "none"
  /\ pc = "uncertain" => exit = "none" \/ (exit = "cancelled" /\ sdk = "python")
  /\ pc \in {"cleanup", "left"} => exit = body \/ Cancelled

(* The service has, or was given, only an answer that is awaited or whose  *)
(* sender was told nothing for certain; text is sent after a refusal only. *)
AnswerTrail ==
  /\ content = None => phase["reply"] = "idle" /\ result["reply"] = "none"
  /\ \A r \in Answers : r \in requests \cup dispatched =>
       \/ phase[r] = "await" /\ r \notin dispatched
       \/ phase[r] = "idle" /\ result[r] \in {"failed", "cancelled"}
       \/ phase[r] = "idle" /\ result[r] = "accepted" /\ r \notin requests
  /\ phase["instead"] # "idle" \/ result["instead"] # "none" =>
       phase["reply"] = "idle" /\ result["reply"] \in {"unsupported", "refused"}

ScopeTrail == SendTrail /\ PlaceTrail /\ TaskTrail /\ LightTrail /\ ExitTrail /\ AnswerTrail
=============================================================================
