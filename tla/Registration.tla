---------------------------- MODULE Registration ----------------------------
(***************************************************************************)
(* The owner and the agents together: ControlExchange and ClientRequests   *)
(* meet in the connections the service knows.  The owner's commands create,*)
(* change and remove them; an agent of a registered connection is admitted *)
(* as long as its connection is enabled and its credential was made from   *)
(* the current token.                                                      *)
(*                                                                         *)
(* An instance may have several casts, of which one plays in a behaviour.  *)
(***************************************************************************)
EXTENDS Naturals, FiniteSets

CONSTANTS
  Casts,  \* [sdk, commands, callers]: who takes part
  Profiles, Commands, Large, Oversized, MaxCommands, PeerReads,
  Callers, Clients, ClientOf, FileClients, ProfileOf, CallsOf, Contents, MaxRotations, MaxFaults,
  None

SDKs == {"python", "typescript"}

VARIABLES
  cast,
  \* ControlExchange
  sdk, turn, request, phase, answer, expired, report, frame, wire, rich, by,
  \* ClientRequests
  step, kind, credential, response, result, bytes, memory, token, disk, stray, faults,
  overtaken, missed,
  \* both
  profiles

ownerSide == <<sdk, turn, request, phase, answer, expired, report, frame, wire, rich, by>>
agentSide ==
  <<step, kind, credential, response, result, bytes, memory, token, disk, stray, faults,
    overtaken, missed>>
vars == <<cast, ownerSide, agentSide, profiles>>

Control == INSTANCE ControlExchange
Client == INSTANCE ClientRequests

ASSUME RegistrationAssumption ==
  /\ Casts \subseteq [sdk : SDKs, commands : SUBSET Commands, callers : SUBSET Callers]
  /\ Control!ControlAssumption /\ Client!RequestsAssumption

Init ==
  /\ cast \in Casts
  /\ Control!Init /\ sdk = cast.sdk
  /\ Client!Init

-----------------------------------------------------------------------------
OwnerBegins(c) == c \in cast.commands /\ Control!Begin(c) /\ UNCHANGED <<cast, agentSide>>

OwnerExchanges ==
  /\ Control!Exchange \/ Control!Disconnect
  /\ UNCHANGED <<cast, agentSide>>

ServiceCommanded(n) == Control!Peer(n) /\ UNCHANGED <<cast, agentSide>>

AgentSteps(t) ==
  /\ t \in cast.callers
  /\ Client!Step(t)
  /\ UNCHANGED <<cast, ownerSide>>

ServiceAlone ==
  /\ cast.callers # {}
  /\ Client!RotateStray \/ Client!Rewrite
  /\ UNCHANGED <<cast, ownerSide>>

Next ==
  \/ \E c \in Commands : OwnerBegins(c)
  \/ OwnerExchanges \/ ServiceAlone
  \/ \E n \in Control!Turns : ServiceCommanded(n)
  \/ \E t \in Callers : AgentSteps(t)

Spec == Init /\ [][Next]_vars

(* An agent calls again and again, and goes on; the service answers it.    *)
AgentGoesOn(t) ==
  /\ t \in cast.callers
  /\ Client!Progress(t) \/ Client!Call(t)
  /\ UNCHANGED <<cast, ownerSide>>

FairSpec ==
  /\ Spec /\ Control!Fairness
  /\ \A t \in Callers : WF_vars(AgentGoesOn(t))

-----------------------------------------------------------------------------
(* The type of every variable.                                             *)
TypeOK == cast \in Casts /\ Control!TypeOK /\ Client!TypeOK

(* What the owner is told of its commands, and the agents of their calls.  *)
ControlTruth == Control!ControlTruth
CallsAreTrue == Client!CallsAreTrue

(* What the owner knows of a connection: its last accepted command on it,  *)
(* or as it was before the first, unless the outcome of one is open.       *)
On(p) == {n \in Control!Turns : request[n] # None /\ request[n].profile = p}
Accepted(p) == {n \in On(p) : report[n] = "accepted"}
InDoubt(p) == {n \in On(p) : report[n] \in Control!Open}

OwnerSays(p, s) ==
  /\ InDoubt(p) = {}
  /\ IF Accepted(p) = {} THEN profiles[p] = s
     ELSE \E n \in Accepted(p) :
            Control!Effect(request[n]) = s /\ \A m \in Accepted(p) : m <= n

(* The owner's last word decides who gets in.  An agent that reads its     *)
(* token from the file is refused only if a rotation came between its      *)
(* reading and the service's looking, or its connection may not be enabled;*)
(* and it is not admitted once its connection was disabled or removed      *)
(* (docs/sdk-python.md:205-215).                                           *)
Refused(t) == result[t] # "authFailed" /\ result'[t] = "authFailed"
Admitted(t) == step[t] = "auth" /\ step'[t] = "ready"

AccessFollowsOwner ==
  [][\A t \in Callers :
       LET c == ClientOf[t]  p == ProfileOf[c] IN
       /\ Refused(t) /\ c \in FileClients /\ (p # None => OwnerSays(p, "enabled")) => t \in overtaken
       /\ Admitted(t) /\ p # None => ~OwnerSays(p, "disabled") /\ ~OwnerSays(p, "absent")]_vars

(* Every command returns by its deadline; and once no command changes its  *)
(* connection any more, an enabled agent with the token file is answered   *)
(* again and again, whatever rotations, losses and refusals there were.    *)
Asking == {t \in Callers : ClientOf[t] \in FileClients /\ "health" \in CallsOf[t]}

EverythingReturns ==
  /\ Control!ReturnsByDeadline
  /\ \A t \in Asking :
       <>[](t \in cast.callers /\ Client!Recognised(t)) => []<>(result[t] = "answered")
=============================================================================
