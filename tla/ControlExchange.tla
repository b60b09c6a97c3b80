-------------------------- MODULE ControlExchange ---------------------------
(***************************************************************************)
(* The local owner's commands: send() of SiriusMsgAgentControlClient, one  *)
(* exchange on a Unix socket of its own under one deadline and without a   *)
(* retry, and the methods around it.  Both SDKs: Python closes the stream  *)
(* and waits until it is closed, TypeScript destroys the socket.           *)
(*                                                                         *)
(* A command is a record; the exchanges of the owner are numbered.  A large*)
(* frame does not fit the socket's buffers: it is `buffered` until the peer*)
(* reads.  The peer is external: it applies a command or rejects it, also  *)
(* after the owner gave up, and may answer, close, or damage the answer.   *)
(***************************************************************************)
EXTENDS OwnerCommands

CONSTANTS
  SDKs,         \* which SDKs the instance has
  Profiles,     \* connections the owner may register
  Commands,     \* what the owner may ask for
  Large, Oversized,  \* commands with such frames
  MaxCommands,  \* exchanges at most
  PeerReads     \* the peer goes on reading what is written to it

Turns == 1..MaxCommands

(* What an instance has to provide.                                       *)
ControlAssumption ==
  /\ SDKs \subseteq {"python", "typescript"} /\ MaxCommands \in Nat /\ PeerReads \in BOOLEAN
  /\ Commands \subseteq CommandsOn(Profiles)
  /\ Large \subseteq Commands /\ Oversized \subseteq Commands
  /\ None \notin Profiles \cup RichConfigurations \cup Commands /\ None \notin BOOLEAN

VARIABLES
  sdk,
  turn,      \* the number of the exchange, 0 before the first
  request,   \* the command of each exchange
  phase,     \* "idle", "connecting", "writing", "reading", "closing"
  answer,    \* Python, closing: what the exchange ended with
  expired,   \* the deadline of the exchange has fired
  report,    \* how each exchange ended for the owner
  frame,     \* the request: "none", "buffered", "sent", "applied", "rejected", "lost"
  wire,      \* what the reader is about to see
  profiles, rich,  \* the peer: its connections and configuration
  by         \* the exchange that last changed a connection

ownerVars == <<turn, request, phase, answer, expired, report>>
peerVars == <<profiles, rich, by>>
controlVars == <<sdk, ownerVars, frame, wire, peerVars>>

Init ==
  /\ sdk \in SDKs
  /\ turn = 0 /\ request = [n \in Turns |-> None]
  /\ phase = "idle" /\ answer = "none" /\ expired = FALSE
  /\ report = [n \in Turns |-> "none"]
  /\ frame = [n \in Turns |-> "none"] /\ wire = "none"
  /\ profiles \in [Profiles -> {"absent", "enabled"}] /\ by = [p \in Profiles |-> 0]
  /\ rich = [provider |-> "imsg", enabled |-> FALSE, nativeEnabled |-> None]

-----------------------------------------------------------------------------
(* The exchange.                                                           *)
Return(e) ==
  /\ phase' = "idle" /\ answer' = "none"
  /\ report' = [report EXCEPT ![turn] = e]
  /\ UNCHANGED <<turn, request>>

(* Refused before anything is written: ValueError, RangeError.  The type   *)
(* of the argument is all that TypeScript has against a retention.         *)
Invalid(c) == c \in Oversized \/ (sdk = "python" /\ BadRetention(c))

(* An exchange shares nothing with another one but the peer; the owner of  *)
(* the model starts the next when the last one has returned, and what it   *)
(* gave up may still land among its successors.                            *)
Begin(c) ==
  /\ phase = "idle" /\ turn < MaxCommands
  /\ turn' = turn + 1
  /\ request' = [request EXCEPT ![turn'] = c]
  /\ expired' = FALSE /\ wire' = "none"
  /\ IF Invalid(c)
     THEN report' = [report EXCEPT ![turn'] = "invalid"] /\ UNCHANGED phase
     ELSE phase' = "connecting" /\ UNCHANGED report
  /\ UNCHANGED <<sdk, answer, frame, peerVars>>

(* drain() returns at once unless the frame fills the buffers.             *)
Connect ==
  /\ phase = "connecting"
  /\ frame' = [frame EXCEPT ![turn] = IF request[turn] \in Large THEN "buffered" ELSE "sent"]
  /\ phase' = IF sdk = "python" /\ request[turn] \in Large THEN "writing" ELSE "reading"
  /\ UNCHANGED <<sdk, turn, request, answer, expired, report, wire, peerVars>>

ConnectFails ==
  /\ phase = "connecting"
  /\ Return("unknown")
  /\ UNCHANGED <<sdk, expired, frame, wire, peerVars>>

(* It may also return with the rest of the frame still to go.              *)
Drained ==
  /\ phase = "writing"
  /\ phase' = "reading"
  /\ UNCHANGED <<sdk, turn, request, answer, expired, report, frame, wire, peerVars>>

(* The finally clause; destroy() drops what was not written.               *)
Close(e) ==
  IF sdk = "python"
  THEN phase' = "closing" /\ answer' = e /\ UNCHANGED <<turn, request, report, frame>>
  ELSE /\ Return(e)
       /\ frame' = [frame EXCEPT ![turn] = IF @ = "buffered" THEN "lost" ELSE @]

\* Mutant: what cannot be understood counts as a rejection.
OutcomeStrict(r) ==
  IF r = "accepted" \/ (r = "bare" /\ request[turn].command \notin NeedsPayload)
  THEN "accepted" ELSE IF r = "reset" THEN "unknown" ELSE "rejected"

(* What send() and the method make of a reply, or of its absence.          *)
Outcome(r) ==
  IF r = "rejected" THEN "rejected"
  ELSE IF r = "accepted" \/ (r = "bare" /\ request[turn].command \notin NeedsPayload) THEN "accepted"
  ELSE IF r = "reset" \/ (r = "eof" /\ sdk = "typescript") THEN "unknown"
  ELSE "malformed"

Read ==
  /\ phase = "reading" /\ wire # "none"
  /\ Close(Outcome(wire))
  /\ UNCHANGED <<sdk, expired, wire, peerVars>>

DrainFails ==
  /\ phase = "writing" /\ wire = "reset"
  /\ Close("unknown")
  /\ UNCHANGED <<sdk, expired, wire, peerVars>>

(* wait_closed() ends when everything is written, or with an error.        *)
Closed ==
  /\ phase = "closing" /\ frame[turn] # "buffered"
  /\ Return(answer)
  /\ UNCHANGED <<sdk, expired, frame, wire, peerVars>>

CloseFails ==
  /\ phase = "closing"
  /\ Return("unknown")
  /\ frame' = [frame EXCEPT ![turn] = IF @ = "buffered" THEN "lost" ELSE @]
  /\ UNCHANGED <<sdk, expired, wire, peerVars>>

\* Mutant: the deadline starts once the socket is connected.
DeadlineConnected ==
  /\ phase \notin {"idle", "connecting"} /\ ~expired
  /\ expired' = TRUE
  /\ IF phase \in {"writing", "reading"}
     THEN Close("unknown")
     ELSE Return(IF answer = "cancelled" THEN answer ELSE "unknown") /\ UNCHANGED frame
  /\ UNCHANGED <<sdk, wire, peerVars>>

(* The deadline interrupts whatever the exchange waits for, once.          *)
Deadline ==
  /\ phase # "idle" /\ ~expired
  /\ expired' = TRUE
  /\ IF phase \in {"writing", "reading"}
     THEN Close("unknown")
     ELSE Return(IF answer = "cancelled" THEN answer ELSE "unknown") /\ UNCHANGED frame
  /\ UNCHANGED <<sdk, wire, peerVars>>

(* A cancelled task, an aborted signal.                                    *)
Cancel ==
  /\ phase # "idle"
  /\ IF phase \in {"writing", "reading"} THEN Close("cancelled")
     ELSE Return("cancelled") /\ UNCHANGED frame
  /\ UNCHANGED <<sdk, expired, wire, peerVars>>

-----------------------------------------------------------------------------
(* The peer (external), and the connection.                                *)
Answer(n, r) ==
  wire' = IF n = turn /\ phase \in {"writing", "reading"} /\ wire = "none" THEN r ELSE wire

TakeFrame(n) ==
  /\ frame[n] = "buffered"
  /\ frame' = [frame EXCEPT ![n] = "sent"]
  /\ UNCHANGED <<sdk, ownerVars, wire, peerVars>>

Applicable(c) ==
  CASE c.command = "createConnection" -> profiles[c.profile] = "absent"
    [] c.command \in {"updateConnection", "removeConnection"} -> profiles[c.profile] # "absent"
    [] OTHER -> TRUE

Effect(c) ==
  IF c.command = "removeConnection" THEN "absent" ELSE IF c.enabled THEN "enabled" ELSE "disabled"

Apply(n) ==
  /\ frame[n] = "sent" /\ Applicable(request[n]) /\ ~BadRetention(request[n])
  /\ frame' = [frame EXCEPT ![n] = "applied"]
  /\ LET p == request[n].profile IN
     IF p = None THEN UNCHANGED <<profiles, by>>
     ELSE /\ profiles' = [profiles EXCEPT ![p] = Effect(request[n])]
          /\ by' = [by EXCEPT ![p] = n]
  /\ rich' = IF request[n].rich = None THEN rich ELSE request[n].rich
  /\ \E r \in {"accepted", "bare", "garbage", "none"} : Answer(n, r)
  /\ UNCHANGED <<sdk, ownerVars>>

Reject(n) ==
  /\ frame[n] = "sent"
  /\ frame' = [frame EXCEPT ![n] = "rejected"]
  /\ \E r \in {"rejected", "garbage", "none"} : Answer(n, r)
  /\ UNCHANGED <<sdk, ownerVars, peerVars>>

(* The peer goes away, or the connection does; what was sent may still be  *)
(* handled.                                                                *)
Disconnect ==
  /\ phase \in {"writing", "reading"} /\ wire = "none"
  /\ wire' \in {"eof", "reset"}
  /\ frame' = [frame EXCEPT ![turn] = IF @ = "buffered" THEN "lost" ELSE @]
  /\ UNCHANGED <<sdk, ownerVars, peerVars>>

-----------------------------------------------------------------------------
Exchange ==
  \/ Connect \/ ConnectFails \/ Drained \/ Read \/ DrainFails \/ Closed \/ CloseFails
  \/ Deadline \/ Cancel

Peer(n) == TakeFrame(n) \/ Apply(n) \/ Reject(n)

Next ==
  \/ \E c \in Commands : Begin(c)
  \/ Exchange \/ Disconnect
  \/ \E n \in Turns : Peer(n)

Spec == Init /\ [][Next]_controlVars

(* The event loop runs what is ready and time passes.  That the peer reads *)
(* is an assumption of the instances that say so.                          *)
Fairness ==
  /\ WF_controlVars(Deadline) /\ WF_controlVars(Closed)
  /\ WF_controlVars(Read \/ DrainFails)
  /\ PeerReads => \A n \in Turns : WF_controlVars(TakeFrame(n))

FairSpec == Spec /\ Fairness

-----------------------------------------------------------------------------
(* The type of every variable.                                             *)
TypeOK ==
  /\ sdk \in SDKs /\ turn \in 0..MaxCommands
  /\ request \in [Turns -> Commands \cup {None}]
  /\ phase \in {"idle", "connecting", "writing", "reading", "closing"}
  /\ answer \in {"none", "accepted", "rejected", "malformed", "unknown", "cancelled"}
  /\ expired \in BOOLEAN
  /\ report \in [Turns -> {"none", "accepted", "rejected", "malformed", "unknown", "cancelled", "invalid"}]
  /\ frame \in [Turns -> {"none", "buffered", "sent", "applied", "rejected", "lost"}]
  /\ wire \in {"none", "accepted", "bare", "rejected", "garbage", "eof", "reset"}
  /\ profiles \in [Profiles -> {"absent", "enabled", "disabled"}]
  /\ by \in [Profiles -> 0..MaxCommands] /\ rich \in RichConfigurations

(* What the owner is told is so, for good: an accepted command was applied,*)
(* a rejected one was not and never will be, an invalid one was not even   *)
(* written.  Everything else leaves the outcome open (docs/sdk-feature-    *)
(* parity.md:82-84, "a timeout can follow a completed mutation").          *)
ReportIsTrue ==
  \A n \in Turns :
    /\ report[n] = "accepted" => frame[n] = "applied"
    /\ report[n] = "rejected" => frame[n] = "rejected"
    /\ report[n] = "invalid" => frame[n] = "none"

(* An accepted command stands until a later one, or one whose outcome was  *)
(* left open, changes the connection: a command the owner gave up may land *)
(* after its successor.                                                    *)
Open == {"none", "malformed", "unknown", "cancelled"}

AcceptedStands ==
  \A n \in Turns, p \in Profiles :
    report[n] = "accepted" /\ request[n].profile = p =>
      by[p] >= n \/ (by[p] # 0 /\ report[by[p]] \in Open)

(* Writing back the configuration that was read changes nothing, and the   *)
(* flag of the other provider stays off (docs/sdk-feature-parity.md:66-70).*)
NativeKept ==
  rich.provider = "nativeAccessibility" => ~rich.enabled /\ RichRequest(rich) = rich

ControlTruth == ReportIsTrue /\ AcceptedStands /\ NativeKept

(* One request, one overall deadline (docstring of send(), control.py:61): *)
(* every exchange returns.                                                 *)
ReturnsByDeadline == phase # "idle" ~> phase = "idle"

-----------------------------------------------------------------------------
(* What makes the invariants above inductive.                              *)

(* The exchanges that have begun, and the one under way.                   *)
TurnTrail ==
  /\ \A n \in Turns : IF n <= turn THEN request[n] # None
                     ELSE request[n] = None /\ report[n] = "none" /\ frame[n] = "none"
  /\ phase # "idle" => turn # 0 /\ report[turn] = "none"
  /\ phase = "connecting" => wire = "none" /\ frame[turn] = "none"
  /\ phase # "closing" => answer = "none"

(* What is on its way to the owner is true.                                *)
WordTrail ==
  /\ wire # "none" => turn # 0
  /\ wire \in {"accepted", "bare"} \/ answer = "accepted" => frame[turn] = "applied"
  /\ wire = "rejected" \/ answer = "rejected" => frame[turn] = "rejected"

(* A connection is as the exchange left it that changed it last.           *)
ConnectionTrail ==
  /\ \A p \in Profiles :
       by[p] # 0 => /\ frame[by[p]] = "applied" /\ request[by[p]].profile = p
                    /\ profiles[p] = Effect(request[by[p]])
  /\ \A n \in Turns, p \in Profiles :
       frame[n] = "applied" /\ request[n].profile = p =>
         by[p] >= n \/ (by[p] # 0 /\ report[by[p]] \in Open)

OwnerTrail == TurnTrail /\ WordTrail /\ ReportIsTrue /\ ConnectionTrail /\ NativeKept
=============================================================================
