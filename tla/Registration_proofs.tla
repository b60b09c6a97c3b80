------------------------ MODULE Registration_proofs -------------------------
(* What TLAPS proves of the owner and the agents together, for any cast,   *)
(* connections, commands, clients, callers and bounds.                     *)
EXTENDS Registration, TLAPS

-----------------------------------------------------------------------------
(* The owner.                                                              *)

(* What an instance says of the commands.                                  *)
LEMMA CommandTypes ==
  /\ MaxCommands \in Nat /\ None \notin Commands
  /\ \A c \in Commands :
       /\ c.profile \in Profiles \cup {None}
       /\ c.rich # None => c.rich \in Control!RichConfigurations /\ Control!RichRequest(c.rich) = c.rich
       /\ c.rich # None /\ c.rich.provider = "nativeAccessibility" => ~c.rich.enabled
<1>1. /\ MaxCommands \in Nat /\ None \notin Commands /\ None \notin BOOLEAN
      /\ Commands \subseteq Control!CommandsOn(Profiles)
  BY RegistrationAssumption DEF Control!ControlAssumption
<1>2. \A c \in Commands :
        /\ c.profile \in Profiles \cup {None}
        /\ c.rich # None => \E d \in Control!RichConfigurations : c.rich = Control!RichRequest(d)
  BY <1>1 DEF Control!CommandsOn
<1>3. ASSUME NEW d \in Control!RichConfigurations
      PROVE  /\ Control!RichRequest(d) \in Control!RichConfigurations
             /\ Control!RichRequest(Control!RichRequest(d)) = Control!RichRequest(d)
             /\ Control!RichRequest(d).provider = "nativeAccessibility" => ~Control!RichRequest(d).enabled
  BY <1>1 DEF Control!RichConfigurations, Control!RichRequest, Control!Providers
<1> QED
  <2>1. SUFFICES ASSUME NEW c \in Commands, c.rich # None
        PROVE  /\ c.rich \in Control!RichConfigurations /\ Control!RichRequest(c.rich) = c.rich
               /\ c.rich.provider = "nativeAccessibility" => ~c.rich.enabled
    BY <1>1, <1>2
  <2>2. PICK d \in Control!RichConfigurations : c.rich = Control!RichRequest(d)
    BY <1>2, <2>1
  <2>3. QED
    BY <1>3, <2>2

(* Every variable of the exchange keeps its type.                          *)
LEMMA OwnerTypes ==
  ASSUME Control!TypeOK, Control!TurnTrail, Control!Next
  PROVE  Control!TypeOK'
<1>1. ASSUME NEW c \in Commands, Control!Begin(c) PROVE Control!TypeOK'
  <2>1. turn \in 0..MaxCommands /\ turn < MaxCommands /\ turn' = turn + 1
    BY <1>1 DEF Control!Begin, Control!TypeOK
  <2>2. turn' \in Control!Turns /\ turn' \in 0..MaxCommands
    BY <2>1, CommandTypes DEF Control!Turns
  <2>3. request' \in [Control!Turns -> Commands \cup {None}]
    BY <1>1, <2>2 DEF Control!Begin, Control!TypeOK
  <2>4. /\ phase' \in {"idle", "connecting", "writing", "reading", "closing"}
        /\ report' \in [Control!Turns -> {"none", "accepted", "rejected", "malformed", "unknown",
                                        "cancelled", "invalid"}]
    BY <1>1, <2>2 DEF Control!Begin, Control!TypeOK
  <2>5. QED
    BY <1>1, <2>2, <2>3, <2>4 DEF Control!Begin, Control!TypeOK, Control!peerVars
<1>2. CASE Control!Connect
  BY <1>2, CommandTypes DEF Control!Connect, Control!TypeOK, Control!Turns, Control!TurnTrail,
    Control!ownerVars, Control!peerVars
<1>3. CASE Control!ConnectFails
  BY <1>3, CommandTypes DEF Control!ConnectFails, Control!Return, Control!TypeOK, Control!Turns,
    Control!TurnTrail, Control!ownerVars, Control!peerVars
<1>4. CASE Control!Drained
  BY <1>4, CommandTypes DEF Control!Drained, Control!TypeOK, Control!Turns, Control!TurnTrail,
    Control!ownerVars, Control!peerVars
<1>5. CASE Control!Read
  BY <1>5, CommandTypes DEF Control!Read, Control!Close, Control!Return, Control!Outcome,
    Control!TypeOK, Control!Turns, Control!TurnTrail, Control!ownerVars, Control!peerVars
<1>6. CASE Control!DrainFails
  BY <1>6, CommandTypes DEF Control!DrainFails, Control!Close, Control!Return, Control!TypeOK,
    Control!Turns, Control!TurnTrail, Control!ownerVars, Control!peerVars
<1>7. CASE Control!Closed
  BY <1>7, CommandTypes DEF Control!Closed, Control!Return, Control!TypeOK, Control!Turns,
    Control!TurnTrail, Control!ownerVars, Control!peerVars
<1>8. CASE Control!CloseFails
  BY <1>8, CommandTypes DEF Control!CloseFails, Control!Return, Control!TypeOK, Control!Turns,
    Control!TurnTrail, Control!ownerVars, Control!peerVars
<1>9. CASE Control!Deadline
  BY <1>9, CommandTypes DEF Control!Deadline, Control!Close, Control!Return, Control!TypeOK,
    Control!Turns, Control!TurnTrail, Control!ownerVars, Control!peerVars
<1>10. CASE Control!Cancel
  BY <1>10, CommandTypes DEF Control!Cancel, Control!Close, Control!Return, Control!TypeOK,
    Control!Turns, Control!TurnTrail, Control!ownerVars, Control!peerVars
<1>11. CASE Control!Disconnect
  BY <1>11, CommandTypes DEF Control!Disconnect, Control!TypeOK, Control!Turns, Control!TurnTrail,
    Control!ownerVars, Control!peerVars
<1>12. ASSUME NEW n \in Control!Turns, Control!TakeFrame(n) PROVE Control!TypeOK'
  BY <1>12, CommandTypes DEF Control!TakeFrame, Control!TypeOK, Control!Turns, Control!TurnTrail,
    Control!ownerVars, Control!peerVars
<1>13. ASSUME NEW n \in Control!Turns, Control!Apply(n) PROVE Control!TypeOK'
  <2>1. request[n] \in Commands /\ n \in 0..MaxCommands
    BY <1>13, CommandTypes DEF Control!Apply, Control!TypeOK, Control!Turns, Control!TurnTrail
  <2>2. Control!Effect(request[n]) \in {"absent", "enabled", "disabled"}
    BY DEF Control!Effect
  <2>3. /\ profiles' \in [Profiles -> {"absent", "enabled", "disabled"}]
        /\ by' \in [Profiles -> 0..MaxCommands] /\ rich' \in Control!RichConfigurations
    BY <1>13, <2>1, <2>2, CommandTypes DEF Control!Apply, Control!TypeOK
  <2>4. wire' \in {"none", "accepted", "bare", "rejected", "garbage", "eof", "reset"}
    BY <1>13 DEF Control!Apply, Control!Answer, Control!TypeOK
  <2>5. frame' \in [Control!Turns -> {"none", "buffered", "sent", "applied", "rejected", "lost"}]
    BY <1>13 DEF Control!Apply, Control!TypeOK
  <2>6. QED
    BY <1>13, <2>3, <2>4, <2>5 DEF Control!Apply, Control!TypeOK, Control!ownerVars
<1>14. ASSUME NEW n \in Control!Turns, Control!Reject(n) PROVE Control!TypeOK'
  BY <1>14, CommandTypes DEF Control!Reject, Control!Answer, Control!TypeOK, Control!Turns,
    Control!TurnTrail, Control!ownerVars, Control!peerVars
<1> QED
  BY <1>1, <1>2, <1>3, <1>4, <1>5, <1>6, <1>7, <1>8, <1>9, <1>10, <1>11, <1>12, <1>13, <1>14 DEF
    Control!Next, Control!Exchange, Control!Peer

(* The exchanges that have begun.                                          *)
LEMMA TurnsKept ==
  ASSUME Control!TypeOK, Control!TurnTrail, Control!Next
  PROVE  Control!TurnTrail'
<1>1. ASSUME NEW c \in Commands, Control!Begin(c) PROVE Control!TurnTrail'
  BY <1>1, CommandTypes DEF Control!Begin, Control!TypeOK, Control!Turns, Control!TurnTrail,
    Control!ownerVars, Control!peerVars
<1>2. CASE Control!Connect
  BY <1>2, CommandTypes DEF Control!Connect, Control!TypeOK, Control!Turns, Control!TurnTrail,
    Control!ownerVars, Control!peerVars
<1>3. CASE Control!ConnectFails
  BY <1>3, CommandTypes DEF Control!ConnectFails, Control!Return, Control!TypeOK, Control!Turns,
    Control!TurnTrail, Control!ownerVars, Control!peerVars
<1>4. CASE Control!Drained
  BY <1>4, CommandTypes DEF Control!Drained, Control!TypeOK, Control!Turns, Control!TurnTrail,
    Control!ownerVars, Control!peerVars
<1>5. CASE Control!Read
  BY <1>5, CommandTypes DEF Control!Read, Control!Close, Control!Return, Control!Outcome,
    Control!TypeOK, Control!Turns, Control!TurnTrail, Control!ownerVars, Control!peerVars
<1>6. CASE Control!DrainFails
  BY <1>6, CommandTypes DEF Control!DrainFails, Control!Close, Control!Return, Control!TypeOK,
    Control!Turns, Control!TurnTrail, Control!ownerVars, Control!peerVars
<1>7. CASE Control!Closed
  BY <1>7, CommandTypes DEF Control!Closed, Control!Return, Control!TypeOK, Control!Turns,
    Control!TurnTrail, Control!ownerVars, Control!peerVars
<1>8. CASE Control!CloseFails
  BY <1>8, CommandTypes DEF Control!CloseFails, Control!Return, Control!TypeOK, Control!Turns,
    Control!TurnTrail, Control!ownerVars, Control!peerVars
<1>9. CASE Control!Deadline
  BY <1>9, CommandTypes DEF Control!Deadline, Control!Close, Control!Return, Control!TypeOK,
    Control!Turns, Control!TurnTrail, Control!ownerVars, Control!peerVars
<1>10. CASE Control!Cancel
  BY <1>10, CommandTypes DEF Control!Cancel, Control!Close, Control!Return, Control!TypeOK,
    Control!Turns, Control!TurnTrail, Control!ownerVars, Control!peerVars
<1>11. CASE Control!Disconnect
  BY <1>11, CommandTypes DEF Control!Disconnect, Control!TypeOK, Control!Turns, Control!TurnTrail,
    Control!ownerVars, Control!peerVars
<1>12. ASSUME NEW n \in Control!Turns, Control!TakeFrame(n) PROVE Control!TurnTrail'
  BY <1>12, CommandTypes DEF Control!TakeFrame, Control!TypeOK, Control!Turns, Control!TurnTrail,
    Control!ownerVars, Control!peerVars
<1>13. ASSUME NEW n \in Control!Turns, Control!Apply(n) PROVE Control!TurnTrail'
  BY <1>13, CommandTypes DEF Control!Apply, Control!Answer, Control!Effect, Control!TypeOK,
    Control!Turns, Control!TurnTrail, Control!ownerVars, Control!peerVars
<1>14. ASSUME NEW n \in Control!Turns, Control!Reject(n) PROVE Control!TurnTrail'
  BY <1>14, CommandTypes DEF Control!Reject, Control!Answer, Control!TypeOK, Control!Turns,
    Control!TurnTrail, Control!ownerVars, Control!peerVars
<1> QED
  BY <1>1, <1>2, <1>3, <1>4, <1>5, <1>6, <1>7, <1>8, <1>9, <1>10, <1>11, <1>12, <1>13, <1>14 DEF
    Control!Next, Control!Exchange, Control!Peer

(* What is on its way to the owner is true.                                *)
LEMMA WordsKept ==
  ASSUME Control!TypeOK, Control!TurnTrail, Control!WordTrail, Control!Next
  PROVE  Control!WordTrail'
<1>1. ASSUME NEW c \in Commands, Control!Begin(c) PROVE Control!WordTrail'
  BY <1>1, CommandTypes DEF Control!Begin, Control!TypeOK, Control!Turns, Control!TurnTrail,
    Control!WordTrail, Control!ownerVars, Control!peerVars
<1>2. CASE Control!Connect
  BY <1>2, CommandTypes DEF Control!Connect, Control!TypeOK, Control!Turns, Control!TurnTrail,
    Control!WordTrail, Control!ownerVars, Control!peerVars
<1>3. CASE Control!ConnectFails
  BY <1>3, CommandTypes DEF Control!ConnectFails, Control!Return, Control!TypeOK, Control!Turns,
    Control!TurnTrail, Control!WordTrail, Control!ownerVars, Control!peerVars
<1>4. CASE Control!Read
  BY <1>4, CommandTypes DEF Control!Read, Control!Close, Control!Return, Control!Outcome,
    Control!TypeOK, Control!Turns, Control!TurnTrail, Control!WordTrail, Control!ownerVars,
    Control!peerVars
<1>5. CASE Control!DrainFails
  BY <1>5, CommandTypes DEF Control!DrainFails, Control!Close, Control!Return, Control!TypeOK,
    Control!Turns, Control!TurnTrail, Control!WordTrail, Control!ownerVars, Control!peerVars
<1>6. CASE Control!Closed
  BY <1>6, CommandTypes DEF Control!Closed, Control!Return, Control!TypeOK, Control!Turns,
    Control!TurnTrail, Control!WordTrail, Control!ownerVars, Control!peerVars
<1>7. CASE Control!CloseFails
  BY <1>7, CommandTypes DEF Control!CloseFails, Control!Return, Control!TypeOK, Control!Turns,
    Control!TurnTrail, Control!WordTrail, Control!ownerVars, Control!peerVars
<1>8. CASE Control!Deadline
  BY <1>8, CommandTypes DEF Control!Deadline, Control!Close, Control!Return, Control!TypeOK,
    Control!Turns, Control!TurnTrail, Control!WordTrail, Control!ownerVars, Control!peerVars
<1>9. CASE Control!Cancel
  BY <1>9, CommandTypes DEF Control!Cancel, Control!Close, Control!Return, Control!TypeOK,
    Control!Turns, Control!TurnTrail, Control!WordTrail, Control!ownerVars, Control!peerVars
<1>10. CASE Control!Disconnect
  BY <1>10, CommandTypes DEF Control!Disconnect, Control!TypeOK, Control!Turns, Control!TurnTrail,
    Control!WordTrail, Control!ownerVars, Control!peerVars
<1>11. ASSUME NEW n \in Control!Turns, Control!TakeFrame(n) PROVE Control!WordTrail'
  BY <1>11, CommandTypes DEF Control!TakeFrame, Control!TypeOK, Control!Turns, Control!TurnTrail,
    Control!WordTrail, Control!ownerVars, Control!peerVars
<1>12. ASSUME NEW n \in Control!Turns, Control!Apply(n) PROVE Control!WordTrail'
  BY <1>12, CommandTypes DEF Control!Apply, Control!Answer, Control!Effect, Control!TypeOK,
    Control!Turns, Control!TurnTrail, Control!WordTrail, Control!ownerVars, Control!peerVars
<1>13. ASSUME NEW n \in Control!Turns, Control!Reject(n) PROVE Control!WordTrail'
  BY <1>13, CommandTypes DEF Control!Reject, Control!Answer, Control!TypeOK, Control!Turns,
    Control!TurnTrail, Control!WordTrail, Control!ownerVars, Control!peerVars
<1>14. CASE Control!Drained
  BY <1>14, CommandTypes DEF Control!Drained, Control!TypeOK, Control!Turns, Control!TurnTrail,
    Control!WordTrail, Control!ownerVars, Control!peerVars
<1> QED
  BY <1>1, <1>2, <1>3, <1>4, <1>5, <1>6, <1>7, <1>8, <1>9, <1>10, <1>11, <1>12, <1>13, <1>14 DEF
    Control!Next, Control!Exchange, Control!Peer

(* What the owner was told is true, and stays so.                          *)
LEMMA ReportsKept ==
  ASSUME Control!TypeOK, Control!TurnTrail, Control!WordTrail, Control!ReportIsTrue, Control!Next
  PROVE  Control!ReportIsTrue'
<1>1. ASSUME NEW c \in Commands, Control!Begin(c) PROVE Control!ReportIsTrue'
  BY <1>1, CommandTypes DEF Control!Begin, Control!TypeOK, Control!Turns, Control!TurnTrail,
    Control!WordTrail, Control!ReportIsTrue, Control!ownerVars, Control!peerVars
<1>2. CASE Control!Connect
  BY <1>2, CommandTypes DEF Control!Connect, Control!TypeOK, Control!Turns, Control!TurnTrail,
    Control!WordTrail, Control!ReportIsTrue, Control!ownerVars, Control!peerVars
<1>3. CASE Control!ConnectFails
  BY <1>3, CommandTypes DEF Control!ConnectFails, Control!Return, Control!TypeOK, Control!Turns,
    Control!TurnTrail, Control!WordTrail, Control!ReportIsTrue, Control!ownerVars, Control!peerVars
<1>4. CASE Control!Read
  BY <1>4, CommandTypes DEF Control!Read, Control!Close, Control!Return, Control!Outcome,
    Control!TypeOK, Control!Turns, Control!TurnTrail, Control!WordTrail, Control!ReportIsTrue,
    Control!ownerVars, Control!peerVars
<1>5. CASE Control!DrainFails
  BY ZenonT(60), <1>5, CommandTypes DEF Control!DrainFails, Control!Close, Control!Return, Control!TypeOK,
    Control!Turns, Control!TurnTrail, Control!WordTrail, Control!ReportIsTrue, Control!ownerVars,
    Control!peerVars
<1>6. CASE Control!Closed
  BY <1>6, CommandTypes DEF Control!Closed, Control!Return, Control!TypeOK, Control!Turns,
    Control!TurnTrail, Control!WordTrail, Control!ReportIsTrue, Control!ownerVars, Control!peerVars
<1>7. CASE Control!CloseFails
  BY <1>7, CommandTypes DEF Control!CloseFails, Control!Return, Control!TypeOK, Control!Turns,
    Control!TurnTrail, Control!WordTrail, Control!ReportIsTrue, Control!ownerVars, Control!peerVars
<1>8. CASE Control!Deadline
  BY ZenonT(60), <1>8, CommandTypes DEF Control!Deadline, Control!Close, Control!Return, Control!TypeOK,
    Control!Turns, Control!TurnTrail, Control!WordTrail, Control!ReportIsTrue, Control!ownerVars,
    Control!peerVars
<1>9. CASE Control!Cancel
  BY ZenonT(60), <1>9, CommandTypes DEF Control!Cancel, Control!Close, Control!Return, Control!TypeOK,
    Control!Turns, Control!TurnTrail, Control!WordTrail, Control!ReportIsTrue, Control!ownerVars,
    Control!peerVars
<1>10. CASE Control!Disconnect
  BY <1>10, CommandTypes DEF Control!Disconnect, Control!TypeOK, Control!Turns, Control!TurnTrail,
    Control!WordTrail, Control!ReportIsTrue, Control!ownerVars, Control!peerVars
<1>11. ASSUME NEW n \in Control!Turns, Control!TakeFrame(n) PROVE Control!ReportIsTrue'
  BY <1>11, CommandTypes DEF Control!TakeFrame, Control!TypeOK, Control!Turns, Control!TurnTrail,
    Control!WordTrail, Control!ReportIsTrue, Control!ownerVars, Control!peerVars
<1>12. ASSUME NEW n \in Control!Turns, Control!Apply(n) PROVE Control!ReportIsTrue'
  BY <1>12, CommandTypes DEF Control!Apply, Control!Answer, Control!Effect, Control!TypeOK,
    Control!Turns, Control!TurnTrail, Control!WordTrail, Control!ReportIsTrue, Control!ownerVars,
    Control!peerVars
<1>13. ASSUME NEW n \in Control!Turns, Control!Reject(n) PROVE Control!ReportIsTrue'
  BY <1>13, CommandTypes DEF Control!Reject, Control!Answer, Control!TypeOK, Control!Turns,
    Control!TurnTrail, Control!WordTrail, Control!ReportIsTrue, Control!ownerVars, Control!peerVars
<1>14. CASE Control!Drained
  BY <1>14, CommandTypes DEF Control!Drained, Control!TypeOK, Control!Turns, Control!TurnTrail,
    Control!WordTrail, Control!ReportIsTrue, Control!ownerVars, Control!peerVars
<1> QED
  BY <1>1, <1>2, <1>3, <1>4, <1>5, <1>6, <1>7, <1>8, <1>9, <1>10, <1>11, <1>12, <1>13, <1>14 DEF
    Control!Next, Control!Exchange, Control!Peer

(* The end of an exchange does not disturb the connections: if it changed  *)
(* one last, no later exchange has begun.                                  *)
LEMMA ReportKeepsConnections ==
  ASSUME Control!TypeOK, Control!TurnTrail, Control!ConnectionTrail,
         UNCHANGED <<turn, request, profiles, by>>,
         \A n \in Control!Turns : frame'[n] = "applied" <=> frame[n] = "applied",
         \A n \in Control!Turns : n # turn => report'[n] = report[n]
  PROVE  Control!ConnectionTrail'
<1>1. \A p \in Profiles :
        by'[p] # 0 => /\ frame'[by'[p]] = "applied" /\ request'[by'[p]].profile = p
                      /\ profiles'[p] = Control!Effect(request'[by'[p]])
  BY CommandTypes DEF Control!TypeOK, Control!Turns, Control!ConnectionTrail
<1>2. ASSUME NEW n \in Control!Turns, NEW p \in Profiles, frame'[n] = "applied", request'[n].profile = p
      PROVE  by'[p] >= n \/ (by'[p] # 0 /\ report'[by'[p]] \in Control!Open)
  <2>1. n <= turn /\ (by[p] >= n \/ (by[p] # 0 /\ report[by[p]] \in Control!Open))
    BY <1>2 DEF Control!TurnTrail, Control!ConnectionTrail
  <2>2. by[p] \in 0..MaxCommands /\ turn \in 0..MaxCommands /\ n \in 1..MaxCommands /\ MaxCommands \in Nat
    BY CommandTypes DEF Control!TypeOK, Control!Turns
  <2>3. CASE by[p] = turn
    BY <2>1, <2>2, <2>3
  <2>4. CASE by[p] # turn
    BY <2>1, <2>2, <2>4 DEF Control!Turns
  <2>5. QED
    BY <2>3, <2>4
<1>3. (\A c : Control!Effect(c)' = Control!Effect(c)) /\ Control!Open' = Control!Open
  BY DEF Control!Effect, Control!Open
<1>4. QED
  BY <1>1, <1>2, <1>3 DEF Control!ConnectionTrail

(* The connections.                                                        *)
LEMMA ConnectionsKept ==
  ASSUME Control!TypeOK, Control!TurnTrail, Control!ReportIsTrue, Control!ConnectionTrail, Control!Next
  PROVE  Control!ConnectionTrail'
<1>1. ASSUME NEW c \in Commands, Control!Begin(c) PROVE Control!ConnectionTrail'
  BY <1>1, CommandTypes DEF Control!Begin, Control!TypeOK, Control!Turns, Control!TurnTrail,
    Control!ReportIsTrue, Control!ConnectionTrail, Control!Open, Control!ownerVars,
    Control!peerVars
<1>2. CASE Control!Connect
  BY <1>2, CommandTypes DEF Control!Connect, Control!TypeOK, Control!Turns, Control!TurnTrail,
    Control!ReportIsTrue, Control!ConnectionTrail, Control!Open, Control!ownerVars,
    Control!peerVars
<1>3. CASE Control!ConnectFails
  BY <1>3, CommandTypes DEF Control!ConnectFails, Control!Return, Control!TypeOK, Control!Turns,
    Control!TurnTrail, Control!ReportIsTrue, Control!ConnectionTrail, Control!Open,
    Control!ownerVars, Control!peerVars
<1>4. CASE Control!Read
  <2>1. /\ UNCHANGED <<turn, request, profiles, by>>
        /\ \A n \in Control!Turns : n # turn => report'[n] = report[n]
        /\ \A n \in Control!Turns : frame'[n] = "applied" <=> frame[n] = "applied"
    BY <1>4 DEF Control!Read, Control!Close, Control!Return, Control!TypeOK, Control!peerVars
  <2>2. QED
    BY <2>1, ReportKeepsConnections
<1>5. CASE Control!DrainFails
  <2>1. /\ UNCHANGED <<turn, request, profiles, by>>
        /\ \A n \in Control!Turns : n # turn => report'[n] = report[n]
        /\ \A n \in Control!Turns : frame'[n] = "applied" <=> frame[n] = "applied"
    BY <1>5 DEF Control!DrainFails, Control!Close, Control!Return, Control!TypeOK, Control!peerVars
  <2>2. QED
    BY <2>1, ReportKeepsConnections
<1>6. CASE Control!Closed
  BY <1>6, CommandTypes DEF Control!Closed, Control!Return, Control!TypeOK, Control!Turns,
    Control!TurnTrail, Control!ReportIsTrue, Control!ConnectionTrail, Control!Open,
    Control!ownerVars, Control!peerVars
<1>7. CASE Control!CloseFails
  BY <1>7, CommandTypes DEF Control!CloseFails, Control!Return, Control!TypeOK, Control!Turns,
    Control!TurnTrail, Control!ReportIsTrue, Control!ConnectionTrail, Control!Open,
    Control!ownerVars, Control!peerVars
<1>8. CASE Control!Deadline
  <2>1. /\ UNCHANGED <<turn, request, profiles, by>>
        /\ \A n \in Control!Turns : n # turn => report'[n] = report[n]
        /\ \A n \in Control!Turns : frame'[n] = "applied" <=> frame[n] = "applied"
    BY <1>8 DEF Control!Deadline, Control!Close, Control!Return, Control!TypeOK, Control!peerVars
  <2>2. QED
    BY <2>1, ReportKeepsConnections
<1>9. CASE Control!Cancel
  <2>1. /\ UNCHANGED <<turn, request, profiles, by>>
        /\ \A n \in Control!Turns : n # turn => report'[n] = report[n]
        /\ \A n \in Control!Turns : frame'[n] = "applied" <=> frame[n] = "applied"
    BY <1>9 DEF Control!Cancel, Control!Close, Control!Return, Control!TypeOK, Control!peerVars
  <2>2. QED
    BY <2>1, ReportKeepsConnections
<1>10. CASE Control!Disconnect
  BY <1>10, CommandTypes DEF Control!Disconnect, Control!TypeOK, Control!Turns, Control!TurnTrail,
    Control!ReportIsTrue, Control!ConnectionTrail, Control!Open, Control!ownerVars,
    Control!peerVars
<1>11. ASSUME NEW n \in Control!Turns, Control!TakeFrame(n) PROVE Control!ConnectionTrail'
  BY <1>11, CommandTypes DEF Control!TakeFrame, Control!TypeOK, Control!Turns, Control!TurnTrail,
    Control!ReportIsTrue, Control!ConnectionTrail, Control!Open, Control!ownerVars,
    Control!peerVars
<1>12. ASSUME NEW n \in Control!Turns, Control!Apply(n) PROVE Control!ConnectionTrail'
  <2>1. /\ frame[n] = "sent" /\ frame' = [frame EXCEPT ![n] = "applied"]
        /\ UNCHANGED <<turn, request, report>> /\ n \in 1..MaxCommands /\ turn \in 0..MaxCommands
    BY <1>12 DEF Control!Apply, Control!Turns, Control!TypeOK, Control!ownerVars
  <2>a. n <= turn /\ request[n] \in Commands
    BY <2>1 DEF Control!TypeOK, Control!Turns, Control!TurnTrail
  <2>b. report[n] \notin {"accepted", "rejected", "invalid"}
    BY <2>1 DEF Control!ReportIsTrue, Control!Turns
  <2>2. report[n] \in Control!Open
    BY <2>b DEF Control!TypeOK, Control!Open
  <2>3. CASE request[n].profile = None
    <3>1. UNCHANGED <<profiles, by>>
      BY <1>12, <2>3 DEF Control!Apply
    <3>2. None \notin Profiles
      BY RegistrationAssumption DEF Control!ControlAssumption
    <3>3. QED
      BY <2>1, <2>3, <3>1, <3>2, CommandTypes DEF Control!ConnectionTrail, Control!Effect, Control!Open,
        Control!TypeOK, Control!Turns
  <2>4. CASE request[n].profile # None
    <3>1. /\ request[n].profile \in Profiles
          /\ profiles' = [profiles EXCEPT ![request[n].profile] = Control!Effect(request[n])]
          /\ by' = [by EXCEPT ![request[n].profile] = n]
      BY <1>12, <2>a, <2>4, CommandTypes DEF Control!Apply
    <3>2. \A p \in Profiles :
            by'[p] # 0 => /\ frame'[by'[p]] = "applied" /\ request[by'[p]].profile = p
                          /\ profiles'[p] = Control!Effect(request[by'[p]])
      BY <2>1, <3>1, CommandTypes DEF Control!ConnectionTrail, Control!TypeOK, Control!Turns
    <3>3. \A m \in Control!Turns, p \in Profiles :
            frame'[m] = "applied" /\ request[m].profile = p =>
              by'[p] >= m \/ (by'[p] # 0 /\ report[by'[p]] \in Control!Open)
      <4>1. SUFFICES ASSUME NEW m \in Control!Turns, NEW p \in Profiles,
                             frame'[m] = "applied", request[m].profile = p
            PROVE  by'[p] >= m \/ (by'[p] # 0 /\ report[by'[p]] \in Control!Open)
        OBVIOUS
      <4>2. CASE p = request[n].profile
        BY <2>1, <2>2, <3>1, <4>2 DEF Control!TypeOK, Control!Turns
      <4>3. CASE p # request[n].profile
        BY <2>1, <3>1, <4>1, <4>3 DEF Control!ConnectionTrail, Control!TypeOK
      <4>4. QED
        BY <4>2, <4>3
    <3>4. (\A c : Control!Effect(c)' = Control!Effect(c)) /\ Control!Open' = Control!Open
      BY DEF Control!Effect, Control!Open
    <3>5. QED
      BY <2>1, <3>2, <3>3, <3>4 DEF Control!ConnectionTrail
  <2>5. QED
    BY <2>3, <2>4
<1>13. ASSUME NEW n \in Control!Turns, Control!Reject(n) PROVE Control!ConnectionTrail'
  BY <1>13, CommandTypes DEF Control!Reject, Control!Answer, Control!TypeOK, Control!Turns,
    Control!TurnTrail, Control!ReportIsTrue, Control!ConnectionTrail, Control!Open,
    Control!ownerVars, Control!peerVars
<1>14. CASE Control!Drained
  BY <1>14, CommandTypes DEF Control!Drained, Control!TypeOK, Control!Turns, Control!TurnTrail,
    Control!ReportIsTrue, Control!ConnectionTrail, Control!Open, Control!ownerVars,
    Control!peerVars
<1> QED
  BY <1>1, <1>2, <1>3, <1>4, <1>5, <1>6, <1>7, <1>8, <1>9, <1>10, <1>11, <1>12, <1>13, <1>14 DEF
    Control!Next, Control!Exchange, Control!Peer

(* The configuration.                                                      *)
LEMMA NativeKeeps ==
  ASSUME Control!TypeOK, Control!TurnTrail, Control!NativeKept, Control!Next
  PROVE  Control!NativeKept'
<1>1. ASSUME NEW n \in Control!Turns, Control!Apply(n) PROVE Control!NativeKept'
  BY <1>1, CommandTypes DEF Control!Apply, Control!Answer, Control!Effect, Control!TypeOK,
    Control!Turns, Control!TurnTrail, Control!NativeKept, Control!ownerVars, Control!peerVars
<1>2. CASE (\E c \in Commands : Control!Begin(c)) \/ Control!Connect \/ Control!ConnectFails \/ Control!Drained \/ Control!Read \/ Control!DrainFails \/ Control!Closed \/ Control!CloseFails \/ Control!Deadline \/ Control!Cancel \/ Control!Disconnect \/ (\E n \in Control!Turns : Control!TakeFrame(n)) \/ (\E n \in Control!Turns : Control!Reject(n))
  BY <1>2, CommandTypes DEF Control!Begin, Control!Connect, Control!ConnectFails, Control!Return,
    Control!Drained, Control!Read, Control!Close, Control!Outcome, Control!DrainFails,
    Control!Closed, Control!CloseFails, Control!Deadline, Control!Cancel, Control!Disconnect,
    Control!TakeFrame, Control!Reject, Control!Answer, Control!TypeOK, Control!Turns,
    Control!TurnTrail, Control!NativeKept, Control!ownerVars, Control!peerVars
<1> QED
  BY <1>1, <1>2 DEF Control!Next, Control!Exchange, Control!Peer

-----------------------------------------------------------------------------
(* The agents.                                                             *)

(* What an instance says of the calls.                                     *)
LEMMA CallTypes ==
  /\ MaxRotations \in Nat /\ MaxFaults \in Nat
  /\ ClientOf \in [Callers -> Clients] /\ FileClients \subseteq Clients
  /\ \A t \in Callers : CallsOf[t] \subseteq Client!Kinds
  /\ Client!Tokens = 0..MaxRotations
  /\ \A d \in Contents : d[1] \in Client!Sizes /\ d[2] \in {c[2] : c \in Contents}
  /\ None \notin Contents
BY RegistrationAssumption DEF Client!RequestsAssumption, Client!Tokens, Client!Sizes

(* The codes and the kinds that the steps below name.                      *)
LEMMA Names ==
  /\ {"health", "rotateAuthToken", "fetchAttachment"} \subseteq Client!NeedsPayload
  /\ Client!NeedsPayload \subseteq Client!Kinds
  /\ \A s \in {"none", "whole", "bare", "otherKind", "foreign"} : s \notin Client!ServiceCodes
  /\ "historyUnavailable" \in Client!ServiceCodes
  /\ Client!ErrorFromService("historyUnavailable") = "internalError"
  /\ Client!ErrorFromService("authFailed") = "authFailed"
  /\ {"internalError", "authFailed"} \subseteq Client!MappedCodes
  /\ "answered" \notin Client!MappedCodes
BY DEF Client!NeedsPayload, Client!Kinds, Client!QueryAnswer, Client!ServiceCodes, Client!MappedCodes,
  Client!ErrorFromService

(* What a response is made of.                                             *)
LEMMA ResponseTypes ==
  /\ \A s \in Client!Statuses : [Client!NoResponse EXCEPT !.status = s] \in Client!Responses
  /\ Client!NoResponse \in Client!Responses /\ Client!NoResponse.status = "none"
BY CallTypes DEF Client!Responses, Client!NoResponse, Client!Statuses

(* The service's answer to each kind.                                      *)
LEMMA ServedIs ==
  ASSUME Client!TypeOK, NEW t \in Callers, Client!Serve(t)
  PROVE  /\ step[t] = "sent" /\ step' = [step EXCEPT ![t] = "answered"]
         /\ UNCHANGED <<kind, credential, result, bytes, memory, profiles, disk, stray, faults>>
         /\ \E r \in Client!Responses :
              /\ response' = [response EXCEPT ![t] = r]
              /\ r.status = IF kind[t] \in Client!NeedsPayload THEN "whole" ELSE "bare"
              /\ IF kind[t] = "rotateAuthToken"
                 THEN r.token = token + 1 /\ Client!Rotate({ClientOf[t]})
                 ELSE UNCHANGED <<token, overtaken, missed>>
<1>1. CASE kind[t] = "rotateAuthToken"
  <2>1. Client!Rotate({ClientOf[t]}) /\ Client!Answer(t, [Client!Whole EXCEPT !.token = token + 1])
    BY <1>1 DEF Client!Serve
  <2>2. token + 1 \in Client!Tokens
    BY <2>1, CallTypes DEF Client!Rotate, Client!TypeOK
  <2>3. [Client!Whole EXCEPT !.token = token + 1] \in Client!Responses
    BY <2>2, CallTypes DEF Client!Whole, Client!NoResponse, Client!Responses, Client!Statuses
  <2>4. [Client!Whole EXCEPT !.token = token + 1].status = "whole"
        /\ [Client!Whole EXCEPT !.token = token + 1].token = token + 1
    BY DEF Client!Whole, Client!NoResponse
  <2>5. QED
    BY <1>1, <2>1, <2>3, <2>4, Names DEF Client!Serve, Client!Answer
<1>2. CASE kind[t] = "fetchAttachment"
  <2>1. /\ disk # None /\ UNCHANGED <<token, overtaken, missed>>
        /\ \E h \in {disk[2], None} :
             Client!Answer(t, [status |-> "whole", token |-> 0, size |-> disk[1], hash |-> h])
    BY <1>2 DEF Client!Serve, Client!historyVars
  <2>2. PICK h \in {disk[2], None} : Client!Answer(t, [status |-> "whole", token |-> 0, size |-> disk[1], hash |-> h])
    BY <2>1
  <2>3. disk[1] \in Client!Sizes /\ h \in {c[2] : c \in Contents} \cup {None}
    BY <2>1, CallTypes DEF Client!TypeOK
  <2>4. "whole" \in Client!Statuses /\ 0 \in Client!Tokens
    BY CallTypes DEF Client!Statuses
  <2>5. [status |-> "whole", token |-> 0, size |-> disk[1], hash |-> h] \in Client!Responses
    BY <2>3, <2>4 DEF Client!Responses
  <2>6. QED
    BY <1>2, <2>1, <2>2, <2>5, Names DEF Client!Serve, Client!Answer
<1>3. CASE kind[t] \notin {"rotateAuthToken", "fetchAttachment"}
  <2> DEFINE s == IF kind[t] \in Client!NeedsPayload THEN "whole" ELSE "bare"
             r == [Client!Whole EXCEPT !.status = s]
  <2>1. Client!Answer(t, r) /\ UNCHANGED <<token, overtaken, missed>>
    BY <1>3 DEF Client!Serve, Client!historyVars
  <2>2. s \in Client!Statuses
    BY DEF Client!Statuses
  <2>3. r = [Client!NoResponse EXCEPT !.status = s] /\ r.status = s
    BY DEF Client!Whole, Client!NoResponse
  <2>4. r \in Client!Responses
    BY <2>2, <2>3, ResponseTypes
  <2>5. QED
    BY <1>3, <2>1, <2>3, <2>4 DEF Client!Serve, Client!Answer
<1> QED
  BY <1>1, <1>2, <1>3

(* What else may come as an answer.                                        *)
LEMMA GarbledIs ==
  ASSUME Client!TypeOK, NEW t \in Callers, Client!Garble(t)
  PROVE  /\ step[t] = "sent" /\ step' = [step EXCEPT ![t] = "answered"] /\ faults' \in 0..MaxFaults
         /\ UNCHANGED <<kind, credential, result, bytes, memory, profiles, disk, stray, token, overtaken, missed>>
         /\ \E r \in Client!Responses :
              /\ response' = [response EXCEPT ![t] = r]
              /\ r.status \in {"bare", "otherKind", "foreign", "historyUnavailable"}
<1>1. PICK s \in {"bare", "otherKind", "foreign", "historyUnavailable"} :
        Client!Answer(t, [Client!NoResponse EXCEPT !.status = s])
  BY DEF Client!Garble
<1>2. s \in Client!Statuses /\ [Client!NoResponse EXCEPT !.status = s].status = s
  BY Names DEF Client!Statuses, Client!NoResponse
<1>3. faults' \in 0..MaxFaults
  BY CallTypes DEF Client!Garble, Client!Fault, Client!TypeOK
<1> QED
  BY <1>1, <1>2, <1>3, ResponseTypes DEF Client!Garble, Client!Answer, Client!historyVars

(* What a client makes of a response.                                      *)
LEMMA ReceivedIs ==
  ASSUME Client!TypeOK, Client!CallTrail, NEW t \in Callers, Client!Receive(t)
  PROVE  /\ step[t] = "answered"
         /\ UNCHANGED <<kind, credential, response, bytes, token, disk, stray, profiles, faults, overtaken, missed>>
         /\ \/ /\ response[t].status # "whole" /\ UNCHANGED memory
               /\ \E e \in Client!Results \ {"answered", "authFailed"} : Client!Finish(t, e)
            \/ /\ response[t].status = "whole" /\ kind[t] = "fetchAttachment"
               /\ step' = [step EXCEPT ![t] = "reading"] /\ UNCHANGED <<result, memory>>
            \/ /\ response[t].status = IF kind[t] \in Client!NeedsPayload THEN "whole" ELSE "bare"
               /\ kind[t] # "fetchAttachment" /\ Client!Finish(t, "answered") /\ Client!Keep(t)
<1> DEFINE s == response[t].status  e == Client!Understand(t, s)
<1>1. s \in {"none", "whole", "bare", "otherKind", "foreign", "historyUnavailable"}
      /\ (kind[t] \notin Client!NeedsPayload => s # "whole")
  BY DEF Client!CallTrail
<1>2. CASE e = "answered"
  <2>1. s = IF kind[t] \in Client!NeedsPayload THEN "whole" ELSE "bare"
    BY <1>1, <1>2, Names DEF Client!Understand
  <2>2. QED
    BY <1>2, <2>1, Names DEF Client!Receive, Client!serviceVars, Client!historyVars
<1>3. CASE e # "answered"
  <2>1. s # "whole" /\ e \in {"internalError", "transport"}
    BY <1>1, <1>3, Names DEF Client!Understand
  <2>2. e \in Client!Results \ {"answered", "authFailed"}
    BY <2>1, Names DEF Client!Results
  <2>3. QED
    BY <1>3, <2>1, <2>2 DEF Client!Receive, Client!serviceVars, Client!historyVars
<1> QED
  BY <1>2, <1>3

(* The end of a call.                                                      *)
LEMMA FinishTypes ==
  ASSUME Client!TypeOK, NEW t \in Callers, NEW e \in Client!Results, Client!Finish(t, e)
  PROVE  /\ step' \in [Callers -> {"idle", "open", "auth", "ready", "sent", "answered", "reading"}]
         /\ result' \in [Callers -> Client!Results]
BY DEF Client!TypeOK, Client!Finish

(* The step of a client that receives.                                     *)
LEMMA ReceivedStep ==
  ASSUME Client!TypeOK, NEW t \in Callers, Client!Receive(t)
  PROVE  /\ UNCHANGED <<credential, token, overtaken>>
         /\ \E q \in {"idle", "reading"} : step' = [step EXCEPT ![t] = q]
BY DEF Client!Receive, Client!Finish, Client!serviceVars, Client!historyVars

(* Every variable of the calls keeps its type.                             *)
LEMMA AgentTypes ==
  ASSUME Client!TypeOK, Client!CallTrail, Client!Next
  PROVE  Client!TypeOK'
<1>1. ASSUME NEW t \in Callers, NEW k \in CallsOf[t], Client!Open(t, k) PROVE Client!TypeOK'
  <2>1. k \in Client!Kinds /\ "none" \in Client!Results
    BY CallTypes DEF Client!Results
  <2>2. missed' \subseteq Clients /\ overtaken' \subseteq Callers
    BY <1>1, CallTypes DEF Client!Open, Client!TypeOK
  <2>3. QED
    BY <1>1, <2>1, <2>2, ResponseTypes DEF Client!Open, Client!TypeOK, Client!serviceVars
<1>2. ASSUME NEW t \in Callers, Client!Authenticate(t) PROVE Client!TypeOK'
  BY <1>2, CallTypes, Names DEF Client!Authenticate, Client!CurrentAuthToken, Client!TypeOK,
    Client!CallTrail, Client!callVars, Client!serviceVars, Client!historyVars
<1>3. ASSUME NEW t \in Callers, Client!Admit(t) PROVE Client!TypeOK'
  BY <1>3, CallTypes, Names DEF Client!Admit, Client!TypeOK, Client!CallTrail, Client!callVars,
    Client!serviceVars, Client!historyVars
<1>4. ASSUME NEW t \in Callers, Client!Refuse(t) PROVE Client!TypeOK'
  <2>1. PICK e \in Client!Results : Client!Finish(t, e)
    BY <1>4, Names DEF Client!Refuse, Client!Results
  <2>2. credential' \in [Callers -> Client!Tokens]
    BY <1>4, CallTypes DEF Client!Refuse, Client!TypeOK
  <2>3. QED
    BY <1>4, <2>1, <2>2, FinishTypes DEF Client!Refuse, Client!TypeOK, Client!serviceVars, Client!historyVars
<1>5. ASSUME NEW t \in Callers, Client!WriteRequest(t) PROVE Client!TypeOK'
  BY <1>5, CallTypes, Names DEF Client!WriteRequest, Client!TypeOK, Client!CallTrail,
    Client!callVars, Client!serviceVars, Client!historyVars
<1>6. ASSUME NEW t \in Callers, Client!Serve(t) PROVE Client!TypeOK'
  <2>1. /\ step' \in [Callers -> {"idle", "open", "auth", "ready", "sent", "answered", "reading"}]
        /\ response' \in [Callers -> Client!Responses]
    <3>1. /\ step' = [step EXCEPT ![t] = "answered"]
          /\ \E r \in Client!Responses : response' = [response EXCEPT ![t] = r]
      BY <1>6, ServedIs
    <3>2. /\ step \in [Callers -> {"idle", "open", "auth", "ready", "sent", "answered", "reading"}]
          /\ response \in [Callers -> Client!Responses]
      BY DEF Client!TypeOK
    <3>3. QED
      BY <3>1, <3>2
  <2>2. Client!Rotate({ClientOf[t]}) \/ UNCHANGED <<token, overtaken, missed>>
    BY <1>6, ServedIs
  <2>3. token' \in Client!Tokens /\ overtaken' \subseteq Callers /\ missed' \subseteq Clients
    BY <2>2, CallTypes DEF Client!TypeOK, Client!Rotate
  <2>4. QED
    BY <1>6, <2>1, <2>3, ServedIs DEF Client!TypeOK
<1>7. ASSUME NEW t \in Callers, Client!Receive(t) PROVE Client!TypeOK'
  <2>1. /\ step' \in [Callers -> {"idle", "open", "auth", "ready", "sent", "answered", "reading"}]
        /\ result' \in [Callers -> Client!Results]
    <3>1. "answered" \in Client!Results
      BY DEF Client!Results
    <3>2. QED
      BY <1>7, <3>1, ReceivedIs, FinishTypes DEF Client!TypeOK
  <2>2. memory' \in [Clients -> Client!Tokens]
    <3>1. response[t].token \in Client!Tokens
      BY DEF Client!TypeOK, Client!Responses
    <3>2. QED
      BY <1>7, <3>1, ReceivedIs DEF Client!TypeOK, Client!Keep
  <2>3. QED
    BY <1>7, <2>1, <2>2, ReceivedIs DEF Client!TypeOK
<1>8. ASSUME NEW t \in Callers, Client!ReadBytes(t) PROVE Client!TypeOK'
  <2>1. PICK e \in Client!Results : Client!Finish(t, e)
    BY <1>8 DEF Client!ReadBytes, Client!Results
  <2>2. bytes' \in [Callers -> Contents \cup {None}]
    BY <1>8 DEF Client!ReadBytes, Client!TypeOK
  <2>3. QED
    BY <1>8, <2>1, <2>2, FinishTypes DEF Client!ReadBytes, Client!TypeOK, Client!serviceVars, Client!historyVars
<1>9. ASSUME NEW t \in Callers, Client!Lose(t) PROVE Client!TypeOK'
  <2>1. "transport" \in Client!Results /\ Client!Finish(t, "transport")
    BY <1>9 DEF Client!Lose, Client!Results
  <2>2. response' \in [Callers -> Client!Responses] /\ credential' \in [Callers -> Client!Tokens]
    BY <1>9, ResponseTypes, CallTypes DEF Client!Lose, Client!TypeOK
  <2>3. stray' \in 0..MaxRotations /\ faults' \in 0..MaxFaults
    BY <1>9, CallTypes DEF Client!Lose, Client!Fault, Client!TypeOK
  <2>4. missed' \subseteq Clients
    BY <1>9, CallTypes DEF Client!Lose, Client!TypeOK
  <2>5. QED
    BY <1>9, <2>1, <2>2, <2>3, <2>4, FinishTypes DEF Client!Lose, Client!TypeOK
<1>10. ASSUME NEW t \in Callers, Client!Garble(t) PROVE Client!TypeOK'
  <2>1. /\ step' \in [Callers -> {"idle", "open", "auth", "ready", "sent", "answered", "reading"}]
        /\ response' \in [Callers -> Client!Responses]
    BY <1>10, GarbledIs DEF Client!TypeOK
  <2>2. QED
    BY <1>10, <2>1, GarbledIs DEF Client!TypeOK
<1>11. CASE Client!RotateStray
  BY <1>11, CallTypes, Names DEF Client!RotateStray, Client!Rotate, Client!TypeOK,
    Client!CallTrail, Client!callVars, Client!serviceVars, Client!historyVars
<1>12. CASE Client!Rewrite
  BY <1>12, CallTypes, Names DEF Client!Rewrite, Client!TypeOK, Client!CallTrail, Client!callVars,
    Client!serviceVars, Client!historyVars
<1> QED
  BY <1>1, <1>2, <1>3, <1>4, <1>5, <1>6, <1>7, <1>8, <1>9, <1>10, <1>11, <1>12 DEF Client!Next,
    Client!Step, Client!Call, Client!Progress

(* What a call under way has so far.                                       *)
LEMMA CallsKept ==
  ASSUME Client!TypeOK, Client!CallTrail, Client!Next
  PROVE  Client!CallTrail'
<1>1. ASSUME NEW t \in Callers, NEW k \in CallsOf[t], Client!Open(t, k) PROVE Client!CallTrail'
  <2>1. k \in Client!Kinds
    BY CallTypes
  <2>2. QED
    BY <1>1, <2>1, ResponseTypes DEF Client!Open, Client!TypeOK, Client!CallTrail
<1>2. ASSUME NEW t \in Callers, Client!Authenticate(t) PROVE Client!CallTrail'
  BY <1>2, CallTypes, Names DEF Client!Authenticate, Client!CurrentAuthToken, Client!TypeOK,
    Client!CallTrail, Client!callVars, Client!serviceVars, Client!historyVars
<1>3. ASSUME NEW t \in Callers, Client!Admit(t) PROVE Client!CallTrail'
  BY <1>3, CallTypes, Names DEF Client!Admit, Client!TypeOK, Client!CallTrail, Client!callVars,
    Client!serviceVars, Client!historyVars
<1>4. ASSUME NEW t \in Callers, Client!Refuse(t) PROVE Client!CallTrail'
  BY <1>4, CallTypes, Names DEF Client!Refuse, Client!Finish, Client!ErrorFromService,
    Client!TypeOK, Client!CallTrail, Client!callVars, Client!serviceVars, Client!historyVars
<1>5. ASSUME NEW t \in Callers, Client!WriteRequest(t) PROVE Client!CallTrail'
  BY <1>5, CallTypes, Names DEF Client!WriteRequest, Client!TypeOK, Client!CallTrail,
    Client!callVars, Client!serviceVars, Client!historyVars
<1>6. ASSUME NEW t \in Callers, Client!Serve(t) PROVE Client!CallTrail'
  <2>1. PICK r \in Client!Responses :
          /\ response' = [response EXCEPT ![t] = r]
          /\ r.status = IF kind[t] \in Client!NeedsPayload THEN "whole" ELSE "bare"
    BY <1>6, ServedIs
  <2>2. step[t] = "sent" /\ step' = [step EXCEPT ![t] = "answered"] /\ UNCHANGED <<kind, result, bytes>>
    BY <1>6, ServedIs
  <2>3. step \in [Callers -> {"idle", "open", "auth", "ready", "sent", "answered", "reading"}]
        /\ response \in [Callers -> Client!Responses]
    BY DEF Client!TypeOK
  <2>4. QED
    BY <2>1, <2>2, <2>3 DEF Client!CallTrail
<1>7. ASSUME NEW t \in Callers, Client!Receive(t) PROVE Client!CallTrail'
  BY <1>7, ReceivedIs, Names DEF Client!TypeOK, Client!CallTrail, Client!Finish
<1>8. ASSUME NEW t \in Callers, Client!ReadBytes(t) PROVE Client!CallTrail'
  BY <1>8, CallTypes, Names DEF Client!ReadBytes, Client!Finish, Client!Verified, Client!TypeOK,
    Client!CallTrail, Client!callVars, Client!serviceVars, Client!historyVars
<1>9. ASSUME NEW t \in Callers, Client!Lose(t) PROVE Client!CallTrail'
  BY <1>9, CallTypes, Names DEF Client!Lose, Client!Fault, Client!Finish, Client!NoResponse,
    Client!Rotating, Client!TypeOK, Client!CallTrail, Client!callVars, Client!serviceVars,
    Client!historyVars
<1>10. ASSUME NEW t \in Callers, Client!Garble(t) PROVE Client!CallTrail'
  BY <1>10, GarbledIs DEF Client!TypeOK, Client!CallTrail
<1>11. CASE Client!RotateStray \/ Client!Rewrite
  BY <1>11, CallTypes, Names DEF Client!RotateStray, Client!Rotate, Client!Rewrite, Client!TypeOK,
    Client!CallTrail, Client!callVars, Client!serviceVars, Client!historyVars
<1> QED
  BY <1>1, <1>2, <1>3, <1>4, <1>5, <1>6, <1>7, <1>8, <1>9, <1>10, <1>11 DEF Client!Next,
    Client!Step, Client!Call, Client!Progress

(* What a call that returned has.                                          *)
LEMMA AnswersKept ==
  ASSUME Client!TypeOK, Client!CallTrail, Client!AnswersAreTrue, Client!Next
  PROVE  Client!AnswersAreTrue'
<1>1. ASSUME NEW t \in Callers, NEW k \in CallsOf[t], Client!Open(t, k) PROVE Client!AnswersAreTrue'
  BY <1>1, CallTypes, Names DEF Client!Open, Client!Rotating, Client!TypeOK, Client!CallTrail,
    Client!AnswersAreTrue, Client!callVars, Client!serviceVars, Client!historyVars
<1>2. ASSUME NEW t \in Callers, Client!Refuse(t) PROVE Client!AnswersAreTrue'
  BY <1>2, CallTypes, Names DEF Client!Refuse, Client!Finish, Client!ErrorFromService,
    Client!TypeOK, Client!CallTrail, Client!AnswersAreTrue, Client!callVars, Client!serviceVars,
    Client!historyVars
<1>3. ASSUME NEW t \in Callers, Client!Serve(t) PROVE Client!AnswersAreTrue'
  <2>1. /\ step[t] = "sent" /\ UNCHANGED <<kind, result, bytes>>
        /\ \E r \in Client!Responses : response' = [response EXCEPT ![t] = r]
    BY <1>3, ServedIs
  <2>2. \A u \in Callers \ {t} : response'[u] = response[u]
    BY <2>1 DEF Client!TypeOK
  <2>3. result[t] = "none" /\ bytes[t] = None
    BY <2>1 DEF Client!CallTrail
  <2>4. QED
    BY <2>1, <2>2, <2>3 DEF Client!AnswersAreTrue
<1>4. ASSUME NEW t \in Callers, Client!Receive(t) PROVE Client!AnswersAreTrue'
  BY <1>4, ReceivedIs, Names DEF Client!TypeOK, Client!CallTrail, Client!AnswersAreTrue, Client!Finish
<1>5. ASSUME NEW t \in Callers, Client!ReadBytes(t) PROVE Client!AnswersAreTrue'
  BY <1>5, CallTypes, Names DEF Client!ReadBytes, Client!Finish, Client!Verified, Client!TypeOK,
    Client!CallTrail, Client!AnswersAreTrue, Client!callVars, Client!serviceVars,
    Client!historyVars
<1>6. ASSUME NEW t \in Callers, Client!Lose(t) PROVE Client!AnswersAreTrue'
  BY <1>6, CallTypes, Names DEF Client!Lose, Client!Fault, Client!Finish, Client!NoResponse,
    Client!Rotating, Client!TypeOK, Client!CallTrail, Client!AnswersAreTrue, Client!callVars,
    Client!serviceVars, Client!historyVars
<1>7. ASSUME NEW t \in Callers, Client!Garble(t) PROVE Client!AnswersAreTrue'
  BY <1>7, GarbledIs DEF Client!TypeOK, Client!CallTrail, Client!AnswersAreTrue
<1>8. CASE (\E t \in Callers : Client!Authenticate(t)) \/ (\E t \in Callers : Client!Admit(t)) \/ (\E t \in Callers : Client!WriteRequest(t)) \/ Client!RotateStray \/ Client!Rewrite
  BY <1>8, CallTypes, Names DEF Client!Authenticate, Client!CurrentAuthToken, Client!Admit,
    Client!WriteRequest, Client!RotateStray, Client!Rotate, Client!Rewrite, Client!TypeOK,
    Client!CallTrail, Client!AnswersAreTrue, Client!callVars, Client!serviceVars,
    Client!historyVars
<1> QED
  BY <1>1, <1>2, <1>3, <1>4, <1>5, <1>6, <1>7, <1>8 DEF Client!Next, Client!Step, Client!Call,
    Client!Progress

(* Who authenticates from the file.                                        *)
LEMMA CredentialsKept ==
  ASSUME Client!TypeOK, Client!CredentialTrail, Client!Next
  PROVE  Client!CredentialTrail'
<1>1. ASSUME NEW t \in Callers, NEW k \in CallsOf[t], Client!Open(t, k) PROVE Client!CredentialTrail'
  BY <1>1, CallTypes, Names DEF Client!Open, Client!Rotating, Client!TypeOK,
    Client!CredentialTrail, Client!callVars, Client!serviceVars, Client!historyVars
<1>2. ASSUME NEW t \in Callers, Client!Authenticate(t) PROVE Client!CredentialTrail'
  BY <1>2, CallTypes, Names DEF Client!Authenticate, Client!CurrentAuthToken, Client!TypeOK,
    Client!CredentialTrail, Client!callVars, Client!serviceVars, Client!historyVars
<1>3. ASSUME NEW t \in Callers, Client!Admit(t) PROVE Client!CredentialTrail'
  BY <1>3, CallTypes, Names DEF Client!Admit, Client!TypeOK, Client!CredentialTrail,
    Client!callVars, Client!serviceVars, Client!historyVars
<1>4. ASSUME NEW t \in Callers, Client!Refuse(t) PROVE Client!CredentialTrail'
  BY <1>4, CallTypes, Names DEF Client!Refuse, Client!Finish, Client!ErrorFromService,
    Client!TypeOK, Client!CredentialTrail, Client!callVars, Client!serviceVars, Client!historyVars
<1>5. ASSUME NEW t \in Callers, Client!WriteRequest(t) PROVE Client!CredentialTrail'
  BY <1>5, CallTypes, Names DEF Client!WriteRequest, Client!TypeOK, Client!CredentialTrail,
    Client!callVars, Client!serviceVars, Client!historyVars
<1>6. ASSUME NEW t \in Callers, Client!Serve(t) PROVE Client!CredentialTrail'
  BY <1>6, ServedIs DEF Client!TypeOK, Client!CredentialTrail, Client!Rotate
<1>7. ASSUME NEW t \in Callers, Client!Receive(t) PROVE Client!CredentialTrail'
  BY <1>7, ReceivedStep DEF Client!TypeOK, Client!CredentialTrail
<1>8. ASSUME NEW t \in Callers, Client!ReadBytes(t) PROVE Client!CredentialTrail'
  BY <1>8, CallTypes, Names DEF Client!ReadBytes, Client!Finish, Client!Verified, Client!TypeOK,
    Client!CredentialTrail, Client!callVars, Client!serviceVars, Client!historyVars
<1>9. ASSUME NEW t \in Callers, Client!Lose(t) PROVE Client!CredentialTrail'
  BY <1>9, CallTypes, Names DEF Client!Lose, Client!Fault, Client!Finish, Client!NoResponse,
    Client!Rotating, Client!TypeOK, Client!CredentialTrail, Client!callVars, Client!serviceVars,
    Client!historyVars
<1>10. ASSUME NEW t \in Callers, Client!Garble(t) PROVE Client!CredentialTrail'
  BY <1>10, GarbledIs DEF Client!TypeOK, Client!CredentialTrail
<1>11. CASE Client!RotateStray
  BY <1>11, CallTypes, Names DEF Client!RotateStray, Client!Rotate, Client!TypeOK,
    Client!CredentialTrail, Client!callVars, Client!serviceVars, Client!historyVars
<1>12. CASE Client!Rewrite
  BY <1>12, CallTypes, Names DEF Client!Rewrite, Client!TypeOK, Client!CredentialTrail,
    Client!callVars, Client!serviceVars, Client!historyVars
<1> QED
  BY <1>1, <1>2, <1>3, <1>4, <1>5, <1>6, <1>7, <1>8, <1>9, <1>10, <1>11, <1>12 DEF Client!Next,
    Client!Step, Client!Call, Client!Progress

(* A step of a call that neither carries an answer nor gets one.           *)
LEMMA StepKeepsRotations ==
  ASSUME Client!TypeOK, Client!RotationTrail, NEW t \in Callers,
         NEW q \in {"idle", "open", "auth", "ready", "sent", "answered", "reading"},
         step' = [step EXCEPT ![t] = q], step[t] # "idle", UNCHANGED <<kind, memory, token, missed>>,
         ~Client!Brings(t), ~Client!Brings(t)',
         \A u \in Callers \ {t} : response'[u] = response[u]
  PROVE  Client!RotationTrail'
<1>1. \A u \in Callers :
        /\ Client!Rotating(u)' => Client!Rotating(u)
        /\ u # t => (Client!Brings(u)' <=> Client!Brings(u))
  BY DEF Client!Brings, Client!Rotating, Client!TypeOK
<1>2. \A u \in Callers : Client!Brings(u)' <=> Client!Brings(u)
  BY <1>1 DEF Client!Brings, Client!Rotating
<1>3. \A u \in Callers : Client!Brings(u)' => response'[u].token = response[u].token
  BY <1>2 DEF Client!Brings, Client!Rotating
<1> QED
  BY <1>1, <1>2, <1>3 DEF Client!RotationTrail, Client!Brings, Client!Rotating

(* Who has the token.                                                      *)
LEMMA RotationsKept ==
  ASSUME Client!TypeOK, Client!CallTrail, Client!RotationTrail, Client!Next
  PROVE  Client!RotationTrail'
<1>1. ASSUME NEW t \in Callers, NEW k \in CallsOf[t], Client!Open(t, k) PROVE Client!RotationTrail'
  <2>1. /\ step[t] = "idle" /\ step' = [step EXCEPT ![t] = "open"] /\ kind' = [kind EXCEPT ![t] = k]
        /\ response' = [response EXCEPT ![t] = Client!NoResponse]
        /\ missed \subseteq missed' /\ UNCHANGED <<memory, token>>
        /\ k = "rotateAuthToken" /\ (\E u \in Callers : ClientOf[u] = ClientOf[t] /\ Client!Rotating(u)) =>
             ClientOf[t] \in missed'
    BY <1>1 DEF Client!Open, Client!serviceVars
  <2>2. /\ step'[t] = "open" /\ kind'[t] = k
        /\ \A u \in Callers : u # t =>
             step'[u] = step[u] /\ kind'[u] = kind[u] /\ response'[u] = response[u]
    BY <2>1 DEF Client!TypeOK
  <2>3. ASSUME NEW u \in Callers, u # t, Client!Rotating(u)' PROVE Client!Rotating(u)
    BY <2>2, <2>3 DEF Client!Rotating
  <2>4. ASSUME NEW u \in Callers, u # t, ClientOf[u] = ClientOf[t],
               Client!Rotating(u)', Client!Rotating(t)'
        PROVE  ClientOf[t] \in missed'
    <3>1. k = "rotateAuthToken"
      BY <2>2, <2>4 DEF Client!Rotating
    <3>2. Client!Rotating(u)
      BY <2>3, <2>4
    <3>3. QED
      BY <3>1, <3>2, <2>1, <2>4
  <2>5. ASSUME NEW u \in Callers, NEW w \in Callers, u # w, ClientOf[u] = ClientOf[w],
               Client!Rotating(u)', Client!Rotating(w)'
        PROVE  ClientOf[u] \in missed'
    <3>1. CASE u = t
      BY <2>4, <2>5, <3>1
    <3>2. CASE w = t
      BY <2>4, <2>5, <3>2
    <3>3. CASE u # t /\ w # t
      <4>1. Client!Rotating(u) /\ Client!Rotating(w)
        BY <2>3, <2>5, <3>3
      <4>2. ClientOf[u] \in missed
        BY <4>1, <2>5 DEF Client!RotationTrail
      <4>3. QED
        BY <4>2, <2>1
    <3>4. QED
      BY <3>1, <3>2, <3>3
  <2>6. ASSUME NEW u \in Callers, Client!Brings(u)', ClientOf[u] \notin missed'
        PROVE  response'[u].token = token'
    <3>1. u # t
      BY <2>2, <2>6 DEF Client!Brings
    <3>2. Client!Brings(u)
      BY <3>1, <2>2, <2>6 DEF Client!Brings, Client!Rotating
    <3>3. response[u].token = token
      BY <3>2, <2>1, <2>6 DEF Client!RotationTrail
    <3>4. QED
      BY <3>1, <3>3, <2>1, <2>2
  <2>7. ASSUME NEW c \in Clients \ (FileClients \cup missed')
        PROVE  memory'[c] = token' \/ \E u \in Callers : ClientOf[u] = c /\ Client!Brings(u)'
    <3>1. memory[c] = token \/ \E u \in Callers : ClientOf[u] = c /\ Client!Brings(u)
      BY <2>1 DEF Client!RotationTrail
    <3>2. ASSUME NEW u \in Callers, Client!Brings(u) PROVE Client!Brings(u)'
      <4>1. u # t
        BY <3>2, <2>1 DEF Client!Brings
      <4>2. QED
        BY <4>1, <3>2, <2>2 DEF Client!Brings, Client!Rotating
    <3>3. QED
      BY <3>1, <3>2, <2>1
  <2>8. QED
    BY <2>5, <2>6, <2>7 DEF Client!RotationTrail
<1>2. ASSUME NEW t \in Callers, Client!Authenticate(t) PROVE Client!RotationTrail'
  <2>1. /\ step[t] = "open" /\ step' = [step EXCEPT ![t] = "auth"]
        /\ memory' = [memory EXCEPT ![ClientOf[t]] = Client!CurrentAuthToken(ClientOf[t])]
        /\ UNCHANGED <<kind, response, token, missed>>
    BY <1>2 DEF Client!Authenticate, Client!serviceVars, Client!historyVars
  <2>2. \A u \in Callers : (Client!Rotating(u)' <=> Client!Rotating(u)) /\ (Client!Brings(u)' <=> Client!Brings(u))
    BY <2>1 DEF Client!Rotating, Client!Brings, Client!TypeOK
  <2>3. \A c \in Clients \ FileClients : memory'[c] = memory[c]
    BY <2>1 DEF Client!CurrentAuthToken, Client!TypeOK
  <2>4. QED
    BY <2>1, <2>2, <2>3 DEF Client!RotationTrail
<1>3. ASSUME NEW t \in Callers, Client!Admit(t) PROVE Client!RotationTrail'
  <2>1. /\ step[t] = "auth" /\ step' = [step EXCEPT ![t] = "ready"]
        /\ UNCHANGED <<kind, response, memory, token, missed>>
    BY <1>3 DEF Client!Admit, Client!serviceVars, Client!historyVars
  <2>2. ~Client!Brings(t) /\ ~Client!Brings(t)'
    BY <2>1 DEF Client!Brings, Client!TypeOK
  <2>3. QED
    BY <2>1, <2>2, StepKeepsRotations
<1>4. ASSUME NEW t \in Callers, Client!Refuse(t) PROVE Client!RotationTrail'
  <2>1. /\ step[t] = "auth" /\ step' = [step EXCEPT ![t] = "idle"]
        /\ UNCHANGED <<kind, response, memory, token, missed>>
    BY <1>4 DEF Client!Refuse, Client!Finish, Client!serviceVars, Client!historyVars
  <2>2. ~Client!Brings(t) /\ ~Client!Brings(t)'
    BY <2>1 DEF Client!Brings, Client!TypeOK
  <2>3. QED
    BY <2>1, <2>2, StepKeepsRotations
<1>5. ASSUME NEW t \in Callers, Client!WriteRequest(t) PROVE Client!RotationTrail'
  <2>1. /\ step[t] = "ready" /\ step' = [step EXCEPT ![t] = "sent"]
        /\ UNCHANGED <<kind, response, memory, token, missed>>
    BY <1>5 DEF Client!WriteRequest, Client!serviceVars, Client!historyVars
  <2>2. ~Client!Brings(t) /\ ~Client!Brings(t)'
    BY <2>1 DEF Client!Brings, Client!TypeOK
  <2>3. QED
    BY <2>1, <2>2, StepKeepsRotations
<1>6. ASSUME NEW t \in Callers, Client!Serve(t) PROVE Client!RotationTrail'
  <2>1. PICK r \in Client!Responses :
          /\ response' = [response EXCEPT ![t] = r]
          /\ r.status = IF kind[t] \in Client!NeedsPayload THEN "whole" ELSE "bare"
          /\ IF kind[t] = "rotateAuthToken" THEN r.token = token + 1 /\ Client!Rotate({ClientOf[t]})
             ELSE UNCHANGED <<token, overtaken, missed>>
    BY <1>6, ServedIs
  <2>2. step[t] = "sent" /\ step' = [step EXCEPT ![t] = "answered"] /\ UNCHANGED <<kind, memory>>
    BY <1>6, ServedIs
  <2>3. CASE kind[t] # "rotateAuthToken"
    <3>1. ~Client!Brings(t) /\ ~Client!Brings(t)'
      BY <2>2, <2>3 DEF Client!Brings, Client!Rotating
    <3>2. QED
      BY <2>1, <2>2, <2>3, <3>1, StepKeepsRotations DEF Client!TypeOK
  <2>4. CASE kind[t] = "rotateAuthToken"
    <3>1. /\ r.token = token' /\ missed' = missed \cup (Clients \ {ClientOf[t]})
          /\ r.status = "whole" /\ ClientOf[t] \in Clients
      BY <2>1, <2>4, Names, CallTypes DEF Client!Rotate
    <3>2. \A u \in Callers : (Client!Rotating(u)' <=> Client!Rotating(u)) /\ ClientOf[u] \in Clients
      BY <2>2, CallTypes DEF Client!Rotating, Client!TypeOK
    <3>3. Client!Rotating(t) /\ Client!Brings(t)' /\ response'[t] = r
      BY <2>1, <2>2, <2>4, <3>1 DEF Client!Rotating, Client!Brings, Client!TypeOK
    <3>4. \A u, w \in Callers :
            u # w /\ ClientOf[u] = ClientOf[w] /\ Client!Rotating(u)' /\ Client!Rotating(w)' =>
              ClientOf[u] \in missed'
      BY <3>1, <3>2 DEF Client!RotationTrail
    <3>5. ASSUME NEW u \in Callers, Client!Brings(u)', ClientOf[u] \notin missed'
          PROVE  response'[u].token = token'
      <4>1. ClientOf[u] = ClientOf[t] /\ Client!Rotating(u)'
        BY <3>1, <3>2, <3>5 DEF Client!Brings
      <4>2. u = t
        BY <3>3, <3>4, <3>5, <4>1, <3>2
      <4>3. QED
        BY <3>1, <3>3, <4>2
    <3>6. \A c \in Clients \ (FileClients \cup missed') : \E u \in Callers : ClientOf[u] = c /\ Client!Brings(u)'
      BY <3>1, <3>3
    <3>7. QED
      BY <3>4, <3>5, <3>6 DEF Client!RotationTrail
  <2>5. QED
    BY <2>3, <2>4
<1>7. ASSUME NEW t \in Callers, Client!Receive(t) PROVE Client!RotationTrail'
  <2>1. step[t] = "answered" /\ UNCHANGED <<kind, response, token, missed>>
    BY <1>7, ReceivedIs
  <2>2. PICK q \in {"idle", "reading"} : step' = [step EXCEPT ![t] = q]
    BY <1>7, ReceivedStep
  <2>3. ~Client!Brings(t)'
    BY <2>2 DEF Client!Brings, Client!TypeOK
  <2>4. CASE ~Client!Brings(t)
    <3>1. kind[t] # "rotateAuthToken" \/ response[t].status # "whole"
      BY <2>1, <2>4 DEF Client!Brings, Client!Rotating
    <3>2. UNCHANGED memory
      BY <1>7, <3>1, ReceivedIs, Names DEF Client!Keep
    <3>3. QED
      BY <2>1, <2>2, <2>3, <2>4, <3>2, StepKeepsRotations
  <2>5. CASE Client!Brings(t)
    <3>1. kind[t] = "rotateAuthToken" /\ response[t].status = "whole"
      BY <2>5 DEF Client!Brings, Client!Rotating
    <3>2. memory' = [memory EXCEPT ![ClientOf[t]] = response[t].token]
      BY <1>7, <3>1, ReceivedIs DEF Client!Keep
    <3>3. \A u \in Callers :
            /\ Client!Rotating(u)' => Client!Rotating(u)
            /\ u # t => (Client!Brings(u)' <=> Client!Brings(u))
      BY <2>1, <2>2 DEF Client!Rotating, Client!Brings, Client!TypeOK
    <3>4. ASSUME NEW c \in Clients \ (FileClients \cup missed)
          PROVE  memory'[c] = token \/ \E u \in Callers : ClientOf[u] = c /\ Client!Brings(u)'
      <4>1. CASE c = ClientOf[t]
        BY <2>5, <3>2, <4>1 DEF Client!RotationTrail, Client!TypeOK
      <4>2. CASE c # ClientOf[t]
        <5>1. memory'[c] = memory[c]
          BY <3>2, <4>2 DEF Client!TypeOK
        <5>2. memory[c] = token \/ \E u \in Callers : ClientOf[u] = c /\ Client!Brings(u)
          BY DEF Client!RotationTrail
        <5>3. QED
          BY <3>3, <4>2, <5>1, <5>2 DEF Client!Brings, Client!Rotating
      <4>3. QED
        BY <4>1, <4>2
    <3>5. ASSUME NEW u \in Callers, Client!Brings(u)', ClientOf[u] \notin missed
          PROVE  response[u].token = token
      <4>1. Client!Brings(u)
        BY <2>3, <3>3, <3>5 DEF Client!Brings, Client!Rotating
      <4>2. QED
        BY <3>5, <4>1 DEF Client!RotationTrail
    <3>6. ASSUME NEW u \in Callers, NEW w \in Callers, u # w, ClientOf[u] = ClientOf[w],
                 Client!Rotating(u)', Client!Rotating(w)'
          PROVE  ClientOf[u] \in missed
      <4>1. Client!Rotating(u) /\ Client!Rotating(w)
        BY <3>3, <3>6 DEF Client!Rotating, Client!Brings
      <4>2. QED
        BY <3>6, <4>1 DEF Client!RotationTrail
    <3>7. QED
      BY <2>1, <3>4, <3>5, <3>6 DEF Client!RotationTrail, Client!Brings, Client!Rotating
  <2>6. QED
    BY <2>4, <2>5
<1>8. ASSUME NEW t \in Callers, Client!ReadBytes(t) PROVE Client!RotationTrail'
  <2>1. /\ step[t] = "reading" /\ step' = [step EXCEPT ![t] = "idle"]
        /\ UNCHANGED <<kind, response, memory, token, missed>>
    BY <1>8 DEF Client!ReadBytes, Client!Finish, Client!serviceVars, Client!historyVars
  <2>2. ~Client!Brings(t) /\ ~Client!Brings(t)'
    BY <2>1 DEF Client!Brings, Client!TypeOK
  <2>3. QED
    BY <2>1, <2>2, StepKeepsRotations
<1>9. ASSUME NEW t \in Callers, Client!Lose(t) PROVE Client!RotationTrail'
  BY SMTT(30), <1>9, CallTypes, Names DEF Client!Lose, Client!Fault, Client!Finish, Client!NoResponse,
    Client!Rotating, Client!TypeOK, Client!CallTrail, Client!RotationTrail, Client!Brings,
    Client!callVars, Client!serviceVars, Client!historyVars
<1>10. ASSUME NEW t \in Callers, Client!Garble(t) PROVE Client!RotationTrail'
  BY <1>10, CallTypes, Names DEF Client!Garble, Client!Fault, Client!Answer, Client!NoResponse,
    Client!TypeOK, Client!CallTrail, Client!RotationTrail, Client!Brings, Client!Rotating,
    Client!callVars, Client!serviceVars, Client!historyVars
<1>11. CASE Client!RotateStray
  BY <1>11, CallTypes, Names DEF Client!RotateStray, Client!Rotate, Client!TypeOK,
    Client!CallTrail, Client!RotationTrail, Client!Brings, Client!Rotating, Client!callVars,
    Client!serviceVars, Client!historyVars
<1>12. CASE Client!Rewrite
  BY <1>12, CallTypes, Names DEF Client!Rewrite, Client!TypeOK, Client!CallTrail,
    Client!RotationTrail, Client!Brings, Client!Rotating, Client!callVars, Client!serviceVars,
    Client!historyVars
<1> QED
  BY <1>1, <1>2, <1>3, <1>4, <1>5, <1>6, <1>7, <1>8, <1>9, <1>10, <1>11, <1>12 DEF Client!Next,
    Client!Step, Client!Call, Client!Progress

-----------------------------------------------------------------------------
(* The two together.                                                       *)
IInv == TypeOK /\ Control!OwnerTrail /\ Client!AgentTrail

(* What holds of the owner's side at the start.                            *)
LEMMA OwnerInit == Control!Init => Control!TypeOK /\ Control!OwnerTrail
<1> SUFFICES ASSUME Control!Init PROVE Control!TypeOK /\ Control!OwnerTrail
  OBVIOUS
<1>1. Control!TypeOK
  <2>1. [provider |-> "imsg", enabled |-> FALSE, nativeEnabled |-> None] \in Control!RichConfigurations
    BY DEF Control!RichConfigurations, Control!Providers
  <2>2. 0 \in 0..MaxCommands
    BY CommandTypes
  <2>3. QED
    BY <2>1, <2>2 DEF Control!Init, Control!TypeOK
<1>2. Control!TurnTrail /\ Control!WordTrail /\ Control!ReportIsTrue
  BY CommandTypes DEF Control!Init, Control!TurnTrail, Control!WordTrail, Control!ReportIsTrue, Control!Turns
<1>3. Control!ConnectionTrail /\ Control!NativeKept
  BY CommandTypes DEF Control!Init, Control!ConnectionTrail, Control!NativeKept, Control!Turns
<1> QED
  BY <1>1, <1>2, <1>3 DEF Control!OwnerTrail

(* And of the agents'.                                                    *)
LEMMA AgentInit == Client!Init => Client!TypeOK /\ Client!AgentTrail
<1> SUFFICES ASSUME Client!Init PROVE Client!TypeOK /\ Client!AgentTrail
  OBVIOUS
<1>1. 0 \in Client!Tokens /\ "health" \in Client!Kinds /\ "none" \in Client!Results
  BY CallTypes, Names DEF Client!Results
<1>2. Client!TypeOK
  BY <1>1, CallTypes, ResponseTypes DEF Client!Init, Client!TypeOK
<1>3. Client!CallTrail /\ Client!CredentialTrail /\ Client!AnswersAreTrue
  BY Names DEF Client!Init, Client!CallTrail, Client!CredentialTrail, Client!AnswersAreTrue, Client!NoResponse
<1>4. Client!RotationTrail
  BY DEF Client!Init, Client!RotationTrail, Client!Rotating, Client!Brings
<1> QED
  BY <1>2, <1>3, <1>4 DEF Client!AgentTrail

(* A step of the owner's exchange keeps what is true of it.                *)
LEMMA OwnerSteps ==
  ASSUME Control!TypeOK, Control!OwnerTrail, Control!Next
  PROVE  Control!TypeOK' /\ Control!OwnerTrail'
BY OwnerTypes, TurnsKept, WordsKept, ReportsKept, ConnectionsKept, NativeKeeps DEF Control!OwnerTrail

(* A step of the calls.                                                    *)
LEMMA AgentMoves ==
  ASSUME Client!TypeOK, Client!AgentTrail, Client!Next
  PROVE  Client!TypeOK' /\ Client!AgentTrail'
BY AgentTypes, CallsKept, AnswersKept, CredentialsKept, RotationsKept DEF Client!AgentTrail

(* A step of a call leaves the owner's side alone.                         *)
LEMMA OwnerIdle ==
  ASSUME Control!TypeOK, Control!OwnerTrail, UNCHANGED <<ownerSide, profiles>>
  PROVE  Control!TypeOK' /\ Control!OwnerTrail'
BY DEF ownerSide, Control!TypeOK, Control!OwnerTrail, Control!TurnTrail, Control!WordTrail, Control!ReportIsTrue,
  Control!ConnectionTrail, Control!NativeKept, Control!Effect, Control!Open, Control!RichRequest,
  Control!Turns, Control!RichConfigurations, Control!Providers

(* A step of the owner leaves the calls alone, but for the connections.    *)
LEMMA AgentIdle ==
  ASSUME Client!TypeOK, Client!AgentTrail, UNCHANGED agentSide,
         profiles' \in [Profiles -> {"absent", "enabled", "disabled"}]
  PROVE  Client!TypeOK' /\ Client!AgentTrail'
<1>1. Client!TypeOK'
  BY DEF agentSide, Client!TypeOK
<1>2. Client!CallTrail' /\ Client!CredentialTrail' /\ Client!AnswersAreTrue'
  BY DEF agentSide, Client!AgentTrail, Client!CallTrail, Client!CredentialTrail, Client!AnswersAreTrue
<1>3. Client!RotationTrail'
  BY DEF agentSide, Client!AgentTrail, Client!RotationTrail, Client!Rotating, Client!Brings
<1> QED
  BY <1>1, <1>2, <1>3 DEF Client!AgentTrail

(* No call changes a connection.                                           *)
LEMMA CallsLeaveProfiles == Client!Next => UNCHANGED profiles
BY DEF Client!Next, Client!Step, Client!Call, Client!Progress, Client!Open, Client!Authenticate, Client!Admit,
  Client!Refuse, Client!WriteRequest, Client!Serve, Client!Receive, Client!ReadBytes, Client!Lose, Client!Garble,
  Client!RotateStray, Client!Rewrite, Client!Answer, Client!serviceVars

(* IInv is an invariant.                                                   *)
LEMMA Inductive == Spec => []IInv
<1>1. Init => IInv
  BY OwnerInit, AgentInit DEF Init, IInv, TypeOK
<1>2. IInv /\ [Next]_vars => IInv'
  <2> SUFFICES ASSUME IInv, [Next]_vars PROVE IInv'
    OBVIOUS
  <2>1. ASSUME Control!Next, UNCHANGED <<cast, agentSide>> PROVE IInv'
    <3>1. Control!TypeOK' /\ Control!OwnerTrail'
      BY <2>1, OwnerSteps DEF IInv, TypeOK
    <3>2. profiles' \in [Profiles -> {"absent", "enabled", "disabled"}]
      BY <3>1 DEF Control!TypeOK
    <3>3. QED
      BY <2>1, <3>1, <3>2, AgentIdle DEF IInv, TypeOK
  <2>2. ASSUME Client!Next, UNCHANGED <<cast, ownerSide>> PROVE IInv'
    BY <2>2, CallsLeaveProfiles, AgentMoves, OwnerIdle DEF IInv, TypeOK
  <2>3. ASSUME UNCHANGED vars PROVE IInv'
    <3>1. profiles' \in [Profiles -> {"absent", "enabled", "disabled"}]
      BY <2>3 DEF vars, IInv, TypeOK, Control!TypeOK
    <3>2. QED
      BY <2>3, <3>1, OwnerIdle, AgentIdle DEF vars, IInv, TypeOK
  <2>4. QED
    BY <2>1, <2>2, <2>3 DEF Next, OwnerBegins, OwnerExchanges, ServiceAlone, ServiceCommanded, AgentSteps,
      Control!Next, Client!Next
<1>3. QED
  BY <1>1, <1>2, PTL DEF Spec

-----------------------------------------------------------------------------
(* Every variable keeps its type.                                          *)
THEOREM RegistrationTypes == Spec => []TypeOK
<1>1. IInv => TypeOK
  BY DEF IInv
<1>2. QED
  BY <1>1, Inductive, PTL

(* What the owner is told of a command is so, an accepted one stands, and  *)
(* the native provider stays as it was asked for (control.py:51-113).      *)
THEOREM OwnerIsToldTheTruth == Spec => []ControlTruth
<1>1. IInv => ControlTruth
  <2> SUFFICES ASSUME IInv PROVE ControlTruth
    OBVIOUS
  <2>1. Control!AcceptedStands
    BY DEF IInv, Control!OwnerTrail, Control!ReportIsTrue, Control!ConnectionTrail, Control!AcceptedStands
  <2>2. QED
    BY <2>1 DEF IInv, ControlTruth, Control!ControlTruth, Control!OwnerTrail
<1>2. QED
  BY <1>1, Inductive, PTL

(* A call that returns was answered with what it asked for, and a client   *)
(* that no rotation passed by has the token (client.py:381-404, 566-588).  *)
THEOREM CallersAreToldTheTruth == Spec => []CallsAreTrue
<1>1. IInv => CallsAreTrue
  <2> SUFFICES ASSUME IInv PROVE CallsAreTrue
    OBVIOUS
  <2>1. ASSUME NEW c \in Clients \ (FileClients \cup missed)
        PROVE  memory[c] = token \/ Client!OnItsWay(c)
    <3>1. memory[c] = token \/ \E t \in Callers : ClientOf[t] = c /\ Client!Brings(t)
      BY DEF IInv, Client!AgentTrail, Client!RotationTrail
    <3>2. \A t \in Callers : Client!Brings(t) /\ ClientOf[t] = c => response[t].token = token
      BY DEF IInv, Client!AgentTrail, Client!RotationTrail
    <3>3. QED
      BY <3>1, <3>2 DEF Client!OnItsWay, Client!Brings
  <2>2. QED
    BY <2>1 DEF IInv, Client!AgentTrail, CallsAreTrue, Client!CallsAreTrue, Client!RotationKept
<1>2. QED
  BY <1>1, Inductive, PTL

(* A call is refused only by a service that found the credential wanting.  *)
LEMMA OnlyRefuse ==
  ASSUME Client!TypeOK, Client!CallTrail, Client!Next, NEW t \in Callers, Refused(t)
  PROVE  step[t] = "auth" /\ ~Client!Admits(t)
<1>1. ASSUME NEW u \in Callers, NEW k \in CallsOf[u], Client!Open(u, k) PROVE FALSE
  BY <1>1 DEF Client!Open, Client!TypeOK, Refused
<1>2. ASSUME NEW u \in Callers, Client!Refuse(u) PROVE step[t] = "auth" /\ ~Client!Admits(t)
  BY <1>2 DEF Client!Refuse, Client!Finish, Client!TypeOK, Refused
<1>3. ASSUME NEW u \in Callers, Client!Receive(u) PROVE FALSE
  BY <1>3, ReceivedIs DEF Client!Finish, Client!TypeOK, Refused
<1>4. ASSUME NEW u \in Callers, Client!ReadBytes(u) \/ Client!Lose(u) PROVE FALSE
  BY <1>4 DEF Client!ReadBytes, Client!Lose, Client!Finish, Client!TypeOK, Refused
<1>5. ASSUME NEW u \in Callers,
             \/ Client!Authenticate(u) \/ Client!Admit(u) \/ Client!WriteRequest(u)
             \/ Client!Serve(u) \/ Client!Garble(u)
      PROVE  FALSE
  BY <1>5, ServedIs, GarbledIs DEF Client!Authenticate, Client!Admit, Client!WriteRequest, Refused
<1>6. ASSUME Client!RotateStray \/ Client!Rewrite PROVE FALSE
  BY <1>6 DEF Client!RotateStray, Client!Rewrite, Client!callVars, Refused
<1> QED
  BY <1>1, <1>2, <1>3, <1>4, <1>5, <1>6 DEF Client!Next, Client!Step, Client!Call, Client!Progress

(* And only one that found the credential good admits.                     *)
LEMMA OnlyAdmit ==
  ASSUME Client!TypeOK, Client!Next, NEW t \in Callers, Admitted(t)
  PROVE  Client!Admits(t)
<1>1. ASSUME NEW u \in Callers, NEW k \in CallsOf[u], Client!Open(u, k) PROVE FALSE
  BY <1>1 DEF Client!Open, Client!TypeOK, Admitted
<1>2. ASSUME NEW u \in Callers, Client!Admit(u) PROVE Client!Admits(t)
  BY <1>2 DEF Client!Admit, Client!TypeOK, Admitted
<1>3. ASSUME NEW u \in Callers, Client!Receive(u) PROVE FALSE
  BY <1>3, ReceivedStep DEF Client!TypeOK, Admitted
<1>4. ASSUME NEW u \in Callers, Client!ReadBytes(u) \/ Client!Lose(u) \/ Client!Refuse(u) PROVE FALSE
  BY <1>4 DEF Client!ReadBytes, Client!Lose, Client!Refuse, Client!Finish, Client!TypeOK, Admitted
<1>5. ASSUME NEW u \in Callers,
             Client!Authenticate(u) \/ Client!WriteRequest(u) \/ Client!Serve(u) \/ Client!Garble(u)
      PROVE  FALSE
  BY <1>5, ServedIs, GarbledIs DEF Client!Authenticate, Client!WriteRequest, Client!TypeOK, Admitted
<1>6. ASSUME Client!RotateStray \/ Client!Rewrite PROVE FALSE
  BY <1>6 DEF Client!RotateStray, Client!Rewrite, Client!callVars, Admitted
<1> QED
  BY <1>1, <1>2, <1>3, <1>4, <1>5, <1>6 DEF Client!Next, Client!Step, Client!Call, Client!Progress

(* Every step is one of the calls, or leaves them alone.                   *)
LEMMA OwnerMoves == Next => Client!Next \/ UNCHANGED <<step, result>>
BY DEF Next, OwnerBegins, OwnerExchanges, ServiceAlone, ServiceCommanded, AgentSteps, agentSide, Client!Next

(* What the owner says of a connection is how the service has it.          *)
LEMMA OwnerKnows ==
  ASSUME IInv, NEW p \in Profiles, NEW q, OwnerSays(p, q)
  PROVE  profiles[p] = q
<1>1. CASE Accepted(p) = {}
  BY <1>1 DEF OwnerSays
<1>2. CASE Accepted(p) # {}
  <2>1. PICK n \in Accepted(p) : Control!Effect(request[n]) = q /\ \A m \in Accepted(p) : m <= n
    BY <1>2 DEF OwnerSays
  <2>2. n \in Control!Turns /\ report[n] = "accepted" /\ request[n].profile = p
    BY <2>1 DEF Accepted, On
  <2>3. frame[n] = "applied" /\ (by[p] >= n \/ (by[p] # 0 /\ report[by[p]] \in Control!Open))
    BY <2>2 DEF IInv, Control!OwnerTrail, Control!ReportIsTrue, Control!ConnectionTrail
  <2>4. by[p] \in Control!Turns
    BY <2>2, <2>3, CommandTypes DEF IInv, TypeOK, Control!TypeOK, Control!Turns
  <2>5. /\ frame[by[p]] = "applied" /\ request[by[p]].profile = p
        /\ profiles[p] = Control!Effect(request[by[p]])
    BY <2>4 DEF IInv, Control!OwnerTrail, Control!ConnectionTrail, Control!Turns
  <2>6. request[by[p]] # None
    BY <2>4, <2>5 DEF IInv, Control!OwnerTrail, Control!TurnTrail
  <2>7. by[p] \in On(p) /\ report[by[p]] \notin Control!Open
    BY <2>4, <2>5, <2>6 DEF On, OwnerSays, InDoubt
  <2>8. report[by[p]] = "accepted"
    <3>1. report[by[p]] \notin {"rejected", "invalid"}
      BY <2>4, <2>5 DEF IInv, Control!OwnerTrail, Control!ReportIsTrue
    <3>2. QED
      BY <2>4, <2>7, <3>1 DEF IInv, TypeOK, Control!TypeOK, Control!Open
  <2>9. by[p] = n
    BY <2>1, <2>2, <2>3, <2>4, <2>7, <2>8 DEF Accepted, Control!Turns
  <2>10. QED
    BY <2>1, <2>5, <2>9
<1> QED
  BY <1>1, <1>2

(* The owner's last word decides who gets in (docs/sdk-python.md:205-215). *)
THEOREM AccessIsTheOwners == Spec => AccessFollowsOwner
<1> DEFINE Step == \A t \in Callers :
              LET c == ClientOf[t]  p == ProfileOf[c] IN
              /\ Refused(t) /\ c \in FileClients /\ (p # None => OwnerSays(p, "enabled")) => t \in overtaken
              /\ Admitted(t) /\ p # None => ~OwnerSays(p, "disabled") /\ ~OwnerSays(p, "absent")
<1>1. IInv /\ [Next]_vars => [Step]_vars
  <2> SUFFICES ASSUME IInv, Next, NEW t \in Callers, NEW c, c = ClientOf[t], NEW p, p = ProfileOf[c]
      PROVE  /\ Refused(t) /\ c \in FileClients /\ (p # None => OwnerSays(p, "enabled")) => t \in overtaken
             /\ Admitted(t) /\ p # None => ~OwnerSays(p, "disabled") /\ ~OwnerSays(p, "absent")
    OBVIOUS
  <2>1. p # None => p \in Profiles
    BY RegistrationAssumption DEF Client!RequestsAssumption
  <2>2. Refused(t) => step[t] = "auth" /\ ~Client!Admits(t)
    BY OnlyRefuse, OwnerMoves DEF IInv, TypeOK, Client!AgentTrail, Refused
  <2>3. Admitted(t) => Client!Admits(t)
    BY OnlyAdmit, OwnerMoves DEF IInv, TypeOK, Admitted
  <2>4. ASSUME Refused(t), c \in FileClients, p # None => OwnerSays(p, "enabled") PROVE t \in overtaken
    <3>1. Client!Recognised(t)
      BY <2>1, <2>4, OwnerKnows DEF Client!Recognised
    <3>2. credential[t] # token /\ step[t] = "auth"
      BY <2>2, <2>4, <3>1 DEF Client!Admits
    <3>3. QED
      BY <2>4, <3>2 DEF IInv, Client!AgentTrail, Client!CredentialTrail
  <2>5. ASSUME Admitted(t), p # None PROVE ~OwnerSays(p, "disabled") /\ ~OwnerSays(p, "absent")
    <3>1. profiles[p] = "enabled"
      BY <2>3, <2>5 DEF Client!Admits, Client!Recognised
    <3>2. QED
      BY <2>1, <2>5, <3>1, OwnerKnows
  <2>6. QED
    BY <2>4, <2>5
<1>2. QED
  BY <1>1, Inductive, PTL DEF Spec, AccessFollowsOwner
=============================================================================
