----------------------- MODULE ManagedTyping_proofs ------------------------
(* What TLAPS proves of ManagedTyping, for any matrices, replies and SDKs: *)
(* each part of ScopeTrail holds at the start and is kept by every step.   *)
EXTENDS ManagedTyping, TLAPS

(* Every variable keeps its type.                                          *)
LEMMA TypeInit == Init => TypeOK
BY DEF Init, TypeOK

(* No step breaks a type.                                                   *)
LEMMA TypeNext ==
  ASSUME TypeOK, Next
  PROVE  TypeOK'
<1>1. CASE Ask
  BY <1>1 DEF Ask, GoTo, Calling, Enter, Leave, TypeOK, Roles, Starts, Answers, scopeVars, taskVars, sendVars,
    serviceVars
<1>2. CASE CancelAsk
  BY <1>2 DEF CancelAsk, Leave, TypeOK, Roles, Starts, Answers, scopeVars, taskVars, sendVars, serviceVars
<1>3. CASE StartAccepted
  BY <1>3 DEF StartAccepted, Returned, GoTo, TypeOK, Roles, Starts, Answers, scopeVars, taskVars, sendVars,
    serviceVars
<1>4. CASE StartRefused
  BY <1>4 DEF StartRefused, Returned, Enter, Leave, GoTo, TypeOK, Roles, Starts, Answers, scopeVars, taskVars,
    sendVars, serviceVars
<1>5. CASE StartUncertain
  BY <1>5 DEF StartUncertain, Returned, GoTo, Calling, TypeOK, Roles, Starts, Answers, scopeVars, taskVars,
    sendVars, serviceVars
<1>6. CASE CancelStart
  BY <1>6 DEF CancelStart, TypeOK, Roles, Starts, Answers, scopeVars, taskVars, sendVars, serviceVars
<1>7. CASE AfterUncertain
  BY <1>7 DEF AfterUncertain, Leave, Enter, GoTo, TypeOK, Roles, Starts, Answers, scopeVars, taskVars, sendVars,
    serviceVars
<1>8. CASE BodyEnds
  BY <1>8 DEF BodyEnds, Unwind, Owned, TypeOK, Roles, Starts, Answers, scopeVars, taskVars, sendVars, serviceVars
<1>9. CASE BodyCut
  BY <1>9 DEF BodyCut, Unwind, Owned, TypeOK, Roles, Starts, Answers, scopeVars, taskVars, sendVars, serviceVars
<1>10. CASE CleanedUp
  BY <1>10 DEF CleanedUp, GoTo, TypeOK, Roles, Starts, Answers, scopeVars, taskVars, sendVars, serviceVars
<1>11. CASE Escape
  BY <1>11 DEF Escape, TypeOK, Roles, Starts, Answers, scopeVars, taskVars, sendVars, serviceVars
<1>12. CASE Abort
  BY <1>12 DEF Abort, TypeOK, Roles, Starts, Answers, scopeVars, taskVars, sendVars, serviceVars
<1>13. CASE Renew
  BY <1>13 DEF Renew, Calling, TypeOK, Roles, Starts, Answers, scopeVars, taskVars, sendVars, serviceVars
<1>14. CASE Renewed
  BY <1>14 DEF Renewed, TypeOK, Roles, Starts, Answers, scopeVars, taskVars, sendVars, serviceVars
<1>15. CASE Join
  BY <1>15 DEF Join, TypeOK, Roles, Starts, Answers, scopeVars, taskVars, sendVars, serviceVars
<1>16. CASE Stopped
  BY <1>16 DEF Stopped, TypeOK, Roles, Starts, Answers, scopeVars, taskVars, sendVars, serviceVars
<1>17. CASE Reply
  BY <1>17 DEF Reply, Calling, TypeOK, Roles, Starts, Answers, scopeVars, taskVars, sendVars, serviceVars
<1>18. CASE ChangeMatrix
  BY <1>18 DEF ChangeMatrix, TypeOK, Roles, Starts, Answers, scopeVars, taskVars, sendVars, serviceVars
<1>19. ASSUME NEW r \in Roles, CheckPasses(r) PROVE TypeOK'
  BY <1>19 DEF CheckPasses, TypeOK, Roles, Starts, Answers, scopeVars, taskVars, sendVars, serviceVars
<1>20. ASSUME NEW r \in Roles, CheckFails(r) PROVE TypeOK'
  BY <1>20 DEF CheckFails, Finish, TypeOK, Roles, Starts, Answers, scopeVars, taskVars, sendVars, serviceVars
<1>21. ASSUME NEW r \in Roles, WriteRequest(r) PROVE TypeOK'
  BY <1>21 DEF WriteRequest, TypeOK, Roles, Starts, Answers, scopeVars, taskVars, sendVars, serviceVars
<1>22. ASSUME NEW r \in Roles, NotWritten(r) PROVE TypeOK'
  BY <1>22 DEF NotWritten, Finish, TypeOK, Roles, Starts, Answers, scopeVars, taskVars, sendVars, serviceVars
<1>23. ASSUME NEW r \in Roles, Lose(r) PROVE TypeOK'
  BY <1>23 DEF Lose, Finish, TypeOK, Roles, Starts, Answers, scopeVars, taskVars, sendVars, serviceVars
<1>24. ASSUME NEW r \in Roles, Handle(r) PROVE TypeOK'
  <2>1. requests' \subseteq Roles /\ late' \subseteq Roles
    BY <1>24 DEF Handle, TypeOK
  <2>2. typing' \in BOOLEAN
    BY <1>24 DEF Handle, Indicates, TypeOK
  <2>3. /\ phase' \in [Roles -> {"idle", "check", "write", "await"}]
        /\ result' \in [Roles -> {"none", "accepted", "refused", "failed", "unsupported", "cancelled"}]
    BY <1>24 DEF Handle, Finish, sendVars, TypeOK
  <2>4. QED
    BY <1>24, <2>1, <2>2, <2>3 DEF Handle, TypeOK, scopeVars, taskVars
<1>25. CASE ReplyInstead
  BY <1>25 DEF ReplyInstead, Returned, Calling, TypeOK, Roles, Starts, Answers, scopeVars,
    taskVars, sendVars, serviceVars
<1>26. ASSUME NEW r \in Answers, CancelAnswer(r) PROVE TypeOK'
  BY <1>26 DEF CancelAnswer, Finish, TypeOK, Roles, Starts, Answers, scopeVars, taskVars,
    sendVars, serviceVars
<1> QED
  BY <1>1, <1>2, <1>3, <1>4, <1>5, <1>6, <1>7, <1>8, <1>9, <1>10, <1>11, <1>12, <1>13, <1>14,
    <1>15, <1>16, <1>17, <1>18, <1>19, <1>20, <1>21, <1>22, <1>23, <1>24, <1>25, <1>26 DEF Next, Progress,
    Interrupt, SendProgress

-----------------------------------------------------------------------------
(* The trails hold at the start.                                           *)
LEMMA TrailInit == Init => ScopeTrail
BY DEF Init, ScopeTrail, SendTrail, PlaceTrail, TaskTrail, LightTrail, ExitTrail, AnswerTrail, Roles, Starts, Answers, Owned

(* What the service still has, or handles late, of a start that was given  *)
(* up; a start is never called again, a renewal only after an accepted one.*)
LEMMA SendKept ==
  ASSUME TypeOK, SendTrail, PlaceTrail, TaskTrail, Next
  PROVE  SendTrail'
<1>1. CASE Ask
  BY <1>1 DEF Ask, GoTo, Calling, Enter, Leave, TypeOK, SendTrail, PlaceTrail, TaskTrail,
    Abandoned, Owned, Roles, Starts, Answers, scopeVars, taskVars, sendVars, serviceVars
<1>2. CASE StartUncertain
  BY <1>2 DEF StartUncertain, Returned, GoTo, Calling, TypeOK, SendTrail, PlaceTrail, TaskTrail,
    Abandoned, Owned, Roles, Starts, Answers, scopeVars, taskVars, sendVars, serviceVars
<1>3. CASE CancelStart
  BY <1>3 DEF CancelStart, TypeOK, SendTrail, PlaceTrail, TaskTrail, Abandoned, Owned, Roles, Starts, Answers,
    scopeVars, taskVars, sendVars, serviceVars
<1>4. CASE Renew
  BY <1>4 DEF Renew, Calling, TypeOK, SendTrail, PlaceTrail, TaskTrail, Abandoned, Owned, Roles, Starts, Answers,
    scopeVars, taskVars, sendVars, serviceVars
<1>5. CASE Join
  BY <1>5, TypingAssumption DEF Join, TypeOK, SendTrail, PlaceTrail, TaskTrail, Abandoned, Owned, Roles, Starts, Answers,
    scopeVars, taskVars, sendVars, serviceVars
<1>6. CASE Reply
  BY <1>6 DEF Reply, Calling, TypeOK, SendTrail, PlaceTrail, TaskTrail, Abandoned, Owned, Roles, Starts, Answers,
    scopeVars, taskVars, sendVars, serviceVars
<1>7. ASSUME NEW r \in Roles, CheckPasses(r) PROVE SendTrail'
  BY <1>7 DEF CheckPasses, TypeOK, SendTrail, PlaceTrail, TaskTrail, Abandoned, Owned, Roles, Starts, Answers,
    scopeVars, taskVars, sendVars, serviceVars
<1>8. ASSUME NEW r \in Roles, CheckFails(r) PROVE SendTrail'
  BY <1>8 DEF CheckFails, Finish, TypeOK, SendTrail, PlaceTrail, TaskTrail, Abandoned, Owned,
    Roles, Starts, Answers, scopeVars, taskVars, sendVars, serviceVars
<1>9. ASSUME NEW r \in Roles, WriteRequest(r) PROVE SendTrail'
  BY <1>9 DEF WriteRequest, TypeOK, SendTrail, PlaceTrail, TaskTrail, Abandoned, Owned, Roles, Starts, Answers,
    scopeVars, taskVars, sendVars, serviceVars
<1>10. ASSUME NEW r \in Roles, NotWritten(r) PROVE SendTrail'
  BY <1>10 DEF NotWritten, Finish, TypeOK, SendTrail, PlaceTrail, TaskTrail, Abandoned, Owned,
    Roles, Starts, Answers, scopeVars, taskVars, sendVars, serviceVars
<1>11. ASSUME NEW r \in Roles, Lose(r) PROVE SendTrail'
  BY <1>11 DEF Lose, Finish, TypeOK, SendTrail, PlaceTrail, TaskTrail, Abandoned, Owned, Roles, Starts, Answers,
    scopeVars, taskVars, sendVars, serviceVars
<1>12. ASSUME NEW r \in Roles, Handle(r) PROVE SendTrail'
  BY <1>12 DEF Handle, Finish, Indicates, TypeOK, SendTrail, PlaceTrail, TaskTrail, Abandoned,
    Owned, Roles, Starts, Answers, scopeVars, taskVars, sendVars, serviceVars
<1>13. CASE CancelAsk \/ StartAccepted \/ StartRefused \/ AfterUncertain \/ BodyEnds \/ BodyCut \/ CleanedUp \/ Escape \/ Abort \/ Renewed \/ Stopped \/ ChangeMatrix
  BY <1>13 DEF CancelAsk, Leave, StartAccepted, Returned, GoTo, StartRefused, Enter,
    AfterUncertain, BodyEnds, Unwind, Owned, BodyCut, CleanedUp, Escape, Abort, Renewed, Stopped,
    ChangeMatrix, TypeOK, SendTrail, PlaceTrail, TaskTrail, Abandoned, Roles, Starts, Answers, scopeVars,
    taskVars, sendVars, serviceVars
<1>14. CASE ReplyInstead
  BY <1>14 DEF ReplyInstead, Returned, Calling, TypeOK, SendTrail, PlaceTrail, TaskTrail,
    Abandoned, Owned, Roles, Starts, Answers, scopeVars, taskVars, sendVars, serviceVars
<1>15. ASSUME NEW r \in Answers, CancelAnswer(r) PROVE SendTrail'
  BY <1>15 DEF CancelAnswer, Finish, TypeOK, SendTrail, PlaceTrail, TaskTrail, Abandoned, Owned,
    Roles, Starts, Answers, scopeVars, taskVars, sendVars, serviceVars
<1> QED
  BY <1>1, <1>2, <1>3, <1>4, <1>5, <1>6, <1>7, <1>8, <1>9, <1>10, <1>11, <1>12, <1>13, <1>14, <1>15 DEF Next,
    Progress, Interrupt, SendProgress

(* Where the caller may be.                                                *)
LEMMA PlaceKept ==
  ASSUME TypeOK, PlaceTrail, TaskTrail, Next
  PROVE  PlaceTrail'
<1>1. CASE Ask
  BY <1>1 DEF Ask, GoTo, Calling, Enter, Leave, TypeOK, PlaceTrail, TaskTrail, Owned, Roles, Starts, Answers,
    scopeVars, taskVars, sendVars, serviceVars
<1>2. CASE CancelAsk
  BY <1>2 DEF CancelAsk, Leave, TypeOK, PlaceTrail, TaskTrail, Owned, Roles, Starts, Answers, scopeVars, taskVars,
    sendVars, serviceVars
<1>3. CASE StartAccepted
  BY <1>3 DEF StartAccepted, Returned, GoTo, TypeOK, PlaceTrail, TaskTrail, Owned, Roles, Starts, Answers,
    scopeVars, taskVars, sendVars, serviceVars
<1>4. CASE StartRefused
  BY <1>4 DEF StartRefused, Returned, Enter, Leave, GoTo, TypeOK, PlaceTrail, TaskTrail, Owned,
    Roles, Starts, Answers, scopeVars, taskVars, sendVars, serviceVars
<1>5. CASE StartUncertain
  BY <1>5 DEF StartUncertain, Returned, GoTo, Calling, TypeOK, PlaceTrail, TaskTrail, Owned, Roles, Starts, Answers,
    scopeVars, taskVars, sendVars, serviceVars
<1>6. CASE CancelStart
  BY <1>6 DEF CancelStart, TypeOK, PlaceTrail, TaskTrail, Owned, Roles, Starts, Answers, scopeVars, taskVars,
    sendVars, serviceVars
<1>7. CASE AfterUncertain
  BY <1>7 DEF AfterUncertain, Leave, Enter, GoTo, TypeOK, PlaceTrail, TaskTrail, Owned, Roles, Starts, Answers,
    scopeVars, taskVars, sendVars, serviceVars
<1>8. CASE BodyEnds
  BY <1>8 DEF BodyEnds, Unwind, Owned, TypeOK, PlaceTrail, TaskTrail, Roles, Starts, Answers, scopeVars, taskVars,
    sendVars, serviceVars
<1>9. CASE BodyCut
  BY <1>9 DEF BodyCut, Unwind, Owned, TypeOK, PlaceTrail, TaskTrail, Roles, Starts, Answers, scopeVars, taskVars,
    sendVars, serviceVars
<1>10. CASE CleanedUp
  BY <1>10 DEF CleanedUp, GoTo, TypeOK, PlaceTrail, TaskTrail, Owned, Roles, Starts, Answers, scopeVars, taskVars,
    sendVars, serviceVars
<1>11. CASE Escape
  BY <1>11 DEF Escape, TypeOK, PlaceTrail, TaskTrail, Owned, Roles, Starts, Answers, scopeVars, taskVars, sendVars,
    serviceVars
<1>12. CASE Renew
  BY <1>12 DEF Renew, Calling, TypeOK, PlaceTrail, TaskTrail, Owned, Roles, Starts, Answers, scopeVars, taskVars,
    sendVars, serviceVars
<1>13. CASE Renewed
  BY <1>13 DEF Renewed, TypeOK, PlaceTrail, TaskTrail, Owned, Roles, Starts, Answers, scopeVars, taskVars, sendVars,
    serviceVars
<1>14. CASE Join
  BY <1>14 DEF Join, TypeOK, PlaceTrail, TaskTrail, Owned, Roles, Starts, Answers, scopeVars, taskVars, sendVars,
    serviceVars
<1>15. CASE Stopped
  BY <1>15 DEF Stopped, TypeOK, PlaceTrail, TaskTrail, Owned, Roles, Starts, Answers, scopeVars, taskVars, sendVars,
    serviceVars
<1>16. CASE Reply
  BY <1>16 DEF Reply, Calling, TypeOK, PlaceTrail, TaskTrail, Owned, Roles, Starts, Answers, scopeVars, taskVars,
    sendVars, serviceVars
<1>17. ASSUME NEW r \in Roles, CheckPasses(r) PROVE PlaceTrail'
  BY <1>17 DEF CheckPasses, TypeOK, PlaceTrail, TaskTrail, Owned, Roles, Starts, Answers, scopeVars, taskVars,
    sendVars, serviceVars
<1>18. ASSUME NEW r \in Roles, CheckFails(r) PROVE PlaceTrail'
  BY <1>18 DEF CheckFails, Finish, TypeOK, PlaceTrail, TaskTrail, Owned, Roles, Starts, Answers, scopeVars,
    taskVars, sendVars, serviceVars
<1>19. ASSUME NEW r \in Roles, WriteRequest(r) PROVE PlaceTrail'
  BY <1>19 DEF WriteRequest, TypeOK, PlaceTrail, TaskTrail, Owned, Roles, Starts, Answers, scopeVars, taskVars,
    sendVars, serviceVars
<1>20. ASSUME NEW r \in Roles, NotWritten(r) PROVE PlaceTrail'
  BY <1>20 DEF NotWritten, Finish, TypeOK, PlaceTrail, TaskTrail, Owned, Roles, Starts, Answers, scopeVars,
    taskVars, sendVars, serviceVars
<1>21. ASSUME NEW r \in Roles, Lose(r) PROVE PlaceTrail'
  BY <1>21 DEF Lose, Finish, TypeOK, PlaceTrail, TaskTrail, Owned, Roles, Starts, Answers, scopeVars, taskVars,
    sendVars, serviceVars
<1>22. ASSUME NEW r \in Roles, Handle(r) PROVE PlaceTrail'
  BY <1>22 DEF Handle, Finish, Indicates, TypeOK, PlaceTrail, TaskTrail, Owned, Roles, Starts, Answers, scopeVars,
    taskVars, sendVars, serviceVars
<1>23. CASE Abort \/ ChangeMatrix
  BY <1>23 DEF Abort, ChangeMatrix, TypeOK, PlaceTrail, TaskTrail, Owned, Roles, Starts, Answers, scopeVars,
    taskVars, sendVars, serviceVars
<1>24. CASE ReplyInstead
  BY <1>24 DEF ReplyInstead, Returned, Calling, TypeOK, PlaceTrail, TaskTrail, Owned, Roles,
    Starts, Answers, scopeVars, taskVars, sendVars, serviceVars
<1>25. ASSUME NEW r \in Answers, CancelAnswer(r) PROVE PlaceTrail'
  BY <1>25 DEF CancelAnswer, Finish, TypeOK, PlaceTrail, TaskTrail, Owned, Roles, Starts,
    Answers, scopeVars, taskVars, sendVars, serviceVars
<1> QED
  BY <1>1, <1>2, <1>3, <1>4, <1>5, <1>6, <1>7, <1>8, <1>9, <1>10, <1>11, <1>12, <1>13, <1>14,
    <1>15, <1>16, <1>17, <1>18, <1>19, <1>20, <1>21, <1>22, <1>23, <1>24, <1>25 DEF Next, Progress, Interrupt,
    SendProgress

(* The heartbeat and the stop.                                             *)
LEMMA TaskKept ==
  ASSUME TypeOK, PlaceTrail, TaskTrail, Next
  PROVE  TaskTrail'
<1>1. CASE Ask
  BY <1>1 DEF Ask, GoTo, Calling, Enter, Leave, TypeOK, PlaceTrail, TaskTrail, Owned, Roles, Starts, Answers,
    scopeVars, taskVars, sendVars, serviceVars
<1>2. CASE StartAccepted
  BY <1>2 DEF StartAccepted, Returned, GoTo, TypeOK, PlaceTrail, TaskTrail, Owned, Roles, Starts, Answers,
    scopeVars, taskVars, sendVars, serviceVars
<1>3. CASE StartUncertain
  BY <1>3 DEF StartUncertain, Returned, GoTo, Calling, TypeOK, PlaceTrail, TaskTrail, Owned, Roles, Starts, Answers,
    scopeVars, taskVars, sendVars, serviceVars
<1>4. CASE CancelStart
  BY <1>4 DEF CancelStart, TypeOK, PlaceTrail, TaskTrail, Owned, Roles, Starts, Answers, scopeVars, taskVars,
    sendVars, serviceVars
<1>5. CASE BodyEnds
  BY <1>5 DEF BodyEnds, Unwind, Owned, TypeOK, PlaceTrail, TaskTrail, Roles, Starts, Answers, scopeVars, taskVars,
    sendVars, serviceVars
<1>6. CASE BodyCut
  BY <1>6 DEF BodyCut, Unwind, Owned, TypeOK, PlaceTrail, TaskTrail, Roles, Starts, Answers, scopeVars, taskVars,
    sendVars, serviceVars
<1>7. CASE Renew
  BY <1>7 DEF Renew, Calling, TypeOK, PlaceTrail, TaskTrail, Owned, Roles, Starts, Answers, scopeVars, taskVars,
    sendVars, serviceVars
<1>8. CASE Renewed
  BY <1>8 DEF Renewed, TypeOK, PlaceTrail, TaskTrail, Owned, Roles, Starts, Answers, scopeVars, taskVars, sendVars,
    serviceVars
<1>9. CASE Join
  BY <1>9 DEF Join, TypeOK, PlaceTrail, TaskTrail, Owned, Roles, Starts, Answers, scopeVars, taskVars, sendVars,
    serviceVars
<1>10. CASE Stopped
  BY <1>10 DEF Stopped, TypeOK, PlaceTrail, TaskTrail, Owned, Roles, Starts, Answers, scopeVars, taskVars, sendVars,
    serviceVars
<1>11. CASE Reply
  BY <1>11 DEF Reply, Calling, TypeOK, PlaceTrail, TaskTrail, Owned, Roles, Starts, Answers, scopeVars, taskVars,
    sendVars, serviceVars
<1>12. ASSUME NEW r \in Roles, CheckPasses(r) PROVE TaskTrail'
  BY <1>12 DEF CheckPasses, TypeOK, PlaceTrail, TaskTrail, Owned, Roles, Starts, Answers, scopeVars, taskVars,
    sendVars, serviceVars
<1>13. ASSUME NEW r \in Roles, CheckFails(r) PROVE TaskTrail'
  BY <1>13 DEF CheckFails, Finish, TypeOK, PlaceTrail, TaskTrail, Owned, Roles, Starts, Answers, scopeVars,
    taskVars, sendVars, serviceVars
<1>14. ASSUME NEW r \in Roles, WriteRequest(r) PROVE TaskTrail'
  BY <1>14 DEF WriteRequest, TypeOK, PlaceTrail, TaskTrail, Owned, Roles, Starts, Answers, scopeVars, taskVars,
    sendVars, serviceVars
<1>15. ASSUME NEW r \in Roles, NotWritten(r) PROVE TaskTrail'
  BY <1>15 DEF NotWritten, Finish, TypeOK, PlaceTrail, TaskTrail, Owned, Roles, Starts, Answers, scopeVars,
    taskVars, sendVars, serviceVars
<1>16. ASSUME NEW r \in Roles, Lose(r) PROVE TaskTrail'
  BY <1>16 DEF Lose, Finish, TypeOK, PlaceTrail, TaskTrail, Owned, Roles, Starts, Answers, scopeVars, taskVars,
    sendVars, serviceVars
<1>17. ASSUME NEW r \in Roles, Handle(r) PROVE TaskTrail'
  BY <1>17 DEF Handle, Finish, Indicates, TypeOK, PlaceTrail, TaskTrail, Owned, Roles, Starts, Answers, scopeVars,
    taskVars, sendVars, serviceVars
<1>18. CASE CancelAsk \/ StartRefused \/ AfterUncertain \/ CleanedUp \/ Escape \/ Abort \/ ChangeMatrix
  BY <1>18 DEF CancelAsk, Leave, StartRefused, Returned, Enter, GoTo, AfterUncertain, CleanedUp,
    Escape, Abort, ChangeMatrix, TypeOK, PlaceTrail, TaskTrail, Owned, Roles, Starts, Answers, scopeVars, taskVars,
    sendVars, serviceVars
<1>19. CASE ReplyInstead
  BY <1>19 DEF ReplyInstead, Returned, Calling, TypeOK, PlaceTrail, TaskTrail, Owned, Roles,
    Starts, Answers, scopeVars, taskVars, sendVars, serviceVars
<1>20. ASSUME NEW r \in Answers, CancelAnswer(r) PROVE TaskTrail'
  BY <1>20 DEF CancelAnswer, Finish, TypeOK, PlaceTrail, TaskTrail, Owned, Roles, Starts,
    Answers, scopeVars, taskVars, sendVars, serviceVars
<1> QED
  BY <1>1, <1>2, <1>3, <1>4, <1>5, <1>6, <1>7, <1>8, <1>9, <1>10, <1>11, <1>12, <1>13, <1>14,
    <1>15, <1>16, <1>17, <1>18, <1>19, <1>20 DEF Next, Progress, Interrupt, SendProgress

(* Why the indicator may be on.                                            *)
LEMMA LightKept ==
  ASSUME TypeOK, SendTrail, PlaceTrail, TaskTrail, LightTrail, Next
  PROVE  LightTrail'
<1>1. CASE Ask
  BY <1>1 DEF Ask, GoTo, Calling, Enter, Leave, TypeOK, SendTrail, PlaceTrail, TaskTrail,
    LightTrail, Owned, Roles, Starts, Answers, scopeVars, taskVars, sendVars, serviceVars
<1>2. CASE CancelAsk
  BY <1>2 DEF CancelAsk, Leave, TypeOK, SendTrail, PlaceTrail, TaskTrail, LightTrail, Owned, Roles, Starts, Answers,
    scopeVars, taskVars, sendVars, serviceVars
<1>3. CASE StartAccepted
  BY <1>3 DEF StartAccepted, Returned, GoTo, TypeOK, SendTrail, PlaceTrail, TaskTrail, LightTrail,
    Owned, Roles, Starts, Answers, scopeVars, taskVars, sendVars, serviceVars
<1>4. CASE StartRefused
  BY <1>4 DEF StartRefused, Returned, Enter, Leave, GoTo, TypeOK, SendTrail, PlaceTrail, TaskTrail,
    LightTrail, Owned, Roles, Starts, Answers, scopeVars, taskVars, sendVars, serviceVars
<1>5. CASE StartUncertain
  BY <1>5 DEF StartUncertain, Returned, GoTo, Calling, TypeOK, SendTrail, PlaceTrail, TaskTrail,
    LightTrail, Owned, Roles, Starts, Answers, scopeVars, taskVars, sendVars, serviceVars
<1>6. CASE CancelStart
  BY <1>6 DEF CancelStart, TypeOK, SendTrail, PlaceTrail, TaskTrail, LightTrail, Owned, Roles, Starts, Answers,
    scopeVars, taskVars, sendVars, serviceVars
<1>7. CASE AfterUncertain
  BY <1>7 DEF AfterUncertain, Leave, Enter, GoTo, TypeOK, SendTrail, PlaceTrail, TaskTrail,
    LightTrail, Owned, Roles, Starts, Answers, scopeVars, taskVars, sendVars, serviceVars
<1>8. CASE BodyEnds
  BY <1>8 DEF BodyEnds, Unwind, Owned, TypeOK, SendTrail, PlaceTrail, TaskTrail, LightTrail, Roles, Starts, Answers,
    scopeVars, taskVars, sendVars, serviceVars
<1>9. CASE BodyCut
  BY <1>9 DEF BodyCut, Unwind, Owned, TypeOK, SendTrail, PlaceTrail, TaskTrail, LightTrail, Roles, Starts, Answers,
    scopeVars, taskVars, sendVars, serviceVars
<1>10. CASE CleanedUp
  BY <1>10 DEF CleanedUp, GoTo, TypeOK, SendTrail, PlaceTrail, TaskTrail, LightTrail, Owned, Roles, Starts, Answers,
    scopeVars, taskVars, sendVars, serviceVars
<1>11. CASE Escape
  BY <1>11 DEF Escape, TypeOK, SendTrail, PlaceTrail, TaskTrail, LightTrail, Owned, Roles, Starts, Answers,
    scopeVars, taskVars, sendVars, serviceVars
<1>12. CASE Renew
  BY <1>12 DEF Renew, Calling, TypeOK, SendTrail, PlaceTrail, TaskTrail, LightTrail, Owned, Roles, Starts, Answers,
    scopeVars, taskVars, sendVars, serviceVars
<1>13. CASE Renewed
  BY <1>13 DEF Renewed, TypeOK, SendTrail, PlaceTrail, TaskTrail, LightTrail, Owned, Roles, Starts, Answers,
    scopeVars, taskVars, sendVars, serviceVars
<1>14. CASE Join
  BY <1>14 DEF Join, TypeOK, SendTrail, PlaceTrail, TaskTrail, LightTrail, Owned, Roles, Starts, Answers,
    scopeVars, taskVars, sendVars, serviceVars
<1>15. CASE Stopped
  BY <1>15 DEF Stopped, TypeOK, SendTrail, PlaceTrail, TaskTrail, LightTrail, Owned, Roles, Starts, Answers,
    scopeVars, taskVars, sendVars, serviceVars
<1>16. CASE Reply
  BY <1>16 DEF Reply, Calling, TypeOK, SendTrail, PlaceTrail, TaskTrail, LightTrail, Owned, Roles, Starts, Answers,
    scopeVars, taskVars, sendVars, serviceVars
<1>17. ASSUME NEW r \in Roles, CheckPasses(r) PROVE LightTrail'
  BY <1>17 DEF CheckPasses, TypeOK, SendTrail, PlaceTrail, TaskTrail, LightTrail, Owned, Roles, Starts, Answers,
    scopeVars, taskVars, sendVars, serviceVars
<1>18. ASSUME NEW r \in Roles, CheckFails(r) PROVE LightTrail'
  BY <1>18 DEF CheckFails, Finish, TypeOK, SendTrail, PlaceTrail, TaskTrail, LightTrail, Owned,
    Roles, Starts, Answers, scopeVars, taskVars, sendVars, serviceVars
<1>19. ASSUME NEW r \in Roles, WriteRequest(r) PROVE LightTrail'
  BY <1>19 DEF WriteRequest, TypeOK, SendTrail, PlaceTrail, TaskTrail, LightTrail, Owned, Roles, Starts, Answers,
    scopeVars, taskVars, sendVars, serviceVars
<1>20. ASSUME NEW r \in Roles, NotWritten(r) PROVE LightTrail'
  BY <1>20 DEF NotWritten, Finish, TypeOK, SendTrail, PlaceTrail, TaskTrail, LightTrail, Owned,
    Roles, Starts, Answers, scopeVars, taskVars, sendVars, serviceVars
<1>21. ASSUME NEW r \in Roles, Lose(r) PROVE LightTrail'
  BY <1>21 DEF Lose, Finish, TypeOK, SendTrail, PlaceTrail, TaskTrail, LightTrail, Owned, Roles, Starts, Answers,
    scopeVars, taskVars, sendVars, serviceVars
<1>22. ASSUME NEW r \in Roles, Handle(r) PROVE LightTrail'
  <2>1. /\ pc' = pc /\ heartbeat' = heartbeat /\ stopper' = stopper
        /\ r \in requests /\ late' = IF phase[r] = "await" THEN late ELSE late \cup {r}
    BY <1>22 DEF Handle, scopeVars, taskVars
  <2>2. PICK e \in {"accepted", "refused", "failed"}, done \in BOOLEAN :
          /\ (e = "accepted" => done) /\ (e = "refused" => ~done)
          /\ IF phase[r] = "await" THEN Finish(r, e) ELSE UNCHANGED sendVars
          /\ typing' = IF done THEN Indicates(r) ELSE typing
    BY <1>22 DEF Handle
  <2>3. CASE phase[r] # "await"
    BY <2>1, <2>2, <2>3 DEF TypeOK, SendTrail, LightTrail, Owned, Indicates, Roles, Starts, Answers, sendVars
  <2>4. CASE phase[r] = "await" /\ r \in Starts
    BY <2>1, <2>2, <2>4 DEF Finish, TypeOK, PlaceTrail, TaskTrail, LightTrail, Owned, Roles, Starts, Answers
  <2>5. CASE phase[r] = "await" /\ r = "stop"
    BY <2>1, <2>2, <2>5 DEF Finish, Indicates, TypeOK, PlaceTrail, TaskTrail, LightTrail, Owned, Roles, Starts,
      Answers
  <2>6. CASE phase[r] = "await" /\ r \in Answers
    BY <2>1, <2>2, <2>6 DEF Finish, Indicates, TypeOK, LightTrail, Owned, Roles, Starts, Answers
  <2>7. QED
    BY <2>3, <2>4, <2>5, <2>6 DEF Roles
<1>23. CASE Abort \/ ChangeMatrix
  BY <1>23 DEF Abort, ChangeMatrix, TypeOK, SendTrail, PlaceTrail, TaskTrail, LightTrail, Owned,
    Roles, Starts, Answers, scopeVars, taskVars, sendVars, serviceVars
<1>24. CASE ReplyInstead
  BY <1>24 DEF ReplyInstead, Returned, Calling, TypeOK, SendTrail, PlaceTrail, TaskTrail,
    LightTrail, Owned, Roles, Starts, Answers, scopeVars, taskVars, sendVars, serviceVars
<1>25. ASSUME NEW r \in Answers, CancelAnswer(r) PROVE LightTrail'
  BY <1>25 DEF CancelAnswer, Finish, TypeOK, SendTrail, PlaceTrail, TaskTrail, LightTrail,
    Owned, Roles, Starts, Answers, scopeVars, taskVars, sendVars, serviceVars
<1> QED
  BY <1>1, <1>2, <1>3, <1>4, <1>5, <1>6, <1>7, <1>8, <1>9, <1>10, <1>11, <1>12, <1>13, <1>14,
    <1>15, <1>16, <1>17, <1>18, <1>19, <1>20, <1>21, <1>22, <1>23, <1>24, <1>25 DEF Next, Progress, Interrupt,
    SendProgress

(* How the scope ends.                                                     *)
LEMMA ExitKept ==
  ASSUME TypeOK, PlaceTrail, ExitTrail, Next
  PROVE  ExitTrail'
<1>1. CASE Ask
  BY <1>1 DEF Ask, GoTo, Calling, Enter, Leave, TypeOK, PlaceTrail, ExitTrail, Cancelled, Owned,
    scopeVars, taskVars, sendVars, serviceVars
<1>2. CASE CancelAsk
  BY <1>2 DEF CancelAsk, Leave, TypeOK, PlaceTrail, ExitTrail, Cancelled, Owned, scopeVars,
    taskVars, sendVars, serviceVars
<1>3. CASE StartAccepted
  BY <1>3 DEF StartAccepted, Returned, GoTo, TypeOK, PlaceTrail, ExitTrail, Cancelled, Owned,
    scopeVars, taskVars, sendVars, serviceVars
<1>4. CASE StartRefused
  BY <1>4 DEF StartRefused, Returned, Enter, Leave, GoTo, TypeOK, PlaceTrail, ExitTrail, Cancelled,
    Owned, scopeVars, taskVars, sendVars, serviceVars
<1>5. CASE StartUncertain
  BY <1>5 DEF StartUncertain, Returned, GoTo, Calling, TypeOK, PlaceTrail, ExitTrail, Cancelled,
    Owned, scopeVars, taskVars, sendVars, serviceVars
<1>6. CASE CancelStart
  BY <1>6 DEF CancelStart, TypeOK, PlaceTrail, ExitTrail, Cancelled, Owned, scopeVars, taskVars,
    sendVars, serviceVars
<1>7. CASE AfterUncertain
  BY <1>7 DEF AfterUncertain, Leave, Enter, GoTo, TypeOK, PlaceTrail, ExitTrail, Cancelled, Owned,
    scopeVars, taskVars, sendVars, serviceVars
<1>8. CASE BodyEnds
  BY <1>8 DEF BodyEnds, Unwind, Owned, TypeOK, PlaceTrail, ExitTrail, Cancelled, scopeVars,
    taskVars, sendVars, serviceVars
<1>9. CASE BodyCut
  BY <1>9 DEF BodyCut, Unwind, Owned, TypeOK, PlaceTrail, ExitTrail, Cancelled, scopeVars,
    taskVars, sendVars, serviceVars
<1>10. CASE CleanedUp
  BY <1>10 DEF CleanedUp, GoTo, TypeOK, PlaceTrail, ExitTrail, Cancelled, Owned, scopeVars,
    taskVars, sendVars, serviceVars
<1>11. CASE Escape
  BY <1>11 DEF Escape, TypeOK, PlaceTrail, ExitTrail, Cancelled, Owned, scopeVars, taskVars,
    sendVars, serviceVars
<1>12. CASE Abort
  BY <1>12 DEF Abort, TypeOK, PlaceTrail, ExitTrail, Cancelled, Owned, scopeVars, taskVars,
    sendVars, serviceVars
<1>13. CASE Renew \/ Renewed \/ Join \/ Stopped \/ Reply \/ ChangeMatrix \/ (\E r \in Roles : CheckPasses(r)) \/ (\E r \in Roles : CheckFails(r)) \/ (\E r \in Roles : WriteRequest(r)) \/ (\E r \in Roles : NotWritten(r)) \/ (\E r \in Roles : Lose(r)) \/ (\E r \in Roles : Handle(r))
  BY <1>13 DEF Renew, Calling, Renewed, Join, Stopped, Reply, ChangeMatrix, CheckPasses,
    CheckFails, Finish, WriteRequest, NotWritten, Lose, Handle, Indicates, TypeOK, PlaceTrail,
    ExitTrail, Cancelled, Owned, scopeVars, taskVars, sendVars, serviceVars
<1>14. CASE ReplyInstead
  BY <1>14 DEF ReplyInstead, Returned, Calling, TypeOK, PlaceTrail, ExitTrail, Cancelled, Owned,
    Roles, Starts, Answers, scopeVars, taskVars, sendVars, serviceVars
<1>15. ASSUME NEW r \in Answers, CancelAnswer(r) PROVE ExitTrail'
  BY <1>15 DEF CancelAnswer, Finish, TypeOK, PlaceTrail, ExitTrail, Cancelled, Owned, Roles,
    Starts, Answers, scopeVars, taskVars, sendVars, serviceVars
<1> QED
  BY <1>1, <1>2, <1>3, <1>4, <1>5, <1>6, <1>7, <1>8, <1>9, <1>10, <1>11, <1>12, <1>13, <1>14, <1>15 DEF Next,
    Progress, Interrupt, SendProgress

(* An answer that its sender was told is not sent never was.               *)
LEMMA AnswersKept ==
  ASSUME TypeOK, AnswerTrail, Next
  PROVE  AnswerTrail'
<1>1. CASE Ask
  BY <1>1 DEF Ask, GoTo, Calling, Enter, Leave, TypeOK, AnswerTrail, Roles, Starts, Answers,
    scopeVars, taskVars, sendVars, serviceVars
<1>2. CASE StartUncertain
  BY <1>2 DEF StartUncertain, Returned, GoTo, Calling, TypeOK, AnswerTrail, Roles, Starts,
    Answers, scopeVars, taskVars, sendVars, serviceVars
<1>3. CASE CancelStart
  BY <1>3 DEF CancelStart, TypeOK, AnswerTrail, Roles, Starts, Answers, scopeVars, taskVars,
    sendVars, serviceVars
<1>4. CASE Renew
  BY <1>4 DEF Renew, Calling, TypeOK, AnswerTrail, Roles, Starts, Answers, scopeVars, taskVars,
    sendVars, serviceVars
<1>5. CASE Join
  BY <1>5 DEF Join, TypeOK, AnswerTrail, Roles, Starts, Answers, scopeVars, taskVars, sendVars,
    serviceVars
<1>6. CASE Reply
  BY <1>6, TypingAssumption DEF Reply, Calling, TypeOK, AnswerTrail, Roles, Starts, Answers, scopeVars, taskVars,
    sendVars, serviceVars
<1>7. CASE ReplyInstead
  BY <1>7 DEF ReplyInstead, Returned, Calling, TypeOK, AnswerTrail, Roles, Starts, Answers,
    scopeVars, taskVars, sendVars, serviceVars
<1>8. ASSUME NEW r \in Roles, CheckPasses(r) PROVE AnswerTrail'
  BY <1>8 DEF CheckPasses, TypeOK, AnswerTrail, Roles, Starts, Answers, scopeVars, taskVars,
    sendVars, serviceVars
<1>9. ASSUME NEW r \in Roles, CheckFails(r) PROVE AnswerTrail'
  BY <1>9 DEF CheckFails, Finish, TypeOK, AnswerTrail, Roles, Starts, Answers, scopeVars,
    taskVars, sendVars, serviceVars
<1>10. ASSUME NEW r \in Roles, WriteRequest(r) PROVE AnswerTrail'
  BY <1>10 DEF WriteRequest, TypeOK, AnswerTrail, Roles, Starts, Answers, scopeVars, taskVars,
    sendVars, serviceVars
<1>11. ASSUME NEW r \in Roles, NotWritten(r) PROVE AnswerTrail'
  BY <1>11 DEF NotWritten, Finish, TypeOK, AnswerTrail, Roles, Starts, Answers, scopeVars,
    taskVars, sendVars, serviceVars
<1>12. ASSUME NEW r \in Roles, Lose(r) PROVE AnswerTrail'
  BY <1>12 DEF Lose, Finish, TypeOK, AnswerTrail, Roles, Starts, Answers, scopeVars, taskVars,
    sendVars, serviceVars
<1>13. ASSUME NEW r \in Roles, Handle(r) PROVE AnswerTrail'
  BY <1>13 DEF Handle, Finish, TypeOK, AnswerTrail, Roles, Starts, Answers, scopeVars, taskVars,
    sendVars, serviceVars
<1>14. ASSUME NEW r \in Answers, CancelAnswer(r) PROVE AnswerTrail'
  BY <1>14 DEF CancelAnswer, Finish, TypeOK, AnswerTrail, Roles, Starts, Answers, scopeVars,
    taskVars, sendVars, serviceVars
<1>15. CASE CancelAsk \/ StartAccepted \/ StartRefused \/ AfterUncertain \/ BodyEnds \/ BodyCut \/ CleanedUp
           \/ Escape \/ Abort \/ Renewed \/ Stopped \/ ChangeMatrix
  BY <1>15 DEF CancelAsk, Leave, StartAccepted, Returned, GoTo, StartRefused, Enter,
    AfterUncertain, BodyEnds, Unwind, Owned, BodyCut, CleanedUp, Escape, Abort, Renewed,
    Stopped, ChangeMatrix, TypeOK, AnswerTrail, Roles, Starts, Answers, scopeVars, taskVars,
    sendVars, serviceVars
<1> QED
  BY <1>1, <1>2, <1>3, <1>4, <1>5, <1>6, <1>7, <1>8, <1>9, <1>10, <1>11, <1>12, <1>13, <1>14,
    <1>15 DEF Next, Progress, Interrupt, SendProgress

-----------------------------------------------------------------------------
IInv == TypeOK /\ ScopeTrail

(* IInv is an invariant.                                                   *)
LEMMA Inductive == Spec => []IInv
<1>1. Init => IInv
  BY TypeInit, TrailInit DEF IInv
<1>2. IInv /\ [Next]_vars => IInv'
  <2>1. CASE Next /\ IInv
    BY <2>1, TypeNext, SendKept, PlaceKept, TaskKept, LightKept, ExitKept, AnswersKept DEF IInv, ScopeTrail
  <2>2. CASE UNCHANGED vars /\ IInv
    BY <2>2 DEF IInv, TypeOK, ScopeTrail, SendTrail, PlaceTrail, TaskTrail, LightTrail, ExitTrail, AnswerTrail,
      Abandoned, Owned, Cancelled, vars, scopeVars, taskVars, sendVars, serviceVars
  <2>3. QED
    BY <2>1, <2>2
<1>3. QED
  BY <1>1, <1>2, PTL DEF Spec

(* Every variable keeps its type.                                          *)
THEOREM TypingTypes == Spec => []TypeOK
<1>1. IInv => TypeOK
  BY DEF IInv
<1>2. QED
  BY <1>1, Inductive, PTL

(* Typing is over when the scope is (_typing.py:50-59, typing.ts:56-65): a *)
(* light that is still on has a stop that failed, or a start of the client *)
(* that it had given up and that was handled late.                         *)
THEOREM ScopeIsQuiet == Spec => []ScopeEndsQuiet
<1>1. IInv => ScopeEndsQuiet
  BY DEF IInv, ScopeTrail, SendTrail, PlaceTrail, TaskTrail, LightTrail, ScopeEndsQuiet, Outlived, Abandoned,
    Owned, Starts
<1>2. QED
  BY <1>1, Inductive, PTL

(* No send of typing changes how a scope ends (errors.py:194-199).         *)
THEOREM TypingAdvises == Spec => []TypingIsAdvisory
<1>1. IInv => TypingIsAdvisory
  BY DEF IInv, ScopeTrail, ExitTrail, Cancelled, TypingIsAdvisory
<1>2. QED
  BY <1>1, Inductive, PTL

(* A reply is said once, by itself or by the text sent instead of it       *)
(* (docs/sdk-python.md:165-175 and 193; client.py:249).                    *)
THEOREM RepliesAreSaidOnce == Spec => []SaidOnce
<1>1. IInv => SaidOnce
  <2> SUFFICES ASSUME SendTrail, AnswerTrail PROVE SaidOnce
    BY DEF IInv, ScopeTrail
  <2>1. ASSUME NEW r \in Answers, result[r] \in {"unsupported", "refused"}, r \in requests \cup dispatched
        PROVE  FALSE
    <3>1. result[r] = "none" \/ result[r] \in {"failed", "cancelled", "accepted"}
      BY <2>1 DEF SendTrail, AnswerTrail, Answers, Roles
    <3>2. QED
      BY <2>1, <3>1
  <2>2. QED
    BY <2>1 DEF SaidOnce, SendTrail, AnswerTrail, Answers, Roles
<1>2. QED
  BY <1>1, Inductive, PTL
=============================================================================
