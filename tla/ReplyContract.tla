---------------------------- MODULE ReplyContract ---------------------------
(***************************************************************************)
(* What an adapter promises about each incoming message, without processes,*)
(* connections or retries: one reply is committed, its parts are sent in   *)
(* order and never twice, each only after the one before it was confirmed; *)
(* the message is finished once every part was, and acknowledged after.    *)
(***************************************************************************)
EXTENDS Naturals

CONSTANTS Messages, Replies, None

VARIABLES
  reply,         \* the committed reply: the set of its parts, or None
  sent,          \* how often each part was sent
  confirmed,     \* parts the service confirmed
  finished, acknowledged

vars == <<reply, sent, confirmed, finished, acknowledged>>

Parts == UNION Replies

Init ==
  /\ reply = [m \in Messages |-> None]
  /\ sent = [p \in Messages \X Parts |-> 0]
  /\ confirmed = {}
  /\ finished = {}
  /\ acknowledged = {}

Commit(m) ==
  /\ reply[m] = None
  /\ \E r \in Replies : reply' = [reply EXCEPT ![m] = r]
  /\ UNCHANGED <<sent, confirmed, finished, acknowledged>>

SendPart(m, p) ==
  /\ reply[m] # None /\ p \in reply[m] /\ sent[<<m, p>>] = 0
  /\ \A q \in reply[m] : q < p => <<m, q>> \in confirmed
  /\ sent' = [sent EXCEPT ![<<m, p>>] = 1]
  /\ confirmed' \in {confirmed, confirmed \cup {<<m, p>>}}
  /\ UNCHANGED <<reply, finished, acknowledged>>

Finish(m) ==
  /\ reply[m] # None /\ \A p \in reply[m] : <<m, p>> \in confirmed
  /\ finished' = finished \cup {m}
  /\ UNCHANGED <<reply, sent, confirmed, acknowledged>>

Acknowledge(m) ==
  /\ m \in finished
  /\ acknowledged' = acknowledged \cup {m}
  /\ UNCHANGED <<reply, sent, confirmed, finished>>

Next ==
  \E m \in Messages :
    Commit(m) \/ Finish(m) \/ Acknowledge(m) \/ \E p \in Parts : SendPart(m, p)

Spec == Init /\ [][Next]_vars
=============================================================================
