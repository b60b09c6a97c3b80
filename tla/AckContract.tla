----------------------------- MODULE AckContract -----------------------------
(***************************************************************************)
(* What a client's ack() promises, without connections, futures or tasks.  *)
(* A call names a row its client has been given.  The service records the  *)
(* ack of a row at most once, for a call that named it; a call succeeds    *)
(* only after its own ack was recorded.  A failed call promises nothing:   *)
(* its ack may have been recorded and the answer lost, or be recorded yet. *)
(***************************************************************************)
CONSTANTS Calls, Rows, None

VARIABLES delivered, named, recorded, status

vars == <<delivered, named, recorded, status>>

Init ==
  /\ delivered = {}
  /\ named = [k \in Calls |-> None]
  /\ recorded = {}
  /\ status = [k \in Calls |-> "idle"]

Hand(r) ==
  /\ delivered' = delivered \cup {r}
  /\ UNCHANGED <<named, recorded, status>>

Request(k) ==
  \E r \in delivered :
    /\ status[k] = "idle"
    /\ named' = [named EXCEPT ![k] = r]
    /\ status' = [status EXCEPT ![k] = "running"]
    /\ UNCHANGED <<delivered, recorded>>

Record(k) ==
  /\ status[k] \in {"running", "failed"} /\ k \notin recorded
  /\ \A j \in recorded : named[j] # named[k]
  /\ recorded' = recorded \cup {k}
  /\ UNCHANGED <<delivered, named, status>>

Succeed(k) ==
  /\ status[k] = "running" /\ k \in recorded
  /\ status' = [status EXCEPT ![k] = "acked"]
  /\ UNCHANGED <<delivered, named, recorded>>

Fail(k) ==
  /\ status[k] = "running"
  /\ status' = [status EXCEPT ![k] = "failed"]
  /\ UNCHANGED <<delivered, named, recorded>>

Next ==
  \/ \E r \in Rows : Hand(r)
  \/ \E k \in Calls : Request(k) \/ Record(k) \/ Succeed(k) \/ Fail(k)

Spec == Init /\ [][Next]_vars
=============================================================================
