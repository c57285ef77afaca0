------------------------------- MODULE EventLog -------------------------------
(***************************************************************************)
(* What the outbox promises: an event, once recorded, is sent at least     *)
(* once and only then closed; a closed event stays closed.  Copies sent    *)
(* beyond the first are allowed, and are counted up to two.                *)
(***************************************************************************)
EXTENDS Naturals

CONSTANTS Events, Deliverable

VARIABLES
  status,  (* absent, pending or published                                 *)
  copies   (* copies sent: 0, 1, or 2 for more                             *)

logVars == <<status, copies>>

Init ==
  /\ status = [e \in Events |-> "absent"]
  /\ copies = [e \in Events |-> 0]

RecordEvent(e) ==
  /\ status[e] = "absent"
  /\ status' = [status EXCEPT ![e] = "pending"]
  /\ UNCHANGED copies

Send(e) ==
  /\ e \in Deliverable
  /\ status[e] # "absent"
  /\ copies' = [copies EXCEPT ![e] = IF @ < 2 THEN @ + 1 ELSE 2]
  /\ UNCHANGED status

Close(e) ==
  /\ status[e] = "pending"
  /\ copies[e] > 0
  /\ status' = [status EXCEPT ![e] = "published"]
  /\ UNCHANGED copies

Next == \E e \in Events : RecordEvent(e) \/ Send(e) \/ Close(e)

Spec == Init /\ [][Next]_logVars
==============================================================================
