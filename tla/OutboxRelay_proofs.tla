-------------------------- MODULE OutboxRelay_proofs --------------------------
(***************************************************************************)
(* Proofs about OutboxRelay, for every set of events and workers, every    *)
(* lease, delay and fault bound.                                           *)
(***************************************************************************)
EXTENDS OutboxRelay, TLAPS

(* retryAt's delay is an integer whatever the attempts: it is capped.      *)
LEMMA RetryDelayType ==
  ASSUME NEW a \in Attempts PROVE RetryDelay(a) \in Int
<1>1. Least(a, ExponentCap) \in Nat
  BY OutboxAssumption DEF Least, Attempts
<1>2. 2^Least(a, ExponentCap) \in Int
  BY <1>1
<1>3. RetryBase * 2^Least(a, ExponentCap) \in Int
  BY <1>2, OutboxAssumption
<1> QED
  BY <1>3, OutboxAssumption DEF RetryDelay, Least

-----------------------------------------------------------------------------
(* The record a worker is on is one of those it claimed.                   *)
CurIsClaimed ==
  \A w \in Workers :
     pc[w] \in {"confirming", "markPublished", "markFailed"} => cur[w] \in batch[w]

(* Only recorded events are ever claimed.                                  *)
ClaimedIsRecorded ==
  \A w \in Workers : \A r \in batch[w] : outbox[r.event].status # "absent"

(* A lock is on a pending row, so that the guard locked_by = worker of     *)
(* markPublished and markFailed keeps them off published rows.             *)
LockedIsPending ==
  \A e \in Events : outbox[e].lockedBy # NoWorker => outbox[e].status = "pending"

(* A worker about to mark an event published saw it accepted.              *)
ConfirmedWasAccepted ==
  \A w \in Workers : pc[w] = "markPublished" => accepted[cur[w].event] > 0

Inv ==
  /\ TypeOK
  /\ CurIsClaimed
  /\ ClaimedIsRecorded
  /\ LockedIsPending
  /\ ConfirmedWasAccepted
  /\ PublishedWasAccepted

(* Facts the record updates need; SMT does not combine them by itself.     *)
LEMMA Values ==
  /\ 0 \in Int
  /\ "pending" \in {"absent", "pending", "published"}
  /\ "published" \in {"absent", "pending", "published"}
  OBVIOUS

LEMMA ClipType == \A t \in Int : Clip(t) \in Int
  BY OutboxAssumption DEF Clip

LEMMA BumpType == \A n \in Attempts : Bump(n, ExponentCap) \in Attempts
  BY OutboxAssumption DEF Bump, Attempts

LEMMA InitInv == Init => Inv
  BY OutboxAssumption DEF Init, Inv, TypeOK, Row, Attempts, CurIsClaimed,
     ClaimedIsRecorded, LockedIsPending, ConfirmedWasAccepted, PublishedWasAccepted

(* Sending a copy only adds to what was accepted.                          *)
LEMMA RoutedFacts ==
  ASSUME TypeOK, NEW e \in Events, Routed(e)
  PROVE  /\ accepted' \in [Events -> 0..2]
         /\ accepted'[e] > 0
         /\ \A f \in Events : accepted[f] > 0 => accepted'[f] > 0
  BY DEF Routed, Bump, TypeOK

LEMMA SentFacts ==
  ASSUME Inv, NEW w \in Workers, SentOrNot(w)
  PROVE  /\ accepted' \in [Events -> 0..2]
         /\ \A f \in Events : accepted[f] > 0 => accepted'[f] > 0
<1>1. CASE UNCHANGED accepted
  BY <1>1 DEF Inv, TypeOK
<1>2. CASE pc[w] = "confirming" /\ Routed(cur[w].event)
  <2>1. cur[w].event \in Events
    BY <1>2 DEF Inv, TypeOK, CurIsClaimed, Record
  <2> QED
    BY <1>2, <2>1, RoutedFacts DEF Inv
<1> QED
  BY <1>1, <1>2 DEF SentOrNot

(* What the two guarded updates may do to the table.                       *)
LEMMA SetPublishedFacts ==
  ASSUME Inv, NEW w \in Workers, NEW e \in Events, SetPublished(w, e)
  PROVE  /\ outbox' \in [Events -> Row]
         /\ \A f \in Events : \/ outbox'[f] = outbox[f]
                              \/ /\ f = e
                                 /\ outbox[f].status = "pending"
                                 /\ outbox'[f].status = "published"
                                 /\ outbox'[f].lockedBy = NoWorker
<1> DEFINE R == [outbox[e] EXCEPT !.status = "published", !.availableAt = 0,
                                  !.lockedBy = NoWorker, !.lockedUntil = 0]
<1>1. outbox[e] \in Row /\ outbox \in [Events -> Row]
  BY DEF Inv, TypeOK
<1>2. CASE outbox[e].lockedBy = w
  <2>1. R \in Row /\ R.status = "published" /\ R.lockedBy = NoWorker
    <3>1. R \in Row
      BY ZenonT(40), <1>1, Values DEF Row
    <3>2. R.status = "published" /\ R.lockedBy = NoWorker
      BY <1>1 DEF Row
    <3> QED
      BY <3>1, <3>2
  <2>2. outbox[e].status = "pending"
    BY <1>2, OutboxAssumption DEF Inv, LockedIsPending
  <2>3. outbox' = [outbox EXCEPT ![e] = R]
    BY <1>2 DEF SetPublished
  <2> HIDE DEF R
  <2> QED
    BY <1>1, <2>1, <2>2, <2>3
<1>3. CASE outbox[e].lockedBy # w
  BY <1>1, <1>3 DEF SetPublished
<1> QED
  BY <1>2, <1>3

(* A failed record keeps its status: only its schedule and lock change.    *)
LEMMA SetFailedFacts ==
  ASSUME Inv, NEW w \in Workers, NEW r \in Record, SetFailed(w, r)
  PROVE  /\ outbox' \in [Events -> Row]
         /\ \A f \in Events : \/ outbox'[f] = outbox[f]
                              \/ /\ f = r.event
                                 /\ outbox[f].lockedBy # NoWorker
                                 /\ outbox'[f].status = outbox[f].status
                                 /\ outbox'[f].lockedBy = NoWorker
<1> DEFINE e == r.event
           R == [outbox[e] EXCEPT
                   !.availableAt = Clip(now[w] + RetryDelay(r.attempts)),
                   !.attempts = Bump(outbox[e].attempts, ExponentCap),
                   !.lockedBy = NoWorker, !.lockedUntil = 0]
<1>1. e \in Events /\ outbox[e] \in Row /\ outbox \in [Events -> Row]
  BY DEF Inv, TypeOK, Record
<1>2. CASE outbox[e].lockedBy = w
  <2>1. Clip(now[w] + RetryDelay(r.attempts)) \in Int
    <3>1. now[w] \in Int /\ RetryDelay(r.attempts) \in Int
      BY RetryDelayType DEF Inv, TypeOK, Record
    <3> QED
      BY <3>1, ClipType
  <2>2. Bump(outbox[e].attempts, ExponentCap) \in Attempts
    <3>1. outbox[e].attempts \in Attempts
      BY <1>1 DEF Row
    <3> QED
      BY <3>1, BumpType
  <2>3. R \in Row /\ R.status = outbox[e].status /\ R.lockedBy = NoWorker
    <3>1. R \in Row
      BY ZenonT(40), <1>1, <2>1, <2>2, Values DEF Row
    <3>2. R.status = outbox[e].status /\ R.lockedBy = NoWorker
      BY <1>1 DEF Row
    <3> QED
      BY <3>1, <3>2
  <2>4. outbox' = [outbox EXCEPT ![e] = R]
    BY <1>2 DEF SetFailed
  <2> HIDE DEF R
  <2> QED
    BY <1>1, <1>2, <2>3, <2>4, OutboxAssumption
<1>3. CASE outbox[e].lockedBy # w
  BY <1>1, <1>3 DEF SetFailed
<1> QED
  BY <1>2, <1>3

(* A claim changes locks only, and only those of pending rows.             *)
LEMMA LeaseFacts ==
  ASSUME Inv, NEW w \in Workers, NEW claimed \in SUBSET Claimable(w), Lease(w, claimed)
  PROVE  /\ outbox' \in [Events -> Row]
         /\ \A e \in Events : /\ outbox'[e].status = outbox[e].status
                              /\ \/ outbox'[e] = outbox[e]
                                 \/ outbox[e].status = "pending"
<1>1. \A e \in Events : outbox[e] \in Row
  BY DEF Inv, TypeOK
<1>2. now[w] + LeaseTicks \in Int
  BY OutboxAssumption DEF Inv, TypeOK
<1>3. outbox' = [e \in Events |->
        IF e \in claimed
        THEN [outbox[e] EXCEPT !.lockedBy = w, !.lockedUntil = now[w] + LeaseTicks]
        ELSE outbox[e]]
  BY DEF Lease
<1>4. \A e \in claimed : outbox[e].status = "pending"
  BY DEF Claimable
<1>5. outbox' \in [Events -> Row]
  BY <1>1, <1>2, <1>3 DEF Row
<1>6. \A e \in Events : /\ outbox'[e].status = outbox[e].status
                        /\ e \notin claimed => outbox'[e] = outbox[e]
  BY <1>1, <1>3 DEF Row
<1> QED
  BY <1>4, <1>5, <1>6

-----------------------------------------------------------------------------
LEMMA StepInv == Inv /\ [Next]_vars => Inv'
<1> SUFFICES ASSUME Inv, [Next]_vars PROVE Inv'
  OBVIOUS
<1> USE DEF Inv, CurIsClaimed, ClaimedIsRecorded, LockedIsPending,
            ConfirmedWasAccepted, PublishedWasAccepted
<1>1. CASE UNCHANGED vars
  BY <1>1 DEF vars, TypeOK
<1>2. ASSUME NEW e \in Events, Enqueue(e) PROVE Inv'
  <2> DEFINE R == [outbox[e] EXCEPT !.status = "pending", !.availableAt = 0]
  <2>1. outbox[e] \in Row /\ outbox \in [Events -> Row]
    BY DEF TypeOK
  <2>2. R \in Row /\ R.status = "pending"
    <3>1. R \in Row
      BY Zenon, <2>1, Values DEF Row
    <3>2. R.status = "pending"
      BY <2>1 DEF Row
    <3> QED
      BY <3>1, <3>2
  <2>3. outbox' = [outbox EXCEPT ![e] = R]
    BY <1>2, <2>1 DEF Enqueue, Row
  <2> HIDE DEF R
  <2>4. outbox' \in [Events -> Row]
    BY <2>1, <2>2, <2>3
  <2>5. \A f \in Events : outbox'[f] = outbox[f] \/ outbox'[f].status = "pending"
    BY <2>1, <2>2, <2>3
  <2>6. UNCHANGED <<pc, now, batch, cur, channel, accepted, faults>>
    BY <1>2 DEF Enqueue
  <2> QED
    BY <2>4, <2>5, <2>6 DEF TypeOK, Record
<1>3. ASSUME NEW w \in Workers, BeginBatch(w) PROVE Inv'
  BY <1>3 DEF BeginBatch, TypeOK
<1>4. ASSUME NEW w \in Workers, Publish(w) PROVE Inv'
  BY <1>4 DEF Publish, TypeOK
<1>5. ASSUME NEW w \in Workers, Confirm(w) PROVE Inv'
  <2>1. cur[w].event \in Events
    BY <1>5 DEF Confirm, TypeOK, Record
  <2>2. Routed(cur[w].event)
    BY <1>5 DEF Confirm
  <2> QED
    BY <1>5, <2>1, <2>2, RoutedFacts DEF Confirm, TypeOK, Record
<1>6. ASSUME NEW w \in Workers, Return(w) PROVE Inv'
  BY <1>6 DEF Return, TypeOK
<1>7. ASSUME NEW w \in Workers, Nack(w) PROVE Inv'
  BY <1>7, OutboxAssumption DEF Nack, Fault, TypeOK
<1>8. ASSUME NEW w \in Workers, ChannelError(w) PROVE Inv'
  <2>1. /\ accepted' \in [Events -> 0..2]
        /\ \A f \in Events : accepted[f] > 0 => accepted'[f] > 0
    BY <1>8, SentFacts DEF ChannelError
  <2> QED
    BY <1>8, <2>1, OutboxAssumption DEF ChannelError, Fault, TypeOK, Record
<1>9. ASSUME NEW w \in Workers, ClaimPending(w) PROVE Inv'
  <2>1. PICK claimed \in SUBSET Claimable(w) :
          /\ Lease(w, claimed)
          /\ Advance(w, {[event |-> e, attempts |-> outbox[e].attempts] : e \in claimed})
    BY <1>9 DEF ClaimPending
  <2> DEFINE rest == {[event |-> e, attempts |-> outbox[e].attempts] : e \in claimed}
  <2>2. \A e \in claimed : e \in Events /\ outbox[e].status = "pending"
    BY DEF Claimable
  <2>3. \A e \in Events : outbox[e] \in Row
    BY DEF TypeOK
  <2>4. /\ outbox' \in [Events -> Row]
        /\ \A e \in Events : /\ outbox'[e].status = outbox[e].status
                             /\ outbox'[e] = outbox[e] \/ outbox[e].status = "pending"
    BY <2>1, LeaseFacts
  <2>5. rest \in SUBSET Record /\ \A r \in rest : outbox[r.event].status = "pending"
    BY <2>2, <2>3 DEF Record, Row
  <2>6. /\ batch' = [batch EXCEPT ![w] = rest]
        /\ cur' = [cur EXCEPT ![w] = NoRecord]
        /\ pc' = [pc EXCEPT ![w] = IF rest = {} THEN "idle" ELSE "publish"]
    BY <2>1 DEF Advance
  <2>7. UNCHANGED <<now, channel, accepted, faults>>
    BY <1>9 DEF ClaimPending
  <2> HIDE DEF rest
  <2>8. TypeOK'
    BY <2>4, <2>5, <2>6, <2>7 DEF TypeOK
  <2>9. CurIsClaimed' /\ ConfirmedWasAccepted'
    BY <2>6, <2>7 DEF TypeOK
  <2>10. ClaimedIsRecorded'
    <3> SUFFICES ASSUME NEW v \in Workers, NEW r \in batch'[v]
                 PROVE  outbox'[r.event].status # "absent"
      OBVIOUS
    <3>1. r \in Record
      BY <2>8 DEF TypeOK
    <3>2. outbox[r.event].status # "absent"
      BY <2>5, <2>6 DEF TypeOK
    <3> QED
      BY <3>1, <3>2, <2>4 DEF Record
  <2>11. LockedIsPending' /\ PublishedWasAccepted'
    BY <2>4, <2>7
  <2> QED
    BY <2>8, <2>9, <2>10, <2>11
<1>9a. ASSUME NEW w \in Workers, ClaimPendingError(w) PROVE Inv'
  <2>1. /\ outbox' \in [Events -> Row]
        /\ \A e \in Events : /\ outbox'[e].status = outbox[e].status
                             /\ outbox'[e] = outbox[e] \/ outbox[e].status = "pending"
    BY <1>9a, LeaseFacts DEF ClaimPendingError, TypeOK
  <2> QED
    BY <1>9a, <2>1, OutboxAssumption DEF ClaimPendingError, Advance, Fault, TypeOK, Record
<1>10. ASSUME NEW w \in Workers, MarkPublished(w) PROVE Inv'
  <2>1. cur[w] \in Record /\ cur[w].event \in Events /\ accepted[cur[w].event] > 0
    BY <1>10 DEF MarkPublished, TypeOK, Record
  <2>2. /\ outbox' \in [Events -> Row]
        /\ \A f \in Events : \/ outbox'[f] = outbox[f]
                             \/ /\ f = cur[w].event
                                /\ outbox[f].status = "pending"
                                /\ outbox'[f].status = "published"
                                /\ outbox'[f].lockedBy = NoWorker
    BY <1>10, <2>1, SetPublishedFacts DEF MarkPublished
  <2> QED
    BY <1>10, <2>1, <2>2 DEF MarkPublished, Advance, TypeOK, Record
<1>11. ASSUME NEW w \in Workers, MarkPublishedError(w) PROVE Inv'
  <2>1. cur[w] \in Record /\ cur[w].event \in Events /\ accepted[cur[w].event] > 0
    BY <1>11 DEF MarkPublishedError, TypeOK, Record
  <2>2. /\ outbox' \in [Events -> Row]
        /\ \A f \in Events : \/ outbox'[f] = outbox[f]
                             \/ /\ f = cur[w].event
                                /\ outbox[f].status = "pending"
                                /\ outbox'[f].status = "published"
                                /\ outbox'[f].lockedBy = NoWorker
    BY <1>11, <2>1, SetPublishedFacts DEF MarkPublishedError, TypeOK
  <2> QED
    BY <1>11, <2>1, <2>2, OutboxAssumption DEF MarkPublishedError, Fault, TypeOK, Record
<1>12. ASSUME NEW w \in Workers, MarkFailed(w) PROVE Inv'
  <2>1. cur[w] \in Record
    BY <1>12 DEF MarkFailed, TypeOK
  <2>2. /\ outbox' \in [Events -> Row]
        /\ \A f \in Events : \/ outbox'[f] = outbox[f]
                             \/ /\ f = cur[w].event
                                /\ outbox[f].lockedBy # NoWorker
                                /\ outbox'[f].status = outbox[f].status
                                /\ outbox'[f].lockedBy = NoWorker
    BY <1>12, <2>1, SetFailedFacts DEF MarkFailed
  <2> QED
    BY <1>12, <2>1, <2>2 DEF MarkFailed, Advance, TypeOK, Record
<1>13. ASSUME NEW w \in Workers, MarkFailedError(w) PROVE Inv'
  <2>1. cur[w] \in Record
    BY <1>13 DEF MarkFailedError, TypeOK
  <2>2. /\ outbox' \in [Events -> Row]
        /\ \A f \in Events : \/ outbox'[f] = outbox[f]
                             \/ /\ f = cur[w].event
                                /\ outbox[f].lockedBy # NoWorker
                                /\ outbox'[f].status = outbox[f].status
                                /\ outbox'[f].lockedBy = NoWorker
    BY <1>13, <2>1, SetFailedFacts DEF MarkFailedError, TypeOK
  <2> QED
    BY <1>13, <2>1, <2>2, OutboxAssumption
       DEF MarkFailedError, Advance, Fault, TypeOK, Record
<1>14. ASSUME NEW w \in Workers, Crash(w) PROVE Inv'
  <2>1. /\ accepted' \in [Events -> 0..2]
        /\ \A f \in Events : accepted[f] > 0 => accepted'[f] > 0
    BY <1>14, SentFacts DEF Crash
  <2> QED
    BY <1>14, <2>1, OutboxAssumption DEF Crash, Fault, TypeOK, Record
<1>15. ASSUME NEW w \in Workers, Restart(w) PROVE Inv'
  BY <1>15 DEF Restart, TypeOK
<1>16. CASE Tick
  <2>1. \A e \in Events : outbox[e] \in Row
    BY DEF TypeOK
  <2> DEFINE R(e) == [outbox[e] EXCEPT
                        !.availableAt = Clip(@ - 1),
                        !.lockedUntil =
                          IF outbox[e].lockedBy # NoWorker THEN Clip(@ - 1) ELSE 0]
  <2>2. \A e \in Events : /\ R(e) \in Row
                          /\ R(e).status = outbox[e].status
                          /\ R(e).lockedBy = outbox[e].lockedBy
    <3> SUFFICES ASSUME NEW e \in Events
                 PROVE  /\ R(e) \in Row
                        /\ R(e).status = outbox[e].status
                        /\ R(e).lockedBy = outbox[e].lockedBy
      OBVIOUS
    <3>1. outbox[e].availableAt - 1 \in Int /\ outbox[e].lockedUntil - 1 \in Int
      BY <2>1 DEF Row
    <3>2. /\ Clip(outbox[e].availableAt - 1) \in Int
          /\ Clip(outbox[e].lockedUntil - 1) \in Int
      BY <3>1, ClipType
    <3>3. (IF outbox[e].lockedBy # NoWorker THEN Clip(outbox[e].lockedUntil - 1) ELSE 0) \in Int
      BY <3>2
    <3>4. R(e) \in Row
      BY ZenonT(40), <2>1, <3>2, <3>3 DEF Row
    <3>5. R(e).status = outbox[e].status /\ R(e).lockedBy = outbox[e].lockedBy
      BY <2>1 DEF Row
    <3> QED
      BY <3>4, <3>5
  <2>3. outbox' = [e \in Events |-> IF outbox[e].status # "pending" THEN outbox[e] ELSE R(e)]
    BY <1>16 DEF Tick
  <2> HIDE DEF R
  <2>4. /\ outbox' \in [Events -> Row]
        /\ \A e \in Events : /\ outbox'[e].status = outbox[e].status
                             /\ outbox'[e].lockedBy = outbox[e].lockedBy
    BY <2>1, <2>2, <2>3
  <2>5. now' \in [Workers -> Int]
    <3>1. \A w \in Workers : now[w] - 1 \in Int
      BY DEF TypeOK
    <3>2. \A w \in Workers : Clip(now[w] - 1) \in Int
      BY <3>1, ClipType
    <3> QED
      BY <1>16, <3>2, Values DEF Tick
  <2>6. faults' \in 0..MaxFaults
    <3>1. (faults < MaxFaults /\ faults' = faults + 1) \/ faults' = faults
      BY <1>16 DEF Tick, Fault
    <3> QED
      BY <3>1, OutboxAssumption DEF TypeOK
  <2>7. UNCHANGED <<pc, batch, cur, channel, accepted>>
    BY <1>16 DEF Tick
  <2> QED
    BY <2>4, <2>5, <2>6, <2>7 DEF TypeOK, Record
<1> QED
  BY <1>1, <1>2, <1>3, <1>4, <1>5, <1>6, <1>7, <1>8, <1>9, <1>10, <1>11, <1>12,
     <1>13, <1>14, <1>15, <1>16, <1>9a DEF Next, Step, Disturbance

THEOREM Invariance == Spec => []Inv
  BY InitInv, StepInv, PTL DEF Spec

(* Every reachable state has the declared types, with rows, leases and     *)
(* instants of any size.                                                   *)
THEOREM TypeCorrect == Spec => []TypeOK
<1>1. Inv => TypeOK
  BY DEF Inv
<1> QED
  BY <1>1, Invariance, PTL

(* No event is marked published that the broker did not accept.            *)
THEOREM PublishedOnlyAfterAcceptance == Spec => []PublishedWasAccepted
<1>1. Inv => PublishedWasAccepted
  BY DEF Inv
<1> QED
  BY <1>1, Invariance, PTL

-----------------------------------------------------------------------------
(* Steps that leave every status alone, and at most send one copy of a     *)
(* recorded event, are steps of the log.                                   *)
SameStatus == \A e \in Events : outbox'[e].status = outbox[e].status

LEMMA StutterStep ==
  ASSUME SameStatus, UNCHANGED accepted PROVE UNCHANGED Log!logVars
  BY DEF SameStatus, Log!logVars

LEMMA SendStep ==
  ASSUME SameStatus, NEW e \in Routable, outbox[e].status # "absent", Routed(e)
  PROVE  Log!Send(e)
<1>1. e \in Events
  BY OutboxAssumption
<1> QED
  BY <1>1 DEF SameStatus, Routed, Bump, Log!Send

LEMMA CloseStep ==
  ASSUME Inv, NEW w \in Workers, pc[w] = "markPublished",
         SetPublished(w, cur[w].event), UNCHANGED accepted
  PROVE  [Log!Next]_(Log!logVars)
<1>1. PICK sent \in Events : sent = cur[w].event /\ accepted[sent] > 0
  BY DEF Inv, TypeOK, CurIsClaimed, ConfirmedWasAccepted, Record
<1>2. \A f \in Events : \/ outbox'[f] = outbox[f]
                        \/ /\ f = sent
                           /\ outbox[f].status = "pending"
                           /\ outbox'[f].status = "published"
  BY <1>1, SetPublishedFacts
<1>3. CASE outbox'[sent] = outbox[sent]
  BY <1>2, <1>3, StutterStep DEF SameStatus
<1>4. CASE outbox[sent].status = "pending" /\ outbox'[sent].status = "published"
  <2>1. [f \in Events |-> outbox'[f].status]
          = [[f \in Events |-> outbox[f].status] EXCEPT ![sent] = "published"]
    BY <1>2, <1>4
  <2>2. Log!Close(sent)
    <3>1. [f \in Events |-> outbox[f].status][sent] = "pending"
      BY <1>4
    <3> QED
      BY <1>1, <3>1, <2>1 DEF Log!Close
  <2>3. Log!Next
    BY <2>2 DEF Log!Next
  <2> QED
    BY <2>3
<1> QED
  BY <1>2, <1>3, <1>4

LEMMA SentStep ==
  ASSUME Inv, NEW w \in Workers, UNCHANGED outbox, SentOrNot(w)
  PROVE  [Log!Next]_(Log!logVars)
<1>1. SameStatus
  BY DEF SameStatus
<1>2. CASE UNCHANGED accepted
  BY <1>1, <1>2, StutterStep
<1>3. CASE /\ pc[w] = "confirming" /\ cur[w].event \in Routable
           /\ Routed(cur[w].event)
  <2>1. outbox[cur[w].event].status # "absent"
    BY <1>3 DEF Inv, CurIsClaimed, ClaimedIsRecorded
  <2>2. Log!Send(cur[w].event)
    BY <1>1, <1>3, <2>1, SendStep
  <2> QED
    BY <1>3, <2>2, OutboxAssumption DEF Log!Next
<1> QED
  BY <1>2, <1>3 DEF SentOrNot

Final == \A e \in Events : outbox[e].status = "published" => outbox'[e] = outbox[e]

(* Every step of the relay is a step of the log, and leaves published rows *)
(* as they are.                                                            *)
LEMMA StepSimulation ==
  ASSUME Inv, [Next]_vars
  PROVE  [Log!Next]_(Log!logVars) /\ Final
<1>0. outbox \in [Events -> Row] /\ \A w \in Workers : cur[w] \in Record \cup {NoRecord}
  BY DEF Inv, TypeOK
<1>1. CASE UNCHANGED vars
  BY <1>1, StutterStep DEF vars, SameStatus, Final
<1>2. ASSUME NEW e \in Events, Enqueue(e)
      PROVE  [Log!Next]_(Log!logVars) /\ Final
  <2>1. [f \in Events |-> outbox'[f].status]
          = [[f \in Events |-> outbox[f].status] EXCEPT ![e] = "pending"]
    BY <1>0, <1>2 DEF Enqueue, Row
  <2>2. Log!RecordEvent(e)
    BY <1>2, <2>1 DEF Enqueue, Log!RecordEvent
  <2>3. Final
    BY <1>0, <1>2 DEF Enqueue, Final
  <2> QED
    BY <2>2, <2>3 DEF Log!Next
<1>3. ASSUME NEW w \in Workers, UNCHANGED <<outbox, accepted>>
      PROVE  [Log!Next]_(Log!logVars) /\ Final
  BY <1>3, StutterStep DEF SameStatus, Final
<1>4. ASSUME NEW w \in Workers, Confirm(w)
      PROVE  [Log!Next]_(Log!logVars) /\ Final
  <2>1. SentOrNot(w) /\ UNCHANGED outbox
    BY <1>4 DEF Confirm, SentOrNot
  <2> QED
    BY <2>1, SentStep DEF Final
<1>5. ASSUME NEW w \in Workers, ChannelError(w) \/ Crash(w)
      PROVE  [Log!Next]_(Log!logVars) /\ Final
  <2>1. SentOrNot(w) /\ UNCHANGED outbox
    BY <1>5 DEF ChannelError, Crash
  <2> QED
    BY <2>1, SentStep DEF Final
<1>6. ASSUME NEW w \in Workers, ClaimPending(w) \/ ClaimPendingError(w)
      PROVE  [Log!Next]_(Log!logVars) /\ Final
  <2>1. \/ UNCHANGED outbox
        \/ \E claimed \in SUBSET Claimable(w) : Lease(w, claimed)
    BY <1>6 DEF ClaimPending, ClaimPendingError
  <2>2. SameStatus /\ Final
    BY <2>1, LeaseFacts DEF SameStatus, Final
  <2>3. UNCHANGED accepted
    BY <1>6 DEF ClaimPending, ClaimPendingError
  <2> QED
    BY <2>2, <2>3, StutterStep
<1>7. ASSUME NEW w \in Workers, MarkPublished(w) \/ MarkPublishedError(w)
      PROVE  [Log!Next]_(Log!logVars) /\ Final
  <2>1. /\ pc[w] = "markPublished" /\ UNCHANGED accepted
        /\ SetPublished(w, cur[w].event) \/ UNCHANGED outbox
    BY <1>7 DEF MarkPublished, MarkPublishedError
  <2>2. CASE UNCHANGED outbox
    BY <2>1, <2>2, StutterStep DEF SameStatus, Final
  <2>3. CASE SetPublished(w, cur[w].event)
    <3>1. cur[w].event \in Events
      BY <2>1 DEF Inv, TypeOK, CurIsClaimed, Record
    <3>2. Final
      BY <2>3, <3>1, SetPublishedFacts DEF Final
    <3> QED
      BY <2>1, <2>3, <3>2, CloseStep
  <2> QED
    BY <2>1, <2>2, <2>3
<1>8. ASSUME NEW w \in Workers, MarkFailed(w) \/ MarkFailedError(w)
      PROVE  [Log!Next]_(Log!logVars) /\ Final
  <2>1. /\ pc[w] = "markFailed" /\ UNCHANGED accepted
        /\ SetFailed(w, cur[w]) \/ UNCHANGED outbox
    BY <1>8 DEF MarkFailed, MarkFailedError
  <2>2. CASE UNCHANGED outbox
    BY <2>1, <2>2, StutterStep DEF SameStatus, Final
  <2>3. CASE SetFailed(w, cur[w])
    <3>1. cur[w] \in Record
      BY <2>1 DEF Inv, TypeOK, CurIsClaimed
    <3>2. \A f \in Events : \/ outbox'[f] = outbox[f]
                            \/ /\ outbox[f].lockedBy # NoWorker
                               /\ outbox'[f].status = outbox[f].status
      BY <2>3, <3>1, SetFailedFacts
    <3>3. SameStatus /\ Final
      BY <3>2 DEF SameStatus, Final, Inv, LockedIsPending
    <3> QED
      BY <2>1, <3>3, StutterStep
  <2> QED
    BY <2>1, <2>2, <2>3
<1>9. CASE Tick
  <2>1. SameStatus /\ Final
    BY <1>0, <1>9 DEF Tick, SameStatus, Final, Row
  <2>2. UNCHANGED accepted
    BY <1>9 DEF Tick
  <2> QED
    BY <2>1, <2>2, StutterStep
<1>10. ASSUME NEW w \in Workers,
              BeginBatch(w) \/ Publish(w) \/ Return(w) \/ Nack(w) \/ Restart(w)
       PROVE  UNCHANGED <<outbox, accepted>>
  BY <1>10 DEF BeginBatch, Publish, Return, Nack, Restart
<1> QED
  BY <1>1, <1>2, <1>3, <1>4, <1>5, <1>6, <1>7, <1>8, <1>9, <1>10
     DEF Next, Step, Disturbance

(* A published row is never written again.                                 *)
THEOREM PublishedStaysPublished == Spec => PublishedIsFinal
<1>1. Inv /\ [Next]_vars =>
        [\A e \in Events : outbox[e].status = "published" => outbox'[e] = outbox[e]]_outbox
  BY StepSimulation DEF Final
<1> QED
  BY <1>1, Invariance, PTL DEF Spec, PublishedIsFinal

(* The relay implements the log of events sent at least once.              *)
THEOREM Refinement == Spec => ImplementsEventLog
<1>1. Init => Log!Init
  BY DEF Init, Log!Init
<1>2. Inv /\ [Next]_vars => [Log!Next]_(Log!logVars)
  BY StepSimulation
<1> QED
  BY <1>1, <1>2, Invariance, PTL DEF Spec, ImplementsEventLog, Log!Spec
-----------------------------------------------------------------------------
(* Without a fault and without an overrun lease, no event is sent twice,   *)
(* however many relays there are: the leases of claimPending exclude each  *)
(* other.                                                                  *)

(* Every worker is at work on an open channel, in a batch that began no    *)
(* later than now and, when it is about to claim, not too long ago for the *)
(* lease it will take.                                                     *)
InTime ==
  \A w \in Workers :
    /\ channel[w] /\ pc[w] # "down"
    /\ now[w] <= 0
    /\ pc[w] = "claim" => now[w] >= -LeaseTicks

(* A worker holds a lease on every event of its batch, in force.           *)
HoldsLeases ==
  \A w \in Workers : \A r \in batch[w] :
    /\ outbox[r.event].status = "pending"
    /\ outbox[r.event].lockedBy = w
    /\ outbox[r.event].lockedUntil >= 0

(* It has each event once, and nothing outside a batch.                    *)
OneRecordPerEvent ==
  \A w \in Workers :
    /\ \A r, q \in batch[w] : r.event = q.event => r = q
    /\ pc[w] \in {"idle", "claim"} => batch[w] = {}

(* Nobody holds a lease on an event that is not in its batch.              *)
LeasesAreHeld ==
  \A w \in Workers, e \in Events :
    outbox[e].lockedBy = w => \E r \in batch[w] : r.event = e

(* Every copy sent is accounted for: its worker is about to close the row, *)
(* or has closed it.                                                       *)
CopiesAccounted ==
  /\ \A w \in Workers : pc[w] = "markFailed" => accepted[cur[w].event] = 0
  /\ \A e \in Events :
       /\ accepted[e] <= 1
       /\ e \notin Routable => accepted[e] = 0
       /\ outbox[e].status = "absent" => accepted[e] = 0
       /\ accepted[e] = 1 /\ outbox[e].status = "pending" =>
            \E w \in Workers : pc[w] = "markPublished" /\ cur[w].event = e

Untroubled ==
  InTime /\ HoldsLeases /\ OneRecordPerEvent /\ LeasesAreHeld /\ CopiesAccounted

LeaseInv == Inv /\ (faults = 0 => Untroubled)

-----------------------------------------------------------------------------
LEMMA InitLease == Init => LeaseInv
<1> SUFFICES ASSUME Init PROVE Untroubled
  BY InitInv DEF LeaseInv
<1> QED
  BY OutboxAssumption DEF Init, Untroubled, InTime, HoldsLeases, OneRecordPerEvent,
     LeasesAreHeld, CopiesAccounted

(* Two workers never have the same event in their batches.                 *)
LEMMA BatchesDisjoint ==
  ASSUME HoldsLeases, NEW v \in Workers, NEW w \in Workers,
         NEW q \in batch[v], NEW r \in batch[w], q.event = r.event
  PROVE  v = w
  BY DEF HoldsLeases

(* What is claimed was unlocked: leases in force end no earlier than now.  *)
LEMMA ClaimedIsUnlocked ==
  ASSUME Inv, Untroubled, NEW w \in Workers, NEW e \in Claimable(w)
  PROVE  e \in Events /\ outbox[e].status = "pending" /\ outbox[e].lockedBy = NoWorker
<1>1. e \in Events /\ outbox[e].status = "pending" /\ outbox[e] \in Row /\ now[w] \in Int
  BY DEF Claimable, Inv, TypeOK
<1>2. ASSUME outbox[e].lockedBy # NoWorker PROVE FALSE
  <2>1. PICK v \in Workers : outbox[e].lockedBy = v
    BY <1>1, <1>2 DEF Row
  <2>2. outbox[e].lockedUntil >= 0
    BY <1>1, <2>1 DEF Untroubled, LeasesAreHeld, HoldsLeases
  <2>3. outbox[e].lockedUntil < now[w] /\ now[w] <= 0 /\ outbox[e].lockedUntil \in Int
    BY <1>1, <1>2 DEF Claimable, Untroubled, InTime, Row
  <2> QED
    BY <1>1, <2>2, <2>3
<1> QED
  BY <1>1, <1>2

(* The confirm that comes is the first one for its event.                  *)
LEMMA FirstCopy ==
  ASSUME Inv, Untroubled, NEW w \in Workers, pc[w] = "confirming"
  PROVE  /\ cur[w] \in batch[w] /\ cur[w] \in Record /\ cur[w].event \in Events
         /\ outbox[cur[w].event].status = "pending"
         /\ accepted[cur[w].event] = 0
         /\ \A v \in Workers \ {w} :
              pc[v] \in {"confirming", "markPublished", "markFailed"} =>
                cur[v].event # cur[w].event
<1>1. cur[w] \in batch[w] /\ cur[w] \in Record /\ cur[w].event \in Events
  BY DEF Inv, TypeOK, CurIsClaimed, Record
<1>2. outbox[cur[w].event].status = "pending"
  BY <1>1 DEF Untroubled, HoldsLeases
<1>3. \A v \in Workers \ {w} :
        pc[v] \in {"confirming", "markPublished", "markFailed"} =>
          cur[v].event # cur[w].event
  BY <1>1, BatchesDisjoint DEF Inv, CurIsClaimed, Untroubled
<1>4. accepted[cur[w].event] \in 0..2 /\ accepted[cur[w].event] <= 1
  BY <1>1 DEF Inv, TypeOK, Untroubled, CopiesAccounted
<1>5. accepted[cur[w].event] # 1
  BY <1>1, <1>2, <1>3 DEF Untroubled, CopiesAccounted
<1> QED
  BY <1>1, <1>2, <1>3, <1>4, <1>5

-----------------------------------------------------------------------------
(* The steps, one lemma for those that touch no row, then one each.        *)
LEMMA QuietStep ==
  ASSUME Inv, Untroubled, NEW w \in Workers,
         BeginBatch(w) \/ Publish(w) \/ Return(w) \/ Restart(w)
  PROVE  Untroubled'
<1> USE DEF Untroubled, InTime, HoldsLeases, OneRecordPerEvent, LeasesAreHeld, CopiesAccounted
<1>1. CASE BeginBatch(w)
  BY <1>1, OutboxAssumption DEF BeginBatch, Inv, TypeOK
<1>2. CASE Publish(w)
  BY <1>2 DEF Publish, Inv, TypeOK
<1>3. CASE Return(w)
  <2>1. cur[w].event \in Events
    BY <1>3 DEF Return, Inv, TypeOK, CurIsClaimed, Record
  <2> QED
    BY <1>3, <2>1 DEF Return, Inv, TypeOK
<1>4. CASE Restart(w)
  BY <1>4 DEF Restart
<1> QED
  BY <1>1, <1>2, <1>3, <1>4

LEMMA EnqueueStep ==
  ASSUME Inv, Untroubled, NEW e \in Events, Enqueue(e)
  PROVE  Untroubled'
<1>1. outbox[e] \in Row /\ outbox \in [Events -> Row]
  BY DEF Inv, TypeOK
<1>2. /\ outbox'[e].status = "pending"
      /\ outbox'[e].lockedBy = outbox[e].lockedBy
      /\ \A f \in Events \ {e} : outbox'[f] = outbox[f]
  BY <1>1 DEF Enqueue, Row
<1>3. outbox[e].status = "absent" /\ UNCHANGED <<pc, now, batch, cur, channel, accepted, faults>>
  BY DEF Enqueue
<1>4. InTime' /\ OneRecordPerEvent'
  BY <1>3 DEF Untroubled, InTime, OneRecordPerEvent
<1>5. \A w \in Workers : \A r \in batch[w] : r.event \in Events \ {e}
  BY <1>3 DEF Untroubled, HoldsLeases, Inv, TypeOK, Record
<1>6. HoldsLeases'
  BY <1>2, <1>3, <1>5 DEF Untroubled, HoldsLeases
<1>7. LeasesAreHeld'
  BY <1>2, <1>3 DEF Untroubled, LeasesAreHeld
<1>8. CopiesAccounted'
  BY <1>2, <1>3 DEF Untroubled, CopiesAccounted
<1> QED
  BY <1>4, <1>6, <1>7, <1>8 DEF Untroubled

LEMMA ClaimStep ==
  ASSUME Inv, Untroubled, NEW w \in Workers, ClaimPending(w)
  PROVE  Untroubled'
<1>1. PICK claimed \in SUBSET Claimable(w) :
        /\ Lease(w, claimed)
        /\ Advance(w, {[event |-> e, attempts |-> outbox[e].attempts] : e \in claimed})
  BY DEF ClaimPending
<1> DEFINE rest == {[event |-> e, attempts |-> outbox[e].attempts] : e \in claimed}
<1>2. \A e \in Events : outbox[e] \in Row
  BY DEF Inv, TypeOK
<1>3. \A e \in claimed : e \in Events /\ outbox[e].status = "pending" /\ outbox[e].lockedBy = NoWorker
  BY ClaimedIsUnlocked
<1>4. /\ pc[w] = "claim" /\ batch[w] = {} /\ now[w] \in Int
      /\ now[w] + LeaseTicks >= 0 /\ NoWorker \notin Workers
  BY OutboxAssumption DEF ClaimPending, Untroubled, InTime, OneRecordPerEvent, Inv, TypeOK
<1>5. /\ \A e \in claimed : /\ outbox'[e].status = outbox[e].status
                            /\ outbox'[e].lockedBy = w
                            /\ outbox'[e].lockedUntil = now[w] + LeaseTicks
      /\ \A e \in Events \ claimed : outbox'[e] = outbox[e]
  BY <1>1, <1>2, <1>3 DEF Lease, Row
<1>6. /\ \A r \in rest : r.event \in claimed
      /\ \A e \in claimed : \E r \in rest : r.event = e
      /\ \A r, q \in rest : r.event = q.event => r = q
  <2>1. \A r \in rest : \E e \in claimed :
          r = [event |-> e, attempts |-> outbox[e].attempts] /\ r.event = e
    OBVIOUS
  <2>2. \A e \in claimed : \E r \in rest : r.event = e
    <3> TAKE e \in claimed
    <3>1. [event |-> e, attempts |-> outbox[e].attempts].event = e
      OBVIOUS
    <3>2. [event |-> e, attempts |-> outbox[e].attempts] \in rest
      OBVIOUS
    <3> QED
      BY <3>1, <3>2
  <2> HIDE DEF rest
  <2>3. \A r, q \in rest : r.event = q.event => r = q
    BY <2>1
  <2> QED
    BY <2>1, <2>2, <2>3
<1>7. /\ batch' = [batch EXCEPT ![w] = rest]
      /\ cur' = [cur EXCEPT ![w] = NoRecord]
      /\ pc' = [pc EXCEPT ![w] = IF rest = {} THEN "idle" ELSE "publish"]
  BY <1>1 DEF Advance
<1>8. UNCHANGED <<now, channel, accepted, faults>>
  BY DEF ClaimPending
<1> HIDE DEF rest
<1>9. InTime'
  BY <1>7, <1>8 DEF Untroubled, InTime, Inv, TypeOK
<1>10. OneRecordPerEvent'
  BY <1>6, <1>7 DEF Untroubled, OneRecordPerEvent, Inv, TypeOK
<1>11. \A v \in Workers \ {w} : \A r \in batch[v] : r.event \in Events \ claimed
  BY <1>3, <1>4 DEF Untroubled, HoldsLeases, Inv, TypeOK, Record
<1>12. HoldsLeases'
  <2> SUFFICES ASSUME NEW v \in Workers, NEW r \in batch'[v]
               PROVE  /\ outbox'[r.event].status = "pending"
                      /\ outbox'[r.event].lockedBy = v
                      /\ outbox'[r.event].lockedUntil >= 0
    BY DEF HoldsLeases
  <2>1. CASE v = w
    BY <2>1, <1>3, <1>4, <1>5, <1>6, <1>7 DEF Inv, TypeOK
  <2>2. CASE v # w
    BY <2>2, <1>5, <1>7, <1>11 DEF Untroubled, HoldsLeases, Inv, TypeOK
  <2> QED
    BY <2>1, <2>2
<1>13. LeasesAreHeld'
  <2> SUFFICES ASSUME NEW v \in Workers, NEW e \in Events, outbox'[e].lockedBy = v
               PROVE  \E r \in batch'[v] : r.event = e
    BY DEF LeasesAreHeld
  <2>1. CASE e \in claimed
    BY <2>1, <1>5, <1>6, <1>7 DEF Inv, TypeOK
  <2>2. CASE e \notin claimed
    <3>1. \E r \in batch[v] : r.event = e
      BY <2>2, <1>5 DEF Untroubled, LeasesAreHeld
    <3> QED
      BY <3>1, <1>4, <1>7 DEF Inv, TypeOK
  <2> QED
    BY <2>1, <2>2
<1>14. \A e \in Events : outbox'[e].status = outbox[e].status
  BY <1>5
<1>15. \A v \in Workers : pc'[v] \in {"markPublished", "markFailed"} =>
         pc'[v] = pc[v] /\ cur'[v] = cur[v]
  BY <1>7 DEF Inv, TypeOK
<1>16. \A v \in Workers : pc[v] = "markPublished" => pc'[v] = pc[v] /\ cur'[v] = cur[v]
  BY <1>4, <1>7 DEF Inv, TypeOK
<1>17. CopiesAccounted'
  BY <1>8, <1>14, <1>15, <1>16 DEF Untroubled, CopiesAccounted
<1> QED
  BY <1>9, <1>10, <1>12, <1>13, <1>17 DEF Untroubled

LEMMA ConfirmStep ==
  ASSUME Inv, Untroubled, NEW w \in Workers, Confirm(w)
  PROVE  Untroubled'
<1>1. PICK e \in Events :
        /\ e = cur[w].event /\ outbox[e].status = "pending" /\ accepted[e] = 0
        /\ \A v \in Workers \ {w} :
             pc[v] \in {"confirming", "markPublished", "markFailed"} => cur[v].event # e
  BY FirstCopy DEF Confirm
<1>2. /\ e \in Routable /\ accepted' = [accepted EXCEPT ![e] = 1]
      /\ pc' = [pc EXCEPT ![w] = "markPublished"]
      /\ UNCHANGED <<outbox, now, batch, cur, channel, faults>>
  BY <1>1 DEF Confirm, Routed, Bump
<1>3. InTime' /\ HoldsLeases' /\ OneRecordPerEvent' /\ LeasesAreHeld'
  BY <1>2 DEF Untroubled, InTime, HoldsLeases, OneRecordPerEvent, LeasesAreHeld, Inv, TypeOK
<1>4. CopiesAccounted'
  <2>1. ASSUME NEW v \in Workers, pc'[v] = "markFailed" PROVE accepted'[cur'[v].event] = 0
    <3>1. v # w /\ pc[v] = "markFailed"
      BY <1>2, <2>1 DEF Inv, TypeOK
    <3>2. cur[v].event # e /\ cur[v].event \in Events
      BY <1>1, <3>1 DEF Inv, TypeOK, CurIsClaimed, Record
    <3> QED
      BY <1>2, <3>1, <3>2 DEF Untroubled, CopiesAccounted, Inv, TypeOK
  <2>2. ASSUME NEW f \in Events
        PROVE  /\ accepted'[f] <= 1
               /\ f \notin Routable => accepted'[f] = 0
               /\ outbox'[f].status = "absent" => accepted'[f] = 0
               /\ accepted'[f] = 1 /\ outbox'[f].status = "pending" =>
                    \E v \in Workers : pc'[v] = "markPublished" /\ cur'[v].event = f
    <3>1. CASE f = e
      BY <1>1, <1>2, <3>1 DEF Inv, TypeOK
    <3>2. CASE f # e
      BY <1>2, <3>2 DEF Untroubled, CopiesAccounted, Inv, TypeOK
    <3> QED
      BY <3>1, <3>2
  <2> QED
    BY <2>1, <2>2 DEF CopiesAccounted
<1> QED
  BY <1>3, <1>4 DEF Untroubled

(* A worker is done with its record: the row leaves its lease.             *)
LEMMA ReleaseStep ==
  ASSUME Inv, Untroubled, NEW w \in Workers, NEW e \in Events,
         pc[w] \in {"markPublished", "markFailed"}, e = cur[w].event,
         Advance(w, batch[w] \ {cur[w]}),
         outbox'[e].lockedBy = NoWorker,
         \A f \in Events \ {e} : outbox'[f] = outbox[f],
         UNCHANGED <<now, channel, accepted, faults>>
  PROVE  /\ InTime' /\ HoldsLeases' /\ OneRecordPerEvent' /\ LeasesAreHeld'
         /\ \A v \in Workers : pc'[v] \in {"markPublished", "markFailed"} =>
              v # w /\ pc'[v] = pc[v] /\ cur'[v] = cur[v]
         /\ \A v \in Workers \ {w} : pc'[v] = pc[v] /\ cur'[v] = cur[v]
<1>1. cur[w] \in batch[w] /\ cur[w] \in Record
  BY DEF Inv, TypeOK, CurIsClaimed
<1>2. /\ batch' = [batch EXCEPT ![w] = batch[w] \ {cur[w]}]
      /\ cur' = [cur EXCEPT ![w] = NoRecord]
      /\ pc' = [pc EXCEPT ![w] = IF batch[w] \ {cur[w]} = {} THEN "idle" ELSE "publish"]
  BY DEF Advance
<1>3. \A v \in Workers : \A r \in batch'[v] : r \in batch[v] /\ r.event \in Events \ {e}
  <2> SUFFICES ASSUME NEW v \in Workers, NEW r \in batch'[v]
               PROVE  r \in batch[v] /\ r.event \in Events /\ r.event # e
    OBVIOUS
  <2>1. r \in batch[v] /\ r.event \in Events
    BY <1>2 DEF Inv, TypeOK, Record
  <2>2. CASE v = w
    BY <1>1, <1>2, <2>1, <2>2 DEF Untroubled, OneRecordPerEvent, Inv, TypeOK
  <2>3. CASE v # w
    BY <1>1, <2>1, <2>3, BatchesDisjoint DEF Untroubled
  <2> QED
    BY <2>1, <2>2, <2>3
<1>4. InTime'
  BY <1>2 DEF Untroubled, InTime, Inv, TypeOK
<1>5. HoldsLeases'
  BY <1>3 DEF Untroubled, HoldsLeases
<1>6. OneRecordPerEvent'
  <2>1. \A v \in Workers : \A r, q \in batch'[v] : r.event = q.event => r = q
    BY <1>3 DEF Untroubled, OneRecordPerEvent
  <2>2. \A v \in Workers : pc'[v] \in {"idle", "claim"} => batch'[v] = {}
    BY <1>2 DEF Untroubled, OneRecordPerEvent, Inv, TypeOK
  <2> QED
    BY <2>1, <2>2 DEF OneRecordPerEvent
<1>7. LeasesAreHeld'
  <2> SUFFICES ASSUME NEW v \in Workers, NEW f \in Events, outbox'[f].lockedBy = v
               PROVE  \E r \in batch'[v] : r.event = f
    BY DEF LeasesAreHeld
  <2>1. f # e /\ outbox[f].lockedBy = v
    BY OutboxAssumption
  <2>2. PICK r \in batch[v] : r.event = f
    BY <2>1 DEF Untroubled, LeasesAreHeld
  <2>3. r # cur[w]
    BY <2>1, <2>2
  <2> QED
    BY <1>2, <2>2, <2>3 DEF Inv, TypeOK
<1>8. /\ \A v \in Workers : pc'[v] \in {"markPublished", "markFailed"} =>
              v # w /\ pc'[v] = pc[v] /\ cur'[v] = cur[v]
      /\ \A v \in Workers \ {w} : pc'[v] = pc[v] /\ cur'[v] = cur[v]
  BY <1>2 DEF Inv, TypeOK
<1> QED
  BY <1>4, <1>5, <1>6, <1>7, <1>8

LEMMA MarkPublishedStep ==
  ASSUME Inv, Untroubled, NEW w \in Workers, MarkPublished(w)
  PROVE  Untroubled'
<1>1. PICK e \in Events : e = cur[w].event /\ outbox[e].lockedBy = w
  BY DEF MarkPublished, Inv, TypeOK, CurIsClaimed, Record, Untroubled, HoldsLeases
<1>2. outbox[e] \in Row /\ outbox \in [Events -> Row]
  BY DEF Inv, TypeOK
<1>3. /\ outbox'[e].lockedBy = NoWorker /\ outbox'[e].status = "published"
      /\ \A f \in Events \ {e} : outbox'[f] = outbox[f]
  BY <1>1, <1>2 DEF MarkPublished, SetPublished, Row
<1>4. /\ pc[w] = "markPublished" /\ Advance(w, batch[w] \ {cur[w]})
      /\ UNCHANGED <<now, channel, accepted, faults>>
  BY DEF MarkPublished
<1>5. /\ InTime' /\ HoldsLeases' /\ OneRecordPerEvent' /\ LeasesAreHeld'
      /\ \A v \in Workers : pc'[v] \in {"markPublished", "markFailed"} =>
              v # w /\ pc'[v] = pc[v] /\ cur'[v] = cur[v]
      /\ \A v \in Workers \ {w} : pc'[v] = pc[v] /\ cur'[v] = cur[v]
  BY <1>1, <1>3, <1>4, ReleaseStep
<1>6. CopiesAccounted'
  BY <1>1, <1>3, <1>4, <1>5 DEF Untroubled, CopiesAccounted
<1> QED
  BY <1>5, <1>6 DEF Untroubled

LEMMA MarkFailedStep ==
  ASSUME Inv, Untroubled, NEW w \in Workers, MarkFailed(w)
  PROVE  Untroubled'
<1>1. PICK e \in Events : e = cur[w].event /\ outbox[e].lockedBy = w
  BY DEF MarkFailed, Inv, TypeOK, CurIsClaimed, Record, Untroubled, HoldsLeases
<1>2. outbox[e] \in Row /\ outbox \in [Events -> Row]
  BY DEF Inv, TypeOK
<1>3. /\ outbox'[e].lockedBy = NoWorker /\ outbox'[e].status = outbox[e].status
      /\ \A f \in Events \ {e} : outbox'[f] = outbox[f]
  BY <1>1, <1>2 DEF MarkFailed, SetFailed, Row
<1>4. /\ pc[w] = "markFailed" /\ Advance(w, batch[w] \ {cur[w]})
      /\ UNCHANGED <<now, channel, accepted, faults>>
  BY DEF MarkFailed
<1>5. /\ InTime' /\ HoldsLeases' /\ OneRecordPerEvent' /\ LeasesAreHeld'
      /\ \A v \in Workers : pc'[v] \in {"markPublished", "markFailed"} =>
              v # w /\ pc'[v] = pc[v] /\ cur'[v] = cur[v]
      /\ \A v \in Workers \ {w} : pc'[v] = pc[v] /\ cur'[v] = cur[v]
  BY <1>1, <1>3, <1>4, ReleaseStep
<1>6. \A f \in Events : outbox'[f].status = outbox[f].status
  BY <1>3
<1>7. CopiesAccounted'
  BY <1>1, <1>4, <1>5, <1>6 DEF Untroubled, CopiesAccounted
<1> QED
  BY <1>5, <1>7 DEF Untroubled

(* A tick that ends no lease at work keeps every lease in force.           *)
LEMMA TickStep ==
  ASSUME Inv, Untroubled, Tick, ~Overruns
  PROVE  Untroubled'
<1>1. \A e \in Events : outbox[e] \in Row
  BY DEF Inv, TypeOK
<1>2. \A e \in Events :
        /\ outbox'[e].status = outbox[e].status
        /\ outbox'[e].lockedBy = outbox[e].lockedBy
        /\ outbox[e].status = "pending" /\ outbox[e].lockedBy # NoWorker =>
             outbox'[e].lockedUntil = Clip(outbox[e].lockedUntil - 1)
  BY <1>1 DEF Tick, Row
<1>3. /\ now' = [w \in Workers |-> IF pc[w] \in {"idle", "down"} THEN 0 ELSE Clip(now[w] - 1)]
      /\ UNCHANGED <<pc, batch, cur, channel, accepted>>
  BY DEF Tick
<1>4. InTime'
  <2> SUFFICES ASSUME NEW w \in Workers
               PROVE  now'[w] <= 0 /\ (pc[w] = "claim" => now'[w] >= -LeaseTicks)
    BY <1>3 DEF Untroubled, InTime
  <2>1. now[w] \in Int /\ now[w] <= 0
    BY DEF Untroubled, InTime, Inv, TypeOK
  <2>2. Clip(now[w] - 1) <= 0
    BY <2>1, OutboxAssumption DEF Clip
  <2>3. pc[w] = "claim" => now[w] - 1 >= -LeaseTicks
    BY <2>1, OutboxAssumption DEF Overruns, Untroubled, InTime
  <2>4. now[w] - 1 >= -LeaseTicks => Clip(now[w] - 1) >= -LeaseTicks
    BY <2>1, OutboxAssumption DEF Clip
  <2> QED
    BY <1>3, <2>2, <2>3, <2>4
<1>5. HoldsLeases'
  <2> SUFFICES ASSUME NEW w \in Workers, NEW r \in batch[w]
               PROVE  /\ outbox'[r.event].status = "pending"
                      /\ outbox'[r.event].lockedBy = w
                      /\ outbox'[r.event].lockedUntil >= 0
    BY <1>3 DEF HoldsLeases
  <2>1. /\ r.event \in Events
        /\ outbox[r.event].status = "pending"
        /\ outbox[r.event].lockedBy = w
        /\ outbox[r.event].lockedUntil \in Int
        /\ outbox[r.event].lockedUntil >= 0
    BY <1>1 DEF Untroubled, HoldsLeases, Inv, TypeOK, Record, Row
  <2>2. outbox[r.event].lockedUntil # 0
    BY <2>1 DEF Overruns
  <2>3. Clip(outbox[r.event].lockedUntil - 1) >= 0
    BY <2>1, <2>2, OutboxAssumption DEF Clip
  <2> QED
    BY <1>2, <2>1, <2>3, OutboxAssumption
<1>6. OneRecordPerEvent' /\ LeasesAreHeld' /\ CopiesAccounted'
  BY <1>2, <1>3 DEF Untroubled, OneRecordPerEvent, LeasesAreHeld, CopiesAccounted
<1> QED
  BY <1>4, <1>5, <1>6 DEF Untroubled

LEMMA StepLease == LeaseInv /\ [Next]_vars => LeaseInv'
<1> SUFFICES ASSUME Inv, faults = 0 => Untroubled, [Next]_vars, faults' = 0
             PROVE  Untroubled'
  BY StepInv DEF LeaseInv
<1>1. faults \in Nat
  BY DEF Inv, TypeOK
<1>2. CASE UNCHANGED vars
  BY <1>2 DEF vars, Untroubled, InTime, HoldsLeases, OneRecordPerEvent, LeasesAreHeld,
     CopiesAccounted
<1>3. ASSUME Fault PROVE FALSE
  BY <1>1, <1>3 DEF Fault
<1>4. ASSUME NEW w \in Workers, Disturbance(w) PROVE FALSE
  BY <1>3, <1>4 DEF Disturbance, ClaimPendingError, Nack, ChannelError,
     MarkPublishedError, MarkFailedError, Crash
<1>5. ASSUME NEW e \in Events, Enqueue(e) PROVE Untroubled'
  BY <1>5, EnqueueStep DEF Enqueue
<1>6. ASSUME NEW w \in Workers, Step(w) PROVE Untroubled'
  <2>1. faults = 0
    BY <1>6 DEF Step, BeginBatch, ClaimPending, Publish, Confirm, Return,
       MarkPublished, MarkFailed, Restart
  <2> QED
    BY <1>6, <2>1, QuietStep, ClaimStep, ConfirmStep, MarkPublishedStep, MarkFailedStep
       DEF Step
<1>7. CASE Tick
  <2>1. ~Overruns /\ faults = 0
    BY <1>3, <1>7 DEF Tick
  <2> QED
    BY <1>7, <2>1, TickStep
<1> QED
  BY <1>2, <1>4, <1>5, <1>6, <1>7 DEF Next

(* No event reaches the broker twice without a fault or an overrun lease:  *)
(* claimPending never gives one event to two relays.                       *)
THEOREM NoDuplicateWithoutFault == Spec => []DuplicateOnlyAfterFault
<1>1. LeaseInv => DuplicateOnlyAfterFault
  <2> SUFFICES ASSUME LeaseInv, NEW e \in Events, accepted[e] > 1
               PROVE  faults > 0
    BY DEF DuplicateOnlyAfterFault
  <2>1. faults \in Nat /\ accepted[e] \in 0..2
    BY DEF LeaseInv, Inv, TypeOK
  <2>2. faults # 0
    BY <2>1 DEF LeaseInv, Untroubled, CopiesAccounted
  <2> QED
    BY <2>1, <2>2
<1> QED
  BY <1>1, InitLease, StepLease, PTL DEF Spec
==============================================================================
