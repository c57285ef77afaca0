------------------------ MODULE ClosingWorkflow_proofs ------------------------
(***************************************************************************)
(* The review and the steps of a closing, for any closings, people, keys   *)
(* and sessions: the proof.  What a session checked under the lock of the  *)
(* closing's row still holds when it commits.                              *)
(***************************************************************************)
EXTENDS ClosingWorkflow, TLAPS

Locked(s)  == tx[s].stage = "locked"
Subject(s) == tx[s].request.closing

(* TypeOK, with events and evidence that are sequences.                    *)
Typed ==
  /\ TypeOK
  /\ steps \in [Closings -> Seq(StepEvent)]
  /\ evidence \in [Closings -> [steps: Seq(StepEvent), trail: SUBSET Review]]

(* The row lock is exclusive, and what was checked under it is so.         *)
OneHolder ==
  \A s, t \in Sessions : Locked(s) /\ Locked(t) /\ Subject(s) = Subject(t) => s = t

Stands(q, row) ==
  IF q.op = "ADVANCE" THEN row # Absent /\ MayAdvance(row, q)
  ELSE row.state = "CONTROLS_PASSED" /\ row.by # q.actor

ChecksHold ==
  \A s \in Sessions : Locked(s) => Stands(Asked(s), closing[Subject(s)])

(* What is on record of one closing, by its row, its reviews, its events   *)
(* and its evidence.                                                       *)
Approvals(reviews)  == {a \in reviews : a.op = "APPROVE"}
Rejections(reviews) == {a \in reviews : a.op = "REJECT"}

Reviewed(row, reviews) ==
  IF row.state = "APPROVED"
  THEN \E a \in Approvals(reviews) :
         Approvals(reviews) = {a} /\ a.actor = row.checker /\ a.actor # row.by
  ELSE Approvals(reviews) = {}

Controlled(row, reviews) == row # Absent =>
  /\ row.blockers # {} => row.state = "BLOCKED"
  /\ row.state = "BLOCKED" /\ Rejections(reviews) = {} => row.blockers # {}

Stepped(row, reviews, events) ==
  IF row = Absent THEN events = <<>>
  ELSE /\ Len(events) = row.step - 1
       /\ \A i \in 1..Len(events) : events[i].step = i + 1
       /\ \/ row.status = StatusOf[row.step]
          \/ row.status = "ANOMALY" /\ Rejections(reviews) # {}

Evidenced(row, reviews, events, package) ==
  IF row # Absent /\ row.step = LastStep
  THEN /\ package.steps = events /\ Len(events) = LastStep - 1
       /\ package.trail \subseteq reviews
  ELSE package = NoEvidence

OnRecord(row, reviews, events, package) ==
  /\ Reviewed(row, reviews) /\ Controlled(row, reviews)
  /\ Stepped(row, reviews, events) /\ Evidenced(row, reviews, events, package)

ReviewsOf(records, c) == {a \in records : a.closing = c}

Books == \A c \in Closings : OnRecord(closing[c], ReviewsOf(trail, c), steps[c], evidence[c])
Locks == OneHolder /\ ChecksHold
Inv   == Typed /\ Locks /\ Books

-----------------------------------------------------------------------------
LEMMA BooksFacts ==
  ASSUME Inv
  PROVE  ReviewIsSound /\ StepsAreRecorded
<1>1. ASSUME NEW c \in Closings
      PROVE  /\ Reviews(c, "APPROVE") = Approvals(ReviewsOf(trail, c))
             /\ Reviews(c, "REJECT") = Rejections(ReviewsOf(trail, c))
  BY DEF Reviews, Approvals, Rejections, ReviewsOf
<1>2. \A c \in Closings : DOMAIN steps[c] = 1..Len(steps[c])
  BY DEF Inv, Typed
<1>3. ApprovedByOneChecker
  BY <1>1 DEF ApprovedByOneChecker, Inv, Books, OnRecord, Reviewed
<1>4. StateMatchesControls
  BY <1>1 DEF StateMatchesControls, Inv, Books, OnRecord, Controlled, Exists
<1>5. StepsInOrder
  BY <1>1, <1>2 DEF StepsInOrder, Inv, Books, OnRecord, Stepped, Exists
<1>6. EvidenceIsComplete
  BY DEF EvidenceIsComplete, Inv, Books, OnRecord, Evidenced, Exists, ReviewsOf
<1> QED
  BY <1>3, <1>4, <1>5, <1>6 DEF ReviewIsSound, StepsAreRecorded, Inv, Typed

LEMMA StatusFacts ==
  /\ \A n \in Step : StatusOf[n] \in Status
  /\ 1 \in Step /\ LastStep = 19 /\ Step = 1..19
  BY DEF Status, Step, LastStep

-----------------------------------------------------------------------------
LEMMA NewRowFacts ==
  ASSUME NEW q, q.date \in Dates, q.by \in Actors, NEW blockers \in SUBSET Blockers
  PROVE  /\ NewRow(q, blockers) \in Row /\ NewRow(q, blockers) # Absent
         /\ NewRow(q, blockers).step = 1 /\ NewRow(q, blockers).status = StatusOf[1]
         /\ NewRow(q, blockers).state = Decided(blockers)
         /\ NewRow(q, blockers).blockers = blockers
<1>1. Decided(blockers) \in {"CONTROLS_PASSED", "BLOCKED"}
  BY DEF Decided
<1>2. NewRow(q, blockers) \in Row
  BY <1>1, StatusFacts DEF NewRow, Row, State
<1>3. NewRow(q, blockers).state = Decided(blockers)
  BY DEF NewRow
<1>4. NewRow(q, blockers) # Absent
  BY <1>1, <1>3 DEF Absent
<1> QED
  BY <1>2, <1>3, <1>4 DEF NewRow

LEMMA PastFacts ==
  ASSUME NEW n \in 1..18
  PROVE  /\ Past(n) \in Seq(StepEvent) /\ Len(Past(n)) = n - 1
         /\ \A i \in 1..(n - 1) : Past(n)[i].step = i + 1
<1> DEFINE e(i) == [step |-> i + 1, status |-> StatusOf[i + 1], sound |-> TRUE, key |-> PastKey]
<1>1. ASSUME NEW i \in 1..(n - 1)
      PROVE  e(i) \in StepEvent /\ e(i).step = i + 1
  <2>1. i + 1 \in Step
    BY StatusFacts
  <2>2. StatusOf[i + 1] \in Status
    BY <2>1, StatusFacts
  <2> QED
    BY <2>1, <2>2 DEF StepEvent
<1>2. Past(n) = [i \in 1..(n - 1) |-> e(i)]
  BY DEF Past
<1> HIDE DEF e
<1>3. Past(n) \in Seq(StepEvent) /\ Len(Past(n)) = n - 1
  BY <1>1, <1>2
<1>4. \A i \in 1..(n - 1) : Past(n)[i] = e(i)
  BY <1>2
<1> QED
  BY <1>1, <1>3, <1>4

LEMMA InitInv == Init => Inv
<1> SUFFICES ASSUME Init PROVE Inv
  OBVIOUS
<1>1. Absent \notin Row /\ Absent.state = "absent"
  BY DEF Absent, Row, State
<1>2. /\ trail = {} /\ evidence = [c \in Closings |-> NoEvidence]
      /\ critical = {} /\ tx = [s \in Sessions |-> Idle] /\ findings \in [Dates -> SUBSET Blockers]
  BY DEF Init
<1>3. ASSUME NEW c \in Closings
      PROVE  /\ closing[c] \in Row \cup {Absent} /\ steps[c] \in Seq(StepEvent)
             /\ OnRecord(closing[c], {}, steps[c], NoEvidence)
  <2>1. CASE closing[c] = Absent /\ steps[c] = <<>>
    BY <1>1, <2>1 DEF OnRecord, Reviewed, Approvals, Controlled, Stepped, Evidenced
  <2>2. ASSUME NEW q \in Requests, NEW n \in Starts, steps[c] = Past(n),
               closing[c] = [NewRow(q, findings[q.date]) EXCEPT !.step = n, !.status = StatusOf[n]]
        PROVE  /\ closing[c] \in Row \cup {Absent} /\ steps[c] \in Seq(StepEvent)
               /\ OnRecord(closing[c], {}, steps[c], NoEvidence)
    <3> DEFINE b == findings[q.date]
               r == NewRow(q, b)
    <3>1. q.date \in Dates /\ q.by \in Actors /\ b \in SUBSET Blockers /\ n \in 1..18
      BY <1>2, ClosingAssumption
    <3>2. r \in Row /\ r.state = Decided(b) /\ r.blockers = b
      BY <3>1, NewRowFacts
    <3>3. n \in Step /\ StatusOf[n] \in Status /\ n # LastStep
      BY <3>1, StatusFacts
    <3>4. closing[c] = [r EXCEPT !.step = n, !.status = StatusOf[n]]
      BY <2>2
    <3> HIDE DEF r, b
    <3>5. /\ closing[c] \in Row /\ closing[c].step = n /\ closing[c].status = StatusOf[n]
          /\ closing[c].state = Decided(b) /\ closing[c].blockers = b
      BY <3>2, <3>3, <3>4 DEF Row
    <3>6. /\ steps[c] \in Seq(StepEvent) /\ Len(steps[c]) = n - 1
          /\ \A i \in 1..(n - 1) : steps[c][i].step = i + 1
      BY <2>2, <3>1, PastFacts
    <3>7. closing[c] # Absent
      BY <1>1, <3>5
    <3>8. Reviewed(closing[c], {}) /\ Controlled(closing[c], {})
      BY <3>5 DEF Reviewed, Approvals, Controlled, Rejections, Decided
    <3>9. Stepped(closing[c], {}, steps[c]) /\ Evidenced(closing[c], {}, steps[c], NoEvidence)
      BY <3>3, <3>5, <3>6, <3>7 DEF Stepped, Evidenced
    <3> QED
      BY <3>5, <3>6, <3>8, <3>9 DEF OnRecord
  <2> QED
    BY <2>1, <2>2 DEF Init
<1>4. closing \in [Closings -> Row \cup {Absent}] /\ steps \in [Closings -> Seq(StepEvent)]
  BY <1>3 DEF Init
<1>5. Typed
  <2>1. \A c \in Closings : \A i \in DOMAIN steps[c] : steps[c][i] \in StepEvent
    BY <1>3
  <2>2. NoEvidence \in [steps: Seq(StepEvent), trail: SUBSET Review]
    BY DEF NoEvidence
  <2>3. evidence \in [Closings -> [steps: Seq(StepEvent), trail: SUBSET Review]]
    BY <1>2, <2>2
  <2>4. \A c \in Closings : evidence[c].trail \subseteq Review
    BY <2>3
  <2> QED
    BY <1>2, <1>4, <2>1, <2>3, <2>4 DEF Typed, TypeOK
<1>6. Locks
  BY <1>2 DEF Locks, OneHolder, ChecksHold, Locked, Idle
<1>7. Books
  <2>1. \A c \in Closings : ReviewsOf(trail, c) = {} /\ evidence[c] = NoEvidence
    BY <1>2 DEF ReviewsOf
  <2> QED
    BY <1>3, <2>1 DEF Books
<1> QED
  BY <1>5, <1>6, <1>7 DEF Inv

-----------------------------------------------------------------------------
(* What the transactions ask.                                              *)
LEMMA Ops ==
  /\ \A q \in Review : q.op \in {"APPROVE", "REJECT"} /\ q.closing \in Closings
  /\ \A q \in Advance : q.op = "ADVANCE" /\ q.closing \in Closings /\ q.target \in Step
  /\ \A q \in Evaluate : q.op = "EVALUATE"
  BY DEF Review, Advance, Evaluate

LEMMA TxFacts ==
  ASSUME Typed, NEW s \in Sessions, tx[s].stage # "idle"
  PROVE  \/ /\ tx[s] \in [stage: {"begun", "locked"}, request: Review \cup Advance]
            /\ Asked(s) \in Review \cup Advance /\ tx[s].stage \in {"begun", "locked"}
         \/ /\ tx[s] \in [stage: {"begun"}, request: Evaluate, seen: SUBSET Blockers,
                          current: BOOLEAN]
            /\ Asked(s) \in Evaluate /\ tx[s].stage = "begun"
  BY DEF Typed, TypeOK, Open, Idle, Asked

LEMMA LockedFacts ==
  ASSUME Typed, NEW s \in Sessions, Locked(s)
  PROVE  /\ tx[s] \in [stage: {"begun", "locked"}, request: Review \cup Advance]
         /\ Asked(s) \in Review \cup Advance /\ Subject(s) \in Closings
<1>1. Asked(s) \in Review \cup Advance /\ tx[s].stage = "locked"
  BY TxFacts DEF Locked
<1> QED
  BY <1>1, TxFacts, Ops DEF Locked, Subject, Asked

(* The end of a transaction.                                               *)
LEMMA EndsFacts ==
  ASSUME Typed, NEW s \in Sessions, NEW c, Ends(s) \/ EndsWriting(s, c)
  PROVE  /\ tx' \in [Sessions -> {Idle} \cup Open]
         /\ \A t \in Sessions : tx'[t].stage = "locked" => t # s /\ tx'[t] = tx[t]
<1>1. tx \in [Sessions -> {Idle} \cup Open] /\ Idle.stage = "idle"
  BY DEF Typed, TypeOK, Idle
<1>2. CASE Ends(s)
  BY <1>1, <1>2 DEF Ends
<1>3. CASE EndsWriting(s, c)
  <2> SUFFICES ASSUME NEW t \in Sessions
               PROVE  /\ tx'[t] \in {Idle} \cup Open
                      /\ tx'[t].stage = "locked" => t # s /\ tx'[t] = tx[t]
    BY <1>3 DEF EndsWriting
  <2>1. CASE t = s
    BY <1>1, <1>3, <2>1 DEF EndsWriting
  <2>2. CASE t # s /\ Running(t) /\ Asked(t).op = "EVALUATE" /\ Asked(t).closing = c
    <3>1. tx'[t] = [tx[t] EXCEPT !.current = FALSE]
      BY <1>3, <2>2 DEF EndsWriting
    <3>2. /\ tx[t] \in [stage: {"begun"}, request: Evaluate, seen: SUBSET Blockers,
                        current: BOOLEAN]
      BY <2>2, TxFacts, Ops DEF Running
    <3>3. /\ tx'[t] \in [stage: {"begun"}, request: Evaluate, seen: SUBSET Blockers,
                         current: BOOLEAN]
          /\ tx'[t].stage = "begun"
      BY <3>1, <3>2
    <3> QED
      BY <3>3 DEF Open
  <2>3. CASE t # s /\ ~(Running(t) /\ Asked(t).op = "EVALUATE" /\ Asked(t).closing = c)
    BY <1>1, <1>3, <2>3 DEF EndsWriting
  <2> QED
    BY <2>1, <2>2, <2>3
<1> QED
  BY <1>2, <1>3

-----------------------------------------------------------------------------
(* Steps that write no record.                                             *)
LEMMA QuietStep ==
  ASSUME Inv, UNCHANGED <<closing, steps, trail, evidence>>,
         findings' \in [Dates -> SUBSET Blockers], critical' \subseteq Closings,
         tx' \in [Sessions -> {Idle} \cup Open],
         \A s, t \in Sessions :
           tx'[s].stage = "locked" /\ tx'[t].stage = "locked"
             /\ tx'[s].request.closing = tx'[t].request.closing => s = t,
         \A s \in Sessions : tx'[s].stage = "locked" =>
           Stands(tx'[s].request, closing[tx'[s].request.closing])
  PROVE  Inv'
<1>1. Typed'
  BY DEF Inv, Typed, TypeOK
<1>2. Locks'
  BY DEF Locks, OneHolder, ChecksHold, Locked, Subject, Asked
<1>3. Books'
  BY DEF Inv, Books
<1> QED
  BY <1>1, <1>2, <1>3 DEF Inv

(* A transaction that does not hold the row begins, or ends.               *)
LEMMA BeginOrEnd ==
  ASSUME Inv, NEW s \in Sessions, UNCHANGED <<closing, steps, trail, evidence, findings, critical>>,
         tx' \in [Sessions -> {Idle} \cup Open],
         \A t \in Sessions : tx'[t].stage = "locked" => tx'[t] = tx[t]
  PROVE  Inv'
<1>1. findings' \in [Dates -> SUBSET Blockers] /\ critical' \subseteq Closings
  BY DEF Inv, Typed, TypeOK
<1>2. \A v, t \in Sessions :
        tx'[v].stage = "locked" /\ tx'[t].stage = "locked"
          /\ tx'[v].request.closing = tx'[t].request.closing => v = t
  BY DEF Inv, Locks, OneHolder, Locked, Subject
<1>3. \A v \in Sessions : tx'[v].stage = "locked" =>
        Stands(tx'[v].request, closing[tx'[v].request.closing])
  BY DEF Inv, Locks, ChecksHold, Locked, Subject, Asked
<1> QED
  BY <1>1, <1>2, <1>3, QuietStep

LEMMA BeginFacts ==
  ASSUME Inv, NEW s \in Sessions, NEW x \in Open, x.stage = "begun",
         tx' = [tx EXCEPT ![s] = x],
         UNCHANGED <<closing, steps, trail, evidence, findings, critical>>
  PROVE  Inv'
<1>1. tx' \in [Sessions -> {Idle} \cup Open]
  BY DEF Inv, Typed, TypeOK
<1>2. \A t \in Sessions : tx'[t].stage = "locked" => tx'[t] = tx[t]
  BY DEF Inv, Typed, TypeOK
<1> QED
  BY <1>1, <1>2, BeginOrEnd

LEMMA BeginStep ==
  ASSUME Inv, NEW s \in Sessions,
         \/ \E q \in Requests : BeginEvaluation(s, q)
         \/ \E q \in Commands : BeginReview(s, q) \/ BeginAdvance(s, q)
  PROVE  Inv'
<1>1. ASSUME NEW q \in Requests, BeginEvaluation(s, q)
      PROVE  Inv'
  <2> DEFINE e == [op |-> "EVALUATE", closing |-> q.closing, date |-> q.date, by |-> q.by]
             x == [stage |-> "begun", request |-> e, seen |-> findings[q.date], current |-> TRUE]
  <2>1. e \in Evaluate /\ findings[q.date] \in SUBSET Blockers
    BY ClosingAssumption DEF Evaluate, Inv, Typed, TypeOK
  <2> HIDE DEF e
  <2>2. x \in Open /\ x.stage = "begun"
    BY <2>1 DEF Open
  <2>3. tx' = [tx EXCEPT ![s] = x]
    BY <1>1 DEF BeginEvaluation, e
  <2> HIDE DEF x
  <2> QED
    BY <1>1, <2>2, <2>3, BeginFacts DEF BeginEvaluation
<1>2. ASSUME NEW q \in Commands, BeginReview(s, q) \/ BeginAdvance(s, q)
      PROVE  Inv'
  <2> DEFINE x == [stage |-> "begun", request |-> q]
  <2>1. q \in Review \cup Advance
    BY <1>2 DEF BeginReview, BeginAdvance
  <2>2. x \in Open /\ x.stage = "begun"
    BY <2>1 DEF Open
  <2> HIDE DEF x
  <2>3. tx' = [tx EXCEPT ![s] = x]
    BY <1>2 DEF BeginReview, BeginAdvance, x
  <2> QED
    BY <1>2, <2>2, <2>3, BeginFacts DEF BeginReview, BeginAdvance
<1> QED
  BY <1>1, <1>2

LEMMA RollbackStep ==
  ASSUME Inv, NEW s \in Sessions, Rollback(s)
  PROVE  Inv'
<1>1. /\ tx' \in [Sessions -> {Idle} \cup Open]
      /\ \A t \in Sessions : tx'[t].stage = "locked" => t # s /\ tx'[t] = tx[t]
  BY EndsFacts DEF Inv, Rollback
<1> QED
  BY <1>1, BeginOrEnd DEF Rollback

(* The lock of the row and the checks under it.                            *)
LEMMA LockStep ==
  ASSUME Inv, NEW s \in Sessions, LockReview(s) \/ LockAdvance(s)
  PROVE  Inv'
<1> DEFINE x == [tx[s] EXCEPT !.stage = "locked"]
<1>1. /\ tx[s].stage = "begun" /\ Asked(s) \in Review \cup Advance
      /\ RowFree(s, Asked(s).closing) /\ tx' = [tx EXCEPT ![s] = x]
      /\ UNCHANGED <<closing, steps, trail, evidence, findings, critical>>
  BY DEF LockReview, LockAdvance
<1>2. Stands(Asked(s), closing[Asked(s).closing])
  BY Ops DEF LockReview, LockAdvance, Stands, Exists
<1>3. tx[s] \in [stage: {"begun", "locked"}, request: Review \cup Advance]
  <2>1. Asked(s) \notin Evaluate
    BY <1>1, Ops
  <2> QED
    BY <1>1, <2>1, TxFacts DEF Inv
<1>4. x \in Open /\ x.request = Asked(s)
  BY <1>3 DEF Open, Asked
<1> HIDE DEF x
<1>5. tx' \in [Sessions -> {Idle} \cup Open]
  BY <1>1, <1>4 DEF Inv, Typed, TypeOK
<1>6. tx'[s].request = Asked(s) /\ \A t \in Sessions \ {s} : tx'[t] = tx[t]
  BY <1>1, <1>4 DEF Inv, Typed, TypeOK
<1>7. \A v, t \in Sessions :
        tx'[v].stage = "locked" /\ tx'[t].stage = "locked"
          /\ tx'[v].request.closing = tx'[t].request.closing => v = t
  BY <1>1, <1>6 DEF Inv, Locks, OneHolder, Locked, Subject, RowFree, Asked
<1>8. \A v \in Sessions : tx'[v].stage = "locked" =>
        Stands(tx'[v].request, closing[tx'[v].request.closing])
  BY <1>2, <1>6 DEF Inv, Locks, ChecksHold, Locked, Subject, Asked
<1>9. findings' \in [Dates -> SUBSET Blockers] /\ critical' \subseteq Closings
  BY <1>1 DEF Inv, Typed, TypeOK
<1> QED
  BY <1>1, <1>5, <1>7, <1>8, <1>9, QuietStep

-----------------------------------------------------------------------------
(* Steps that write the row of a closing that nobody else holds.           *)
LEMMA WriteStep ==
  ASSUME Inv, NEW s \in Sessions, NEW c \in Closings, NEW row \in Row,
         closing' = [closing EXCEPT ![c] = row], EndsWriting(s, c),
         \A t \in Sessions \ {s} : Locked(t) => Subject(t) # c,
         UNCHANGED <<findings, critical>>, trail' \subseteq Review,
         steps' \in [Closings -> Seq(StepEvent)],
         evidence' \in [Closings -> [steps: Seq(StepEvent), trail: SUBSET Review]],
         \A d \in Closings \ {c} : /\ steps'[d] = steps[d] /\ evidence'[d] = evidence[d]
                                   /\ ReviewsOf(trail', d) = ReviewsOf(trail, d),
         OnRecord(row, ReviewsOf(trail', c), steps'[c], evidence'[c])
  PROVE  Inv'
<1>1. /\ tx' \in [Sessions -> {Idle} \cup Open]
      /\ \A t \in Sessions : tx'[t].stage = "locked" => t # s /\ tx'[t] = tx[t]
  BY EndsFacts DEF Inv
<1>2. /\ closing' \in [Closings -> Row \cup {Absent}]
      /\ closing'[c] = row /\ \A d \in Closings \ {c} : closing'[d] = closing[d]
  BY DEF Inv, Typed, TypeOK
<1>3. Typed'
  <2>1. \A d \in Closings : \A i \in DOMAIN steps'[d] : steps'[d][i] \in StepEvent
    OBVIOUS
  <2>2. \A d \in Closings : evidence'[d].trail \subseteq Review
    OBVIOUS
  <2> QED
    BY <1>1, <1>2, <2>1, <2>2 DEF Inv, Typed, TypeOK
<1>4. OneHolder'
  BY <1>1 DEF Inv, Locks, OneHolder, Locked, Subject
<1>5. ChecksHold'
  <2> SUFFICES ASSUME NEW t \in Sessions, tx'[t].stage = "locked"
               PROVE  Stands(tx'[t].request, closing'[tx'[t].request.closing])
    BY DEF ChecksHold, Locked, Subject, Asked
  <2>1. t # s /\ tx'[t] = tx[t] /\ Locked(t)
    BY <1>1 DEF Locked
  <2>2. Subject(t) \in Closings \ {c} /\ Stands(Asked(t), closing[Subject(t)])
    BY <2>1, LockedFacts DEF Inv, Locks, ChecksHold
  <2> QED
    BY <1>2, <2>1, <2>2 DEF Subject, Asked
<1>6. Books'
  <2>1. \A d \in Closings :
          OnRecord(closing'[d], ReviewsOf(trail', d), steps'[d], evidence'[d])
    BY <1>2 DEF Inv, Books
  <2> QED
    BY <2>1 DEF Books
<1> QED
  BY <1>3, <1>4, <1>5, <1>6 DEF Inv, Locks

LEMMA BookTypes ==
  ASSUME Inv, NEW c \in Closings
  PROVE  /\ closing[c] \in Row \cup {Absent} /\ trail \subseteq Review
         /\ steps \in [Closings -> Seq(StepEvent)] /\ steps[c] \in Seq(StepEvent)
         /\ evidence \in [Closings -> [steps: Seq(StepEvent), trail: SUBSET Review]]
         /\ OnRecord(closing[c], ReviewsOf(trail, c), steps[c], evidence[c])
         /\ closing[c] # Absent => closing[c] \in Row
  BY DEF Inv, Typed, TypeOK, Books

(* What an evaluation knows.                                               *)
LEMMA EvaluationFacts ==
  ASSUME Inv, NEW s \in Sessions, Running(s), Asked(s).op = "EVALUATE"
  PROVE  /\ Asked(s).closing \in Closings /\ Asked(s).date \in Dates /\ Asked(s).by \in Actors
         /\ tx[s].seen \in SUBSET Blockers /\ ~Locked(s)
<1>1. Asked(s) \notin Review \cup Advance
  BY Ops
<1> QED
  BY <1>1, TxFacts DEF Inv, Running, Evaluate, Locked

LEMMA FirstEvaluationStep ==
  ASSUME Inv, NEW s \in Sessions, CommitFirstEvaluation(s)
  PROVE  Inv'
<1> DEFINE q == Asked(s)
           c == q.closing
           b == tx[s].seen
           row == NewRow(q, b)
<1>1. c \in Closings /\ q.date \in Dates /\ q.by \in Actors /\ b \in SUBSET Blockers
  BY EvaluationFacts DEF CommitFirstEvaluation
<1>2. /\ row \in Row /\ row # Absent /\ row.step = 1 /\ row.status = StatusOf[1]
      /\ row.state = Decided(b) /\ row.blockers = b
  BY <1>1, NewRowFacts
<1>3. closing[c] = Absent /\ closing' = [closing EXCEPT ![c] = row] /\ EndsWriting(s, c)
  BY DEF CommitFirstEvaluation, Exists
<1>4. UNCHANGED <<steps, trail, evidence, findings, critical>>
  BY DEF CommitFirstEvaluation
<1>5. \A t \in Sessions \ {s} : Locked(t) => Subject(t) # c
  BY <1>3, LockedFacts, Ops DEF Inv, Locks, ChecksHold, Stands, Absent
<1>6. /\ Approvals(ReviewsOf(trail, c)) = {} /\ steps[c] = <<>> /\ evidence[c] = NoEvidence
  BY <1>1, <1>3, BookTypes DEF OnRecord, Reviewed, Stepped, Evidenced, Absent
<1> HIDE DEF row, q, c, b
<1>7. Reviewed(row, ReviewsOf(trail, c)) /\ Controlled(row, ReviewsOf(trail, c))
  BY <1>2, <1>6 DEF Reviewed, Controlled, Decided
<1>8. /\ Stepped(row, ReviewsOf(trail, c), steps[c])
      /\ Evidenced(row, ReviewsOf(trail, c), steps[c], evidence[c])
  <2>1. Len(steps[c]) = 0 /\ LastStep # 1
    BY <1>6, StatusFacts
  <2> QED
    BY <1>2, <1>6, <2>1 DEF Stepped, Evidenced
<1>9. OnRecord(row, ReviewsOf(trail, c), steps[c], evidence[c])
  BY <1>7, <1>8 DEF OnRecord
<1> QED
  BY <1>1, <1>2, <1>3, <1>4, <1>5, <1>9, BookTypes, WriteStep

LEMMA EvaluationStep ==
  ASSUME Inv, NEW s \in Sessions, CommitEvaluation(s)
  PROVE  Inv'
<1> DEFINE c == Asked(s).closing
           b == tx[s].seen
           old == closing[c]
           row == [old EXCEPT !.state = Decided(b), !.blockers = b]
<1>1. c \in Closings /\ b \in SUBSET Blockers
  BY EvaluationFacts DEF CommitEvaluation
<1>2. /\ old \in Row /\ old # Absent /\ old.state # "APPROVED"
      /\ OnRecord(old, ReviewsOf(trail, c), steps[c], evidence[c])
  BY <1>1, BookTypes DEF CommitEvaluation, Exists, Controllable
<1>3. closing' = [closing EXCEPT ![c] = row] /\ EndsWriting(s, c)
  BY DEF CommitEvaluation
<1>4. UNCHANGED <<steps, trail, evidence, findings, critical>>
  BY DEF CommitEvaluation
<1>5. \A t \in Sessions \ {s} : Locked(t) => Subject(t) # c
  BY DEF CommitEvaluation, RowFree, Locked, Subject, Asked
<1> HIDE DEF old, c, b
<1>6. /\ row \in Row /\ row.state = Decided(b) /\ row.blockers = b
      /\ row.step = old.step /\ row.status = old.status /\ row.state # "APPROVED"
  BY <1>1, <1>2 DEF Row, State, Decided
<1>7. row # Absent
  BY <1>6 DEF Absent, Decided
<1> HIDE DEF row
<1>8. Reviewed(row, ReviewsOf(trail, c)) /\ Controlled(row, ReviewsOf(trail, c))
  BY <1>2, <1>6 DEF OnRecord, Reviewed, Controlled, Decided
<1>9. /\ Stepped(row, ReviewsOf(trail, c), steps[c])
      /\ Evidenced(row, ReviewsOf(trail, c), steps[c], evidence[c])
  BY <1>2, <1>6, <1>7 DEF OnRecord, Stepped, Evidenced
<1>10. OnRecord(row, ReviewsOf(trail, c), steps[c], evidence[c])
  BY <1>8, <1>9 DEF OnRecord
<1> QED
  BY <1>1, <1>3, <1>4, <1>5, <1>6, <1>10, BookTypes, WriteStep

(* What a holder of the row knows.                                         *)
LEMMA HolderFacts ==
  ASSUME Inv, NEW s \in Sessions, Locked(s)
  PROVE  /\ Subject(s) \in Closings /\ Stands(Asked(s), closing[Subject(s)])
         /\ closing[Subject(s)] \in Row
         /\ Asked(s).op \in {"APPROVE", "REJECT"} => Asked(s) \in Review
         /\ Asked(s).op = "ADVANCE" => Asked(s) \in Advance
         /\ \A t \in Sessions \ {s} : Locked(t) => Subject(t) # Subject(s)
<1>1. Subject(s) \in Closings /\ Asked(s) \in Review \cup Advance
  BY LockedFacts DEF Inv
<1>2. Stands(Asked(s), closing[Subject(s)])
  BY DEF Inv, Locks, ChecksHold
<1>3. closing[Subject(s)] # Absent
  BY <1>2 DEF Stands, Absent
<1>4. closing[Subject(s)] \in Row
  BY <1>1, <1>3, BookTypes
<1>5. \A t \in Sessions \ {s} : Locked(t) => Subject(t) # Subject(s)
  BY DEF Inv, Locks, OneHolder
<1> QED
  BY <1>1, <1>2, <1>4, <1>5, Ops

LEMMA ReviewStep ==
  ASSUME Inv, NEW s \in Sessions, CommitApproval(s) \/ CommitRejection(s)
  PROVE  Inv'
<1> DEFINE q == Asked(s)
           c == q.closing
           old == closing[c]
           rs == ReviewsOf(trail, c)
<1>1. /\ Locked(s) /\ q.op \in {"APPROVE", "REJECT"} /\ Records(q) /\ EndsWriting(s, c)
      /\ UNCHANGED <<steps, evidence, findings, critical>>
  BY DEF CommitApproval, CommitRejection, Locked
<1>2. /\ c \in Closings /\ old \in Row /\ q \in Review /\ c = Subject(s)
      /\ \A t \in Sessions \ {s} : Locked(t) => Subject(t) # c
  BY <1>1, HolderFacts DEF Subject, Asked
<1>3. old.state = "CONTROLS_PASSED" /\ old.by # q.actor
  BY <1>1, <1>2, HolderFacts DEF Stands
<1>4. /\ old # Absent /\ Approvals(rs) = {} /\ old.blockers = {}
      /\ OnRecord(old, rs, steps[c], evidence[c])
  <2>1. OnRecord(old, rs, steps[c], evidence[c]) /\ old # Absent
    BY <1>2, <1>3, BookTypes DEF Absent
  <2> QED
    BY <1>3, <2>1 DEF OnRecord, Reviewed, Controlled
<1>5. /\ trail' \subseteq Review /\ ReviewsOf(trail', c) = rs \cup {q}
      /\ \A d \in Closings \ {c} : ReviewsOf(trail', d) = ReviewsOf(trail, d)
  <2>1. /\ trail' = trail \cup {q} /\ ReviewsOf(trail', c) = rs \cup {q}
        /\ \A d : d # c => ReviewsOf(trail', d) = ReviewsOf(trail, d)
    BY <1>1 DEF Records, ReviewsOf
  <2>2. trail \subseteq Review
    BY <1>2, BookTypes
  <2> QED
    BY <1>2, <2>1, <2>2
<1>6. q.actor \in Actors
  BY <1>2 DEF Review
<1> DEFINE rs2 == rs \cup {q}
<1>7. \E row \in Row : /\ closing' = [closing EXCEPT ![c] = row]
                       /\ OnRecord(row, rs2, steps[c], evidence[c])
  <2>1. CASE CommitApproval(s)
    <3> DEFINE row == [old EXCEPT !.state = "APPROVED", !.checker = q.actor]
    <3>1. closing' = [closing EXCEPT ![c] = row] /\ q.op = "APPROVE"
      BY <2>1 DEF CommitApproval
    <3> HIDE DEF old, rs, q, c
    <3>2. /\ row \in Row /\ row.state = "APPROVED" /\ row.checker = q.actor
          /\ row.by = old.by /\ row.blockers = old.blockers
          /\ row.step = old.step /\ row.status = old.status
      BY <1>2, <1>6 DEF Row, State
    <3>3. row # Absent
      BY <3>2 DEF Absent
    <3> HIDE DEF row
    <3>4. Approvals(rs2) = {q}
      BY <1>4, <3>1 DEF Approvals
    <3>5. Rejections(rs) \subseteq Rejections(rs2) /\ rs \subseteq rs2
      BY DEF Rejections
    <3>6. Reviewed(row, rs2)
      BY <1>3, <3>2, <3>4 DEF Reviewed
    <3>7. Controlled(row, rs2)
      BY <1>4, <3>2 DEF Controlled
    <3>8. Stepped(row, rs2, steps[c]) /\ Evidenced(row, rs2, steps[c], evidence[c])
      BY <1>4, <3>2, <3>3, <3>5 DEF OnRecord, Stepped, Evidenced
    <3> QED
      BY <3>1, <3>2, <3>6, <3>7, <3>8 DEF OnRecord
  <2>2. CASE CommitRejection(s)
    <3> DEFINE row == [old EXCEPT !.state = "BLOCKED", !.checker = q.actor, !.status = "ANOMALY"]
    <3>1. closing' = [closing EXCEPT ![c] = row] /\ q.op = "REJECT"
      BY <2>2 DEF CommitRejection
    <3> HIDE DEF old, rs, q, c
    <3>2. /\ row \in Row /\ row.state = "BLOCKED" /\ row.status = "ANOMALY"
          /\ row.blockers = old.blockers /\ row.step = old.step
      BY <1>2, <1>6 DEF Row, State, Status
    <3>3. row # Absent
      BY <3>2 DEF Absent
    <3> HIDE DEF row
    <3>4. Approvals(rs2) = {} /\ Rejections(rs2) # {}
      BY <1>4, <3>1 DEF Approvals, Rejections
    <3>5. rs \subseteq rs2
      OBVIOUS
    <3>6. Reviewed(row, rs2)
      BY <3>2, <3>4 DEF Reviewed
    <3>7. Controlled(row, rs2)
      BY <1>4, <3>2, <3>4 DEF Controlled
    <3>8. Stepped(row, rs2, steps[c]) /\ Evidenced(row, rs2, steps[c], evidence[c])
      BY <1>4, <3>2, <3>3, <3>4, <3>5 DEF OnRecord, Stepped, Evidenced
    <3> QED
      BY <3>1, <3>2, <3>6, <3>7, <3>8 DEF OnRecord
  <2> QED
    BY <1>1, <2>1, <2>2 DEF CommitApproval, CommitRejection
<1> HIDE DEF old, rs, q, c
<1>8. PICK row \in Row : /\ closing' = [closing EXCEPT ![c] = row]
                        /\ OnRecord(row, rs2, steps[c], evidence[c])
  BY <1>7
<1> QED
  BY <1>1, <1>2, <1>5, <1>8, BookTypes, WriteStep

LEMMA AppendFacts ==
  ASSUME NEW h \in Seq(StepEvent), NEW e \in StepEvent
  PROVE  /\ Append(h, e) \in Seq(StepEvent) /\ Len(Append(h, e)) = Len(h) + 1
         /\ \A i \in 1..Len(h) : Append(h, e)[i] = h[i]
         /\ Append(h, e)[Len(h) + 1] = e
  OBVIOUS

LEMMA AdvanceStep ==
  ASSUME Inv, NEW s \in Sessions, CommitAdvance(s)
  PROVE  Inv'
<1> DEFINE q == Asked(s)
           c == q.closing
           n == q.target
           old == closing[c]
           rs == ReviewsOf(trail, c)
           e == [step |-> n, status |-> StatusOf[n], sound |-> q.sound, key |-> q.key]
           events == Append(steps[c], e)
           row == [old EXCEPT !.step = n, !.status = StatusOf[n]]
           package == [steps |-> events, trail |-> rs]
<1>1. /\ Locked(s) /\ q.op = "ADVANCE" /\ EndsWriting(s, c)
      /\ closing' = [closing EXCEPT ![c] = row] /\ steps' = [steps EXCEPT ![c] = events]
      /\ UNCHANGED <<trail, findings, critical>>
  BY DEF CommitAdvance, Locked
<1>2. IF n = LastStep THEN evidence' = [evidence EXCEPT ![c] = package] ELSE evidence' = evidence
  BY DEF CommitAdvance, Package, ReviewsOf
<1>3. /\ c \in Closings /\ old \in Row /\ q \in Advance /\ c = Subject(s)
      /\ \A t \in Sessions \ {s} : Locked(t) => Subject(t) # c
  BY <1>1, HolderFacts DEF Subject, Asked
<1>4. old # Absent /\ n = old.step + 1 /\ n \in Step /\ StatusOf[n] \in Status
  BY <1>1, <1>3, HolderFacts, Ops, StatusFacts DEF Stands, MayAdvance
<1>5. e \in StepEvent /\ e.step = n
  BY <1>3, <1>4 DEF Advance, StepEvent
<1>6. /\ OnRecord(old, rs, steps[c], evidence[c]) /\ steps[c] \in Seq(StepEvent)
      /\ rs \subseteq Review
  BY <1>3, BookTypes DEF ReviewsOf
<1> HIDE DEF old, rs, q, c, e, n
<1>7. /\ Len(steps[c]) = n - 2 /\ \A i \in 1..(n - 2) : steps[c][i].step = i + 1
      /\ n \in 2..19 /\ old.step = n - 1
  <2>1. old.step \in 1..19 /\ n \in 1..19
    BY <1>3, <1>4, StatusFacts DEF Row
  <2>2. n \in 2..19 /\ old.step = n - 1 /\ old.step - 1 = n - 2
    BY <1>4, <2>1
  <2>3. /\ Len(steps[c]) = old.step - 1
        /\ \A i \in 1..Len(steps[c]) : steps[c][i].step = i + 1
    BY <1>4, <1>6 DEF OnRecord, Stepped
  <2> QED
    BY <2>2, <2>3
<1>8. /\ events \in Seq(StepEvent) /\ Len(events) = n - 1
      /\ \A i \in 1..(n - 2) : events[i] = steps[c][i]
      /\ events[n - 1] = e
  <2>1. /\ events \in Seq(StepEvent) /\ Len(events) = Len(steps[c]) + 1
        /\ \A i \in 1..Len(steps[c]) : events[i] = steps[c][i]
        /\ events[Len(steps[c]) + 1] = e
    BY <1>5, <1>6, AppendFacts
  <2>2. Len(steps[c]) + 1 = n - 1
    BY <1>7
  <2> QED
    BY <1>7, <2>1, <2>2
<1>9. /\ row \in Row /\ row.step = n /\ row.status = StatusOf[n] /\ row.state = old.state
      /\ row.checker = old.checker /\ row.by = old.by /\ row.blockers = old.blockers
  BY <1>3, <1>4 DEF Row
<1>10. row # Absent
  BY <1>9 DEF Absent, Row, State
<1>11. package \in [steps: Seq(StepEvent), trail: SUBSET Review]
  BY <1>6, <1>8
<1>12. package.steps = events /\ package.trail = rs
  OBVIOUS
<1> HIDE DEF events, row, package
<1>13. Reviewed(row, rs) /\ Controlled(row, rs)
  BY <1>4, <1>6, <1>9 DEF OnRecord, Reviewed, Controlled
<1>14. Stepped(row, rs, events)
  <2>1. \A i \in 1..(n - 1) : events[i].step = i + 1
    BY <1>5, <1>7, <1>8
  <2> QED
    BY <1>8, <1>9, <1>10, <2>1 DEF Stepped
<1>15. /\ steps' \in [Closings -> Seq(StepEvent)] /\ steps'[c] = events
       /\ \A d \in Closings \ {c} : steps'[d] = steps[d]
  BY <1>1, <1>3, <1>8, BookTypes
<1>16. /\ evidence' \in [Closings -> [steps: Seq(StepEvent), trail: SUBSET Review]]
       /\ \A d \in Closings \ {c} : evidence'[d] = evidence[d]
       /\ Evidenced(row, rs, events, evidence'[c])
  <2>1. CASE n = LastStep
    <3>1. evidence' = [evidence EXCEPT ![c] = package]
      BY <1>2, <2>1
    <3>2. evidence'[c] = package
      BY <1>3, <3>1, BookTypes
    <3>3. Evidenced(row, rs, events, package)
      BY <1>8, <1>9, <1>10, <1>12, <2>1 DEF Evidenced
    <3> QED
      BY <1>3, <1>11, <3>1, <3>2, <3>3, BookTypes
  <2>2. CASE n # LastStep
    <3>1. evidence' = evidence
      BY <1>2, <2>2
    <3>2. old.step # LastStep
      BY <1>7, StatusFacts
    <3>3. evidence[c] = NoEvidence
      BY <1>6, <3>2 DEF OnRecord, Evidenced
    <3> QED
      BY <1>3, <1>9, <2>2, <3>1, <3>3, BookTypes DEF Evidenced
  <2> QED
    BY <2>1, <2>2
<1>17. /\ trail' \subseteq Review /\ ReviewsOf(trail', c) = rs
       /\ \A d \in Closings \ {c} : ReviewsOf(trail', d) = ReviewsOf(trail, d)
  BY <1>1, <1>3, BookTypes DEF rs
<1>18. OnRecord(row, ReviewsOf(trail', c), steps'[c], evidence'[c])
  BY <1>13, <1>14, <1>15, <1>16, <1>17 DEF OnRecord
<1> QED
  BY <1>1, <1>3, <1>9, <1>15, <1>16, <1>17, <1>18, WriteStep

-----------------------------------------------------------------------------
LEMMA EnvironmentStep ==
  ASSUME Inv, FindingsChange \/ CriticalChange
  PROVE  Inv'
<1>1. UNCHANGED <<closing, steps, trail, evidence, tx>>
  BY DEF FindingsChange, CriticalChange
<1>2. findings' \in [Dates -> SUBSET Blockers]
  BY DEF FindingsChange, CriticalChange, Inv, Typed, TypeOK
<1>3. critical' \subseteq Closings
  BY ClosingAssumption DEF FindingsChange, CriticalChange, Inv, Typed, TypeOK
<1>4. tx' \in [Sessions -> {Idle} \cup Open]
  BY <1>1 DEF Inv, Typed, TypeOK
<1> QED
  BY <1>1, <1>2, <1>3, <1>4, QuietStep
       DEF Inv, Locks, OneHolder, ChecksHold, Locked, Subject, Asked

LEMMA NextInv == Inv /\ [Next]_vars => Inv'
<1> SUFFICES ASSUME Inv, [Next]_vars PROVE Inv'
  OBVIOUS
<1>1. ASSUME NEW s \in Sessions, Session(s)
      PROVE  Inv'
  <2>1. CASE \/ \E q \in Requests : BeginEvaluation(s, q)
             \/ \E q \in Commands : BeginReview(s, q) \/ BeginAdvance(s, q)
    BY <2>1, BeginStep
  <2>2. CASE CommitFirstEvaluation(s)
    BY <2>2, FirstEvaluationStep
  <2>3. CASE CommitEvaluation(s)
    BY <2>3, EvaluationStep
  <2>4. CASE LockReview(s) \/ LockAdvance(s)
    BY <2>4, LockStep
  <2>5. CASE CommitApproval(s) \/ CommitRejection(s)
    BY <2>5, ReviewStep
  <2>6. CASE CommitAdvance(s)
    BY <2>6, AdvanceStep
  <2>7. CASE Rollback(s)
    BY <2>7, RollbackStep
  <2> QED
    BY <1>1, <2>1, <2>2, <2>3, <2>4, <2>5, <2>6, <2>7 DEF Session
<1>2. CASE FindingsChange \/ CriticalChange
  BY <1>2, EnvironmentStep
<1>3. CASE UNCHANGED vars
  BY <1>3 DEF vars, Inv, Typed, TypeOK, Locks, OneHolder, ChecksHold, Locked, Subject, Asked, Books
<1> QED
  BY <1>1, <1>2, <1>3 DEF Next

-----------------------------------------------------------------------------
(* An approved closing is left as it was approved.                         *)
LEMMA ApprovedStays ==
  ASSUME Inv, [Next]_vars, NEW c \in Closings, closing[c].state = "APPROVED"
  PROVE  /\ closing'[c].state = "APPROVED"
         /\ closing'[c].checker = closing[c].checker
         /\ closing'[c].blockers = closing[c].blockers
<1>1. closing \in [Closings -> Row \cup {Absent}]
  BY DEF Inv, Typed, TypeOK
<1>2. closing[c] \in Row
  BY <1>1 DEF Absent
<1>3. ASSUME NEW s \in Sessions, Session(s)
      PROVE  \/ closing'[c] = closing[c]
             \/ closing'[c] = [closing[c] EXCEPT !.step = Asked(s).target,
                                                !.status = StatusOf[Asked(s).target]]
  <2>1. CASE CommitFirstEvaluation(s)
    BY <1>1, <1>2, <2>1 DEF CommitFirstEvaluation, Exists, Absent
  <2>2. CASE CommitEvaluation(s)
    BY <1>1, <2>2 DEF CommitEvaluation, Controllable
  <2>3. CASE CommitApproval(s) \/ CommitRejection(s)
    <3>1. closing[Asked(s).closing].state = "CONTROLS_PASSED"
      BY <2>3, HolderFacts DEF CommitApproval, CommitRejection, Locked, Stands, Subject, Asked
    <3> QED
      BY <1>1, <2>3, <3>1 DEF CommitApproval, CommitRejection
  <2>4. CASE CommitAdvance(s)
    BY <1>1, <2>4 DEF CommitAdvance
  <2>5. CASE UNCHANGED closing
    BY <2>5
  <2> QED
    BY <1>3, <2>1, <2>2, <2>3, <2>4, <2>5
       DEF Session, BeginEvaluation, BeginReview, BeginAdvance, LockReview, LockAdvance, Rollback
<1>4. CASE UNCHANGED closing
  BY <1>4
<1>5. CASE \E s \in Sessions : Session(s)
  <2>1. PICK s \in Sessions : Session(s)
    BY <1>5
  <2>2. CASE closing'[c] = [closing[c] EXCEPT !.step = Asked(s).target,
                                              !.status = StatusOf[Asked(s).target]]
    BY <1>2, <2>2 DEF Row
  <2> QED
    BY <1>3, <2>1, <2>2
<1> QED
  BY <1>4, <1>5 DEF Next, FindingsChange, CriticalChange, vars

(* A closing is approved by one person who did not request it, and only as *)
(* its controls found it without blockers (transitionClosing and           *)
(* evaluateAndRecord, under the lock of its row).                          *)
THEOREM ReviewsAreSound == Spec => []ReviewIsSound
<1>1. Inv => ReviewIsSound
  BY BooksFacts
<1> QED
  BY <1>1, InitInv, NextInv, PTL DEF Spec

(* The nineteen steps of a closing are taken one by one and each leaves    *)
(* its event; the last leaves the evidence of all (advanceAtomically,      *)
(* generate_closing_evidence_package).                                     *)
THEOREM StepsAreOnRecord == Spec => []StepsAreRecorded
<1>1. Inv => StepsAreRecorded
  BY BooksFacts
<1> QED
  BY <1>1, InitInv, NextInv, PTL DEF Spec

(* An approved closing is not evaluated or reviewed again, whatever was    *)
(* asked before its approval (evaluateAndRecord's WHERE, transitionClosing)*)
THEOREM ApprovalIsFinal == Spec => ApprovedIsFinal
<1>1. Inv /\ [Next]_vars => [\A c \in Closings : closing[c].state = "APPROVED" =>
        /\ closing'[c].state = "APPROVED"
        /\ closing'[c].checker = closing[c].checker
        /\ closing'[c].blockers = closing[c].blockers]_vars
  BY ApprovedStays
<1> QED
  BY <1>1, InitInv, NextInv, PTL DEF Spec, ApprovedIsFinal
=============================================================================
