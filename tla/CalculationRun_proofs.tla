------------------------ MODULE CalculationRun_proofs ------------------------
(***************************************************************************)
(* Maker, controller and approver of a run are three persons, whatever the *)
(* sessions that race for it: the proof, for any runs, actors, keys and    *)
(* sessions.  What a session checked under the row's lock still holds when *)
(* it commits, since whoever else would change the row has to wait.        *)
(***************************************************************************)
EXTENDS CalculationRun, TLAPS

Holds(s) == tx[s].stage = "locked"

(* The row lock is exclusive.                                              *)
OneHolder ==
  \A s, t \in Sessions : Holds(s) /\ Holds(t) /\ Request(s).run = Request(t).run => s = t

(* What was checked under the lock still holds, the obstacles excepted.    *)
CheckHolds(q) ==
  /\ q \in Decision
  /\ q.actor # run[q.run].maker
  /\ q.op = "CONTROL" => run[q.run].status = "CALCULATED"
  /\ q.op = "APPROVE" => /\ run[q.run].status = "CONTROLLED"
                         /\ q.actor # run[q.run].controller
                         /\ q.run \in Production => certified
  /\ q.op = "POST" => run[q.run].status = "APPROVED"

ChecksHold == \A s \in Sessions : Holds(s) => CheckHolds(Request(s))

(* A row is filled step by step.                                           *)
RowsAreFilled ==
  \A r \in Runs :
    /\ run[r].status = "absent" <=> run[r].basis = NoBasis
    /\ run[r].status = "absent" <=> run[r].maker = NoActor
    /\ run[r].result # NoResult => run[r].status \notin {"absent", "DRAFT"}
    /\ run[r].controller # NoActor <=> run[r].status \in {"CONTROLLED", "APPROVED", "POSTED"}
    /\ run[r].approver # NoActor <=> run[r].status \in {"APPROVED", "POSTED"}

(* What the sessions rely on, and what the rows, the actions and the       *)
(* journals say.                                                           *)
Locks == OneHolder /\ ChecksHold
Books == RowsAreFilled /\ FourEyes /\ TrailMatchesRun /\ OneRunPerBasis /\ ProductionIsCertified
Inv   == TypeOK /\ Locks /\ Books

-----------------------------------------------------------------------------
(* The five commits write one row; the other steps write none.             *)
OnlyRow(r) == \A q \in Runs : q # r => run'[q] = run[q]

Commit(s) ==
  \/ CommitInitiation(s) \/ CommitExecution(s)
  \/ CommitControl(s) \/ CommitApproval(s) \/ CommitPosting(s)

(* One step on, and nothing that is recorded changes.                      *)
FinalRow(r) ==
  /\ run'[r].status # run[r].status => <<run[r].status, run'[r].status>> \in Successor
  /\ run[r].basis # NoBasis => run'[r].basis = run[r].basis /\ run'[r].maker = run[r].maker
  /\ run[r].result # NoResult => run'[r].result = run[r].result
  /\ run[r].controller # NoActor => run'[r].controller = run[r].controller
  /\ run[r].approver # NoActor => run'[r].approver = run[r].approver

Quiet == UNCHANGED <<run, actions, journals>> /\ (certified => certified')

LEMMA InitInv == Init => Inv
<1> SUFFICES ASSUME Init PROVE Inv
  OBVIOUS
<1>1. TypeOK
  <2>1. run \in [Runs -> Row]
    BY RunAssumption DEF Init, Row, Status
  <2>2. 0 \in Version
    BY RunAssumption DEF Version
  <2>3. journals \in [Runs -> 0..2] /\ tx \in [Sessions -> {Idle} \cup Open]
    BY DEF Init
  <2> QED
    BY <2>1, <2>2, <2>3 DEF Init, TypeOK
<1>2. Locks
  BY DEF Init, Locks, OneHolder, ChecksHold, Holds, Idle
<1>3. Books
  <2>1. RowsAreFilled /\ OneRunPerBasis
    BY DEF Init, RowsAreFilled, OneRunPerBasis
  <2>2. FourEyes /\ ProductionIsCertified
    BY RunAssumption DEF Init, FourEyes, ProductionIsCertified, Reached
  <2>3. \A r, op : Deciders(r, op) = {}
    BY DEF Init, Deciders
  <2>4. TrailMatchesRun
    BY <2>3 DEF Init, TrailMatchesRun, Reached
  <2> QED
    BY <2>1, <2>2, <2>4 DEF Books
<1> QED
  BY <1>1, <1>2, <1>3 DEF Inv

LEMMA QuietBooks == Books /\ Quiet => Books'
<1> SUFFICES ASSUME Books, Quiet PROVE Books'
  OBVIOUS
<1> USE DEF Books, Quiet
<1>1. RowsAreFilled' /\ OneRunPerBasis'
  BY DEF RowsAreFilled, OneRunPerBasis
<1>2. FourEyes'
  BY DEF FourEyes, Reached
<1>3. TrailMatchesRun'
  BY DEF TrailMatchesRun, Reached, Deciders
<1>4. ProductionIsCertified'
  BY DEF ProductionIsCertified, Reached
<1> QED
  BY <1>1, <1>2, <1>3, <1>4

(* A session ends; nobody else held the row that it wrote.                 *)
LEMMA EndKeepsLocks ==
  ASSUME TypeOK, Locks, NEW s \in Sessions, NEW r \in Runs, Ends(s), OnlyRow(r),
         UNCHANGED certified,
         \A t \in Sessions \ {s} : Holds(t) => Request(t).run # r
  PROVE  Locks' /\ tx' \in [Sessions -> {Idle} \cup Open]
<1>1. /\ tx' \in [Sessions -> {Idle} \cup Open]
      /\ tx'[s] = Idle /\ \A t \in Sessions \ {s} : tx'[t] = tx[t]
  BY DEF Ends, TypeOK
<1>2. ~Holds(s)'
  BY <1>1 DEF Holds, Idle
<1>3. OneHolder'
  BY <1>1, <1>2 DEF Locks, OneHolder, Holds, Request
<1>4. ASSUME NEW t \in Sessions, Holds(t)' PROVE CheckHolds(Request(t))'
  <2>1. t # s /\ tx'[t] = tx[t] /\ Holds(t)
    BY <1>1, <1>2, <1>4 DEF Holds
  <2>2. CheckHolds(Request(t)) /\ Request(t).run # r
    BY <2>1 DEF Locks, ChecksHold
  <2>3. Request(t).run \in Runs
    BY <2>2 DEF CheckHolds, Decision, Workflow, Posting
  <2> QED
    BY <2>1, <2>2, <2>3 DEF CheckHolds, Request, OnlyRow
<1> QED
  BY <1>1, <1>3, <1>4 DEF Locks, ChecksHold

(* A row that no checked request can be about is held by nobody.           *)
LEMMA NobodyHolds ==
  ASSUME Locks, NEW r \in Runs, run[r].status \in {"absent", "DRAFT", "POSTED"}
  PROVE  \A t \in Sessions : Holds(t) => Request(t).run # r
  BY DEF Locks, ChecksHold, CheckHolds, Decision, Workflow, Posting

(* The holder of a row is alone.                                           *)
LEMMA NobodyElse ==
  ASSUME Locks, NEW s \in Sessions, Holds(s)
  PROVE  \A t \in Sessions \ {s} : Holds(t) => Request(t).run # Request(s).run
  BY DEF Locks, OneHolder

LEMMA ActionsReached ==
  ASSUME TypeOK, TrailMatchesRun, NEW a \in actions
  PROVE  /\ a.run \in Runs
         /\ run[a.run].status \in {"CONTROLLED", "APPROVED", "POSTED"}
<1>1. a \in Decision /\ a.run \in Runs /\ a.op \in {"CONTROL", "APPROVE", "POST"}
  BY DEF TypeOK, Decision, Workflow, Posting
<1>2. a.actor \in Deciders(a.run, a.op)
  BY DEF Deciders
<1>3. CASE a.op = "CONTROL"
  BY <1>1, <1>2, <1>3 DEF TrailMatchesRun, Reached
<1>4. CASE a.op = "APPROVE"
  BY <1>1, <1>2, <1>4 DEF TrailMatchesRun, Reached
<1>5. CASE a.op = "POST"
  BY <1>1, <1>2, <1>5 DEF TrailMatchesRun, Reached
<1> QED
  BY <1>1, <1>3, <1>4, <1>5

LEMMA Recorded ==
  ASSUME NEW q, actions' = actions \cup {q}
  PROVE  \A x, op :
           Deciders(x, op)' = IF x = q.run /\ op = q.op THEN Deciders(x, op) \cup {q.actor}
                              ELSE Deciders(x, op)
  BY DEF Deciders

-----------------------------------------------------------------------------
LEMMA InitiationStep ==
  ASSUME Inv, NEW s \in Sessions, CommitInitiation(s)
  PROVE  Inv' /\ \A r \in Runs : FinalRow(r)
<1> DEFINE q == Request(s)
<1>1. q \in Initiate /\ q.run \in Runs /\ q.basis \in Bases /\ q.actor \in Actors
  <2>1. tx[s] \in Open
    BY DEF Inv, TypeOK, CommitInitiation, InTransaction, Idle
  <2>2. q \in Initiate
    BY <2>1 DEF CommitInitiation, Open, Request, Decision, Workflow, Posting, Initiate, Execute
  <2> QED
    BY <2>2 DEF Initiate
<1>2. /\ run[q.run].status = "absent"
      /\ \A r \in Runs : run[r].basis # q.basis
  BY <1>1, RunAssumption DEF CommitInitiation, Unique, Inv, Books, RowsAreFilled
<1>3. /\ run' \in [Runs -> Row] /\ OnlyRow(q.run)
      /\ run'[q.run].status = "DRAFT" /\ run'[q.run].basis = q.basis
      /\ run'[q.run].maker = q.actor /\ run'[q.run].result = run[q.run].result
      /\ run'[q.run].controller = run[q.run].controller
      /\ run'[q.run].approver = run[q.run].approver
  <2>1. run' = [run EXCEPT ![q.run].status = "DRAFT", ![q.run].basis = q.basis,
                           ![q.run].maker = q.actor]
    BY DEF CommitInitiation
  <2>2. run \in [Runs -> Row]
    BY DEF Inv, TypeOK
  <2> HIDE DEF q
  <2> QED
    BY <1>1, <2>1, <2>2 DEF Row, Status, OnlyRow
<1>4. UNCHANGED <<actions, journals, inputs, certified, obstacles>> /\ Ends(s)
  BY DEF CommitInitiation
<1>5. Locks' /\ TypeOK'
  BY <1>1, <1>2, <1>3, <1>4, NobodyHolds, EndKeepsLocks DEF Inv, TypeOK
<1>6. RowsAreFilled'
  BY <1>1, <1>2, <1>3, RunAssumption DEF Inv, Books, RowsAreFilled, OnlyRow
<1>7. FourEyes'
  <2>1. \A a \in actions : a.run \in Runs /\ a.run # q.run
    BY <1>2, ActionsReached DEF Inv, Books
  <2> QED
    BY <1>3, <1>4, <2>1 DEF Inv, Books, FourEyes, Reached, OnlyRow
<1>8. TrailMatchesRun'
  BY <1>2, <1>3, <1>4 DEF Inv, Books, TrailMatchesRun, Reached, Deciders, OnlyRow
<1>9. OneRunPerBasis'
  BY <1>2, <1>3 DEF Inv, Books, OneRunPerBasis, OnlyRow
<1>10. ProductionIsCertified'
  BY <1>2, <1>3, <1>4, RunAssumption DEF Inv, Books, ProductionIsCertified, Reached, OnlyRow
<1>11. \A r \in Runs : FinalRow(r)
  BY <1>1, <1>2, <1>3 DEF Inv, Books, RowsAreFilled, FinalRow, Successor, OnlyRow
<1> QED
  BY <1>5, <1>6, <1>7, <1>8, <1>9, <1>10, <1>11 DEF Inv, Books

LEMMA ExecutionStep ==
  ASSUME Inv, NEW s \in Sessions, CommitExecution(s)
  PROVE  Inv' /\ \A r \in Runs : FinalRow(r)
<1> DEFINE r == Request(s).run
<1>1. r \in Runs /\ tx[s].snapshot.inputs \in Version
  <2>1. tx[s] \in Open
    BY DEF Inv, TypeOK, CommitExecution, InTransaction, Idle
  <2>2. tx[s] \in [stage: {"begun"}, request: Initiate \cup Execute, snapshot: Snapshot]
    BY <2>1 DEF CommitExecution, Open, Request, Decision, Workflow, Posting
  <2> QED
    BY <2>2 DEF Request, Initiate, Execute, Snapshot
<1>2. run[r].status = "DRAFT"
  BY DEF CommitExecution, UnchangedSince
<1>3. /\ run' \in [Runs -> Row] /\ OnlyRow(r)
      /\ run'[r].status = "CALCULATED" /\ run'[r].basis = run[r].basis
      /\ run'[r].maker = run[r].maker
      /\ run'[r].controller = run[r].controller /\ run'[r].approver = run[r].approver
  BY <1>1 DEF CommitExecution, Inv, TypeOK, Row, Status, OnlyRow
<1>4. UNCHANGED <<actions, journals, inputs, certified, obstacles>> /\ Ends(s)
  BY DEF CommitExecution
<1>5. Locks' /\ TypeOK'
  BY <1>1, <1>2, <1>3, <1>4, NobodyHolds, EndKeepsLocks DEF Inv, TypeOK
<1>6. RowsAreFilled'
  BY <1>1, <1>2, <1>3 DEF Inv, Books, RowsAreFilled, OnlyRow
<1>7. FourEyes'
  BY <1>2, <1>3, <1>4, ActionsReached DEF Inv, Books, FourEyes, Reached, OnlyRow
<1>8. TrailMatchesRun'
  BY <1>2, <1>3, <1>4 DEF Inv, Books, TrailMatchesRun, Reached, Deciders, OnlyRow
<1>9. OneRunPerBasis'
  BY <1>3 DEF Inv, Books, OneRunPerBasis, OnlyRow
<1>10. ProductionIsCertified'
  BY <1>2, <1>3, <1>4, RunAssumption DEF Inv, Books, ProductionIsCertified, Reached, OnlyRow
<1>11. \A q \in Runs : FinalRow(q)
  BY <1>2, <1>3 DEF Inv, Books, RowsAreFilled, FinalRow, Successor, OnlyRow
<1> QED
  BY <1>5, <1>6, <1>7, <1>8, <1>9, <1>10, <1>11 DEF Inv, Books

LEMMA ControlStep ==
  ASSUME Inv, NEW s \in Sessions, CommitControl(s)
  PROVE  Inv' /\ \A r \in Runs : FinalRow(r)
<1> DEFINE q == Request(s)
<1>1. /\ q \in Decision /\ q.run \in Runs /\ q.actor \in Actors /\ q.op = "CONTROL"
      /\ run[q.run].status = "CALCULATED" /\ q.actor # run[q.run].maker
  BY DEF CommitControl, Inv, Locks, ChecksHold, CheckHolds, Holds, Decision, Workflow, Posting
<1>2. /\ run' \in [Runs -> Row] /\ OnlyRow(q.run)
      /\ run'[q.run].status = "CONTROLLED" /\ run'[q.run].controller = q.actor
      /\ run'[q.run].basis = run[q.run].basis /\ run'[q.run].maker = run[q.run].maker
      /\ run'[q.run].result = run[q.run].result /\ run'[q.run].approver = run[q.run].approver
  BY <1>1 DEF CommitControl, Inv, TypeOK, Row, Status, OnlyRow
<1>3. actions' = actions \cup {q} /\ UNCHANGED <<journals, inputs, certified, obstacles>> /\ Ends(s)
  BY DEF CommitControl, Records
<1>4. Locks' /\ TypeOK'
  <2>1. Locks' /\ tx' \in [Sessions -> {Idle} \cup Open]
    BY <1>1, <1>2, <1>3, NobodyElse, EndKeepsLocks DEF Inv, CommitControl, Holds
  <2> QED
    BY <1>1, <1>2, <1>3, <2>1 DEF Inv, TypeOK
<1>5. RowsAreFilled'
  BY <1>1, <1>2, RunAssumption DEF Inv, Books, RowsAreFilled, OnlyRow
<1>6. FourEyes'
  BY <1>1, <1>2, <1>3, ActionsReached DEF Inv, Books, FourEyes, Reached, OnlyRow
<1>7. TrailMatchesRun'
  <2>1. \A a \in actions : ~(a.op = "CONTROL" /\ a.run = q.run)
    BY <1>1, ActionsReached DEF Inv, Books
  <2>2. \A a, b \in actions' : a.op = b.op /\ a.run = b.run => a = b
    BY <1>1, <1>3, <2>1 DEF Inv, Books, TrailMatchesRun
  <2>3. Deciders(q.run, "CONTROL") = {}
    BY <2>1 DEF Deciders
  <2> QED
    BY <1>1, <1>2, <1>3, <2>2, <2>3, Recorded DEF Inv, Books, TrailMatchesRun, Reached, OnlyRow
<1>8. OneRunPerBasis'
  BY <1>2 DEF Inv, Books, OneRunPerBasis, OnlyRow
<1>9. ProductionIsCertified'
  BY <1>1, <1>2, <1>3, RunAssumption DEF Inv, Books, ProductionIsCertified, Reached, OnlyRow
<1>10. \A r \in Runs : FinalRow(r)
  BY <1>1, <1>2 DEF Inv, Books, RowsAreFilled, FinalRow, Successor, OnlyRow
<1> QED
  BY <1>4, <1>5, <1>6, <1>7, <1>8, <1>9, <1>10 DEF Inv, Books

LEMMA ApprovalStep ==
  ASSUME Inv, NEW s \in Sessions, CommitApproval(s)
  PROVE  Inv' /\ \A r \in Runs : FinalRow(r)
<1> DEFINE q == Request(s)
<1>1. /\ q \in Decision /\ q.run \in Runs /\ q.actor \in Actors /\ q.op = "APPROVE"
      /\ run[q.run].status = "CONTROLLED" /\ q.actor # run[q.run].maker
      /\ q.actor # run[q.run].controller /\ (q.run \in Production => certified)
  BY DEF CommitApproval, Inv, Locks, ChecksHold, CheckHolds, Holds, Decision, Workflow, Posting
<1>2. /\ run' \in [Runs -> Row] /\ OnlyRow(q.run)
      /\ run'[q.run].status = "APPROVED" /\ run'[q.run].approver = q.actor
      /\ run'[q.run].basis = run[q.run].basis /\ run'[q.run].maker = run[q.run].maker
      /\ run'[q.run].result = run[q.run].result /\ run'[q.run].controller = run[q.run].controller
  BY <1>1 DEF CommitApproval, Inv, TypeOK, Row, Status, OnlyRow
<1>3. actions' = actions \cup {q} /\ UNCHANGED <<journals, inputs, certified, obstacles>> /\ Ends(s)
  BY DEF CommitApproval, Records
<1>4. Locks' /\ TypeOK'
  <2>1. Locks' /\ tx' \in [Sessions -> {Idle} \cup Open]
    BY <1>1, <1>2, <1>3, NobodyElse, EndKeepsLocks DEF Inv, CommitApproval, Holds
  <2> QED
    BY <1>1, <1>2, <1>3, <2>1 DEF Inv, TypeOK
<1>5. RowsAreFilled'
  BY <1>1, <1>2, RunAssumption DEF Inv, Books, RowsAreFilled, OnlyRow
<1>6. FourEyes'
  BY <1>1, <1>2, <1>3, ActionsReached DEF Inv, Books, FourEyes, Reached, OnlyRow
<1>7. TrailMatchesRun'
  <2>1. Deciders(q.run, "APPROVE") = {}
    BY <1>1 DEF Inv, Books, TrailMatchesRun, Reached
  <2>2. \A a \in actions : ~(a.op = "APPROVE" /\ a.run = q.run)
    BY <2>1 DEF Deciders
  <2>3. \A a, b \in actions' : a.op = b.op /\ a.run = b.run => a = b
    BY <1>1, <1>3, <2>2 DEF Inv, Books, TrailMatchesRun
  <2> QED
    BY <1>1, <1>2, <1>3, <2>1, <2>3, Recorded DEF Inv, Books, TrailMatchesRun, Reached, OnlyRow
<1>8. OneRunPerBasis'
  BY <1>2 DEF Inv, Books, OneRunPerBasis, OnlyRow
<1>9. ProductionIsCertified'
  BY <1>1, <1>2, <1>3, RunAssumption DEF Inv, Books, ProductionIsCertified, Reached, OnlyRow
<1>10. \A r \in Runs : FinalRow(r)
  BY <1>1, <1>2 DEF Inv, Books, RowsAreFilled, FinalRow, Successor, OnlyRow
<1> QED
  BY <1>4, <1>5, <1>6, <1>7, <1>8, <1>9, <1>10 DEF Inv, Books

LEMMA PostingStep ==
  ASSUME Inv, NEW s \in Sessions, CommitPosting(s)
  PROVE  Inv' /\ \A r \in Runs : FinalRow(r)
<1> DEFINE q == Request(s)
<1>1. /\ q \in Decision /\ q.run \in Runs /\ q.actor \in Actors /\ q.op = "POST"
      /\ run[q.run].status = "APPROVED" /\ q.actor # run[q.run].maker
  BY DEF CommitPosting, Inv, Locks, ChecksHold, CheckHolds, Holds, Decision, Workflow, Posting
<1>2. /\ run' \in [Runs -> Row] /\ OnlyRow(q.run)
      /\ run'[q.run].status = "POSTED" /\ run'[q.run].approver = run[q.run].approver
      /\ run'[q.run].basis = run[q.run].basis /\ run'[q.run].maker = run[q.run].maker
      /\ run'[q.run].result = run[q.run].result /\ run'[q.run].controller = run[q.run].controller
  BY <1>1 DEF CommitPosting, Inv, TypeOK, Row, Status, OnlyRow
<1>3. actions' = actions \cup {q} /\ UNCHANGED <<inputs, certified, obstacles>> /\ Ends(s)
  BY DEF CommitPosting, Records
<1>4. /\ journals[q.run] = 0 /\ journals'[q.run] = 1 /\ journals' \in [Runs -> 0..2]
      /\ \A r \in Runs : r # q.run => journals'[r] = journals[r]
  <2>1. journals[q.run] = 0
    BY <1>1 DEF Inv, Books, TrailMatchesRun, Reached
  <2> QED
    BY <1>1, <2>1 DEF CommitPosting, Inv, TypeOK
<1>5. Locks' /\ TypeOK'
  <2>1. Locks' /\ tx' \in [Sessions -> {Idle} \cup Open]
    BY <1>1, <1>2, <1>3, NobodyElse, EndKeepsLocks DEF Inv, CommitPosting, Holds
  <2> QED
    BY <1>1, <1>2, <1>3, <1>4, <2>1 DEF Inv, TypeOK
<1>6. RowsAreFilled'
  BY <1>1, <1>2, RunAssumption DEF Inv, Books, RowsAreFilled, OnlyRow
<1>7. FourEyes'
  BY <1>1, <1>2, <1>3, ActionsReached DEF Inv, Books, FourEyes, Reached, OnlyRow
<1>8. TrailMatchesRun'
  <2>1. Deciders(q.run, "POST") = {}
    BY <1>1 DEF Inv, Books, TrailMatchesRun, Reached
  <2>2. \A a \in actions : ~(a.op = "POST" /\ a.run = q.run)
    BY <2>1 DEF Deciders
  <2>3. \A a, b \in actions' : a.op = b.op /\ a.run = b.run => a = b
    BY <1>1, <1>3, <2>2 DEF Inv, Books, TrailMatchesRun
  <2>4. \A r, op : Deciders(r, op)' =
          IF r = q.run /\ op = q.op THEN Deciders(r, op) \cup {q.actor} ELSE Deciders(r, op)
    BY <1>3, Recorded
  <2>5. ASSUME NEW r \in Runs
        PROVE  /\ journals'[r] = IF Reached(r, "POSTED")' THEN 1 ELSE 0
               /\ Deciders(r, "POST")' # {} <=> Reached(r, "POSTED")'
               /\ Deciders(r, "CONTROL")' = IF Reached(r, "CONTROLLED")' THEN {run'[r].controller} ELSE {}
               /\ Deciders(r, "APPROVE")' = IF Reached(r, "APPROVED")' THEN {run'[r].approver} ELSE {}
    <3>1. CASE r # q.run
      BY <3>1, <1>2, <1>4, <2>4 DEF Inv, Books, TrailMatchesRun, Reached, OnlyRow
    <3>2. CASE r = q.run
      <4>1. /\ Deciders(r, "CONTROL")' = Deciders(r, "CONTROL")
            /\ Deciders(r, "APPROVE")' = Deciders(r, "APPROVE")
            /\ q.actor \in Deciders(r, "POST")'
        BY <3>2, <1>1, <2>4
      <4>2. /\ Deciders(r, "CONTROL") = {run[r].controller}
            /\ Deciders(r, "APPROVE") = {run[r].approver}
        BY <3>2, <1>1 DEF Inv, Books, TrailMatchesRun, Reached
      <4>3. Reached(r, "CONTROLLED")' /\ Reached(r, "APPROVED")' /\ Reached(r, "POSTED")'
        BY <3>2, <1>2 DEF Reached
      <4> QED
        BY <3>2, <1>2, <1>4, <4>1, <4>2, <4>3
    <3> QED
      BY <3>1, <3>2
  <2> QED
    BY <2>3, <2>5 DEF TrailMatchesRun
<1>9. OneRunPerBasis'
  BY <1>2 DEF Inv, Books, OneRunPerBasis, OnlyRow
<1>10. ProductionIsCertified'
  BY <1>1, <1>2, <1>3, RunAssumption DEF Inv, Books, ProductionIsCertified, Reached, OnlyRow
<1>11. \A r \in Runs : FinalRow(r)
  BY <1>1, <1>2 DEF Inv, Books, RowsAreFilled, FinalRow, Successor, OnlyRow
<1> QED
  BY <1>5, <1>6, <1>7, <1>8, <1>9, <1>10, <1>11 DEF Inv, Books

-----------------------------------------------------------------------------
(* The steps that write no row.                                            *)
LEMMA QuietLocks ==
  ASSUME Locks, Quiet, NEW s \in Sessions, ~Holds(s)',
         \A t \in Sessions : t # s => tx'[t] = tx[t]
  PROVE  Locks'
<1>1. \A t \in Sessions : Holds(t)' => Holds(t) /\ tx'[t] = tx[t]
  BY DEF Holds
<1>2. OneHolder'
  BY <1>1 DEF Locks, OneHolder, Request
<1>3. ASSUME NEW t \in Sessions, Holds(t)' PROVE CheckHolds(Request(t))'
  <2>1. CheckHolds(Request(t)) /\ tx'[t] = tx[t]
    BY <1>1, <1>3 DEF Locks, ChecksHold
  <2> QED
    BY <2>1 DEF CheckHolds, Request, Quiet
<1> QED
  BY <1>2, <1>3 DEF Locks, ChecksHold

LEMMA SnapshotStep ==
  ASSUME Inv, NEW s \in Sessions, NEW q \in Initiate \cup Execute, BeginSnapshot(s, q)
  PROVE  Inv'
<1> DEFINE opened == [stage |-> "begun", request |-> q,
                      snapshot |-> [status |-> [r \in Runs |-> run[r].status], inputs |-> inputs]]
<1>1. tx' = [tx EXCEPT ![s] = opened] /\ UNCHANGED <<run, actions, journals, inputs, certified, obstacles>>
  BY DEF BeginSnapshot
<1>2. opened \in Open /\ opened.stage = "begun"
  <2>1. [r \in Runs |-> run[r].status] \in [Runs -> Status] /\ inputs \in Version
    BY DEF Inv, TypeOK, Row
  <2> QED
    BY <2>1 DEF Open, Snapshot
<1> HIDE DEF opened
<1>3. TypeOK'
  BY <1>1, <1>2 DEF Inv, TypeOK
<1>4. Locks'
  <2>1. tx'[s] = opened /\ \A t \in Sessions : t # s => tx'[t] = tx[t]
    BY <1>1 DEF Inv, TypeOK
  <2> QED
    BY <1>1, <1>2, <2>1, QuietLocks DEF Inv, Quiet, Holds
<1> QED
  BY <1>1, <1>3, <1>4, QuietBooks DEF Inv, Quiet

LEMMA BeginStep ==
  ASSUME Inv, NEW s \in Sessions, NEW q \in Decision, Begin(s, q)
  PROVE  Inv'
<1> DEFINE opened == [stage |-> "begun", request |-> q]
<1>1. tx' = [tx EXCEPT ![s] = opened] /\ UNCHANGED <<run, actions, journals, inputs, certified, obstacles>>
  BY DEF Begin
<1>2. opened \in Open /\ opened.stage = "begun"
  BY DEF Open
<1> HIDE DEF opened
<1>3. TypeOK'
  BY <1>1, <1>2 DEF Inv, TypeOK
<1>4. Locks'
  <2>1. tx'[s] = opened /\ \A t \in Sessions : t # s => tx'[t] = tx[t]
    BY <1>1 DEF Inv, TypeOK
  <2> QED
    BY <1>1, <1>2, <2>1, QuietLocks DEF Inv, Quiet, Holds
<1> QED
  BY <1>1, <1>3, <1>4, QuietBooks DEF Inv, Quiet

LEMMA RollbackStep ==
  ASSUME Inv, NEW s \in Sessions, Rollback(s)
  PROVE  Inv'
<1>1. /\ tx' \in [Sessions -> {Idle} \cup Open]
      /\ tx'[s] = Idle /\ \A t \in Sessions : t # s => tx'[t] = tx[t]
      /\ UNCHANGED <<run, actions, journals, inputs, certified, obstacles>>
  BY DEF Rollback, Ends, Inv, TypeOK
<1>2. TypeOK'
  BY <1>1 DEF Inv, TypeOK
<1>3. Locks'
  BY <1>1, QuietLocks DEF Inv, Quiet, Holds, Idle
<1> QED
  BY <1>1, <1>2, <1>3, QuietBooks DEF Inv, Quiet

LEMMA LockStep ==
  ASSUME Inv, NEW s \in Sessions, LockAndCheck(s)
  PROVE  Inv'
<1> DEFINE q == Request(s)
<1>1. /\ q \in Decision /\ RowFree(s, q.run) /\ CheckHolds(q)
      /\ UNCHANGED <<run, actions, journals, inputs, certified, obstacles>>
  BY DEF LockAndCheck, CheckHolds, MayControl, MayApprove, MayPost
<1>2. /\ tx'[s].stage = "locked" /\ tx'[s].request = q /\ tx'[s] \in Open
      /\ \A t \in Sessions : t # s => tx'[t] = tx[t]
      /\ tx' \in [Sessions -> {Idle} \cup Open]
  <2>1. tx[s] \in Open
    BY DEF LockAndCheck, Inv, TypeOK, Idle
  <2>2. tx[s] \in [stage: {"begun", "locked"}, request: Decision]
    BY <1>1, <2>1 DEF Open, Request, Decision, Workflow, Posting, Initiate, Execute
  <2>3. [tx[s] EXCEPT !.stage = "locked"] \in [stage: {"begun", "locked"}, request: Decision]
    BY <2>2
  <2>4. tx'[s] = [tx[s] EXCEPT !.stage = "locked"] /\ \A t \in Sessions : t # s => tx'[t] = tx[t]
    BY DEF LockAndCheck, Inv, TypeOK
  <2>5. tx' = [tx EXCEPT ![s] = [tx[s] EXCEPT !.stage = "locked"]]
    BY DEF LockAndCheck
  <2>6. [tx[s] EXCEPT !.stage = "locked"] \in Open
    BY <2>3 DEF Open
  <2> QED
    BY <2>2, <2>4, <2>5, <2>6 DEF Inv, TypeOK, Request
<1>3. TypeOK'
  BY <1>1, <1>2 DEF Inv, TypeOK
<1>4. OneHolder'
  BY <1>1, <1>2 DEF Inv, Locks, OneHolder, Holds, RowFree, Request
<1>5. ChecksHold'
  <2> SUFFICES ASSUME NEW t \in Sessions, Holds(t)' PROVE CheckHolds(Request(t))'
    BY DEF ChecksHold
  <2>1. CheckHolds(tx'[t].request)
    BY <1>1, <1>2 DEF Inv, Locks, ChecksHold, Holds, Request
  <2> QED
    BY <1>1, <2>1 DEF CheckHolds, Request
<1> QED
  BY <1>1, <1>3, <1>4, <1>5, QuietBooks DEF Inv, Locks, Quiet

(* What happens outside of the sessions.                                   *)
LEMMA OutsideStep ==
  ASSUME Inv,
         \/ \E o \in Obstacle : ObstacleAppears(o) \/ ObstacleSettled(o)
         \/ ChangeInputs \/ Certify
  PROVE  Inv'
<1>1. Quiet /\ UNCHANGED tx
  BY DEF Quiet, ObstacleAppears, ObstacleSettled, ChangeInputs, Certify
<1>2. inputs' \in Version /\ certified' \in BOOLEAN /\ obstacles' \subseteq Obstacle
  <2>1. inputs \in Version /\ certified \in BOOLEAN /\ obstacles \subseteq Obstacle
    BY DEF Inv, TypeOK
  <2>2. inputs < MaxInputs => inputs + 1 \in Version
    BY <2>1, RunAssumption DEF Version
  <2>3. CASE ChangeInputs
    BY <2>1, <2>2, <2>3 DEF ChangeInputs
  <2>4. CASE Certify
    BY <2>1, <2>4 DEF Certify
  <2>5. ASSUME NEW o \in Obstacle, ObstacleAppears(o) \/ ObstacleSettled(o)
        PROVE  inputs' \in Version /\ certified' \in BOOLEAN /\ obstacles' \subseteq Obstacle
    BY <2>1, <2>5 DEF ObstacleAppears, ObstacleSettled
  <2> QED
    BY <2>3, <2>4, <2>5
<1>3. TypeOK'
  BY <1>1, <1>2 DEF Inv, TypeOK, Quiet
<1>4. Locks'
  BY <1>1 DEF Inv, Locks, OneHolder, ChecksHold, CheckHolds, Holds, Request, Quiet
<1> QED
  BY <1>1, <1>3, <1>4, QuietBooks DEF Inv

LEMMA InvStep == Inv /\ [Next]_vars => Inv'
<1> SUFFICES ASSUME Inv, [Next]_vars PROVE Inv'
  OBVIOUS
<1>1. CASE UNCHANGED vars
  <2>1. TypeOK'
    BY <1>1 DEF vars, Inv, TypeOK
  <2>2. Locks'
    BY <1>1 DEF vars, Inv, Locks, OneHolder, ChecksHold, CheckHolds, Holds, Request
  <2> QED
    BY <1>1, <2>1, <2>2, QuietBooks DEF vars, Inv, Quiet
<1>2. ASSUME NEW s \in Sessions, Session(s) PROVE Inv'
  BY <1>2, SnapshotStep, BeginStep, InitiationStep, ExecutionStep, LockStep, ControlStep,
     ApprovalStep, PostingStep, RollbackStep
     DEF Session
<1> QED
  BY <1>1, <1>2, OutsideStep DEF Next

LEMMA Invariance == Spec => []Inv
<1> QED
  BY InitInv, InvStep, PTL DEF Spec

-----------------------------------------------------------------------------
(* Maker, controller and approver are three persons, and a production run  *)
(* passes approval only once the opening balances are certified.           *)
THEOREM Approval == Spec => []ApprovalIsSound
<1>1. Inv => ApprovalIsSound
  BY DEF Inv, Books, ApprovalIsSound
<1> QED
  BY <1>1, Invariance, PTL

(* The actions, the run and its one journal entry tell the same story.     *)
THEOREM Trail == Spec => []TrailMatchesRun
<1>1. Inv => TrailMatchesRun
  BY DEF Inv, Books
<1> QED
  BY <1>1, Invariance, PTL

(* Two initiations of one basis never both succeed.                        *)
THEOREM OneRun == Spec => []OneRunPerBasis
<1>1. Inv => OneRunPerBasis
  BY DEF Inv, Books
<1> QED
  BY <1>1, Invariance, PTL

LEMMA FinalStep == Inv /\ [Next]_vars => [\A r \in Runs : FinalRow(r)]_run
<1> SUFFICES ASSUME Inv, [Next]_vars, run' # run PROVE \A r \in Runs : FinalRow(r)
  OBVIOUS
<1>1. PICK s \in Sessions : Commit(s)
  BY DEF Next, Session, Commit, vars, BeginSnapshot, Begin, LockAndCheck, Rollback,
     ObstacleAppears, ObstacleSettled, ChangeInputs, Certify
<1> QED
  BY <1>1, InitiationStep, ExecutionStep, ControlStep, ApprovalStep, PostingStep DEF Commit

(* What has been recorded of a run never changes, and its states follow    *)
(* each other one by one: no late execution or control replaces another.   *)
THEOREM Final == Spec => RecordedIsFinal
<1> QED
  BY FinalStep, Invariance, PTL DEF Spec, RecordedIsFinal, FinalRow
==============================================================================
