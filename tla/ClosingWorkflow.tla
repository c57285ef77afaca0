---------------------------- MODULE ClosingWorkflow ----------------------------
(***************************************************************************)
(* The closing of a business date.  Three writers share the closing's row: *)
(* the closing worker evaluates the controls (REPEATABLE READ, again for   *)
(* every request it receives), a checker approves or rejects, and the      *)
(* nineteen steps are advanced (both READ COMMITTED).  Sessions are        *)
(* transactions that interleave and may roll back at any point before      *)
(* their commit, which is also what every failed check of the code does.   *)
(***************************************************************************)
EXTENDS Naturals, Sequences, FiniteSets

CONSTANTS
  Closings,
  Requests,    (* closing requests: [closing, date, by]                    *)
  Dates,
  Actors, NoActor,
  Blockers,    (* what the controls may find                               *)
  Commands,    (* what people may ask: reviews and steps                   *)
  Keys,        (* idempotency keys                                         *)
  PastKey,     (* the key of steps taken before                            *)
  Starts,      (* the steps at which closings are met                      *)
  Sessions

ASSUME ClosingAssumption ==
  /\ \A q \in Requests : q.closing \in Closings /\ q.date \in Dates /\ q.by \in Actors
  /\ \A q \in Commands : q.closing \in Closings /\ q.key \in Keys
  /\ NoActor \notin Actors /\ PastKey \notin Keys
  /\ Starts \subseteq 1..18

VARIABLES
  closing,    (* workflow.closing_period                                   *)
  steps,      (* workflow.closing_step_event, by closing                   *)
  trail,      (* workflow.approval_action of closings                      *)
  evidence,   (* workflow.closing_evidence_package, by closing             *)
  findings,   (* what a control of a date finds now                        *)
  critical,   (* closings with an unresolved critical exception            *)
  tx

vars == <<closing, steps, trail, evidence, findings, critical, tx>>

-----------------------------------------------------------------------------
(* CLOSING_STEPS by their numbers.                                         *)
LastStep        == 19
ProvisionalStep == 7

(* STATUS_BY_STEP.                                                         *)
StatusOf ==
  <<"DRAFT", "DRAFT", "FED", "FED", "RECONCILED", "RECONCILED", "CALCULATED", "CALCULATED",
    "CALCULATED", "IN_VALIDATION", "IN_VALIDATION", "IN_VALIDATION", "APPROVED", "APPROVED",
    "ACCOUNTED", "PAID", "PAID", "PAID", "CLOSED">>

Step   == 1..LastStep
Status == {StatusOf[n] : n \in Step} \cup {"ANOMALY"}
State  == {"CONTROLS_PASSED", "BLOCKED", "APPROVED"}

Row == [state: State, date: Dates, by: Actors, blockers: SUBSET Blockers,
        checker: Actors \cup {NoActor}, step: Step, status: Status]

Absent == [state |-> "absent"]

Review  == [op: {"APPROVE", "REJECT"}, closing: Closings, actor: Actors, key: Keys]
(* sound: the evidence shows green controls or accepts every anomaly.      *)
Advance == [op: {"ADVANCE"}, closing: Closings, target: Step, sound: BOOLEAN, key: Keys]
Evaluate == [op: {"EVALUATE"}, closing: Closings, date: Dates, by: Actors]

StepEvent == [step: Step, status: Status, sound: BOOLEAN, key: Keys \cup {PastKey}]

Idle == [stage |-> "idle"]
Open == [stage: {"begun", "locked"}, request: Review \cup Advance]
          \cup [stage: {"begun"}, request: Evaluate, seen: SUBSET Blockers, current: BOOLEAN]

(* The type invariant.                                                     *)
TypeOK ==
  /\ closing \in [Closings -> Row \cup {Absent}]
  /\ \A c \in Closings : \A i \in DOMAIN steps[c] : steps[c][i] \in StepEvent
  /\ trail \subseteq Review
  /\ \A c \in Closings : evidence[c].trail \subseteq Review
  /\ findings \in [Dates -> SUBSET Blockers]
  /\ critical \subseteq Closings
  /\ tx \in [Sessions -> {Idle} \cup Open]

Exists(c) == closing[c] # Absent

(* The state the controls lead to.                                         *)
Decided(blockers) == IF blockers = {} THEN "CONTROLS_PASSED" ELSE "BLOCKED"

NewRow(q, blockers) ==
  [state |-> Decided(blockers), date |-> q.date, by |-> q.by, blockers |-> blockers,
   checker |-> NoActor, step |-> 1, status |-> StatusOf[1]]

NoEvidence == [steps |-> <<>>, trail |-> {}]

Past(n) ==
  [i \in 1..(n - 1) |-> [step |-> i + 1, status |-> StatusOf[i + 1], sound |-> TRUE, key |-> PastKey]]

(* Nothing yet, or one closing whose controls have been evaluated and that *)
(* has been advanced.                                                      *)
Init ==
  /\ findings \in [Dates -> SUBSET Blockers]
  /\ \/ /\ closing = [c \in Closings |-> Absent]
        /\ steps = [c \in Closings |-> <<>>]
     \/ \E q \in Requests, n \in Starts :
          /\ closing = [c \in Closings |->
               IF c = q.closing THEN [NewRow(q, findings[q.date]) EXCEPT !.step = n, !.status = StatusOf[n]]
               ELSE Absent]
          /\ steps = [c \in Closings |-> IF c = q.closing THEN Past(n) ELSE <<>>]
  /\ trail = {}
  /\ evidence = [c \in Closings |-> NoEvidence]
  /\ critical = {}
  /\ tx = [s \in Sessions |-> Idle]

-----------------------------------------------------------------------------
Asked(s)   == tx[s].request
Running(s) == tx[s].stage # "idle"

(* SELECT ... FOR UPDATE of the closing's row.                             *)
RowFree(s, c) ==
  \A t \in Sessions \ {s} : tx[t].stage = "locked" => Asked(t).closing # c

Ends(s) == tx' = [tx EXCEPT ![s] = Idle]

(* A row that is written is no longer what older snapshots show.           *)
EndsWriting(s, c) ==
  tx' = [t \in Sessions |->
           CASE t = s -> Idle
             [] t # s /\ Running(t) /\ Asked(t).op = "EVALUATE" /\ Asked(t).closing = c
                  -> [tx[t] EXCEPT !.current = FALSE]
             [] OTHER -> tx[t]]

-----------------------------------------------------------------------------
(* evaluateAndRecord.  The snapshot is taken by the statement that waits   *)
(* for the lock of the date: the controls are read as they were then.      *)
BeginEvaluation(s, q) ==
  /\ ~Running(s)
  /\ tx' = [tx EXCEPT ![s] =
       [stage |-> "begun", request |-> [op |-> "EVALUATE", closing |-> q.closing, date |-> q.date, by |-> q.by],
        seen |-> findings[q.date], current |-> TRUE]]
  /\ UNCHANGED <<closing, steps, trail, evidence, findings, critical>>

(* The unique index on the business date.                                  *)
DateUnused(q) == \A c \in Closings : Exists(c) => closing[c].date # q.date

(* The first request of a closing inserts its row.                         *)
CommitFirstEvaluation(s) ==
  /\ Running(s) /\ Asked(s).op = "EVALUATE"
  /\ LET q == Asked(s) IN
       /\ ~Exists(q.closing)
       /\ DateUnused(q)
       /\ closing' = [closing EXCEPT ![q.closing] = NewRow(q, tx[s].seen)]
       /\ EndsWriting(s, q.closing)
  /\ UNCHANGED <<steps, trail, evidence, findings, critical>>

(* Mutant: the UPDATE does not ask for the state.                          *)
ControllableAlways(row) == TRUE

(* UPDATE ... WHERE state IN ('REQUESTED', 'BLOCKED', 'CONTROLS_PASSED').  *)
Controllable(row) == row.state \in {"BLOCKED", "CONTROLS_PASSED"}

(* A later request: the same requester and date, on a row that nobody      *)
(* wrote since the snapshot.                                               *)
CommitEvaluation(s) ==
  /\ Running(s) /\ Asked(s).op = "EVALUATE"
  /\ LET q == Asked(s) IN
       /\ Exists(q.closing)
       /\ RowFree(s, q.closing) /\ tx[s].current
       /\ closing[q.closing].date = q.date /\ closing[q.closing].by = q.by
       /\ Controllable(closing[q.closing])
       /\ closing' = [closing EXCEPT ![q.closing].state = Decided(tx[s].seen),
                                     ![q.closing].blockers = tx[s].seen]
       /\ EndsWriting(s, q.closing)
  /\ UNCHANGED <<steps, trail, evidence, findings, critical>>

-----------------------------------------------------------------------------
(* transition of a closing.  A used key answers its replay, or is refused, *)
(* and writes nothing; its lock is held from here on.                      *)
KeyFree(s, k) ==
  \A t \in Sessions \ {s} : Running(t) /\ Asked(t) \in Review => Asked(t).key # k

Used(k) == \E a \in trail : a.key = k

BeginReview(s, q) ==
  /\ ~Running(s) /\ q \in Review
  /\ KeyFree(s, q.key) /\ ~Used(q.key)
  /\ tx' = [tx EXCEPT ![s] = [stage |-> "begun", request |-> q]]
  /\ UNCHANGED <<closing, steps, trail, evidence, findings, critical>>

(* Mutant: the state is not asked for.                                     *)
LockReviewAnyState(s) ==
  /\ tx[s].stage = "begun" /\ Asked(s) \in Review
  /\ LET q == Asked(s) IN
       /\ Exists(q.closing)
       /\ RowFree(s, q.closing)
       /\ closing[q.closing].by # q.actor
  /\ tx' = [tx EXCEPT ![s].stage = "locked"]
  /\ UNCHANGED <<closing, steps, trail, evidence, findings, critical>>

(* transitionClosing.                                                      *)
LockReview(s) ==
  /\ tx[s].stage = "begun" /\ Asked(s) \in Review
  /\ LET q == Asked(s) IN
       /\ RowFree(s, q.closing)
       /\ closing[q.closing].state = "CONTROLS_PASSED"
       /\ closing[q.closing].by # q.actor
  /\ tx' = [tx EXCEPT ![s].stage = "locked"]
  /\ UNCHANGED <<closing, steps, trail, evidence, findings, critical>>

(* INSERT INTO approval_action: the primary key, and one action of a kind  *)
(* by each person on each closing.                                         *)
Records(q) ==
  /\ ~Used(q.key)
  /\ ~\E a \in trail : a.op = q.op /\ a.closing = q.closing /\ a.actor = q.actor
  /\ trail' = trail \cup {q}

CommitApproval(s) ==
  /\ tx[s].stage = "locked" /\ Asked(s).op = "APPROVE"
  /\ LET q == Asked(s) IN
       /\ closing' = [closing EXCEPT ![q.closing].state = "APPROVED", ![q.closing].checker = q.actor]
       /\ Records(q)
       /\ EndsWriting(s, q.closing)
  /\ UNCHANGED <<steps, evidence, findings, critical>>

(* With the rejection, which repeats the action.                           *)
CommitRejection(s) ==
  /\ tx[s].stage = "locked" /\ Asked(s).op = "REJECT"
  /\ LET q == Asked(s) IN
       /\ closing' = [closing EXCEPT ![q.closing].state = "BLOCKED", ![q.closing].checker = q.actor,
                                     ![q.closing].status = "ANOMALY"]
       /\ Records(q)
       /\ EndsWriting(s, q.closing)
  /\ UNCHANGED <<steps, evidence, findings, critical>>

-----------------------------------------------------------------------------
(* advanceAtomically.  The lock of the closing's workflow is held from     *)
(* here on; a key the closing has used answers its replay.                 *)
BeginAdvance(s, q) ==
  /\ ~Running(s) /\ q \in Advance
  /\ \A t \in Sessions \ {s} : Running(t) /\ Asked(t) \in Advance => Asked(t).closing # q.closing
  /\ \A i \in DOMAIN steps[q.closing] : steps[q.closing][i].key # q.key
  /\ tx' = [tx EXCEPT ![s] = [stage |-> "begun", request |-> q]]
  /\ UNCHANGED <<closing, steps, trail, evidence, findings, critical>>

(* advanceClosingWorkflow.                                                 *)
MayAdvance(row, q) ==
  /\ row.status # "CLOSED"
  /\ q.target = row.step + 1
  /\ q.target >= ProvisionalStep => q.sound

LockAdvance(s) ==
  /\ tx[s].stage = "begun" /\ Asked(s) \in Advance
  /\ LET q == Asked(s) IN
       /\ Exists(q.closing)
       /\ RowFree(s, q.closing)
       /\ MayAdvance(closing[q.closing], q)
  /\ tx' = [tx EXCEPT ![s].stage = "locked"]
  /\ UNCHANGED <<closing, steps, trail, evidence, findings, critical>>

(* Mutant: the package is made before the event of the last step.          *)
PackageBefore(c, events) ==
  evidence' = [evidence EXCEPT ![c] = [steps |-> steps[c], trail |-> {a \in trail : a.closing = c}]]

(* generate_closing_evidence_package.                                      *)
Package(c, events) ==
  evidence' = [evidence EXCEPT ![c] = [steps |-> events, trail |-> {a \in trail : a.closing = c}]]

(* The last step closes the workflow: no critical exception may stand      *)
(* against it, and the evidence is packed.                                 *)
CommitAdvance(s) ==
  /\ tx[s].stage = "locked" /\ Asked(s).op = "ADVANCE"
  /\ LET q == Asked(s)
         c == q.closing
         events == Append(steps[c], [step |-> q.target, status |-> StatusOf[q.target],
                                     sound |-> q.sound, key |-> q.key]) IN
       /\ steps' = [steps EXCEPT ![c] = events]
       /\ closing' = [closing EXCEPT ![c].step = q.target, ![c].status = StatusOf[q.target]]
       /\ IF q.target = LastStep
          THEN c \notin critical /\ Package(c, events)
          ELSE UNCHANGED evidence
       /\ EndsWriting(s, c)
  /\ UNCHANGED <<trail, findings, critical>>

-----------------------------------------------------------------------------
(* A failed check, an error, a lost connection or a dead process.          *)
Rollback(s) ==
  /\ Running(s)
  /\ Ends(s)
  /\ UNCHANGED <<closing, steps, trail, evidence, findings, critical>>

(* Batches, runs and reconciliations of a date come and go.                *)
FindingsChange ==
  /\ \E d \in Dates, f \in SUBSET Blockers : findings' = [findings EXCEPT ![d] = f]
  /\ UNCHANGED <<closing, steps, trail, evidence, critical, tx>>

(* Critical exceptions are opened and resolved.                            *)
CriticalChange ==
  /\ \E c \in {q.closing : q \in Commands} :
       critical' = IF c \in critical THEN critical \ {c} ELSE critical \cup {c}
  /\ UNCHANGED <<closing, steps, trail, evidence, findings, tx>>

Session(s) ==
  \/ \E q \in Requests : BeginEvaluation(s, q)
  \/ CommitFirstEvaluation(s) \/ CommitEvaluation(s)
  \/ \E q \in Commands : BeginReview(s, q)
  \/ LockReview(s) \/ CommitApproval(s) \/ CommitRejection(s)
  \/ \E q \in Commands : BeginAdvance(s, q)
  \/ LockAdvance(s) \/ CommitAdvance(s)
  \/ Rollback(s)

Next == (\E s \in Sessions : Session(s)) \/ FindingsChange \/ CriticalChange

Spec == Init /\ [][Next]_vars

-----------------------------------------------------------------------------
Reviews(c, op) == {a \in trail : a.closing = c /\ a.op = op}

(* A closing is approved exactly when one person, who did not request it,  *)
(* is on record as having approved it, whatever was evaluated, rejected or *)
(* approved at the same time (transitionClosing, under FOR UPDATE).        *)
ApprovedByOneChecker ==
  \A c \in Closings :
    LET approvals == Reviews(c, "APPROVE") IN
    IF closing[c].state = "APPROVED"
    THEN \E a \in approvals : /\ approvals = {a} /\ a.actor = closing[c].checker
                              /\ a.actor # closing[c].by
    ELSE approvals = {}

(* What a checker approved, or may approve, had no blockers when it was    *)
(* controlled last, and what nobody rejected is blocked only by one: an    *)
(* evaluation never slips in between a checker's look and his decision.    *)
StateMatchesControls ==
  \A c \in Closings : Exists(c) =>
    /\ closing[c].blockers # {} => closing[c].state = "BLOCKED"
    /\ closing[c].state = "BLOCKED" /\ Reviews(c, "REJECT") = {} => closing[c].blockers # {}

(* An approved closing is not evaluated or rejected again                  *)
(* (evaluateAndRecord's WHERE, transitionClosing's check).                 *)
ApprovedIsFinal ==
  [][\A c \in Closings : closing[c].state = "APPROVED" =>
       /\ closing'[c].state = "APPROVED"
       /\ closing'[c].checker = closing[c].checker
       /\ closing'[c].blockers = closing[c].blockers]_vars

(* The events of a closing are its steps, each once and in their order, up *)
(* to the one its row names; only a rejection takes the row's status away  *)
(* from the last event's.                                                  *)
StepsInOrder ==
  \A c \in Closings : Exists(c) =>
    /\ Len(steps[c]) = closing[c].step - 1
    /\ \A i \in DOMAIN steps[c] : steps[c][i].step = i + 1
    /\ \/ closing[c].status = StatusOf[closing[c].step]
       \/ closing[c].status = "ANOMALY" /\ Reviews(c, "REJECT") # {}

(* The evidence is packed when the closing has gone through every step, and*)
(* holds all of them and no review that is not on the trail.               *)
EvidenceIsComplete ==
  \A c \in Closings :
    IF Exists(c) /\ closing[c].step = LastStep
    THEN evidence[c].steps = steps[c] /\ Len(steps[c]) = LastStep - 1
         /\ evidence[c].trail \subseteq {a \in trail : a.closing = c}
    ELSE evidence[c] = NoEvidence

(* The review of a closing is one person's, on controls without blockers.  *)
ReviewIsSound == TypeOK /\ ApprovedByOneChecker /\ StateMatchesControls

(* The steps are on record, in the events and in the evidence.             *)
StepsAreRecorded == StepsInOrder /\ EvidenceIsComplete
================================================================================
