---------------------------- MODULE CalculationRun ----------------------------
(***************************************************************************)
(* The life of a profit calculation run: initiated through the API,        *)
(* executed by the calculation worker, controlled and approved by two      *)
(* persons, posted to the ledger.  Sessions are PostgreSQL transactions    *)
(* that interleave: a session begins (its snapshot, its replay lookup),    *)
(* locks the run and checks it, commits; it may roll back at any point     *)
(* before, which is also what every failed check of the code does.         *)
(***************************************************************************)
EXTENDS Naturals, FiniteSets

CONSTANTS
  Runs,        (* run identifiers, chosen by the client                    *)
  Bases,       (* (pool, business date, rules version)                     *)
  NoBasis,     (* the basis of no run                                      *)
  Production,  (* the runs of kind PRODUCTION                              *)
  Actors, NoActor,
  Keys,        (* idempotency keys                                         *)
  Sessions,
  MaxInputs,   (* bound: how often the pool data change                    *)
  MaxObstacles (* bound: obstacles at a time                               *)

ASSUME RunAssumption ==
  /\ Production \subseteq Runs
  /\ NoActor \notin Actors /\ NoBasis \notin Bases
  /\ MaxInputs \in Nat /\ MaxObstacles \in Nat

Version  == 0..MaxInputs
NoResult == MaxInputs + 1

Status == {"absent", "DRAFT", "CALCULATED", "CONTROLLED", "APPROVED", "POSTED"}

Workflow == [op: {"CONTROL", "APPROVE"}, run: Runs, actor: Actors, key: Keys]
Posting  == [op: {"POST"}, run: Runs, actor: Actors, key: Keys]
Initiate == [op: {"INITIATE"}, run: Runs, basis: Bases, actor: Actors]
Execute  == [op: {"EXECUTE"}, run: Runs]
Decision == Workflow \cup Posting

VARIABLES
  run,        (* calculation.run                                           *)
  actions,    (* workflow.approval_action: a set of Decision records       *)
  journals,   (* PROFIT_ALLOCATION journal entries of each run: 0, 1, 2+   *)
  inputs,     (* version of the pool data a calculation reads              *)
  certified,  (* a complete opening balance certification exists           *)
  obstacles,  (* what stands against a run: undocumented purification, a   *)
              (* critical exception                                        *)
  tx          (* the transaction of each session                           *)

vars == <<run, actions, journals, inputs, certified, obstacles, tx>>

Row == [status: Status, basis: Bases \cup {NoBasis}, result: Version \cup {NoResult},
        maker: Actors \cup {NoActor}, controller: Actors \cup {NoActor},
        approver: Actors \cup {NoActor}]

Obstacle == {"purification", "exception"} \X Runs

(* What a snapshot holds of the database.                                  *)
Snapshot == [status: [Runs -> Status], inputs: Version]

Idle  == [stage |-> "idle"]
Open  == [stage: {"begun", "locked"}, request: Decision]
           \cup [stage: {"begun"}, request: Initiate \cup Execute, snapshot: Snapshot]

TypeOK ==
  /\ run \in [Runs -> Row]
  /\ actions \subseteq Decision
  /\ journals \in [Runs -> 0..2]
  /\ inputs \in Version
  /\ certified \in BOOLEAN
  /\ obstacles \subseteq Obstacle
  /\ tx \in [Sessions -> {Idle} \cup Open]

Init ==
  /\ run = [r \in Runs |-> [status |-> "absent", basis |-> NoBasis, result |-> NoResult,
              maker |-> NoActor, controller |-> NoActor, approver |-> NoActor]]
  /\ actions = {}
  /\ journals = [r \in Runs |-> 0]
  /\ inputs = 0
  /\ certified = FALSE
  /\ obstacles = {}
  /\ tx = [s \in Sessions |-> Idle]

-----------------------------------------------------------------------------
Request(s) == tx[s].request

InTransaction(s) == tx[s].stage # "idle"

(* Mutant of RowFree: a plain SELECT.                                      *)
RowRead(s, r) == InTransaction(s)

(* SELECT ... FOR UPDATE: no other session holds the row.                  *)
RowFree(s, r) ==
  \A t \in Sessions \ {s} : tx[t].stage = "locked" => Request(t).run # r

Ends(s) == tx' = [tx EXCEPT ![s] = Idle]

(* BEGIN of the two snapshot isolated transactions: the snapshot is taken  *)
(* by the statement that waits for the advisory lock, before the lock is   *)
(* granted.  A worker executes what an initiation has enqueued.            *)
BeginSnapshot(s, request) ==
  /\ ~InTransaction(s)
  /\ request.op = "EXECUTE" => run[request.run].status # "absent"
  /\ tx' = [tx EXCEPT ![s] =
       [stage |-> "begun", request |-> request,
        snapshot |-> [status |-> [r \in Runs |-> run[r].status], inputs |-> inputs]]]
  /\ UNCHANGED <<run, actions, journals, inputs, certified, obstacles>>

(* The run a snapshot shows for the identifier or the basis: findReplay.   *)
Visible(s) ==
  {r \in Runs : /\ tx[s].snapshot.status[r] # "absent"
                /\ r = Request(s).run \/ run[r].basis = Request(s).basis}

(* Mutant of Unique: only the primary key.                                 *)
UniqueRun(request) == run[request.run].status = "absent"

(* INSERT: the primary key and the unique index on the business basis are  *)
(* checked against what is committed.                                      *)
Unique(request) ==
  \A r \in Runs : run[r].status # "absent" =>
    r # request.run /\ run[r].basis # request.basis

(* No visible run: the run is inserted with its outbox message.  Any other *)
(* outcome, ALREADY_QUEUED, CALCULATION_RUN_CONFLICT or a unique violation *)
(* behind a stale snapshot, writes nothing.                                *)
CommitInitiation(s) ==
  /\ InTransaction(s) /\ Request(s).op = "INITIATE"
  /\ Visible(s) = {}
  /\ Unique(Request(s))
  /\ run' = [run EXCEPT ![Request(s).run].status = "DRAFT",
                        ![Request(s).run].basis = Request(s).basis,
                        ![Request(s).run].maker = Request(s).actor]
  /\ Ends(s)
  /\ UNCHANGED <<actions, journals, inputs, certified, obstacles>>

(* Mutant of UnchangedSince: READ COMMITTED for the lock, the snapshot for *)
(* the checks.                                                             *)
ReadBefore(s, r) == run[r].status # "absent" /\ tx[s].snapshot.status[r] # "absent"

(* REPEATABLE READ: FOR UPDATE fails on a row written since the snapshot.  *)
UnchangedSince(s, r) == run[r].status = tx[s].snapshot.status[r]

(* Allocations, checksums and CALCULATED, all from the snapshot's data.    *)
CommitExecution(s) ==
  /\ InTransaction(s) /\ Request(s).op = "EXECUTE"
  /\ LET r == Request(s).run IN
       /\ RowFree(s, r) /\ UnchangedSince(s, r)
       /\ tx[s].snapshot.status[r] = "DRAFT"
       /\ run' = [run EXCEPT ![r].status = "CALCULATED",
                             ![r].result = tx[s].snapshot.inputs]
  /\ Ends(s)
  /\ UNCHANGED <<actions, journals, inputs, certified, obstacles>>

-----------------------------------------------------------------------------
(* The commands with an idempotency key: READ COMMITTED.  A key that has   *)
(* been used answers what it answered before, or is refused, and writes    *)
(* nothing.  Control and approval hold an advisory lock on the key from    *)
(* here on, posting does not.                                              *)
KeyLocked(s, k) ==
  \E t \in Sessions \ {s} : InTransaction(t) /\ Request(t) \in Workflow /\ Request(t).key = k

Used(k) == \E a \in actions : a.key = k

Begin(s, request) ==
  /\ ~InTransaction(s)
  /\ request.op # "POST" => ~KeyLocked(s, request.key)
  /\ ~Used(request.key)
  /\ tx' = [tx EXCEPT ![s] = [stage |-> "begun", request |-> request]]
  /\ UNCHANGED <<run, actions, journals, inputs, certified, obstacles>>

(* transitionCalculation: the checks on the locked row.                    *)
MayControl(r, actor) ==
  /\ run[r].status = "CALCULATED"
  /\ actor # run[r].maker

(* Mutant of MayApprove: the controller may approve.                       *)
MayApproveOwnControl(r, actor) ==
  /\ run[r].status = "CONTROLLED"
  /\ actor # run[r].maker
  /\ r \in Production => certified
  /\ <<"purification", r>> \notin obstacles

MayApprove(r, actor) ==
  /\ run[r].status = "CONTROLLED"
  /\ actor # run[r].maker /\ actor # run[r].controller
  /\ r \in Production => certified
  /\ <<"purification", r>> \notin obstacles

(* postAtomically, and the trigger of the exception centre.                *)
MayPost(r, actor) ==
  /\ run[r].status = "APPROVED"
  /\ actor # run[r].maker
  /\ <<"exception", r>> \notin obstacles

LockAndCheck(s) ==
  /\ tx[s].stage = "begun" /\ Request(s) \in Decision
  /\ LET q == Request(s) IN
       /\ RowFree(s, q.run)
       /\ \/ q.op = "CONTROL" /\ MayControl(q.run, q.actor)
          \/ q.op = "APPROVE" /\ MayApprove(q.run, q.actor)
          \/ q.op = "POST" /\ MayPost(q.run, q.actor)
  /\ tx' = [tx EXCEPT ![s].stage = "locked"]
  /\ UNCHANGED <<run, actions, journals, inputs, certified, obstacles>>

(* INSERT INTO approval_action: the primary key, and one action of a kind  *)
(* per resource and actor.                                                 *)
Records(q) ==
  /\ ~Used(q.key)
  /\ ~\E a \in actions : a.op = q.op /\ a.run = q.run /\ a.actor = q.actor
  /\ actions' = actions \cup {q}

CommitControl(s) ==
  /\ tx[s].stage = "locked" /\ Request(s).op = "CONTROL"
  /\ run' = [run EXCEPT ![Request(s).run].status = "CONTROLLED",
                        ![Request(s).run].controller = Request(s).actor]
  /\ Records(Request(s))
  /\ Ends(s)
  /\ UNCHANGED <<journals, inputs, certified, obstacles>>

CommitApproval(s) ==
  /\ tx[s].stage = "locked" /\ Request(s).op = "APPROVE"
  /\ run' = [run EXCEPT ![Request(s).run].status = "APPROVED",
                        ![Request(s).run].approver = Request(s).actor]
  /\ Records(Request(s))
  /\ Ends(s)
  /\ UNCHANGED <<journals, inputs, certified, obstacles>>

(* The journal is inserted and posted, then the run: it must be APPROVED.  *)
CommitPosting(s) ==
  /\ tx[s].stage = "locked" /\ Request(s).op = "POST"
  /\ run[Request(s).run].status = "APPROVED"
  /\ journals' = [journals EXCEPT ![Request(s).run] = IF @ < 2 THEN @ + 1 ELSE 2]
  /\ run' = [run EXCEPT ![Request(s).run].status = "POSTED"]
  /\ Records(Request(s))
  /\ Ends(s)
  /\ UNCHANGED <<inputs, certified, obstacles>>

(* A failed check, an error, a lost connection or a dead process.          *)
Rollback(s) ==
  /\ InTransaction(s)
  /\ Ends(s)
  /\ UNCHANGED <<run, actions, journals, inputs, certified, obstacles>>

-----------------------------------------------------------------------------
(* The rest of the system, which no transaction above locks out: pool data *)
(* change (subscriptions, positions, accounts), purification cases and     *)
(* exceptions are opened and settled, the opening balances are certified.  *)
ChangeInputs ==
  /\ inputs < MaxInputs
  /\ inputs' = inputs + 1
  /\ UNCHANGED <<run, actions, journals, certified, obstacles, tx>>

ObstacleAppears(o) ==
  /\ Cardinality(obstacles) < MaxObstacles
  /\ obstacles' = obstacles \cup {o}
  /\ UNCHANGED <<run, actions, journals, inputs, certified, tx>>

ObstacleSettled(o) ==
  /\ obstacles' = obstacles \ {o}
  /\ UNCHANGED <<run, actions, journals, inputs, certified, tx>>

Certify ==
  /\ certified' = TRUE
  /\ UNCHANGED <<run, actions, journals, inputs, obstacles, tx>>

Session(s) ==
  \/ \E request \in Initiate \cup Execute : BeginSnapshot(s, request)
  \/ \E request \in Decision : Begin(s, request)
  \/ CommitInitiation(s) \/ CommitExecution(s)
  \/ LockAndCheck(s)
  \/ CommitControl(s) \/ CommitApproval(s) \/ CommitPosting(s)
  \/ Rollback(s)

Next ==
  \/ \E s \in Sessions : Session(s)
  \/ \E o \in Obstacle : ObstacleAppears(o) \/ ObstacleSettled(o)
  \/ ChangeInputs \/ Certify

Spec == Init /\ [][Next]_vars
-----------------------------------------------------------------------------
Reached(r, status) ==
  run[r].status \in
    (CASE status = "CALCULATED" -> {"CALCULATED", "CONTROLLED", "APPROVED", "POSTED"}
       [] status = "CONTROLLED" -> {"CONTROLLED", "APPROVED", "POSTED"}
       [] status = "APPROVED"   -> {"APPROVED", "POSTED"}
       [] status = "POSTED"     -> {"POSTED"})

Deciders(r, op) == {a.actor : a \in {b \in actions : b.run = r /\ b.op = op}}

(* Maker, controller and approver of a run are three persons, and the      *)
(* maker does not post it, whichever sessions raced for it (README:        *)
(* "transitions Maker/Checker des calculs").                               *)
FourEyes ==
  /\ \A r \in Runs : Reached(r, "CONTROLLED") => run[r].controller # run[r].maker
  /\ \A r \in Runs : Reached(r, "APPROVED") =>
       run[r].approver \notin {run[r].maker, run[r].controller}
  /\ \A a \in actions : a.actor # run[a.run].maker

(* The recorded actions, the run and its journal tell the same story: who  *)
(* controlled and approved it, that it was posted, with its one profit     *)
(* allocation entry, and each step once, under one key, although the row   *)
(* lock is all that keeps two controllers with two keys apart.             *)
TrailMatchesRun ==
  /\ \A a, b \in actions : a.op = b.op /\ a.run = b.run => a = b
  /\ \A r \in Runs :
    /\ journals[r] = IF Reached(r, "POSTED") THEN 1 ELSE 0
    /\ Deciders(r, "CONTROL") = IF Reached(r, "CONTROLLED") THEN {run[r].controller} ELSE {}
    /\ Deciders(r, "APPROVE") = IF Reached(r, "APPROVED") THEN {run[r].approver} ELSE {}
    /\ Deciders(r, "POST") # {} <=> Reached(r, "POSTED")

(* Two initiations of one basis never both succeed, although the second    *)
(* one waits for the advisory lock with a snapshot that cannot show the    *)
(* first one's run (calculation_run_business_revision_unique).             *)
OneRunPerBasis ==
  \A q, r \in Runs : run[q].basis = run[r].basis /\ run[q].basis # NoBasis => q = r

(* No production run passes approval before the opening balances are       *)
(* certified.                                                              *)
ProductionIsCertified ==
  \A r \in Production : Reached(r, "APPROVED") => certified

Successor == {<<"absent", "DRAFT">>, <<"DRAFT", "CALCULATED">>, <<"CALCULATED", "CONTROLLED">>,
              <<"CONTROLLED", "APPROVED">>, <<"APPROVED", "POSTED">>}

(* A run goes through its states in their order, one at a time, and what   *)
(* has been recorded of it never changes: a late execution behind          *)
(* an old snapshot does not replace the result that was controlled, a late *)
(* control not the controller (guard_approved_run_mutation guards it only  *)
(* after approval).                                                        *)
RecordedIsFinal ==
  [][\A r \in Runs :
       /\ run'[r].status # run[r].status =>
            <<run[r].status, run'[r].status>> \in Successor
       /\ run[r].basis # NoBasis => run'[r].basis = run[r].basis /\ run'[r].maker = run[r].maker
       /\ run[r].result # NoResult => run'[r].result = run[r].result
       /\ run[r].controller # NoActor => run'[r].controller = run[r].controller
       /\ run[r].approver # NoActor => run'[r].approver = run[r].approver]_run

(* Whoever passes a run on may: three persons, and the certification that  *)
(* a production run needs, also when it is given while sessions race.      *)
ApprovalIsSound == TypeOK /\ FourEyes /\ ProductionIsCertified
==============================================================================
