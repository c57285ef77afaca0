------------------------------ MODULE Accounting ------------------------------
(***************************************************************************)
(* The ledger: approved calculations are posted to it, other modules emit  *)
(* entries, entries are reversed and acknowledged by the general ledger,   *)
(* and its totals are reconciled; a discrepancy is escalated until it is   *)
(* settled.                                                                *)
(*                                                                         *)
(* A session is a request and its transaction.  It begins with the look-up *)
(* of an earlier answer, without a lock (in a reconciliation, with the     *)
(* statement that takes the snapshot).  Its commit is one step, since what *)
(* the other statements read is locked until then, immutable, or read from *)
(* the snapshot.  Rollback is any refusal, error or lost connection.       *)
(*                                                                         *)
(* One currency and one entity; amounts are minor units; a journal entry   *)
(* is named by its place in the journal.  Justifications, references and   *)
(* reasons are compared together with the actor who gives them.            *)
(***************************************************************************)
EXTENDS Integers, FiniteSets, Sequences, Functions, Bags

CONSTANTS
  Runs,           (* calculations that were approved                       *)
  Maker, Date,    (* who made the run, and its business date               *)
  Distributable, Shares,  (* its result, and the participants' shares      *)
  Sessions,
  Requests,       (* records with a field "op"                             *)
  NoRun, NoSource, NoDiscrepancy,
  Hours,          (* severity -> time to the resolution of a discrepancy   *)
  Delay, TopLevel,(* of an escalation                                      *)
  MaxEntries, MaxAcknowledgements, MaxTime

VARIABLES
  posted,         (* the runs with status POSTED                           *)
  journal,        (* accounting.journal_entry with its lines               *)
  approvals,      (* workflow.approval_action                              *)
  acknowledgements,
  reconciliations,(* each with its discrepancy                             *)
  outbox,         (* a bag of events                                       *)
  tx,             (* the sessions                                          *)
  answers         (* what was answered to which request (history)          *)

tables == <<posted, journal, approvals, acknowledgements, reconciliations, outbox>>
accountingVars == <<posted, journal, approvals, acknowledgements, reconciliations, outbox,
                    tx, answers>>

(* Amounts and dates are numbers.  The shares of a run add up to its       *)
(* result, as the calculation leaves them.  A posting asks for an approved *)
(* run, an emission names its source, and a discrepancy its severity.      *)
ASSUME LedgerAssumption ==
  /\ MaxEntries \in Nat /\ MaxAcknowledgements \in Nat
  /\ TopLevel \in Nat \ {0} /\ Delay \in Int
  /\ \A r \in Runs : /\ Date[r] \in Int /\ Distributable[r] \in Int
                      /\ Shares[r] \in Seq(Int) /\ SumFunction(Shares[r]) = Distributable[r]
  /\ \A q \in Requests :
       /\ q.op \in {"REVERSE", "EMIT", "RECONCILE"} => q.date \in Int
       /\ q.op = "POST" => q.run \in Runs
       /\ q.op = "EMIT" =>
            /\ q.source # NoSource
            /\ q.lines \in Seq([account: Int, debit: Int, credit: Int])
       /\ q.op = "RECONCILE" =>
            /\ q.ledger \in Int
            /\ q.discrepancy = NoDiscrepancy \/ Hours[q.discrepancy.severity] \in Int
            /\ q.discrepancy = NoDiscrepancy \/ q.discrepancy.detected \in Int

Idle == [idle |-> TRUE]

AccountingInit ==
  /\ posted = {} /\ journal = <<>> /\ approvals = {} /\ acknowledgements = <<>>
  /\ reconciliations = <<>> /\ outbox = EmptyBag /\ answers = {}
  /\ tx = [s \in Sessions |-> Idle]

-----------------------------------------------------------------------------
(* The journal's lines.  Account 0 is the pool's, 1, 2, ... are those of   *)
(* the participants, -1 is any other one.                                  *)

Total(lines, side) == SumFunction([i \in DOMAIN lines |-> lines[i][side]])

(* assertBalancedJournal, the constraint of the lines and the trigger.     *)
Balanced(lines) ==
  /\ Len(lines) >= 2
  /\ \A i \in DOMAIN lines :
       \/ lines[i].debit > 0 /\ lines[i].credit = 0
       \/ lines[i].credit > 0 /\ lines[i].debit = 0
  /\ Total(lines, "debit") = Total(lines, "credit")

Line(account, amount, onCredit) ==
  [account |-> account, debit |-> IF onCredit THEN 0 ELSE amount,
   credit |-> IF onCredit THEN amount ELSE 0]

Absolute(a) == IF a < 0 THEN -a ELSE a

AllocationLines(r) ==
  LET profit == Distributable[r] >= 0
  IN <<Line(0, Absolute(Distributable[r]), ~profit)>>
       \o [i \in DOMAIN Shares[r] |-> Line(i, Absolute(Shares[r][i]), profit)]

ReverseLines(lines) ==
  [i \in DOMAIN lines |-> [lines[i] EXCEPT !.debit = lines[i].credit, !.credit = lines[i].debit]]

Entry(kind, run, date, by, lines, reversalOf, source) ==
  [kind |-> kind, run |-> run, date |-> date, by |-> by, lines |-> lines,
   reversalOf |-> reversalOf, source |-> source, status |-> "PENDING"]

-----------------------------------------------------------------------------
(* Transactions.                                                           *)

(* What makes two requests the same one.                                   *)
Identity(q) ==
  [op |-> q.op,
   of |-> CASE q.op = "EMIT"      -> q.source
            [] q.op = "RECONCILE" -> <<q.date, q.checksum>>
            [] OTHER              -> q.key]

Answer(q, answer) == answers' = answers \cup {[request |-> Identity(q), answer |-> answer]}

Begin(s, q) ==
  /\ tx[s] = Idle
  /\ tx' = [tx EXCEPT ![s] =
       [request |-> q, journal |-> Len(journal), reconciliations |-> Len(reconciliations)]]
  /\ UNCHANGED <<tables, answers>>

Rollback(s) ==
  /\ tx[s] # Idle
  /\ tx' = [tx EXCEPT ![s] = Idle]
  /\ UNCHANGED <<tables, answers>>

Committing(s, op) ==
  /\ tx[s] # Idle /\ tx[s].request.op = op
  /\ tx' = [tx EXCEPT ![s] = Idle]

Announce(event) == outbox' = outbox (+) SetToBag({event})

(* The lines are inserted and the entry goes from DRAFT to POSTED.         *)
Insert(entry) ==
  /\ Len(journal) < MaxEntries
  /\ Balanced(entry.lines)
  /\ journal' = Append(journal, entry)

(* The row of the action, whose key is its primary key, whatever it does.  *)
Approve(q, resource) ==
  /\ \A a \in approvals : a.key # q.key
  /\ approvals' = approvals \cup
       {[key |-> q.key, action |-> q.op, resource |-> resource, actor |-> q.actor]}

Earlier(q) == {a \in approvals : a.key = q.key /\ a.action = q.op}

-----------------------------------------------------------------------------
(* Posting: postAtomically.  The answer of a replay is any entry of the    *)
(* run.                                                                    *)

ReplayPosting(q) ==
  \E a \in Earlier(q), e \in DOMAIN journal :
    /\ a.resource = q.run /\ a.actor = q.actor
    /\ journal[e].run = q.run
    /\ Answer(q, [entry |-> e])
    /\ UNCHANGED <<tables, tx>>

BeginPosting(s, q) == Earlier(q) = {} /\ Begin(s, q)

(* The run's row is locked.                                                *)
CommitPosting(s) ==
  /\ Committing(s, "POST")
  /\ LET q == tx[s].request IN
       /\ q.run \notin posted /\ Maker[q.run] # q.actor
       /\ Insert(Entry("PROFIT_ALLOCATION", q.run, Date[q.run], q.actor, AllocationLines(q.run),
                       0, NoSource))
       /\ posted' = posted \cup {q.run}
       /\ Approve(q, q.run)
       /\ Announce([type |-> "CalculationPosted", of |-> Len(journal) + 1])
       /\ Answer(q, [entry |-> Len(journal) + 1])
  /\ UNCHANGED <<acknowledgements, reconciliations>>

-----------------------------------------------------------------------------
(* Reversal: reverseAtomically.                                            *)

ReversalsOf(e) == {i \in DOMAIN journal : journal[i].reversalOf = e}

ReplayReversal(q) ==
  \E a \in Earlier(q), e \in ReversalsOf(q.entry) :
    /\ a.resource = q.entry /\ a.actor = q.actor
    /\ journal[e].date = q.date
    /\ Answer(q, [entry |-> e])
    /\ UNCHANGED <<tables, tx>>

BeginReversal(s, q) == Earlier(q) = {} /\ Begin(s, q)

(* Mutant: the constraint is dropped.                                      *)
AnyNumberOfReversals(e) == TRUE

(* The constraint on reversal_of.                                          *)
NotReversed(e) == ReversalsOf(e) = {}

(* The entry's row is locked; it stays POSTED.                             *)
CommitReversal(s) ==
  /\ Committing(s, "REVERSE")
  /\ LET q == tx[s].request IN
       /\ q.entry \in DOMAIN journal
       /\ journal[q.entry].kind # "REVERSAL" /\ journal[q.entry].by # q.actor
       /\ NotReversed(q.entry)
       /\ Insert(Entry("REVERSAL", NoRun, q.date, q.actor, ReverseLines(journal[q.entry].lines),
                       q.entry, NoSource))
       /\ Approve(q, q.entry)
       /\ Announce([type |-> "JournalEntryReversed", of |-> Len(journal) + 1])
       /\ Answer(q, [entry |-> Len(journal) + 1])
  /\ UNCHANGED <<posted, acknowledgements, reconciliations>>

-----------------------------------------------------------------------------
(* Entries of other modules: emitAtomically.  The lines are not compared.  *)

EmittedFor(source) == {e \in DOMAIN journal : journal[e].source = source}

ReplayEmission(q) ==
  \E e \in EmittedFor(q.source) :
    /\ Answer(q, [entry |-> e])
    /\ UNCHANGED <<tables, tx>>

BeginEmission(s, q) == EmittedFor(q.source) = {} /\ Begin(s, q)

(* The unique index on source_key.                                         *)
NotEmitted(source) == EmittedFor(source) = {}

CommitEmission(s) ==
  /\ Committing(s, "EMIT")
  /\ LET q == tx[s].request IN
       /\ NotEmitted(q.source)
       /\ Insert(Entry("BUSINESS_EVENT", q.run, q.date, q.actor, q.lines, 0, q.source))
       /\ Announce([type |-> "AccountingEntryEmitted", of |-> Len(journal) + 1])
       /\ Answer(q, [entry |-> Len(journal) + 1])
  /\ UNCHANGED <<posted, approvals, acknowledgements, reconciliations>>

-----------------------------------------------------------------------------
(* Acknowledgement by the general ledger: acknowledgeAtomically.           *)

(* Mutant: a rejected entry may be acknowledged without a retry.           *)
NextStatesWithoutRetry(current) ==
  CASE current \in {"PENDING", "REJECTED", "RETRIED"} -> {"ACKNOWLEDGED", "REJECTED", "RETRIED"}
    [] OTHER -> {}

NextStates(current) ==
  CASE current = "PENDING"  -> {"ACKNOWLEDGED", "REJECTED"}
    [] current = "REJECTED" -> {"RETRIED"}
    [] current = "RETRIED"  -> {"ACKNOWLEDGED", "REJECTED", "REVERSED"}
    [] OTHER                -> {}

Acknowledged(q) == {a \in DOMAIN acknowledgements : acknowledgements[a].key = q.key}

(* The action itself is not compared.                                      *)
ReplayAcknowledgement(q) ==
  \E a \in Acknowledged(q) :
    /\ acknowledgements[a].entry = q.entry /\ acknowledgements[a].actor = q.actor
    /\ Answer(q, [state |-> acknowledgements[a].result])
    /\ UNCHANGED <<tables, tx>>

BeginAcknowledgement(s, q) == Acknowledged(q) = {} /\ Begin(s, q)

(* The entry's row is locked; keys are unique.  The trigger compares the   *)
(* previous state with the row once more.                                  *)
CommitAcknowledgement(s) ==
  /\ Committing(s, "ACKNOWLEDGE")
  /\ Len(acknowledgements) < MaxAcknowledgements
  /\ LET q == tx[s].request IN
       /\ q.entry \in DOMAIN journal /\ Acknowledged(q) = {}
       /\ q.action \in NextStates(journal[q.entry].status)
       /\ acknowledgements' = Append(acknowledgements,
            [key |-> q.key, entry |-> q.entry, actor |-> q.actor,
             previous |-> journal[q.entry].status, result |-> q.action])
       /\ journal' = [journal EXCEPT ![q.entry].status = q.action]
       /\ Announce([type |-> "AccountingAcknowledgementRecorded",
                    of |-> Len(acknowledgements) + 1])
       /\ Answer(q, [state |-> q.action])
  /\ UNCHANGED <<posted, approvals, reconciliations>>

-----------------------------------------------------------------------------
(* Reconciliation: reconcileAtomically, REPEATABLE READ.                   *)

(* The participants' balance in an entry, and in the entries up to a date. *)
Balance(lines) ==
  SumFunction([i \in DOMAIN lines |->
    IF lines[i].account > 0 THEN lines[i].credit - lines[i].debit ELSE 0])

Subledger(entries, date) ==
  SumFunction([e \in DOMAIN entries |->
    IF entries[e].date <= date THEN Balance(entries[e].lines) ELSE 0])

Same(q, r) == r.date = q.date /\ r.checksum = q.checksum

(* discrepancyDeadline.                                                    *)
Deadline(d) == d.detected + Hours[d.severity]

(* A variance needs a discrepancy and a match must have none.              *)
Documented(difference, q) == difference # 0 <=> q.discrepancy # NoDiscrepancy

(* ON CONFLICT: a row that is newer than the snapshot is an error.         *)
CommitReconciliation(s) ==
  /\ Committing(s, "RECONCILE")
  /\ LET q     == tx[s].request
         total == Subledger(SubSeq(journal, 1, tx[s].journal), q.date)
     IN /\ \A i \in DOMAIN reconciliations : ~Same(q, reconciliations[i])
        /\ Documented(total - q.ledger, q)
        /\ reconciliations' = Append(reconciliations,
             [date |-> q.date, checksum |-> q.checksum, subledger |-> total,
              ledger |-> q.ledger, discrepancy |-> q.discrepancy,
              due |-> IF q.discrepancy = NoDiscrepancy THEN 0 ELSE Deadline(q.discrepancy),
              level |-> 1])
        /\ Announce([type |-> "AccountingReconciliationCompleted",
                     of |-> Len(reconciliations) + 1])
        /\ Answer(q, [id |-> Len(reconciliations) + 1, difference |-> total - q.ledger])
  /\ UNCHANGED <<posted, journal, approvals, acknowledgements>>

(* Mutant: the answer is made from the ledger as it is now.                *)
ReplayFromLiveLedger(s) ==
  /\ Committing(s, "RECONCILE")
  /\ LET q == tx[s].request IN
       \E i \in 1..tx[s].reconciliations :
         /\ Same(q, reconciliations[i])
         /\ Answer(q, [id |-> i, difference |->
              Subledger(SubSeq(journal, 1, tx[s].journal), q.date) - q.ledger])
  /\ UNCHANGED tables

(* assertReplayMatches and assertDiscrepancyReplayMatches: the deadline    *)
(* is compared too, so after an escalation there is no replay.             *)
ReplayReconciliation(s) ==
  /\ Committing(s, "RECONCILE")
  /\ LET q == tx[s].request IN
       \E i \in 1..tx[s].reconciliations :
         LET r == reconciliations[i] IN
         /\ Same(q, r) /\ r.ledger = q.ledger /\ r.discrepancy = q.discrepancy
         /\ q.discrepancy # NoDiscrepancy => r.due = Deadline(q.discrepancy)
         /\ Answer(q, [id |-> i, difference |-> r.subledger - r.ledger])
  /\ UNCHANGED tables

(* Mutant: without the bound.                                              *)
OverdueAtAnyLevel(r, now) == r.discrepancy # NoDiscrepancy /\ r.due <= now

(* escalate_overdue_discrepancies, one statement of a scheduler, whose     *)
(* instant may be an old one.                                              *)
Overdue(r, now) == r.discrepancy # NoDiscrepancy /\ r.due <= now /\ r.level < TopLevel

Escalate(now) ==
  LET overdue == {i \in DOMAIN reconciliations : Overdue(reconciliations[i], now)} IN
  /\ overdue # {}
  /\ reconciliations' = [i \in DOMAIN reconciliations |->
       IF i \in overdue
         THEN [reconciliations[i] EXCEPT !.level = @ + 1, !.due = @ + Delay]
         ELSE reconciliations[i]]
  /\ outbox' = outbox (+) SetToBag({[type |-> "ReconciliationDiscrepancyEscalated", of |-> i,
                                     level |-> reconciliations[i].level + 1] : i \in overdue})
  /\ UNCHANGED <<posted, journal, approvals, acknowledgements, tx, answers>>

-----------------------------------------------------------------------------
Asked(op) == {q \in Requests : q.op = op}

AccountingNext ==
  \/ \E q \in Asked("POST") :
       ReplayPosting(q) \/ \E s \in Sessions : BeginPosting(s, q)
  \/ \E q \in Asked("REVERSE") :
       ReplayReversal(q) \/ \E s \in Sessions : BeginReversal(s, q)
  \/ \E q \in Asked("EMIT") :
       ReplayEmission(q) \/ \E s \in Sessions : BeginEmission(s, q)
  \/ \E q \in Asked("ACKNOWLEDGE") :
       ReplayAcknowledgement(q) \/ \E s \in Sessions : BeginAcknowledgement(s, q)
  \/ \E q \in Asked("RECONCILE"), s \in Sessions : Begin(s, q)
  \/ \E s \in Sessions :
       \/ CommitPosting(s) \/ CommitReversal(s) \/ CommitEmission(s)
       \/ CommitAcknowledgement(s)
       \/ CommitReconciliation(s) \/ ReplayReconciliation(s)
       \/ Rollback(s)
  \/ \E now \in 0..MaxTime : Escalate(now)

AccountingSpec == AccountingInit /\ [][AccountingNext]_accountingVars
-----------------------------------------------------------------------------
(* Properties.                                                             *)

LedgerTyped ==
  /\ posted \subseteq Runs
  /\ Len(journal) <= MaxEntries /\ Len(acknowledgements) <= MaxAcknowledgements
  /\ \A e \in DOMAIN journal : journal[e].reversalOf \in 0..(e - 1)
  /\ \A a \in DOMAIN acknowledgements : acknowledgements[a].entry \in DOMAIN journal
  /\ IsABag(outbox)

OfKind(kind) == {e \in DOMAIN journal : journal[e].kind = kind}

Copies(event) == IF event \in DOMAIN outbox THEN outbox[event] ELSE 0

EntriesBalance == \A e \in DOMAIN journal : Balanced(journal[e].lines)

PostedOnce ==
  \A r \in Runs :
    LET entries == {e \in OfKind("PROFIT_ALLOCATION") : journal[e].run = r} IN
    /\ Cardinality(entries) = IF r \in posted THEN 1 ELSE 0
    /\ \A e \in entries :
         /\ journal[e].by # Maker[r]
         /\ Subledger(<<journal[e]>>, journal[e].date) = Distributable[r]
         /\ \A i \in DOMAIN Shares[r] :
              LET l == journal[e].lines[i + 1] IN l.credit - l.debit = Shares[r][i]

EmittedOnce ==
  \A e, f \in OfKind("BUSINESS_EVENT") :
    journal[e].source = journal[f].source => e = f

Announcement(kind) ==
  CASE kind = "PROFIT_ALLOCATION" -> "CalculationPosted"
    [] kind = "REVERSAL"          -> "JournalEntryReversed"
    [] OTHER                      -> "AccountingEntryEmitted"

AnnouncedOnce ==
  \A e \in DOMAIN journal :
    Copies([type |-> Announcement(journal[e].kind), of |-> e]) = 1

OnAccount(lines, account) ==
  SumFunction([i \in DOMAIN lines |->
    IF lines[i].account = account THEN lines[i].credit - lines[i].debit ELSE 0])

(* An entry is reversed at most once, by another person than its author,   *)
(* and never a reversal; with its reversal it leaves nothing on any        *)
(* account (reverseAtomically reads no reversal under its lock: the        *)
(* constraint of migration 013 is what stops the second one).              *)
ReversedOnce ==
  \A i, j \in OfKind("REVERSAL") :
    LET e == journal[i].reversalOf IN
    /\ journal[j].reversalOf = e => i = j
    /\ journal[e].kind # "REVERSAL" /\ journal[e].by # journal[i].by
    /\ \A k \in DOMAIN journal[e].lines :
         LET account == journal[e].lines[k].account IN
         OnAccount(journal[e].lines, account) + OnAccount(journal[i].lines, account) = 0

(* The journal is the effect of what was asked, once: the entries balance, *)
(* a posted run has one profit allocation, by another person than its      *)
(* maker, that gives each participant their share of a profit or loss, a   *)
(* source has one entry, an entry one reversal that undoes it, and every   *)
(* entry was announced once, whichever sessions raced (postAtomically,     *)
(* emitAtomically, reverseAtomically).                                     *)
LedgerIsConsistent ==
  LedgerTyped /\ EntriesBalance /\ PostedOnce /\ EmittedOnce /\ ReversedOnce /\ AnnouncedOnce

(* The last of the acknowledgements S decides the state of an entry.       *)
OnEntry(e, n) == {a \in 1..n : acknowledgements[a].entry = e}

StateAfter(S) ==
  IF S = {} THEN "PENDING"
  ELSE acknowledgements[CHOOSE a \in S : \A b \in S : b <= a].result

(* The acknowledgements of an entry are a path from PENDING to its present *)
(* state, where a rejection is followed by a retry and by nothing else;    *)
(* each has its own key and one event, whichever answers of the general    *)
(* ledger raced (acknowledgeAtomically, the trigger of migration 045).     *)
AcknowledgedInOrder ==
  /\ \A e \in DOMAIN journal :
       journal[e].status = StateAfter(OnEntry(e, Len(acknowledgements)))
  /\ \A a \in DOMAIN acknowledgements :
       LET r == acknowledgements[a] IN
       /\ r.previous = StateAfter(OnEntry(r.entry, a - 1))
       /\ r.previous = "REJECTED" <=> r.result = "RETRIED"
       /\ r.previous \notin {"ACKNOWLEDGED", "REVERSED"}
       /\ r.result = "REVERSED" => r.previous = "RETRIED"
       /\ Copies([type |-> "AccountingAcknowledgementRecorded", of |-> a]) = 1
  /\ \A a, b \in DOMAIN acknowledgements :
       acknowledgements[a].key = acknowledgements[b].key => a = b

(* A source is reconciled once a date, against a total that the ledger had *)
(* at one moment; a variance, and only a variance, has a discrepancy, that *)
(* climbs one level at a time with one event a level and a deadline that   *)
(* moves along, up to the top (reconcileAtomically; the function of        *)
(* migration 046, that several schedulers call).                           *)
DiscrepanciesAreFollowed ==
  \A i \in DOMAIN reconciliations :
    LET r == reconciliations[i] IN
    /\ \A j \in DOMAIN reconciliations : Same(reconciliations[j], r) => i = j
    /\ \E n \in 0..Len(journal) : r.subledger = Subledger(SubSeq(journal, 1, n), r.date)
    /\ r.discrepancy # NoDiscrepancy <=> r.subledger # r.ledger
    /\ Copies([type |-> "AccountingReconciliationCompleted", of |-> i]) = 1
    /\ r.level \in 1..TopLevel
    /\ r.discrepancy # NoDiscrepancy => r.due = Deadline(r.discrepancy) + (r.level - 1) * Delay
    /\ \A level \in 2..TopLevel :
         Copies([type |-> "ReconciliationDiscrepancyEscalated", of |-> i, level |-> level])
           = IF level <= r.level THEN 1 ELSE 0

(* A reversal or an acknowledgement asked again with its key, an emission  *)
(* for the same source and the same reconciliation get the answer of the   *)
(* first time, when they get one.  A posting need not: its replay takes    *)
(* any entry of the run (README).                                          *)
ReplaysAgree ==
  \A a, b \in answers :
    a.request = b.request /\ a.request.op # "POST" => a.answer = b.answer
==============================================================================
