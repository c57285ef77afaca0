----------------------------- MODULE Ledger_proofs -----------------------------
(***************************************************************************)
(* Proofs about the accounting events, the ingestion from the core banking *)
(* system, and the exports and reports of the back office, for any runs,   *)
(* accounts, amounts, batches, requests and sessions.                      *)
(***************************************************************************)
EXTENDS Accounting, CbsIngestion, Reporting, Products_proofs

-----------------------------------------------------------------------------
(* The ledger: what a row of each table, a session and an answer are at    *)
(* any moment.                                                             *)

EntryKinds == {"PROFIT_ALLOCATION", "REVERSAL", "BUSINESS_EVENT"}
Given(op, field) == {q[field] : q \in Asked(op)}

EntryStates == {"PENDING"} \cup Given("ACKNOWLEDGE", "action")

EntryRows ==
  [kind: EntryKinds, run: Runs \cup {NoRun} \cup Given("EMIT", "run"), date: Int,
   by: Given("POST", "actor") \cup Given("REVERSE", "actor") \cup Given("EMIT", "actor"),
   lines: Seq([account: Int, debit: Int, credit: Int]), reversalOf: Nat,
   source: {NoSource} \cup Given("EMIT", "source"), status: EntryStates]
AcknowledgementRows ==
  [key: Given("ACKNOWLEDGE", "key"), entry: Nat, actor: Given("ACKNOWLEDGE", "actor"),
   previous: EntryStates, result: EntryStates]
ReconciliationRows ==
  [date: Int, checksum: Given("RECONCILE", "checksum"), subledger: Int, ledger: Int,
   discrepancy: Given("RECONCILE", "discrepancy"), due: Int, level: 1..TopLevel]

RowsAreTyped ==
  /\ posted \subseteq Runs
  /\ journal \in Seq(EntryRows) /\ Len(journal) <= MaxEntries
  /\ acknowledgements \in Seq(AcknowledgementRows)
  /\ Len(acknowledgements) <= MaxAcknowledgements
  /\ reconciliations \in Seq(ReconciliationRows)

TransactionIs(s, q) ==
  \E m \in 0..Len(journal), n \in 0..Len(reconciliations) :
    tx[s] = [request |-> q, journal |-> m, reconciliations |-> n]

TransactionsAreSound ==
  /\ DOMAIN tx = Sessions
  /\ \A s \in Sessions : tx[s] = Idle \/ \E q \in Requests : TransactionIs(s, q)

(* Where an entry comes from.                                              *)
IsAllocation(j) ==
  /\ j.kind = "PROFIT_ALLOCATION" /\ j.reversalOf = 0 /\ j.source = NoSource
  /\ j.run \in posted /\ j.by # Maker[j.run] /\ j.lines = AllocationLines(j.run)
  /\ j.date = Date[j.run]
IsEmission(j) == j.kind = "BUSINESS_EVENT" /\ j.reversalOf = 0 /\ j.source # NoSource
IsReversal(j, original) ==
  /\ j.kind = "REVERSAL" /\ j.source = NoSource /\ original.kind # "REVERSAL"
  /\ original.by # j.by /\ j.lines = ReverseLines(original.lines)

EntryIsSound(e) ==
  /\ Balanced(journal[e].lines)
  /\ \/ IsAllocation(journal[e])
     \/ IsEmission(journal[e])
     \/ /\ journal[e].reversalOf \in 1..(e - 1)
        /\ IsReversal(journal[e], journal[journal[e].reversalOf])

SameOrigin(j, k) ==
  /\ j.kind = k.kind
  /\ j.kind = "PROFIT_ALLOCATION" => j.run = k.run
  /\ j.kind = "BUSINESS_EVENT"    => j.source = k.source
  /\ j.kind = "REVERSAL"          => j.reversalOf = k.reversalOf

EntriesAreSound ==
  /\ \A e \in DOMAIN journal : EntryIsSound(e)
  /\ \A e, f \in DOMAIN journal : SameOrigin(journal[e], journal[f]) => e = f
  /\ \A r \in posted : \E e \in DOMAIN journal :
       journal[e].kind = "PROFIT_ALLOCATION" /\ journal[e].run = r

ApprovalsAreSound ==
  /\ \A a, b \in approvals : a.key = b.key => a = b
  /\ \A a \in approvals : a.action = "REVERSE" => a.resource \in DOMAIN journal

AcknowledgementIsSound(a, r) ==
  /\ r.entry \in DOMAIN journal
  /\ r.previous = StateAfter(OnEntry(r.entry, a - 1))
  /\ r.result \in NextStates(r.previous)

AcknowledgementsAreSound ==
  /\ \A e \in DOMAIN journal :
       journal[e].status = StateAfter(OnEntry(e, Len(acknowledgements)))
  /\ \A a \in DOMAIN acknowledgements : AcknowledgementIsSound(a, acknowledgements[a])
  /\ \A a, b \in DOMAIN acknowledgements :
       acknowledgements[a].key = acknowledgements[b].key => a = b

ReconciliationIsSound(r) ==
  /\ \E n \in 0..Len(journal) : r.subledger = Subledger(SubSeq(journal, 1, n), r.date)
  /\ r.discrepancy # NoDiscrepancy <=> r.subledger # r.ledger
  /\ r.discrepancy # NoDiscrepancy => r.due = Deadline(r.discrepancy) + (r.level - 1) * Delay
  /\ r.discrepancy = NoDiscrepancy => r.level = 1

ReconciliationsAreSound ==
  /\ \A i \in DOMAIN reconciliations : ReconciliationIsSound(reconciliations[i])
  /\ \A i, j \in DOMAIN reconciliations : Same(reconciliations[j], reconciliations[i]) => i = j

(* The events of the rows.                                                 *)
EntryEvent(e) == [type |-> Announcement(journal[e].kind), of |-> e]
AcknowledgementEvent(a) == [type |-> "AccountingAcknowledgementRecorded", of |-> a]
ReconciliationEvent(i) == [type |-> "AccountingReconciliationCompleted", of |-> i]
EscalationEvent(i, level) ==
  [type |-> "ReconciliationDiscrepancyEscalated", of |-> i, level |-> level]

EntryEvents == {EntryEvent(e) : e \in DOMAIN journal}
AcknowledgementEvents == {AcknowledgementEvent(a) : a \in DOMAIN acknowledgements}
ReconciliationEvents == {ReconciliationEvent(i) : i \in DOMAIN reconciliations}
EscalationEvents ==
  UNION {{EscalationEvent(i, level) : level \in 2..reconciliations[i].level} :
         i \in DOMAIN reconciliations}

Announced ==
  EntryEvents \cup AcknowledgementEvents \cup ReconciliationEvents \cup EscalationEvents

EachAnnouncedOnce == outbox = SetToBag(Announced)

LedgerAnswerIsSound(request, answer) ==
  \/ request.op = "POST"
  \/ /\ request.op = "REVERSE"
     /\ \E a \in approvals, e \in DOMAIN journal :
          /\ a.key = request.of /\ a.action = "REVERSE" /\ answer = [entry |-> e]
          /\ journal[e].kind = "REVERSAL" /\ journal[e].reversalOf = a.resource
  \/ /\ request.op = "EMIT"
     /\ \E e \in DOMAIN journal :
          /\ journal[e].kind = "BUSINESS_EVENT" /\ journal[e].source = request.of
          /\ answer = [entry |-> e]
  \/ /\ request.op = "ACKNOWLEDGE"
     /\ \E a \in DOMAIN acknowledgements :
          /\ acknowledgements[a].key = request.of
          /\ answer = [state |-> acknowledgements[a].result]
  \/ /\ request.op = "RECONCILE"
     /\ \E i \in DOMAIN reconciliations :
          LET r == reconciliations[i] IN
          /\ request.of = <<r.date, r.checksum>>
          /\ answer = [id |-> i, difference |-> r.subledger - r.ledger]

LedgerAnswersAreSound == \A a \in answers : LedgerAnswerIsSound(a.request, a.answer)

LedgerInv ==
  /\ RowsAreTyped /\ TransactionsAreSound /\ EntriesAreSound /\ ApprovalsAreSound
  /\ AcknowledgementsAreSound /\ ReconciliationsAreSound /\ EachAnnouncedOnce
  /\ LedgerAnswersAreSound

(* The positions of a sequence are finitely many.                          *)
LEMMA Positions ==
  ASSUME NEW T, NEW s \in Seq(T)
  PROVE  /\ Len(s) \in Nat /\ DOMAIN s = 1..Len(s) /\ IsFiniteSet(DOMAIN s)
         /\ \A i \in DOMAIN s : s[i] \in T
<1>1. Len(s) \in Nat /\ DOMAIN s = 1..Len(s) /\ \A i \in DOMAIN s : s[i] \in T
  OBVIOUS
<1>2. IsFiniteSet(1..Len(s))
  BY <1>1, FS_Interval
<1> QED
  BY <1>1, <1>2

(* The lines of an entry.                                                  *)
AccountLines == Seq([account: Int, debit: Int, credit: Int])

(* What an entry leaves on the participants' accounts is an integer.       *)
LEMMA BalanceType ==
  ASSUME NEW lines \in AccountLines
  PROVE  Balance(lines) \in Int
<1> DEFINE f == [i \in DOMAIN lines |->
                   IF lines[i].account > 0 THEN lines[i].credit - lines[i].debit ELSE 0]
<1>1. IsFiniteSet(DOMAIN lines) /\ \A i \in DOMAIN lines : lines[i] \in [account: Int, debit: Int, credit: Int]
  BY Positions DEF AccountLines
<1>2. \A i \in DOMAIN lines : f[i] \in Int
  BY <1>1
<1>3. DOMAIN f = DOMAIN lines /\ Balance(lines) = SumFunctionOnSet(f, DOMAIN f)
  BY DEF Balance, SumFunction
<1> HIDE DEF f
<1> QED
  BY <1>1, <1>2, <1>3, SumType

(* So is what a journal leaves on them up to a date.                       *)
LEMMA SubledgerType ==
  ASSUME NEW entries \in Seq(EntryRows), NEW date \in Int
  PROVE  Subledger(entries, date) \in Int
<1> DEFINE f == [e \in DOMAIN entries |->
                   IF entries[e].date <= date THEN Balance(entries[e].lines) ELSE 0]
<1>1. IsFiniteSet(DOMAIN entries) /\ \A i \in DOMAIN entries : entries[i] \in EntryRows
  BY Positions
<1>2. ASSUME NEW i \in DOMAIN entries PROVE f[i] \in Int
  <2>1. entries[i].lines \in AccountLines
    BY <1>1 DEF EntryRows, AccountLines
  <2>2. Balance(entries[i].lines) \in Int
    BY <2>1, BalanceType
  <2> QED
    BY <2>2
<1>3. DOMAIN f = DOMAIN entries /\ Subledger(entries, date) = SumFunctionOnSet(f, DOMAIN f)
  BY DEF Subledger, SumFunction
<1> HIDE DEF f
<1> QED
  BY <1>1, <1>2, <1>3, SumType

(* A prefix keeps its total when only the status of its entries changes.   *)
LEMMA SubledgerKept ==
  ASSUME NEW J \in Seq(EntryRows), NEW K \in Seq(EntryRows), NEW n \in 0..Len(J), n <= Len(K),
         \A i \in 1..n : J[i].date = K[i].date /\ J[i].lines = K[i].lines,
         NEW date
  PROVE  Subledger(SubSeq(J, 1, n), date) = Subledger(SubSeq(K, 1, n), date)
<1> DEFINE P == SubSeq(J, 1, n)
           Q == SubSeq(K, 1, n)
           f == [e \in DOMAIN P |-> IF P[e].date <= date THEN Balance(P[e].lines) ELSE 0]
           g == [e \in DOMAIN Q |-> IF Q[e].date <= date THEN Balance(Q[e].lines) ELSE 0]
<1>1. n \in Nat /\ n <= Len(J) /\ Len(K) \in Nat
  BY Positions
<1>2. DOMAIN P = 1..n /\ DOMAIN Q = 1..n
  BY <1>1
<1>3. \A i \in 1..n : P[i] = J[i] /\ Q[i] = K[i]
  BY <1>1
<1>4. IsFiniteSet(1..n)
  BY <1>1, FS_Interval
<1> HIDE DEF P, Q
<1>5. \A i \in 1..n : f[i] = g[i]
  BY <1>2, <1>3
<1>6. /\ DOMAIN f = 1..n /\ Subledger(P, date) = SumFunctionOnSet(f, 1..n)
      /\ DOMAIN g = 1..n /\ Subledger(Q, date) = SumFunctionOnSet(g, 1..n)
  BY <1>2 DEF Subledger, SumFunction
<1> HIDE DEF f, g
<1>7. Subledger(P, date) = Subledger(Q, date)
  BY <1>4, <1>5, <1>6, SumSame
<1> QED
  BY <1>7 DEF P, Q

(* A row inserted at the end of a table leaves the rows before it alone.   *)
LEMMA RowAppended ==
  ASSUME NEW T, NEW s \in Seq(T), NEW x \in T, NEW t, t = Append(s, x)
  PROVE  /\ t \in Seq(T) /\ Len(s) \in Nat /\ Len(t) = Len(s) + 1
         /\ DOMAIN s = 1..Len(s) /\ DOMAIN t = 1..(Len(s) + 1)
         /\ \A i \in DOMAIN s : i \in DOMAIN t /\ t[i] = s[i]
         /\ t[Len(s) + 1] = x
OBVIOUS

(* What a step leaves of the rows there were.                              *)
Alike(j, k) ==
  /\ j.kind = k.kind /\ j.run = k.run /\ j.date = k.date /\ j.by = k.by /\ j.lines = k.lines
  /\ j.reversalOf = k.reversalOf /\ j.source = k.source

JournalKept ==
  /\ journal' \in Seq(EntryRows) /\ Len(journal) <= Len(journal')
  /\ \A e \in DOMAIN journal : e \in DOMAIN journal' /\ Alike(journal[e], journal'[e])

AcknowledgementsKept ==
  \A a \in DOMAIN acknowledgements :
    a \in DOMAIN acknowledgements' /\ acknowledgements'[a] = acknowledgements[a]

ReconciliationsKept ==
  /\ Len(reconciliations) \in Nat /\ Len(reconciliations') \in Nat
  /\ Len(reconciliations) <= Len(reconciliations')
  /\ \A i \in DOMAIN reconciliations :
       LET r == reconciliations[i]  new == reconciliations'[i] IN
       /\ i \in DOMAIN reconciliations'
       /\ r.date = new.date /\ r.checksum = new.checksum
       /\ r.subledger = new.subledger /\ r.ledger = new.ledger

RowsKept ==
  /\ JournalKept /\ AcknowledgementsKept /\ ReconciliationsKept
  /\ posted \subseteq posted' /\ approvals \subseteq approvals'

(* A step that writes no table keeps every row.                            *)
LEMMA NothingWritten ==
  ASSUME RowsAreTyped, UNCHANGED tables
  PROVE  RowsKept
<1>1. Len(journal) \in Nat /\ Len(reconciliations) \in Nat
  BY Positions DEF RowsAreTyped
<1> QED
  BY <1>1 DEF RowsAreTyped, RowsKept, JournalKept, AcknowledgementsKept, ReconciliationsKept, Alike,
              tables

(* An entry stays sound while the rows it stands on are kept.              *)
LEMMA EntryKept ==
  ASSUME JournalKept, posted \subseteq posted', Len(journal) \in Nat,
         DOMAIN journal = 1..Len(journal), NEW e \in DOMAIN journal, EntryIsSound(e)
  PROVE  EntryIsSound(e)'
<1>1. Alike(journal[e], journal'[e])
  BY DEF JournalKept
<1>2. Balanced(journal'[e].lines)
  BY <1>1 DEF EntryIsSound, Alike
<1>3. CASE IsAllocation(journal[e])
  <2>1. IsAllocation(journal[e])'
    BY <1>1, <1>3 DEF IsAllocation, Alike
  <2> QED
    BY <1>2, <2>1 DEF EntryIsSound
<1>4. CASE IsEmission(journal[e])
  <2>1. IsEmission(journal[e])'
    BY <1>1, <1>4 DEF IsEmission, Alike
  <2> QED
    BY <1>2, <2>1 DEF EntryIsSound
<1>5. CASE /\ journal[e].reversalOf \in 1..(e - 1)
           /\ IsReversal(journal[e], journal[journal[e].reversalOf])
  <2>1. PICK o \in DOMAIN journal : o = journal[e].reversalOf
    BY <1>5
  <2>2. Alike(journal[o], journal'[o]) /\ journal'[e].reversalOf = o
    BY <1>1, <2>1 DEF JournalKept, Alike
  <2>3. IsReversal(journal'[e], journal'[o])
    BY <1>1, <1>5, <2>1, <2>2 DEF IsReversal, Alike
  <2> QED
    BY <1>2, <1>5, <2>1, <2>2, <2>3 DEF EntryIsSound
<1> QED
  BY <1>3, <1>4, <1>5 DEF EntryIsSound

(* A reconciliation stays sound while its row and its source are kept.     *)
LEMMA ReconciliationKept ==
  ASSUME JournalKept, RowsAreTyped, NEW r, ReconciliationIsSound(r)
  PROVE  ReconciliationIsSound(r)'
<1>1. PICK n \in 0..Len(journal) : r.subledger = Subledger(SubSeq(journal, 1, n), r.date)
  BY DEF ReconciliationIsSound
<1>2. journal \in Seq(EntryRows) /\ journal' \in Seq(EntryRows)
  BY DEF RowsAreTyped, JournalKept
<1>3. Len(journal) \in Nat /\ Len(journal') \in Nat /\ DOMAIN journal = 1..Len(journal)
  BY <1>2
<1>4. n <= Len(journal') /\ n \in 0..Len(journal')
  BY <1>3 DEF JournalKept
<1>5. \A i \in 1..n : journal[i].date = journal'[i].date /\ journal[i].lines = journal'[i].lines
  BY <1>3 DEF JournalKept, Alike
<1>6. PICK J \in Seq(EntryRows) : J = journal
  BY <1>2
<1>7. PICK K \in Seq(EntryRows) : K = journal'
  BY <1>2
<1>8. Subledger(SubSeq(J, 1, n), r.date) = Subledger(SubSeq(K, 1, n), r.date)
  BY <1>1, <1>4, <1>5, <1>6, <1>7, SubledgerKept
<1> QED
  BY <1>1, <1>4, <1>6, <1>7, <1>8 DEF ReconciliationIsSound

(* An answer stays true while the rows it speaks of are kept.              *)
LEMMA AnswerKept ==
  ASSUME RowsKept, NEW request, NEW answer, LedgerAnswerIsSound(request, answer)
  PROVE  LedgerAnswerIsSound(request, answer)'
<1>1. CASE request.op = "POST"
  BY <1>1 DEF LedgerAnswerIsSound
<1>2. CASE /\ request.op = "REVERSE"
           /\ \E a \in approvals, e \in DOMAIN journal :
                /\ a.key = request.of /\ a.action = "REVERSE" /\ answer = [entry |-> e]
                /\ journal[e].kind = "REVERSAL" /\ journal[e].reversalOf = a.resource
  <2>1. PICK a \in approvals, e \in DOMAIN journal :
          /\ a.key = request.of /\ a.action = "REVERSE" /\ answer = [entry |-> e]
          /\ journal[e].kind = "REVERSAL" /\ journal[e].reversalOf = a.resource
    BY <1>2
  <2>2. a \in approvals' /\ e \in DOMAIN journal'
    BY DEF RowsKept, JournalKept
  <2>3. journal'[e].kind = "REVERSAL" /\ journal'[e].reversalOf = a.resource
    BY <2>1 DEF RowsKept, JournalKept, Alike
  <2> QED
    BY <1>2, <2>1, <2>2, <2>3 DEF LedgerAnswerIsSound
<1>3. CASE /\ request.op = "EMIT"
           /\ \E e \in DOMAIN journal :
                /\ journal[e].kind = "BUSINESS_EVENT" /\ journal[e].source = request.of
                /\ answer = [entry |-> e]
  BY <1>3 DEF LedgerAnswerIsSound, RowsKept, JournalKept, Alike
<1>4. CASE /\ request.op = "ACKNOWLEDGE"
           /\ \E a \in DOMAIN acknowledgements :
                /\ acknowledgements[a].key = request.of
                /\ answer = [state |-> acknowledgements[a].result]
  BY <1>4 DEF LedgerAnswerIsSound, RowsKept, AcknowledgementsKept
<1>5. CASE /\ request.op = "RECONCILE"
           /\ \E i \in DOMAIN reconciliations :
                LET r == reconciliations[i] IN
                /\ request.of = <<r.date, r.checksum>>
                /\ answer = [id |-> i, difference |-> r.subledger - r.ledger]
  BY <1>5 DEF LedgerAnswerIsSound, RowsKept, ReconciliationsKept
<1> QED
  BY <1>1, <1>2, <1>3, <1>4, <1>5 DEF LedgerAnswerIsSound

(* Answers stay sound when one that is sound joins them.                   *)
LEMMA AnswersGrow ==
  ASSUME LedgerAnswersAreSound, RowsKept, NEW request, NEW answer,
         LedgerAnswerIsSound(request, answer)',
         answers' = answers \cup {[request |-> request, answer |-> answer]}
  PROVE  LedgerAnswersAreSound'
BY AnswerKept DEF LedgerAnswersAreSound

(* Answers stay sound while no request is answered.                        *)
LEMMA LedgerAnswersStay ==
  ASSUME LedgerAnswersAreSound, RowsKept, answers' = answers
  PROVE  LedgerAnswersAreSound'
BY AnswerKept DEF LedgerAnswersAreSound

(* Transactions begin, end and see the tables grow.                        *)
LEMMA TransactionsKept ==
  ASSUME TransactionsAreSound, RowsKept, RowsAreTyped,
         \/ tx' = tx
         \/ \E s \in Sessions : tx' = [tx EXCEPT ![s] = Idle]
  PROVE  TransactionsAreSound'
<1>1. Len(journal) \in Nat /\ Len(journal') \in Nat /\ Len(journal) <= Len(journal')
  BY Positions DEF RowsAreTyped, RowsKept, JournalKept
<1>2. /\ Len(reconciliations) \in Nat /\ Len(reconciliations') \in Nat
      /\ Len(reconciliations) <= Len(reconciliations')
  BY DEF RowsKept, ReconciliationsKept
<1>3. DOMAIN tx' = Sessions
  BY DEF TransactionsAreSound
<1>4. ASSUME NEW t \in Sessions
      PROVE  tx'[t] = Idle \/ \E q \in Requests : TransactionIs(t, q)'
  <2>1. CASE tx'[t] = Idle
    BY <2>1
  <2>2. CASE tx'[t] # Idle
    <3>1. tx'[t] = tx[t]
      BY <2>2 DEF TransactionsAreSound
    <3>2. PICK q \in Requests : TransactionIs(t, q)
      BY <2>2, <3>1 DEF TransactionsAreSound
    <3>3. TransactionIs(t, q)'
      BY <1>1, <1>2, <3>1, <3>2 DEF TransactionIs
    <3> QED
      BY <3>3
  <2> QED
    BY <2>1, <2>2
<1> QED
  BY <1>3, <1>4 DEF TransactionsAreSound

(* A set of positions has a last one, which decides the state.             *)
LEMMA LastNumber ==
  ASSUME NEW n \in Nat, NEW S, S \subseteq 1..n, S # {}
  PROVE  \E a \in S : \A b \in S : b <= a
<1> DEFINE T == {m \in Nat : \E a \in S : m = n - a}
<1>1. T \subseteq Nat /\ \A a \in S : n - a \in T
  OBVIOUS
<1>2. T # {}
  BY <1>1
<1>3. PICK m \in T : \A k \in T : m <= k
  BY <1>1, <1>2, LeastNumber
<1>4. PICK a \in S : m = n - a
  OBVIOUS
<1>5. ASSUME NEW b \in S PROVE b <= a
  <2>1. n - b \in T
    BY <1>1
  <2>2. n - a <= n - b
    BY <1>3, <1>4, <2>1
  <2> QED
    BY <2>2
<1> QED
  BY <1>5

(* The state after a set of acknowledgements depends on their rows only.   *)
LEMMA StateKept ==
  ASSUME AcknowledgementsKept, RowsAreTyped, NEW S, S \subseteq DOMAIN acknowledgements
  PROVE  StateAfter(S)' = StateAfter(S)
<1>1. Len(acknowledgements) \in Nat /\ DOMAIN acknowledgements = 1..Len(acknowledgements)
  BY DEF RowsAreTyped
<1>2. CASE S = {}
  BY <1>2 DEF StateAfter
<1>3. CASE S # {}
  <2> DEFINE last == CHOOSE a \in S : \A b \in S : b <= a
  <2>1. \E a \in S : \A b \in S : b <= a
    BY <1>1, <1>3, LastNumber
  <2>2. last \in S
    BY <2>1
  <2>3. acknowledgements'[last] = acknowledgements[last]
    BY <2>2 DEF AcknowledgementsKept
  <2> QED
    BY <1>3, <2>3 DEF StateAfter
<1> QED
  BY <1>2, <1>3

(* Kept acknowledgements of an entry stay those of that entry.             *)
LEMMA OnEntryKept ==
  ASSUME AcknowledgementsKept, RowsAreTyped, NEW n \in 0..Len(acknowledgements), NEW e
  PROVE  /\ OnEntry(e, n)' = OnEntry(e, n) /\ OnEntry(e, n) \subseteq DOMAIN acknowledgements
         /\ StateAfter(OnEntry(e, n))' = StateAfter(OnEntry(e, n))
<1>1. Len(acknowledgements) \in Nat /\ DOMAIN acknowledgements = 1..Len(acknowledgements)
  BY DEF RowsAreTyped
<1>2. \A a \in 1..n : a \in DOMAIN acknowledgements /\ acknowledgements'[a] = acknowledgements[a]
  BY <1>1 DEF AcknowledgementsKept
<1>3. OnEntry(e, n)' = OnEntry(e, n) /\ OnEntry(e, n) \subseteq DOMAIN acknowledgements
  BY <1>2 DEF OnEntry
<1>4. PICK S : S = OnEntry(e, n)
  OBVIOUS
<1>5. StateAfter(S)' = StateAfter(S)
  BY <1>3, <1>4, StateKept
<1> QED
  BY <1>3, <1>4, <1>5

(* The state after one more acknowledgement is its result.                 *)
LEMMA StateAfterLast ==
  ASSUME NEW n \in Nat, NEW S, S \subseteq 1..n
  PROVE  StateAfter(S \cup {n + 1})' = acknowledgements'[n + 1].result
<1> DEFINE W == S \cup {n + 1}
           last == CHOOSE a \in W : \A b \in W : b <= a
<1>1. \A b \in W : b <= n + 1
  OBVIOUS
<1>2. n + 1 \in W
  OBVIOUS
<1>3. last \in W /\ \A b \in W : b <= last
  BY <1>1, <1>2
<1>4. last = n + 1
  <2>1. PICK m \in W : m = last
    BY <1>3
  <2> HIDE DEF last
  <2>2. m \in Nat
    OBVIOUS
  <2> HIDE DEF W
  <2>3. m <= n + 1 /\ n + 1 <= m
    BY <1>1, <1>2, <1>3, <2>1
  <2> QED
    BY <2>1, <2>2, <2>3
<1> QED
  BY <1>2, <1>4 DEF StateAfter

(* The bag of what is announced grows by what was not.                     *)
LEMMA BagGrows ==
  ASSUME NEW A, NEW B, A \cap B = {}
  PROVE  SetToBag(A) (+) SetToBag(B) = SetToBag(A \cup B)
BY DEF SetToBag, (+)

EntryAnnouncements == {"CalculationPosted", "JournalEntryReversed", "AccountingEntryEmitted"}

(* Each kind of entry has an announcement of its own.                      *)
LEMMA AnnouncementIs ==
  ASSUME NEW kind PROVE Announcement(kind) \in EntryAnnouncements
BY DEF Announcement, EntryAnnouncements

(* Events of different tables are different events.                        *)
LEMMA EventTypes ==
  /\ \A x \in EntryEvents : x.type \in EntryAnnouncements /\ x.of \in DOMAIN journal
  /\ \A x \in AcknowledgementEvents :
       x.type = "AccountingAcknowledgementRecorded" /\ x.of \in DOMAIN acknowledgements
  /\ \A x \in ReconciliationEvents :
       x.type = "AccountingReconciliationCompleted" /\ x.of \in DOMAIN reconciliations
  /\ \A x \in EscalationEvents :
       /\ x.type = "ReconciliationDiscrepancyEscalated" /\ x.of \in DOMAIN reconciliations
       /\ x.level \in 2..reconciliations[x.of].level
<1>1. \A x \in EntryEvents : x.type \in EntryAnnouncements /\ x.of \in DOMAIN journal
  BY AnnouncementIs DEF EntryEvents, EntryEvent
<1>2. \A x \in AcknowledgementEvents :
        x.type = "AccountingAcknowledgementRecorded" /\ x.of \in DOMAIN acknowledgements
  BY DEF AcknowledgementEvents, AcknowledgementEvent
<1>3. \A x \in ReconciliationEvents :
        x.type = "AccountingReconciliationCompleted" /\ x.of \in DOMAIN reconciliations
  BY DEF ReconciliationEvents, ReconciliationEvent
<1>4. ASSUME NEW x \in EscalationEvents
      PROVE  /\ x.type = "ReconciliationDiscrepancyEscalated" /\ x.of \in DOMAIN reconciliations
             /\ x.level \in 2..reconciliations[x.of].level
  <2>1. PICK i \in DOMAIN reconciliations :
          \E level \in 2..reconciliations[i].level : x = EscalationEvent(i, level)
    BY DEF EscalationEvents
  <2> QED
    BY <2>1 DEF EscalationEvent
<1> QED
  BY <1>1, <1>2, <1>3, <1>4

(* A new entry and its announcement in one transaction.                    *)
LEMMA EntryAnnounced ==
  ASSUME RowsAreTyped, NEW j \in EntryRows, journal' = Append(journal, j),
         UNCHANGED <<acknowledgements, reconciliations>>, EachAnnouncedOnce,
         Announce([type |-> Announcement(j.kind), of |-> Len(journal) + 1])
  PROVE  EachAnnouncedOnce'
<1> DEFINE x == [type |-> Announcement(j.kind), of |-> Len(journal) + 1]
<1>1. /\ Len(journal) \in Nat /\ DOMAIN journal = 1..Len(journal)
      /\ DOMAIN journal' = 1..(Len(journal) + 1) /\ journal'[Len(journal) + 1] = j
      /\ \A e \in DOMAIN journal : journal'[e] = journal[e]
  BY RowAppended DEF RowsAreTyped
<1>2. \A e \in DOMAIN journal : EntryEvent(e)' = EntryEvent(e)
  BY <1>1 DEF EntryEvent
<1>3. PICK n \in Nat : n = Len(journal) + 1
  BY <1>1
<1>4. EntryEvent(n)' = x
  BY <1>1, <1>3 DEF EntryEvent
<1>5. DOMAIN journal' = DOMAIN journal \cup {n}
  BY <1>1, <1>3
<1>6. EntryEvents' = EntryEvents \cup {x}
  BY <1>2, <1>4, <1>5 DEF EntryEvents
<1>7. /\ AcknowledgementEvents' = AcknowledgementEvents
      /\ ReconciliationEvents' = ReconciliationEvents /\ EscalationEvents' = EscalationEvents
  BY DEF AcknowledgementEvents, AcknowledgementEvent, ReconciliationEvents, ReconciliationEvent,
         EscalationEvents, EscalationEvent
<1>8. Announced' = Announced \cup {x}
  BY <1>6, <1>7 DEF Announced
<1>9. x.type \in EntryAnnouncements /\ x.of \notin DOMAIN journal
  BY <1>1, AnnouncementIs
<1>10. outbox' = outbox (+) SetToBag({x})
  BY DEF Announce
<1> HIDE DEF x
<1>11. x \notin Announced
  BY <1>9, EventTypes DEF Announced, EntryAnnouncements
<1>12. Announced \cap {x} = {}
  BY <1>11
<1> QED
  BY <1>8, <1>10, <1>12, BagGrows DEF EachAnnouncedOnce

(* A step that inserts a pending entry: what posting, reversal and         *)
(* emission share.                                                         *)
Inserted(j) ==
  /\ j \in EntryRows /\ j.status = "PENDING" /\ Len(journal) < MaxEntries
  /\ journal' = Append(journal, j)
  /\ UNCHANGED <<acknowledgements, reconciliations>>
  /\ posted \subseteq posted' /\ posted' \subseteq Runs /\ approvals \subseteq approvals'

(* An inserted entry leaves the tables typed and their rows kept.          *)
LEMMA InsertedRows ==
  ASSUME LedgerInv, NEW j, Inserted(j)
  PROVE  /\ RowsKept /\ RowsAreTyped'
         /\ Len(journal) \in Nat /\ DOMAIN journal = 1..Len(journal)
         /\ DOMAIN journal' = 1..(Len(journal) + 1) /\ journal'[Len(journal) + 1] = j
         /\ \A e \in DOMAIN journal : journal'[e] = journal[e]
<1>1. RowsAreTyped
  BY DEF LedgerInv
<1>2. journal \in Seq(EntryRows) /\ j \in EntryRows /\ journal' = Append(journal, j)
  BY <1>1 DEF RowsAreTyped, Inserted
<1>3. /\ journal' \in Seq(EntryRows) /\ Len(journal) \in Nat
      /\ DOMAIN journal = 1..Len(journal) /\ Len(journal') = Len(journal) + 1
      /\ DOMAIN journal' = 1..(Len(journal) + 1) /\ journal'[Len(journal) + 1] = j
      /\ \A e \in DOMAIN journal : e \in DOMAIN journal' /\ journal'[e] = journal[e]
  BY <1>2, RowAppended
<1>4. JournalKept
  BY <1>3 DEF JournalKept, Alike
<1>5. AcknowledgementsKept /\ ReconciliationsKept
  <2>1. Len(reconciliations) \in Nat
    BY <1>1 DEF RowsAreTyped
  <2> QED
    BY <2>1 DEF Inserted, AcknowledgementsKept, ReconciliationsKept
<1>6. RowsAreTyped'
  BY <1>1, <1>3, LedgerAssumption DEF RowsAreTyped, Inserted
<1> QED
  BY <1>3, <1>4, <1>5, <1>6 DEF RowsKept, Inserted

(* The acknowledgements stand, and the new entry has none.                 *)
LEMMA InsertedAcknowledgements ==
  ASSUME LedgerInv, NEW j, Inserted(j)
  PROVE  AcknowledgementsAreSound'
<1>1. /\ RowsKept /\ Len(journal) \in Nat /\ DOMAIN journal = 1..Len(journal)
      /\ DOMAIN journal' = 1..(Len(journal) + 1) /\ journal'[Len(journal) + 1] = j
      /\ \A e \in DOMAIN journal : journal'[e] = journal[e]
  BY InsertedRows
<1>2. acknowledgements' = acknowledgements /\ AcknowledgementsAreSound /\ RowsAreTyped
  BY DEF Inserted, LedgerInv
<1>3. PICK n \in Nat : n = Len(acknowledgements) /\ DOMAIN acknowledgements = 1..n
  BY <1>2 DEF RowsAreTyped
<1>4. \A e, m : StateAfter(OnEntry(e, m))' = StateAfter(OnEntry(e, m))
  BY <1>2 DEF StateAfter, OnEntry
<1>5. ASSUME NEW e \in DOMAIN journal'
      PROVE  journal'[e].status = StateAfter(OnEntry(e, Len(acknowledgements)))'
  <2>1. CASE e \in DOMAIN journal
    BY <1>1, <1>2, <1>4, <2>1 DEF AcknowledgementsAreSound
  <2>2. CASE e = Len(journal) + 1
    <3>1. e \notin DOMAIN journal
      BY <1>1, <2>2
    <3>2. \A a \in 1..n : acknowledgements[a].entry # e
      BY <1>2, <1>3, <3>1 DEF AcknowledgementsAreSound, AcknowledgementIsSound
    <3>3. OnEntry(e, Len(acknowledgements))' = {}
      BY <1>2, <1>3, <3>2 DEF OnEntry
    <3>4. journal'[e].status = "PENDING"
      BY <1>1, <2>2 DEF Inserted
    <3> QED
      BY <3>3, <3>4 DEF StateAfter
  <2> QED
    BY <1>1, <2>1, <2>2
<1>6. DOMAIN journal \subseteq DOMAIN journal'
  BY <1>1
<1>7. \A a : \A r : AcknowledgementIsSound(a, r) => AcknowledgementIsSound(a, r)'
  BY <1>4, <1>6 DEF AcknowledgementIsSound
<1> QED
  BY <1>2, <1>5, <1>7 DEF AcknowledgementsAreSound

(* The reconciliations stand.                                              *)
LEMMA ReconciliationsStay ==
  ASSUME LedgerInv, RowsKept, reconciliations' = reconciliations
  PROVE  ReconciliationsAreSound'
<1>1. ReconciliationsAreSound /\ RowsAreTyped
  BY DEF LedgerInv
<1>2. ASSUME NEW i \in DOMAIN reconciliations PROVE ReconciliationIsSound(reconciliations[i])'
  <2>1. PICK r : r = reconciliations[i]
    OBVIOUS
  <2>2. ReconciliationIsSound(r)'
    BY <1>1, <2>1, ReconciliationKept DEF ReconciliationsAreSound, RowsKept
  <2> QED
    BY <2>1, <2>2
<1>3. \A i, j \in DOMAIN reconciliations' : Same(reconciliations'[j], reconciliations'[i]) => i = j
  BY <1>1 DEF ReconciliationsAreSound
<1> QED
  BY <1>2, <1>3 DEF ReconciliationsAreSound

(* An inserted entry that is sound and of a new origin keeps the           *)
(* invariant.                                                              *)
LEMMA EntryAdded ==
  ASSUME LedgerInv, NEW j, Inserted(j), Balanced(j.lines),
         \/ IsAllocation(j)' /\ posted' = posted \cup {j.run}
         \/ IsEmission(j) /\ posted' = posted
         \/ /\ j.reversalOf \in DOMAIN journal /\ posted' = posted
            /\ IsReversal(j, journal[j.reversalOf]),
         \A e \in DOMAIN journal : ~ SameOrigin(journal[e], j)
  PROVE  EntriesAreSound'
<1>1. /\ RowsKept /\ Len(journal) \in Nat /\ DOMAIN journal = 1..Len(journal)
      /\ DOMAIN journal' = 1..(Len(journal) + 1) /\ journal'[Len(journal) + 1] = j
      /\ \A e \in DOMAIN journal : journal'[e] = journal[e]
  BY InsertedRows
<1>2. PICK n \in Nat : n = Len(journal) + 1 /\ n \notin DOMAIN journal
                       /\ DOMAIN journal' = DOMAIN journal \cup {n} /\ journal'[n] = j
  BY <1>1
<1>3. EntriesAreSound
  BY DEF LedgerInv
<1>4. \A e \in DOMAIN journal : EntryIsSound(e)'
  BY <1>1, <1>3, EntryKept DEF EntriesAreSound, RowsKept
<1>5. EntryIsSound(n)'
  <2>1. CASE IsAllocation(j)' \/ IsEmission(j)
    BY <1>2, <2>1 DEF EntryIsSound, IsEmission
  <2>2. CASE j.reversalOf \in DOMAIN journal /\ IsReversal(j, journal[j.reversalOf])
    <3>1. PICK o \in DOMAIN journal : o = j.reversalOf
      BY <2>2
    <3>2. o \in 1..(n - 1) /\ journal'[o] = journal[o]
      BY <1>1, <1>2
    <3>3. IsReversal(j, journal'[o])
      BY <2>2, <3>1, <3>2
    <3> QED
      BY <1>2, <3>1, <3>2, <3>3 DEF EntryIsSound, IsReversal
  <2> QED
    BY <2>1, <2>2
<1>6. \A e \in DOMAIN journal : ~ SameOrigin(j, journal[e])
  BY DEF SameOrigin
<1>7. \A e, f \in DOMAIN journal' : SameOrigin(journal'[e], journal'[f]) => e = f
  BY <1>1, <1>2, <1>3, <1>6 DEF EntriesAreSound
<1>8. ASSUME NEW r \in posted'
      PROVE  \E e \in DOMAIN journal' : journal'[e].kind = "PROFIT_ALLOCATION" /\ journal'[e].run = r
  <2>1. CASE r \in posted
    BY <1>1, <1>2, <1>3, <2>1 DEF EntriesAreSound
  <2>2. CASE r \notin posted
    <3>1. IsAllocation(j)' /\ r = j.run
      BY <2>2
    <3> QED
      BY <1>2, <3>1 DEF IsAllocation
  <2> QED
    BY <2>1, <2>2
<1> QED
  BY <1>2, <1>4, <1>5, <1>7, <1>8 DEF EntriesAreSound

(* A line is typed.                                                        *)
LEMMA LineType ==
  ASSUME NEW participant \in Int, NEW amount \in Int, NEW onCredit
  PROVE  Line(participant, amount, onCredit) \in [account: Int, debit: Int, credit: Int]
BY DEF Line

(* The lines of an allocation are typed, one per share after the result's. *)
LEMMA AllocationLinesAre ==
  ASSUME NEW r \in Runs
  PROVE  /\ Len(Shares[r]) \in Nat /\ DOMAIN Shares[r] = 1..Len(Shares[r])
         /\ AllocationLines(r) \in AccountLines
         /\ Len(AllocationLines(r)) = Len(Shares[r]) + 1
         /\ DOMAIN AllocationLines(r) = 1..(Len(Shares[r]) + 1)
         /\ AllocationLines(r)[1] =
              Line(0, Absolute(Distributable[r]), ~(Distributable[r] >= 0))
         /\ \A i \in 1..Len(Shares[r]) :
              AllocationLines(r)[i + 1] =
                Line(i, Absolute(Shares[r][i]), Distributable[r] >= 0)
<1> DEFINE LineRow == [account: Int, debit: Int, credit: Int]
           profit == Distributable[r] >= 0
           first == Line(0, Absolute(Distributable[r]), ~profit)
           rest == [i \in DOMAIN Shares[r] |-> Line(i, Absolute(Shares[r][i]), profit)]
<1>1. /\ Shares[r] \in Seq(Int) /\ Distributable[r] \in Int
  BY LedgerAssumption
<1>2. Len(Shares[r]) \in Nat /\ DOMAIN Shares[r] = 1..Len(Shares[r])
  BY <1>1
<1>3. \A i \in 1..Len(Shares[r]) : Absolute(Shares[r][i]) \in Int
  BY <1>1, <1>2 DEF Absolute
<1>4. first \in LineRow
  BY <1>1, LineType DEF Absolute
<1>5. \A i \in 1..Len(Shares[r]) : Line(i, Absolute(Shares[r][i]), profit) \in LineRow
  BY <1>2, <1>3, LineType
<1>6. PICK n \in Nat : n = Len(Shares[r])
  BY <1>2
<1>7. rest = [i \in 1..n |-> Line(i, Absolute(Shares[r][i]), profit)]
  BY <1>2, <1>6
<1>8. AllocationLines(r) = <<first>> \o rest
  BY DEF AllocationLines
<1> HIDE DEF first, LineRow, profit
<1>9. rest \in Seq(LineRow) /\ Len(rest) = n
  BY <1>5, <1>6, <1>7
<1>10. \A i \in 1..n : rest[i] = Line(i, Absolute(Shares[r][i]), profit)
  BY <1>7
<1> HIDE DEF rest
<1>11. /\ <<first>> \o rest \in Seq(LineRow) /\ Len(<<first>> \o rest) = n + 1
       /\ DOMAIN (<<first>> \o rest) = 1..(n + 1)
       /\ (<<first>> \o rest)[1] = first
       /\ \A i \in 1..n : (<<first>> \o rest)[i + 1] = rest[i]
  BY <1>4, <1>9
<1> QED
  BY <1>2, <1>6, <1>8, <1>10, <1>11 DEF first, profit, LineRow, AccountLines

(* The lines of a reversal are typed, line for line the original's.        *)
LEMMA ReverseLinesAre ==
  ASSUME NEW lines \in AccountLines
  PROVE  /\ ReverseLines(lines) \in AccountLines
         /\ DOMAIN ReverseLines(lines) = DOMAIN lines
         /\ \A i \in DOMAIN lines : /\ ReverseLines(lines)[i].account = lines[i].account
                                    /\ ReverseLines(lines)[i].debit = lines[i].credit
                                    /\ ReverseLines(lines)[i].credit = lines[i].debit
<1> DEFINE LineRow == [account: Int, debit: Int, credit: Int]
<1>1. /\ Len(lines) \in Nat /\ DOMAIN lines = 1..Len(lines)
      /\ \A i \in DOMAIN lines : lines[i] \in LineRow
  BY Positions DEF AccountLines
<1>2. PICK n \in Nat : n = Len(lines)
  BY <1>1
<1> DEFINE Turned(i) == [lines[i] EXCEPT !.debit = lines[i].credit, !.credit = lines[i].debit]
<1>3. \A i \in 1..n : /\ Turned(i) \in LineRow /\ Turned(i).account = lines[i].account
                      /\ Turned(i).debit = lines[i].credit /\ Turned(i).credit = lines[i].debit
  BY <1>1, <1>2
<1>4. ReverseLines(lines) = [i \in 1..n |-> Turned(i)]
  BY <1>1, <1>2 DEF ReverseLines
<1> HIDE DEF Turned, LineRow
<1>5. ReverseLines(lines) \in Seq(LineRow)
  BY <1>3, <1>4
<1>6. \A i \in 1..n : /\ ReverseLines(lines)[i].account = lines[i].account
                      /\ ReverseLines(lines)[i].debit = lines[i].credit
                      /\ ReverseLines(lines)[i].credit = lines[i].debit
  BY <1>3, <1>4
<1> QED
  BY <1>1, <1>2, <1>4, <1>5, <1>6 DEF AccountLines, LineRow

(* A session that commits.                                                 *)
LEMMA CommittingIs ==
  ASSUME LedgerInv, NEW s \in Sessions, NEW op, Committing(s, op)
  PROVE  /\ tx[s].request \in Asked(op) /\ tx[s].request \in Requests /\ tx[s].request.op = op
         /\ tx[s].journal \in 0..Len(journal)
         /\ tx[s].reconciliations \in 0..Len(reconciliations)
         /\ tx' = [tx EXCEPT ![s] = Idle]
<1>1. TransactionsAreSound /\ tx[s] # Idle
  BY DEF LedgerInv, Committing
<1>2. PICK q \in Requests : TransactionIs(s, q)
  BY <1>1 DEF TransactionsAreSound
<1>3. PICK m \in 0..Len(journal), n \in 0..Len(reconciliations) :
        tx[s] = [request |-> q, journal |-> m, reconciliations |-> n]
  BY <1>2 DEF TransactionIs
<1>4. tx[s].request = q /\ tx[s].journal = m /\ tx[s].reconciliations = n
  BY <1>3
<1> QED
  BY <1>4 DEF Committing, Asked

(* Posting a run keeps the invariant.                                      *)
LEMMA PostingKeeps ==
  ASSUME LedgerInv, NEW s \in Sessions, CommitPosting(s)
  PROVE  LedgerInv'
<1>1. Committing(s, "POST")
  BY DEF CommitPosting
<1>2. PICK q \in Asked("POST") : q = tx[s].request /\ q \in Requests /\ q.op = "POST"
  BY <1>1, CommittingIs
<1> DEFINE j == Entry("PROFIT_ALLOCATION", q.run, Date[q.run], q.actor, AllocationLines(q.run),
                      0, NoSource)
<1>3. /\ q.run \notin posted /\ Maker[q.run] # q.actor
      /\ Insert(j)
      /\ posted' = posted \cup {q.run}
      /\ Approve(q, q.run)
      /\ Announce([type |-> "CalculationPosted", of |-> Len(journal) + 1])
      /\ Answer(q, [entry |-> Len(journal) + 1])
      /\ UNCHANGED <<acknowledgements, reconciliations>>
  BY <1>2 DEF CommitPosting
<1>4. /\ q.run \in Runs /\ Date[q.run] \in Int
  BY <1>2, LedgerAssumption
<1>5. j \in EntryRows
  <2>1. AllocationLines(q.run) \in AccountLines
    BY <1>4, AllocationLinesAre
  <2>2. q.actor \in Given("POST", "actor")
    BY <1>2 DEF Given
  <2> QED
    BY <1>4, <2>1, <2>2 DEF Entry, EntryRows, EntryKinds, EntryStates, AccountLines
<1>6. /\ j.status = "PENDING" /\ j.kind = "PROFIT_ALLOCATION" /\ j.run = q.run
      /\ j.reversalOf = 0 /\ j.source = NoSource /\ j.lines = AllocationLines(q.run)
      /\ j.by = q.actor /\ j.date = Date[q.run]
  BY DEF Entry
<1> HIDE DEF j
<1>7. Balanced(j.lines) /\ Len(journal) < MaxEntries /\ journal' = Append(journal, j)
  BY <1>3, <1>6 DEF Insert
<1>8. posted \subseteq posted' /\ posted' \subseteq Runs /\ approvals \subseteq approvals'
  BY <1>3, <1>4 DEF LedgerInv, RowsAreTyped, Approve
<1>9. Inserted(j)
  BY <1>3, <1>5, <1>6, <1>7, <1>8 DEF Inserted
<1>10. RowsKept /\ RowsAreTyped'
  BY <1>9, InsertedRows
<1>11. TransactionsAreSound'
  BY <1>1, <1>10, CommittingIs, TransactionsKept DEF LedgerInv
<1>12. IsAllocation(j)'
  BY <1>3, <1>6 DEF IsAllocation
<1>13. ASSUME NEW e \in DOMAIN journal PROVE ~ SameOrigin(journal[e], j)
  <2>1. EntryIsSound(e)
    BY DEF LedgerInv, EntriesAreSound
  <2> QED
    BY <1>3, <1>6, <2>1 DEF SameOrigin, EntryIsSound, IsAllocation, IsEmission, IsReversal
<1>14. EntriesAreSound'
  BY <1>3, <1>6, <1>7, <1>9, <1>12, <1>13, EntryAdded
<1>15. ApprovalsAreSound'
  BY <1>2, <1>3, <1>10
     DEF Approve, LedgerInv, ApprovalsAreSound, RowsKept, JournalKept
<1>16. Announcement(j.kind) = "CalculationPosted"
  BY <1>6 DEF Announcement
<1>17. EachAnnouncedOnce'
  BY <1>3, <1>5, <1>7, <1>16, EntryAnnounced DEF LedgerInv
<1>18. LedgerAnswersAreSound'
  <2>1. Identity(q).op = "POST"
    BY <1>2 DEF Identity
  <2>2. answers' = answers \cup {[request |-> Identity(q), answer |-> [entry |-> Len(journal) + 1]]}
    BY <1>3 DEF Answer
  <2>3. PICK id, a : id = Identity(q) /\ a = [entry |-> Len(journal) + 1]
    OBVIOUS
  <2>4. LedgerAnswerIsSound(id, a)'
    BY <2>1, <2>3 DEF LedgerAnswerIsSound
  <2> QED
    BY <1>10, <2>2, <2>3, <2>4, AnswersGrow DEF LedgerInv
<1> QED
  BY <1>9, <1>10, <1>11, <1>14, <1>15, <1>17, <1>18, InsertedAcknowledgements, ReconciliationsStay
     DEF LedgerInv, Inserted

(* Reversing an entry keeps the invariant.                                 *)
LEMMA ReversalKeeps ==
  ASSUME LedgerInv, NEW s \in Sessions, CommitReversal(s)
  PROVE  LedgerInv'
<1>1. Committing(s, "REVERSE")
  BY DEF CommitReversal
<1>2. PICK q \in Asked("REVERSE") : q = tx[s].request /\ q \in Requests /\ q.op = "REVERSE"
  BY <1>1, CommittingIs
<1> DEFINE j == Entry("REVERSAL", NoRun, q.date, q.actor, ReverseLines(journal[q.entry].lines),
                      q.entry, NoSource)
<1>3. /\ q.entry \in DOMAIN journal
      /\ journal[q.entry].kind # "REVERSAL" /\ journal[q.entry].by # q.actor
      /\ NotReversed(q.entry)
      /\ Insert(j)
      /\ Approve(q, q.entry)
      /\ Announce([type |-> "JournalEntryReversed", of |-> Len(journal) + 1])
      /\ Answer(q, [entry |-> Len(journal) + 1])
      /\ UNCHANGED <<posted, acknowledgements, reconciliations>>
  BY <1>2 DEF CommitReversal
<1>4. q.date \in Int
  BY <1>2, LedgerAssumption
<1>5. journal[q.entry] \in EntryRows /\ q.entry \in Nat
  BY <1>3, Positions DEF LedgerInv, RowsAreTyped
<1>6. PICK lines \in AccountLines : lines = journal[q.entry].lines
  BY <1>5 DEF EntryRows, AccountLines
<1>7. j \in EntryRows
  <2>1. ReverseLines(lines) \in AccountLines
    BY ReverseLinesAre
  <2>2. q.actor \in Given("REVERSE", "actor")
    BY <1>2 DEF Given
  <2> QED
    BY <1>4, <1>5, <1>6, <2>1, <2>2 DEF Entry, EntryRows, EntryKinds, EntryStates, AccountLines
<1>8. /\ j.status = "PENDING" /\ j.kind = "REVERSAL" /\ j.reversalOf = q.entry
      /\ j.source = NoSource /\ j.lines = ReverseLines(journal[q.entry].lines)
      /\ j.by = q.actor
  BY DEF Entry
<1> HIDE DEF j
<1>9. Balanced(j.lines) /\ Len(journal) < MaxEntries /\ journal' = Append(journal, j)
  BY <1>3 DEF Insert
<1>10. posted \subseteq posted' /\ posted' \subseteq Runs /\ approvals \subseteq approvals'
  BY <1>3 DEF LedgerInv, RowsAreTyped, Approve
<1>11. Inserted(j)
  BY <1>3, <1>7, <1>8, <1>9, <1>10 DEF Inserted
<1>12. /\ RowsKept /\ RowsAreTyped' /\ DOMAIN journal' = 1..(Len(journal) + 1)
       /\ Len(journal) \in Nat /\ journal'[Len(journal) + 1] = j
  BY <1>11, InsertedRows
<1>13. TransactionsAreSound'
  BY <1>1, <1>12, CommittingIs, TransactionsKept DEF LedgerInv
<1>14. IsReversal(j, journal[j.reversalOf]) /\ j.reversalOf \in DOMAIN journal
  BY <1>3, <1>8 DEF IsReversal
<1>15. ASSUME NEW e \in DOMAIN journal PROVE ~ SameOrigin(journal[e], j)
  BY <1>3, <1>8 DEF SameOrigin, NotReversed, ReversalsOf
<1>16. EntriesAreSound'
  BY <1>3, <1>9, <1>11, <1>14, <1>15, EntryAdded
<1>17. ApprovalsAreSound'
  <2>1. DOMAIN journal \subseteq DOMAIN journal'
    BY <1>12 DEF RowsKept, JournalKept
  <2>2. ApprovalsAreSound
    BY DEF LedgerInv
  <2>3. PICK p : p = [key |-> q.key, action |-> q.op, resource |-> q.entry, actor |-> q.actor]
    OBVIOUS
  <2>4. approvals' = approvals \cup {p} /\ p.key = q.key /\ p.resource = q.entry
        /\ \A a \in approvals : a.key # p.key
    BY <1>3, <2>3 DEF Approve
  <2> QED
    BY <1>3, <2>1, <2>2, <2>4 DEF ApprovalsAreSound
<1>18. Announcement(j.kind) = "JournalEntryReversed"
  BY <1>8 DEF Announcement
<1>19. EachAnnouncedOnce'
  BY <1>3, <1>7, <1>9, <1>18, EntryAnnounced DEF LedgerInv
<1>20. LedgerAnswersAreSound'
  <2>1. PICK id, a, n : id = Identity(q) /\ n = Len(journal) + 1 /\ a = [entry |-> n]
    OBVIOUS
  <2>2. id.op = "REVERSE" /\ id.of = q.key
    BY <1>2, <2>1 DEF Identity
  <2>3. PICK p \in approvals' : p.key = q.key /\ p.action = "REVERSE" /\ p.resource = q.entry
    <3>1. PICK p : p = [key |-> q.key, action |-> q.op, resource |-> q.entry, actor |-> q.actor]
      OBVIOUS
    <3>2. p \in approvals' /\ p.key = q.key /\ p.action = q.op /\ p.resource = q.entry
      BY <1>3, <3>1 DEF Approve
    <3> QED
      BY <1>2, <3>2
  <2>4. n \in DOMAIN journal' /\ journal'[n].kind = "REVERSAL" /\ journal'[n].reversalOf = q.entry
    BY <1>8, <1>12, <2>1
  <2>5. LedgerAnswerIsSound(id, a)'
    BY <2>1, <2>2, <2>3, <2>4 DEF LedgerAnswerIsSound
  <2>6. answers' = answers \cup {[request |-> id, answer |-> a]}
    BY <1>3, <2>1 DEF Answer
  <2> QED
    BY <1>12, <2>5, <2>6, AnswersGrow DEF LedgerInv
<1> QED
  BY <1>11, <1>12, <1>13, <1>16, <1>17, <1>19, <1>20, InsertedAcknowledgements, ReconciliationsStay
     DEF LedgerInv, Inserted

(* Emitting a business event's entry keeps the invariant.                  *)
LEMMA EmissionKeeps ==
  ASSUME LedgerInv, NEW s \in Sessions, CommitEmission(s)
  PROVE  LedgerInv'
<1>1. Committing(s, "EMIT")
  BY DEF CommitEmission
<1>2. PICK q \in Asked("EMIT") : q = tx[s].request /\ q \in Requests /\ q.op = "EMIT"
  BY <1>1, CommittingIs
<1> DEFINE j == Entry("BUSINESS_EVENT", q.run, q.date, q.actor, q.lines, 0, q.source)
<1>3. /\ NotEmitted(q.source)
      /\ Insert(j)
      /\ Announce([type |-> "AccountingEntryEmitted", of |-> Len(journal) + 1])
      /\ Answer(q, [entry |-> Len(journal) + 1])
      /\ UNCHANGED <<posted, approvals, acknowledgements, reconciliations>>
  BY <1>2 DEF CommitEmission
<1>4. q.date \in Int /\ q.lines \in AccountLines /\ q.source # NoSource
  BY <1>2, LedgerAssumption DEF AccountLines
<1>5. j \in EntryRows
  <2>1. /\ q.actor \in Given("EMIT", "actor") /\ q.run \in Given("EMIT", "run")
        /\ q.source \in Given("EMIT", "source")
    BY <1>2 DEF Given
  <2> QED
    BY <1>4, <2>1 DEF Entry, EntryRows, EntryKinds, EntryStates, AccountLines
<1>6. /\ j.status = "PENDING" /\ j.kind = "BUSINESS_EVENT" /\ j.reversalOf = 0
      /\ j.source = q.source
  BY DEF Entry
<1> HIDE DEF j
<1>7. Balanced(j.lines) /\ Len(journal) < MaxEntries /\ journal' = Append(journal, j)
  BY <1>3 DEF Insert
<1>8. posted \subseteq posted' /\ posted' \subseteq Runs /\ approvals \subseteq approvals'
  BY <1>3 DEF LedgerInv, RowsAreTyped
<1>9. Inserted(j)
  BY <1>3, <1>5, <1>6, <1>7, <1>8 DEF Inserted
<1>10. /\ RowsKept /\ RowsAreTyped' /\ DOMAIN journal' = 1..(Len(journal) + 1)
       /\ Len(journal) \in Nat /\ journal'[Len(journal) + 1] = j
  BY <1>9, InsertedRows
<1>11. TransactionsAreSound'
  BY <1>1, <1>10, CommittingIs, TransactionsKept DEF LedgerInv
<1>12. IsEmission(j)
  BY <1>4, <1>6 DEF IsEmission
<1>13. ASSUME NEW e \in DOMAIN journal PROVE ~ SameOrigin(journal[e], j)
  BY <1>3, <1>6 DEF SameOrigin, NotEmitted, EmittedFor
<1>14. EntriesAreSound'
  BY <1>3, <1>7, <1>9, <1>12, <1>13, EntryAdded
<1>15. ApprovalsAreSound'
  BY <1>3, <1>10 DEF LedgerInv, ApprovalsAreSound, RowsKept, JournalKept
<1>16. Announcement(j.kind) = "AccountingEntryEmitted"
  BY <1>6 DEF Announcement
<1>17. EachAnnouncedOnce'
  BY <1>3, <1>5, <1>7, <1>16, EntryAnnounced DEF LedgerInv
<1>18. LedgerAnswersAreSound'
  <2>1. PICK id, a, n : id = Identity(q) /\ n = Len(journal) + 1 /\ a = [entry |-> n]
    OBVIOUS
  <2>2. id.op = "EMIT" /\ id.of = q.source
    BY <1>2, <2>1 DEF Identity
  <2>3. n \in DOMAIN journal' /\ journal'[n].kind = "BUSINESS_EVENT" /\ journal'[n].source = q.source
    BY <1>6, <1>10, <2>1
  <2>4. LedgerAnswerIsSound(id, a)'
    BY <2>1, <2>2, <2>3 DEF LedgerAnswerIsSound
  <2>5. answers' = answers \cup {[request |-> id, answer |-> a]}
    BY <1>3, <2>1 DEF Answer
  <2> QED
    BY <1>10, <2>4, <2>5, AnswersGrow DEF LedgerInv
<1> QED
  BY <1>9, <1>10, <1>11, <1>14, <1>15, <1>17, <1>18, InsertedAcknowledgements, ReconciliationsStay
     DEF LedgerInv, Inserted

(* Steps that write nothing but a session and an answer.                   *)
LEMMA OnlyAnswered ==
  ASSUME LedgerInv, UNCHANGED tables, TransactionsAreSound', LedgerAnswersAreSound'
  PROVE  LedgerInv'
<1>1. RowsAreTyped'
  BY DEF LedgerInv, RowsAreTyped, tables
<1>2. EntriesAreSound'
  BY DEF LedgerInv, EntriesAreSound, EntryIsSound, IsAllocation, IsEmission, IsReversal, tables
<1>3. ApprovalsAreSound'
  BY DEF LedgerInv, ApprovalsAreSound, tables
<1>4. AcknowledgementsAreSound'
  <2>1. UNCHANGED <<journal, acknowledgements>>
    BY DEF tables
  <2>2. \A e, m : StateAfter(OnEntry(e, m))' = StateAfter(OnEntry(e, m))
    BY <2>1 DEF StateAfter, OnEntry
  <2> QED
    BY <2>1, <2>2 DEF LedgerInv, AcknowledgementsAreSound, AcknowledgementIsSound
<1>5. ReconciliationsAreSound'
  BY ReconciliationsStay, NothingWritten DEF LedgerInv, tables
<1>6. EachAnnouncedOnce'
  BY DEF LedgerInv, EachAnnouncedOnce, Announced, EntryEvents, AcknowledgementEvents,
         ReconciliationEvents, EscalationEvents, EntryEvent, tables
<1> QED
  BY <1>1, <1>2, <1>3, <1>4, <1>5, <1>6 DEF LedgerInv

(* A request taken up keeps the invariant.                                 *)
LEMMA BeginKeeps ==
  ASSUME LedgerInv, NEW s \in Sessions, NEW q \in Requests, Begin(s, q)
  PROVE  LedgerInv'
<1>1. /\ UNCHANGED tables /\ answers' = answers
      /\ tx' = [tx EXCEPT ![s] =
           [request |-> q, journal |-> Len(journal), reconciliations |-> Len(reconciliations)]]
  BY DEF Begin
<1>2. RowsKept
  BY <1>1, NothingWritten DEF LedgerInv
<1>3. LedgerAnswersAreSound'
  BY <1>1, <1>2, LedgerAnswersStay DEF LedgerInv
<1>4. Len(journal) \in Nat /\ Len(reconciliations) \in Nat
  BY Positions DEF LedgerInv, RowsAreTyped
<1>5. UNCHANGED <<journal, reconciliations>>
  BY <1>1 DEF tables
<1>6. TransactionIs(s, q)'
  BY <1>1, <1>4, <1>5 DEF TransactionIs, LedgerInv, TransactionsAreSound
<1>7. ASSUME NEW t \in Sessions, t # s
      PROVE  tx'[t] = Idle \/ \E r \in Requests : TransactionIs(t, r)'
  BY <1>1, <1>5, <1>7 DEF TransactionIs, LedgerInv, TransactionsAreSound
<1>8. TransactionsAreSound'
  BY <1>1, <1>6, <1>7 DEF TransactionsAreSound, LedgerInv
<1> QED
  BY <1>1, <1>3, <1>8, OnlyAnswered

(* A transaction that ends without a write keeps the invariant.            *)
LEMMA RollbackKeeps ==
  ASSUME LedgerInv, NEW s \in Sessions, Rollback(s)
  PROVE  LedgerInv'
<1>1. UNCHANGED tables /\ answers' = answers /\ tx' = [tx EXCEPT ![s] = Idle]
  BY DEF Rollback
<1>2. RowsKept
  BY <1>1, NothingWritten DEF LedgerInv
<1>3. LedgerAnswersAreSound'
  BY <1>1, <1>2, LedgerAnswersStay DEF LedgerInv
<1>4. TransactionsAreSound'
  BY <1>1, <1>2, TransactionsKept DEF LedgerInv
<1> QED
  BY <1>1, <1>3, <1>4, OnlyAnswered

(* A replay answered from the row found keeps the invariant.               *)
LEMMA ReplayKeeps ==
  ASSUME LedgerInv, UNCHANGED tables,
         tx' = tx \/ \E s \in Sessions : tx' = [tx EXCEPT ![s] = Idle],
         NEW q, NEW a, Answer(q, a), LedgerAnswerIsSound(Identity(q), a)
  PROVE  LedgerInv'
<1>1. RowsKept
  BY NothingWritten DEF LedgerInv
<1>2. TransactionsAreSound'
  BY <1>1, TransactionsKept DEF LedgerInv
<1>3. PICK id : id = Identity(q)
  OBVIOUS
<1>4. LedgerAnswerIsSound(id, a)'
  BY <1>1, <1>3, AnswerKept
<1>5. answers' = answers \cup {[request |-> id, answer |-> a]}
  BY <1>3 DEF Answer
<1>6. LedgerAnswersAreSound'
  BY <1>1, <1>4, <1>5, AnswersGrow DEF LedgerInv
<1> QED
  BY <1>2, <1>6, OnlyAnswered

(* The replays of posting, reversal, emission and acknowledgement.         *)
LEMMA ReplaysKeep ==
  ASSUME LedgerInv, NEW q \in Requests,
         \/ q.op = "POST" /\ ReplayPosting(q)
         \/ q.op = "REVERSE" /\ ReplayReversal(q)
         \/ q.op = "EMIT" /\ ReplayEmission(q)
         \/ q.op = "ACKNOWLEDGE" /\ ReplayAcknowledgement(q)
  PROVE  LedgerInv'
<1>1. CASE q.op = "POST" /\ ReplayPosting(q)
  <2>1. PICK e : Answer(q, [entry |-> e]) /\ UNCHANGED <<tables, tx>>
    BY <1>1 DEF ReplayPosting
  <2>2. PICK a : a = [entry |-> e]
    OBVIOUS
  <2>3. LedgerAnswerIsSound(Identity(q), a)
    BY <1>1 DEF LedgerAnswerIsSound, Identity
  <2> QED
    BY <2>1, <2>2, <2>3, ReplayKeeps
<1>2. CASE q.op = "REVERSE" /\ ReplayReversal(q)
  <2>1. PICK p \in Earlier(q), e \in ReversalsOf(q.entry) :
          p.resource = q.entry /\ Answer(q, [entry |-> e]) /\ UNCHANGED <<tables, tx>>
    BY <1>2 DEF ReplayReversal
  <2>2. PICK a : a = [entry |-> e]
    OBVIOUS
  <2>3. p \in approvals /\ p.key = q.key /\ p.action = "REVERSE"
    BY <1>2 DEF Earlier
  <2>4. q.entry \in DOMAIN journal /\ q.entry # 0
    BY <2>1, <2>3, Positions DEF LedgerInv, ApprovalsAreSound, RowsAreTyped
  <2>5. e \in DOMAIN journal /\ journal[e].reversalOf = q.entry
    BY DEF ReversalsOf
  <2>6. journal[e].kind = "REVERSAL"
    BY <2>4, <2>5 DEF LedgerInv, EntriesAreSound, EntryIsSound, IsAllocation, IsEmission, IsReversal
  <2>7. Identity(q).op = "REVERSE" /\ Identity(q).of = q.key
    BY <1>2 DEF Identity
  <2>8. LedgerAnswerIsSound(Identity(q), a)
    BY <2>1, <2>2, <2>3, <2>5, <2>6, <2>7 DEF LedgerAnswerIsSound
  <2> QED
    BY <2>1, <2>2, <2>8, ReplayKeeps
<1>3. CASE q.op = "EMIT" /\ ReplayEmission(q)
  <2>1. PICK e \in EmittedFor(q.source) : Answer(q, [entry |-> e]) /\ UNCHANGED <<tables, tx>>
    BY <1>3 DEF ReplayEmission
  <2>2. PICK a : a = [entry |-> e]
    OBVIOUS
  <2>3. e \in DOMAIN journal /\ journal[e].source = q.source /\ q.source # NoSource
    BY <1>3, LedgerAssumption DEF EmittedFor
  <2>4. journal[e].kind = "BUSINESS_EVENT"
    BY <2>3 DEF LedgerInv, EntriesAreSound, EntryIsSound, IsAllocation, IsEmission, IsReversal
  <2>5. Identity(q).op = "EMIT" /\ Identity(q).of = q.source
    BY <1>3 DEF Identity
  <2>6. LedgerAnswerIsSound(Identity(q), a)
    BY <2>2, <2>3, <2>4, <2>5 DEF LedgerAnswerIsSound
  <2> QED
    BY <2>1, <2>2, <2>6, ReplayKeeps
<1>4. CASE q.op = "ACKNOWLEDGE" /\ ReplayAcknowledgement(q)
  <2>1. PICK n \in Acknowledged(q) :
          Answer(q, [state |-> acknowledgements[n].result]) /\ UNCHANGED <<tables, tx>>
    BY <1>4 DEF ReplayAcknowledgement
  <2>2. PICK a : a = [state |-> acknowledgements[n].result]
    OBVIOUS
  <2>3. n \in DOMAIN acknowledgements /\ acknowledgements[n].key = q.key
    BY DEF Acknowledged
  <2>4. Identity(q).op = "ACKNOWLEDGE" /\ Identity(q).of = q.key
    BY <1>4 DEF Identity
  <2>5. LedgerAnswerIsSound(Identity(q), a)
    BY <2>2, <2>3, <2>4 DEF LedgerAnswerIsSound
  <2> QED
    BY <2>1, <2>2, <2>5, ReplayKeeps
<1> QED
  BY <1>1, <1>2, <1>3, <1>4

(* A function on 1..n is a sequence.                                       *)
LEMMA FunctionIsSequence ==
  ASSUME NEW T, NEW n \in Nat, NEW t \in [1..n -> T]
  PROVE  t \in Seq(T) /\ Len(t) = n
OBVIOUS

(* An acknowledgement changes the status of one entry.                     *)
LEMMA StatusSet ==
  ASSUME RowsAreTyped, NEW e \in DOMAIN journal, NEW state \in EntryStates,
         journal' = [journal EXCEPT ![e].status = state]
  PROVE  /\ JournalKept /\ DOMAIN journal' = DOMAIN journal /\ Len(journal') = Len(journal)
         /\ journal'[e].status = state
         /\ \A f \in DOMAIN journal : f # e => journal'[f] = journal[f]
<1>1. /\ Len(journal) \in Nat /\ DOMAIN journal = 1..Len(journal)
      /\ \A f \in DOMAIN journal : journal[f] \in EntryRows
  BY Positions DEF RowsAreTyped
<1>2. DOMAIN journal' = DOMAIN journal
  OBVIOUS
<1>3. \A f \in DOMAIN journal : f # e => journal'[f] = journal[f]
  OBVIOUS
<1>4. journal'[e] = [journal[e] EXCEPT !.status = state]
  OBVIOUS
<1>5. journal'[e] \in EntryRows /\ journal'[e].status = state /\ Alike(journal[e], journal'[e])
  BY <1>1, <1>4 DEF EntryRows, Alike
<1>6. \A f \in DOMAIN journal : journal'[f] \in EntryRows /\ Alike(journal[f], journal'[f])
  BY <1>1, <1>3, <1>5 DEF Alike
<1>7. PICK n \in Nat : n = Len(journal)
  BY <1>1
<1>8. journal \in [1..n -> EntryRows]
  BY <1>1, <1>7 DEF RowsAreTyped
<1>9. journal' \in Seq(EntryRows) /\ Len(journal') = n
  <2>1. PICK t : t = journal'
    OBVIOUS
  <2>2. t \in [1..n -> EntryRows]
    BY <1>1, <1>5, <1>4, <1>7, <1>8, <2>1
  <2> QED
    BY <2>1, <2>2, FunctionIsSequence
<1> QED
  BY <1>1, <1>2, <1>3, <1>5, <1>6, <1>7, <1>9 DEF JournalKept

(* Entries stay sound when only a status changes.                          *)
LEMMA EntriesStay ==
  ASSUME LedgerInv, JournalKept, DOMAIN journal' = DOMAIN journal, posted' = posted
  PROVE  EntriesAreSound'
<1>1. Len(journal) \in Nat /\ DOMAIN journal = 1..Len(journal) /\ EntriesAreSound
  BY Positions DEF LedgerInv, RowsAreTyped
<1>2. \A e \in DOMAIN journal : EntryIsSound(e)'
  BY <1>1, EntryKept DEF EntriesAreSound
<1>3. \A e, f \in DOMAIN journal : SameOrigin(journal'[e], journal'[f]) => e = f
  BY <1>1 DEF EntriesAreSound, JournalKept, Alike, SameOrigin
<1>4. \A r \in posted : \E e \in DOMAIN journal :
        journal'[e].kind = "PROFIT_ALLOCATION" /\ journal'[e].run = r
  BY <1>1 DEF EntriesAreSound, JournalKept, Alike
<1> QED
  BY <1>2, <1>3, <1>4 DEF EntriesAreSound

(* A status is no part of an entry's announcement.                         *)
LEMMA EventsOfEntriesStay ==
  ASSUME JournalKept, DOMAIN journal' = DOMAIN journal
  PROVE  EntryEvents' = EntryEvents
<1>1. \A e \in DOMAIN journal : EntryEvent(e)' = EntryEvent(e)
  BY DEF JournalKept, Alike, EntryEvent
<1> QED
  BY <1>1 DEF EntryEvents

(* Recording an acknowledgement keeps the invariant.                       *)
LEMMA AcknowledgementKeeps ==
  ASSUME LedgerInv, NEW s \in Sessions, CommitAcknowledgement(s)
  PROVE  LedgerInv'
<1>1. Committing(s, "ACKNOWLEDGE")
  BY DEF CommitAcknowledgement
<1>2. PICK q \in Asked("ACKNOWLEDGE") :
        q = tx[s].request /\ q \in Requests /\ q.op = "ACKNOWLEDGE"
  BY <1>1, CommittingIs
<1> DEFINE r == [key |-> q.key, entry |-> q.entry, actor |-> q.actor,
                 previous |-> journal[q.entry].status, result |-> q.action]
<1>3. /\ q.entry \in DOMAIN journal /\ Acknowledged(q) = {}
      /\ Len(acknowledgements) < MaxAcknowledgements
      /\ q.action \in NextStates(journal[q.entry].status)
      /\ acknowledgements' = Append(acknowledgements, r)
      /\ journal' = [journal EXCEPT ![q.entry].status = q.action]
      /\ Announce([type |-> "AccountingAcknowledgementRecorded",
                   of |-> Len(acknowledgements) + 1])
      /\ Answer(q, [state |-> q.action])
      /\ UNCHANGED <<posted, approvals, reconciliations>>
  BY <1>2 DEF CommitAcknowledgement
<1>4. RowsAreTyped /\ AcknowledgementsAreSound
  BY DEF LedgerInv
<1>5. q.action \in EntryStates /\ journal[q.entry].status \in EntryStates /\ q.entry \in Nat
  <2>1. q.action \in Given("ACKNOWLEDGE", "action")
    BY <1>2 DEF Given
  <2>2. journal[q.entry] \in EntryRows /\ q.entry \in Nat
    BY <1>3, <1>4, Positions DEF RowsAreTyped
  <2> QED
    BY <2>1, <2>2 DEF EntryStates, EntryRows
<1>6. r \in AcknowledgementRows
  <2>1. q.key \in Given("ACKNOWLEDGE", "key") /\ q.actor \in Given("ACKNOWLEDGE", "actor")
    BY <1>2 DEF Given
  <2> QED
    BY <1>5, <2>1 DEF AcknowledgementRows
<1>7. /\ r.key = q.key /\ r.entry = q.entry /\ r.previous = journal[q.entry].status
      /\ r.result = q.action
  OBVIOUS
<1> HIDE DEF r
<1>8. /\ JournalKept /\ DOMAIN journal' = DOMAIN journal /\ Len(journal') = Len(journal)
      /\ journal'[q.entry].status = q.action
      /\ \A f \in DOMAIN journal : f # q.entry => journal'[f] = journal[f]
  BY <1>3, <1>4, <1>5, StatusSet
<1>9. PICK n \in Nat : n = Len(acknowledgements)
  BY <1>4 DEF RowsAreTyped
<1>10. /\ acknowledgements' \in Seq(AcknowledgementRows) /\ Len(acknowledgements') = n + 1
       /\ DOMAIN acknowledgements = 1..n /\ DOMAIN acknowledgements' = 1..(n + 1)
       /\ \A a \in DOMAIN acknowledgements :
            a \in DOMAIN acknowledgements' /\ acknowledgements'[a] = acknowledgements[a]
       /\ acknowledgements'[n + 1] = r
  BY <1>3, <1>4, <1>6, <1>9, RowAppended DEF RowsAreTyped
<1>11. RowsKept
  <2>1. Len(reconciliations) \in Nat
    BY <1>4 DEF RowsAreTyped
  <2>2. ReconciliationsKept
    BY <1>3, <2>1 DEF ReconciliationsKept
  <2>3. AcknowledgementsKept
    BY <1>10 DEF AcknowledgementsKept
  <2> QED
    BY <1>3, <1>8, <2>2, <2>3 DEF RowsKept
<1>12. RowsAreTyped'
  <2>1. n + 1 <= MaxAcknowledgements
    BY <1>3, <1>9, LedgerAssumption
  <2> QED
    BY <1>3, <1>4, <1>8, <1>10, <2>1 DEF RowsAreTyped, JournalKept
<1>13. TransactionsAreSound'
  BY <1>1, <1>4, <1>11, CommittingIs, TransactionsKept DEF LedgerInv
<1>14. EntriesAreSound'
  BY <1>3, <1>8, EntriesStay
<1>15. ApprovalsAreSound'
  BY <1>3, <1>8 DEF LedgerInv, ApprovalsAreSound
<1>16. AcknowledgementsAreSound'
  <2>1. AcknowledgementsKept
    BY <1>11 DEF RowsKept
  <2>2. \A e : \A m \in 0..n : /\ OnEntry(e, m)' = OnEntry(e, m)
                              /\ OnEntry(e, m) \subseteq DOMAIN acknowledgements
                              /\ StateAfter(OnEntry(e, m))' = StateAfter(OnEntry(e, m))
    BY <1>4, <1>9, <2>1, OnEntryKept
  <2>3. ASSUME NEW e \in DOMAIN journal
        PROVE  journal'[e].status = StateAfter(OnEntry(e, Len(acknowledgements)))'
    <3>1. PICK S : S = OnEntry(e, n)
      OBVIOUS
    <3>2. S \subseteq 1..n /\ StateAfter(S)' = StateAfter(S)
      BY <1>10, <2>2, <3>1
    <3>3. CASE e = q.entry
      <4>1. OnEntry(e, n + 1)' = S \cup {n + 1}
        BY <1>7, <1>10, <3>1, <3>3 DEF OnEntry
      <4>2. StateAfter(S \cup {n + 1})' = acknowledgements'[n + 1].result
        BY <3>2, StateAfterLast
      <4>3. journal'[e].status = q.action
        BY <1>8, <3>3
      <4> QED
        BY <1>7, <1>10, <4>1, <4>2, <4>3
    <3>4. CASE e # q.entry
      <4>1. OnEntry(e, n + 1)' = S
        BY <1>7, <1>10, <3>1, <3>4 DEF OnEntry
      <4>2. journal'[e].status = StateAfter(S)
        BY <1>4, <1>8, <1>9, <3>1, <3>4 DEF AcknowledgementsAreSound
      <4> QED
        BY <1>10, <3>2, <4>1, <4>2
    <3> QED
      BY <3>3, <3>4
  <2>4. ASSUME NEW a \in DOMAIN acknowledgements', NEW x, x = acknowledgements'[a]
        PROVE  AcknowledgementIsSound(a, x)'
    <3>1. CASE a \in DOMAIN acknowledgements
      <4>1. x = acknowledgements[a]
        BY <1>10, <2>4, <3>1
      <4>2. AcknowledgementIsSound(a, x)
        BY <1>4, <3>1, <4>1 DEF AcknowledgementsAreSound
      <4>3. a - 1 \in 0..n
        BY <1>10, <3>1
      <4>4. StateAfter(OnEntry(x.entry, a - 1))' = StateAfter(OnEntry(x.entry, a - 1))
        BY <2>2, <4>3
      <4> QED
        BY <1>8, <4>2, <4>4 DEF AcknowledgementIsSound
    <3>2. CASE a = n + 1
      <4>1. x = r
        BY <1>10, <2>4, <3>2
      <4>2. /\ x.entry = q.entry /\ x.previous = StateAfter(OnEntry(q.entry, n))
            /\ x.result \in NextStates(x.previous)
        BY <1>3, <1>4, <1>7, <1>9, <4>1 DEF AcknowledgementsAreSound
      <4>3. a - 1 = n /\ n \in 0..n
        BY <3>2
      <4>4. PICK e : e = q.entry
        OBVIOUS
      <4>5. StateAfter(OnEntry(e, n))' = StateAfter(OnEntry(e, n))
        BY <2>2, <4>3
      <4> QED
        BY <1>3, <1>8, <4>2, <4>3, <4>4, <4>5 DEF AcknowledgementIsSound
    <3> QED
      BY <1>10, <3>1, <3>2
  <2>5. \A a, b \in DOMAIN acknowledgements' :
          acknowledgements'[a].key = acknowledgements'[b].key => a = b
    <3>1. \A a \in DOMAIN acknowledgements : acknowledgements[a].key # r.key
      BY <1>3, <1>7 DEF Acknowledged
    <3>2. DOMAIN acknowledgements' = DOMAIN acknowledgements \cup {n + 1}
      BY <1>10
    <3> QED
      BY <1>4, <1>10, <3>1, <3>2 DEF AcknowledgementsAreSound
  <2> QED
    BY <1>8, <2>3, <2>4, <2>5 DEF AcknowledgementsAreSound
<1>17. ReconciliationsAreSound'
  BY <1>3, <1>11, ReconciliationsStay
<1>18. EachAnnouncedOnce'
  <2>1. PICK x : x = [type |-> "AccountingAcknowledgementRecorded", of |-> n + 1]
    OBVIOUS
  <2>2. EntryEvents' = EntryEvents
    BY <1>8, EventsOfEntriesStay
  <2>3. AcknowledgementEvents' = AcknowledgementEvents \cup {x}
    <3>1. DOMAIN acknowledgements' = DOMAIN acknowledgements \cup {n + 1}
      BY <1>10
    <3>2. x = AcknowledgementEvent(n + 1)
      BY <2>1 DEF AcknowledgementEvent
    <3> QED
      BY <3>1, <3>2 DEF AcknowledgementEvents, AcknowledgementEvent
  <2>4. ReconciliationEvents' = ReconciliationEvents /\ EscalationEvents' = EscalationEvents
    BY <1>3 DEF ReconciliationEvents, ReconciliationEvent, EscalationEvents, EscalationEvent
  <2>5. Announced' = Announced \cup {x}
    BY <2>2, <2>3, <2>4 DEF Announced
  <2>6. x.type = "AccountingAcknowledgementRecorded" /\ x.of \notin DOMAIN acknowledgements
    BY <1>10, <2>1
  <2>7. x \notin Announced
    BY <2>6, EventTypes DEF Announced, EntryAnnouncements
  <2>8. Announced \cap {x} = {} /\ outbox' = outbox (+) SetToBag({x})
    BY <1>3, <1>9, <2>1, <2>7 DEF Announce
  <2> QED
    BY <2>5, <2>8, BagGrows DEF EachAnnouncedOnce, LedgerInv
<1>19. LedgerAnswersAreSound'
  <2>1. PICK id, a : id = Identity(q) /\ a = [state |-> q.action]
    OBVIOUS
  <2>2. id.op = "ACKNOWLEDGE" /\ id.of = q.key
    BY <1>2, <2>1 DEF Identity
  <2>3. /\ n + 1 \in DOMAIN acknowledgements' /\ acknowledgements'[n + 1].key = q.key
        /\ acknowledgements'[n + 1].result = q.action
    BY <1>7, <1>10
  <2>4. LedgerAnswerIsSound(id, a)'
    BY <2>1, <2>2, <2>3 DEF LedgerAnswerIsSound
  <2>5. answers' = answers \cup {[request |-> id, answer |-> a]}
    BY <1>3, <2>1 DEF Answer
  <2> QED
    BY <1>11, <2>4, <2>5, AnswersGrow DEF LedgerInv
<1> QED
  BY <1>12, <1>13, <1>14, <1>15, <1>16, <1>17, <1>18, <1>19 DEF LedgerInv

(* An untouched journal keeps its rows and events.                         *)
LEMMA JournalStays ==
  ASSUME RowsAreTyped, journal' = journal
  PROVE  JournalKept /\ EntryEvents' = EntryEvents
BY Positions DEF RowsAreTyped, JournalKept, Alike, EntryEvents, EntryEvent

(* Untouched acknowledgements stay sound.                                  *)
LEMMA AcknowledgementsStay ==
  ASSUME LedgerInv, UNCHANGED <<journal, acknowledgements>>
  PROVE  /\ AcknowledgementsKept /\ AcknowledgementsAreSound'
         /\ AcknowledgementEvents' = AcknowledgementEvents
<1>1. \A e, m : StateAfter(OnEntry(e, m))' = StateAfter(OnEntry(e, m))
  BY DEF StateAfter, OnEntry
<1>2. AcknowledgementsAreSound'
  BY <1>1 DEF LedgerInv, AcknowledgementsAreSound, AcknowledgementIsSound
<1> QED
  BY <1>2 DEF AcknowledgementsKept, AcknowledgementEvents, AcknowledgementEvent

(* Recording a reconciliation keeps the invariant.                         *)
LEMMA ReconciliationKeeps ==
  ASSUME LedgerInv, NEW s \in Sessions, CommitReconciliation(s)
  PROVE  LedgerInv'
<1>1. Committing(s, "RECONCILE")
  BY DEF CommitReconciliation
<1>2. PICK q \in Asked("RECONCILE") :
        q = tx[s].request /\ q \in Requests /\ q.op = "RECONCILE"
  BY <1>1, CommittingIs
<1>3. PICK m \in 0..Len(journal) : m = tx[s].journal
  BY <1>1, CommittingIs
<1>4. PICK total : total = Subledger(SubSeq(journal, 1, m), q.date)
  OBVIOUS
<1>5. RowsAreTyped /\ ReconciliationsAreSound
  BY DEF LedgerInv
<1>6. q.date \in Int /\ q.ledger \in Int
  BY <1>2, LedgerAssumption
<1>7. total \in Int
  <2>1. journal \in Seq(EntryRows) /\ Len(journal) \in Nat
    BY <1>5 DEF RowsAreTyped
  <2>2. SubSeq(journal, 1, m) \in Seq(EntryRows)
    BY <2>1
  <2> QED
    BY <1>4, <1>6, <2>2, SubledgerType
<1> DEFINE due == IF q.discrepancy = NoDiscrepancy THEN 0 ELSE Deadline(q.discrepancy)
           r == [date |-> q.date, checksum |-> q.checksum, subledger |-> total,
                 ledger |-> q.ledger, discrepancy |-> q.discrepancy, due |-> due, level |-> 1]
<1>8. /\ \A i \in DOMAIN reconciliations : ~Same(q, reconciliations[i])
      /\ Documented(total - q.ledger, q)
      /\ reconciliations' = Append(reconciliations, r)
      /\ Announce([type |-> "AccountingReconciliationCompleted",
                   of |-> Len(reconciliations) + 1])
      /\ Answer(q, [id |-> Len(reconciliations) + 1, difference |-> total - q.ledger])
      /\ UNCHANGED <<posted, journal, approvals, acknowledgements>>
  BY <1>2, <1>3, <1>4 DEF CommitReconciliation
<1>9. due \in Int /\ (q.discrepancy # NoDiscrepancy => due = Deadline(q.discrepancy))
  BY <1>2, LedgerAssumption DEF Deadline
<1> HIDE DEF due
<1>10. r \in ReconciliationRows
  <2>1. /\ q.checksum \in Given("RECONCILE", "checksum")
        /\ q.discrepancy \in Given("RECONCILE", "discrepancy")
    BY <1>2 DEF Given
  <2>2. 1 \in 1..TopLevel
    BY LedgerAssumption
  <2> QED
    BY <1>6, <1>7, <1>9, <2>1, <2>2 DEF ReconciliationRows
<1>11. /\ r.date = q.date /\ r.checksum = q.checksum /\ r.subledger = total /\ r.ledger = q.ledger
       /\ r.discrepancy = q.discrepancy /\ r.due = due /\ r.level = 1
  OBVIOUS
<1> HIDE DEF r
<1>12. PICK n \in Nat : n = Len(reconciliations)
  BY <1>5 DEF RowsAreTyped
<1>13. /\ reconciliations' \in Seq(ReconciliationRows) /\ Len(reconciliations') = n + 1
       /\ DOMAIN reconciliations = 1..n /\ DOMAIN reconciliations' = 1..(n + 1)
       /\ \A i \in DOMAIN reconciliations :
            i \in DOMAIN reconciliations' /\ reconciliations'[i] = reconciliations[i]
       /\ reconciliations'[n + 1] = r
  BY <1>5, <1>8, <1>10, <1>12, RowAppended DEF RowsAreTyped
<1>14. DOMAIN reconciliations' = DOMAIN reconciliations \cup {n + 1}
  BY <1>13
<1>15. JournalKept /\ EntryEvents' = EntryEvents
  BY <1>5, <1>8, JournalStays
<1>16. /\ AcknowledgementsKept /\ AcknowledgementsAreSound'
       /\ AcknowledgementEvents' = AcknowledgementEvents
  BY <1>8, AcknowledgementsStay
<1>17. RowsKept
  <2>1. ReconciliationsKept
    BY <1>12, <1>13 DEF ReconciliationsKept
  <2> QED
    BY <1>8, <1>15, <1>16, <2>1 DEF RowsKept
<1>18. RowsAreTyped'
  BY <1>5, <1>8, <1>13 DEF RowsAreTyped
<1>19. TransactionsAreSound'
  BY <1>1, <1>5, <1>17, CommittingIs, TransactionsKept DEF LedgerInv
<1>20. EntriesAreSound' /\ ApprovalsAreSound'
  BY <1>8, <1>15, EntriesStay DEF LedgerInv, ApprovalsAreSound
<1>21. ReconciliationsAreSound'
  <2>1. ASSUME NEW i \in DOMAIN reconciliations', NEW x, x = reconciliations'[i]
        PROVE  ReconciliationIsSound(x)'
    <3>1. CASE i \in DOMAIN reconciliations
      <4>1. ReconciliationIsSound(x)
        BY <1>5, <1>13, <2>1, <3>1 DEF ReconciliationsAreSound
      <4> QED
        BY <1>5, <1>15, <4>1, ReconciliationKept
    <3>2. CASE i = n + 1
      <4>1. x = r
        BY <1>13, <2>1, <3>2
      <4>2. x.subledger = Subledger(SubSeq(journal, 1, m), x.date)
        BY <1>4, <1>11, <4>1
      <4>3. x.discrepancy # NoDiscrepancy <=> x.subledger # x.ledger
        BY <1>6, <1>7, <1>8, <1>11, <4>1 DEF Documented
      <4>4. x.discrepancy # NoDiscrepancy =>
              x.due = Deadline(x.discrepancy) + (x.level - 1) * Delay
        BY <1>9, <1>11, <4>1, LedgerAssumption
      <4>5. ReconciliationIsSound(x)
        BY <1>11, <4>1, <4>2, <4>3, <4>4 DEF ReconciliationIsSound
      <4> QED
        BY <1>5, <1>15, <4>5, ReconciliationKept
    <3> QED
      BY <1>14, <3>1, <3>2
  <2>2. \A i \in DOMAIN reconciliations : ~Same(r, reconciliations[i]) /\ ~Same(reconciliations[i], r)
    BY <1>8, <1>11 DEF Same
  <2>3. \A i, j \in DOMAIN reconciliations' : Same(reconciliations'[j], reconciliations'[i]) => i = j
    BY <1>5, <1>13, <1>14, <2>2 DEF ReconciliationsAreSound
  <2> QED
    BY <2>1, <2>3 DEF ReconciliationsAreSound
<1>22. EachAnnouncedOnce'
  <2>1. PICK x : x = [type |-> "AccountingReconciliationCompleted", of |-> n + 1]
    OBVIOUS
  <2>2. ReconciliationEvents' = ReconciliationEvents \cup {x}
    <3>1. x = ReconciliationEvent(n + 1)
      BY <2>1 DEF ReconciliationEvent
    <3> QED
      BY <1>14, <3>1 DEF ReconciliationEvents, ReconciliationEvent
  <2>3. EscalationEvents' = EscalationEvents
    <3>1. 2..reconciliations'[n + 1].level = {}
      BY <1>11, <1>13
    <3>2. {EscalationEvent(n + 1, level) : level \in 2..reconciliations'[n + 1].level} = {}
      BY <3>1
    <3> QED
      BY <1>13, <1>14, <3>2 DEF EscalationEvents, EscalationEvent
  <2>4. Announced' = Announced \cup {x}
    BY <1>15, <1>16, <2>2, <2>3 DEF Announced
  <2>5. x.type = "AccountingReconciliationCompleted" /\ x.of \notin DOMAIN reconciliations
    BY <1>13, <2>1
  <2>6. x \notin Announced
    BY <2>5, EventTypes DEF Announced, EntryAnnouncements
  <2>7. Announced \cap {x} = {} /\ outbox' = outbox (+) SetToBag({x})
    BY <1>8, <1>12, <2>1, <2>6 DEF Announce
  <2> QED
    BY <2>4, <2>7, BagGrows DEF EachAnnouncedOnce, LedgerInv
<1>23. LedgerAnswersAreSound'
  <2>1. PICK id, a : id = Identity(q) /\ a = [id |-> n + 1, difference |-> total - q.ledger]
    OBVIOUS
  <2>2. id.op = "RECONCILE" /\ id.of = <<q.date, q.checksum>>
    BY <1>2, <2>1 DEF Identity
  <2>3. LedgerAnswerIsSound(id, a)'
    BY <1>11, <1>13, <1>14, <2>1, <2>2 DEF LedgerAnswerIsSound
  <2>4. answers' = answers \cup {[request |-> id, answer |-> a]}
    BY <1>8, <1>12, <2>1 DEF Answer
  <2> QED
    BY <1>17, <2>3, <2>4, AnswersGrow DEF LedgerInv
<1> QED
  BY <1>16, <1>18, <1>19, <1>20, <1>21, <1>22, <1>23 DEF LedgerInv

(* So does the replay of one.                                              *)
LEMMA ReplayedReconciliationKeeps ==
  ASSUME LedgerInv, NEW s \in Sessions, ReplayReconciliation(s)
  PROVE  LedgerInv'
<1>1. Committing(s, "RECONCILE") /\ UNCHANGED tables
  BY DEF ReplayReconciliation
<1>2. PICK q : q = tx[s].request /\ q.op = "RECONCILE"
  BY <1>1, CommittingIs
<1>3. PICK i \in 1..tx[s].reconciliations :
        LET r == reconciliations[i] IN
        /\ Same(q, r) /\ r.ledger = q.ledger
        /\ Answer(q, [id |-> i, difference |-> r.subledger - r.ledger])
  BY <1>2 DEF ReplayReconciliation
<1>4. PICK r, a : r = reconciliations[i] /\ a = [id |-> i, difference |-> r.subledger - r.ledger]
  OBVIOUS
<1>5. i \in DOMAIN reconciliations
  <2>1. tx[s].reconciliations \in 0..Len(reconciliations)
    BY <1>1, CommittingIs
  <2>2. Len(reconciliations) \in Nat /\ DOMAIN reconciliations = 1..Len(reconciliations)
    BY DEF LedgerInv, RowsAreTyped
  <2> QED
    BY <2>1, <2>2
<1>6. Identity(q).op = "RECONCILE" /\ Identity(q).of = <<r.date, r.checksum>>
  BY <1>2, <1>3, <1>4 DEF Identity, Same
<1>7. LedgerAnswerIsSound(Identity(q), a)
  BY <1>4, <1>5, <1>6 DEF LedgerAnswerIsSound
<1>8. Answer(q, a)
  BY <1>3, <1>4
<1>9. \E t \in Sessions : tx' = [tx EXCEPT ![t] = Idle]
  BY <1>1 DEF Committing
<1> QED
  BY <1>1, <1>7, <1>8, <1>9, ReplayKeeps

(* Escalating the overdue discrepancies keeps the invariant.               *)
LEMMA EscalationKeeps ==
  ASSUME LedgerInv, NEW now, Escalate(now)
  PROVE  LedgerInv'
<1> DEFINE overdue == {i \in DOMAIN reconciliations : Overdue(reconciliations[i], now)}
           Raised(r) == [r EXCEPT !.level = @ + 1, !.due = @ + Delay]
           news == {[type |-> "ReconciliationDiscrepancyEscalated", of |-> i,
                     level |-> reconciliations[i].level + 1] : i \in overdue}
<1>1. /\ reconciliations' = [i \in DOMAIN reconciliations |->
           IF i \in overdue THEN Raised(reconciliations[i]) ELSE reconciliations[i]]
      /\ outbox' = outbox (+) SetToBag(news)
      /\ UNCHANGED <<posted, journal, approvals, acknowledgements, tx, answers>>
  BY DEF Escalate
<1>2. RowsAreTyped /\ ReconciliationsAreSound
  BY DEF LedgerInv
<1>3. PICK n \in Nat : n = Len(reconciliations) /\ DOMAIN reconciliations = 1..n
  BY <1>2 DEF RowsAreTyped
<1>4. \A i \in 1..n : reconciliations[i] \in ReconciliationRows
  BY <1>2, <1>3, Positions DEF RowsAreTyped
<1>5. ASSUME NEW r \in ReconciliationRows, Overdue(r, now)
      PROVE  /\ Raised(r) \in ReconciliationRows /\ Raised(r).level = r.level + 1
             /\ Raised(r).due = r.due + Delay /\ Raised(r).date = r.date
             /\ Raised(r).checksum = r.checksum /\ Raised(r).subledger = r.subledger
             /\ Raised(r).ledger = r.ledger /\ Raised(r).discrepancy = r.discrepancy
             /\ r.discrepancy # NoDiscrepancy
  <2>1. r.level + 1 \in 1..TopLevel /\ r.due + Delay \in Int
    BY <1>5, LedgerAssumption DEF ReconciliationRows, Overdue
  <2> QED
    BY <1>5, <2>1 DEF ReconciliationRows, Overdue
<1>6. overdue \subseteq 1..n /\ \A i \in overdue : Overdue(reconciliations[i], now)
  BY <1>3
<1>7. \A i \in 1..n : i \notin overdue => reconciliations'[i] = reconciliations[i]
  BY <1>1, <1>3
<1>8. \A i \in overdue : reconciliations'[i] = Raised(reconciliations[i])
  BY <1>1, <1>6, <1>3
<1> HIDE DEF overdue, Raised
<1>9. /\ reconciliations' \in Seq(ReconciliationRows) /\ Len(reconciliations') = n
      /\ DOMAIN reconciliations' = 1..n
  <2>1. PICK t : t = reconciliations'
    OBVIOUS
  <2>2. \A i \in 1..n : t[i] \in ReconciliationRows
    BY <1>4, <1>5, <1>6, <1>7, <1>8, <2>1
  <2>3. t \in [1..n -> ReconciliationRows]
    BY <1>1, <1>3, <2>1, <2>2
  <2> QED
    BY <2>1, <2>3, FunctionIsSequence
<1>10. \A i \in 1..n :
         LET r == reconciliations[i]  new == reconciliations'[i] IN
         /\ r.date = new.date /\ r.checksum = new.checksum
         /\ r.subledger = new.subledger /\ r.ledger = new.ledger
         /\ r.discrepancy = new.discrepancy
  BY <1>4, <1>5, <1>6, <1>7, <1>8
<1>11. JournalKept /\ EntryEvents' = EntryEvents
  BY <1>1, <1>2, JournalStays
<1>12. /\ AcknowledgementsKept /\ AcknowledgementsAreSound'
       /\ AcknowledgementEvents' = AcknowledgementEvents
  BY <1>1, AcknowledgementsStay
<1>13. ReconciliationsKept
  BY <1>3, <1>9, <1>10 DEF ReconciliationsKept
<1>14. RowsKept
  BY <1>1, <1>11, <1>12, <1>13 DEF RowsKept
<1>15. RowsAreTyped'
  BY <1>1, <1>2, <1>9 DEF RowsAreTyped
<1>16. TransactionsAreSound'
  BY <1>1, <1>2, <1>14, TransactionsKept DEF LedgerInv
<1>17. EntriesAreSound' /\ ApprovalsAreSound'
  BY <1>1, <1>11, EntriesStay DEF LedgerInv, ApprovalsAreSound
<1>18. ReconciliationsAreSound'
  <2>1. ASSUME NEW i \in 1..n, NEW x, x = reconciliations'[i]
        PROVE  ReconciliationIsSound(x)'
    <3>1. PICK r \in ReconciliationRows : r = reconciliations[i]
      BY <1>4
    <3>2. ReconciliationIsSound(r)
      BY <1>2, <1>3, <3>1 DEF ReconciliationsAreSound
    <3>3. CASE i \in overdue
      <4>1. x = Raised(r) /\ Overdue(r, now)
        BY <1>6, <1>8, <2>1, <3>1, <3>3
      <4>2. /\ x.level = r.level + 1 /\ x.due = r.due + Delay /\ x.date = r.date
            /\ x.subledger = r.subledger /\ x.ledger = r.ledger
            /\ x.discrepancy = r.discrepancy /\ r.discrepancy # NoDiscrepancy
        BY <1>5, <4>1
      <4>3. r.due = Deadline(r.discrepancy) + (r.level - 1) * Delay
        BY <3>2, <4>2 DEF ReconciliationIsSound
      <4>4. /\ r.level \in Int /\ r.due \in Int /\ Delay \in Int
            /\ Deadline(r.discrepancy) \in Int
        <5>1. PICK q \in Requests : q.op = "RECONCILE" /\ q.discrepancy = r.discrepancy
          BY DEF ReconciliationRows, Given, Asked
        <5> QED
          BY <4>2, <5>1, LedgerAssumption DEF ReconciliationRows, Deadline
      <4>5. x.due = Deadline(r.discrepancy) + (x.level - 1) * Delay
        <5>1. PICK d \in Int, l \in Int, y \in Int :
                d = Deadline(r.discrepancy) /\ l = r.level /\ y = Delay
          BY <4>4
        <5>2. x.due = d + (l - 1) * y + y
          BY <4>2, <4>3, <5>1
        <5>3. (l - 1) * y + y = l * y
          OBVIOUS
        <5>4. PICK a \in Int, b \in Int : a = (l - 1) * y /\ b = l * y
          OBVIOUS
        <5>5. x.due = d + b
          BY <5>2, <5>3, <5>4
        <5>6. x.level - 1 = l
          BY <4>2, <5>1
        <5> QED
          BY <5>1, <5>4, <5>5, <5>6
      <4>6. ReconciliationIsSound(x)
        BY <3>2, <4>2, <4>5 DEF ReconciliationIsSound
      <4> QED
        BY <1>2, <1>11, <4>6, ReconciliationKept
    <3>4. CASE i \notin overdue
      <4>1. x = r
        BY <1>7, <2>1, <3>1, <3>4
      <4> QED
        BY <1>2, <1>11, <3>2, <4>1, ReconciliationKept
    <3> QED
      BY <3>3, <3>4
  <2>2. \A i, j \in 1..n : Same(reconciliations'[j], reconciliations'[i]) => i = j
    BY <1>2, <1>3, <1>10 DEF ReconciliationsAreSound, Same
  <2> QED
    BY <1>9, <2>1, <2>2 DEF ReconciliationsAreSound
<1>19. EachAnnouncedOnce'
  <2>1. ReconciliationEvents' = ReconciliationEvents
    BY <1>3, <1>9 DEF ReconciliationEvents, ReconciliationEvent
  <2>2. \A i \in 1..n : reconciliations[i].level \in Nat \ {0}
    BY <1>4 DEF ReconciliationRows
  <2>3. /\ \A i \in overdue : reconciliations'[i].level = reconciliations[i].level + 1
        /\ \A i \in 1..n : i \notin overdue => reconciliations'[i].level = reconciliations[i].level
    BY <1>4, <1>5, <1>6, <1>7, <1>8
  <2>4. news = {EscalationEvent(i, reconciliations[i].level + 1) : i \in overdue}
    BY DEF EscalationEvent
  <2> HIDE DEF news
  <2>5. EscalationEvents' \subseteq EscalationEvents \cup news
    <3>1. SUFFICES ASSUME NEW x \in EscalationEvents' PROVE x \in EscalationEvents \cup news
      OBVIOUS
    <3>2. PICK i \in 1..n : \E l \in 2..reconciliations'[i].level : x = EscalationEvent(i, l)
      BY <1>9 DEF EscalationEvents, EscalationEvent
    <3>3. PICK l \in 2..reconciliations'[i].level : x = EscalationEvent(i, l)
      BY <3>2
    <3>4. CASE l \in 2..reconciliations[i].level
      BY <1>3, <3>3, <3>4 DEF EscalationEvents
    <3>5. CASE l \notin 2..reconciliations[i].level
      <4>1. i \in overdue /\ l = reconciliations[i].level + 1
        BY <2>2, <2>3, <3>5
      <4> QED
        BY <2>4, <3>3, <4>1
    <3> QED
      BY <3>4, <3>5
  <2>6. EscalationEvents \subseteq EscalationEvents'
    <3>1. SUFFICES ASSUME NEW x \in EscalationEvents PROVE x \in EscalationEvents'
      OBVIOUS
    <3>2. PICK i \in 1..n : \E l \in 2..reconciliations[i].level : x = EscalationEvent(i, l)
      BY <1>3 DEF EscalationEvents
    <3>3. PICK l \in 2..reconciliations[i].level : x = EscalationEvent(i, l)
      BY <3>2
    <3>4. l \in 2..reconciliations'[i].level
      BY <2>2, <2>3
    <3> QED
      BY <1>9, <3>3, <3>4 DEF EscalationEvents, EscalationEvent
  <2>7. news \subseteq EscalationEvents'
    <3>1. SUFFICES ASSUME NEW i \in overdue
                   PROVE  EscalationEvent(i, reconciliations[i].level + 1) \in EscalationEvents'
      BY <2>4
    <3>2. PICK l : l = reconciliations[i].level + 1
      OBVIOUS
    <3>3. i \in 1..n /\ l \in 2..reconciliations'[i].level
      BY <1>6, <2>2, <2>3, <3>2
    <3>4. EscalationEvent(i, l) \in EscalationEvents'
      BY <1>9, <3>3 DEF EscalationEvents, EscalationEvent
    <3> QED
      BY <3>2, <3>4
  <2>8. Announced' = Announced \cup news
    BY <1>11, <1>12, <2>1, <2>5, <2>6, <2>7 DEF Announced
  <2>9. ASSUME NEW x \in news PROVE x \notin Announced
    <3>1. PICK i \in overdue : x = EscalationEvent(i, reconciliations[i].level + 1)
      BY <2>4
    <3>2. /\ x.type = "ReconciliationDiscrepancyEscalated" /\ x.of = i
          /\ x.level = reconciliations[i].level + 1
      BY <3>1 DEF EscalationEvent
    <3>3. reconciliations[i].level \in Nat
      BY <1>6, <2>2
    <3>4. x \notin EscalationEvents
      BY <3>2, <3>3, EventTypes
    <3> QED
      BY <3>2, <3>4, EventTypes DEF Announced, EntryAnnouncements
  <2>10. Announced \cap news = {}
    BY <2>9
  <2>11. outbox' = outbox (+) SetToBag(news)
    BY <1>1
  <2> QED
    BY <2>8, <2>10, <2>11, BagGrows DEF EachAnnouncedOnce, LedgerInv
<1>20. LedgerAnswersAreSound'
  BY <1>1, <1>14, LedgerAnswersStay DEF LedgerInv
<1> QED
  BY <1>12, <1>15, <1>16, <1>17, <1>18, <1>19, <1>20 DEF LedgerInv

(* The invariant holds at the start.                                       *)
LEMMA LedgerStarts == AccountingInit => LedgerInv
<1> SUFFICES ASSUME AccountingInit PROVE LedgerInv
  OBVIOUS
<1>1. /\ posted = {} /\ journal = <<>> /\ approvals = {} /\ acknowledgements = <<>>
      /\ reconciliations = <<>> /\ outbox = EmptyBag /\ answers = {}
      /\ tx = [s \in Sessions |-> Idle]
  BY DEF AccountingInit
<1>2. RowsAreTyped
  BY <1>1, LedgerAssumption DEF RowsAreTyped
<1>3. TransactionsAreSound
  BY <1>1 DEF TransactionsAreSound
<1>4. EntriesAreSound /\ ApprovalsAreSound /\ AcknowledgementsAreSound /\ ReconciliationsAreSound
  BY <1>1 DEF EntriesAreSound, ApprovalsAreSound, AcknowledgementsAreSound, ReconciliationsAreSound
<1>5. EachAnnouncedOnce
  <2>1. EntryEvents = {} /\ AcknowledgementEvents = {} /\ ReconciliationEvents = {}
    BY <1>1 DEF EntryEvents, AcknowledgementEvents, ReconciliationEvents
  <2>2. EscalationEvents = {}
    BY <1>1 DEF EscalationEvents
  <2>3. Announced = {}
    BY <2>1, <2>2 DEF Announced
  <2> QED
    BY <1>1, <2>3 DEF EachAnnouncedOnce, EmptyBag
<1>6. LedgerAnswersAreSound
  BY <1>1 DEF LedgerAnswersAreSound
<1> QED
  BY <1>2, <1>3, <1>4, <1>5, <1>6 DEF LedgerInv

(* Every step keeps it.                                                    *)
LEMMA LedgerStep == LedgerInv /\ [AccountingNext]_accountingVars => LedgerInv'
<1> SUFFICES ASSUME LedgerInv, [AccountingNext]_accountingVars PROVE LedgerInv'
  OBVIOUS
<1>1. CASE \E q \in Asked("POST") :
             ReplayPosting(q) \/ \E s \in Sessions : BeginPosting(s, q)
  BY <1>1, ReplaysKeep, BeginKeeps DEF Asked, BeginPosting
<1>2. CASE \E q \in Asked("REVERSE") :
             ReplayReversal(q) \/ \E s \in Sessions : BeginReversal(s, q)
  BY <1>2, ReplaysKeep, BeginKeeps DEF Asked, BeginReversal
<1>3. CASE \E q \in Asked("EMIT") :
             ReplayEmission(q) \/ \E s \in Sessions : BeginEmission(s, q)
  BY <1>3, ReplaysKeep, BeginKeeps DEF Asked, BeginEmission
<1>4. CASE \E q \in Asked("ACKNOWLEDGE") :
             ReplayAcknowledgement(q) \/ \E s \in Sessions : BeginAcknowledgement(s, q)
  BY <1>4, ReplaysKeep, BeginKeeps DEF Asked, BeginAcknowledgement
<1>5. CASE \E q \in Asked("RECONCILE"), s \in Sessions : Begin(s, q)
  BY <1>5, BeginKeeps DEF Asked
<1>6. CASE \E s \in Sessions :
             \/ CommitPosting(s) \/ CommitReversal(s) \/ CommitEmission(s)
             \/ CommitAcknowledgement(s)
             \/ CommitReconciliation(s) \/ ReplayReconciliation(s)
             \/ Rollback(s)
  BY <1>6, PostingKeeps, ReversalKeeps, EmissionKeeps, AcknowledgementKeeps, ReconciliationKeeps,
     ReplayedReconciliationKeeps, RollbackKeeps
<1>7. CASE \E now \in 0..MaxTime : Escalate(now)
  BY <1>7, EscalationKeeps
<1>8. CASE UNCHANGED accountingVars
  <2>1. UNCHANGED tables /\ answers' = answers /\ tx' = tx
    BY <1>8 DEF accountingVars, tables
  <2>2. RowsKept
    BY <2>1, NothingWritten DEF LedgerInv
  <2>3. LedgerAnswersAreSound' /\ TransactionsAreSound'
    BY <2>1, <2>2, LedgerAnswersStay, TransactionsKept DEF LedgerInv
  <2> QED
    BY <2>1, <2>3, OnlyAnswered
<1> QED
  BY <1>1, <1>2, <1>3, <1>4, <1>5, <1>6, <1>7, <1>8 DEF AccountingNext

(* A balanced allocation gives every participant their share: the amounts  *)
(* are made absolute and put on one side, and balance only when all of     *)
(* them have the sign of the result.                                       *)
LEMMA AllocationGives ==
  ASSUME NEW r \in Runs, Balanced(AllocationLines(r))
  PROVE  /\ Balance(AllocationLines(r)) = Distributable[r]
         /\ \A i \in DOMAIN Shares[r] :
              AllocationLines(r)[i + 1].credit - AllocationLines(r)[i + 1].debit = Shares[r][i]
<1>1. PICK lines : lines = AllocationLines(r)
  OBVIOUS
<1>2. PICK n \in Nat : n = Len(Shares[r])
  BY AllocationLinesAre
<1>3. PICK d \in Int : d = Distributable[r]
  BY LedgerAssumption
<1>4. PICK s : s = Shares[r]
  OBVIOUS
<1>5. /\ s \in Seq(Int) /\ DOMAIN s = 1..n /\ SumFunctionOnSet(s, 1..n) = d
      /\ \A i \in 1..n : s[i] \in Int
  BY <1>2, <1>3, <1>4, LedgerAssumption DEF SumFunction
<1>6. /\ lines \in AccountLines /\ DOMAIN lines = 1..(n + 1)
      /\ lines[1] = Line(0, Absolute(d), ~(d >= 0))
      /\ \A i \in 1..n : lines[i + 1] = Line(i, Absolute(s[i]), d >= 0)
  BY <1>1, <1>2, <1>3, <1>4, AllocationLinesAre
<1> DEFINE S == 1..(n + 1)
           Debit == [i \in DOMAIN lines |-> lines[i].debit]
           Credit == [i \in DOMAIN lines |-> lines[i].credit]
           w == [i \in S |-> lines[i].credit - lines[i].debit]
           b == [i \in DOMAIN lines |->
                   IF lines[i].account > 0 THEN lines[i].credit - lines[i].debit ELSE 0]
           t == [i \in 1..n |-> IF d >= 0 THEN Absolute(s[i]) ELSE -Absolute(s[i])]
<1>7. IsFiniteSet(S) /\ IsFiniteSet(1..n) /\ 1 \in S /\ S \ {1} = 2..(n + 1)
  <2>1. IsFiniteSet(S) /\ IsFiniteSet(1..n)
    BY FS_Interval
  <2>2. 1 \in S /\ S \ {1} = 2..(n + 1)
    OBVIOUS
  <2> QED
    BY <2>1, <2>2
<1>8. IsFiniteSet(S \ {1})
  BY <1>7, FS_RemoveElement
<1>9. \A i \in S : lines[i].debit \in Int /\ lines[i].credit \in Int
  <2>1. \A i \in DOMAIN lines : lines[i] \in [account: Int, debit: Int, credit: Int]
    BY <1>6, Positions DEF AccountLines
  <2> QED
    BY <1>6, <2>1
<1>10. SumFunctionOnSet(Debit, S) = SumFunctionOnSet(Credit, S)
  BY <1>1, <1>6 DEF Balanced, Total, SumFunction
<1>11. \A i \in S : Debit[i] \in Int /\ w[i] \in Int /\ Credit[i] = w[i] + Debit[i]
  BY <1>6, <1>9
<1>12. w[1] = -d
  BY <1>6, <1>7 DEF Line, Absolute
<1>13. \A i \in 1..n : i + 1 \in S /\ w[i + 1] = t[i] /\ b[i + 1] = w[i + 1]
  <2>1. ASSUME NEW i \in 1..n
        PROVE  i + 1 \in S /\ w[i + 1] = t[i] /\ b[i + 1] = w[i + 1]
    <3>1. PICK k \in S : k = i + 1
      OBVIOUS
    <3>2. lines[k] = Line(i, Absolute(s[i]), d >= 0)
      BY <1>6, <3>1
    <3>3. Absolute(s[i]) \in Int
      BY <1>5 DEF Absolute
    <3>4. PICK a \in Int : a = Absolute(s[i])
      BY <3>3
    <3>5. w[k] = lines[k].credit - lines[k].debit /\ t[i] = IF d >= 0 THEN a ELSE -a
      BY <3>4
    <3>6. b[k] = w[k]
      BY <1>6, <3>2 DEF Line
    <3>7. w[k] = t[i]
      BY <3>2, <3>4, <3>5 DEF Line
    <3> QED
      BY <3>1, <3>6, <3>7
  <2> QED
    BY <2>1
<1>14. b[1] = 0
  BY <1>6, <1>7 DEF Line
<1>15. \A i \in S \ {1} : b[i] = w[i]
  <2>1. ASSUME NEW i \in S \ {1} PROVE b[i] = w[i]
    <3>1. i - 1 \in 1..n /\ (i - 1) + 1 = i
      OBVIOUS
    <3> QED
      BY <1>13, <3>1
  <2> QED
    BY <2>1
<1>16. \A i \in 1..n : t[i] \in Int /\ (d >= 0 => t[i] - s[i] \in Nat)
                                   /\ (~(d >= 0) => s[i] - t[i] \in Nat)
  BY <1>5 DEF Absolute
<1>17. Balance(lines) = SumFunctionOnSet(b, S)
  BY <1>6 DEF Balance, SumFunction
<1> HIDE DEF S, Debit, Credit, w, b, t
<1>18. SumFunctionOnSet(Credit, S) = SumFunctionOnSet(w, S) + SumFunctionOnSet(Debit, S)
  BY <1>7, <1>11, SumAdds
<1>19. SumFunctionOnSet(w, S) \in Int /\ SumFunctionOnSet(Debit, S) \in Int
  BY <1>7, <1>11, SumType
<1>20. SumFunctionOnSet(w, S) = 0
  BY <1>10, <1>18, <1>19
<1>21. SumFunctionOnSet(w, S) = w[1] + SumFunctionOnSet(w, S \ {1})
  <2>1. IsFiniteSet(S) /\ 1 \in S /\ \A i \in S : w[i] \in Int
    BY <1>7, <1>11
  <2> QED
    BY <2>1, SumWithout
<1>22. SumFunctionOnSet(w, S \ {1}) \in Int
  BY <1>8, <1>11, SumType
<1>23. SumFunctionOnSet(w, S \ {1}) = d
  BY <1>12, <1>20, <1>21, <1>22
<1>24. \A i \in S : b[i] \in Int
  BY <1>11, <1>14, <1>15
<1>25. SumFunctionOnSet(b, S) = b[1] + SumFunctionOnSet(b, S \ {1})
  BY <1>7, <1>24, SumWithout
<1>26. SumFunctionOnSet(b, S \ {1}) = SumFunctionOnSet(w, S \ {1})
  BY <1>8, <1>15, SumSame
<1>27. Balance(lines) = d
  BY <1>14, <1>17, <1>23, <1>25, <1>26
<1>28. SumFunctionOnSet(t, 1..n) = d
  <2>1. \A i \in 1..n : t[i] \in Int /\ w[i + 1] = t[i]
    BY <1>13, <1>16
  <2>2. SumFunctionOnSet(w, 2..(n + 1)) = SumFunctionOnSet(t, 1..n)
    BY <2>1, SumShifted
  <2> QED
    BY <1>7, <1>23, <2>2
<1>29. \A i \in 1..n : t[i] = s[i]
  <2>1. CASE d >= 0
    <3> DEFINE h == [i \in 1..n |-> t[i] - s[i]]
    <3>1. \A i \in 1..n : /\ h[i] \in Nat /\ h[i] \in Int /\ s[i] \in Int /\ t[i] = s[i] + h[i]
                         /\ h[i] = t[i] - s[i]
      BY <1>5, <1>16, <2>1
    <3> HIDE DEF h
    <3>2. SumFunctionOnSet(t, 1..n) = SumFunctionOnSet(s, 1..n) + SumFunctionOnSet(h, 1..n)
      BY <1>7, <3>1, SumAdds
    <3>3. SumFunctionOnSet(h, 1..n) \in Int
      BY <1>7, <3>1, SumType
    <3>4. SumFunctionOnSet(h, 1..n) = 0
      BY <1>5, <1>28, <3>2, <3>3
    <3>5. \A i \in 1..n : h[i] = 0
      BY <1>7, <3>1, <3>4, NothingInSum
    <3> QED
      BY <3>1, <3>5
  <2>2. CASE ~(d >= 0)
    <3> DEFINE h == [i \in 1..n |-> s[i] - t[i]]
    <3>1. \A i \in 1..n : /\ h[i] \in Nat /\ h[i] \in Int /\ t[i] \in Int /\ s[i] = t[i] + h[i]
      BY <1>5, <1>16, <2>2
    <3> HIDE DEF h
    <3>2. SumFunctionOnSet(s, 1..n) = SumFunctionOnSet(t, 1..n) + SumFunctionOnSet(h, 1..n)
      BY <1>7, <3>1, SumAdds
    <3>3. SumFunctionOnSet(h, 1..n) \in Int
      BY <1>7, <3>1, SumType
    <3>4. SumFunctionOnSet(h, 1..n) = 0
      BY <1>5, <1>28, <3>2, <3>3
    <3>5. \A i \in 1..n : h[i] = 0
      BY <1>7, <3>1, <3>4, NothingInSum
    <3> QED
      BY <3>1, <3>5
  <2> QED
    BY <2>1, <2>2
<1>30. \A i \in 1..n : lines[i + 1].credit - lines[i + 1].debit = s[i]
  BY <1>13, <1>29 DEF w
<1> QED
  BY <1>1, <1>3, <1>4, <1>5, <1>27, <1>30

(* The outbox holds one copy of what was announced.                        *)
LEMMA CopiesAre ==
  ASSUME EachAnnouncedOnce, NEW x
  PROVE  Copies(x) = IF x \in Announced THEN 1 ELSE 0
BY DEF EachAnnouncedOnce, Copies, SetToBag

(* A reversal and its original leave nothing on any participant.               *)
LEMMA ReversalUndoes ==
  ASSUME NEW lines \in AccountLines, NEW participant
  PROVE  OnAccount(lines, participant) + OnAccount(ReverseLines(lines), participant) = 0
<1> DEFINE S == DOMAIN lines
           back == ReverseLines(lines)
           f == [i \in DOMAIN lines |->
                   IF lines[i].account = participant THEN lines[i].credit - lines[i].debit ELSE 0]
           g == [i \in DOMAIN back |->
                   IF back[i].account = participant THEN back[i].credit - back[i].debit ELSE 0]
           none == [i \in S |-> 0]
<1>1. IsFiniteSet(S) /\ \A i \in S : lines[i] \in [account: Int, debit: Int, credit: Int]
  BY Positions DEF AccountLines
<1>2. DOMAIN back = S /\ \A i \in S : /\ back[i].account = lines[i].account
                                     /\ back[i].debit = lines[i].credit
                                     /\ back[i].credit = lines[i].debit
  BY ReverseLinesAre
<1> HIDE DEF back
<1>3. \A i \in S : f[i] \in Int /\ g[i] \in Int /\ none[i] = f[i] + g[i] /\ none[i] = 0
  BY <1>1, <1>2
<1>4. DOMAIN f = S /\ DOMAIN g = S
  BY <1>2
<1>5. OnAccount(lines, participant) = SumFunctionOnSet(f, S)
  BY <1>4 DEF OnAccount, SumFunction
<1>6. OnAccount(back, participant) = SumFunctionOnSet(g, S)
  BY <1>4 DEF OnAccount, SumFunction
<1> HIDE DEF f, g, S, none
<1>7. SumFunctionOnSet(none, S) = SumFunctionOnSet(f, S) + SumFunctionOnSet(g, S)
  BY <1>1, <1>3, SumAdds
<1>8. SumFunctionOnSet(none, S) = 0
  BY <1>1, <1>3, SumOfNothing
<1> QED
  BY <1>5, <1>6, <1>7, <1>8 DEF back

(* The subledger of one entry is the balance of its lines.                 *)
LEMMA EntryTotals ==
  ASSUME NEW j \in EntryRows
  PROVE  Subledger(<<j>>, j.date) = Balance(j.lines)
<1>1. j.date \in Int /\ Balance(j.lines) \in Int
  BY BalanceType DEF EntryRows, AccountLines
<1> DEFINE f == [e \in DOMAIN <<j>> |->
                   IF <<j>>[e].date <= j.date THEN Balance(<<j>>[e].lines) ELSE 0]
<1>2. DOMAIN f = {1} /\ f[1] = Balance(j.lines)
  BY <1>1
<1>3. Subledger(<<j>>, j.date) = SumFunctionOnSet(f, DOMAIN f)
  BY DEF Subledger, SumFunction
<1> HIDE DEF f
<1>4. SumFunctionOnSet(f, {1}) = f[1]
  BY <1>1, <1>2, SumOfOne
<1> QED
  BY <1>2, <1>3, <1>4

(* The invariant gives what the ledger promises.                           *)
LEMMA LedgerFollows == LedgerInv => LedgerIsConsistent
<1> SUFFICES ASSUME LedgerInv PROVE LedgerIsConsistent
  OBVIOUS
<1>1. /\ RowsAreTyped /\ EntriesAreSound /\ AcknowledgementsAreSound /\ EachAnnouncedOnce
  BY DEF LedgerInv
<1>2. /\ Len(journal) \in Nat /\ DOMAIN journal = 1..Len(journal)
      /\ \A e \in DOMAIN journal : journal[e] \in EntryRows /\ EntryIsSound(e)
  BY <1>1, Positions DEF RowsAreTyped, EntriesAreSound
<1>3. \A e, f \in DOMAIN journal : SameOrigin(journal[e], journal[f]) => e = f
  BY <1>1 DEF EntriesAreSound
<1>4. LedgerTyped
  <2>1. IsABag(outbox)
    BY <1>1 DEF EachAnnouncedOnce, IsABag, SetToBag
  <2>2. \A e \in DOMAIN journal : journal[e].reversalOf \in 0..(e - 1)
    <3>1. ASSUME NEW e \in DOMAIN journal PROVE journal[e].reversalOf \in 0..(e - 1)
      <4>1. e \in Nat \ {0} /\ EntryIsSound(e)
        BY <1>2
      <4> QED
        BY <4>1 DEF EntryIsSound, IsAllocation, IsEmission
    <3> QED
      BY <3>1
  <2>3. \A a \in DOMAIN acknowledgements : acknowledgements[a].entry \in DOMAIN journal
    BY <1>1 DEF AcknowledgementsAreSound, AcknowledgementIsSound
  <2> QED
    BY <1>1, <2>1, <2>2, <2>3 DEF LedgerTyped, RowsAreTyped
<1>5. EntriesBalance
  BY <1>2 DEF EntriesBalance, EntryIsSound
<1>6. PostedOnce
  <2>1. ASSUME NEW r \in Runs, NEW entries,
               entries = {e \in OfKind("PROFIT_ALLOCATION") : journal[e].run = r}
        PROVE  /\ Cardinality(entries) = IF r \in posted THEN 1 ELSE 0
               /\ \A e \in entries :
                    /\ journal[e].by # Maker[r]
                    /\ Subledger(<<journal[e]>>, journal[e].date) = Distributable[r]
                    /\ \A i \in DOMAIN Shares[r] :
                         LET l == journal[e].lines[i + 1] IN l.credit - l.debit = Shares[r][i]
    <3>1. \A e \in entries : /\ e \in DOMAIN journal /\ journal[e].kind = "PROFIT_ALLOCATION"
                             /\ journal[e].run = r
      BY <2>1 DEF OfKind
    <3>2. \A e \in entries : IsAllocation(journal[e]) /\ Balanced(journal[e].lines)
      BY <1>2, <3>1 DEF EntryIsSound, IsEmission, IsReversal
    <3>3. \A e, f \in entries : e = f
      BY <1>3, <3>1 DEF SameOrigin
    <3>4. Cardinality(entries) = IF r \in posted THEN 1 ELSE 0
      <4>1. CASE r \in posted
        <5>1. PICK e \in DOMAIN journal :
                journal[e].kind = "PROFIT_ALLOCATION" /\ journal[e].run = r
          BY <1>1, <4>1 DEF EntriesAreSound
        <5>2. entries = {e}
          BY <2>1, <3>3, <5>1 DEF OfKind
        <5>3. Cardinality(entries) = 1
          BY <5>2, FS_Singleton
        <5> QED
          BY <4>1, <5>3
      <4>2. CASE r \notin posted
        <5>1. entries = {}
          BY <3>1, <3>2, <4>2 DEF IsAllocation
        <5> QED
          BY <4>2, <5>1, FS_EmptySet
      <4> QED
        BY <4>1, <4>2
    <3>6. ASSUME NEW e \in entries
          PROVE  /\ journal[e].by # Maker[r]
                 /\ Subledger(<<journal[e]>>, journal[e].date) = Distributable[r]
                 /\ \A i \in DOMAIN Shares[r] :
                      LET l == journal[e].lines[i + 1] IN l.credit - l.debit = Shares[r][i]
      <4>1. PICK j \in EntryRows : j = journal[e]
        BY <1>2, <3>1
      <4>2. /\ j.by # Maker[r] /\ j.lines = AllocationLines(r) /\ Balanced(AllocationLines(r))
        BY <3>1, <3>2, <4>1 DEF IsAllocation
      <4>3. Subledger(<<j>>, j.date) = Balance(j.lines)
        BY EntryTotals
      <4>4. /\ Balance(AllocationLines(r)) = Distributable[r]
            /\ \A i \in DOMAIN Shares[r] :
                 AllocationLines(r)[i + 1].credit - AllocationLines(r)[i + 1].debit = Shares[r][i]
        BY <4>2, AllocationGives
      <4> QED
        BY <4>1, <4>2, <4>3, <4>4
    <3> QED
      BY <3>4, <3>6
  <2> QED
    BY <2>1 DEF PostedOnce
<1>7. EmittedOnce
  BY <1>3 DEF EmittedOnce, OfKind, SameOrigin
<1>8. ReversedOnce
  <2>1. SUFFICES ASSUME NEW i \in OfKind("REVERSAL"), NEW j \in OfKind("REVERSAL"),
                        NEW e, e = journal[i].reversalOf
                 PROVE  /\ journal[j].reversalOf = e => i = j
                        /\ journal[e].kind # "REVERSAL" /\ journal[e].by # journal[i].by
                        /\ \A k \in DOMAIN journal[e].lines :
                             LET participant == journal[e].lines[k].account IN
                             OnAccount(journal[e].lines, participant)
                               + OnAccount(journal[i].lines, participant) = 0
    BY DEF ReversedOnce
  <2>2. /\ i \in DOMAIN journal /\ journal[i].kind = "REVERSAL"
        /\ j \in DOMAIN journal /\ journal[j].kind = "REVERSAL"
    BY DEF OfKind
  <2>3. /\ e \in DOMAIN journal /\ journal[e].kind # "REVERSAL" /\ journal[e].by # journal[i].by
        /\ journal[i].lines = ReverseLines(journal[e].lines)
    BY <1>2, <2>1, <2>2 DEF EntryIsSound, IsAllocation, IsEmission, IsReversal
  <2>4. PICK lines \in AccountLines : lines = journal[e].lines
    BY <1>2, <2>3 DEF EntryRows, AccountLines
  <2>5. journal[j].reversalOf = e => i = j
    BY <1>3, <2>1, <2>2 DEF SameOrigin
  <2> QED
    BY <2>3, <2>4, <2>5, ReversalUndoes
<1>9. AnnouncedOnce
  <2>1. ASSUME NEW e \in DOMAIN journal
        PROVE  Copies([type |-> Announcement(journal[e].kind), of |-> e]) = 1
    <3>1. PICK x : x = [type |-> Announcement(journal[e].kind), of |-> e]
      OBVIOUS
    <3>2. x \in Announced
      BY <3>1 DEF Announced, EntryEvents, EntryEvent
    <3> QED
      BY <1>1, <3>1, <3>2, CopiesAre
  <2> QED
    BY <2>1 DEF AnnouncedOnce
<1> QED
  BY <1>4, <1>5, <1>6, <1>7, <1>8, <1>9 DEF LedgerIsConsistent

(* It gives the order of acknowledgements.                                 *)
LEMMA AcknowledgementsFollow == LedgerInv => AcknowledgedInOrder
<1> SUFFICES ASSUME LedgerInv PROVE AcknowledgedInOrder
  OBVIOUS
<1>1. AcknowledgementsAreSound /\ EachAnnouncedOnce
  BY DEF LedgerInv
<1>2. ASSUME NEW a \in DOMAIN acknowledgements, NEW r, r = acknowledgements[a]
      PROVE  /\ r.previous = StateAfter(OnEntry(r.entry, a - 1))
             /\ r.previous = "REJECTED" <=> r.result = "RETRIED"
             /\ r.previous \notin {"ACKNOWLEDGED", "REVERSED"}
             /\ r.result = "REVERSED" => r.previous = "RETRIED"
             /\ Copies([type |-> "AccountingAcknowledgementRecorded", of |-> a]) = 1
  <2>1. AcknowledgementIsSound(a, r)
    BY <1>1, <1>2 DEF AcknowledgementsAreSound
  <2>2. PICK x : x = [type |-> "AccountingAcknowledgementRecorded", of |-> a]
    OBVIOUS
  <2>3. x \in Announced
    BY <2>2 DEF Announced, AcknowledgementEvents, AcknowledgementEvent
  <2>4. Copies(x) = 1
    BY <1>1, <2>3, CopiesAre
  <2> QED
    BY <2>1, <2>2, <2>4 DEF AcknowledgementIsSound, NextStates
<1> QED
  BY <1>1, <1>2 DEF AcknowledgedInOrder, AcknowledgementsAreSound

(* It gives that every discrepancy is followed.                            *)
LEMMA DiscrepanciesFollow == LedgerInv => DiscrepanciesAreFollowed
<1> SUFFICES ASSUME LedgerInv PROVE DiscrepanciesAreFollowed
  OBVIOUS
<1>1. RowsAreTyped /\ ReconciliationsAreSound /\ EachAnnouncedOnce
  BY DEF LedgerInv
<1>2. ASSUME NEW i \in DOMAIN reconciliations, NEW r, r = reconciliations[i]
      PROVE  /\ \A j \in DOMAIN reconciliations : Same(reconciliations[j], r) => i = j
             /\ \E n \in 0..Len(journal) : r.subledger = Subledger(SubSeq(journal, 1, n), r.date)
             /\ r.discrepancy # NoDiscrepancy <=> r.subledger # r.ledger
             /\ Copies([type |-> "AccountingReconciliationCompleted", of |-> i]) = 1
             /\ r.level \in 1..TopLevel
             /\ r.discrepancy # NoDiscrepancy =>
                  r.due = Deadline(r.discrepancy) + (r.level - 1) * Delay
             /\ \A level \in 2..TopLevel :
                  Copies([type |-> "ReconciliationDiscrepancyEscalated", of |-> i, level |-> level])
                    = IF level <= r.level THEN 1 ELSE 0
  <2>1. ReconciliationIsSound(r)
    BY <1>1, <1>2 DEF ReconciliationsAreSound
  <2>2. \A j \in DOMAIN reconciliations : Same(reconciliations[j], r) => i = j
    BY <1>1, <1>2 DEF ReconciliationsAreSound
  <2>3. r.level \in 1..TopLevel
    <3>1. r \in ReconciliationRows
      BY <1>1, <1>2, Positions DEF RowsAreTyped
    <3> QED
      BY <3>1 DEF ReconciliationRows
  <2>4. Copies([type |-> "AccountingReconciliationCompleted", of |-> i]) = 1
    <3>1. PICK x : x = [type |-> "AccountingReconciliationCompleted", of |-> i]
      OBVIOUS
    <3>2. x \in Announced
      BY <3>1 DEF Announced, ReconciliationEvents, ReconciliationEvent
    <3> QED
      BY <1>1, <3>1, <3>2, CopiesAre
  <2>5. ASSUME NEW level \in 2..TopLevel
        PROVE  Copies([type |-> "ReconciliationDiscrepancyEscalated", of |-> i, level |-> level])
                 = IF level <= r.level THEN 1 ELSE 0
    <3>1. PICK x : x = EscalationEvent(i, level)
      OBVIOUS
    <3>2. x.type = "ReconciliationDiscrepancyEscalated" /\ x.of = i /\ x.level = level
      BY <3>1 DEF EscalationEvent
    <3>3. CASE level <= r.level
      <4>1. level \in 2..reconciliations[i].level
        BY <1>2, <2>3, <3>3
      <4>2. x \in EscalationEvents
        BY <3>1, <4>1 DEF EscalationEvents
      <4> QED
        BY <1>1, <3>1, <3>3, <4>2, CopiesAre DEF Announced, EscalationEvent
    <3>4. CASE ~(level <= r.level)
      <4>1. x \notin EscalationEvents
        BY <1>2, <2>3, <3>2, <3>4, EventTypes
      <4>2. x \notin Announced
        BY <3>2, <4>1, EventTypes DEF Announced, EntryAnnouncements
      <4> QED
        BY <1>1, <3>1, <3>4, <4>2, CopiesAre DEF EscalationEvent
    <3> QED
      BY <3>3, <3>4
  <2> QED
    BY <2>1, <2>2, <2>3, <2>4, <2>5 DEF ReconciliationIsSound
<1> QED
  BY <1>2 DEF DiscrepanciesAreFollowed

(* It gives that replays agree.                                            *)
LEMMA LedgerAnswersFollow == LedgerInv => ReplaysAgree
<1> SUFFICES ASSUME LedgerInv, NEW x \in answers, NEW y \in answers,
                    x.request = y.request, x.request.op # "POST"
             PROVE  x.answer = y.answer
  BY DEF ReplaysAgree
<1>1. /\ LedgerAnswerIsSound(x.request, x.answer) /\ LedgerAnswerIsSound(y.request, y.answer)
  BY DEF LedgerInv, LedgerAnswersAreSound
<1>2. CASE x.request.op = "REVERSE"
  <2>1. PICK a \in approvals, e \in DOMAIN journal :
          /\ a.key = x.request.of /\ x.answer = [entry |-> e]
          /\ journal[e].kind = "REVERSAL" /\ journal[e].reversalOf = a.resource
    BY <1>1, <1>2 DEF LedgerAnswerIsSound
  <2>2. PICK b \in approvals, f \in DOMAIN journal :
          /\ b.key = x.request.of /\ y.answer = [entry |-> f]
          /\ journal[f].kind = "REVERSAL" /\ journal[f].reversalOf = b.resource
    BY <1>1, <1>2 DEF LedgerAnswerIsSound
  <2>3. a = b
    BY <2>1, <2>2 DEF LedgerInv, ApprovalsAreSound
  <2>4. SameOrigin(journal[e], journal[f])
    BY <2>1, <2>2, <2>3 DEF SameOrigin
  <2>5. e = f
    BY <2>4 DEF LedgerInv, EntriesAreSound
  <2> QED
    BY <2>1, <2>2, <2>5
<1>3. CASE x.request.op = "EMIT"
  <2>1. PICK e \in DOMAIN journal :
          /\ journal[e].kind = "BUSINESS_EVENT" /\ journal[e].source = x.request.of
          /\ x.answer = [entry |-> e]
    BY <1>1, <1>3 DEF LedgerAnswerIsSound
  <2>2. PICK f \in DOMAIN journal :
          /\ journal[f].kind = "BUSINESS_EVENT" /\ journal[f].source = x.request.of
          /\ y.answer = [entry |-> f]
    BY <1>1, <1>3 DEF LedgerAnswerIsSound
  <2>3. SameOrigin(journal[e], journal[f])
    BY <2>1, <2>2 DEF SameOrigin
  <2>4. e = f
    BY <2>3 DEF LedgerInv, EntriesAreSound
  <2> QED
    BY <2>1, <2>2, <2>4
<1>4. CASE x.request.op = "ACKNOWLEDGE"
  <2>1. PICK a \in DOMAIN acknowledgements :
          acknowledgements[a].key = x.request.of
          /\ x.answer = [state |-> acknowledgements[a].result]
    BY <1>1, <1>4 DEF LedgerAnswerIsSound
  <2>2. PICK b \in DOMAIN acknowledgements :
          acknowledgements[b].key = x.request.of
          /\ y.answer = [state |-> acknowledgements[b].result]
    BY <1>1, <1>4 DEF LedgerAnswerIsSound
  <2>3. a = b
    BY <2>1, <2>2 DEF LedgerInv, AcknowledgementsAreSound
  <2> QED
    BY <2>1, <2>2, <2>3
<1>5. CASE x.request.op = "RECONCILE"
  <2>1. PICK i, r :
          /\ i \in DOMAIN reconciliations /\ r = reconciliations[i] /\ x.request.of = <<r.date, r.checksum>>
          /\ x.answer = [id |-> i, difference |-> r.subledger - r.ledger]
    BY <1>1, <1>5 DEF LedgerAnswerIsSound
  <2>2. PICK k, t :
          /\ k \in DOMAIN reconciliations /\ t = reconciliations[k] /\ x.request.of = <<t.date, t.checksum>>
          /\ y.answer = [id |-> k, difference |-> t.subledger - t.ledger]
    BY <1>1, <1>5 DEF LedgerAnswerIsSound
  <2>3. Same(t, r)
    BY <2>1, <2>2 DEF Same
  <2>4. i = k
    BY <2>1, <2>2, <2>3 DEF LedgerInv, ReconciliationsAreSound
  <2> QED
    BY <2>1, <2>2, <2>4
<1> QED
  BY <1>1, <1>2, <1>3, <1>4, <1>5 DEF LedgerAnswerIsSound

(* The journal is the effect of what was asked, once, and every participant *)
(* has their share of a posted result, whichever sessions race             *)
(* (postAtomically, emitAtomically, reverseAtomically).                    *)
THEOREM LedgerStaysConsistent == AccountingSpec => []LedgerIsConsistent
<1>1. AccountingSpec => []LedgerInv
  BY LedgerStarts, LedgerStep, PTL DEF AccountingSpec
<1> QED
  BY <1>1, LedgerFollows, PTL

(* The acknowledgements of an entry are a path from PENDING to the state   *)
(* in its row, whichever answers of the general ledger race                *)
(* (acknowledgeAtomically).                                                *)
THEOREM AcknowledgementsStayInOrder == AccountingSpec => []AcknowledgedInOrder
<1>1. AccountingSpec => []LedgerInv
  BY LedgerStarts, LedgerStep, PTL DEF AccountingSpec
<1> QED
  BY <1>1, AcknowledgementsFollow, PTL

(* A reconciliation has a total that the ledger had, a discrepancy just    *)
(* when it has a variance, and one event for each level that it climbed,   *)
(* however many schedulers escalate (reconcileAtomically, migration 046).  *)
THEOREM DiscrepanciesStayFollowed == AccountingSpec => []DiscrepanciesAreFollowed
<1>1. AccountingSpec => []LedgerInv
  BY LedgerStarts, LedgerStep, PTL DEF AccountingSpec
<1> QED
  BY <1>1, DiscrepanciesFollow, PTL

(* What is asked of the ledger again is answered as the first time, except *)
(* a posting (the replays of reverseAtomically, emitAtomically,            *)
(* acknowledgeAtomically and reconcileAtomically).                         *)
THEOREM LedgerReplaysAgree == AccountingSpec => []ReplaysAgree
<1>1. AccountingSpec => []LedgerInv
  BY LedgerStarts, LedgerStep, PTL DEF AccountingSpec
<1> QED
  BY <1>1, LedgerAnswersFollow, PTL

-----------------------------------------------------------------------------
(* Ingestion: what a batch, its rows, its issues, its publication and a    *)
(* worker are at any moment.                                               *)

(* What manifests give for a field.                                        *)
Named(field) == {m[field] : m \in Manifests}
(* The reasons a quarantined batch may have.                               *)
BatchReasons ==
  {"NOT_AUTHENTIC", "NOT_CLEAN", "BUSINESS_DATE_MISMATCH", "UNKNOWN_CURRENCY", "UNKNOWN_PRODUCT",
   "INVALID_DATE_CHRONOLOGY", "EMPTY_BATCH", "MANIFEST_ROW_COUNT_MISMATCH", "MANIFEST_BALANCE_MISMATCH"}
(* The rows of the batch table.                                            *)
BatchRows ==
  [state : States \ {"NONE"}, reason : SUBSET BatchReasons, key : Named("key"),
   checksum : Named("checksum"), object : Named("object"), rowCount : Named("rowCount"),
   total : Named("total")]
(* The customers that delivered rows are about.                            *)
Customers == UNION {{row.customer : row \in Range(RowsOf[c])} : c \in LandedContents}

(* The shapes of the tables.                                               *)
BatchTablesAreTyped ==
  /\ batch \in [BatchIds -> BatchRows \cup {Unregistered}]
  /\ DOMAIN staged = BatchIds
  /\ DOMAIN account = Accounts
  /\ landing \in [Objects -> LandedContents]

(* One batch per replay key.                                               *)
ReplayKeysAreUnique ==
  \A b, c \in BatchIds : batch[b].state # "NONE" /\ batch[c].state # "NONE" /\ batch[b].key = batch[c].key
                           => b = c

(* The verdict on a batch is that of a manifest that names it.             *)
HasSigned(b) ==
  \E m \in Manifests : m.batch = b /\ Authentic(m) /\ \E c \in WithKey(m) : batch[c].checksum = m.checksum

(* A state past a control is had by a batch that passed it.                *)
StatesAreEarned ==
  \A b \in BatchIds :
    /\ batch[b].state \in {"AUTHENTICATED", "SCANNED", "STAGED", "VALIDATED", "PUBLISHED"} => HasSigned(b)
    /\ batch[b].state \in {"SCANNED", "STAGED", "VALIDATED", "PUBLISHED"} => batch[b].checksum \notin Infected
    /\ batch[b].state \in {"STAGED", "VALIDATED", "PUBLISHED"} => staged[b] # <<>>

(* What is staged are the rows of the registered content.                  *)
StagedAs(b, rows) ==
  /\ batch[b].state # "NONE" /\ batch[b].checksum \in LandedContents
  /\ rows = RowsOf[batch[b].checksum] /\ ~Repeated(rows)
  /\ staged[b] \in Seq([row : Range(rows), token : BOOLEAN, clear : BOOLEAN])
  /\ Len(staged[b]) = Len(rows)
  /\ \A i \in 1..Len(rows) : staged[b][i].row = rows[i]

(* Rows are staged once, from the registered content.                      *)
RowsAreDelivered == \A b \in BatchIds : staged[b] = <<>> \/ \E rows : StagedAs(b, rows)

(* The controls that do not depend on the products of the moment.          *)
Verdict(b) == {code \in Failures(b, BusinessDate[batch[b].key]) : Lasting(code)}

(* Quality issues are what the controls found, and a validated batch has   *)
(* none.                                                                   *)
IssuesAreRight ==
  /\ \A x \in issues : /\ x = <<x[1], x[2], x[3]>>
                       /\ Lasting(x[3]) => /\ x[1] \in BatchIds /\ staged[x[1]] # <<>>
                                           /\ x[3] \in Verdict(x[1])
  /\ \A b \in BatchIds : batch[b].state \in {"VALIDATED", "PUBLISHED"} => Verdict(b) = {}

(* The codes of the issues of a batch.                                     *)
Codes(b) == {x[3] : x \in {y \in issues : y[1] = b}}

(* A reason that does not pass is written down as an issue.                *)
ReasonsAreKept ==
  \A b \in BatchIds : \A code \in batch[b].reason \ {"NOT_AUTHENTIC", "NOT_CLEAN"} :
    Lasting(code) => code \in Codes(b)

(* The steps at which rows are staged.                                     *)
AfterStaging == {"inspect", "quarantine", "decide", "check", "references", "publish"}
(* What a worker remembers at each step.                                   *)
WorkerStates ==
  {Resting} \cup [at : {"idle", "authenticate", "load", "inspect", "check", "references"},
                  manifest : Manifests, batch : BatchIds]
    \cup [at : {"scan", "stage", "inspect"}, manifest : Manifests, batch : BatchIds, content : LandedContents]
    \cup [at : {"quarantine", "decide", "check", "references"}, manifest : Manifests, batch : BatchIds,
          failures : SUBSET BatchReasons]
    \cup [at : {"publish"}, manifest : Manifests, batch : BatchIds, references : SUBSET Customers]

(* It handles a batch that is registered as its manifest says, and has     *)
(* seen the failures that it is about to write.                            *)
WorkerIsSound(x) ==
  x.at # "idle" =>
    LET b == x.batch IN
    /\ batch[b].state # "NONE" /\ batch[b].key = x.manifest.key /\ batch[b].checksum = x.manifest.checksum
    /\ x.at = "stage" => x.content = x.manifest.checksum /\ x.content \notin Infected
    /\ x.at \in AfterStaging => staged[b] # <<>>
    /\ x.at = "quarantine" => x.failures # {} /\ Verdict(b) = {code \in x.failures : Lasting(code)}
    /\ x.at = "decide" => /\ x.failures = {} => Verdict(b) = {}
                          /\ \A code \in x.failures : Lasting(code) => code \in Codes(b)

(* Every worker is at a step of the code.                                  *)
WorkersAreSound ==
  /\ worker \in [Workers -> WorkerStates]
  /\ \A w \in Workers : WorkerIsSound(worker[w])

(* What the tables hold, whatever the workers do.                          *)
BatchTablesAreSound ==
  /\ BatchTablesAreTyped /\ ReplayKeysAreUnique /\ StatesAreEarned /\ RowsAreDelivered /\ IssuesAreRight
  /\ ReasonsAreKept /\ PublicationIsWhole

(* The inductive invariant of ingestion.                                   *)
IngestionInv == BatchTablesAreSound /\ WorkersAreSound

(* What a step keeps of the batches that are registered.                   *)
BatchesKept ==
  \A b \in BatchIds : batch[b].state # "NONE" =>
    /\ batch'[b].state # "NONE"
    /\ batch'[b].key = batch[b].key /\ batch'[b].checksum = batch[b].checksum
    /\ staged[b] # <<>> => staged'[b] # <<>> /\ Verdict(b)' = Verdict(b)
    /\ Codes(b) \subseteq Codes(b)'

(* The rows of a content are rows of its accounts.                         *)
LEMMA RowsOfContents ==
  ASSUME NEW c \in LandedContents, NEW rows, rows = RowsOf[c]
  PROVE  /\ rows \in Seq(Range(rows)) /\ Len(rows) \in Nat /\ DOMAIN rows = 1..Len(rows)
         /\ \A i \in DOMAIN rows : /\ rows[i] \in Range(rows) /\ rows[i].account \in Accounts
                                   /\ rows[i].customer \in Customers
                                   /\ rows[i].opened \in Int /\ rows[i].business \in Int
                                   /\ rows[i].value \in Int
<1>1. rows \in Seq(Range(rows)) /\ \A row \in Range(rows) : {row.opened, row.business, row.value, row.balance} \subseteq Int
  BY IngestionAssumption
<1>2. Len(rows) \in Nat /\ DOMAIN rows = 1..Len(rows)
  BY <1>1
<1>3. \A i \in DOMAIN rows : rows[i] \in Range(rows)
  BY DEF Range
<1>4. \A row \in Range(rows) : row.account \in Accounts /\ row.customer \in Customers
  BY DEF Accounts, Customers
<1> QED
  BY <1>1, <1>2, <1>3, <1>4

(* The rows that are staged for a batch.                                   *)
LEMMA StagedRowsAre ==
  ASSUME NEW b \in BatchIds, NEW rows, StagedAs(b, rows)
  PROVE  /\ rows \in Seq(Range(rows)) /\ Len(rows) \in Nat /\ DOMAIN rows = 1..Len(rows)
         /\ Len(staged[b]) = Len(rows) /\ DOMAIN staged[b] = 1..Len(rows)
         /\ staged[b] = <<>> <=> rows = <<>>
         /\ \A i \in 1..Len(rows) : staged[b][i].row = rows[i] /\ rows[i] \in Range(rows)
<1>1. PICK c \in LandedContents : rows = RowsOf[c]
  BY DEF StagedAs
<1>2. rows \in Seq(Range(rows)) /\ Len(rows) \in Nat /\ DOMAIN rows = 1..Len(rows)
      /\ \A i \in DOMAIN rows : rows[i] \in Range(rows)
  BY <1>1, RowsOfContents
<1>3. PICK s : s = staged[b]
  OBVIOUS
<1>4. /\ s \in Seq([row : Range(rows), token : BOOLEAN, clear : BOOLEAN]) /\ Len(s) = Len(rows)
      /\ \A i \in 1..Len(rows) : s[i].row = rows[i]
  BY <1>3 DEF StagedAs
<1>5. DOMAIN s = 1..Len(rows) /\ (s = <<>> <=> rows = <<>>)
  BY <1>2, <1>4
<1>6. Range(s) = {s[i] : i \in 1..Len(rows)}
  BY <1>5 DEF Range
<1> QED
  BY <1>2, <1>3, <1>4, <1>5, <1>6

(* The lasting controls read the rows and what was registered.             *)
LEMMA VerdictKept ==
  ASSUME NEW b \in BatchIds, NEW rows, StagedAs(b, rows), StagedAs(b, rows)',
         batch'[b].key = batch[b].key, batch'[b].rowCount = batch[b].rowCount,
         batch'[b].total = batch[b].total
  PROVE  Verdict(b)' = Verdict(b)
<1>1. PICK s, t : s = staged[b] /\ t = staged'[b]
  OBVIOUS
<1>2. /\ Len(rows) \in Nat /\ Len(s) = Len(rows) /\ DOMAIN s = 1..Len(rows)
      /\ Range(s) = {s[i] : i \in 1..Len(rows)}
      /\ s = <<>> <=> rows = <<>>
      /\ \A i \in 1..Len(rows) : s[i].row = rows[i]
  <2>1. /\ Len(rows) \in Nat /\ Len(staged[b]) = Len(rows) /\ DOMAIN staged[b] = 1..Len(rows)
        /\ \A i \in 1..Len(rows) : staged[b][i].row = rows[i]
        /\ staged[b] = <<>> <=> rows = <<>>
    BY StagedRowsAre
  <2>2. Range(staged[b]) = {staged[b][i] : i \in 1..Len(rows)}
    BY <2>1 DEF Range
  <2> QED
    BY <1>1, <2>1, <2>2
<1>3. /\ Len(t) = Len(rows) /\ DOMAIN t = 1..Len(rows) /\ \A i \in 1..Len(rows) : t[i].row = rows[i]
      /\ t = <<>> <=> rows = <<>>
  <2>1. /\ t \in Seq([row : Range(rows), token : BOOLEAN, clear : BOOLEAN])
        /\ Len(t) = Len(rows) /\ \A i \in 1..Len(rows) : t[i].row = rows[i]
    BY <1>1 DEF StagedAs
  <2>2. rows \in Seq(Range(rows))
    BY StagedRowsAre
  <2> QED
    BY <2>1, <2>2
<1>4. Range(t) = {t[i] : i \in 1..Len(rows)}
  BY <1>3 DEF Range
<1>5. StagedTotal(b)' = StagedTotal(b)
  <2>1. [i \in DOMAIN t |-> t[i].row.balance] = [i \in DOMAIN s |-> s[i].row.balance]
    BY <1>2, <1>3
  <2> QED
    BY <1>1, <2>1 DEF StagedTotal
<1>6. BatchFails(b)' = BatchFails(b)
  <2>1. (Len(t) # batch'[b].rowCount) <=> (Len(s) # batch[b].rowCount)
    BY <1>2, <1>3
  <2>2. t = <<>> <=> s = <<>>
    BY <1>2, <1>3
  <2>3. (StagedTotal(b)' # batch'[b].total) <=> (StagedTotal(b) # batch[b].total)
    BY <1>5
  <2> QED
    BY <1>1, <2>1, <2>2, <2>3 DEF BatchFails
<1>7. ASSUME NEW row, NEW date, NEW code, Lasting(code)
      PROVE  code \in RowFails(row, date)' <=> code \in RowFails(row, date)
  BY <1>7 DEF RowFails, Lasting
<1>8. PICK date : date = BusinessDate[batch[b].key]
  OBVIOUS
<1>9. ASSUME NEW code, Lasting(code)
      PROVE  (\E x \in Range(t) : code \in RowFails(x.row, date)')
               <=> \E x \in Range(s) : code \in RowFails(x.row, date)
  <2>1. (\E x \in Range(t) : code \in RowFails(x.row, date)')
          <=> \E i \in 1..Len(rows) : code \in RowFails(rows[i], date)'
    BY <1>3, <1>4
  <2>2. (\E x \in Range(s) : code \in RowFails(x.row, date))
          <=> \E i \in 1..Len(rows) : code \in RowFails(rows[i], date)
    BY <1>2
  <2> QED
    BY <1>7, <1>9, <2>1, <2>2
<1>10. \A code : code \in Verdict(b) <=>
          Lasting(code) /\ (code \in BatchFails(b) \/ \E x \in Range(s) : code \in RowFails(x.row, date))
  BY <1>1, <1>8 DEF Verdict, Failures
<1>11. \A code : code \in Verdict(b)' <=>
          Lasting(code) /\ (code \in BatchFails(b)' \/ \E x \in Range(t) : code \in RowFails(x.row, date)')
  BY <1>1, <1>8 DEF Verdict, Failures, Lasting
<1>12. \A code : code \in Verdict(b)' <=> code \in Verdict(b)
  BY <1>6, <1>9, <1>10, <1>11
<1> QED
  BY <1>12

(* A worker's knowledge outlives the steps of the others.                  *)
LEMMA WorkerKept ==
  ASSUME BatchesKept, NEW x \in WorkerStates, WorkerIsSound(x)
  PROVE  WorkerIsSound(x)'
<1>1. CASE x.at = "idle"
  BY <1>1 DEF WorkerIsSound
<1>2. CASE x.at # "idle"
  <2>1. x.batch \in BatchIds
    BY <1>2 DEF WorkerStates, Resting, AfterStaging
  <2>2. PICK b \in BatchIds : b = x.batch
    BY <2>1
  <2>3. /\ batch[b].state # "NONE" /\ batch[b].key = x.manifest.key /\ batch[b].checksum = x.manifest.checksum
        /\ x.at = "stage" => x.content = x.manifest.checksum /\ x.content \notin Infected
        /\ x.at \in AfterStaging => staged[b] # <<>>
        /\ x.at = "quarantine" => x.failures # {} /\ Verdict(b) = {code \in x.failures : Lasting(code)}
        /\ x.at = "decide" => /\ x.failures = {} => Verdict(b) = {}
                              /\ \A code \in x.failures : Lasting(code) => code \in Codes(b)
    BY <1>2, <2>2 DEF WorkerIsSound
  <2>4. /\ batch'[b].state # "NONE"
        /\ batch'[b].key = batch[b].key /\ batch'[b].checksum = batch[b].checksum
        /\ staged[b] # <<>> => staged'[b] # <<>> /\ Verdict(b)' = Verdict(b)
        /\ Codes(b) \subseteq Codes(b)'
    BY <2>3 DEF BatchesKept
  <2>5. /\ batch'[b].state # "NONE" /\ batch'[b].key = x.manifest.key /\ batch'[b].checksum = x.manifest.checksum
        /\ x.at = "stage" => x.content = x.manifest.checksum /\ x.content \notin Infected
        /\ x.at \in AfterStaging => staged'[b] # <<>>
    BY <2>3, <2>4
  <2>6. x.at = "quarantine" => x.failures # {} /\ Verdict(b)' = {code \in x.failures : Lasting(code)}
    BY <2>3, <2>4 DEF AfterStaging
  <2>7. x.at = "decide" => /\ x.failures = {} => Verdict(b)' = {}
                           /\ \A code \in x.failures : Lasting(code) => code \in Codes(b)'
    BY <2>3, <2>4 DEF AfterStaging
  <2>8. \A code : Lasting(code)' = Lasting(code)
    BY DEF Lasting
  <2> QED
    BY <2>2, <2>5, <2>6, <2>7, <2>8 DEF WorkerIsSound
<1> QED
  BY <1>1, <1>2

(* So do the others when one worker moves.                                 *)
LEMMA WorkersKept ==
  ASSUME WorkersAreSound, BatchesKept, NEW w \in Workers, NEW y \in WorkerStates,
         worker' = [worker EXCEPT ![w] = y], WorkerIsSound(y)'
  PROVE  WorkersAreSound'
<1>1. worker' \in [Workers -> WorkerStates]
  BY DEF WorkersAreSound
<1>2. ASSUME NEW v \in Workers PROVE WorkerIsSound(worker[v])'
  <2>1. CASE v = w
    <3>1. worker'[v] = y
      BY <2>1 DEF WorkersAreSound
    <3> QED
      BY <3>1 DEF WorkerIsSound
  <2>2. CASE v # w
    <3>1. PICK x \in WorkerStates : x = worker[v]
      BY DEF WorkersAreSound
    <3>2. worker'[v] = x /\ WorkerIsSound(x)
      BY <2>2, <3>1 DEF WorkersAreSound
    <3>3. WorkerIsSound(x)'
      BY <3>2, WorkerKept
    <3> QED
      BY <3>2, <3>3 DEF WorkerIsSound
  <2> QED
    BY <2>1, <2>2
<1> QED
  BY <1>1, <1>2 DEF WorkersAreSound

(* The fields that a worker has at each step.                              *)
LEMMA WorkerIs ==
  ASSUME WorkersAreSound, NEW w \in Workers, NEW x, x = worker[w], x.at # "idle"
  PROVE  /\ x \in WorkerStates /\ WorkerIsSound(x)
         /\ x.manifest \in Manifests /\ x.batch \in BatchIds /\ x.manifest.batch \in BatchIds
         /\ x.at \in {"scan", "stage"} => x.content \in LandedContents
         /\ x.at \in {"quarantine", "decide"} => x.failures \in SUBSET BatchReasons
         /\ x.at = "publish" => x.references \in SUBSET Customers
<1>1. x \in WorkerStates /\ WorkerIsSound(x)
  BY DEF WorkersAreSound
<1>2. /\ x.manifest \in Manifests /\ x.batch \in BatchIds
      /\ x.at \in {"scan", "stage"} => x.content \in LandedContents
      /\ x.at \in {"quarantine", "decide"} => x.failures \in SUBSET BatchReasons
      /\ x.at = "publish" => x.references \in SUBSET Customers
  BY <1>1 DEF WorkerStates, Resting
<1>3. x.manifest.batch \in BatchIds
  BY <1>2 DEF BatchIds
<1> QED
  BY <1>1, <1>2, <1>3

(* A registered batch has the fields of one.                               *)
LEMMA RegisteredIs ==
  ASSUME BatchTablesAreTyped, NEW b \in BatchIds, batch[b].state # "NONE"
  PROVE  batch[b] \in BatchRows
BY DEF BatchTablesAreTyped, Unregistered

(* A worker that ends its handling.                                        *)
LEMMA WorkerEnds ==
  ASSUME WorkersAreSound, BatchesKept, NEW w \in Workers, worker' = Ended(w)
  PROVE  WorkersAreSound'
<1>1. Resting \in WorkerStates
  BY DEF WorkerStates
<1>2. WorkerIsSound(Resting)'
  BY DEF WorkerIsSound, Resting
<1> QED
  BY <1>1, <1>2, WorkersKept DEF Ended

(* A signed manifest stays one.                                            *)
LEMMA SignedKept ==
  ASSUME BatchesKept, NEW b, HasSigned(b)
  PROVE  HasSigned(b)'
<1>1. PICK m \in Manifests, c \in BatchIds :
        /\ m.batch = b /\ Authentic(m) /\ batch[c].state # "NONE" /\ batch[c].key = m.key
        /\ batch[c].checksum = m.checksum
  BY DEF HasSigned, WithKey
<1>2. batch'[c].state # "NONE" /\ batch'[c].key = m.key /\ batch'[c].checksum = m.checksum
  BY <1>1 DEF BatchesKept
<1>3. c \in WithKey(m)'
  BY <1>2 DEF WithKey
<1> QED
  BY <1>1, <1>2, <1>3 DEF HasSigned, Authentic, InsideWindow

(* A verdict stands while the rows do, whatever products are published.    *)
LEMMA VerdictStands ==
  ASSUME RowsAreDelivered, NEW b \in BatchIds, staged[b] # <<>>, staged'[b] = staged[b],
         batch'[b].state # "NONE", batch'[b].key = batch[b].key, batch'[b].checksum = batch[b].checksum,
         batch'[b].rowCount = batch[b].rowCount, batch'[b].total = batch[b].total
  PROVE  Verdict(b)' = Verdict(b)
<1>1. PICK rows : StagedAs(b, rows)
  BY DEF RowsAreDelivered
<1>2. StagedAs(b, rows)'
  BY <1>1 DEF StagedAs, Repeated
<1> QED
  BY <1>1, <1>2, VerdictKept

(* Steps that write the state and the reason of one batch.                 *)
Rewritten(b, next, reason) ==
  /\ batch' = Moved(b, next, reason)
  /\ next \in States \ {"NONE", "PUBLISHED"} /\ reason \in SUBSET BatchReasons
  /\ batch[b].state \notin {"NONE", "PUBLISHED"}
  /\ next \in {"AUTHENTICATED", "SCANNED", "VALIDATED"} => HasSigned(b)
  /\ next \in {"SCANNED", "VALIDATED"} => batch[b].checksum \notin Infected
  /\ next = "VALIDATED" => staged[b] # <<>> /\ Verdict(b) = {}
  /\ next # "STAGED"
  /\ \A code \in reason \ {"NOT_AUTHENTIC", "NOT_CLEAN"} : Lasting(code) => code \in Codes(b)

(* Such a step keeps what the tables hold.                                 *)
LEMMA BatchRewritten ==
  ASSUME BatchTablesAreSound, NEW b \in BatchIds, NEW next, NEW reason,
         Rewritten(b, next, reason),
         UNCHANGED <<staged, issues, account, snapshots, events, landing, published>>
  PROVE  BatchTablesAreSound' /\ BatchesKept
<1>1. /\ BatchTablesAreTyped /\ ReplayKeysAreUnique /\ StatesAreEarned /\ RowsAreDelivered /\ IssuesAreRight
      /\ ReasonsAreKept /\ PublicationIsWhole
  BY DEF BatchTablesAreSound
<1>2. batch[b] \in BatchRows
  BY <1>1, RegisteredIs DEF Rewritten
<1>3. /\ batch' \in [BatchIds -> BatchRows \cup {Unregistered}]
      /\ batch'[b].state = next /\ batch'[b].reason = reason
      /\ batch'[b].key = batch[b].key /\ batch'[b].checksum = batch[b].checksum
      /\ batch'[b].rowCount = batch[b].rowCount /\ batch'[b].total = batch[b].total
      /\ \A c \in BatchIds \ {b} : batch'[c] = batch[c]
  <2>1. PICK r : r = batch[b]
    OBVIOUS
  <2>2. PICK q : q = [[r EXCEPT !.state = next] EXCEPT !.reason = reason]
    OBVIOUS
  <2>3. r \in BatchRows /\ next \in States \ {"NONE"} /\ reason \in SUBSET BatchReasons
    BY <1>2, <2>1 DEF Rewritten
  <2>4. /\ q \in BatchRows /\ q.state = next /\ q.reason = reason /\ q.key = r.key
        /\ q.checksum = r.checksum /\ q.rowCount = r.rowCount /\ q.total = r.total
    BY <2>2, <2>3 DEF BatchRows
  <2>5. batch' = [batch EXCEPT ![b] = q]
    BY <1>1, <2>1, <2>2 DEF Rewritten, Moved, BatchTablesAreTyped
  <2> QED
    BY <1>1, <2>1, <2>4, <2>5 DEF BatchTablesAreTyped
<1>4. batch[b].state # "NONE" /\ next # "NONE" /\ batch[b].state # "PUBLISHED" /\ next # "PUBLISHED"
  BY DEF Rewritten
<1>5. ASSUME NEW c \in BatchIds, staged[c] # <<>>
      PROVE  Verdict(c)' = Verdict(c)
  <2>1. batch[c].state # "NONE"
    BY <1>1, <1>5 DEF RowsAreDelivered, StagedAs
  <2>2. /\ batch'[c].state # "NONE" /\ batch'[c].key = batch[c].key /\ batch'[c].checksum = batch[c].checksum
        /\ batch'[c].rowCount = batch[c].rowCount /\ batch'[c].total = batch[c].total
    BY <1>3, <1>4, <2>1
  <2> QED
    BY <1>1, <1>5, <2>2, VerdictStands
<1>6. \A c \in BatchIds : Codes(c)' = Codes(c)
  BY DEF Codes
<1>7. BatchesKept
  BY <1>3, <1>4, <1>5, <1>6 DEF BatchesKept
<1>8. BatchTablesAreTyped'
  BY <1>1, <1>3 DEF BatchTablesAreTyped
<1>9. ReplayKeysAreUnique'
  BY <1>1, <1>3, <1>4 DEF ReplayKeysAreUnique
<1>10. StatesAreEarned'
  <2>1. ASSUME NEW c \in BatchIds
        PROVE  /\ batch'[c].state \in {"AUTHENTICATED", "SCANNED", "STAGED", "VALIDATED", "PUBLISHED"} => HasSigned(c)
               /\ batch'[c].state \in {"SCANNED", "STAGED", "VALIDATED", "PUBLISHED"}
                    => batch'[c].checksum \notin Infected
               /\ batch'[c].state \in {"STAGED", "VALIDATED", "PUBLISHED"} => staged[c] # <<>>
    BY <1>1, <1>3 DEF Rewritten, StatesAreEarned
  <2>2. \A c \in BatchIds : HasSigned(c) => HasSigned(c)'
    BY <1>7, SignedKept
  <2> QED
    BY <2>1, <2>2 DEF StatesAreEarned
<1>11. RowsAreDelivered'
  <2>1. ASSUME NEW c \in BatchIds, NEW rows, StagedAs(c, rows)
        PROVE  StagedAs(c, rows)'
    <3>1. batch'[c].state # "NONE" /\ batch'[c].checksum = batch[c].checksum
      BY <1>3, <1>4, <2>1 DEF StagedAs
    <3> QED
      BY <2>1, <3>1 DEF StagedAs, Repeated
  <2> QED
    BY <1>1, <2>1 DEF RowsAreDelivered
<1>12. IssuesAreRight'
  <2>1. \A c \in BatchIds : batch'[c].state \in {"VALIDATED", "PUBLISHED"} => staged[c] # <<>> /\ Verdict(c) = {}
    BY <1>1, <1>3 DEF Rewritten, IssuesAreRight, StatesAreEarned
  <2> QED
    BY <1>1, <1>5, <2>1 DEF IssuesAreRight, Lasting
<1>13. ReasonsAreKept'
  <2>1. ASSUME NEW c \in BatchIds, NEW code \in batch'[c].reason \ {"NOT_AUTHENTIC", "NOT_CLEAN"}, Lasting(code)
        PROVE  code \in Codes(c)
    BY <1>1, <1>3, <2>1 DEF Rewritten, ReasonsAreKept
  <2> QED
    BY <1>6, <2>1 DEF ReasonsAreKept, Lasting
<1>14. PublicationIsWhole'
  <2>1. \A c \in BatchIds : batch'[c].state = "PUBLISHED" <=> batch[c].state = "PUBLISHED"
    BY <1>3, <1>4
  <2> QED
    BY <1>1, <2>1 DEF PublicationIsWhole, Snapshot, Attributes
<1> QED
  BY <1>7, <1>8, <1>9, <1>10, <1>11, <1>12, <1>13, <1>14 DEF BatchTablesAreSound

(* Steps that write no table, but for issues that a verdict explains.       *)
LEMMA TablesStand ==
  ASSUME BatchTablesAreSound, UNCHANGED <<batch, staged, account, snapshots, events>>,
         landing' \in [Objects -> LandedContents], issues \subseteq issues',
         \A x \in issues' \ issues :
           /\ x = <<x[1], x[2], x[3]>>
           /\ Lasting(x[3]) => x[1] \in BatchIds /\ staged[x[1]] # <<>> /\ x[3] \in Verdict(x[1])
  PROVE  BatchTablesAreSound' /\ BatchesKept
<1>1. /\ BatchTablesAreTyped /\ ReplayKeysAreUnique /\ StatesAreEarned /\ RowsAreDelivered /\ IssuesAreRight
      /\ ReasonsAreKept /\ PublicationIsWhole
  BY DEF BatchTablesAreSound
<1>2. \A c \in BatchIds : staged[c] # <<>> => batch[c].state # "NONE"
  BY <1>1 DEF RowsAreDelivered, StagedAs
<1>3. \A c \in BatchIds : staged[c] # <<>> => Verdict(c)' = Verdict(c)
  BY <1>1, <1>2, VerdictStands
<1>4. \A c \in BatchIds : Codes(c) \subseteq Codes(c)'
  BY DEF Codes
<1>5. BatchesKept
  BY <1>3, <1>4 DEF BatchesKept
<1>6. BatchTablesAreTyped' /\ ReplayKeysAreUnique'
  BY <1>1 DEF BatchTablesAreTyped, ReplayKeysAreUnique
<1>7. StatesAreEarned'
  BY <1>1, <1>5, SignedKept DEF StatesAreEarned
<1>8. RowsAreDelivered'
  <2>1. \A c, rows : StagedAs(c, rows) => StagedAs(c, rows)'
    BY DEF StagedAs, Repeated
  <2> QED
    BY <1>1, <2>1 DEF RowsAreDelivered
<1>9. IssuesAreRight'
  <2>1. \A x \in issues' : /\ x = <<x[1], x[2], x[3]>>
                            /\ Lasting(x[3]) => x[1] \in BatchIds /\ staged[x[1]] # <<>> /\ x[3] \in Verdict(x[1])
    BY <1>1 DEF IssuesAreRight
  <2> QED
    BY <1>1, <1>3, <2>1 DEF IssuesAreRight, Lasting, StatesAreEarned
<1>10. ReasonsAreKept'
  BY <1>1, <1>4 DEF ReasonsAreKept, Lasting
<1>11. PublicationIsWhole'
  BY <1>1 DEF PublicationIsWhole, Snapshot, Attributes
<1> QED
  BY <1>5, <1>6, <1>7, <1>8, <1>9, <1>10, <1>11 DEF BatchTablesAreSound

(* A step of a worker that writes no table.                                *)
LEMMA OnlyWorker ==
  ASSUME IngestionInv, NEW w \in Workers, NEW y \in WorkerStates, worker' = [worker EXCEPT ![w] = y],
         UNCHANGED <<batch, staged, issues, account, snapshots, events, landing, published>>,
         BatchesKept => WorkerIsSound(y)'
  PROVE  IngestionInv'
<1>1. BatchTablesAreSound /\ WorkersAreSound
  BY DEF IngestionInv
<1>2. landing' \in [Objects -> LandedContents]
  BY <1>1 DEF BatchTablesAreSound, BatchTablesAreTyped
<1>3. BatchTablesAreSound' /\ BatchesKept
  BY <1>1, <1>2, TablesStand
<1>4. WorkerIsSound(y)'
  BY <1>3
<1>5. WorkersAreSound'
  BY <1>1, <1>3, <1>4, WorkersKept
<1> QED
  BY <1>3, <1>5 DEF IngestionInv

(* A handling that ends.                                                   *)
LEMMA OnlyEnds ==
  ASSUME IngestionInv, NEW w \in Workers, worker' = Ended(w),
         UNCHANGED <<batch, staged, issues, account, snapshots, events, landing, published>>
  PROVE  IngestionInv'
<1>1. Resting \in WorkerStates
  BY DEF WorkerStates
<1>2. WorkerIsSound(Resting)'
  BY DEF WorkerIsSound, Resting
<1> QED
  BY <1>1, <1>2, OnlyWorker DEF Ended

(* A worker that goes on after a step that kept what it knows.             *)
LEMMA SoundNext ==
  ASSUME BatchesKept, NEW x \in WorkerStates, x.at # "idle", WorkerIsSound(x), NEW y,
         y.at # "idle", y.batch = x.batch, y.manifest = x.manifest,
         y.at = "stage" => y.content = y.manifest.checksum /\ y.content \notin Infected,
         y.at \in AfterStaging => x.at \in AfterStaging \/ staged'[x.batch] # <<>>,
         y.at = "quarantine" => y.failures # {} /\ Verdict(x.batch)' = {code \in y.failures : Lasting(code)},
         y.at = "decide" => /\ y.failures = {} => Verdict(x.batch)' = {}
                            /\ \A code \in y.failures : Lasting(code) => code \in Codes(x.batch)'
  PROVE  WorkerIsSound(y)'
<1>1. PICK b : b = x.batch
  OBVIOUS
<1>2. b \in BatchIds
  BY <1>1 DEF WorkerStates, Resting
<1>3. /\ batch[b].state # "NONE" /\ batch[b].key = x.manifest.key /\ batch[b].checksum = x.manifest.checksum
      /\ x.at \in AfterStaging => staged[b] # <<>>
  BY <1>1 DEF WorkerIsSound
<1>4. /\ batch'[b].state # "NONE" /\ batch'[b].key = y.manifest.key /\ batch'[b].checksum = y.manifest.checksum
      /\ y.at \in AfterStaging => staged'[b] # <<>>
  BY <1>1, <1>2, <1>3 DEF BatchesKept
<1>5. y.batch = b
  BY <1>1
<1>6. y.at = "quarantine" => y.failures # {} /\ Verdict(b)' = {code \in y.failures : Lasting(code)}
  BY <1>1
<1>7. y.at = "decide" => /\ y.failures = {} => Verdict(b)' = {}
                         /\ \A code \in y.failures : Lasting(code) => code \in Codes(b)'
  BY <1>1
<1>8. \A code : Lasting(code)' = Lasting(code)
  BY DEF Lasting
<1> QED
  BY <1>4, <1>5, <1>6, <1>7, <1>8 DEF WorkerIsSound

(* Reading the object from landing.                                        *)
LEMMA LoadKeeps ==
  ASSUME IngestionInv, NEW w \in Workers, Load(w)
  PROVE  IngestionInv'
<1>1. PICK x, y : /\ x = worker[w] /\ x.at = "load"
                  /\ y = [at |-> "scan", manifest |-> x.manifest, batch |-> x.batch,
                          content |-> landing[x.manifest.object]]
  BY DEF Load
<1>2. worker' = [worker EXCEPT ![w] = y]
  BY <1>1 DEF Load
<1>3. x \in WorkerStates /\ WorkerIsSound(x) /\ x.manifest \in Manifests /\ x.batch \in BatchIds
  BY <1>1, WorkerIs DEF IngestionInv
<1>4. landing[x.manifest.object] \in LandedContents
  BY <1>3 DEF IngestionInv, BatchTablesAreSound, BatchTablesAreTyped, Objects
<1>5. y \in WorkerStates
  BY <1>1, <1>3, <1>4 DEF WorkerStates
<1>6. BatchesKept => WorkerIsSound(y)'
  BY <1>1, <1>3, SoundNext DEF AfterStaging
<1> QED
  BY <1>2, <1>5, <1>6, OnlyWorker DEF Load

(* The replay of a published batch.                                        *)
LEMMA CheckPublishedKeeps ==
  ASSUME IngestionInv, NEW w \in Workers, CheckPublished(w)
  PROVE  IngestionInv'
<1>1. CASE worker' = Ended(w)
  BY <1>1, OnlyEnds DEF CheckPublished
<1>2. CASE worker' = Goto(w, "references")
  <2>1. PICK x, y : x = worker[w] /\ x.at = "check" /\ y = [x EXCEPT !.at = "references"]
    BY DEF CheckPublished
  <2>2. x \in WorkerStates /\ WorkerIsSound(x)
    BY <2>1, WorkerIs DEF IngestionInv
  <2>3. y \in WorkerStates /\ y.at = "references" /\ y.batch = x.batch /\ y.manifest = x.manifest
    BY <2>1, <2>2 DEF WorkerStates, Resting, AfterStaging
  <2>4. worker' = [worker EXCEPT ![w] = y]
    BY <1>2, <2>1 DEF Goto, IngestionInv, WorkersAreSound
  <2>5. BatchesKept => WorkerIsSound(y)'
    BY <2>1, <2>2, <2>3, SoundNext DEF AfterStaging
  <2> QED
    BY <2>3, <2>4, <2>5, OnlyWorker DEF CheckPublished
<1> QED
  BY <1>1, <1>2 DEF CheckPublished

(* Reading the token references.                                           *)
LEMMA ReadReferencesKeeps ==
  ASSUME IngestionInv, NEW w \in Workers, ReadReferences(w)
  PROVE  IngestionInv'
<1>1. PICK x : x = worker[w] /\ x.at = "references"
  BY DEF ReadReferences
<1>2. PICK y : y = [at |-> "publish", manifest |-> x.manifest, batch |-> x.batch,
                    references |-> {s.row.customer : s \in {t \in Range(staged[x.batch]) : t.clear}}]
  OBVIOUS
<1>3. worker' = [worker EXCEPT ![w] = y]
  BY <1>1, <1>2 DEF ReadReferences
<1>4. x \in WorkerStates /\ WorkerIsSound(x) /\ x.manifest \in Manifests /\ x.batch \in BatchIds
  BY <1>1, WorkerIs DEF IngestionInv
<1>5. y.references \in SUBSET Customers
  <2>1. PICK b \in BatchIds : b = x.batch
    BY <1>4
  <2>2. staged[b] # <<>>
    BY <1>1, <1>4, <2>1 DEF WorkerIsSound, AfterStaging
  <2>3. PICK rows : StagedAs(b, rows)
    BY <2>2 DEF IngestionInv, BatchTablesAreSound, RowsAreDelivered
  <2>4. DOMAIN staged[b] = 1..Len(rows) /\ \A i \in 1..Len(rows) : staged[b][i].row = rows[i]
    BY <2>3, StagedRowsAre
  <2>5. \A i \in 1..Len(rows) : rows[i].customer \in Customers
    BY <2>3, StagedRowsAre, RowsOfContents DEF StagedAs
  <2>6. \A s \in Range(staged[b]) : s.row.customer \in Customers
    BY <2>4, <2>5 DEF Range
  <2> QED
    BY <1>2, <2>1, <2>6
<1>6. y \in WorkerStates
  BY <1>2, <1>4, <1>5 DEF WorkerStates
<1>7. BatchesKept => WorkerIsSound(y)'
  BY <1>1, <1>2, <1>4, SoundNext DEF AfterStaging
<1> QED
  BY <1>3, <1>6, <1>7, OnlyWorker DEF ReadReferences

(* Reading the staged rows for the controls.                               *)
LEMMA InspectKeeps ==
  ASSUME IngestionInv, NEW w \in Workers, Inspect(w)
  PROVE  IngestionInv'
<1>1. PICK x, b, f : /\ x = worker[w] /\ x.at = "inspect" /\ b = x.batch
                     /\ f = Failures(b, BusinessDate[x.manifest.key])
  BY DEF Inspect
<1>2. PICK y : y = [at |-> IF f = {} THEN "decide" ELSE "quarantine", manifest |-> x.manifest,
                    batch |-> b, failures |-> f]
  OBVIOUS
<1>3. worker' = [worker EXCEPT ![w] = y]
  BY <1>1, <1>2 DEF Inspect
<1>4. x \in WorkerStates /\ WorkerIsSound(x) /\ x.manifest \in Manifests /\ b \in BatchIds
  BY <1>1, WorkerIs DEF IngestionInv
<1>5. f \in SUBSET BatchReasons
  BY <1>1 DEF Failures, BatchFails, RowFails, BatchReasons
<1>6. staged[b] # <<>> /\ batch[b].state # "NONE" /\ batch[b].key = x.manifest.key
  BY <1>1, <1>4 DEF WorkerIsSound, AfterStaging
<1>7. Verdict(b) = {code \in f : Lasting(code)}
  BY <1>1, <1>6 DEF Verdict
<1>8. BatchesKept => Verdict(b)' = Verdict(b)
  BY <1>4, <1>6 DEF BatchesKept
<1>9. y \in WorkerStates
  BY <1>1, <1>2, <1>4, <1>5 DEF WorkerStates
<1>10. y.at # "idle" /\ y.at # "stage" /\ y.batch = b /\ y.manifest = x.manifest /\ y.failures = f
       /\ (y.at = "quarantine" => f # {}) /\ (y.at = "decide" => f = {})
  BY <1>2
<1>11. BatchesKept => WorkerIsSound(y)'
  BY <1>1, <1>4, <1>7, <1>8, <1>10, SoundNext DEF AfterStaging
<1> QED
  BY <1>3, <1>9, <1>11, OnlyWorker DEF Inspect

(* Receiving a manifest under a replay key that is known.                  *)
LEMMA RegisterReplayKeeps ==
  ASSUME IngestionInv, NEW w \in Workers, NEW m \in Manifests, RegisterReplay(w, m)
  PROVE  IngestionInv'
<1>1. PICK b \in WithKey(m) : /\ batch[b].checksum = m.checksum
                              /\ batch[b].state \notin Terminal
                              /\ Proceed(w, m, b, batch[b].state)
  BY DEF RegisterReplay
<1>2. b \in BatchIds /\ batch[b].state # "NONE" /\ batch[b].key = m.key
  BY <1>1 DEF WithKey
<1>3. PICK state : state = batch[b].state
  OBVIOUS
<1>4. PICK y : y = [at |-> IF state = "RECEIVED" THEN "authenticate"
                           ELSE IF state \in {"AUTHENTICATED", "SCANNED"} THEN "load"
                           ELSE IF m.flow # "INVESTMENT_POSITIONS" THEN "idle"
                           ELSE IF state = "STAGED" THEN "inspect"
                           ELSE IF state = "VALIDATED" THEN "check" ELSE "idle",
                    manifest |-> m, batch |-> b]
  OBVIOUS
<1>5. worker' = [worker EXCEPT ![w] = y]
  BY <1>1, <1>3, <1>4 DEF Proceed
<1>6. /\ y.at \in {"idle", "authenticate", "load", "inspect", "check"} /\ y.manifest = m /\ y.batch = b
      /\ y.at \in {"inspect", "check"} => state \in {"STAGED", "VALIDATED"}
  BY <1>4
<1>7. y \in WorkerStates
  BY <1>2, <1>4 DEF WorkerStates
<1>8. y.at \in AfterStaging => staged[b] # <<>>
  BY <1>2, <1>3, <1>6 DEF AfterStaging, IngestionInv, BatchTablesAreSound, StatesAreEarned
<1>9. WorkerIsSound(y)
  BY <1>1, <1>2, <1>6, <1>8 DEF WorkerIsSound
<1>10. BatchesKept => WorkerIsSound(y)'
  BY <1>7, <1>9, WorkerKept
<1> QED
  BY <1>5, <1>7, <1>10, OnlyWorker DEF RegisterReplay

(* Registering a new batch.                                                *)
LEMMA RegisterNewKeeps ==
  ASSUME IngestionInv, NEW w \in Workers, NEW m \in Manifests, RegisterNew(w, m)
  PROVE  IngestionInv'
<1>1. PICK b, r : /\ b = m.batch
                  /\ r = [state |-> "RECEIVED", reason |-> {}, key |-> m.key, checksum |-> m.checksum,
                          object |-> m.object, rowCount |-> m.rowCount, total |-> m.total]
  OBVIOUS
<1>2. /\ BatchTablesAreTyped /\ ReplayKeysAreUnique /\ StatesAreEarned /\ RowsAreDelivered /\ IssuesAreRight
      /\ ReasonsAreKept /\ PublicationIsWhole /\ WorkersAreSound
  BY DEF IngestionInv, BatchTablesAreSound
<1>3. /\ batch[b].state = "NONE" /\ batch' = [batch EXCEPT ![b] = r] /\ WithKey(m) = {}
      /\ Proceed(w, m, b, "RECEIVED")
      /\ UNCHANGED <<staged, issues, account, snapshots, events, landing, published>>
  BY <1>1 DEF RegisterNew
<1>4. b \in BatchIds
  BY <1>1 DEF BatchIds
<1>5. r \in BatchRows /\ r.state = "RECEIVED" /\ r.reason = {} /\ r.key = m.key /\ r.checksum = m.checksum
  BY <1>1 DEF BatchRows, States, Named
<1>6. batch' \in [BatchIds -> BatchRows \cup {Unregistered}] /\ batch'[b] = r
      /\ \A c \in BatchIds \ {b} : batch'[c] = batch[c]
  BY <1>2, <1>3, <1>4, <1>5 DEF BatchTablesAreTyped
<1>7. staged[b] = <<>>
  BY <1>2, <1>3, <1>4 DEF RowsAreDelivered, StagedAs
<1>8. \A c \in BatchIds : batch[c].state # "NONE" => c # b /\ batch'[c] = batch[c] /\ batch[c].key # m.key
  BY <1>3, <1>6 DEF WithKey
<1>9. ASSUME NEW c \in BatchIds, staged[c] # <<>>
      PROVE  c # b /\ batch[c].state # "NONE" /\ batch'[c] = batch[c] /\ Verdict(c)' = Verdict(c)
  <2>1. batch[c].state # "NONE"
    BY <1>2, <1>9 DEF RowsAreDelivered, StagedAs
  <2>2. c # b /\ batch'[c] = batch[c]
    BY <1>8, <2>1
  <2> QED
    BY <1>2, <1>3, <1>9, <2>1, <2>2, VerdictStands
<1>10. \A c \in BatchIds : Codes(c)' = Codes(c)
  BY <1>3 DEF Codes
<1>11. BatchesKept
  BY <1>3, <1>8, <1>9, <1>10 DEF BatchesKept
<1>12. BatchTablesAreTyped'
  BY <1>2, <1>3, <1>6 DEF BatchTablesAreTyped
<1>13. ReplayKeysAreUnique'
  BY <1>2, <1>5, <1>6, <1>8 DEF ReplayKeysAreUnique
<1>14. StatesAreEarned'
  <2>1. ASSUME NEW c \in BatchIds
        PROVE  /\ batch'[c].state \in {"AUTHENTICATED", "SCANNED", "STAGED", "VALIDATED", "PUBLISHED"} => HasSigned(c)
               /\ batch'[c].state \in {"SCANNED", "STAGED", "VALIDATED", "PUBLISHED"}
                    => batch'[c].checksum \notin Infected
               /\ batch'[c].state \in {"STAGED", "VALIDATED", "PUBLISHED"} => staged[c] # <<>>
    BY <1>2, <1>5, <1>6 DEF StatesAreEarned
  <2>2. \A c \in BatchIds : HasSigned(c) => HasSigned(c)'
    BY <1>11, SignedKept
  <2> QED
    BY <1>3, <2>1, <2>2 DEF StatesAreEarned
<1>15. RowsAreDelivered'
  <2>1. ASSUME NEW c \in BatchIds, NEW rows, StagedAs(c, rows), staged[c] # <<>>
        PROVE  StagedAs(c, rows)'
    <3>1. batch'[c] = batch[c]
      BY <1>9, <2>1
    <3> QED
      BY <1>3, <2>1, <3>1 DEF StagedAs, Repeated
  <2> QED
    BY <1>2, <1>3, <2>1 DEF RowsAreDelivered
<1>16. IssuesAreRight'
  <2>1. \A c \in BatchIds : batch'[c].state \in {"VALIDATED", "PUBLISHED"} => staged[c] # <<>> /\ Verdict(c) = {}
    BY <1>2, <1>5, <1>6 DEF IssuesAreRight, StatesAreEarned
  <2> QED
    BY <1>2, <1>3, <1>9, <2>1 DEF IssuesAreRight, Lasting
<1>17. ReasonsAreKept'
  BY <1>2, <1>5, <1>6, <1>10 DEF ReasonsAreKept, Lasting
<1>18. PublicationIsWhole'
  <2>1. \A c \in BatchIds : batch'[c].state = "PUBLISHED" <=> batch[c].state = "PUBLISHED"
    BY <1>3, <1>5, <1>6
  <2> QED
    BY <1>2, <1>3, <2>1 DEF PublicationIsWhole, Snapshot, Attributes
<1>19. PICK y : y = [at |-> "authenticate", manifest |-> m, batch |-> b]
  OBVIOUS
<1>20. worker' = [worker EXCEPT ![w] = y]
  BY <1>3, <1>19 DEF Proceed
<1>21. y \in WorkerStates
  BY <1>4, <1>19 DEF WorkerStates
<1>22. WorkerIsSound(y)'
  BY <1>4, <1>5, <1>6, <1>19 DEF WorkerIsSound, AfterStaging
<1>23. WorkersAreSound'
  BY <1>2, <1>11, <1>20, <1>21, <1>22, WorkersKept
<1> QED
  BY <1>12, <1>13, <1>14, <1>15, <1>16, <1>17, <1>18, <1>23 DEF IngestionInv, BatchTablesAreSound

(* What lets a batch move to a state.                                      *)
LEMMA MoveIs ==
  ASSUME BatchTablesAreTyped, NEW b \in BatchIds, NEW expected, NEW next, CanMove(b, expected, next),
         expected # "NONE", next # "NONE", expected # "PUBLISHED", next # "PUBLISHED"
  PROVE  batch[b].state \notin {"NONE", "PUBLISHED"} /\ batch[b] \in BatchRows
BY RegisteredIs DEF CanMove

(* Writing the verdict on the signature.                                   *)
LEMMA AuthenticateKeeps ==
  ASSUME IngestionInv, NEW w \in Workers, Authenticate(w)
  PROVE  IngestionInv'
<1>1. PICK x, m, b : x = worker[w] /\ x.at = "authenticate" /\ m = x.manifest /\ b = m.batch
  BY DEF Authenticate
<1>2. PICK verdict, reason : /\ verdict = IF Authentic(m) THEN "AUTHENTICATED" ELSE "REJECTED"
                             /\ reason = IF Authentic(m) THEN {} ELSE {"NOT_AUTHENTIC"}
  OBVIOUS
<1>3. /\ x \in WorkerStates /\ WorkerIsSound(x) /\ m \in Manifests /\ b \in BatchIds /\ x.batch \in BatchIds
  BY <1>1, WorkerIs DEF IngestionInv
<1>4. UNCHANGED <<staged, issues, account, snapshots, events, landing, published>>
  BY DEF Authenticate
<1>5. CASE batch' = batch /\ worker' = Ended(w)
  BY <1>4, <1>5, OnlyEnds
<1>6. CASE /\ CanMove(b, "RECEIVED", verdict) /\ batch' = Moved(b, verdict, reason)
           /\ worker' = IF Authentic(m) THEN Goto(w, "load") ELSE Ended(w)
  <2>1. BatchTablesAreSound /\ BatchTablesAreTyped /\ WorkersAreSound
    BY DEF IngestionInv, BatchTablesAreSound
  <2>2. verdict \in {"AUTHENTICATED", "REJECTED"}
    BY <1>2
  <2>3. batch[b].state \notin {"NONE", "PUBLISHED"}
    BY <1>3, <1>6, <2>1, <2>2, MoveIs
  <2>4. verdict = "AUTHENTICATED" => HasSigned(b)
    <3>1. PICK c \in BatchIds : c = x.batch
      BY <1>3
    <3>2. batch[c].state # "NONE" /\ batch[c].key = m.key /\ batch[c].checksum = m.checksum
      BY <1>1, <1>3, <3>1 DEF WorkerIsSound
    <3>3. c \in WithKey(m)
      BY <3>2 DEF WithKey
    <3> QED
      BY <1>1, <1>2, <1>3, <3>2, <3>3 DEF HasSigned
  <2>5. Rewritten(b, verdict, reason)
    BY <1>2, <1>6, <2>2, <2>3, <2>4 DEF Rewritten, States, Terminal, BatchReasons
  <2>6. BatchTablesAreSound' /\ BatchesKept
    BY <1>3, <1>4, <2>1, <2>5, BatchRewritten
  <2>7. CASE worker' = Ended(w)
    BY <2>1, <2>6, <2>7, WorkerEnds DEF IngestionInv
  <2>8. CASE worker' = Goto(w, "load")
    <3>1. PICK y : y = [x EXCEPT !.at = "load"]
      OBVIOUS
    <3>2. y \in WorkerStates /\ y.at = "load" /\ y.batch = x.batch /\ y.manifest = x.manifest
      BY <1>1, <1>3, <3>1 DEF WorkerStates, Resting, AfterStaging
    <3>3. worker' = [worker EXCEPT ![w] = y]
      BY <1>1, <2>1, <2>8, <3>1 DEF Goto, WorkersAreSound
    <3>4. WorkerIsSound(y)'
      BY <1>1, <1>3, <2>6, <3>2, SoundNext DEF AfterStaging
    <3>5. WorkersAreSound'
      BY <2>1, <2>6, <3>2, <3>3, <3>4, WorkersKept
    <3> QED
      BY <2>6, <3>5 DEF IngestionInv
  <2> QED
    BY <1>6, <2>7, <2>8
<1> QED
  BY <1>1, <1>2, <1>5, <1>6 DEF Authenticate

(* Writing the verdict of the scan.                                        *)
LEMMA ScanKeeps ==
  ASSUME IngestionInv, NEW w \in Workers, Scan(w)
  PROVE  IngestionInv'
<1>1. PICK x, m, b : x = worker[w] /\ x.at = "scan" /\ m = x.manifest /\ b = x.batch
  BY DEF Scan
<1>2. PICK clean, next, reason : /\ clean = (x.content = m.checksum /\ x.content \notin Infected)
                                 /\ next = IF clean THEN "SCANNED" ELSE "QUARANTINED"
                                 /\ reason = IF clean THEN {} ELSE {"NOT_CLEAN"}
  OBVIOUS
<1>3. /\ x \in WorkerStates /\ WorkerIsSound(x) /\ m \in Manifests /\ b \in BatchIds
      /\ x.content \in LandedContents
  BY <1>1, WorkerIs DEF IngestionInv
<1>4. UNCHANGED <<staged, issues, account, snapshots, events, landing, published>>
  BY DEF Scan
<1>5. CASE batch' = batch /\ worker' = Ended(w)
  BY <1>4, <1>5, OnlyEnds
<1>6. CASE /\ CanMove(b, "AUTHENTICATED", next) /\ batch' = Moved(b, next, reason)
           /\ worker' = IF clean /\ m.flow = "INVESTMENT_POSITIONS" THEN Goto(w, "stage") ELSE Ended(w)
  <2>1. BatchTablesAreSound /\ BatchTablesAreTyped /\ WorkersAreSound /\ StatesAreEarned
    BY DEF IngestionInv, BatchTablesAreSound
  <2>2. next \in {"SCANNED", "QUARANTINED"} /\ (next = "SCANNED" <=> clean)
    BY <1>2
  <2>3. batch[b].state \notin {"NONE", "PUBLISHED"}
    BY <1>3, <1>6, <2>1, <2>2, MoveIs
  <2>4. batch[b].checksum = m.checksum
    BY <1>1, <1>3 DEF WorkerIsSound
  <2>5. next = "SCANNED" => HasSigned(b) /\ batch[b].checksum \notin Infected
    BY <1>2, <1>3, <1>6, <2>1, <2>2, <2>4 DEF CanMove, StatesAreEarned
  <2>6. Rewritten(b, next, reason)
    BY <1>2, <1>6, <2>2, <2>3, <2>5 DEF Rewritten, States, Terminal, BatchReasons
  <2>7. BatchTablesAreSound' /\ BatchesKept
    BY <1>3, <1>4, <2>1, <2>6, BatchRewritten
  <2>8. CASE worker' = Ended(w)
    BY <2>1, <2>7, <2>8, WorkerEnds DEF IngestionInv
  <2>9. CASE worker' = Goto(w, "stage") /\ clean
    <3>1. PICK y : y = [x EXCEPT !.at = "stage"]
      OBVIOUS
    <3>2. /\ y \in WorkerStates /\ y.at = "stage" /\ y.batch = x.batch /\ y.manifest = x.manifest
          /\ y.content = x.content
      BY <1>1, <1>3, <3>1 DEF WorkerStates, Resting, AfterStaging
    <3>3. worker' = [worker EXCEPT ![w] = y]
      BY <1>1, <2>1, <2>9, <3>1 DEF Goto, WorkersAreSound
    <3>4. WorkerIsSound(y)'
      BY <1>1, <1>2, <1>3, <2>7, <2>9, <3>2, SoundNext DEF AfterStaging
    <3>5. WorkersAreSound'
      BY <2>1, <2>7, <3>2, <3>3, <3>4, WorkersKept
    <3> QED
      BY <2>7, <3>5 DEF IngestionInv
  <2> QED
    BY <1>6, <2>8, <2>9
<1> QED
  BY <1>1, <1>2, <1>5, <1>6 DEF Scan

(* Writing the state that the controls decide.                             *)
LEMMA RecordDecisionKeeps ==
  ASSUME IngestionInv, NEW w \in Workers, RecordDecision(w)
  PROVE  IngestionInv'
<1>1. PICK x, b : x = worker[w] /\ x.at = "decide" /\ b = x.batch
  BY DEF RecordDecision
<1>2. PICK decision : decision = IF x.failures = {} THEN "VALIDATED" ELSE "REJECTED"
  OBVIOUS
<1>3. x \in WorkerStates /\ WorkerIsSound(x) /\ b \in BatchIds /\ x.failures \in SUBSET BatchReasons
  BY <1>1, WorkerIs DEF IngestionInv
<1>4. UNCHANGED <<staged, issues, account, snapshots, events, landing, published>>
  BY DEF RecordDecision
<1>5. CASE batch' = batch /\ worker' = Ended(w)
  BY <1>4, <1>5, OnlyEnds
<1>6. CASE /\ CanMove(b, "STAGED", decision) /\ batch' = Moved(b, decision, x.failures)
           /\ worker' = IF decision = "VALIDATED" THEN Goto(w, "check") ELSE Ended(w)
  <2>1. BatchTablesAreSound /\ BatchTablesAreTyped /\ WorkersAreSound /\ StatesAreEarned
    BY DEF IngestionInv, BatchTablesAreSound
  <2>2. decision \in {"VALIDATED", "REJECTED"} /\ (decision = "VALIDATED" <=> x.failures = {})
    BY <1>2
  <2>3. batch[b].state \notin {"NONE", "PUBLISHED"}
    BY <1>3, <1>6, <2>1, <2>2, MoveIs
  <2>4. /\ staged[b] # <<>> /\ (x.failures = {} => Verdict(b) = {})
        /\ \A code \in x.failures : Lasting(code) => code \in Codes(b)
    BY <1>1, <1>3 DEF WorkerIsSound, AfterStaging
  <2>5. decision = "VALIDATED" => HasSigned(b) /\ batch[b].checksum \notin Infected
    BY <1>3, <1>6, <2>1, <2>2 DEF CanMove, StatesAreEarned
  <2>6. Rewritten(b, decision, x.failures)
    BY <1>3, <1>6, <2>2, <2>3, <2>4, <2>5 DEF Rewritten, States, Terminal
  <2>7. BatchTablesAreSound' /\ BatchesKept
    BY <1>3, <1>4, <2>1, <2>6, BatchRewritten
  <2>8. CASE worker' = Ended(w)
    BY <2>1, <2>7, <2>8, WorkerEnds DEF IngestionInv
  <2>9. CASE worker' = Goto(w, "check")
    <3>1. PICK y : y = [x EXCEPT !.at = "check"]
      OBVIOUS
    <3>2. y \in WorkerStates /\ y.at = "check" /\ y.batch = x.batch /\ y.manifest = x.manifest
      BY <1>1, <1>3, <3>1 DEF WorkerStates, Resting, AfterStaging
    <3>3. worker' = [worker EXCEPT ![w] = y]
      BY <1>1, <2>1, <2>9, <3>1 DEF Goto, WorkersAreSound
    <3>4. WorkerIsSound(y)'
      BY <1>1, <1>3, <2>7, <3>2, SoundNext DEF AfterStaging
    <3>5. WorkersAreSound'
      BY <2>1, <2>7, <3>2, <3>3, <3>4, WorkersKept
    <3> QED
      BY <2>7, <3>5 DEF IngestionInv
  <2> QED
    BY <1>6, <2>8, <2>9
<1> QED
  BY <1>1, <1>2, <1>5, <1>6 DEF RecordDecision

(* What happens elsewhere: the object is replaced, a product changes.      *)
LEMMA ElsewhereKeeps ==
  ASSUME IngestionInv, UNCHANGED <<batch, staged, issues, account, snapshots, events, worker>>,
         landing' \in [Objects -> LandedContents]
  PROVE  IngestionInv'
<1>1. BatchTablesAreSound /\ WorkersAreSound
  BY DEF IngestionInv
<1>2. BatchTablesAreSound' /\ BatchesKept
  BY <1>1, TablesStand
<1>3. \A w \in Workers : worker[w] \in WorkerStates /\ WorkerIsSound(worker[w])
  BY <1>1 DEF WorkersAreSound
<1>4. ASSUME NEW w \in Workers PROVE WorkerIsSound(worker[w])'
  <2>1. PICK x \in WorkerStates : x = worker[w]
    BY <1>3
  <2>2. WorkerIsSound(x)'
    BY <1>2, <1>3, <2>1, WorkerKept
  <2> QED
    BY <2>1, <2>2 DEF WorkerIsSound
<1>5. WorkersAreSound'
  BY <1>1, <1>4 DEF WorkersAreSound
<1> QED
  BY <1>2, <1>5 DEF IngestionInv


(* The rows of one batch are rewritten, as rows of the same content, with  *)
(* a state that the batch has earned.                                      *)
RowsWritten(b, rows, t, q) ==
  /\ batch[b] \in BatchRows /\ batch' = [batch EXCEPT ![b] = q] /\ q \in BatchRows
  /\ q.key = batch[b].key /\ q.checksum = batch[b].checksum /\ q.rowCount = batch[b].rowCount
  /\ q.total = batch[b].total /\ (q.reason = batch[b].reason \/ q.reason = {})
  /\ q.state \in {"STAGED", "PUBLISHED"} /\ HasSigned(b) /\ batch[b].checksum \notin Infected
  /\ q.state = "PUBLISHED" => Verdict(b) = {} /\ staged[b] # <<>>
  /\ staged' = [staged EXCEPT ![b] = t] /\ rows # <<>>
  /\ rows = RowsOf[batch[b].checksum] /\ batch[b].checksum \in LandedContents /\ ~Repeated(rows)
  /\ t \in Seq([row : Range(rows), token : BOOLEAN, clear : BOOLEAN]) /\ Len(t) = Len(rows)
  /\ \A i \in 1..Len(rows) : t[i].row = rows[i]
  /\ UNCHANGED <<issues, landing, published>>

(* Rewriting the rows and the state of one batch in one transaction.       *)
LEMMA RowsWrittenKeep ==
  ASSUME BatchTablesAreSound, NEW b \in BatchIds, NEW rows, NEW t, NEW q, RowsWritten(b, rows, t, q),
         DOMAIN account' = Accounts, PublicationIsWhole'
  PROVE  BatchTablesAreSound' /\ BatchesKept /\ staged'[b] # <<>>
<1>1. /\ BatchTablesAreTyped /\ ReplayKeysAreUnique /\ StatesAreEarned /\ RowsAreDelivered /\ IssuesAreRight
      /\ ReasonsAreKept
  BY DEF BatchTablesAreSound
<1>2. /\ batch' \in [BatchIds -> BatchRows \cup {Unregistered}] /\ batch'[b] = q
      /\ \A c \in BatchIds \ {b} : batch'[c] = batch[c]
      /\ DOMAIN staged' = BatchIds /\ staged'[b] = t /\ \A c \in BatchIds \ {b} : staged'[c] = staged[c]
      /\ batch[b].state # "NONE" /\ q.state # "NONE"
  BY <1>1 DEF RowsWritten, BatchTablesAreTyped, BatchRows, States
<1>3. StagedAs(b, rows)' /\ staged'[b] # <<>>
  <2>1. rows \in Seq(Range(rows))
    BY RowsOfContents DEF RowsWritten
  <2>2. t # <<>>
    BY <2>1 DEF RowsWritten
  <2>3. /\ batch'[b].state # "NONE" /\ batch'[b].checksum \in LandedContents
        /\ rows = RowsOf[batch'[b].checksum] /\ ~Repeated(rows)
        /\ staged'[b] \in Seq([row : Range(rows), token : BOOLEAN, clear : BOOLEAN])
        /\ Len(staged'[b]) = Len(rows)
        /\ \A i \in 1..Len(rows) : staged'[b][i].row = rows[i]
    BY <1>2 DEF RowsWritten
  <2> QED
    BY <1>2, <2>2, <2>3 DEF StagedAs, Repeated
<1>4. ASSUME NEW c \in BatchIds, staged[c] # <<>>
      PROVE  batch[c].state # "NONE" /\ Verdict(c)' = Verdict(c)
  <2>1. PICK old : StagedAs(c, old)
    BY <1>1, <1>4 DEF RowsAreDelivered
  <2>2. batch[c].state # "NONE"
    BY <2>1 DEF StagedAs
  <2>3. CASE c = b
    <3>1. old = rows
      BY <2>1, <2>3 DEF StagedAs, RowsWritten
    <3>2. batch'[c].key = batch[c].key /\ batch'[c].rowCount = batch[c].rowCount /\ batch'[c].total = batch[c].total
      BY <1>2, <2>3 DEF RowsWritten
    <3> QED
      BY <1>3, <2>1, <2>2, <2>3, <3>1, <3>2, VerdictKept
  <2>4. CASE c # b
    BY <1>1, <1>2, <1>4, <2>2, <2>4, VerdictStands
  <2> QED
    BY <2>3, <2>4
<1>5. \A c \in BatchIds : Codes(c)' = Codes(c)
  BY DEF Codes, RowsWritten
<1>6. \A c \in BatchIds : staged[c] # <<>> => staged'[c] # <<>>
  BY <1>2, <1>3
<1>7. \A c \in BatchIds : batch[c].state # "NONE" =>
        /\ batch'[c].state # "NONE"
        /\ batch'[c].key = batch[c].key /\ batch'[c].checksum = batch[c].checksum
  BY <1>2 DEF RowsWritten
<1>8. BatchesKept
  BY <1>4, <1>5, <1>6, <1>7 DEF BatchesKept
<1>9. BatchTablesAreTyped'
  BY <1>1, <1>2 DEF BatchTablesAreTyped, RowsWritten
<1>10. ReplayKeysAreUnique'
  BY <1>1, <1>2 DEF ReplayKeysAreUnique, RowsWritten
<1>11. StatesAreEarned'
  <2>1. ASSUME NEW c \in BatchIds
        PROVE  /\ batch'[c].state \in {"AUTHENTICATED", "SCANNED", "STAGED", "VALIDATED", "PUBLISHED"} => HasSigned(c)
               /\ batch'[c].state \in {"SCANNED", "STAGED", "VALIDATED", "PUBLISHED"}
                    => batch'[c].checksum \notin Infected
               /\ batch'[c].state \in {"STAGED", "VALIDATED", "PUBLISHED"} => staged'[c] # <<>>
    BY <1>1, <1>2, <1>3 DEF StatesAreEarned, RowsWritten
  <2>2. \A c \in BatchIds : HasSigned(c) => HasSigned(c)'
    BY <1>8, SignedKept
  <2> QED
    BY <2>1, <2>2 DEF StatesAreEarned
<1>12. RowsAreDelivered'
  <2>1. ASSUME NEW c \in BatchIds \ {b}, NEW old, StagedAs(c, old)
        PROVE  StagedAs(c, old)'
    BY <1>2, <2>1 DEF StagedAs, Repeated
  <2> QED
    BY <1>1, <1>2, <1>3, <2>1 DEF RowsAreDelivered
<1>13. IssuesAreRight'
  <2>1. \A c \in BatchIds : batch'[c].state \in {"VALIDATED", "PUBLISHED"} => staged[c] # <<>> /\ Verdict(c) = {}
    BY <1>1, <1>2 DEF RowsWritten, IssuesAreRight, StatesAreEarned
  <2>2. issues' = issues
    BY DEF RowsWritten
  <2> QED
    BY <1>1, <1>4, <1>6, <2>1, <2>2 DEF IssuesAreRight, Lasting
<1>14. ReasonsAreKept'
  BY <1>1, <1>2, <1>5 DEF ReasonsAreKept, Lasting, RowsWritten
<1> QED
  BY <1>3, <1>8, <1>9, <1>10, <1>11, <1>12, <1>13, <1>14 DEF BatchTablesAreSound

(* Staging the rows.                                                       *)
LEMMA StageKeeps ==
  ASSUME IngestionInv, NEW w \in Workers, Stage(w)
  PROVE  IngestionInv'
<1>1. PICK x, b, rows : x = worker[w] /\ x.at = "stage" /\ b = x.batch /\ rows = RowsOf[x.content]
  BY DEF Stage
<1>2. x \in WorkerStates /\ WorkerIsSound(x) /\ b \in BatchIds /\ x.content \in LandedContents
  BY <1>1, WorkerIs DEF IngestionInv
<1>3. UNCHANGED <<issues, account, snapshots, events, landing, published>>
  BY DEF Stage
<1>4. CASE UNCHANGED <<batch, staged>> /\ worker' = Ended(w)
  BY <1>3, <1>4, OnlyEnds
<1>5. CASE /\ rows # <<>> /\ SameAsStaged(b, rows) /\ ~Repeated(rows)
           /\ CanMove(b, "SCANNED", "STAGED")
           /\ staged' = [staged EXCEPT ![b] =
                [i \in DOMAIN rows |-> IF i \in DOMAIN staged[b] THEN staged[b][i] ELSE Fresh(rows[i])]]
           /\ batch' = [batch EXCEPT ![b].state = "STAGED"]
           /\ worker' = Goto(w, "inspect")
  <2>1. /\ BatchTablesAreTyped /\ StatesAreEarned /\ RowsAreDelivered /\ PublicationIsWhole
        /\ BatchTablesAreSound /\ WorkersAreSound
    BY DEF IngestionInv, BatchTablesAreSound
  <2>2. PICK t : t = [i \in DOMAIN rows |-> IF i \in DOMAIN staged[b] THEN staged[b][i] ELSE Fresh(rows[i])]
    OBVIOUS
  <2>3. staged' = [staged EXCEPT ![b] = t]
    BY <1>5, <2>2
  <2>4. /\ batch[b].state \in {"SCANNED", "STAGED"} /\ batch[b].checksum = x.content /\ x.content \notin Infected
    BY <1>1, <1>2, <1>5 DEF CanMove, WorkerIsSound
  <2>5. batch[b] \in BatchRows
    BY <1>2, <2>1, <2>4, RegisteredIs
  <2>6. PICK q : q = [batch[b] EXCEPT !.state = "STAGED"]
    OBVIOUS
  <2>7. /\ q \in BatchRows /\ q.state = "STAGED" /\ q.reason = batch[b].reason /\ q.key = batch[b].key
        /\ q.checksum = batch[b].checksum /\ q.rowCount = batch[b].rowCount /\ q.total = batch[b].total
    BY <2>5, <2>6 DEF BatchRows, States
  <2>8. batch' = [batch EXCEPT ![b] = q]
    BY <1>2, <1>5, <2>1, <2>6 DEF BatchTablesAreTyped
  <2>9. /\ rows \in Seq(Range(rows)) /\ Len(rows) \in Nat /\ DOMAIN rows = 1..Len(rows)
        /\ \A i \in DOMAIN rows : rows[i] \in Range(rows)
    BY <1>1, <1>2, RowsOfContents
  <2>10. ASSUME NEW i \in DOMAIN rows
         PROVE  t[i] \in [row : Range(rows), token : BOOLEAN, clear : BOOLEAN] /\ t[i].row = rows[i]
    <3>1. CASE i \in DOMAIN staged[b]
      <4>1. t[i] = staged[b][i]
        BY <2>2, <3>1
      <4>2. staged[b] # <<>>
        BY <3>1
      <4>3. StagedAs(b, rows)
        <5>1. PICK old : StagedAs(b, old)
          BY <1>2, <2>1, <4>2 DEF RowsAreDelivered
        <5>2. old = rows
          BY <1>1, <2>4, <5>1 DEF StagedAs
        <5> QED
          BY <5>1, <5>2
      <4>4. /\ staged[b] \in Seq([row : Range(rows), token : BOOLEAN, clear : BOOLEAN])
            /\ staged[b][i].row = rows[i]
        BY <2>9, <4>3 DEF StagedAs
      <4>5. PICK s, R : s = staged[b] /\ R = [row : Range(rows), token : BOOLEAN, clear : BOOLEAN]
        OBVIOUS
      <4>6. s \in Seq(R) /\ i \in DOMAIN s
        BY <3>1, <4>4, <4>5
      <4>7. s[i] \in R
        BY <4>6
      <4> QED
        BY <4>1, <4>4, <4>5, <4>7
    <3>2. CASE i \notin DOMAIN staged[b]
      BY <2>2, <2>9, <3>2 DEF Fresh
    <3> QED
      BY <3>1, <3>2
  <2>11. t \in Seq([row : Range(rows), token : BOOLEAN, clear : BOOLEAN]) /\ Len(t) = Len(rows)
    <3>1. PICK n \in Nat : n = Len(rows)
      BY <2>9
    <3>2. t \in [1..n -> [row : Range(rows), token : BOOLEAN, clear : BOOLEAN]]
      BY <2>2, <2>9, <2>10, <3>1
    <3>3. t \in Seq([row : Range(rows), token : BOOLEAN, clear : BOOLEAN]) /\ Len(t) = n
      BY <3>2, FunctionIsSequence
    <3> QED
      BY <3>1, <3>3
  <2>12. HasSigned(b)
    BY <1>2, <2>1, <2>4 DEF StatesAreEarned
  <2>13. \A i \in 1..Len(rows) : t[i].row = rows[i]
    BY <2>9, <2>10
  <2>14. RowsWritten(b, rows, t, q)
    BY <1>1, <1>2, <1>3, <1>5, <2>3, <2>4, <2>5, <2>7, <2>8, <2>11, <2>12, <2>13 DEF RowsWritten
  <2>15. DOMAIN account' = Accounts
    BY <1>3, <2>1 DEF BatchTablesAreTyped
  <2>16. PublicationIsWhole'
    <3>1. batch'[b].state = "STAGED" /\ staged'[b] = t
          /\ \A c \in BatchIds \ {b} : batch'[c] = batch[c] /\ staged'[c] = staged[c]
      BY <1>2, <2>1, <2>3, <2>7, <2>8 DEF BatchTablesAreTyped
    <3>2. /\ {s \in snapshots : s.batch = b} = {} /\ \A e \in events : e.batch # b
          /\ \A s \in Range(staged[b]) : s.clear
      BY <1>2, <2>1, <2>4 DEF PublicationIsWhole
    <3>3. \A s \in Range(t) : s.clear
      BY <2>2, <3>2 DEF Range, Fresh
    <3>4. ASSUME NEW c \in BatchIds \ {b}
          PROVE  LET mine == {s \in snapshots : s.batch = c} IN
                 IF batch'[c].state = "PUBLISHED"
                   THEN /\ mine = {Snapshot(c, s.row) : s \in Range(staged'[c])}
                        /\ Cardinality(mine) = Len(staged'[c])
                        /\ {e \in events : e.batch = c} = {[batch |-> c, publishedRows |-> Cardinality(mine)]}
                        /\ \A s \in Range(staged'[c]) : /\ s.token /\ ~s.clear
                                                        /\ account[s.row.account] = {Attributes(s.row)}
                   ELSE /\ mine = {} /\ \A e \in events : e.batch # c
                        /\ \A s \in Range(staged'[c]) : s.clear
      BY <2>1, <3>1 DEF PublicationIsWhole
    <3> QED
      BY <1>3, <3>1, <3>2, <3>3, <3>4 DEF PublicationIsWhole, Snapshot, Attributes
  <2>17. BatchTablesAreSound' /\ BatchesKept /\ staged'[b] # <<>>
    BY <1>2, <2>1, <2>14, <2>15, <2>16, RowsWrittenKeep
  <2>18. PICK y : y = [x EXCEPT !.at = "inspect"]
    OBVIOUS
  <2>19. y \in WorkerStates /\ y.at = "inspect" /\ y.batch = x.batch /\ y.manifest = x.manifest
    BY <1>1, <1>2, <2>18 DEF WorkerStates, Resting, AfterStaging
  <2>20. worker' = [worker EXCEPT ![w] = y]
    BY <1>1, <1>5, <2>1, <2>18 DEF Goto, WorkersAreSound
  <2>21. WorkerIsSound(y)'
    BY <1>1, <1>2, <2>17, <2>19, SoundNext DEF AfterStaging
  <2>22. WorkersAreSound'
    BY <2>1, <2>17, <2>19, <2>20, <2>21, WorkersKept
  <2> QED
    BY <2>17, <2>22 DEF IngestionInv
<1> QED
  BY <1>1, <1>4, <1>5 DEF Stage

(* Writing the issues.                                                     *)
LEMMA QuarantineKeeps ==
  ASSUME IngestionInv, NEW w \in Workers, QuarantineInvalidRows(w)
  PROVE  IngestionInv'
<1>1. PICK x, b, date : x = worker[w] /\ x.at = "quarantine" /\ b = x.batch /\ date = BusinessDate[x.manifest.key]
  BY DEF QuarantineInvalidRows
<1>2. PICK new : new = {<<b, NoRow, code>> : code \in BatchFails(b)}
                         \cup UNION {{<<b, i, code>> : code \in RowFails(staged[b][i].row, date)} : i \in DOMAIN staged[b]}
  OBVIOUS
<1>3. /\ issues' = issues \cup new /\ worker' = Goto(w, "decide")
      /\ UNCHANGED <<batch, staged, account, snapshots, events, landing, published>>
  BY <1>1, <1>2 DEF QuarantineInvalidRows
<1>4. /\ x \in WorkerStates /\ WorkerIsSound(x) /\ b \in BatchIds /\ x.manifest \in Manifests
  BY <1>1, WorkerIs DEF IngestionInv
<1>5. /\ staged[b] # <<>> /\ x.failures # {} /\ Verdict(b) = {code \in x.failures : Lasting(code)}
      /\ date = BusinessDate[batch[b].key]
  BY <1>1, <1>4 DEF WorkerIsSound, AfterStaging
<1>6. \A code : code \in Verdict(b) <=>
        /\ Lasting(code)
        /\ code \in BatchFails(b) \/ \E i \in DOMAIN staged[b] : code \in RowFails(staged[b][i].row, date)
  <2>1. \A code : (code \in UNION {RowFails(s.row, date) : s \in Range(staged[b])})
                    <=> \E i \in DOMAIN staged[b] : code \in RowFails(staged[b][i].row, date)
    BY DEF Range
  <2> QED
    BY <1>5, <2>1 DEF Verdict, Failures
<1>7. ASSUME NEW z \in new
      PROVE  z = <<z[1], z[2], z[3]>> /\ z[1] = b /\ (Lasting(z[3]) => z[3] \in Verdict(b))
  <2>1. CASE \E code \in BatchFails(b) : z = <<b, NoRow, code>>
    BY <1>6, <2>1
  <2>2. CASE \E i \in DOMAIN staged[b] : \E code \in RowFails(staged[b][i].row, date) : z = <<b, i, code>>
    BY <1>6, <2>2
  <2> QED
    BY <1>2, <1>7, <2>1, <2>2
<1>8. \A code \in Verdict(b) : \E z \in new : z[1] = b /\ z[3] = code
  <2>1. SUFFICES ASSUME NEW code \in Verdict(b) PROVE \E z \in new : z[1] = b /\ z[3] = code
    OBVIOUS
  <2>2. CASE code \in BatchFails(b)
    <3>1. <<b, NoRow, code>> \in new
      BY <1>2, <2>2
    <3> QED
      BY <3>1
  <2>3. CASE \E i \in DOMAIN staged[b] : code \in RowFails(staged[b][i].row, date)
    <3>1. PICK i \in DOMAIN staged[b] : code \in RowFails(staged[b][i].row, date)
      BY <2>3
    <3>2. <<b, i, code>> \in new
      BY <1>2, <3>1
    <3> QED
      BY <3>2
  <2> QED
    BY <1>6, <2>2, <2>3
<1>9. BatchTablesAreSound /\ WorkersAreSound
  BY DEF IngestionInv
<1>10. landing' \in [Objects -> LandedContents]
  BY <1>3, <1>9 DEF BatchTablesAreSound, BatchTablesAreTyped
<1>11. \A z \in issues' \ issues :
         /\ z = <<z[1], z[2], z[3]>>
         /\ Lasting(z[3]) => z[1] \in BatchIds /\ staged[z[1]] # <<>> /\ z[3] \in Verdict(z[1])
  <2>1. \A z \in issues' \ issues : z \in new
    BY <1>3
  <2> QED
    BY <1>4, <1>5, <1>7, <2>1
<1>12. issues \subseteq issues'
  BY <1>3
<1>13. BatchTablesAreSound' /\ BatchesKept
  BY <1>3, <1>9, <1>10, <1>11, <1>12, TablesStand
<1>14. PICK y : y = [x EXCEPT !.at = "decide"]
  OBVIOUS
<1>15. /\ y \in WorkerStates /\ y.at = "decide" /\ y.batch = x.batch /\ y.manifest = x.manifest
       /\ y.failures = x.failures
  BY <1>1, <1>4, <1>14 DEF WorkerStates, Resting, AfterStaging
<1>16. worker' = [worker EXCEPT ![w] = y]
  BY <1>1, <1>3, <1>9, <1>14 DEF Goto, WorkersAreSound
<1>17. \A code \in y.failures : Lasting(code) => code \in Codes(b)'
  <2>1. \A code \in Verdict(b) : \E z \in issues' : z[1] = b /\ z[3] = code
    BY <1>3, <1>8
  <2> QED
    BY <1>5, <1>15, <2>1 DEF Codes
<1>18. WorkerIsSound(y)'
  BY <1>1, <1>4, <1>5, <1>13, <1>15, <1>17, SoundNext DEF AfterStaging
<1>19. WorkersAreSound'
  BY <1>9, <1>13, <1>15, <1>16, <1>18, WorkersKept
<1> QED
  BY <1>13, <1>19 DEF IngestionInv

(* The positions of the rows of a batch.                                  *)
PublishedPositions(b, rows) == {Snapshot(b, rows[i]) : i \in 1..Len(rows)}

(* As many positions as rows, since no two rows have one account and dates. *)
LEMMA OnePositionPerRow ==
  ASSUME NEW b, NEW rows, rows \in Seq(Range(rows)), ~Repeated(rows)
  PROVE  Cardinality(PublishedPositions(b, rows)) = Len(rows)
<1>1. PICK n \in Nat : n = Len(rows) /\ DOMAIN rows = 1..n
  OBVIOUS
<1>2. PICK T : T = PublishedPositions(b, rows) /\ T = {Snapshot(b, rows[i]) : i \in 1..n}
  BY <1>1 DEF PublishedPositions
<1>3. PICK f : f = [i \in 1..n |-> Snapshot(b, rows[i])]
  OBVIOUS
<1>4. f \in [1..n -> T]
  BY <1>2, <1>3
<1>5. \A i, j \in 1..n : f[i] = f[j] => i = j
  <2>1. SUFFICES ASSUME NEW i \in 1..n, NEW j \in 1..n, f[i] = f[j] PROVE i = j
    OBVIOUS
  <2>2. Snapshot(b, rows[i]) = Snapshot(b, rows[j])
    BY <1>3, <2>1
  <2>3. /\ rows[i].account = rows[j].account /\ rows[i].business = rows[j].business
        /\ rows[i].value = rows[j].value
    BY <2>2 DEF Snapshot
  <2> QED
    BY <1>1, <2>3 DEF Repeated
<1>6. \A u \in T : \E i \in 1..n : f[i] = u
  BY <1>2, <1>3
<1>7. f \in Bijection(1..n, T)
  BY <1>4, <1>5, <1>6 DEF Bijection, Injection, Surjection, IsInjective, Range
<1>8. ExistsBijection(1..n, T)
  BY <1>7 DEF ExistsBijection
<1>9. IsFiniteSet(1..n) /\ Cardinality(1..n) = n
  <2>1. 1 \in Int /\ n \in Int
    OBVIOUS
  <2>2. IsFiniteSet(1..n) /\ Cardinality(1..n) = IF 1 > n THEN 0 ELSE n - 1 + 1
    BY <2>1, FS_Interval
  <2> QED
    BY <2>2
<1> QED
  BY <1>1, <1>2, <1>8, <1>9, FS_Bijection

(* Publishing the batch, or rolling back.                                  *)
LEMMA PublishKeeps ==
  ASSUME IngestionInv, NEW w \in Workers, Publish(w)
  PROVE  IngestionInv'
<1>1. PICK x, b, known : x = worker[w] /\ x.at = "publish" /\ b = x.batch
                         /\ known = Tokenized(b, x.references)
  BY DEF Publish
<1>2. x \in WorkerStates /\ WorkerIsSound(x) /\ b \in BatchIds
  BY <1>1, WorkerIs DEF IngestionInv
<1>3. UNCHANGED <<issues, landing, published>> /\ worker' = Ended(w)
  BY DEF Publish
<1>4. CASE UNCHANGED <<batch, staged, account, snapshots, events>>
  BY <1>3, <1>4, OnlyEnds
<1>5. CASE /\ CanMove(b, "VALIDATED", "APPROVED")
           /\ \A s \in Range(known) : s.token
           /\ \A s \in Range(known) : WithAccounts(b)[s.row.account] = {Attributes(s.row)}
           /\ staged' = [staged EXCEPT ![b] = Erased(known)]
           /\ account' = WithAccounts(b)
           /\ snapshots' = snapshots \cup {Snapshot(b, s.row) : s \in Range(known)}
           /\ batch' = Moved(b, "PUBLISHED", {})
           /\ events' = events \cup {[batch |-> b, publishedRows |-> Len(known)]}
  <2>1. /\ BatchTablesAreTyped /\ StatesAreEarned /\ RowsAreDelivered /\ PublicationIsWhole /\ IssuesAreRight
        /\ BatchTablesAreSound /\ WorkersAreSound
    BY DEF IngestionInv, BatchTablesAreSound
  <2>2. batch[b].state = "VALIDATED"
    BY <1>2, <1>5, <2>1 DEF CanMove, BatchTablesAreTyped, BatchRows, Unregistered, States, Terminal
  <2>3. staged[b] # <<>> /\ Verdict(b) = {} /\ HasSigned(b) /\ batch[b].checksum \notin Infected
    BY <1>2, <2>1, <2>2 DEF StatesAreEarned, IssuesAreRight
  <2>4. PICK rows : StagedAs(b, rows)
    BY <1>2, <2>1, <2>3 DEF RowsAreDelivered
  <2>5. /\ rows \in Seq(Range(rows)) /\ Len(rows) \in Nat /\ DOMAIN rows = 1..Len(rows)
        /\ Len(staged[b]) = Len(rows) /\ DOMAIN staged[b] = 1..Len(rows) /\ rows # <<>>
        /\ \A i \in 1..Len(rows) : staged[b][i].row = rows[i]
    BY <1>2, <2>3, <2>4, StagedRowsAre
  <2>30. PICK n \in Nat : n = Len(rows)
    BY <2>5
  <2>6. PICK s, R : /\ n = Len(rows) /\ s = staged[b]
                    /\ R = [row : Range(rows), token : BOOLEAN, clear : BOOLEAN]
    BY <2>30
  <2>7. /\ s \in Seq(R) /\ DOMAIN s = 1..n /\ \A i \in 1..n : s[i] \in R /\ s[i].row = rows[i]
    <3>1. s \in Seq(R)
      BY <2>4, <2>6 DEF StagedAs
    <3>2. DOMAIN s = 1..n /\ \A i \in 1..n : s[i].row = rows[i]
      BY <2>5, <2>6
    <3>3. \A i \in DOMAIN s : s[i] \in R
      BY <3>1
    <3> QED
      BY <3>1, <3>2, <3>3
  <2>8. /\ DOMAIN known = 1..n /\ known \in [1..n -> R]
        /\ \A i \in 1..n : known[i].row = rows[i] /\ known[i].token
    <3>1. known = [i \in 1..n |-> IF s[i].clear /\ s[i].row.customer \in x.references
                                    THEN [s[i] EXCEPT !.token = TRUE] ELSE s[i]]
      BY <1>1, <2>6, <2>7 DEF Tokenized
    <3>2. \A i \in 1..n : known[i] \in R /\ known[i].row = rows[i]
      BY <2>6, <2>7, <3>1
    <3>3. \A i \in 1..n : known[i] \in Range(known)
      BY <3>1 DEF Range
    <3> QED
      BY <1>5, <3>1, <3>2, <3>3
  <2>9. PICK t : t = Erased(known)
    OBVIOUS
  <2>10. /\ DOMAIN t = 1..n /\ t \in [1..n -> R]
         /\ \A i \in 1..n : t[i].row = rows[i] /\ t[i].token /\ ~t[i].clear
    <3>1. t = [i \in 1..n |-> IF known[i].token THEN [known[i] EXCEPT !.clear = FALSE] ELSE known[i]]
      BY <2>8, <2>9 DEF Erased
    <3>2. ASSUME NEW i \in 1..n
          PROVE  t[i] \in R /\ t[i].row = rows[i] /\ t[i].token /\ ~t[i].clear
      <4>1. known[i] \in R /\ known[i].row = rows[i] /\ known[i].token
        BY <2>8
      <4>2. t[i] = [known[i] EXCEPT !.clear = FALSE]
        BY <3>1, <4>1
      <4> QED
        BY <2>6, <4>1, <4>2
    <3> QED
      BY <3>1, <3>2
  <2>11. t \in Seq(R) /\ Len(t) = n /\ Len(known) = n
    <3>1. t \in Seq(R) /\ Len(t) = n
      BY <2>10, FunctionIsSequence
    <3>2. Len(known) = n
      BY <2>8, FunctionIsSequence
    <3> QED
      BY <3>1, <3>2
  <2>12. batch[b] \in BatchRows
    BY <1>2, <2>1, <2>2, RegisteredIs
  <2>13. PICK q : q = [[batch[b] EXCEPT !.state = "PUBLISHED"] EXCEPT !.reason = {}]
    OBVIOUS
  <2>14. /\ q \in BatchRows /\ q.state = "PUBLISHED" /\ q.reason = {} /\ q.key = batch[b].key
         /\ q.checksum = batch[b].checksum /\ q.rowCount = batch[b].rowCount /\ q.total = batch[b].total
    BY <2>12, <2>13 DEF BatchRows, States, Terminal
  <2>15. batch' = [batch EXCEPT ![b] = q]
    BY <1>2, <1>5, <2>1, <2>13 DEF BatchTablesAreTyped, Moved
  <2>16. RowsWritten(b, rows, t, q)
    <3>1. rows = RowsOf[batch[b].checksum] /\ batch[b].checksum \in LandedContents /\ ~Repeated(rows)
      BY <2>4 DEF StagedAs
    <3>2. staged' = [staged EXCEPT ![b] = t]
      BY <1>5, <2>9
    <3> QED
      BY <1>3, <2>3, <2>5, <2>6, <2>10, <2>11, <2>12, <2>14, <2>15, <3>1, <3>2 DEF RowsWritten
  <2>17. DOMAIN account' = Accounts
    BY <1>5 DEF WithAccounts
  <2>18. /\ batch'[b].state = "PUBLISHED" /\ staged'[b] = t
         /\ \A c \in BatchIds \ {b} : batch'[c] = batch[c] /\ staged'[c] = staged[c]
    BY <1>2, <2>1, <2>14, <2>15, <2>16 DEF BatchTablesAreTyped, RowsWritten
  <2>19. PICK new : new = PublishedPositions(b, rows) /\ new = {Snapshot(b, rows[i]) : i \in 1..n}
    BY <2>6 DEF PublishedPositions
  <2>20. /\ Cardinality(new) = n
         /\ \A z \in new : z.batch = b
         /\ snapshots' = snapshots \cup new
         /\ new = {Snapshot(b, r.row) : r \in Range(t)}
    <3>1. {Snapshot(b, r.row) : r \in Range(known)} = new
      BY <2>8, <2>19 DEF Range
    <3>2. {Snapshot(b, r.row) : r \in Range(t)} = new
      BY <2>10, <2>19 DEF Range
    <3>3. ~Repeated(rows)
      BY <2>4 DEF StagedAs
    <3>5. rows \in Seq(Range(rows)) /\ n = Len(rows)
      BY <2>5, <2>6
    <3>6. Cardinality(new) = n
      BY <2>19, <3>3, <3>5, OnePositionPerRow
    <3>4. \A z \in new : z.batch = b
      BY <2>19 DEF Snapshot
    <3> QED
      BY <1>5, <3>1, <3>2, <3>4, <3>6
  <2>21. {z \in snapshots : z.batch = b} = {} /\ \A e \in events : e.batch # b
    BY <1>2, <2>1, <2>2 DEF PublicationIsWhole
  <2>23. \A r \in Range(t) : r.token /\ ~r.clear /\ account'[r.row.account] = {Attributes(r.row)}
    <3>1. SUFFICES ASSUME NEW i \in 1..n
                   PROVE  t[i].token /\ ~t[i].clear /\ account'[t[i].row.account] = {Attributes(t[i].row)}
      <4>1. \A r \in Range(t) : \E i \in 1..n : r = t[i]
        BY <2>10 DEF Range
      <4> QED
        BY <4>1
    <3>2. known[i] \in Range(known)
      BY <2>8 DEF Range
    <3>3. account'[known[i].row.account] = {Attributes(known[i].row)}
      BY <1>5, <3>2
    <3>4. known[i].row = rows[i] /\ t[i].row = rows[i]
      BY <2>8, <2>10
    <3> QED
      BY <2>10, <3>3, <3>4
  <2>24. ASSUME NEW a \in Accounts, account[a] # {} PROVE account'[a] = account[a]
    BY <1>5, <2>24 DEF WithAccounts
  <2>25. PublicationIsWhole'
    <3>1. ASSUME NEW c \in BatchIds
          PROVE  LET mine == {z \in snapshots' : z.batch = c} IN
                 IF batch'[c].state = "PUBLISHED"
                   THEN /\ mine = {Snapshot(c, r.row) : r \in Range(staged'[c])}
                        /\ Cardinality(mine) = Len(staged'[c])
                        /\ {e \in events' : e.batch = c} = {[batch |-> c, publishedRows |-> Cardinality(mine)]}
                        /\ \A r \in Range(staged'[c]) : /\ r.token /\ ~r.clear
                                                        /\ account'[r.row.account] = {Attributes(r.row)}
                   ELSE /\ mine = {} /\ \A e \in events' : e.batch # c
                        /\ \A r \in Range(staged'[c]) : r.clear
      <4>1. CASE c = b
        <5>1. {z \in snapshots' : z.batch = b} = new
          BY <2>20, <2>21
        <5>2. {e \in events' : e.batch = b} = {[batch |-> b, publishedRows |-> n]}
          BY <1>5, <2>11, <2>21
        <5>3. PICK mine : mine = {z \in snapshots' : z.batch = c}
          OBVIOUS
        <5>4. mine = new
          BY <4>1, <5>1, <5>3
        <5>5. mine = {Snapshot(c, r.row) : r \in Range(staged'[c])} /\ Cardinality(mine) = Len(staged'[c])
          BY <2>11, <2>18, <2>20, <4>1, <5>4
        <5>6. {e \in events' : e.batch = c} = {[batch |-> c, publishedRows |-> Cardinality(mine)]}
          BY <2>20, <4>1, <5>2, <5>4
        <5>7. \A r \in Range(staged'[c]) : /\ r.token /\ ~r.clear
                                           /\ account'[r.row.account] = {Attributes(r.row)}
          BY <2>18, <2>23, <4>1
        <5>8. batch'[c].state = "PUBLISHED"
          BY <2>18, <4>1
        <5> QED
          BY <5>3, <5>5, <5>6, <5>7, <5>8
      <4>2. CASE c # b
        <5>1. {z \in snapshots' : z.batch = c} = {z \in snapshots : z.batch = c}
          BY <2>20, <4>2
        <5>2. {e \in events' : e.batch = c} = {e \in events : e.batch = c}
          BY <1>5, <4>2
        <5>3. batch'[c] = batch[c] /\ staged'[c] = staged[c]
          BY <2>18, <4>2
        <5>4. CASE batch[c].state = "PUBLISHED"
          <6>1. \A r \in Range(staged[c]) : r.row.account \in Accounts
            <7>1. PICK old : StagedAs(c, old)
              BY <2>1, <5>4 DEF RowsAreDelivered, StatesAreEarned
            <7>2. \A i \in 1..Len(old) : old[i].account \in Accounts
              BY <7>1, StagedRowsAre, RowsOfContents DEF StagedAs
            <7>3. DOMAIN staged[c] = 1..Len(old) /\ \A i \in 1..Len(old) : staged[c][i].row = old[i]
              BY <7>1, StagedRowsAre
            <7> QED
              BY <7>2, <7>3 DEF Range
          <6>2. \A r \in Range(staged[c]) : account[r.row.account] = {Attributes(r.row)}
            BY <2>1, <5>4 DEF PublicationIsWhole
          <6>3. \A r \in Range(staged[c]) : account'[r.row.account] = {Attributes(r.row)}
            BY <2>24, <6>1, <6>2
          <6>4. PICK mine : mine = {z \in snapshots : z.batch = c}
            OBVIOUS
          <6>5. /\ mine = {Snapshot(c, r.row) : r \in Range(staged[c])}
                /\ Cardinality(mine) = Len(staged[c])
                /\ {e \in events : e.batch = c} = {[batch |-> c, publishedRows |-> Cardinality(mine)]}
                /\ \A r \in Range(staged[c]) : r.token /\ ~r.clear
            BY <2>1, <5>4, <6>4 DEF PublicationIsWhole
          <6> QED
            BY <5>1, <5>2, <5>3, <5>4, <6>3, <6>4, <6>5
        <5>5. CASE batch[c].state # "PUBLISHED"
          <6>1. /\ {z \in snapshots : z.batch = c} = {} /\ \A e \in events : e.batch # c
                /\ \A r \in Range(staged[c]) : r.clear
            BY <2>1, <5>5 DEF PublicationIsWhole
          <6>2. \A e \in events' : e.batch # c
            BY <5>2, <6>1
          <6> QED
            BY <5>1, <5>3, <5>5, <6>1, <6>2
        <5> QED
          BY <5>4, <5>5
      <4> QED
        BY <4>1, <4>2
    <3> QED
      BY <3>1 DEF PublicationIsWhole, Snapshot, Attributes
  <2>26. BatchTablesAreSound' /\ BatchesKept
    BY <1>2, <2>1, <2>16, <2>17, <2>25, RowsWrittenKeep
  <2>27. WorkersAreSound'
    BY <1>3, <2>1, <2>26, WorkerEnds
  <2> QED
    BY <2>26, <2>27 DEF IngestionInv
<1> QED
  BY <1>1, <1>4, <1>5 DEF Publish

(* The invariant holds at the start.                                       *)
LEMMA IngestionStarts == CbsInit => IngestionInv
<1> SUFFICES ASSUME CbsInit PROVE IngestionInv
  OBVIOUS
<1>1. \A b \in BatchIds : batch[b] = Unregistered /\ staged[b] = <<>>
  BY DEF CbsInit
<1>2. BatchTablesAreTyped
  BY DEF CbsInit, BatchTablesAreTyped
<1>3. ReplayKeysAreUnique /\ StatesAreEarned /\ RowsAreDelivered
  BY <1>1 DEF ReplayKeysAreUnique, StatesAreEarned, RowsAreDelivered, Unregistered
<1>4. IssuesAreRight /\ ReasonsAreKept
  BY <1>1 DEF CbsInit, IssuesAreRight, ReasonsAreKept, Unregistered
<1>5. PublicationIsWhole
  <2>1. snapshots = {} /\ events = {}
    BY DEF CbsInit
  <2>2. \A b \in BatchIds : batch[b].state # "PUBLISHED" /\ \A s \in Range(staged[b]) : s.clear
    BY <1>1 DEF Unregistered, Range
  <2> QED
    BY <2>1, <2>2 DEF PublicationIsWhole
<1>6. WorkersAreSound
  BY DEF CbsInit, WorkersAreSound, WorkerStates, WorkerIsSound, Resting
<1> QED
  BY <1>2, <1>3, <1>4, <1>5, <1>6 DEF IngestionInv, BatchTablesAreSound

(* Every step keeps it.                                                    *)
LEMMA IngestionStep == IngestionInv /\ [CbsNext]_cbsVars => IngestionInv'
<1> SUFFICES ASSUME IngestionInv, [CbsNext]_cbsVars PROVE IngestionInv'
  OBVIOUS
<1>1. landing \in [Objects -> LandedContents]
  BY DEF IngestionInv, BatchTablesAreSound, BatchTablesAreTyped
<1>2. ASSUME NEW w \in Workers, NEW m \in Manifests, RegisterNew(w, m) PROVE IngestionInv'
  BY <1>2, RegisterNewKeeps
<1>3. ASSUME NEW w \in Workers, NEW m \in Manifests, RegisterReplay(w, m) PROVE IngestionInv'
  BY <1>3, RegisterReplayKeeps
<1>4. ASSUME NEW w \in Workers, Authenticate(w) PROVE IngestionInv'
  BY <1>4, AuthenticateKeeps
<1>5. ASSUME NEW w \in Workers, Load(w) PROVE IngestionInv'
  BY <1>5, LoadKeeps
<1>6. ASSUME NEW w \in Workers, Scan(w) PROVE IngestionInv'
  BY <1>6, ScanKeeps
<1>7. ASSUME NEW w \in Workers, Stage(w) PROVE IngestionInv'
  BY <1>7, StageKeeps
<1>8. ASSUME NEW w \in Workers, Inspect(w) PROVE IngestionInv'
  BY <1>8, InspectKeeps
<1>9. ASSUME NEW w \in Workers, QuarantineInvalidRows(w) PROVE IngestionInv'
  BY <1>9, QuarantineKeeps
<1>10. ASSUME NEW w \in Workers, RecordDecision(w) PROVE IngestionInv'
  BY <1>10, RecordDecisionKeeps
<1>11. ASSUME NEW w \in Workers, CheckPublished(w) PROVE IngestionInv'
  BY <1>11, CheckPublishedKeeps
<1>12. ASSUME NEW w \in Workers, ReadReferences(w) PROVE IngestionInv'
  BY <1>12, ReadReferencesKeeps
<1>13. ASSUME NEW w \in Workers, Publish(w) PROVE IngestionInv'
  BY <1>13, PublishKeeps
<1>14. ASSUME NEW w \in Workers, Abandon(w) PROVE IngestionInv'
  BY <1>14, OnlyEnds DEF Abandon
<1>15. ASSUME NEW o \in Objects, NEW c \in LandedContents, ReplaceObject(o, c) PROVE IngestionInv'
  BY <1>1, <1>15, ElsewhereKeeps DEF ReplaceObject
<1>16. ASSUME NEW p \in Products, ChangeProduct(p) PROVE IngestionInv'
  BY <1>1, <1>16, ElsewhereKeeps DEF ChangeProduct
<1>17. ASSUME UNCHANGED cbsVars PROVE IngestionInv'
  BY <1>1, <1>17, ElsewhereKeeps DEF cbsVars
<1> QED
  BY <1>2, <1>3, <1>4, <1>5, <1>6, <1>7, <1>8, <1>9, <1>10, <1>11, <1>12, <1>13, <1>14, <1>15, <1>16,
     <1>17 DEF CbsNext

(* The invariant gives what the ingestion promises.                        *)
LEMMA IngestionFollows == IngestionInv => IngestionIsConsistent
<1> SUFFICES ASSUME IngestionInv PROVE IngestionIsConsistent
  OBVIOUS
<1>1. /\ BatchTablesAreTyped /\ StatesAreEarned /\ RowsAreDelivered /\ PublicationIsWhole /\ IssuesAreRight
      /\ ReasonsAreKept /\ WorkersAreSound
  BY DEF IngestionInv, BatchTablesAreSound
<1>2. BatchesTyped
  <2>1. \A b \in BatchIds : batch[b].state \in States
    BY <1>1 DEF BatchTablesAreTyped, BatchRows, Unregistered, States
  <2>2. \A w \in Workers : worker[w].at \in
          {"idle", "authenticate", "load", "scan", "stage", "inspect", "quarantine",
           "decide", "check", "references", "publish"}
    BY <1>1 DEF WorkersAreSound, WorkerStates, Resting
  <2> QED
    BY <2>1, <2>2 DEF BatchesTyped
<1>3. PublishedAsControlled
  <2>1. SUFFICES ASSUME NEW b \in BatchIds, batch[b].state = "PUBLISHED"
                 PROVE  /\ HasSigned(b)
                        /\ batch[b].checksum \notin Infected
                        /\ StagedRows(b) = RowsOf[batch[b].checksum]
                        /\ Len(staged[b]) = batch[b].rowCount /\ StagedTotal(b) = batch[b].total
                        /\ \A s \in Range(staged[b]) :
                             /\ s.row.business = BusinessDate[batch[b].key]
                             /\ s.row.currency \in Currencies
                             /\ s.row.opened <= s.row.value /\ s.row.value <= s.row.business
    BY DEF PublishedAsControlled, HasSigned
  <2>2. HasSigned(b) /\ batch[b].checksum \notin Infected /\ staged[b] # <<>> /\ Verdict(b) = {}
    BY <1>1, <2>1 DEF StatesAreEarned, IssuesAreRight
  <2>3. PICK rows : StagedAs(b, rows)
    BY <1>1, <2>2 DEF RowsAreDelivered
  <2>4. /\ rows \in Seq(Range(rows)) /\ Len(rows) \in Nat /\ DOMAIN rows = 1..Len(rows)
        /\ DOMAIN staged[b] = 1..Len(rows) /\ \A i \in 1..Len(rows) : staged[b][i].row = rows[i]
    BY <2>3, StagedRowsAre
  <2>5. StagedRows(b) = RowsOf[batch[b].checksum]
    <3>1. StagedRows(b) = [i \in 1..Len(rows) |-> rows[i]]
      BY <2>4 DEF StagedRows
    <3>2. rows = [i \in 1..Len(rows) |-> rows[i]]
      BY <2>4
    <3> QED
      BY <2>3, <3>1, <3>2 DEF StagedAs
  <2>6. Len(staged[b]) = batch[b].rowCount /\ StagedTotal(b) = batch[b].total
    <3>1. "MANIFEST_ROW_COUNT_MISMATCH" \notin BatchFails(b) /\ "MANIFEST_BALANCE_MISMATCH" \notin BatchFails(b)
      BY <2>2 DEF Verdict, Failures, Lasting
    <3> QED
      BY <3>1 DEF BatchFails
  <2>7. ASSUME NEW s \in Range(staged[b])
        PROVE  /\ s.row.business = BusinessDate[batch[b].key]
               /\ s.row.currency \in Currencies
               /\ s.row.opened <= s.row.value /\ s.row.value <= s.row.business
    <3>1. \A code \in RowFails(s.row, BusinessDate[batch[b].key]) : ~Lasting(code)
      BY <2>2, <2>7 DEF Verdict, Failures
    <3>2. /\ "BUSINESS_DATE_MISMATCH" \notin RowFails(s.row, BusinessDate[batch[b].key])
          /\ "UNKNOWN_CURRENCY" \notin RowFails(s.row, BusinessDate[batch[b].key])
          /\ "INVALID_DATE_CHRONOLOGY" \notin RowFails(s.row, BusinessDate[batch[b].key])
      BY <3>1 DEF Lasting
    <3>3. /\ s.row.business = BusinessDate[batch[b].key] /\ s.row.currency \in Currencies
          /\ ~(s.row.opened > s.row.value) /\ ~(s.row.value > s.row.business)
      BY <3>2 DEF RowFails
    <3>4. PICK i \in 1..Len(rows) : s = staged[b][i]
      BY <2>4 DEF Range
    <3>5. s.row = rows[i]
      BY <2>4, <3>4
    <3>6. rows[i].opened \in Int /\ rows[i].value \in Int /\ rows[i].business \in Int
      BY <2>3, <2>4, RowsOfContents DEF StagedAs
    <3> QED
      BY <3>3, <3>5, <3>6
  <2> QED
    BY <2>2, <2>5, <2>6, <2>7
<1>4. RejectionsAreExplained
  <2>1. ASSUME NEW b \in BatchIds, NEW code \in Codes(b), Lasting(code)
        PROVE  code \in Verdict(b)
    BY <1>1, <2>1 DEF IssuesAreRight, Codes
  <2>2. ASSUME NEW b \in BatchIds
        PROVE  /\ \A code \in batch[b].reason \ {"NOT_AUTHENTIC", "NOT_CLEAN"} : Lasting(code) => code \in Codes(b)
               /\ batch[b].state \in {"VALIDATED", "PUBLISHED"} => ~\E code \in Codes(b) : Lasting(code)
    BY <1>1, <2>1 DEF ReasonsAreKept, IssuesAreRight
  <2> QED
    BY <2>2 DEF RejectionsAreExplained, Codes
<1> QED
  BY <1>1, <1>2, <1>3, <1>4 DEF IngestionIsConsistent

(* A batch that is published is whole and was controlled, and one that is  *)
(* rejected is explained, whichever workers handle it, stop and begin      *)
(* again, and whatever becomes of its object and of the products           *)
(* (CbsBatchMessageHandler.handle and the repositories that it drives).    *)
THEOREM IngestionStaysConsistent == CbsSpec => []IngestionIsConsistent
<1>1. CbsSpec => []IngestionInv
  BY IngestionStarts, IngestionStep, PTL DEF CbsSpec
<1> QED
  BY <1>1, IngestionFollows, PTL

-----------------------------------------------------------------------------
(* Exports and reports: what an export, a report, a session and an answer  *)
(* are at any moment.                                                      *)

ExportRows ==
  [status : Statuses, scope : Scopes, content : ExportContents, requester : ReportActors,
   approver : ReportActors \cup {Nobody}, generator : ReportActors \cup {Nobody},
   output : SUBSET Datasets, key : ReportKeys, generationKey : SUBSET ReportKeys]

IsBulk(row) == row.scope = "BULK" /\ row.status # "PENDING_REINFORCED_APPROVAL"

ApprovalBy(x, row, key) ==
  [export |-> x, action |-> "REINFORCED_APPROVAL", actor |-> row.approver, result |-> "APPROVED",
   key |-> key]
GenerationBy(x, row, key) ==
  [export |-> x, action |-> "GENERATE", actor |-> row.requester, result |-> "GENERATED",
   key |-> key]
IntentBy(x, action, actor) == [export |-> x, action |-> action, actor |-> actor]

(* The events and the audit intents that a row has left behind.            *)
EventsBehind(x, row, a, g) ==
  (IF IsBulk(row) THEN {ApprovalBy(x, row, a)} ELSE {})
    \cup (IF row.status = "GENERATED" THEN {GenerationBy(x, row, g)} ELSE {})
IntentsBehind(x, row) ==
  {IntentBy(x, "CREATE_SECURE_EXPORT", row.requester)}
    \cup (IF IsBulk(row) THEN {IntentBy(x, "APPROVE_MASS_EXPORT", row.approver)} ELSE {})
    \cup (IF row.status = "GENERATED" THEN {IntentBy(x, "GENERATE_SECURE_EXPORT", row.requester)}
          ELSE {})

(* A row in itself.                                                        *)
RowIsSound(row, g) ==
  /\ row.status = "PENDING_REINFORCED_APPROVAL" => row.scope = "BULK"
  /\ IsBulk(row) => row.approver # row.requester
  /\ row.status = "GENERATED" => /\ row.generator = row.requester
                                 /\ row.output \cap ClearDatasets = {}
                                 /\ row.generationKey = {g}
  /\ row.status # "GENERATED" => row.generationKey = {}

ExportLife(x, rows, recorded, intents) ==
  \/ rows = {} /\ recorded = {} /\ intents = {}
  \/ \E row \in rows, a, g \in ReportKeys :
       /\ rows = {row} /\ row \in ExportRows /\ RowIsSound(row, g)
       /\ recorded = EventsBehind(x, row, a, g)
       /\ intents = IntentsBehind(x, row)

ExportEventsOf(x) == {e \in exportEvents : e.export = x}
ExportIntentsOf(x) == {i \in audited : i.export = x}

ExportLives ==
  /\ DOMAIN export = Exports
  /\ \A x \in Exports : ExportLife(x, export[x], ExportEventsOf(x), ExportIntentsOf(x))

ExportKeysAreUnique ==
  /\ \A e, f \in exportEvents : e.key = f.key => e = f
  /\ \A x, y \in Rows : Row(x).key = Row(y).key => x = y
  /\ \A e \in exportEvents : e.export \in Exports

(* A session that has a lock has it alone, and has looked for what its key *)
(* did.                                                                    *)
SessionIsSound(s) ==
  LET r == reportSession[s].request IN
  /\ reportSession[s].at \in {"idle", "locked", "read", "publishing"}
  /\ reportSession[s].at = "locked" =>
       /\ r \in CreateRequests \cup ApproveRequests \cup GenerateRequests
       /\ r.op = "create" => Created(r.key) = {}
       /\ r.op = "generate" => r.dataset \notin ClearDatasets
       /\ \A t \in ReportSessions :
            /\ reportSession[t].at = "locked"
            /\ reportSession[t].request.op = r.op /\ reportSession[t].request.key = r.key
            => t = s
  /\ reportSession[s].at = "read" =>
       /\ reportSession[s].counts = SnapshotOf(reportSession[s].sources)
       /\ reportSession[s].actor \in ReportActors
  /\ reportSession[s].at = "publishing" => r \in PublishRequests

SessionsAreSound ==
  /\ DOMAIN reportSession = ReportSessions
  /\ \A s \in ReportSessions : SessionIsSound(s)

(* The answer that stands for a key.                                       *)
AnswerIsSound(a) ==
  \/ /\ a.op = "create"
     /\ \E x \in Rows : /\ Row(x).key = a.key
                        /\ a.answer = [export |-> x, status |-> InitialExportStatus(Row(x).scope)]
  \/ a.op = "approve" /\ a.answer = [status |-> "APPROVED"]
  \/ /\ a.op = "generate"
     /\ \E x \in Rows : /\ Row(x).generationKey = {a.key}
                        /\ a.answer = [export |-> x, status |-> "GENERATED", output |-> Row(x).output]
  \/ a.op = "publish" /\ a.answer = [status |-> "PUBLISHED"]

AnswersAreSound == \A a \in reportAnswers : AnswerIsSound(a)

PublicationsOf(sources) == {a \in actions : a.report = sources}

ReportIsSound(p) ==
  /\ p = [sources |-> p.sources, counts |-> SnapshotOf(p.sources), generator |-> p.generator,
          status |-> p.status, publisher |-> p.publisher, evidence |-> p.evidence]
  /\ \/ p.status = "GENERATED" /\ PublicationsOf(p.sources) = {}
     \/ /\ p.status = "PUBLISHED" /\ p.publisher # p.generator /\ p.evidence # {}
        /\ \E a \in actions : PublicationsOf(p.sources) = {a} /\ a.actor = p.publisher

ReportsAreSound ==
  /\ \A p \in reports : ReportIsSound(p)
  /\ \A p, q \in reports : p.sources = q.sources => p = q
  /\ \A a \in actions : \E p \in reports : p.sources = a.report

ReportingInv ==
  ExportLives /\ ExportKeysAreUnique /\ SessionsAreSound /\ AnswersAreSound /\ ReportsAreSound

-----------------------------------------------------------------------------
LEMMA RowIs ==
  ASSUME NEW x, NEW row, export[x] = {row} PROVE Row(x) = row
BY DEF Row

(* What a statement on one export's row leaves of the others.              *)
LEMMA OneRowWritten ==
  ASSUME DOMAIN export = Exports, NEW x \in Exports, NEW row,
         export' = [export EXCEPT ![x] = {row}]
  PROVE  /\ DOMAIN export' = Exports /\ export'[x] = {row} /\ Row(x)' = row
         /\ \A y \in Exports : y # x => export'[y] = export[y] /\ Row(y)' = Row(y)
         /\ Rows' = Rows \cup {x}
<1>1. DOMAIN export' = Exports /\ export'[x] = {row}
  OBVIOUS
<1>2. \A y \in Exports : y # x => export'[y] = export[y]
  OBVIOUS
<1>3. Row(x)' = row
  BY <1>1 DEF Row
<1>4. \A y \in Exports : y # x => Row(y)' = Row(y)
  BY <1>2 DEF Row
<1>5. Rows' = Rows \cup {x}
  BY <1>1, <1>2 DEF Rows
<1> QED
  BY <1>1, <1>2, <1>3, <1>4, <1>5

(* What a row says about its export's events.                              *)
LEMMA LifeFacts ==
  ASSUME ExportLives, NEW x \in Rows
  PROVE  /\ x \in Exports /\ export[x] = {Row(x)} /\ Row(x) \in ExportRows
         /\ \E a, g \in ReportKeys :
              /\ RowIsSound(Row(x), g)
              /\ ExportEventsOf(x) = EventsBehind(x, Row(x), a, g)
              /\ ExportIntentsOf(x) = IntentsBehind(x, Row(x))
<1>1. x \in Exports /\ export[x] # {}
  BY DEF Rows
<1>2. ExportLife(x, export[x], ExportEventsOf(x), ExportIntentsOf(x))
  BY <1>1 DEF ExportLives
<1>3. PICK row \in export[x], a, g \in ReportKeys :
        /\ export[x] = {row} /\ row \in ExportRows /\ RowIsSound(row, g)
        /\ ExportEventsOf(x) = EventsBehind(x, row, a, g)
        /\ ExportIntentsOf(x) = IntentsBehind(x, row)
  BY <1>1, <1>2 DEF ExportLife
<1>4. Row(x) = row
  BY <1>3, RowIs
<1> QED
  BY <1>1, <1>3, <1>4

(* A step that leaves exports alone keeps what is said of them.            *)
LEMMA ExportsUntouched ==
  ASSUME UNCHANGED <<export, exportEvents, audited>>, ExportLives, ExportKeysAreUnique
  PROVE  /\ ExportLives' /\ ExportKeysAreUnique' /\ Rows' = Rows
         /\ \A x : Row(x)' = Row(x)
         /\ \A key : Created(key)' = Created(key)
<1>1. \A x : Row(x)' = Row(x)
  BY DEF Row
<1>2. Rows' = Rows
  BY DEF Rows
<1>3. \A x : ExportEventsOf(x)' = ExportEventsOf(x) /\ ExportIntentsOf(x)' = ExportIntentsOf(x)
  BY DEF ExportEventsOf, ExportIntentsOf
<1> QED
  BY <1>1, <1>2, <1>3 DEF ExportLives, ExportKeysAreUnique, Created

(* A session that closes; the others see the same exports.                 *)
LEMMA ClosingSession ==
  ASSUME SessionsAreSound, NEW s \in ReportSessions, Closed(s),
         \A t \in ReportSessions :
           t # s /\ reportSession[t].at = "locked" /\ reportSession[t].request.op = "create"
             => Created(reportSession[t].request.key)' = {}
  PROVE  SessionsAreSound'
<1>1. DOMAIN reportSession' = ReportSessions /\ reportSession'[s] = NoRequest
  BY DEF SessionsAreSound, Closed
<1>2. \A t \in ReportSessions : t # s => reportSession'[t] = reportSession[t]
  BY DEF SessionsAreSound, Closed
<1>3. ASSUME NEW t \in ReportSessions PROVE SessionIsSound(t)'
  <2>1. CASE t = s
    BY <1>1, <2>1 DEF SessionIsSound, NoRequest
  <2>2. CASE t # s
    <3>1. SessionIsSound(t) /\ reportSession'[t] = reportSession[t]
      BY <1>2, <2>2 DEF SessionsAreSound
    <3>2. ASSUME reportSession[t].at = "locked", reportSession[t].request.op = "create"
          PROVE  Created(reportSession[t].request.key)' = {}
      BY <2>2, <3>2
    <3>3. \A u \in ReportSessions : reportSession'[u].at = "locked" =>
            reportSession'[u] = reportSession[u]
      BY <1>1, <1>2 DEF NoRequest
    <3> QED
      BY <3>1, <3>2, <3>3 DEF SessionIsSound
  <2> QED
    BY <2>1, <2>2
<1> QED
  BY <1>1, <1>3 DEF SessionsAreSound

(* A session that locks its operation and key.                             *)
LEMMA LockingSession ==
  ASSUME SessionsAreSound, UNCHANGED export, NEW s \in ReportSessions,
         NEW r \in CreateRequests \cup ApproveRequests \cup GenerateRequests,
         LockIsFree(r), Locked(s, r), ~Open(s),
         r.op = "create" => Created(r.key) = {},
         r.op = "generate" => r.dataset \notin ClearDatasets
  PROVE  SessionsAreSound'
<1> DEFINE held == [at |-> "locked", request |-> r]
<1>1. DOMAIN reportSession' = ReportSessions /\ reportSession'[s] = held
  BY DEF SessionsAreSound, Locked
<1>2. \A t \in ReportSessions : t # s => reportSession'[t] = reportSession[t]
  BY DEF SessionsAreSound, Locked
<1>3. \A key : Created(key)' = Created(key)
  BY DEF Created, Rows, Row
<1>4. \A t \in ReportSessions :
        ~(/\ reportSession[t].at = "locked"
          /\ reportSession[t].request.op = r.op /\ reportSession[t].request.key = r.key)
  BY DEF LockIsFree
<1>5. held.at = "locked" /\ held.request = r
  OBVIOUS
<1> HIDE DEF held
<1>6. ASSUME NEW t \in ReportSessions PROVE SessionIsSound(t)'
  <2>1. CASE t = s
    <3>1. reportSession'[t] = held
      BY <1>1, <2>1
    <3>2. Created(r.key)' = Created(r.key)
      BY <1>3
    <3>3. \A u \in ReportSessions :
            /\ reportSession'[u].at = "locked"
            /\ reportSession'[u].request.op = r.op /\ reportSession'[u].request.key = r.key
            => u = t
      BY <1>2, <1>4, <2>1
    <3> QED
      BY <1>5, <3>1, <3>2, <3>3 DEF SessionIsSound
  <2>2. CASE t # s
    <3>1. SessionIsSound(t) /\ reportSession'[t] = reportSession[t]
      BY <1>2, <2>2 DEF SessionsAreSound
    <3>2. Created(reportSession[t].request.key)' = Created(reportSession[t].request.key)
      BY <1>3, <3>1
    <3>3. ASSUME reportSession[t].at = "locked", NEW u \in ReportSessions,
                 reportSession'[u].at = "locked",
                 reportSession'[u].request.op = reportSession[t].request.op,
                 reportSession'[u].request.key = reportSession[t].request.key
          PROVE  u = t
      <4>1. u # s
        BY <1>1, <1>4, <1>5, <3>3
      <4> QED
        BY <1>2, <3>1, <3>3, <4>1 DEF SessionIsSound
    <3> QED
      BY <3>1, <3>2, <3>3 DEF SessionIsSound
  <2> QED
    BY <2>1, <2>2
<1> QED
  BY <1>1, <1>6 DEF SessionsAreSound

(* The sessions when nothing they look at changes.                         *)
LEMMA SessionsUntouched ==
  ASSUME SessionsAreSound, UNCHANGED <<export, reportSession>>
  PROVE  SessionsAreSound'
<1>1. \A key : Created(key)' = Created(key)
  BY DEF Created, Rows, Row
<1> QED
  BY <1>1 DEF SessionsAreSound, SessionIsSound

(* An answer stays true while the rows it is about keep what it says.      *)
LEMMA AnswersStay ==
  ASSUME AnswersAreSound, Rows \subseteq Rows',
         \A x \in Rows : /\ Row(x)'.key = Row(x).key /\ Row(x)'.scope = Row(x).scope
                         /\ Row(x).generationKey # {} => Row(x)' = Row(x)
  PROVE  \A a \in reportAnswers : AnswerIsSound(a)'
<1> SUFFICES ASSUME NEW a \in reportAnswers PROVE AnswerIsSound(a)'
  OBVIOUS
<1>1. AnswerIsSound(a)
  BY DEF AnswersAreSound
<1>2. CASE a.op = "create"
  <2>1. PICK x \in Rows :
          /\ Row(x).key = a.key
          /\ a.answer = [export |-> x, status |-> InitialExportStatus(Row(x).scope)]
    BY <1>1, <1>2 DEF AnswerIsSound
  <2>2. x \in Rows' /\ Row(x)'.key = a.key /\ Row(x)'.scope = Row(x).scope
    BY <2>1
  <2> QED
    BY <1>2, <2>1, <2>2 DEF AnswerIsSound, InitialExportStatus
<1>3. CASE a.op = "generate"
  <2>1. PICK x \in Rows :
          /\ Row(x).generationKey = {a.key}
          /\ a.answer = [export |-> x, status |-> "GENERATED", output |-> Row(x).output]
    BY <1>1, <1>3 DEF AnswerIsSound
  <2>2. x \in Rows' /\ Row(x)' = Row(x)
    BY <2>1
  <2> QED
    BY <1>3, <2>1, <2>2 DEF AnswerIsSound
<1>4. CASE a.op \notin {"create", "generate"}
  BY <1>1, <1>4 DEF AnswerIsSound
<1> QED
  BY <1>2, <1>3, <1>4

LEMMA AnswersWhileExportsStand ==
  ASSUME AnswersAreSound, UNCHANGED export
  PROVE  /\ \A a \in reportAnswers : AnswerIsSound(a)'
         /\ \A a : AnswerIsSound(a) => AnswerIsSound(a)'
<1>1. Rows' = Rows /\ \A x : Row(x)' = Row(x)
  BY DEF Rows, Row
<1>2. \A a : AnswerIsSound(a) => AnswerIsSound(a)'
  BY <1>1 DEF AnswerIsSound
<1> QED
  BY <1>2 DEF AnswersAreSound

LEMMA ReportsUntouched ==
  ASSUME ReportsAreSound, UNCHANGED <<reports, actions>> PROVE ReportsAreSound'
BY DEF ReportsAreSound, ReportIsSound, PublicationsOf

-----------------------------------------------------------------------------
(* The three commits on exports.                                           *)

LEMMA CreateKeeps ==
  ASSUME ReportingInv, NEW s \in ReportSessions, NEW x \in Exports, CreateExport(s, x)
  PROVE  ReportingInv'
<1>1. PICK r : r = reportSession[s].request
  OBVIOUS
<1>2. SessionIsSound(s) /\ reportSession[s].at = "locked" /\ r.op = "create"
  BY <1>1 DEF ReportingInv, SessionsAreSound, CreateExport
<1>3. r \in CreateRequests /\ Created(r.key) = {}
  BY <1>1, <1>2 DEF SessionIsSound, CreateRequests, ApproveRequests, GenerateRequests
<1>4. PICK row : row =
        [status |-> InitialExportStatus(r.scope), scope |-> r.scope, content |-> r.content,
         requester |-> r.actor, approver |-> Nobody, generator |-> Nobody,
         output |-> {}, key |-> r.key, generationKey |-> {}]
  OBVIOUS
<1>5. /\ export[x] = {} /\ export' = [export EXCEPT ![x] = {row}]
      /\ audited' = audited \cup {IntentBy(x, "CREATE_SECURE_EXPORT", r.actor)}
      /\ exportEvents' = exportEvents
      /\ UNCHANGED <<reports, actions>>
      /\ reportAnswers' = reportAnswers \cup
           {[op |-> r.op, key |-> r.key,
             answer |-> [export |-> x, status |-> InitialExportStatus(r.scope)]]}
      /\ Closed(s)
  BY <1>1, <1>4 DEF CreateExport, IntentBy, Answered, reportVars
<1>6. DOMAIN export = Exports
  BY DEF ReportingInv, ExportLives
<1>7. /\ DOMAIN export' = Exports /\ export'[x] = {row} /\ Row(x)' = row
      /\ \A y \in Exports : y # x => export'[y] = export[y] /\ Row(y)' = Row(y)
      /\ Rows' = Rows \cup {x}
  BY <1>5, <1>6, OneRowWritten
<1>8. row \in ExportRows /\ row.key = r.key /\ row.scope = r.scope
  BY <1>3, <1>4 DEF ExportRows, CreateRequests, InitialExportStatus, Scopes, Statuses
<1>9. x \notin Rows /\ Rows \subseteq Exports
  BY <1>5 DEF Rows
<1>10. ExportLives'
  <2>1. ExportLife(x, export[x], ExportEventsOf(x), ExportIntentsOf(x))
    BY DEF ReportingInv, ExportLives
  <2>2. ExportEventsOf(x) = {} /\ ExportIntentsOf(x) = {}
    BY <1>5, <2>1 DEF ExportLife
  <2>3. ExportEventsOf(x)' = {}
    BY <1>5, <2>2 DEF ExportEventsOf
  <2>4. ExportIntentsOf(x)' = {IntentBy(x, "CREATE_SECURE_EXPORT", r.actor)}
    BY <1>5, <2>2 DEF ExportIntentsOf, IntentBy
  <2>5. ~IsBulk(row) /\ row.status # "GENERATED" /\ RowIsSound(row, r.key)
        /\ row.requester = r.actor
    BY <1>3, <1>4 DEF IsBulk, RowIsSound, InitialExportStatus, CreateRequests, Scopes
  <2>6. /\ EventsBehind(x, row, r.key, r.key) = {}
        /\ IntentsBehind(x, row) = {IntentBy(x, "CREATE_SECURE_EXPORT", r.actor)}
    BY <2>5 DEF EventsBehind, IntentsBehind
  <2>7. r.key \in ReportKeys
    BY <1>3 DEF CreateRequests
  <2>8. ExportLife(x, export'[x], ExportEventsOf(x)', ExportIntentsOf(x)')
    BY <1>7, <1>8, <2>3, <2>4, <2>5, <2>6, <2>7 DEF ExportLife
  <2>9. ASSUME NEW y \in Exports, y # x
        PROVE  ExportLife(y, export'[y], ExportEventsOf(y)', ExportIntentsOf(y)')
    <3>1. ExportEventsOf(y)' = ExportEventsOf(y) /\ ExportIntentsOf(y)' = ExportIntentsOf(y)
      BY <1>5, <2>9 DEF ExportEventsOf, ExportIntentsOf, IntentBy
    <3> QED
      BY <1>7, <2>9, <3>1 DEF ReportingInv, ExportLives
  <2> QED
    BY <1>7, <2>8, <2>9 DEF ExportLives
<1>11. ExportKeysAreUnique'
  <2>1. \A y \in Rows : Row(y).key # r.key
    BY <1>3 DEF Created
  <2>2. \A y \in Rows : Row(y)' = Row(y) /\ y # x
    BY <1>7, <1>9
  <2> QED
    BY <1>5, <1>7, <1>8, <2>1, <2>2 DEF ReportingInv, ExportKeysAreUnique
<1>12. SessionsAreSound'
  <2>1. ASSUME NEW t \in ReportSessions, t # s, reportSession[t].at = "locked",
               reportSession[t].request.op = "create"
        PROVE  Created(reportSession[t].request.key)' = {}
    <3>1. SessionIsSound(t) /\ reportSession'[t] = reportSession[t]
      BY <1>5, <2>1 DEF ReportingInv, SessionsAreSound, Closed
    <3>2. Created(reportSession[t].request.key) = {} /\ reportSession[t].request.key # r.key
      BY <1>1, <1>2, <2>1, <3>1 DEF SessionIsSound
    <3> QED
      BY <1>7, <1>8, <1>9, <3>1, <3>2 DEF Created
  <2> QED
    BY <1>5, <2>1, ClosingSession DEF ReportingInv
<1>13. AnswersAreSound'
  <2>1. \A a \in reportAnswers : AnswerIsSound(a)'
    BY <1>7, <1>9, AnswersStay DEF ReportingInv
  <2>2. x \in Rows' /\ Row(x)'.key = r.key /\ Row(x)'.scope = r.scope
    BY <1>7, <1>8
  <2>3. PICK a : a = [op |-> r.op, key |-> r.key,
             answer |-> [export |-> x, status |-> InitialExportStatus(r.scope)]]
    OBVIOUS
  <2>4. AnswerIsSound(a)'
    BY <1>2, <2>2, <2>3 DEF AnswerIsSound, InitialExportStatus
  <2> QED
    BY <1>5, <2>1, <2>3, <2>4 DEF AnswersAreSound
<1> QED
  BY <1>5, <1>10, <1>11, <1>12, <1>13, ReportsUntouched DEF ReportingInv

(* What the approval and the generation of an export have in common.       *)
LEMMA RowChanged ==
  ASSUME ReportingInv, NEW s \in ReportSessions, NEW x \in Rows, NEW row \in ExportRows,
         NEW e, NEW i, NEW k \in ReportKeys,
         Row(x).generationKey = {},
         row.key = Row(x).key, row.scope = Row(x).scope,
         export' = [export EXCEPT ![x] = {row}],
         exportEvents' = exportEvents \cup {e}, e.export = x, e.key = k, EventOf(k) = {},
         audited' = audited \cup {i}, i.export = x,
         ExportLife(x, {row}, ExportEventsOf(x) \cup {e}, ExportIntentsOf(x) \cup {i}),
         UNCHANGED <<reports, actions>>, Closed(s)
  PROVE  /\ ExportLives' /\ ExportKeysAreUnique' /\ SessionsAreSound' /\ ReportsAreSound'
         /\ \A a \in reportAnswers : AnswerIsSound(a)'
         /\ x \in Rows' /\ Row(x)' = row
<1>1. DOMAIN export = Exports /\ x \in Exports
  BY DEF ReportingInv, ExportLives, Rows
<1>2. /\ DOMAIN export' = Exports /\ export'[x] = {row} /\ Row(x)' = row
      /\ \A y \in Exports : y # x => export'[y] = export[y] /\ Row(y)' = Row(y)
      /\ Rows' = Rows \cup {x}
  BY <1>1, OneRowWritten
<1>3. Rows' = Rows /\ Rows \subseteq Exports
  BY <1>2 DEF Rows
<1>4. \A y \in Rows : Row(y)'.key = Row(y).key /\ Row(y)'.scope = Row(y).scope
                      /\ (Row(y).generationKey # {} => Row(y)' = Row(y))
  BY <1>2, <1>3
<1>5. ExportLives'
  <2>1. /\ ExportEventsOf(x)' = ExportEventsOf(x) \cup {e}
        /\ ExportIntentsOf(x)' = ExportIntentsOf(x) \cup {i}
    BY DEF ExportEventsOf, ExportIntentsOf
  <2>2. ExportLife(x, export'[x], ExportEventsOf(x)', ExportIntentsOf(x)')
    BY <1>2, <2>1
  <2>3. ASSUME NEW y \in Exports, y # x
        PROVE  ExportLife(y, export'[y], ExportEventsOf(y)', ExportIntentsOf(y)')
    <3>1. ExportEventsOf(y)' = ExportEventsOf(y) /\ ExportIntentsOf(y)' = ExportIntentsOf(y)
      BY <2>3 DEF ExportEventsOf, ExportIntentsOf
    <3> QED
      BY <1>2, <2>3, <3>1 DEF ReportingInv, ExportLives
  <2> QED
    BY <1>2, <2>2, <2>3 DEF ExportLives
<1>6. ExportKeysAreUnique'
  <2>1. \A f \in exportEvents : f.key # k
    BY DEF EventOf
  <2>2. \A f, g \in exportEvents' : f.key = g.key => f = g
    BY <2>1 DEF ReportingInv, ExportKeysAreUnique
  <2>3. \A y, z \in Rows' : Row(y)'.key = Row(z)'.key => y = z
    BY <1>3, <1>4 DEF ReportingInv, ExportKeysAreUnique
  <2>4. \A f \in exportEvents' : f.export \in Exports
    BY <1>1 DEF ReportingInv, ExportKeysAreUnique
  <2> QED
    BY <2>2, <2>3, <2>4 DEF ExportKeysAreUnique
<1>7. SessionsAreSound'
  <2>1. \A key : {y \in Rows' : Row(y)'.key = key} = Created(key)
    BY <1>3, <1>4 DEF Created
  <2>2. ASSUME NEW t \in ReportSessions, t # s, reportSession[t].at = "locked",
               reportSession[t].request.op = "create"
        PROVE  Created(reportSession[t].request.key)' = {}
    <3>1. SessionIsSound(t) /\ reportSession'[t] = reportSession[t]
      BY <2>2 DEF ReportingInv, SessionsAreSound, Closed
    <3>2. Created(reportSession[t].request.key) = {}
      BY <2>2, <3>1 DEF SessionIsSound
    <3> QED
      BY <2>1, <3>1, <3>2 DEF Created
  <2>3. SessionsAreSound
    BY DEF ReportingInv
  <2> QED
    BY <2>2, <2>3, ClosingSession
<1>8. \A a \in reportAnswers : AnswerIsSound(a)'
  BY <1>3, <1>4, AnswersStay DEF ReportingInv
<1> QED
  BY <1>2, <1>3, <1>5, <1>6, <1>7, <1>8, ReportsUntouched DEF ReportingInv

LEMMA ApproveKeeps ==
  ASSUME ReportingInv, NEW s \in ReportSessions, ApproveExport(s)
  PROVE  ReportingInv'
<1>1. PICK r : r = reportSession[s].request
  OBVIOUS
<1>2. SessionIsSound(s) /\ reportSession[s].at = "locked" /\ r.op = "approve"
  BY <1>1 DEF ReportingInv, SessionsAreSound, ApproveExport
<1>3. r \in ApproveRequests
  BY <1>1, <1>2 DEF SessionIsSound, CreateRequests, ApproveRequests, GenerateRequests
<1>4. r.export \in Rows
  BY <1>1 DEF ApproveExport
<1>5. PICK x \in Rows : x = r.export
  BY <1>4
<1>6. PICK old : old = Row(x)
  OBVIOUS
<1>7. PICK row : row = [old EXCEPT !.status = "APPROVED", !.approver = r.actor]
  OBVIOUS
<1>8. PICK e : e = ApprovalBy(x, row, r.key)
  OBVIOUS
<1>9. PICK i : i = IntentBy(x, "APPROVE_MASS_EXPORT", row.approver)
  OBVIOUS
<1>10. x \in Exports /\ export[x] = {old} /\ old \in ExportRows
  BY <1>6, LifeFacts DEF ReportingInv
<1>11. PICK a \in ReportKeys, g \in ReportKeys :
         /\ RowIsSound(old, g)
         /\ ExportEventsOf(x) = EventsBehind(x, old, a, g)
         /\ ExportIntentsOf(x) = IntentsBehind(x, old)
  BY <1>6, LifeFacts DEF ReportingInv
<1>12. Approvable(old, r.actor) /\ EventOf(r.key) = {}
  BY <1>1, <1>5, <1>6 DEF ApproveExport
<1>13. /\ row \in ExportRows /\ row.key = old.key /\ row.scope = old.scope
       /\ row.approver = r.actor /\ row.status = "APPROVED" /\ row.requester = old.requester
       /\ row.generationKey = old.generationKey
  BY <1>3, <1>7, <1>10 DEF ExportRows, ApproveRequests, Statuses
<1>14. /\ export' = [export EXCEPT ![x] = {row}]
       /\ exportEvents' = exportEvents \cup {e}
       /\ audited' = audited \cup {i}
       /\ reportAnswers' = reportAnswers \cup
            {[op |-> r.op, key |-> r.key, answer |-> [status |-> "APPROVED"]]}
       /\ UNCHANGED <<reports, actions>> /\ Closed(s)
  BY <1>1, <1>5, <1>6, <1>7, <1>8, <1>9, <1>13
     DEF ApproveExport, ApprovalBy, IntentBy, Answered, reportVars
<1>15. e.export = x /\ e.key = r.key /\ i.export = x /\ r.key \in ReportKeys
  BY <1>3, <1>8, <1>9 DEF ApprovalBy, IntentBy, ApproveRequests
<1>16. ExportLife(x, {row}, ExportEventsOf(x) \cup {e}, ExportIntentsOf(x) \cup {i})
  <2>1. ~IsBulk(old) /\ old.status # "GENERATED" /\ IsBulk(row) /\ row.status # "GENERATED"
    BY <1>12, <1>13 DEF Approvable, IsBulk
  <2>2. RowIsSound(row, g)
    BY <1>11, <1>12, <1>13 DEF Approvable, RowIsSound
  <2>3. ExportEventsOf(x) \cup {e} = EventsBehind(x, row, r.key, g)
    BY <1>8, <1>11, <2>1 DEF EventsBehind
  <2>4. ExportIntentsOf(x) \cup {i} = IntentsBehind(x, row)
    BY <1>9, <1>11, <1>13, <2>1 DEF IntentsBehind
  <2> QED
    BY <1>13, <1>15, <2>2, <2>3, <2>4 DEF ExportLife
<1>17. old.generationKey = {}
  BY <1>11, <1>12 DEF Approvable, RowIsSound
<1>18. /\ ExportLives' /\ ExportKeysAreUnique' /\ SessionsAreSound' /\ ReportsAreSound'
       /\ \A b \in reportAnswers : AnswerIsSound(b)'
  <2>1. /\ Row(x).generationKey = {} /\ row \in ExportRows
        /\ row.key = Row(x).key /\ row.scope = Row(x).scope
    BY <1>6, <1>13, <1>17
  <2>2. e.export = x /\ e.key = r.key /\ EventOf(r.key) = {} /\ i.export = x
    BY <1>12, <1>15
  <2>3. PICK k \in ReportKeys : k = r.key
    BY <1>15
  <2>4. e.key = k /\ EventOf(k) = {}
    BY <2>2, <2>3
  <2> QED
    BY <1>14, <1>16, <2>1, <2>2, <2>4, RowChanged
<1>19. AnswersAreSound'
  BY <1>2, <1>14, <1>18 DEF AnswersAreSound, AnswerIsSound
<1> QED
  BY <1>18, <1>19 DEF ReportingInv

LEMMA GenerateKeeps ==
  ASSUME ReportingInv, NEW s \in ReportSessions, GenerateExport(s)
  PROVE  ReportingInv'
<1>1. PICK r : r = reportSession[s].request
  OBVIOUS
<1>2. SessionIsSound(s) /\ reportSession[s].at = "locked" /\ r.op = "generate"
  BY <1>1 DEF ReportingInv, SessionsAreSound, GenerateExport
<1>3. r \in GenerateRequests /\ r.dataset \notin ClearDatasets
  BY <1>1, <1>2 DEF SessionIsSound, CreateRequests, ApproveRequests, GenerateRequests
<1>4. r.export \in Rows
  BY <1>1 DEF GenerateExport
<1>5. PICK x \in Rows : x = r.export
  BY <1>4
<1>6. PICK old : old = Row(x)
  OBVIOUS
<1>7. PICK row : row = [old EXCEPT !.status = "GENERATED", !.generator = r.actor,
                                   !.output = {r.dataset}, !.generationKey = {r.key}]
  OBVIOUS
<1>8. PICK e : e = GenerationBy(x, row, r.key)
  OBVIOUS
<1>9. PICK i : i = IntentBy(x, "GENERATE_SECURE_EXPORT", row.requester)
  OBVIOUS
<1>10. x \in Exports /\ export[x] = {old} /\ old \in ExportRows
  BY <1>6, LifeFacts DEF ReportingInv
<1>11. PICK a \in ReportKeys, g \in ReportKeys :
         /\ RowIsSound(old, g)
         /\ ExportEventsOf(x) = EventsBehind(x, old, a, g)
         /\ ExportIntentsOf(x) = IntentsBehind(x, old)
  BY <1>6, LifeFacts DEF ReportingInv
<1>12. Generable(old, r.actor) /\ EventOf(r.key) = {}
  BY <1>1, <1>5, <1>6 DEF GenerateExport
<1>13. /\ row \in ExportRows /\ row.key = old.key /\ row.scope = old.scope
       /\ row.approver = old.approver /\ row.status = "GENERATED"
       /\ row.requester = old.requester /\ row.requester = r.actor /\ row.generator = r.actor
       /\ row.output = {r.dataset} /\ row.generationKey = {r.key}
  BY <1>3, <1>7, <1>10, <1>12 DEF ExportRows, GenerateRequests, Statuses, Generable
<1>14. /\ export' = [export EXCEPT ![x] = {row}]
       /\ exportEvents' = exportEvents \cup {e}
       /\ audited' = audited \cup {i}
       /\ reportAnswers' = reportAnswers \cup
            {[op |-> r.op, key |-> r.key,
              answer |-> [export |-> x, status |-> "GENERATED", output |-> {r.dataset}]]}
       /\ UNCHANGED <<reports, actions>> /\ Closed(s)
  BY <1>1, <1>5, <1>6, <1>7, <1>8, <1>9, <1>13
     DEF GenerateExport, GenerationBy, IntentBy, Answered, reportVars
<1>15. e.export = x /\ e.key = r.key /\ i.export = x /\ r.key \in ReportKeys
  BY <1>3, <1>8, <1>9 DEF GenerationBy, IntentBy, GenerateRequests
<1>16. ExportLife(x, {row}, ExportEventsOf(x) \cup {e}, ExportIntentsOf(x) \cup {i})
  <2>1. /\ old.status # "GENERATED" /\ row.status = "GENERATED" /\ (IsBulk(row) <=> IsBulk(old))
    BY <1>12, <1>13 DEF Generable, IsBulk
  <2>2. RowIsSound(row, r.key)
    BY <1>3, <1>11, <1>12, <1>13 DEF Generable, RowIsSound, IsBulk
  <2>3. ExportEventsOf(x) \cup {e} = EventsBehind(x, row, a, r.key)
    BY <1>8, <1>11, <1>13, <2>1 DEF EventsBehind, ApprovalBy
  <2>4. ExportIntentsOf(x) \cup {i} = IntentsBehind(x, row)
    BY <1>9, <1>11, <1>13, <2>1 DEF IntentsBehind
  <2> QED
    BY <1>13, <1>15, <2>2, <2>3, <2>4 DEF ExportLife
<1>17. old.generationKey = {}
  BY <1>11, <1>12 DEF Generable, RowIsSound
<1>18. /\ ExportLives' /\ ExportKeysAreUnique' /\ SessionsAreSound' /\ ReportsAreSound'
       /\ \A b \in reportAnswers : AnswerIsSound(b)'
       /\ x \in Rows' /\ Row(x)' = row
  <2>1. /\ Row(x).generationKey = {} /\ row \in ExportRows
        /\ row.key = Row(x).key /\ row.scope = Row(x).scope
    BY <1>6, <1>13, <1>17
  <2>2. e.export = x /\ e.key = r.key /\ EventOf(r.key) = {} /\ i.export = x
    BY <1>12, <1>15
  <2>3. PICK k \in ReportKeys : k = r.key
    BY <1>15
  <2>4. e.key = k /\ EventOf(k) = {}
    BY <2>2, <2>3
  <2> QED
    BY <1>14, <1>16, <2>1, <2>2, <2>4, RowChanged
<1>19. AnswersAreSound'
  <2>1. PICK b : b = [op |-> r.op, key |-> r.key,
              answer |-> [export |-> x, status |-> "GENERATED", output |-> {r.dataset}]]
    OBVIOUS
  <2>2. AnswerIsSound(b)'
    BY <1>2, <1>13, <1>18, <2>1 DEF AnswerIsSound
  <2> QED
    BY <1>14, <1>18, <2>1, <2>2 DEF AnswersAreSound
<1> QED
  BY <1>18, <1>19 DEF ReportingInv

-----------------------------------------------------------------------------
(* The look-ups under the lock.                                            *)

(* A look-up leaves the tables alone: it locks, or answers.                *)
LEMMA LookUpKeeps ==
  ASSUME ReportingInv, UNCHANGED <<exportVars, reportVars>>, SessionsAreSound',
         \A a \in reportAnswers' \ reportAnswers : AnswerIsSound(a)
  PROVE  ReportingInv'
<1>1. UNCHANGED <<export, exportEvents, audited, reports, actions>>
  BY DEF exportVars, reportVars
<1>2. ExportLives' /\ ExportKeysAreUnique'
  BY <1>1, ExportsUntouched DEF ReportingInv
<1>3. ReportsAreSound'
  BY <1>1, ReportsUntouched DEF ReportingInv
<1>4. /\ \A a \in reportAnswers : AnswerIsSound(a)'
      /\ \A a : AnswerIsSound(a) => AnswerIsSound(a)'
  BY <1>1, AnswersWhileExportsStand DEF ReportingInv
<1>5. AnswersAreSound'
  BY <1>4 DEF AnswersAreSound
<1> QED
  BY <1>2, <1>3, <1>5 DEF ReportingInv

LEMMA BeginCreateKeeps ==
  ASSUME ReportingInv, NEW s \in ReportSessions, NEW r \in CreateRequests, BeginCreate(s, r)
  PROVE  ReportingInv'
<1>1. r.op = "create" /\ UNCHANGED <<exportVars, reportVars>> /\ export' = export
  BY DEF BeginCreate, CreateRequests, exportVars
<1>2. CASE Created(r.key) = {} /\ Locked(s, r) /\ reportAnswers' = reportAnswers
  <2>1. LockIsFree(r) /\ ~Open(s)
    BY DEF BeginCreate
  <2>2. SessionsAreSound'
    BY <1>1, <1>2, <2>1, LockingSession DEF ReportingInv
  <2> QED
    BY <1>1, <1>2, <2>2, LookUpKeeps
<1>3. ASSUME NEW x \in Created(r.key), SameCreation(Row(x), r), Answered(r, CreationAnswer(x, r)),
             reportSession' = reportSession
      PROVE  ReportingInv'
  <2>1. SessionsAreSound'
    BY <1>1, <1>3, SessionsUntouched DEF ReportingInv
  <2>2. PICK a : a = [op |-> r.op, key |-> r.key, answer |-> CreationAnswer(x, r)]
    OBVIOUS
  <2>3. x \in Rows /\ Row(x).key = r.key /\ Row(x).scope = r.scope
    BY <1>3 DEF Created, SameCreation
  <2>4. AnswerIsSound(a)
    BY <1>1, <2>2, <2>3 DEF AnswerIsSound, CreationAnswer
  <2>5. reportAnswers' = reportAnswers \cup {a}
    BY <1>3, <2>2 DEF Answered
  <2> QED
    BY <1>1, <2>1, <2>4, <2>5, LookUpKeeps
<1> QED
  BY <1>2, <1>3 DEF BeginCreate

LEMMA BeginApproveKeeps ==
  ASSUME ReportingInv, NEW s \in ReportSessions, NEW r \in ApproveRequests, BeginApprove(s, r)
  PROVE  ReportingInv'
<1>1. r.op = "approve" /\ UNCHANGED <<exportVars, reportVars>> /\ export' = export
  BY DEF BeginApprove, ApproveRequests, exportVars
<1>2. CASE Locked(s, r) /\ reportAnswers' = reportAnswers
  <2>1. LockIsFree(r) /\ ~Open(s)
    BY DEF BeginApprove
  <2>2. SessionsAreSound'
    BY <1>1, <1>2, <2>1, LockingSession DEF ReportingInv
  <2> QED
    BY <1>1, <1>2, <2>2, LookUpKeeps
<1>3. ASSUME NEW e \in EventOf(r.key), e.action = "REINFORCED_APPROVAL",
             Answered(r, [status |-> e.result]), reportSession' = reportSession
      PROVE  ReportingInv'
  <2>1. SessionsAreSound'
    BY <1>1, <1>3, SessionsUntouched DEF ReportingInv
  <2>2. PICK x : x = e.export
    OBVIOUS
  <2>3. x \in Exports /\ e \in ExportEventsOf(x)
    BY <1>3, <2>2 DEF EventOf, ExportEventsOf, ReportingInv, ExportKeysAreUnique
  <2>4. ExportLife(x, export[x], ExportEventsOf(x), ExportIntentsOf(x))
    BY <2>3 DEF ReportingInv, ExportLives
  <2>5. PICK row, a, g : ExportEventsOf(x) = EventsBehind(x, row, a, g)
    BY <2>3, <2>4 DEF ExportLife
  <2>6. e.result = "APPROVED"
    BY <1>3, <2>3, <2>5 DEF EventsBehind, ApprovalBy, GenerationBy
  <2>7. PICK b : b = [op |-> r.op, key |-> r.key, answer |-> [status |-> e.result]]
    OBVIOUS
  <2>8. AnswerIsSound(b)
    BY <1>1, <2>6, <2>7 DEF AnswerIsSound
  <2>9. reportAnswers' = reportAnswers \cup {b}
    BY <1>3, <2>7 DEF Answered
  <2> QED
    BY <1>1, <2>1, <2>8, <2>9, LookUpKeeps
<1> QED
  BY <1>2, <1>3 DEF BeginApprove

LEMMA BeginGenerateKeeps ==
  ASSUME ReportingInv, NEW s \in ReportSessions, NEW r \in GenerateRequests, BeginGenerate(s, r)
  PROVE  ReportingInv'
<1>1. r.op = "generate" /\ UNCHANGED <<exportVars, reportVars>> /\ export' = export
  BY DEF BeginGenerate, GenerateRequests, exportVars
<1>2. CASE Locked(s, r) /\ reportAnswers' = reportAnswers
  <2>1. LockIsFree(r) /\ ~Open(s) /\ r.dataset \notin ClearDatasets
    BY DEF BeginGenerate
  <2>2. SessionsAreSound'
    BY <1>1, <1>2, <2>1, LockingSession DEF ReportingInv
  <2> QED
    BY <1>1, <1>2, <2>2, LookUpKeeps
<1>3. ASSUME NEW x \in Generated(r.key), reportSession' = reportSession,
             Answered(r, [export |-> x, status |-> "GENERATED", output |-> Row(x).output])
      PROVE  ReportingInv'
  <2>1. SessionsAreSound'
    BY <1>1, <1>3, SessionsUntouched DEF ReportingInv
  <2>2. PICK b : b = [op |-> r.op, key |-> r.key,
                      answer |-> [export |-> x, status |-> "GENERATED", output |-> Row(x).output]]
    OBVIOUS
  <2>3. AnswerIsSound(b)
    BY <1>1, <1>3, <2>2 DEF AnswerIsSound, Generated
  <2>4. reportAnswers' = reportAnswers \cup {b}
    BY <1>3, <2>2 DEF Answered
  <2> QED
    BY <1>1, <2>1, <2>3, <2>4, LookUpKeeps
<1> QED
  BY <1>2, <1>3 DEF BeginGenerate

(* A session that closes while the exports stay as they are.               *)
LEMMA ClosingAlone ==
  ASSUME SessionsAreSound, UNCHANGED export, NEW s \in ReportSessions, Closed(s)
  PROVE  SessionsAreSound'
<1>1. ASSUME NEW t \in ReportSessions, t # s, reportSession[t].at = "locked",
             reportSession[t].request.op = "create"
      PROVE  Created(reportSession[t].request.key)' = {}
  <2>1. SessionIsSound(t) /\ reportSession'[t] = reportSession[t]
    BY <1>1 DEF SessionsAreSound, Closed
  <2>2. Created(reportSession[t].request.key) = {}
    BY <1>1, <2>1 DEF SessionIsSound
  <2> QED
    BY <2>1, <2>2 DEF Created, Rows, Row
<1> QED
  BY <1>1, ClosingSession

LEMMA RollbackReportKeeps ==
  ASSUME ReportingInv, NEW s \in ReportSessions, RollbackReport(s) PROVE ReportingInv'
<1>1. Closed(s) /\ UNCHANGED <<exportVars, reportVars, reportAnswers>> /\ export' = export
  BY DEF RollbackReport, exportVars
<1>2. SessionsAreSound'
  BY <1>1, ClosingAlone DEF ReportingInv
<1> QED
  BY <1>1, <1>2, LookUpKeeps

LEMMA ExpireKeeps ==
  ASSUME ReportingInv, NEW x, Expire(x) PROVE ReportingInv'
<1>1. UNCHANGED <<export, exportEvents, audited, reports, actions, reportSession, reportAnswers>>
  BY DEF Expire, reportVars
<1>2. ExportLives' /\ ExportKeysAreUnique'
  BY <1>1, ExportsUntouched DEF ReportingInv
<1>3. ReportsAreSound' /\ SessionsAreSound'
  BY <1>1, ReportsUntouched, SessionsUntouched DEF ReportingInv
<1>4. AnswersAreSound'
  BY <1>1, AnswersWhileExportsStand DEF ReportingInv, AnswersAreSound
<1> QED
  BY <1>2, <1>3, <1>4 DEF ReportingInv

-----------------------------------------------------------------------------
(* Regulatory reports.                                                     *)

(* A session that is about to insert or to publish a report.               *)
LEMMA PreparingSession ==
  ASSUME SessionsAreSound, UNCHANGED export, NEW s \in ReportSessions, ~Open(s), NEW next,
         reportSession' = [reportSession EXCEPT ![s] = next],
         \/ /\ next.at = "read" /\ next.counts = SnapshotOf(next.sources)
            /\ next.actor \in ReportActors
         \/ next.at = "publishing" /\ next.request \in PublishRequests
  PROVE  SessionsAreSound'
<1>1. DOMAIN reportSession' = ReportSessions /\ reportSession'[s] = next /\ next.at # "locked"
  BY DEF SessionsAreSound
<1>2. \A t \in ReportSessions : t # s => reportSession'[t] = reportSession[t]
  BY DEF SessionsAreSound
<1>3. \A t \in ReportSessions : reportSession'[t].at = "locked" =>
        reportSession'[t] = reportSession[t]
  BY <1>1, <1>2
<1>4. \A key : {x \in Rows' : Row(x)'.key = key} = Created(key)
  BY DEF Created, Rows, Row
<1>5. ASSUME NEW t \in ReportSessions PROVE SessionIsSound(t)'
  <2>1. CASE t = s
    BY <1>1, <2>1 DEF SessionIsSound, SnapshotOf
  <2>2. CASE t # s
    <3>1. SessionIsSound(t) /\ reportSession'[t] = reportSession[t]
      BY <1>2, <2>2 DEF SessionsAreSound
    <3>2. Created(reportSession[t].request.key)' = Created(reportSession[t].request.key)
      BY <1>4, <3>1 DEF Created
    <3> QED
      BY <1>3, <3>1, <3>2 DEF SessionIsSound
  <2> QED
    BY <2>1, <2>2
<1> QED
  BY <1>1, <1>5 DEF SessionsAreSound

LEMMA ReadSourcesKeeps ==
  ASSUME ReportingInv, NEW s \in ReportSessions, NEW a \in ReportActors, ReadSources(s, a)
  PROVE  ReportingInv'
<1>1. UNCHANGED <<exportVars, reportVars, reportAnswers>> /\ export' = export /\ ~Open(s)
  BY DEF ReadSources, exportVars
<1>2. PICK next : next = [at |-> "read", actor |-> a, sources |-> facts, counts |-> SnapshotOf(facts)]
  OBVIOUS
<1>3. reportSession' = [reportSession EXCEPT ![s] = next]
  BY <1>2 DEF ReadSources
<1>4. next.at = "read" /\ next.counts = SnapshotOf(next.sources) /\ next.actor \in ReportActors
  BY <1>2
<1>5. SessionsAreSound'
  BY <1>1, <1>3, <1>4, PreparingSession DEF ReportingInv
<1> QED
  BY <1>1, <1>5, LookUpKeeps

LEMMA BeginPublishKeeps ==
  ASSUME ReportingInv, NEW s \in ReportSessions, NEW r \in PublishRequests, BeginPublish(s, r)
  PROVE  ReportingInv'
<1>1. r.op = "publish" /\ UNCHANGED <<exportVars, reportVars>> /\ export' = export /\ ~Open(s)
  BY DEF BeginPublish, PublishRequests, exportVars
<1>2. PICK next : next = [at |-> "publishing", request |-> r]
  OBVIOUS
<1>3. PICK b : b = [op |-> r.op, key |-> r.key, answer |-> [status |-> "PUBLISHED"]]
  OBVIOUS
<1>4. \/ reportSession' = [reportSession EXCEPT ![s] = next] /\ reportAnswers' = reportAnswers
      \/ reportSession' = reportSession /\ reportAnswers' = reportAnswers \cup {b}
  BY <1>2, <1>3 DEF BeginPublish, Answered
<1>5. next.at = "publishing" /\ next.request \in PublishRequests
  BY <1>2
<1>6. CASE reportSession' = [reportSession EXCEPT ![s] = next] /\ reportAnswers' = reportAnswers
  <2>1. SessionsAreSound'
    BY <1>1, <1>5, <1>6, PreparingSession DEF ReportingInv
  <2> QED
    BY <1>1, <1>6, <2>1, LookUpKeeps
<1>7. CASE reportSession' = reportSession /\ reportAnswers' = reportAnswers \cup {b}
  <2>1. SessionsAreSound'
    BY <1>1, <1>7, SessionsUntouched DEF ReportingInv
  <2>2. AnswerIsSound(b)
    BY <1>1, <1>3 DEF AnswerIsSound
  <2> QED
    BY <1>1, <1>7, <2>1, <2>2, LookUpKeeps
<1> QED
  BY <1>4, <1>6, <1>7

LEMMA InsertReportKeeps ==
  ASSUME ReportingInv, NEW s \in ReportSessions, InsertReport(s) PROVE ReportingInv'
<1>1. UNCHANGED <<export, exportEvents, audited, actions, reportAnswers>> /\ Closed(s)
  BY DEF InsertReport, exportVars
<1>2. ExportLives' /\ ExportKeysAreUnique'
  BY <1>1, ExportsUntouched DEF ReportingInv
<1>3. SessionsAreSound'
  BY <1>1, ClosingAlone DEF ReportingInv
<1>4. AnswersAreSound'
  BY <1>1, AnswersWhileExportsStand DEF ReportingInv, AnswersAreSound
<1>5. ReportsAreSound'
  <2>1. CASE reports' = reports
    BY <1>1, <2>1, ReportsUntouched DEF ReportingInv
  <2>2. CASE reports' # reports
    <3>1. PICK sources : sources = reportSession[s].sources
      OBVIOUS
    <3>2. PICK p : p = [sources |-> reportSession[s].sources, counts |-> reportSession[s].counts,
                        generator |-> reportSession[s].actor, status |-> "GENERATED",
                        publisher |-> Nobody, evidence |-> {}]
      OBVIOUS
    <3>3. ReportWith(sources) = {} /\ reports' = reports \cup {p} /\ p.sources = sources
      BY <2>2, <3>1, <3>2 DEF InsertReport
    <3>4. reportSession[s].counts = SnapshotOf(reportSession[s].sources)
      BY DEF ReportingInv, SessionsAreSound, SessionIsSound, InsertReport
    <3>5. \A q \in reports : q.sources # sources
      BY <3>3 DEF ReportWith
    <3>6. PublicationsOf(sources) = {}
      BY <3>5 DEF PublicationsOf, ReportingInv, ReportsAreSound
    <3>7. \A S : PublicationsOf(S)' = PublicationsOf(S)
      BY <1>1 DEF PublicationsOf
    <3>8. ReportIsSound(p)'
      BY <3>1, <3>2, <3>4, <3>6, <3>7 DEF ReportIsSound
    <3>9. \A q \in reports : ReportIsSound(q)'
      BY <1>1, <3>7 DEF ReportingInv, ReportsAreSound, ReportIsSound
    <3>10. \A q, r \in reports' : q.sources = r.sources => q = r
      BY <3>3, <3>5 DEF ReportingInv, ReportsAreSound
    <3>11. \A a \in actions' : \E q \in reports' : q.sources = a.report
      BY <1>1, <3>3 DEF ReportingInv, ReportsAreSound
    <3> QED
      BY <3>3, <3>8, <3>9, <3>10, <3>11 DEF ReportsAreSound
  <2> QED
    BY <2>1, <2>2
<1> QED
  BY <1>2, <1>3, <1>4, <1>5 DEF ReportingInv

LEMMA PublishReportKeeps ==
  ASSUME ReportingInv, NEW s \in ReportSessions, PublishReport(s) PROVE ReportingInv'
<1>1. PICK r : r = reportSession[s].request
  OBVIOUS
<1>2. r.op = "publish"
  BY <1>1 DEF ReportingInv, SessionsAreSound, SessionIsSound, PublishReport, PublishRequests
<1>3. PICK b : b = [op |-> r.op, key |-> r.key, answer |-> [status |-> "PUBLISHED"]]
  OBVIOUS
<1>4. PICK a : a = [key |-> r.key, report |-> r.report, actor |-> r.actor]
  OBVIOUS
<1>5. /\ UNCHANGED <<export, exportEvents, audited>> /\ Closed(s)
      /\ actions' = actions \cup {a} /\ reportAnswers' = reportAnswers \cup {b}
  BY <1>1, <1>3, <1>4 DEF PublishReport, exportVars, Answered
<1>6. PICK p \in ReportWith(r.report) :
        /\ MayPublish(p, r.actor)
        /\ reports' = (reports \ {p}) \cup
             {[p EXCEPT !.status = "PUBLISHED", !.publisher = r.actor, !.evidence = {r.evidence}]}
  BY <1>1 DEF PublishReport
<1>7. p \in reports /\ p.sources = r.report /\ ReportIsSound(p)
  BY <1>6 DEF ReportWith, ReportingInv, ReportsAreSound
<1>8. PICK q : q = [p EXCEPT !.status = "PUBLISHED", !.publisher = r.actor, !.evidence = {r.evidence}]
  OBVIOUS
<1>9. /\ q = [sources |-> q.sources, counts |-> SnapshotOf(q.sources), generator |-> q.generator,
              status |-> q.status, publisher |-> q.publisher, evidence |-> q.evidence]
      /\ q.sources = r.report /\ q.status = "PUBLISHED" /\ q.publisher = r.actor
      /\ q.generator = p.generator /\ q.evidence # {}
  <2>1. PICK sources, counts, generator, status, publisher, evidence :
          /\ p = [sources |-> sources, counts |-> counts, generator |-> generator,
                  status |-> status, publisher |-> publisher, evidence |-> evidence]
          /\ counts = SnapshotOf(sources)
    BY <1>7 DEF ReportIsSound
  <2> QED
    BY <1>7, <1>8, <2>1
<1>10. PublicationsOf(r.report) = {}
  BY <1>6, <1>7 DEF ReportIsSound, MayPublish
<1>11. PublicationsOf(r.report)' = {a}
  <2>1. \A c \in actions : c.report # r.report
    BY <1>10 DEF PublicationsOf
  <2>2. PICK S : S = r.report
    OBVIOUS
  <2>3. PublicationsOf(S)' = {a}
    BY <1>4, <1>5, <2>1, <2>2 DEF PublicationsOf
  <2> QED
    BY <2>2, <2>3
<1>12. \A c \in reports : c # p => c.sources # r.report
  BY <1>7 DEF ReportingInv, ReportsAreSound
<1>13. ReportsAreSound'
  <2>1. ReportIsSound(q)'
    BY <1>4, <1>5, <1>6, <1>9, <1>11 DEF ReportIsSound, MayPublish
  <2>2. ASSUME NEW c \in reports, c # p PROVE ReportIsSound(c)'
    <3>1. ReportIsSound(c) /\ c.sources # r.report
      BY <1>12, <2>2 DEF ReportingInv, ReportsAreSound
    <3>2. PublicationsOf(c.sources)' = PublicationsOf(c.sources)
      BY <1>4, <1>5, <3>1 DEF PublicationsOf
    <3> QED
      BY <1>5, <3>1, <3>2 DEF ReportIsSound
  <2>3. reports' = (reports \ {p}) \cup {q}
    BY <1>6, <1>8
  <2>4. \A c, d \in reports' : c.sources = d.sources => c = d
    BY <1>9, <1>12, <2>3 DEF ReportingInv, ReportsAreSound
  <2>5. \A c \in actions' : \E d \in reports' : d.sources = c.report
    <3>1. \A c \in actions : \E d \in reports \ {p} : d.sources = c.report
      BY <1>7, <1>10 DEF ReportingInv, ReportsAreSound, PublicationsOf
    <3> QED
      BY <1>4, <1>5, <1>9, <2>3, <3>1
  <2> QED
    BY <2>1, <2>2, <2>3, <2>4, <2>5 DEF ReportsAreSound
<1>14. ExportLives' /\ ExportKeysAreUnique'
  BY <1>5, ExportsUntouched DEF ReportingInv
<1>15. SessionsAreSound'
  BY <1>5, ClosingAlone DEF ReportingInv
<1>16. AnswersAreSound'
  <2>1. AnswerIsSound(b)'
    BY <1>2, <1>3 DEF AnswerIsSound
  <2> QED
    BY <1>5, <2>1, AnswersWhileExportsStand DEF ReportingInv, AnswersAreSound
<1> QED
  BY <1>13, <1>14, <1>15, <1>16 DEF ReportingInv

LEMMA ChangeFactKeeps ==
  ASSUME ReportingInv, NEW f, ChangeFact(f) PROVE ReportingInv'
<1>1. UNCHANGED <<export, exportEvents, audited, reports, actions, reportSession, reportAnswers>>
  BY DEF ChangeFact, exportVars
<1>2. ExportLives' /\ ExportKeysAreUnique'
  BY <1>1, ExportsUntouched DEF ReportingInv
<1>3. ReportsAreSound' /\ SessionsAreSound'
  BY <1>1, ReportsUntouched, SessionsUntouched DEF ReportingInv
<1>4. AnswersAreSound'
  BY <1>1, AnswersWhileExportsStand DEF ReportingInv, AnswersAreSound
<1> QED
  BY <1>2, <1>3, <1>4 DEF ReportingInv

-----------------------------------------------------------------------------
LEMMA ReportingStarts == ReportingInit => ReportingInv
<1> SUFFICES ASSUME ReportingInit PROVE ReportingInv
  OBVIOUS
<1>1. Rows = {}
  BY DEF ReportingInit, Rows
<1>2. ExportLives
  BY DEF ReportingInit, ExportLives, ExportLife, ExportEventsOf, ExportIntentsOf
<1>3. ExportKeysAreUnique
  BY <1>1 DEF ReportingInit, ExportKeysAreUnique
<1>4. SessionsAreSound
  BY DEF ReportingInit, SessionsAreSound, SessionIsSound, NoRequest
<1>5. AnswersAreSound /\ ReportsAreSound
  BY DEF ReportingInit, AnswersAreSound, ReportsAreSound
<1> QED
  BY <1>2, <1>3, <1>4, <1>5 DEF ReportingInv

LEMMA ReportingStep == ReportingInv /\ [ReportingNext]_reportingVars => ReportingInv'
<1> SUFFICES ASSUME ReportingInv, [ReportingNext]_reportingVars PROVE ReportingInv'
  OBVIOUS
<1>1. CASE ExportNext
  <2>1. ASSUME NEW s \in ReportSessions, NEW r \in CreateRequests, BeginCreate(s, r)
        PROVE  ReportingInv'
    BY <2>1, BeginCreateKeeps
  <2>2. ASSUME NEW s \in ReportSessions, NEW r \in ApproveRequests, BeginApprove(s, r)
        PROVE  ReportingInv'
    BY <2>2, BeginApproveKeeps
  <2>3. ASSUME NEW s \in ReportSessions, NEW r \in GenerateRequests, BeginGenerate(s, r)
        PROVE  ReportingInv'
    BY <2>3, BeginGenerateKeeps
  <2>4. ASSUME NEW s \in ReportSessions, NEW x \in Exports, CreateExport(s, x)
        PROVE  ReportingInv'
    BY <2>4, CreateKeeps
  <2>5. ASSUME NEW s \in ReportSessions,
               ApproveExport(s) \/ GenerateExport(s) \/ RollbackReport(s)
        PROVE  ReportingInv'
    BY <2>5, ApproveKeeps, GenerateKeeps, RollbackReportKeeps
  <2>6. ASSUME NEW x \in Exports, Expire(x) PROVE ReportingInv'
    BY <2>6, ExpireKeeps
  <2> QED
    BY <1>1, <2>1, <2>2, <2>3, <2>4, <2>5, <2>6 DEF ExportNext
<1>2. CASE ReportNext
  <2>1. ASSUME NEW s \in ReportSessions, NEW a \in ReportActors, ReadSources(s, a)
        PROVE  ReportingInv'
    BY <2>1, ReadSourcesKeeps
  <2>2. ASSUME NEW s \in ReportSessions, NEW r \in PublishRequests, BeginPublish(s, r)
        PROVE  ReportingInv'
    BY <2>2, BeginPublishKeeps
  <2>3. ASSUME NEW s \in ReportSessions,
               InsertReport(s) \/ PublishReport(s) \/ RollbackReport(s)
        PROVE  ReportingInv'
    BY <2>3, InsertReportKeeps, PublishReportKeeps, RollbackReportKeeps
  <2>4. ASSUME NEW f \in Facts, ChangeFact(f) PROVE ReportingInv'
    BY <2>4, ChangeFactKeeps
  <2> QED
    BY <1>2, <2>1, <2>2, <2>3, <2>4 DEF ReportNext
<1>3. CASE UNCHANGED reportingVars
  <2>1. UNCHANGED <<export, exportEvents, audited, reports, actions, reportSession, reportAnswers>>
    BY <1>3 DEF reportingVars
  <2>2. ExportLives' /\ ExportKeysAreUnique'
    BY <2>1, ExportsUntouched DEF ReportingInv
  <2>3. ReportsAreSound' /\ SessionsAreSound'
    BY <2>1, ReportsUntouched, SessionsUntouched DEF ReportingInv
  <2>4. AnswersAreSound'
    BY <2>1, AnswersWhileExportsStand DEF ReportingInv, AnswersAreSound
  <2> QED
    BY <2>2, <2>3, <2>4 DEF ReportingInv
<1> QED
  BY <1>1, <1>2, <1>3 DEF ReportingNext

LEMMA TheActors ==
  /\ {e.actor : e \in {}} = {}
  /\ \A e : {f.actor : f \in {e}} = {e.actor}
OBVIOUS

LEMMA ExportsFollow == ReportingInv => ExportsAreControlled
<1> SUFFICES ASSUME ReportingInv, NEW x \in Exports
             PROVE  LET attributed(action)  == {e \in exportEvents : e.export = x /\ e.action = action}
                        intents(action) == {i \in audited : i.export = x /\ i.action = action}
                        bulk(row)       == row.scope = "BULK" /\ row.status # "PENDING_REINFORCED_APPROVAL"
                    IN IF export[x] = {} THEN intents("CREATE_SECURE_EXPORT") = {}
       ELSE LET row == Row(x) IN
         /\ row.status \in Statuses
         /\ {i.actor : i \in intents("CREATE_SECURE_EXPORT")} = {row.requester}
         /\ Cardinality(attributed("REINFORCED_APPROVAL")) = (IF bulk(row) THEN 1 ELSE 0)
         /\ {i.actor : i \in intents("APPROVE_MASS_EXPORT")} = {e.actor : e \in attributed("REINFORCED_APPROVAL")}
         /\ bulk(row) => /\ row.approver # row.requester
                         /\ {e.actor : e \in attributed("REINFORCED_APPROVAL")} = {row.approver}
         /\ Cardinality(attributed("GENERATE")) = (IF row.status = "GENERATED" THEN 1 ELSE 0)
         /\ row.status = "GENERATED" =>
              /\ row.generator = row.requester /\ row.output \cap ClearDatasets = {}
              /\ \A e \in attributed("GENERATE") : e.actor = row.requester /\ row.generationKey = {e.key}
  BY DEF ExportsAreControlled
<1> DEFINE E(action) == {e \in exportEvents : e.export = x /\ e.action = action}
           I(action) == {i \in audited : i.export = x /\ i.action = action}
<1>1. /\ \A action : E(action) = {e \in ExportEventsOf(x) : e.action = action}
      /\ \A action : I(action) = {i \in ExportIntentsOf(x) : i.action = action}
  BY DEF ExportEventsOf, ExportIntentsOf
<1>2. ExportLife(x, export[x], ExportEventsOf(x), ExportIntentsOf(x))
  BY DEF ReportingInv, ExportLives
<1>3. CASE export[x] = {}
  BY <1>1, <1>2, <1>3 DEF ExportLife
<1>4. CASE export[x] # {}
  <2>1. x \in Rows
    BY <1>4 DEF Rows
  <2>2. PICK row : row = Row(x)
    OBVIOUS
  <2>3. PICK a \in ReportKeys, g \in ReportKeys :
          /\ RowIsSound(row, g) /\ row \in ExportRows
          /\ ExportEventsOf(x) = EventsBehind(x, row, a, g)
          /\ ExportIntentsOf(x) = IntentsBehind(x, row)
    BY <2>1, <2>2, LifeFacts DEF ReportingInv
  <2>4. E("REINFORCED_APPROVAL") = IF IsBulk(row) THEN {ApprovalBy(x, row, a)} ELSE {}
    BY <1>1, <2>3 DEF EventsBehind, ApprovalBy, GenerationBy
  <2>5. E("GENERATE") = IF row.status = "GENERATED" THEN {GenerationBy(x, row, g)} ELSE {}
    BY <1>1, <2>3 DEF EventsBehind, ApprovalBy, GenerationBy
  <2>6. I("CREATE_SECURE_EXPORT") = {IntentBy(x, "CREATE_SECURE_EXPORT", row.requester)}
    BY <1>1, <2>3 DEF IntentsBehind, IntentBy
  <2>7. I("APPROVE_MASS_EXPORT") =
          IF IsBulk(row) THEN {IntentBy(x, "APPROVE_MASS_EXPORT", row.approver)} ELSE {}
    BY <1>1, <2>3 DEF IntentsBehind, IntentBy
  <2> HIDE DEF E, I
  <2>8. /\ Cardinality(E("REINFORCED_APPROVAL")) = (IF IsBulk(row) THEN 1 ELSE 0)
        /\ Cardinality(E("GENERATE")) = (IF row.status = "GENERATED" THEN 1 ELSE 0)
    BY <2>4, <2>5, FS_EmptySet, FS_Singleton
  <2>9. /\ row.status \in Statuses
        /\ {i.actor : i \in I("CREATE_SECURE_EXPORT")} = {row.requester}
    <3>1. IntentBy(x, "CREATE_SECURE_EXPORT", row.requester).actor = row.requester
      BY DEF IntentBy
    <3>2. row.status \in Statuses
      BY <2>3 DEF ExportRows
    <3> QED
      BY <2>6, <3>1, <3>2, TheActors
  <2>10. {e.actor : e \in E("REINFORCED_APPROVAL")} = IF IsBulk(row) THEN {row.approver} ELSE {}
    <3>1. ApprovalBy(x, row, a).actor = row.approver
      BY DEF ApprovalBy
    <3>2. CASE IsBulk(row)
      BY <2>4, <3>1, <3>2, TheActors
    <3>3. CASE ~IsBulk(row)
      BY <2>4, <3>3, TheActors
    <3> QED
      BY <3>2, <3>3
  <2>11. {i.actor : i \in I("APPROVE_MASS_EXPORT")} = IF IsBulk(row) THEN {row.approver} ELSE {}
    <3>1. IntentBy(x, "APPROVE_MASS_EXPORT", row.approver).actor = row.approver
      BY DEF IntentBy
    <3>2. CASE IsBulk(row)
      BY <2>7, <3>1, <3>2, TheActors
    <3>3. CASE ~IsBulk(row)
      BY <2>7, <3>3, TheActors
    <3> QED
      BY <3>2, <3>3
  <2>12. IsBulk(row) => row.approver # row.requester
    BY <2>3 DEF RowIsSound
  <2>13. row.status = "GENERATED" =>
           /\ row.generator = row.requester /\ row.output \cap ClearDatasets = {}
           /\ \A e \in E("GENERATE") : e.actor = row.requester /\ row.generationKey = {e.key}
    BY <2>3, <2>5 DEF RowIsSound, GenerationBy
  <2> QED
    BY <1>4, <2>2, <2>8, <2>9, <2>10, <2>11, <2>12, <2>13 DEF E, I, IsBulk
<1> QED
  BY <1>3, <1>4

LEMMA ReportsFollow == ReportingInv => ReportsAreConsistent
<1> SUFFICES ASSUME ReportingInv, NEW p \in reports
             PROVE  LET publishing == {a \in actions : a.report = p.sources} IN
                    /\ ReportWith(p.sources) = {p}
                    /\ Cardinality(publishing) = (IF p.status = "PUBLISHED" THEN 1 ELSE 0)
                    /\ p.status = "PUBLISHED" => /\ p.publisher # p.generator /\ p.evidence # {}
                                                 /\ {a.actor : a \in publishing} = {p.publisher}
  BY DEF ReportsAreConsistent
<1>1. ReportIsSound(p)
  BY DEF ReportingInv, ReportsAreSound
<1>2. ReportWith(p.sources) = {p}
  BY DEF ReportingInv, ReportsAreSound, ReportWith
<1>4. CASE p.status = "GENERATED" /\ PublicationsOf(p.sources) = {}
  BY <1>2, <1>4, FS_EmptySet DEF PublicationsOf
<1>5. ASSUME p.status = "PUBLISHED", p.publisher # p.generator, p.evidence # {},
             NEW a \in actions, PublicationsOf(p.sources) = {a}, a.actor = p.publisher
      PROVE  LET publishing == PublicationsOf(p.sources) IN
                    /\ Cardinality(publishing) = (IF p.status = "PUBLISHED" THEN 1 ELSE 0)
                    /\ p.status = "PUBLISHED" => /\ p.publisher # p.generator /\ p.evidence # {}
                                                 /\ {b.actor : b \in publishing} = {p.publisher}
  <2>1. Cardinality(PublicationsOf(p.sources)) = 1
    BY <1>5, FS_Singleton
  <2>2. {b.actor : b \in PublicationsOf(p.sources)} = {p.publisher}
    BY <1>5
  <2> QED
    BY <1>5, <2>1, <2>2
<1> QED
  BY <1>1, <1>2, <1>4, <1>5 DEF ReportIsSound, PublicationsOf

LEMMA AnswersFollow == ReportingInv => AnswersAgree
<1> SUFFICES ASSUME ReportingInv, NEW a \in reportAnswers, NEW b \in reportAnswers,
                    a.op = b.op, a.key = b.key
             PROVE  a.answer = b.answer
  BY DEF AnswersAgree
<1>1. AnswerIsSound(a) /\ AnswerIsSound(b)
  BY DEF ReportingInv, AnswersAreSound
<1>2. \A x, y \in Rows : Row(x).key = Row(y).key => x = y
  BY DEF ReportingInv, ExportKeysAreUnique
<1>3. ASSUME NEW x \in Rows, NEW y \in Rows, Row(x).generationKey = {a.key},
             Row(y).generationKey = {a.key}
      PROVE  x = y
  <2>1. \A z \in {x, y} : \E e \in exportEvents : e.export = z /\ e.key = a.key
    <3>1. SUFFICES ASSUME NEW z \in Rows, Row(z).generationKey = {a.key}
                   PROVE  \E e \in exportEvents : e.export = z /\ e.key = a.key
      BY <1>3
    <3>2. PICK row : row = Row(z)
      OBVIOUS
    <3>3. PICK k \in ReportKeys, g \in ReportKeys :
            RowIsSound(row, g) /\ ExportEventsOf(z) = EventsBehind(z, row, k, g)
      BY <3>2, LifeFacts DEF ReportingInv
    <3>4. row.status = "GENERATED" /\ g = a.key
      BY <3>1, <3>2, <3>3 DEF RowIsSound
    <3>5. GenerationBy(z, row, g) \in ExportEventsOf(z)
      BY <3>3, <3>4 DEF EventsBehind
    <3> QED
      BY <3>4, <3>5 DEF GenerationBy, ExportEventsOf
  <2> QED
    BY <2>1 DEF ReportingInv, ExportKeysAreUnique
<1>4. CASE a.op = "create"
  <2>1. PICK x \in Rows :
          /\ Row(x).key = a.key
          /\ a.answer = [export |-> x, status |-> InitialExportStatus(Row(x).scope)]
    BY <1>1, <1>4 DEF AnswerIsSound
  <2>2. PICK y \in Rows :
          /\ Row(y).key = b.key
          /\ b.answer = [export |-> y, status |-> InitialExportStatus(Row(y).scope)]
    BY <1>1, <1>4 DEF AnswerIsSound
  <2>3. x = y
    BY <1>2, <2>1, <2>2
  <2> QED
    BY <2>1, <2>2, <2>3
<1>5. CASE a.op = "generate"
  <2>1. PICK x \in Rows :
          /\ Row(x).generationKey = {a.key}
          /\ a.answer = [export |-> x, status |-> "GENERATED", output |-> Row(x).output]
    BY <1>1, <1>5 DEF AnswerIsSound
  <2>2. PICK y \in Rows :
          /\ Row(y).generationKey = {a.key}
          /\ b.answer = [export |-> y, status |-> "GENERATED", output |-> Row(y).output]
    BY <1>1, <1>5 DEF AnswerIsSound
  <2>3. x = y
    BY <1>3, <2>1, <2>2
  <2> QED
    BY <2>1, <2>2, <2>3
<1>6. CASE a.op \notin {"create", "generate"}
  BY <1>1, <1>6 DEF AnswerIsSound
<1> QED
  BY <1>4, <1>5, <1>6

(* Whichever requests meet, a bulk export that left PENDING was approved   *)
(* by one event of somebody else and a generated one was generated once,   *)
(* by its requester; there is one report for its sources, published by     *)
(* somebody else; and one key gets one answer (PostgresSecureExport-       *)
(* Repository, PostgresRegulatoryReportRepository).                        *)
THEOREM ReportingStaysConsistent == ReportingSpec => []ReportingIsConsistent
<1>1. ReportingInv => ReportingIsConsistent
  BY ExportsFollow, ReportsFollow, AnswersFollow DEF ReportingIsConsistent
<1> QED
  BY <1>1, ReportingStarts, ReportingStep, PTL DEF ReportingSpec
================================================================================
