---------------------------- MODULE CbsIngestion ----------------------------
(***************************************************************************)
(* The ingestion of core-banking batches: the ingestion worker's message   *)
(* handler and the four repositories it drives.  A manifest registers its  *)
(* batch, its signature is checked, the landed object is loaded and        *)
(* scanned, its rows are staged, controlled and, with tokens in the place  *)
(* of customer references, published as positions.                         *)
(*                                                                         *)
(* Every step is one statement or one transaction; between two of them     *)
(* another worker may handle a message about the same batch, the landed    *)
(* object may be replaced, a product may be published or suspended, and    *)
(* the worker may die or its lease be lost: the message is then handled    *)
(* again from the start, on the state that the batch has reached.          *)
(***************************************************************************)
EXTENDS Integers, Sequences, FiniteSets, Functions

CONSTANTS
  Workers,         \* concurrent handlings of messages
  Manifests,       \* payloads: [batch, key, flow, checksum, object, rowCount, total, hour, signed, wellFormed]
  LandedContents,  \* what an object may hold; the checksum of a content is the content
  RowsOf,          \* content -> its rows, [account, customer, product, currency, opened, business, value, balance]
  NotCsv,          \* contents that the CSV parser refuses
  Infected,        \* contents that the antivirus refuses
  BusinessDate,    \* key -> the business date of the replay key
  Currencies,      \* currencies with a version in force
  Products,        \* product codes
  WindowStart, WindowEnd,  \* hours (UTC) between which manifests are accepted
  NoRow            \* the row number of an issue of the whole batch

\* The parser makes a list of rows of a content; dates are days and balances are minor units
ASSUME IngestionAssumption ==
  \A c \in LandedContents :
    /\ RowsOf[c] \in Seq(Range(RowsOf[c]))
    /\ \A row \in Range(RowsOf[c]) : {row.opened, row.business, row.value, row.balance} \subseteq Int

BatchIds == {m.batch : m \in Manifests}
Objects  == {m.object : m \in Manifests}
Accounts == UNION {{row.account : row \in Range(RowsOf[c])} : c \in LandedContents}

VARIABLES
  batch,      \* integration.cbs_batch, by identifier
  staged,     \* cbs_investment_position_staging: rows with their token and clear reference
  issues,     \* cbs_data_quality_issue: <<batch, row, control>>
  account,    \* investment.account: the attributes of a published account, or nothing
  snapshots,  \* investment.position_snapshot
  events,     \* outbox events pms.cbs.batch.published.v1
  landing,    \* what each landed object holds
  published,  \* products whose status is PUBLISHED
  worker      \* what each handling of a message knows and does next

cbsVars == <<batch, staged, issues, account, snapshots, events, landing, published, worker>>

-----------------------------------------------------------------------------
(* Batches and their states.                                               *)

Terminal == {"PUBLISHED", "QUARANTINED", "REJECTED"}

Transitions ==
  {<<"RECEIVED", "AUTHENTICATED">>, <<"RECEIVED", "REJECTED">>,
   <<"AUTHENTICATED", "SCANNED">>, <<"AUTHENTICATED", "QUARANTINED">>,
   <<"SCANNED", "STAGED">>, <<"SCANNED", "QUARANTINED">>,
   <<"STAGED", "VALIDATED">>, <<"STAGED", "REJECTED">>,
   <<"VALIDATED", "APPROVED">>, <<"VALIDATED", "REJECTED">>,
   <<"APPROVED", "PUBLISHED">>}

States == {"NONE", "RECEIVED", "AUTHENTICATED", "SCANNED", "STAGED", "VALIDATED"} \cup Terminal

\* Mutant: the row is updated whatever state the batch has reached.
CanMoveAnyState(b, expected, next) == batch[b].state # "NONE"

\* UPDATE ... WHERE state IN (expected, next): a row is updated, and the trigger lets it pass
CanMove(b, expected, next) ==
  /\ batch[b].state \in {expected, next}
  /\ batch[b].state = next \/ <<batch[b].state, next>> \in Transitions

Moved(b, next, reason) == [batch EXCEPT ![b].state = next, ![b].reason = reason]

Unregistered == [state |-> "NONE", reason |-> {}]

\* A worker that has no message, and one that goes on to its next step
Resting == [at |-> "idle"]
Goto(w, step) == [worker EXCEPT ![w].at = step]
Ended(w) == [worker EXCEPT ![w] = Resting]

-----------------------------------------------------------------------------
(* What the steps compute.                                                 *)

InsideWindow(hour) ==
  IF WindowStart <= WindowEnd THEN hour >= WindowStart /\ hour <= WindowEnd
                              ELSE hour >= WindowStart \/ hour <= WindowEnd

Authentic(m) == InsideWindow(m.hour) /\ m.signed

\* Two rows with one account and dates break a unique constraint of the staging table
Repeated(rows) == \E i, j \in DOMAIN rows : /\ i # j
                                            /\ rows[i].account = rows[j].account
                                            /\ rows[i].business = rows[j].business
                                            /\ rows[i].value = rows[j].value

Fresh(row) == [row |-> row, token |-> FALSE, clear |-> TRUE]

StagedRows(b) == [i \in DOMAIN staged[b] |-> staged[b][i].row]

\* INSERT ... ON CONFLICT DO UPDATE and the comparison of what the table returns: a reference
\* that publication has erased is a conflict like any other
SameAsStaged(b, rows) ==
  \A i \in DOMAIN rows \cap DOMAIN staged[b] : staged[b][i].row = rows[i] /\ staged[b][i].clear

RowFails(row, date) ==
  {code \in {"BUSINESS_DATE_MISMATCH", "UNKNOWN_CURRENCY", "UNKNOWN_PRODUCT", "INVALID_DATE_CHRONOLOGY"} :
     \/ code = "BUSINESS_DATE_MISMATCH" /\ row.business # date
     \/ code = "UNKNOWN_CURRENCY" /\ row.currency \notin Currencies
     \/ code = "UNKNOWN_PRODUCT" /\ row.product \notin published
     \/ code = "INVALID_DATE_CHRONOLOGY" /\ (row.opened > row.value \/ row.value > row.business)}

StagedTotal(b) == SumFunction([i \in DOMAIN staged[b] |-> staged[b][i].row.balance])

BatchFails(b) ==
  {code \in {"EMPTY_BATCH", "MANIFEST_ROW_COUNT_MISMATCH", "MANIFEST_BALANCE_MISMATCH"} :
     \/ code = "EMPTY_BATCH" /\ staged[b] = <<>>
     \/ code = "MANIFEST_ROW_COUNT_MISMATCH" /\ Len(staged[b]) # batch[b].rowCount
     \/ code = "MANIFEST_BALANCE_MISMATCH" /\ StagedTotal(b) # batch[b].total}

Failures(b, date) == BatchFails(b) \cup UNION {RowFails(s.row, date) : s \in Range(staged[b])}

Attributes(row) == [customer |-> row.customer, product |-> row.product,
                    currency |-> row.currency, opened |-> row.opened]

Snapshot(b, row) == [batch |-> b, account |-> row.account, business |-> row.business,
                     value |-> row.value, currency |-> row.currency, balance |-> row.balance]

-----------------------------------------------------------------------------
CbsInit ==
  /\ batch = [b \in BatchIds |-> Unregistered]
  /\ staged = [b \in BatchIds |-> <<>>]
  /\ issues = {}
  /\ account = [a \in Accounts |-> {}]
  /\ snapshots = {}
  /\ events = {}
  /\ landing \in [Objects -> LandedContents]
  /\ published \in SUBSET Products
  /\ worker = [w \in Workers |-> Resting]

\* The message names a batch; a payload that does not parse is refused before anything is written.
\* The row with the manifest's replay key is inserted, or the one that is there answers.
WithKey(m) == {b \in BatchIds : batch[b].state # "NONE" /\ batch[b].key = m.key}

Proceed(w, m, b, state) ==
  worker' = [worker EXCEPT ![w] =
    [at |-> IF state = "RECEIVED" THEN "authenticate"
            ELSE IF state \in {"AUTHENTICATED", "SCANNED"} THEN "load"
            ELSE IF m.flow # "INVESTMENT_POSITIONS" THEN "idle"
            ELSE IF state = "STAGED" THEN "inspect"
            ELSE IF state = "VALIDATED" THEN "check" ELSE "idle",
     manifest |-> m, batch |-> b]]

RegisterNew(w, m) ==
  /\ worker[w].at = "idle"
  /\ m.wellFormed
  /\ WithKey(m) = {} /\ batch[m.batch].state = "NONE"
  /\ batch' = [batch EXCEPT ![m.batch] =
       [state |-> "RECEIVED", reason |-> {}, key |-> m.key, checksum |-> m.checksum,
        object |-> m.object, rowCount |-> m.rowCount, total |-> m.total]]
  /\ Proceed(w, m, m.batch, "RECEIVED")
  /\ UNCHANGED <<staged, issues, account, snapshots, events, landing, published>>

RegisterReplay(w, m) ==
  /\ worker[w].at = "idle"
  /\ m.wellFormed
  /\ \E b \in WithKey(m) : /\ batch[b].checksum = m.checksum /\ batch[b].object = m.object
                           /\ batch[b].state \notin Terminal
                           /\ Proceed(w, m, b, batch[b].state)
  /\ UNCHANGED <<batch, staged, issues, account, snapshots, events, landing, published>>

\* The verdict is written on the batch that the payload names, not on the one that registration
\* found: a replay under another identifier updates no row and fails, unless that identifier is
\* a batch of its own, which then has the verdict.
Authenticate(w) ==
  LET m == worker[w].manifest
      verdict == IF Authentic(m) THEN "AUTHENTICATED" ELSE "REJECTED"
  IN /\ worker[w].at = "authenticate"
     /\ IF CanMove(m.batch, "RECEIVED", verdict)
          THEN /\ batch' = Moved(m.batch, verdict, IF Authentic(m) THEN {} ELSE {"NOT_AUTHENTIC"})
               /\ worker' = IF Authentic(m) THEN Goto(w, "load") ELSE Ended(w)
          ELSE batch' = batch /\ worker' = Ended(w)
     /\ UNCHANGED <<staged, issues, account, snapshots, events, landing, published>>

\* The object is read before its checksum is compared and the antivirus asked
Load(w) ==
  /\ worker[w].at = "load"
  /\ worker' = [worker EXCEPT ![w] =
       [at |-> "scan", manifest |-> @.manifest, batch |-> @.batch,
        content |-> landing[worker[w].manifest.object]]]
  /\ UNCHANGED <<batch, staged, issues, account, snapshots, events, landing, published>>

\* A content that is refused is a quarantine from AUTHENTICATED only: a batch that was SCANNED
\* before stays so, and the message fails
Scan(w) ==
  LET b     == worker[w].batch
      m     == worker[w].manifest
      clean == worker[w].content = m.checksum /\ worker[w].content \notin Infected
      next  == IF clean THEN "SCANNED" ELSE "QUARANTINED"
  IN /\ worker[w].at = "scan"
     /\ IF CanMove(b, "AUTHENTICATED", next)
          THEN /\ batch' = Moved(b, next, IF clean THEN {} ELSE {"NOT_CLEAN"})
               /\ worker' = IF clean /\ m.flow = "INVESTMENT_POSITIONS" THEN Goto(w, "stage") ELSE Ended(w)
          ELSE batch' = batch /\ worker' = Ended(w)
     /\ UNCHANGED <<staged, issues, account, snapshots, events, landing, published>>

\* One transaction: all the rows and the state, or nothing
Stage(w) ==
  LET b    == worker[w].batch
      rows == RowsOf[worker[w].content]
  IN /\ worker[w].at = "stage"
     /\ IF /\ worker[w].content \notin NotCsv /\ rows # <<>>
           /\ SameAsStaged(b, rows) /\ ~Repeated(rows)
           /\ CanMove(b, "SCANNED", "STAGED")
          THEN /\ staged' = [staged EXCEPT ![b] =
                    [i \in DOMAIN rows |-> IF i \in DOMAIN @ THEN @[i] ELSE Fresh(rows[i])]]
               /\ batch' = [batch EXCEPT ![b].state = "STAGED"]
               /\ worker' = Goto(w, "inspect")
          ELSE UNCHANGED <<batch, staged>> /\ worker' = Ended(w)
     /\ UNCHANGED <<issues, account, snapshots, events, landing, published>>

Inspect(w) ==
  LET b == worker[w].batch
      f == Failures(b, BusinessDate[worker[w].manifest.key])
  IN /\ worker[w].at = "inspect"
     /\ worker' = [worker EXCEPT ![w] =
          [at |-> IF f = {} THEN "decide" ELSE "quarantine", manifest |-> @.manifest, batch |-> b, failures |-> f]]
     /\ UNCHANGED <<batch, staged, issues, account, snapshots, events, landing, published>>

\* The controls are evaluated again, by another statement, and their failures kept.  Where the
\* database refuses the statement (its LATERAL VALUES holds aggregates), the outcome is Abandon.
QuarantineInvalidRows(w) ==
  LET b    == worker[w].batch
      date == BusinessDate[worker[w].manifest.key]
  IN /\ worker[w].at = "quarantine"
     /\ issues' = issues
          \cup {<<b, NoRow, code>> : code \in BatchFails(b)}
          \cup UNION {{<<b, i, code>> : code \in RowFails(staged[b][i].row, date)} : i \in DOMAIN staged[b]}
     /\ worker' = Goto(w, "decide")
     /\ UNCHANGED <<batch, staged, account, snapshots, events, landing, published>>

RecordDecision(w) ==
  LET b        == worker[w].batch
      decision == IF worker[w].failures = {} THEN "VALIDATED" ELSE "REJECTED"
  IN /\ worker[w].at = "decide"
     /\ IF CanMove(b, "STAGED", decision)
          THEN /\ batch' = Moved(b, decision, worker[w].failures)
               /\ worker' = IF decision = "VALIDATED" THEN Goto(w, "check") ELSE Ended(w)
          ELSE batch' = batch /\ worker' = Ended(w)
     /\ UNCHANGED <<staged, issues, account, snapshots, events, landing, published>>

CheckPublished(w) ==
  /\ worker[w].at = "check"
  /\ worker' = IF batch[worker[w].batch].state = "PUBLISHED" THEN Ended(w) ELSE Goto(w, "references")
  /\ UNCHANGED <<batch, staged, issues, account, snapshots, events, landing, published>>

\* The references that are tokenized are read outside the publishing transaction; the vault answers
\* one token for each of them
ReadReferences(w) ==
  LET b == worker[w].batch
  IN /\ worker[w].at = "references"
     /\ worker' = [worker EXCEPT ![w] =
          [at |-> "publish", manifest |-> @.manifest, batch |-> b,
           references |-> {s.row.customer : s \in {x \in Range(staged[b]) : x.clear}}]]
     /\ UNCHANGED <<batch, staged, issues, account, snapshots, events, landing, published>>

Tokenized(b, references) ==
  [i \in DOMAIN staged[b] |-> IF staged[b][i].clear /\ staged[b][i].row.customer \in references
                                THEN [staged[b][i] EXCEPT !.token = TRUE] ELSE staged[b][i]]

Erased(rows) == [i \in DOMAIN rows |-> IF rows[i].token THEN [rows[i] EXCEPT !.clear = FALSE] ELSE rows[i]]

\* INSERT ... ON CONFLICT DO NOTHING: the first row of an account makes it
WithAccounts(b) ==
  [a \in Accounts |->
     LET mine == {row \in Range(StagedRows(b)) : row.account = a}
     IN IF account[a] # {} \/ mine = {} THEN account[a]
        ELSE {Attributes(CHOOSE row \in mine : TRUE)}]

\* One transaction under the lock of the batch: approval, tokens, accounts, positions, publication,
\* erasure of the references and the event.  A batch that is published answers zero rows.
Publish(w) ==
  LET b    == worker[w].batch
      rows == Tokenized(b, worker[w].references)
  IN /\ worker[w].at = "publish"
     /\ worker' = Ended(w)
     /\ IF /\ CanMove(b, "VALIDATED", "APPROVED")
           /\ \A s \in Range(rows) : s.token
           /\ \A s \in Range(rows) : WithAccounts(b)[s.row.account] = {Attributes(s.row)}
          THEN /\ staged' = [staged EXCEPT ![b] = Erased(rows)]
               /\ account' = WithAccounts(b)
               /\ snapshots' = snapshots \cup {Snapshot(b, s.row) : s \in Range(rows)}
               /\ batch' = Moved(b, "PUBLISHED", {})
               /\ events' = events \cup {[batch |-> b, publishedRows |-> Len(rows)]}
          ELSE UNCHANGED <<batch, staged, account, snapshots, events>>
     /\ UNCHANGED <<issues, landing, published>>

\* The worker dies, loses its lease or fails: the message comes back
Abandon(w) ==
  /\ worker[w].at # "idle"
  /\ worker' = Ended(w)
  /\ UNCHANGED <<batch, staged, issues, account, snapshots, events, landing, published>>

ReplaceObject(o, c) ==
  /\ landing[o] # c
  /\ landing' = [landing EXCEPT ![o] = c]
  /\ UNCHANGED <<batch, staged, issues, account, snapshots, events, published, worker>>

\* A product is published, suspended or closed by its own workflow
ChangeProduct(p) ==
  /\ published' = IF p \in published THEN published \ {p} ELSE published \cup {p}
  /\ UNCHANGED <<batch, staged, issues, account, snapshots, events, landing, worker>>

CbsNext ==
  \/ \E w \in Workers :
       \/ \E m \in Manifests : RegisterNew(w, m) \/ RegisterReplay(w, m)
       \/ Authenticate(w) \/ Load(w) \/ Scan(w) \/ Stage(w)
       \/ Inspect(w) \/ QuarantineInvalidRows(w) \/ RecordDecision(w)
       \/ CheckPublished(w) \/ ReadReferences(w) \/ Publish(w) \/ Abandon(w)
  \/ \E o \in Objects, c \in LandedContents : ReplaceObject(o, c)
  \/ \E p \in Products : ChangeProduct(p)

CbsSpec == CbsInit /\ [][CbsNext]_cbsVars

-----------------------------------------------------------------------------
(* Properties.                                                             *)

\* The states and reasons of the batches are ones the tables accept.
BatchesTyped ==
  /\ \A b \in BatchIds : batch[b].state \in States
  /\ \A w \in Workers : worker[w].at \in
       {"idle", "authenticate", "load", "scan", "stage", "inspect", "quarantine",
        "decide", "check", "references", "publish"}

\* Publication is all or nothing: the positions, the event and the erasure of the customers' clear
\* references are there exactly for the batches that are PUBLISHED, whoever was interrupted.
PublicationIsWhole ==
  \A b \in BatchIds :
    LET mine == {s \in snapshots : s.batch = b} IN
    IF batch[b].state = "PUBLISHED"
      THEN /\ mine = {Snapshot(b, s.row) : s \in Range(staged[b])}
           /\ Cardinality(mine) = Len(staged[b])
           /\ {e \in events : e.batch = b} = {[batch |-> b, publishedRows |-> Cardinality(mine)]}
           /\ \A s \in Range(staged[b]) : /\ s.token /\ ~s.clear
                                          /\ account[s.row.account] = {Attributes(s.row)}
      ELSE /\ mine = {} /\ \A e \in events : e.batch # b
           /\ \A s \in Range(staged[b]) : s.clear

\* What is published is what was delivered and controlled: a manifest that names the batch was signed
\* and in time, and is the batch's own unless another batch was registered under its replay key; the
\* rows are those of the content that the registered checksum names, which the antivirus accepted,
\* and their dates, currencies, number and total are right.
PublishedAsControlled ==
  \A b \in BatchIds : batch[b].state = "PUBLISHED" =>
    /\ \E m \in Manifests : m.batch = b /\ Authentic(m) /\ \E c \in WithKey(m) : batch[c].checksum = m.checksum
    /\ batch[b].checksum \notin Infected
    /\ StagedRows(b) = RowsOf[batch[b].checksum]
    /\ Len(staged[b]) = batch[b].rowCount /\ StagedTotal(b) = batch[b].total
    /\ \A s \in Range(staged[b]) :
         /\ s.row.business = BusinessDate[batch[b].key]
         /\ s.row.currency \in Currencies
         /\ s.row.opened <= s.row.value /\ s.row.value <= s.row.business

\* A control that does not depend on the products of the moment leaves its issue when it rejects a
\* batch, and a batch that was validated has none: the issues are written before the decision.
Lasting(code) == code # "UNKNOWN_PRODUCT"
RejectionsAreExplained ==
  \A b \in BatchIds :
    LET codes == {i[3] : i \in {x \in issues : x[1] = b}} IN
    /\ \A code \in batch[b].reason \ {"NOT_AUTHENTIC", "NOT_CLEAN"} : Lasting(code) => code \in codes
    /\ batch[b].state \in {"VALIDATED", "PUBLISHED"} => ~\E code \in codes : Lasting(code)

\* The batches are consistent: what is published is whole and was controlled, and what is rejected
\* is explained, on well-typed states.
IngestionIsConsistent ==
  BatchesTyped /\ PublicationIsWhole /\ PublishedAsControlled /\ RejectionsAreExplained
=============================================================================
