------------------------------ MODULE Reporting ------------------------------
(***************************************************************************)
(* Secure exports and regulatory reports.                                  *)
(*                                                                         *)
(* An export is created, approved by a second person when it is a bulk     *)
(* export, and generated once by its requester, within a day.  Each        *)
(* operation is one transaction that first locks its operation and key     *)
(* and looks for the effect of an earlier call, then locks the export's    *)
(* row.  The keys of approvals and generations share one unique column,    *)
(* but not the lock.                                                       *)
(*                                                                         *)
(* A report is computed from a snapshot of the period's facts, inserted by *)
(* another connection, and published by somebody else.  Publications lock  *)
(* the report's row, not their key.                                        *)
(***************************************************************************)
EXTENDS Integers, FiniteSets

CONSTANTS
  ReportSessions, \* concurrent requests
  ReportActors,   \* authenticated users
  Exports,        \* export identifiers
  ReportKeys,     \* idempotency keys
  ExportContents, \* type, format and filters of an export, taken together
  Datasets,       \* what a generation may carry; the checksum of a dataset is the dataset
  ClearDatasets,  \* those with clear personal data
  Facts,          \* [id, kind]: posted runs, reconciliations, DCR calculations, reviews of a period
  Documents,      \* evidence of a publication
  Nobody          \* no user

VARIABLES
  export,        \* reporting.secure_export: the rows, by identifier, at most one each
  exportEvents,  \* reporting.secure_export_event
  audited,       \* audit intents written to the outbox by exports
  expired,       \* exports older than 24 hours
  facts,         \* what the period's tables hold now
  reports,       \* compliance.regulatory_report
  actions,       \* workflow.approval_action, PUBLISH_REGULATORY_REPORT
  reportSession, \* what each request has read
  reportAnswers  \* the answers given: [op, key, answer]

reportingVars == <<export, exportEvents, audited, expired, facts, reports, actions, reportSession, reportAnswers>>
exportVars == <<export, exportEvents, audited, expired>>
reportVars == <<facts, reports, actions>>

Scopes   == {"SINGLE", "BULK"}
Statuses == {"PENDING_REINFORCED_APPROVAL", "APPROVED", "GENERATED"}
Kinds    == {"run", "variance", "breach", "approved_review", "rejected_review"}

-----------------------------------------------------------------------------
(* Requests.                                                               *)

CreateRequests ==
  [op : {"create"}, key : ReportKeys, actor : ReportActors, scope : Scopes, content : ExportContents]
ApproveRequests == [op : {"approve"}, key : ReportKeys, actor : ReportActors, export : Exports]
GenerateRequests == [op : {"generate"}, key : ReportKeys, actor : ReportActors, export : Exports, dataset : Datasets]
PublishRequests == [op : {"publish"}, key : ReportKeys, actor : ReportActors, report : SUBSET Facts, evidence : Documents]

NoRequest == [at |-> "idle"]
Open(s) == reportSession[s].at # "idle"

\* pg_advisory_xact_lock(operation, key), for the three operations on exports
LockIsFree(r) == ~\E s \in ReportSessions : /\ reportSession[s].at = "locked"
                                      /\ reportSession[s].request.op = r.op /\ reportSession[s].request.key = r.key

Locked(s, r) == reportSession' = [reportSession EXCEPT ![s] = [at |-> "locked", request |-> r]]
Closed(s)    == reportSession' = [reportSession EXCEPT ![s] = NoRequest]
Answered(r, a) == reportAnswers' = reportAnswers \cup {[op |-> r.op, key |-> r.key, answer |-> a]}

-----------------------------------------------------------------------------
(* What is decided about an export.                                        *)

InitialExportStatus(scope) == IF scope = "BULK" THEN "PENDING_REINFORCED_APPROVAL" ELSE "APPROVED"

Rows == {x \in Exports : export[x] # {}}
Row(x) == CHOOSE row \in export[x] : TRUE

Created(key)   == {x \in Rows : Row(x).key = key}
Generated(key) == {x \in Rows : Row(x).generationKey = {key}}
EventOf(key)   == {e \in exportEvents : e.key = key}

SameCreation(row, r) == row.scope = r.scope /\ row.content = r.content /\ row.requester = r.actor

\* Mutant: the replay of a creation answers the state that the export has reached.
CurrentStatusAnswer(x, r) == [export |-> x, status |-> Row(x).status]

\* The answer of a creation is the status it gave, whatever the export has become
CreationAnswer(x, r) == [export |-> x, status |-> InitialExportStatus(r.scope)]

Approvable(row, actor) ==
  /\ row.scope = "BULK" /\ row.status = "PENDING_REINFORCED_APPROVAL"
  /\ actor # row.requester

Generable(row, actor) ==
  /\ row.status = "APPROVED" /\ row.requester = actor
  /\ row.scope = "BULK" => row.approver \notin {Nobody, actor}

-----------------------------------------------------------------------------
(* Exports.                                                                *)

\* The replay is looked for under the lock: an export with the key answers if the request is
\* the same and the export has not expired, an error otherwise
BeginCreate(s, r) ==
  /\ ~Open(s) /\ LockIsFree(r)
  /\ \/ Created(r.key) = {} /\ Locked(s, r) /\ reportAnswers' = reportAnswers
     \/ \E x \in Created(r.key) :
          /\ x \notin expired /\ SameCreation(Row(x), r)
          /\ Answered(r, CreationAnswer(x, r)) /\ reportSession' = reportSession
  /\ UNCHANGED <<exportVars, reportVars>>

CreateExport(s, x) ==
  LET r == reportSession[s].request IN
  /\ reportSession[s].at = "locked" /\ r.op = "create" /\ export[x] = {}
  /\ export' = [export EXCEPT ![x] =
       {[status |-> InitialExportStatus(r.scope), scope |-> r.scope, content |-> r.content,
         requester |-> r.actor, approver |-> Nobody, generator |-> Nobody,
         output |-> {}, key |-> r.key, generationKey |-> {}]}]
  /\ audited' = audited \cup {[export |-> x, action |-> "CREATE_SECURE_EXPORT", actor |-> r.actor]}
  /\ Answered(r, [export |-> x, status |-> InitialExportStatus(r.scope)])
  /\ Closed(s)
  /\ UNCHANGED <<exportEvents, expired, reportVars>>

BeginApprove(s, r) ==
  /\ ~Open(s) /\ LockIsFree(r)
  /\ \/ EventOf(r.key) = {} /\ Locked(s, r) /\ reportAnswers' = reportAnswers
     \/ \E e \in EventOf(r.key) :
          /\ e.export = r.export /\ e.action = "REINFORCED_APPROVAL" /\ e.actor = r.actor
          /\ Answered(r, [status |-> e.result]) /\ reportSession' = reportSession
  /\ UNCHANGED <<exportVars, reportVars>>

\* The event's key is unique among approvals and generations: a key used meanwhile by the other
\* operation rolls the transaction back
ApproveExport(s) ==
  LET r   == reportSession[s].request
      row == Row(r.export)
  IN /\ reportSession[s].at = "locked" /\ r.op = "approve"
     /\ r.export \in Rows \ expired /\ Approvable(row, r.actor) /\ EventOf(r.key) = {}
     /\ export' = [export EXCEPT ![r.export] = {[row EXCEPT !.status = "APPROVED", !.approver = r.actor]}]
     /\ exportEvents' = exportEvents \cup
          {[export |-> r.export, action |-> "REINFORCED_APPROVAL", actor |-> r.actor, result |-> "APPROVED", key |-> r.key]}
     /\ audited' = audited \cup {[export |-> r.export, action |-> "APPROVE_MASS_EXPORT", actor |-> r.actor]}
     /\ Answered(r, [status |-> "APPROVED"])
     /\ Closed(s)
     /\ UNCHANGED <<expired, reportVars>>

\* A dataset with clear personal data is refused before anything is locked
BeginGenerate(s, r) ==
  /\ ~Open(s) /\ LockIsFree(r) /\ r.dataset \notin ClearDatasets
  /\ \/ Generated(r.key) = {} /\ Locked(s, r) /\ reportAnswers' = reportAnswers
     \/ \E x \in Generated(r.key) :
          /\ x \notin expired /\ x = r.export /\ Row(x).generator = r.actor /\ Row(x).output = {r.dataset}
          /\ Answered(r, [export |-> x, status |-> "GENERATED", output |-> Row(x).output]) /\ reportSession' = reportSession
  /\ UNCHANGED <<exportVars, reportVars>>

GenerateExport(s) ==
  LET r   == reportSession[s].request
      row == Row(r.export)
  IN /\ reportSession[s].at = "locked" /\ r.op = "generate"
     /\ r.export \in Rows \ expired /\ Generable(row, r.actor) /\ EventOf(r.key) = {}
     /\ export' = [export EXCEPT ![r.export] =
          {[row EXCEPT !.status = "GENERATED", !.generator = r.actor,
                       !.output = {r.dataset}, !.generationKey = {r.key}]}]
     /\ exportEvents' = exportEvents \cup
          {[export |-> r.export, action |-> "GENERATE", actor |-> r.actor, result |-> "GENERATED", key |-> r.key]}
     /\ audited' = audited \cup {[export |-> r.export, action |-> "GENERATE_SECURE_EXPORT", actor |-> r.actor]}
     /\ Answered(r, [export |-> r.export, status |-> "GENERATED", output |-> {r.dataset}])
     /\ Closed(s)
     /\ UNCHANGED <<expired, reportVars>>

\* An error, a lost connection: the transaction leaves nothing and gives its locks back
RollbackReport(s) ==
  /\ Open(s)
  /\ Closed(s)
  /\ UNCHANGED <<exportVars, reportVars, reportAnswers>>

Expire(x) ==
  /\ x \in Rows \ expired
  /\ expired' = expired \cup {x}
  /\ UNCHANGED <<export, exportEvents, audited, reportVars, reportSession, reportAnswers>>

-----------------------------------------------------------------------------
(* Regulatory reports; a report is known by its sources, whose checksum is *)
(* unique for a type and a period.                                         *)

SnapshotOf(sources) == [k \in Kinds |-> Cardinality({f \in sources : f.kind = k})]

ReportWith(sources) == {p \in reports : p.sources = sources}

\* The four queries of the snapshot see one state of the tables
ReadSources(s, a) ==
  /\ ~Open(s)
  /\ reportSession' = [reportSession EXCEPT ![s] = [at |-> "read", actor |-> a, sources |-> facts, counts |-> SnapshotOf(facts)]]
  /\ UNCHANGED <<exportVars, reportVars, reportAnswers>>

\* INSERT ... ON CONFLICT DO NOTHING, by another connection: the report that is there answers, and
\* keeps the name of the one who generated it first
InsertReport(s) ==
  /\ reportSession[s].at = "read"
  /\ reports' = IF ReportWith(reportSession[s].sources) # {} THEN reports
                ELSE reports \cup {[sources |-> reportSession[s].sources, counts |-> reportSession[s].counts,
                                    generator |-> reportSession[s].actor, status |-> "GENERATED",
                                    publisher |-> Nobody, evidence |-> {}]}
  /\ Closed(s)
  /\ UNCHANGED <<exportVars, facts, actions, reportAnswers>>

BeginPublish(s, r) ==
  /\ ~Open(s)
  /\ \/ /\ ~\E a \in actions : a.key = r.key
        /\ reportSession' = [reportSession EXCEPT ![s] = [at |-> "publishing", request |-> r]]
        /\ reportAnswers' = reportAnswers
     \/ \E a \in actions : /\ a.key = r.key /\ a.report = r.report /\ a.actor = r.actor
                           /\ Answered(r, [status |-> "PUBLISHED"]) /\ reportSession' = reportSession
  /\ UNCHANGED <<exportVars, reportVars>>

MayPublish(p, actor) == p.status = "GENERATED" /\ actor # p.generator

\* Two publications with one key both pass the look-up: the second finds the report published, or
\* the key taken, and is refused
PublishReport(s) ==
  LET r == reportSession[s].request IN
  /\ reportSession[s].at = "publishing"
  /\ \E p \in ReportWith(r.report) :
       /\ MayPublish(p, r.actor)
       /\ ~\E a \in actions : a.key = r.key
       /\ reports' = (reports \ {p}) \cup
            {[p EXCEPT !.status = "PUBLISHED", !.publisher = r.actor, !.evidence = {r.evidence}]}
  /\ actions' = actions \cup {[key |-> r.key, report |-> r.report, actor |-> r.actor]}
  /\ Answered(r, [status |-> "PUBLISHED"])
  /\ Closed(s)
  /\ UNCHANGED <<exportVars, facts>>

\* The period's tables change: a run is posted, a variance resolved, a review decided
ChangeFact(f) ==
  /\ facts' = IF f \in facts THEN facts \ {f} ELSE facts \cup {f}
  /\ UNCHANGED <<exportVars, reports, actions, reportSession, reportAnswers>>

-----------------------------------------------------------------------------
ReportingInit ==
  /\ export = [x \in Exports |-> {}]
  /\ exportEvents = {} /\ audited = {} /\ expired = {}
  /\ facts = {} /\ reports = {} /\ actions = {}
  /\ reportSession = [s \in ReportSessions |-> NoRequest]
  /\ reportAnswers = {}

ExportNext ==
  \/ \E s \in ReportSessions :
       \/ \E r \in CreateRequests : BeginCreate(s, r)
       \/ \E r \in ApproveRequests : BeginApprove(s, r)
       \/ \E r \in GenerateRequests : BeginGenerate(s, r)
       \/ \E x \in Exports : CreateExport(s, x)
       \/ ApproveExport(s) \/ GenerateExport(s) \/ RollbackReport(s)
  \/ \E x \in Exports : Expire(x)

ReportNext ==
  \/ \E s \in ReportSessions :
       \/ \E a \in ReportActors : ReadSources(s, a)
       \/ \E r \in PublishRequests : BeginPublish(s, r)
       \/ InsertReport(s) \/ PublishReport(s) \/ RollbackReport(s)
  \/ \E f \in Facts : ChangeFact(f)

ReportingNext == ExportNext \/ ReportNext

ReportingSpec == ReportingInit /\ [][ReportingNext]_reportingVars

-----------------------------------------------------------------------------
(* Properties.                                                             *)

\* An export has one life, whichever requests met: a bulk export that left PENDING was approved by
\* one event of somebody else, a generated one was generated by one event of its requester, from
\* a dataset without clear data, and each effect left one audit intent.
ExportsAreControlled ==
  \A x \in Exports :
    LET events(action)  == {e \in exportEvents : e.export = x /\ e.action = action}
        intents(action) == {i \in audited : i.export = x /\ i.action = action}
        bulk(row)       == row.scope = "BULK" /\ row.status # "PENDING_REINFORCED_APPROVAL"
    IN IF export[x] = {} THEN intents("CREATE_SECURE_EXPORT") = {}
       ELSE LET row == Row(x) IN
         /\ row.status \in Statuses
         /\ {i.actor : i \in intents("CREATE_SECURE_EXPORT")} = {row.requester}
         /\ Cardinality(events("REINFORCED_APPROVAL")) = (IF bulk(row) THEN 1 ELSE 0)
         /\ {i.actor : i \in intents("APPROVE_MASS_EXPORT")} = {e.actor : e \in events("REINFORCED_APPROVAL")}
         /\ bulk(row) => /\ row.approver # row.requester
                         /\ {e.actor : e \in events("REINFORCED_APPROVAL")} = {row.approver}
         /\ Cardinality(events("GENERATE")) = (IF row.status = "GENERATED" THEN 1 ELSE 0)
         /\ row.status = "GENERATED" =>
              /\ row.generator = row.requester /\ row.output \cap ClearDatasets = {}
              /\ \A e \in events("GENERATE") : e.actor = row.requester /\ row.generationKey = {e.key}

\* There is one report for the sources it was computed from, and it is published once, by one
\* recorded action of somebody who did not generate it.
ReportsAreConsistent ==
  \A p \in reports :
    LET published == {a \in actions : a.report = p.sources} IN
    /\ ReportWith(p.sources) = {p}
    /\ Cardinality(published) = (IF p.status = "PUBLISHED" THEN 1 ELSE 0)
    /\ p.status = "PUBLISHED" => /\ p.publisher # p.generator /\ p.evidence # {}
                                 /\ {a.actor : a \in published} = {p.publisher}

\* Two answers to one operation under one key are the same answer, also when the aggregate has
\* moved on between them.
AnswersAgree ==
  \A a, b \in reportAnswers : a.op = b.op /\ a.key = b.key => a.answer = b.answer

\* What reporting keeps is consistent: the three facts above.
ReportingIsConsistent == ExportsAreControlled /\ ReportsAreConsistent /\ AnswersAgree
=============================================================================
