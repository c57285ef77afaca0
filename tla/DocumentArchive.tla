--------------------------- MODULE DocumentArchive ---------------------------
(***************************************************************************)
(* The document archive: a request is recorded with its event              *)
(* (enqueueAtomically); a worker scans the document, uploads it to         *)
(* Paperless, preserves it in WORM when it is evidence and records the     *)
(* reference (ArchiveDocument).  The worker's message loop is              *)
(* InboxConsumer, whose opaque effect is detailed here.                    *)
(***************************************************************************)
EXTENDS Integers, FiniteSets

CONSTANTS
  Messages, Copies, MessageOf, Malformed, Workers, Prefetch, MaxFaults,
  Documents,   (* a document: a business object and its content            *)
  Infected,    (* documents the antivirus rejects                          *)
  Corrupt,     (* content that is not what was uploaded                    *)
  MaxUploads,  (* bound: documents Paperless creates                       *)
  None

ASSUME ArchiveAssumption ==
  /\ MessageOf \in [Copies -> Messages] /\ MaxFaults \in Nat
  /\ Infected \subseteq Documents
  /\ {Corrupt, None} \cap Documents = {}
  /\ MaxUploads \in Nat

VARIABLES
  copy, pc, alive, inbox, effects, interrupted, faults,   (* InboxConsumer *)
  request,     (* document.archive_request; a request is named by its event  *)
  reference,   (* document.document_reference, unique for a document         *)
  stored,      (* the documents of Paperless                                 *)
  worm,        (* the immutable objects of WORM                              *)
  attempt      (* where each handler stands within ArchiveDocument.execute   *)

Inbox == INSTANCE InboxConsumer

consumer == <<copy, pc, alive, inbox, effects, interrupted, faults>>
archive  == <<request, reference, stored, worm>>
vars     == <<consumer, archive, attempt>>

Ids == 1..MaxUploads

(* An object of WORM: the idempotency key it was sent with, and the        *)
(* Paperless identifier in its manifest.                                   *)
Object == [key : Messages, paperless : Ids]

Request == [document : Documents, evidentiary : BOOLEAN,
            status : {"QUEUED", "ARCHIVED"},
            paperless : Ids \cup {None}, object : Object \cup {None}]

Reference == [by : Messages, paperless : Ids, object : Object \cup {None},
              manifest : Ids \cup {None}]

(* execute, from its start; seen: the snapshot of save has a reference.    *)
Attempt == [step : {"upload", "preserve", "save", "commit"},
            paperless : Ids \cup {None}, object : Object \cup {None},
            seen : BOOLEAN]

(* None is told apart from everything else.                                *)
ASSUME NoneAssumption ==
  /\ None \notin Ids /\ None \notin Object /\ None \notin Request /\ None \notin Reference
  /\ None \notin [key : Messages, content : Documents \cup {Corrupt}]

Start == [step |-> "upload", paperless |-> None, object |-> None, seen |-> FALSE]

TypeOK ==
  /\ Inbox!TypeOK
  /\ request \in [Messages -> Request \cup {None}]
  /\ reference \in [Documents -> Reference \cup {None}]
  /\ stored \in [Ids -> [key : Messages, content : Documents \cup {Corrupt}] \cup {None}]
  /\ worm \subseteq Object
  /\ attempt \in [Workers -> [Copies -> Attempt]]

Init ==
  /\ Inbox!Init
  /\ request = [m \in Messages |-> None]
  /\ reference = [d \in Documents |-> None]
  /\ stored = [i \in Ids |-> None]
  /\ worm = {}
  /\ attempt = [w \in Workers |-> [c \in Copies |-> Start]]

-----------------------------------------------------------------------------
(* POST /documents/archive-requests: the row and its event, in one         *)
(* transaction; a repeated key only answers.                               *)
Enqueue(m, d, e) ==
  /\ request[m] = None
  /\ request' = [request EXCEPT ![m] =
       [document |-> d, evidentiary |-> e, status |-> "QUEUED",
        paperless |-> None, object |-> None]]
  /\ UNCHANGED <<consumer, reference, stored, worm, attempt>>

At(w, c, step) == pc[w][c] = "effect" /\ attempt[w][c].step = step

Document(c) == request[MessageOf[c]].document

Proceed(w, c, to) == attempt' = [attempt EXCEPT ![w][c] = to]

(* A handler that leaves the effect, by its end or with its process.       *)
Left == attempt' = [w \in Workers |-> [c \in Copies |->
          IF pc'[w][c] = "effect" THEN attempt[w][c] ELSE Start]]

(* execute throws: the handler goes on to abandon.                         *)
Throw(w, c) == Inbox!EffectFails(w, c) /\ UNCHANGED effects /\ Left

(* post_document and the task: a new document, unless Paperless answers    *)
(* the key with the document it has for it.                                *)
Creates(id, m, content) ==
  /\ stored[id] = None /\ \A j \in Ids : j < id => stored[j] # None
  /\ stored' = [stored EXCEPT ![id] = [key |-> m, content |-> content]]

Keeps(id, m) == stored[id] # None /\ stored[id].key = m /\ UNCHANGED stored

Uploaded(id, c) ==
  \/ \E content \in {Document(c), Corrupt} : Creates(id, MessageOf[c], content)
  \/ Keeps(id, MessageOf[c])

AfterUpload(w, c, id) ==
  /\ Proceed(w, c, [Start EXCEPT
       !.step = IF request[MessageOf[c]].evidentiary THEN "preserve" ELSE "save",
       !.paperless = id])
  /\ UNCHANGED <<consumer, request, reference, worm>>

(* The scan passes, and the stored checksum is that of the original.       *)
Upload(w, c) ==
  /\ At(w, c, "upload") /\ Document(c) \notin Infected
  /\ \E id \in Ids :
       /\ Uploaded(id, c)
       /\ stored'[id].content = Document(c)
       /\ AfterUpload(w, c, id)

(* Rejected by the scan, an error of any of the services or a checksum     *)
(* that differs: the document may be in Paperless all the same.            *)
UploadFails(w, c) ==
  /\ At(w, c, "upload")
  /\ Throw(w, c)
  /\ \/ Document(c) \notin Infected /\ \E id \in Ids : Uploaded(id, c)
     \/ UNCHANGED stored
  /\ UNCHANGED <<request, reference, worm>>

NewObject(w, c) == [key |-> MessageOf[c], paperless |-> attempt[w][c].paperless]

(* WORM stores the object, or answers the key with one it has.             *)
Preserve(w, c) ==
  /\ At(w, c, "preserve")
  /\ \E o \in {NewObject(w, c)} \cup {o \in worm : o.key = MessageOf[c]} :
       /\ worm' = worm \cup {o}
       /\ Proceed(w, c, [attempt[w][c] EXCEPT !.step = "save", !.object = o])
  /\ UNCHANGED <<consumer, request, reference, stored>>

PreserveFails(w, c) ==
  /\ At(w, c, "preserve")
  /\ Throw(w, c)
  /\ worm' \in {worm, worm \cup {NewObject(w, c)}}
  /\ UNCHANGED <<request, reference, stored>>

(* save is one statement: its snapshot comes first.                        *)
Snapshot(w, c) ==
  /\ At(w, c, "save")
  /\ Proceed(w, c, [attempt[w][c] EXCEPT
       !.step = "commit", !.seen = reference[Document(c)] # None])
  /\ UNCHANGED <<consumer, archive>>

(* What the worker takes for the manifest WORM holds.                      *)
Manifest(w, c) ==
  IF attempt[w][c].object = None THEN None ELSE attempt[w][c].paperless

(* INSERT ... ON CONFLICT (document) DO NOTHING.                           *)
InsertReference(w, c) ==
  reference' = [reference EXCEPT ![Document(c)] = IF @ # None THEN @ ELSE
    [by |-> MessageOf[c], paperless |-> attempt[w][c].paperless,
     object |-> attempt[w][c].object, manifest |-> Manifest(w, c)]]

Archive(w, c) ==
  LET m == MessageOf[c] IN
  request' = [request EXCEPT ![m] =
    [@ EXCEPT !.status = "ARCHIVED", !.paperless = attempt[w][c].paperless,
              !.object = attempt[w][c].object]]

(* Mutants of Save: the reference inserted is not joined; an archived      *)
(* request is updated again.                                               *)
SaveJoiningSelected(w, c) ==
  /\ InsertReference(w, c)
  /\ IF attempt[w][c].seen /\ request[MessageOf[c]].status = "QUEUED"
     THEN Archive(w, c) ELSE UNCHANGED request

SaveAgain(w, c) ==
  /\ InsertReference(w, c)
  /\ IF reference[Document(c)] = None \/ attempt[w][c].seen
     THEN Archive(w, c) ELSE UNCHANGED request

(* The row updated is joined with the reference inserted or seen in the    *)
(* snapshot: when another request's commits in between there is neither.   *)
Save(w, c) ==
  /\ InsertReference(w, c)
  /\ IF (reference[Document(c)] = None \/ attempt[w][c].seen)
        /\ request[MessageOf[c]].status = "QUEUED"
     THEN Archive(w, c) ELSE UNCHANGED request

(* Mutant of Finish: the inbox row is not completed.                       *)
FinishUncompleted(w, c) ==
  /\ At(w, c, "commit")
  /\ Save(w, c) /\ Inbox!Commits(MessageOf[c]) /\ Inbox!Goto(w, c, "ack") /\ Left
  /\ UNCHANGED <<copy, alive, inbox, interrupted, faults, stored, worm>>

Finish(w, c) ==
  /\ At(w, c, "commit")
  /\ Save(w, c) /\ Inbox!EffectSucceeds(w, c) /\ Left
  /\ UNCHANGED <<stored, worm>>

(* The statement fails, or its answer is lost.                             *)
SaveFails(w, c) ==
  /\ At(w, c, "save") \/ At(w, c, "commit")
  /\ Inbox!EffectFails(w, c) /\ Left
  /\ \/ At(w, c, "commit") /\ Save(w, c) /\ Inbox!Commits(MessageOf[c])
     \/ UNCHANGED <<request, reference, effects>>
  /\ UNCHANGED <<stored, worm>>

-----------------------------------------------------------------------------
(* The steps of the message loop; an event is there once it is requested.  *)
Loop(w, c) ==
  \/ request[MessageOf[c]] # None /\ Inbox!Deliver(w, c)
  \/ Inbox!Begin(w, c) \/ Inbox!BeginError(w, c)
  \/ Inbox!Complete(w, c) \/ Inbox!CompleteError(w, c)
  \/ Inbox!Abandon(w, c) \/ Inbox!AbandonError(w, c)
  \/ Inbox!Settle(w, c)

Process(w) ==
  Inbox!Crash(w) \/ Inbox!CutOff(w) \/ Inbox!ExitIdle(w) \/ Inbox!Restart(w)

Consume ==
  /\ \/ \E w \in Workers, c \in Copies : Loop(w, c)
     \/ \E w \in Workers : Process(w)
     \/ \E m \in Messages : Inbox!LeaseExpires(m)
  /\ Left
  /\ UNCHANGED archive

Execute(w, c) ==
  \/ Upload(w, c) \/ UploadFails(w, c) \/ Preserve(w, c) \/ PreserveFails(w, c)
  \/ Snapshot(w, c) \/ Finish(w, c) \/ SaveFails(w, c)

Next ==
  \/ \E m \in Messages, d \in Documents, e \in BOOLEAN : Enqueue(m, d, e)
  \/ Consume
  \/ \E w \in Workers, c \in Copies : Execute(w, c)

Spec == Init /\ [][Next]_vars

-----------------------------------------------------------------------------
Archived(m) == request[m] # None /\ request[m].status = "ARCHIVED"
UploadsOf(m) == {i \in Ids : stored[i] # None /\ stored[i].key = m}

(* An archived request names a document of Paperless that is unaltered     *)
(* and, for evidence, an object of WORM made for it, and its document has  *)
(* a reference, whichever attempt wrote the row (save after                *)
(* DocumentIntegrityError, retries, overlapping handlers).                 *)
ArchivedIsStored == \A m \in Messages : Archived(m) =>
  LET r == request[m] IN
  /\ stored[r.paperless] = [key |-> m, content |-> r.document]
  /\ r.evidentiary => r.object \in worm /\ r.object.key = m
  /\ reference[r.document] # None

(* document-message-handler.spec.ts: "completes Inbox with the archived    *)
(* checksum".  A message is processed with its request still QUEUED only   *)
(* if another request of the same document recorded the reference.         *)
ForgottenHasRival == \A m \in Messages :
  inbox[m] = "processed" /\ ~Archived(m) =>
    reference[request[m].document] # None /\ reference[request[m].document].by # m

(* The manifest whose checksum a reference records is the manifest of its  *)
(* WORM object, unless the document was uploaded more than once.           *)
ManifestIsKept == \A d \in Documents :
  reference[d] # None /\ reference[d].object # None =>
    \/ reference[d].object.paperless = reference[d].manifest
    \/ Cardinality(UploadsOf(reference[d].by)) > 1

(* What is archived is stored, and what is not archived has a rival: the   *)
(* database, Paperless and WORM agree as far as anything can be known.     *)
StoreIsConsistent == TypeOK /\ ArchivedIsStored /\ ForgottenHasRival /\ ManifestIsKept

(* An archived request and a reference are never rewritten, whatever       *)
(* attempts are still under way.                                           *)
ArchivedIsFinal ==
  [][/\ \A m \in Messages : Archived(m) => request'[m] = request[m]
     /\ \A d \in Documents : reference[d] # None => reference'[d] = reference[d]]_archive

(* The worker consumes as InboxConsumer says: the steps of the archive     *)
(* within an effect are invisible to the message loop.                     *)
ImplementsInbox == Inbox!Spec
==============================================================================
