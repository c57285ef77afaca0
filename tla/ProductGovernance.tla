-------------------------- MODULE ProductGovernance --------------------------
(***************************************************************************)
(* Investment products, the versions of their terms and the compliance     *)
(* references that a publication needs.                                    *)
(*                                                                         *)
(* A command is looked up by its key, the product or the terms are read    *)
(* and judged by the domain, and only then does a transaction lock the     *)
(* key, look it up again and write: what was judged may have changed.  The *)
(* update compares the status that was read; the references of the product *)
(* are read by the transaction itself.                                     *)
(***************************************************************************)
EXTENDS Integers, Sequences, FiniteSets

CONSTANTS
  ProductSessions, \* concurrent commands
  Catalogue,       \* product identifiers (and codes)
  Complete,        \* those whose Nisbas total 100% and that have a Sharia reference
  People,          \* users
  CommandKeys,     \* idempotency keys
  Creations,       \* requests: [product, actor, key]
  Transits,        \* requests: [action, product, actor, key]
  Drafts,          \* requests: [product, period, actor, key], a period being [from, to]
  Publications,    \* requests: [product, version, actor, key, businessDate, approval], the approval a set of keys
  References,      \* compliance references: [id, source, from, to]
  RequiredKinds,   \* kinds of reference that a publication needs
  LastDay,         \* bound: days 1..LastDay
  MaxVersions,     \* bound: versions of the terms of all products
  MaxHistory       \* bound: transitions kept

\* Requests name products, transitions name actions, and periods are of days.
ASSUME ProductsAssumption ==
  /\ \A r \in Creations \cup Transits \cup Drafts \cup Publications : r.product \in Catalogue
  /\ \A r \in Transits : r.action \in {"VALIDATE", "PUBLISH", "SUSPEND", "RESUME", "CLOSE"}
  /\ \A r \in Drafts : r.period.from \in Int /\ r.period.to \in Int

VARIABLES
  product,      \* investment_product: by identifier, at most one row
  history,      \* product_transition, in order
  commands,     \* command_idempotency: [key, request, product]
  associated,   \* product_reference: [product, reference, kind]
  arbitrations, \* compliance_arbitration: [product, selected, rejected]
  terms,        \* terms_version
  termsCommands,\* terms_command_idempotency: [key, request]
  termsEvents,  \* outbox events of terms, in order: [kind, product, version, actor]
  retroactive,  \* workflow.approval_action: APPROVE_RETROACTIVE_PRODUCT_TERMS
  today,        \* the date of the database and of the services
  command       \* what each command has read

productVars == <<product, history, commands, associated, arbitrations, terms,
                 termsCommands, termsEvents, retroactive, today, command>>
productTables   == <<product, history, commands>>
referenceTables == <<associated, arbitrations>>
termsTables     == <<terms, termsCommands, termsEvents, retroactive>>

Waiting == [at |-> "waiting"]
Rested(s) == command' = [command EXCEPT ![s] = Waiting]

-----------------------------------------------------------------------------
(* The domain.                                                             *)

Steps ==
  [VALIDATE |-> [from |-> {"DRAFT"}, to |-> "VALIDATED"],
   PUBLISH  |-> [from |-> {"VALIDATED"}, to |-> "PUBLISHED"],
   SUSPEND  |-> [from |-> {"PUBLISHED"}, to |-> "SUSPENDED"],
   RESUME   |-> [from |-> {"SUSPENDED"}, to |-> "PUBLISHED"],
   CLOSE    |-> [from |-> {"PUBLISHED", "SUSPENDED"}, to |-> "CLOSED"]]

\* A product is restored, and judged, only if it is complete once it is no longer a draft:
\* a draft that is not complete can be validated, and then nothing more
Accepts(row, p, r) ==
  /\ row.status # "DRAFT" => p \in Complete
  /\ row.status \in Steps[r.action].from
  /\ r.action = "PUBLISH" => row.validator # {r.actor}

Effective(reference, day) == reference.from <= day /\ day <= reference.to

Publishable(p, day) ==
  \A k \in RequiredKinds : \E a \in associated :
    a.product = p /\ a.kind = k /\ Effective(a.reference, day)

Priority == [BA |-> 4, SHARIA_COMMITTEE |-> 3, AAOIFI |-> 2, IFSB |-> 1]

\* Mutant: the last day of a period is left out of it.
HalfOpenOverlap(t, u) == t.from < u.to /\ u.from < t.to

\* EXCLUDE ... daterange(from, to + 1, '[)') WITH &&
Overlap(t, u) == t.from <= u.to /\ u.from <= t.to

-----------------------------------------------------------------------------
(* Products.                                                               *)

Command(key) == {c \in commands : c.key = key}

\* The pre-check of the application is repeated, under the lock of the key, by the transaction
CreateProduct(p, actor, key) ==
  /\ Command(key) = {} /\ product[p] = {} /\ Len(history) < MaxHistory
  /\ product' = [product EXCEPT ![p] = {[status |-> "DRAFT", validator |-> {}]}]
  /\ history' = Append(history, [product |-> p, from |-> "DRAFT", to |-> "DRAFT", actor |-> actor, day |-> today])
  /\ commands' = commands \cup {[key |-> key, request |-> [action |-> "CREATE", actor |-> actor], product |-> p]}
  /\ UNCHANGED <<referenceTables, termsTables, today, command>>

\* A replay answers what the product has become; another request under the key is refused
ReadProduct(s, p, r) ==
  /\ command[s] = Waiting
  /\ Command(r.key) = {}
  /\ \E row \in product[p] :
       /\ Accepts(row, p, r)
       /\ command' = [command EXCEPT ![s] = [at |-> "transition", product |-> p, request |-> r, read |-> row]]
  /\ UNCHANGED <<productTables, referenceTables, termsTables, today>>

\* Mutant: the status is written over whatever is there.
RowAnyStatus(p, read) == product[p] # {}

\* UPDATE ... WHERE status = the status that was read
RowUnchanged(p, read) == \E row \in product[p] : row.status = read.status

\* The references are asked for and the row is written by two statements of one transaction: the
\* day of a transition is the one they are asked for, midnight may have passed when it is written
SaveTransition(s) ==
  LET c  == command[s]
      r  == c.request
      to == Steps[r.action].to
  IN /\ c.at = "transition" /\ Len(history) < MaxHistory
     /\ IF /\ Command(r.key) = {}
           /\ to = "PUBLISHED" => Publishable(c.product, today)
           /\ RowUnchanged(c.product, c.read)
          THEN /\ product' = [product EXCEPT ![c.product] =
                    {[status |-> to, validator |-> IF r.action = "VALIDATE" THEN {r.actor} ELSE c.read.validator]}]
               /\ history' = Append(history, [product |-> c.product, from |-> c.read.status, to |-> to,
                                              actor |-> r.actor, day |-> today])
               /\ commands' = commands \cup {[key |-> r.key, product |-> c.product,
                                              request |-> [action |-> r.action, actor |-> r.actor]]}
          ELSE UNCHANGED productTables
     /\ Rested(s)
     /\ UNCHANGED <<referenceTables, termsTables, today>>

-----------------------------------------------------------------------------
(* References.                                                             *)

\* A second kind of the same reference meets the unique index of migration 024 and is dropped
Associate(p, reference, kind) ==
  /\ product[p] # {}
  /\ associated' = IF \E a \in associated : a.product = p /\ a.reference = reference THEN associated
                   ELSE associated \cup {[product |-> p, reference |-> reference, kind |-> kind]}
  /\ UNCHANGED <<productTables, arbitrations, termsTables, today, command>>

Arbitrate(p, selected, rejected) ==
  /\ selected # rejected
  /\ {selected, rejected} \subseteq {a.reference : a \in {b \in associated : b.product = p}}
  /\ Priority[selected.source] >= Priority[rejected.source]
  /\ arbitrations' = arbitrations \cup {[product |-> p, selected |-> selected, rejected |-> rejected]}
  /\ UNCHANGED <<productTables, associated, termsTables, today, command>>

-----------------------------------------------------------------------------
(* Terms.                                                                  *)

TermsOf(p) == {t \in terms : t.product = p}
TermsCommand(key) == {c \in termsCommands : c.key = key}

\* The product's row is locked while the version is numbered
CreateTerms(p, period, actor, key) ==
  /\ TermsCommand(key) = {} /\ product[p] # {} /\ Cardinality(terms) < MaxVersions
  /\ LET versions == {t.version : t \in TermsOf(p)}
         version  == IF versions = {} THEN 1 ELSE (CHOOSE v \in versions : \A w \in versions : w <= v) + 1
     IN /\ terms' = terms \cup {[product |-> p, version |-> version, from |-> period.from, to |-> period.to,
                                 status |-> "DRAFT", creator |-> actor, approval |-> {}]}
        /\ termsEvents' = Append(termsEvents, [kind |-> "ProductTermsDrafted", product |-> p,
                                               version |-> version, actor |-> actor])
  /\ termsCommands' = termsCommands \cup {[key |-> key, request |-> [of |-> "CREATE_TERMS", actor |-> actor]]}
  /\ UNCHANGED <<productTables, referenceTables, retroactive, today, command>>

\* The business date is the caller's; terms that begin before it need the identifier of an approval
TermsAccept(t, r) ==
  /\ t.status = "DRAFT" /\ r.actor # t.creator
  /\ t.from < r.businessDate => r.approval # {}

\* The checksum of the simulation is that of the terms' own values
ReadTerms(s, t, r) ==
  /\ command[s] = Waiting
  /\ TermsCommand(r.key) = {}
  /\ TermsAccept(t, r)
  /\ command' = [command EXCEPT ![s] = [at |-> "terms", terms |-> t, request |-> r]]
  /\ UNCHANGED <<productTables, referenceTables, termsTables, today>>

Approved(t, keys, actor) ==
  \A key \in keys : \E a \in retroactive :
    a.key = key /\ a.product = t.product /\ a.version = t.version /\ a.actor # actor

PublishTerms(s) ==
  LET t == command[s].terms
      r == command[s].request
      published == [t EXCEPT !.status = "PUBLISHED", !.approval = r.approval]
  IN /\ command[s].at = "terms"
     /\ IF /\ TermsCommand(r.key) = {}
           /\ Approved(t, r.approval, r.actor)
           /\ t \in terms
           /\ ~\E u \in TermsOf(t.product) : u.status = "PUBLISHED" /\ Overlap(t, u)
          THEN /\ terms' = (terms \ {t}) \cup {published}
               /\ termsCommands' = termsCommands \cup
                    {[key |-> r.key, request |-> [of |-> "PUBLISH_TERMS", actor |-> r.actor]]}
               /\ termsEvents' = Append(termsEvents, [kind |-> "ProductTermsPublished", product |-> t.product,
                                                      version |-> t.version, actor |-> r.actor])
          ELSE UNCHANGED <<terms, termsCommands, termsEvents>>
     /\ Rested(s)
     /\ UNCHANGED <<productTables, referenceTables, retroactive, today>>

\* No code of the repository writes this approval; the table is shared with the other workflows
ApproveRetroactively(t, actor, key) ==
  /\ ~\E a \in retroactive : a.key = key
  /\ retroactive' = retroactive \cup {[key |-> key, product |-> t.product, version |-> t.version, actor |-> actor]}
  /\ UNCHANGED <<productTables, referenceTables, terms, termsCommands, termsEvents, today, command>>

\* The service stops, or the connection is lost, between reading and writing
Forget(s) ==
  /\ command[s] # Waiting
  /\ Rested(s)
  /\ UNCHANGED <<productTables, referenceTables, termsTables, today>>

NextDay ==
  /\ today < LastDay
  /\ today' = today + 1
  /\ UNCHANGED <<productTables, referenceTables, termsTables, command>>

-----------------------------------------------------------------------------
ProductsInit ==
  /\ product = [p \in Catalogue |-> {}]
  /\ history = <<>> /\ commands = {}
  /\ associated = {} /\ arbitrations = {}
  /\ terms = {} /\ termsCommands = {} /\ termsEvents = <<>> /\ retroactive = {}
  /\ today = 1
  /\ command = [s \in ProductSessions |-> Waiting]

LifecycleNext ==
  \/ \E r \in Creations : CreateProduct(r.product, r.actor, r.key)
  \/ \E s \in ProductSessions, r \in Transits : ReadProduct(s, r.product, r)
  \/ \E s \in ProductSessions : SaveTransition(s) \/ Forget(s)
  \/ \E p \in Catalogue, reference \in References, kind \in RequiredKinds : Associate(p, reference, kind)
  \/ \E p \in Catalogue, selected, rejected \in References : Arbitrate(p, selected, rejected)
  \/ NextDay

TermsNext ==
  \/ \E r \in Creations : CreateProduct(r.product, r.actor, r.key)
  \/ \E r \in Drafts : CreateTerms(r.product, r.period, r.actor, r.key)
  \/ \E s \in ProductSessions, r \in Publications :
       \E t \in TermsOf(r.product) : t.version = r.version /\ ReadTerms(s, t, r)
  \/ \E s \in ProductSessions : PublishTerms(s) \/ Forget(s)
  \/ \E t \in terms, actor \in People, key \in CommandKeys : ApproveRetroactively(t, actor, key)

ProductsNext == LifecycleNext \/ TermsNext

ProductsSpec == ProductsInit /\ [][ProductsNext]_productVars

-----------------------------------------------------------------------------
(* Properties.                                                             *)

LifeOf(p) == {i \in DOMAIN history : history[i].product = p}

\* The history of a product is one legal path that ends in its status, although every step was
\* judged on what somebody read earlier; each step has its own command; the publisher is not the
\* validator; and whoever published or resumed it had every required kind of reference effective
\* on the day for which it was asked.
ProductsFollowWorkflow ==
  \A p \in Catalogue :
    LET life == LifeOf(p) IN
    /\ product[p] = {} <=> life = {}
    /\ Cardinality({c \in commands : c.product = p}) = Cardinality(life)
    /\ \A row \in product[p] : \A i \in life :
         /\ (\A j \in life : j <= i) => history[i].to = row.status
         /\ \A j \in life : j < i /\ (\A k \in life : k <= j \/ i <= k) =>
              /\ history[i].from = history[j].to
              /\ \E a \in DOMAIN Steps : history[i].from \in Steps[a].from /\ history[i].to = Steps[a].to
         /\ history[i].to = "VALIDATED" => row.validator = {history[i].actor}
         /\ history[i].from = "VALIDATED" => row.validator # {history[i].actor} /\ p \in Complete
         /\ history[i].to = "PUBLISHED" =>
              \A k \in RequiredKinds : \E a \in associated :
                a.product = p /\ a.kind = k /\ Effective(a.reference, history[i].day)

\* An arbitration prefers a reference of the product to another one of the product, against no
\* higher source.
ArbitrationsKeepPriority ==
  \A a \in arbitrations :
    /\ \A x \in {a.selected, a.rejected} : \E b \in associated : b.product = a.product /\ b.reference = x
    /\ Priority[a.selected.source] >= Priority[a.rejected.source]

TermsEvents(kind, p, v) ==
  {i \in DOMAIN termsEvents : LET e == termsEvents[i] IN e.kind = kind /\ e.product = p /\ e.version = v}

\* The versions of a product are numbered without a gap, no two published ones have a day in
\* common, each was drafted and published by one event, by two people, and an approval that it
\* names is of these very terms and of somebody other than the publisher.
TermsAreConsistent ==
  \A p \in Catalogue :
    LET mine == TermsOf(p) IN
    /\ {t.version : t \in mine} = 1..Cardinality(mine)
    /\ \A t, u \in mine : t # u /\ t.status = "PUBLISHED" /\ u.status = "PUBLISHED" =>
         (1..LastDay) \cap (t.from..t.to) \cap (u.from..u.to) = {}
    /\ \A t \in mine :
         /\ Cardinality(TermsEvents("ProductTermsDrafted", p, t.version)) = 1
         /\ Cardinality(TermsEvents("ProductTermsPublished", p, t.version)) = (IF t.status = "PUBLISHED" THEN 1 ELSE 0)
         /\ \A i \in TermsEvents("ProductTermsPublished", p, t.version) :
              /\ termsEvents[i].actor # t.creator
              /\ \A key \in t.approval : \E a \in retroactive :
                   /\ a.key = key /\ a.product = p /\ a.version = t.version
                   /\ a.actor # termsEvents[i].actor

\* Products and references together.
ProductsAreConsistent == ProductsFollowWorkflow /\ ArbitrationsKeepPriority
=============================================================================
