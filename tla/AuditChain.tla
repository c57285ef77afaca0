------------------------------ MODULE AuditChain ------------------------------
(***************************************************************************)
(* The audit trail: a table of signed events, each linked to the one       *)
(* before it by that one's hash.  Every API process and every audit worker *)
(* appends, one transaction each, under one advisory lock; the last event  *)
(* is the one with the latest created_at.  Readers verify the links of a   *)
(* window of the latest events.                                            *)
(*                                                                         *)
(* Hashes do not collide, so an event stands for its hash.                 *)
(***************************************************************************)
EXTENDS Naturals, FiniteSets

CONSTANTS
  Events,      (* audit_event_id: numbers, for the order of the uuids      *)
  NoEvent,
  Addressed,   (* the events with a source_address                         *)
  UpperCased,  (* those whose X-Correlation-Id was sent in capital letters *)
  EmptySession, (* those of a token with an empty sid                      *)
  Writers,     (* sessions that append                                     *)
  NoWriter,
  MaxClock,    (* bound: instants                                          *)
  MaxStepsBack (* bound: how often the clock of the database steps back    *)

ASSUME AuditAssumption ==
  /\ Events \subseteq Nat /\ NoEvent \notin Events
  /\ Addressed \subseteq Events /\ UpperCased \subseteq Events /\ EmptySession \subseteq Events
  /\ NoWriter \notin Writers
  /\ MaxClock \in Nat /\ MaxStepsBack \in Nat

VARIABLES
  trail,     (* audit.event: its committed rows                            *)
  tx,        (* what each writer is about to append                        *)
  lock,      (* who holds the advisory lock pms.audit.chain                *)
  clock,     (* clock_timestamp() of the database                          *)
  stepsBack  (* how often the clock stepped back                           *)

auditVars == <<trail, tx, lock, clock, stepsBack>>

Row == [event: Events, previous: Events \cup {NoEvent}, at: 0..MaxClock]

Stage == {"idle", "waiting", "locked", "signing", "inserted"}

Tx == [stage: Stage, event: Events \cup {NoEvent}, previous: Events \cup {NoEvent},
       at: 0..MaxClock]

Idle == [stage |-> "idle", event |-> NoEvent, previous |-> NoEvent, at |-> 0]

(* The type invariant.                                                     *)
AuditTypeOK ==
  /\ trail \subseteq Row
  /\ tx \in [Writers -> Tx]
  /\ lock \in Writers \cup {NoWriter}
  /\ clock \in 0..MaxClock
  /\ stepsBack \in 0..MaxStepsBack

AuditInit ==
  /\ trail = {}
  /\ tx = [w \in Writers |-> Idle]
  /\ lock = NoWriter
  /\ clock = 0
  /\ stepsBack = 0

-----------------------------------------------------------------------------
(* ORDER BY created_at, audit_event_id                                     *)
Before(r, q) == r.at < q.at \/ (r.at = q.at /\ r.event < q.event)

(* Mutant: the wrong column of the last row.                               *)
LatestTime(S) == IF S = {} THEN NoEvent ELSE (CHOOSE r \in S : \A q \in S \ {r} : Before(q, r)).at

Latest(S) ==
  IF S = {} THEN NoEvent
  ELSE (CHOOSE r \in S : \A q \in S \ {r} : Before(q, r)).event

Recorded == {r.event : r \in trail}

(* BEGIN, then the wait for the lock.  An event comes again when its       *)
(* message is redelivered.                                                 *)
Begin(w) ==
  /\ tx[w].stage = "idle"
  /\ \E e \in Events : tx' = [tx EXCEPT ![w] =
       [stage |-> "waiting", event |-> e, previous |-> NoEvent, at |-> 0]]
  /\ UNCHANGED <<trail, lock, clock, stepsBack>>

(* Mutant: the lock is not waited for.                                     *)
LockFreeIgnored == TRUE

LockFree == lock = NoWriter

Lock(w) ==
  /\ tx[w].stage = "waiting"
  /\ LockFree
  /\ tx' = [tx EXCEPT ![w].stage = "locked"]
  /\ lock' = w
  /\ UNCHANGED <<trail, clock, stepsBack>>

(* The end of a transaction, which releases what it locked.                *)
Release(w) ==
  /\ tx' = [tx EXCEPT ![w] = Idle]
  /\ lock' = IF lock = w THEN NoWriter ELSE lock

(* The event is there already: its row is the answer.                      *)
Replay(w) ==
  /\ tx[w].stage = "locked"
  /\ tx[w].event \in Recorded
  /\ Release(w)
  /\ UNCHANGED <<trail, clock, stepsBack>>

(* The last event's hash enters the hash that the signer is asked to sign. *)
ReadPrevious(w) ==
  /\ tx[w].stage = "locked"
  /\ tx[w].event \notin Recorded
  /\ tx' = [tx EXCEPT ![w].stage = "signing", ![w].previous = Latest(trail)]
  /\ UNCHANGED <<trail, lock, clock, stepsBack>>

(* audit_event_previous_hash_unique, which lets NULL occur more than once, *)
(* and the primary key.  A row another transaction has inserted counts:    *)
(* the statement would wait for that transaction.                          *)
Unique(w) ==
  \A r \in trail \cup {tx[v] : v \in {v \in Writers \ {w} : tx[v].stage = "inserted"}} :
    /\ r.event # tx[w].event
    /\ tx[w].previous # NoEvent => r.previous # tx[w].previous

(* Mutant: created_at is the beginning of the transaction, as now() is.    *)
InsertAtBegin(w) ==
  /\ tx[w].stage = "signing"
  /\ Unique(w)
  /\ \E t \in 0..clock, u \in (clock + 1)..MaxClock :
       /\ tx' = [tx EXCEPT ![w].stage = "inserted", ![w].at = t]
       /\ clock' = u
  /\ UNCHANGED <<trail, lock, stepsBack>>

(* The signer has answered; time has passed since the last reading.        *)
Insert(w) ==
  /\ tx[w].stage = "signing"
  /\ Unique(w)
  /\ \E t \in (clock + 1)..MaxClock :
       /\ tx' = [tx EXCEPT ![w].stage = "inserted", ![w].at = t]
       /\ clock' = t
  /\ UNCHANGED <<trail, lock, stepsBack>>

Commit(w) ==
  /\ tx[w].stage = "inserted"
  /\ trail' = trail \cup
       {[event |-> tx[w].event, previous |-> tx[w].previous, at |-> tx[w].at]}
  /\ Release(w)
  /\ UNCHANGED <<clock, stepsBack>>

(* Mutant: the connection goes back to the pool without ROLLBACK.          *)
AbortWithoutRollback(w) ==
  /\ tx[w].stage # "idle"
  /\ tx' = [tx EXCEPT ![w] = Idle]
  /\ UNCHANGED <<trail, lock, clock, stepsBack>>

(* The signer fails, the insert violates a constraint, the connection is   *)
(* lost, the process dies.                                                 *)
Abort(w) ==
  /\ tx[w].stage # "idle"
  /\ Release(w)
  /\ UNCHANGED <<trail, clock, stepsBack>>

(* The clock of the database host is corrected, or a standby whose clock   *)
(* is behind takes over.                                                   *)
StepBack ==
  /\ stepsBack < MaxStepsBack
  /\ clock > 0
  /\ clock' \in 0..(clock - 1)
  /\ stepsBack' = stepsBack + 1
  /\ UNCHANGED <<trail, tx, lock>>

Append(w) ==
  Begin(w) \/ Lock(w) \/ Replay(w) \/ ReadPrevious(w) \/ Insert(w) \/ Commit(w) \/ Abort(w)

AuditNext == StepBack \/ \E w \in Writers : Append(w)

(* A transaction that is past the lock comes to its end.                   *)
FinishAppend(w) == tx[w].stage # "waiting" /\ (Commit(w) \/ Abort(w))

AuditSpec == AuditInit /\ [][AuditNext]_auditVars

(* A signer that does not answer is given up by the HTTP client, so a      *)
(* transaction ends; PostgreSQL grants a lock in the order of the requests.*)
AuditFairSpec ==
  /\ AuditSpec
  /\ \A w \in Writers : SF_auditVars(Lock(w)) /\ WF_auditVars(FinishAppend(w))

-----------------------------------------------------------------------------
(* What a reader of the trail sees: the latest rows, in order.             *)
Window(limit) ==
  {r \in trail : Cardinality({q \in trail : Before(r, q)}) < limit}

(* The columns that are not read as they were hashed: source_address::text *)
(* is written with its netmask ('10.0.0.1/32'), which the hashed address   *)
(* has not; correlation_id::text is written in small letters, whatever was *)
(* sent and hashed; an empty session_id is left out.                       *)
Rewritten == Addressed \cup UpperCased \cup EmptySession

(* The hash is computed again from the columns.                            *)
HashMatches(r) == r.event \notin Rewritten

PredecessorMatches(r) == r.previous = Latest({q \in trail : Before(q, r)})

(* The links between the rows of the window, and of its first row.         *)
Broken(limit) ==
  {r \in Window(limit) : ~(HashMatches(r) /\ PredecessorMatches(r))}

-----------------------------------------------------------------------------
(* The trail is one chain, whatever the clock does: one event without a    *)
(* predecessor, one row for an event, no two rows that follow the same     *)
(* one, and every predecessor is there (append, and                        *)
(* audit_event_previous_hash_unique).                                      *)
OneChain ==
  /\ \A r, q \in trail : r.event = q.event \/ r.previous = q.previous => r = q
  /\ \A r \in trail : r.previous \in Recorded \cup {NoEvent}

(* Verification reports no event of an unaltered trail, unless one of its  *)
(* columns is rewritten by the database or the clock stepped back          *)
(* (QueryAuditTrail.execute and the subquery of latestWindow).             *)
BrokenHasCause ==
  stepsBack = 0 => \A limit \in 1..Cardinality(trail) :
                     \A r \in Broken(limit) : r.event \in Rewritten

(* Who waits for the lock gets it or gives up: no holder keeps it for ever,*)
(* however its transaction ends.                                           *)
LockIsGranted == \A w \in Writers : tx[w].stage = "waiting" ~> tx[w].stage # "waiting"

(* README.md:33: the worker "prolonge la chaine append-only", it extends   *)
(* the chain: the last row has no successor, so that one can be added.     *)
ChainCanGrow == Latest(trail) = NoEvent \/ \A r \in trail : r.previous # Latest(trail)
=============================================================================
