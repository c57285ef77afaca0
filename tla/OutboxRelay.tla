----------------------------- MODULE OutboxRelay -----------------------------
(***************************************************************************)
(* The transactional outbox: rows inserted by business transactions, and   *)
(* the scheduler processes that relay them to RabbitMQ with publisher      *)
(* confirms (OutboxScheduler, OutboxRelay, PostgresOutboxRepository,       *)
(* RabbitMqEventPublisher).                                                *)
(*                                                                         *)
(* Time is kept relative to the present instant, in ticks: 0 is now, a     *)
(* positive value lies ahead, a negative one in the past, and Tick ages    *)
(* every stored instant by one.  An instant older than Horizon is clipped  *)
(* there, which keeps the state space finite without ending time.          *)
(***************************************************************************)
EXTENDS Integers, FiniteSets

CONSTANTS
  Events,       (* event identifiers (event_id)                            *)
  Routable,     (* the events whose type some queue is bound to            *)
  Workers,      (* relay processes; a worker is its workerId               *)
  NoWorker,     (* locked_by IS NULL                                       *)
  NoRecord,     (* a worker that is on no record                           *)
  BatchLimit,   (* OUTBOX_BATCH_SIZE                                       *)
  LeaseTicks,   (* leaseSeconds                                            *)
  RetryBase,    (* retryBaseSeconds                                        *)
  RetryCap,     (* the 3600 seconds of retryAt                             *)
  ExponentCap,  (* the 10 of retryAt: attempts beyond it change no delay   *)
  Horizon,      (* instants further in the past are not told apart         *)
  ChannelsFail, (* bound: whether channel errors happen                    *)
  MaxFaults     (* bound: faults and overrun leases in a behaviour         *)

ASSUME OutboxAssumption ==
  /\ Routable \subseteq Events
  /\ NoWorker \notin Workers
  /\ BatchLimit \in Nat \ {0} /\ LeaseTicks \in Nat \ {0}
  /\ RetryBase \in Nat /\ RetryCap \in Nat /\ ExponentCap \in Nat
  /\ Horizon \in Nat /\ Horizon > LeaseTicks /\ Horizon > RetryCap
  /\ ChannelsFail \in BOOLEAN /\ MaxFaults \in Nat

Attempts == 0..ExponentCap
Record   == [event: Events, attempts: Attempts]

ASSUME NoRecordAssumption == NoRecord \notin Record

VARIABLES
  outbox,    (* integration.outbox_event                                   *)
  pc,        (* where each worker stands in runBatch                       *)
  now,       (* the instant each worker captured when its batch began      *)
  batch,     (* the claimed records it has not finished                    *)
  cur,       (* the record it is on                                        *)
  channel,   (* its confirm channel is open                                *)
  accepted,  (* copies of the event the broker routed to a queue: 0, 1, 2+ *)
  faults     (* faults so far                                              *)

vars == <<outbox, pc, now, batch, cur, channel, accepted, faults>>

Row == [status: {"absent", "pending", "published"}, availableAt: Int,
        attempts: Attempts, lockedBy: Workers \cup {NoWorker}, lockedUntil: Int]

TypeOK ==
  /\ outbox \in [Events -> Row]
  /\ pc \in [Workers -> {"idle", "claim", "publish", "confirming",
                         "markPublished", "markFailed", "down"}]
  /\ now \in [Workers -> Int]
  /\ batch \in [Workers -> SUBSET Record]
  /\ cur \in [Workers -> Record \cup {NoRecord}]
  /\ channel \in [Workers -> BOOLEAN]
  /\ accepted \in [Events -> 0..2]
  /\ faults \in 0..MaxFaults

Clip(t) == IF t < -Horizon THEN -Horizon ELSE t
Least(a, b) == IF a < b THEN a ELSE b
Bump(n, cap) == IF n < cap THEN n + 1 ELSE cap

RetryDelay(attempts) ==
  Least(RetryBase * 2^Least(attempts, ExponentCap), RetryCap)

Init ==
  /\ outbox = [e \in Events |-> [status |-> "absent", availableAt |-> 0,
                 attempts |-> 0, lockedBy |-> NoWorker, lockedUntil |-> 0]]
  /\ pc = [w \in Workers |-> "idle"]
  /\ now = [w \in Workers |-> 0]
  /\ batch = [w \in Workers |-> {}]
  /\ cur = [w \in Workers |-> NoRecord]
  /\ channel = [w \in Workers |-> TRUE]
  /\ accepted = [e \in Events |-> 0]
  /\ faults = 0

-----------------------------------------------------------------------------
(* A fault spends the budget; the last argument of an action that may or   *)
(* may not fail.                                                           *)
Fault == faults < MaxFaults /\ faults' = faults + 1

(* A business transaction commits its outbox row (column defaults).        *)
Enqueue(e) ==
  /\ outbox[e].status = "absent"
  /\ outbox' = [outbox EXCEPT ![e].status = "pending", ![e].availableAt = 0]
  /\ UNCHANGED <<pc, now, batch, cur, channel, accepted, faults>>

(* OutboxScheduler.runOnce: one batch at a time, the instant captured once. *)
BeginBatch(w) ==
  /\ pc[w] = "idle"
  /\ pc' = [pc EXCEPT ![w] = "claim"]
  /\ now' = [now EXCEPT ![w] = 0]
  /\ UNCHANGED <<outbox, batch, cur, channel, accepted, faults>>

(* Mutants of Claimable: the lease is ignored; an expired lease is never   *)
(* taken over.                                                             *)
ClaimableIgnoringLease(w) ==
  {e \in Events : outbox[e].status = "pending" /\ outbox[e].availableAt <= now[w]}

ClaimableUnlocked(w) ==
  {e \in Events : /\ outbox[e].status = "pending" /\ outbox[e].availableAt <= now[w]
                  /\ outbox[e].lockedBy = NoWorker}

Claimable(w) ==
  {e \in Events : /\ outbox[e].status = "pending"
                  /\ outbox[e].availableAt <= now[w]
                  /\ \/ outbox[e].lockedBy = NoWorker
                     \/ outbox[e].lockedUntil < now[w]}

(* Rows another worker's statement may hold at this moment: SKIP LOCKED.   *)
UnderStatement(w) ==
  {cur[v].event : v \in {u \in Workers \ {w} : pc[u] \in {"markPublished", "markFailed"}}}

(* The first BatchLimit rows of S by available_at, ties in any order.      *)
IsFirstOf(T, S) ==
  /\ T \subseteq S
  /\ Cardinality(T) = Least(BatchLimit, Cardinality(S))
  /\ \A e \in T, f \in S \ T : outbox[e].availableAt <= outbox[f].availableAt

(* What ends one record: the next one, or the end of the batch.            *)
Advance(w, rest) ==
  /\ batch' = [batch EXCEPT ![w] = rest]
  /\ cur' = [cur EXCEPT ![w] = NoRecord]
  /\ pc' = [pc EXCEPT ![w] = IF rest = {} THEN "idle" ELSE "publish"]

(* One statement locks and leases what it returns.                         *)
Lease(w, claimed) ==
  /\ \E skipped \in SUBSET UnderStatement(w) : IsFirstOf(claimed, Claimable(w) \ skipped)
  /\ outbox' = [e \in Events |->
       IF e \in claimed
       THEN [outbox[e] EXCEPT !.lockedBy = w, !.lockedUntil = now[w] + LeaseTicks]
       ELSE outbox[e]]

ClaimPending(w) ==
  /\ pc[w] = "claim"
  /\ \E claimed \in SUBSET Claimable(w) :
        /\ Lease(w, claimed)
        /\ Advance(w, {[event |-> e, attempts |-> outbox[e].attempts] : e \in claimed})
  /\ UNCHANGED <<now, channel, accepted, faults>>

(* It fails, before or after its commit: then nobody works on the leased   *)
(* rows.                                                                   *)
ClaimPendingError(w) ==
  /\ pc[w] = "claim"
  /\ (\E claimed \in SUBSET Claimable(w) : Lease(w, claimed)) \/ UNCHANGED outbox
  /\ Advance(w, {})
  /\ Fault
  /\ UNCHANGED <<now, channel, accepted>>

(* publisher.publish: on a closed channel it throws at once.               *)
Publish(w) ==
  /\ pc[w] = "publish"
  /\ \E r \in batch[w] : cur' = [cur EXCEPT ![w] = r]
  /\ pc' = [pc EXCEPT ![w] = IF channel[w] THEN "confirming" ELSE "markFailed"]
  /\ UNCHANGED <<outbox, now, batch, channel, accepted, faults>>

Routed(e) == accepted' = [accepted EXCEPT ![e] = Bump(@, 2)]

(* The broker routes the message and confirms it: finishConfirmed.         *)
Confirm(w) ==
  /\ pc[w] = "confirming"
  /\ cur[w].event \in Routable
  /\ Routed(cur[w].event)
  /\ pc' = [pc EXCEPT ![w] = "markPublished"]
  /\ UNCHANGED <<outbox, now, batch, cur, channel, faults>>

(* Mutant of Return: the confirm that follows the return counts.           *)
ReturnConfirmed(w) ==
  /\ pc[w] = "confirming"
  /\ cur[w].event \notin Routable
  /\ pc' = [pc EXCEPT ![w] = "markPublished"]
  /\ UNCHANGED <<outbox, now, batch, cur, channel, accepted, faults>>

(* mandatory: an unroutable message is returned before it is confirmed,    *)
(* rejectReturnedMessage wins over the later finishConfirmed.              *)
Return(w) ==
  /\ pc[w] = "confirming"
  /\ cur[w].event \notin Routable
  /\ pc' = [pc EXCEPT ![w] = "markFailed"]
  /\ UNCHANGED <<outbox, now, batch, cur, channel, accepted, faults>>

(* The confirm callback carries an error.                                  *)
Nack(w) ==
  /\ pc[w] = "confirming"
  /\ pc' = [pc EXCEPT ![w] = "markFailed"]
  /\ Fault
  /\ UNCHANGED <<outbox, now, batch, cur, channel, accepted>>

(* What was sent may have reached a queue although no confirm comes back.  *)
SentOrNot(w) ==
  \/ /\ pc[w] = "confirming" /\ cur[w].event \in Routable
     /\ Routed(cur[w].event)
  \/ UNCHANGED accepted

(* The channel closes: rejectAll; nothing ever reopens it.                 *)
ChannelError(w) ==
  /\ ChannelsFail /\ pc[w] # "down" /\ channel[w]
  /\ channel' = [channel EXCEPT ![w] = FALSE]
  /\ pc' = [pc EXCEPT ![w] = IF @ = "confirming" THEN "markFailed" ELSE @]
  /\ SentOrNot(w)
  /\ Fault
  /\ UNCHANGED <<outbox, now, batch, cur>>

-----------------------------------------------------------------------------
(* UPDATE ... WHERE event_id = $1 AND locked_by = worker: no row otherwise. *)
(* Nothing reads available_at or locked_until of a published row: both go  *)
(* to 0.                                                                   *)
SetPublished(w, e) ==
  outbox' = [outbox EXCEPT ![e] =
    IF @.lockedBy = w
    THEN [@ EXCEPT !.status = "published", !.availableAt = 0,
                   !.lockedBy = NoWorker, !.lockedUntil = 0]
    ELSE @]

(* Mutants of SetFailed: it does not check the lease; it closes the event; *)
(* it counts the attempts down.                                            *)
SetFailedUnfenced(w, r) ==
  outbox' = [outbox EXCEPT ![r.event].availableAt = Clip(now[w] + RetryDelay(r.attempts)),
                           ![r.event].lockedBy = NoWorker, ![r.event].lockedUntil = 0]

SetFailedCloses(w, r) ==
  outbox' = [outbox EXCEPT ![r.event] =
    IF @.lockedBy = w
    THEN [@ EXCEPT !.status = "published", !.lockedBy = NoWorker, !.lockedUntil = 0]
    ELSE @]

SetFailedCountsDown(w, r) ==
  outbox' = [outbox EXCEPT ![r.event] =
    IF @.lockedBy = w
    THEN [@ EXCEPT !.attempts = outbox[r.event].attempts - 1,
                   !.lockedBy = NoWorker, !.lockedUntil = 0]
    ELSE @]

SetFailed(w, r) ==
  outbox' = [outbox EXCEPT ![r.event] =
    IF @.lockedBy = w
    THEN [@ EXCEPT !.availableAt = Clip(now[w] + RetryDelay(r.attempts)),
                   !.attempts = Bump(outbox[r.event].attempts, ExponentCap),
                   !.lockedBy = NoWorker, !.lockedUntil = 0]
    ELSE @]

MarkPublished(w) ==
  /\ pc[w] = "markPublished"
  /\ SetPublished(w, cur[w].event)
  /\ Advance(w, batch[w] \ {cur[w]})
  /\ UNCHANGED <<now, channel, accepted, faults>>

(* The statement fails, before or after its commit: the catch marks failed. *)
MarkPublishedError(w) ==
  /\ pc[w] = "markPublished"
  /\ SetPublished(w, cur[w].event) \/ UNCHANGED outbox
  /\ pc' = [pc EXCEPT ![w] = "markFailed"]
  /\ Fault
  /\ UNCHANGED <<now, batch, cur, channel, accepted>>

MarkFailed(w) ==
  /\ pc[w] = "markFailed"
  /\ SetFailed(w, cur[w])
  /\ Advance(w, batch[w] \ {cur[w]})
  /\ UNCHANGED <<now, channel, accepted, faults>>

(* It throws out of runBatch: the rest of the batch stays leased.          *)
MarkFailedError(w) ==
  /\ pc[w] = "markFailed"
  /\ SetFailed(w, cur[w]) \/ UNCHANGED outbox
  /\ Advance(w, {})
  /\ Fault
  /\ UNCHANGED <<now, channel, accepted>>

Crash(w) ==
  /\ pc[w] # "down"
  /\ pc' = [pc EXCEPT ![w] = "down"]
  /\ batch' = [batch EXCEPT ![w] = {}]
  /\ cur' = [cur EXCEPT ![w] = NoRecord]
  /\ SentOrNot(w)
  /\ Fault
  /\ UNCHANGED <<outbox, now, channel>>

(* The container restarts under the same HOSTNAME:pid.                     *)
Restart(w) ==
  /\ pc[w] = "down"
  /\ pc' = [pc EXCEPT ![w] = "idle"]
  /\ channel' = [channel EXCEPT ![w] = TRUE]
  /\ UNCHANGED <<outbox, now, batch, cur, accepted, faults>>

(* What this tick would make late: a lease (or the instant a claim is      *)
(* about to use) ends while its worker is still at work, or a row has been *)
(* waiting for so long that Horizon no longer orders it.                   *)
Overruns ==
  \/ \E e \in Events : /\ outbox[e].status = "pending"
                       /\ outbox[e].availableAt = -Horizon
                       /\ \/ outbox[e].lockedBy = NoWorker
                          \/ outbox[e].lockedUntil < 0
  \/ \E w \in Workers : pc[w] = "claim" /\ now[w] = -LeaseTicks
  \/ \E w \in Workers : \E r \in batch[w] :
       outbox[r.event].lockedBy = w /\ outbox[r.event].lockedUntil = 0

Tick ==
  /\ outbox' = [e \in Events |->
       IF outbox[e].status # "pending" THEN outbox[e]
       ELSE [outbox[e] EXCEPT
               !.availableAt = Clip(@ - 1),
               !.lockedUntil = IF outbox[e].lockedBy # NoWorker THEN Clip(@ - 1) ELSE 0]]
  /\ now' = [w \in Workers |-> IF pc[w] \in {"idle", "down"} THEN 0 ELSE Clip(now[w] - 1)]
  /\ IF Overruns THEN Fault ELSE UNCHANGED faults
  /\ UNCHANGED <<pc, batch, cur, channel, accepted>>

-----------------------------------------------------------------------------
Step(w) ==
  \/ BeginBatch(w) \/ ClaimPending(w) \/ Publish(w) \/ Confirm(w) \/ Return(w)
  \/ MarkPublished(w) \/ MarkFailed(w) \/ Restart(w)

Disturbance(w) ==
  \/ ClaimPendingError(w) \/ Nack(w) \/ ChannelError(w)
  \/ MarkPublishedError(w) \/ MarkFailedError(w) \/ Crash(w)

Next ==
  \/ \E e \in Events : Enqueue(e)
  \/ \E w \in Workers : Step(w) \/ Disturbance(w)
  \/ Tick

Spec == Init /\ [][Next]_vars

(* Every worker goes on (Compose restarts it), the broker answers (a dead  *)
(* connection is cut by the heartbeat), time passes.                       *)
FairSpec == Spec /\ (\A w \in Workers : WF_vars(Step(w))) /\ WF_vars(Tick)

-----------------------------------------------------------------------------
(* An event is marked published only when the broker has routed a copy of  *)
(* it: a returned, nacked or unanswered message is never marked            *)
(* (outbox-relay.ts, "marks an event published only after broker           *)
(* acknowledgement").                                                      *)
PublishedWasAccepted ==
  \A e \in Events : outbox[e].status = "published" => accepted[e] > 0

(* A published row is never written again, although markPublished and      *)
(* markFailed test only locked_by: a worker whose lease was taken over, or *)
(* that fails after its own commit, changes nothing.                       *)
PublishedIsFinal ==
  [][\A e \in Events : outbox[e].status = "published" => outbox'[e] = outbox[e]]_outbox

(* The leases keep two relays off the same event: a second copy reaches    *)
(* the broker only after a fault or an overrun lease.                      *)
DuplicateOnlyAfterFault ==
  \A e \in Events : accepted[e] > 1 => faults > 0

(* Crashed, aborted and failed batches are taken up again: a routable      *)
(* event is published once faults cease, even behind events that no queue  *)
(* accepts and that come back for ever.                                    *)
EventuallyPublished ==
  \A e \in Routable : outbox[e].status = "pending" ~> outbox[e].status = "published"

(* The relay implements the promise of EventLog: every step records one    *)
(* event, sends one copy, closes one event that was sent, or changes none  *)
(* of that.                                                                *)
Log == INSTANCE EventLog WITH
  Deliverable <- Routable,
  status <- [e \in Events |-> outbox[e].status],
  copies <- accepted

ImplementsEventLog == Log!Spec
==============================================================================
