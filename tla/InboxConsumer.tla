---------------------------- MODULE InboxConsumer ----------------------------
(***************************************************************************)
(* A work queue and the worker processes that consume it: RabbitMQ         *)
(* delivers copies of messages (RabbitMqEventConsumer), the handler claims *)
(* the message in integration.inbox_message, runs the business effect and  *)
(* records its completion (IdempotentConsumer, PostgresInboxRepository).   *)
(* The effect is opaque here: it commits or it fails.                      *)
(***************************************************************************)
EXTENDS Integers, FiniteSets

CONSTANTS
  Messages,    (* message identifiers (eventId)                            *)
  Copies,      (* copies of messages the queue receives                    *)
  MessageOf,   (* the message of each copy                                 *)
  Malformed,   (* messages toOutboxMessage rejects                         *)
  Workers,     (* processes of one consumer name                           *)
  Prefetch,    (* concurrency                                              *)
  MaxFaults    (* bound: faults and overrun leases in a behaviour          *)

ASSUME InboxAssumption ==
  /\ MessageOf \in [Copies -> Messages]
  /\ Malformed \subseteq Messages
  /\ Copies \cap Workers = {}
  /\ {"ready", "acked", "dead"} \cap Workers = {}
  /\ Prefetch \in Nat \ {0} /\ MaxFaults \in Nat

VARIABLES
  copy,         (* ready, unacknowledged by a worker, acked or dead-lettered *)
  pc,           (* where each worker's handler of a copy stands              *)
  alive,        (* up, cut off from the broker (channel closed), or down     *)
  inbox,        (* the inbox row: absent, fresh or stale lease, processed    *)
  effects,      (* committed effects of each message: 0, 1, 2 or more        *)
  interrupted,  (* the broker took a copy back from an unfinished handler    *)
  faults

vars == <<copy, pc, alive, inbox, effects, interrupted, faults>>

AtWork == {"effect", "complete", "abandon"}   \* handlers that own the inbox row
Stages == {"none", "begin", "ack", "nack"} \cup AtWork

TypeOK ==
  /\ copy \in [Copies -> {"ready", "acked", "dead"} \cup Workers]
  /\ pc \in [Workers -> [Copies -> Stages]]
  /\ alive \in [Workers -> {"up", "cutOff", "down"}]
  /\ inbox \in [Messages -> {"absent", "fresh", "stale", "processed"}]
  /\ effects \in [Messages -> 0..2]
  /\ interrupted \in [Messages -> BOOLEAN]
  /\ faults \in 0..MaxFaults

Init ==
  /\ copy = [c \in Copies |-> "ready"]
  /\ pc = [w \in Workers |-> [c \in Copies |-> "none"]]
  /\ alive = [w \in Workers |-> "up"]
  /\ inbox = [m \in Messages |-> "absent"]
  /\ effects = [m \in Messages |-> 0]
  /\ interrupted = [m \in Messages |-> FALSE]
  /\ faults = 0

-----------------------------------------------------------------------------
Fault == faults < MaxFaults /\ faults' = faults + 1

Unacked(w) == {c \in Copies : copy[c] = w}

Goto(w, c, stage) == pc' = [pc EXCEPT ![w][c] = stage]

(* toOutboxMessage throws on an invalid message before the handler runs.   *)
FirstStage(c) == IF MessageOf[c] \in Malformed THEN "nack" ELSE "begin"

(* basic.deliver within the prefetch window.                               *)
Deliver(w, c) ==
  /\ copy[c] = "ready" /\ alive[w] = "up"
  /\ Cardinality(Unacked(w)) < Prefetch
  /\ copy' = [copy EXCEPT ![c] = w]
  /\ Goto(w, c, FirstStage(c))
  /\ UNCHANGED <<alive, inbox, effects, interrupted, faults>>

(* Mutant of Acquirable: any unprocessed row can be taken over.            *)
AcquirableUnprocessed(m) == inbox[m] # "processed"

(* INSERT ... ON CONFLICT DO UPDATE WHERE unprocessed and the lease older  *)
(* than five minutes.                                                      *)
Acquirable(m) == inbox[m] \in {"absent", "stale"}

Acquire(m) == inbox' = [inbox EXCEPT ![m] = "fresh"]

Begin(w, c) ==
  /\ pc[w][c] = "begin"
  /\ IF Acquirable(MessageOf[c])
     THEN Acquire(MessageOf[c]) /\ Goto(w, c, "effect")
     ELSE UNCHANGED inbox /\ Goto(w, c, "ack")      \* returns 'DUPLICATE'
  /\ UNCHANGED <<copy, alive, effects, interrupted, faults>>

(* begin throws, before or after its statement committed: it stands        *)
(* outside the try, so nothing abandons the row.                           *)
BeginError(w, c) ==
  /\ pc[w][c] = "begin"
  /\ \/ Acquirable(MessageOf[c]) /\ Acquire(MessageOf[c])
     \/ UNCHANGED inbox
  /\ Goto(w, c, "nack")
  /\ Fault
  /\ UNCHANGED <<copy, alive, effects, interrupted>>

Commits(m) == effects' = [effects EXCEPT ![m] = IF @ < 2 THEN @ + 1 ELSE 2]

EffectSucceeds(w, c) ==
  /\ pc[w][c] = "effect"
  /\ Commits(MessageOf[c])
  /\ Goto(w, c, "complete")
  /\ UNCHANGED <<copy, alive, inbox, interrupted, faults>>

(* Mutant of EffectFails: the failure is acknowledged like a success.      *)
EffectFailsAcknowledged(w, c) ==
  /\ pc[w][c] = "effect"
  /\ Commits(MessageOf[c]) \/ UNCHANGED effects
  /\ Goto(w, c, "ack")
  /\ Fault
  /\ UNCHANGED <<copy, alive, inbox, interrupted>>

(* The effect throws; what it did before may be durable.                   *)
EffectFails(w, c) ==
  /\ pc[w][c] = "effect"
  /\ Commits(MessageOf[c]) \/ UNCHANGED effects
  /\ Goto(w, c, "abandon")
  /\ Fault
  /\ UNCHANGED <<copy, alive, inbox, interrupted>>

(* UPDATE by consumer and message: whoever owns the row, if there is one.  *)
SetProcessed(m) ==
  inbox' = [inbox EXCEPT ![m] = IF @ = "absent" THEN "absent" ELSE "processed"]

Complete(w, c) ==
  /\ pc[w][c] = "complete"
  /\ SetProcessed(MessageOf[c])
  /\ Goto(w, c, "ack")
  /\ UNCHANGED <<copy, alive, effects, interrupted, faults>>

CompleteError(w, c) ==
  /\ pc[w][c] = "complete"
  /\ SetProcessed(MessageOf[c]) \/ UNCHANGED inbox
  /\ Goto(w, c, "abandon")
  /\ Fault
  /\ UNCHANGED <<copy, alive, effects, interrupted>>

(* Mutant of DeleteUnprocessed: every row is deleted.                       *)
DeleteAny(m) == inbox' = [inbox EXCEPT ![m] = "absent"]

(* DELETE WHERE processed_at IS NULL: whoever owns the row.                *)
DeleteUnprocessed(m) ==
  inbox' = [inbox EXCEPT ![m] = IF @ = "processed" THEN "processed" ELSE "absent"]

Abandon(w, c) ==
  /\ pc[w][c] = "abandon"
  /\ DeleteUnprocessed(MessageOf[c])
  /\ Goto(w, c, "nack")
  /\ UNCHANGED <<copy, alive, effects, interrupted, faults>>

AbandonError(w, c) ==
  /\ pc[w][c] = "abandon"
  /\ DeleteUnprocessed(MessageOf[c]) \/ UNCHANGED inbox
  /\ Goto(w, c, "nack")
  /\ Fault
  /\ UNCHANGED <<copy, alive, effects, interrupted>>

-----------------------------------------------------------------------------
(* The worker's handlers end and the broker takes back what they held.     *)
Lose(w) ==
  /\ copy' = [c \in Copies |-> IF copy[c] = w THEN "ready" ELSE copy[c]]
  /\ interrupted' = [m \in Messages |-> interrupted[m] \/
       \E c \in Copies : MessageOf[c] = m /\ pc[w][c] \notin {"none", "ack"}]

Exit(w) ==
  /\ alive' = [alive EXCEPT ![w] = "down"]
  /\ pc' = [pc EXCEPT ![w] = [c \in Copies |-> "none"]]
  /\ Lose(w)

(* Mutant of Settle: nack with requeue.                                    *)
SettleRequeues(w, c) ==
  /\ pc[w][c] \in {"ack", "nack"}
  /\ \/ /\ alive[w] = "up"
        /\ copy' = [copy EXCEPT ![c] = IF pc[w][c] = "ack" THEN "acked" ELSE "ready"]
        /\ Goto(w, c, "none")
        /\ UNCHANGED <<alive, interrupted>>
     \/ alive[w] = "cutOff" /\ Exit(w)
  /\ UNCHANGED <<inbox, effects, faults>>

(* handleDelivery: ack, or nack without requeue to the dead-letter queue.  *)
(* On a closed channel both throw, the rejection is unhandled and the      *)
(* process exits.                                                          *)
Settle(w, c) ==
  /\ pc[w][c] \in {"ack", "nack"}
  /\ \/ /\ alive[w] = "up"
        /\ copy' = [copy EXCEPT ![c] = IF pc[w][c] = "ack" THEN "acked" ELSE "dead"]
        /\ Goto(w, c, "none")
        /\ UNCHANGED <<alive, interrupted>>
     \/ alive[w] = "cutOff" /\ Exit(w)
  /\ UNCHANGED <<inbox, effects, faults>>

Crash(w) ==
  /\ alive[w] # "down"
  /\ Exit(w)
  /\ Fault
  /\ UNCHANGED <<inbox, effects>>

(* The channel closes while handlers run: a stop signal closes the         *)
(* consumer without waiting for them, or the broker drops the connection.  *)
(* The handlers go on, their copies are delivered again elsewhere.         *)
CutOff(w) ==
  /\ alive[w] = "up"
  /\ alive' = [alive EXCEPT ![w] = "cutOff"]
  /\ Lose(w)
  /\ Fault
  /\ UNCHANGED <<pc, inbox, effects>>

(* A worker cut off from the broker with nothing left to do exits too.     *)
ExitIdle(w) ==
  /\ alive[w] = "cutOff"
  /\ \A c \in Copies : pc[w][c] = "none"
  /\ Exit(w)
  /\ UNCHANGED <<inbox, effects, faults>>

Restart(w) ==
  /\ alive[w] = "down"
  /\ alive' = [alive EXCEPT ![w] = "up"]
  /\ UNCHANGED <<copy, pc, inbox, effects, interrupted, faults>>

(* Five minutes after begin; a fault when a handler is still at work.      *)
LeaseExpires(m) ==
  /\ inbox[m] = "fresh"
  /\ inbox' = [inbox EXCEPT ![m] = "stale"]
  /\ IF \E w \in Workers, c \in Copies : MessageOf[c] = m /\ pc[w][c] \in AtWork
     THEN Fault ELSE UNCHANGED faults
  /\ UNCHANGED <<copy, pc, alive, effects, interrupted>>

-----------------------------------------------------------------------------
Handle(w, c) ==
  \/ Begin(w, c) \/ EffectSucceeds(w, c) \/ Complete(w, c) \/ Abandon(w, c)
  \/ Settle(w, c)

Failure(w, c) ==
  BeginError(w, c) \/ EffectFails(w, c) \/ CompleteError(w, c) \/ AbandonError(w, c)

Next ==
  \/ \E w \in Workers, c \in Copies : Deliver(w, c) \/ Handle(w, c) \/ Failure(w, c)
  \/ \E w \in Workers : Crash(w) \/ CutOff(w) \/ ExitIdle(w) \/ Restart(w)
  \/ \E m \in Messages : LeaseExpires(m)

Spec == Init /\ [][Next]_vars

(* Handlers run on, workers that left come back, and the broker delivers   *)
(* what is ready.                                                          *)
FairSpec ==
  /\ Spec
  /\ \A w \in Workers, c \in Copies : WF_vars(Handle(w, c))
  /\ \A w \in Workers : WF_vars(ExitIdle(w)) /\ WF_vars(Restart(w))
  /\ \A c \in Copies : SF_vars(\E w \in Workers : Deliver(w, c))

-----------------------------------------------------------------------------
Settled(m, outcomes) == \A c \in Copies : MessageOf[c] = m => copy[c] \in outcomes
Lost(m) == Settled(m, {"acked"}) /\ effects[m] = 0 /\ \E c \in Copies : MessageOf[c] = m

(* A message whose copies are all acknowledged has had its effect, unless  *)
(* the broker once took a copy back from an unfinished handler: in         *)
(* particular a 'DUPLICATE' of a handler that then fails is never the end  *)
(* of the message, its dead letter remains.                                *)
NoLossUninterrupted == \A m \in Messages : Lost(m) => interrupted[m]

(* rabbitmq-event-consumer.spec.ts: "acknowledges only after successful    *)
(* handling".  A copy delivered again within five minutes of the begin of  *)
(* a handler that died is acknowledged as a duplicate of nothing.          *)
AcknowledgedMeansHandled == \A m \in Messages : ~Lost(m)

(* Without faults the effect runs at most once, however many copies of the *)
(* message are delivered and to however many workers.                      *)
EffectOnceWithoutFault == \A m \in Messages : effects[m] > 1 => faults > 0

(* The completion recorded in the inbox is that of a committed effect,     *)
(* although complete and abandon do not check who owns the row.            *)
ProcessedMeansDone == \A m \in Messages : inbox[m] = "processed" => effects[m] > 0

(* A processed row stays: no late abandon deletes it and no begin takes it *)
(* over, so that no later copy runs the effect again.                      *)
ProcessedIsFinal ==
  [][\A m \in Messages : inbox[m] = "processed" => inbox'[m] = "processed"]_inbox

(* Every copy is acknowledged or dead-lettered in the end: failed messages *)
(* do not loop ("dead-letters invalid or failed messages without requeue   *)
(* loops") and the prefetch window never fills up for good.                *)
EventuallySettled == \A c \in Copies : <>[](copy[c] \in {"acked", "dead"})

(* What an inbox row says is so: a completion is that of a committed       *)
(* effect, and without faults there is one effect.                         *)
InboxIsConsistent == TypeOK /\ ProcessedMeansDone /\ EffectOnceWithoutFault
==============================================================================
