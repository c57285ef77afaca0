------------------------- MODULE InboxConsumer_proofs -------------------------
(***************************************************************************)
(* What the inbox guarantees, for any messages, copies, workers, prefetch  *)
(* and number of faults: a completion is that of a committed effect, the   *)
(* effect runs once when nothing fails, and a message is only lost when    *)
(* the broker took a copy back from a handler that had not finished.       *)
(***************************************************************************)
EXTENDS InboxConsumer, TLAPS

(* The worker that the broker knows: it holds a copy exactly while it      *)
(* handles it on an open channel.                                          *)
HeldByHandler ==
  \A w \in Workers, c \in Copies :
    /\ copy[c] = w => alive[w] = "up" /\ pc[w][c] # "none"
    /\ alive[w] = "up" /\ pc[w][c] # "none" => copy[c] = w
    /\ alive[w] = "down" => pc[w][c] = "none"

(* A handler that completes has committed its effect.                      *)
CompletesItsEffect ==
  \A w \in Workers, c \in Copies :
    pc[w][c] = "complete" => effects[MessageOf[c]] > 0

-----------------------------------------------------------------------------
(* Loss.                                                                   *)

(* A handler of which the broker has not been told that it failed is there *)
(* until its copy is settled, unless its message was interrupted.          *)
HandlersAreConnected ==
  \A w \in Workers, c \in Copies :
    pc[w][c] \notin {"none", "ack"} /\ ~interrupted[MessageOf[c]] =>
      copy[c] = w /\ alive[w] = "up"

(* A copy that will be, or has been, dead-lettered, or whose handler will  *)
(* have an effect.                                                         *)
Keeps(c) ==
  \/ copy[c] = "dead"
  \/ \E w \in Workers : /\ copy[c] = w /\ alive[w] = "up"
                        /\ pc[w][c] \in AtWork \cup {"nack"}

Kept(m) == \E c \in Copies : MessageOf[c] = m /\ Keeps(c)

(* Somebody began to handle the message, or is about to acknowledge it.    *)
Touched(m) ==
  \/ inbox[m] \in {"fresh", "stale"}
  \/ \E c \in Copies : /\ MessageOf[c] = m
                       /\ copy[c] = "acked" \/ \E w \in Workers : pc[w][c] = "ack"

TouchedIsKept ==
  \A m \in Messages : ~interrupted[m] /\ effects[m] = 0 /\ Touched(m) => Kept(m)

-----------------------------------------------------------------------------
(* Without faults.                                                         *)

AtWorkOn(m, w, c) == MessageOf[c] = m /\ pc[w][c] \in AtWork

(* Every message is in one of four stages, and at most one handler is at   *)
(* work on it, which holds its inbox row.                                  *)
OneHandler ==
  /\ \A w \in Workers : alive[w] = "up"
  /\ \A w \in Workers, c \in Copies :
       /\ pc[w][c] # "abandon"
       /\ pc[w][c] = "effect" =>
            inbox[MessageOf[c]] = "fresh" /\ effects[MessageOf[c]] = 0
       /\ pc[w][c] = "complete" =>
            inbox[MessageOf[c]] = "fresh" /\ effects[MessageOf[c]] = 1
  /\ \A v, w \in Workers, b, c \in Copies :
       MessageOf[b] = MessageOf[c] /\ pc[v][b] \in AtWork /\ pc[w][c] \in AtWork =>
         v = w /\ b = c
  /\ \A m \in Messages :
       /\ inbox[m] \in {"absent", "fresh", "processed"} /\ effects[m] <= 1
       /\ inbox[m] = "absent" => effects[m] = 0
       /\ inbox[m] = "fresh" => \E w \in Workers, c \in Copies : AtWorkOn(m, w, c)

Inv ==
  /\ TypeOK /\ ProcessedMeansDone
  /\ HeldByHandler /\ CompletesItsEffect /\ HandlersAreConnected /\ TouchedIsKept
  /\ faults = 0 => OneHandler

-----------------------------------------------------------------------------
(* The moves of a handler, without and with an error.                      *)
HandlerMoves(w, c) ==
  \/ Begin(w, c) \/ EffectSucceeds(w, c) \/ Complete(w, c) \/ Abandon(w, c)
  \/ Failure(w, c)

(* What they have in common: one handler moves on its own message, which   *)
(* it neither takes nor gives back.                                        *)
OwnMove(w, c) ==
  LET m == MessageOf[c] IN
  /\ UNCHANGED <<copy, alive, interrupted>>
  /\ pc[w][c] \notin {"none", "ack"} /\ pc'[w][c] \notin {"none", "begin"}
  /\ \A v \in Workers, b \in Copies : v # w \/ b # c => pc'[v][b] = pc[v][b]
  /\ \A x \in Messages : x # m => inbox'[x] = inbox[x] /\ effects'[x] = effects[x]
  /\ effects'[m] >= effects[m]
  /\ pc'[w][c] = "complete" => effects'[m] > 0
  /\ inbox'[m] = "processed" => inbox[m] = "processed" \/ pc[w][c] = "complete"
  /\ pc'[w][c] = "ack" =>
       pc[w][c] = "complete" \/ (pc[w][c] = "begin" /\ inbox[m] \in {"fresh", "processed"})

(* A process that ends.                                                    *)
Exits(w) ==
  \/ Crash(w) \/ ExitIdle(w)
  \/ \E c \in Copies : Settle(w, c) /\ alive[w] # "up"

-----------------------------------------------------------------------------
LEMMA Moved ==
  ASSUME TypeOK, NEW w \in Workers, NEW c \in Copies, NEW stage \in Stages, Goto(w, c, stage)
  PROVE  /\ pc' \in [Workers -> [Copies -> Stages]]
         /\ pc'[w][c] = stage
         /\ \A v \in Workers, b \in Copies : v # w \/ b # c => pc'[v][b] = pc[v][b]
  BY DEF TypeOK, Goto

LEMMA Counted == TypeOK /\ Fault => faults' \in 1..MaxFaults
  BY InboxAssumption DEF TypeOK, Fault

LEMMA Ended ==
  ASSUME TypeOK, NEW w \in Workers, Exit(w)
  PROVE  /\ alive' \in [Workers -> {"up", "cutOff", "down"}]
         /\ pc' \in [Workers -> [Copies -> Stages]]
         /\ \A b \in Copies : pc'[w][b] = "none"
         /\ \A v \in Workers, b \in Copies : v # w => pc'[v][b] = pc[v][b]
         /\ alive'[w] = "down" /\ \A v \in Workers : v # w => alive'[v] = alive[v]
         /\ Lose(w)
<1>1. "none" \in Stages
  BY DEF Stages
<1> QED
  BY <1>1 DEF TypeOK, Exit

LEMMA TakenBack ==
  ASSUME TypeOK, NEW w \in Workers, Lose(w)
  PROVE  /\ copy' \in [Copies -> {"ready", "acked", "dead"} \cup Workers]
         /\ interrupted' \in [Messages -> BOOLEAN]
         /\ \A b \in Copies : copy'[b] = IF copy[b] = w THEN "ready" ELSE copy[b]
         /\ \A m \in Messages : interrupted[m] => interrupted'[m]
         /\ \A b \in Copies : pc[w][b] \notin {"none", "ack"} => interrupted'[MessageOf[b]]
<1>1. copy' \in [Copies -> {"ready", "acked", "dead"} \cup Workers]
  BY DEF TypeOK, Lose
<1>2. \A m \in Messages : interrupted'[m] = (interrupted[m] \/
        \E c \in Copies : MessageOf[c] = m /\ pc[w][c] \notin {"none", "ack"})
  BY DEF Lose
<1>3. interrupted' \in [Messages -> BOOLEAN]
  BY DEF TypeOK, Lose
<1>4. \A b \in Copies : copy'[b] = IF copy[b] = w THEN "ready" ELSE copy[b]
  BY DEF Lose
<1>5. \A b \in Copies : MessageOf[b] \in Messages
  BY InboxAssumption
<1> QED
  BY <1>1, <1>2, <1>3, <1>4, <1>5

LEMMA Handled ==
  ASSUME TypeOK, NEW w \in Workers, NEW c \in Copies, HandlerMoves(w, c)
  PROVE  TypeOK' /\ OwnMove(w, c)
<1> DEFINE m == MessageOf[c]
<1>0. m \in Messages
  BY InboxAssumption
<1>a. UNCHANGED <<copy, alive, interrupted>>
  BY DEF HandlerMoves, Begin, EffectSucceeds, Complete, Abandon, Failure, BeginError,
         EffectFails, CompleteError, AbandonError
<1>b. faults' \in 0..MaxFaults
  BY Counted DEF HandlerMoves, Begin, EffectSucceeds, Complete, Abandon, Failure, BeginError,
                 EffectFails, CompleteError, AbandonError, TypeOK
<1>c. PICK stage \in Stages \ {"none", "begin"} : Goto(w, c, stage)
  BY DEF HandlerMoves, Begin, EffectSucceeds, Complete, Abandon, Failure, BeginError,
         EffectFails, CompleteError, AbandonError, Stages, AtWork
<1>d. /\ pc' \in [Workers -> [Copies -> Stages]] /\ pc'[w][c] = stage
      /\ \A v \in Workers, b \in Copies : v # w \/ b # c => pc'[v][b] = pc[v][b]
  BY <1>c, Moved
<1>e. pc[w][c] \notin {"none", "ack"}
  BY DEF HandlerMoves, Begin, EffectSucceeds, Complete, Abandon, Failure, BeginError,
         EffectFails, CompleteError, AbandonError
<1>f. /\ inbox' \in [Messages -> {"absent", "fresh", "stale", "processed"}]
      /\ \A x \in Messages : x # m => inbox'[x] = inbox[x]
      /\ inbox'[m] = "processed" => inbox[m] = "processed" \/ pc[w][c] = "complete"
  BY <1>0 DEF HandlerMoves, Begin, EffectSucceeds, Complete, Abandon, Failure, BeginError,
         EffectFails, CompleteError, AbandonError, Acquire, SetProcessed, DeleteUnprocessed,
         TypeOK
<1>g. /\ effects' \in [Messages -> 0..2]
      /\ \A x \in Messages : x # m => effects'[x] = effects[x]
      /\ effects'[m] >= effects[m]
  <2>1. Commits(m) \/ UNCHANGED effects
    BY DEF HandlerMoves, Begin, EffectSucceeds, Complete, Abandon, Failure, BeginError,
           EffectFails, CompleteError, AbandonError
  <2>2. CASE Commits(m)
    BY <2>2, <1>0 DEF Commits, TypeOK
  <2>3. CASE UNCHANGED effects
    BY <2>3, <1>0 DEF TypeOK
  <2> QED
    BY <2>1, <2>2, <2>3
<1>h. pc'[w][c] = "complete" => effects'[m] > 0
  <2> SUFFICES ASSUME pc'[w][c] = "complete" PROVE effects'[m] > 0
    OBVIOUS
  <2>1. \A s \in Stages : Goto(w, c, s) => s = "complete"
    BY Moved
  <2>2. EffectSucceeds(w, c)
    BY <2>1 DEF HandlerMoves, Begin, Complete, Abandon, Failure, BeginError,
       EffectFails, CompleteError, AbandonError, Stages, AtWork
  <2> QED
    BY <2>2, <1>0 DEF EffectSucceeds, Commits, TypeOK
<1>i. pc'[w][c] = "ack" =>
        pc[w][c] = "complete" \/ (pc[w][c] = "begin" /\ inbox[m] \in {"fresh", "processed"})
  <2> SUFFICES ASSUME pc'[w][c] = "ack"
               PROVE  pc[w][c] = "complete" \/ (pc[w][c] = "begin" /\ inbox[m] \in {"fresh", "processed"})
    OBVIOUS
  <2>1. \A s \in Stages : Goto(w, c, s) => s = "ack"
    BY Moved
  <2>2. Complete(w, c) \/ (Begin(w, c) /\ ~Acquirable(m))
    BY <2>1 DEF HandlerMoves, Begin, EffectSucceeds, Abandon, Failure, BeginError,
       EffectFails, CompleteError, AbandonError, Stages, AtWork
  <2> QED
    BY <2>2, <1>0 DEF Begin, Complete, Acquirable, TypeOK
<1>j. TypeOK'
  BY <1>a, <1>b, <1>d, <1>f, <1>g DEF TypeOK
<1> QED
  BY <1>a, <1>c, <1>d, <1>e, <1>f, <1>g, <1>h, <1>i, <1>j DEF OwnMove

(* What holds whatever fails.                                              *)
Steady ==
  /\ ProcessedMeansDone /\ HeldByHandler /\ CompletesItsEffect
  /\ HandlersAreConnected /\ TouchedIsKept

LEMMA MoveKeeps ==
  ASSUME TypeOK, TypeOK', Steady, NEW w \in Workers, NEW c \in Copies, OwnMove(w, c)
  PROVE  Steady'
<1> DEFINE m == MessageOf[c]
<1> USE InboxAssumption DEF Steady
<1>0. m \in Messages /\ \A x \in Messages : effects[x] > 0 => effects'[x] > 0
  <2>1. m \in Messages
    BY DEF TypeOK
  <2>2. ASSUME NEW x \in Messages PROVE effects[x] \in 0..2 /\ effects'[x] \in 0..2
    BY DEF TypeOK
  <2>3. effects'[m] >= effects[m] /\ \A x \in Messages : x # m => effects'[x] = effects[x]
    BY DEF OwnMove
  <2> QED
    BY <2>1, <2>2, <2>3
<1>1. ProcessedMeansDone'
  <2> SUFFICES ASSUME NEW x \in Messages, inbox'[x] = "processed" PROVE effects'[x] > 0
    BY DEF ProcessedMeansDone
  <2>1. inbox[x] = "processed" \/ (x = m /\ pc[w][c] = "complete")
    BY DEF OwnMove
  <2> QED
    BY <1>0, <2>1 DEF ProcessedMeansDone, CompletesItsEffect
<1>2. HeldByHandler'
  BY DEF OwnMove, HeldByHandler
<1>3. CompletesItsEffect'
  <2> SUFFICES ASSUME NEW v \in Workers, NEW b \in Copies, pc'[v][b] = "complete"
               PROVE  effects'[MessageOf[b]] > 0
    BY DEF CompletesItsEffect
  <2>1. CASE v = w /\ b = c
    BY <2>1 DEF OwnMove
  <2>2. CASE v # w \/ b # c
    BY <1>0, <2>2 DEF OwnMove, CompletesItsEffect
  <2> QED
    BY <2>1, <2>2
<1>4. HandlersAreConnected'
  BY DEF OwnMove, HandlersAreConnected
<1>5. TouchedIsKept'
  <2> SUFFICES ASSUME NEW x \in Messages, ~interrupted'[x], effects'[x] = 0, Touched(x)'
               PROVE  Kept(x)'
    BY DEF TouchedIsKept
  <2>1. ~interrupted[x] /\ effects[x] = 0
    BY DEF OwnMove, TypeOK
  <2>2. ASSUME NEW b \in Copies, MessageOf[b] = x, Keeps(b), x # m \/ pc[w][c] \notin AtWork \cup {"nack"}
        PROVE  Kept(x)'
    BY <2>2 DEF OwnMove, Keeps, Kept
  <2>3. ASSUME x # m PROVE Kept(x)'
    <3>1. Touched(x)
      BY <2>3 DEF OwnMove, Touched
    <3> QED
      BY <3>1, <2>1, <2>2, <2>3 DEF TouchedIsKept, Kept
  <2>4. ASSUME x = m, pc'[w][c] = "ack" PROVE Kept(x)'
    <3>1. pc[w][c] = "begin" /\ inbox[m] = "fresh"
      BY <2>4, <2>1 DEF OwnMove, CompletesItsEffect, ProcessedMeansDone
    <3> QED
      BY <3>1, <2>1, <2>2, <2>4 DEF TouchedIsKept, Kept, Touched, AtWork
  <2>5. ASSUME x = m, pc'[w][c] # "ack" PROVE Kept(x)'
    <3>1. copy'[c] = w /\ alive'[w] = "up"
      BY <2>5, <2>1 DEF OwnMove, HandlersAreConnected
    <3>2. pc'[w][c] \in AtWork \cup {"nack"}
      BY <2>5 DEF OwnMove, TypeOK, Stages
    <3> QED
      BY <3>1, <3>2, <2>5 DEF Keeps, Kept
  <2> QED
    BY <2>3, <2>4, <2>5 DEF OwnMove
<1> QED
  BY <1>1, <1>2, <1>3, <1>4, <1>5

LEMMA DeliveryKeeps ==
  ASSUME TypeOK, Steady, NEW w \in Workers, NEW c \in Copies, Deliver(w, c)
  PROVE  TypeOK' /\ Steady'
<1> USE InboxAssumption
<1>1. PICK stage \in {"begin", "nack"} : Goto(w, c, stage)
  BY DEF Deliver, FirstStage
<1>2. /\ pc' \in [Workers -> [Copies -> Stages]] /\ pc'[w][c] \in {"begin", "nack"}
      /\ \A v \in Workers, b \in Copies : v # w \/ b # c => pc'[v][b] = pc[v][b]
  BY <1>1, Moved DEF Stages
<1>3. /\ copy' \in [Copies -> {"ready", "acked", "dead"} \cup Workers]
      /\ copy[c] = "ready" /\ copy'[c] = w /\ alive[w] = "up"
      /\ \A b \in Copies : b # c => copy'[b] = copy[b]
      /\ UNCHANGED <<alive, inbox, effects, interrupted, faults>>
  BY DEF Deliver, TypeOK
<1>4. TypeOK'
  BY <1>2, <1>3 DEF TypeOK
<1>5. ProcessedMeansDone' /\ CompletesItsEffect'
  BY <1>2, <1>3 DEF Steady, ProcessedMeansDone, CompletesItsEffect
<1>6. HeldByHandler'
  BY <1>2, <1>3 DEF Steady, HeldByHandler
<1>7. HandlersAreConnected'
  BY <1>2, <1>3 DEF Steady, HandlersAreConnected
<1>8. TouchedIsKept'
  <2>1. \A b \in Copies : Keeps(b) => Keeps(b)'
    BY <1>2, <1>3 DEF Keeps
  <2>2. \A x \in Messages : Touched(x)' => Touched(x)
    BY <1>2, <1>3 DEF Touched
  <2> QED
    BY <1>3, <2>1, <2>2 DEF Steady, TouchedIsKept, Kept
<1> QED
  BY <1>4, <1>5, <1>6, <1>7, <1>8 DEF Steady

LEMMA SettlementKeeps ==
  ASSUME TypeOK, Steady, NEW w \in Workers, NEW c \in Copies, Settle(w, c), alive[w] = "up"
  PROVE  TypeOK' /\ Steady'
<1> USE InboxAssumption
<1>1. Goto(w, c, "none") /\ UNCHANGED <<alive, interrupted, inbox, effects, faults>>
  BY DEF Settle
<1>2. /\ pc' \in [Workers -> [Copies -> Stages]] /\ pc'[w][c] = "none"
      /\ \A v \in Workers, b \in Copies : v # w \/ b # c => pc'[v][b] = pc[v][b]
  BY <1>1, Moved DEF Stages
<1>3. /\ copy' \in [Copies -> {"ready", "acked", "dead"} \cup Workers]
      /\ pc[w][c] \in {"ack", "nack"}
      /\ copy'[c] = IF pc[w][c] = "ack" THEN "acked" ELSE "dead"
      /\ \A b \in Copies : b # c => copy'[b] = copy[b]
  BY DEF Settle, TypeOK
<1>4. TypeOK'
  BY <1>1, <1>2, <1>3 DEF TypeOK
<1>5. ProcessedMeansDone' /\ CompletesItsEffect'
  BY <1>1, <1>2, <1>3 DEF Steady, ProcessedMeansDone, CompletesItsEffect
<1>6. copy[c] = w
  BY <1>3 DEF Steady, HeldByHandler
<1>7. HeldByHandler'
  BY <1>1, <1>2, <1>3, <1>6 DEF Steady, HeldByHandler
<1>8. HandlersAreConnected'
  BY <1>1, <1>2, <1>3, <1>6 DEF Steady, HandlersAreConnected
<1>9. TouchedIsKept'
  <2>1. \A b \in Copies : Keeps(b) => Keeps(b)'
    BY <1>1, <1>2, <1>3, <1>6 DEF Keeps, AtWork
  <2>2. \A x \in Messages : Touched(x)' => Touched(x)
    BY <1>1, <1>2, <1>3 DEF Touched
  <2> QED
    BY <1>1, <2>1, <2>2 DEF Steady, TouchedIsKept, Kept
<1> QED
  BY <1>4, <1>5, <1>7, <1>8, <1>9 DEF Steady

LEMMA EndKeeps ==
  ASSUME TypeOK, Steady, NEW w \in Workers, Exits(w)
  PROVE  TypeOK' /\ Steady'
<1> USE InboxAssumption
<1>1. Exit(w) /\ UNCHANGED <<inbox, effects>> /\ faults' \in 0..MaxFaults
  BY Counted DEF Exits, Crash, ExitIdle, Settle, TypeOK
<1>2. /\ alive' \in [Workers -> {"up", "cutOff", "down"}]
      /\ pc' \in [Workers -> [Copies -> Stages]]
      /\ \A b \in Copies : pc'[w][b] = "none"
      /\ \A v \in Workers, b \in Copies : v # w => pc'[v][b] = pc[v][b]
      /\ alive'[w] = "down" /\ \A v \in Workers : v # w => alive'[v] = alive[v]
  BY <1>1, Ended
<1>3. /\ copy' \in [Copies -> {"ready", "acked", "dead"} \cup Workers]
      /\ interrupted' \in [Messages -> BOOLEAN]
      /\ \A b \in Copies : copy'[b] = IF copy[b] = w THEN "ready" ELSE copy[b]
      /\ \A m \in Messages : interrupted[m] => interrupted'[m]
      /\ \A b \in Copies : pc[w][b] \notin {"none", "ack"} => interrupted'[MessageOf[b]]
  BY <1>1, Ended, TakenBack
<1>4. TypeOK'
  BY <1>1, <1>2, <1>3 DEF TypeOK
<1>5. ProcessedMeansDone' /\ CompletesItsEffect'
  BY <1>1, <1>2 DEF Steady, ProcessedMeansDone, CompletesItsEffect
<1>6. HeldByHandler'
  BY <1>2, <1>3 DEF Steady, HeldByHandler
<1>7. HandlersAreConnected'
  BY <1>2, <1>3 DEF Steady, HandlersAreConnected
<1>8. TouchedIsKept'
  <2>1. \A b \in Copies : Keeps(b) /\ ~interrupted'[MessageOf[b]] => Keeps(b)'
    BY <1>2, <1>3 DEF Keeps, AtWork
  <2>2. \A b \in Copies : copy'[b] = "acked" => copy[b] = "acked"
    BY <1>3
  <2>3. \A v \in Workers, b \in Copies : pc'[v][b] = "ack" => pc[v][b] = "ack"
    BY <1>2
  <2>4. \A x \in Messages : Touched(x)' => Touched(x)
    BY <1>1, <2>2, <2>3 DEF Touched
  <2> QED
    BY <1>1, <1>3, <2>1, <2>4 DEF Steady, TouchedIsKept, Kept
<1> QED
  BY <1>4, <1>5, <1>6, <1>7, <1>8 DEF Steady

LEMMA CutOffKeeps ==
  ASSUME TypeOK, Steady, NEW w \in Workers, CutOff(w)
  PROVE  TypeOK' /\ Steady'
<1> USE InboxAssumption
<1>1. /\ alive' \in [Workers -> {"up", "cutOff", "down"}] /\ alive'[w] = "cutOff"
      /\ \A v \in Workers : v # w => alive'[v] = alive[v]
      /\ Lose(w) /\ UNCHANGED <<pc, inbox, effects>> /\ alive[w] = "up"
  BY DEF CutOff, TypeOK
<1>2. faults' \in 0..MaxFaults
  BY Counted DEF CutOff
<1>3. /\ copy' \in [Copies -> {"ready", "acked", "dead"} \cup Workers]
      /\ interrupted' \in [Messages -> BOOLEAN]
      /\ \A b \in Copies : copy'[b] = IF copy[b] = w THEN "ready" ELSE copy[b]
      /\ \A m \in Messages : interrupted[m] => interrupted'[m]
      /\ \A b \in Copies : pc[w][b] \notin {"none", "ack"} => interrupted'[MessageOf[b]]
  BY <1>1, TakenBack
<1>4. TypeOK'
  BY <1>1, <1>2, <1>3 DEF TypeOK
<1>5. ProcessedMeansDone' /\ CompletesItsEffect'
  BY <1>1 DEF Steady, ProcessedMeansDone, CompletesItsEffect
<1>6. HeldByHandler'
  BY <1>1, <1>3 DEF Steady, HeldByHandler
<1>7. HandlersAreConnected'
  BY <1>1, <1>3 DEF Steady, HandlersAreConnected
<1>8. TouchedIsKept'
  <2>1. \A b \in Copies : Keeps(b) /\ ~interrupted'[MessageOf[b]] => Keeps(b)'
    BY <1>1, <1>3 DEF Keeps, AtWork
  <2>2. \A x \in Messages : Touched(x)' => Touched(x)
    BY <1>1, <1>3 DEF Touched
  <2> QED
    BY <1>1, <1>3, <2>1, <2>2 DEF Steady, TouchedIsKept, Kept
<1> QED
  BY <1>4, <1>5, <1>6, <1>7, <1>8 DEF Steady

LEMMA RestartKeeps ==
  ASSUME TypeOK, Steady, NEW w \in Workers, Restart(w)
  PROVE  TypeOK' /\ Steady'
<1> USE InboxAssumption
<1>1. /\ alive' \in [Workers -> {"up", "cutOff", "down"}] /\ alive'[w] = "up" /\ alive[w] = "down"
      /\ \A v \in Workers : v # w => alive'[v] = alive[v]
      /\ UNCHANGED <<copy, pc, inbox, effects, interrupted, faults>>
  BY DEF Restart, TypeOK
<1>2. TypeOK'
  BY <1>1 DEF TypeOK
<1>3. ProcessedMeansDone' /\ CompletesItsEffect'
  BY <1>1 DEF Steady, ProcessedMeansDone, CompletesItsEffect
<1>4. HeldByHandler' /\ HandlersAreConnected'
  BY <1>1 DEF Steady, HeldByHandler, HandlersAreConnected
<1>5. TouchedIsKept'
  <2>1. \A b \in Copies : Keeps(b) => Keeps(b)'
    BY <1>1 DEF Keeps
  <2> QED
    BY <1>1, <2>1 DEF Steady, TouchedIsKept, Kept, Touched
<1> QED
  BY <1>2, <1>3, <1>4, <1>5 DEF Steady

LEMMA ExpiryKeeps ==
  ASSUME TypeOK, Steady, NEW m \in Messages, LeaseExpires(m)
  PROVE  TypeOK' /\ Steady'
<1> USE InboxAssumption
<1>1. faults' \in 0..MaxFaults
  BY Counted DEF LeaseExpires, TypeOK
<1>2. /\ inbox' \in [Messages -> {"absent", "fresh", "stale", "processed"}]
      /\ inbox[m] = "fresh" /\ inbox'[m] = "stale"
      /\ \A x \in Messages : x # m => inbox'[x] = inbox[x]
      /\ UNCHANGED <<copy, pc, alive, effects, interrupted>>
  BY DEF LeaseExpires, TypeOK
<1>3. TypeOK'
  BY <1>1, <1>2 DEF TypeOK
<1>4. ProcessedMeansDone' /\ CompletesItsEffect' /\ HeldByHandler' /\ HandlersAreConnected'
  BY <1>2 DEF Steady, ProcessedMeansDone, CompletesItsEffect, HeldByHandler, HandlersAreConnected
<1>5. TouchedIsKept'
  <2>1. \A b \in Copies : Keeps(b) => Keeps(b)'
    BY <1>2 DEF Keeps
  <2>2. \A x \in Messages : Touched(x)' => Touched(x)
    BY <1>2 DEF Touched
  <2> QED
    BY <1>2, <2>1, <2>2 DEF Steady, TouchedIsKept, Kept
<1> QED
  BY <1>3, <1>4, <1>5 DEF Steady

LEMMA InitInv == Init => Inv
<1> SUFFICES ASSUME Init PROVE Inv
  OBVIOUS
<1>1. TypeOK
  BY InboxAssumption DEF Init, TypeOK, Stages
<1>2. ProcessedMeansDone /\ HeldByHandler /\ CompletesItsEffect /\ HandlersAreConnected
  BY InboxAssumption DEF Init, ProcessedMeansDone, HeldByHandler, CompletesItsEffect, HandlersAreConnected
<1>3. TouchedIsKept
  BY DEF Init, TouchedIsKept, Touched
<1>4. OneHandler
  BY DEF Init, OneHandler, AtWork
<1> QED
  BY <1>1, <1>2, <1>3, <1>4 DEF Inv
-----------------------------------------------------------------------------
LEMMA SteadyStep == TypeOK /\ Steady /\ [Next]_vars => TypeOK' /\ Steady'
<1> SUFFICES ASSUME TypeOK, Steady, [Next]_vars PROVE TypeOK' /\ Steady'
  OBVIOUS
<1>1. CASE UNCHANGED vars
  <2>1. TypeOK'
    BY <1>1 DEF vars, TypeOK
  <2>2. Steady'
    BY <1>1 DEF vars, Steady, ProcessedMeansDone, HeldByHandler, CompletesItsEffect,
           HandlersAreConnected, TouchedIsKept, Touched, Kept, Keeps
  <2> QED
    BY <2>1, <2>2
<1>2. CASE Next
  <2>1. ASSUME NEW w \in Workers, NEW c \in Copies, HandlerMoves(w, c) PROVE TypeOK' /\ Steady'
    BY <2>1, Handled, MoveKeeps
  <2>2. ASSUME NEW w \in Workers, NEW c \in Copies, Deliver(w, c) PROVE TypeOK' /\ Steady'
    BY <2>2, DeliveryKeeps
  <2>3. ASSUME NEW w \in Workers, NEW c \in Copies, Settle(w, c) PROVE TypeOK' /\ Steady'
    BY <2>3, SettlementKeeps, EndKeeps DEF Exits
  <2>4. ASSUME NEW w \in Workers, Crash(w) \/ ExitIdle(w) PROVE TypeOK' /\ Steady'
    BY <2>4, EndKeeps DEF Exits
  <2>5. ASSUME NEW w \in Workers, CutOff(w) \/ Restart(w) PROVE TypeOK' /\ Steady'
    BY <2>5, CutOffKeeps, RestartKeeps
  <2>6. ASSUME NEW m \in Messages, LeaseExpires(m) PROVE TypeOK' /\ Steady'
    BY <2>6, ExpiryKeeps
  <2> QED
    BY <1>2, <2>1, <2>2, <2>3, <2>4, <2>5, <2>6 DEF Next, Handle, HandlerMoves
<1> QED
  BY <1>1, <1>2

(* Steps after which there still has been no fault.                        *)
LEMMA NothingFailed ==
  ASSUME TypeOK, Next, faults' = 0
  PROVE  /\ faults = 0
         /\ \/ \E w \in Workers, c \in Copies :
                Deliver(w, c) \/ Begin(w, c) \/ EffectSucceeds(w, c) \/ Complete(w, c)
                  \/ Abandon(w, c) \/ Settle(w, c)
            \/ \E w \in Workers : ExitIdle(w) \/ Restart(w)
            \/ \E m \in Messages : LeaseExpires(m) /\ UNCHANGED faults
<1>1. ~Fault
  BY Counted
<1>2. \A w \in Workers, c \in Copies : ~Failure(w, c)
  BY <1>1 DEF Failure, BeginError, EffectFails, CompleteError, AbandonError
<1>3. \A w \in Workers : ~Crash(w) /\ ~CutOff(w)
  BY <1>1 DEF Crash, CutOff
<1>4. \A m \in Messages : LeaseExpires(m) => UNCHANGED faults
  BY <1>1 DEF LeaseExpires
<1> QED
  BY <1>2, <1>3, <1>4
     DEF Next, Handle, Deliver, Begin, EffectSucceeds, Complete, Abandon, Settle, ExitIdle, Restart

LEMMA FaultlessStep ==
  ASSUME TypeOK, Steady, faults = 0 => OneHandler, [Next]_vars, faults' = 0
  PROVE  OneHandler'
<1> USE InboxAssumption
<1>1. CASE UNCHANGED vars
  BY <1>1 DEF vars, OneHandler, AtWorkOn
<1>2. CASE Next
  <2>0. OneHandler /\ TypeOK'
    BY <1>2, NothingFailed, SteadyStep
  <2>1. ASSUME NEW w \in Workers, NEW c \in Copies, Deliver(w, c) \/ Settle(w, c) PROVE OneHandler'
    <3>1. PICK stage \in {"begin", "nack", "none"} : Goto(w, c, stage)
      BY <2>1, <2>0 DEF Deliver, Settle, FirstStage, OneHandler
    <3>2. \A v \in Workers, b \in Copies :
            (v # w \/ b # c => pc'[v][b] = pc[v][b]) /\ pc'[w][c] \notin AtWork \cup {"abandon"}
      BY <3>1, Moved DEF Stages, AtWork
    <3>3. pc[w][c] \notin AtWork
      BY <2>1 DEF Deliver, Settle, Steady, HeldByHandler, AtWork
    <3>4. UNCHANGED <<alive, inbox, effects>>
      BY <2>1, <2>0 DEF Deliver, Settle, OneHandler
    <3> QED
      BY <3>2, <3>3, <3>4, <2>0 DEF OneHandler, AtWorkOn, AtWork
  <2>2. ASSUME NEW w \in Workers, NEW c \in Copies, Begin(w, c) PROVE OneHandler'
    <3> DEFINE m == MessageOf[c]
    <3>1. CASE ~Acquirable(m)
      <4>1. Goto(w, c, "ack") /\ UNCHANGED <<alive, inbox, effects>>
        BY <2>2, <3>1 DEF Begin
      <4>2. \A v \in Workers, b \in Copies :
              (v # w \/ b # c => pc'[v][b] = pc[v][b]) /\ pc'[w][c] = "ack"
        BY <4>1, Moved DEF Stages
      <4>3. pc[w][c] = "begin"
        BY <2>2 DEF Begin
      <4> QED
        BY <4>1, <4>2, <4>3, <2>0 DEF OneHandler, AtWorkOn, AtWork
    <3>2. CASE Acquirable(m)
      <4>1. Goto(w, c, "effect") /\ Acquire(m) /\ UNCHANGED <<alive, effects>>
        BY <2>2, <3>2 DEF Begin
      <4>2. \A v \in Workers, b \in Copies :
              (v # w \/ b # c => pc'[v][b] = pc[v][b]) /\ pc'[w][c] = "effect"
        BY <4>1, Moved DEF Stages, AtWork
      <4>3. inbox[m] = "absent" /\ effects[m] = 0 /\ m \in Messages
        BY <3>2, <2>0 DEF Acquirable, OneHandler
      <4>4. inbox'[m] = "fresh" /\ \A x \in Messages : x # m => inbox'[x] = inbox[x]
        BY <4>1, <4>3 DEF Acquire, TypeOK
      <4>5. \A v \in Workers, b \in Copies : MessageOf[b] = m => pc[v][b] \notin AtWork
        BY <4>3, <2>0 DEF OneHandler, AtWork
      <4> QED
        BY <4>1, <4>2, <4>3, <4>4, <4>5, <2>0 DEF OneHandler, AtWorkOn, AtWork
    <3> QED
      BY <3>1, <3>2
  <2>3. ASSUME NEW w \in Workers, NEW c \in Copies, EffectSucceeds(w, c) PROVE OneHandler'
    <3> DEFINE m == MessageOf[c]
    <3>1. /\ pc[w][c] = "effect" /\ inbox[m] = "fresh" /\ effects[m] = 0 /\ m \in Messages
          /\ UNCHANGED <<alive, inbox>>
      BY <2>3, <2>0 DEF EffectSucceeds, OneHandler
    <3>2. \A v \in Workers, b \in Copies :
            (v # w \/ b # c => pc'[v][b] = pc[v][b]) /\ pc'[w][c] = "complete"
      BY <2>3, Moved DEF EffectSucceeds, Stages, AtWork
    <3>3. effects'[m] = 1 /\ \A x \in Messages : x # m => effects'[x] = effects[x]
      BY <2>3, <3>1 DEF EffectSucceeds, Commits, TypeOK
    <3>4. \A v \in Workers, b \in Copies :
            MessageOf[b] = m /\ (v # w \/ b # c) => pc[v][b] \notin AtWork
      BY <3>1, <2>0 DEF OneHandler, AtWork
    <3> QED
      BY <3>1, <3>2, <3>3, <3>4, <2>0 DEF OneHandler, AtWorkOn, AtWork
  <2>4. ASSUME NEW w \in Workers, NEW c \in Copies, Complete(w, c) PROVE OneHandler'
    <3> DEFINE m == MessageOf[c]
    <3>1. /\ pc[w][c] = "complete" /\ inbox[m] = "fresh" /\ effects[m] = 1 /\ m \in Messages
          /\ UNCHANGED <<alive, effects>>
      BY <2>4, <2>0 DEF Complete, OneHandler
    <3>2. \A v \in Workers, b \in Copies :
            (v # w \/ b # c => pc'[v][b] = pc[v][b]) /\ pc'[w][c] = "ack"
      BY <2>4, Moved DEF Complete, Stages
    <3>3. inbox'[m] = "processed" /\ \A x \in Messages : x # m => inbox'[x] = inbox[x]
      BY <2>4, <3>1 DEF Complete, SetProcessed, TypeOK
    <3>4. \A v \in Workers, b \in Copies :
            MessageOf[b] = m /\ (v # w \/ b # c) => pc[v][b] \notin AtWork
      BY <3>1, <2>0 DEF OneHandler, AtWork
    <3> QED
      BY <3>1, <3>2, <3>3, <3>4, <2>0 DEF OneHandler, AtWorkOn, AtWork
  <2>5. ASSUME NEW w \in Workers, NEW c \in Copies PROVE ~Abandon(w, c)
    BY <2>0 DEF Abandon, OneHandler
  <2>6. ASSUME NEW w \in Workers PROVE ~ExitIdle(w) /\ ~Restart(w)
    BY <2>0 DEF ExitIdle, Restart, OneHandler
  <2>7. ASSUME NEW m \in Messages, LeaseExpires(m) PROVE ~UNCHANGED faults
    <3>1. \E w \in Workers, c \in Copies : MessageOf[c] = m /\ pc[w][c] \in AtWork
      BY <2>7, <2>0 DEF LeaseExpires, OneHandler, AtWorkOn
    <3> QED
      BY <2>7, <3>1 DEF LeaseExpires, Fault, TypeOK
  <2> QED
    BY <1>2, <2>1, <2>2, <2>3, <2>4, <2>5, <2>6, <2>7, NothingFailed
<1> QED
  BY <1>1, <1>2

LEMMA InvStep == Inv /\ [Next]_vars => Inv'
<1> SUFFICES ASSUME Inv, [Next]_vars PROVE Inv'
  OBVIOUS
<1>1. TypeOK' /\ Steady'
  BY SteadyStep DEF Inv, Steady
<1>2. faults' = 0 => OneHandler'
  BY FaultlessStep DEF Inv, Steady
<1> QED
  BY <1>1, <1>2 DEF Inv, Steady

LEMMA Invariance == Spec => []Inv
<1> QED
  BY InitInv, InvStep, PTL DEF Spec

-----------------------------------------------------------------------------
(* A completion in the inbox is that of a committed effect, and an effect  *)
(* runs once as long as nothing fails: IdempotentConsumer with any number  *)
(* of workers and copies.                                                  *)
THEOREM Consistency == Spec => []InboxIsConsistent
<1>1. Inv => InboxIsConsistent
  <2> SUFFICES ASSUME Inv PROVE InboxIsConsistent
    OBVIOUS
  <2>1. faults = 0 => \A m \in Messages : effects[m] <= 1
    BY DEF Inv, OneHandler
  <2>2. EffectOnceWithoutFault
    BY <2>1 DEF Inv, TypeOK, EffectOnceWithoutFault
  <2> QED
    BY <2>2 DEF Inv, InboxIsConsistent
<1> QED
  BY <1>1, Invariance, PTL

(* A message is lost only when the broker took a copy of it back from a    *)
(* handler that had not finished (the five-minute lease is then the cause).*)
THEOREM NoLoss == Spec => []NoLossUninterrupted
<1>1. Inv => NoLossUninterrupted
  <2> SUFFICES ASSUME Inv, NEW m \in Messages, Lost(m), ~interrupted[m] PROVE FALSE
    BY DEF NoLossUninterrupted, Inv, TypeOK
  <2>1. Touched(m)
    BY DEF Lost, Settled, Touched
  <2>2. PICK b \in Copies : MessageOf[b] = m /\ Keeps(b)
    BY <2>1 DEF Inv, TouchedIsKept, Kept, Lost
  <2>3. copy[b] = "acked"
    BY <2>2 DEF Lost, Settled
  <2> QED
    BY <2>2, <2>3, InboxAssumption DEF Keeps
<1> QED
  BY <1>1, Invariance, PTL

(* No late abandon deletes a completion and no begin takes it over.        *)
THEOREM Final == Spec => ProcessedIsFinal
<1>1. TypeOK /\ [Next]_vars =>
        [\A m \in Messages : inbox[m] = "processed" => inbox'[m] = "processed"]_inbox
  <2> SUFFICES ASSUME TypeOK, [Next]_vars, NEW m \in Messages, inbox[m] = "processed"
               PROVE  inbox'[m] = "processed"
    OBVIOUS
  <2>1. CASE UNCHANGED inbox
    BY <2>1
  <2>2. ASSUME NEW w \in Workers, NEW c \in Copies, HandlerMoves(w, c) PROVE inbox'[m] = "processed"
    <3>1. MessageOf[c] \in Messages
      BY InboxAssumption
    <3>2. \/ UNCHANGED inbox
          \/ Acquirable(MessageOf[c]) /\ Acquire(MessageOf[c])
          \/ SetProcessed(MessageOf[c])
          \/ DeleteUnprocessed(MessageOf[c])
      BY <2>2 DEF HandlerMoves, Begin, EffectSucceeds, Complete, Abandon, Failure, BeginError,
         EffectFails, CompleteError, AbandonError
    <3> QED
      BY <3>1, <3>2 DEF Acquirable, Acquire, SetProcessed, DeleteUnprocessed, TypeOK
  <2>3. ASSUME NEW x \in Messages, LeaseExpires(x) PROVE inbox'[m] = "processed"
    BY <2>3 DEF LeaseExpires, TypeOK
  <2> QED
    BY <2>1, <2>2, <2>3
       DEF Next, Handle, HandlerMoves, vars, Deliver, Settle, Crash, CutOff, ExitIdle, Restart
<1>2. Inv => TypeOK
  BY DEF Inv
<1> QED
  BY <1>1, <1>2, Invariance, PTL DEF Spec, ProcessedIsFinal
=============================================================================
