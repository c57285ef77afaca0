---------------------------- MODULE Archives_proofs ----------------------------
(***************************************************************************)
(* Proofs about the two archives.  AuditChain: the trail is one chain      *)
(* whatever the clock does, and its verification reports nothing without a *)
(* cause.  DocumentArchive: what is archived is stored, for any messages,  *)
(* documents, workers and faults, and the worker consumes as InboxConsumer *)
(* says.                                                                   *)
(***************************************************************************)
EXTENDS AuditChain, DocumentArchive, FiniteSetTheorems, TLAPS

-----------------------------------------------------------------------------
(* The audit chain.                                                        *)

Held == {"locked", "signing", "inserted"}

(* Who is past the wait for the lock holds it.                             *)
HolderHasLock == \A w \in Writers : tx[w].stage \in Held => lock = w

(* Who appends, appends an event.                                          *)
Requested == \A w \in Writers : tx[w].stage # "idle" => tx[w].event \in Events

(* What the holder read is still so: nobody else appends meanwhile.        *)
ReadIsCurrent ==
  \A w \in Writers : tx[w].stage \in {"signing", "inserted"} =>
    tx[w].event \notin Recorded /\ tx[w].previous = Latest(trail)

(* An inserted row got past the unique index.                              *)
InsertedIsUnique ==
  \A w \in Writers : tx[w].stage = "inserted" =>
    \A r \in trail : tx[w].previous # NoEvent => r.previous # tx[w].previous

(* One row is the last.                                                    *)
IsLast(r, S) == \A q \in S \ {r} : Before(q, r)
HasLast == trail # {} => \E r \in trail : IsLast(r, trail)

(* While the clock runs forward no row is ahead of it, and rows are        *)
(* inserted behind those that are there.                                   *)
ClockIsAhead ==
  stepsBack = 0 =>
    /\ \A r \in trail : r.at <= clock
    /\ \A w \in Writers : tx[w].stage = "inserted" =>
         tx[w].at <= clock /\ \A r \in trail : r.at < tx[w].at

Linked == stepsBack = 0 => \A r \in trail : PredecessorMatches(r)

AuditInv ==
  /\ AuditTypeOK
  /\ HolderHasLock
  /\ Requested
  /\ ReadIsCurrent
  /\ InsertedIsUnique
  /\ HasLast
  /\ OneChain
  /\ ClockIsAhead
  /\ Linked

-----------------------------------------------------------------------------
(* The last row of a set that has one is a row of it (ORDER BY ... LIMIT 1).*)
LEMMA LatestIsRow ==
  ASSUME NEW S, S # {}, \E r \in S : IsLast(r, S)
  PROVE  \E r \in S : Latest(S) = r.event
<1> DEFINE last == CHOOSE r \in S : \A q \in S \ {r} : Before(q, r)
<1>1. last \in S
  BY DEF IsLast
<1>2. Latest(S) = last.event
  BY DEF Latest
<1> QED
  BY <1>1, <1>2

(* The empty table is where a chain begins, and nowhere else.              *)
LEMMA LatestOfTrail ==
  ASSUME AuditTypeOK, HasLast
  PROVE  IF trail = {} THEN Latest(trail) = NoEvent ELSE Latest(trail) \in Recorded
<1>1. CASE trail = {}
  BY <1>1 DEF Latest
<1>2. CASE trail # {}
  BY <1>2, LatestIsRow DEF HasLast, Recorded
<1> QED
  BY <1>1, <1>2

LEMMA AuditInitInv == AuditInit => AuditInv
<1> SUFFICES ASSUME AuditInit PROVE AuditInv
  OBVIOUS
<1>1. \A w \in Writers : tx[w].stage = "idle"
  BY DEF AuditInit, Idle
<1>2. AuditTypeOK
  <2>1. Idle \in Tx
    BY AuditAssumption DEF Idle, Tx, Stage, AuditAssumption
  <2> QED
    BY <2>1, AuditAssumption DEF AuditInit, AuditTypeOK, AuditAssumption
<1>3. HolderHasLock /\ Requested /\ ReadIsCurrent /\ InsertedIsUnique
  BY <1>1 DEF HolderHasLock, Held, Requested, ReadIsCurrent, InsertedIsUnique
<1>4. HasLast /\ OneChain /\ Linked
  BY DEF AuditInit, HasLast, OneChain, Linked
<1>5. ClockIsAhead
  BY <1>1 DEF AuditInit, ClockIsAhead
<1> QED
  BY <1>2, <1>3, <1>4, <1>5 DEF AuditInv

-----------------------------------------------------------------------------
(* A writer that gives the lock back, or has not got it yet, disturbs       *)
(* nothing (Begin, Replay, Abort).                                         *)
LEMMA LeaveStep ==
  ASSUME AuditInv, AuditTypeOK', NEW w \in Writers, tx'[w].stage \in {"idle", "waiting"},
         \A v \in Writers \ {w} : tx'[v] = tx[v],
         tx'[w].stage # "idle" => tx'[w].event \in Events,
         lock' = lock \/ (lock = w /\ lock' = NoWriter),
         UNCHANGED <<trail, clock, stepsBack>>
  PROVE  AuditInv'
<1>1. \A v \in Writers : tx'[v].stage \in Held => v # w /\ tx'[v] = tx[v]
  BY DEF Held
<1>2. HolderHasLock'
  BY <1>1 DEF AuditInv, HolderHasLock
<1>3. Requested'
  BY DEF AuditInv, Requested
<1>6. ReadIsCurrent' /\ InsertedIsUnique'
  BY <1>1 DEF AuditInv, ReadIsCurrent, InsertedIsUnique, Held, Recorded
<1>4. HasLast' /\ OneChain' /\ Linked'
  BY DEF AuditInv, HasLast, IsLast, OneChain, Recorded, Linked, PredecessorMatches
<1>5. ClockIsAhead'
  BY <1>1 DEF AuditInv, ClockIsAhead, Held
<1> QED
  BY <1>2, <1>3, <1>4, <1>5, <1>6 DEF AuditInv

LEMMA BeginStep ==
  ASSUME AuditInv, NEW w \in Writers, Begin(w)
  PROVE  AuditInv'
<1>1. PICK e \in Events :
        tx' = [tx EXCEPT ![w] = [stage |-> "waiting", event |-> e, previous |-> NoEvent, at |-> 0]]
  BY DEF Begin
<1>2. [stage |-> "waiting", event |-> e, previous |-> NoEvent, at |-> 0] \in Tx
  BY AuditAssumption DEF AuditAssumption, Tx, Stage
<1>3. AuditTypeOK'
  BY <1>1, <1>2 DEF AuditInv, AuditTypeOK, Begin
<1>4. /\ tx'[w].stage = "waiting" /\ tx'[w].event = e
      /\ \A v \in Writers \ {w} : tx'[v] = tx[v]
  BY <1>1 DEF AuditInv, AuditTypeOK
<1> QED
  BY <1>3, <1>4, LeaveStep DEF Begin

(* Replay and Abort.                                                       *)
LEMMA ReleaseStep ==
  ASSUME AuditInv, NEW w \in Writers, Release(w), UNCHANGED <<trail, clock, stepsBack>>
  PROVE  AuditInv'
<1>1. Idle \in Tx /\ Idle.stage = "idle"
  BY AuditAssumption DEF AuditAssumption, Idle, Tx, Stage
<1>2. AuditTypeOK'
  BY <1>1 DEF AuditInv, AuditTypeOK, Release
<1>3. tx'[w] = Idle /\ \A v \in Writers \ {w} : tx'[v] = tx[v]
  BY DEF AuditInv, AuditTypeOK, Release
<1> QED
  BY <1>1, <1>2, <1>3, LeaveStep DEF Release

LEMMA LockStep ==
  ASSUME AuditInv, NEW w \in Writers, Lock(w)
  PROVE  AuditInv'
<1> DEFINE t == [tx[w] EXCEPT !.stage = "locked"]
<1>1. t \in Tx /\ t.stage = "locked" /\ t.event = tx[w].event
  BY DEF AuditInv, AuditTypeOK, Tx, Stage
<1>2. tx'[w] = t /\ \A v \in Writers \ {w} : tx'[v] = tx[v]
  BY DEF AuditInv, AuditTypeOK, Lock
<1>3. AuditTypeOK'
  BY <1>1 DEF AuditInv, AuditTypeOK, Lock
<1> HIDE DEF t
<1>4. \A v \in Writers : tx[v].stage \notin Held
  BY AuditAssumption DEF AuditAssumption, AuditInv, HolderHasLock, Lock, LockFree
<1>5. \A v \in Writers : tx'[v].stage \in Held => v = w /\ tx'[v].stage = "locked"
  BY <1>1, <1>2, <1>4
<1>6. HolderHasLock' /\ ReadIsCurrent' /\ InsertedIsUnique'
  BY <1>5 DEF Lock, HolderHasLock, ReadIsCurrent, InsertedIsUnique, Held
<1>7. Requested'
  BY <1>1, <1>2 DEF Lock, AuditInv, Requested
<1>8. HasLast' /\ OneChain' /\ Linked'
  BY DEF Lock, AuditInv, HasLast, IsLast, OneChain, Recorded, Linked, PredecessorMatches
<1>9. ClockIsAhead'
  BY <1>5 DEF Lock, AuditInv, ClockIsAhead, Held
<1> QED
  BY <1>3, <1>6, <1>7, <1>8, <1>9 DEF AuditInv

(* The holder is the only one past the lock.                               *)
LEMMA HolderIsAlone ==
  ASSUME AuditInv, NEW w \in Writers, tx[w].stage \in Held
  PROVE  lock = w /\ \A v \in Writers \ {w} : tx[v].stage \notin Held
BY DEF AuditInv, HolderHasLock

LEMMA ReadPreviousStep ==
  ASSUME AuditInv, NEW w \in Writers, ReadPrevious(w)
  PROVE  AuditInv'
<1> DEFINE t == [tx[w] EXCEPT !.stage = "signing", !.previous = Latest(trail)]
<1>1. Latest(trail) \in Events \cup {NoEvent}
  BY LatestOfTrail DEF AuditInv, AuditTypeOK, Row, Recorded
<1>2. t \in Tx /\ t.stage = "signing" /\ t.previous = Latest(trail) /\ t.event = tx[w].event
  BY <1>1 DEF AuditInv, AuditTypeOK, Tx, Stage
<1>3. tx'[w] = t /\ \A v \in Writers \ {w} : tx'[v] = tx[v]
  BY DEF AuditInv, AuditTypeOK, ReadPrevious
<1>4. AuditTypeOK'
  BY <1>2 DEF AuditInv, AuditTypeOK, ReadPrevious
<1> HIDE DEF t
<1>5. lock = w /\ \A v \in Writers \ {w} : tx[v].stage \notin Held
  BY HolderIsAlone DEF Held, ReadPrevious
<1>6. \A v \in Writers : tx'[v].stage \in Held => v = w
  BY <1>3, <1>5
<1>7. HolderHasLock'
  BY <1>5, <1>6 DEF HolderHasLock, ReadPrevious
<1>8. Requested' /\ ReadIsCurrent'
  BY <1>2, <1>3, <1>6 DEF ReadPrevious, AuditInv, Requested, ReadIsCurrent, Held, Recorded
<1>9. InsertedIsUnique' /\ ClockIsAhead'
  BY <1>2, <1>3, <1>6 DEF ReadPrevious, AuditInv, InsertedIsUnique, ClockIsAhead, Held
<1>10. HasLast' /\ OneChain' /\ Linked'
  BY DEF ReadPrevious, AuditInv, HasLast, IsLast, OneChain, Recorded, Linked, PredecessorMatches
<1> QED
  BY <1>4, <1>7, <1>8, <1>9, <1>10 DEF AuditInv

LEMMA InsertStep ==
  ASSUME AuditInv, NEW w \in Writers, Insert(w)
  PROVE  AuditInv'
<1>1. PICK t \in (clock + 1)..MaxClock :
        tx' = [tx EXCEPT ![w].stage = "inserted", ![w].at = t] /\ clock' = t
  BY DEF Insert
<1> DEFINE n == [tx[w] EXCEPT !.stage = "inserted", !.at = t]
<1>2. t \in 0..MaxClock /\ t > clock
  BY AuditAssumption DEF AuditAssumption, AuditInv, AuditTypeOK
<1>3. /\ n \in Tx /\ n.stage = "inserted" /\ n.at = t
      /\ n.previous = tx[w].previous /\ n.event = tx[w].event
  BY <1>2 DEF AuditInv, AuditTypeOK, Tx, Stage
<1>4. tx'[w] = n /\ \A v \in Writers \ {w} : tx'[v] = tx[v]
  BY <1>1 DEF AuditInv, AuditTypeOK
<1>5. AuditTypeOK'
  BY <1>1, <1>2, <1>3, <1>4 DEF AuditInv, AuditTypeOK, Insert
<1> HIDE DEF n
<1>6. lock = w /\ \A v \in Writers \ {w} : tx[v].stage \notin Held
  BY HolderIsAlone DEF Held, Insert
<1>7. \A v \in Writers : tx'[v].stage \in Held => v = w
  BY <1>4, <1>6
<1>8. HolderHasLock'
  BY <1>6, <1>7 DEF HolderHasLock, Insert
<1>9. Requested' /\ ReadIsCurrent'
  BY <1>3, <1>4, <1>7 DEF Insert, AuditInv, Requested, ReadIsCurrent, Held, Recorded
<1>10. InsertedIsUnique'
  BY <1>3, <1>4, <1>7 DEF Insert, Unique, InsertedIsUnique, Held
<1>11. ClockIsAhead'
  BY <1>1, <1>2, <1>3, <1>4, <1>7 DEF Insert, AuditInv, AuditTypeOK, Row, ClockIsAhead, Held
<1>12. HasLast' /\ OneChain' /\ Linked'
  BY DEF Insert, AuditInv, HasLast, IsLast, OneChain, Recorded, Linked, PredecessorMatches
<1> QED
  BY <1>5, <1>8, <1>9, <1>10, <1>11, <1>12 DEF AuditInv

LEMMA StepBackStep ==
  ASSUME AuditInv, StepBack
  PROVE  AuditInv'
<1>1. AuditTypeOK'
  BY AuditAssumption DEF AuditAssumption, StepBack, AuditInv, AuditTypeOK
<1>2. stepsBack' # 0
  BY DEF StepBack, AuditInv, AuditTypeOK
<1>3. ClockIsAhead' /\ Linked'
  BY <1>2 DEF ClockIsAhead, Linked
<1>4. HolderHasLock' /\ Requested' /\ ReadIsCurrent' /\ InsertedIsUnique'
  BY DEF StepBack, AuditInv, HolderHasLock, Requested, ReadIsCurrent, Recorded, InsertedIsUnique
<1>5. HasLast' /\ OneChain'
  BY DEF StepBack, AuditInv, HasLast, IsLast, OneChain, Recorded
<1> QED
  BY <1>1, <1>3, <1>4, <1>5 DEF AuditInv

LEMMA RowNumbers == \A r \in Row : r.at \in Nat /\ r.event \in Nat
<1>1. 0..MaxClock \subseteq Nat /\ Events \subseteq Nat
  BY AuditAssumption DEF AuditAssumption
<1>2. \A r \in Row : r.at \in 0..MaxClock /\ r.event \in Events
  BY DEF Row
<1> QED
  BY <1>1, <1>2

(* Rows are ordered by created_at and identifier.                          *)
LEMMA BeforeIsTransitive ==
  ASSUME NEW a \in Row, NEW b \in Row, NEW c \in Row, Before(a, b), Before(b, c)
  PROVE  Before(a, c)
BY RowNumbers DEF Before

LEMMA BeforeIsTotal ==
  ASSUME NEW a \in Row, NEW b \in Row, a.event # b.event
  PROVE  (Before(a, b) \/ Before(b, a)) /\ ~(Before(a, b) /\ Before(b, a))
BY RowNumbers DEF Before

(* The one step that changes the table.                                    *)
LEMMA CommitStep ==
  ASSUME AuditInv, NEW w \in Writers, Commit(w)
  PROVE  AuditInv'
<1> DEFINE n == [event |-> tx[w].event, previous |-> tx[w].previous, at |-> tx[w].at]
<1>1. /\ tx[w] \in Tx /\ tx[w].event \in Events
      /\ tx[w].event \notin Recorded /\ tx[w].previous = Latest(trail)
  BY DEF AuditInv, AuditTypeOK, Requested, ReadIsCurrent, Commit
<1>2. /\ n \in Row /\ n.event = tx[w].event
      /\ n.previous = tx[w].previous /\ n.at = tx[w].at
  BY <1>1 DEF Tx, Row
<1>3. trail' = trail \cup {n}
  BY DEF Commit
<1> HIDE DEF n
<1>4. Idle \in Tx /\ Idle.stage = "idle"
  BY AuditAssumption DEF AuditAssumption, Idle, Tx, Stage
<1>5. AuditTypeOK'
  BY <1>2, <1>3, <1>4 DEF AuditInv, AuditTypeOK, Commit, Release
<1>6. tx'[w].stage = "idle" /\ \A v \in Writers \ {w} : tx'[v] = tx[v]
  BY <1>4 DEF AuditInv, AuditTypeOK, Commit, Release
<1>7. \A v \in Writers \ {w} : tx[v].stage \notin Held
  BY HolderIsAlone DEF Held, Commit
<1>8. \A v \in Writers : tx'[v].stage \notin Held
  BY <1>6, <1>7 DEF Held
<1>9. HolderHasLock' /\ ReadIsCurrent' /\ InsertedIsUnique'
  BY <1>8 DEF HolderHasLock, ReadIsCurrent, InsertedIsUnique, Held
<1>10. Requested'
  BY <1>6 DEF AuditInv, Requested
<1>11. trail \subseteq Row /\ \A r \in trail : r.event # n.event
  BY <1>1, <1>2 DEF AuditInv, AuditTypeOK, Recorded
<1>12. HasLast'
  <2>1. CASE trail = {}
    BY <2>1, <1>3 DEF HasLast, IsLast
  <2>2. CASE trail # {}
    <3>1. PICK m \in trail : IsLast(m, trail)
      BY <2>2 DEF AuditInv, HasLast
    <3>2. CASE Before(m, n)
      <4>1. IsLast(n, trail')
        BY <1>2, <1>3, <1>11, <3>1, <3>2, BeforeIsTransitive DEF IsLast
      <4> QED
        BY <4>1, <1>3 DEF HasLast
    <3>3. CASE Before(n, m)
      <4>1. IsLast(m, trail')
        BY <1>3, <3>1, <3>3 DEF IsLast
      <4> QED
        BY <4>1, <1>3, <3>1 DEF HasLast
    <3> QED
      BY <1>2, <1>11, <3>1, <3>2, <3>3, BeforeIsTotal
  <2> QED
    BY <2>1, <2>2
<1>13. OneChain'
  <2>1. \A r \in trail : r.previous # n.previous
    <3>1. CASE trail = {}
      BY <3>1
    <3>2. CASE trail # {}
      <4>1. Latest(trail) \in Recorded
        BY <3>2, LatestOfTrail DEF AuditInv
      <4>2. Latest(trail) # NoEvent
        BY <4>1, <1>11, AuditAssumption DEF AuditAssumption, Recorded, Row
      <4> QED
        BY <4>2, <1>1, <1>2 DEF AuditInv, InsertedIsUnique, Commit
    <3> QED
      BY <3>1, <3>2
  <2>2. n.previous \in Recorded \cup {NoEvent}
    BY <1>1, <1>2, LatestOfTrail DEF AuditInv
  <2>3. Recorded \subseteq Recorded'
    BY <1>3 DEF Recorded
  <2>4. \A r, q \in trail' : r.event = q.event \/ r.previous = q.previous => r = q
    BY <1>3, <1>11, <2>1 DEF AuditInv, OneChain
  <2>5. \A r \in trail' : r.previous \in Recorded' \cup {NoEvent}
    BY <1>3, <2>2, <2>3 DEF AuditInv, OneChain
  <2> QED
    BY <2>4, <2>5 DEF OneChain
<1>14. stepsBack' = 0 => n.at <= clock /\ \A r \in trail : r.at < n.at
  BY <1>2 DEF AuditInv, ClockIsAhead, Commit
<1>15. ClockIsAhead'
  BY <1>3, <1>8, <1>14 DEF AuditInv, ClockIsAhead, Commit, Held
<1>16. Linked'
  <2> SUFFICES ASSUME stepsBack' = 0, NEW r \in trail' PROVE PredecessorMatches(r)'
    BY DEF Linked
  <2>1. \A q \in trail : Before(q, n) /\ ~Before(n, q)
    BY <1>2, <1>11, <1>14, BeforeIsTotal DEF Before
  <2>2. ~Before(n, n)
    BY <1>2, RowNumbers DEF Before
  <2>3. CASE r = n
    <3>1. {q \in trail' : Before(q, r)} = trail
      BY <1>3, <2>1, <2>2, <2>3
    <3> QED
      BY <3>1, <1>1, <1>2, <2>3 DEF PredecessorMatches
  <2>4. CASE r \in trail
    <3>1. {q \in trail' : Before(q, r)} = {q \in trail : Before(q, r)}
      BY <1>3, <2>1, <2>4
    <3> QED
      BY <3>1, <2>4 DEF PredecessorMatches, AuditInv, Linked, Commit
  <2> QED
    BY <1>3, <2>3, <2>4
<1> QED
  BY <1>5, <1>9, <1>10, <1>12, <1>13, <1>15, <1>16 DEF AuditInv

-----------------------------------------------------------------------------
LEMMA StepInv == AuditInv /\ [AuditNext]_auditVars => AuditInv'
<1> SUFFICES ASSUME AuditInv, [AuditNext]_auditVars PROVE AuditInv'
  OBVIOUS
<1>1. CASE StepBack
  BY <1>1, StepBackStep
<1>2. ASSUME NEW w \in Writers, Append(w) PROVE AuditInv'
  <2>1. CASE Begin(w)
    BY <2>1, BeginStep
  <2>2. CASE Lock(w)
    BY <2>2, LockStep
  <2>3. CASE Replay(w)
    BY <2>3, ReleaseStep DEF Replay
  <2>4. CASE ReadPrevious(w)
    BY <2>4, ReadPreviousStep
  <2>5. CASE Insert(w)
    BY <2>5, InsertStep
  <2>6. CASE Commit(w)
    BY <2>6, CommitStep
  <2>7. CASE Abort(w)
    BY <2>7, ReleaseStep DEF Abort
  <2> QED
    BY <1>2, <2>1, <2>2, <2>3, <2>4, <2>5, <2>6, <2>7 DEF Append
<1>3. CASE UNCHANGED auditVars
  BY <1>3 DEF auditVars, AuditInv, AuditTypeOK, HolderHasLock, Requested, ReadIsCurrent, InsertedIsUnique,
              HasLast, IsLast, OneChain, ClockIsAhead, Linked, PredecessorMatches, Recorded
<1> QED
  BY <1>1, <1>2, <1>3 DEF AuditNext

LEMMA AlwaysInv == AuditSpec => []AuditInv
<1> QED
  BY AuditInitInv, StepInv, PTL DEF AuditSpec

(* The trail stays one chain, for any number of events and writers and any *)
(* behaviour of the clock (append, the lock, the unique index).            *)
THEOREM TrailIsOneChain == AuditSpec => []OneChain
<1>1. AuditInv => OneChain
  BY DEF AuditInv
<1> QED
  BY <1>1, AlwaysInv, PTL

(* While the clock runs forward, the verification of an unaltered trail    *)
(* reports only events of which the database writes a column otherwise     *)
(* than it was hashed, whatever the window (QueryAuditTrail.execute).      *)
THEOREM ReportsHaveACause == AuditSpec => []BrokenHasCause
<1>1. AuditInv => BrokenHasCause
  BY DEF AuditInv, Linked, BrokenHasCause, Broken, Window, HashMatches
<1> QED
  BY <1>1, AlwaysInv, PTL

(* The declared types, for every value of the constants.                   *)
THEOREM TrailTypeCorrect == AuditSpec => []AuditTypeOK
<1>1. AuditInv => AuditTypeOK
  BY DEF AuditInv
<1> QED
  BY <1>1, AlwaysInv, PTL

-----------------------------------------------------------------------------
(* The document archive.                                                   *)

(* A handler works on a request; one outside the effect has not begun it.  *)
HandlersHaveRequests ==
  \A w \in Workers, c \in Copies :
    /\ pc[w][c] # "none" => request[MessageOf[c]] # None
    /\ pc[w][c] # "effect" => attempt[w][c] = Start

(* A completion is that of a committed effect.                             *)
CompletedIsDone ==
  /\ \A w \in Workers, c \in Copies : pc[w][c] = "complete" => effects[MessageOf[c]] > 0
  /\ \A m \in Messages : inbox[m] = "processed" => effects[m] > 0

-----------------------------------------------------------------------------
(* The message loop, around the effect.                                    *)
LEMMA GotoFacts ==
  ASSUME Inbox!TypeOK, NEW w \in Workers, NEW c \in Copies, NEW stage \in Inbox!Stages,
         Inbox!Goto(w, c, stage)
  PROVE  /\ pc' \in [Workers -> [Copies -> Inbox!Stages]]
         /\ pc'[w][c] = stage
         /\ \A v \in Workers, d \in Copies : v # w \/ d # c => pc'[v][d] = pc[v][d]
  BY DEF Inbox!TypeOK, Inbox!Goto

(* What a step of the message loop does to the rest.                       *)
Around ==
  /\ Inbox!TypeOK' /\ CompletedIsDone' /\ UNCHANGED effects
  /\ \A v \in Workers, d \in Copies :
       pc'[v][d] # "none" => pc[v][d] # "none" \/ request[MessageOf[d]] # None

LEMMA HandlerStep ==
  ASSUME Inbox!TypeOK, CompletedIsDone, NEW w \in Workers, NEW c \in Copies,
         NEW stage \in Inbox!Stages \ {"complete"}, Inbox!Goto(w, c, stage),
         pc[w][c] # "none" \/ request[MessageOf[c]] # None,
         UNCHANGED effects,
         copy' \in [Copies -> {"ready", "acked", "dead"} \cup Workers],
         alive' \in [Workers -> {"up", "cutOff", "down"}],
         inbox' \in [Messages -> {"absent", "fresh", "stale", "processed"}],
         interrupted' \in [Messages -> BOOLEAN], faults' \in 0..MaxFaults,
         \A m \in Messages : inbox'[m] = "processed" =>
           inbox[m] = "processed" \/ (pc[w][c] = "complete" /\ m = MessageOf[c])
  PROVE  Around
<1>1. /\ pc' \in [Workers -> [Copies -> Inbox!Stages]]
      /\ pc'[w][c] = stage
      /\ \A v \in Workers, d \in Copies : v # w \/ d # c => pc'[v][d] = pc[v][d]
  BY GotoFacts
<1>2. Inbox!TypeOK'
  BY <1>1 DEF Inbox!TypeOK
<1>3. CompletedIsDone'
  BY <1>1 DEF CompletedIsDone
<1> QED
  BY <1>1, <1>2, <1>3 DEF Around

LEMMA ExitStep ==
  ASSUME Inbox!TypeOK, CompletedIsDone, NEW w \in Workers, Inbox!Exit(w),
         UNCHANGED <<inbox, effects>>, faults' \in 0..MaxFaults
  PROVE  Around
<1>1. /\ pc' \in [Workers -> [Copies -> Inbox!Stages]]
      /\ \A v \in Workers, d \in Copies : pc'[v][d] \in {"none", pc[v][d]}
  BY DEF Inbox!Exit, Inbox!TypeOK, Inbox!Stages
<1>2. copy' \in [Copies -> {"ready", "acked", "dead"} \cup Workers]
  BY DEF Inbox!Exit, Inbox!Lose, Inbox!TypeOK
<1>3. interrupted' \in [Messages -> BOOLEAN]
  BY DEF Inbox!Exit, Inbox!Lose, Inbox!TypeOK
<1>4. Inbox!TypeOK'
  BY <1>1, <1>2, <1>3 DEF Inbox!Exit, Inbox!TypeOK
<1>5. CompletedIsDone'
  BY <1>1 DEF CompletedIsDone
<1> QED
  BY <1>1, <1>4, <1>5 DEF Around

LEMMA FaultFacts == Inbox!TypeOK /\ Inbox!Fault => faults' \in 0..MaxFaults
  BY ArchiveAssumption DEF Inbox!TypeOK, Inbox!Fault

LEMMA LoopStep ==
  ASSUME Inbox!TypeOK, CompletedIsDone, NEW w \in Workers, NEW c \in Copies, Loop(w, c)
  PROVE  Around
<1> USE ArchiveAssumption
<1>1. MessageOf[c] \in Messages
  OBVIOUS
<1>2. CASE request[MessageOf[c]] # None /\ Inbox!Deliver(w, c)
  <2>1. Inbox!FirstStage(c) \in Inbox!Stages \ {"complete"}
    BY DEF Inbox!FirstStage, Inbox!Stages
  <2> QED
    BY <1>1, <1>2, <2>1, HandlerStep DEF Inbox!Deliver, Inbox!TypeOK
<1>3. CASE Inbox!Begin(w, c)
  <2>1. /\ inbox' \in [Messages -> {"absent", "fresh", "stale", "processed"}]
        /\ \A m \in Messages : inbox'[m] = "processed" => inbox[m] = "processed"
    BY <1>1, <1>3 DEF Inbox!Begin, Inbox!Acquire, Inbox!TypeOK
  <2>2. PICK stage \in {"effect", "ack"} : Inbox!Goto(w, c, stage)
    BY <1>3 DEF Inbox!Begin
  <2>3. stage \in Inbox!Stages \ {"complete"}
    BY DEF Inbox!Stages, Inbox!AtWork
  <2>4. pc[w][c] # "none" /\ UNCHANGED <<copy, alive, effects, interrupted, faults>>
    BY <1>3 DEF Inbox!Begin
  <2> QED
    BY <2>1, <2>2, <2>3, <2>4, HandlerStep DEF Inbox!TypeOK
<1>4. CASE Inbox!BeginError(w, c)
  <2>1. faults' \in 0..MaxFaults
    BY <1>4, FaultFacts DEF Inbox!BeginError
  <2>2. inbox' \in [Messages -> {"absent", "fresh", "stale", "processed"}]
    BY <1>1, <1>4 DEF Inbox!BeginError, Inbox!Acquirable, Inbox!Acquire, Inbox!TypeOK
  <2>3. \A m \in Messages : inbox'[m] = "processed" =>
          inbox[m] = "processed" \/ (pc[w][c] = "complete" /\ m = MessageOf[c])
    BY <1>1, <1>4 DEF Inbox!BeginError, Inbox!Acquirable, Inbox!Acquire, Inbox!TypeOK
  <2>4. /\ Inbox!Goto(w, c, "nack") /\ pc[w][c] # "none"
        /\ UNCHANGED <<copy, alive, effects, interrupted>>
    BY <1>4 DEF Inbox!BeginError
  <2>5. "nack" \in Inbox!Stages \ {"complete"}
    BY DEF Inbox!Stages, Inbox!AtWork
  <2> QED
    BY <2>1, <2>2, <2>3, <2>4, <2>5, HandlerStep DEF Inbox!TypeOK
<1>5. CASE Inbox!Complete(w, c)
  BY <1>1, <1>5, HandlerStep DEF Inbox!Complete, Inbox!SetProcessed, Inbox!TypeOK,
     Inbox!Stages, Inbox!AtWork
<1>6. CASE Inbox!CompleteError(w, c)
  <2>1. faults' \in 0..MaxFaults
    BY <1>6, FaultFacts DEF Inbox!CompleteError
  <2>2. inbox' \in [Messages -> {"absent", "fresh", "stale", "processed"}]
    BY <1>1, <1>6 DEF Inbox!CompleteError, Inbox!SetProcessed, Inbox!TypeOK
  <2>3. \A m \in Messages : inbox'[m] = "processed" =>
          inbox[m] = "processed" \/ (pc[w][c] = "complete" /\ m = MessageOf[c])
    BY <1>1, <1>6 DEF Inbox!CompleteError, Inbox!SetProcessed, Inbox!TypeOK
  <2>4. /\ Inbox!Goto(w, c, "abandon") /\ pc[w][c] # "none"
        /\ UNCHANGED <<copy, alive, effects, interrupted>>
    BY <1>6 DEF Inbox!CompleteError
  <2>5. "abandon" \in Inbox!Stages \ {"complete"}
    BY DEF Inbox!Stages, Inbox!AtWork
  <2> QED
    BY <2>1, <2>2, <2>3, <2>4, <2>5, HandlerStep DEF Inbox!TypeOK
<1>7. CASE Inbox!Abandon(w, c)
  BY <1>1, <1>7, HandlerStep DEF Inbox!Abandon, Inbox!DeleteUnprocessed, Inbox!TypeOK,
     Inbox!Stages, Inbox!AtWork
<1>8. CASE Inbox!AbandonError(w, c)
  <2>1. faults' \in 0..MaxFaults
    BY <1>8, FaultFacts DEF Inbox!AbandonError
  <2>2. inbox' \in [Messages -> {"absent", "fresh", "stale", "processed"}]
    BY <1>1, <1>8 DEF Inbox!AbandonError, Inbox!DeleteUnprocessed, Inbox!TypeOK
  <2>3. \A m \in Messages : inbox'[m] = "processed" =>
          inbox[m] = "processed" \/ (pc[w][c] = "complete" /\ m = MessageOf[c])
    BY <1>1, <1>8 DEF Inbox!AbandonError, Inbox!DeleteUnprocessed, Inbox!TypeOK
  <2>4. /\ Inbox!Goto(w, c, "nack") /\ pc[w][c] # "none"
        /\ UNCHANGED <<copy, alive, effects, interrupted>>
    BY <1>8 DEF Inbox!AbandonError
  <2>5. "nack" \in Inbox!Stages \ {"complete"}
    BY DEF Inbox!Stages, Inbox!AtWork
  <2> QED
    BY <2>1, <2>2, <2>3, <2>4, <2>5, HandlerStep DEF Inbox!TypeOK
<1>9. CASE Inbox!Settle(w, c) /\ alive[w] = "up"
  BY <1>1, <1>9, HandlerStep DEF Inbox!Settle, Inbox!TypeOK,
     Inbox!Stages, Inbox!AtWork
<1>10. CASE Inbox!Settle(w, c) /\ alive[w] = "cutOff"
  <2>1. Inbox!Exit(w) /\ UNCHANGED <<inbox, effects, faults>>
    BY <1>10 DEF Inbox!Settle
  <2> QED
    BY <2>1, ExitStep DEF Inbox!TypeOK
<1> QED
  BY <1>2, <1>3, <1>4, <1>5, <1>6, <1>7, <1>8, <1>9, <1>10 DEF Loop, Inbox!Settle

LEMMA ConsumeNext ==
  ASSUME Consume
  PROVE  Inbox!Next
  BY DEF Consume, Loop, Process, Inbox!Next, Inbox!Handle, Inbox!Failure

LEMMA ConsumeStep ==
  ASSUME Inbox!TypeOK, CompletedIsDone, Consume
  PROVE  Around
<1>1. ASSUME NEW w \in Workers, Process(w)
      PROVE  Around
  <2>1. CASE Inbox!Crash(w)
    <3>1. faults' \in 0..MaxFaults
      BY <2>1, FaultFacts DEF Inbox!Crash
    <3> QED
      BY <2>1, <3>1, ExitStep DEF Inbox!Crash
  <2>2. CASE Inbox!CutOff(w)
    <3>1. Inbox!TypeOK'
      BY <2>2, ArchiveAssumption DEF Inbox!CutOff, Inbox!Lose, Inbox!Fault, Inbox!TypeOK
    <3> QED
      BY <2>2, <3>1 DEF Inbox!CutOff, CompletedIsDone, Around
  <2>3. CASE Inbox!ExitIdle(w)
    BY <2>3, ExitStep DEF Inbox!ExitIdle, Inbox!TypeOK
  <2>4. CASE Inbox!Restart(w)
    BY <2>4 DEF Inbox!Restart, Inbox!TypeOK, CompletedIsDone, Around
  <2> QED
    BY <1>1, <2>1, <2>2, <2>3, <2>4 DEF Process
<1>2. ASSUME NEW m \in Messages, Inbox!LeaseExpires(m)
      PROVE  Around
  <2>1. Inbox!TypeOK'
    BY <1>2, ArchiveAssumption DEF Inbox!LeaseExpires, Inbox!Fault, Inbox!TypeOK
  <2>2. CompletedIsDone'
    BY <1>2 DEF Inbox!LeaseExpires, CompletedIsDone, Inbox!TypeOK
  <2> QED
    BY <1>2, <2>1, <2>2 DEF Inbox!LeaseExpires, Around
<1> QED
  BY <1>1, <1>2, LoopStep DEF Consume

-----------------------------------------------------------------------------
(* What an attempt has reached; what is archived, referenced and preserved.*)
AttemptKept(x, c) == x.step # "upload" =>
  /\ x.paperless \in Ids
  /\ stored[x.paperless] = [key |-> MessageOf[c], content |-> Document(c)]
  /\ x.object # None => x.object \in worm /\ x.object.key = MessageOf[c]
  /\ x.step # "preserve" /\ request[MessageOf[c]].evidentiary => x.object # None
  /\ x.step = "commit" /\ x.seen => reference[Document(c)] # None

RequestKept(m) == Archived(m) =>
  /\ request[m].paperless \in Ids
  /\ stored[request[m].paperless] = [key |-> m, content |-> request[m].document]
  /\ request[m].evidentiary => request[m].object \in worm /\ request[m].object.key = m
  /\ reference[request[m].document] # None

(* The request that wrote a reference is archived: only one that finds     *)
(* another's reference is forgotten.                                       *)
ReferenceKept(d) == reference[d] # None =>
  /\ Archived(reference[d].by) /\ request[reference[d].by].document = d
  /\ reference[d].object # None =>
       /\ reference[d].object \in worm /\ reference[d].object.key = reference[d].by
       /\ reference[d].manifest \in Ids /\ stored[reference[d].manifest] # None
       /\ stored[reference[d].manifest].key = reference[d].by

ObjectKept(o) == stored[o.paperless] # None /\ stored[o.paperless].key = o.key

HasRival(m) ==
  reference[request[m].document] # None /\ reference[request[m].document].by # m

EffectKept(m) == effects[m] > 0 => request[m] # None /\ (Archived(m) \/ HasRival(m))

Inv ==
  /\ TypeOK /\ HandlersHaveRequests /\ CompletedIsDone
  /\ \A w \in Workers, c \in Copies : AttemptKept(attempt[w][c], c)
  /\ \A m \in Messages : RequestKept(m) /\ EffectKept(m)
  /\ \A d \in Documents : ReferenceKept(d)
  /\ \A o \in worm : ObjectKept(o)

-----------------------------------------------------------------------------
LEMMA InvFacts ==
  ASSUME Inv
  PROVE  StoreIsConsistent
<1>1. ArchivedIsStored
  BY DEF Inv, RequestKept, ArchivedIsStored
<1>2. ForgottenHasRival
  BY DEF Inv, CompletedIsDone, EffectKept, HasRival, ForgottenHasRival
<1>3. ManifestIsKept
  <2> SUFFICES ASSUME NEW d \in Documents, reference[d] # None, reference[d].object # None,
                      reference[d].object.paperless # reference[d].manifest
               PROVE  Cardinality(UploadsOf(reference[d].by)) > 1
    BY DEF ManifestIsKept
  <2> DEFINE m == reference[d].by
             i == reference[d].manifest
             j == reference[d].object.paperless
  <2>1. /\ reference[d].object \in worm /\ reference[d].object.key = m
        /\ i \in Ids /\ stored[i] # None /\ stored[i].key = m
    BY DEF Inv, ReferenceKept
  <2>2. j \in Ids /\ stored[j] # None /\ stored[j].key = m
    BY <2>1 DEF Inv, ObjectKept, TypeOK, Object
  <2>3. {i, j} \subseteq UploadsOf(m)
    BY <2>1, <2>2 DEF UploadsOf
  <2>4. IsFiniteSet(UploadsOf(m))
    <3>1. IsFiniteSet(Ids)
      BY ArchiveAssumption, FS_Interval DEF Ids
    <3> QED
      BY <3>1, FS_Subset DEF UploadsOf
  <2>5. Cardinality({i, j}) = 2
    <3>1. IsFiniteSet({i}) /\ Cardinality({i}) = 1 /\ j \notin {i}
      BY FS_Singleton
    <3>2. Cardinality({i} \cup {j}) = Cardinality({i}) + 1
      BY <3>1, FS_AddElement
    <3>3. {i, j} = {i} \cup {j}
      OBVIOUS
    <3> QED
      BY <3>1, <3>2, <3>3
  <2>6. Cardinality({i, j}) \leq Cardinality(UploadsOf(m)) /\ Cardinality(UploadsOf(m)) \in Nat
    BY <2>3, <2>4, FS_Subset, FS_CardinalityType
  <2> QED
    BY <2>5, <2>6
<1> QED
  BY <1>1, <1>2, <1>3 DEF StoreIsConsistent, Inv

LEMMA InitInv == Init => Inv
<1> SUFFICES ASSUME Init PROVE Inv
  OBVIOUS
<1>1. Inbox!TypeOK /\ CompletedIsDone
  BY ArchiveAssumption DEF Init, Inbox!Init, Inbox!TypeOK, Inbox!Stages, CompletedIsDone
<1>2. Start \in Attempt
  BY DEF Start, Attempt
<1>3. TypeOK
  BY <1>1, <1>2 DEF Init, TypeOK
<1>4. HandlersHaveRequests
  BY DEF Init, Inbox!Init, HandlersHaveRequests
<1>5. \A w \in Workers, c \in Copies : AttemptKept(attempt[w][c], c)
  BY DEF Init, AttemptKept, Start
<1>6. \A m \in Messages : RequestKept(m) /\ EffectKept(m)
  BY DEF Init, Inbox!Init, RequestKept, Archived, EffectKept
<1> QED
  BY <1>1, <1>3, <1>4, <1>5, <1>6 DEF Init, Inv, ReferenceKept

-----------------------------------------------------------------------------
(* Nothing that is stored, asked, archived or referenced is taken back.    *)
Later ==
  /\ \A i \in Ids : stored[i] # None => stored'[i] = stored[i]
  /\ worm \subseteq worm'
  /\ \A m \in Messages : request[m] # None =>
       /\ request'[m] # None
       /\ request'[m].document = request[m].document
       /\ request'[m].evidentiary = request[m].evidentiary
       /\ Archived(m) => request'[m] = request[m]
  /\ \A d \in Documents : reference[d] # None => reference'[d] = reference[d]

LEMMA RequestTypes ==
  ASSUME TypeOK, NEW m \in Messages, request[m] # None
  PROVE  /\ request[m] \in Request /\ request[m].document \in Documents
  BY DEF TypeOK, Request

LEMMA StoredIsNotNone ==
  ASSUME NEW m \in Messages, NEW d \in Documents
  PROVE  [key |-> m, content |-> d] # None
  BY NoneAssumption

LEMMA AttemptStays ==
  ASSUME TypeOK, Later, NEW c \in Copies, NEW x, AttemptKept(x, c),
         x.step # "upload" => request[MessageOf[c]] # None
  PROVE  AttemptKept(x, c)'
<1> SUFFICES ASSUME x.step # "upload"
             PROVE  AttemptKept(x, c)'
  BY DEF AttemptKept
<1>1. MessageOf[c] \in Messages
  BY ArchiveAssumption
<1>2. Document(c)' = Document(c) /\ Document(c) \in Documents
  BY <1>1, RequestTypes DEF Later, Document
<1>3. stored'[x.paperless] = stored[x.paperless]
  BY <1>1, <1>2, StoredIsNotNone DEF AttemptKept, Later
<1> QED
  BY <1>1, <1>2, <1>3 DEF AttemptKept, Later

LEMMA RequestStays ==
  ASSUME TypeOK, Later, NEW m \in Messages, RequestKept(m), request'[m] = request[m]
  PROVE  RequestKept(m)'
<1> SUFFICES ASSUME Archived(m)
             PROVE  RequestKept(m)'
  BY DEF RequestKept, Archived
<1>1. request[m].document \in Documents
  BY RequestTypes DEF Archived
<1> QED
  BY <1>1, StoredIsNotNone DEF RequestKept, Archived, Later

LEMMA ReferenceStays ==
  ASSUME TypeOK, Later, NEW d \in Documents, ReferenceKept(d), reference[d] # None
  PROVE  ReferenceKept(d)'
<1>1. reference'[d] = reference[d] /\ reference[d].by \in Messages
  BY DEF Later, TypeOK, Reference
<1>2. request'[reference[d].by] = request[reference[d].by]
  BY <1>1 DEF ReferenceKept, Archived, Later
<1> QED
  BY <1>1, <1>2 DEF ReferenceKept, Archived, Later

LEMMA ObjectStays ==
  ASSUME TypeOK, Later, NEW o \in Object, ObjectKept(o)
  PROVE  ObjectKept(o)'
  BY DEF ObjectKept, Later, Object

LEMMA EffectStays ==
  ASSUME TypeOK, Later, NEW m \in Messages, EffectKept(m), effects[m] > 0
  PROVE  EffectKept(m)'
<1>1. request[m] # None /\ request[m].document \in Documents
  BY RequestTypes DEF EffectKept
<1> QED
  BY <1>1 DEF EffectKept, Archived, HasRival, Later

-----------------------------------------------------------------------------
(* A step keeps the invariant when it keeps it of what it changes.         *)
LEMMA Assemble ==
  ASSUME Inv, Later, TypeOK', HandlersHaveRequests', CompletedIsDone',
         \A w \in Workers, c \in Copies :
           attempt'[w][c] = attempt[w][c] \/ AttemptKept(attempt[w][c], c)',
         \A m \in Messages : request'[m] = request[m] \/ RequestKept(m)',
         \A m \in Messages : effects'[m] = effects[m] \/ EffectKept(m)',
         \A d \in Documents : reference'[d] = reference[d] \/ ReferenceKept(d)',
         \A o \in worm' : o \in worm \/ ObjectKept(o)'
  PROVE  Inv'
<1>1. ASSUME NEW w \in Workers, NEW c \in Copies
      PROVE  AttemptKept(attempt[w][c], c)'
  <2> SUFFICES ASSUME attempt'[w][c] = attempt[w][c]
               PROVE  AttemptKept(attempt[w][c], c)'
    OBVIOUS
  <2>1. attempt[w][c].step # "upload" => request[MessageOf[c]] # None
    BY DEF Inv, HandlersHaveRequests, Start
  <2>2. AttemptKept(attempt[w][c], c) /\ TypeOK
    BY DEF Inv
  <2>3. PICK x : x = attempt[w][c]
    OBVIOUS
  <2>4. AttemptKept(x, c)'
    BY <2>1, <2>2, <2>3, AttemptStays
  <2> QED
    BY <2>3, <2>4 DEF AttemptKept
<1>2. ASSUME NEW m \in Messages
      PROVE  RequestKept(m)'
  BY RequestStays DEF Inv
<1>3. ASSUME NEW m \in Messages
      PROVE  EffectKept(m)'
  <2>1. CASE effects[m] > 0 /\ effects'[m] = effects[m]
    BY <2>1, EffectStays DEF Inv
  <2>2. CASE ~(effects[m] > 0) /\ effects'[m] = effects[m]
    BY <2>2 DEF EffectKept
  <2> QED
    BY <2>1, <2>2
<1>4. ASSUME NEW d \in Documents
      PROVE  ReferenceKept(d)'
  <2>1. CASE reference[d] # None /\ reference'[d] = reference[d]
    BY <2>1, ReferenceStays DEF Inv
  <2>2. CASE reference[d] = None /\ reference'[d] = reference[d]
    BY <2>2 DEF ReferenceKept
  <2> QED
    BY <2>1, <2>2
<1>5. ASSUME NEW o \in worm'
      PROVE  ObjectKept(o)'
  <2>1. CASE o \in worm
    <3>1. o \in Object /\ ObjectKept(o) /\ TypeOK
      BY <2>1 DEF Inv, TypeOK
    <3> QED
      BY <3>1, ObjectStays
  <2> QED
    BY <2>1
<1> QED
  BY <1>1, <1>2, <1>3, <1>4, <1>5 DEF Inv

LEMMA LeftFacts ==
  ASSUME TypeOK, Left
  PROVE  /\ attempt' \in [Workers -> [Copies -> Attempt]]
         /\ \A w \in Workers, c \in Copies :
              /\ attempt'[w][c] \in {attempt[w][c], Start}
              /\ pc'[w][c] # "effect" => attempt'[w][c] = Start
<1>1. Start \in Attempt
  BY DEF Start, Attempt
<1> QED
  BY <1>1 DEF TypeOK, Left

(* The handlers that leave the effect and those that stay in it.           *)
LEMMA LeftKeeps ==
  ASSUME Inv, Later, Left,
         \A w \in Workers, c \in Copies :
           pc'[w][c] # "none" => pc[w][c] # "none" \/ request[MessageOf[c]] # None
  PROVE  /\ HandlersHaveRequests'
         /\ \A w \in Workers, c \in Copies :
              attempt'[w][c] = attempt[w][c] \/ AttemptKept(attempt[w][c], c)'
<1>1. \A w \in Workers, c \in Copies :
        /\ attempt'[w][c] \in {attempt[w][c], Start}
        /\ pc'[w][c] # "effect" => attempt'[w][c] = Start
  BY LeftFacts DEF Inv
<1>2. ASSUME NEW w \in Workers, NEW c \in Copies, pc'[w][c] # "none"
      PROVE  request'[MessageOf[c]] # None
  <2>1. MessageOf[c] \in Messages
    BY ArchiveAssumption
  <2>2. request[MessageOf[c]] # None
    BY <1>2 DEF Inv, HandlersHaveRequests
  <2> QED
    BY <2>1, <2>2 DEF Later
<1>3. HandlersHaveRequests'
  BY <1>1, <1>2 DEF HandlersHaveRequests
<1>4. ASSUME NEW w \in Workers, NEW c \in Copies
      PROVE  attempt'[w][c] = attempt[w][c] \/ AttemptKept(attempt[w][c], c)'
  <2>1. CASE attempt'[w][c] = Start
    BY <2>1 DEF AttemptKept, Start
  <2> QED
    BY <1>1, <2>1
<1> QED
  BY <1>3, <1>4

LEMMA ConsumeKeeps ==
  ASSUME Inv, Consume
  PROVE  Inv' /\ Later
<1>1. Around /\ Left /\ UNCHANGED archive
  BY ConsumeStep DEF Inv, TypeOK, Consume
<1>2. Later
  BY <1>1 DEF Later, archive
<1>3. TypeOK'
  BY <1>1, LeftFacts DEF Inv, TypeOK, Around, archive
<1>4. /\ HandlersHaveRequests'
      /\ \A w \in Workers, c \in Copies :
           attempt'[w][c] = attempt[w][c] \/ AttemptKept(attempt[w][c], c)'
  BY <1>1, <1>2, LeftKeeps DEF Around
<1>5. CompletedIsDone' /\ UNCHANGED <<effects, request, reference, worm>>
  BY <1>1 DEF Around, archive
<1> QED
  BY <1>2, <1>3, <1>4, <1>5, Assemble

LEMMA EnqueueKeeps ==
  ASSUME Inv, NEW m \in Messages, NEW d \in Documents, NEW e \in BOOLEAN, Enqueue(m, d, e)
  PROVE  Inv' /\ Later
<1> DEFINE r == [document |-> d, evidentiary |-> e, status |-> "QUEUED",
                 paperless |-> None, object |-> None]
<1>1. /\ r \in Request /\ r # None /\ r.status = "QUEUED"
  BY NoneAssumption DEF Request
<1>2. /\ request[m] = None /\ request' = [request EXCEPT ![m] = r]
      /\ UNCHANGED <<consumer, reference, stored, worm, attempt>>
  BY DEF Enqueue
<1> HIDE DEF r
<1>3. /\ request' \in [Messages -> Request \cup {None}] /\ request'[m] = r
      /\ \A l \in Messages \ {m} : request'[l] = request[l]
  BY <1>1, <1>2 DEF Inv, TypeOK
<1>4. TypeOK'
  BY <1>2, <1>3 DEF Inv, TypeOK, Inbox!TypeOK, consumer
<1>5. Later
  BY <1>2, <1>3 DEF Later
<1>6. HandlersHaveRequests' /\ CompletedIsDone'
  BY <1>1, <1>2, <1>3, ArchiveAssumption DEF Inv, HandlersHaveRequests, CompletedIsDone, consumer
<1>7. RequestKept(m)'
  BY <1>1, <1>3 DEF RequestKept, Archived
<1>8. \A l \in Messages : request'[l] = request[l] \/ RequestKept(l)'
  BY <1>3, <1>7
<1>9. UNCHANGED <<effects, reference, worm, attempt>>
  BY <1>2 DEF consumer
<1> QED
  BY <1>4, <1>5, <1>6, <1>8, <1>9, Assemble

-----------------------------------------------------------------------------
(* The effect ends, by success or failure.                                 *)
EffectEnds(w, c) == Inbox!EffectSucceeds(w, c) \/ Inbox!EffectFails(w, c)

LEMMA EffectFacts ==
  ASSUME Inbox!TypeOK, CompletedIsDone, NEW w \in Workers, NEW c \in Copies, EffectEnds(w, c)
  PROVE  /\ Inbox!TypeOK' /\ CompletedIsDone' /\ Inbox!Next
         /\ pc[w][c] = "effect"
         /\ \A v \in Workers, d \in Copies : pc'[v][d] # "none" => pc[v][d] # "none"
         /\ \A m \in Messages : effects'[m] = effects[m] \/ m = MessageOf[c]
<1>1. MessageOf[c] \in Messages
  BY ArchiveAssumption
<1>2. PICK stage \in {"complete", "abandon"} :
        /\ Inbox!Goto(w, c, stage) /\ pc[w][c] = "effect"
        /\ stage = "complete" => Inbox!Commits(MessageOf[c])
  BY DEF EffectEnds, Inbox!EffectSucceeds, Inbox!EffectFails
<1>3. stage \in Inbox!Stages
  BY DEF Inbox!Stages, Inbox!AtWork
<1>4. /\ pc' \in [Workers -> [Copies -> Inbox!Stages]]
      /\ pc'[w][c] = stage
      /\ \A v \in Workers, d \in Copies : v # w \/ d # c => pc'[v][d] = pc[v][d]
  BY <1>2, <1>3, GotoFacts
<1>5. Inbox!Commits(MessageOf[c]) \/ UNCHANGED effects
  BY DEF EffectEnds, Inbox!EffectSucceeds, Inbox!EffectFails
<1>6. /\ effects' \in [Messages -> 0..2]
      /\ \A m \in Messages : effects'[m] = effects[m] \/ m = MessageOf[c]
      /\ \A m \in Messages : effects[m] > 0 => effects'[m] > 0
      /\ Inbox!Commits(MessageOf[c]) => effects'[MessageOf[c]] > 0
  BY <1>1, <1>5 DEF Inbox!Commits, Inbox!TypeOK
<1>7. UNCHANGED <<copy, alive, inbox, interrupted>> /\ faults' \in 0..MaxFaults
  BY FaultFacts DEF EffectEnds, Inbox!EffectSucceeds, Inbox!EffectFails, Inbox!TypeOK
<1>8. Inbox!TypeOK'
  BY <1>4, <1>6, <1>7 DEF Inbox!TypeOK
<1>9. CompletedIsDone'
  BY <1>2, <1>4, <1>6, <1>7, ArchiveAssumption DEF CompletedIsDone
<1>10. Inbox!Next
  BY DEF EffectEnds, Inbox!Next, Inbox!Handle, Inbox!Failure
<1> QED
  BY <1>2, <1>4, <1>6, <1>8, <1>9, <1>10

LEMMA EffectRequest ==
  ASSUME Inv, NEW w \in Workers, NEW c \in Copies, pc[w][c] = "effect"
  PROVE  /\ MessageOf[c] \in Messages /\ request[MessageOf[c]] # None
         /\ request[MessageOf[c]] \in Request
         /\ Document(c) \in Documents /\ Document(c) = request[MessageOf[c]].document
         /\ attempt[w][c] \in Attempt /\ AttemptKept(attempt[w][c], c)
<1>1. MessageOf[c] \in Messages /\ request[MessageOf[c]] # None
  BY ArchiveAssumption DEF Inv, HandlersHaveRequests
<1>2. TypeOK
  BY DEF Inv
<1> QED
  BY <1>1, <1>2, RequestTypes DEF Inv, TypeOK, Document

-----------------------------------------------------------------------------
(* What happens in Paperless and in WORM.                                  *)
LEMMA UploadedFacts ==
  ASSUME TypeOK, NEW c \in Copies, NEW id \in Ids, Uploaded(id, c),
         MessageOf[c] \in Messages, Document(c) \in Documents
  PROVE  /\ stored' \in [Ids -> [key : Messages, content : Documents \cup {Corrupt}] \cup {None}]
         /\ \A i \in Ids : stored[i] # None => stored'[i] = stored[i]
         /\ stored'[id] \in [key : Messages, content : Documents \cup {Corrupt}]
         /\ stored'[id].key = MessageOf[c]
<1>1. CASE Keeps(id, MessageOf[c])
  BY <1>1 DEF Keeps, TypeOK
<1>2. ASSUME NEW content \in {Document(c), Corrupt}, Creates(id, MessageOf[c], content)
      PROVE  /\ stored' \in [Ids -> [key : Messages, content : Documents \cup {Corrupt}] \cup {None}]
             /\ \A i \in Ids : stored[i] # None => stored'[i] = stored[i]
             /\ stored'[id] \in [key : Messages, content : Documents \cup {Corrupt}]
             /\ stored'[id].key = MessageOf[c]
  BY <1>2 DEF Creates, TypeOK
<1> QED
  BY <1>1, <1>2 DEF Uploaded

(* Steps within the effect leave the message loop alone.                   *)
LEMMA Within ==
  ASSUME Inv, Later, NEW w \in Workers, NEW c \in Copies, pc[w][c] = "effect",
         NEW x \in Attempt, Proceed(w, c, x), UNCHANGED <<consumer, request>>,
         AttemptKept(x, c)',
         reference' \in [Documents -> Reference \cup {None}],
         stored' \in [Ids -> [key : Messages, content : Documents \cup {Corrupt}] \cup {None}],
         worm' \subseteq Object, \A o \in worm' : o \in worm \/ ObjectKept(o)',
         UNCHANGED reference
  PROVE  Inv'
<1>1. /\ attempt' \in [Workers -> [Copies -> Attempt]]
      /\ attempt'[w][c] = x
      /\ \A v \in Workers, d \in Copies : v # w \/ d # c => attempt'[v][d] = attempt[v][d]
  BY DEF Inv, TypeOK, Proceed
<1>2. TypeOK'
  BY <1>1 DEF Inv, TypeOK, Inbox!TypeOK, consumer
<1>3. HandlersHaveRequests' /\ CompletedIsDone'
  BY <1>1 DEF Inv, HandlersHaveRequests, CompletedIsDone, consumer
<1>4. \A v \in Workers, d \in Copies :
        attempt'[v][d] = attempt[v][d] \/ AttemptKept(attempt[v][d], d)'
  <2>1. AttemptKept(attempt[w][c], c)'
    BY <1>1 DEF AttemptKept
  <2> QED
    BY <1>1, <2>1
<1>5. UNCHANGED effects
  BY DEF consumer
<1> QED
  BY <1>2, <1>3, <1>4, <1>5, Assemble

LEMMA UploadKeeps ==
  ASSUME Inv, NEW w \in Workers, NEW c \in Copies, Upload(w, c)
  PROVE  Inv' /\ Later
<1>1. pc[w][c] = "effect"
  BY DEF Upload, At
<1>2. /\ MessageOf[c] \in Messages /\ request[MessageOf[c]] \in Request
      /\ Document(c) \in Documents /\ TypeOK
  BY <1>1, EffectRequest DEF Inv
<1>3. PICK id \in Ids :
        Uploaded(id, c) /\ stored'[id].content = Document(c) /\ AfterUpload(w, c, id)
  BY DEF Upload
<1>4. UNCHANGED <<consumer, request, reference, worm>>
  BY <1>3 DEF AfterUpload
<1>5. /\ stored' \in [Ids -> [key : Messages, content : Documents \cup {Corrupt}] \cup {None}]
      /\ \A i \in Ids : stored[i] # None => stored'[i] = stored[i]
      /\ stored'[id] \in [key : Messages, content : Documents \cup {Corrupt}]
      /\ stored'[id].key = MessageOf[c]
  BY <1>2, <1>3, UploadedFacts
<1>6. Later
  BY <1>4, <1>5 DEF Later
<1> DEFINE y == [Start EXCEPT
       !.step = IF request[MessageOf[c]].evidentiary THEN "preserve" ELSE "save",
       !.paperless = id]
<1>7. PICK x : x = y
  OBVIOUS
<1>8. /\ x \in Attempt /\ x.paperless = id /\ x.object = None /\ x.seen = FALSE
      /\ x.step \in {"preserve", "save"}
      /\ x.step = "save" => ~request[MessageOf[c]].evidentiary
  BY <1>2, <1>7 DEF Start, Attempt, Request
<1>9. Proceed(w, c, x)
  BY <1>3, <1>7 DEF AfterUpload
<1> HIDE DEF y
<1>10. stored'[id] = [key |-> MessageOf[c], content |-> Document(c)]
  BY <1>3, <1>5
<1>11. AttemptKept(x, c)'
  BY <1>4, <1>8, <1>10 DEF AttemptKept, Document
<1>12. /\ reference' \in [Documents -> Reference \cup {None}]
       /\ worm' \subseteq Object /\ UNCHANGED <<reference, worm>>
  BY <1>2, <1>4 DEF TypeOK
<1> QED
  BY <1>1, <1>4, <1>5, <1>6, <1>8, <1>9, <1>11, <1>12, Within

LEMMA NewObjectFacts ==
  ASSUME Inv, NEW w \in Workers, NEW c \in Copies, At(w, c, "preserve")
  PROVE  /\ NewObject(w, c) \in Object /\ NewObject(w, c).key = MessageOf[c]
         /\ ObjectKept(NewObject(w, c))
<1>1. /\ pc[w][c] = "effect" /\ attempt[w][c].step = "preserve"
  BY DEF At
<1>2. /\ MessageOf[c] \in Messages /\ Document(c) \in Documents
      /\ AttemptKept(attempt[w][c], c)
  BY <1>1, EffectRequest
<1>3. /\ attempt[w][c].paperless \in Ids
      /\ stored[attempt[w][c].paperless] = [key |-> MessageOf[c], content |-> Document(c)]
  BY <1>1, <1>2 DEF AttemptKept
<1> QED
  BY <1>2, <1>3, StoredIsNotNone DEF NewObject, Object, ObjectKept

LEMMA PreserveKeeps ==
  ASSUME Inv, NEW w \in Workers, NEW c \in Copies, Preserve(w, c)
  PROVE  Inv' /\ Later
<1>1. pc[w][c] = "effect" /\ attempt[w][c].step = "preserve" /\ At(w, c, "preserve")
  BY DEF Preserve, At
<1>2. /\ MessageOf[c] \in Messages /\ Document(c) \in Documents /\ TypeOK
      /\ attempt[w][c] \in Attempt /\ AttemptKept(attempt[w][c], c)
  BY <1>1, EffectRequest DEF Inv
<1>3. PICK o \in {NewObject(w, c)} \cup {p \in worm : p.key = MessageOf[c]} :
        /\ worm' = worm \cup {o}
        /\ Proceed(w, c, [attempt[w][c] EXCEPT !.step = "save", !.object = o])
  BY DEF Preserve
<1>4. UNCHANGED <<consumer, request, reference, stored>>
  BY DEF Preserve
<1>5. o \in Object /\ o.key = MessageOf[c] /\ (o \in worm \/ ObjectKept(o)) /\ o # None
  BY <1>1, <1>2, NewObjectFacts, NoneAssumption DEF TypeOK
<1>6. ObjectKept(o) => ObjectKept(o)'
  BY <1>4 DEF ObjectKept
<1>7. Later
  BY <1>3, <1>4 DEF Later
<1> DEFINE y == [attempt[w][c] EXCEPT !.step = "save", !.object = o]
<1>8. PICK x : x = y
  OBVIOUS
<1>9. /\ x \in Attempt /\ x.paperless = attempt[w][c].paperless
      /\ x.object = o /\ x.step = "save"
  BY <1>2, <1>5, <1>8 DEF Attempt
<1>10. Proceed(w, c, x)
  BY <1>3, <1>8
<1> HIDE DEF y
<1>11. AttemptKept(x, c)'
  BY <1>1, <1>2, <1>3, <1>4, <1>5, <1>9 DEF AttemptKept, Document
<1>12. /\ reference' \in [Documents -> Reference \cup {None}]
       /\ stored' \in [Ids -> [key : Messages, content : Documents \cup {Corrupt}] \cup {None}]
       /\ worm' \subseteq Object
  BY <1>2, <1>3, <1>4, <1>5 DEF TypeOK
<1> QED
  BY <1>1, <1>3, <1>4, <1>5, <1>6, <1>7, <1>9, <1>10, <1>11, <1>12, Within

LEMMA SnapshotKeeps ==
  ASSUME Inv, NEW w \in Workers, NEW c \in Copies, Snapshot(w, c)
  PROVE  Inv' /\ Later
<1> DEFINE y == [attempt[w][c] EXCEPT
       !.step = "commit", !.seen = reference[Document(c)] # None]
<1>1. pc[w][c] = "effect" /\ attempt[w][c].step = "save"
  BY DEF Snapshot, At
<1>2. /\ MessageOf[c] \in Messages /\ Document(c) \in Documents /\ TypeOK
      /\ attempt[w][c] \in Attempt /\ AttemptKept(attempt[w][c], c)
  BY <1>1, EffectRequest DEF Inv
<1>3. Proceed(w, c, y) /\ UNCHANGED <<consumer, request, reference, stored, worm>>
  BY DEF Snapshot, archive
<1>4. Later
  BY <1>3 DEF Later
<1>5. PICK x : x = y
  OBVIOUS
<1>6. /\ x \in Attempt /\ x.paperless = attempt[w][c].paperless
      /\ x.object = attempt[w][c].object
      /\ x.step = "commit" /\ (x.seen => reference[Document(c)] # None)
  BY <1>2, <1>5 DEF Attempt
<1>7. Proceed(w, c, x)
  BY <1>3, <1>5
<1> HIDE DEF y
<1>8. AttemptKept(x, c)'
  BY <1>1, <1>2, <1>3, <1>6 DEF AttemptKept, Document
<1>9. /\ reference' \in [Documents -> Reference \cup {None}]
      /\ stored' \in [Ids -> [key : Messages, content : Documents \cup {Corrupt}] \cup {None}]
      /\ worm' \subseteq Object
  BY <1>2, <1>3 DEF TypeOK
<1> QED
  BY <1>1, <1>3, <1>4, <1>6, <1>7, <1>8, <1>9, Within

(* Handlers that leave the effect by a failure outside save.               *)
LEMMA ThrowKeeps ==
  ASSUME Inv, NEW w \in Workers, NEW c \in Copies, Throw(w, c),
         UNCHANGED <<request, reference>>,
         stored' \in [Ids -> [key : Messages, content : Documents \cup {Corrupt}] \cup {None}],
         \A i \in Ids : stored[i] # None => stored'[i] = stored[i],
         worm' \subseteq Object, worm \subseteq worm', \A o \in worm' : o \in worm \/ ObjectKept(o)'
  PROVE  Inv' /\ Later
<1>1. EffectEnds(w, c) /\ UNCHANGED effects /\ Left
  BY DEF Throw, EffectEnds
<1>2. TypeOK /\ Inbox!TypeOK /\ CompletedIsDone
  BY DEF Inv, TypeOK
<1>3. /\ Inbox!TypeOK' /\ CompletedIsDone'
      /\ \A v \in Workers, d \in Copies : pc'[v][d] # "none" => pc[v][d] # "none"
  BY <1>1, <1>2, EffectFacts
<1>4. Later
  BY DEF Later
<1>5. /\ HandlersHaveRequests'
      /\ \A v \in Workers, d \in Copies :
           attempt'[v][d] = attempt[v][d] \/ AttemptKept(attempt[v][d], d)'
  BY <1>1, <1>3, <1>4, LeftKeeps
<1>6. attempt' \in [Workers -> [Copies -> Attempt]]
  BY <1>1, <1>2, LeftFacts
<1>7. TypeOK'
  BY <1>2, <1>3, <1>6 DEF TypeOK
<1> QED
  BY <1>1, <1>3, <1>4, <1>5, <1>7, Assemble

LEMMA UploadFailsKeeps ==
  ASSUME Inv, NEW w \in Workers, NEW c \in Copies, UploadFails(w, c)
  PROVE  Inv' /\ Later
<1>1. Throw(w, c) /\ UNCHANGED <<request, reference, worm>> /\ pc[w][c] = "effect"
  BY DEF UploadFails, At
<1>2. MessageOf[c] \in Messages /\ Document(c) \in Documents /\ TypeOK
  BY <1>1, EffectRequest DEF Inv
<1>3. /\ stored' \in [Ids -> [key : Messages, content : Documents \cup {Corrupt}] \cup {None}]
      /\ \A i \in Ids : stored[i] # None => stored'[i] = stored[i]
  <2>1. CASE UNCHANGED stored
    BY <1>2, <2>1 DEF TypeOK
  <2>2. ASSUME NEW id \in Ids, Uploaded(id, c)
        PROVE  /\ stored' \in [Ids -> [key : Messages, content : Documents \cup {Corrupt}] \cup {None}]
               /\ \A i \in Ids : stored[i] # None => stored'[i] = stored[i]
    BY <1>2, <2>2, UploadedFacts
  <2> QED
    BY <2>1, <2>2 DEF UploadFails
<1>4. worm' \subseteq Object /\ worm \subseteq worm' /\ \A o \in worm' : o \in worm
  BY <1>1, <1>2 DEF TypeOK
<1> QED
  BY <1>1, <1>3, <1>4, ThrowKeeps

LEMMA PreserveFailsKeeps ==
  ASSUME Inv, NEW w \in Workers, NEW c \in Copies, PreserveFails(w, c)
  PROVE  Inv' /\ Later
<1>1. /\ Throw(w, c) /\ UNCHANGED <<request, reference, stored>> /\ At(w, c, "preserve")
      /\ worm' \in {worm, worm \cup {NewObject(w, c)}}
  BY DEF PreserveFails
<1>2. /\ stored' \in [Ids -> [key : Messages, content : Documents \cup {Corrupt}] \cup {None}]
      /\ \A i \in Ids : stored[i] # None => stored'[i] = stored[i]
      /\ worm \subseteq Object
  BY <1>1 DEF Inv, TypeOK
<1>3. PICK o : o = NewObject(w, c)
  OBVIOUS
<1>4. o \in Object /\ ObjectKept(o)
  BY <1>1, <1>3, NewObjectFacts
<1>5. ObjectKept(o)'
  BY <1>1, <1>4 DEF ObjectKept
<1>6. /\ worm' \subseteq Object /\ worm \subseteq worm'
      /\ \A p \in worm' : p \in worm \/ p = o
  BY <1>1, <1>2, <1>3, <1>4
<1>7. \A p \in worm' : p \in worm \/ ObjectKept(p)'
  BY <1>5, <1>6 DEF ObjectKept
<1> QED
  BY <1>1, <1>2, <1>6, <1>7, ThrowKeeps

-----------------------------------------------------------------------------
(* save: the reference found or inserted, the request archived or not.     *)
LEMMA SaveFacts ==
  ASSUME Inv, NEW w \in Workers, NEW c \in Copies, At(w, c, "commit"), Save(w, c),
         UNCHANGED <<stored, worm>>,
         NEW m \in Messages, m = MessageOf[c], NEW d \in Documents, d = Document(c)
  PROVE  /\ request' \in [Messages -> Request \cup {None}]
         /\ reference' \in [Documents -> Reference \cup {None}]
         /\ \A l \in Messages : request'[l] = request[l] \/ l = m
         /\ \A b \in Documents : reference'[b] = reference[b] \/ b = d
         /\ Later /\ request'[m] # None
         /\ reference[d] # None \/ ReferenceKept(d)'
         /\ request'[m] = request[m] \/ RequestKept(m)'
         /\ (Archived(m) \/ HasRival(m))'
<1> DEFINE r == [by |-> m, paperless |-> attempt[w][c].paperless,
                 object |-> attempt[w][c].object, manifest |-> Manifest(w, c)]
           q == [request[m] EXCEPT !.status = "ARCHIVED",
                   !.paperless = attempt[w][c].paperless, !.object = attempt[w][c].object]
<1>1. /\ TypeOK /\ request[m] \in Request /\ request[m] # None /\ request[m].document = d
      /\ attempt[w][c] \in Attempt /\ AttemptKept(attempt[w][c], c)
      /\ attempt[w][c].step = "commit"
  BY EffectRequest DEF Inv, At
<1>2. /\ attempt[w][c].paperless \in Ids
      /\ stored[attempt[w][c].paperless] = [key |-> m, content |-> d]
      /\ attempt[w][c].object \in Object \cup {None}
      /\ attempt[w][c].object # None => attempt[w][c].object \in worm /\ attempt[w][c].object.key = m
      /\ request[m].evidentiary => attempt[w][c].object # None
      /\ attempt[w][c].seen => reference[d] # None
  BY <1>1 DEF AttemptKept, Attempt
<1>3. PICK x : x = r
  OBVIOUS
<1>4. /\ x \in Reference /\ x # None /\ x.by = m
      /\ x.object # None =>
           /\ x.object \in worm /\ x.object.key = m
           /\ x.manifest \in Ids /\ stored[x.manifest] = [key |-> m, content |-> d]
  BY <1>2, <1>3, NoneAssumption DEF Reference, Manifest
<1>5. PICK y : y = q
  OBVIOUS
<1>6. /\ y \in Request /\ y # None /\ y.status = "ARCHIVED"
      /\ y.document = d /\ y.evidentiary = request[m].evidentiary
      /\ y.paperless = attempt[w][c].paperless /\ y.object = attempt[w][c].object
  BY <1>1, <1>2, <1>5, NoneAssumption DEF Request
<1>7. reference' = [reference EXCEPT ![d] = IF @ # None THEN @ ELSE x]
  BY <1>3 DEF Save, InsertReference
<1>8. IF (reference[d] = None \/ attempt[w][c].seen) /\ request[m].status = "QUEUED"
      THEN request' = [request EXCEPT ![m] = y] ELSE UNCHANGED request
  BY <1>5 DEF Save, Archive
<1> HIDE DEF r, q
<1>9. /\ reference' \in [Documents -> Reference \cup {None}]
      /\ \A b \in Documents : reference'[b] = reference[b] \/ b = d
      /\ reference'[d] = IF reference[d] # None THEN reference[d] ELSE x
  BY <1>1, <1>4, <1>7 DEF TypeOK
<1>10. /\ request' \in [Messages -> Request \cup {None}]
       /\ \A l \in Messages : request'[l] = request[l] \/ l = m
       /\ request'[m] = IF (reference[d] = None \/ attempt[w][c].seen)
                            /\ request[m].status = "QUEUED"
                         THEN y ELSE request[m]
  BY <1>1, <1>6, <1>8 DEF TypeOK
<1>11. request[m].status \in {"QUEUED", "ARCHIVED"}
  BY <1>1 DEF Request
<1>12. Later
  BY <1>1, <1>6, <1>9, <1>10, <1>11 DEF Later, Archived
<1>13. reference'[d] # None /\ request'[m] # None /\ request'[m].document = d
  BY <1>1, <1>4, <1>6, <1>9, <1>10
<1>14. request'[m] = y => RequestKept(m)'
  BY <1>2, <1>4, <1>6, <1>13 DEF RequestKept
<1>15. reference[d] = None => request[m].status = "QUEUED"
  BY <1>1, <1>11 DEF Inv, RequestKept, Archived
<1>16. ASSUME reference[d] = None
       PROVE  ReferenceKept(d)'
  <2>1. reference'[d] = x /\ request'[m] = y
    BY <1>9, <1>10, <1>15, <1>16
  <2>2. stored'[x.manifest] = stored[x.manifest]
    OBVIOUS
  <2> QED
    BY <1>4, <1>6, <2>1, <2>2, StoredIsNotNone DEF ReferenceKept, Archived
<1>17. (Archived(m) \/ HasRival(m))'
  <2>1. CASE request'[m] = y
    BY <1>6, <2>1 DEF Archived
  <2>2. CASE request[m].status = "ARCHIVED"
    BY <1>1, <1>10, <2>2 DEF Archived
  <2>3. CASE reference[d] # None /\ request[m].status = "QUEUED" /\ request'[m] = request[m]
    <3>1. reference[d].by # m
      BY <1>1, <2>3 DEF Inv, ReferenceKept, Archived
    <3> QED
      BY <1>1, <1>9, <2>3, <3>1 DEF HasRival
  <2> QED
    BY <1>10, <1>11, <1>15, <2>1, <2>2, <2>3
<1>18. request'[m] = request[m] \/ RequestKept(m)'
  BY <1>10, <1>14
<1> QED
  BY <1>9, <1>10, <1>12, <1>13, <1>16, <1>17, <1>18

(* A handler that leaves the effect from save, its statement committed.    *)
LEMMA SaveKeeps ==
  ASSUME Inv, NEW w \in Workers, NEW c \in Copies, At(w, c, "commit"), Save(w, c),
         EffectEnds(w, c), Left, UNCHANGED <<stored, worm>>
  PROVE  Inv' /\ Later
<1>1. PICK m \in Messages, d \in Documents : m = MessageOf[c] /\ d = Document(c)
  BY EffectRequest DEF At
<1>2. /\ request' \in [Messages -> Request \cup {None}]
      /\ reference' \in [Documents -> Reference \cup {None}]
      /\ \A l \in Messages : request'[l] = request[l] \/ l = m
      /\ \A b \in Documents : reference'[b] = reference[b] \/ b = d
      /\ Later /\ request'[m] # None
      /\ reference[d] # None \/ ReferenceKept(d)'
      /\ request'[m] = request[m] \/ RequestKept(m)'
      /\ (Archived(m) \/ HasRival(m))'
  BY <1>1, SaveFacts
<1>3. TypeOK /\ Inbox!TypeOK /\ CompletedIsDone
  BY DEF Inv, TypeOK
<1>4. /\ Inbox!TypeOK' /\ CompletedIsDone'
      /\ \A v \in Workers, b \in Copies : pc'[v][b] # "none" => pc[v][b] # "none"
      /\ \A l \in Messages : effects'[l] = effects[l] \/ l = m
  BY <1>1, <1>3, EffectFacts
<1>5. /\ HandlersHaveRequests'
      /\ \A v \in Workers, b \in Copies :
           attempt'[v][b] = attempt[v][b] \/ AttemptKept(attempt[v][b], b)'
  BY <1>2, <1>4, LeftKeeps
<1>6. attempt' \in [Workers -> [Copies -> Attempt]]
  BY <1>3, LeftFacts
<1>7. TypeOK'
  BY <1>2, <1>3, <1>4, <1>6 DEF TypeOK
<1>8. \A l \in Messages : request'[l] = request[l] \/ RequestKept(l)'
  <2> TAKE l \in Messages
  <2>1. CASE l = m
    BY <1>2, <2>1 DEF RequestKept, Archived
  <2> QED
    BY <1>2, <2>1
<1>9. \A l \in Messages : effects'[l] = effects[l] \/ EffectKept(l)'
  <2> TAKE l \in Messages
  <2>1. CASE l = m
    BY <1>2, <2>1 DEF EffectKept, Archived, HasRival
  <2> QED
    BY <1>4, <2>1
<1>10. \A b \in Documents : reference'[b] = reference[b] \/ ReferenceKept(b)'
  <2> TAKE b \in Documents
  <2>1. CASE b = d
    BY <1>2, <2>1 DEF ReferenceKept, Later
  <2> QED
    BY <1>2, <2>1
<1> QED
  BY <1>2, <1>4, <1>5, <1>7, <1>8, <1>9, <1>10, Assemble

LEMMA FinishKeeps ==
  ASSUME Inv, NEW w \in Workers, NEW c \in Copies, Finish(w, c)
  PROVE  Inv' /\ Later
<1>1. /\ At(w, c, "commit") /\ Save(w, c) /\ EffectEnds(w, c) /\ Left
      /\ UNCHANGED <<stored, worm>>
  BY DEF Finish, EffectEnds
<1> QED
  BY <1>1, SaveKeeps

LEMMA SaveFailsKeeps ==
  ASSUME Inv, NEW w \in Workers, NEW c \in Copies, SaveFails(w, c)
  PROVE  Inv' /\ Later
<1>1. /\ Inbox!EffectFails(w, c) /\ EffectEnds(w, c) /\ Left
      /\ UNCHANGED <<stored, worm>>
  BY DEF SaveFails, EffectEnds
<1>2. CASE At(w, c, "commit") /\ Save(w, c)
  BY <1>1, <1>2, SaveKeeps
<1>3. CASE UNCHANGED <<request, reference, effects>>
  <2>1. Throw(w, c)
    BY <1>1, <1>3 DEF Throw
  <2>2. /\ stored' \in [Ids -> [key : Messages, content : Documents \cup {Corrupt}] \cup {None}]
        /\ \A i \in Ids : stored[i] # None => stored'[i] = stored[i]
        /\ worm' \subseteq Object /\ worm \subseteq worm' /\ \A o \in worm' : o \in worm
    BY <1>1 DEF Inv, TypeOK
  <2> QED
    BY <1>3, <2>1, <2>2, ThrowKeeps
<1> QED
  BY <1>2, <1>3 DEF SaveFails

-----------------------------------------------------------------------------
LEMMA NextKeeps ==
  ASSUME Inv, [Next]_vars
  PROVE  Inv' /\ Later
<1>1. CASE Consume
  BY <1>1, ConsumeKeeps
<1>2. ASSUME NEW m \in Messages, NEW d \in Documents, NEW e \in BOOLEAN, Enqueue(m, d, e)
      PROVE  Inv' /\ Later
  BY <1>2, EnqueueKeeps
<1>3. ASSUME NEW w \in Workers, NEW c \in Copies, Execute(w, c)
      PROVE  Inv' /\ Later
  BY <1>3, UploadKeeps, UploadFailsKeeps, PreserveKeeps, PreserveFailsKeeps, SnapshotKeeps,
     FinishKeeps, SaveFailsKeeps DEF Execute
<1>4. CASE UNCHANGED vars
  <2>1. UNCHANGED <<consumer, request, reference, stored, worm, attempt>>
    BY <1>4 DEF vars, archive
  <2>2. Later
    BY <2>1 DEF Later
  <2>3. TypeOK'
    BY <2>1 DEF Inv, TypeOK, Inbox!TypeOK, consumer
  <2>4. HandlersHaveRequests' /\ CompletedIsDone' /\ UNCHANGED effects
    BY <2>1 DEF Inv, HandlersHaveRequests, CompletedIsDone, consumer
  <2> QED
    BY <2>1, <2>2, <2>3, <2>4, Assemble
<1> QED
  BY <1>1, <1>2, <1>3, <1>4 DEF Next

(* Steps that the message loop does not see.                               *)
LEMMA NextImplements ==
  ASSUME Inv, [Next]_vars
  PROVE  [Inbox!Next]_(Inbox!vars)
<1>1. Inbox!TypeOK /\ CompletedIsDone
  BY DEF Inv, TypeOK
<1>2. CASE Consume
  BY <1>2, ConsumeNext
<1>3. ASSUME NEW w \in Workers, NEW c \in Copies, Execute(w, c)
      PROVE  Inbox!Next \/ UNCHANGED consumer
  <2>1. CASE Upload(w, c) \/ Preserve(w, c) \/ Snapshot(w, c)
    BY <2>1 DEF Upload, AfterUpload, Preserve, Snapshot
  <2>2. CASE UploadFails(w, c) \/ PreserveFails(w, c) \/ Finish(w, c) \/ SaveFails(w, c)
    <3>1. EffectEnds(w, c)
      BY <2>2 DEF UploadFails, PreserveFails, Finish, SaveFails, Throw, EffectEnds
    <3> QED
      BY <1>1, <3>1, EffectFacts
  <2> QED
    BY <1>3, <2>1, <2>2 DEF Execute
<1>4. CASE \E m \in Messages, d \in Documents, e \in BOOLEAN : Enqueue(m, d, e)
  BY <1>4 DEF Enqueue, consumer, Inbox!vars
<1>5. CASE UNCHANGED vars
  BY <1>5 DEF vars, consumer, Inbox!vars
<1> QED
  BY <1>2, <1>3, <1>4, <1>5 DEF Next, consumer, Inbox!vars

-----------------------------------------------------------------------------
LEMMA Invariance == Spec => []Inv
<1>1. Inv /\ [Next]_vars => Inv'
  BY NextKeeps
<1> QED
  BY InitInv, <1>1, PTL DEF Spec

(* Whatever attempts, retries and overlapping handlers write the row, an   *)
(* archived request names an unaltered document of Paperless and, for      *)
(* evidence, its object of WORM; a message processed without it has a      *)
(* rival, and a reference keeps the manifest of its object (save).         *)
THEOREM StoresAgree == Spec => []StoreIsConsistent
<1>1. Inv => StoreIsConsistent
  BY InvFacts
<1> QED
  BY Invariance, <1>1, PTL

(* No attempt still under way rewrites an archived request or a reference: *)
(* save inserts on conflict do nothing and updates queued requests only.   *)
THEOREM ArchiveIsFinal == Spec => ArchivedIsFinal
<1> DEFINE Kept == /\ \A m \in Messages : Archived(m) => request'[m] = request[m]
                   /\ \A d \in Documents : reference[d] # None => reference'[d] = reference[d]
<1>1. Inv /\ [Next]_vars => Kept
  BY NextKeeps DEF Later, Archived
<1>2. Inv /\ [Next]_vars => [Kept]_archive
  BY <1>1
<1> QED
  BY Invariance, <1>2, PTL DEF Spec, ArchivedIsFinal

(* The document worker behaves as the work queue consumer with an opaque   *)
(* effect: scanning, uploading, preserving and saving stay within it.      *)
THEOREM WorkerImplementsInbox == Spec => ImplementsInbox
<1>1. Init => Inbox!Init
  BY DEF Init
<1>2. Inv /\ [Next]_vars => [Inbox!Next]_(Inbox!vars)
  BY NextImplements
<1> QED
  BY Invariance, <1>1, <1>2, PTL DEF Spec, ImplementsInbox, Inbox!Spec
================================================================================
