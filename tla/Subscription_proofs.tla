------------------------- MODULE Subscription_proofs -------------------------
(***************************************************************************)
(* The row of an account, its history and its operational account agree,   *)
(* for any accounts, sessions, keys and requests: the proof.  What a       *)
(* session read under the row's lock is still in the row when it commits.  *)
(***************************************************************************)
EXTENDS Subscription, FiniteSetTheorems, WellFoundedInduction, TLAPS

Holds(s)     == session[s].stage \in {"locked", "checked", "written"}
AccountOf(s) == session[s].request.account
TypeOf(s)    == session[s].request.type

(* TypeOK, with histories that are sequences and sessions that know what   *)
(* they are asked.                                                         *)
Typed ==
  /\ TypeOK
  /\ history \in [Accounts -> Seq(Event)]
  /\ \A s \in Sessions : session[s].stage # "idle" =>
       session[s].request \in Requests /\ session[s].key \in Keys

(* The row lock is exclusive, and the row is what was read under it.       *)
OneHolder ==
  \A s, v \in Sessions : Holds(s) /\ Holds(v) /\ AccountOf(s) = AccountOf(v) => s = v

ReadIsCurrent ==
  \A s \in Sessions : Holds(s) =>
    /\ TypeOf(s) # "CREATE"
    /\ session[s].row = account[AccountOf(s)] /\ session[s].row # NoRow

(* What is written was permitted by the row.                               *)
WrittenIsPermitted ==
  \A s \in Sessions : session[s].stage = "written" =>
    /\ session[s].row.status \in From[TypeOf(s)]
    /\ TypeOf(s) = "ACTIVATE" => session[s].row.accepted

(* Terms are accepted by an event.                                         *)
AcceptedByEvent ==
  \A a \in Accounts : account[a].accepted =>
    \E i \in 1..Len(history[a]) : history[a][i].type = "ACCEPT"

(* No row has the status of an account that does not exist.                *)
RowsExist == \A a \in Accounts : account[a].status = "none" => account[a] = NoRow

(* A key has left nothing, or one event of its command and one intent.     *)
IsEffect(k, a, i) ==
  /\ Effects(k) = {<<a, i>>} /\ i \in 1..Len(history[a])
  /\ a = command[k].account /\ history[a][i].type = command[k].type

KeysHaveEffects ==
  \A k \in Keys :
    IF command[k] = NoRequest THEN Effects(k) = {} /\ intents[k] = 0
    ELSE intents[k] = 1 /\ \E a \in Accounts : \E i \in Nat : IsEffect(k, a, i)

Locks == OneHolder /\ ReadIsCurrent /\ WrittenIsPermitted
Books == KeysHaveEffects /\ AcceptedByEvent /\ RowsExist /\ HistoryIsLegal /\ ActiveIsOperational
Inv   == Typed /\ Locks /\ Books

-----------------------------------------------------------------------------
(* The commands.                                                           *)
Early == {"none", "PRE_SIMULATION", "PENDING_SUBSCRIPTION"}

LEMMA CommandFacts ==
  /\ To["CREATE"] = "PRE_SIMULATION"
  /\ \A t \in DOMAIN To : To[t] \in Status /\ To[t] # "none"
  /\ \A t \in DOMAIN To : t # "CREATE" /\ t # "ACTIVATE" /\ To[t] \notin Early =>
       From[t] \cap Early = {}
  /\ To["ACTIVATE"] \notin Early
  BY DEF To, From, Status, Early

LEMMA RequestFacts ==
  ASSUME NEW q \in Requests
  PROVE  q.account \in Accounts /\ q.type \in DOMAIN To /\ q.amount \in Nat
  BY SubscriptionAssumption

-----------------------------------------------------------------------------
LEMMA OpeningFacts ==
  /\ Len(Opening) = 5
  /\ \A i \in 1..5 : Opening[i] \in DOMAIN To
  /\ Opening[1] = "CREATE" /\ Opening[3] = "ACCEPT"
  /\ \A i \in 2..5 : /\ To[Opening[i - 1]] \in From[Opening[i]]
                     /\ Opening[i] = "ACTIVATE" => i = 4
  /\ \A i \in 1..3 : To[Opening[i]] \in Early
  BY DEF Opening, To, From, Early

LEMMA PastFacts ==
  ASSUME NEW n \in 0..5
  PROVE  /\ Past(n) \in Seq(Event) /\ Len(Past(n)) = n
         /\ \A i \in 1..n : Past(n)[i].key = NoKey /\ Past(n)[i].type = Opening[i]
<1> DEFINE e(i) == [type |-> Opening[i], amount |-> IF i = 5 THEN 1 ELSE 0, key |-> NoKey]
<1>1. ASSUME NEW i \in 1..n
      PROVE  e(i) \in Event
  <2>1. Opening[i] \in DOMAIN To
    BY OpeningFacts
  <2> QED
    BY <2>1 DEF Event
<1>2. Past(n) = [i \in 1..n |-> e(i)]
  BY DEF Past
<1> HIDE DEF e
<1>3. Past(n) \in Seq(Event) /\ Len(Past(n)) = n
  BY <1>1, <1>2
<1>4. \A i \in 1..n : Past(n)[i] = e(i)
  BY <1>2
<1> QED
  BY <1>3, <1>4 DEF e

LEMMA RowOfPastFacts ==
  ASSUME NEW n \in 0..5
  PROVE  /\ RowOfPast(n) \in Row
         /\ (RowOfPast(n) = NoRow) = (n = 0)
         /\ RowOfPast(n).status = "none" => n = 0
         /\ n > 0 => RowOfPast(n).status = To[Opening[n]]
         /\ RowOfPast(n).accepted => n >= 3
         /\ n < 4 => RowOfPast(n).status \in Early
<1>1. CASE n = 0
  BY <1>1 DEF RowOfPast, NoRow, Row, Early
<1>2. CASE n > 0
  <2>1. Opening[n] \in DOMAIN To
    BY <1>2, OpeningFacts
  <2>2. To[Opening[n]] \in Status /\ To[Opening[n]] # "none"
    BY <2>1, CommandFacts
  <2>3. n < 4 => To[Opening[n]] \in Early
    BY <1>2, OpeningFacts
  <2>4. RowOfPast(n) = [status |-> To[Opening[n]], accepted |-> n >= 3]
    BY <1>2 DEF RowOfPast
  <2>5. RowOfPast(n).status = To[Opening[n]] /\ RowOfPast(n).accepted = (n >= 3)
    BY <2>4
  <2>6. (n >= 3) \in BOOLEAN
    OBVIOUS
  <2>7. RowOfPast(n) \in Row
    BY <2>2, <2>4, <2>6 DEF Row
  <2>8. RowOfPast(n).status # "none"
    BY <2>2, <2>5
  <2>9. RowOfPast(n) # NoRow
    BY <2>8 DEF NoRow
  <2>10. ASSUME ~(n >= 3) PROVE ~RowOfPast(n).accepted
    <3>1. (n >= 3) = FALSE
      BY <2>10
    <3>2. RowOfPast(n).accepted = FALSE
      BY <2>5, <3>1, Zenon
    <3> QED
      BY <3>2
  <2>11. n < 4 => RowOfPast(n).status \in Early
    BY <2>3, <2>5
  <2> QED
    BY <1>2, <2>5, <2>7, <2>8, <2>9, <2>10, <2>11
<1> QED
  BY <1>1, <1>2

LEMMA InitInv == Init => Inv
<1> SUFFICES ASSUME Init PROVE Inv
  OBVIOUS
<1>1. PICK n \in [Accounts -> 0..5] :
        /\ account = [a \in Accounts |-> RowOfPast(n[a])]
        /\ history = [a \in Accounts |-> Past(n[a])]
        /\ operational = {a \in Accounts : n[a] >= 4}
  BY OpeningFacts DEF Init
<1>2. ASSUME NEW a \in Accounts
      PROVE  /\ n[a] \in 0..5
             /\ account[a] = RowOfPast(n[a]) /\ history[a] = Past(n[a])
             /\ a \in operational <=> n[a] >= 4
  BY <1>1
<1>3. ASSUME NEW a \in Accounts
      PROVE  /\ history[a] \in Seq(Event) /\ Len(history[a]) = n[a]
             /\ \A i \in 1..n[a] : history[a][i].key = NoKey /\ history[a][i].type = Opening[i]
  BY <1>2, PastFacts
<1>4. ASSUME NEW a \in Accounts
      PROVE  /\ account[a] \in Row
             /\ (account[a] = NoRow) = (n[a] = 0)
             /\ account[a].status = "none" => n[a] = 0
             /\ n[a] > 0 => account[a].status = To[Opening[n[a]]]
             /\ account[a].accepted => n[a] >= 3
             /\ n[a] < 4 => account[a].status \in Early
  BY <1>2, RowOfPastFacts
<1>5. Typed
  <2>1. account \in [Accounts -> Row] /\ history \in [Accounts -> Seq(Event)]
    BY <1>1, <1>3, <1>4
  <2>2. \A a \in Accounts : \A i \in 1..Len(history[a]) : history[a][i] \in Event
    BY <1>3
  <2>3. CustomerTypeOK
    BY DEF Init, CustomerInit, CustomerTypeOK, Empty, Away, Profile, Standing
  <2>4. session \in [Sessions -> [stage: Stage, key: Keys \cup {NoKey},
                                  request: Requests \cup {NoRequest}, row: Row]]
    BY DEF Init, Idle, Stage, NoRow, Row
  <2> QED
    BY <1>1, <2>1, <2>2, <2>3, <2>4 DEF Typed, TypeOK, Init, Idle
<1>6. Locks
  BY DEF Init, Idle, Locks, OneHolder, ReadIsCurrent, WrittenIsPermitted, Holds
<1>7. KeysHaveEffects
  <2>1. \A k \in Keys, a \in Accounts : \A i \in DOMAIN history[a] : history[a][i].key # k
    BY <1>3, SubscriptionAssumption
  <2>2. \A k \in Keys : Effects(k) = {}
    BY <2>1 DEF Effects
  <2> QED
    BY <2>2 DEF KeysHaveEffects, Init
<1>8. AcceptedByEvent
  <2> SUFFICES ASSUME NEW a \in Accounts, account[a].accepted
               PROVE  \E i \in 1..Len(history[a]) : history[a][i].type = "ACCEPT"
    BY DEF AcceptedByEvent
  <2>1. n[a] >= 3 /\ n[a] \in Nat
    BY <1>2, <1>4
  <2>2. 3 \in 1..Len(history[a]) /\ history[a][3].type = "ACCEPT"
    BY <2>1, <1>3, OpeningFacts
  <2> QED
    BY <2>2
<1>9. RowsExist
  BY <1>4 DEF RowsExist
<1>10. ActiveIsOperational
  BY <1>2, <1>4 DEF ActiveIsOperational, Early
<1>11. HistoryIsLegal
  <2> SUFFICES ASSUME NEW a \in Accounts, NEW h, h = history[a], NEW m \in 0..5, m = n[a]
               PROVE  /\ (account[a] = NoRow) = (h = <<>>)
                      /\ h # <<>> => h[1].type = "CREATE" /\ To[h[Len(h)].type] = account[a].status
                      /\ \A i \in 2..Len(h) :
                           /\ To[h[i - 1].type] \in From[h[i].type]
                           /\ h[i].type = "ACTIVATE" => \E j \in 1..(i - 1) : h[j].type = "ACCEPT"
    BY <1>2 DEF HistoryIsLegal
  <2>1. /\ h \in Seq(Event) /\ Len(h) = m /\ \A i \in 1..m : h[i].type = Opening[i]
        /\ (account[a] = NoRow) = (m = 0) /\ (m > 0 => account[a].status = To[Opening[m]])
    BY <1>3, <1>4
  <2>2. (m = 0) = (h = <<>>)
    BY <2>1
  <2>3. h # <<>> => h[1].type = "CREATE" /\ To[h[Len(h)].type] = account[a].status
    BY <2>1, <2>2, OpeningFacts
  <2>4. ASSUME NEW i \in 2..Len(h)
        PROVE  To[h[i - 1].type] \in From[h[i].type]
    BY <2>1, OpeningFacts
  <2>5. ASSUME NEW i \in 2..Len(h), h[i].type = "ACTIVATE"
        PROVE  \E j \in 1..(i - 1) : h[j].type = "ACCEPT"
    <3>1. i = 4 /\ h[3].type = "ACCEPT"
      BY <2>1, <2>5, OpeningFacts
    <3> QED
      BY <3>1
  <2> QED
    BY <2>1, <2>2, <2>3, <2>4, <2>5
<1> QED
  BY <1>5, <1>6, <1>7, <1>8, <1>9, <1>10, <1>11 DEF Inv, Books

-----------------------------------------------------------------------------
(* A step of one session that leaves the books alone.                      *)
Sound(x) ==
  /\ x \in [stage: Stage, key: Keys \cup {NoKey}, request: Requests \cup {NoRequest}, row: Row]
  /\ x.stage # "idle" => x.request \in Requests /\ x.key \in Keys

LEMMA SessionTyped ==
  ASSUME Typed, NEW s \in Sessions
  PROVE  Sound(session[s])
  BY DEF Typed, TypeOK, Sound

LEMMA SessionStep ==
  ASSUME Inv, NEW s \in Sessions, NEW x, Sound(x),
         session' = [session EXCEPT ![s] = x],
         UNCHANGED <<account, history, operational, command, intents, cvars>>,
         x.stage \in {"locked", "checked", "written"} =>
           /\ x.request.type # "CREATE"
           /\ x.row = account[x.request.account] /\ x.row # NoRow
           /\ \A v \in Sessions \ {s} : Holds(v) => AccountOf(v) # x.request.account,
         x.stage = "written" =>
           /\ x.row.status \in From[x.request.type]
           /\ x.request.type = "ACTIVATE" => x.row.accepted
  PROVE  Inv'
<1>1. /\ session' \in [Sessions -> [stage: Stage, key: Keys \cup {NoKey},
                                  request: Requests \cup {NoRequest}, row: Row]]
      /\ session'[s] = x /\ \A v \in Sessions \ {s} : session'[v] = session[v]
  BY DEF Inv, Typed, TypeOK, Sound
<1>2. Typed'
  BY <1>1 DEF Inv, Typed, TypeOK, Sound, CustomerTypeOK, cvars
<1>3. OneHolder'
  BY <1>1 DEF Inv, Locks, OneHolder, Holds, AccountOf
<1>4. ReadIsCurrent'
  BY <1>1 DEF Inv, Locks, ReadIsCurrent, Holds, AccountOf, TypeOf
<1>5. WrittenIsPermitted'
  BY <1>1 DEF Inv, Locks, WrittenIsPermitted, TypeOf
<1>6. Books'
  BY DEF Inv, Books, KeysHaveEffects, IsEffect, Effects, AcceptedByEvent, RowsExist,
         HistoryIsLegal, ActiveIsOperational
<1> QED
  BY <1>2, <1>3, <1>4, <1>5, <1>6 DEF Inv, Locks

LEMMA LeaveStep ==
  ASSUME Inv, NEW s \in Sessions, Leave(s)
  PROVE  Inv'
<1>1. Sound(Idle)
  BY DEF Sound, Idle, Stage, NoRow, Row
<1>2. Idle.stage = "idle"
  BY DEF Idle
<1> QED
  BY <1>1, <1>2, SessionStep DEF Leave

LEMMA BeginStep ==
  ASSUME Inv, NEW s \in Sessions, Begin(s)
  PROVE  Inv'
<1>1. PICK k \in Keys, q \in Requests : session' = [session EXCEPT ![s] =
        [stage |-> "begun", key |-> k, request |-> q, row |-> NoRow]]
  BY DEF Begin
<1> DEFINE x == [stage |-> "begun", key |-> k, request |-> q, row |-> NoRow]
<1>2. Sound(x) /\ x.stage = "begun"
  BY DEF Sound, Stage, NoRow, Row
<1> QED
  BY <1>1, <1>2, SessionStep DEF Begin

LEMMA LockCommandStep ==
  ASSUME Inv, NEW s \in Sessions, LockCommand(s)
  PROVE  Inv'
<1> DEFINE x == [session[s] EXCEPT !.stage = "keyed"]
<1>1. Sound(x) /\ x.stage = "keyed"
  BY SessionTyped DEF Inv, Sound, Stage, LockCommand
<1>2. session' = [session EXCEPT ![s] = x]
  BY DEF LockCommand, Goto
<1> QED
  BY <1>1, <1>2, SessionStep DEF LockCommand

LEMMA LockAccountStep ==
  ASSUME Inv, NEW s \in Sessions, LockAccount(s)
  PROVE  Inv'
<1> DEFINE a == session[s].request.account
           x == [session[s] EXCEPT !.stage = "locked", !.row = account[a]]
<1>1. Sound(session[s]) /\ session[s].stage = "keyed"
  BY SessionTyped DEF Inv, LockAccount
<1>2. session[s].request \in Requests /\ a \in Accounts
  BY <1>1, RequestFacts DEF Sound
<1>3. account[a] \in Row
  BY <1>2 DEF Inv, Typed, TypeOK
<1>4. Sound(x) /\ x.stage = "locked" /\ x.row = account[a] /\ x.request = session[s].request
  BY <1>1, <1>3 DEF Sound, Stage
<1>5. session' = [session EXCEPT ![s] = x]
  BY DEF LockAccount
<1>6. \A v \in Sessions \ {s} : Holds(v) => AccountOf(v) # a
  BY DEF LockAccount, RowFree, Holds, AccountOf
<1>7. x.request.type # "CREATE" /\ x.row # NoRow
  BY <1>4 DEF LockAccount
<1> HIDE DEF x
<1> QED
  BY <1>4, <1>5, <1>6, <1>7, SessionStep DEF LockAccount

(* Of a session that holds its row already, the stage alone changes.       *)
LEMMA HolderStep ==
  ASSUME Inv, NEW s \in Sessions, Holds(s), NEW stage \in {"checked", "written"}, Goto(s, stage),
         UNCHANGED <<account, history, operational, command, intents, cvars>>,
         stage = "written" => Permitted(s)
  PROVE  Inv'
<1> DEFINE x == [session[s] EXCEPT !.stage = stage]
<1>1. Sound(session[s]) /\ session[s].stage # "idle"
  BY SessionTyped DEF Inv, Holds
<1>2. /\ Sound(x) /\ x.stage = stage
      /\ x.row = session[s].row /\ x.request = session[s].request
  BY <1>1 DEF Sound, Stage
<1>3. session' = [session EXCEPT ![s] = x]
  BY DEF Goto
<1>4. /\ x.request.type # "CREATE"
      /\ x.row = account[x.request.account] /\ x.row # NoRow
  BY <1>2 DEF Inv, Locks, ReadIsCurrent, AccountOf, TypeOf
<1>5. \A v \in Sessions \ {s} : Holds(v) => AccountOf(v) # x.request.account
  BY <1>2 DEF Inv, Locks, OneHolder, AccountOf
<1>6. x.stage = "written" =>
        /\ x.row.status \in From[x.request.type]
        /\ x.request.type = "ACTIVATE" => x.row.accepted
  BY <1>2 DEF Permitted
<1> HIDE DEF x
<1> QED
  BY <1>2, <1>3, <1>4, <1>5, <1>6, SessionStep

LEMMA CheckAndWriteStep ==
  ASSUME Inv, NEW s \in Sessions, CheckRights(s) \/ Write(s)
  PROVE  Inv'
<1>1. CASE CheckRights(s)
  BY <1>1, HolderStep DEF CheckRights, Holds
<1>2. CASE Write(s)
  BY <1>2, HolderStep DEF Write, Cleared, Holds
<1> QED
  BY <1>1, <1>2

-----------------------------------------------------------------------------
(* What a recorded command does to the books.                              *)
EffectsIn(h, k) ==
  UNION {{<<a, i>> : i \in {j \in DOMAIN h[a] : h[a][j].key = k}} : a \in Accounts}

LEMMA EffectsFacts ==
  ASSUME NEW h, NEW k
  PROVE  \A e : e \in EffectsIn(h, k) <=>
           \E a \in Accounts : \E i \in DOMAIN h[a] : e = <<a, i>> /\ h[a][i].key = k
  BY DEF EffectsIn

LEMMA AppendFacts ==
  ASSUME NEW h \in Seq(Event), NEW e \in Event, NEW g, g = Append(h, e)
  PROVE  /\ g \in Seq(Event) /\ g # <<>> /\ Len(g) = Len(h) + 1 /\ Len(h) \in Nat
         /\ DOMAIN h = 1..Len(h) /\ DOMAIN g = 1..(Len(h) + 1)
         /\ \A i \in 1..Len(h) : g[i] = h[i]
         /\ g[Len(h) + 1] = e
  OBVIOUS

(* The command may be recorded: it opens the account, or the row permits   *)
(* it.                                                                     *)
MayRecord(q) ==
  IF q.type = "CREATE" THEN account[q.account] = NoRow
  ELSE /\ account[q.account] # NoRow
       /\ account[q.account].status \in From[q.type]
       /\ q.type = "ACTIVATE" => account[q.account].accepted

(* The row that follows.                                                   *)
Follows(r, q) ==
  /\ r \in Row /\ r.status = To[q.type]
  /\ r.accepted => account[q.account].accepted \/ q.type = "ACCEPT"

Recorded(k, q, r) ==
  /\ KeyUnused(k) /\ MayRecord(q) /\ Follows(r, q)
  /\ account' = [account EXCEPT ![q.account] = r]
  /\ Record(k, q)
  /\ operational' = IF q.type = "ACTIVATE" THEN operational \cup {q.account} ELSE operational

LEMMA RecordFacts ==
  ASSUME Typed, NEW k \in Keys, NEW q \in Requests, NEW r, Recorded(k, q, r)
  PROVE  /\ account' \in [Accounts -> Row] /\ account'[q.account] = r
         /\ history' \in [Accounts -> Seq(Event)]
         /\ \A a \in Accounts \ {q.account} :
              account'[a] = account[a] /\ history'[a] = history[a]
         /\ \E e \in Event : /\ e.type = q.type /\ e.key = k
                              /\ history'[q.account] = Append(history[q.account], e)
<1> DEFINE e == [type |-> q.type, amount |-> q.amount, key |-> k]
<1>1. q.account \in Accounts /\ e \in Event /\ e.type = q.type /\ e.key = k
  BY RequestFacts DEF Event
<1>2. history' = [history EXCEPT ![q.account] = Append(@, e)]
  BY DEF Recorded, Record
<1> HIDE DEF e
<1>3. history[q.account] \in Seq(Event) /\ history \in [Accounts -> Seq(Event)]
  BY <1>1 DEF Typed
<1>4. Append(history[q.account], e) \in Seq(Event)
  BY <1>1, <1>3
<1>5. /\ history' \in [Accounts -> Seq(Event)]
      /\ history'[q.account] = Append(history[q.account], e)
      /\ \A a \in Accounts \ {q.account} : history'[a] = history[a]
  BY <1>1, <1>2, <1>3, <1>4
<1>6. /\ account' \in [Accounts -> Row] /\ account'[q.account] = r
      /\ \A a \in Accounts \ {q.account} : account'[a] = account[a]
  BY <1>1 DEF Recorded, Follows, Typed, TypeOK
<1> QED
  BY <1>1, <1>5, <1>6

LEMMA RecordKeys ==
  ASSUME Inv, NEW k \in Keys, NEW q \in Requests, NEW r, Recorded(k, q, r)
  PROVE  KeysHaveEffects'
<1> DEFINE a == q.account
           n == Len(history[a]) + 1
<1>1. PICK e \in Event : e.type = q.type /\ e.key = k /\ history'[a] = Append(history[a], e)
  BY RecordFacts DEF Inv
<1>2. a \in Accounts /\ history[a] \in Seq(Event)
  BY RequestFacts DEF Inv, Typed
<1>3. /\ n \in Nat \ {0} /\ DOMAIN history[a] = 1..(n - 1)
      /\ DOMAIN history'[a] = 1..n /\ Len(history'[a]) = n
      /\ \A i \in 1..(n - 1) : history'[a][i] = history[a][i]
      /\ history'[a][n] = e
  BY <1>1, <1>2, AppendFacts
<1>4. \A b \in Accounts \ {a} : history'[b] = history[b]
  BY RecordFacts DEF Inv
<1>5. /\ command' = [command EXCEPT ![k] = q] /\ intents' = [intents EXCEPT ![k] = @ + 1]
      /\ command[k] = NoRequest /\ q # NoRequest
      /\ command \in [Keys -> Requests \cup {NoRequest}] /\ intents \in [Keys -> Nat]
  BY SubscriptionAssumption DEF Recorded, Record, KeyUnused, Inv, Typed, TypeOK
<1> HIDE DEF n
<1>6. ASSUME NEW l \in Keys, l # k
      PROVE  EffectsIn(history', l) = EffectsIn(history, l)
  <2>1. \A b \in Accounts : \A i :
          i \in DOMAIN history'[b] /\ history'[b][i].key = l <=>
          i \in DOMAIN history[b] /\ history[b][i].key = l
    BY <1>1, <1>3, <1>4, <1>6
  <2>2. \A e1 : e1 \in EffectsIn(history', l) <=>
          \E b \in Accounts : \E i \in DOMAIN history'[b] :
            e1 = <<b, i>> /\ history'[b][i].key = l
    BY EffectsFacts
  <2>3. \A e1 : e1 \in EffectsIn(history, l) <=>
          \E b \in Accounts : \E i \in DOMAIN history[b] :
            e1 = <<b, i>> /\ history[b][i].key = l
    BY EffectsFacts
  <2>4. \A e1 : e1 \in EffectsIn(history', l) <=> e1 \in EffectsIn(history, l)
    BY <2>1, <2>2, <2>3
  <2> QED
    BY <2>4
<1>7. EffectsIn(history, k) = {} /\ intents[k] = 0
  BY <1>5 DEF Inv, Books, KeysHaveEffects, Effects, EffectsIn
<1>8. EffectsIn(history', k) = {<<a, n>>}
  <2>1. \A b \in Accounts : \A i \in DOMAIN history[b] : history[b][i].key # k
    BY <1>7, EffectsFacts
  <2>2. \A b \in Accounts : \A i \in DOMAIN history'[b] :
          history'[b][i].key = k <=> b = a /\ i = n
    BY <1>1, <1>3, <1>4, <2>1
  <2>3. n \in DOMAIN history'[a]
    BY <1>3
  <2> QED
    BY <1>2, <2>2, <2>3, EffectsFacts
<1>9. ASSUME NEW l \in Keys
      PROVE  IF command'[l] = NoRequest THEN EffectsIn(history', l) = {} /\ intents'[l] = 0
             ELSE /\ intents'[l] = 1
                  /\ \E b \in Accounts : \E i \in Nat :
                       /\ EffectsIn(history', l) = {<<b, i>>} /\ i \in 1..Len(history'[b])
                       /\ b = command'[l].account /\ history'[b][i].type = command'[l].type
  <2>1. CASE l = k
    <3>1. command'[l] = q /\ intents'[l] = 1
      BY <1>5, <1>7, <2>1
    <3>2. /\ EffectsIn(history', l) = {<<a, n>>} /\ n \in 1..Len(history'[a]) /\ n \in Nat
          /\ history'[a][n].type = q.type
      BY <1>1, <1>3, <1>8, <2>1
    <3> QED
      BY <1>2, <1>5, <3>1, <3>2
  <2>2. CASE l # k
    <3>1. /\ command'[l] = command[l] /\ intents'[l] = intents[l]
          /\ EffectsIn(history', l) = EffectsIn(history, l)
      BY <1>5, <1>6, <2>2
    <3>2. IF command[l] = NoRequest THEN EffectsIn(history, l) = {} /\ intents[l] = 0
          ELSE /\ intents[l] = 1
               /\ \E b \in Accounts : \E i \in Nat :
                    /\ EffectsIn(history, l) = {<<b, i>>} /\ i \in 1..Len(history[b])
                    /\ b = command[l].account /\ history[b][i].type = command[l].type
      BY DEF Inv, Books, KeysHaveEffects, IsEffect, Effects, EffectsIn
    <3>3. \A b \in Accounts : \A i \in 1..Len(history[b]) :
            i \in 1..Len(history'[b]) /\ history'[b][i] = history[b][i]
      <4>1. \A b \in Accounts \ {a} : \A i \in 1..Len(history[b]) :
              i \in 1..Len(history'[b]) /\ history'[b][i] = history[b][i]
        BY <1>4
      <4>2. Len(history[a]) = n - 1
        BY <1>2 DEF n
      <4> QED
        BY <1>3, <4>1, <4>2
    <3> QED
      BY <3>1, <3>2, <3>3
  <2> QED
    BY <2>1, <2>2
<1> QED
  BY <1>9 DEF KeysHaveEffects, IsEffect, Effects, EffectsIn

(* The history of one account.                                             *)
Legal(row, h) ==
  /\ (row = NoRow) = (h = <<>>)
  /\ h # <<>> => h[1].type = "CREATE" /\ To[h[Len(h)].type] = row.status
  /\ \A i \in 2..Len(h) :
       /\ To[h[i - 1].type] \in From[h[i].type]
       /\ h[i].type = "ACTIVATE" => \E j \in 1..(i - 1) : h[j].type = "ACCEPT"

LEMMA RecordHistory ==
  ASSUME Inv, NEW k \in Keys, NEW q \in Requests, NEW r, Recorded(k, q, r)
  PROVE  /\ HistoryIsLegal' /\ AcceptedByEvent'
         /\ RowsExist' /\ ActiveIsOperational'
<1> DEFINE a == q.account
           h == history[a]
           n == Len(h) + 1
<1>1. PICK e \in Event, g \in Seq(Event) :
        e.type = q.type /\ e.key = k /\ g = Append(h, e) /\ g = history'[a]
  <2>1. \E e \in Event : e.type = q.type /\ e.key = k /\ history'[a] = Append(h, e)
    BY RecordFacts DEF Inv
  <2>2. history'[a] \in Seq(Event)
    BY RecordFacts, RequestFacts DEF Inv
  <2> QED
    BY <2>1, <2>2
<1>2. a \in Accounts /\ h \in Seq(Event) /\ q.type \in DOMAIN To
  BY RequestFacts DEF Inv, Typed
<1>3. /\ n \in Nat \ {0} /\ Len(h) = n - 1 /\ Len(g) = n /\ g # <<>>
      /\ \A i \in 1..(n - 1) : g[i] = h[i]
      /\ g[n] = e
  <2>1. Len(h) \in Nat
    BY <1>2
  <2>2. /\ g # <<>> /\ Len(g) = Len(h) + 1
        /\ \A i \in 1..Len(h) : g[i] = h[i]
        /\ g[Len(h) + 1] = e
    <3>1. g = Append(h, e) /\ h \in Seq(Event) /\ e \in Event
      BY <1>1, <1>2
    <3> HIDE DEF h
    <3> QED
      BY <3>1, AppendFacts
  <2> QED
    BY <2>1, <2>2
<1>4. /\ account'[a] = r /\ r.status = To[q.type] /\ r.status # "none" /\ r # NoRow
      /\ r.accepted => account[a].accepted \/ q.type = "ACCEPT"
  <2>1. account'[a] = r
    BY RecordFacts DEF Inv
  <2>2. r.status = To[q.type] /\ (r.accepted => account[a].accepted \/ q.type = "ACCEPT")
    BY DEF Recorded, Follows
  <2>3. To[q.type] # "none"
    BY <1>2, CommandFacts
  <2> QED
    BY <2>1, <2>2, <2>3 DEF NoRow
<1>5. \A b \in Accounts \ {a} : account'[b] = account[b] /\ history'[b] = history[b]
  BY RecordFacts DEF Inv
<1>6. /\ (account[a] = NoRow) = (h = <<>>)
      /\ h # <<>> => h[1].type = "CREATE" /\ To[h[n - 1].type] = account[a].status
      /\ \A i \in 2..(n - 1) :
           /\ To[h[i - 1].type] \in From[h[i].type]
           /\ h[i].type = "ACTIVATE" => \E j \in 1..(i - 1) : h[j].type = "ACCEPT"
  BY <1>2, <1>3 DEF Inv, Books, HistoryIsLegal
<1> HIDE DEF n, h
<1>7. Legal(r, g)
  <2>1. CASE q.type = "CREATE"
    <3>1. n = 1
      <4>1. h = <<>>
        BY <1>6, <2>1 DEF Recorded, MayRecord
      <4> QED
        BY <4>1 DEF n
    <3>2. (r = NoRow) = (g = <<>>)
      BY <1>3, <1>4
    <3>3. /\ g[1].type = "CREATE" /\ To[g[Len(g)].type] = r.status
          /\ \A i \in 2..Len(g) :
               /\ To[g[i - 1].type] \in From[g[i].type]
               /\ g[i].type = "ACTIVATE" => \E j \in 1..(i - 1) : g[j].type = "ACCEPT"
      BY <1>1, <1>3, <1>4, <2>1, <3>1
    <3> QED
      BY <3>2, <3>3 DEF Legal
  <2>2. CASE q.type # "CREATE"
    <3>1. n > 1 /\ h # <<>>
      <4>1. h # <<>>
        BY <1>6, <2>2 DEF Recorded, MayRecord
      <4> QED
        BY <1>2, <1>3, <4>1
    <3>2. To[h[n - 1].type] \in From[q.type]
      BY <1>6, <2>2, <3>1 DEF Recorded, MayRecord
    <3>3. q.type = "ACTIVATE" => \E j \in 1..(n - 1) : h[j].type = "ACCEPT"
      BY <1>2, <1>3, <2>2 DEF Recorded, MayRecord, Inv, Books, AcceptedByEvent, h
    <3>4. (r = NoRow) = (g = <<>>)
      BY <1>3, <1>4
    <3>5. g[1].type = "CREATE" /\ To[g[Len(g)].type] = r.status
      BY <1>1, <1>3, <1>4, <1>6, <3>1
    <3>6. ASSUME NEW i \in 2..Len(g)
          PROVE  /\ To[g[i - 1].type] \in From[g[i].type]
                 /\ g[i].type = "ACTIVATE" => \E j \in 1..(i - 1) : g[j].type = "ACCEPT"
      <4>1. CASE i = n
        BY <1>1, <1>3, <3>1, <3>2, <3>3, <4>1
      <4>2. CASE i # n
        <5>1. /\ i \in 2..(n - 1) /\ i - 1 \in 1..(n - 1) /\ g[i] = h[i] /\ g[i - 1] = h[i - 1]
              /\ \A j \in 1..(i - 1) : g[j] = h[j]
          BY <1>3, <4>2
        <5> QED
          BY <1>6, <5>1
      <4> QED
        BY <4>1, <4>2
    <3> QED
      BY <3>4, <3>5, <3>6 DEF Legal
  <2> QED
    BY <2>1, <2>2
<1>8. HistoryIsLegal'
  <2>1. \A b \in Accounts : Legal(account[b], history[b])
    BY DEF Inv, Books, HistoryIsLegal, Legal
  <2>2. \A b \in Accounts : Legal(account'[b], history'[b])
    BY <1>1, <1>4, <1>5, <1>7, <2>1
  <2> QED
    BY <2>2 DEF HistoryIsLegal, Legal
<1>9. AcceptedByEvent'
  <2>1. ASSUME r.accepted
        PROVE  \E i \in 1..Len(g) : g[i].type = "ACCEPT"
    <3>1. CASE q.type = "ACCEPT"
      BY <1>1, <1>3, <3>1
    <3>2. CASE account[a].accepted
      <4>1. \E i \in 1..Len(h) : h[i].type = "ACCEPT"
        BY <1>2, <3>2 DEF Inv, Books, AcceptedByEvent, h
      <4> QED
        BY <1>3, <4>1
    <3> QED
      BY <1>4, <2>1, <3>1, <3>2
  <2> QED
    BY <1>1, <1>4, <1>5, <2>1 DEF AcceptedByEvent, Inv, Books
<1>10. RowsExist'
  BY <1>4, <1>5 DEF RowsExist, Inv, Books
<1>11. ActiveIsOperational'
  <2>1. operational \subseteq operational'
    BY DEF Recorded
  <2>2. r.status \in Early \/ a \in operational'
    <3>1. CASE q.type = "ACTIVATE"
      BY <3>1 DEF Recorded
    <3>2. CASE q.type = "CREATE"
      BY <1>4, <3>2, CommandFacts DEF Early
    <3>3. CASE q.type # "ACTIVATE" /\ q.type # "CREATE" /\ To[q.type] \notin Early
      <4>1. account[a].status \in From[q.type] /\ From[q.type] \cap Early = {}
        BY <1>2, <3>3, CommandFacts DEF Recorded, MayRecord
      <4> QED
        BY <1>2, <2>1, <4>1 DEF Inv, Books, ActiveIsOperational, Early
    <3> QED
      BY <1>4, <3>1, <3>2, <3>3
  <2> QED
    BY <1>4, <1>5, <2>1, <2>2 DEF ActiveIsOperational, Inv, Books, Early
<1> QED
  BY <1>8, <1>9, <1>10, <1>11

(* The transaction ends with the command, and nobody else holds the row.   *)
LEMMA RecordStep ==
  ASSUME Inv, NEW s \in Sessions, NEW k \in Keys, NEW q \in Requests, NEW r,
         Recorded(k, q, r),
         session' = [session EXCEPT ![s] = Idle], UNCHANGED cvars,
         \A v \in Sessions \ {s} : Holds(v) => AccountOf(v) # q.account
  PROVE  Inv'
<1>1. /\ session' \in [Sessions -> [stage: Stage, key: Keys \cup {NoKey},
                                  request: Requests \cup {NoRequest}, row: Row]]
      /\ session'[s] = Idle /\ \A v \in Sessions \ {s} : session'[v] = session[v]
      /\ Idle.stage = "idle"
  <2>1. Idle \in [stage: Stage, key: Keys \cup {NoKey}, request: Requests \cup {NoRequest},
                  row: Row]
    BY DEF Idle, Stage, NoRow, Row
  <2> QED
    BY <2>1 DEF Inv, Typed, TypeOK, Idle
<1>2. /\ account' \in [Accounts -> Row] /\ history' \in [Accounts -> Seq(Event)]
      /\ \A a \in Accounts \ {q.account} : account'[a] = account[a]
  BY RecordFacts DEF Inv
<1>3. Typed'
  <2>1. q.account \in Accounts
    BY RequestFacts
  <2>2. \A a \in Accounts : \A i \in 1..Len(history'[a]) : history'[a][i] \in Event
    BY <1>2
  <2>3. /\ operational' \subseteq Accounts
        /\ command' \in [Keys -> Requests \cup {NoRequest}] /\ intents' \in [Keys -> Nat]
    BY <2>1 DEF Recorded, Record, Inv, Typed, TypeOK
  <2>4. CustomerTypeOK'
    BY DEF Inv, Typed, TypeOK, CustomerTypeOK, cvars
  <2>5. \A v \in Sessions : session'[v].stage # "idle" =>
          session'[v].request \in Requests /\ session'[v].key \in Keys
    BY <1>1 DEF Inv, Typed
  <2> QED
    BY <1>1, <1>2, <2>2, <2>3, <2>4, <2>5 DEF Typed, TypeOK
<1>4. \A v \in Sessions : session'[v].stage # "idle" => v # s /\ session'[v] = session[v]
  BY <1>1
<1>5. OneHolder'
  BY <1>4 DEF Inv, Locks, OneHolder, Holds, AccountOf
<1>6. ReadIsCurrent'
  <2>1. ASSUME NEW v \in Sessions, session'[v].stage \in {"locked", "checked", "written"}
        PROVE  /\ session'[v].request.type # "CREATE"
               /\ session'[v].row = account'[session'[v].request.account]
               /\ session'[v].row # NoRow
    <3>1. v # s /\ session'[v] = session[v] /\ Holds(v)
      BY <1>4, <2>1 DEF Holds
    <3>2. AccountOf(v) # q.account /\ AccountOf(v) \in Accounts
      BY <3>1, RequestFacts DEF AccountOf, Inv, Typed, Holds
    <3> QED
      BY <1>2, <3>1, <3>2 DEF Inv, Locks, ReadIsCurrent, AccountOf, TypeOf
  <2> QED
    BY <2>1 DEF ReadIsCurrent, Holds, AccountOf, TypeOf
<1>7. WrittenIsPermitted'
  BY <1>4 DEF Inv, Locks, WrittenIsPermitted, TypeOf
<1> QED
  BY <1>3, <1>5, <1>6, <1>7, RecordKeys, RecordHistory DEF Inv, Locks, Books

LEMMA CreateStep ==
  ASSUME Inv, NEW s \in Sessions, Create(s)
  PROVE  Inv'
<1> DEFINE k == session[s].key
           q == session[s].request
           r == [status |-> To[q.type], accepted |-> FALSE]
<1>1. k \in Keys /\ q \in Requests /\ q.type = "CREATE" /\ account[q.account] = NoRow
  BY SessionTyped DEF Inv, Sound, Create
<1>2. Follows(r, q)
  <2>1. q.type \in DOMAIN To
    BY <1>1, RequestFacts
  <2> QED
    BY <2>1, CommandFacts DEF Follows, Row
<1>3. Recorded(k, q, r)
  BY <1>1, <1>2 DEF Create, Recorded, MayRecord
<1>4. \A v \in Sessions \ {s} : Holds(v) => AccountOf(v) # q.account
  BY <1>1 DEF Inv, Locks, ReadIsCurrent
<1>5. session' = [session EXCEPT ![s] = Idle] /\ UNCHANGED cvars
  BY DEF Create
<1> HIDE DEF k, q, r
<1> QED
  BY <1>1, <1>3, <1>4, <1>5, RecordStep

LEMMA CommitStep ==
  ASSUME Inv, NEW s \in Sessions, Commit(s)
  PROVE  Inv'
<1> DEFINE k == session[s].key
           q == session[s].request
           r == [status |-> To[q.type], accepted |-> session[s].row.accepted \/ q.type = "ACCEPT"]
<1>1. k \in Keys /\ q \in Requests /\ Holds(s) /\ session[s].stage = "written"
  BY SessionTyped DEF Inv, Sound, Commit, Holds
<1>2. /\ q.type # "CREATE" /\ session[s].row = account[q.account] /\ account[q.account] # NoRow
  BY <1>1 DEF Inv, Locks, ReadIsCurrent, AccountOf, TypeOf
<1>3. /\ account[q.account].status \in From[q.type]
      /\ q.type = "ACTIVATE" => account[q.account].accepted
  BY <1>1, <1>2 DEF Inv, Locks, WrittenIsPermitted, TypeOf
<1>4. Follows(r, q)
  <2>1. q.type \in DOMAIN To
    BY <1>1, RequestFacts
  <2>2. To[q.type] \in Status
    BY <2>1, CommandFacts
  <2>3. r \in Row /\ r.status = To[q.type]
    BY <2>2 DEF Row
  <2>4. r.accepted => account[q.account].accepted \/ q.type = "ACCEPT"
    BY <1>2
  <2> QED
    BY <2>3, <2>4 DEF Follows
<1>5. Recorded(k, q, r)
  BY <1>2, <1>3, <1>4 DEF Commit, Recorded, MayRecord
<1>6. \A v \in Sessions \ {s} : Holds(v) => AccountOf(v) # q.account
  BY <1>1 DEF Inv, Locks, OneHolder, AccountOf
<1>7. session' = [session EXCEPT ![s] = Idle] /\ UNCHANGED cvars
  BY DEF Commit
<1> HIDE DEF k, q, r
<1> QED
  BY <1>1, <1>5, <1>6, <1>7, RecordStep

-----------------------------------------------------------------------------
LEMMA ImportStep ==
  ASSUME Inv, ImportAccount
  PROVE  Inv'
<1>1. operational \subseteq operational' /\ operational' \subseteq Accounts
  BY DEF ImportAccount, Inv, Typed, TypeOK
<1>2. UNCHANGED <<account, history, command, intents, session, cvars>>
  BY DEF ImportAccount
<1>3. Typed' /\ Locks'
  BY <1>1, <1>2 DEF Inv, Typed, TypeOK, CustomerTypeOK, cvars, Locks, OneHolder, ReadIsCurrent,
                    WrittenIsPermitted, Holds, AccountOf, TypeOf
<1>4. Books'
  BY <1>1, <1>2 DEF Inv, Books, KeysHaveEffects, IsEffect, Effects, AcceptedByEvent, RowsExist,
                    HistoryIsLegal, ActiveIsOperational
<1> QED
  BY <1>3, <1>4 DEF Inv

LEMMA SaveTyped ==
  ASSUME CustomerTypeOK, NEW o \in Officers, NEW profile \in Profile, Save(o, profile)
  PROVE  CustomerTypeOK'
<1>1. restriction' \in Profile
  BY DEF CustomerTypeOK, Save, Profile, Standing
<1>2. Away \in [reading: BOOLEAN, profile: Profile]
  BY DEF Away, Empty, Profile, Standing
<1>3. officer' \in [Officers -> [reading: BOOLEAN, profile: Profile]]
  BY <1>2 DEF CustomerTypeOK, Save
<1> QED
  BY <1>1, <1>3 DEF CustomerTypeOK

LEMMA CustomerTyped == CustomerTypeOK /\ CustomerNext => CustomerTypeOK'
<1> SUFFICES ASSUME CustomerTypeOK, NEW o \in Officers, OfficerStep(o)
             PROVE  CustomerTypeOK'
  BY DEF CustomerNext
<1>1. CASE Find(o)
  BY <1>1 DEF Find, CustomerTypeOK
<1>2. CASE AddRestriction(o) \/ LiftRestriction(o)
  <2>1. PICK r \in Restrictions, x \in {"active", "lifted"} :
          Save(o, [officer[o].profile EXCEPT ![r] = x])
    BY <1>2 DEF AddRestriction, LiftRestriction
  <2>2. [officer[o].profile EXCEPT ![r] = x] \in Profile
    BY DEF CustomerTypeOK, Profile, Standing
  <2> QED
    BY <2>1, <2>2, SaveTyped
<1>3. CASE GiveUp(o)
  BY <1>3 DEF GiveUp, CustomerTypeOK, Away, Empty, Profile, Standing
<1> QED
  BY <1>1, <1>2, <1>3 DEF OfficerStep

LEMMA CustomerStepInv ==
  ASSUME Inv, CustomerStep
  PROVE  Inv'
<1>1. UNCHANGED <<account, history, operational, command, intents, session>> /\ CustomerTypeOK'
  BY CustomerTyped DEF CustomerStep, svars, Inv, Typed, TypeOK
<1>2. Typed' /\ Locks'
  BY <1>1 DEF Inv, Typed, TypeOK, Locks, OneHolder, ReadIsCurrent, WrittenIsPermitted, Holds,
              AccountOf, TypeOf
<1>3. Books'
  BY <1>1 DEF Inv, Books, KeysHaveEffects, IsEffect, Effects, AcceptedByEvent, RowsExist,
              HistoryIsLegal, ActiveIsOperational
<1> QED
  BY <1>2, <1>3 DEF Inv

LEMMA NextInv == Inv /\ [Next]_vars => Inv'
<1> SUFFICES ASSUME Inv, [Next]_vars PROVE Inv'
  OBVIOUS
<1>1. ASSUME NEW s \in Sessions, Begin(s) \/ Locking(s) \/ Work(s) \/ Abort(s)
      PROVE  Inv'
  <2>1. CASE Begin(s)
    BY <2>1, BeginStep
  <2>2. CASE LockCommand(s)
    BY <2>2, LockCommandStep
  <2>3. CASE LockAccount(s)
    BY <2>3, LockAccountStep
  <2>4. CASE CheckRights(s) \/ Write(s)
    BY <2>4, CheckAndWriteStep
  <2>5. CASE Create(s)
    BY <2>5, CreateStep
  <2>6. CASE Commit(s)
    BY <2>6, CommitStep
  <2>7. CASE Replay(s) \/ Refuse(s) \/ Timeout(s) \/ Abort(s)
    BY <2>7, LeaveStep DEF Replay, Refuse, Timeout, Abort
  <2> QED
    BY <1>1, <2>1, <2>2, <2>3, <2>4, <2>5, <2>6, <2>7 DEF Locking, Work
<1>2. CASE ImportAccount
  BY <1>2, ImportStep
<1>3. CASE CustomerStep
  BY <1>3, CustomerStepInv
<1>4. CASE UNCHANGED vars
  BY <1>4 DEF vars, svars, cvars, Inv, Typed, TypeOK, CustomerTypeOK, Locks, OneHolder,
              ReadIsCurrent, WrittenIsPermitted, Holds, AccountOf, TypeOf, Books, KeysHaveEffects,
              IsEffect, Effects, AcceptedByEvent, RowsExist, HistoryIsLegal, ActiveIsOperational
<1> QED
  BY <1>1, <1>2, <1>3, <1>4 DEF Next

(* The row of an account, its history and its operational account agree,   *)
(* whatever the requests and their interleaving: no command is decided on  *)
(* a row that another one is changing (transition, under FOR UPDATE).      *)
THEOREM AccountsAreConsistent == Spec => []AccountIsConsistent
<1>1. Inv => AccountIsConsistent
  BY DEF Inv, Typed, Books, AccountIsConsistent
<1> QED
  BY <1>1, InitInv, NextInv, PTL DEF Spec

(* A key is answered once: one event of its command, one audit intent, or  *)
(* neither (lockCommand, findReplay, insertCommand).                       *)
THEOREM KeysAreAnsweredOnce == Spec => []OneEffectPerCommand
<1>1. Inv => OneEffectPerCommand
  <2> SUFFICES ASSUME Inv, NEW k \in Keys
               PROVE  /\ intents[k] = Cardinality(Effects(k))
                      /\ Cardinality(Effects(k)) = IF command[k] = NoRequest THEN 0 ELSE 1
                      /\ \A e \in Effects(k) : /\ e[1] = command[k].account
                                               /\ history[e[1]][e[2]].type = command[k].type
    BY DEF OneEffectPerCommand
  <2>1. CASE command[k] = NoRequest
    <3>1. Effects(k) = {} /\ intents[k] = 0
      BY <2>1 DEF Inv, Books, KeysHaveEffects
    <3>2. Cardinality(Effects(k)) = 0
      BY <3>1, FS_EmptySet
    <3> QED
      BY <2>1, <3>1, <3>2
  <2>2. CASE command[k] # NoRequest
    <3>1. PICK a \in Accounts, i \in Nat : IsEffect(k, a, i) /\ intents[k] = 1
      BY <2>2 DEF Inv, Books, KeysHaveEffects
    <3>2. Effects(k) = {<<a, i>>} /\ a = command[k].account /\ history[a][i].type = command[k].type
      BY <3>1 DEF IsEffect
    <3>3. Cardinality(Effects(k)) = 1
      BY <3>2, FS_Singleton
    <3> QED
      BY <2>2, <3>1, <3>2, <3>3
  <2> QED
    BY <2>1, <2>2
<1> QED
  BY <1>1, InitInv, NextInv, PTL DEF Spec
-----------------------------------------------------------------------------
(* A set of numbers has a least one, and one that holds 0 and every next   *)
(* number holds all.                                                       *)
LEMMA LeastNumber ==
  ASSUME NEW T, T \subseteq Nat, T # {}
  PROVE  \E n \in T : \A m \in T : n <= m
<1> DEFINE R == OpToRel(<, Nat)
<1>1. IsWellFoundedOn(R, Nat)
  BY NatLessThanWellFounded
<1>2. \A x, y \in Nat : <<x, y>> \in R <=> x < y
  BY DEF OpToRel
<1> HIDE DEF R
<1>3. PICK n \in T : \A m \in T : ~ (<<m, n>> \in R)
  BY <1>1, WFMin
<1>4. ASSUME NEW m \in T PROVE n <= m
  <2>1. m \in Nat /\ n \in Nat
    OBVIOUS
  <2>2. ~(m < n)
    BY <1>2, <1>3, <2>1
  <2> QED
    BY <2>1, <2>2
<1> QED
  BY <1>4

(* So a set that holds 0 and the successor of each member holds every      *)
(* number.                                                                 *)
LEMMA EveryNumber ==
  ASSUME NEW T, 0 \in T, \A n \in Nat : n \in T => n + 1 \in T
  PROVE  Nat \subseteq T
<1> SUFFICES ASSUME Nat \ T # {} PROVE FALSE
  OBVIOUS
<1>1. PICK n \in Nat \ T : \A m \in Nat \ T : n <= m
  BY LeastNumber
<1>2. n # 0 /\ n - 1 \in Nat /\ n - 1 \in T
  BY <1>1
<1> QED
  BY <1>1, <1>2


-----------------------------------------------------------------------------
(* The balance: the running sums of a history are the only function that   *)
(* solves the equation which defines them.                                 *)
Amount(e) ==
  CASE e.type = "DEPOSIT"  -> e.amount
    [] e.type = "WITHDRAW" -> - e.amount
    [] OTHER               -> 0

Running(h, n, f) ==
  f = [i \in 0..n |->
        CASE i = 0                   -> 0
          [] i > 0 /\ h[i].type = "DEPOSIT"  -> f[i - 1] + h[i].amount
          [] i > 0 /\ h[i].type = "WITHDRAW" -> f[i - 1] - h[i].amount
          [] OTHER                   -> f[i - 1]]

Adds(h, n, f) ==
  /\ f = [i \in 0..n |-> f[i]] /\ f[0] = 0
  /\ \A i \in 0..n : f[i] \in Int
  /\ \A i \in 1..n : f[i] = f[i - 1] + Amount(h[i])

LEMMA AmountIsInt ==
  ASSUME NEW e \in Event
  PROVE  Amount(e) \in Int
  BY DEF Amount, Event

LEMMA AddsRun ==
  ASSUME NEW h \in Seq(Event), NEW n \in Nat, n <= Len(h), NEW f, Adds(h, n, f)
  PROVE  Running(h, n, f)
<1> DEFINE g(i) ==
        CASE i = 0                   -> 0
          [] i > 0 /\ h[i].type = "DEPOSIT"  -> f[i - 1] + h[i].amount
          [] i > 0 /\ h[i].type = "WITHDRAW" -> f[i - 1] - h[i].amount
          [] OTHER                   -> f[i - 1]
<1>1. ASSUME NEW i \in 0..n PROVE f[i] = g(i)
  <2>1. CASE i = 0
    BY <2>1 DEF Adds
  <2>2. CASE i > 0
    <3>1. i \in 1..n /\ i \in 1..Len(h) /\ i - 1 \in 0..n
      BY <2>2
    <3>2. f[i] = f[i - 1] + Amount(h[i]) /\ f[i - 1] \in Int
      BY <3>1 DEF Adds
    <3>3. h[i] \in Event
      BY <3>1
    <3>4. h[i].amount \in Int
      BY <3>3 DEF Event
    <3> QED
      BY <2>2, <3>2, <3>4 DEF Amount
  <2> QED
    BY <2>1, <2>2
<1>2. f = [i \in 0..n |-> f[i]]
  BY DEF Adds
<1>3. [i \in 0..n |-> f[i]] = [i \in 0..n |-> g(i)]
  BY <1>1
<1> QED
  BY <1>2, <1>3 DEF Running

LEMMA RunAdds ==
  ASSUME NEW h \in Seq(Event), NEW n \in Nat, n <= Len(h), NEW f, Running(h, n, f)
  PROVE  Adds(h, n, f)
<1> DEFINE g(i) ==
        CASE i = 0                   -> 0
          [] i > 0 /\ h[i].type = "DEPOSIT"  -> f[i - 1] + h[i].amount
          [] i > 0 /\ h[i].type = "WITHDRAW" -> f[i - 1] - h[i].amount
          [] OTHER                   -> f[i - 1]
<1>1. f = [i \in 0..n |-> g(i)]
  BY DEF Running
<1>2. \A i \in 0..n : f[i] = g(i)
  BY <1>1, Zenon
<1>3. f[0] = 0
  BY <1>2
<1>4. ASSUME NEW i \in 1..n, f[i - 1] \in Int
      PROVE  f[i] = f[i - 1] + Amount(h[i]) /\ f[i] \in Int
  <2>1. i \in 0..n /\ i \in 1..Len(h) /\ i > 0 /\ i # 0
    OBVIOUS
  <2>2. h[i] \in Event
    BY <2>1
  <2>3. h[i].amount \in Int
    BY <2>2 DEF Event
  <2>4. f[i] = g(i)
    BY <1>2, <2>1
  <2> QED
    BY <1>4, <2>1, <2>3, <2>4 DEF Amount
<1> DEFINE T == {m \in Nat : m <= n => f[m] \in Int}
<1>5. 0 \in T
  BY <1>3
<1>6. ASSUME NEW m \in Nat, m \in T PROVE m + 1 \in T
  <2>1. ASSUME m + 1 <= n PROVE f[m + 1] \in Int
    <3>1. m + 1 \in 1..n /\ (m + 1) - 1 = m /\ f[m] \in Int
      BY <1>6, <2>1
    <3> QED
      BY <1>4, <3>1
  <2> QED
    BY <2>1
<1>7. Nat \subseteq T
  <2> HIDE DEF T
  <2> QED
    BY <1>5, <1>6, EveryNumber
<1>8. \A i \in 0..n : f[i] \in Int
  BY <1>7
<1>9. \A i \in 1..n : f[i] = f[i - 1] + Amount(h[i])
  BY <1>4, <1>8
<1>10. f = [i \in 0..n |-> f[i]]
  BY <1>1, <1>2, Zenon
<1> QED
  BY <1>3, <1>8, <1>9, <1>10 DEF Adds

LEMMA SumsExist ==
  ASSUME NEW h \in Seq(Event)
  PROVE  \E f : Adds(h, Len(h), f)
<1> DEFINE T == {n \in Nat : n <= Len(h) => \E f : Adds(h, n, f)}
<1>1. 0 \in T
  <2>1. Adds(h, 0, [i \in 0..0 |-> 0])
    BY DEF Adds
  <2> QED
    BY <2>1
<1>2. ASSUME NEW n \in Nat, n \in T PROVE n + 1 \in T
  <2> SUFFICES ASSUME n + 1 <= Len(h) PROVE \E f : Adds(h, n + 1, f)
    OBVIOUS
  <2>1. PICK f : Adds(h, n, f)
    BY <1>2
  <2> DEFINE g == [i \in 0..(n + 1) |-> IF i <= n THEN f[i] ELSE f[n] + Amount(h[n + 1])]
  <2>2. Amount(h[n + 1]) \in Int /\ f[n] \in Int
    BY <2>1, AmountIsInt DEF Adds
  <2>3. (\A i \in 0..n : g[i] = f[i]) /\ g[n + 1] = f[n] + Amount(h[n + 1])
    OBVIOUS
  <2>4. g = [i \in 0..(n + 1) |-> g[i]]
    OBVIOUS
  <2> HIDE DEF g
  <2>5. g[0] = 0 /\ \A i \in 0..(n + 1) : g[i] \in Int
    BY <2>1, <2>2, <2>3 DEF Adds
  <2>6. ASSUME NEW i \in 1..(n + 1) PROVE g[i] = g[i - 1] + Amount(h[i])
    <3>1. CASE i = n + 1
      BY <2>3, <3>1
    <3>2. CASE i <= n
      <4>1. i \in 1..n /\ i \in 0..n /\ i - 1 \in 0..n
        BY <3>2
      <4> QED
        BY <2>1, <2>3, <4>1 DEF Adds
    <3> QED
      BY <3>1, <3>2
  <2> QED
    BY <2>4, <2>5, <2>6 DEF Adds
<1>3. Nat \subseteq T
  <2> HIDE DEF T
  <2> QED
    BY <1>1, <1>2, EveryNumber
<1> QED
  BY <1>3

(* Histories that begin alike have the same sums so far.                   *)
LEMMA SumsAgree ==
  ASSUME NEW h, NEW g, NEW n \in Nat, NEW m \in Nat, n <= m, NEW e, NEW f,
         Adds(h, n, e), Adds(g, m, f), \A i \in 1..n : h[i] = g[i]
  PROVE  \A i \in 0..n : e[i] = f[i]
<1> DEFINE T == {i \in Nat : i <= n => e[i] = f[i]}
<1>1. 0 \in T
  BY DEF Adds
<1>2. ASSUME NEW i \in Nat, i \in T PROVE i + 1 \in T
  <2>1. ASSUME i + 1 <= n PROVE e[i + 1] = f[i + 1]
    <3>1. i + 1 \in 1..n /\ i + 1 \in 1..m /\ (i + 1) - 1 = i /\ e[i] = f[i]
      BY <1>2, <2>1
    <3> QED
      BY <3>1 DEF Adds
  <2> QED
    BY <2>1
<1>3. Nat \subseteq T
  <2> HIDE DEF T
  <2> QED
    BY <1>1, <1>2, EveryNumber
<1> QED
  BY <1>3

LEMMA BalanceIsTheSum ==
  ASSUME NEW h \in Seq(Event), NEW f, Adds(h, Len(h), f)
  PROVE  Balance(h) = f[Len(h)] /\ Balance(h) \in Int
<1> DEFINE g == CHOOSE x : Running(h, Len(h), x)
<1>1. Balance(h) = g[Len(h)]
  BY DEF Balance, Running
<1>2. Running(h, Len(h), f)
  BY AddsRun
<1>3. Running(h, Len(h), g)
  BY <1>2
<1> HIDE DEF g
<1>4. Adds(h, Len(h), g)
  BY <1>3, RunAdds
<1>5. Len(h) \in 0..Len(h) /\ Len(h) \in Nat
  OBVIOUS
<1>6. g[Len(h)] = f[Len(h)]
  BY <1>4, <1>5, SumsAgree
<1>7. f[Len(h)] \in Int
  BY <1>5 DEF Adds
<1> QED
  BY <1>1, <1>6, <1>7

LEMMA BalanceAppend ==
  ASSUME NEW h \in Seq(Event), NEW e \in Event
  PROVE  /\ Balance(h) \in Int
         /\ Balance(Append(h, e)) = Balance(h) + Amount(e)
<1> DEFINE g == Append(h, e)
           n == Len(h)
<1>1. /\ g \in Seq(Event) /\ Len(g) = n + 1 /\ g[n + 1] = e /\ n \in Nat
      /\ \A i \in 1..n : h[i] = g[i]
  OBVIOUS
<1> HIDE DEF g, n
<1>2. PICK f : Adds(h, n, f)
  BY SumsExist DEF n
<1>3. PICK x : Adds(g, n + 1, x)
  BY <1>1, SumsExist
<1>4. Balance(h) = f[n] /\ Balance(h) \in Int
  BY <1>2, BalanceIsTheSum DEF n
<1>5. Balance(g) = x[n + 1]
  BY <1>1, <1>3, BalanceIsTheSum
<1>6. f[n] = x[n]
  <2>1. n <= n + 1 /\ n + 1 \in Nat /\ n \in 0..n
    BY <1>1
  <2>2. \A i \in 0..n : f[i] = x[i]
    BY <1>1, <1>2, <1>3, <2>1, SumsAgree
  <2> QED
    BY <2>1, <2>2
<1>7. x[n + 1] = x[n] + Amount(e)
  <2>1. n + 1 \in 1..(n + 1) /\ (n + 1) - 1 = n
    BY <1>1
  <2> QED
    BY <1>1, <1>3, <2>1 DEF Adds
<1> QED
  BY <1>4, <1>5, <1>6, <1>7 DEF g

(* An account that nothing was withdrawn from is not overdrawn.            *)
LEMMA NothingWithdrawn ==
  ASSUME NEW h \in Seq(Event), \A i \in 1..Len(h) : h[i].type # "WITHDRAW"
  PROVE  Balance(h) >= 0
<1>1. PICK f : Adds(h, Len(h), f)
  BY SumsExist
<1> DEFINE T == {n \in Nat : n <= Len(h) => f[n] >= 0}
<1>2. 0 \in T
  BY <1>1 DEF Adds
<1>3. ASSUME NEW n \in Nat, n \in T PROVE n + 1 \in T
  <2>1. ASSUME n + 1 <= Len(h) PROVE f[n + 1] >= 0
    <3>1. n + 1 \in 1..Len(h) /\ (n + 1) - 1 = n /\ n \in 0..Len(h) /\ f[n] >= 0
      BY <1>3, <2>1
    <3>2. h[n + 1] \in Event /\ h[n + 1].type # "WITHDRAW"
      BY <3>1
    <3>3. Amount(h[n + 1]) \in Nat
      BY <3>2 DEF Amount, Event
    <3>4. f[n + 1] = f[n] + Amount(h[n + 1]) /\ f[n] \in Int
      BY <1>1, <3>1 DEF Adds
    <3> QED
      BY <3>1, <3>3, <3>4
  <2> QED
    BY <2>1
<1>4. Nat \subseteq T
  <2> HIDE DEF T
  <2> QED
    BY <1>2, <1>3, EveryNumber
<1>5. f[Len(h)] >= 0
  BY <1>4
<1> QED
  BY <1>1, <1>5, BalanceIsTheSum

-----------------------------------------------------------------------------
(* What is about to be withdrawn is still on the account, whose row the    *)
(* session holds.                                                          *)
Covered(s) ==
  session[s].stage = "written" /\ TypeOf(s) = "WITHDRAW" =>
    Balance(history[AccountOf(s)]) >= session[s].request.amount

Funds == NeverOverdrawn /\ \A s \in Sessions : Covered(s)

LEMMA InitFunds == Init => Funds
<1> SUFFICES ASSUME Init PROVE Funds
  OBVIOUS
<1>1. PICK n \in [Accounts -> 0..5] : history = [a \in Accounts |-> Past(n[a])]
  BY OpeningFacts DEF Init
<1>2. ASSUME NEW a \in Accounts PROVE Balance(history[a]) >= 0
  <2>1. n[a] \in 0..5 /\ history[a] = Past(n[a])
    BY <1>1
  <2>2. PICK m \in 0..5 : m = n[a]
    BY <2>1
  <2>3. /\ Past(m) \in Seq(Event) /\ Len(Past(m)) = m
        /\ \A i \in 1..m : Past(m)[i].type = Opening[i]
    BY PastFacts
  <2>4. \A i \in 1..5 : Opening[i] # "WITHDRAW"
    BY DEF Opening
  <2>5. \A i \in 1..Len(Past(m)) : Past(m)[i].type # "WITHDRAW"
    BY <2>3, <2>4
  <2> QED
    BY <2>1, <2>2, <2>3, <2>5, NothingWithdrawn
<1>3. \A s \in Sessions : Covered(s)
  BY DEF Init, Idle, Covered
<1> QED
  BY <1>2, <1>3 DEF Funds, NeverOverdrawn

(* A step that appends to no history, and whose session, if it comes to a  *)
(* written withdrawal, has asked for the balance.                          *)
LEMMA FundsKept ==
  ASSUME Funds, UNCHANGED history,
         \A s \in Sessions : session'[s] # session[s] =>
           \/ session'[s].stage # "written"
           \/ /\ session'[s].request = session[s].request
              /\ TypeOf(s) = "WITHDRAW" =>
                   Balance(history[AccountOf(s)]) >= session[s].request.amount
  PROVE  Funds'
<1>1. NeverOverdrawn'
  BY DEF Funds, NeverOverdrawn
<1>2. ASSUME NEW s \in Sessions PROVE Covered(s)'
  <2>1. CASE session'[s] = session[s]
    BY <2>1 DEF Funds, Covered, TypeOf, AccountOf
  <2>2. CASE session'[s] # session[s]
    BY <2>2 DEF Covered, TypeOf, AccountOf
  <2> QED
    BY <2>1, <2>2
<1> QED
  BY <1>1, <1>2 DEF Funds

(* Of the steps of a session, a commit and a creation alone append, each   *)
(* to an account that no other session holds.                              *)
LEMMA FundsRecorded ==
  ASSUME Inv, Funds, NEW s \in Sessions, NEW k \in Keys, NEW q \in Requests, Record(k, q),
         session' = [session EXCEPT ![s] = Idle],
         \A v \in Sessions \ {s} : Holds(v) => AccountOf(v) # q.account,
         q.type = "WITHDRAW" => Balance(history[q.account]) >= q.amount
  PROVE  Funds'
<1> DEFINE a == q.account
           h == history[a]
           e == [type |-> q.type, amount |-> q.amount, key |-> k]
<1>1. a \in Accounts /\ q.type \in DOMAIN To /\ q.amount \in Nat
  BY RequestFacts
<1>2. history \in [Accounts -> Seq(Event)] /\ h \in Seq(Event)
  BY <1>1 DEF Inv, Typed
<1>3. e \in Event
  BY <1>1 DEF Event
<1>4. history'[a] = Append(h, e) /\ \A b \in Accounts \ {a} : history'[b] = history[b]
  BY <1>1, <1>2 DEF Record
<1>5. Amount(e) = IF q.type = "DEPOSIT" THEN q.amount
                  ELSE IF q.type = "WITHDRAW" THEN - q.amount ELSE 0
  BY DEF Amount
<1>6. Balance(h) >= 0
  BY <1>1 DEF Funds, NeverOverdrawn
<1>7. Balance(Append(h, e)) = Balance(h) + Amount(e) /\ Balance(h) \in Int
  BY <1>2, <1>3, BalanceAppend
<1>8. q.type = "WITHDRAW" => Balance(h) >= q.amount
  OBVIOUS
<1> HIDE DEF h, e
<1>9. Balance(Append(h, e)) >= 0
  BY <1>1, <1>5, <1>6, <1>7, <1>8
<1>10. NeverOverdrawn'
  <2>1. ASSUME NEW b \in Accounts PROVE Balance(history'[b]) >= 0
    BY <1>4, <1>9 DEF Funds, NeverOverdrawn
  <2> QED
    BY <2>1 DEF NeverOverdrawn
<1>11. ASSUME NEW v \in Sessions PROVE Covered(v)'
  <2>1. CASE v = s
    <3>1. session'[s] = Idle
      BY DEF Inv, Typed, TypeOK
    <3> QED
      BY <2>1, <3>1 DEF Covered, Idle
  <2>2. CASE v # s /\ session[v].stage = "written"
    <3>1. session'[v] = session[v] /\ Holds(v)
      BY <2>2 DEF Inv, Typed, TypeOK, Holds
    <3>2. AccountOf(v) # a /\ AccountOf(v) \in Accounts
      BY <2>2, <3>1, RequestFacts DEF AccountOf, Inv, Typed
    <3>3. history'[AccountOf(v)] = history[AccountOf(v)]
      BY <1>4, <3>2
    <3> QED
      BY <3>1, <3>3 DEF Funds, Covered, TypeOf, AccountOf
  <2>3. CASE v # s /\ session[v].stage # "written"
    <3>1. session'[v] = session[v]
      BY <2>3 DEF Inv, Typed, TypeOK
    <3> QED
      BY <2>3, <3>1 DEF Covered
  <2> QED
    BY <2>1, <2>2, <2>3
<1> QED
  BY <1>10, <1>11 DEF Funds

LEMMA SessionFunds ==
  ASSUME Inv, Funds, NEW s \in Sessions, Begin(s) \/ Locking(s) \/ Work(s) \/ Abort(s)
  PROVE  Funds'
<1>1. session \in [Sessions -> [stage: Stage, key: Keys \cup {NoKey},
                                request: Requests \cup {NoRequest}, row: Row]]
  BY DEF Inv, Typed, TypeOK
<1>2. ASSUME Leave(s) PROVE Funds'
  <2>1. UNCHANGED history /\ session' = [session EXCEPT ![s] = Idle]
    BY <1>2 DEF Leave
  <2>2. \A v \in Sessions : session'[v] # session[v] => session'[v].stage # "written"
    BY <1>1, <2>1 DEF Idle
  <2> QED
    BY <2>1, <2>2, FundsKept
<1>3. CASE Begin(s)
  <2>1. PICK k \in Keys, q \in Requests : session' = [session EXCEPT ![s] =
          [stage |-> "begun", key |-> k, request |-> q, row |-> NoRow]]
    BY <1>3 DEF Begin
  <2>2. \A v \in Sessions : session'[v] # session[v] => session'[v].stage # "written"
    BY <1>1, <2>1
  <2> QED
    BY <1>3, <2>2, FundsKept DEF Begin
<1>4. CASE LockCommand(s) \/ LockAccount(s) \/ CheckRights(s)
  <2>1. UNCHANGED history
    BY <1>4 DEF LockCommand, LockAccount, CheckRights
  <2>2. \A v \in Sessions : session'[v] # session[v] => session'[v].stage # "written"
    BY <1>1, <1>4 DEF LockCommand, LockAccount, CheckRights, Goto
  <2> QED
    BY <2>1, <2>2, FundsKept
<1>5. CASE Write(s)
  <2>1. UNCHANGED history
    BY <1>5 DEF Write
  <2>2. session' = [session EXCEPT ![s].stage = "written"]
    BY <1>5 DEF Write, Goto
  <2>3. ASSUME NEW v \in Sessions, session'[v] # session[v]
        PROVE  v = s /\ session'[v].request = session[v].request
    BY <1>1, <2>2, <2>3
  <2>4. TypeOf(s) = "WITHDRAW" => Balance(history[AccountOf(s)]) >= session[s].request.amount
    BY <1>5 DEF Write, Permitted, TypeOf, AccountOf
  <2> QED
    BY <2>1, <2>3, <2>4, FundsKept
<1>6. CASE Create(s)
  <2> DEFINE k == session[s].key
             q == session[s].request
  <2>1. k \in Keys /\ q \in Requests /\ q.type = "CREATE" /\ account[q.account] = NoRow
    BY <1>6, SessionTyped DEF Inv, Sound, Create
  <2>2. \A v \in Sessions \ {s} : Holds(v) => AccountOf(v) # q.account
    BY <2>1 DEF Inv, Locks, ReadIsCurrent
  <2>3. session' = [session EXCEPT ![s] = Idle] /\ Record(k, q)
    BY <1>6 DEF Create
  <2> HIDE DEF k, q
  <2> QED
    BY <2>1, <2>2, <2>3, FundsRecorded
<1>7. CASE Commit(s)
  <2> DEFINE k == session[s].key
             q == session[s].request
  <2>1. k \in Keys /\ q \in Requests /\ Holds(s) /\ session[s].stage = "written"
    BY <1>7, SessionTyped DEF Inv, Sound, Commit, Holds
  <2>2. \A v \in Sessions \ {s} : Holds(v) => AccountOf(v) # q.account
    BY <2>1 DEF Inv, Locks, OneHolder, AccountOf
  <2>3. session' = [session EXCEPT ![s] = Idle] /\ Record(k, q)
    BY <1>7 DEF Commit
  <2>4. q.type = "WITHDRAW" => Balance(history[q.account]) >= q.amount
    BY <2>1 DEF Funds, Covered, TypeOf, AccountOf
  <2> HIDE DEF k, q
  <2> QED
    BY <2>1, <2>2, <2>3, <2>4, FundsRecorded
<1>8. CASE Replay(s) \/ Refuse(s) \/ Timeout(s) \/ Abort(s)
  BY <1>2, <1>8 DEF Replay, Refuse, Timeout, Abort
<1> QED
  BY <1>3, <1>4, <1>5, <1>6, <1>7, <1>8 DEF Locking, Work

LEMMA NextFunds == Inv /\ Funds /\ [Next]_vars => Funds'
<1> SUFFICES ASSUME Inv, Funds, [Next]_vars PROVE Funds'
  OBVIOUS
<1>1. CASE \E s \in Sessions : Begin(s) \/ Locking(s) \/ Work(s) \/ Abort(s)
  BY <1>1, SessionFunds
<1>2. CASE UNCHANGED <<history, session>>
  BY <1>2, FundsKept
<1>3. CASE ImportAccount \/ CustomerStep \/ UNCHANGED vars
  BY <1>2, <1>3 DEF ImportAccount, CustomerStep, svars, vars
<1> QED
  BY <1>1, <1>3 DEF Next

(* However the deposits and withdrawals of an account interleave, what its *)
(* events add up to is never less than nothing: the balance that a         *)
(* withdrawal was decided on is still there when it commits, since its     *)
(* session holds the row (transition, under FOR UPDATE).                   *)
THEOREM AccountsAreNeverOverdrawn == Spec => []NeverOverdrawn
<1>1. Init => Inv /\ Funds
  BY InitInv, InitFunds
<1>2. Inv /\ Funds /\ [Next]_vars => (Inv /\ Funds)'
  BY NextInv, NextFunds
<1>3. Inv /\ Funds => NeverOverdrawn
  BY DEF Funds
<1> QED
  BY <1>1, <1>2, <1>3, PTL DEF Spec
=============================================================================
