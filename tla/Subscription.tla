----------------------------- MODULE Subscription -----------------------------
(***************************************************************************)
(* The life of investment subscriptions: the account's row, its            *)
(* append-only history, the commands already answered, the audit intents   *)
(* and the operational account.  A session is the transaction of one API   *)
(* request, READ COMMITTED, on a connection of a bounded pool; the check   *)
(* of the customer's rights needs a second connection of the same pool.    *)
(***************************************************************************)
EXTENDS CustomerRestrictions, Integers, Sequences, FiniteSets

CONSTANTS
  Accounts,    (* of one customer                                          *)
  Sessions,
  Keys,        (* idempotency keys                                         *)
  Requests,    (* what may be asked: [account, type, amount]               *)
  PoolSize,    (* connections of the API's pool                            *)
  NoKey, NoRequest

VARIABLES
  account,      (* investment.subscription_account                         *)
  history,      (* investment.subscription_event, by account               *)
  operational,  (* the accounts that have a row in investment.account      *)
  command,      (* investment.subscription_command, by key                 *)
  intents,      (* audit intents in the outbox, by key                     *)
  session

svars == <<account, history, operational, command, intents, session>>
vars  == <<svars, cvars>>

-----------------------------------------------------------------------------
(* require(...): the statuses a command may start from.                    *)
From ==
  [START      |-> {"PRE_SIMULATION"},
   ACCEPT     |-> {"PENDING_SUBSCRIPTION"},
   ACTIVATE   |-> {"PENDING_SUBSCRIPTION"},
   DEPOSIT    |-> {"ACTIVE"},
   WITHDRAW   |-> {"ACTIVE"},
   BLOCK      |-> {"ACTIVE"},
   UNBLOCK    |-> {"BLOCKED"},
   RENEW      |-> {"ACTIVE", "MATURED"},
   MATURE     |-> {"ACTIVE"},
   SUCCESSION |-> {"ACTIVE", "BLOCKED", "MATURED"},
   CLOSE      |-> {"ACTIVE", "BLOCKED", "MATURED", "SUCCESSION"}]

(* The status a command leads to.                                          *)
To ==
  [CREATE     |-> "PRE_SIMULATION",
   START      |-> "PENDING_SUBSCRIPTION",
   ACCEPT     |-> "PENDING_SUBSCRIPTION",
   ACTIVATE   |-> "ACTIVE",
   DEPOSIT    |-> "ACTIVE",
   WITHDRAW   |-> "ACTIVE",
   BLOCK      |-> "BLOCKED",
   UNBLOCK    |-> "ACTIVE",
   RENEW      |-> "ACTIVE",
   MATURE     |-> "MATURED",
   SUCCESSION |-> "SUCCESSION",
   CLOSE      |-> "CLOSED"]

ASSUME SubscriptionAssumption ==
  /\ \A q \in Requests : q.account \in Accounts /\ q.type \in DOMAIN To /\ q.amount \in Nat
  /\ PoolSize \in Nat
  /\ NoKey \notin Keys /\ NoRequest \notin Requests

(* The commands that the customer's restrictions block.                    *)
RightsTypes == {"ACTIVATE", "DEPOSIT", "WITHDRAW", "RENEW", "MATURE", "SUCCESSION", "CLOSE"}

Status == {"PRE_SIMULATION", "PENDING_SUBSCRIPTION", "ACTIVE", "BLOCKED", "MATURED",
           "SUCCESSION", "CLOSED"}
Row    == [status: Status \cup {"none"}, accepted: BOOLEAN]
NoRow  == [status |-> "none", accepted |-> FALSE]

Event == [type: DOMAIN To, amount: Nat, key: Keys \cup {NoKey}]

Stage == {"idle", "begun", "keyed", "locked", "checked", "written"}

Idle == [stage |-> "idle", key |-> NoKey, request |-> NoRequest, row |-> NoRow]

(* The type invariant.                                                     *)
TypeOK ==
  /\ account \in [Accounts -> Row]
  /\ \A a \in Accounts : \A i \in 1..Len(history[a]) : history[a][i] \in Event
  /\ operational \subseteq Accounts
  /\ command \in [Keys -> Requests \cup {NoRequest}]
  /\ intents \in [Keys -> Nat]
  /\ session \in [Sessions -> [stage: Stage, key: Keys \cup {NoKey},
                               request: Requests \cup {NoRequest}, row: Row]]
  /\ CustomerTypeOK

(* How an account comes into being; the past of Init is a beginning of it. *)
Opening ==
  <<"CREATE", "START", "ACCEPT", "ACTIVATE", "DEPOSIT">>

Past(n) == [i \in 1..n |-> [type |-> Opening[i], amount |-> IF i = 5 THEN 1 ELSE 0, key |-> NoKey]]

RowOfPast(n) ==
  IF n = 0 THEN NoRow ELSE [status |-> To[Opening[n]], accepted |-> n >= 3]

Init ==
  /\ \E n \in [Accounts -> 0..Len(Opening)] :
       /\ account = [a \in Accounts |-> RowOfPast(n[a])]
       /\ history = [a \in Accounts |-> Past(n[a])]
       /\ operational = {a \in Accounts : n[a] >= 4}
  /\ command = [k \in Keys |-> NoRequest]
  /\ intents = [k \in Keys |-> 0]
  /\ session = [s \in Sessions |-> Idle]
  /\ CustomerInit

-----------------------------------------------------------------------------
(* Transactions hold a connection each; the check of the rights takes one  *)
(* for a moment.                                                           *)
ConnectionFree ==
  Cardinality({s \in Sessions : session[s].stage # "idle"}) < PoolSize

Begin(s) ==
  /\ session[s].stage = "idle"
  /\ ConnectionFree
  /\ \E k \in Keys, q \in Requests : session' = [session EXCEPT ![s] =
       [stage |-> "begun", key |-> k, request |-> q, row |-> NoRow]]
  /\ UNCHANGED <<account, history, operational, command, intents, cvars>>

Goto(s, stage) == session' = [session EXCEPT ![s].stage = stage]

(* COMMIT without a change, or ROLLBACK.                                   *)
Leave(s) ==
  /\ session' = [session EXCEPT ![s] = Idle]
  /\ UNCHANGED <<account, history, operational, command, intents, cvars>>

(* pg_advisory_xact_lock on the key.                                       *)
KeyFree(s) ==
  \A v \in Sessions \ {s} :
    session[v].stage \in {"idle", "begun"} \/ session[v].key # session[s].key

LockCommand(s) ==
  /\ session[s].stage = "begun"
  /\ KeyFree(s)
  /\ command[session[s].key] = NoRequest
  /\ Goto(s, "keyed")
  /\ UNCHANGED <<account, history, operational, command, intents, cvars>>

(* findReplay: the stored outcome, or the refusal of a key that was used   *)
(* for another command.                                                    *)
Replay(s) ==
  /\ session[s].stage = "begun"
  /\ KeyFree(s)
  /\ command[session[s].key] # NoRequest
  /\ Leave(s)

(* Mutant: SELECT without FOR UPDATE.                                      *)
RowFreeIgnored(s) == TRUE

RowFree(s) ==
  \A v \in Sessions \ {s} :
    session[v].stage \in {"locked", "checked", "written"} =>
      session[v].request.account # session[s].request.account

(* SELECT ... FOR UPDATE of the account's row.                             *)
LockAccount(s) ==
  LET a == session[s].request.account IN
  /\ session[s].stage = "keyed"
  /\ session[s].request.type # "CREATE"
  /\ account[a] # NoRow
  /\ RowFree(s)
  /\ session' = [session EXCEPT ![s].stage = "locked", ![s].row = account[a]]
  /\ UNCHANGED <<account, history, operational, command, intents, cvars>>

NeedsRights(s) == session[s].request.type \in RightsTypes

(* The profile is read on another connection, without a lock.              *)
CheckRights(s) ==
  /\ session[s].stage = "locked"
  /\ NeedsRights(s)
  /\ ConnectionFree
  /\ ~Restricted
  /\ Goto(s, "checked")
  /\ UNCHANGED <<account, history, operational, command, intents, cvars>>

(* What the events of an account add up to.                                *)
Balance(h) ==
  LET sum[i \in 0..Len(h)] ==
        CASE i = 0                   -> 0
          [] i > 0 /\ h[i].type = "DEPOSIT"  -> sum[i - 1] + h[i].amount
          [] i > 0 /\ h[i].type = "WITHDRAW" -> sum[i - 1] - h[i].amount
          [] OTHER                   -> sum[i - 1]
  IN  sum[Len(h)]

(* The domain's checks on the row that was read, and the funds.            *)
Permitted(s) ==
  LET q == session[s].request IN
  /\ session[s].row.status \in From[q.type]
  /\ q.type = "ACTIVATE" => session[s].row.accepted
  /\ q.type = "WITHDRAW" => Balance(history[q.account]) >= q.amount

(* What comes before the mutation is done.                                 *)
Cleared(s) ==
  \/ session[s].stage = "checked"
  \/ session[s].stage = "locked" /\ ~NeedsRights(s)

(* The statements of transition, which commit together.                    *)
Write(s) ==
  /\ Cleared(s)
  /\ Permitted(s)
  /\ Goto(s, "written")
  /\ UNCHANGED <<account, history, operational, command, intents, cvars>>

(* Mutant: insertCommand is forgotten.                                     *)
RecordWithoutCommand(k, q) ==
  /\ history' = [history EXCEPT ![q.account] =
       Append(@, [type |-> q.type, amount |-> q.amount, key |-> k])]
  /\ intents' = [intents EXCEPT ![k] = @ + 1]
  /\ UNCHANGED command

(* appendEvents, appendAuditIntent and insertCommand.                      *)
Record(k, q) ==
  /\ history' = [history EXCEPT ![q.account] =
       Append(@, [type |-> q.type, amount |-> q.amount, key |-> k])]
  /\ command' = [command EXCEPT ![k] = q]
  /\ intents' = [intents EXCEPT ![k] = @ + 1]

(* The primary keys of the command and of the account's event.             *)
KeyUnused(k) == command[k] = NoRequest

Create(s) ==
  LET k == session[s].key
      q == session[s].request IN
  /\ session[s].stage = "keyed"
  /\ q.type = "CREATE"
  /\ account[q.account] = NoRow
  /\ KeyUnused(k)
  /\ account' = [account EXCEPT ![q.account] = [status |-> To[q.type], accepted |-> FALSE]]
  /\ Record(k, q)
  /\ session' = [session EXCEPT ![s] = Idle]
  /\ UNCHANGED <<operational, cvars>>

(* Mutant: the operational account is written from the status that was read.*)
CommitReadStatus(s) ==
  LET k == session[s].key
      q == session[s].request IN
  /\ session[s].stage = "written"
  /\ KeyUnused(k)
  /\ account' = [account EXCEPT ![q.account] =
       [status |-> To[q.type], accepted |-> session[s].row.accepted \/ q.type = "ACCEPT"]]
  /\ Record(k, q)
  /\ operational' = IF session[s].row.status = "ACTIVE" THEN operational \cup {q.account}
                    ELSE operational
  /\ session' = [session EXCEPT ![s] = Idle]
  /\ UNCHANGED cvars

(* The operational account comes with the activation.                      *)
Commit(s) ==
  LET k == session[s].key
      q == session[s].request IN
  /\ session[s].stage = "written"
  /\ KeyUnused(k)
  /\ account' = [account EXCEPT ![q.account] =
       [status |-> To[q.type], accepted |-> session[s].row.accepted \/ q.type = "ACCEPT"]]
  /\ Record(k, q)
  /\ operational' = IF q.type = "ACTIVATE" THEN operational \cup {q.account} ELSE operational
  /\ session' = [session EXCEPT ![s] = Idle]
  /\ UNCHANGED cvars

(* An error that the transaction meets by itself: no such account, or one  *)
(* that exists already; a restriction; a command out of place.             *)
Refuse(s) ==
  LET q == session[s].request IN
  /\ \/ session[s].stage = "keyed" /\ (q.type = "CREATE") = (account[q.account] # NoRow)
     \/ session[s].stage = "locked" /\ NeedsRights(s) /\ ConnectionFree /\ Restricted
     \/ Cleared(s) /\ ~Permitted(s)
  /\ Leave(s)

(* Mutant: connectionTimeoutMillis is not set.                             *)
TimeoutNever(s) ==
  /\ FALSE
  /\ Leave(s)

(* connectionTimeoutMillis: no second connection came free in time.        *)
Timeout(s) ==
  /\ session[s].stage = "locked"
  /\ NeedsRights(s)
  /\ ~ConnectionFree
  /\ Leave(s)

(* The connection is lost or the process dies.                             *)
Abort(s) ==
  /\ session[s].stage # "idle"
  /\ Leave(s)

(* The publication of a batch of positions may create the operational      *)
(* account first.                                                          *)
ImportAccount ==
  /\ \E a \in Accounts \ operational : operational' = operational \cup {a}
  /\ UNCHANGED <<account, history, command, intents, session, cvars>>

(* What waits for a lock.                                                  *)
Locking(s) == LockCommand(s) \/ Replay(s) \/ LockAccount(s)

Work(s) ==
  CheckRights(s) \/ Write(s) \/ Create(s) \/ Commit(s) \/ Refuse(s) \/ Timeout(s)

CustomerStep == CustomerNext /\ UNCHANGED svars

Next ==
  \/ \E s \in Sessions :
       Begin(s) \/ Locking(s) \/ Work(s) \/ Abort(s)
  \/ ImportAccount
  \/ CustomerStep

Spec == Init /\ [][Next]_vars

(* PostgreSQL grants a lock in the order of the requests; a request whose  *)
(* turn it is goes on, and the pool's timeout runs off.                    *)
FairSpec ==
  /\ Spec
  /\ \A s \in Sessions : SF_vars(Locking(s)) /\ WF_vars(Work(s))

-----------------------------------------------------------------------------
(* However withdrawals of one account interleave, it is never overdrawn    *)
(* (the account's row lock and the balance query of transition).           *)
NeverOverdrawn == \A a \in Accounts : Balance(history[a]) >= 0

(* The events that a key has left.                                         *)
Effects(k) == UNION {{<<a, i>> : i \in {j \in DOMAIN history[a] : history[a][j].key = k}} : a \in Accounts}

(* A key is answered once: the recorded command has one event, of its own  *)
(* type and on its own account, and one audit intent; an unused key has    *)
(* left nothing (lockCommand, findReplay, insertCommand).                  *)
OneEffectPerCommand ==
  \A k \in Keys :
    /\ intents[k] = Cardinality(Effects(k))
    /\ Cardinality(Effects(k)) = IF command[k] = NoRequest THEN 0 ELSE 1
    /\ \A e \in Effects(k) : /\ e[1] = command[k].account
                             /\ history[e[1]][e[2]].type = command[k].type

(* The history of an account is a legal life, from its creation on, that   *)
(* leads to the status in its row: no command was decided on a row that    *)
(* another one was changing (transition, under FOR UPDATE).                *)
HistoryIsLegal ==
  \A a \in Accounts :
    LET h == history[a] IN
    /\ (account[a] = NoRow) = (h = <<>>)
    /\ h # <<>> => h[1].type = "CREATE" /\ To[h[Len(h)].type] = account[a].status
    /\ \A i \in 2..Len(h) :
         /\ To[h[i - 1].type] \in From[h[i].type]
         /\ h[i].type = "ACTIVATE" => \E j \in 1..(i - 1) : h[j].type = "ACCEPT"

(* A contract past its activation has its operational account              *)
(* (synchronizeOperationalAccount).                                        *)
ActiveIsOperational ==
  \A a \in Accounts :
    account[a].status \notin {"none", "PRE_SIMULATION", "PENDING_SUBSCRIPTION"} => a \in operational

(* No request waits for ever, though each holds a connection while it      *)
(* waits for a lock or for a second connection.                            *)
EverySessionEnds == \A s \in Sessions : session[s].stage # "idle" ~> session[s].stage = "idle"

(* The row of an account, its history and its operational account agree.   *)
AccountIsConsistent == TypeOK /\ HistoryIsLegal /\ ActiveIsOperational
=============================================================================
