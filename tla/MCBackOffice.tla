----------------------------- MODULE MCBackOffice -----------------------------
(* Five modules whose tables are apart from each other's, explored one     *)
(* after another: the initial state chooses one, and only its actions are  *)
(* taken.  Exports and reports, and the life of a product and its terms,   *)
(* are parts of their own, since none of their actions read the other's    *)
(* tables (a product's terms only need the product's row).                 *)
EXTENDS Calculations, Accounting, CbsIngestion, Reporting, ProductGovernance, TLC

CONSTANTS r1, r2, r3, u1, u2, u3, k1, k2, s1, s2, e1, x1, x2, d1, clear, doc, c1

VARIABLE part

Parts == {"calculations", "ledger", "ingestion", "exports", "reports", "lifecycle", "terms"}

backOfficeVars ==
  <<part, calculationVars, accountingVars, cbsVars, reportingVars, productVars>>

NothingToDo == [of |-> "nothing"]

MCInit ==
  /\ part \in Parts
  /\ output = Pending
  /\ IF part = "calculations" THEN input \in Inputs ELSE input = NothingToDo
  /\ CbsInit
  /\ part # "ingestion" => landing = [o \in Objects |-> "good"] /\ published = {}
  /\ AccountingInit /\ ReportingInit /\ ProductsInit

MCNext ==
  /\ UNCHANGED part
  /\ \/ /\ part = "calculations" /\ CalculationsNext
        /\ UNCHANGED <<accountingVars, cbsVars, reportingVars, productVars>>
     \/ /\ part = "ledger" /\ AccountingNext
        /\ UNCHANGED <<calculationVars, cbsVars, reportingVars, productVars>>
     \/ /\ part = "ingestion" /\ CbsNext
        /\ UNCHANGED <<calculationVars, accountingVars, reportingVars, productVars>>
     \/ /\ \/ part = "exports" /\ ExportNext
           \/ part = "reports" /\ ReportNext
        /\ UNCHANGED <<calculationVars, accountingVars, cbsVars, productVars>>
     \/ /\ \/ part = "lifecycle" /\ LifecycleNext
           \/ part = "terms" /\ TermsNext
        /\ UNCHANGED <<calculationVars, accountingVars, cbsVars, reportingVars>>

MCSpec == MCInit /\ [][MCNext]_backOfficeVars

MCSymmetry == Permutations(Sessions)

-----------------------------------------------------------------------------
CONSTANT Largest

Amount == 0..Largest
Pair   == [1..2 -> 0..3]

Proportional ==
  [of: {"proportional"}, total: {-4, 5, 7}, weight: [1..3 -> -1..3]]

Moudaraba ==
  [of: {"moudaraba"}, profit: {3, Largest}, investorNisba: {0, 5, 8}, bankNisba: {2, 5},
   irr: {1}, method: {"WEIGHTED_AVERAGE", "FIXED_CATEGORY_KEY"},
   category: [1..3 -> 1..2], base: [1..3 -> 0..2],
   key: {<<0, 10>>, <<3, 7>>, <<5, 5>>, <<5, 4>>, <<10>>}]

(* Quotients whose remainders are not ranked as the exact ones are, and    *)
(* products that are cut off.                                              *)
CutOff ==
  [of: {"moudaraba"}, profit: {11, 99}, investorNisba: {10}, bankNisba: {0}, irr: {0},
   method: {"WEIGHTED_AVERAGE", "FIXED_CATEGORY_KEY"}, category: {<<1, 1, 1>>, <<2, 1, 1>>},
   base: [1..3 -> {0, 1, 31, 33}], key: {<<10>>, <<7, 3>>}]

Musharaka ==
  [of: {"musharaka"}, result: {-7, -5, -2, -1, 0, 1, 2, 5, 7}, bankCapital: 0..3, partnerCapital: {0, 1, 2, 3, 7},
   bankRatio: {0, 3, 5}, partnerRatio: {5, 7, 10}, passive: {"NONE", "BANK", "PARTNER"},
   cause: {"ORDINARY_MARKET_LOSS", "MANDATE_VIOLATION"}]

Moutanaqissa ==
  [of: {"moutanaqissa"}, bankCapital: 0..9, partnerCapital: {0, 1, 3, 4, 8, 19, 20},
   maturity: BOOLEAN,
   purchases: {<<>>} \cup [1..1 -> [period: 0..1, amount: 0..4]]
                     \cup [1..2 -> [period: 1..2, amount: {0, 1, 3, 5}]]]

Loss ==
  [of: {"loss"}, loss: Amount, cause: {"CREDIT_LOSS", "SHARIA_NON_COMPLIANCE"},
   irrPolicy: {"APPROVED", "NOT_APPROVED", "NOT_APPLICABLE"},
   irr: 0..3, per: 0..3, capital: 0..3]

Wakala ==
  [of: {"wakala"}, realized: {-2, 0, 1, 2, 3, 5, Largest}, expected: 0..3, fee: {0, 2}, waiver: 0..2,
   waiverApproved: BOOLEAN, rate: {0, 3, 5, 10, 11},
   surplusPolicy: {"BANK_PERFORMANCE_INCENTIVE", "RETURN_TO_MANDANT"},
   bankFault: BOOLEAN, cause: {"UNKNOWN", "CREDIT_LOSS", "MANDATE_VIOLATION"}]

Waterfall ==
  [of: {"waterfall"}, revenue: {-1, 3, Largest}, adjustments: {-2, 0, 1}, charges: 0..1,
   losses: 0..1, purification: 0..1, bankEconomic: 0..1, moudarib: 0..1,
   per: -1..1, irr: 0..1, base: {0, 3}]

Reserve ==
  [of: {"reserve"}, kind: {"FUND", "RELEASE", "UTILIZE", "ADJUST"}, opening: {2, 3},
   move: {-3, -1, 1}, investor: 0..2, bank: {1}, investorMove: -2..1, bankMove: -1..0,
   minimum: {1, 3}, maximum: 2..3, threshold: {0, 2}, approved: BOOLEAN]

Simulation ==
  [of: {"simulation"}, investor: -1..1, bank: -1..1, investorMove: -1..1, bankMove: -1..1]

Target ==
  [of: {"target"}, base: {0, 2, 3}, rate: {0, 1, 5, 15}, current: {0, 2}, distributable: 0..2,
   key: {0, 5, 11}, bankShare: {0, 1}, lever: {"DISTRIBUTION_KEY", "TANAZUL", "PER", "IRR"},
   minimum: -1..1, maximum: -1..1]

Quotation ==
  [of: {"quotation"}, amount: 0..3, basis: {0, 2}, grossRate: 0..3, targetRate: 0..3,
   maxNisba: {0, 5, 7, 10, 11}, tanazul: 0..1, reserves: 0..1]

Base ==
  [of: {"base"}, days: 2..3, weight: 0..2,
   convention: {"DAILY_BALANCE", "AVERAGE_DAILY_BALANCE", "MINIMUM_DAILY_BALANCE",
                "PARTICIPATION_UNITS"},
   observed: [1..3 -> [date: 1..3, balance: {0, 5}, units: {1}, value: {2}]]]

Dcr ==
  [of: {"dcr"}, capital: -1..Largest, exposure: 0..Largest, threshold: {0, 8, 10, 12}]

Consolidated ==
  [of: {"consolidated"}, releases: Pair, tanazul: Pair, profit: 0..3]

Stress ==
  [of: {"stress"}, base: -1..Largest, shock: -11..11]

Generation == [base: {0, 1, 2, 3, 4, 6}, distributed: {-1, 0, 1, 2, 4, 7}]

Equity ==
  [of: {"equity"}, tolerance: {0, 5, 10},
   generations: [1..1 -> Generation] \cup [1..2 -> Generation]]

Report ==
  [of: {"report"}, buckets: {<<2, 4>>}, rows:
     {<<>>} \cup [1..2 -> [days: {-1, 0, 2, 3, 4, 5}, capital: 0..1, profit: {-1, 1}]]]

Written ==
  [negative: BOOLEAN, whole: 0..1, fraction: {<<>>, <<0>>, <<5>>, <<0, 0>>, <<5, 0>>, <<4, 9, 0>>, <<0, 0, 1>>}]

Reconcile == [of: {"reconcile"}, subledger: Written, ledger: Written, scale: 0..2]

MCInputs ==
  UNION {Proportional, Moudaraba, CutOff, Musharaka, Moutanaqissa, Loss, Wakala, Waterfall, Reserve,
         Simulation, Target, Quotation, Base, Dcr, Consolidated, Stress, Equity, Report, Reconcile}

-----------------------------------------------------------------------------
(* The ledger: a profit and a loss to post, an entry of a third run, and   *)
(* the requests that compete for an entry, a key or a source.              *)
MCMaker == [r \in Runs |-> u1]
MCDate  == [r \in Runs |-> 1]
MCDistributable == r1 :> 3 @@ r2 :> -2 @@ r3 :> 1
MCShares == r1 :> <<2, 1>> @@ r2 :> <<-2>> @@ r3 :> <<1>>
MCHours  == [severity \in {"CRITICAL"} |-> 1]

Emitted(a) == <<[account |-> -1, debit |-> a, credit |-> 0],
                [account |-> 1, debit |-> 0, credit |-> a]>>

MCRequests ==
  [op: {"POST"}, run: {r1}, actor: {u1, u3}, key: {k2}]
    \cup [op: {"POST"}, run: {r2}, actor: {u2}, key: {k1}]
    \cup [op: {"REVERSE"}, entry: {1}, date: {2}, actor: {u2}, key: {k2}]
    \cup [op: {"REVERSE"}, entry: {1}, date: {1}, actor: {u3}, key: {k1}]
    \cup [op: {"EMIT"}, source: {e1}, run: {r3}, date: {1}, actor: {u1},
          lines: {Emitted(1)}]
    \cup [op: {"ACKNOWLEDGE"}, entry: {1}, actor: {u1}, key: {k1}, action: {"REJECTED"}]
    \cup [op: {"ACKNOWLEDGE"}, entry: {1}, actor: {u1}, key: {k2},
          action: {"RETRIED", "ACKNOWLEDGED"}]
    \cup [op: {"RECONCILE"}, date: {1}, checksum: {e1}, ledger: {0},
          discrepancy: {NoDiscrepancy, [severity |-> "CRITICAL", detected |-> 0]}]

-----------------------------------------------------------------------------
(* Ingestion: two batches, a replay of one under the name of the other,    *)
(* late dates, an infected object, an invalid signature.                   *)
PositionRow(a, c, v, x) == [account |-> a, customer |-> c, product |-> "p1", currency |-> "TND",
                    opened |-> 1, business |-> 2, value |-> v, balance |-> x]
MCLandedContents == {"good", "late", "sick"}
MCRowsOf == [c \in MCLandedContents |->
  CASE c = "good" -> <<PositionRow("a1", "c1", 2, 5), PositionRow("a2", "c2", 1, 3)>>
    [] c = "late" -> <<PositionRow("a1", "c2", 3, 5)>>
    [] c = "sick" -> <<>>]
Manifest(b, k, c, n, t, signed) ==
  [batch |-> b, key |-> k, flow |-> "INVESTMENT_POSITIONS", checksum |-> c, object |-> "o1",
   rowCount |-> n, total |-> t, hour |-> 3, signed |-> signed, wellFormed |-> TRUE]
MCManifests == {Manifest("b1", "k1", "good", 2, 8, TRUE), Manifest("b2", "k1", "good", 2, 8, TRUE),
                Manifest("b1", "k2", "late", 1, 5, FALSE), Manifest("b2", "k2", "sick", 1, 4, FALSE)}
MCBusinessDate == [k \in {"k1", "k2"} |-> 2]

-----------------------------------------------------------------------------
(* Reports, products and terms.                                            *)
MCFacts == {[id |-> 1, kind |-> "run"]}
MCReferences == {[id |-> 1, source |-> "BA", from |-> 1, to |-> 2],
                 [id |-> 2, source |-> "IFSB", from |-> 2, to |-> 3]}
\* One of two products, as they want the same key; the second is not complete
MCCreations == [product : {"p1", "p2"}, actor : {"u1"}, key : {1}]
Transit(a, u, k) == [action |-> a, product |-> "p1", actor |-> u, key |-> k]
MCTransits ==
  {Transit("VALIDATE", "u1", 2), Transit("VALIDATE", "u2", 3), Transit("PUBLISH", "u1", 3),
   Transit("PUBLISH", "u2", 4), Transit("PUBLISH", "u3", 4), Transit("SUSPEND", "u1", 5),
   Transit("RESUME", "u1", 6), Transit("SUSPEND", "u2", 6), Transit("CLOSE", "u1", 2), Transit("CLOSE", "u1", 7)}
    \cup {[t EXCEPT !.product = "p2"] : t \in {Transit("VALIDATE", "u1", 2), Transit("PUBLISH", "u2", 3)}}
Period(m, n) == [from |-> m, to |-> n]
Draft(m, n, u, k) == [product |-> "p1", period |-> Period(m, n), actor |-> u, key |-> k]
MCDrafts == {Draft(1, 2, "u1", 1), Draft(2, 3, "u1", 2), Draft(3, 3, "u2", 2), Draft(3, 3, "u2", 3)}
Publication(v, u, k, d, a) ==
  [product |-> "p1", version |-> v, actor |-> u, key |-> k, businessDate |-> d, approval |-> a]
MCPublications ==
  {Publication(v, u, k, d, {}) : v \in 1..3, u \in {"u1", "u2"}, k \in {3, 4}, d \in {1}}
    \cup {Publication(v, u, 5, 3, a) : v \in 1..2, u \in {"u1", "u2"}, a \in {{}, {1}}}
===============================================================================
