----------------------------- MODULE Calculations -----------------------------
(***************************************************************************)
(* The calculations of the engine library and of the domain modules: how a *)
(* profit or a loss is divided, what a target needs, how a reserve may     *)
(* move, and the ratios that are reported.  They are pure functions; one   *)
(* step computes one of them.                                              *)
(*                                                                         *)
(* Amounts are integers (minor units).  Rates are tenths.  Where the code  *)
(* divides with decimal.js, the quotient is rounded half to even to Digits *)
(* significant digits, as there (50 or 60 of them), or cut off after them  *)
(* by allocateUnits; where it only compares such quotients the comparison  *)
(* is made exactly.                                                        *)
(***************************************************************************)
EXTENDS Integers, FiniteSets, Sequences, Functions

CONSTANTS
  Digits,   (* significant digits of a quotient                            *)
  Inputs    (* the calculations asked for, records with a field "of"       *)

VARIABLES
  input,    (* what is being calculated                                    *)
  output    (* its result, or Pending                                      *)

calculationVars == <<input, output>>

(* Powers of ten.                                                          *)
TenTo[n \in Nat] == IF n = 0 THEN 1 ELSE 10 * TenTo[n - 1]

Magnitude(a) == IF a < 0 THEN -a ELSE a

(* An amount has fewer digits than a quotient: the columns that keep the   *)
(* amounts have at most 38, the quotients 50 or 60.                        *)
FewDigits(amount) == Magnitude(amount) < TenTo[Digits - 1]

CalculationKinds ==
  {"proportional", "moudaraba", "musharaka", "moutanaqissa", "reconcile", "loss", "wakala",
   "waterfall", "reserve", "simulation", "target", "quotation", "base", "dcr", "consolidated",
   "stress", "equity", "report"}

(* What the code reads: the amounts are of either sign or not, and the     *)
(* rates, bases and capitals are not negative, as their patterns demand;   *)
(* the buckets of a report are a constant list in increasing order.        *)
ASSUME CalculationsAssumption ==
  /\ Digits \in Nat /\ Digits > 2
  /\ \A in \in Inputs :
       /\ in.of \in CalculationKinds
       /\ in.of = "proportional" => in.total \in Int /\ in.weight \in Seq(Int)
       /\ in.of = "moudaraba" =>
            /\ {in.profit, in.irr, in.investorNisba, in.bankNisba} \subseteq Nat
            /\ in.method \in {"WEIGHTED_AVERAGE", "FIXED_CATEGORY_KEY"}
            /\ in.base \in Seq(Nat) /\ in.key \in Seq(Nat)
            /\ FewDigits(in.profit) /\ FewDigits(SumFunction(in.base))
            /\ DOMAIN in.category = DOMAIN in.base
       /\ in.of = "musharaka" =>
            /\ in.result \in Int /\ FewDigits(in.result)
            /\ {in.bankCapital, in.partnerCapital, in.bankRatio, in.partnerRatio} \subseteq Nat
            /\ FewDigits(2 * (in.bankCapital + in.partnerCapital))
       /\ in.of = "moutanaqissa" =>
            /\ {in.bankCapital, in.partnerCapital} \subseteq Nat
            /\ in.purchases \in Seq([period: Int, amount: Nat])
       /\ in.of = "reconcile" =>
            /\ in.scale \in Nat
            /\ {in.subledger, in.ledger} \subseteq
                 [negative: BOOLEAN, whole: Nat, fraction: Seq(0..9)]
       /\ in.of = "loss" =>
            /\ in.loss \in Int /\ {in.irr, in.per, in.capital} \subseteq Nat
       /\ in.of = "wakala" =>
            /\ in.realized \in Int /\ {in.expected, in.fee, in.waiver, in.rate} \subseteq Nat
       /\ in.of = "waterfall" =>
            /\ {in.revenue, in.adjustments, in.charges, in.losses, in.purification,
                in.bankEconomic, in.moudarib, in.per, in.irr, in.base} \subseteq Int
            /\ FewDigits(in.revenue + in.adjustments - in.charges - in.losses)
       /\ in.of = "reserve" =>
            {in.opening, in.move, in.investor, in.bank, in.investorMove, in.bankMove} \subseteq Int
       /\ in.of = "target" =>
            /\ {in.base, in.rate, in.current, in.distributable, in.key, in.bankShare} \subseteq Nat
            /\ {in.minimum, in.maximum} \subseteq Int
       /\ in.of = "quotation" =>
            {in.amount, in.basis, in.grossRate, in.targetRate, in.maxNisba, in.tanazul,
             in.reserves} \subseteq Int
       /\ in.of = "base" =>
            /\ in.days \in Nat \ {0} /\ in.weight \in Nat
            /\ in.observed \in Seq([date: Int, balance: Nat, units: Nat, value: Nat])
            /\ FewDigits(SumFunction([i \in DOMAIN in.observed |-> in.observed[i].balance]))
       /\ in.of = "equity" =>
            /\ in.generations \in Seq([base: Int, distributed: Int]) /\ in.tolerance \in Nat
            /\ \A i \in DOMAIN in.generations : FewDigits(in.generations[i].distributed)
       /\ in.of = "dcr" => {in.capital, in.exposure, in.threshold} \subseteq Int
       /\ in.of = "stress" => {in.base, in.shock} \subseteq Int
       /\ in.of = "consolidated" =>
            /\ in.releases \in Seq(Nat) /\ in.tanazul \in Seq(Nat) /\ in.profit \in Nat
            /\ FewDigits(SumFunction(in.releases) + SumFunction(in.tanazul))
       /\ in.of = "report" =>
            /\ in.buckets \in Seq(Int)
            /\ \A i, j \in DOMAIN in.buckets : i < j => in.buckets[i] < in.buckets[j]
            /\ in.rows \in Seq([days: Int, capital: Int, profit: Int])

Pending == [pending |-> TRUE]
Refused == [refused |-> TRUE]   (* a TypeError or RangeError about the input *)
Broken  == [broken |-> TRUE]    (* "... invariant violated"                *)
Crashed == [crashed |-> TRUE]   (* BigInt('NaN'), a SyntaxError            *)

-----------------------------------------------------------------------------
(* Arithmetic.                                                             *)

Least(a, b) == IF a < b THEN a ELSE b
Positive(a) == IF a > 0 THEN a ELSE 0

HalfEven(n, d) ==
  LET q == n \div d
      r == n % d
  IN IF 2 * r > d \/ (2 * r = d /\ q % 2 = 1) THEN q + 1 ELSE q

(* Away from zero.                                                         *)
HalfUp(n, d) ==
  IF n < 0 THEN -((d - 2 * n) \div (2 * d)) ELSE (2 * n + d) \div (2 * d)

(* A quotient is kept in units of 10^-Places.                              *)
Places == Digits + 2
One    == TenTo[Places]

(* n/d, at least 1/1000 or zero and below 10^Digits, to Digits digits.     *)
Quotient(n, d) ==
  LET fits == {k \in 0..Places : n <= (TenTo[Digits] * d - 1) \div TenTo[k]}
      k    == CHOOSE i \in fits : \A j \in fits : j <= i
  IN HalfEven(n * TenTo[k], d) * TenTo[Places - k]

(* NaN and Infinity.                                                       *)
NotANumber == -1
Ratio(n, d) == IF d = 0 THEN NotANumber ELSE Quotient(n, d)
SignedQuotient(n, d) == IF n < 0 THEN -Quotient(-n, d) ELSE Quotient(n, d)

-----------------------------------------------------------------------------
(* Money: a decimal string is a sign, a whole part and the digits of its   *)
(* fraction.                                                               *)

FractionUnits(fraction, scale) ==
  SumFunction([i \in DOMAIN fraction |-> fraction[i] * TenTo[scale - i]])

ParseMoney(amount, scale) ==
  IF Len(amount.fraction) > scale THEN Refused
  ELSE LET units == amount.whole * TenTo[scale] + FractionUnits(amount.fraction, scale)
       IN [units |-> IF amount.negative THEN -units ELSE units]

ToDecimalString(units, scale) ==
  [negative |-> units < 0,
   whole    |-> Magnitude(units) \div TenTo[scale],
   fraction |-> [i \in 1..scale |-> (Magnitude(units) \div TenTo[scale - i]) % 10]]

(* Zeros beyond the scale are dropped, as numeric(30,12) appends them.     *)
NormalizeExactScale(amount, scale) ==
  IF Len(amount.fraction) > scale /\ \A i \in scale + 1..Len(amount.fraction) : amount.fraction[i] = 0
  THEN [amount EXCEPT !.fraction = SubSeq(@, 1, scale)]
  ELSE amount

ReconcileAmounts(in) ==
  LET sub == ParseMoney(NormalizeExactScale(in.subledger, in.scale), in.scale)
      gl  == ParseMoney(NormalizeExactScale(in.ledger, in.scale), in.scale)
  IN IF Refused \in {sub, gl} THEN Refused
     ELSE [difference |-> ToDecimalString(sub.units - gl.units, in.scale),
           state |-> IF sub.units = gl.units THEN "MATCHED" ELSE "VARIANCE"]

-----------------------------------------------------------------------------
(* Dividing a total in proportion to weights, exactly to the last unit.    *)
(* The identifiers are 1..n in the order of their names.                   *)

(* Mutant: the residual goes to the first participants.                    *)
FirstComeRemainder(total, weight) ==
  LET all      == SumFunction(weight)
      floor    == [i \in DOMAIN weight |-> (total * weight[i]) \div all]
      residual == total - SumFunction(floor)
  IN [i \in DOMAIN weight |-> floor[i] + IF i <= residual THEN 1 ELSE 0]

(* How many come before i: larger remainders first.                        *)
PriorityOf(rest, i) ==
  Cardinality({j \in DOMAIN rest : rest[j] > rest[i] \/ (rest[j] = rest[i] /\ j < i)})

(* With integers of any length: nothing is rounded before the residual is. *)
LargestRemainder(total, weight) ==
  LET all      == SumFunction(weight)
      floor    == [i \in DOMAIN weight |-> (total * weight[i]) \div all]
      rest     == [i \in DOMAIN weight |-> (total * weight[i]) % all]
      residual == total - SumFunction(floor)
  IN [i \in DOMAIN weight |-> floor[i] + IF PriorityOf(rest, i) < residual THEN 1 ELSE 0]

AllocateProportionally(in) ==
  IF (\E i \in DOMAIN in.weight : in.weight[i] < 0) \/ SumFunction(in.weight) = 0
  THEN Refused
  ELSE LET share == LargestRemainder(Magnitude(in.total), in.weight)
       IN [share |-> [i \in DOMAIN share |-> IF in.total < 0 THEN -share[i] ELSE share[i]]]

(* A number cut off after its first Digits digits (ROUND_DOWN).            *)
RoundDown(n) ==
  LET k == CHOOSE k \in 0..n :
             n < TenTo[Digits + k] /\ (k > 0 => TenTo[Digits + k - 1] <= n)
  IN (n \div TenTo[k]) * TenTo[k]

(* The unit in which a quotient that was cut off is kept: it holds all the *)
(* digits of 1/d, for a d of few digits.                                   *)
Fine == TenTo[(Digits - 1) + (Digits - 1)]

(* With decimals: the product and the quotient are cut off, so a smaller   *)
(* quotient keeps more places than a larger one, and of two remainders     *)
(* that are the same the one with more places is the larger.  The sum of   *)
(* the weights is exact, for it has few digits.                            *)
AllocateUnits(total, weight) ==
  LET all      == SumFunction(weight)
      exact    == [i \in DOMAIN weight |->
                     RoundDown((RoundDown(total * weight[i]) * Fine) \div all)]
      rest     == [i \in DOMAIN weight |-> exact[i] % Fine]
      residual == total - SumFunction([i \in DOMAIN weight |-> exact[i] \div Fine])
      count    == Cardinality(DOMAIN weight)
  IN [i \in DOMAIN weight |->
        exact[i] \div Fine + residual \div count
          + IF PriorityOf(rest, i) < residual % count THEN 1 ELSE 0]

(* Whether allocateUnits can divide by these weights.                      *)
Divisible(weight) == SumFunction(weight) > 0

Members(in, c) == {i \in DOMAIN in.category : in.category[i] = c}

BasesOf(in, c) == [i \in Members(in, c) |-> in.base[i]]

KeysAreUsable(in) ==
  /\ SumFunction(in.key) = 10
  /\ \A i \in DOMAIN in.category : in.category[i] \in DOMAIN in.key
  /\ \A c \in DOMAIN in.key : Members(in, c) = {} => in.key[c] = 0

(* Each category first gets its key's part, then divides it.               *)
FixedCategoryShares(in, total) ==
  LET part == AllocateUnits(total, in.key)
  IN [i \in DOMAIN in.category |->
        LET c == in.category[i] IN AllocateUnits(part[c], BasesOf(in, c))[i]]

AccountShares(in, total) ==
  IF in.method = "WEIGHTED_AVERAGE" THEN AllocateUnits(total, in.base)
  ELSE FixedCategoryShares(in, total)

AccountsDivisible(in) ==
  IF in.method = "WEIGHTED_AVERAGE" THEN Divisible(in.base)
  ELSE \A c \in DOMAIN in.key : Members(in, c) # {} => Divisible(BasesOf(in, c))

(* "BANK" precedes "INVESTOR".                                             *)
AllocateMoudarabaProfit(in) ==
  LET nisba    == AllocateUnits(in.profit, <<in.bankNisba, in.investorNisba>>)
      investor == nisba[2] - in.irr
      share    == AccountShares(in, investor)
  IN IF in.investorNisba + in.bankNisba # 10 \/ in.irr > nisba[2] THEN Refused
     ELSE IF in.method = "FIXED_CATEGORY_KEY" /\ ~KeysAreUsable(in) THEN Refused
     ELSE IF ~AccountsDivisible(in) THEN Crashed
     ELSE IF nisba[1] + in.irr + SumFunction(share) # in.profit THEN Broken
     ELSE [bank |-> nisba[1], irr |-> in.irr, share |-> share]

-----------------------------------------------------------------------------
(* Musharaka: profits by the negotiated ratio, losses by capital.          *)

BankLiabilityCauses ==
  {"MANAGER_FAULT_OR_NEGLIGENCE", "MANDATE_VIOLATION", "SHARIA_NON_COMPLIANCE"}

(* total times a ratio in units of 10^-Places, itself rounded.             *)
Product(total, ratio) == Quotient(total * ratio, One)

SplitUnits(total, firstRatio, secondRatio) ==
  LET x == Product(total, firstRatio)
      y == Product(total, secondRatio)
      residual == total - x \div One - y \div One
      toFirst  == x % One >= y % One
  IN << x \div One + (IF residual > 0 /\ toFirst THEN residual ELSE 0),
        y \div One + (IF residual > 0 /\ ~toFirst THEN residual ELSE 0) >>

Divided(in, pair, sign) ==
  IF in.result # sign * (pair[1] + pair[2]) THEN Broken
  ELSE [bank |-> sign * pair[1], partner |-> sign * pair[2]]

PassiveTakesTooMuch(in) ==
  LET capital == in.bankCapital + in.partnerCapital
      bank    == Ratio(in.bankCapital, capital)
      partner == Ratio(in.partnerCapital, capital)
  IN /\ capital > 0
     /\ \/ in.passive = "BANK" /\ in.bankRatio * (One \div 10) > bank
        \/ in.passive = "PARTNER" /\ in.partnerRatio * (One \div 10) > partner

AllocateMusharakaResult(in) ==
  LET capital == in.bankCapital + in.partnerCapital
      tenth   == One \div 10
  IN IF in.bankRatio + in.partnerRatio # 10 \/ PassiveTakesTooMuch(in) THEN Refused
     ELSE IF in.result >= 0
     THEN Divided(in, SplitUnits(in.result, in.bankRatio * tenth, in.partnerRatio * tenth), 1)
     ELSE IF in.cause \in BankLiabilityCauses THEN Divided(in, <<-in.result, 0>>, -1)
     ELSE IF capital = 0 THEN Crashed
     ELSE Divided(in, SplitUnits(-in.result, Ratio(in.bankCapital, capital),
                                 Ratio(in.partnerCapital, capital)), -1)

Bought(in, n) == SumFunction([i \in 1..n |-> in.purchases[i].amount])

CapitalOf(in) == in.bankCapital + in.partnerCapital

BankLeft(in)      == [i \in DOMAIN in.purchases |-> in.bankCapital - Bought(in, i)]
BankRatios(in)    == [i \in DOMAIN in.purchases |-> Ratio(BankLeft(in)[i], CapitalOf(in))]
PartnerRatios(in) == [i \in DOMAIN in.purchases |->
                        Ratio(CapitalOf(in) - BankLeft(in)[i], CapitalOf(in))]

Illegal(in, i) ==
  \/ in.purchases[i].period < 1
  \/ i > 1 /\ in.purchases[i].period <= in.purchases[i - 1].period
  \/ BankLeft(in)[i] < 0

Uneven(in, i) ==
  CapitalOf(in) = 0 \/ Quotient(BankRatios(in)[i] + PartnerRatios(in)[i], One) # One

(* The periods of a schedule in which the partner buys the bank's capital; *)
(* the first period that is not as it must be decides what is thrown.      *)
BuildMoutanaqissaSchedule(in) ==
  LET bought == Bought(in, Len(in.purchases))
  IN IF \E i \in DOMAIN in.purchases : Uneven(in, i) /\ \A j \in 1..i : ~Illegal(in, j) THEN Broken
     ELSE IF \E i \in DOMAIN in.purchases : Illegal(in, i) THEN Refused
     ELSE IF in.maturity /\ bought < in.bankCapital THEN Refused
     ELSE [bank |-> in.bankCapital - bought, partner |-> in.partnerCapital + bought,
           bankRatio |-> BankRatios(in), partnerRatio |-> PartnerRatios(in)]

-----------------------------------------------------------------------------
(* Losses and fees.                                                        *)

(* Mutant: PER before IRR.                                                 *)
AbsorbFromPerFirst(in) ==
  LET per     == Least(in.per, in.loss)
      irr     == IF in.irrPolicy = "APPROVED" THEN Least(in.irr, in.loss - per) ELSE 0
      capital == Least(in.capital, in.loss - irr - per)
  IN IF in.loss <= 0 THEN Refused
     ELSE IF in.cause \in BankLiabilityCauses
     THEN [irr |-> 0, per |-> 0, capital |-> 0, bank |-> in.loss, unabsorbed |-> 0]
     ELSE [irr |-> irr, per |-> per, capital |-> capital, bank |-> 0,
           unabsorbed |-> in.loss - irr - per - capital]

(* IRR when the policy allows it, then PER, then the depositors' capital.  *)
ClassifyLossAbsorption(in) ==
  LET irr     == IF in.irrPolicy = "APPROVED" THEN Least(in.irr, in.loss) ELSE 0
      per     == Least(in.per, in.loss - irr)
      capital == Least(in.capital, in.loss - irr - per)
  IN IF in.loss <= 0 THEN Refused
     ELSE IF in.cause \in BankLiabilityCauses
     THEN [irr |-> 0, per |-> 0, capital |-> 0, bank |-> in.loss, unabsorbed |-> 0]
     ELSE [irr |-> irr, per |-> per, capital |-> capital, bank |-> 0,
           unabsorbed |-> in.loss - irr - per - capital]

BankIsAtFault(in) ==
  IF in.cause = "UNKNOWN" THEN in.bankFault ELSE in.cause \in BankLiabilityCauses

AllocateWakalaLoss(in) ==
  IF BankIsAtFault(in)
  THEN [charged |-> 0, waived |-> in.fee, incentive |-> 0, mandant |-> 0, bank |-> in.realized]
  ELSE [charged |-> 0, waived |-> in.fee, incentive |-> 0, mandant |-> in.realized, bank |-> 0]

AllocateWakalaGain(in) ==
  LET charged   == Least(in.fee - in.waiver, in.realized)
      surplus   == Positive(in.realized - charged - in.expected)
      incentive == IF in.surplusPolicy = "BANK_PERFORMANCE_INCENTIVE"
                   THEN HalfEven(surplus * in.rate, 10) ELSE 0
  IN [charged |-> charged, waived |-> in.waiver, incentive |-> incentive,
      mandant |-> in.realized - charged - incentive, bank |-> charged + incentive]

AllocateWakalaProfit(in) ==
  IF in.rate > 10 \/ in.waiver > in.fee \/ (in.waiver > 0 /\ ~in.waiverApproved) THEN Refused
  ELSE IF in.realized < 0 THEN AllocateWakalaLoss(in) ELSE AllocateWakalaGain(in)

(* The waterfall of a pool: what the fixed allocations leave is the        *)
(* investors'.                                                             *)
CalculateDistributablePoolProfit(in) ==
  LET gross    == in.revenue + in.adjustments - in.charges - in.losses
      net      == gross - in.purification
      investor == net - in.bankEconomic - in.moudarib - in.per - in.irr
  IN IF \/ in.base <= 0 \/ gross < 0 \/ net < 0 \/ investor < 0
        \/ \E a \in {in.charges, in.losses, in.purification, in.bankEconomic,
                      in.moudarib, in.per, in.irr} : a < 0
     THEN Refused
     ELSE IF gross # in.bankEconomic + in.moudarib + investor + in.per + in.irr + in.purification
     THEN Broken
     ELSE [gross |-> gross, net |-> net, bank |-> in.bankEconomic + in.moudarib,
           investor |-> investor, rate |-> Ratio(gross, in.base)]

(* A movement of a reserve that investors and bank own together.           *)
AuthorizeReserveMovement(in) ==
  LET investor == in.investor + in.investorMove
      bank     == in.bank + in.bankMove
      approval == \/ Magnitude(in.move) > in.threshold
                  \/ in.opening + in.move < in.minimum
                  \/ in.opening + in.move > in.maximum
  IN IF \/ in.opening + in.move < 0
        \/ in.kind = "FUND" /\ in.move < 0
        \/ in.kind \in {"RELEASE", "UTILIZE"} /\ in.move > 0
        \/ in.investor + in.bank # in.opening
        \/ in.investorMove + in.bankMove # in.move
        \/ investor < 0 \/ bank < 0
        \/ in.minimum > in.maximum
        \/ approval /\ ~in.approved
     THEN Refused
     ELSE [closing |-> in.opening + in.move, investor |-> investor, bank |-> bank,
           approvalRequired |-> approval]

SimulateReserveMovement(in) ==
  IF \/ in.investor < 0 \/ in.bank < 0
     \/ in.investor + in.investorMove < 0 \/ in.bank + in.bankMove < 0
  THEN Refused
  ELSE [investor |-> in.investor + in.investorMove, bank |-> in.bank + in.bankMove,
        total |-> in.investorMove + in.bankMove]

-----------------------------------------------------------------------------
(* Targets.  target and adjustment are in tenths of an amount.             *)

SolveDistributionKey(in, target) ==
  IF in.distributable = 0
  THEN IF target = 0 THEN [status |-> "APPLICABLE", value |-> NotANumber, low |-> 0, high |-> 0]
       ELSE [status |-> "OUT_OF_RANGE", low |-> 0, high |-> 0]
  ELSE IF target > 10 * in.distributable
  THEN [status |-> "OUT_OF_RANGE", low |-> 0, high |-> 10 * in.distributable]
  ELSE [status |-> IF target > in.key * in.distributable THEN "NEXT_PERIOD_OR_TANAZUL"
                   ELSE "APPLICABLE",
        value |-> Quotient(target, 10 * in.distributable),
        low |-> 0, high |-> 10 * in.distributable]

(* An adjustment between two bounds, or none.                              *)
Reach(in, target, least, most, status) ==
  LET adjustment == target - 10 * in.current
      range      == [low |-> Positive(10 * (in.current + least)),
                     high |-> Positive(10 * (in.current + most))]
  IN IF 10 * least <= adjustment /\ adjustment <= 10 * most
     THEN [status |-> status, value |-> adjustment, low |-> range.low, high |-> range.high]
     ELSE [status |-> "OUT_OF_RANGE", low |-> range.low, high |-> range.high]

(* The achievable rates are profits divided by the base.                   *)
OverBase(in, answer) ==
  IF in.base > 0 THEN answer
  ELSE [answer EXCEPT !.low = NotANumber, !.high = NotANumber]

SolveProfitTarget(in) ==
  LET target == in.base * in.rate
  IN IF in.key > 10 THEN Refused
     ELSE IF in.lever = "DISTRIBUTION_KEY" THEN OverBase(in, SolveDistributionKey(in, target))
     ELSE IF in.lever = "TANAZUL"
     THEN OverBase(in, Reach(in, target, 0, in.bankShare, "APPLICABLE"))
     ELSE IF in.minimum > in.maximum THEN Refused
     ELSE OverBase(in, Reach(in, target, in.minimum, in.maximum, "GOVERNANCE_REQUIRED"))

(* Rates in percent; profits in thousandths of an amount.                  *)
SolveQuotationTarget(in) ==
  LET standard == in.amount * in.grossRate * in.maxNisba
      target   == in.amount * in.targetRate * 10
      gap      == Positive(target - standard)
  IN IF \/ in.amount <= 0 \/ in.basis < in.amount
        \/ in.grossRate <= 0 \/ in.targetRate <= 0 \/ in.maxNisba > 10
     THEN Refused
     ELSE [verdict |-> IF 10 * in.targetRate <= in.maxNisba * in.grossRate THEN "APPROVABLE"
                       ELSE IF gap <= 1000 * (in.tanazul + in.reserves)
                       THEN "ALCO_APPROVAL_REQUIRED" ELSE "NOT_VIABLE",
           gap |-> gap]

-----------------------------------------------------------------------------
(* Ratios.                                                                 *)

SmallestOf(S) == CHOOSE a \in S : \A b \in S : a <= b
LargestOf(S)  == CHOOSE a \in S : \A b \in S : a >= b

BasisOf(in, convention, i) ==
  IF convention = "PARTICIPATION_UNITS" THEN in.observed[i].units * in.observed[i].value
  ELSE in.observed[i].balance

(* The base on which an account participates, in units of 10^-Places and   *)
(* before the day fraction, a factor common to all accounts; the average   *)
(* is rounded, the sum of the days is not rounded again.                   *)
WeightedBasis(in, convention) ==
  LET n   == in.days
      day == [i \in DOMAIN in.observed |-> BasisOf(in, convention, i)]
  IN in.weight * CASE convention = "AVERAGE_DAILY_BALANCE" -> n * Ratio(SumFunction(day), n)
                   [] convention = "MINIMUM_DAILY_BALANCE" -> n * SmallestOf(Range(day)) * One
                   [] OTHER -> SumFunction(day) * One

CalculateWeightedParticipationBase(in) ==
  IF Len(in.observed) # in.days \/ \E i \in 1..in.days : in.observed[i].date # i THEN Refused
  ELSE [basis |-> WeightedBasis(in, in.convention)]

(* Mutant: the ratio is cut off.                                           *)
CalculateDcrCut(in) ==
  IF in.capital < 0 \/ in.exposure <= 0 THEN Refused
  ELSE LET value == (in.capital * 10) \div in.exposure
       IN [value |-> value,
           state |-> IF value >= in.threshold THEN "WITHIN_LIMIT" ELSE "BREACH"]

(* The state of the displaced commercial risk, with a ratio of tenths.     *)
CalculateDcr(in) ==
  IF in.capital < 0 \/ in.exposure <= 0 THEN Refused
  ELSE LET value == HalfUp(in.capital * 10, in.exposure)
       IN [value |-> value,
           state |-> IF value >= in.threshold THEN "WITHIN_LIMIT" ELSE "BREACH"]

CalculateConsolidatedDcr(in) ==
  LET support == SumFunction(in.releases) + SumFunction(in.tanazul)
  IN [support |-> support, dcr |-> Ratio(support, in.profit)]

(* A shock in tenths of the base.                                          *)
ExecuteStressScenario(in) ==
  LET numerator == in.base * in.shock
      impact    == HalfUp(numerator, 10)
  IN IF in.base < 0 \/ in.shock < -10 \/ in.shock > 10 THEN Refused
     ELSE IF in.base + impact < 0 THEN Refused
     ELSE [stressed |-> in.base + impact, impact |-> impact]

(* The spread of the distributed rates, against a tolerance of tenths; the *)
(* difference of two rates is rounded again.                               *)
AnalyzeIntergenerationalEquity(in) ==
  LET rates  == {SignedQuotient(g.distributed, g.base) : g \in Range(in.generations)}
      spread == Quotient(LargestOf(rates) - SmallestOf(rates), One)
  IN IF Len(in.generations) < 2 \/ \E g \in Range(in.generations) : g.base <= 0 THEN Refused
     ELSE [spread |-> spread, imbalance |-> spread > in.tolerance * (One \div 10)]

(* Mutant: without the last, endless bucket.                               *)
BucketOrNone(in, days) ==
  LET fits == {i \in DOMAIN in.buckets : days <= in.buckets[i]}
  IN IF fits = {} THEN 0 ELSE SmallestOf(fits)

(* The maturities of a report in buckets; days to maturity may be negative *)
(* and the last bucket has no end.                                         *)
BucketOf(in, days) ==
  LET fits == {i \in DOMAIN in.buckets : days <= in.buckets[i]}
  IN IF fits = {} THEN Len(in.buckets) + 1 ELSE SmallestOf(fits)

ReportLine(in, rows) ==
  LET capital == SumFunction([r \in rows |-> in.rows[r].capital])
      profit  == SumFunction([r \in rows |-> in.rows[r].profit])
  IN [count |-> Cardinality(rows), capital |-> capital, profit |-> profit,
      rate |-> IF capital = 0 THEN 0 ELSE HalfUp(1000 * profit, capital)]

(* Each row is put into its bucket.                                        *)
BuildYieldReport(in) ==
  [i \in 1..Len(in.buckets) + 1 |->
     ReportLine(in, {r \in DOMAIN in.rows : BucketOf(in, in.rows[r].days) = i})]

(* Each bucket looks for the rows between its ends.                        *)
BuildBucketedYield(in) ==
  [i \in 1..Len(in.buckets) + 1 |->
     ReportLine(in, {r \in DOMAIN in.rows :
                 /\ i = 1 \/ in.rows[r].days > in.buckets[i - 1]
                 /\ i > Len(in.buckets) \/ in.rows[r].days <= in.buckets[i]})]

BuildReports(in) == [byRow |-> BuildYieldReport(in), byBucket |-> BuildBucketedYield(in)]

-----------------------------------------------------------------------------
Result(in) ==
  CASE in.of = "proportional"    -> AllocateProportionally(in)
    [] in.of = "moudaraba"       -> AllocateMoudarabaProfit(in)
    [] in.of = "musharaka"       -> AllocateMusharakaResult(in)
    [] in.of = "moutanaqissa"    -> BuildMoutanaqissaSchedule(in)
    [] in.of = "reconcile"       -> ReconcileAmounts(in)
    [] in.of = "loss"            -> ClassifyLossAbsorption(in)
    [] in.of = "wakala"          -> AllocateWakalaProfit(in)
    [] in.of = "waterfall"       -> CalculateDistributablePoolProfit(in)
    [] in.of = "reserve"         -> AuthorizeReserveMovement(in)
    [] in.of = "simulation"      -> SimulateReserveMovement(in)
    [] in.of = "target"          -> SolveProfitTarget(in)
    [] in.of = "quotation"       -> SolveQuotationTarget(in)
    [] in.of = "base"            -> CalculateWeightedParticipationBase(in)
    [] in.of = "dcr"             -> CalculateDcr(in)
    [] in.of = "consolidated"    -> CalculateConsolidatedDcr(in)
    [] in.of = "stress"          -> ExecuteStressScenario(in)
    [] in.of = "equity"          -> AnalyzeIntergenerationalEquity(in)
    [] in.of = "report"          -> BuildReports(in)

CalculationsInit == input \in Inputs /\ output = Pending

Calculate ==
  /\ output = Pending
  /\ output' = Result(input)
  /\ UNCHANGED input

CalculationsNext == Calculate

CalculationsSpec == CalculationsInit /\ [][CalculationsNext]_calculationVars

-----------------------------------------------------------------------------
Done(kind) == input.of = kind /\ output \notin {Pending, Refused, Broken, Crashed}

Undefined ==
  \/ output \in {Broken, Crashed}
  \/ Done("target") /\ (output.low = NotANumber
                        \/ (output.status = "APPLICABLE" /\ output.value = NotANumber
                            /\ input.lever = "DISTRIBUTION_KEY"))
  \/ Done("waterfall") /\ output.rate = NotANumber
  \/ Done("consolidated") /\ output.dcr = NotANumber

(* What the code calls positive and accepts when it is zero.               *)
HasZeroDivisor ==
  CASE input.of = "moudaraba" -> ~AccountsDivisible(input)
    [] input.of \in {"musharaka", "moutanaqissa"} -> input.bankCapital + input.partnerCapital = 0
    [] input.of = "target" -> input.base = 0 \/ input.distributable = 0
    [] input.of = "consolidated" -> input.profit = 0
    [] OTHER -> FALSE

(* A calculation ends in the code's own "invariant violated", in a crash   *)
(* or in NaN only if a divisor is zero that Decimal.isPositive let pass:   *)
(* in particular the two ownership ratios of every period, each rounded on *)
(* its own, add up to exactly one.                                         *)
OnlyZeroBreaks == Undefined => HasZeroDivisor

(* The parts add up to the whole: the shares of an allocation whatever the *)
(* weights and the sign, the two sides of a Musharaka or of a Wakala, what *)
(* the reserves, the capital and the bank take of a loss, the waterfall,   *)
(* the shares of a reserve, and the lines of a report.                     *)
NothingIsLost ==
  /\ Done("proportional") => SumFunction(output.share) = input.total
  /\ Done("moudaraba") => output.bank + output.irr + SumFunction(output.share) = input.profit
  /\ Done("musharaka") => output.bank + output.partner = input.result
  /\ Done("moutanaqissa") => output.bank + output.partner = input.bankCapital + input.partnerCapital
  /\ Done("wakala") => output.mandant + output.bank = input.realized
  /\ Done("loss") => output.irr + output.per + output.capital + output.bank + output.unabsorbed
                       = input.loss
  /\ Done("reserve") => /\ output.investor + output.bank = output.closing
                        /\ output.investor >= 0 /\ output.bank >= 0
  /\ Done("report") => \A r \in {output.byRow, output.byBucket} :
       /\ SumFunction([i \in DOMAIN r |-> r[i].count]) = Len(input.rows)
       /\ SumFunction([i \in DOMAIN r |-> r[i].capital])
            = SumFunction([i \in DOMAIN input.rows |-> input.rows[i].capital])

(* No amount is lost: the two facts above.                                 *)
AmountsAreKept == OnlyZeroBreaks /\ NothingIsLost

(* An amount in units of 10^-places, which are enough for all its digits.  *)
Exact(amount, places) ==
  (IF amount.negative THEN -1 ELSE 1)
    * (amount.whole * TenTo[places] + FractionUnits(amount.fraction, places))

Quota(total, weight, share) ==
  LET all == SumFunction(weight)
  IN \A i \in DOMAIN weight :
       /\ Magnitude(share[i] * all - total * weight[i]) < all
       /\ weight[i] = 0 => share[i] = 0
       /\ \A j \in DOMAIN weight : weight[i] > weight[j] => Magnitude(share[i]) >= Magnitude(share[j])

(* No digit of a product is cut off: with 60 of them, an amount of 30      *)
(* digits on bases of 29.                                                  *)
ProductsFit(total, weight) == total * SumFunction(weight) < TenTo[Digits]

(* Everybody gets the exact share rounded to one of its neighbours, a      *)
(* larger weight never less than a smaller one, and no weight nothing:     *)
(* always where integers are divided, and where quotients are cut off and  *)
(* ranked by what is left of them as long as their products are not cut.   *)
SharesAreFair ==
  /\ Done("proportional") => Quota(input.total, input.weight, output.share)
  /\ /\ Done("moudaraba") /\ input.method = "WEIGHTED_AVERAGE"
     /\ ProductsFit(SumFunction(output.share), input.base)
     => Quota(SumFunction(output.share), input.base, output.share)
  /\ Done("moudaraba") /\ input.method = "FIXED_CATEGORY_KEY" =>
       \A c \in DOMAIN input.key :
         LET share == [i \in Members(input, c) |-> output.share[i]]
         IN Members(input, c) # {} =>
              /\ ProductsFit(SumFunction(share), BasesOf(input, c)) =>
                   Quota(SumFunction(share), BasesOf(input, c), share)
              /\ Magnitude(10 * SumFunction(share) - input.key[c] * SumFunction(output.share)) < 10

(* The next layer is touched only when the one before is used up; the bank *)
(* bears what it is liable for and nothing else; a fee never makes a gain  *)
(* a loss, and an incentive is paid only out of what exceeds expectations. *)
LossFollowsCascade ==
  /\ Done("loss") =>
       /\ output.irr > 0 => input.irrPolicy = "APPROVED"
       /\ output.per > 0 => output.irr = input.irr \/ input.irrPolicy # "APPROVED"
       /\ output.capital > 0 => output.per = input.per
       /\ output.unabsorbed > 0 => output.capital = input.capital /\ output.per = input.per
       /\ output.irr <= input.irr /\ output.per <= input.per /\ output.capital <= input.capital
       /\ output.bank > 0 <=> input.cause \in BankLiabilityCauses
       /\ input.cause \in BankLiabilityCauses => output.bank = input.loss
  /\ Done("wakala") /\ input.realized >= 0 =>
       /\ output.mandant >= 0
       /\ output.incentive > 0 => output.mandant >= input.expected
       /\ output.mandant < Least(input.expected, input.realized - input.fee + input.waiver)
            => output.charged = input.realized
  /\ Done("wakala") /\ input.realized < 0 => output.charged = 0 /\ output.incentive = 0

(* The exact ratios behind AnswersAreExact.                                *)
SpreadAbove(g, h) ==
  10 * (g.distributed * h.base - h.distributed * g.base) - input.tolerance * g.base * h.base

(* The rates of two generations have enough digits to be told apart: with  *)
(* 50 of them, amounts of 23 digits.                                       *)
ToldApart(g, h) ==
  100 * (Magnitude(g.distributed) * h.base + Magnitude(h.distributed) * g.base + g.base * h.base)
    < TenTo[Digits]

(* What is decided holds of the exact numbers: a target is out of range    *)
(* exactly when the range given with the answer misses it (a range below   *)
(* zero is given as zero, and misses a target of zero), an applicable key  *)
(* reaches it; a quotation is approvable exactly when it needs no support; *)
(* a stress never makes a value negative, and is off by less than a unit;  *)
(* a ratio is within its limit exactly when, rounded half up, it is not    *)
(* below it.                                                               *)
DecisionsAreExact ==
  /\ Done("target") /\ ~HasZeroDivisor =>
       LET target == input.base * input.rate
       IN /\ target < output.low \/ target > output.high => output.status = "OUT_OF_RANGE"
          /\ output.status = "OUT_OF_RANGE" =>
               target < output.low \/ target > output.high \/ (target = 0 /\ output.high = 0)
          /\ output.status = "APPLICABLE" /\ input.lever = "DISTRIBUTION_KEY"
               => target <= input.key * input.distributable
  /\ Done("quotation") => (output.verdict = "APPROVABLE" <=> output.gap = 0)
  /\ input.of = "stress" /\ input.base >= 0 /\ input.shock \in -10..10 => output # Refused
  /\ Done("stress") => Magnitude(10 * output.impact - input.base * input.shock) <= 5
  /\ Done("dcr") => (output.state = "WITHIN_LIMIT"
                       <=> 20 * input.capital >= (2 * input.threshold - 1) * input.exposure)

(* What is answered holds of the exact numbers: the decisions above; a     *)
(* spread is reported exactly when two generations are further apart than  *)
(* tolerated, except that rounding may report one that is just tolerated,  *)
(* and that rates of amounts that are longer may not be told apart;        *)
(* two amounts match exactly when they are equal, however many digits each *)
(* was written with; a minimum is not above an average; a loss is borne in *)
(* proportion to the capitals, to the next unit, though it is divided by   *)
(* two rounded ratios.                                                     *)
AnswersAreExact ==
  /\ DecisionsAreExact
  /\ Done("equity") /\ (\A g, h \in Range(input.generations) : g # h => ToldApart(g, h)) =>
       LET all == Range(input.generations)
       IN /\ (\E g, h \in all : SpreadAbove(g, h) > 0) => output.imbalance
          /\ output.imbalance => \E g, h \in all : SpreadAbove(g, h) >= 0
  /\ Done("reconcile") =>
       LET places    == input.scale + Len(input.subledger.fraction) + Len(input.ledger.fraction)
           subledger == Exact(input.subledger, places)
           ledger    == Exact(input.ledger, places)
       IN /\ output.state = "MATCHED" <=> subledger = ledger
          /\ Exact(output.difference, places) = subledger - ledger
  /\ Done("base") =>
       WeightedBasis(input, "MINIMUM_DAILY_BALANCE") <= WeightedBasis(input, "AVERAGE_DAILY_BALANCE")
  /\ Done("musharaka") /\ input.result < 0 /\ input.cause \notin BankLiabilityCauses =>
       Quota(input.result, <<input.bankCapital, input.partnerCapital>>,
             <<output.bank, output.partner>>)
===============================================================================
