---------------------------- MODULE MCSubscription ----------------------------
(* Values of the constants of Subscription for TLC.                        *)
EXTENDS Subscription, TLC

CONSTANTS a1, a2, s1, s2, s3, k1, k2, k3, o1, o2, r1, r2

MCSessions == {s1, s2}
MCKeys     == {k1, k2, k3}
Symmetry   == Permutations(MCSessions) \cup Permutations(MCKeys)

Ask(a, type, n) == [account |-> a, type |-> type, amount |-> n]

(* Every command on one account, in two amounts where it has one.          *)
Lifecycle ==
  {Ask(a1, t, 0) : t \in DOMAIN To \ {"DEPOSIT", "WITHDRAW"}}
    \cup {Ask(a1, t, n) : t \in {"DEPOSIT", "WITHDRAW"}, n \in 1..2}

(* Commands on two accounts that compete for connections.                  *)
Competing == {Ask(a1, "WITHDRAW", 1), Ask(a2, "DEPOSIT", 1)}
===============================================================================
