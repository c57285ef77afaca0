---------------------------- MODULE MCOutboxRelay ----------------------------
(* Values of the constants of OutboxRelay for TLC.                         *)
EXTENDS OutboxRelay, TLC

CONSTANTS e1, e2, w1, w2

MCWorkers == {w1, w2}
MCEvents  == {e1, e2}
MCRoutable == {e1}
Symmetry  == Permutations(MCWorkers)
==============================================================================
