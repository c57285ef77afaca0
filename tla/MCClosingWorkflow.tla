--------------------------- MODULE MCClosingWorkflow ---------------------------
(* Values of the constants of ClosingWorkflow for TLC.                     *)
EXTENDS ClosingWorkflow, TLC

CONSTANTS c1, c2, d1, u1, u2, u3, k1, k2, s1, s2

MCClosings == {c1, c2}
MCActors   == {u1, u2, u3}
MCKeys     == {k1, k2}
MCSessions == {s1, s2}

(* Two identifiers for one date; one of them by two people.                *)
MCRequests == {[closing |-> c1, date |-> d1, by |-> u1], [closing |-> c1, date |-> d1, by |-> u2],
               [closing |-> c2, date |-> d1, by |-> u1]}

(* Everybody may review the first closing; it is met before the            *)
(* provisional calculation, which needs sound evidence, and before the end.*)
MCCommands ==
  [op: {"APPROVE", "REJECT"}, closing: {c1}, actor: MCActors, key: MCKeys]
    \cup [op: {"ADVANCE"}, closing: {c1}, target: {7, 8, 19}, sound: BOOLEAN, key: MCKeys]

Symmetry == Permutations(MCKeys) \cup Permutations(MCSessions)
================================================================================
