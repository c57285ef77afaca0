-------------------------- MODULE MCDocumentArchive --------------------------
(* Values for TLC: two requests whose events have one copy each, for a     *)
(* clean and an infected document, and two workers.                        *)
EXTENDS DocumentArchive, TLC

MCMessageOf == [m \in Messages |-> m]
Symmetry    == Permutations(Workers) \cup Permutations(Messages)
==============================================================================
