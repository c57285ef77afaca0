----------------------------- MODULE MCAuditChain -----------------------------
(* Values of the constants of AuditChain for TLC.                          *)
EXTENDS AuditChain

CONSTANTS w1, w2

MCWriters == {w1, w2}
==============================================================================
