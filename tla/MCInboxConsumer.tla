--------------------------- MODULE MCInboxConsumer ---------------------------
(* Values of the constants of InboxConsumer for TLC: two copies of a       *)
(* message and one copy of a message the adapter rejects.                  *)
EXTENDS InboxConsumer, TLC

CONSTANTS m1, mBad, c1, c2, cBad, w1, w2

MCMessages == {m1, mBad}
MCCopies   == {c1, c2, cBad}
MCMalformed == {mBad}
MCMessageOf == c1 :> m1 @@ c2 :> m1 @@ cBad :> mBad
MCWorkers  == {w1, w2}
==============================================================================
