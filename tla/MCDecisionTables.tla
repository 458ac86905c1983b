--------------------------- MODULE MCDecisionTables ---------------------------
(***************************************************************************)
(* Scores on both sides of the thresholds 50 and 70; nothing, a debt, and  *)
(* two positive amounts, so that a payout may fall short of the ledger.    *)
(***************************************************************************)
EXTENDS DecisionTables

SomeScores == {0, 49, 50, 69, 70}
SomeNets == {-1, 0, 100, 300}
=============================================================================
