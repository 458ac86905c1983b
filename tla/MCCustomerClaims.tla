--------------------------- MODULE MCCustomerClaims ---------------------------
(***************************************************************************)
(* The claims of one chat about an amount.  No record of a transaction     *)
(* names a bank (schemas/evidence.py), so a bank is never contradicted.    *)
(***************************************************************************)
EXTENDS CustomerClaims

AmountOnly == {"amount"}
AmountOrder == <<"amount">>
AmountValues == [f \in AmountOnly |-> {"100", "200"}]
AmountRecords == {[amount |-> "100", bank |-> NoValue]}
=============================================================================
