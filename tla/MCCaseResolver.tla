---------------------------- MODULE MCCaseResolver ----------------------------
(***************************************************************************)
(* Accounts of at most two transactions, and one message about them.       *)
(*                                                                         *)
(* Amounts 100 and 105 are within a tenth of each other, 300 is far from   *)
(* both.  A top-up has no provider to ask; a train ticket that was paid    *)
(* for may or may not have been issued.                                    *)
(***************************************************************************)
EXTENDS CaseResolver

Services ==
  {<<"wallet_topup", "pending", None>>, <<"wallet_topup", "success", None>>,
   <<"train_ticket", "success", None>>, <<"train_ticket", "success", "ticket_issued">>}

Txn(id, owner, s, amount) ==
  [id |-> id, owner |-> owner, service |-> s[1], amount |-> amount,
   status |-> s[2], provider |-> s[3]]

TxnsOf(id) ==
  {Txn(id, Me, s, a) : s \in Services, a \in {100, 105, 300}}
  \cup {Txn(id, None, <<"wallet_topup", "pending", None>>, 100)}

SmallAccounts ==
  {{}} \cup {{t} : t \in TxnsOf("t1")}
  \cup {{t, u} : t \in TxnsOf("t1"), u \in TxnsOf("t2")}

SmallReadings ==
  [hint : {"wallet_topup", "train_ticket", "merchant_settlement_delay",
           "fraud_account_lock", "unknown"},
   txn : {None, "t1"}, order : {None}, amount : {0, 100, 300},
   soft : {{}, {"time"}}]
  \cup [hint : {"wallet_topup"}, txn : {None}, order : {"t2"}, amount : {0, 100},
        soft : {{}}]
=============================================================================
