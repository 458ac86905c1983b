----------------------------- MODULE MCCaseTickets -----------------------------
(***************************************************************************)
(* Ten complaints, for the services, the workflows and the gaps of a       *)
(* text, of two users; amounts 1 and 2, and transactions of amount 0.      *)
(***************************************************************************)
EXTENDS CaseTickets

Alice == "alice"
Bob == "bob"
TwoUsers == {Alice, Bob}

Blank ==
  [txn |-> None, user |-> None, phone |-> None, merchant |-> FALSE, topics |-> {},
   paid |-> None, balance |-> None, payment |-> {}, delivery |-> {}, account |-> {},
   refund |-> {}, withdraw |-> FALSE, opinion |-> FALSE]

\* "TXN_TRAIN_1: 1 d was taken, I have no ticket"
NoTicket == [Blank EXCEPT !.txn = "TXN_TRAIN", !.paid = 1,
               !.payment = {"money_deducted"}, !.delivery = {"ticket_not_received"}]
\* "I am bob, TXN_TRAIN_1: no refund yet"
NoRefund == [Blank EXCEPT !.txn = "TXN_TRAIN", !.user = Bob,
               !.refund = {"refund_not_received", "refund_requested"}]
\* "TXN-2026-001: 1 d was taken", an id that does not tell the service
Unprefixed == [Blank EXCEPT !.txn = "TXN-2026", !.paid = 1, !.payment = {"money_deducted"}]
\* "My train ticket never came", without a transaction
NoId == [Blank EXCEPT !.topics = {"train_ticket"}, !.delivery = {"ticket_not_received"}]
\* "TXN_BILL_1: I paid 2 d for electricity"
Bill == [Blank EXCEPT !.txn = "TXN_BILL", !.paid = 2, !.topics = {"electric_bill"}]
\* "TXN_TOPUP_1: the bank took 2 d, the wallet still shows 0 d"
Topup == [Blank EXCEPT !.txn = "TXN_TOPUP", !.paid = 2, !.balance = 0,
            !.payment = {"bank_deducted"}]
\* "Account locked for no reason, I cannot withdraw, my phone is ..."
Locked == [Blank EXCEPT !.topics = {"account_security"}, !.phone = Bob,
             !.withdraw = TRUE, !.opinion = TRUE]
\* "My account is locked", without anything to identify it
LockedWho == [Blank EXCEPT !.topics = {"account_security"}, !.account = {"account_locked"}]
\* "MRC_1 was not paid 1 d by its bank"
Shop == [Blank EXCEPT !.topics = {"merchant_settlement", "wallet_topup"},
           !.merchant = TRUE, !.paid = 1]

SomeComplaints ==
  {Blank, NoTicket, NoRefund, Unprefixed, NoId, Bill, Topup, Locked, LockedWho, Shop}
SomeAmounts == {0, 1, 2}
SomeDebits == {1, 2}
=============================================================================
