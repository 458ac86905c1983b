--------------------------- MODULE MCInvestigation ---------------------------
(***************************************************************************)
(* One ticket, two members of the staff, and the records of two users'     *)
(* transactions, of an account and of a merchant.                          *)
(***************************************************************************)
EXTENDS Investigation, TLC

Colleagues == Permutations(Staff)

Alice == "alice"
Bob == "bob"
Shop == "shop"
ThreePeople == {Alice, Bob, Shop}

MyTicket == "train1"
MyOther == "train2"
TheirBill == "bill"
MyTopup == "topup"
FourTxns == {MyTicket, MyOther, TheirBill, MyTopup}
Owners == [x \in FourTxns |-> IF x = TheirBill THEN Bob ELSE Alice]

Txn(x, status) == [status |-> status, user |-> Owners[x]]
Debit == [has_user_debit |-> TRUE, has_credit_refund |-> FALSE]
Usable == [verification |-> "verified", active |-> TRUE, failure |-> FALSE]

Journey(status, provider, refund) ==
  [NoRecords EXCEPT !.transaction = Txn(MyTicket, status), !.ledger = Debit,
     !.train = [status |-> provider, has_code |-> provider = "ticket_issued"],
     !.refund = refund]

Bill(status) ==
  [NoRecords EXCEPT !.transaction = Txn(TheirBill, "success"), !.ledger = Debit,
     !.utility = status, !.refund = "not_requested"]

Topup(status, bank, money) ==
  [NoRecords EXCEPT !.transaction = Txn(MyTopup, status),
     !.recon = [bank |-> bank, money |-> money]]

Lock(score) ==
  [NoRecords EXCEPT !.account = [user |-> Alice, status |-> "locked"],
     !.fraud = [user |-> Alice, score |-> score, signals |-> {}]]

Settlement(payout) ==
  [NoRecords EXCEPT !.profile = [merchant |-> Shop, on_hold |-> FALSE], !.bank = Usable,
     !.settlement = [day |-> 1, due |-> "past", net |-> 300], !.payout = payout,
     !.batch = None]

Paid == [merchant |-> Shop, day |-> 1, status |-> "processing", amount |-> 300,
         retriable |-> FALSE]

Records ==
  (MyTicket :> <<Journey("success", "booking_failed", "not_requested"),
                 Journey("success", "booking_failed", "requested")>>) @@
  (MyOther :> <<Journey("pending", "booking_failed", "not_requested")>>) @@
  (TheirBill :> <<Bill("failed")>>) @@
  (MyTopup :> <<Topup("pending", "success", TRUE), Topup("success", "success", TRUE)>>) @@
  (Alice :> <<Lock(10), Lock(90)>>) @@
  (Bob :> <<NoRecords>>) @@
  (Shop :> <<Settlement(None), Settlement(Paid)>>)

\* What a case proposes: nothing, or what it was decided on the records it read.
Nothing == [action |-> "", approval |-> FALSE, risk |-> "unknown"]
Close == [action |-> "no_action", approval |-> FALSE, risk |-> "low"]
Refunds == [action |-> "create_refund_request_draft", approval |-> TRUE, risk |-> "medium"]
PaysOut == [action |-> "create_manual_payout_draft", approval |-> TRUE, risk |-> "low"]

Filed(workflow, complainant, named, criteria, asking, case) ==
  [workflow |-> workflow, complainant |-> complainant, named |-> named,
   criteria |-> criteria, asking |-> asking, confidence |-> "low",
   action |-> case.action, approval |-> case.approval, risk |-> case.risk]

\* The chat asks on, names a transaction, opens a case, loses its session.
Journeys ==
  {{Filed("train_ticket", Alice, None, {MyTicket, TheirBill}, TRUE, Nothing),
    Filed("train_ticket", Alice, MyTicket, None, FALSE, Refunds),
    Filed("train_ticket", None, None, {MyTicket, TheirBill}, FALSE, Refunds)},
   {Filed("train_ticket", Alice, None, {MyTicket, MyOther}, FALSE, Nothing)}}

\* A top-up named to a complaint about a ticket; one named by somebody else.
Topups ==
  {{Filed("train_ticket", Alice, MyTopup, None, FALSE, Close),
    Filed("wallet_topup", Alice, MyTopup, None, FALSE, Nothing)},
   {Filed("wallet_topup", Alice, None, None, FALSE, Nothing),
    Filed("", Alice, None, None, FALSE, Nothing)},
   {Filed("wallet_topup", Bob, MyTopup, None, FALSE, Nothing)}}

Others ==
  {{Filed("utility_bill", Bob, None, {TheirBill}, FALSE, Nothing)},
   {Filed("fraud_account_lock", Alice, None, None, FALSE, Nothing)},
   {Filed("merchant_settlement_delay", Shop, None, None, FALSE, PaysOut),
    Filed("merchant_settlement_delay", None, None, None, FALSE, PaysOut)}}

Chats == Journeys \cup Topups \cup Others
=============================================================================
