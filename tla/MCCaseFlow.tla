------------------------------ MODULE MCCaseFlow ------------------------------
(***************************************************************************)
(* Instances of CaseFlow for TLC: the transactions, complaints and initial *)
(* records the configurations choose from.                                 *)
(***************************************************************************)
EXTENDS CaseFlow

CONSTANTS c1, c2, alice, bob, train1, bill1, topup1

MCUsers  == {alice, bob}

OneCase  == {c1}
TwoCases == {c1, c2}

TrainTxn == {train1}
BillAndTopup == {bill1, topup1}

MCService == [t \in Txns |-> CASE t = train1 -> "train_ticket"
                               [] t = bill1 -> "electric_bill"
                               [] t = topup1 -> "wallet_topup"]
MCOwner  == [t \in Txns |-> alice]
MCAmount == [t \in Txns |-> IF t = topup1 THEN 500 ELSE 2000000]

Complaint(t, s, u) == [txn |-> t, service |-> s, user |-> u]

\* The owner and somebody else about the ticket, with the service named or not.
TrainComplaints ==
  {Complaint(train1, "train_ticket", alice), Complaint(train1, None, bob)}

\* With and without a service, with and without the owner's id.
BillAndTopupComplaints ==
  {Complaint(bill1, "electric_bill", alice), Complaint(bill1, None, None),
   Complaint(topup1, "wallet_topup", alice), Complaint(topup1, None, bob)}

Row(t, l, p, rf, rc) ==
  [transaction |-> t, ledger |-> l, provider |-> p, refund |-> rf, recon |-> rc]

Out      == [has_user_debit |-> TRUE, has_credit_refund |-> FALSE]
Kept     == [has_user_debit |-> FALSE, has_credit_refund |-> FALSE]
Is(s)    == [status |-> s, has_code |-> s = "ticket_issued"]
Bank(s)  == [bank |-> s, money |-> s = "success"]

\* One record per row of the train matrix, and the two conflicts it can show.
TrainRows ==
  {Row("success", Out, p, "not_requested", None) :
     p \in {None, Is("ticket_not_issued"), Is("booking_pending"), Is("provider_no_record")}}
  \cup {Row("success", Kept, Is("booking_failed"), None, None),
        Row("pending", Out, Is("ticket_not_issued"), None, None),
        Row("success", Out, [status |-> "ticket_issued", has_code |-> FALSE], None, None),
        Row("success", Out, Is("ticket_not_issued"), "executed", None)}

TrainWorlds == {[t \in Txns |-> r] : r \in TrainRows}

\* One refundable ticket.
RefundableWorld ==
  {[t \in Txns |-> Row("success", Out, Is("ticket_not_issued"), "not_requested", None)]}

\* A bill the provider failed or does not confirm, and a pending top-up with
\* the money there, missing, or not reported on.
FewWorlds ==
  {[t \in Txns |-> IF t = bill1 THEN Row("success", Out, Is(p), "not_requested", None)
                   ELSE Row("pending", None, None, None, rc)] :
     p \in {"failed", "not_confirmed"},
     rc \in {None, Bank("success"), [bank |-> "success", money |-> FALSE]}}

\* Also a text with no transaction, and one that names the wrong service.
MixedComplaints ==
  BillAndTopupComplaints
  \cup {Complaint(None, None, alice), Complaint(bill1, "wallet_topup", alice)}
=============================================================================
