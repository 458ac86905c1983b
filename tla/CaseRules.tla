------------------------------ MODULE CaseRules ------------------------------
(***************************************************************************)
(* The deterministic rule engine of the back office                        *)
(* (src/src/fintech_agent/rules): conflict detection between trusted       *)
(* sources, refund eligibility, the decision engines of the three          *)
(* transaction workflows, risk classification and idempotency.             *)
(*                                                                         *)
(* Everything here is a constant operator on an evidence bundle            *)
(*                                                                         *)
(*   [transaction, ledger, train, utility, refund, recon]                  *)
(*                                                                         *)
(* each field of which is None when the tool that fetches it failed or     *)
(* found no record.  Texts, names, references and timestamps of the        *)
(* records are left out; amounts stay because risk and idempotency look    *)
(* at them.                                                                *)
(***************************************************************************)
EXTENDS Integers

CONSTANT None      \* Python's None: a model value in the runs

-----------------------------------------------------------------------------
(* schemas/enums.py *)

ProviderStatusValue ==
  {"ticket_issued", "ticket_not_issued", "booking_pending", "booking_failed",
   "confirmed", "not_confirmed", "pending", "failed", "provider_no_record",
   "bill_code_not_found", "amount_mismatch", "unknown"}

RefundStatusValue ==
  {"not_requested", "requested", "approved", "executed", "rejected", "failed"}

\* The actions the transaction workflows can recommend.
ActionType ==
  {"draft_customer_response", "create_refund_request_draft",
   "create_reconciliation_ticket_draft", "create_force_success_draft",
   "manual_review", "wait_sla", "no_action"}

\* The actions whose draft asks a person to move money.
MoneyActions == {"create_refund_request_draft", "create_force_success_draft"}

-----------------------------------------------------------------------------
(* schemas/evidence.py: the records, and the bundle made of them *)

Maybe(S) == S \cup {None}

\* A status other than pending ends the transaction; which one is left open.
TransactionStatus == {"pending", "success", "failed"}

Transactions(Users) == [status : TransactionStatus, user : Users]
Ledgers == [has_user_debit : BOOLEAN, has_credit_refund : BOOLEAN]
TrainStatuses == [status : ProviderStatusValue, has_code : BOOLEAN]

\* A bank status other than success and failed (pending, missing, ...) is
\* "other"; "failed", "fail" and "rejected" are one value.
Reconciliations ==
  [bank : {"success", "failed", "other"}, money : Maybe(BOOLEAN)]

EvidenceBundles(Users) ==
  [transaction : Maybe(Transactions(Users)), ledger : Maybe(Ledgers),
   train : Maybe(TrainStatuses), utility : Maybe(ProviderStatusValue),
   refund : Maybe(RefundStatusValue), recon : Maybe(Reconciliations)]

-----------------------------------------------------------------------------
(* conflict_rules.py: disagreements between trusted sources *)

LedgerVsTransaction(ev) ==
  /\ ev.ledger # None /\ ev.transaction # None
  /\ ev.ledger.has_user_debit
  /\ ev.transaction.status = "pending"

ProviderSuccessButNoTicket(ev) ==
  /\ ev.train # None
  /\ ev.train.status \in {"ticket_issued", "confirmed"}
  /\ ~ev.train.has_code

RefundVsLedger(ev) ==
  /\ ev.ledger # None /\ ev.refund # None
  /\ ev.refund = "executed"
  /\ ~ev.ledger.has_credit_refund

\* Faulty variant: ownership is not compared.
UserOwnershipUnchecked(ev, caseUser) == FALSE

\* Skipped when the case has no user id.
UserOwnership(ev, caseUser) ==
  /\ ev.transaction # None /\ caseUser # None
  /\ ev.transaction.user # caseUser

HasConflict(ev, caseUser) ==
  \/ LedgerVsTransaction(ev)
  \/ ProviderSuccessButNoTicket(ev)
  \/ RefundVsLedger(ev)
  \/ UserOwnership(ev, caseUser)

-----------------------------------------------------------------------------
(* refund_rules.py: the four checks of full_refund_eligibility_check *)

WalletDebited(ev) == ev.ledger # None /\ ev.ledger.has_user_debit

ProviderFailed(status) ==
  status \in {"ticket_not_issued", "booking_failed", "failed"}

\* Faulty variant: a refund the manager rejected may be asked for again.
NoExistingRefundButRejected(refund) ==
  refund \notin {"requested", "approved", "executed"}

\* A refund record that failed, was never requested, or could not be read
\* (None) does not stand in the way of a new one.
NoExistingRefund(refund) ==
  refund \notin {"requested", "approved", "executed", "rejected"}

RefundEligible(ev, status, conflict) ==
  /\ WalletDebited(ev)
  /\ ProviderFailed(status)
  /\ NoExistingRefund(ev.refund)
  /\ ~conflict

-----------------------------------------------------------------------------
(* The decision engines.  A decision is the action recommended and whether *)
(* a person has to approve it.                                             *)

Decision(action, approval) == [action |-> action, approval |-> approval]

ManualReview == Decision("manual_review", TRUE)
Respond      == Decision("draft_customer_response", FALSE)
Reconcile    == Decision("create_reconciliation_ticket_draft", FALSE)
WaitSla      == Decision("wait_sla", FALSE)
NoAction     == Decision("no_action", FALSE)

ForceSuccess == Decision("create_force_success_draft", TRUE)

\* Faulty variant: the flag that asks for a person is missing.
RefundUnattended == Decision("create_refund_request_draft", FALSE)

Refund == Decision("create_refund_request_draft", TRUE)

\* train_ticket_rules.py
DecideTrainTicket(ev, conflict) ==
  IF conflict \/ ev.ledger = None            THEN ManualReview
  ELSE IF ~ev.ledger.has_user_debit          THEN Respond
  ELSE IF ev.train = None                    THEN ManualReview
  ELSE IF /\ ev.train.status = "ticket_issued"
          /\ ev.train.has_code               THEN Respond
  ELSE IF ev.train.status = "provider_no_record" THEN Reconcile
  ELSE IF ev.train.status = "booking_pending"    THEN WaitSla
  ELSE IF RefundEligible(ev, ev.train.status, conflict) THEN Refund
  ELSE NoAction

\* utility_bill_rules.py
DecideUtilityBill(ev, conflict) ==
  IF conflict \/ ev.ledger = None            THEN ManualReview
  ELSE IF ~ev.ledger.has_user_debit          THEN Respond
  ELSE IF ev.utility = None                  THEN ManualReview
  ELSE IF ev.utility = "confirmed"           THEN Respond
  ELSE IF ev.utility \in {"not_confirmed", "provider_no_record"} THEN Reconcile
  ELSE IF ev.utility = "pending"             THEN WaitSla
  ELSE IF ev.utility = "failed" /\ RefundEligible(ev, ev.utility, conflict)
                                             THEN Refund
  ELSE IF ev.utility = "failed"              THEN NoAction
  ELSE ManualReview

\* wallet_topup_rules.py; money_received is a Boolean or None
DecideWalletTopup(ev, conflict) ==
  IF conflict \/ ev.transaction = None       THEN ManualReview
  ELSE IF ev.transaction.status # "pending"  THEN Respond
  ELSE IF ev.recon = None                    THEN ManualReview
  ELSE IF ev.recon.bank = "success" /\ ev.recon.money = TRUE  THEN ForceSuccess
  ELSE IF ev.recon.bank = "success" /\ ev.recon.money = FALSE THEN ManualReview
  ELSE IF ev.recon.bank = "failed"           THEN Respond
  ELSE IF ev.recon.money = FALSE             THEN Respond
  ELSE ManualReview

\* The dispatch of the apply_rules node.
ApplyRules(workflow, ev, conflict) ==
  CASE workflow = "train_ticket" -> DecideTrainTicket(ev, conflict)
    [] workflow = "utility_bill" -> DecideUtilityBill(ev, conflict)
    [] workflow = "wallet_topup" -> DecideWalletTopup(ev, conflict)

-----------------------------------------------------------------------------
(* risk_rules.py *)

HighRiskThreshold == 2000000

\* Faulty variant: only large refunds are risky.
ClassifyRiskByAmount(action, amount) ==
  CASE action = "create_refund_request_draft" ->
         IF amount >= HighRiskThreshold THEN "high" ELSE "low"
    [] action \in {"create_force_success_draft", "manual_review"} -> "high"
    [] OTHER -> "low"

ClassifyRisk(action, amount) ==
  CASE action = "create_refund_request_draft" ->
         IF amount >= HighRiskThreshold THEN "high" ELSE "medium"
    [] action \in {"create_force_success_draft", "manual_review"} -> "high"
    [] OTHER -> "low"

RequiresApproval(action, amount) == ClassifyRisk(action, amount) # "low"

-----------------------------------------------------------------------------
(* idempotency_rules.py *)

\* The hashed key is a function of these three values; hashing is taken to
\* be injective on the values of a model.
IdempotencyKey(txn, action, amount) == <<txn, action, amount>>

IsDuplicateAction(action, refund) ==
  /\ action = "create_refund_request_draft"
  /\ refund \in {"requested", "approved", "executed"}
=============================================================================
