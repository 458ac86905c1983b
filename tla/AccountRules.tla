----------------------------- MODULE AccountRules -----------------------------
(***************************************************************************)
(* The decision engines of the two workflows that are not about a          *)
(* transaction: an account locked by fraud detection                       *)
(* (rules/fraud_account_lock_rules.py) and a merchant whose settlement is  *)
(* late (rules/merchant_settlement_rules.py).                              *)
(*                                                                         *)
(* A record is None when its read failed or found nothing; a nullable      *)
(* column of a record is None when the row does not hold it.  Statuses the *)
(* rules do not tell apart share one value: "processing" stands for        *)
(* processing, pending and submitted, "success" for success, completed and *)
(* settled, "failed" for failed, rejected, error and bank_rejected.        *)
(***************************************************************************)
EXTENDS Integers

CONSTANT None      \* Python's None: a model value in the runs

Maybe(S) == S \cup {None}

Decision(action, approval) == [action |-> action, approval |-> approval]

Respond == Decision("draft_customer_response", FALSE)
ManualReview == Decision("manual_review", TRUE)

-----------------------------------------------------------------------------
(* fraud_account_lock_rules.py *)

Signals == {"blacklist", "suspicious_inbound", "promotion_abuse", "velocity", "new_devices"}

AccountsOf(Owners) == [user : Owners, status : Maybe({"locked", "active"})]
FraudCasesOf(Owners) ==
  [user : Owners, score : Maybe(0 .. 100), signals : SUBSET Signals]

Unlock == Decision("create_unlock_account_draft", TRUE)
RequestDocuments == Decision("create_request_documents_response_draft", TRUE)

\* `fraud_case.risk_score or 0`: a record without a score counts as harmless.
RiskScore(fraud) == IF fraud.score = None THEN 0 ELSE fraud.score

Dangerous == {"blacklist", "suspicious_inbound", "promotion_abuse"}

FraudLikely(fraud) ==
  \/ RiskScore(fraud) >= 70
  \/ fraud.signals \cap Dangerous # {}
  \/ {"new_devices", "velocity"} \subseteq fraud.signals

FalsePositive(fraud) ==
  /\ RiskScore(fraud) < 50
  /\ fraud.signals \cap (Dangerous \cup {"velocity"}) = {}

\* Faulty variant: the scores in between are looked at before the signals.
DecideByBand(account, fraud) ==
  IF account = None \/ fraud = None THEN ManualReview
  ELSE IF account.status # "locked" THEN Respond
  ELSE IF RiskScore(fraud) \in 50 .. 69 THEN ManualReview
  ELSE IF FraudLikely(fraud) THEN RequestDocuments
  ELSE Unlock

DecideAccountLock(account, fraud) ==
  IF account = None \/ fraud = None THEN ManualReview
  ELSE IF account.status # "locked" THEN Respond
  ELSE IF FraudLikely(fraud) THEN RequestDocuments
  ELSE IF FalsePositive(fraud) THEN Unlock
  ELSE ManualReview

-----------------------------------------------------------------------------
(* merchant_settlement_rules.py *)

ProfilesOf(Owners) == [merchant : Owners, on_hold : BOOLEAN]
BankAccounts ==
  [verification : Maybe({"verified", "pending", "rejected", "failed", "name_mismatch"}),
   active : Maybe(BOOLEAN), failure : BOOLEAN]
PayoutStatus == {"processing", "success", "failed", "not_created"}

\* due is None for a date that is missing or cannot be parsed.
LedgersOf(Days) ==
  [day : Days, due : Maybe({"past", "future"}), net : Maybe(Int)]

\* retriable: the failure reason mentions a timeout, a system error, ...
PayoutsOf(Owners, Days) ==
  [merchant : Owners, day : Days, status : Maybe(PayoutStatus), amount : Maybe(Int),
   retriable : BOOLEAN]
Batches == [status : Maybe({"failed", "not_generated", "done"})]
Receipts == [bank : Maybe({"processing", "success", "failed"}), sent : Maybe(BOOLEAN)]

RequestIdentity    == Decision("request_identity_correction", FALSE)
RequestBankAccount == Decision("request_bank_account_correction", FALSE)
SettlementReview   == Decision("manual_settlement_review", TRUE)
ManualPayout       == Decision("create_manual_payout_draft", TRUE)
SendUnc            == Decision("send_unc_email_draft", TRUE)

\* An account nobody verified is usable unless a failure was recorded.
BankAccountInvalid(bank) ==
  \/ bank.verification \in {"pending", "rejected", "failed", "name_mismatch"}
  \/ bank.active = FALSE
  \/ bank.failure /\ bank.verification # "verified"

\* `ledger.net_settlement_amount or 0`
OrZero(amount) == IF amount = None THEN 0 ELSE amount

\* Faulty variant: the bank's own status of the transfer is not looked at.
PayoutInProgressByStatus(payout, receipt) == payout.status = "processing"

PayoutInProgress(payout, receipt) ==
  \/ payout.status = "processing"
  \/ receipt # None /\ receipt.bank = "processing"

PartialPayout(ledger, payout) ==
  /\ 0 < OrZero(payout.amount)
  /\ OrZero(payout.amount) < OrZero(ledger.net)

\* Faulty variant: a receipt that was sent settles the matter.
AfterSuccessByReceipt(ledger, payout, receipt) ==
  IF receipt # None /\ receipt.sent = TRUE THEN Respond
  ELSE IF PartialPayout(ledger, payout) THEN SettlementReview
  ELSE SendUnc

AfterSuccess(ledger, payout, receipt) ==
  IF PartialPayout(ledger, payout) THEN SettlementReview
  ELSE IF receipt # None /\ receipt.sent = TRUE THEN Respond
  ELSE SendUnc

BatchFailed(batch) == batch = None \/ batch.status \in {"failed", "not_generated"}

\* Faulty variant: a payout is retried without looking whether one is under way.
DecidePayoutHastily(ledger, payout, batch, receipt) ==
  IF (payout # None /\ payout.status = "success")
  THEN AfterSuccess(ledger, payout, receipt)
  ELSE ManualPayout

\* The net amount is positive, the bank account usable, the ledger there.
DecidePayout(ledger, payout, batch, receipt) ==
  IF payout = None
  THEN IF BatchFailed(batch) THEN ManualPayout ELSE SettlementReview
  ELSE IF PayoutInProgress(payout, receipt) THEN Respond
  ELSE IF payout.status = "success" THEN AfterSuccess(ledger, payout, receipt)
  ELSE IF \/ payout.status = "failed" /\ payout.retriable
          \/ payout.status \in {"failed", "not_created"} /\ BatchFailed(batch)
       THEN ManualPayout
  ELSE SettlementReview

\* Faulty variant: a zero or negative net amount goes on to the payout rules.
DecideSettlementAnyAmount(ev) ==
  IF ev.profile = None THEN RequestIdentity
  ELSE IF ev.profile.on_hold THEN SettlementReview
  ELSE IF ev.bank = None THEN RequestBankAccount
  ELSE IF BankAccountInvalid(ev.bank) THEN RequestBankAccount
  ELSE IF ev.ledger = None THEN SettlementReview
  ELSE DecidePayout(ev.ledger, ev.payout, ev.batch, ev.receipt)

DecideSettlement(ev) ==
  IF ev.profile = None THEN RequestIdentity
  ELSE IF ev.profile.on_hold THEN SettlementReview
  ELSE IF ev.bank = None THEN RequestBankAccount
  ELSE IF BankAccountInvalid(ev.bank) THEN RequestBankAccount
  ELSE IF ev.ledger = None THEN SettlementReview
  ELSE IF ev.ledger.due = "future" \/ OrZero(ev.ledger.net) <= 0 THEN Respond
  ELSE DecidePayout(ev.ledger, ev.payout, ev.batch, ev.receipt)

-----------------------------------------------------------------------------
(* risk_rules.py, for the actions of these workflows: the risk says nothing *)
(* of a manual payout, whose approval comes from its decision alone.        *)

HighRisk(action) ==
  action \in {"create_unlock_account_draft", "manual_review",
              "create_request_documents_response_draft"}
=============================================================================
