------------------------ MODULE DecisionTables_proofs ------------------------
(***************************************************************************)
(* The promises of the five decision engines, for any users, any risk      *)
(* scores and any amounts.  Each engine is one chain of conditions, so     *)
(* each proof is the chain read backwards: first a lemma about any         *)
(* evidence at all, then the table, whose bundles never change.            *)
(***************************************************************************)
EXTENDS DecisionTables, TLAPS

Bundles ==
  /\ lock \in LockBundles \cup {NoLock}
  /\ late \in PayoutBundles \cup AccountBundles \cup {NoSettlement}

LEMMA BundlesStay == AnySpec => []Bundles
<1>1. AnyInit => Bundles
  BY DEF AnyInit, Init, Bundles
<1>2. Bundles /\ [JudgeTransaction]_<<vars, transactionVars>> => Bundles'
  BY DEF Bundles, JudgeTransaction, vars
<1> QED BY <1>1, <1>2, PTL DEF AnySpec

-----------------------------------------------------------------------------
(* Late settlements *)

\* What has to hold of any evidence for the engine to propose a payout.
LEMMA PayoutNeeds ==
  ASSUME NEW e, DecideSettlement(e).action = "create_manual_payout_draft"
  PROVE  /\ ~(e.ledger.due = "future" \/ OrZero(e.ledger.net) <= 0)
         /\ DecidePayout(e.ledger, e.payout, e.batch, e.receipt).action
              = "create_manual_payout_draft"
<1>. DEFINE closed == e.ledger.due = "future" \/ OrZero(e.ledger.net) <= 0
            pay == DecidePayout(e.ledger, e.payout, e.batch, e.receipt)
            held == e.profile.on_hold
            bad == BankAccountInvalid(e.bank)
<1>1. DecideSettlement(e) =
        IF e.profile = None THEN RequestIdentity
        ELSE IF held THEN SettlementReview
        ELSE IF e.bank = None THEN RequestBankAccount
        ELSE IF bad THEN RequestBankAccount
        ELSE IF e.ledger = None THEN SettlementReview
        ELSE IF closed THEN Respond ELSE pay
  BY DEF DecideSettlement
<1>2. /\ RequestIdentity.action # "create_manual_payout_draft"
      /\ SettlementReview.action # "create_manual_payout_draft"
      /\ RequestBankAccount.action # "create_manual_payout_draft"
      /\ Respond.action # "create_manual_payout_draft"
  BY DEF RequestIdentity, SettlementReview, RequestBankAccount, Respond, Decision
<1>. HIDE DEF closed, pay, held, bad
<1>3. ~closed /\ pay.action = "create_manual_payout_draft"
  BY <1>1, <1>2
<1>4. QED BY <1>3 DEF closed, pay

LEMMA PayoutReasons ==
  ASSUME NEW ledger, NEW payout, NEW batch, NEW receipt,
         DecidePayout(ledger, payout, batch, receipt).action = "create_manual_payout_draft"
  PROVE  /\ payout # None => /\ ~PayoutInProgress(payout, receipt)
                             /\ payout.status \in {"failed", "not_created"}
         /\ \/ payout # None /\ payout.status = "failed" /\ payout.retriable
            \/ BatchFailed(batch)
<1>. DEFINE busy == PayoutInProgress(payout, receipt)
            after == AfterSuccess(ledger, payout, receipt)
            unbatched == BatchFailed(batch)
            retry == payout.retriable
            status == payout.status
<1>1. /\ SettlementReview.action # "create_manual_payout_draft"
      /\ Respond.action # "create_manual_payout_draft"
      /\ after.action # "create_manual_payout_draft"
  BY DEF SettlementReview, Respond, SendUnc, AfterSuccess, Decision
<1>2. DecidePayout(ledger, payout, batch, receipt) =
        IF payout = None
        THEN IF unbatched THEN ManualPayout ELSE SettlementReview
        ELSE IF busy THEN Respond
        ELSE IF status = "success" THEN after
        ELSE IF \/ status = "failed" /\ retry
                \/ status \in {"failed", "not_created"} /\ unbatched
             THEN ManualPayout
        ELSE SettlementReview
  BY DEF DecidePayout
<1>. HIDE DEF busy, after, unbatched, retry, status
<1>3. /\ payout # None => ~busy /\ status \in {"failed", "not_created"}
      /\ (payout # None /\ status = "failed" /\ retry) \/ unbatched
  BY <1>1, <1>2
<1>4. QED BY <1>3 DEF busy, unbatched, retry, status

\* A manual payout is never proposed for a payout that is under way or done,
\* nor while the bank works on its transfer (decide_merchant_settlement).
THEOREM PaysOnceThm == AnySpec => []PaysOnce
<1>1. PaysOnce
  <2>. SUFFICES ASSUME Pays
       PROVE /\ late.payout # None => late.payout.status \notin {"processing", "success"}
             /\ (late.payout # None /\ late.receipt # None) => late.receipt.bank # "processing"
    BY DEF PaysOnce
  <2>1. DecidePayout(late.ledger, late.payout, late.batch, late.receipt).action
          = "create_manual_payout_draft"
    BY PayoutNeeds DEF Pays, SettlementAction
  <2>2. late.payout # None => /\ ~PayoutInProgress(late.payout, late.receipt)
                              /\ late.payout.status \in {"failed", "not_created"}
    BY <2>1, PayoutReasons
  <2>3. QED BY <2>2 DEF PayoutInProgress
<1>2. QED BY <1>1, PTL

\* A payout is proposed only for a positive amount the ledger owes today, and
\* because the last payout failed for a passing reason or no batch made one.
THEOREM PaysForAReasonThm == AnySpec => []PaysForAReason
<1>1. Bundles => PaysForAReason
  <2>. SUFFICES ASSUME Bundles, Pays
       PROVE /\ late.ledger.net # None /\ late.ledger.net > 0 /\ late.ledger.due # "future"
             /\ \/ late.payout # None /\ late.payout.status = "failed" /\ late.payout.retriable
                \/ BatchFailed(late.batch)
    BY DEF PaysForAReason
  <2>1. /\ late.ledger.due # "future" /\ ~(OrZero(late.ledger.net) <= 0)
        /\ DecidePayout(late.ledger, late.payout, late.batch, late.receipt).action
             = "create_manual_payout_draft"
    BY PayoutNeeds DEF Pays, SettlementAction
  <2>2. late.ledger # None
    <3>1. late.ledger = None => DecideSettlement(late).action # "create_manual_payout_draft"
      BY DEF DecideSettlement, RequestIdentity, SettlementReview, RequestBankAccount, Decision
    <3>2. QED BY <3>1 DEF Pays, SettlementAction
  <2>3. late.ledger.net \in Maybe(Nets)
    BY <2>2 DEF Bundles, PayoutBundles, AccountBundles, NoSettlement, Maybe, Owed
  <2>4. late.ledger.net # None /\ late.ledger.net > 0
    <3>1. PICK n : n = late.ledger.net
      OBVIOUS
    <3>2. n # None
      BY <3>1, <2>1 DEF OrZero
    <3>3. n \in Int
      BY <3>1, <3>2, <2>3, NetsAssumption DEF Maybe
    <3>4. ~(n <= 0)
      BY <3>1, <3>2, <2>1 DEF OrZero
    <3>5. n > 0
      BY <3>3, <3>4
    <3>6. QED BY <3>1, <3>2, <3>5
  <2>5. \/ late.payout # None /\ late.payout.status = "failed" /\ late.payout.retriable
        \/ BatchFailed(late.batch)
    BY <2>1, PayoutReasons
  <2>6. QED BY <2>1, <2>4, <2>5
<1>2. QED BY <1>1, BundlesStay, PTL

LEMMA OrZeroIsInt ==
  ASSUME NEW n \in Maybe(Nets) PROVE OrZero(n) \in Int
BY NetsAssumption DEF OrZero, Maybe

\* A payout counted as paid that paid something, but less than the ledger's net
\* amount, goes to a person, whether its receipt was sent or not.
THEOREM ShortPayoutIsReviewedThm == AnySpec => []ShortPayoutIsReviewed
<1>1. Bundles => ShortPayoutIsReviewed
  <2>. SUFFICES ASSUME Bundles, late.payout # None, late.ledger # None,
                       late.payout.status = "success",
                       late.receipt # None => late.receipt.bank # "processing",
                       late.payout.amount # None, late.ledger.net # None,
                       0 < late.payout.amount, late.payout.amount < late.ledger.net
       PROVE SettlementAction = "manual_settlement_review"
    BY DEF ShortPayoutIsReviewed
  <2>0. /\ PartialPayout(late.ledger, late.payout)
        /\ ~PayoutInProgress(late.payout, late.receipt)
    BY DEF PartialPayout, PayoutInProgress, OrZero
  <2>1. late \in PayoutBundles
    BY DEF Bundles, AccountBundles, NoSettlement
  <2>2. /\ late.profile = Merchant /\ late.bank = GoodBank
        /\ late.ledger \in {Owed(n) : n \in Maybe(Nets)}
    BY <2>1 DEF PayoutBundles
  <2>3. /\ ~late.profile.on_hold /\ late.profile # None
        /\ ~BankAccountInvalid(late.bank) /\ late.bank # None
    BY <2>2, NoneAssumption DEF Merchant, GoodBank, BankAccountInvalid
  <2>4. PICK n \in Maybe(Nets) : late.ledger = Owed(n)
    BY <2>2
  <2>5. late.ledger.due = "past" /\ late.ledger.net = n
    BY <2>4 DEF Owed
  <2>6. OrZero(n) \in Int
    BY OrZeroIsInt
  <2>7. late.payout.amount \in Maybe(Nets)
    BY <2>1 DEF PayoutBundles, Payouts, Maybe
  <2>8. OrZero(late.payout.amount) \in Int
    BY <2>7, OrZeroIsInt
  <2>9. ~(OrZero(late.ledger.net) <= 0)
    BY <2>0, <2>5, <2>6, <2>8 DEF PartialPayout
  <2>10. DecidePayout(late.ledger, late.payout, late.batch, late.receipt) = SettlementReview
    BY <2>0 DEF DecidePayout, AfterSuccess
  <2>11. DecideSettlement(late) = SettlementReview
    BY <2>3, <2>5, <2>9, <2>10 DEF DecideSettlement
  <2>12. QED BY <2>11 DEF SettlementAction, SettlementReview, Decision
<1>2. QED BY <1>1, BundlesStay, PTL

-----------------------------------------------------------------------------
(* Locked accounts *)

\* More signals and a score as high make fraud as likely and a mistake no
\* more so.
LEMMA SuspicionIsMonotone ==
  ASSUME NEW f, NEW g, f.signals \subseteq g.signals,
         RiskScore(f) \in Int, RiskScore(g) \in Int, RiskScore(f) <= RiskScore(g)
  PROVE  /\ FraudLikely(f) => FraudLikely(g)
         /\ FalsePositive(g) => FalsePositive(f)
<1>1. FraudLikely(f) => FraudLikely(g)
  <2>1. RiskScore(f) >= 70 => RiskScore(g) >= 70
    OBVIOUS
  <2>2. f.signals \cap Dangerous # {} => g.signals \cap Dangerous # {}
    OBVIOUS
  <2>3. {"new_devices", "velocity"} \subseteq f.signals
          => {"new_devices", "velocity"} \subseteq g.signals
    OBVIOUS
  <2>4. QED BY <2>1, <2>2, <2>3 DEF FraudLikely
<1>2. FalsePositive(g) => FalsePositive(f)
  <2>1. RiskScore(g) < 50 => RiskScore(f) < 50
    OBVIOUS
  <2>2. g.signals \cap (Dangerous \cup {"velocity"}) = {}
          => f.signals \cap (Dangerous \cup {"velocity"}) = {}
    OBVIOUS
  <2>3. QED BY <2>1, <2>2 DEF FalsePositive
<1>3. QED BY <1>1, <1>2

\* Another signal or a higher score never makes the decision milder.
THEOREM SuspicionNeverHelpsThm == AnySpec => []SuspicionNeverHelps
<1>1. Bundles => SuspicionNeverHelps
  <2>. SUFFICES ASSUME Bundles, lock.account # None, lock.fraud # None,
                       NEW s \in Signals, NEW score \in Scores,
                       RiskScore(lock.fraud) <= score
       PROVE Severity(LockAction(lock)) <=
               Severity(LockAction([lock EXCEPT !.fraud = Suspicious(lock.fraud, {s}, score)]))
    BY DEF SuspicionNeverHelps
  <2>. DEFINE f == lock.fraud
              g == Suspicious(lock.fraud, {s}, score)
              locked == lock.account.status = "locked"
  <2>1. lock \in LockBundles /\ f \in FraudCases
    BY DEF Bundles, NoLock, LockBundles, Maybe
  <2>2. g = [f EXCEPT !.signals = f.signals \cup {s}, !.score = score]
    BY DEF Suspicious
  <2>3. g \in FraudCases /\ f.signals \subseteq g.signals /\ g.score = score
    <3>. HIDE DEF f, g
    <3>1. /\ f.user \in {"u"} /\ f.signals \subseteq Signals /\ f.score \in Maybe(Scores)
          /\ f = [user |-> f.user, score |-> f.score, signals |-> f.signals]
      BY <2>1 DEF FraudCases
    <3>2. g = [user |-> f.user, score |-> score, signals |-> f.signals \cup {s}]
      BY <3>1, <2>2
    <3>3. score \in Maybe(Scores) /\ f.signals \cup {s} \subseteq Signals
      BY <3>1 DEF Maybe
    <3>4. QED BY <3>1, <3>2, <3>3 DEF FraudCases
  <2>4. g # None
    BY <2>3, NoneAssumption
  <2>5. RiskScore(f) \in Int
    <3>1. PICK x \in Maybe(Scores) : x = f.score
      BY <2>1 DEF FraudCases
    <3>2. (IF x = None THEN 0 ELSE x) \in Int
      BY ScoresAssumption DEF Maybe
    <3>3. QED BY <3>1, <3>2 DEF RiskScore
  <2>6. RiskScore(g) = score /\ score \in Int
    BY <2>3, ScoresAssumption DEF RiskScore
  <2>7. /\ FraudLikely(f) => FraudLikely(g)
        /\ FalsePositive(g) => FalsePositive(f)
    BY <2>3, <2>5, <2>6, SuspicionIsMonotone
  <2>8. LockAction(lock) =
          IF ~locked THEN "draft_customer_response"
          ELSE IF FraudLikely(f) THEN "create_request_documents_response_draft"
          ELSE IF FalsePositive(f) THEN "create_unlock_account_draft" ELSE "manual_review"
    BY DEF LockAction, DecideAccountLock, Respond, RequestDocuments, Unlock, ManualReview,
           Decision
  <2>9. /\ [lock EXCEPT !.fraud = g].fraud = g
        /\ [lock EXCEPT !.fraud = g].account = lock.account
    BY <2>1 DEF LockBundles
  <2>10. LockAction([lock EXCEPT !.fraud = g]) =
          IF ~locked THEN "draft_customer_response"
          ELSE IF FraudLikely(g) THEN "create_request_documents_response_draft"
          ELSE IF FalsePositive(g) THEN "create_unlock_account_draft" ELSE "manual_review"
    BY <2>4, <2>9 DEF LockAction, DecideAccountLock, Respond, RequestDocuments, Unlock,
           ManualReview, Decision
  <2>11. /\ Severity("draft_customer_response") = 3
         /\ Severity("create_request_documents_response_draft") = 2
         /\ Severity("manual_review") = 1
         /\ Severity("create_unlock_account_draft") = 0
    BY DEF Severity
  <2>. HIDE DEF f, g, locked
  <2>12. Severity(LockAction(lock)) <= Severity(LockAction([lock EXCEPT !.fraud = g]))
    BY <2>7, <2>8, <2>10, <2>11
  <2>13. QED BY <2>12 DEF g
<1>2. QED BY <1>1, BundlesStay, PTL

-----------------------------------------------------------------------------
(* Transactions *)

TransactionWorkflows == {"train_ticket", "utility_bill", "wallet_topup"}

\* A decision there is was taken on the very bundle the state still holds.
Judgement ==
  decision # None =>
    /\ workflow \in TransactionWorkflows
    /\ decision = IF Transactions!HasConflict(ev, user) THEN Transactions!ManualReview
                  ELSE Transactions!ApplyRules(workflow, ev, FALSE)

\* Nothing is judged before its workflow is known.
Started == workflow \in TransactionWorkflows \/ workflow = None

LEMMA JudgementStays == AnySpec => []Judgement
<1>1. AnyInit => Judgement /\ Started
  BY DEF AnyInit, AtRest, Transactions!Init, Judgement, Started, TransactionWorkflows
<1>2. ASSUME Judgement, Started, [JudgeTransaction]_<<vars, transactionVars>>
      PROVE  Judgement' /\ Started'
  <2>1. CASE JudgeTransaction
    BY <1>2, <2>1 DEF JudgeTransaction, Transactions!Judge, Judgement, Started
  <2>2. CASE UNCHANGED <<vars, transactionVars>>
    BY <1>2, <2>2 DEF transactionVars, Judgement, Started
  <2> QED BY <1>2, <2>1, <2>2
<1> QED BY <1>1, <1>2, PTL DEF AnySpec

LEMMA TrainRows == Judgement => Transactions!TrainMatrix
<1>. SUFFICES ASSUME Judgement, Transactions!Judged("train_ticket")
              PROVE  Transactions!TrainMatrix
  BY DEF Transactions!TrainMatrix
<1>1. decision = Transactions!DecideTrainTicket(ev, FALSE)
  BY DEF Judgement, Transactions!Judged, Transactions!ApplyRules
<1>2. ~Transactions!ProviderSuccessButNoTicket(ev)
  BY DEF Transactions!Judged, Transactions!HasConflict
<1> QED
  BY <1>1, <1>2 DEF Transactions!TrainMatrix, Transactions!DecideTrainTicket,
     Transactions!ProviderSuccessButNoTicket, Transactions!Debited, Transactions!NotDebited,
     Transactions!RefundEligible, Transactions!WalletDebited, Transactions!ProviderFailed,
     Transactions!NoExistingRefund

LEMMA UtilityRows == Judgement => Transactions!UtilityMatrix
<1>. SUFFICES ASSUME Judgement, Transactions!Judged("utility_bill")
              PROVE  Transactions!UtilityMatrix
  BY DEF Transactions!UtilityMatrix
<1>1. decision = Transactions!DecideUtilityBill(ev, FALSE)
  BY DEF Judgement, Transactions!Judged, Transactions!ApplyRules
<1> QED
  BY <1>1 DEF Transactions!UtilityMatrix, Transactions!DecideUtilityBill,
     Transactions!Debited, Transactions!NotDebited, Transactions!RefundEligible,
     Transactions!WalletDebited, Transactions!ProviderFailed, Transactions!NoExistingRefund

LEMMA TopupRows == Judgement => Transactions!TopupMatrix
<1>. SUFFICES ASSUME Judgement, Transactions!Judged("wallet_topup")
              PROVE  Transactions!TopupMatrix
  BY DEF Transactions!TopupMatrix
<1>1. decision = Transactions!DecideWalletTopup(ev, FALSE)
  BY DEF Judgement, Transactions!Judged, Transactions!ApplyRules
<1> QED BY <1>1 DEF Transactions!TopupMatrix, Transactions!DecideWalletTopup

\* The three transaction engines agree with the matrices at the head of their
\* modules, on every bundle without a conflict; of the top-up's fallback row,
\* for bank statuses beside the matrix only while the money may have arrived.
THEOREM DocumentedMatricesThm == AnySpec => []DocumentedMatrices
<1>1. Judgement => DocumentedMatrices
  BY TrainRows, UtilityRows, TopupRows DEF DocumentedMatrices
<1> QED BY <1>1, JudgementStays, PTL

\* Every decision a transaction engine can take.
Decisions ==
  {Transactions!ManualReview, Transactions!Respond, Transactions!Reconcile,
   Transactions!WaitSla, Transactions!NoAction, Transactions!Refund,
   Transactions!ForceSuccess}

LEMMA DecisionsOfEngines ==
  ASSUME NEW w \in TransactionWorkflows, NEW e
  PROVE  Transactions!ApplyRules(w, e, FALSE) \in Decisions
<1>1. Transactions!DecideTrainTicket(e, FALSE) \in Decisions
  BY DEF Transactions!DecideTrainTicket, Decisions
<1>2. Transactions!DecideUtilityBill(e, FALSE) \in Decisions
  BY DEF Transactions!DecideUtilityBill, Decisions
<1>3. Transactions!DecideWalletTopup(e, FALSE) \in Decisions
  BY DEF Transactions!DecideWalletTopup, Decisions
<1> QED BY <1>1, <1>2, <1>3 DEF Transactions!ApplyRules, TransactionWorkflows

\* risk_rules.py, on each of them: the amount moves a refund between two
\* levels of risk that both need a person.
LEMMA RiskOfDecisions ==
  ASSUME NEW d \in Decisions, NEW amount
  PROVE  d.approval = Transactions!RequiresApproval(d.action, amount)
<1>1. \A a \in {"manual_review", "create_refund_request_draft", "create_force_success_draft"} :
        Transactions!RequiresApproval(a, amount) = TRUE
  BY DEF Transactions!RequiresApproval, Transactions!ClassifyRisk
<1>2. \A a \in {"draft_customer_response", "create_reconciliation_ticket_draft", "wait_sla",
              "no_action"} :
        Transactions!RequiresApproval(a, amount) = FALSE
  BY DEF Transactions!RequiresApproval, Transactions!ClassifyRisk
<1>3. CASE d \in {Transactions!ManualReview, Transactions!Refund, Transactions!ForceSuccess}
  <2>1. /\ d.action \in {"manual_review", "create_refund_request_draft",
                         "create_force_success_draft"}
        /\ d.approval = TRUE
    BY <1>3 DEF Transactions!ManualReview, Transactions!Refund, Transactions!ForceSuccess,
                Transactions!Decision
  <2> QED BY <1>1, <2>1, Zenon
<1>4. CASE d \in {Transactions!Respond, Transactions!Reconcile, Transactions!WaitSla,
                 Transactions!NoAction}
  <2>1. /\ d.action \in {"draft_customer_response", "create_reconciliation_ticket_draft",
                         "wait_sla", "no_action"}
        /\ d.approval = FALSE
    BY <1>4 DEF Transactions!Respond, Transactions!Reconcile, Transactions!WaitSla,
                Transactions!NoAction, Transactions!Decision
  <2> QED BY <1>2, <2>1, Zenon
<1> QED BY <1>3, <1>4 DEF Decisions

\* An engine asks for approval exactly when the risk table says its action
\* needs one.
THEOREM ApprovalMatchesRiskThm == AnySpec => []ApprovalMatchesRisk
<1>1. Judgement => ApprovalMatchesRisk
  <2>. SUFFICES ASSUME Judgement, decision # None, NEW amount
                PROVE  decision.approval =
                         Transactions!RequiresApproval(decision.action, amount)
    BY Zenon DEF ApprovalMatchesRisk, Transactions!ApprovalMatchesRisk
  <2>1. decision \in Decisions
    BY DecisionsOfEngines DEF Judgement, Decisions
  <2> QED BY <2>1, RiskOfDecisions, Zenon
<1> QED BY <1>1, JudgementStays, PTL
=============================================================================
