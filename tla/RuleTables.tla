------------------------------ MODULE RuleTables ------------------------------
(***************************************************************************)
(* The decision engines of CaseRules against the decision matrices their   *)
(* modules document, over every evidence bundle the fetch step can build.  *)
(* A behaviour picks a workflow and a bundle, then judges it the way the   *)
(* graph does: conflicts first, and the rule engine only without them.     *)
(***************************************************************************)
EXTENDS CaseRules

CONSTANT Users     \* the complainant and the owner are drawn from here

VARIABLES workflow, ev, user, decision

vars == <<workflow, ev, user, decision>>

-----------------------------------------------------------------------------
(* The bundles nodes/fetch_evidence.py can assemble for each workflow *)

Bundle(t, l, tr, u, rf, rc) ==
  [transaction |-> t, ledger |-> l, train |-> tr, utility |-> u,
   refund |-> rf, recon |-> rc]

\* The provider is asked only when the transaction was found, and the
\* ledger, provider and refund tools are skipped for a top-up.
Bundles(w) ==
  CASE w = "train_ticket" ->
         {Bundle(t, l, tr, None, rf, None) :
            t \in Transactions(Users), l \in Maybe(Ledgers), tr \in Maybe(TrainStatuses),
            rf \in Maybe(RefundStatusValue)}
         \cup {Bundle(None, l, None, None, None, None) : l \in Maybe(Ledgers)}
    [] w = "utility_bill" ->
         {Bundle(t, l, None, u, rf, None) :
            t \in Transactions(Users), l \in Maybe(Ledgers), u \in Maybe(ProviderStatusValue),
            rf \in Maybe(RefundStatusValue)}
         \cup {Bundle(None, l, None, None, None, None) : l \in Maybe(Ledgers)}
    [] w = "wallet_topup" ->
         {Bundle(t, None, None, None, None, rc) :
            t \in Maybe(Transactions(Users)), rc \in Maybe(Reconciliations)}

Init ==
  /\ workflow \in {"train_ticket", "utility_bill", "wallet_topup"}
  /\ ev \in Bundles(workflow)
  /\ user \in Maybe(Users)
  /\ decision = None

\* detect_conflict, then manual_review or apply_rules
Judge ==
  /\ decision = None
  /\ decision' = IF HasConflict(ev, user)
                 THEN ManualReview
                 ELSE ApplyRules(workflow, ev, FALSE)
  /\ UNCHANGED <<workflow, ev, user>>

Next == Judge

Spec == Init /\ [][Next]_vars

-----------------------------------------------------------------------------
(* Properties *)

Judged(w) == decision # None /\ workflow = w /\ ~HasConflict(ev, user)

Debited == ev.ledger # None /\ ev.ledger.has_user_debit
NotDebited == ev.ledger # None /\ ~ev.ledger.has_user_debit

\* The six conflict-free rows of the matrix at the head of
\* train_ticket_rules.py, read with the four refund conditions of
\* refund_rules.py: a refund draft exactly when the wallet was debited, the
\* provider failed and no refund stands in the way, and never without approval.
TrainMatrix ==
  Judged("train_ticket") =>
    /\ NotDebited => decision = Respond
    /\ Debited /\ ev.train # None =>
         /\ ev.train.status = "ticket_issued" => decision = Respond
         /\ ev.train.status = "provider_no_record" => decision = Reconcile
         /\ ev.train.status = "booking_pending" => decision = WaitSla
         /\ ev.train.status \in {"ticket_not_issued", "booking_failed"}
            /\ ev.refund = "not_requested" => decision = Refund
         /\ ev.train.status \in {"ticket_not_issued", "booking_failed"}
            /\ ev.refund \in {"requested", "approved", "executed", "rejected"}
              => decision = NoAction

\* The seven conflict-free rows of the matrix of utility_bill_rules.py; the
\* row its author insists on is that not_confirmed is never treated as failed.
UtilityMatrix ==
  Judged("utility_bill") =>
    /\ NotDebited => decision = Respond
    /\ Debited /\ ev.utility # None =>
         /\ ev.utility = "confirmed" => decision = Respond
         /\ ev.utility \in {"not_confirmed", "provider_no_record"}
              => decision = Reconcile
         /\ ev.utility = "pending" => decision = WaitSla
         /\ ev.utility = "amount_mismatch" => decision = ManualReview
         /\ ev.utility = "failed" /\ ev.refund = "not_requested"
              => decision = Refund

\* The conflict-free rows of the matrix of wallet_topup_rules.py: only a bank
\* success with the money seen in the master wallet may push a top-up through.
\* Its fallback row holds but for money known not to have arrived, which the
\* comment at line 113 takes out of it for any other bank status.
TopupMatrix ==
  Judged("wallet_topup") /\ ev.transaction # None =>
    /\ ev.transaction.status # "pending" => decision = Respond
    /\ ev.transaction.status = "pending" /\ ev.recon # None =>
         /\ ev.recon.bank = "success" /\ ev.recon.money = TRUE
              => decision = ForceSuccess
         /\ ev.recon.bank = "success" /\ ev.recon.money # TRUE
              => decision = ManualReview
         /\ ev.recon.bank = "failed" => decision = Respond
         /\ ev.recon.bank = "other" /\ ev.recon.money = FALSE => decision = Respond
         /\ ev.recon.bank = "other" /\ ev.recon.money # FALSE => decision = ManualReview

\* The fallback row of that matrix: a pending top-up with any other bank status
\* goes to manual review, whatever is known of the money.
TopupFallback ==
  Judged("wallet_topup") /\ ev.transaction # None /\ ev.recon # None
  /\ ev.transaction.status = "pending" /\ ev.recon.bank = "other"
    => decision = ManualReview

\* Two tables written apart agree: an engine asks for approval exactly when
\* risk_rules.requires_approval says its action needs one, whatever the amount.
ApprovalMatchesRisk ==
  decision # None =>
    \A amount \in {0, HighRiskThreshold - 1, HighRiskThreshold} :
      decision.approval = RequiresApproval(decision.action, amount)

=============================================================================
