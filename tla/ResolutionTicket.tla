--------------------------- MODULE ResolutionTicket ---------------------------
(***************************************************************************)
(* llm/ticket_builder.py and schemas/resolution_ticket.py: the ticket the  *)
(* staff work from, built from the decision of the rules, the evidence and *)
(* the verified claims.  Names, descriptions, instructions and notes are   *)
(* left out.  The evidence is that of ClaimVerifier with                   *)
(*   fraud, profile, bank, settlement [due, net], payout, batch, receipt   *)
(* each a record or None, see AccountRules.                                *)
(***************************************************************************)
EXTENDS ClaimVerifier, Integers

-----------------------------------------------------------------------------
(* _ACTION_MAP: the tool and the mode of every action, and the evidence it *)
(* says it depends on                                                      *)

Entry(tool, mode, needs) == [tool |-> tool, mode |-> mode, needs |-> needs]

\* The second entry of request_identity_correction replaces the first.
ActionMap ==
  [create_refund_request_draft |->
     Entry("create_refund_draft", "draft_only", {"transaction", "ledger", "refund"}),
   create_force_success_draft |->
     Entry("create_force_success_draft", "draft_only", {"transaction", "ledger", "recon"}),
   create_reconciliation_ticket_draft |->
     Entry("create_reconciliation_draft", "draft_only", {"transaction", "ledger", "recon"}),
   create_unlock_account_draft |->
     Entry("create_unlock_account_draft", "draft_only", {"account", "fraud"}),
   draft_customer_response |->
     Entry("create_customer_response_draft", "draft_only", {"transaction"}),
   create_request_documents_response_draft |->
     Entry("create_customer_response_draft", "draft_only", {}),
   manual_review |-> Entry(None, "manual", {}),
   create_manual_payout_draft |->
     Entry(None, "draft_only", {"profile", "bank", "settlement", "payout", "batch"}),
   send_unc_email_draft |-> Entry(None, "draft_only", {"profile", "payout", "receipt"}),
   request_bank_account_correction |-> Entry(None, "draft_only", {"profile", "bank"}),
   manual_settlement_review |->
     Entry(None, "manual", {"profile", "settlement", "payout", "batch"}),
   request_identity_correction |-> Entry(None, "information_request", {}),
   wait_sla |-> Entry(None, "manual", {"transaction"}),
   no_action |-> Entry(None, "read_only", {})]

\* The precondition of the refund entry, as it is written on the ticket.
RefundPreconditions(ev) ==
  /\ ev.transaction # None /\ ev.transaction.status \in {"success", "failed"}
  /\ ev.ledger # None /\ ev.ledger.has_user_debit
  /\ ev.refund = "not_requested"

-----------------------------------------------------------------------------
(* _compute_evidence_checked_and_missing *)

Expected(workflow) ==
  CASE workflow = "fraud_account_lock" -> {"account", "fraud"}
    [] workflow = "merchant_settlement_delay" ->
         {"profile", "bank", "settlement", "payout", "batch", "receipt"}
    [] OTHER -> {"transaction", "ledger"}

Checked(ev) == {key \in DOMAIN ev : ev[key] # None}

\* A top-up without a ledger misses it under two labels.
Missing(workflow, ev) ==
  (Expected(workflow) \ Checked(ev)) \cup
  MissingIf("Wallet Ledger", workflow = "wallet_topup" /\ ev.ledger = None)

-----------------------------------------------------------------------------
(* The status of the ticket and of its action *)

ResolutionStatus(action, missing, conflict) ==
  IF action = "request_identity_correction" THEN "missing_identity"
  ELSE IF \/ ActionMap[action].mode = "manual"
          \/ Cardinality(missing) >= 2 \/ conflict
  THEN "manual_review_required"
  ELSE "actionable"

ActionStatus(action, approvalRequired) ==
  IF ActionMap[action].mode = "manual" THEN "manual_required"
  ELSE IF approvalRequired THEN "waiting_approval" ELSE "draft"

\* Faulty variant: a refund is not among the actions that move an amount.
MoneyActionTypesButRefund ==
  {"create_force_success_draft", "create_reconciliation_ticket_draft",
   "create_manual_payout_draft"}

MoneyActionTypes ==
  {"create_refund_request_draft", "create_force_success_draft",
   "create_reconciliation_ticket_draft", "create_manual_payout_draft"}

-----------------------------------------------------------------------------
(* _build_amount_verification and _build_mcp_input *)

Nonzero(amount) == IF amount = 0 THEN None ELSE amount

SettlementNet(ev) == IF ev.settlement = None THEN None ELSE Nonzero(ev.settlement.net)

\* Faulty variant: the transaction is looked at before the wallet ledger.
ActionAmountByTransaction(ev) ==
  IF SettlementNet(ev) # None THEN SettlementNet(ev)
  ELSE IF ev.transaction # None THEN Nonzero(ev.transaction.amount)
  ELSE IF ev.ledger # None THEN Nonzero(ev.ledger.debit)
  ELSE None

\* The settlement ledger, the wallet ledger, the transaction, the bank.  A
\* transaction without an amount hides the amount of the bank.
ActionAmount(ev) ==
  IF SettlementNet(ev) # None THEN SettlementNet(ev)
  ELSE IF ev.ledger # None /\ ev.ledger.debit # 0 THEN ev.ledger.debit
  ELSE IF ev.transaction # None THEN Nonzero(ev.transaction.amount)
  ELSE IF ev.recon # None THEN Nonzero(ev.recon.amount)
  ELSE None

\* The amount among the inputs of the tool, for the two actions that have one.
InputAmount(action, ev) ==
  CASE action = "create_refund_request_draft" ->
         IF ev.ledger = None THEN None ELSE Nonzero(ev.ledger.debit)
    [] action = "create_manual_payout_draft" -> SettlementNet(ev)
    [] OTHER -> None

AmountMismatch(claimed, trusted) ==
  claimed # None /\ trusted # None /\ claimed # trusted

-----------------------------------------------------------------------------
(* build_resolution_ticket: decision is [action, approval], summary what   *)
(* VerifyAllClaims returned.  The node runs before the approval gate, so   *)
(* an action that needs a person is "pending" here.  A conflict of amounts *)
(* between the systems overrides the status.                               *)

BuildResolutionTicket(workflow, decision, ev, claimed, summary) ==
  LET action == decision.action
      trusted == ActionAmount(ev)
      missing == Missing(workflow, ev)
      escalated == AmountMismatch(claimed, trusted) /\ action \in MoneyActionTypes
  IN [workflow |-> workflow, action |-> action, tool |-> ActionMap[action].tool,
      needs |-> ActionMap[action].needs, missing |-> missing,
      resolution |-> IF summary.system_conflict THEN "manual_review_required"
                     ELSE ResolutionStatus(action, missing, escalated),
      status |-> ActionStatus(action, decision.approval),
      approval |-> IF decision.approval THEN "pending" ELSE "not_required",
      action_amount |-> trusted, input_amount |-> InputAmount(action, ev)]
=============================================================================
