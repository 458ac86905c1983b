------------------------------ MODULE CaseTickets ------------------------------
(***************************************************************************)
(* One complaint on its way through the graph, seen from the ticket the    *)
(* staff get: extraction, evidence, claim verification, the decision of    *)
(* the rules, the resolution ticket, and the approval that comes after it. *)
(* CaseFlow and AccountCases have the same path with its service, its      *)
(* retries and its drafts; here the claims and the amounts are in view.    *)
(***************************************************************************)
EXTENDS ResolutionTicket

CONSTANTS Users,         \* user ids
          Complaints,    \* what the texts mention, see ComplaintIntake
          MockLLM,       \* the setting MOCK_LLM
          Amounts,       \* transaction amounts, zero included
          Debits         \* amounts a ledger or a bank reports

ASSUME AmountsAssumption == None \notin Nat /\ Amounts \subseteq Nat /\ Debits \subseteq Nat
ASSUME ComplaintsAssumption == \A m \in Complaints : m.user \in Users \cup {None}

Rules == INSTANCE CaseRules
Accounts == INSTANCE AccountRules

VARIABLES complaint, caseUser,   \* the input of POST /cases
          user, info,            \* extract_info's user_id and extracted_info
          ev, summary,           \* evidence_bundle, claim_verification_summary
          decision, ticket,      \* rule_decision, resolution_ticket
          approval,              \* approval_status
          status                 \* where the graph is

vars == <<complaint, caseUser, user, info, ev, summary, decision, ticket, approval, status>>

-----------------------------------------------------------------------------
(* What fetch_evidence may return for a workflow.  A read may fail.        *)

NoEvidence ==
  [key \in {"transaction", "ledger", "train", "utility", "refund", "recon", "account",
            "fraud", "profile", "bank", "settlement", "payout", "batch", "receipt"} |-> None]

Ledger(debit, refunded) ==
  [has_user_debit |-> debit > 0, has_credit_refund |-> refunded, debit |-> debit,
   net |-> IF refunded THEN 0 ELSE debit]

\* The record of a transaction names its service; one that the complaint
\* names too is not looked at.
PaidServices == {"train_ticket", "electric_bill", "water_bill", "wallet_topup"}

Transactions ==
  [id : Optional(info.txn), user : Users, status : {"pending", "success", "failed"},
   amount : Amounts,
   service : IF info.service \in PaidServices THEN {info.service} ELSE PaidServices]
Ledgers == {Ledger(0, FALSE)} \cup {Ledger(d, r) : d \in Debits, r \in BOOLEAN}
Trains == [status : {"ticket_issued", "ticket_not_issued", "booking_pending"}, has_code : {TRUE}]
Recons ==
  {[bank |-> "success", money |-> TRUE, amount |-> a] : a \in Debits}
  \cup {[bank |-> "failed", money |-> FALSE, amount |-> None]}

Refunds == {"not_requested"}

OrNone(S) == S \cup {None}

\* svc_hint: what the complaint says, or else the transaction that was found.
ServiceHint(t) ==
  IF info.service = None /\ t # None THEN t.service ELSE info.service

\* The provider is asked about a transaction that was found, by the service.
Provided(e) ==
  IF e.transaction = None THEN {e}
  ELSE CASE ServiceHint(e.transaction) = "train_ticket" ->
              {[e EXCEPT !.train = t] : t \in OrNone(Trains)}
         [] ServiceHint(e.transaction) \in {"electric_bill", "water_bill"} ->
              {[e EXCEPT !.utility = u] : u \in {None, "confirmed", "failed", "not_confirmed"}}
         [] OTHER -> {e}

TransactionRead(t, l, r, c) ==
  [NoEvidence EXCEPT !.transaction = t, !.ledger = l, !.refund = r, !.recon = c]

\* A top-up has no ledger and no refund.
UnlessTopup(S, t) == IF ServiceHint(t) = "wallet_topup" THEN {None} ELSE OrNone(S)

\* Without a transaction id nothing is read; everything has a reconciliation.
TransactionEvidence ==
  IF info.txn = None THEN {NoEvidence}
  ELSE UNION {UNION {Provided(TransactionRead(t, l, r, c)) :
                       l \in UnlessTopup(Ledgers, t), r \in UnlessTopup(Refunds, t),
                       c \in OrNone(Recons)} : t \in OrNone(Transactions)}

\* The user id of the case, or else the owner of the phone number.
Subject == IF user # None THEN user ELSE info.phone

AccountRead(a, f) == [NoEvidence EXCEPT !.account = a, !.fraud = f]

AccountEvidence ==
  IF Subject = None THEN {NoEvidence}
  ELSE {AccountRead(a, f) :
          a \in OrNone([user : {Subject}, status : {"locked", "active"},
                        withdrawal : {None, TRUE, FALSE}]),
          f \in OrNone([user : {Subject}, score : {10, 90}, signals : {{}}])}

MerchantRead(b, s, p, t) ==
  [NoEvidence EXCEPT
     !.profile = [on_hold |-> FALSE],
     !.bank = [verification |-> b, active |-> TRUE, failure |-> FALSE],
     !.settlement = s, !.payout = p, !.batch = t]

MerchantEvidence ==
  {NoEvidence} \cup
  {MerchantRead(b, s, p, t) :
     b \in {"verified", "pending"},
     s \in OrNone([due : {"past"}, net : Debits \cup {0}]),
     p \in OrNone([status : {"failed", "success", "processing"}, amount : Debits,
                   retriable : {TRUE}]),
     t \in OrNone([status : {"failed", "done"}])}

Evidence ==
  CASE info.service = "account_security" -> AccountEvidence
    [] info.service = "merchant_settlement" -> MerchantEvidence
    [] OTHER -> TransactionEvidence

-----------------------------------------------------------------------------
Init ==
  /\ complaint \in Complaints /\ caseUser \in OrNone(Users)
  /\ user = None /\ info = None /\ ev = None /\ summary = None
  /\ decision = None /\ ticket = None /\ approval = None
  /\ status = "extracting"

ExtractInfo ==
  /\ status = "extracting"
  /\ \E i \in Extractions(complaint, caseUser, MockLLM) :
       /\ info' = i
       /\ user' = CaseUser(i, caseUser)
       /\ status' = IF DeadLettered(i) THEN "dead_letter" ELSE "fetching_evidence"
  /\ UNCHANGED <<complaint, caseUser, ev, summary, decision, ticket, approval>>

\* after_fetch_evidence looks at the results of the two critical reads: when
\* both failed, the retries end in a dead letter.  A case that had nothing to
\* read has no failed read, and goes on.
CriticalReadsFailed(e) ==
  /\ info.txn # None
  /\ info.service \notin {"account_security", "merchant_settlement", "wallet_topup"}
  /\ e.transaction = None /\ e.ledger = None

FetchEvidence ==
  /\ status = "fetching_evidence"
  /\ \E e \in Evidence :
       /\ ev' = e
       /\ status' = IF CriticalReadsFailed(e) THEN "dead_letter" ELSE "detecting"
  /\ UNCHANGED <<complaint, caseUser, user, info, summary, decision, ticket, approval>>

\* selected_workflow: that of the complaint's service, or of the transaction's.
Workflow ==
  IF WorkflowOf(info.service) # None THEN WorkflowOf(info.service)
  ELSE IF ev # None /\ ev.transaction # None THEN WorkflowOf(ev.transaction.service)
  ELSE None

\* Only a conflict of the conflict rules leaves the path, as does a case
\* without a workflow; what the claims show is kept for the ticket.
DetectConflict ==
  /\ status = "detecting"
  /\ summary' = VerifyAllClaims(ClaimsFromInfo(info, complaint), ev)
  /\ status' = IF Rules!HasConflict(ev, user) \/ Workflow = None
               THEN "manual_review" ELSE "rule_decision"
  /\ UNCHANGED <<complaint, caseUser, user, info, ev, decision, ticket, approval>>

\* manual_review asks for approval, and audit_and_close, which only spares the
\* status the approval gate sets, closes the case.
ManualReview ==
  /\ status = "manual_review"
  /\ decision' = [action |-> "manual_review", approval |-> TRUE]
  /\ status' = "closed"
  /\ UNCHANGED <<complaint, caseUser, user, info, ev, summary, ticket, approval>>

Decided ==
  CASE Workflow = "fraud_account_lock" ->
         Accounts!DecideAccountLock(ev.account, ev.fraud)
    [] Workflow = "merchant_settlement_delay" ->
         Accounts!DecideSettlement(
           [profile |-> ev.profile, bank |-> ev.bank, ledger |-> ev.settlement,
            payout |-> ev.payout, batch |-> ev.batch, receipt |-> ev.receipt])
    [] OTHER -> Rules!ApplyRules(Workflow, ev, FALSE)

RecommendAction ==
  /\ status = "rule_decision"
  /\ decision' = Decided
  /\ status' = "responding"
  /\ UNCHANGED <<complaint, caseUser, user, info, ev, summary, ticket, approval>>

\* The ticket is built once, and then the gate is passed or waited at.
GenerateResponse ==
  /\ status = "responding"
  /\ ticket' = BuildResolutionTicket(Workflow, decision, ev, info.paid, summary)
  /\ approval' = IF decision.approval THEN "pending" ELSE None
  /\ status' = IF decision.approval THEN "waiting_approval" ELSE "closed"
  /\ UNCHANGED <<complaint, caseUser, user, info, ev, summary, decision>>

\* ApprovalService changes the status and the draft, not the ticket.
DecideApproval ==
  /\ status = "waiting_approval"
  /\ approval' \in {"approved", "rejected"}
  /\ status' = "closed"
  /\ UNCHANGED <<complaint, caseUser, user, info, ev, summary, decision, ticket>>

Next ==
  \/ ExtractInfo \/ FetchEvidence \/ DetectConflict \/ ManualReview
  \/ RecommendAction \/ GenerateResponse \/ DecideApproval

Spec == Init /\ [][Next]_vars

-----------------------------------------------------------------------------
TypeOK ==
  /\ complaint \in Complaints /\ {caseUser, user} \subseteq OrNone(Users)
  /\ status \in {"extracting", "dead_letter", "fetching_evidence", "detecting",
                 "manual_review", "rule_decision", "responding", "waiting_approval", "closed"}
  /\ decision # None => decision.action \in DOMAIN ActionMap
  /\ approval \in {None, "pending", "approved", "rejected"}

TransactionWorkflows == {"train_ticket", "utility_bill", "wallet_topup"}
Proceeds == status \notin {"extracting", "dead_letter"}
Mismatched(type) == \E c \in summary.claims : c.type = type /\ c.status = "mismatched"

\* What the regexes extracted is enough for what the case goes on to look up:
\* the transaction, or whose account is locked (mock_extractor.py:427-452,
\* missing_info.py:19-25).  Of a settlement nothing is said: such a case goes
\* on without its merchant (missing_info.py:77-87).
RegexIntakeIsComplete ==
  (Proceeds /\ info.method = "regex") =>
    /\ Workflow \in TransactionWorkflows => info.txn # None
    /\ Workflow = "fraud_account_lock" => Subject # None

\* Every amount on a ticket is one the systems reported, and the amount of
\* the tool's input, computed on its own, is the amount the ticket shows as
\* verified (ticket_builder.py:743-935).
TicketAmounts ==
  ticket # None =>
    /\ ticket.action_amount # None =>
         \/ ev.settlement # None /\ ticket.action_amount = ev.settlement.net
         \/ ev.ledger # None /\ ticket.action_amount = ev.ledger.debit
         \/ ev.transaction # None /\ ticket.action_amount = ev.transaction.amount
         \/ ev.recon # None /\ ticket.action_amount = ev.recon.amount
    /\ ticket.input_amount # None => ticket.input_amount = ticket.action_amount

\* A ticket that would move an amount the claim verifier found the customer
\* wrong about is for a person to look at: the ticket compares the amounts
\* again, from other fields (ticket_builder.py:997-1019).  A transaction of
\* amount zero is the exception, see SameTrustedAmount.
MismatchEscalates ==
  (/\ ticket # None /\ ticket.action \in {"create_refund_request_draft",
        "create_force_success_draft", "create_reconciliation_ticket_draft"}
   /\ (ev.transaction = None \/ ev.transaction.amount # 0)
   /\ Mismatched("transaction_amount")) => ticket.resolution # "actionable"

-----------------------------------------------------------------------------
(* What the comments of the code say and the code does not do              *)

\* "If LLM returned a user_id but we already have one from state, prefer
\* state" (extractor.py:79): money is moved for the user of the case only.
MoneyForTheCaseUser ==
  (/\ ticket # None /\ caseUser # None /\ ev.transaction # None
   /\ ticket.action \in Rules!MoneyActions) => ev.transaction.user = caseUser

\* "Transaction-based workflows: transaction_id missing -> dead_letter"
\* (missing_info.py:20).
TransactionIsNeeded ==
  (Proceeds /\ Workflow \in TransactionWorkflows) => info.txn # None

\* "merchant_settlement_delay needs merchant identity, not transaction_id"
\* (extract_info.py:71): naming the merchant keeps the case alive.
MerchantIsEnough ==
  ("merchant_settlement" \in complaint.topics /\ complaint.merchant)
    => status # "dead_letter"

\* "system_evidence_conflict: system sources disagree -> block risky actions"
\* (claim_verifier.py:15).
SystemConflictBlocks ==
  (summary # None /\ summary.system_conflict)
    => (decision = None \/ decision.action \notin Rules!MoneyActions)

\* "Trusted amount from system evidence (priority order)" (ticket_builder.py:880):
\* the amount on the ticket is the one the claim verifier trusts.
SameTrustedAmount ==
  (ticket # None /\ ev.settlement = None) => ticket.action_amount = summary.action_amount

\* "Which claims match system data" (claim_verification.py:134): the claim
\* that money was taken is a match only when the ledger has a debit.
MatchedIsConfirmed ==
  (summary # None /\ ev.ledger # None) =>
    \A c \in summary.claims :
      (c.type = "payment_status" /\ c.status = "matched"
         /\ c.value \in {"bank_deducted", "money_deducted"})
        => ev.ledger.has_user_debit

\* "Verified: phone -> user_id (from accounts)" (claim_verifier.py:352): the
\* phone number belongs to the account.
PhoneIsTheAccounts ==
  summary # None =>
    \A c \in summary.claims :
      (c.type = "user_identity" /\ c.status = "matched") => c.value = ev.account.user

\* The preconditions a refund ticket lists hold in its evidence
\* (resolution_ticket.py:96, ticket_builder.py:36-40).
PreconditionsHold ==
  (ticket # None /\ ticket.action = "create_refund_request_draft")
    => RefundPreconditions(ev)

\* "Conflict = manual review - route to human" (README.md:235), "route to human
\* for manual resolution" (manual_review.py:1): what needs a person is not
\* closed before one has decided.
ApprovalIsAskedFor ==
  (status = "closed" /\ decision # None /\ decision.approval)
    => approval \in {"approved", "rejected"}

\* The ticket's approval is 'not_required', 'pending', 'approved' or
\* 'rejected' (resolution_ticket.py:108), as the case's is.
TicketShowsDecision ==
  (ticket # None /\ approval \in {"approved", "rejected"}) => ticket.approval = approval
=============================================================================
