------------------------- MODULE Investigation_proofs -------------------------
(***************************************************************************)
(* Proofs about Investigation, for every set of staff, transactions and    *)
(* people, every history of their records, every way the chats may file    *)
(* their tickets and file them again, and any number of decisions.         *)
(***************************************************************************)
EXTENDS Investigation, TLAPS, SequenceTheorems

-----------------------------------------------------------------------------
(* The rule engines *)

\* A decision that is known, that names an action if it asks for approval, and
\* that asks for approval and rests on the evidence when it is about money or an
\* unlocked account.
Sound(d, ev) ==
  /\ d \in [action : TicketActions, approval : BOOLEAN]
  /\ d.approval => d.action # ""
  /\ d.action \in Risky => d.approval = TRUE /\ Justifies(ev, d.action)

LEMMA MadeSound ==
  ASSUME NEW a \in TicketActions, NEW b \in BOOLEAN, NEW ev,
         b => a # "", a \in Risky => b /\ Justifies(ev, a)
  PROVE  Sound([action |-> a, approval |-> b], ev)
<1>. DEFINE d == [action |-> a, approval |-> b]
<1>1. d \in [action : TicketActions, approval : BOOLEAN]
  OBVIOUS
<1>2. d.action = a
  OBVIOUS
<1>3. d.approval = b
  BY Zenon
<1>. HIDE DEF d
<1>4. Sound(d, ev)
  BY <1>1, <1>2, <1>3, Zenon DEF Sound
<1> QED BY <1>4 DEF d

LEMMA HarmlessSound ==
  ASSUME NEW ev,
         NEW d \in {ManualReview, Respond, Reconcile, WaitSla, NoAction,
                    Accounts!ManualReview, Accounts!Respond, Accounts!RequestDocuments,
                    Accounts!RequestIdentity, Accounts!RequestBankAccount,
                    Accounts!SettlementReview, Accounts!SendUnc}
  PROVE  Sound(d, ev)
<1>. DEFINE Harmless ==
       {"manual_review", "draft_customer_response", "wait_sla", "no_action",
        "create_reconciliation_ticket_draft", "manual_settlement_review",
        "create_request_documents_response_draft", "send_unc_email_draft",
        "request_identity_correction", "request_bank_account_correction"}
<1>1. PICK a \in Harmless, b \in BOOLEAN : d = [action |-> a, approval |-> b]
  <2>1. d = Accounts!Decision(d.action, TRUE) \/ d = Accounts!Decision(d.action, FALSE)
    BY DEF ManualReview, Respond, Reconcile, WaitSla, NoAction, Decision,
           Accounts!ManualReview, Accounts!Respond, Accounts!RequestDocuments,
           Accounts!RequestIdentity, Accounts!RequestBankAccount,
           Accounts!SettlementReview, Accounts!SendUnc, Accounts!Decision
  <2>2. d.action \in Harmless
    BY DEF ManualReview, Respond, Reconcile, WaitSla, NoAction, Decision,
           Accounts!ManualReview, Accounts!Respond, Accounts!RequestDocuments,
           Accounts!RequestIdentity, Accounts!RequestBankAccount,
           Accounts!SettlementReview, Accounts!SendUnc, Accounts!Decision
  <2>. HIDE DEF Harmless
  <2> QED BY <2>1, <2>2, Zenon DEF Accounts!Decision
<1>3. a \in TicketActions
  BY DEF TicketActions, Contracted, ActionType
<1>4. a \notin Risky /\ a # ""
  BY DEF Risky, MoneyMoves, MoneyActions
<1>. HIDE DEF Harmless
<1> QED BY <1>1, <1>3, <1>4, MadeSound

LEMMA RefundSound ==
  ASSUME NEW ev, NEW status, RefundEligible(ev, status, FALSE),
         \/ ev.train # None /\ status = ev.train.status
         \/ ev.utility = "failed"
  PROVE  Sound(Refund, ev)
<1>1. Refund = [action |-> "create_refund_request_draft", approval |-> TRUE]
  BY DEF Refund, Decision
<1>2. Justifies(ev, "create_refund_request_draft")
  BY DEF Justifies, RefundEligible, WalletDebited, NoExistingRefund
<1>3. "create_refund_request_draft" \in TicketActions
  BY DEF TicketActions, Contracted, ActionType
<1> QED BY <1>1, <1>2, <1>3, MadeSound

LEMMA ForceSuccessSound ==
  ASSUME NEW ev, Justifies(ev, "create_force_success_draft")
  PROVE  Sound(ForceSuccess, ev)
<1>1. ForceSuccess = [action |-> "create_force_success_draft", approval |-> TRUE]
  BY DEF ForceSuccess, Decision
<1>2. "create_force_success_draft" \in TicketActions
  BY DEF TicketActions, Contracted, ActionType
<1> QED BY <1>1, <1>2, MadeSound

LEMMA TransactionSound ==
  ASSUME NEW ev, NEW w \in TransactionWorkflows
  PROVE  Sound(ApplyRules(w, ev, FALSE), ev)
<1>1. CASE w = "train_ticket"
  <2>1. CASE DecideTrainTicket(ev, FALSE) = Refund /\ ev.train # None
             /\ RefundEligible(ev, ev.train.status, FALSE)
    BY <1>1, <2>1, RefundSound DEF ApplyRules
  <2>2. CASE DecideTrainTicket(ev, FALSE) \in {ManualReview, Respond, Reconcile, WaitSla, NoAction}
    BY <1>1, <2>2, HarmlessSound DEF ApplyRules
  <2> QED BY <2>1, <2>2 DEF DecideTrainTicket
<1>2. CASE w = "utility_bill"
  <2>1. CASE DecideUtilityBill(ev, FALSE) = Refund /\ ev.utility = "failed"
             /\ RefundEligible(ev, ev.utility, FALSE)
    BY <1>2, <2>1, RefundSound DEF ApplyRules
  <2>2. CASE DecideUtilityBill(ev, FALSE) \in {ManualReview, Respond, Reconcile, WaitSla, NoAction}
    BY <1>2, <2>2, HarmlessSound DEF ApplyRules
  <2> QED BY <2>1, <2>2 DEF DecideUtilityBill
<1>3. CASE w = "wallet_topup"
  <2>1. CASE DecideWalletTopup(ev, FALSE) = ForceSuccess
             /\ Justifies(ev, "create_force_success_draft")
    BY <1>3, <2>1, ForceSuccessSound DEF ApplyRules
  <2>2. CASE DecideWalletTopup(ev, FALSE) \in {ManualReview, Respond}
    BY <1>3, <2>2, HarmlessSound DEF ApplyRules
  <2> QED BY <2>1, <2>2 DEF DecideWalletTopup, Justifies
<1> QED BY <1>1, <1>2, <1>3 DEF TransactionWorkflows

LEMMA AccountLockSound ==
  ASSUME NEW ev PROVE Sound(Accounts!DecideAccountLock(ev.account, ev.fraud), ev)
<1>. DEFINE d == Accounts!DecideAccountLock(ev.account, ev.fraud)
<1>1. CASE /\ d = Accounts!Unlock /\ ev.account # None /\ ev.account.status = "locked"
           /\ ev.fraud # None /\ ~Accounts!FraudLikely(ev.fraud)
  <2>1. d = [action |-> "create_unlock_account_draft", approval |-> TRUE]
    BY <1>1 DEF Accounts!Unlock, Accounts!Decision
  <2>2. Justifies(ev, "create_unlock_account_draft")
    BY <1>1 DEF Justifies, Accounts!FraudLikely
  <2>3. "create_unlock_account_draft" \in TicketActions
    BY DEF TicketActions, Contracted
  <2> QED BY <2>1, <2>2, <2>3, MadeSound, Zenon
<1>2. CASE d \in {Accounts!ManualReview, Accounts!Respond, Accounts!RequestDocuments}
  BY <1>2, HarmlessSound
<1> QED BY <1>1, <1>2 DEF Accounts!DecideAccountLock

LEMMA SettlementSound ==
  ASSUME NEW ev, ev.settlement \in Maybe(Accounts!LedgersOf(Nat)),
         NEW e, e = [profile |-> ev.profile, bank |-> ev.bank, ledger |-> ev.settlement,
                     payout |-> ev.payout, batch |-> ev.batch, receipt |-> ev.receipt]
  PROVE  Sound(Accounts!DecideSettlement(e), ev)
<1>. DEFINE d == Accounts!DecideSettlement(e)
            p == Accounts!DecidePayout(ev.settlement, ev.payout, ev.batch, ev.receipt)
            Kept == {Accounts!Respond, Accounts!RequestIdentity, Accounts!RequestBankAccount,
                     Accounts!SettlementReview, Accounts!SendUnc}
<1>1. \/ d \in Kept
      \/ d = p /\ ev.settlement # None /\ ~(Accounts!OrZero(ev.settlement.net) <= 0)
  BY DEF Accounts!DecideSettlement
<1>2. p \in Kept \/ (p = Accounts!ManualPayout
                     /\ (ev.payout = None \/ ev.payout.status \notin {"processing", "success"}))
  BY DEF Accounts!DecidePayout, Accounts!PayoutInProgress, Accounts!AfterSuccess
<1>3. CASE d \in Kept
  BY <1>3, HarmlessSound
<1>4. CASE /\ d = p /\ ev.settlement # None /\ ~(Accounts!OrZero(ev.settlement.net) <= 0)
           /\ p = Accounts!ManualPayout
           /\ ev.payout = None \/ ev.payout.status \notin {"processing", "success"}
  <2>1. d = [action |-> "create_manual_payout_draft", approval |-> TRUE]
    BY <1>4 DEF Accounts!ManualPayout, Accounts!Decision
  <2>2. Accounts!OrZero(ev.settlement.net) \in Int
    BY <1>4 DEF Accounts!OrZero, Accounts!LedgersOf, Accounts!Maybe, Maybe
  <2>3. Justifies(ev, "create_manual_payout_draft")
    BY <1>4, <2>2 DEF Justifies
  <2>4. "create_manual_payout_draft" \in TicketActions
    BY DEF TicketActions, Contracted
  <2> QED BY <2>1, <2>3, <2>4, MadeSound, Zenon
<1>. HIDE DEF d, p, Kept
<1> QED BY <1>1, <1>2, <1>3, <1>4

LEMMA DecideSound ==
  ASSUME NEW w \in Workflows, NEW ev, ev.settlement \in Maybe(Accounts!LedgersOf(Nat))
  PROVE  Sound(Decide(w, ev), ev)
<1>1. CASE w \in TransactionWorkflows
  <2>1. Decide(w, ev) = ApplyRules(w, ev, FALSE)
    BY <1>1 DEF Decide, TransactionWorkflows
  <2> QED BY <1>1, <2>1, TransactionSound
<1>2. CASE w = "fraud_account_lock"
  <2>1. Decide(w, ev) = Accounts!DecideAccountLock(ev.account, ev.fraud)
    BY <1>2 DEF Decide, TransactionWorkflows
  <2> QED BY <2>1, AccountLockSound
<1>3. CASE w = "merchant_settlement_delay"
  <2>. DEFINE e == [profile |-> ev.profile, bank |-> ev.bank, ledger |-> ev.settlement,
                    payout |-> ev.payout, batch |-> ev.batch, receipt |-> ev.receipt]
  <2>1. Decide(w, ev) = Accounts!DecideSettlement(e)
    BY <1>3 DEF Decide, TransactionWorkflows
  <2> QED BY <2>1, SettlementSound
<1> QED BY <1>1, <1>2, <1>3 DEF Workflows

-----------------------------------------------------------------------------
(* What an investigation reads and finds *)

LEMMA NoRecordsType == NoRecords \in Bundles
BY DEF NoRecords, Fields, TransactionFields, AccountFields, SettlementFields, Bundles, Maybe

LEMMA EvidenceType ==
  ASSUME NEW w \in Workflows, NEW records \in Bundles, NEW ev \in Evidence(w, records)
  PROVE  ev \in Bundles
<1>1. PICK up : ev = ReadWith(w, records, up)
  BY DEF Evidence
<1>2. ev = [f \in Fields |-> IF f \in Asked(w, up) \cap up THEN records[f] ELSE None]
  BY <1>1 DEF ReadWith
<1>3. \A f \in Fields : ev[f] \in {records[f], None}
  BY <1>2
<1> QED BY <1>2, <1>3
  DEF Fields, TransactionFields, AccountFields, SettlementFields, Bundles, Maybe

\* The outcomes of looking for an entity that end without one.
NotFound == {"no_match", "multiple_candidates", "search_error"}
Failures == NotFound \cup {"fetch_error"}

LEMMA FoundType ==
  ASSUME NEW f \in Filings, HasResolvableEntity(f), NEW o \in FindEntity(f)
  PROVE  /\ o.entity \in Maybe(Txns \cup People)
         /\ o.entity = None => o.how \in NotFound
<1>. f.complainant \in Maybe(People) /\ f.named \in Maybe(Txns \cup People)
     /\ f.criteria \in Maybe(SUBSET Txns)
  BY DEF Filings
<1>1. CASE f.workflow \notin TransactionWorkflows
  <2>1. o = Outcome(IF f.complainant # None THEN f.complainant ELSE f.named, "direct_identity")
    BY <1>1 DEF FindEntity, FindPerson
  <2>2. o.entity = IF f.complainant # None THEN f.complainant ELSE f.named
    BY <2>1 DEF Outcome
  <2>3. f.complainant # None \/ f.named # None
    BY DEF HasResolvableEntity
  <2> QED BY <2>2, <2>3 DEF Maybe
<1>2. CASE f.workflow \in TransactionWorkflows /\ f.named # None
  <2>1. o = Outcome(f.named, "direct_id")
    BY <1>2 DEF FindEntity, FindTransaction
  <2>2. o.entity = f.named
    BY <2>1 DEF Outcome
  <2> QED BY <1>2, <2>2
<1>3. CASE f.workflow \in TransactionWorkflows /\ f.named = None
  <2>. DEFINE found == Matching(f)
  <2>1. found \subseteq Txns
    BY <1>3 DEF HasResolvableEntity, Maybe, Matching
  <2>2. o \in {Outcome(None, "search_error")} \cup
             IF found = {} THEN {Outcome(None, "no_match")}
             ELSE IF Cardinality(found) > 1 THEN {Outcome(None, "multiple_candidates")}
             ELSE {Outcome(x, "resolved_by_search") : x \in found}
    BY <1>3 DEF FindEntity, FindTransaction
  <2>. HIDE DEF found
  <2>3. \/ \E how \in NotFound : o = Outcome(None, how)
        \/ \E x \in found : o = Outcome(x, "resolved_by_search")
    BY <2>2 DEF NotFound
  <2>4. CASE \E how \in NotFound : o = Outcome(None, how)
    BY <2>4 DEF Outcome, NotFound, Maybe
  <2>5. CASE \E x \in found : o = Outcome(x, "resolved_by_search")
    <3>1. PICK x \in found : o = Outcome(x, "resolved_by_search")
      BY <2>5
    <3>2. o.entity = x /\ x \in Txns /\ x # None
      BY <2>1, <3>1, EntitiesAssumption DEF Outcome
    <3> QED BY <3>2 DEF Maybe
  <2> QED BY <2>3, <2>4, <2>5
<1> QED BY <1>1, <1>2, <1>3

\* What a ticket keeps when a finding is folded onto it.
SameButFinding(t, u) ==
  u.filed = t.filed /\ u.status = t.status /\ u.team = t.team /\ u.log = t.log

Finding ==
  [resolved : BOOLEAN, decision : [action : TicketActions, approval : BOOLEAN],
   risk : Risks, confidence : Confidences, missing : SUBSET (Fields \cup Failures)]

LEMMA DecidedType ==
  ASSUME NEW t \in TicketType, NEW a \in TicketActions, NEW b \in BOOLEAN,
         NEW u, u = WithDecision(t, a, b)
  PROVE  u \in TicketType /\ SameButFinding(t, u) /\ u.action = a /\ u.approval = b
BY DEF WithDecision, TicketType, SameButFinding

LEMMA FoldType ==
  ASSUME NEW t \in TicketType, NEW f \in Finding
  PROVE  /\ Fold(t, f) \in TicketType /\ SameButFinding(t, Fold(t, f))
         /\ Fold(t, f).action = IF ~f.resolved THEN "manual_review"
                                ELSE IF f.decision.action # "" THEN f.decision.action
                                ELSE t.action
         /\ Fold(t, f).approval = (f.resolved /\ f.decision.approval)
<1>. DEFINE noted == [t EXCEPT !.missing = f.missing, !.confidence = f.confidence]
            risky == [noted EXCEPT !.risk = f.risk]
            a == IF f.decision.action # "" THEN f.decision.action ELSE t.action
            b == f.decision.approval
<1>1. noted \in TicketType /\ SameButFinding(t, noted)
  BY DEF TicketType, Finding, Failures, NotFound, SameButFinding
<1>2. a \in TicketActions /\ b \in BOOLEAN
  BY DEF TicketType, Finding
<1>3. Fold(t, f) = IF f.resolved THEN WithDecision(risky, a, b)
                   ELSE WithDecision(noted, "manual_review", FALSE)
  BY DEF Fold
<1>4. f.resolved \in BOOLEAN
  BY DEF Finding
<1>. HIDE DEF noted
<1>5. risky \in TicketType /\ SameButFinding(t, risky)
  BY <1>1 DEF TicketType, Finding, SameButFinding
<1>6. "manual_review" \in TicketActions
  BY DEF TicketActions, Contracted, ActionType
<1>. HIDE DEF risky, a, b
<1>7. CASE f.resolved = TRUE
  <2>1. Fold(t, f) = WithDecision(risky, a, b)
    BY <1>3, <1>7
  <2>2. /\ Fold(t, f) \in TicketType /\ SameButFinding(risky, Fold(t, f))
        /\ Fold(t, f).action = a /\ Fold(t, f).approval = b
    BY <1>2, <1>5, <2>1, DecidedType
  <2>3. SameButFinding(t, Fold(t, f))
    BY <1>5, <2>2 DEF SameButFinding
  <2>4. Fold(t, f).approval = (f.resolved /\ f.decision.approval)
    BY <1>2, <1>7, <2>2, Zenon DEF b
  <2> QED BY <1>7, <2>2, <2>3, <2>4 DEF a
<1>8. CASE f.resolved = FALSE
  <2>. DEFINE no == FALSE
  <2>1. Fold(t, f) = WithDecision(noted, "manual_review", no) /\ no \in BOOLEAN
    BY <1>3, <1>8
  <2>. HIDE DEF no
  <2>2. /\ Fold(t, f) \in TicketType /\ SameButFinding(noted, Fold(t, f))
        /\ Fold(t, f).action = "manual_review" /\ Fold(t, f).approval = no
    BY <1>1, <1>6, <2>1, DecidedType
  <2>3. SameButFinding(t, Fold(t, f))
    BY <1>1, <2>2 DEF SameButFinding
  <2>4. Fold(t, f).approval = (f.resolved /\ f.decision.approval)
    BY <1>8, <2>2, Zenon DEF no
  <2> QED BY <1>8, <2>2, <2>3, <2>4
<1> QED BY <1>4, <1>7, <1>8

LEMMA ResolvedType ==
  ASSUME NEW wf \in Workflows, NEW ev \in Bundles, NEW ruled \in BOOLEAN
  PROVE  /\ Resolved(wf, ev, ruled) \in Finding
         /\ Sound(Resolved(wf, ev, ruled).decision, ev)
<1>. DEFINE d == IF ruled THEN Decide(wf, ev) ELSE Decision("", FALSE)
            any == Missing(wf, ev) # Sources[wf]
            r == DeriveRisk(wf, d.action, d.approval)
            c == Confidence(wf, any, ev, d.action)
            m == Missing(wf, ev)
<1>1. Sound(Decision("", FALSE), ev)
  <2>1. "" \in TicketActions /\ "" \notin Risky
    BY DEF TicketActions, Risky, MoneyMoves, MoneyActions
  <2> QED BY <2>1, MadeSound DEF Decision
<1>2. Sound(d, ev)
  <2>1. Sound(Decide(wf, ev), ev)
    BY DecideSound DEF Bundles, Maybe
  <2> QED BY <1>1, <2>1, Zenon
<1>3. d \in [action : TicketActions, approval : BOOLEAN]
  BY <1>2 DEF Sound
<1>4. r \in Risks /\ c \in Confidences
  BY DEF DeriveRisk, Confidence, Risks, Confidences
<1>5. m \in SUBSET (Fields \cup Failures)
  BY DEF Missing, Sources, Workflows, TransactionWorkflows, Fields,
         TransactionFields, AccountFields, SettlementFields
<1>6. any \in BOOLEAN
  OBVIOUS
<1>7. Resolved(wf, ev, ruled) = [resolved |-> any, decision |-> d, risk |-> r,
                                 confidence |-> c, missing |-> m]
  BY DEF Resolved
<1>. HIDE DEF d, any, r, c, m
<1> QED BY <1>2, <1>3, <1>4, <1>5, <1>6, <1>7 DEF Finding

LEMMA UnresolvedType ==
  ASSUME NEW how \in Failures
  PROVE  Unresolved(how) \in Finding /\ Unresolved(how).resolved = FALSE
BY DEF Unresolved, Finding, Decision, TicketActions, Failures, NotFound, Risks, Confidences

-----------------------------------------------------------------------------
(* The invariant *)

\* ApprovalHasItsReason is inductive beside the types: a finding without an action
\* keeps the old one and takes its approval, so that nothing is offered on it.
IInv == TypeOK /\ ApprovalHasItsReason

LEMMA ButtonNeedsApproval ==
  ASSUME NEW a, NEW b \in BOOLEAN, Button(a, b) = "approve"
  PROVE  b = TRUE
BY DEF Button

LEMMA ShowStep ==
  ASSUME TypeOK, NEW s \in Staff, Show(s)
  PROVE  DOMAIN screen' = Staff
BY DEF Show, TypeOK

LEMMA FindNothingStep ==
  ASSUME IInv, NEW how \in Failures, FindNothing(how), UNCHANGED at, DOMAIN screen' = Staff
  PROVE  IInv' /\ ticket'.log = ticket.log
<1>1. ticket \in TicketType
  BY DEF IInv, TypeOK
<1>2. Unresolved(how) \in Finding /\ Unresolved(how).resolved = FALSE
  BY UnresolvedType
<1>3. ticket' \in TicketType /\ SameButFinding(ticket, ticket')
      /\ ticket'.action = "manual_review"
  BY <1>1, <1>2, FoldType DEF FindNothing
<1>4. basis' \in [kind : {"filed", "unread", "read"}, entity : Maybe(Txns \cup People),
                  ev : Bundles]
  BY NoRecordsType DEF FindNothing, Unread, Basis, Maybe
<1>5. ApprovalHasItsReason'
  BY <1>3 DEF ApprovalHasItsReason, Risky, MoneyMoves, MoneyActions
<1> QED BY <1>3, <1>4, <1>5 DEF IInv, TypeOK, SameButFinding

LEMMA ReadRecordsStep ==
  ASSUME IInv, NEW e \in Txns \cup People, ticket.filed.workflow \in Workflows,
         ReadRecords(e), UNCHANGED at, DOMAIN screen' = Staff
  PROVE  IInv' /\ ticket'.log = ticket.log
<1>. DEFINE wf == ticket.filed.workflow
<1>1. ticket \in TicketType
  BY DEF IInv, TypeOK
<1>2. PICK ev \in Evidence(wf, Histories[e][at[e]]), ruled \in BOOLEAN :
        /\ ticket' = Fold(ticket, Resolved(wf, ev, ruled))
        /\ basis' = Basis("read", e, ev)
  BY DEF ReadRecords
<1>3. ev \in Bundles
  <2>1. Histories[e] \in Seq(Bundles) /\ at[e] \in 1 .. Len(Histories[e])
    BY EntitiesAssumption DEF IInv, TypeOK
  <2>2. Histories[e][at[e]] \in Bundles
    BY <2>1
  <2> QED BY <2>2, EvidenceType
<1>. DEFINE f == Resolved(wf, ev, ruled)
<1>4. f \in Finding /\ Sound(f.decision, ev)
  BY <1>3, ResolvedType
<1>5. /\ ticket' \in TicketType /\ SameButFinding(ticket, ticket')
      /\ ticket'.action = IF ~f.resolved THEN "manual_review"
                          ELSE IF f.decision.action # "" THEN f.decision.action
                          ELSE ticket.action
      /\ ticket'.approval = (f.resolved /\ f.decision.approval)
  BY <1>1, <1>2, <1>4, FoldType
<1>6. /\ basis' \in [kind : {"filed", "unread", "read"}, entity : Maybe(Txns \cup People),
                     ev : Bundles]
      /\ basis'.kind = "read" /\ basis'.ev = ev
  BY <1>2, <1>3 DEF Basis, Maybe
<1>. HIDE DEF f, wf
<1>7. ApprovalHasItsReason'
  <2>. SUFFICES ASSUME ticket'.action \in Risky,
                       Button(ticket'.action, ticket'.approval) = "approve"
                PROVE  Justifies(ev, ticket'.action)
    BY <1>6 DEF ApprovalHasItsReason
  <2>1. ticket'.approval = TRUE
    BY <1>5, ButtonNeedsApproval DEF TicketType
  <2>2. f.resolved /\ f.decision.approval
    BY <1>5, <2>1, Zenon
  <2>3. f.decision.action # ""
    BY <1>4, <2>2, Zenon DEF Sound
  <2>4. ticket'.action = f.decision.action
    BY <1>5, <2>2, <2>3
  <2> QED BY <1>4, <2>4, Zenon DEF Sound
<1> QED BY <1>5, <1>6, <1>7 DEF IInv, TypeOK, SameButFinding

LEMMA InvestigateStep ==
  ASSUME IInv, NEW s \in Staff, HasResolvableEntity(ticket.filed),
         NEW o \in FindEntity(ticket.filed), Investigate(s, o)
  PROVE  IInv' /\ ticket'.log = ticket.log
<1>1. ticket.filed \in Filings
  BY DEF IInv, TypeOK, TicketType
<1>2. o.entity \in Maybe(Txns \cup People) /\ (o.entity = None => o.how \in NotFound)
  BY <1>1, FoundType
<1>3. UNCHANGED at /\ DOMAIN screen' = Staff
  BY ShowStep DEF Investigate, IInv
<1>4. CASE o.entity = None
  <2>1. FindNothing(o.how) /\ o.how \in Failures
    BY <1>2, <1>4 DEF Investigate, Failures
  <2> QED BY <1>3, <2>1, FindNothingStep
<1>5. CASE o.entity # None
  <2>1. o.entity \in Txns \cup People
    BY <1>2, <1>5 DEF Maybe
  <2>2. FindNothing("fetch_error") \/ ReadRecords(o.entity)
    BY <1>5 DEF Investigate
  <2>3. CASE FindNothing("fetch_error")
    BY <1>3, <2>3, FindNothingStep DEF Failures
  <2>4. CASE ReadRecords(o.entity)
    BY <1>3, <2>1, <2>4, ReadRecordsStep DEF HasResolvableEntity
  <2> QED BY <2>2, <2>3, <2>4
<1> QED BY <1>4, <1>5

LEMMA TeamType ==
  ASSUME NEW a \in TicketActions
  PROVE  /\ AuditEvent(a) \in Contracted \cup {"generic"}
         /\ Team(a) \in {"CS/Ops", "Risk/Ops", "Settlement/Ops"}
BY DEF AuditEvent, Team

LEMMA DecideStep ==
  ASSUME IInv, NEW s \in Staff, NEW d \in DOMAIN DecisionStatus, DecideTicket(s, d)
  PROVE  /\ IInv'
         /\ \E e \in LogEntries : ticket'.log = Append(ticket.log, e)
<1>. DEFINE log == ticket.log
            status == DecisionStatus[d]
            team == IF d = "approve" THEN Team(ticket.action) ELSE ticket.team
            event == IF d = "approve" THEN AuditEvent(ticket.action) ELSE d
            entry == [actor |-> s, action |-> d, event |-> event]
<1>1. ticket \in TicketType /\ ticket.action \in TicketActions
  BY DEF IInv, TypeOK, TicketType
<1>2. /\ ticket' = [ticket EXCEPT !.status = status, !.team = team, !.log = Append(log, entry)]
      /\ at' = at /\ basis' = basis /\ Show(s)
  BY <1>1 DEF DecideTicket, TicketType
<1>3. d \in {"approve", "reject", "request_info"}
  BY DEF DecisionStatus
<1>4. entry \in LogEntries
  BY <1>1, <1>3, TeamType DEF LogEntries, DecisionStatus
<1>5. status \in Decided
  BY <1>3 DEF DecisionStatus, Decided
<1>6. team \in {"", "CS/Ops", "Risk/Ops", "Settlement/Ops"}
  BY <1>1, TeamType DEF TicketType
<1>. HIDE DEF status, team, entry
<1>7. Append(log, entry) \in Seq(LogEntries)
  <2>1. log \in Seq(LogEntries)
    BY <1>1 DEF TicketType
  <2>. HIDE DEF log
  <2> QED BY <1>4, <2>1
<1>. DEFINE longer == Append(log, entry)
<1>. HIDE DEF longer, log
<1>8. /\ ticket' \in TicketType /\ ticket'.log = longer
      /\ ticket'.action = ticket.action /\ ticket'.approval = ticket.approval
      /\ ticket'.filed = ticket.filed
  <2>1. ticket' = [ticket EXCEPT !.status = status, !.team = team, !.log = longer]
    BY <1>2 DEF longer
  <2>2. longer \in Seq(LogEntries)
    BY <1>7 DEF longer
  <2>3. ticket' \in TicketType
    BY <1>1, <1>5, <1>6, <2>1, <2>2 DEF TicketType
  <2>4. ticket'.log = longer /\ ticket'.action = ticket.action
    BY <1>1, <2>1 DEF TicketType
  <2>5. ticket'.filed = ticket.filed
    BY <1>1, <2>1 DEF TicketType
  <2>6. ticket'.approval = ticket.approval
    BY <1>1, <2>1 DEF TicketType
  <2> QED BY <2>3, <2>4, <2>5, <2>6
<1>9. ApprovalHasItsReason'
  BY <1>2, <1>8 DEF IInv, ApprovalHasItsReason
<1>10. DOMAIN screen' = Staff
  BY <1>2, ShowStep DEF IInv
<1>11. TypeOK'
  BY <1>2, <1>8, <1>10 DEF IInv, TypeOK
<1> QED BY <1>4, <1>8, <1>9, <1>11 DEF IInv, longer, log

\* What a ticket u filed as f has of the filing and of the ticket t before it.
Carries(u, f, t) ==
  /\ u \in TicketType /\ u.log = t.log /\ u.filed = f
  /\ u.action = f.action /\ u.approval = f.approval

LEMMA FileAsType ==
  ASSUME NEW f \in Filings, NEW t, t.log \in Seq(LogEntries),
         t.team \in {"", "CS/Ops", "Risk/Ops", "Settlement/Ops"}, NEW u, u = FileAs(f, t)
  PROVE  Carries(u, f, t)
<1>. DEFINE status == StatusFiled(f)
            approval == f.approval
            log == t.log
            team == t.team
<1>1. status \in Decided \cup {"pending_review", "pending_approval"}
  BY DEF StatusFiled, Decided
<1>2. /\ f.action \in TicketActions /\ approval \in BOOLEAN /\ f.risk \in Risks
      /\ f.confidence \in Confidences
  BY DEF Filings
<1>3. log \in Seq(LogEntries) /\ team \in {"", "CS/Ops", "Risk/Ops", "Settlement/Ops"}
  OBVIOUS
<1>. DEFINE r == [filed |-> f, action |-> f.action, approval |-> approval, risk |-> f.risk,
                  confidence |-> f.confidence, missing |-> {}, status |-> status,
                  team |-> team, log |-> log]
<1>4. u = r
  BY Zenon DEF FileAs
<1>. HIDE DEF status, approval, log, team
<1>5. r \in TicketType
  BY <1>1, <1>2, <1>3 DEF TicketType
<1>6. r.log = log /\ r.filed = f /\ r.action = f.action
  OBVIOUS
<1>7. r.approval = approval
  BY Zenon
<1>. HIDE DEF r
<1> QED BY <1>4, <1>5, <1>6, <1>7, Zenon DEF approval, log, Carries

LEMMA FiledHasReason ==
  ASSUME NEW f \in Filings, ticket.action = f.action, ticket.approval = f.approval,
         ticket.filed = f, basis = AsFiled
  PROVE  ApprovalHasItsReason
<1>1. basis.kind = "filed"
  BY DEF AsFiled, Basis
<1>2. Button(f.action, f.approval) = "approve" => f.approval = TRUE
  BY ButtonNeedsApproval DEF Filings
<1> QED BY <1>1, <1>2, Zenon DEF ApprovalHasItsReason

LEMMA FileAgainStep ==
  ASSUME IInv, FileAgain
  PROVE  IInv' /\ ticket'.log = ticket.log
<1>1. PICK f \in Filings : ticket' = FileAs(f, ticket)
  BY ConversationsAssumption DEF FileAgain
<1>2. ticket.log \in Seq(LogEntries) /\ ticket.team \in {"", "CS/Ops", "Risk/Ops", "Settlement/Ops"}
  BY DEF IInv, TypeOK, TicketType
<1>3. /\ ticket' \in TicketType /\ ticket'.log = ticket.log /\ ticket'.filed = f
      /\ ticket'.action = f.action /\ ticket'.approval = f.approval
  <2>1. Carries(ticket', f, ticket)
    BY <1>1, <1>2, FileAsType
  <2> QED BY <2>1, Zenon DEF Carries
<1>4. basis' = AsFiled /\ UNCHANGED <<at, screen>>
  BY DEF FileAgain
<1>5. ApprovalHasItsReason'
  <2>1. basis'.kind = "filed"
    BY <1>4 DEF AsFiled, Basis
  <2>2. Button(f.action, f.approval) = "approve" => f.approval = TRUE
    BY ButtonNeedsApproval DEF Filings
  <2> QED BY <1>3, <2>1, <2>2, Zenon DEF ApprovalHasItsReason
<1>6. basis' \in [kind : {"filed", "unread", "read"}, entity : Maybe(Txns \cup People),
                  ev : Bundles]
  BY <1>4, NoRecordsType DEF AsFiled, Basis, Maybe
<1> QED BY <1>3, <1>4, <1>5, <1>6 DEF IInv, TypeOK

-----------------------------------------------------------------------------
(* The theorems *)

LEMMA InitFiled == Init => \E f \in Filings : ticket = FileAs(f, Blank)
BY ConversationsAssumption DEF Init

LEMMA InitInvariant == Init => IInv /\ ticket.log = <<>>
<1>. SUFFICES ASSUME Init PROVE IInv /\ ticket.log = <<>>
  OBVIOUS
<1>1. PICK f \in Filings : ticket = FileAs(f, Blank)
  BY InitFiled
<1>2. /\ Blank.log = <<>> /\ Blank.log \in Seq(LogEntries)
      /\ Blank.team \in {"", "CS/Ops", "Risk/Ops", "Settlement/Ops"}
  BY DEF Blank
<1>3. /\ ticket \in TicketType /\ ticket.log = Blank.log /\ ticket.filed = f
      /\ ticket.action = f.action /\ ticket.approval = f.approval
  <2>1. Carries(ticket, f, Blank)
    BY <1>1, <1>2, FileAsType
  <2> QED BY <2>1, Zenon DEF Carries
<1>4. at \in [Txns \cup People -> Nat]
      /\ \A e \in Txns \cup People : at[e] \in 1 .. Len(Histories[e])
  <2>1. \A e \in Txns \cup People : Len(Histories[e]) \in Nat /\ Len(Histories[e]) >= 1
    <3>. TAKE e \in Txns \cup People
    <3>1. Histories[e] \in Seq(Bundles) /\ Histories[e] # <<>>
      BY EntitiesAssumption
    <3>2. Len(Histories[e]) \in Nat \ {0}
      BY <3>1, EmptySeq, Zenon
    <3> QED BY <3>2
  <2>2. at = [e \in Txns \cup People |-> 1]
    BY DEF Init
  <2> QED BY <2>1, <2>2
<1>5. basis = AsFiled /\ DOMAIN screen = Staff
  BY DEF Init
<1>6. basis \in [kind : {"filed", "unread", "read"}, entity : Maybe(Txns \cup People),
                 ev : Bundles]
  BY <1>5, NoRecordsType DEF AsFiled, Basis, Maybe
<1>7. ApprovalHasItsReason
  BY <1>3, <1>5, FiledHasReason
<1> QED BY <1>2, <1>3, <1>4, <1>5, <1>6, <1>7 DEF IInv, TypeOK

\* Every step keeps the invariant, and all but a decision keep the log.
LEMMA NextStep ==
  ASSUME IInv, [Next]_vars
  PROVE  /\ IInv'
         /\ \/ ticket'.log = ticket.log
            \/ \E e \in LogEntries : ticket'.log = Append(ticket.log, e)
<1>1. CASE FileAgain
  BY <1>1, FileAgainStep
<1>2. ASSUME NEW e \in Txns \cup People, RecordsChange(e)
      PROVE  IInv' /\ ticket'.log = ticket.log
  <2>1. at' = [at EXCEPT ![e] = @ + 1] /\ at[e] < Len(Histories[e])
        /\ UNCHANGED <<ticket, basis, screen>>
    BY <1>2 DEF RecordsChange
  <2>2. Len(Histories[e]) \in Nat
    BY EntitiesAssumption
  <2>3. at' \in [Txns \cup People -> Nat]
        /\ \A x \in Txns \cup People : at'[x] \in 1 .. Len(Histories[x])
    BY <2>1, <2>2 DEF IInv, TypeOK
  <2> QED
    BY <2>1, <2>3 DEF IInv, TypeOK, ApprovalHasItsReason
<1>3. ASSUME NEW s \in Staff, OpenUninvestigated(s)
      PROVE  IInv' /\ ticket'.log = ticket.log
  <2>1. UNCHANGED <<ticket, basis, at>> /\ Show(s)
    BY <1>3 DEF OpenUninvestigated
  <2>2. DOMAIN screen' = Staff
    BY <2>1, ShowStep DEF IInv
  <2> QED BY <2>1, <2>2 DEF IInv, TypeOK, ApprovalHasItsReason
<1>4. ASSUME NEW s \in Staff, HasResolvableEntity(ticket.filed),
             NEW o \in FindEntity(ticket.filed), Investigate(s, o)
      PROVE  IInv' /\ ticket'.log = ticket.log
  BY <1>4, InvestigateStep
<1>5. ASSUME NEW s \in Staff, NEW d \in DOMAIN DecisionStatus, DecideTicket(s, d)
      PROVE  IInv' /\ \E e \in LogEntries : ticket'.log = Append(ticket.log, e)
  BY <1>5, DecideStep
<1>6. CASE UNCHANGED vars
  BY <1>6 DEF vars, IInv, TypeOK, ApprovalHasItsReason
<1> QED BY <1>1, <1>2, <1>3, <1>4, <1>5, <1>6 DEF Next, StaffActs, Open

LEMMA Invariance == Spec => []IInv
<1>1. Init => IInv
  BY InitInvariant
<1>2. IInv /\ [Next]_vars => IInv'
  BY NextStep
<1> QED BY <1>1, <1>2, PTL DEF Spec

\* Every variable stays in its type: whatever a case proposed, the tools answered
\* and the staff decided, a ticket never holds an action without a contract or a
\* status that neither the chat nor an endpoint sets.
THEOREM TypeCorrect == Spec => []TypeOK
<1>1. IInv => TypeOK
  BY DEF IInv
<1> QED BY <1>1, Invariance, PTL

\* An offer to approve money or an unlocked account rests on what the last
\* investigation read, or is the case's own, filed and not investigated since
\* (finalize_customer_chat_and_handoff, _apply_investigation_to_ticket).
THEOREM ApprovalHasItsReasonHolds == Spec => []ApprovalHasItsReason
<1>1. IInv => ApprovalHasItsReason
  BY DEF IInv
<1> QED BY <1>1, Invariance, PTL

-----------------------------------------------------------------------------
(* The record of the ticket *)

Records == [k \in {"ticket"} |-> ticket.log]

Record ==
  INSTANCE TicketRecord
    WITH Keys <- {"ticket"}, Entries <- LogEntries, records <- Records

LEMMA NextRecords == IInv /\ [Next]_vars => [Record!Next]_Records
<1>. SUFFICES ASSUME IInv, [Next]_vars PROVE Record!Next \/ Records' = Records
  OBVIOUS
<1>1. CASE ticket'.log = ticket.log
  BY <1>1 DEF Records
<1>2. ASSUME NEW e \in LogEntries, ticket'.log = Append(ticket.log, e)
      PROVE  Record!Next
  <2>1. Record!Decide("ticket", e)
    BY <1>2 DEF Record!Decide, Records
  <2> QED BY <2>1 DEF Record!Next
<1> QED BY <1>1, <1>2, NextStep

\* The ticket implements TicketRecord: whatever the staff open and reopen, and
\* however often the chat files it again, its audit log is the decisions made of
\* it, in order (finalize_customer_chat_and_handoff, get_chat_ticket, _decide).
THEOREM LogImplementsRecord == Spec => Record!Spec
<1>1. Init => Record!Init
  <2>1. ASSUME Init PROVE Records = [k \in {"ticket"} |-> <<>>]
    BY <2>1, InitInvariant DEF Records
  <2>2. {"ticket"} \in SUBSET {"ticket"}
    OBVIOUS
  <2> QED BY <2>1, <2>2 DEF Record!Init
<1> QED BY <1>1, NextRecords, Invariance, PTL DEF Spec, Record!Spec
=============================================================================
