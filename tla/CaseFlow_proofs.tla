---------------------------- MODULE CaseFlow_proofs ----------------------------
(***************************************************************************)
(* Proofs about CaseFlow, for every set of cases, transactions, users and  *)
(* complaints, every initial content of the systems of record, every       *)
(* combination of faults and every retry limit, in three parts: the cases  *)
(* and the approval register (the invariant is IInv); the drafts, which    *)
(* call makes them, what they rest on and what the cases report of them    *)
(* (DInv); and the step by step implementation of TwoPhaseApproval.        *)
(***************************************************************************)
EXTENDS CaseFlow, TLAPS

-----------------------------------------------------------------------------
(* Facts about the rule engine *)

\* Whatever the evidence, an engine returns a known action with a Boolean
\* flag, and an action that moves money comes with the flag set.
LEMMA DecisionsAreKnown ==
  ASSUME NEW w \in Workflows, NEW ev, NEW conflict \in BOOLEAN
  PROVE  /\ ApplyRules(w, ev, conflict).action \in ActionType
         /\ ApplyRules(w, ev, conflict).approval \in BOOLEAN
         /\ ApplyRules(w, ev, conflict).action \in MoneyActions =>
              ApplyRules(w, ev, conflict).approval = TRUE
<1> DEFINE Known == {ManualReview, Respond, Reconcile, WaitSla, NoAction,
                     Refund, ForceSuccess}
           Sound(d) == /\ d.action \in ActionType
                       /\ d.approval \in BOOLEAN
                       /\ d.action \in MoneyActions => d.approval = TRUE
<1>1. DecideTrainTicket(ev, conflict) \in Known
  BY DEF DecideTrainTicket
<1>2. DecideUtilityBill(ev, conflict) \in Known
  BY DEF DecideUtilityBill
<1>3. DecideWalletTopup(ev, conflict) \in Known
  BY DEF DecideWalletTopup
<1>4. ApplyRules(w, ev, conflict) \in Known
  BY <1>1, <1>2, <1>3 DEF ApplyRules, Workflows
<1>5. ASSUME NEW d \in Known PROVE Sound(d)
  <2>1. CASE d = ManualReview
    BY <2>1, Zenon DEF ManualReview, Decision, ActionType
  <2>2. CASE d = Refund
    BY <2>2, Zenon DEF Refund, Decision, ActionType
  <2>3. CASE d = ForceSuccess
    BY <2>3, Zenon DEF ForceSuccess, Decision, ActionType
  <2>4. CASE d = Respond
    BY <2>4, Zenon DEF Respond, Decision, ActionType, MoneyActions
  <2>5. CASE d = Reconcile
    BY <2>5, Zenon DEF Reconcile, Decision, ActionType, MoneyActions
  <2>6. CASE d = WaitSla
    BY <2>6, Zenon DEF WaitSla, Decision, ActionType, MoneyActions
  <2>7. CASE d = NoAction
    BY <2>7, Zenon DEF NoAction, Decision, ActionType, MoneyActions
  <2> QED BY <2>1, <2>2, <2>3, <2>4, <2>5, <2>6, <2>7
<1> QED BY <1>4, <1>5

LEMMA WorkflowOfIsKnown ==
  ASSUME NEW service PROVE WorkflowOf(service) \in Maybe(Workflows)
BY DEF WorkflowOf, Maybe, Workflows

-----------------------------------------------------------------------------
(* Type correctness *)

LEMMA NoEvidenceType == NoEvidence \in EvidenceBundles(Users)
BY DEF NoEvidence, EvidenceBundles, Maybe

LEMMA IntakeType ==
  ASSUME NEW m \in Complaints PROVE Intake(m) \in AgentStates
<1>1. m \in [txn : Maybe(Txns), service : Maybe(ServiceTypes), user : Maybe(Users)]
  BY ComplaintAssumption
<1> QED
  BY <1>1, NoEvidenceType, WorkflowOfIsKnown
     DEF Intake, AgentStates, Statuses, Maybe

\* A draft call is typed, and only a case's own state goes into it.
LEMMA DraftCallType ==
  ASSUME NEW c \in Cases, NEW s \in AgentStates,
         s.txn \in Txns, s.action \in ToolActions
  PROVE  DraftCall(c, s) \in DraftCalls
<1>1. DebitAmount(s) \in Nat
  BY TransactionAssumption DEF DebitAmount
<1>2. DraftAmount(s) \in Nat
  BY <1>1, TransactionAssumption DEF DraftAmount
<1>3. s.user \in Maybe(Users)
  BY DEF AgentStates
<1> QED BY <1>2, <1>3 DEF DraftCall, DraftCalls

\* What the client makes of a read has the type of the record, or is None.
LEMMA ReadResultsType ==
  ASSUME NEW S, NEW record \in Maybe(S), NEW r \in ReadResults(record)
  PROVE  r \in Maybe(S)
BY DEF ReadResults, Maybe

LEMMA TypeInit == Init => TypeOK
<1> SUFFICES ASSUME Init PROVE TypeOK
  OBVIOUS
<1>1. world \in [Txns -> WorldRecords]
  BY WorldAssumption DEF Init
<1>2. cases \in [Cases -> Maybe(AgentStates)]
  BY DEF Init, Maybe
<1>3. queue \in Seq(DraftCalls)
  BY DEF Init
<1> QED BY <1>1, <1>2, <1>3, RetriesAssumption DEF Init, TypeOK, PCs, WorkingPCs

\* What the records of a transaction say is typed.
LEMMA WorldTypes ==
  ASSUME TypeOK, NEW t \in Txns
  PROVE  /\ world[t].transaction \in Maybe(TransactionStatus)
         /\ world[t].ledger \in Maybe(Ledgers)
         /\ world[t].provider \in Maybe(TrainStatuses)
         /\ world[t].refund \in Maybe(RefundStatusValue)
         /\ world[t].recon \in Maybe(Reconciliations)
BY DEF TypeOK, WorldRecords

\* Writing a typed record into the evidence of an agent state, or a typed
\* outcome into the state itself, leaves it an agent state.
LEMMA EvidenceUpdates ==
  ASSUME NEW s \in AgentStates
  PROVE  /\ \A r \in Maybe(Transactions(Users)) :
              [s EXCEPT !.evidence = [NoEvidence EXCEPT !.transaction = r]] \in AgentStates
         /\ \A r \in Maybe(Ledgers) : [s EXCEPT !.evidence.ledger = r] \in AgentStates
         /\ \A r \in Maybe(TrainStatuses) : [s EXCEPT !.evidence.train = r] \in AgentStates
         /\ \A r \in Maybe(ProviderStatusValue) : [s EXCEPT !.evidence.utility = r] \in AgentStates
         /\ \A r \in Maybe(RefundStatusValue) : [s EXCEPT !.evidence.refund = r] \in AgentStates
         /\ \A r \in Maybe(Reconciliations), w \in Maybe(Workflows) :
              [s EXCEPT !.evidence.recon = r, !.workflow = w] \in AgentStates
<1>0. s.evidence \in EvidenceBundles(Users)
  BY DEF AgentStates
<1>1. ASSUME NEW e \in EvidenceBundles(Users)
      PROVE  /\ [s EXCEPT !.evidence = e] \in AgentStates
             /\ \A w \in Maybe(Workflows) :
                  [s EXCEPT !.evidence = e, !.workflow = w] \in AgentStates
  BY DEF AgentStates
<1>2. ASSUME NEW e \in EvidenceBundles(Users)
      PROVE  /\ \A r \in Maybe(Transactions(Users)) :
                  [e EXCEPT !.transaction = r] \in EvidenceBundles(Users)
             /\ \A r \in Maybe(Ledgers) : [e EXCEPT !.ledger = r] \in EvidenceBundles(Users)
             /\ \A r \in Maybe(TrainStatuses) : [e EXCEPT !.train = r] \in EvidenceBundles(Users)
             /\ \A r \in Maybe(ProviderStatusValue) : [e EXCEPT !.utility = r] \in EvidenceBundles(Users)
             /\ \A r \in Maybe(RefundStatusValue) : [e EXCEPT !.refund = r] \in EvidenceBundles(Users)
             /\ \A r \in Maybe(Reconciliations) : [e EXCEPT !.recon = r] \in EvidenceBundles(Users)
  BY DEF EvidenceBundles
<1>3. \A r : /\ [s EXCEPT !.evidence.ledger = r] = [s EXCEPT !.evidence = [s.evidence EXCEPT !.ledger = r]]
             /\ [s EXCEPT !.evidence.train = r] = [s EXCEPT !.evidence = [s.evidence EXCEPT !.train = r]]
             /\ [s EXCEPT !.evidence.utility = r] = [s EXCEPT !.evidence = [s.evidence EXCEPT !.utility = r]]
             /\ [s EXCEPT !.evidence.refund = r] = [s EXCEPT !.evidence = [s.evidence EXCEPT !.refund = r]]
             /\ \A w : [s EXCEPT !.evidence.recon = r, !.workflow = w] = [s EXCEPT !.evidence = [s.evidence EXCEPT !.recon = r], !.workflow = w]
  BY DEF AgentStates
<1>4. QED
  BY <1>0, <1>1, <1>2, <1>3, NoEvidenceType

\* What waits for a person is a stored case with a transaction, undecided.
LEMMA PendingIsWaiting ==
  ASSUME IInv, NEW c \in pending
  PROVE  /\ c \in Cases /\ cases[c] \in AgentStates /\ cases[c].txn \in Txns
         /\ cases[c].approval = "pending" /\ c \notin decided
<1>1. c \in Cases /\ cases[c] \in Maybe(AgentStates) /\ cases[c] # None
  BY DEF IInv, TypeOK, RegistersAgree
<1> QED
  BY <1>1 DEF IInv, PendingShape, RegistersAgree, Maybe

\* Each action keeps the types.  The actions of a request differ in what they
\* write into st; the other variables they touch are read off the action.
LEMMA TypeNext == IInv /\ [Next]_vars => TypeOK'
<1> SUFFICES ASSUME IInv, [Next]_vars PROVE TypeOK'
  OBVIOUS
<1> TypeOK
  BY DEF IInv
<1> USE NoneAssumption
<1>1. ASSUME NEW c \in Cases, NEW m \in Complaints, CreateCase(c, m) PROVE TypeOK'
  <2>1. /\ Intake(m) \in AgentStates
        /\ [Intake(m) EXCEPT !.status = "dead_letter"] \in AgentStates
        /\ m.txn # None => Intake(m).txn \in Txns
    BY IntakeType, ComplaintAssumption DEF AgentStates, Statuses, Intake, Maybe
  <2> QED
    BY <1>1, <2>1 DEF TypeOK, CreateCase, svcVars, mcpVars, PCs, WorkingPCs
<1>2. CASE FetchTransaction
  <2>1. st \in AgentStates /\ st.txn \in Txns
    BY <1>2 DEF FetchTransaction, TypeOK, WorkingPCs, PCs
  <2>2. PICK status \in Maybe(TransactionStatus) :
          st' = [st EXCEPT !.evidence =
                   [NoEvidence EXCEPT !.transaction =
                      IF status = None THEN None
                      ELSE [status |-> status, user |-> Owner[st.txn]]]]
    BY <1>2, <2>1, WorldTypes, ReadResultsType DEF FetchTransaction
  <2>3. (IF status = None THEN None ELSE [status |-> status, user |-> Owner[st.txn]])
          \in Maybe(Transactions(Users))
    BY <2>1, TransactionAssumption DEF Maybe, Transactions
  <2>4. st' \in AgentStates
    BY <2>1, <2>2, <2>3, EvidenceUpdates
  <2>5. st'.txn = st.txn
    BY <2>1, <2>2 DEF AgentStates
  <2>6. /\ failed' \subseteq {"transaction", "ledger"}
        /\ pc' \in {"recon", "ledger"}
    BY <1>2 DEF FetchTransaction
  <2> QED
    BY <1>2, <2>1, <2>4, <2>5, <2>6
       DEF TypeOK, FetchTransaction, svcVars, mcpVars, PCs, WorkingPCs
<1>3. CASE FetchLedger
  <2>1. st \in AgentStates /\ st.txn \in Txns
    BY <1>3 DEF FetchLedger, TypeOK, WorkingPCs, PCs
  <2>2. PICK r \in Maybe(Ledgers) : st' = [st EXCEPT !.evidence.ledger = r]
    BY <1>3, <2>1, WorldTypes, ReadResultsType DEF FetchLedger
  <2>3. st' \in AgentStates
    BY <2>1, <2>2, EvidenceUpdates
  <2>4. st'.txn = st.txn
    BY <2>1, <2>2 DEF AgentStates
  <2>5. /\ failed' \subseteq {"transaction", "ledger"}
        /\ pc' \in {"provider", "refund"}
    BY <1>3 DEF FetchLedger, TypeOK
  <2> QED
    BY <1>3, <2>1, <2>3, <2>4, <2>5
       DEF TypeOK, FetchLedger, svcVars, mcpVars, PCs, WorkingPCs
<1>4. CASE FetchProvider
  <2>1. st \in AgentStates /\ st.txn \in Txns
    BY <1>4 DEF FetchProvider, TypeOK, WorkingPCs, PCs
  <2>2. PICK r \in Maybe(TrainStatuses) :
          \/ st' = [st EXCEPT !.evidence.train = r]
          \/ st' = [st EXCEPT !.evidence.utility = IF r = None THEN None ELSE r.status]
    <3> DEFINE known == IF WorkflowOf(Service[st.txn]) = WorkflowOf(ServiceHint(st))
                        THEN world[st.txn].provider ELSE None
    <3>1. known \in Maybe(TrainStatuses)
      BY <2>1, WorldTypes DEF Maybe
    <3>2. ReadResults(known) \subseteq Maybe(TrainStatuses)
      BY <3>1, ReadResultsType
    <3> HIDE DEF known
    <3>3. \E r \in ReadResults(known) :
            st' = IF WorkflowOf(ServiceHint(st)) = "train_ticket"
                  THEN [st EXCEPT !.evidence.train = r]
                  ELSE [st EXCEPT !.evidence.utility = IF r = None THEN None ELSE r.status]
      BY <1>4 DEF FetchProvider, known
    <3> QED
      BY <3>2, <3>3
  <2>3. (IF r = None THEN None ELSE r.status) \in Maybe(ProviderStatusValue)
    BY DEF Maybe, TrainStatuses
  <2>4. st' \in AgentStates
    BY <2>1, <2>2, <2>3, EvidenceUpdates
  <2>5. st'.txn = st.txn
    BY <2>1, <2>2 DEF AgentStates
  <2> QED
    BY <1>4, <2>1, <2>4, <2>5
       DEF TypeOK, FetchProvider, svcVars, mcpVars, PCs, WorkingPCs
<1>5. CASE FetchRefund
  <2>1. st \in AgentStates /\ st.txn \in Txns
    BY <1>5 DEF FetchRefund, TypeOK, WorkingPCs, PCs
  <2>2. PICK r \in Maybe(RefundStatusValue) : st' = [st EXCEPT !.evidence.refund = r]
    BY <1>5, <2>1, WorldTypes, ReadResultsType DEF FetchRefund
  <2>3. st' \in AgentStates
    BY <2>1, <2>2, EvidenceUpdates
  <2>4. st'.txn = st.txn
    BY <2>1, <2>2 DEF AgentStates
  <2> QED
    BY <1>5, <2>1, <2>3, <2>4
       DEF TypeOK, FetchRefund, svcVars, mcpVars, PCs, WorkingPCs
<1>6. CASE FetchReconciliation
  <2>1. st \in AgentStates /\ st.txn \in Txns
    BY <1>6 DEF FetchReconciliation, TypeOK, WorkingPCs, PCs
  <2> DEFINE completed == IF st.workflow = None /\ st.evidence.transaction # None
                          THEN WorkflowOf(Service[st.txn]) ELSE st.workflow
  <2>2. PICK r \in Maybe(Reconciliations) :
          st' = [st EXCEPT !.evidence.recon = r, !.workflow = completed]
    BY <1>6, <2>1, WorldTypes, ReadResultsType DEF FetchReconciliation, AgentStates
  <2>3. completed \in Maybe(Workflows)
    BY <2>1, WorkflowOfIsKnown DEF AgentStates
  <2>4. st' \in AgentStates
    BY <2>1, <2>2, <2>3, EvidenceUpdates
  <2>5. st'.txn = st.txn
    BY <2>1, <2>2 DEF AgentStates
  <2>6. pc' \in {"retry", "decide"}
    BY <1>6 DEF FetchReconciliation
  <2> QED
    BY <1>6, <2>1, <2>4, <2>5, <2>6
       DEF TypeOK, FetchReconciliation, svcVars, mcpVars, PCs, WorkingPCs
<1>7. CASE RetryOrDeadLetter
  <2>1. st \in AgentStates /\ st.txn \in Txns
    BY <1>7 DEF RetryOrDeadLetter, TypeOK, WorkingPCs, PCs
  <2>2. [st EXCEPT !.status = "dead_letter"] \in AgentStates
    BY <2>1 DEF AgentStates, Statuses
  <2>3. retries' \in 0..MaxRetries
    BY <1>7, RetriesAssumption DEF RetryOrDeadLetter, TypeOK
  <2> QED
    BY <1>7, <2>1, <2>2, <2>3
       DEF TypeOK, RetryOrDeadLetter, svcVars, mcpVars, PCs, WorkingPCs

<1>8. CASE Decide
  <2>1. st \in AgentStates /\ st.txn \in Txns
    BY <1>8 DEF Decide, TypeOK, WorkingPCs, PCs
  <2>2. DebitAmount(st) \in Nat
    BY <2>1, TransactionAssumption DEF DebitAmount
  <2>3. CASE HasConflict(st.evidence, st.user) \/ st.workflow = None
    <3>1. [st EXCEPT !.status = "manual_review", !.action = "manual_review",
                     !.output = "manual_review"] \in AgentStates
      BY <2>1 DEF AgentStates, Statuses, ActionType, Outputs, Maybe
    <3> QED
      BY <1>8, <2>1, <2>3, <3>1 DEF TypeOK, Decide, svcVars, mcpVars, PCs, WorkingPCs
  <2>4. CASE ~(HasConflict(st.evidence, st.user) \/ st.workflow = None)
    <3> DEFINE d == ApplyRules(st.workflow, st.evidence, FALSE)
    <3>1. d.action \in ActionType
      BY <2>1, <2>4, DecisionsAreKnown DEF AgentStates, Maybe
    <3> HIDE DEF d
    <3>2. /\ [st EXCEPT !.status = "waiting_approval", !.action = d.action,
                        !.packet = DebitAmount(st), !.approval = "pending"]
               \in AgentStates
          /\ [st EXCEPT !.status = "draft_created", !.action = d.action] \in AgentStates
      BY <2>1, <2>2, <3>1 DEF AgentStates, Statuses, Approvals, Maybe
    <3>3. /\ st' \in AgentStates /\ st'.txn = st.txn
          /\ pc' \in {"close", "draft"}
      BY <1>8, <2>1, <2>4, <3>2 DEF Decide, d, AgentStates
    <3> QED
      BY <1>8, <2>1, <3>3 DEF TypeOK, Decide, svcVars, mcpVars, PCs, WorkingPCs
  <2> QED
    BY <2>3, <2>4
<1>9. CASE DraftNothing
  <2>1. st \in AgentStates /\ st.action \in Maybe(Outputs)
    BY <1>9 DEF DraftNothing, TypeOK, AgentStates, Outputs, Maybe
  <2>2. \A x \in Statuses : [st EXCEPT !.output = st.action, !.status = x] \in AgentStates
    BY <2>1 DEF AgentStates
  <2>3. st' \in AgentStates
    BY <1>9, <2>2 DEF DraftNothing, Statuses
  <2> QED
    BY <1>9, <2>1, <2>3 DEF TypeOK, DraftNothing, svcVars, mcpVars, PCs, WorkingPCs
<1>10. CASE CallDeadServer \/ Timeout
  <2>1. st \in AgentStates
    BY <1>10 DEF CallDeadServer, Timeout, TypeOK
  <2>2. st' \in AgentStates
    BY <1>10, <2>1 DEF CallDeadServer, Timeout, DraftError, AgentStates, Statuses
  <2> QED
    BY <1>10, <2>1, <2>2
       DEF TypeOK, CallDeadServer, Timeout, DraftError, svcVars, mcpVars, PCs, WorkingPCs
<1>11. CASE SendDraftCall
  <2>1. DraftCall(current, st) \in DraftCalls
    BY <1>11, DraftCallType DEF SendDraftCall, TypeOK, PCs, WorkingPCs
  <2>2. queue' \in Seq(DraftCalls)
    BY <1>11, <2>1 DEF SendDraftCall, TypeOK
  <2> QED
    BY <1>11, <2>2 DEF TypeOK, SendDraftCall, svcVars, mcpVars, PCs, WorkingPCs
<1>12. CASE ReceiveReply
  <2>1. /\ st \in AgentStates /\ st.action \in Maybe(Outputs)
        /\ "duplicate_blocked" \in Maybe(Outputs)
        /\ {"draft_created", "closed", "manual_review"} \subseteq Statuses
        /\ reply \in {"created", "duplicate", "error"}
    BY <1>12 DEF ReceiveReply, TypeOK, AgentStates, Outputs, Maybe, Statuses
  <2>2. /\ [st EXCEPT !.output = st.action, !.status = "draft_created"] \in AgentStates
        /\ [st EXCEPT !.output = "duplicate_blocked", !.status = "closed"] \in AgentStates
        /\ [st EXCEPT !.status = "manual_review"] \in AgentStates
    BY <2>1 DEF AgentStates
  <2>3. st' \in AgentStates /\ pc' = "close"
    BY <1>12, <2>1, <2>2 DEF ReceiveReply, DraftError
  <2> QED
    BY <1>12, <2>3 DEF TypeOK, ReceiveReply, svcVars, mcpVars, PCs, WorkingPCs
<1>13. CASE FinishCreate \/ FinishApprove
  <2>1. /\ st \in AgentStates /\ current \in Cases
    BY <1>13 DEF FinishCreate, FinishApprove, TypeOK
  <2>2. Closed(st) \in AgentStates
    BY <2>1 DEF Closed, AgentStates, Statuses
  <2>3. /\ cases' \in [Cases -> Maybe(AgentStates)]
        /\ pending' \subseteq Cases /\ decided' \subseteq Cases
    BY <1>13, <2>1, <2>2 DEF FinishCreate, FinishApprove, TypeOK, Maybe
  <2> QED
    BY <1>13, <2>3, RetriesAssumption
       DEF TypeOK, FinishCreate, FinishApprove, EndRequest, mcpVars, PCs, WorkingPCs
<1>14. ASSUME NEW c \in Cases, Approve(c) PROVE TypeOK'
  <2>1. cases[c] \in AgentStates /\ cases[c].txn \in Txns
    BY <1>14, PendingIsWaiting DEF Approve, GetPending
  <2>2. [cases[c] EXCEPT !.approval = "approved"] \in AgentStates
    BY <2>1 DEF AgentStates, Approvals, Maybe
  <2> QED
    BY <1>14, <2>1, <2>2 DEF TypeOK, Approve, GetPending, svcVars, mcpVars, PCs, WorkingPCs
<1>15. ASSUME NEW c \in Cases, Reject(c) PROVE TypeOK'
  <2> DEFINE s == [cases[c] EXCEPT !.approval = "rejected", !.output = "rejected",
                                   !.status = "closed"]
  <2>1. cases[c] \in AgentStates
    BY <1>15, PendingIsWaiting DEF Reject, GetPending
  <2>2. s \in AgentStates
    BY <2>1 DEF AgentStates, Approvals, Outputs, Statuses, Maybe
  <2>3. cases' = [cases EXCEPT ![c] = s]
    BY <1>15, <2>1 DEF Reject, TypeOK
  <2> QED
    BY <1>15, <2>2, <2>3
       DEF TypeOK, Reject, GetPending, reqVars, mcpVars, PCs, WorkingPCs, Maybe
<1>16. CASE HandleDraftCall
  <2>1. /\ Head(queue) \in DraftCalls
        /\ Tail(queue) \in Seq(DraftCalls)
    BY <1>16 DEF HandleDraftCall, TypeOK
  <2>2. ToolOutcome(Head(queue)) \in {"created", "duplicate", "error"}
    BY DEF ToolOutcome
  <2>3. drafts' \subseteq DraftCalls
    BY <1>16, <2>1 DEF HandleDraftCall, Save, TypeOK
  <2>4. reply' \in {None, "created", "duplicate", "error"}
    BY <1>16, <2>2 DEF HandleDraftCall, TypeOK
  <2> QED
    BY <1>16, <2>1, <2>3, <2>4 DEF TypeOK, HandleDraftCall, svcVars, PCs, WorkingPCs
<1>17. CASE Crash
  BY <1>17 DEF TypeOK, Crash, svcVars, PCs, WorkingPCs
<1>18. ASSUME NEW t \in Txns, RefundMoves(t) \/ ProviderMoves(t) \/ BankMoves(t)
       PROVE  TypeOK'
  <2>1. ASSUME NEW w \in WorldRecords, SetWorld(t, w) PROVE TypeOK'
    BY <1>18, <2>1 DEF TypeOK, SetWorld, svcVars, reqVars, mcpVars
  <2>2. world[t] \in WorldRecords
    BY DEF TypeOK
  <2>3. CASE RefundMoves(t)
    <3>1. \A s \in RefundStatusValue : [world[t] EXCEPT !.refund = s] \in WorldRecords
      BY <2>2 DEF WorldRecords, Maybe
    <3>2. world[t].ledger # None =>
            [world[t] EXCEPT !.ledger.has_credit_refund = TRUE] \in WorldRecords
      BY <2>2 DEF WorldRecords, Ledgers, Maybe
    <3> QED
      BY <2>1, <2>3, <3>1, <3>2 DEF RefundMoves, RefundStatusValue
  <2>4. CASE ProviderMoves(t)
    <3>1. \A p \in TrainStatuses : [world[t] EXCEPT !.provider = p] \in WorldRecords
      BY <2>2 DEF WorldRecords, Maybe
    <3>2. /\ [status |-> "ticket_issued", has_code |-> TRUE] \in TrainStatuses
          /\ [status |-> "ticket_not_issued", has_code |-> FALSE] \in TrainStatuses
      BY DEF TrainStatuses, ProviderStatusValue
    <3>3. world[t].provider # None =>
            \A s \in {"confirmed", "failed"} :
              [world[t] EXCEPT !.provider.status = s] \in WorldRecords
      BY <2>2 DEF WorldRecords, TrainStatuses, ProviderStatusValue, Maybe
    <3> QED
      BY <2>1, <2>4, <3>1, <3>2, <3>3 DEF ProviderMoves
  <2>5. CASE BankMoves(t)
    <3>1. \A b \in {"success", "failed"} :
            [world[t] EXCEPT !.recon = [bank |-> b, money |-> b = "success"]] \in WorldRecords
      BY <2>2 DEF WorldRecords, Reconciliations, Maybe
    <3>2. [world[t] EXCEPT !.transaction = "success"] \in WorldRecords
      BY <2>2 DEF WorldRecords, TransactionStatus, Maybe
    <3> QED
      BY <2>1, <2>5, <3>1, <3>2 DEF BankMoves
  <2> QED
    BY <1>18, <2>3, <2>4, <2>5
<1>19. CASE UNCHANGED vars
  BY <1>19 DEF TypeOK, vars, svcVars, reqVars, mcpVars
<1> QED
  BY <1>1, <1>2, <1>3, <1>4, <1>5, <1>6, <1>7, <1>8, <1>9, <1>10, <1>11, <1>12,
     <1>13, <1>14, <1>15, <1>16, <1>17, <1>18, <1>19 DEF Next, RequestStep

-----------------------------------------------------------------------------
(* The inductive invariant *)

\* It holds before the first request.
LEMMA InvInit == Init => IInv
<1> SUFFICES ASSUME Init PROVE IInv
  OBVIOUS
<1>1. TypeOK
  BY TypeInit
<1>2. MoneyCalls = {}
  BY DEF Init, MoneyCalls, DraftsAndCalls
<1>3. RegistersAgree /\ RequestShape /\ PendingShape
  BY DEF Init, RegistersAgree, RequestShape, PendingShape
<1> QED
  BY <1>1, <1>2, <1>3 DEF IInv, MoneyCallsKnown, NoMoneyWithoutApproval

\* The facts of the invariant about the request in progress.
LEMMA RequestFacts ==
  ASSUME IInv, pc # "idle"
  PROVE  /\ current \in Cases /\ current # None
         /\ st \in AgentStates /\ st # None
         /\ pc \in WorkingPCs => st.txn \in Txns
         /\ current \notin pending =>
              cases[current] = None /\ current \notin decided
BY NoneAssumption DEF IInv, TypeOK, RegistersAgree, RequestShape

\* Where cases stand, and what a request may look like.
Shapes == RegistersAgree /\ RequestShape /\ PendingShape

LEMMA ShapesNext == IInv /\ [Next]_vars => Shapes'
<1> SUFFICES ASSUME IInv, [Next]_vars PROVE Shapes'
  OBVIOUS
<1> USE NoneAssumption
<1>0. TypeOK /\ RegistersAgree /\ RequestShape /\ PendingShape
  BY DEF IInv
<1>1. ASSUME NEW c \in Cases, NEW m \in Complaints, CreateCase(c, m) PROVE Shapes'
  <2>1. /\ st'.approval = None
        /\ pc' = "close" => st'.status = "dead_letter"
        /\ pc' \in {"close", "transaction"}
    BY <1>1 DEF CreateCase, Intake
  <2>2. c \notin pending
    BY <1>0, <1>1 DEF CreateCase, RegistersAgree
  <2>3. None # "pending"
    BY DEF Approvals
  <2> QED
    BY <1>0, <1>1, <2>1, <2>2, <2>3
       DEF Shapes, CreateCase, svcVars, RegistersAgree, RequestShape, PendingShape
<1>2. CASE FetchTransaction \/ FetchLedger \/ FetchProvider \/ FetchRefund
           \/ FetchReconciliation \/ RetryOrDeadLetter
  <2>1. /\ pc \in {"transaction", "ledger", "provider", "refund", "recon", "retry"}
        /\ pc' \in {"transaction", "ledger", "provider", "refund", "recon", "retry",
                    "decide", "close"}
        /\ UNCHANGED <<svcVars, current>>
    BY <1>2 DEF FetchTransaction, FetchLedger, FetchProvider, FetchRefund,
                FetchReconciliation, RetryOrDeadLetter
  <2>2. /\ st \in AgentStates
        /\ current \notin pending /\ cases[current] = None /\ st.approval = None
    BY <1>0, <2>1 DEF TypeOK, RequestShape
  <2>3. /\ st'.approval = None
        /\ pc' = "close" => st'.status = "dead_letter"
    BY <1>2, <2>2 DEF FetchTransaction, FetchLedger, FetchProvider, FetchRefund,
                      FetchReconciliation, RetryOrDeadLetter, AgentStates
  <2>4. None # "pending"
    BY DEF Approvals
  <2> QED
    BY <1>0, <2>1, <2>2, <2>3, <2>4
       DEF Shapes, svcVars, RegistersAgree, RequestShape, PendingShape
<1>3. CASE Decide
  <2>1. /\ st \in AgentStates /\ st.txn \in Txns
        /\ current \notin pending /\ cases[current] = None /\ st.approval = None
    BY <1>0, <1>3 DEF Decide, TypeOK, RequestShape, PCs, WorkingPCs
  <2> DEFINE d == ApplyRules(st.workflow, st.evidence, FALSE)
  <2>2. CASE HasConflict(st.evidence, st.user) \/ st.workflow = None
    <3>1. pc' = "close" /\ st'.approval = None /\ st'.status = "manual_review"
      BY <1>3, <2>1, <2>2 DEF Decide, AgentStates
    <3>2. None # "pending"
      BY DEF Approvals
    <3> QED
      BY <1>0, <1>3, <2>1, <3>1, <3>2
         DEF Decide, Shapes, svcVars, RegistersAgree, RequestShape, PendingShape
  <2>3. CASE ~(HasConflict(st.evidence, st.user) \/ st.workflow = None) /\ d.approval
    <3> HIDE DEF d
    <3>1. /\ pc' = "close" /\ st'.approval = "pending"
          /\ st'.status = "waiting_approval" /\ st'.txn = st.txn
      BY <1>3, <2>1, <2>3 DEF Decide, AgentStates, d
    <3> QED
      BY <1>0, <1>3, <2>1, <3>1
         DEF Decide, Shapes, svcVars, RegistersAgree, RequestShape, PendingShape
  <2>4. CASE ~(HasConflict(st.evidence, st.user) \/ st.workflow = None) /\ ~d.approval
    <3>1. d.action \notin MoneyActions
      BY <2>1, <2>4, DecisionsAreKnown DEF AgentStates, Maybe
    <3> HIDE DEF d
    <3>2. pc' = "draft" /\ st'.approval = None /\ st'.action = d.action
      BY <1>3, <2>1, <2>4 DEF Decide, AgentStates, d
    <3> QED
      BY <1>0, <1>3, <2>1, <3>1, <3>2
         DEF Decide, Shapes, svcVars, RegistersAgree, RequestShape, PendingShape
  <2> QED
    BY <2>2, <2>3, <2>4
<1>4. CASE DraftNothing \/ CallDeadServer \/ ReceiveReply \/ Timeout
  <2>1. /\ pc \in {"draft", "await"} /\ pc' = "close" /\ st \in AgentStates
        /\ UNCHANGED <<svcVars, current>>
    BY <1>0, <1>4 DEF DraftNothing, CallDeadServer, ReceiveReply, Timeout,
                      DraftError, TypeOK
  <2>2. st'.approval = st.approval /\ st'.status # "waiting_approval"
    BY <1>0, <1>4, <2>1 DEF DraftNothing, CallDeadServer, ReceiveReply, Timeout,
                            DraftError, TypeOK, AgentStates
  <2>3. None # "pending"
    BY DEF Approvals
  <2> QED
    BY <1>0, <2>1, <2>2, <2>3
       DEF Shapes, svcVars, RegistersAgree, RequestShape, PendingShape
<1>5. CASE SendDraftCall
  BY <1>0, <1>5 DEF SendDraftCall, Shapes, svcVars, RegistersAgree, RequestShape, PendingShape
<1>6. CASE FinishCreate
  <2>1. /\ st \in AgentStates /\ current \in Cases
        /\ current \notin pending /\ current \notin decided /\ cases[current] = None
    BY <1>6, RequestFacts DEF FinishCreate
  <2>2. /\ st.approval \in {None, "pending"}
        /\ st.status = "waiting_approval" <=> st.approval = "pending"
        /\ st.status = "waiting_approval" => st.txn \in Txns
    BY <1>0, <1>6 DEF RequestShape, FinishCreate
  <2>3. /\ Closed(st) # None
        /\ Closed(st).status = "waiting_approval" <=> st.status = "waiting_approval"
        /\ Closed(st).approval = st.approval /\ Closed(st).txn = st.txn
    BY <2>1 DEF Closed, AgentStates, Statuses
  <2>4. /\ cases' = [cases EXCEPT ![current] = Closed(st)]
        /\ pending' = IF st.status = "waiting_approval"
                      THEN pending \cup {current} ELSE pending
        /\ decided' = decided /\ pc' = "idle"
    BY <1>6 DEF FinishCreate, EndRequest
  <2> QED
    BY <1>0, <2>1, <2>2, <2>3, <2>4
       DEF Shapes, TypeOK, RegistersAgree, RequestShape, PendingShape, Approvals
<1>7. CASE FinishApprove
  <2>1. /\ st \in AgentStates /\ current \in Cases
        /\ st.approval = "approved" /\ st.status # "waiting_approval"
    BY <1>0, <1>7, RequestFacts DEF RequestShape, FinishApprove
  <2>2. /\ Closed(st) # None
        /\ Closed(st).status # "waiting_approval" /\ Closed(st).approval = "approved"
    BY <2>1 DEF Closed, AgentStates, Statuses
  <2>3. /\ cases' = [cases EXCEPT ![current] = Closed(st)]
        /\ pending' = pending \ {current}
        /\ decided' = decided \cup {current} /\ pc' = "idle"
    BY <1>7 DEF FinishApprove, EndRequest
  <2> QED
    BY <1>0, <2>1, <2>2, <2>3
       DEF Shapes, TypeOK, RegistersAgree, RequestShape, PendingShape
<1>8. ASSUME NEW c \in Cases, Approve(c) PROVE Shapes'
  <2>1. c \in pending /\ cases[c] \in AgentStates
    BY <1>8, PendingIsWaiting DEF Approve, GetPending
  <2>2. st'.approval = "approved" /\ pc' = "draft" /\ current' = c
    BY <1>8, <2>1 DEF Approve, AgentStates
  <2> QED
    BY <1>0, <1>8, <2>1, <2>2
       DEF Approve, Shapes, svcVars, RegistersAgree, RequestShape, PendingShape
<1>9. ASSUME NEW c \in Cases, Reject(c) PROVE Shapes'
  <2>1. c \in pending /\ cases[c] \in AgentStates
    BY <1>9, PendingIsWaiting DEF Reject, GetPending
  <2> DEFINE s == [cases[c] EXCEPT !.approval = "rejected", !.output = "rejected",
                                   !.status = "closed"]
  <2>2. s # None /\ s.approval = "rejected" /\ s.status = "closed"
    <3>1. s \in AgentStates
      BY <2>1 DEF AgentStates, Approvals, Outputs, Statuses, Maybe
    <3> QED
      BY <2>1, <3>1 DEF AgentStates
  <2>3. cases' = [cases EXCEPT ![c] = s]
    BY <1>0, <1>9, <2>1 DEF Reject, TypeOK
  <2> HIDE DEF s
  <2> QED
    BY <1>0, <1>9, <2>1, <2>2, <2>3
       DEF Reject, Shapes, reqVars, TypeOK, RegistersAgree, RequestShape, PendingShape
<1>10. CASE UNCHANGED <<svcVars, pc, current, st>>
  BY <1>0, <1>10 DEF Shapes, svcVars, RegistersAgree, RequestShape, PendingShape
<1>11. ASSUME NEW t \in Txns, RefundMoves(t) \/ ProviderMoves(t) \/ BankMoves(t)
       PROVE  UNCHANGED <<svcVars, pc, current, st>>
  BY <1>11 DEF RefundMoves, ProviderMoves, BankMoves, SetWorld, svcVars, reqVars
<1>12. HandleDraftCall \/ Crash \/ UNCHANGED vars => UNCHANGED <<svcVars, pc, current, st>>
  BY DEF HandleDraftCall, Crash, vars, svcVars, reqVars
<1> QED
  BY <1>1, <1>2, <1>3, <1>4, <1>5, <1>6, <1>7, <1>8, <1>9, <1>10, <1>11, <1>12
     DEF Next, RequestStep

\* A draft that moves money belongs to a case a person approved.
MoneyOK == MoneyCallsKnown /\ NoMoneyWithoutApproval

\* A step that sends no draft call, and takes no approval back, keeps that.
LEMMA MoneyKept ==
  ASSUME IInv, MoneyCalls' \subseteq MoneyCalls,
         \A c \in Cases : StateOf(c) # None /\ StateOf(c).approval = "approved" =>
           StateOf(c)' # None /\ StateOf(c)'.approval = "approved"
  PROVE  MoneyOK'
<1>1. \A d \in MoneyCalls : d.case \in Cases
  <2>1. queue \in Seq(DraftCalls) /\ drafts \subseteq DraftCalls
    BY DEF IInv, TypeOK
  <2>2. DraftsAndCalls \subseteq DraftCalls
    BY <2>1 DEF DraftsAndCalls
  <2> QED
    BY <2>2 DEF MoneyCalls, DraftCalls
<1>2. \A d \in MoneyCalls : StateOf(d.case) # None /\ StateOf(d.case).approval = "approved"
  BY DEF IInv, MoneyCallsKnown, NoMoneyWithoutApproval
<1>3. \A d \in MoneyCalls' : StateOf(d.case)' # None /\ StateOf(d.case)'.approval = "approved"
  BY <1>1, <1>2
<1> QED
  BY <1>3 DEF MoneyOK, MoneyCallsKnown, NoMoneyWithoutApproval

LEMMA MoneyNext == IInv /\ [Next]_vars => MoneyOK'
<1> SUFFICES ASSUME IInv, [Next]_vars PROVE MoneyOK'
  OBVIOUS
<1> USE NoneAssumption
<1>0. TypeOK /\ RegistersAgree /\ RequestShape /\ PendingShape
  BY DEF IInv
<1>1. ASSUME NEW c \in Cases, NEW m \in Complaints, CreateCase(c, m) PROVE MoneyOK'
  <2>1. MoneyCalls' = MoneyCalls
    BY <1>1 DEF CreateCase, mcpVars, MoneyCalls, DraftsAndCalls
  <2>2. StateOf(c) = None
    BY <1>0, <1>1 DEF CreateCase, StateOf, TypeOK
  <2>3. \A x \in Cases \ {c} : StateOf(x)' = StateOf(x)
    BY <1>0, <1>1 DEF CreateCase, StateOf, TypeOK, svcVars
  <2> QED
    BY <2>1, <2>2, <2>3, MoneyKept
<1>2. ASSUME UNCHANGED <<svcVars, current>>, MoneyCalls' \subseteq MoneyCalls,
             pc # "idle" => st' # None /\ (st.approval = "approved" => st'.approval = "approved"),
             pc = "idle" => UNCHANGED st
      PROVE  MoneyOK'
  <2>1. \A x \in Cases : x # current => StateOf(x)' = StateOf(x)
    BY <1>2 DEF StateOf, svcVars
  <2>2. pc = "idle" => current \notin Cases
    BY <1>0 DEF TypeOK
  <2>3. StateOf(current) = st /\ StateOf(current)' = st'
    BY <1>2 DEF StateOf
  <2> QED
    BY <1>2, <2>1, <2>2, <2>3, MoneyKept
<1> DEFINE Reads == \/ FetchTransaction \/ FetchLedger \/ FetchProvider \/ FetchRefund
                    \/ FetchReconciliation \/ RetryOrDeadLetter
           Answers == DraftNothing \/ CallDeadServer \/ ReceiveReply \/ Timeout
<1>3. CASE Reads \/ Decide \/ Answers
  <2>1. /\ pc # "idle" /\ pc' # "idle" /\ TypeOK'
        /\ UNCHANGED <<svcVars, current, mcpVars>>
    <3>1. TypeOK'
      BY TypeNext
    <3>2. CASE Reads
      BY <3>1, <3>2 DEF FetchTransaction, FetchLedger, FetchProvider, FetchRefund,
                        FetchReconciliation, RetryOrDeadLetter
    <3>3. CASE Decide
      BY <3>1, <3>3 DEF Decide
    <3>4. CASE DraftNothing \/ CallDeadServer \/ Timeout
      BY <3>1, <3>4 DEF DraftNothing, CallDeadServer, Timeout, DraftError
    <3>5. CASE ReceiveReply
      <4>1. reply \in {"created", "duplicate", "error"}
        BY <1>0, <3>5 DEF ReceiveReply, TypeOK
      <4> QED
        BY <3>1, <3>5, <4>1 DEF ReceiveReply, DraftError
    <3> QED
      BY <1>3, <3>2, <3>3, <3>4, <3>5
  <2>2. st' # None /\ st \in AgentStates
    BY <1>0, <2>1 DEF TypeOK
  <2>3. MoneyCalls' = MoneyCalls
    BY <2>1 DEF MoneyCalls, DraftsAndCalls, mcpVars
  <2>4. st.approval = "approved" => st'.approval = "approved"
    <3>1. CASE Reads
      <4>1. pc \notin {"draft", "await", "close"}
        BY <3>1 DEF FetchTransaction, FetchLedger, FetchProvider, FetchRefund,
                    FetchReconciliation, RetryOrDeadLetter
      <4> QED
        BY <1>0, <2>1, <4>1 DEF RequestShape, Approvals
    <3>2. CASE Decide
      BY <1>0, <2>1, <3>2 DEF Decide, RequestShape, Approvals
    <3>3. CASE DraftNothing \/ CallDeadServer \/ Timeout
      BY <2>2, <3>3 DEF DraftNothing, CallDeadServer, Timeout, DraftError, AgentStates
    <3>4. CASE ReceiveReply
      <4>1. reply \in {"created", "duplicate", "error"}
        BY <1>0, <3>4 DEF ReceiveReply, TypeOK
      <4> QED
        BY <2>2, <3>4, <4>1 DEF ReceiveReply, DraftError, AgentStates
    <3> QED
      BY <1>3, <3>1, <3>2, <3>3, <3>4
  <2> QED
    BY <1>2, <2>1, <2>2, <2>3, <2>4
<1>4. CASE SendDraftCall
  <2>1. /\ pc = "draft" /\ UNCHANGED <<svcVars, current, st, drafts>>
        /\ queue' = Append(queue, DraftCall(current, st))
    BY <1>4 DEF SendDraftCall
  <2>2. MoneyCalls' \subseteq
          MoneyCalls \cup {d \in {DraftCall(current, st)} : d.action \in MoneyActions}
    <3>1. queue \in Seq(DraftCalls)
      BY <1>0 DEF TypeOK
    <3>2. {queue'[i] : i \in DOMAIN queue'} \subseteq
            {queue[i] : i \in DOMAIN queue} \cup {DraftCall(current, st)}
      BY <2>1, <3>1
    <3> QED
      BY <2>1, <3>2 DEF MoneyCalls, DraftsAndCalls
  <2>3. DraftCall(current, st).case = current /\ DraftCall(current, st).action = st.action
    BY DEF DraftCall
  <2>4. st.action \in MoneyActions => st.approval = "approved" /\ st # None
    BY <1>0, <2>1, RequestFacts DEF RequestShape
  <2>5. \A x : StateOf(x)' = StateOf(x)
    BY <2>1 DEF StateOf, svcVars
  <2>6. \A d \in MoneyCalls' : StateOf(d.case) # None /\ StateOf(d.case).approval = "approved"
    <3>1. StateOf(current) = st
      BY DEF StateOf
    <3> QED
      BY <2>2, <2>3, <2>4, <3>1 DEF IInv, MoneyCallsKnown, NoMoneyWithoutApproval
  <2> QED
    BY <2>5, <2>6 DEF MoneyOK, MoneyCallsKnown, NoMoneyWithoutApproval
<1>5. CASE FinishCreate \/ FinishApprove
  <2>1. /\ current \in Cases /\ st \in AgentStates /\ st # None
        /\ cases' = [cases EXCEPT ![current] = Closed(st)]
        /\ current' = None /\ UNCHANGED mcpVars
    BY <1>5, RequestFacts DEF FinishCreate, FinishApprove, EndRequest
  <2>2. MoneyCalls' = MoneyCalls
    BY <2>1 DEF MoneyCalls, DraftsAndCalls, mcpVars
  <2>3. Closed(st).approval = st.approval /\ Closed(st) # None
    BY <2>1 DEF Closed, AgentStates, Statuses
  <2>4. PICK c \in Cases : c = current
    BY <2>1
  <2>5. StateOf(c) = st /\ StateOf(c)' = Closed(st)
    BY <1>0, <2>1, <2>4 DEF StateOf, TypeOK
  <2>6. \A x \in Cases \ {c} : StateOf(x)' = StateOf(x)
    BY <1>0, <2>1, <2>4 DEF StateOf, TypeOK
  <2> QED
    BY <2>2, <2>3, <2>5, <2>6, MoneyKept
<1>6. ASSUME NEW c \in Cases, Approve(c) PROVE MoneyOK'
  <2>1. cases[c] \in AgentStates /\ current = None
    BY <1>0, <1>6, PendingIsWaiting DEF Approve, GetPending, TypeOK
  <2>2. st'.approval = "approved" /\ st' # None
    <3>1. TypeOK'
      BY TypeNext
    <3> QED
      BY <1>6, <2>1, <3>1 DEF Approve, AgentStates, TypeOK
  <2>3. MoneyCalls' = MoneyCalls
    BY <1>6 DEF Approve, MoneyCalls, DraftsAndCalls, mcpVars
  <2>4. \A x \in Cases \ {c} : StateOf(x)' = StateOf(x)
    BY <1>6, <2>1 DEF Approve, StateOf, svcVars
  <2>5. StateOf(c)' = st'
    BY <1>6 DEF Approve, StateOf
  <2> QED
    BY <2>2, <2>3, <2>4, <2>5, MoneyKept
<1>7. ASSUME NEW c \in Cases, Reject(c) PROVE MoneyOK'
  <2>1. cases[c].approval = "pending" /\ current = None /\ UNCHANGED <<current, st>>
    BY <1>0, <1>7, PendingIsWaiting DEF Reject, GetPending, TypeOK, reqVars
  <2>2. MoneyCalls' = MoneyCalls
    BY <1>7 DEF Reject, MoneyCalls, DraftsAndCalls, mcpVars
  <2>3. \A x \in Cases \ {c} : StateOf(x)' = StateOf(x)
    BY <1>0, <1>7, <2>1 DEF Reject, StateOf, TypeOK
  <2>4. StateOf(c).approval # "approved"
    BY <2>1 DEF StateOf
  <2> QED
    BY <2>2, <2>3, <2>4, MoneyKept
<1>8. CASE HandleDraftCall
  <2>1. /\ UNCHANGED <<svcVars, current, st, pc>>
        /\ queue # <<>> /\ queue' = Tail(queue)
        /\ drafts' \subseteq drafts \cup {Head(queue)}
    BY <1>8 DEF HandleDraftCall, Save
  <2>2. queue \in Seq(DraftCalls)
    BY <1>0 DEF TypeOK
  <2>3. MoneyCalls' \subseteq MoneyCalls
    <3>1. Head(queue) \in {queue[i] : i \in DOMAIN queue}
      BY <2>1, <2>2
    <3>2. {queue'[i] : i \in DOMAIN queue'} \subseteq {queue[i] : i \in DOMAIN queue}
      BY <2>1, <2>2
    <3> QED
      BY <2>1, <3>1, <3>2 DEF MoneyCalls, DraftsAndCalls
  <2> QED
    BY <1>2, <2>1, <2>3, RequestFacts
<1>9. CASE Crash
  <2>1. /\ UNCHANGED <<svcVars, current, st, pc>>
        /\ queue' = <<>> /\ drafts' = {}
    BY <1>9 DEF Crash
  <2>2. MoneyCalls' = {}
    BY <2>1 DEF MoneyCalls, DraftsAndCalls
  <2> QED
    BY <1>2, <2>1, <2>2, RequestFacts
<1>10. ASSUME NEW t \in Txns, RefundMoves(t) \/ ProviderMoves(t) \/ BankMoves(t)
       PROVE  UNCHANGED <<svcVars, reqVars, mcpVars>>
  BY <1>10 DEF RefundMoves, ProviderMoves, BankMoves, SetWorld
<1>11. CASE UNCHANGED <<svcVars, reqVars, mcpVars>>
  <2>1. MoneyCalls' = MoneyCalls
    BY <1>11 DEF MoneyCalls, DraftsAndCalls, mcpVars
  <2> QED
    BY <1>2, <1>11, <2>1, RequestFacts DEF reqVars
<1>12. UNCHANGED vars => UNCHANGED <<svcVars, reqVars, mcpVars>>
  BY DEF vars
<1> QED
  BY <1>1, <1>3, <1>4, <1>5, <1>6, <1>7, <1>8, <1>9, <1>10, <1>11, <1>12
     DEF Next, RequestStep

LEMMA InvNext == IInv /\ [Next]_vars => IInv'
BY TypeNext, ShapesNext, MoneyNext DEF IInv, Shapes, MoneyOK

LEMMA Invariance == Spec => []IInv
BY InvInit, InvNext, PTL DEF Spec

-----------------------------------------------------------------------------
(* The theorems *)

\* Every reachable state is typed: retry_count never passes max_retries, a
\* request works on a stored transaction until it closes, and a dead server
\* holds nothing.
THEOREM TypeCorrect == Spec => []TypeOK
<1>1. IInv => TypeOK
  BY DEF IInv
<1> QED
  BY <1>1, Invariance, PTL

\* No draft that moves money, and no call that may still create one, belongs
\* to a case that no person approved (approval_service.py:15), whatever the
\* evidence says, whichever calls time out and whenever the server dies.
THEOREM NoMoneyWithoutApprovalHolds == Spec => []NoMoneyWithoutApproval
<1>1. IInv => NoMoneyWithoutApproval
  BY DEF IInv
<1> QED
  BY <1>1, Invariance, PTL

\* The registers of CaseService and ApprovalService agree on every case.
THEOREM RegistersAgreeHolds == Spec => []RegistersAgree
<1>1. IInv => RegistersAgree
  BY DEF IInv
<1> QED
  BY <1>1, Invariance, PTL

\* A decided case never changes again, and stays decided (approval_service.py:16).
THEOREM DecidedIsFinalHolds == Spec => DecidedIsFinal
<1> DEFINE Final == \A c \in decided : c \in decided' /\ cases'[c] = cases[c]
<1>1. ASSUME IInv, [Next]_vars PROVE Final
  <2>0. /\ cases \in [Cases -> Maybe(AgentStates)] /\ decided \subseteq Cases
        /\ pending \cap decided = {}
    BY <1>1 DEF IInv, TypeOK, RegistersAgree
  <2>1. CASE UNCHANGED svcVars
    BY <2>1 DEF svcVars
  <2>2. CASE FinishCreate \/ FinishApprove
    <3>1. current \in Cases /\ current \notin decided
      BY <1>1, <2>0, <2>2, RequestFacts DEF FinishCreate, FinishApprove
    <3> QED
      BY <2>0, <2>2, <3>1 DEF FinishCreate, FinishApprove
  <2>3. ASSUME NEW c \in Cases, Reject(c) PROVE Final
    BY <2>0, <2>3 DEF Reject, GetPending
  <2>4. ASSUME NEW c \in Cases, Approve(c) \/ \E m \in Complaints : CreateCase(c, m)
        PROVE  UNCHANGED svcVars
    BY <2>4 DEF Approve, CreateCase, svcVars
  <2>5. ASSUME NEW t \in Txns, RefundMoves(t) \/ ProviderMoves(t) \/ BankMoves(t)
        PROVE  UNCHANGED svcVars
    BY <2>5 DEF RefundMoves, ProviderMoves, BankMoves, SetWorld, svcVars
  <2>6. HandleDraftCall \/ Crash \/ UNCHANGED vars => UNCHANGED svcVars
    BY DEF HandleDraftCall, Crash, vars, svcVars
  <2>7. RequestStep => UNCHANGED svcVars \/ FinishCreate \/ FinishApprove
    BY DEF RequestStep, FetchTransaction, FetchLedger, FetchProvider, FetchRefund,
           FetchReconciliation, RetryOrDeadLetter, Decide, DraftNothing,
           CallDeadServer, SendDraftCall, ReceiveReply, Timeout, svcVars
  <2> QED
    BY <1>1, <2>1, <2>2, <2>3, <2>4, <2>5, <2>6, <2>7 DEF Next
<1> QED
  BY <1>1, Invariance, PTL DEF Spec, DecidedIsFinal

\* A request comes nearer to its end with each of its steps, so that it has at
\* most ten and six for every retry: retry_or_dead_letter counts, no node of the
\* graph goes back without it, and nobody else moves the request.
THEOREM WorkIsBoundedHolds == Spec => WorkIsBounded
<1> DEFINE Stays == UNCHANGED <<pc, current, st, failed, retries>>
           Nearer == StepsLeft' \in 0 .. (StepsLeft - 1)
<1>1. ASSUME TypeOK, TypeOK', [Next]_vars, pc # "idle" PROVE Stays \/ Nearer
  <2>1. /\ MaxRetries \in Nat
        /\ retries \in Nat /\ retries' \in Nat
        /\ MaxRetries - retries \in Nat /\ MaxRetries - retries' \in Nat
    <3>1. retries \in 0 .. MaxRetries /\ retries' \in 0 .. MaxRetries
      BY <1>1, Zenon DEF TypeOK
    <3>2. MaxRetries \in Nat
      BY RetriesAssumption
    <3>3. \A r \in 0 .. MaxRetries : r \in Nat /\ MaxRetries - r \in Nat
      BY <3>2
    <3> QED BY <3>1, <3>2, <3>3, Zenon
  <2>3. CASE FetchTransaction \/ FetchLedger \/ FetchProvider \/ FetchRefund
             \/ FetchReconciliation
    <3>1. retries' = retries
      BY <2>3 DEF FetchTransaction, FetchLedger, FetchProvider, FetchRefund,
                  FetchReconciliation
    <3>2. \/ pc = "transaction" /\ pc' \in {"recon", "ledger"}
          \/ pc = "ledger" /\ pc' \in {"provider", "refund"}
          \/ pc = "provider" /\ pc' = "refund"
          \/ pc = "refund" /\ pc' = "recon"
          \/ pc = "recon" /\ pc' \in {"retry", "decide"}
      BY <2>3 DEF FetchTransaction, FetchLedger, FetchProvider, FetchRefund,
                  FetchReconciliation
    <3> QED BY <2>1, <3>1, <3>2 DEF StepsLeft, StepsInRound
  <2>4. CASE RetryOrDeadLetter
    <3>1. /\ pc = "retry"
          /\ \/ pc' = "transaction" /\ retries' = retries + 1
             \/ pc' = "close" /\ retries' = retries
      BY <2>4 DEF RetryOrDeadLetter
    <3> QED BY <2>1, <3>1 DEF StepsLeft, StepsInRound
  <2>5. CASE Decide \/ DraftNothing \/ CallDeadServer \/ SendDraftCall \/ ReceiveReply \/ Timeout
    <3>1. retries' = retries
      BY <2>5 DEF Decide, DraftNothing, CallDeadServer, SendDraftCall, ReceiveReply, Timeout
    <3>2. \/ pc = "decide" /\ pc' \in {"close", "draft"}
          \/ pc = "draft" /\ pc' \in {"close", "await"}
          \/ pc = "await" /\ pc' = "close"
      BY <1>1, <2>5 DEF Decide, DraftNothing, CallDeadServer, SendDraftCall, ReceiveReply,
                        Timeout, DraftError, TypeOK
    <3> QED BY <2>1, <3>1, <3>2 DEF StepsLeft, StepsInRound
  <2>6. CASE FinishCreate \/ FinishApprove
    <3>1. pc = "close" /\ pc' = "idle"
      BY <2>6 DEF FinishCreate, FinishApprove, EndRequest
    <3> QED BY <2>1, <3>1 DEF StepsLeft, StepsInRound
  <2>7. ASSUME NEW c \in Cases
        PROVE  ~(\E m \in Complaints : CreateCase(c, m)) /\ ~Approve(c) /\ ~Reject(c)
    BY <1>1 DEF CreateCase, Approve, Reject
  <2>8. HandleDraftCall \/ Crash \/ UNCHANGED vars => Stays
    BY DEF HandleDraftCall, Crash, vars, reqVars
  <2>9. ASSUME NEW t \in Txns, RefundMoves(t) \/ ProviderMoves(t) \/ BankMoves(t)
        PROVE  Stays
    BY <2>9 DEF RefundMoves, ProviderMoves, BankMoves, SetWorld, reqVars
  <2> HIDE DEF Stays, Nearer
  <2> QED
    BY <1>1, <2>3, <2>4, <2>5, <2>6, <2>7, <2>8, <2>9 DEF Next, RequestStep
<1>2. IInv => TypeOK
  BY DEF IInv
<1> QED
  BY <1>1, <1>2, Invariance, PTL DEF Spec, WorkIsBounded

\* The key of a money draft is the key of no draft of another kind.
LEMMA MoneyKeysAreTheirOwn ==
  ASSUME NEW d, NEW e, d.action \in MoneyActions, e.action \notin MoneyActions
  PROVE  DraftKey(d) # DraftKey(e)
BY DEF DraftKey, IdempotencyKey, MoneyActions

\* A money draft in the store is never overwritten: a call of the same kind for
\* the same transaction and amount is turned away, and no other call has its key.
THEOREM MoneyDraftsAreKeptHolds == Spec => MoneyDraftsAreKept
<1> DEFINE Kept == mcp' = "up" => MoneyDrafts \subseteq MoneyDrafts'
<1>1. ASSUME IInv, [Next]_vars PROVE Kept
  <2>1. CASE UNCHANGED drafts
    BY <2>1 DEF MoneyDrafts
  <2>2. CASE HandleDraftCall
    <3> DEFINE d == Head(queue)
    <3>1. drafts' = IF ToolOutcome(d) = "created" THEN Save(d) ELSE drafts
      BY <2>2 DEF HandleDraftCall
    <3>2. ASSUME ToolOutcome(d) = "created", NEW e \in MoneyDrafts
          PROVE  DraftKey(e) # DraftKey(d)
      <4>1. e \in drafts /\ e.action \in MoneyActions
        BY DEF MoneyDrafts
      <4>2. CASE d.action \in MoneyActions
        BY <3>2, <4>1, <4>2 DEF ToolOutcome, Stored
      <4>3. CASE d.action \notin MoneyActions
        BY <4>1, <4>3, MoneyKeysAreTheirOwn
      <4> QED
        BY <4>2, <4>3
    <3> HIDE DEF d
    <3> QED
      BY <3>1, <3>2 DEF MoneyDrafts, Save
  <2>3. CASE Crash
    BY <2>3 DEF Crash
  <2>4. ASSUME NEW c \in Cases,
               Approve(c) \/ Reject(c) \/ \E m \in Complaints : CreateCase(c, m)
        PROVE  UNCHANGED drafts
    BY <2>4 DEF Approve, Reject, CreateCase, mcpVars
  <2>5. ASSUME NEW t \in Txns, RefundMoves(t) \/ ProviderMoves(t) \/ BankMoves(t)
        PROVE  UNCHANGED drafts
    BY <2>5 DEF RefundMoves, ProviderMoves, BankMoves, SetWorld, mcpVars
  <2>6. UNCHANGED vars => UNCHANGED drafts
    BY DEF vars, mcpVars
  <2>7. RequestStep => UNCHANGED drafts
    BY DEF RequestStep, FetchTransaction, FetchLedger, FetchProvider, FetchRefund,
           FetchReconciliation, RetryOrDeadLetter, Decide, DraftNothing,
           CallDeadServer, SendDraftCall, ReceiveReply, Timeout, FinishCreate,
           FinishApprove, mcpVars
  <2> QED
    BY <1>1, <2>1, <2>2, <2>3, <2>4, <2>5, <2>6, <2>7 DEF Next
<1> QED
  BY <1>1, Invariance, PTL DEF Spec, MoneyDraftsAreKept

-----------------------------------------------------------------------------
(* Part two, the drafts.  The inductive invariant is DInv; each of its     *)
(* parts has a lemma that goes through the kinds of steps.                 *)

-----------------------------------------------------------------------------
(* What a draft call depends on *)

\* t differs from s at most in what a draft call does not carry.
SameDraft(s, t) ==
  /\ t.txn = s.txn /\ t.user = s.user /\ t.action = s.action
  /\ t.evidence = s.evidence

LEMMA SameDraftCall ==
  ASSUME NEW c, NEW s, NEW t, SameDraft(s, t)
  PROVE  DraftCall(c, t) = DraftCall(c, s) /\ (Justified(s) => Justified(t))
BY DEF SameDraft, DraftCall, DraftAmount, DebitAmount, Justified

\* Writing the outcome of a request leaves the draft as it was.
LEMMA OutcomeKeepsDraft ==
  ASSUME NEW s \in AgentStates
  PROVE  /\ \A x : SameDraft(s, [s EXCEPT !.status = x])
         /\ \A x : SameDraft(s, [s EXCEPT !.output = x])
         /\ \A x : SameDraft(s, [s EXCEPT !.approval = x])
         /\ \A x, y, z : SameDraft(s, [s EXCEPT !.approval = x, !.output = y, !.status = z])
         /\ SameDraft(s, Closed(s))
BY DEF SameDraft, AgentStates, Closed

LEMMA OutcomeFields ==
  ASSUME NEW s \in AgentStates
  PROVE  /\ \A x : /\ [s EXCEPT !.status = x].status = x
                   /\ [s EXCEPT !.status = x].output = s.output
         /\ \A x : [s EXCEPT !.output = x].output = x
BY DEF AgentStates

-----------------------------------------------------------------------------
(* The kinds of steps *)

EarlyPCs == {"transaction", "ledger", "provider", "refund", "recon", "retry", "decide"}

Reads == \/ FetchTransaction \/ FetchLedger \/ FetchProvider \/ FetchRefund
         \/ FetchReconciliation \/ RetryOrDeadLetter

Answers == DraftNothing \/ CallDeadServer \/ ReceiveReply \/ Timeout

LEMMA InvFacts ==
  ASSUME DInv
  PROVE  /\ TypeOK /\ RegistersAgree /\ RequestShape /\ PendingShape
         /\ MoneyCallsKnown /\ NoMoneyWithoutApproval
         /\ CallsOfCases /\ MoneyKeysUnique /\ EvidenceShape
         /\ StatesJustified /\ ReportsShape
         /\ DraftsAndCalls \subseteq DraftCalls
         /\ \A d \in DraftsAndCalls : d.case \in Cases
         /\ pc = "idle" => current = None /\ st = None /\ current \notin Cases
         /\ pc # "idle" => current \in Cases /\ st \in AgentStates /\ st # None
         /\ queue \in Seq(DraftCalls)
<1>1. TypeOK
  BY DEF DInv, IInv
<1>2. queue \in Seq(DraftCalls) /\ drafts \subseteq DraftCalls
  BY <1>1 DEF TypeOK
<1>3. DraftsAndCalls \subseteq DraftCalls
  BY <1>2 DEF DraftsAndCalls
<1>4. \A d \in DraftsAndCalls : d.case \in Cases
  BY <1>3 DEF DraftCalls
<1>5. /\ pc = "idle" => current = None /\ st = None /\ current \notin Cases
      /\ pc # "idle" => current \in Cases /\ st \in AgentStates /\ st # None
  BY <1>1, NoneAssumption DEF TypeOK
<1> QED
  BY <1>1, <1>2, <1>3, <1>4, <1>5 DEF DInv, IInv

\* The reads, the retry and the decision: nothing but the request changes.
LEMMA EarlySteps ==
  ASSUME DInv, Reads \/ Decide
  PROVE  /\ pc \in EarlyPCs /\ pc' \in EarlyPCs \cup {"draft", "close"}
         /\ UNCHANGED <<svcVars, mcpVars, current, reply>>
         /\ current \in Cases /\ st \in AgentStates /\ st' # None
         /\ st.output = None /\ st.action = None
         /\ current \notin pending
<1>1. /\ pc \in EarlyPCs /\ pc' \in EarlyPCs \cup {"draft", "close"}
      /\ UNCHANGED <<svcVars, mcpVars, current, reply>>
  <2>1. CASE Reads
    BY <2>1 DEF Reads, EarlyPCs, FetchTransaction, FetchLedger, FetchProvider,
                FetchRefund, FetchReconciliation, RetryOrDeadLetter
  <2>2. CASE Decide
    BY <2>2 DEF Decide, EarlyPCs
  <2> QED
    BY <2>1, <2>2
<1>2. TypeOK'
  BY TypeNext DEF DInv, Next, RequestStep, Reads
<1>3. st' # None
  BY <1>1, <1>2, NoneAssumption DEF TypeOK, EarlyPCs
<1>4. st.output = None /\ st.action = None
  BY <1>1, InvFacts DEF ReportsShape, EvidenceShape, EarlyPCs
<1>5. current \notin pending
  BY <1>1, InvFacts DEF RequestShape, EarlyPCs
<1> QED
  BY <1>1, <1>3, <1>4, <1>5, InvFacts DEF EarlyPCs

\* The steps that end create_draft: the draft call they are about is the same.
LEMMA AnswerSteps ==
  ASSUME DInv, Answers
  PROVE  /\ pc \in {"draft", "await"} /\ pc' = "close"
         /\ UNCHANGED <<svcVars, mcpVars, current>>
         /\ reply' = None
         /\ current \in Cases /\ st \in AgentStates /\ st' # None
         /\ SameDraft(st, st')
         /\ st'.status # "waiting_approval"
         /\ \/ st'.output = None
            \/ st'.output = st.action /\ st.action \notin ToolActions
            \/ reply = "created" /\ st'.output = st.action
            \/ reply = "duplicate" /\ st'.output = "duplicate_blocked"
<1>1. /\ pc \in {"draft", "await"} /\ pc' = "close"
      /\ UNCHANGED <<svcVars, mcpVars, current>>
      /\ reply' = None
  <2>1. CASE DraftNothing \/ CallDeadServer
    BY <2>1, InvFacts DEF DraftNothing, CallDeadServer, DraftError, ReportsShape
  <2>2. CASE Timeout
    BY <2>2 DEF Timeout, DraftError
  <2>3. CASE ReceiveReply
    <3>1. reply \in {"created", "duplicate", "error"}
      BY <2>3, InvFacts DEF ReceiveReply, TypeOK
    <3> QED
      BY <2>3, <3>1 DEF ReceiveReply, DraftError
  <2> QED
    BY <2>1, <2>2, <2>3 DEF Answers
<1>2. current \in Cases /\ st \in AgentStates /\ st.output = None
  BY <1>1, InvFacts DEF ReportsShape
<1>3. TypeOK'
  BY TypeNext DEF DInv, Next, RequestStep, Answers
<1>4. st' # None
  BY <1>1, <1>3, NoneAssumption DEF TypeOK
<1>5. /\ SameDraft(st, st') /\ st'.status # "waiting_approval"
      /\ \/ st'.output = None
         \/ st'.output = st.action /\ st.action \notin ToolActions
         \/ reply = "created" /\ st'.output = st.action
         \/ reply = "duplicate" /\ st'.output = "duplicate_blocked"
  <2>1. CASE DraftNothing
    <3>1. PICK x \in {"manual_review", "closed"} :
            st' = [st EXCEPT !.output = st.action, !.status = x]
      BY <2>1 DEF DraftNothing
    <3>2. st.action \notin ToolActions
      BY <2>1 DEF DraftNothing
    <3>3. SameDraft(st, st') /\ st'.output = st.action /\ st'.status = x
      BY <1>2, <3>1 DEF SameDraft, AgentStates
    <3> QED
      BY <3>2, <3>3
  <2>2. ASSUME DraftError
        PROVE  SameDraft(st, st') /\ st'.status = "manual_review" /\ st'.output = None
    <3>1. st' = [st EXCEPT !.status = "manual_review"]
      BY <2>2 DEF DraftError
    <3> QED
      BY <1>2, <3>1, OutcomeKeepsDraft, OutcomeFields
  <2>3. CASE CallDeadServer \/ Timeout
    BY <2>2, <2>3 DEF CallDeadServer, Timeout
  <2>4. CASE ReceiveReply
    <3>1. CASE reply = "created"
      <4>1. st' = [st EXCEPT !.output = st.action, !.status = "draft_created"]
        BY <2>4, <3>1 DEF ReceiveReply
      <4>2. /\ SameDraft(st, st') /\ st'.output = st.action
            /\ st'.status = "draft_created"
        BY <1>2, <4>1 DEF SameDraft, AgentStates
      <4> QED
        BY <3>1, <4>2
    <3>2. CASE reply = "duplicate"
      <4>1. st' = [st EXCEPT !.output = "duplicate_blocked", !.status = "closed"]
        BY <2>4, <3>2 DEF ReceiveReply
      <4>2. /\ SameDraft(st, st') /\ st'.output = "duplicate_blocked"
            /\ st'.status = "closed"
        BY <1>2, <4>1 DEF SameDraft, AgentStates
      <4> QED
        BY <3>2, <4>2
    <3>3. CASE reply = "error"
      BY <2>2, <2>4, <3>3 DEF ReceiveReply
    <3> QED
      BY <2>4, <3>1, <3>2, <3>3, InvFacts DEF ReceiveReply, TypeOK
  <2> QED
    BY <2>1, <2>3, <2>4 DEF Answers
<1> QED
  BY <1>1, <1>2, <1>4, <1>5

\* The end of a request: its state is stored, the draft call it is about is the
\* same, and a case that was created and drafted something does not wait.
LEMMA FinishSteps ==
  ASSUME DInv, FinishCreate \/ FinishApprove
  PROVE  /\ pc = "close" /\ pc' = "idle"
         /\ UNCHANGED <<mcpVars, reply>>
         /\ current \in Cases /\ st \in AgentStates /\ current' = None
         /\ cases' = [cases EXCEPT ![current] = Closed(st)]
         /\ Closed(st) # None /\ SameDraft(st, Closed(st))
         /\ Closed(st).output = st.output
         /\ \A c \in pending' : c # current => c \in pending
         /\ current \in pending' => st.status = "waiting_approval"
<1>1. /\ pc = "close" /\ pc' = "idle" /\ UNCHANGED <<mcpVars, reply>>
      /\ current' = None /\ cases' = [cases EXCEPT ![current] = Closed(st)]
      /\ \A c \in pending' : c # current => c \in pending
      /\ current \in pending' => st.status = "waiting_approval"
  BY DEF FinishCreate, FinishApprove, EndRequest
<1>2. current \in Cases /\ st \in AgentStates
  BY <1>1, InvFacts
<1>3. Closed(st) \in AgentStates /\ Closed(st).output = st.output
  BY <1>2 DEF Closed, AgentStates, Statuses
<1> QED
  BY <1>1, <1>2, <1>3, OutcomeKeepsDraft, NoneAssumption

\* A decision begins with a case that has made no call.
LEMMA PendingHasNoCall ==
  ASSUME DInv, pc = "idle", NEW c \in pending
  PROVE  /\ c \in Cases /\ cases[c] \in AgentStates /\ cases[c].output = None
         /\ \A d \in DraftsAndCalls : d.case # c
<1>1. c \in Cases /\ cases[c] \in AgentStates
  BY PendingIsWaiting DEF DInv
<1>2. cases[c].output = None
  BY InvFacts DEF ReportsShape
<1>3. \A d \in DraftsAndCalls : d.case # c
  BY <1>1, InvFacts DEF CallsOfCases
<1> QED
  BY <1>1, <1>2, <1>3

\* What changes only the records of the world, or nothing.
Elsewhere == UNCHANGED <<svcVars, reqVars, mcpVars>>

\* Every step is of one of these kinds.
LEMMA StepKinds ==
  ASSUME [Next]_vars
  PROVE  \/ \E c \in Cases, m \in Complaints : CreateCase(c, m)
         \/ Reads \/ Decide
         \/ Answers
         \/ SendDraftCall
         \/ FinishCreate \/ FinishApprove
         \/ \E c \in Cases : Approve(c)
         \/ \E c \in Cases : Reject(c)
         \/ HandleDraftCall
         \/ Crash
         \/ Elsewhere
<1>1. ASSUME NEW t \in Txns, RefundMoves(t) \/ ProviderMoves(t) \/ BankMoves(t)
      PROVE  Elsewhere
  BY <1>1 DEF RefundMoves, ProviderMoves, BankMoves, SetWorld, Elsewhere
<1>2. UNCHANGED vars => Elsewhere
  BY DEF vars, Elsewhere
<1> QED
  BY <1>1, <1>2 DEF Next, RequestStep, Reads, Answers

-----------------------------------------------------------------------------
(* CallsOfCases *)

\* A step that adds no call keeps the calls with their cases, if the cases that
\* made one keep what it depends on and do not come to wait for a person.
LEMMA CallsKept ==
  ASSUME DInv, UNCHANGED <<queue, drafts>>,
         \A c \in Cases :
           (\E d \in DraftsAndCalls : d.case = c) =>
             /\ StateOf(c)' # None
             /\ SameDraft(StateOf(c), StateOf(c)')
             /\ c = current' =>
                  pc' = "await" \/ (pc' = "close" /\ st'.status # "waiting_approval")
             /\ c \in pending' => c = current'
  PROVE  CallsOfCases'
<1>1. DraftsAndCalls' = DraftsAndCalls
  BY DEF DraftsAndCalls
<1>2. ASSUME NEW d \in DraftsAndCalls
      PROVE  /\ StateOf(d.case)' # None
             /\ d = DraftCall(d.case, StateOf(d.case)')
             /\ d.case = current' =>
                  pc' = "await" \/ (pc' = "close" /\ st'.status # "waiting_approval")
             /\ d.case \in pending' => d.case = current'
  <2> DEFINE c == d.case
  <2>1. c \in Cases /\ d = DraftCall(c, StateOf(c))
    BY InvFacts DEF CallsOfCases
  <2>2. SameDraft(StateOf(c), StateOf(c)')
    BY <2>1
  <2>3. DraftCall(c, StateOf(c)') = DraftCall(c, StateOf(c))
    BY <2>2, SameDraftCall
  <2> QED
    BY <2>1, <2>3
<1> QED
  BY <1>1, <1>2, InvFacts DEF CallsOfCases, DraftCall, DraftAmount, DebitAmount

LEMMA CallsNext == DInv /\ [Next]_vars => CallsOfCases'
<1> SUFFICES ASSUME DInv, [Next]_vars PROVE CallsOfCases'
  OBVIOUS
<1> USE NoneAssumption
<1>1. ASSUME NEW c \in Cases, NEW m \in Complaints, CreateCase(c, m)
      PROVE  CallsOfCases'
  <2>1. current = None /\ current' = c /\ UNCHANGED <<cases, pending, queue, drafts>>
    BY <1>1, InvFacts DEF CreateCase, svcVars, mcpVars
  <2>2. StateOf(c) = None
    BY <1>1, <2>1 DEF CreateCase, StateOf
  <2>3. \A x \in Cases \ {c} : StateOf(x)' = StateOf(x)
    BY <2>1 DEF StateOf
  <2>4. \A d \in DraftsAndCalls : d.case # c /\ StateOf(d.case) # None /\ d.case \notin pending
    BY <2>1, <2>2, InvFacts DEF CallsOfCases
  <2> QED
    BY <2>1, <2>3, <2>4, CallsKept DEF SameDraft
<1>2. CASE Reads \/ Decide
  <2>1. /\ pc \in EarlyPCs /\ UNCHANGED <<cases, pending, current, queue, drafts>>
    BY <1>2, EarlySteps DEF svcVars, mcpVars
  <2>2. \A d \in DraftsAndCalls : d.case # current /\ d.case \notin pending
    BY <2>1, InvFacts DEF CallsOfCases, EarlyPCs
  <2>3. \A x \in Cases : x # current => StateOf(x)' = StateOf(x)
    BY <2>1 DEF StateOf
  <2> QED
    BY <2>1, <2>2, <2>3, CallsKept, InvFacts DEF SameDraft, CallsOfCases
<1>3. CASE Answers
  <2>1. /\ UNCHANGED <<cases, pending, current, queue, drafts>>
        /\ pc' = "close" /\ st'.status # "waiting_approval" /\ st' # None
        /\ SameDraft(st, st')
    BY <1>3, AnswerSteps DEF svcVars, mcpVars
  <2>2. StateOf(current) = st /\ StateOf(current)' = st'
    BY DEF StateOf
  <2>3. \A x \in Cases : x # current => StateOf(x)' = StateOf(x)
    BY <2>1 DEF StateOf
  <2>4. \A d \in DraftsAndCalls : StateOf(d.case) # None /\ (d.case \in pending => d.case = current)
    BY InvFacts DEF CallsOfCases
  <2> QED
    BY <2>1, <2>2, <2>3, <2>4, CallsKept DEF SameDraft
<1>4. CASE SendDraftCall
  <2> DEFINE d0 == DraftCall(current, st)
  <2>1. /\ pc = "draft" /\ pc' = "await" /\ UNCHANGED <<cases, pending, current, st, drafts>>
        /\ queue' = Append(queue, d0)
    BY <1>4 DEF SendDraftCall, svcVars
  <2>2. current \in Cases /\ st # None /\ d0.case = current
    BY <2>1, InvFacts DEF DraftCall
  <2>3. \A d \in DraftsAndCalls : d.case # current
    BY <2>1, InvFacts DEF CallsOfCases
  <2>4. \A c : StateOf(c)' = StateOf(c)
    BY <2>1 DEF StateOf
  <2>5. StateOf(current) = st
    BY DEF StateOf
  <2>6. queue \in Seq(DraftCalls)
    BY InvFacts
  <2> HIDE DEF d0
  <2>7. /\ DOMAIN queue' = DOMAIN queue \cup {Len(queue) + 1}
        /\ \A i \in DOMAIN queue : queue'[i] = queue[i] /\ i # Len(queue) + 1
        /\ queue'[Len(queue) + 1] = d0
    BY <2>1, <2>6
  <2>8. /\ DraftsAndCalls' \subseteq DraftsAndCalls \cup {d0}
        /\ \A i \in DOMAIN queue : queue[i] \in DraftsAndCalls
        /\ drafts \subseteq DraftsAndCalls
    BY <2>1, <2>7 DEF DraftsAndCalls
  <2>9. ASSUME NEW d \in DraftsAndCalls'
        PROVE  /\ StateOf(d.case)' # None
               /\ d = DraftCall(d.case, StateOf(d.case)')
               /\ d.case = current' =>
                    pc' = "await" \/ (pc' = "close" /\ st'.status # "waiting_approval")
               /\ d.case \in pending' => d.case = current'
    <3>1. CASE d = d0
      BY <2>1, <2>2, <2>4, <2>5, <3>1 DEF d0
    <3>2. CASE d \in DraftsAndCalls
      BY <2>1, <2>4, <3>2, InvFacts DEF CallsOfCases
    <3> QED
      BY <2>8, <3>1, <3>2
  <2>10. \A i, j \in DOMAIN queue' : queue'[i].case = queue'[j].case => i = j
    BY <2>2, <2>3, <2>7, <2>8, InvFacts DEF CallsOfCases
  <2>11. \A i \in DOMAIN queue', d \in drafts' : queue'[i].case # d.case
    BY <2>1, <2>2, <2>3, <2>7, <2>8, InvFacts DEF CallsOfCases
  <2>12. \A d : DraftCall(d.case, StateOf(d.case)') = DraftCall(d.case, StateOf(d.case))'
    BY DEF DraftCall, DraftAmount, DebitAmount
  <2> QED
    BY <2>9, <2>10, <2>11, <2>12 DEF CallsOfCases
<1>5. CASE FinishCreate \/ FinishApprove
  <2>1. PICK c \in Cases : c = current
    BY <1>5, FinishSteps
  <2>2. /\ current' = None /\ UNCHANGED <<queue, drafts>> /\ pc = "close"
        /\ cases' = [cases EXCEPT ![c] = Closed(st)]
        /\ Closed(st) # None /\ SameDraft(st, Closed(st))
        /\ \A x \in pending' : x # c => x \in pending
        /\ c \in pending' => st.status = "waiting_approval"
    BY <1>5, <2>1, FinishSteps DEF mcpVars
  <2>3. cases \in [Cases -> Maybe(AgentStates)]
    BY InvFacts DEF TypeOK
  <2>4. StateOf(c) = st /\ StateOf(c)' = Closed(st)
    BY <2>1, <2>2, <2>3 DEF StateOf
  <2>5. \A x \in Cases \ {c} : StateOf(x)' = StateOf(x)
    BY <2>1, <2>2, <2>3 DEF StateOf
  <2>6. \A d \in DraftsAndCalls :
          /\ StateOf(d.case) # None
          /\ d.case = c => st.status # "waiting_approval"
          /\ d.case \in pending => d.case = c
    BY <2>1, <2>2, InvFacts DEF CallsOfCases
  <2> QED
    BY <2>2, <2>4, <2>5, <2>6, CallsKept DEF SameDraft
<1>6. ASSUME NEW c \in Cases, Approve(c) PROVE CallsOfCases'
  <2>1. /\ pc = "idle" /\ c \in pending /\ current = None /\ current' = c
        /\ UNCHANGED <<cases, pending, queue, drafts>>
    BY <1>6, InvFacts DEF Approve, GetPending, svcVars, mcpVars
  <2>2. \A x \in Cases \ {c} : StateOf(x)' = StateOf(x)
    BY <2>1 DEF StateOf
  <2>3. \A d \in DraftsAndCalls : d.case # c /\ StateOf(d.case) # None /\ d.case \notin pending
    BY <2>1, PendingHasNoCall, InvFacts DEF CallsOfCases
  <2> QED
    BY <2>1, <2>2, <2>3, CallsKept DEF SameDraft
<1>7. ASSUME NEW c \in Cases, Reject(c) PROVE CallsOfCases'
  <2>1. /\ pc = "idle" /\ c \in pending /\ current = None
        /\ UNCHANGED <<current, st, queue, drafts>> /\ pending' \subseteq pending
        /\ \A x \in Cases \ {c} : cases'[x] = cases[x]
    BY <1>7, InvFacts DEF Reject, GetPending, reqVars, mcpVars, TypeOK
  <2>2. \A x \in Cases \ {c} : StateOf(x)' = StateOf(x)
    BY <2>1 DEF StateOf
  <2>3. \A d \in DraftsAndCalls : d.case # c /\ StateOf(d.case) # None /\ d.case \notin pending
    BY <2>1, PendingHasNoCall, InvFacts DEF CallsOfCases
  <2> QED
    BY <2>1, <2>2, <2>3, CallsKept DEF SameDraft
<1>8. CASE HandleDraftCall
  <2>1. /\ UNCHANGED <<cases, pending, current, st, pc>>
        /\ queue # <<>> /\ queue' = Tail(queue)
        /\ drafts' \subseteq drafts \cup {Head(queue)}
    BY <1>8 DEF HandleDraftCall, Save, svcVars
  <2>2. queue \in Seq(DraftCalls)
    BY InvFacts
  <2>3. /\ 1 \in DOMAIN queue /\ Head(queue) = queue[1]
        /\ \A i \in DOMAIN queue' : /\ i + 1 \in DOMAIN queue /\ queue'[i] = queue[i + 1]
                                    /\ i \in Nat /\ i # 0
    BY <2>1, <2>2
  <2>4. DraftsAndCalls' \subseteq DraftsAndCalls
    BY <2>1, <2>3 DEF DraftsAndCalls
  <2>5. \A c : StateOf(c)' = StateOf(c)
    BY <2>1 DEF StateOf
  <2>6. \A d : DraftCall(d.case, StateOf(d.case))' = DraftCall(d.case, StateOf(d.case))
    BY <2>5 DEF DraftCall, DraftAmount, DebitAmount
  <2>7. \A i, j \in DOMAIN queue' : queue'[i].case = queue'[j].case => i = j
    <3> SUFFICES ASSUME NEW i \in DOMAIN queue', NEW j \in DOMAIN queue',
                        queue'[i].case = queue'[j].case
                 PROVE  i = j
      OBVIOUS
    <3>1. i + 1 = j + 1
      BY <2>3, InvFacts DEF CallsOfCases
    <3> QED
      BY <2>3, <3>1
  <2>8. \A i \in DOMAIN queue', d \in drafts' : queue'[i].case # d.case
    <3> SUFFICES ASSUME NEW i \in DOMAIN queue', NEW d \in drafts' PROVE queue'[i].case # d.case
      OBVIOUS
    <3>1. CASE d \in drafts
      BY <2>3, <3>1, InvFacts DEF CallsOfCases
    <3>2. CASE d = queue[1]
      <4>1. i + 1 # 1
        BY <2>3
      <4> QED
        BY <2>3, <3>2, <4>1, InvFacts DEF CallsOfCases
    <3> QED
      BY <2>1, <2>3, <3>1, <3>2
  <2> QED
    BY <2>1, <2>4, <2>5, <2>6, <2>7, <2>8, InvFacts DEF CallsOfCases
<1>9. CASE Crash
  BY <1>9 DEF Crash, CallsOfCases, DraftsAndCalls
<1>10. CASE Elsewhere
  <2>1. UNCHANGED <<cases, pending, current, st, pc, queue, drafts>>
    BY <1>10 DEF Elsewhere, svcVars, reqVars, mcpVars
  <2> QED
    BY <2>1, InvFacts
       DEF CallsOfCases, DraftsAndCalls, StateOf, DraftCall, DraftAmount, DebitAmount
<1> QED
  BY <1>1, <1>2, <1>3, <1>4, <1>5, <1>6, <1>7, <1>8, <1>9, <1>10, StepKinds

-----------------------------------------------------------------------------
(* MoneyKeysUnique *)

\* What the server answers: a money draft is created only with a positive amount
\* and under a free key, and called a duplicate only if the key is taken.
LEMMA ToolOutcomes ==
  ASSUME NEW d \in DraftCalls
  PROVE  /\ ToolOutcome(d) \in {"created", "duplicate", "error"}
         /\ d.action \in MoneyActions /\ ToolOutcome(d) = "created" =>
              d.amount > 0 /\ ~Stored(d)
         /\ ToolOutcome(d) = "duplicate" => d.action \in MoneyActions /\ Stored(d)
<1>1. ~IsDuplicateAction(d.action, None)
  BY NoneAssumption DEF IsDuplicateAction, RefundStatusValue
<1>2. d.amount \in Nat
  BY DEF DraftCalls
<1> QED
  BY <1>1, <1>2, SMT DEF ToolOutcome

\* What the server does with the first call of its queue.
LEMMA HandleFacts ==
  ASSUME DInv, HandleDraftCall
  PROVE  /\ UNCHANGED <<svcVars, pc, current, st, mcp>> /\ mcp = "up"
         /\ Head(queue) \in DraftsAndCalls
         /\ \A e \in drafts : e.case # Head(queue).case
         /\ drafts' = IF ToolOutcome(Head(queue)) = "created"
                      THEN Save(Head(queue)) ELSE drafts
         /\ reply' = IF pc = "await" /\ current = Head(queue).case
                     THEN ToolOutcome(Head(queue)) ELSE reply
<1>1. queue \in Seq(DraftCalls) /\ queue # <<>>
  BY InvFacts DEF HandleDraftCall
<1>2. 1 \in DOMAIN queue /\ Head(queue) = queue[1]
  BY <1>1
<1>3. Head(queue) \in DraftsAndCalls /\ \A e \in drafts : e.case # Head(queue).case
  BY <1>2, InvFacts DEF DraftsAndCalls, CallsOfCases
<1> QED
  BY <1>3 DEF HandleDraftCall

LEMMA KeysNext == DInv /\ [Next]_vars => MoneyKeysUnique'
<1> SUFFICES ASSUME DInv, [Next]_vars PROVE MoneyKeysUnique'
  OBVIOUS
<1>0. MoneyKeysUnique
  BY InvFacts
<1>1. CASE UNCHANGED drafts
  BY <1>0, <1>1 DEF MoneyKeysUnique, MoneyDrafts
<1>2. CASE HandleDraftCall
  <2> DEFINE d0 == Head(queue)
  <2>1. CASE ToolOutcome(d0) = "created"
    <3>1. drafts' = Save(d0)
      BY <1>2, <2>1, HandleFacts
    <3>2. d0.action \in MoneyActions => d0.amount > 0
      BY <1>2, <2>1, HandleFacts, InvFacts, ToolOutcomes
    <3> HIDE DEF d0
    <3>3. \A d \in drafts' : d = d0 \/ (d \in drafts /\ DraftKey(d) # DraftKey(d0))
      BY <3>1 DEF Save
    <3> QED
      BY <1>0, <3>2, <3>3 DEF MoneyKeysUnique, MoneyDrafts
  <2>2. CASE ToolOutcome(d0) # "created"
    BY <1>1, <1>2, <2>2, HandleFacts
  <2> QED
    BY <2>1, <2>2
<1>3. CASE Crash
  BY <1>3 DEF Crash, MoneyKeysUnique, MoneyDrafts
<1>4. HandleDraftCall \/ Crash \/ UNCHANGED drafts
  <2>1. Reads \/ Decide => UNCHANGED drafts
    BY EarlySteps DEF mcpVars
  <2>2. Answers => UNCHANGED drafts
    BY AnswerSteps DEF mcpVars
  <2>3. FinishCreate \/ FinishApprove => UNCHANGED drafts
    BY FinishSteps DEF mcpVars
  <2> QED
    BY <2>1, <2>2, <2>3, StepKinds
       DEF CreateCase, SendDraftCall, Approve, Reject, Elsewhere, mcpVars
<1> QED
  BY <1>1, <1>2, <1>3, <1>4

-----------------------------------------------------------------------------
(* EvidenceShape *)

LEMMA EvidenceNext == DInv /\ [Next]_vars => EvidenceShape'
<1> SUFFICES ASSUME DInv, [Next]_vars PROVE EvidenceShape'
  OBVIOUS
<1> USE NoneAssumption
<1>0. EvidenceShape
  BY InvFacts
<1>1. ASSUME NEW c \in Cases, NEW m \in Complaints, CreateCase(c, m)
      PROVE  EvidenceShape'
  <2>1. pc' = "close" \/ (pc' = "transaction" /\ st' = Intake(m))
    BY <1>1 DEF CreateCase
  <2> QED
    BY <2>1 DEF EvidenceShape, Intake
<1>2. CASE Reads
  <2>0. st \in AgentStates /\ st.action = None /\ current \in Cases
    BY <1>2, EarlySteps
  <2>1. CASE FetchTransaction
    <3>1. PICK found : /\ st' = [st EXCEPT !.evidence = [NoEvidence EXCEPT !.transaction = found]]
                       /\ found # None => found.user = Owner[st.txn]
      <4>1. PICK status : LET found == IF status = None THEN None
                                       ELSE [status |-> status, user |-> Owner[st.txn]]
                          IN st' = [st EXCEPT !.evidence = [NoEvidence EXCEPT !.transaction = found]]
        BY <2>1 DEF FetchTransaction
      <4> DEFINE found == IF status = None THEN None
                          ELSE [status |-> status, user |-> Owner[st.txn]]
      <4>2. found # None => found.user = Owner[st.txn]
        OBVIOUS
      <4> QED
        BY <4>1, <4>2
    <3>2. pc' \in {"ledger", "recon"}
      BY <2>1 DEF FetchTransaction
    <3>3. /\ st'.evidence.transaction = found /\ st'.txn = st.txn /\ st'.action = None
          /\ st'.evidence.train = None /\ st'.evidence.utility = None
      BY <2>0, <3>1 DEF AgentStates, NoEvidence
    <3> QED
      BY <3>1, <3>2, <3>3 DEF EvidenceShape
  <2>2. CASE FetchLedger
    <3>1. PICK r : st' = [st EXCEPT !.evidence.ledger = r]
      BY <2>2 DEF FetchLedger
    <3>2. /\ pc = "ledger" /\ pc' \in {"provider", "refund"}
          /\ pc' = "provider" => st.evidence.transaction # None
      BY <2>2 DEF FetchLedger
    <3>3. /\ st'.evidence.transaction = st.evidence.transaction
          /\ st'.txn = st.txn /\ st'.action = None
          /\ st'.evidence.train = st.evidence.train
          /\ st'.evidence.utility = st.evidence.utility
      BY <2>0, <3>1 DEF AgentStates, EvidenceBundles
    <3> QED
      BY <1>0, <3>2, <3>3 DEF EvidenceShape
  <2>3. CASE FetchProvider
    <3>1. PICK r : \/ st' = [st EXCEPT !.evidence.train = r]
                   \/ st' = [st EXCEPT !.evidence.utility = r]
      BY <2>3 DEF FetchProvider
    <3>2. pc = "provider" /\ pc' = "refund"
      BY <2>3 DEF FetchProvider
    <3>3. /\ st'.evidence.transaction = st.evidence.transaction
          /\ st'.txn = st.txn /\ st'.action = None
      BY <2>0, <3>1 DEF AgentStates, EvidenceBundles
    <3> QED
      BY <1>0, <3>2, <3>3 DEF EvidenceShape
  <2>4. CASE FetchRefund \/ FetchReconciliation
    <3>1. PICK r, w : \/ st' = [st EXCEPT !.evidence.refund = r]
                      \/ st' = [st EXCEPT !.evidence.recon = r, !.workflow = w]
      <4>1. CASE FetchRefund
        BY <4>1 DEF FetchRefund
      <4>2. CASE FetchReconciliation
        BY <4>2 DEF FetchReconciliation
      <4> QED
        BY <2>4, <4>1, <4>2
    <3>2. pc \in {"refund", "recon"} /\ pc' \in {"recon", "retry", "decide"}
      BY <2>4 DEF FetchRefund, FetchReconciliation
    <3> DEFINE Kept == /\ st'.evidence.transaction = st.evidence.transaction
                       /\ st'.txn = st.txn /\ st'.action = None
                       /\ st'.evidence.train = st.evidence.train
                       /\ st'.evidence.utility = st.evidence.utility
    <3>3. CASE st' = [st EXCEPT !.evidence.refund = r]
      <4>1. Kept
        BY <2>0, <3>3 DEF AgentStates, EvidenceBundles
      <4> QED
        BY <1>0, <3>2, <4>1 DEF EvidenceShape
    <3>4. CASE st' = [st EXCEPT !.evidence.recon = r, !.workflow = w]
      <4>1. Kept
        BY <2>0, <3>4 DEF AgentStates, EvidenceBundles
      <4> QED
        BY <1>0, <3>2, <4>1 DEF EvidenceShape
    <3> QED
      BY <3>1, <3>3, <3>4
  <2>5. CASE RetryOrDeadLetter
    <3>1. pc' = "close" \/ (pc' = "transaction" /\ UNCHANGED st)
      BY <2>5 DEF RetryOrDeadLetter
    <3> QED
      BY <2>0, <3>1 DEF EvidenceShape
  <2> QED
    BY <1>2, <2>1, <2>2, <2>3, <2>4, <2>5 DEF Reads
<1>3. CASE UNCHANGED <<pc, st>>
  BY <1>0, <1>3 DEF EvidenceShape
<1>4. CASE pc' \in {"idle", "draft", "await", "close"}
  BY <1>4 DEF EvidenceShape
<1>5. \/ \E c \in Cases, m \in Complaints : CreateCase(c, m)
      \/ Reads \/ UNCHANGED <<pc, st>> \/ pc' \in {"idle", "draft", "await", "close"}
  <2>1. Answers => pc' = "close"
    BY AnswerSteps
  <2>2. FinishCreate \/ FinishApprove => pc' = "idle"
    BY FinishSteps
  <2>3. Decide => pc' \in {"draft", "close"}
    BY DEF Decide
  <2> QED
    BY <2>1, <2>2, <2>3, StepKinds
       DEF SendDraftCall, Approve, Reject, HandleDraftCall, Crash, Elsewhere, reqVars
<1> QED
  BY <1>1, <1>2, <1>3, <1>4, <1>5

-----------------------------------------------------------------------------
(* StatesJustified *)

\* What the decision engines have seen when they ask for a refund or a force
\* success.
LEMMA DecisionsAreJustified ==
  ASSUME NEW w \in Workflows, NEW ev \in EvidenceBundles(Users)
  PROVE  /\ ApplyRules(w, ev, FALSE).action = "create_refund_request_draft" =>
              /\ WalletDebited(ev) /\ NoExistingRefund(ev.refund)
              /\ \/ ev.train # None /\ ProviderFailed(ev.train.status)
                 \/ ev.utility # None /\ ProviderFailed(ev.utility)
         /\ ApplyRules(w, ev, FALSE).action = "create_force_success_draft" =>
              /\ ev.transaction # None /\ ev.transaction.status = "pending"
              /\ ev.recon = [bank |-> "success", money |-> TRUE]
<1> DEFINE Asked(d) ==
             /\ d.action = "create_refund_request_draft" =>
                  /\ WalletDebited(ev) /\ NoExistingRefund(ev.refund)
                  /\ \/ ev.train # None /\ ProviderFailed(ev.train.status)
                     \/ ev.utility # None /\ ProviderFailed(ev.utility)
             /\ d.action = "create_force_success_draft" =>
                  /\ ev.transaction # None /\ ev.transaction.status = "pending"
                  /\ ev.recon # None
                  /\ ev.recon.bank = "success" /\ ev.recon.money = TRUE
<1>1. Asked(ManualReview) /\ Asked(Respond) /\ Asked(Reconcile) /\ Asked(WaitSla)
      /\ Asked(NoAction)
  BY DEF ManualReview, Respond, Reconcile, WaitSla, NoAction, Decision
<1>2. Refund.action = "create_refund_request_draft"
      /\ ForceSuccess.action = "create_force_success_draft"
  BY DEF Refund, ForceSuccess, Decision
<1>3. ASSUME ev.train # None, RefundEligible(ev, ev.train.status, FALSE)
      PROVE  Asked(Refund)
  BY <1>2, <1>3 DEF RefundEligible
<1>4. ASSUME ev.utility # None, RefundEligible(ev, ev.utility, FALSE)
      PROVE  Asked(Refund)
  BY <1>2, <1>4 DEF RefundEligible
<1>5. ASSUME ev.transaction # None, ev.transaction.status = "pending",
             ev.recon # None, ev.recon.bank = "success", ev.recon.money = TRUE
      PROVE  Asked(ForceSuccess)
  BY <1>2, <1>5
<1>6. Asked(DecideTrainTicket(ev, FALSE))
  <2> HIDE DEF Asked
  <2> QED
    BY <1>1, <1>3, Zenon DEF DecideTrainTicket
<1>7. Asked(DecideUtilityBill(ev, FALSE))
  <2> HIDE DEF Asked
  <2> QED
    BY <1>1, <1>4, Zenon DEF DecideUtilityBill
<1>8. Asked(DecideWalletTopup(ev, FALSE))
  <2> HIDE DEF Asked
  <2> QED
    BY <1>1, <1>5, Zenon DEF DecideWalletTopup
<1>9. Asked(ApplyRules(w, ev, FALSE))
  <2> HIDE DEF Asked
  <2> QED
    BY <1>6, <1>7, <1>8 DEF ApplyRules, Workflows
<1>10. ev.recon # None /\ ev.recon.bank = "success" /\ ev.recon.money = TRUE
         => ev.recon = [bank |-> "success", money |-> TRUE]
  <2>1. ev.recon \in Maybe(Reconciliations)
    BY DEF EvidenceBundles
  <2>2. ev.recon # None => ev.recon = [bank |-> ev.recon.bank, money |-> ev.recon.money]
    BY <2>1 DEF Reconciliations, Maybe
  <2> QED
    BY <2>2
<1> QED
  BY <1>9, <1>10

\* The state the approval gate leaves rests on its evidence.
LEMMA DecideJustifies == DInv /\ Decide => Justified(st')
<1> SUFFICES ASSUME DInv, Decide PROVE Justified(st')
  OBVIOUS
<1> USE NoneAssumption
<1>0. st \in AgentStates /\ pc = "decide"
  BY EarlySteps DEF Decide
<1>1. CASE HasConflict(st.evidence, st.user) \/ st.workflow = None
  <2>1. st' = [st EXCEPT !.status = "manual_review", !.action = "manual_review",
                         !.output = "manual_review"]
    BY <1>1 DEF Decide
  <2>2. st'.action = "manual_review"
    BY <1>0, <2>1 DEF AgentStates
  <2> QED
    BY <2>2 DEF Justified, MoneyActions
<1>2. CASE ~HasConflict(st.evidence, st.user) /\ st.workflow # None
  <2> DEFINE d == ApplyRules(st.workflow, st.evidence, FALSE)
             ev == st.evidence
  <2>1. PICK x, y, z :
          \/ st' = [st EXCEPT !.status = x, !.action = d.action, !.packet = y, !.approval = z]
          \/ st' = [st EXCEPT !.status = x, !.action = d.action]
    <3>1. CASE d.approval
      <4>1. st' = [st EXCEPT !.status = "waiting_approval", !.action = d.action,
                             !.packet = DebitAmount(st), !.approval = "pending"]
        BY <1>2, <3>1 DEF Decide
      <4> QED
        BY <4>1
    <3>2. CASE ~d.approval
      <4>1. st' = [st EXCEPT !.status = "draft_created", !.action = d.action]
        BY <1>2, <3>2 DEF Decide
      <4> QED
        BY <4>1
    <3> QED
      BY <3>1, <3>2
  <2>2. st.workflow \in Workflows /\ ev \in EvidenceBundles(Users)
    BY <1>0, <1>2 DEF AgentStates, Maybe
  <2> HIDE DEF d
  <2>3. /\ st'.action = d.action /\ st'.txn = st.txn /\ st'.user = st.user
        /\ st'.evidence = ev
    <3>1. CASE st' = [st EXCEPT !.status = x, !.action = d.action, !.packet = y, !.approval = z]
      BY <1>0, <3>1 DEF AgentStates
    <3>2. CASE st' = [st EXCEPT !.status = x, !.action = d.action]
      BY <1>0, <3>2 DEF AgentStates
    <3> QED
      BY <2>1, <3>1, <3>2
  <2>4. /\ d.action = "create_refund_request_draft" =>
              /\ WalletDebited(ev) /\ NoExistingRefund(ev.refund)
              /\ \/ ev.train # None /\ ProviderFailed(ev.train.status)
                 \/ ev.utility # None /\ ProviderFailed(ev.utility)
        /\ d.action = "create_force_success_draft" =>
              /\ ev.transaction # None /\ ev.transaction.status = "pending"
              /\ ev.recon = [bank |-> "success", money |-> TRUE]
    BY <2>2, DecisionsAreJustified DEF d
  <2>5. /\ ev.transaction # None => ev.transaction.user = Owner[st.txn]
        /\ ev.train # None \/ ev.utility # None => ev.transaction # None
    BY <1>0, InvFacts DEF EvidenceShape
  <2>6. d.action \in MoneyActions => ev.transaction # None
    BY <2>4, <2>5 DEF MoneyActions
  <2>7. ev.transaction # None => st.user \in {None, Owner[st.txn]}
    BY <1>2, <2>5 DEF HasConflict, UserOwnership
  <2> HIDE DEF ev
  <2>8. ~HasConflict(st'.evidence, st'.user)
    BY <1>2, <2>3 DEF ev
  <2> QED
    BY <2>3, <2>4, <2>6, <2>7, <2>8 DEF Justified
<1> QED
  BY <1>1, <1>2

LEMMA JustifiedNext == DInv /\ [Next]_vars => StatesJustified'
<1> SUFFICES ASSUME DInv, [Next]_vars, NEW c \in Cases, StateOf(c)' # None
             PROVE  Justified(StateOf(c)')
  BY DEF StatesJustified, Justified
<1> USE NoneAssumption
<1>0. StateOf(c) # None => Justified(StateOf(c))
  BY InvFacts DEF StatesJustified
<1>1. CASE SameDraft(StateOf(c), StateOf(c)') /\ StateOf(c) # None
  BY <1>0, <1>1, SameDraftCall
<1>2. CASE StateOf(c)' = StateOf(c)
  BY <1>0, <1>2 DEF SameDraft
<1>3. ASSUME StateOf(c)'.action = None
      PROVE  Justified(StateOf(c)')
  BY <1>3 DEF Justified, MoneyActions, ActionType
<1>4. ASSUME NEW x \in Cases, NEW m \in Complaints, CreateCase(x, m)
      PROVE  Justified(StateOf(c)')
  <2>1. current = None /\ current' = x /\ UNCHANGED cases
    BY <1>4, InvFacts DEF CreateCase, svcVars
  <2>2. CASE c # x
    BY <1>2, <2>1, <2>2 DEF StateOf
  <2>3. CASE c = x
    <3>1. StateOf(c)' = st'
      BY <2>1, <2>3 DEF StateOf
    <3>2. st' = Intake(m) \/ st' = [Intake(m) EXCEPT !.status = "dead_letter"]
      BY <1>4 DEF CreateCase
    <3>3. st'.action = None
      BY <3>2 DEF Intake
    <3> QED
      BY <1>3, <3>1, <3>3
  <2> QED
    BY <2>2, <2>3
<1>5. CASE Reads \/ Decide
  <2>1. current' = current /\ UNCHANGED cases /\ pc \in EarlyPCs /\ st.action = None
    BY <1>5, EarlySteps DEF svcVars
  <2>2. CASE c # current
    BY <1>2, <2>1, <2>2 DEF StateOf
  <2>3. CASE c = current
    <3>1. StateOf(c)' = st'
      BY <2>1, <2>3 DEF StateOf
    <3>2. CASE Decide
      BY <3>1, <3>2, DecideJustifies
    <3>3. CASE Reads
      <4>1. CASE RetryOrDeadLetter
        <5>1. st' = st \/ st' = [st EXCEPT !.status = "dead_letter"]
          BY <4>1 DEF RetryOrDeadLetter
        <5>2. st'.action = None
          BY <1>5, <2>1, <5>1, EarlySteps DEF AgentStates
        <5> QED
          BY <1>3, <3>1, <5>2
      <4>2. CASE ~RetryOrDeadLetter
        <5>1. pc' \in {"ledger", "provider", "refund", "recon", "retry", "decide"}
          BY <3>3, <4>2 DEF Reads, FetchTransaction, FetchLedger, FetchProvider,
                            FetchRefund, FetchReconciliation
        <5>2. st'.action = None
          BY <5>1, EvidenceNext DEF EvidenceShape
        <5> QED
          BY <1>3, <3>1, <5>2
      <4> QED
        BY <4>1, <4>2
    <3> QED
      BY <1>5, <3>2, <3>3
  <2> QED
    BY <2>2, <2>3
<1>6. CASE Answers
  <2>1. UNCHANGED <<cases, current>> /\ SameDraft(st, st') /\ st # None
    BY <1>6, AnswerSteps, InvFacts DEF svcVars
  <2>2. CASE c # current
    BY <1>2, <2>1, <2>2 DEF StateOf
  <2>3. CASE c = current
    BY <1>1, <2>1, <2>3 DEF StateOf
  <2> QED
    BY <2>2, <2>3
<1>7. CASE FinishCreate \/ FinishApprove
  <2>1. /\ cases' = [cases EXCEPT ![current] = Closed(st)] /\ current' = None
        /\ SameDraft(st, Closed(st)) /\ st # None /\ current \in Cases
    BY <1>7, FinishSteps, InvFacts
  <2>2. cases \in [Cases -> Maybe(AgentStates)]
    BY InvFacts DEF TypeOK
  <2>3. CASE c # current
    BY <1>2, <2>1, <2>2, <2>3 DEF StateOf
  <2>4. CASE c = current
    <3>1. StateOf(c) = st /\ StateOf(c)' = Closed(st)
      BY <2>1, <2>2, <2>4 DEF StateOf
    <3> QED
      BY <1>1, <2>1, <3>1
  <2> QED
    BY <2>3, <2>4
<1>8. ASSUME NEW x \in Cases, Approve(x) PROVE Justified(StateOf(c)')
  <2>1. /\ pc = "idle" /\ x \in pending /\ current = None /\ current' = x
        /\ UNCHANGED cases /\ st' = [cases[x] EXCEPT !.approval = "approved"]
    BY <1>8, InvFacts DEF Approve, GetPending, svcVars
  <2>2. CASE c # x
    BY <1>2, <2>1, <2>2 DEF StateOf
  <2>3. CASE c = x
    <3>1. cases[x] \in AgentStates /\ cases[x] # None
      BY <2>1, PendingHasNoCall
    <3>2. SameDraft(cases[x], st')
      BY <2>1, <3>1, OutcomeKeepsDraft
    <3>3. StateOf(c) = cases[x] /\ StateOf(c)' = st'
      BY <2>1, <2>3 DEF StateOf
    <3> QED
      BY <1>1, <3>1, <3>2, <3>3
  <2> QED
    BY <2>2, <2>3
<1>9. ASSUME NEW x \in Cases, Reject(x) PROVE Justified(StateOf(c)')
  <2>1. /\ pc = "idle" /\ x \in pending /\ current = None /\ current' = None
        /\ cases' = [cases EXCEPT ![x].approval = "rejected",
                                  ![x].output = "rejected",
                                  ![x].status = "closed"]
    BY <1>9, InvFacts DEF Reject, GetPending, reqVars
  <2>2. cases \in [Cases -> Maybe(AgentStates)]
    BY InvFacts DEF TypeOK
  <2>3. CASE c # x
    BY <1>2, <2>1, <2>2, <2>3 DEF StateOf
  <2>4. CASE c = x
    <3>1. cases[x] \in AgentStates /\ cases[x] # None
      BY <2>1, PendingHasNoCall
    <3>2. cases'[x] = [cases[x] EXCEPT !.approval = "rejected", !.output = "rejected",
                                       !.status = "closed"]
      BY <2>1, <2>2
    <3>3. SameDraft(cases[x], cases'[x])
      BY <3>1, <3>2 DEF SameDraft, AgentStates
    <3>4. StateOf(c) = cases[x] /\ StateOf(c)' = cases'[x]
      BY <2>1, <2>4 DEF StateOf
    <3> QED
      BY <1>1, <3>1, <3>3, <3>4
  <2> QED
    BY <2>3, <2>4
<1>10. CASE UNCHANGED <<cases, current, st>>
  BY <1>2, <1>10 DEF StateOf
<1>11. SendDraftCall \/ HandleDraftCall \/ Crash \/ Elsewhere => UNCHANGED <<cases, current, st>>
  BY DEF SendDraftCall, HandleDraftCall, Crash, Elsewhere, svcVars, reqVars
<1> QED
  BY <1>4, <1>5, <1>6, <1>7, <1>8, <1>9, <1>10, <1>11, StepKinds

-----------------------------------------------------------------------------
(* ReportsShape *)

\* The outputs that say something about a draft.
TellingOutputs == MoneyActions \cup {"draft_customer_response", "duplicate_blocked"}

LEMMA ReportsSame ==
  ASSUME NEW D, NEW c, NEW s, NEW t, SameDraft(s, t), t.output = s.output,
         Reports(D, c, s)
  PROVE  Reports(D, c, t)
BY SameDraftCall DEF Reports, SameDraft

LEMMA ReportsNothing ==
  ASSUME NEW D, NEW c, NEW s, s.output \notin TellingOutputs
  PROVE  Reports(D, c, s)
BY DEF Reports, TellingOutputs, MoneyActions

LEMMA SilentOutputs ==
  /\ None \notin TellingOutputs
  /\ "manual_review" \notin TellingOutputs /\ "rejected" \notin TellingOutputs
<1>1. None \notin ActionType /\ None # "duplicate_blocked"
  BY NoneAssumption
<1> QED
  BY <1>1 DEF TellingOutputs, MoneyActions, ActionType

\* The parts of ReportsShape, one step later.
LEMMA ReportsFrom ==
  ASSUME pc' # "idle" /\ (pc' = "close" => st'.status = "waiting_approval")
           => st'.output = None,
         \A c \in pending' : cases'[c].output = None,
         pc' # "await" => reply' = None,
         mcp' = "up" =>
           /\ \A c \in Cases : StateOf(c)' # None => Reports(drafts', c, StateOf(c)')
           /\ reply' = "created" =>
                Reports(drafts', current', [st' EXCEPT !.output = st'.action])
           /\ reply' = "duplicate" =>
                Reports(drafts', current', [st' EXCEPT !.output = "duplicate_blocked"])
  PROVE  ReportsShape'
BY DEF ReportsShape, Reports, DraftCall, DraftAmount, DebitAmount

LEMMA ReadsReportNothing == DInv /\ Reads => st'.output = None
<1> SUFFICES ASSUME DInv, Reads PROVE st'.output = None
  OBVIOUS
<1>0. st \in AgentStates /\ st.output = None
  BY EarlySteps
<1>1. CASE FetchTransaction
  <2>1. PICK e : st' = [st EXCEPT !.evidence = e]
    BY <1>1 DEF FetchTransaction
  <2> QED
    BY <1>0, <2>1 DEF AgentStates
<1>2. CASE FetchLedger
  <2>1. PICK r : st' = [st EXCEPT !.evidence.ledger = r]
    BY <1>2 DEF FetchLedger
  <2> QED
    BY <1>0, <2>1 DEF AgentStates
<1>3. CASE FetchProvider
  <2>1. PICK r : \/ st' = [st EXCEPT !.evidence.train = r]
                 \/ st' = [st EXCEPT !.evidence.utility = r]
    BY <1>3 DEF FetchProvider
  <2> QED
    BY <1>0, <2>1 DEF AgentStates
<1>4. CASE FetchRefund
  <2>1. PICK r : st' = [st EXCEPT !.evidence.refund = r]
    BY <1>4 DEF FetchRefund
  <2> QED
    BY <1>0, <2>1 DEF AgentStates
<1>5. CASE FetchReconciliation
  <2>1. PICK r, w : st' = [st EXCEPT !.evidence.recon = r, !.workflow = w]
    BY <1>5 DEF FetchReconciliation
  <2> QED
    BY <1>0, <2>1 DEF AgentStates
<1>6. CASE RetryOrDeadLetter
  <2>1. st' = st \/ st' = [st EXCEPT !.status = "dead_letter"]
    BY <1>6 DEF RetryOrDeadLetter
  <2> QED
    BY <1>0, <2>1 DEF AgentStates
<1> QED
  BY <1>1, <1>2, <1>3, <1>4, <1>5, <1>6 DEF Reads

\* The decision reports at most a manual review, and then the case closes.
LEMMA DecideReports ==
  ASSUME DInv, Decide
  PROVE  \/ st'.output = None
         \/ pc' = "close" /\ st'.output = "manual_review" /\ st'.status = "manual_review"
<1>0. st \in AgentStates /\ st.output = None
  BY EarlySteps
<1>1. PICK a, p :
        \/ /\ st' = [st EXCEPT !.status = "manual_review", !.action = "manual_review",
                               !.output = "manual_review"]
           /\ pc' = "close"
        \/ st' = [st EXCEPT !.status = "waiting_approval", !.action = a,
                            !.packet = p, !.approval = "pending"]
        \/ st' = [st EXCEPT !.status = "draft_created", !.action = a]
  BY DEF Decide
<1>2. CASE /\ st' = [st EXCEPT !.status = "manual_review", !.action = "manual_review",
                                !.output = "manual_review"]
           /\ pc' = "close"
  BY <1>0, <1>2 DEF AgentStates
<1>3. CASE st' = [st EXCEPT !.status = "waiting_approval", !.action = a,
                            !.packet = p, !.approval = "pending"]
  BY <1>0, <1>3 DEF AgentStates
<1>4. CASE st' = [st EXCEPT !.status = "draft_created", !.action = a]
  BY <1>0, <1>4 DEF AgentStates
<1> QED
  BY <1>1, <1>2, <1>3, <1>4

\* What the server stores and answers keeps every report true: a stored draft
\* that a case reports is not overwritten, and the answer is what happened.
LEMMA HandleKeepsReports ==
  ASSUME DInv, HandleDraftCall, NEW c, NEW s, Reports(drafts, c, s)
  PROVE  Reports(drafts', c, s)
<1> DEFINE d0 == Head(queue)
<1>1. /\ d0 \in DraftCalls /\ d0 = DraftCall(d0.case, StateOf(d0.case))
      /\ \A e \in drafts : e.case # d0.case
      /\ drafts' = IF ToolOutcome(d0) = "created" THEN Save(d0) ELSE drafts
  BY HandleFacts, InvFacts DEF CallsOfCases
<1>2. ToolOutcome(d0) = "created" /\ d0.action \in MoneyActions => ~Stored(d0)
  BY <1>1, ToolOutcomes
<1> HIDE DEF d0
<1>3. ASSUME NEW e \in drafts,
             e.action \in MoneyActions \cup {"draft_customer_response"}
      PROVE  e \in drafts'
  <2>1. CASE e.action \in MoneyActions
    <3>1. CASE ToolOutcome(d0) = "created" /\ d0.action \in MoneyActions
      <4>1. DraftKey(e) # DraftKey(d0)
        BY <1>2, <3>1 DEF Stored
      <4> QED
        BY <1>1, <3>1, <4>1 DEF Save
    <3>2. CASE ToolOutcome(d0) = "created" /\ d0.action \notin MoneyActions
      <4>1. DraftKey(e) # DraftKey(d0)
        BY <2>1, <3>2, MoneyKeysAreTheirOwn
      <4> QED
        BY <1>1, <3>2, <4>1 DEF Save
    <3>3. CASE ToolOutcome(d0) # "created"
      BY <1>1, <3>3
    <3> QED
      BY <3>1, <3>2, <3>3
  <2>2. CASE e.action = "draft_customer_response"
    <3>1. DraftKey(e) = <<e.case, "draft_customer_response", 0>>
      BY <2>2 DEF DraftKey, IdempotencyKey
    <3>2. DraftKey(e) # DraftKey(d0)
      <4>1. CASE d0.action = "draft_customer_response"
        <5>1. DraftKey(d0) = <<d0.case, "draft_customer_response", 0>>
          BY <4>1 DEF DraftKey, IdempotencyKey
        <5> QED
          BY <1>1, <3>1, <5>1
      <4>2. CASE d0.action # "draft_customer_response"
        <5>1. DraftKey(d0) = <<d0.txn, d0.action, d0.amount>>
          BY <4>2 DEF DraftKey, IdempotencyKey
        <5> QED
          BY <3>1, <4>2, <5>1
      <4> QED
        BY <4>1, <4>2
    <3> QED
      BY <1>1, <3>2 DEF Save
  <2> QED
    BY <1>3, <2>1, <2>2
<1>4. DraftCall(c, s).action = s.action
  BY DEF DraftCall
<1> QED
  BY <1>3, <1>4 DEF Reports

\* The answer to the call of the request in progress.
LEMMA HandleAnswers ==
  ASSUME DInv, HandleDraftCall, pc = "await", current = Head(queue).case
  PROVE  /\ reply' = "created" =>
              Reports(drafts', current, [st EXCEPT !.output = st.action])
         /\ reply' = "duplicate" =>
              Reports(drafts', current, [st EXCEPT !.output = "duplicate_blocked"])
<1> DEFINE d0 == Head(queue)
<1>1. /\ d0 \in DraftCalls /\ d0 = DraftCall(d0.case, StateOf(d0.case))
      /\ \A e \in drafts : e.case # d0.case
      /\ drafts' = IF ToolOutcome(d0) = "created" THEN Save(d0) ELSE drafts
      /\ reply' = ToolOutcome(d0)
  BY HandleFacts, InvFacts DEF CallsOfCases
<1>2. st \in AgentStates
  BY InvFacts
<1>3. d0 = DraftCall(current, st)
  BY <1>1 DEF StateOf
<1>4. \A x : /\ DraftCall(current, [st EXCEPT !.output = x]) = d0
             /\ [st EXCEPT !.output = x].output = x
             /\ [st EXCEPT !.output = x].action = st.action
  BY <1>2, <1>3 DEF DraftCall, DraftAmount, DebitAmount, AgentStates
<1>5. ToolOutcome(d0) = "duplicate" => d0.action \in MoneyActions /\ Stored(d0)
  BY <1>1, ToolOutcomes
<1>6. d0.case = current
  OBVIOUS
<1> HIDE DEF d0
<1>7. ASSUME reply' = "created"
      PROVE  Reports(drafts', current, [st EXCEPT !.output = st.action])
  <2>1. d0 \in drafts'
    BY <1>1, <1>7 DEF Save
  <2>2. st.action # "duplicate_blocked"
    <3>1. None # "duplicate_blocked" /\ st.action \in Maybe(ActionType)
      BY <1>2, NoneAssumption DEF AgentStates
    <3> QED
      BY <3>1 DEF ActionType, Maybe
  <2> QED
    BY <1>4, <2>1, <2>2 DEF Reports
<1>8. ASSUME reply' = "duplicate"
      PROVE  Reports(drafts', current, [st EXCEPT !.output = "duplicate_blocked"])
  <2>1. drafts' = drafts
    BY <1>1, <1>8
  <2>2. PICK e \in drafts : DraftKey(e) = DraftKey(d0)
    BY <1>1, <1>5, <1>8 DEF Stored
  <2>3. e.case # current /\ d0.action \in MoneyActions
    BY <1>1, <1>5, <1>6, <1>8
  <2>4. e.action \in MoneyActions
    BY <2>2, <2>3, MoneyKeysAreTheirOwn
  <2>5. "duplicate_blocked" \notin MoneyActions \cup {"draft_customer_response"}
    BY DEF MoneyActions
  <2> QED
    BY <1>4, <2>1, <2>2, <2>3, <2>4, <2>5 DEF Reports
<1> QED
  BY <1>7, <1>8

LEMMA ReportsNext == DInv /\ [Next]_vars => ReportsShape'
<1> SUFFICES ASSUME DInv, [Next]_vars PROVE ReportsShape'
  OBVIOUS
<1> USE NoneAssumption
<1>0. /\ pc # "idle" /\ (pc = "close" => st.status = "waiting_approval") => st.output = None
      /\ \A c \in pending : cases[c].output = None
      /\ pc # "await" => reply = None
      /\ mcp = "up" =>
           /\ \A c \in Cases : StateOf(c) # None => Reports(drafts, c, StateOf(c))
           /\ reply = "created" =>
                Reports(drafts, current, [st EXCEPT !.output = st.action])
           /\ reply = "duplicate" =>
                Reports(drafts, current, [st EXCEPT !.output = "duplicate_blocked"])
  BY InvFacts DEF ReportsShape
<1>1. ASSUME NEW x \in Cases, NEW m \in Complaints, CreateCase(x, m)
      PROVE  ReportsShape'
  <2>1. /\ pc = "idle" /\ current = None /\ current' = x
        /\ UNCHANGED <<cases, pending, reply, mcp, drafts>>
        /\ st' = Intake(m) \/ st' = [Intake(m) EXCEPT !.status = "dead_letter"]
    BY <1>1, InvFacts DEF CreateCase, svcVars, mcpVars
  <2>2. st'.output = None
    BY <2>1 DEF Intake
  <2>3. StateOf(x)' = st' /\ \A c \in Cases \ {x} : StateOf(c)' = StateOf(c)
    BY <2>1 DEF StateOf
  <2>4. Reports(drafts, x, st')
    BY <2>2, ReportsNothing, SilentOutputs
  <2> QED
    BY <1>0, <2>1, <2>2, <2>3, <2>4, ReportsFrom
<1>2. CASE Reads \/ Decide
  <2>1. /\ pc \in EarlyPCs /\ pc' \in EarlyPCs \cup {"draft", "close"}
        /\ UNCHANGED <<cases, pending, current, reply, mcp, drafts>>
    BY <1>2, EarlySteps DEF svcVars, mcpVars
  <2>2. \/ st'.output = None
        \/ pc' = "close" /\ st'.output = "manual_review" /\ st'.status = "manual_review"
    BY <1>2, ReadsReportNothing, DecideReports
  <2>3. \A c \in Cases : StateOf(c)' = IF c = current THEN st' ELSE StateOf(c)
    BY <2>1 DEF StateOf
  <2>4. Reports(drafts, current, st')
    BY <2>2, ReportsNothing, SilentOutputs
  <2>5. reply = None
    BY <1>0, <2>1 DEF EarlyPCs
  <2>6. pc' = "close" /\ st'.status = "waiting_approval" => st'.output = None
    BY <2>2
  <2>7. \A c \in Cases : StateOf(c)' # None /\ mcp = "up" => Reports(drafts, c, StateOf(c)')
    BY <1>0, <2>3, <2>4
  <2> QED
    BY <1>0, <2>1, <2>2, <2>5, <2>6, <2>7, ReportsFrom
<1>3. CASE Answers
  <2>1. /\ pc \in {"draft", "await"} /\ pc' = "close" /\ reply' = None
        /\ UNCHANGED <<cases, pending, current, mcp, drafts>>
        /\ SameDraft(st, st') /\ st'.status # "waiting_approval" /\ st \in AgentStates
        /\ \/ st'.output = None
           \/ st'.output = st.action /\ st.action \notin ToolActions
           \/ reply = "created" /\ st'.output = st.action
           \/ reply = "duplicate" /\ st'.output = "duplicate_blocked"
    BY <1>3, AnswerSteps DEF svcVars, mcpVars
  <2>2. \A c \in Cases : StateOf(c)' = IF c = current THEN st' ELSE StateOf(c)
    BY <2>1 DEF StateOf
  <2>3. ASSUME mcp = "up" PROVE Reports(drafts, current, st')
    <3>1. CASE st'.output = None
      BY <3>1, ReportsNothing, SilentOutputs
    <3>2. CASE st'.output = st.action /\ st.action \notin ToolActions
      <4>1. st.action \in Maybe(ActionType) /\ None # "duplicate_blocked"
        BY <2>1 DEF AgentStates
      <4>2. st.action \notin TellingOutputs
        BY <3>2, <4>1 DEF TellingOutputs, ToolActions, MoneyActions, ActionType, Maybe
      <4> QED
        BY <3>2, <4>2, ReportsNothing
    <3>3. CASE reply = "created" /\ st'.output = st.action
      <4> DEFINE s == [st EXCEPT !.output = st.action]
      <4>1. SameDraft(s, st') /\ st'.output = s.output
        BY <2>1, <3>3 DEF SameDraft, AgentStates
      <4>2. Reports(drafts, current, s)
        BY <1>0, <2>3, <3>3
      <4> QED
        BY <4>1, <4>2, ReportsSame
    <3>4. CASE reply = "duplicate" /\ st'.output = "duplicate_blocked"
      <4> DEFINE s == [st EXCEPT !.output = "duplicate_blocked"]
      <4>1. SameDraft(s, st') /\ st'.output = s.output
        BY <2>1, <3>4 DEF SameDraft, AgentStates
      <4>2. Reports(drafts, current, s)
        BY <1>0, <2>3, <3>4
      <4> QED
        BY <4>1, <4>2, ReportsSame
    <3> QED
      BY <2>1, <3>1, <3>2, <3>3, <3>4
  <2>4. \A c \in Cases : StateOf(c)' # None /\ mcp = "up" => Reports(drafts, c, StateOf(c)')
    BY <1>0, <2>2, <2>3
  <2> QED
    BY <1>0, <2>1, <2>4, ReportsFrom
<1>4. CASE SendDraftCall
  <2>1. /\ pc = "draft" /\ pc' = "await"
        /\ UNCHANGED <<cases, pending, current, st, reply, mcp, drafts>>
    BY <1>4 DEF SendDraftCall, svcVars
  <2>2. \A c : StateOf(c)' = StateOf(c)
    BY <2>1 DEF StateOf
  <2> QED
    BY <1>0, <2>1, <2>2, ReportsFrom
<1>5. CASE FinishCreate \/ FinishApprove
  <2>1. PICK x \in Cases : x = current
    BY <1>5, FinishSteps
  <2>2. /\ pc = "close" /\ pc' = "idle" /\ current' = None
        /\ UNCHANGED <<reply, mcp, drafts>>
        /\ cases' = [cases EXCEPT ![x] = Closed(st)]
        /\ SameDraft(st, Closed(st)) /\ Closed(st).output = st.output /\ st # None
        /\ \A c \in pending' : c # x => c \in pending
        /\ x \in pending' => st.status = "waiting_approval"
    BY <1>5, <2>1, FinishSteps, InvFacts DEF mcpVars
  <2>3. cases \in [Cases -> Maybe(AgentStates)] /\ pending \subseteq Cases
    BY InvFacts DEF TypeOK
  <2>4. cases'[x] = Closed(st) /\ \A c \in Cases \ {x} : cases'[c] = cases[c]
    BY <2>2, <2>3
  <2>5. /\ StateOf(x) = st /\ StateOf(x)' = Closed(st)
        /\ \A c \in Cases \ {x} : StateOf(c)' = StateOf(c)
    BY <2>1, <2>2, <2>4 DEF StateOf
  <2>6. \A c \in pending' : cases'[c].output = None
    BY <1>0, <2>2, <2>3, <2>4
  <2>7. mcp = "up" => Reports(drafts, x, Closed(st))
    <3>1. mcp = "up" => Reports(drafts, x, st)
      BY <1>0, <2>2, <2>5
    <3> QED
      BY <2>2, <3>1, ReportsSame
  <2>8. reply = None
    BY <1>0, <2>2
  <2>9. \A c \in Cases : StateOf(c)' # None /\ mcp = "up" => Reports(drafts, c, StateOf(c)')
    BY <1>0, <2>5, <2>7
  <2> QED
    BY <2>2, <2>6, <2>8, <2>9, ReportsFrom
<1>6. ASSUME NEW x \in Cases, Approve(x) PROVE ReportsShape'
  <2>1. /\ pc = "idle" /\ x \in pending /\ current = None /\ current' = x
        /\ UNCHANGED <<cases, pending, reply, mcp, drafts>>
        /\ st' = [cases[x] EXCEPT !.approval = "approved"]
    BY <1>6, InvFacts DEF Approve, GetPending, svcVars, mcpVars
  <2>2. cases[x] \in AgentStates /\ cases[x].output = None
    BY <2>1, PendingHasNoCall
  <2>3. st'.output = None
    BY <2>1, <2>2 DEF AgentStates
  <2>4. StateOf(x)' = st' /\ \A c \in Cases \ {x} : StateOf(c)' = StateOf(c)
    BY <2>1 DEF StateOf
  <2>5. Reports(drafts, x, st')
    BY <2>3, ReportsNothing, SilentOutputs
  <2> QED
    BY <1>0, <2>1, <2>3, <2>4, <2>5, ReportsFrom
<1>7. ASSUME NEW x \in Cases, Reject(x) PROVE ReportsShape'
  <2>1. /\ pc = "idle" /\ x \in pending /\ current = None /\ pending' = pending \ {x}
        /\ UNCHANGED <<pc, current, st, reply, mcp, drafts>>
        /\ cases' = [cases EXCEPT ![x].approval = "rejected",
                                  ![x].output = "rejected",
                                  ![x].status = "closed"]
    BY <1>7, InvFacts DEF Reject, GetPending, reqVars, mcpVars
  <2>2. cases \in [Cases -> Maybe(AgentStates)] /\ pending \subseteq Cases
        /\ cases[x] \in AgentStates
    BY <2>1, PendingHasNoCall, InvFacts DEF TypeOK
  <2>3. /\ cases'[x] = [cases[x] EXCEPT !.approval = "rejected", !.output = "rejected",
                                        !.status = "closed"]
        /\ \A c \in Cases \ {x} : cases'[c] = cases[c]
    BY <2>1, <2>2
  <2>4. cases'[x].output = "rejected"
    BY <2>2, <2>3 DEF AgentStates
  <2>5. StateOf(x)' = cases'[x] /\ \A c \in Cases \ {x} : StateOf(c)' = StateOf(c)
    BY <2>1, <2>3 DEF StateOf
  <2>6. Reports(drafts, x, StateOf(x)')
    BY <2>4, <2>5, ReportsNothing, SilentOutputs
  <2>7. \A c \in Cases : StateOf(c)' # None /\ mcp = "up" => Reports(drafts, c, StateOf(c)')
    BY <1>0, <2>5, <2>6
  <2>8. \A c \in pending' : cases'[c].output = None
    BY <1>0, <2>1, <2>2, <2>3
  <2>9. reply = None
    BY <1>0, <2>1
  <2> QED
    BY <2>1, <2>7, <2>8, <2>9, ReportsFrom
<1>8. CASE HandleDraftCall
  <2>1. /\ UNCHANGED <<cases, pending, current, st, pc, mcp>> /\ mcp = "up"
        /\ reply' = reply \/ (pc = "await" /\ current = Head(queue).case)
    BY <1>8, HandleFacts DEF svcVars
  <2>2. \A c \in Cases : StateOf(c) # None => Reports(drafts', c, StateOf(c))
    BY <1>0, <1>8, <2>1, HandleKeepsReports
  <2>3. /\ reply' = "created" =>
             Reports(drafts', current, [st EXCEPT !.output = st.action])
        /\ reply' = "duplicate" =>
             Reports(drafts', current, [st EXCEPT !.output = "duplicate_blocked"])
    <3>1. CASE pc = "await" /\ current = Head(queue).case
      BY <1>8, <3>1, HandleAnswers
    <3>2. CASE reply' = reply
      BY <1>0, <1>8, <2>1, <3>2, HandleKeepsReports
    <3> QED
      BY <2>1, <3>1, <3>2
  <2>4. \A c : StateOf(c)' = StateOf(c)
    BY <2>1 DEF StateOf
  <2>5. pc' # "await" => reply' = None
    BY <1>0, <2>1
  <2> QED
    BY <1>0, <2>1, <2>2, <2>3, <2>4, <2>5, ReportsFrom
<1>9. CASE Crash
  <2>1. /\ UNCHANGED <<cases, pending, current, st, pc>> /\ mcp' = "down"
        /\ pc # "await" => reply' = reply
    BY <1>9 DEF Crash, svcVars
  <2> QED
    BY <1>0, <2>1, ReportsFrom
<1>10. CASE Elsewhere
  <2>1. UNCHANGED <<cases, pending, current, st, pc, reply, mcp, drafts>>
    BY <1>10 DEF Elsewhere, svcVars, reqVars, mcpVars
  <2>2. \A c : StateOf(c)' = StateOf(c)
    BY <2>1 DEF StateOf
  <2> QED
    BY <1>0, <2>1, <2>2, ReportsFrom
<1> QED
  BY <1>1, <1>2, <1>3, <1>4, <1>5, <1>6, <1>7, <1>8, <1>9, <1>10, StepKinds

-----------------------------------------------------------------------------
(* The amount of a money draft *)

LEMMA MoneyAmounts ==
  ASSUME DInv, NEW x \in MoneyCalls, x.amount > 0
  PROVE  x.amount = Amount[x.txn] /\ x.txn \in Txns
<1> DEFINE s == StateOf(x.case)
<1>1. x = DraftCall(x.case, s) /\ x.action \in MoneyActions /\ x \in DraftCalls
  BY InvFacts DEF CallsOfCases, MoneyCalls
<1> HIDE DEF s
<1>2. x.txn = s.txn /\ x.amount = DraftAmount(s) /\ x.action = s.action
  BY <1>1 DEF DraftCall
<1>3. /\ DraftAmount(s) \in {DebitAmount(s), Amount[s.txn]}
      /\ DebitAmount(s) \in {0, Amount[s.txn]}
  BY <1>1, <1>2 DEF DraftAmount, DebitAmount, MoneyActions
<1> QED
  BY <1>1, <1>2, <1>3 DEF DraftCalls

-----------------------------------------------------------------------------
(* The invariant *)

LEMMA DInvInit == Init => DInv
<1> SUFFICES ASSUME Init PROVE DInv
  OBVIOUS
<1>1. IInv
  BY InvInit
<1>2. \A c \in Cases : StateOf(c) = None
  BY DEF Init, StateOf
<1>3. DraftsAndCalls = {} /\ MoneyDrafts = {} /\ DOMAIN queue = {}
  BY DEF Init, DraftsAndCalls, MoneyDrafts
<1>4. CallsOfCases /\ MoneyKeysUnique /\ EvidenceShape
  BY <1>3 DEF Init, CallsOfCases, MoneyKeysUnique, EvidenceShape
<1>5. StatesJustified
  BY <1>2 DEF StatesJustified
<1>6. ReportsShape
  BY <1>2, NoneAssumption DEF Init, ReportsShape
<1> QED
  BY <1>1, <1>4, <1>5, <1>6 DEF DInv

LEMMA DInvNext == DInv /\ [Next]_vars => DInv'
BY InvNext, CallsNext, KeysNext, EvidenceNext, JustifiedNext, ReportsNext DEF DInv

LEMMA DInvariance == Spec => []DInv
BY DInvInit, DInvNext, PTL DEF Spec

-----------------------------------------------------------------------------
(* The theorems *)

\* A draft that moves money, and a call that may still create one, rest on the
\* evidence of their case: its transaction and complainant, no disagreement of
\* the sources, and what the refund or the top-up rule asks for.
THEOREM MoneyIsJustifiedHolds == Spec => []MoneyIsJustified
<1>1. DInv => MoneyIsJustified
  <2> SUFFICES ASSUME DInv, NEW d \in MoneyCalls
               PROVE  LET s == StateOf(d.case)
                      IN  /\ d.txn = s.txn /\ d.user = s.user /\ d.action = s.action
                          /\ Justified(s)
    BY DEF MoneyIsJustified, Justified, MoneyCalls
  <2>1. d \in DraftsAndCalls /\ d.case \in Cases
    BY InvFacts DEF MoneyCalls
  <2>2. StateOf(d.case) # None /\ d = DraftCall(d.case, StateOf(d.case))
    BY <2>1, InvFacts DEF CallsOfCases
  <2>3. Justified(StateOf(d.case))
    BY <2>1, <2>2, InvFacts DEF StatesJustified
  <2> QED
    BY <2>2, <2>3 DEF DraftCall
<1> QED
  BY <1>1, DInvariance, PTL

\* At most one refund draft and one force-success draft exist for a transaction:
\* two of a kind would have the same amount, hence the same key.
THEOREM OneMoneyDraftPerTransactionHolds == Spec => []OneMoneyDraftPerTransaction
<1>1. DInv => OneMoneyDraftPerTransaction
  <2> SUFFICES ASSUME DInv, NEW d \in MoneyDrafts, NEW e \in MoneyDrafts,
                      d.txn = e.txn, d.action = e.action
               PROVE  d = e
    BY DEF OneMoneyDraftPerTransaction
  <2>1. ASSUME NEW x \in MoneyDrafts PROVE x.amount = Amount[x.txn]
    BY MoneyAmounts, InvFacts DEF MoneyDrafts, MoneyCalls, DraftsAndCalls, MoneyKeysUnique
  <2>2. d.action # "draft_customer_response"
    BY DEF MoneyDrafts, MoneyActions
  <2>3. DraftKey(d) = DraftKey(e)
    BY <2>1, <2>2 DEF DraftKey
  <2> QED
    BY <2>3, InvFacts DEF MoneyKeysUnique
<1> QED
  BY <1>1, DInvariance, PTL

\* A case that reports a refund, force-success or response draft has it in the
\* store under its own id while the server lives: no other case's draft, retry
\* or late call overwrites it.
THEOREM ReportedDraftIsStoredHolds == Spec => []ReportedDraftIsStored
<1>1. DInv => ReportedDraftIsStored
  <2> SUFFICES ASSUME DInv, NEW c \in Cases, cases[c] # None, mcp = "up",
                      cases[c].output \in MoneyActions \cup {"draft_customer_response"}
               PROVE  DraftCall(c, cases[c]) \in drafts
    BY DEF ReportedDraftIsStored
  <2>1. CASE c # current
    BY <2>1, InvFacts DEF ReportsShape, Reports, StateOf
  <2>2. CASE c = current
    <3>1. c \in pending
      BY <2>2, InvFacts DEF RequestShape
    <3>2. cases[c].output = None
      BY <3>1, InvFacts DEF ReportsShape
    <3> QED
      BY <3>2, SilentOutputs DEF TellingOutputs
  <2> QED
    BY <2>1, <2>2
<1> QED
  BY <1>1, DInvariance, PTL

\* A case that is told its draft is a duplicate is told so because of another
\* case's money draft with the same key, and that draft is still there.
THEOREM DuplicateHasOriginalHolds == Spec => []DuplicateHasOriginal
<1>1. DInv => DuplicateHasOriginal
  <2> SUFFICES ASSUME DInv, NEW c \in Cases, cases[c] # None, mcp = "up",
                      cases[c].output = "duplicate_blocked"
               PROVE  \E d \in MoneyDrafts :
                        d.case # c /\ DraftKey(d) = DraftKey(DraftCall(c, cases[c]))
    BY DEF DuplicateHasOriginal
  <2>1. CASE c # current
    BY <2>1, InvFacts DEF ReportsShape, Reports, StateOf, MoneyDrafts
  <2>2. CASE c = current
    <3>1. c \in pending
      BY <2>2, InvFacts DEF RequestShape
    <3>2. cases[c].output = None
      BY <3>1, InvFacts DEF ReportsShape
    <3> QED
      BY <3>2, SilentOutputs DEF TellingOutputs
  <2> QED
    BY <2>1, <2>2
<1> QED
  BY <1>1, DInvariance, PTL

-----------------------------------------------------------------------------
(* Part three, the protocol: every step of CaseFlow is a submission, a     *)
(* judgement, a commit or a loss of TwoPhaseApproval, or changes nothing   *)
(* there.                                                                  *)

\* The protocol's state as CaseFlow shows it.
Drafted == {<<d.case, DraftKey(d)>> : d \in MoneyDrafts}
SamePhases == \A c \in Cases : Phase(c)' = Phase(c)

LEMMA Stutters ==
  ASSUME SamePhases, Drafted' = Drafted
  PROVE  UNCHANGED Protocol!vars
BY DEF SamePhases, Drafted, Protocol!vars

\* A step that moves one case from one phase to another, and drafts nothing.
LEMMA PhaseStep ==
  ASSUME NEW x \in Cases, NEW p,
         \A c \in Cases : Phase(c)' = IF c = x THEN p ELSE Phase(c),
         \/ Phase(x) = "new" /\ p \in {"waiting", "closed"}
         \/ Phase(x) = "waiting" /\ p \in {"approved", "rejected"},
         UNCHANGED drafts
  PROVE  Protocol!Next
<1> DEFINE phase == [c \in Cases |-> Phase(c)]
<1>1. phase' = [phase EXCEPT ![x] = p] /\ phase[x] = Phase(x)
  OBVIOUS
<1>2. {<<d.case, DraftKey(d)>> : d \in MoneyDrafts}'
        = {<<d.case, DraftKey(d)>> : d \in MoneyDrafts}
  BY DEF MoneyDrafts
<1>3. CASE Phase(x) = "new" /\ p \in {"waiting", "closed"}
  <2>1. Protocol!Submit(x)
    BY <1>1, <1>2, <1>3 DEF Protocol!Submit
  <2> QED
    BY <2>1 DEF Protocol!Next
<1>4. CASE Phase(x) = "waiting" /\ p \in {"approved", "rejected"}
  <2>1. Protocol!Judge(x)
    BY <1>1, <1>2, <1>4 DEF Protocol!Judge
  <2> QED
    BY <2>1 DEF Protocol!Next
<1> QED
  BY <1>3, <1>4

\* The only steps that touch the drafts are the server's.
LEMMA OthersKeepDrafts ==
  ASSUME DInv, [Next]_vars PROVE HandleDraftCall \/ Crash \/ UNCHANGED drafts
<1>1. Reads \/ Decide => UNCHANGED drafts
  BY EarlySteps DEF mcpVars
<1>2. Answers => UNCHANGED drafts
  BY AnswerSteps DEF mcpVars
<1>3. FinishCreate \/ FinishApprove => UNCHANGED drafts
  BY FinishSteps DEF mcpVars
<1> QED
  BY <1>1, <1>2, <1>3, StepKinds
     DEF CreateCase, SendDraftCall, Approve, Reject, Elsewhere, mcpVars

\* A case with a call that moves money is in phase "approved".
LEMMA MoneyCallsAreApproved ==
  ASSUME DInv, NEW d \in MoneyCalls PROVE d.case \in Cases /\ Phase(d.case) = "approved"
<1>0. USE NoneAssumption
<1> DEFINE c == d.case
<1>1. c \in Cases /\ StateOf(c).approval = "approved" /\ StateOf(c) # None
  BY InvFacts DEF MoneyCalls, NoMoneyWithoutApproval, CallsOfCases
<1>2. CASE c = current
  <2>1. pc # "idle" /\ st.approval = "approved"
    BY <1>1, <1>2, InvFacts DEF StateOf
  <2>2. current \in pending
    BY <2>1, InvFacts DEF RequestShape, Approvals
  <2> QED
    BY <1>1, <1>2, <2>2 DEF Phase
<1>3. CASE c # current
  <2>1. cases[c] # None /\ cases[c].approval = "approved"
    BY <1>1, <1>3 DEF StateOf
  <2>2. c \notin pending
    BY <2>1, InvFacts DEF PendingShape
  <2>3. cases[c].status # "waiting_approval"
    BY <1>1, <2>1, <2>2, InvFacts DEF RegistersAgree
  <2> QED
    BY <1>1, <1>3, <2>1, <2>3 DEF Phase
<1> QED
  BY <1>1, <1>2, <1>3

\* A call the server handles either drafts money, as a commit, or changes
\* nothing that the protocol knows of.
LEMMA HandleCommits ==
  ASSUME DInv, HandleDraftCall PROVE Protocol!Next \/ UNCHANGED Protocol!vars
<1> DEFINE d0 == Head(queue)
           k0 == DraftKey(d0)
<1>1. /\ UNCHANGED <<cases, pending, current>>
      /\ d0 \in DraftsAndCalls /\ d0 \in DraftCalls
      /\ \A e \in drafts : e.case # d0.case
      /\ drafts' = IF ToolOutcome(d0) = "created" THEN Save(d0) ELSE drafts
  BY HandleFacts, InvFacts DEF svcVars
<1>2. SamePhases
  BY <1>1 DEF SamePhases, Phase
<1>3. CASE ToolOutcome(d0) = "created" /\ d0.action \in MoneyActions
  <2>1. d0 \in MoneyCalls /\ d0.amount > 0 /\ ~Stored(d0)
    BY <1>1, <1>3, ToolOutcomes DEF MoneyCalls
  <2>2. d0.case \in Cases /\ Phase(d0.case) = "approved"
    BY <2>1, MoneyCallsAreApproved
  <2>3. k0 \in {IdempotencyKey(t, a, Amount[t]) : t \in Txns, a \in MoneyActions}
    <3>1. d0.amount = Amount[d0.txn] /\ d0.txn \in Txns
      BY <2>1, MoneyAmounts
    <3>2. k0 = IdempotencyKey(d0.txn, d0.action, d0.amount)
      BY <1>3 DEF DraftKey, MoneyActions
    <3> QED
      BY <1>3, <3>1, <3>2
  <2> HIDE DEF d0
  <2>4. MoneyDrafts' = MoneyDrafts \cup {d0}
    BY <1>1, <1>3, <2>1 DEF Save, Stored, MoneyDrafts
  <2>5. Drafted' = Drafted \cup {<<d0.case, k0>>}
    BY <2>4 DEF Drafted
  <2>6. \A p \in Drafted : p[1] # d0.case /\ p[2] # k0
    BY <1>1, <2>1 DEF Drafted, MoneyDrafts, Stored
  <2> HIDE DEF k0
  <2>7. [c \in Cases |-> Phase(c)]' = [c \in Cases |-> Phase(c)]
        /\ [c \in Cases |-> Phase(c)][d0.case] = "approved"
    BY <1>2, <2>2 DEF SamePhases
  <2>8. PICK c \in Cases, k \in {IdempotencyKey(t, a, Amount[t]) : t \in Txns, a \in MoneyActions} :
          c = d0.case /\ k = k0
    BY <2>2, <2>3
  <2>9. Protocol!Commit(c, k)
    BY <2>5, <2>6, <2>7, <2>8 DEF Protocol!Commit, Drafted
  <2> QED
    BY <2>9 DEF Protocol!Next
<1>4. CASE ToolOutcome(d0) # "created" \/ d0.action \notin MoneyActions
  <2> HIDE DEF d0
  <2>1. MoneyDrafts' = MoneyDrafts
    <3>1. CASE ToolOutcome(d0) # "created"
      BY <1>1, <3>1 DEF MoneyDrafts
    <3>2. CASE ToolOutcome(d0) = "created" /\ d0.action \notin MoneyActions
      <4>1. \A e \in MoneyDrafts : DraftKey(e) # DraftKey(d0)
        BY <3>2, MoneyKeysAreTheirOwn DEF MoneyDrafts
      <4> QED
        BY <1>1, <3>2, <4>1 DEF Save, MoneyDrafts
    <3> QED
      BY <1>4, <3>1, <3>2
  <2> QED
    BY <1>2, <2>1, Stutters DEF Drafted
<1> QED
  BY <1>3, <1>4

LEMMA ProtocolNext ==
  ASSUME DInv, [Next]_vars PROVE Protocol!Next \/ UNCHANGED Protocol!vars
<1> USE NoneAssumption
<1>0. /\ cases \in [Cases -> Maybe(AgentStates)] /\ pending \subseteq Cases
      /\ pc = "idle" => current = None
      /\ \A c \in Cases : c \in pending <=> cases[c] # None /\ cases[c].status = "waiting_approval"
  BY InvFacts DEF TypeOK, RegistersAgree
<1>1. ASSUME SamePhases, UNCHANGED drafts
      PROVE  UNCHANGED Protocol!vars
  BY <1>1, Stutters DEF Drafted, MoneyDrafts
<1>2. CASE HandleDraftCall
  BY <1>2, HandleCommits
<1>3. CASE Crash
  <2>1. SamePhases
    BY <1>3 DEF Crash, svcVars, SamePhases, Phase
  <2>2. [c \in Cases |-> Phase(c)]' = [c \in Cases |-> Phase(c)]
    BY <2>1 DEF SamePhases
  <2>3. {<<d.case, DraftKey(d)>> : d \in MoneyDrafts}' = {}
    BY <1>3 DEF Crash, MoneyDrafts
  <2> QED
    BY <2>2, <2>3 DEF Protocol!Next, Protocol!Lose
<1>4. ASSUME NEW x \in Cases, NEW m \in Complaints, CreateCase(x, m), UNCHANGED drafts
      PROVE  UNCHANGED Protocol!vars
  <2>1. /\ pc = "idle" /\ cases[x] = None /\ current = None /\ current' = x
        /\ UNCHANGED <<cases, pending>>
    BY <1>0, <1>4 DEF CreateCase, svcVars
  <2>2. x \notin pending
    BY <1>0, <2>1
  <2>3. SamePhases
    BY <2>1, <2>2 DEF SamePhases, Phase
  <2> QED
    BY <1>1, <1>4, <2>3
<1>5. ASSUME UNCHANGED <<cases, pending, current>>, UNCHANGED drafts
      PROVE  UNCHANGED Protocol!vars
  <2>1. SamePhases
    BY <1>5 DEF SamePhases, Phase
  <2> QED
    BY <1>1, <1>5, <2>1
<1>6. CASE (FinishCreate \/ FinishApprove) /\ UNCHANGED drafts
  <2>1. PICK x \in Cases : x = current
    BY <1>6, FinishSteps
  <2>2. /\ pc = "close" /\ current' = None /\ Closed(st) # None
        /\ cases' = [cases EXCEPT ![x] = Closed(st)] /\ st \in AgentStates
        /\ \A c \in Cases : c # x => (c \in pending' <=> c \in pending)
    <3>1. \A c \in Cases : c # x => (c \in pending' <=> c \in pending)
      BY <1>6, <2>1 DEF FinishCreate, FinishApprove
    <3> QED
      BY <1>6, <2>1, <3>1, FinishSteps
  <2>3. cases'[x] = Closed(st) /\ \A c \in Cases \ {x} : cases'[c] = cases[c]
    BY <1>0, <2>2
  <2>4. \A c \in Cases \ {x} : Phase(c)' = Phase(c)
    BY <2>1, <2>2, <2>3 DEF Phase
  <2>5. Phase(x)' = IF Closed(st).status = "waiting_approval" THEN "waiting"
                    ELSE IF Closed(st).approval \in {"approved", "rejected"}
                         THEN Closed(st).approval ELSE "closed"
    BY <2>2, <2>3 DEF Phase
  <2>6. /\ Closed(st).approval = st.approval
        /\ Closed(st).status = "waiting_approval" <=> st.status = "waiting_approval"
    BY <2>2 DEF Closed, AgentStates
  <2>7. CASE x \in pending
    <3>1. st.approval = "approved" /\ st.status # "waiting_approval"
      BY <2>1, <2>2, <2>7, InvFacts DEF RequestShape
    <3>2. Phase(x) = "approved" /\ Phase(x)' = "approved"
      BY <2>1, <2>5, <2>6, <2>7, <3>1 DEF Phase
    <3>3. SamePhases
      BY <2>4, <3>2 DEF SamePhases
    <3> QED
      BY <1>1, <1>6, <3>3
  <2>8. CASE x \notin pending
    <3>1. /\ cases[x] = None /\ st.approval \in {None, "pending"}
      BY <2>1, <2>2, <2>8, InvFacts DEF RequestShape
    <3>2. Phase(x) = "new" /\ Phase(x)' \in {"waiting", "closed"}
      BY <2>1, <2>5, <2>6, <2>8, <3>1 DEF Phase, Approvals
    <3>3. PICK p \in {"waiting", "closed"} : p = Phase(x)'
      BY <3>2
    <3>4. \A c \in Cases : Phase(c)' = IF c = x THEN p ELSE Phase(c)
      BY <2>4, <3>3
    <3> QED
      BY <1>6, <3>2, <3>4, PhaseStep
  <2> QED
    BY <2>7, <2>8
<1>7. ASSUME NEW x \in Cases, Approve(x), UNCHANGED drafts
      PROVE  Protocol!Next
  <2>1. /\ x \in pending /\ current = None /\ current' = x /\ UNCHANGED <<cases, pending>>
    BY <1>0, <1>7 DEF Approve, GetPending, svcVars
  <2>2. cases[x] # None /\ cases[x].status = "waiting_approval"
    BY <1>0, <2>1
  <2>3. Phase(x) = "waiting" /\ Phase(x)' = "approved"
    BY <2>1, <2>2 DEF Phase
  <2>4. \A c \in Cases : Phase(c)' = IF c = x THEN "approved" ELSE Phase(c)
    BY <2>1, <2>3 DEF Phase
  <2> QED
    BY <1>7, <2>3, <2>4, PhaseStep
<1>8. ASSUME NEW x \in Cases, Reject(x), UNCHANGED drafts
      PROVE  Protocol!Next
  <2>1. /\ pc = "idle" /\ x \in pending /\ current = None /\ current' = None
        /\ cases' = [cases EXCEPT ![x].approval = "rejected",
                                  ![x].output = "rejected",
                                  ![x].status = "closed"]
    BY <1>0, <1>8 DEF Reject, GetPending, reqVars
  <2>2. cases[x] \in AgentStates /\ cases[x] # None /\ cases[x].status = "waiting_approval"
    BY <1>0, <2>1, PendingHasNoCall
  <2>3. /\ cases'[x] = [cases[x] EXCEPT !.approval = "rejected", !.output = "rejected",
                                        !.status = "closed"]
        /\ \A c \in Cases \ {x} : cases'[c] = cases[c]
    BY <1>0, <2>1
  <2>4. /\ cases'[x].status = "closed" /\ cases'[x].approval = "rejected"
        /\ cases'[x] \in AgentStates
    BY <2>2, <2>3 DEF AgentStates, Statuses, Approvals, Outputs, Maybe
  <2>5. cases'[x] # None
    BY <2>4
  <2>6. Phase(x) = "waiting" /\ Phase(x)' = "rejected"
    BY <2>1, <2>2, <2>4, <2>5 DEF Phase
  <2>7. \A c \in Cases : Phase(c)' = IF c = x THEN "rejected" ELSE Phase(c)
    BY <2>1, <2>3, <2>6 DEF Phase
  <2> QED
    BY <1>8, <2>6, <2>7, PhaseStep
<1>9. Reads \/ Decide => UNCHANGED <<cases, pending, current>>
  BY EarlySteps DEF svcVars
<1>10. Answers => UNCHANGED <<cases, pending, current>>
  BY AnswerSteps DEF svcVars
<1>11. SendDraftCall \/ Elsewhere => UNCHANGED <<cases, pending, current>>
  BY DEF SendDraftCall, Elsewhere, svcVars, reqVars
<1> QED
  BY <1>2, <1>3, <1>4, <1>5, <1>6, <1>7, <1>8, <1>9, <1>10, <1>11,
     OthersKeepDrafts, StepKinds

LEMMA ProtocolInit == Init => Protocol!Init
<1> SUFFICES ASSUME Init PROVE Protocol!Init
  OBVIOUS
<1>1. \A c \in Cases : Phase(c) = "new"
  BY DEF Init, Phase
<1>2. MoneyDrafts = {}
  BY DEF Init, MoneyDrafts
<1> QED
  BY <1>1, <1>2 DEF Protocol!Init

\* The case pipeline, whatever times out, fails or dies, implements the two-phase
\* commit of approval_service.py:10-18: a case is judged at most once, only an
\* approved case commits, no key is committed twice, and a commit is kept until
\* the store is lost as a whole.
THEOREM ImplementsProtocolHolds == Spec => ImplementsProtocol
<1>1. DInv /\ [Next]_vars => [Protocol!Next]_(Protocol!vars)
  BY ProtocolNext
<1> QED
  BY <1>1, ProtocolInit, DInvariance, PTL DEF Spec, ImplementsProtocol, Protocol!Spec
=============================================================================
