------------------------------- MODULE CaseFlow -------------------------------
(***************************************************************************)
(* The life of a complaint case: CaseService and ApprovalService           *)
(* (api/service.py, workflows/approval_service.py), the workflow graph     *)
(* (graph/, nodes/), the MCP client session and the MCP tool server with   *)
(* its in-memory draft store.                                              *)
(*                                                                         *)
(* Three parties take steps:                                               *)
(*   - the API process.  Its endpoints run to completion on one event      *)
(*     loop, so at most one request is in progress; but a request calls    *)
(*     the MCP server several times, and each call is a step of its own;   *)
(*   - the MCP server, a child process that answers tool calls in the      *)
(*     order they arrive and keeps the drafts in memory.  The client gives *)
(*     up on a call after 30 s without withdrawing it, and never restarts  *)
(*     a server that died;                                                 *)
(*   - the systems of record (transactions, ledger, providers, refunds,    *)
(*     bank reconciliation), which change while a case is investigated or  *)
(*     waits for a person.                                                 *)
(***************************************************************************)
EXTENDS CaseRules, Sequences, FiniteSets

CONSTANTS
  Cases,         \* case identifiers
  Txns,          \* transactions
  Users,         \* users
  Complaints,    \* [txn, service, user]: what a customer's text is read as
  Service,       \* Service[t]: the service a transaction paid for
  Owner,         \* Owner[t]: the user it belongs to
  Amount,        \* Amount[t]: its amount, and the amount debited for it
  Worlds,        \* the initial records of the systems of record
  WorldMoves,    \* which of those systems change in a run
  Faults,        \* which faults occur: "fetch", "timeout", "crash"
  MaxRetries     \* max_retries of the agent state (3 in the code)

\* A record of the systems of record: what each holds about a transaction.
WorldRecords ==
  [transaction : Maybe(TransactionStatus), ledger : Maybe(Ledgers),
   provider : Maybe(TrainStatuses), refund : Maybe(RefundStatusValue),
   recon : Maybe(Reconciliations)]

ServiceTypes == {"train_ticket", "electric_bill", "water_bill", "wallet_topup"}
Workflows == {"train_ticket", "utility_bill", "wallet_topup"}

ASSUME ComplaintAssumption ==
  Complaints \subseteq [txn : Maybe(Txns), service : Maybe(ServiceTypes),
                       user : Maybe(Users)]
ASSUME TransactionAssumption ==
  /\ Service \in [Txns -> ServiceTypes]
  /\ Owner \in [Txns -> Users]
  /\ Amount \in [Txns -> Nat \ {0}]
ASSUME WorldAssumption == Worlds \subseteq [Txns -> WorldRecords]
ASSUME RetriesAssumption == MaxRetries \in Nat

Statuses == {"fetching_evidence", "waiting_approval", "draft_created",
             "manual_review", "dead_letter", "closed"}
Approvals == {"pending", "approved", "rejected"}
Outputs == ActionType \cup {"duplicate_blocked", "rejected"}

\* AgentState (graph/state.py), as far as the pipeline decides by it.
AgentStates ==
  [txn : Maybe(Txns), service : Maybe(ServiceTypes), user : Maybe(Users),
   workflow : Maybe(Workflows), evidence : EvidenceBundles(Users),
   action : Maybe(ActionType), approval : Maybe(Approvals),
   packet : Maybe(Nat), output : Maybe(Outputs), status : Statuses]

\* None is none of the values it stands in for the absence of.
ASSUME NoneAssumption ==
  /\ None \notin Cases \cup Txns
  /\ None \notin ActionType \cup Approvals \cup RefundStatusValue
  /\ None \notin {"created", "duplicate", "error", "duplicate_blocked"}
  /\ None \notin AgentStates

VARIABLES
  world,      \* the systems of record
  cases,      \* CaseService._cases: the stored AgentState of a case, or None
  pending,    \* the keys of ApprovalService._pending
  decided,    \* the keys of ApprovalService._decided
  pc,         \* where the request in progress is ("idle": no request)
  current,    \* the case it is about
  st,         \* its AgentState
  failed,     \* the tools that failed in its current fetch (tool_results of
              \* the two critical ones)
  retries,    \* its retry_count
  reply,      \* the server's answer to its draft call, when it is on its way
  mcp,        \* "up" or "down": the server process
  queue,      \* draft calls the server has still to handle
  drafts      \* the DraftStore of the server

svcVars == <<cases, pending, decided>>
reqVars == <<pc, current, st, failed, retries, reply>>
mcpVars == <<mcp, queue, drafts>>
vars    == <<world, svcVars, reqVars, mcpVars>>

-----------------------------------------------------------------------------
(* Agent states and drafts *)

NoEvidence ==
  [transaction |-> None, ledger |-> None, train |-> None, utility |-> None,
   refund |-> None, recon |-> None]

\* The workflow a service name selects.
WorkflowOf(service) ==
  CASE service = "train_ticket" -> "train_ticket"
    [] service \in {"electric_bill", "water_bill"} -> "utility_bill"
    [] service = "wallet_topup" -> "wallet_topup"
    [] OTHER -> None

\* case_intake and extract_info: the state a complaint starts with.
Intake(m) ==
  [txn |-> m.txn, service |-> m.service, user |-> m.user,
   workflow |-> WorkflowOf(m.service), evidence |-> NoEvidence,
   action |-> None, approval |-> None, packet |-> None, output |-> None,
   status |-> "fetching_evidence"]

\* wallet_ledger.debit_amount, 0 without a ledger
DebitAmount(s) == IF WalletDebited(s.evidence) THEN Amount[s.txn] ELSE 0

\* Faulty variant: every amount is the ledger's.
DraftAmountFromLedger(s) ==
  IF s.action \in MoneyActions THEN DebitAmount(s) ELSE 0

\* The amount a draft call carries.
DraftAmount(s) ==
  CASE s.action = "create_refund_request_draft" -> DebitAmount(s)
    [] s.action = "create_force_success_draft" -> Amount[s.txn]
    [] OTHER -> 0

DraftCall(c, s) ==
  [case |-> c, action |-> s.action, txn |-> s.txn, user |-> s.user,
   amount |-> DraftAmount(s)]

\* Faulty variant: the case is part of every key.
DraftKeyPerCase(d) == IdempotencyKey(d.case, d.action, d.amount)

\* Refund, force-success and reconciliation drafts are stored under their
\* idempotency key, a response draft under its case.
DraftKey(d) ==
  IF d.action = "draft_customer_response"
  THEN IdempotencyKey(d.case, d.action, 0)
  ELSE IdempotencyKey(d.txn, d.action, d.amount)

\* The actions create_draft turns into a call of an MCP tool.
ToolActions ==
  MoneyActions \cup
  {"create_reconciliation_ticket_draft", "draft_customer_response"}

-----------------------------------------------------------------------------
Init ==
  /\ world \in Worlds
  /\ cases = [c \in Cases |-> None]
  /\ pending = {} /\ decided = {}
  /\ pc = "idle" /\ current = None /\ st = None
  /\ failed = {} /\ retries = 0 /\ reply = None
  /\ mcp = "up" /\ queue = <<>> /\ drafts = {}

-----------------------------------------------------------------------------
(* POST /cases: create_and_run up to fetch_evidence.  A complaint whose    *)
(* text names no transaction is dead-lettered by missing_info_handler.     *)

CreateCase(c, m) ==
  /\ pc = "idle" /\ cases[c] = None
  /\ current' = c
  /\ IF m.txn = None
     THEN /\ st' = [Intake(m) EXCEPT !.status = "dead_letter"]
          /\ pc' = "close"
     ELSE /\ st' = Intake(m)
          /\ pc' = "transaction"
  /\ UNCHANGED <<world, svcVars, failed, retries, reply, mcpVars>>

-----------------------------------------------------------------------------
(* fetch_evidence: one MCP call after another *)

\* What the client makes of a read: the record, or None when there is no
\* record, when the call failed, and always when the server is gone.
ReadResults(record) ==
  IF mcp = "down" THEN {None}
  ELSE {record} \cup (IF "fetch" \in Faults THEN {None} ELSE {})

\* svc_hint: what the complaint says, else what the transaction says.
ServiceHint(s) ==
  IF s.service # None THEN s.service
  ELSE IF s.evidence.transaction # None THEN Service[s.txn]
  ELSE None

FetchTransaction ==
  /\ pc = "transaction"
  /\ \E status \in ReadResults(world[st.txn].transaction) :
       LET found == IF status = None THEN None
                    ELSE [status |-> status, user |-> Owner[st.txn]]
           s == [st EXCEPT !.evidence = [NoEvidence EXCEPT !.transaction = found]]
       IN /\ st' = s
          /\ failed' = IF found = None THEN {"transaction"} ELSE {}
          /\ pc' = IF ServiceHint(s) = "wallet_topup" THEN "recon" ELSE "ledger"
  /\ UNCHANGED <<world, svcVars, current, retries, reply, mcpVars>>

\* The provider is asked next, but only about a transaction that was found
\* and under a service that has a provider.
FetchLedger ==
  /\ pc = "ledger"
  /\ \E r \in ReadResults(world[st.txn].ledger) :
       /\ st' = [st EXCEPT !.evidence.ledger = r]
       /\ failed' = IF r = None THEN failed \cup {"ledger"} ELSE failed
  /\ pc' = IF /\ st.evidence.transaction # None
              /\ WorkflowOf(ServiceHint(st)) \in {"train_ticket", "utility_bill"}
           THEN "provider" ELSE "refund"
  /\ UNCHANGED <<world, svcVars, current, retries, reply, mcpVars>>

\* The two providers keep separate books: a transaction of another service
\* is unknown to the one that is asked.
FetchProvider ==
  LET asked == WorkflowOf(ServiceHint(st))
      known == IF WorkflowOf(Service[st.txn]) = asked
               THEN world[st.txn].provider ELSE None
  IN /\ pc = "provider"
     /\ \E r \in ReadResults(known) :
          st' = IF asked = "train_ticket"
                THEN [st EXCEPT !.evidence.train = r]
                ELSE [st EXCEPT !.evidence.utility = IF r = None THEN None ELSE r.status]
     /\ pc' = "refund"
     /\ UNCHANGED <<world, svcVars, current, failed, retries, reply, mcpVars>>

FetchRefund ==
  /\ pc = "refund"
  /\ \E r \in ReadResults(world[st.txn].refund) :
       st' = [st EXCEPT !.evidence.refund = r]
  /\ pc' = "recon"
  /\ UNCHANGED <<world, svcVars, current, failed, retries, reply, mcpVars>>

\* The last read; then selected_workflow is completed from the transaction,
\* and after_fetch_evidence retries only if both critical reads failed.
FetchReconciliation ==
  /\ pc = "recon"
  /\ \E r \in ReadResults(world[st.txn].recon) :
       st' = [st EXCEPT !.evidence.recon = r,
                        !.workflow = IF @ = None /\ st.evidence.transaction # None
                                     THEN WorkflowOf(Service[st.txn]) ELSE @]
  /\ pc' = IF {"transaction", "ledger"} \subseteq failed THEN "retry" ELSE "decide"
  /\ UNCHANGED <<world, svcVars, current, failed, retries, reply, mcpVars>>

\* Faulty variants: one retry too many, and retries that are not counted.
RetryOnceMore ==
  /\ pc = "retry"
  /\ IF retries <= MaxRetries
     THEN /\ retries' = retries + 1
          /\ pc' = "transaction"
          /\ UNCHANGED st
     ELSE /\ st' = [st EXCEPT !.status = "dead_letter"]
          /\ pc' = "close"
          /\ UNCHANGED retries
  /\ UNCHANGED <<world, svcVars, current, failed, reply, mcpVars>>

RetryUncounted ==
  /\ pc = "retry"
  /\ pc' = "transaction"
  /\ UNCHANGED <<world, svcVars, current, st, failed, retries, reply, mcpVars>>

RetryOrDeadLetter ==
  /\ pc = "retry"
  /\ IF retries < MaxRetries
     THEN /\ retries' = retries + 1
          /\ pc' = "transaction"
          /\ UNCHANGED st
     ELSE /\ st' = [st EXCEPT !.status = "dead_letter"]
          /\ pc' = "close"
          /\ UNCHANGED retries
  /\ UNCHANGED <<world, svcVars, current, failed, reply, mcpVars>>

-----------------------------------------------------------------------------
(* detect_conflict ... approval_gate: the graph nodes between the evidence *)
(* and the draft touch nothing but the agent state.                        *)

Decide ==
  /\ pc = "decide"
  /\ IF HasConflict(st.evidence, st.user) \/ st.workflow = None
     THEN \* the manual_review node
          /\ st' = [st EXCEPT !.status = "manual_review",
                              !.action = "manual_review",
                              !.output = "manual_review"]
          /\ pc' = "close"
     ELSE LET d == ApplyRules(st.workflow, st.evidence, FALSE)
          IN IF d.approval
             THEN \* approval_gate builds the packet and the graph stops
                  /\ st' = [st EXCEPT !.status = "waiting_approval",
                                      !.action = d.action,
                                      !.packet = DebitAmount(st),
                                      !.approval = "pending"]
                  /\ pc' = "close"
             ELSE /\ st' = [st EXCEPT !.status = "draft_created",
                                      !.action = d.action]
                  /\ pc' = "draft"
  /\ UNCHANGED <<world, svcVars, current, failed, retries, reply, mcpVars>>

-----------------------------------------------------------------------------
(* create_draft *)

\* Actions without a tool only produce an output.
DraftNothing ==
  /\ pc = "draft" /\ st.action \notin ToolActions
  /\ st' = [st EXCEPT !.output = st.action,
                      !.status = IF st.action = "manual_review"
                                 THEN "manual_review" ELSE "closed"]
  /\ pc' = "close"
  /\ UNCHANGED <<world, svcVars, current, failed, retries, reply, mcpVars>>

\* An error of the tool call sends the case to manual review, without output.
DraftError ==
  /\ st' = [st EXCEPT !.status = "manual_review"]
  /\ pc' = "close"

\* The session of a server that died is never opened again.
CallDeadServer ==
  /\ pc = "draft" /\ st.action \in ToolActions /\ mcp = "down"
  /\ DraftError
  /\ UNCHANGED <<world, svcVars, current, failed, retries, reply, mcpVars>>

SendDraftCall ==
  /\ pc = "draft" /\ st.action \in ToolActions /\ mcp = "up"
  /\ queue' = Append(queue, DraftCall(current, st))
  /\ pc' = "await"
  /\ UNCHANGED <<world, svcVars, current, st, failed, retries, reply, mcp, drafts>>

ReceiveReply ==
  /\ pc = "await" /\ reply # None
  /\ CASE reply = "created" ->
            /\ st' = [st EXCEPT !.output = st.action, !.status = "draft_created"]
            /\ pc' = "close"
       [] reply = "duplicate" ->
            /\ st' = [st EXCEPT !.output = "duplicate_blocked", !.status = "closed"]
            /\ pc' = "close"
       [] reply = "error" -> DraftError
  /\ reply' = None
  /\ UNCHANGED <<world, svcVars, current, failed, retries, mcpVars>>

\* Faulty variant: a call that timed out is sent again.
TimeoutAndRetry ==
  /\ "timeout" \in Faults
  /\ pc = "await" /\ mcp = "up"
  /\ queue' = Append(queue, DraftCall(current, st))
  /\ UNCHANGED <<world, svcVars, reqVars, mcp, drafts>>

\* Faulty variant: future.result() without a timeout.
TimeoutNever == pc = "await" /\ FALSE

\* future.result(timeout=30) gives up; the call itself is not cancelled.
Timeout ==
  /\ "timeout" \in Faults
  /\ pc = "await"
  /\ DraftError
  /\ reply' = None
  /\ UNCHANGED <<world, svcVars, current, failed, retries, mcpVars>>

-----------------------------------------------------------------------------
(* audit_and_close, and what create_and_run or approve_case do after it *)

Closed(s) ==
  IF s.status = "waiting_approval" THEN s ELSE [s EXCEPT !.status = "closed"]

EndRequest ==
  /\ pc' = "idle" /\ current' = None /\ st' = None
  /\ failed' = {} /\ retries' = 0
  /\ UNCHANGED reply

FinishCreate ==
  /\ pc = "close" /\ current \notin pending
  /\ cases' = [cases EXCEPT ![current] = Closed(st)]
  /\ pending' = IF st.status = "waiting_approval"
                THEN pending \cup {current} ELSE pending
  /\ UNCHANGED decided
  /\ EndRequest
  /\ UNCHANGED <<world, mcpVars>>

\* Faulty variant: an approved case stays registered as pending.
FinishApproveStillPending ==
  /\ pc = "close" /\ current \in pending
  /\ cases' = [cases EXCEPT ![current] = Closed(st)]
  /\ decided' = decided \cup {current}
  /\ UNCHANGED pending
  /\ EndRequest
  /\ UNCHANGED <<world, mcpVars>>

FinishApprove ==
  /\ pc = "close" /\ current \in pending
  /\ cases' = [cases EXCEPT ![current] = Closed(st)]
  /\ pending' = pending \ {current}
  /\ decided' = decided \cup {current}
  /\ EndRequest
  /\ UNCHANGED <<world, mcpVars>>

-----------------------------------------------------------------------------
(* POST /cases/{id}/approve and /reject.  A call about a case that is      *)
(* decided or not pending raises, and changes nothing.                     *)

\* Faulty variant: a decision does not end the matter.
GetPendingOrDecided(c) == c \in pending \cup decided

GetPending(c) == c \notin decided /\ c \in pending

Approve(c) ==
  /\ pc = "idle" /\ GetPending(c)
  /\ current' = c
  /\ st' = [cases[c] EXCEPT !.approval = "approved"]
  /\ pc' = "draft"
  /\ UNCHANGED <<world, svcVars, failed, retries, reply, mcpVars>>

\* Faulty variant: the rejection is noted on the case only.
RejectOnPaper(c) ==
  /\ pc = "idle" /\ GetPending(c)
  /\ cases' = [cases EXCEPT ![c].approval = "rejected",
                            ![c].output = "rejected",
                            ![c].status = "closed"]
  /\ UNCHANGED <<world, pending, decided, reqVars, mcpVars>>

Reject(c) ==
  /\ pc = "idle" /\ GetPending(c)
  /\ cases' = [cases EXCEPT ![c].approval = "rejected",
                            ![c].output = "rejected",
                            ![c].status = "closed"]
  /\ pending' = pending \ {c}
  /\ decided' = decided \cup {c}
  /\ UNCHANGED <<world, reqVars, mcpVars>>

-----------------------------------------------------------------------------
(* The MCP server *)

\* The stored drafts after one is saved: what had its key is overwritten.
Save(d) == {e \in drafts : DraftKey(e) # DraftKey(d)} \cup {d}

\* Faulty variant: only a draft of the same case is a duplicate.
StoredForCase(d) == \E e \in drafts : DraftKey(e) = DraftKey(d) /\ e.case = d.case

Stored(d) == \E e \in drafts : DraftKey(e) = DraftKey(d)

\* Faulty variant: the store is not consulted.
ToolOutcomeUnchecked(d) ==
  IF d.action \in MoneyActions /\ d.amount <= 0 THEN "error" ELSE "created"

\* The draft tools.  A money draft needs a positive amount and a key that is
\* not taken; the handler of the refund tool passes no refund status, so the
\* check against the refund record always lets the call through.
ToolOutcome(d) ==
  IF d.action \notin MoneyActions THEN "created"
  ELSE IF d.amount <= 0 THEN "error"
  ELSE IF Stored(d) \/ IsDuplicateAction(d.action, None) THEN "duplicate"
  ELSE "created"

HandleDraftCall ==
  /\ mcp = "up" /\ queue # <<>>
  /\ LET d == Head(queue)
         outcome == ToolOutcome(d)
     IN /\ drafts' = IF outcome = "created" THEN Save(d) ELSE drafts
        /\ reply' = IF pc = "await" /\ current = d.case THEN outcome ELSE reply
  /\ queue' = Tail(queue)
  /\ UNCHANGED <<world, svcVars, pc, current, st, failed, retries, mcp>>

\* The server process dies, and the store with it; a call in flight fails.
Crash ==
  /\ "crash" \in Faults
  /\ mcp = "up"
  /\ mcp' = "down" /\ queue' = <<>> /\ drafts' = {}
  /\ reply' = IF pc = "await" /\ reply = None THEN "error" ELSE reply
  /\ UNCHANGED <<world, svcVars, pc, current, st, failed, retries>>

-----------------------------------------------------------------------------
(* The systems of record: the statuses their tables admit, moved forward *)

SetWorld(t, w) ==
  /\ world' = [world EXCEPT ![t] = w]
  /\ UNCHANGED <<svcVars, reqVars, mcpVars>>

\* A refund is requested, decided, executed and credited by its own team.
RefundMoves(t) ==
  /\ "refund" \in WorldMoves
  /\ LET w == world[t] IN
       \/ /\ w.refund \in {None, "not_requested", "failed"}
          /\ SetWorld(t, [w EXCEPT !.refund = "requested"])
       \/ /\ w.refund = "requested"
          /\ \E s \in {"approved", "rejected"} : SetWorld(t, [w EXCEPT !.refund = s])
       \/ /\ w.refund = "approved"
          /\ \E s \in {"executed", "failed"} : SetWorld(t, [w EXCEPT !.refund = s])
       \/ /\ w.refund = "executed" /\ w.ledger # None
          /\ ~w.ledger.has_credit_refund
          /\ SetWorld(t, [w EXCEPT !.ledger.has_credit_refund = TRUE])

\* A provider settles a booking or a bill that was pending.
ProviderMoves(t) ==
  /\ "provider" \in WorldMoves
  /\ LET w == world[t] IN
       /\ w.provider # None
       /\ \/ /\ w.provider.status = "booking_pending"
             /\ \E p \in {[status |-> "ticket_issued", has_code |-> TRUE],
                          [status |-> "ticket_not_issued", has_code |-> FALSE]} :
                  SetWorld(t, [w EXCEPT !.provider = p])
          \/ /\ w.provider.status = "pending"
             /\ \E s \in {"confirmed", "failed"} :
                  SetWorld(t, [w EXCEPT !.provider.status = s])

\* The bank reports on a transfer, and a lagging transaction is settled.
BankMoves(t) ==
  /\ "bank" \in WorldMoves
  /\ LET w == world[t] IN
       \/ /\ w.recon # None /\ w.recon.bank = "other"
          /\ \E b \in {"success", "failed"} :
               SetWorld(t, [w EXCEPT !.recon = [bank |-> b, money |-> b = "success"]])
       \/ /\ w.transaction = "pending"
          /\ SetWorld(t, [w EXCEPT !.transaction = "success"])

-----------------------------------------------------------------------------
\* A step of the request in progress that waits for nobody else.
RequestStep ==
  \/ FetchTransaction \/ FetchLedger \/ FetchProvider \/ FetchRefund
  \/ FetchReconciliation \/ RetryOrDeadLetter \/ Decide
  \/ DraftNothing \/ CallDeadServer \/ SendDraftCall
  \/ ReceiveReply \/ Timeout \/ FinishCreate \/ FinishApprove

Next ==
  \/ \E c \in Cases : \/ \E m \in Complaints : CreateCase(c, m)
                      \/ Approve(c)
                      \/ Reject(c)
  \/ RequestStep
  \/ HandleDraftCall
  \/ Crash
  \/ \E t \in Txns : RefundMoves(t) \/ ProviderMoves(t) \/ BankMoves(t)

Spec == Init /\ [][Next]_vars

\* The API runs a request it has begun to its end, and no tool call blocks
\* it for more than its timeout.  Nothing is assumed of the server.
ApiFairness == WF_vars(RequestStep)

\* A server that is up gets to the calls in its queue.
ServerFairness == WF_vars(HandleDraftCall)

ApiFairSpec  == Spec /\ ApiFairness
FairSpec     == Spec /\ ApiFairness /\ ServerFairness
-----------------------------------------------------------------------------
(* Type invariant *)

PCs == {"idle", "transaction", "ledger", "provider", "refund", "recon",
        "retry", "decide", "draft", "await", "close"}

\* Where the request reads about, or drafts for, a transaction.
WorkingPCs == PCs \ {"idle", "close"}

DraftCalls ==
  [case : Cases, action : ToolActions, txn : Txns, user : Maybe(Users), amount : Nat]

\* What is stored of a case is complete; pc, current and st agree on whether
\* there is a request; it works on a transaction until it closes; retry_count
\* stays within max_retries; a dead server holds no calls and no drafts.
TypeOK ==
  /\ world \in [Txns -> WorldRecords]
  /\ cases \in [Cases -> Maybe(AgentStates)]
  /\ pending \subseteq Cases /\ decided \subseteq Cases
  /\ pc \in PCs
  /\ IF pc = "idle" THEN current = None /\ st = None
                    ELSE current \in Cases /\ st \in AgentStates
  /\ pc \in WorkingPCs => st.txn \in Txns
  /\ failed \subseteq {"transaction", "ledger"}
  /\ retries \in 0..MaxRetries
  /\ reply \in {None, "created", "duplicate", "error"}
  /\ mcp \in {"up", "down"}
  /\ queue \in Seq(DraftCalls)
  /\ drafts \subseteq DraftCalls
  /\ mcp = "down" => queue = <<>> /\ drafts = {}

-----------------------------------------------------------------------------
(* Safety *)

\* The latest state of a case: the one a request works on, else the stored one.
StateOf(c) == IF c = current THEN st ELSE cases[c]

\* Drafts, and calls for drafts the server has yet to handle (a call whose
\* caller timed out among them).
DraftsAndCalls == drafts \cup {queue[i] : i \in DOMAIN queue}

MoneyDrafts == {d \in drafts : d.action \in MoneyActions}
MoneyCalls  == {d \in DraftsAndCalls : d.action \in MoneyActions}

\* "No draft is created before human approval" (approval_service.py:15), for
\* the drafts that move money and for calls that may still create one: the
\* case they name was approved, or is being approved, by a person.
NoMoneyWithoutApproval ==
  \A d \in MoneyCalls : StateOf(d.case).approval = "approved"

\* A draft that moves money rests on the evidence its case kept: it names the
\* case's transaction and complainant, no trusted sources disagreed, and the
\* money was out and the service failed with no refund in the way (refund), or
\* the bank had delivered it to a top-up still pending (force success).
MoneyIsJustified ==
  \A d \in MoneyCalls :
    LET s == StateOf(d.case)
        ev == s.evidence
    IN /\ d.txn = s.txn /\ d.user = s.user
       /\ ev.transaction # None /\ s.user \in {None, Owner[d.txn]}
       /\ ~HasConflict(ev, s.user)
       /\ d.action = "create_refund_request_draft" =>
            /\ WalletDebited(ev) /\ NoExistingRefund(ev.refund)
            /\ \/ ev.train # None /\ ProviderFailed(ev.train.status)
               \/ ev.utility # None /\ ProviderFailed(ev.utility)
       /\ d.action = "create_force_success_draft" =>
            /\ ev.transaction.status = "pending"
            /\ ev.recon = [bank |-> "success", money |-> TRUE]

\* The three records of where a case stands agree between requests and during
\* them: a case waits exactly if it is in _pending, it has a decision exactly
\* if it is in _decided, and it is never in both.
RegistersAgree ==
  /\ pending \cap decided = {}
  /\ \A c \in Cases :
       /\ c \in pending <=> cases[c] # None /\ cases[c].status = "waiting_approval"
       /\ c \in decided <=> cases[c] # None /\ cases[c].approval \in {"approved", "rejected"}

\* However many cases complain about a transaction, and whatever their timed
\* out calls still do, at most one draft of a kind moves its money.
OneMoneyDraftPerTransaction ==
  \A d, e \in MoneyDrafts : d.txn = e.txn /\ d.action = e.action => d = e

\* A case told that its draft duplicates another was told so because of another
\* case's draft, never because of its own, and that draft is still there.
DuplicateHasOriginal ==
  \A c \in Cases :
    cases[c] # None /\ cases[c].output = "duplicate_blocked" /\ mcp = "up" =>
      \E d \in MoneyDrafts :
        d.case # c /\ DraftKey(d) = DraftKey(DraftCall(c, cases[c]))

\* A case that reports a refund, force-success or response draft has it in the
\* store, with its own id on it, as long as the server lives.
ReportedDraftIsStored ==
  \A c \in Cases :
    /\ cases[c] # None /\ mcp = "up"
    /\ cases[c].output \in MoneyActions \cup {"draft_customer_response"}
    => DraftCall(c, cases[c]) \in drafts

-----------------------------------------------------------------------------
(* The inductive invariants behind the proofs of CaseFlow_proofs: IInv says *)
(* what a request may look like at each point, which the code never writes *)
(* down; DInv adds what the drafts rest on and what the cases report of    *)
(* them.                                                                   *)

\* While approve_case works on a case the case is still pending, and its
\* state says approved and no longer waits; while create_and_run works on one
\* nothing is stored of it, no decision is noted, a draft under way moves no
\* money, and it ends waiting exactly if the gate asked for a person.
RequestShape ==
  pc # "idle" =>
    IF current \in pending
    THEN /\ pc \in {"draft", "await", "close"}
         /\ st.approval = "approved"
         /\ pc = "close" => st.status # "waiting_approval"
    ELSE /\ cases[current] = None
         /\ pc # "close" => st.approval = None
         /\ pc = "close" => /\ st.approval \in {None, "pending"}
                            /\ st.status = "waiting_approval" <=> st.approval = "pending"
                            /\ st.status = "waiting_approval" => st.txn \in Txns
         /\ pc \in {"draft", "await"} => st.action \notin MoneyActions

\* What waits for a person is undecided and names a transaction.
PendingShape ==
  \A c \in pending : cases[c].approval = "pending" /\ cases[c].txn \in Txns

\* A call or a draft that moves money belongs to a case that exists.
MoneyCallsKnown == \A d \in MoneyCalls : StateOf(d.case) # None

IInv ==
  /\ TypeOK
  /\ RegistersAgree
  /\ RequestShape
  /\ PendingShape
  /\ MoneyCallsKnown
  /\ NoMoneyWithoutApproval

\* Every draft and every call is the one its case makes, cases make at most one
\* each, and a case still before its call has none.
CallsOfCases ==
  /\ \A d \in DraftsAndCalls :
       /\ StateOf(d.case) # None
       /\ d = DraftCall(d.case, StateOf(d.case))
       /\ d.case = current =>
            pc = "await" \/ (pc = "close" /\ st.status # "waiting_approval")
       /\ d.case \in pending => d.case = current
  /\ \A i, j \in DOMAIN queue : queue[i].case = queue[j].case => i = j
  /\ \A i \in DOMAIN queue, d \in drafts : queue[i].case # d.case

\* No two money drafts share a key, and none is about nothing.
MoneyKeysUnique ==
  /\ \A d, e \in MoneyDrafts : DraftKey(d) = DraftKey(e) => d = e
  /\ \A d \in MoneyDrafts : d.amount > 0

\* While evidence is gathered nothing is decided on it: the transaction in it
\* carries its owner, and a provider was asked only about a transaction found.
EvidenceShape ==
  pc \in {"transaction", "ledger", "provider", "refund", "recon", "retry", "decide"} =>
    LET ev == st.evidence IN
      /\ st.action = None
      /\ pc # "transaction" /\ ev.transaction # None
           => ev.transaction.user = Owner[st.txn]
      /\ pc = "provider" => ev.transaction # None
      /\ pc # "transaction" /\ (ev.train # None \/ ev.utility # None)
           => ev.transaction # None

\* What MoneyIsJustified asks of a case, as soon as its action is decided.
Justified(s) ==
  LET ev == s.evidence IN
    s.action \in MoneyActions =>
      /\ ev.transaction # None /\ s.user \in {None, Owner[s.txn]}
      /\ ~HasConflict(ev, s.user)
      /\ s.action = "create_refund_request_draft" =>
           /\ WalletDebited(ev) /\ NoExistingRefund(ev.refund)
           /\ \/ ev.train # None /\ ProviderFailed(ev.train.status)
              \/ ev.utility # None /\ ProviderFailed(ev.utility)
      /\ s.action = "create_force_success_draft" =>
           /\ ev.transaction.status = "pending"
           /\ ev.recon = [bank |-> "success", money |-> TRUE]

StatesJustified == \A c \in Cases : StateOf(c) # None => Justified(StateOf(c))

\* What a case in state s may report of its draft, given those in the store.
Reports(store, c, s) ==
  /\ s.output \in MoneyActions \cup {"draft_customer_response"}
       => s.output = s.action /\ DraftCall(c, s) \in store
  /\ s.output = "duplicate_blocked" =>
       \E d \in store : /\ d.action \in MoneyActions /\ d.case # c
                        /\ DraftKey(d) = DraftKey(DraftCall(c, s))

\* A case reports nothing before its request closes, nor while it waits; the
\* answer on its way is the one it will report; what was reported stays true.
ReportsShape ==
  /\ pc # "idle" /\ (pc = "close" => st.status = "waiting_approval")
       => st.output = None
  /\ \A c \in pending : cases[c].output = None
  /\ pc # "await" => reply = None
  /\ mcp = "up" =>
       /\ \A c \in Cases : StateOf(c) # None => Reports(drafts, c, StateOf(c))
       /\ reply = "created" =>
            Reports(drafts, current, [st EXCEPT !.output = st.action])
       /\ reply = "duplicate" =>
            Reports(drafts, current, [st EXCEPT !.output = "duplicate_blocked"])

DInv ==
  /\ IInv
  /\ CallsOfCases
  /\ MoneyKeysUnique
  /\ EvidenceShape
  /\ StatesJustified
  /\ ReportsShape

-----------------------------------------------------------------------------
(* Action properties *)

\* "Approved state is immutable after decision" (approval_service.py:16).
DecidedIsFinal ==
  [][\A c \in decided : c \in decided' /\ cases'[c] = cases[c]]_vars

\* A stored money draft is never overwritten or withdrawn; only the death of
\* the server loses it.
MoneyDraftsAreKept ==
  [][mcp' = "up" => MoneyDrafts \subseteq MoneyDrafts']_vars

\* The steps a request may still take from where it is, in this round of reads,
\* and in the rounds its retries still allow.
StepsInRound ==
  [transaction |-> 10, ledger |-> 9, provider |-> 8, refund |-> 7, recon |-> 6, retry |-> 5,
   decide |-> 4, draft |-> 3, await |-> 2, close |-> 1]

StepsLeft == IF pc = "idle" THEN 0 ELSE StepsInRound[pc] + 6 * (MaxRetries - retries)

\* Whatever fails, times out or dies, each step of a request uses up one of a
\* fixed number, and no other step changes the request: retry_or_dead_letter
\* cannot go round for ever (retry_dead_letter.py).
WorkIsBounded ==
  [][pc # "idle" => \/ UNCHANGED <<pc, current, st, failed, retries>>
                    \/ StepsLeft' \in 0 .. (StepsLeft - 1)]_vars

-----------------------------------------------------------------------------
(* The approval protocol this implements *)

\* A case being approved counts as approved from the moment the person said so.
Phase(c) ==
  IF c = current /\ c \in pending THEN "approved"
  ELSE IF cases[c] = None THEN "new"
  ELSE IF cases[c].status = "waiting_approval" THEN "waiting"
  ELSE IF cases[c].approval \in {"approved", "rejected"} THEN cases[c].approval
  ELSE "closed"

Protocol ==
  INSTANCE TwoPhaseApproval WITH
    Keys <- {IdempotencyKey(t, a, Amount[t]) : t \in Txns, a \in MoneyActions},
    phase <- [c \in Cases |-> Phase(c)],
    drafted <- {<<d.case, DraftKey(d)>> : d \in MoneyDrafts}

\* The case pipeline, with its faults, implements the two-phase protocol.
ImplementsProtocol == Protocol!Spec

-----------------------------------------------------------------------------
(* Liveness *)

\* A request always comes to an end, with the tools failing, the server hung
\* or dead: retries are bounded and no call waits for ever.
RequestReturns == pc # "idle" ~> pc = "idle"

\* Without faults an approved money action ends in a draft for its transaction,
\* its own or the one it duplicates.
ApprovedMoneyLands ==
  \A c \in Cases :
    (pc = "draft" /\ current = c /\ st.action \in MoneyActions)
      ~> (/\ cases[c] # None
          /\ \E d \in MoneyDrafts : DraftKey(d) = DraftKey(DraftCall(c, cases[c])))

-----------------------------------------------------------------------------
(* What the code's own words promise and its behaviour does not keep *)

\* "Creates the draft and closes the case" (approval_service.py:95): a case a
\* person approved for a money action ends with its draft, or blocked by an
\* earlier one.
ApprovalCreatesDraft ==
  \A c \in decided :
    cases[c].approval = "approved" /\ cases[c].action \in MoneyActions
      => cases[c].output \in {cases[c].action, "duplicate_blocked"}

\* "A refund request draft can ONLY be created when ... refund_status ==
\* not_requested" (refund_rules.py:3-6).
RefundOnlyIfNotRequested ==
  \A c \in Cases :
    cases[c] # None /\ cases[c].output = "create_refund_request_draft"
      => cases[c].evidence.refund = "not_requested"

\* The refund tool lists an "existing refund status check" among its safety
\* checks (draft_action_tools.py:149-152): it never drafts a refund for a
\* transaction whose refund is requested, approved or executed at that time.
NoDraftOverExistingRefund ==
  [][\A d \in drafts' \ drafts :
       ~IsDuplicateAction(d.action, world[d.txn].refund)]_vars

\* "For wallet_topup, amount comes from transaction" (recommendation.py:27): the
\* amount a person approves is the amount that is then drafted.
AmountIsTheApprovedOne ==
  \A d \in MoneyCalls : d.amount = StateOf(d.case).packet

\* "user_id: The user who owns the transaction" (draft_action_tools.py:157).
DraftNamesOwner == \A d \in MoneyDrafts : d.user = Owner[d.txn]
=============================================================================
