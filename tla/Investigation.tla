---------------------------- MODULE Investigation ----------------------------
(***************************************************************************)
(* A chat ticket in the hands of the staff (api/ticket_investigation.py    *)
(* and the staff endpoints of api/chat_handoff.py).                        *)
(*                                                                         *)
(* The chat files a ticket with what its case proposes, and files it again *)
(* whenever the customer goes on.  Whenever someone opens the ticket it is *)
(* investigated anew: its entity is found, its records are read, the rule  *)
(* engine decides on them and the finding is folded onto the ticket,       *)
(* whatever its status.  The staff then decide.  Each endpoint runs to     *)
(* completion; between two of them the records and the ticket change.      *)
(*                                                                         *)
(* When the chat files a ticket is the matter of ChatDesk, and how criteria *)
(* select transactions that of CaseResolver: here criteria are the set of  *)
(* transactions they fit.                                                  *)
(***************************************************************************)
EXTENDS CaseRules, Sequences, FiniteSets

Accounts == INSTANCE AccountRules

CONSTANTS
  Staff,        \* staff members
  Txns,         \* transactions
  People,       \* wallet users and merchants
  Owner,        \* Owner[t]: the person a transaction belongs to
  Histories,    \* Histories[e]: the bundles of records an entity goes through
  Conversations, \* each the set of ways one chat may file its ticket
  MaxDecisions  \* bound on the decisions taken on the ticket

TransactionWorkflows == {"wallet_topup", "train_ticket", "utility_bill"}
Workflows == TransactionWorkflows \cup {"fraud_account_lock", "merchant_settlement_delay"}

\* EvidenceBundle, with the fields of both rule modules.
TransactionFields == {"transaction", "ledger", "train", "utility", "refund", "recon"}
AccountFields == {"account", "fraud"}
SettlementFields == {"profile", "bank", "settlement", "payout", "batch", "receipt"}
Fields == TransactionFields \cup AccountFields \cup SettlementFields
NoRecords == [f \in Fields |-> None]

\* The records of one entity, each None where the system of record has none.
Bundles ==
  [transaction : Maybe(Transactions(People)), ledger : Maybe(Ledgers),
   train : Maybe(TrainStatuses), utility : Maybe(ProviderStatusValue),
   refund : Maybe(RefundStatusValue), recon : Maybe(Reconciliations),
   account : Maybe(Accounts!AccountsOf(People)), fraud : Maybe(Accounts!FraudCasesOf(People)),
   profile : Maybe(Accounts!ProfilesOf(People)), bank : Maybe(Accounts!BankAccounts),
   settlement : Maybe(Accounts!LedgersOf(Nat)), payout : Maybe(Accounts!PayoutsOf(People, Nat)),
   batch : Maybe(Accounts!Batches), receipt : Maybe(Accounts!Receipts)]

ASSUME EntitiesAssumption ==
  /\ IsFiniteSet(Txns) /\ None \notin Txns /\ Owner \in [Txns -> People]
  /\ Histories \in [Txns \cup People -> Seq(Bundles)]
  /\ \A e \in Txns \cup People : Histories[e] # <<>>

\* The actions with a contract: all but manual_settlement_review, which falls
\* back on the default contract, like a ticket without an action.
Contracted ==
  ActionType \cup
  {"create_manual_payout_draft", "create_unlock_account_draft",
   "create_request_documents_response_draft", "request_bank_account_correction",
   "request_identity_correction", "send_unc_email_draft"}

TicketActions == Contracted \cup {"manual_settlement_review", ""}
Risks == {"unknown", "low", "medium", "high"}
Confidences == {"low", "medium", "high"}

\* What finalize_customer_chat_and_handoff takes from the session (complainant),
\* from the context (workflow, what was named or told, whether the chat still
\* asks, the confidence of its diagnosis) and from the case.
Filings ==
  [workflow : Workflows \cup {""}, complainant : Maybe(People),
   named : Maybe(Txns \cup People), criteria : Maybe(SUBSET Txns), asking : BOOLEAN,
   confidence : Confidences, action : TicketActions, approval : BOOLEAN, risk : Risks]

ASSUME ConversationsAssumption == \A c \in Conversations : c \subseteq Filings
ASSUME BoundAssumption == MaxDecisions \in Nat

VARIABLES
  at,      \* how far along its history each entity's records are
  ticket,  \* the ticket
  basis,   \* ghost: what its last investigation read, and of what
  screen   \* what each staff member was last shown

vars == <<at, ticket, basis, screen>>

Basis(kind, entity, ev) == [kind |-> kind, entity |-> entity, ev |-> ev]
AsFiled == Basis("filed", None, NoRecords)
Unread == Basis("unread", None, NoRecords)

-----------------------------------------------------------------------------
(* Filing *)

\* _resolve_status
StatusFiled(f) ==
  IF f.approval THEN "pending_approval"
  ELSE IF f.asking THEN "need_more_info"
  ELSE IF f.action = "no_action" THEN "closed_no_action"
  ELSE "pending_review"

\* The chat's part of a ticket replaces all but the team and the audit log.
FileAs(f, t) ==
  [filed |-> f, action |-> f.action, approval |-> f.approval, risk |-> f.risk,
   confidence |-> f.confidence, missing |-> {}, status |-> StatusFiled(f),
   team |-> t.team, log |-> t.log]

Blank == [team |-> "", log |-> <<>>]

Init ==
  /\ at = [e \in Txns \cup People |-> 1]
  /\ \E c \in Conversations : \E f \in c : ticket = FileAs(f, Blank)
  /\ basis = AsFiled
  /\ screen = [s \in Staff |-> None]

\* finalize_customer_chat_and_handoff of a ticket that exists
FileAgain ==
  /\ \E c \in Conversations :
       ticket.filed \in c /\ \E f \in c : ticket' = FileAs(f, ticket)
  /\ basis' = AsFiled
  /\ UNCHANGED <<at, screen>>

-----------------------------------------------------------------------------
(* The entity a ticket is about *)

Outcome(entity, how) == [entity |-> entity, how |-> how]

Matching(f) == {x \in f.criteria : Owner[x] = f.complainant}

\* _resolve_transaction_id.  Criteria that cannot be parsed fit nothing; a
\* transaction named by its id is taken whoever owns it.
FindTransaction(f) ==
  IF f.named # None THEN {Outcome(f.named, "direct_id")}
  ELSE LET found == Matching(f)
       IN {Outcome(None, "search_error")} \cup
          IF found = {} THEN {Outcome(None, "no_match")}
          ELSE IF Cardinality(found) > 1 THEN {Outcome(None, "multiple_candidates")}
          ELSE {Outcome(x, "resolved_by_search") : x \in found}

\* The trusted complainant comes before what the customer wrote.
FindPerson(f) ==
  {Outcome(IF f.complainant # None THEN f.complainant ELSE f.named, "direct_identity")}

FindEntity(f) ==
  IF f.workflow \in TransactionWorkflows THEN FindTransaction(f) ELSE FindPerson(f)

\* _has_resolvable_entity
HasResolvableEntity(f) ==
  /\ f.workflow \in Workflows
  /\ \/ f.named # None
     \/ /\ f.complainant # None
        /\ f.workflow \in TransactionWorkflows => f.criteria # None

-----------------------------------------------------------------------------
(* Reading its records *)

\* fetch_evidence: which records it asks for, when it got those in up.  The
\* transaction, once read, names its provider; a top-up has no ledger entry; a
\* receipt is found by its payout, a merchant by itself.
Asked(workflow, up) ==
  CASE workflow \in TransactionWorkflows ->
         {"transaction", "ledger", "refund", "recon"} \cup
         (IF "transaction" \in up THEN {"train", "utility"} ELSE {})
    [] workflow = "fraud_account_lock" -> AccountFields
    [] workflow = "merchant_settlement_delay" ->
         SettlementFields \ (IF "payout" \in up THEN {} ELSE {"receipt"})

ReadWith(workflow, records, up) ==
  [f \in Fields |-> IF f \in Asked(workflow, up) \cap up THEN records[f] ELSE None]

\* Any of the records there are may fail to be read.
Evidence(workflow, records) ==
  {ReadWith(workflow, records, up) :
     up \in SUBSET {f \in Asked(workflow, Fields) : records[f] # None}}

-----------------------------------------------------------------------------
(* The finding *)

Sources ==
  [wallet_topup |-> {"transaction", "recon"},
   train_ticket |-> {"transaction", "ledger", "train", "refund"},
   utility_bill |-> {"transaction", "ledger", "utility", "refund"},
   fraud_account_lock |-> AccountFields,
   merchant_settlement_delay |-> SettlementFields]

KeySources ==
  [wallet_topup |-> {"transaction", "recon"}, train_ticket |-> {"transaction", "train"},
   utility_bill |-> {"transaction", "utility"}, fraud_account_lock |-> AccountFields,
   merchant_settlement_delay |-> {"profile"}]

Missing(workflow, ev) == {f \in Sources[workflow] : ev[f] = None}

Confidence(workflow, resolved, ev, action) ==
  IF ~resolved \/ KeySources[workflow] \cap Missing(workflow, ev) # {} THEN "low"
  ELSE IF action \in {"manual_review", "manual_settlement_review"} THEN "medium"
  ELSE "high"

MoneyMoves == MoneyActions \cup {"create_manual_payout_draft"}

DeriveRisk(workflow, action, approval) ==
  IF workflow = "fraud_account_lock" THEN "high"
  ELSE IF action \in MoneyMoves \/ approval THEN "medium"
  ELSE "low"

\* apply_rules, on a bundle whose conflicts nobody has looked for.
Decide(workflow, ev) ==
  CASE workflow \in TransactionWorkflows -> ApplyRules(workflow, ev, FALSE)
    [] workflow = "fraud_account_lock" -> Accounts!DecideAccountLock(ev.account, ev.fraud)
    [] workflow = "merchant_settlement_delay" ->
         Accounts!DecideSettlement(
           [profile |-> ev.profile, bank |-> ev.bank, ledger |-> ev.settlement,
            payout |-> ev.payout, batch |-> ev.batch, receipt |-> ev.receipt])

Unresolved(how) ==
  [resolved |-> FALSE, decision |-> Decision("", FALSE), risk |-> "unknown",
   confidence |-> "low", missing |-> {how}]

\* A rule engine that raised leaves a finding without an action; the records
\* were read all the same (ruled = FALSE).
Resolved(workflow, ev, ruled) ==
  LET d == IF ruled THEN Decide(workflow, ev) ELSE Decision("", FALSE)
      any == Missing(workflow, ev) # Sources[workflow]
  IN [resolved |-> any, decision |-> d, risk |-> DeriveRisk(workflow, d.action, d.approval),
      confidence |-> Confidence(workflow, any, ev, d.action),
      missing |-> Missing(workflow, ev)]

WithDecision(t, action, approval) == [t EXCEPT !.action = action, !.approval = approval]

\* Faulty variant: what could not be read leaves the ticket as it was.
FoldResolvedOnly(t, f) ==
  LET noted == [t EXCEPT !.missing = f.missing, !.confidence = f.confidence]
  IN IF f.resolved
     THEN WithDecision([noted EXCEPT !.risk = f.risk],
            IF f.decision.action # "" THEN f.decision.action ELSE t.action,
            f.decision.approval)
     ELSE noted

\* _apply_investigation_to_ticket.  An action is replaced only by another one;
\* the risk of what was read is always known.
Fold(t, f) ==
  LET noted == [t EXCEPT !.missing = f.missing, !.confidence = f.confidence]
  IN IF f.resolved
     THEN WithDecision([noted EXCEPT !.risk = f.risk],
            IF f.decision.action # "" THEN f.decision.action ELSE t.action,
            f.decision.approval)
     ELSE WithDecision(noted, "manual_review", FALSE)

-----------------------------------------------------------------------------
(* The contract of an action: what its approval means *)

Team(action) ==
  CASE action = "create_manual_payout_draft"  -> "Settlement/Ops"
    [] action = "create_unlock_account_draft" -> "Risk/Ops"
    [] OTHER                                  -> "CS/Ops"

\* The actions whose contract has a button that says "approve".
Approvable ==
  {"create_force_success_draft", "create_reconciliation_ticket_draft",
   "create_refund_request_draft", "create_manual_payout_draft",
   "create_unlock_account_draft", "manual_review"}

Button(action, approval) ==
  IF approval /\ (action \in Approvable \/ action \notin Contracted)
  THEN "approve" ELSE "confirm"

AuditEvent(action) == IF action \in Contracted THEN action ELSE "generic"

\* _to_detail: the part of it a decision is made on.
Detail(t) ==
  [action |-> t.action, approval |-> t.approval, button |-> Button(t.action, t.approval)]

-----------------------------------------------------------------------------
(* Steps *)

\* Whose records an investigation of the chat's ticket can read.
Concerned ==
  UNION {IF f.criteria = None THEN {f.named, f.complainant} ELSE f.criteria :
           f \in UNION {c \in Conversations : ticket.filed \in c}}

\* The records of an entity move on; nobody would notice it of other entities.
RecordsChange(e) ==
  /\ e \in Concerned
  /\ at[e] < Len(Histories[e])
  /\ at' = [at EXCEPT ![e] = @ + 1]
  /\ UNCHANGED <<ticket, basis, screen>>

Show(s) == screen' = [screen EXCEPT ![s] = Detail(ticket')]

\* A ticket that names nothing to look for is shown as it is, and so is one whose
\* investigation raises what none of its own handlers catches.
OpenUninvestigated(s) == UNCHANGED <<ticket, basis, at>> /\ Show(s)

\* No entity was found, or reading its records raised.
FindNothing(how) ==
  /\ ticket' = Fold(ticket, Unresolved(how))
  /\ basis' = Unread

ReadRecords(e) ==
  \E ev \in Evidence(ticket.filed.workflow, Histories[e][at[e]]), ruled \in BOOLEAN :
    /\ ticket' = Fold(ticket, Resolved(ticket.filed.workflow, ev, ruled))
    /\ basis' = Basis("read", e, ev)

Investigate(s, o) ==
  /\ IF o.entity = None THEN FindNothing(o.how)
     ELSE FindNothing("fetch_error") \/ ReadRecords(o.entity)
  /\ UNCHANGED at /\ Show(s)

\* GET /chat-tickets/{id}
Open(s) ==
  \/ OpenUninvestigated(s)
  \/ /\ HasResolvableEntity(ticket.filed)
     /\ \E o \in FindEntity(ticket.filed) : Investigate(s, o)

DecisionStatus ==
  [approve |-> "approved", reject |-> "closed_no_action", request_info |-> "need_more_info"]

\* _decide: the contract is that of the ticket's action now.
DecideTicket(s, d) ==
  /\ Len(ticket.log) < MaxDecisions
  /\ ticket' =
       [ticket EXCEPT !.status = DecisionStatus[d],
          !.team = IF d = "approve" THEN Team(ticket.action) ELSE @,
          !.log = Append(@, [actor |-> s, action |-> d,
                             event |-> IF d = "approve" THEN AuditEvent(ticket.action) ELSE d])]
  /\ UNCHANGED <<at, basis>> /\ Show(s)

StaffActs(s) == Open(s) \/ \E d \in DOMAIN DecisionStatus : DecideTicket(s, d)

Next ==
  \/ FileAgain
  \/ \E e \in Txns \cup People : RecordsChange(e)
  \/ \E s \in Staff : StaffActs(s)

Spec == Init /\ [][Next]_vars

-----------------------------------------------------------------------------
(* Properties *)

Decided == {"approved", "closed_no_action", "need_more_info"}

LogEntries ==
  [actor : Staff, action : DOMAIN DecisionStatus,
   event : Contracted \cup {"generic", "reject", "request_info"}]

TicketType ==
  [filed : Filings, action : TicketActions, approval : BOOLEAN, risk : Risks,
   confidence : Confidences,
   missing : SUBSET (Fields \cup {"no_match", "multiple_candidates", "search_error",
                                  "fetch_error"}),
   status : Decided \cup {"pending_review", "pending_approval"},
   team : {"", "CS/Ops", "Risk/Ops", "Settlement/Ops"}, log : Seq(LogEntries)]

TypeOK ==
  /\ at \in [Txns \cup People -> Nat]
  /\ \A e \in Txns \cup People : at[e] \in 1 .. Len(Histories[e])
  /\ ticket \in TicketType
  /\ basis \in [kind : {"filed", "unread", "read"}, entity : Maybe(Txns \cup People),
                ev : Bundles]
  /\ DOMAIN screen = Staff

\* What each action that moves money has to rest on, said without the rules.
Justifies(ev, action) ==
  CASE action = "create_refund_request_draft" ->
         /\ ev.ledger # None /\ ev.ledger.has_user_debit
         /\ \/ ev.train # None /\ ProviderFailed(ev.train.status)
            \/ ev.utility = "failed"
         /\ ev.refund \notin {"requested", "approved", "executed"}
    [] action = "create_force_success_draft" ->
         /\ ev.transaction # None /\ ev.transaction.status = "pending"
         /\ ev.recon # None /\ ev.recon.bank = "success" /\ ev.recon.money = TRUE
    [] action = "create_manual_payout_draft" ->
         /\ ev.settlement # None /\ Accounts!OrZero(ev.settlement.net) > 0
         /\ ev.payout = None \/ ev.payout.status \notin {"processing", "success"}
    [] action = "create_unlock_account_draft" ->
         /\ ev.account # None /\ ev.account.status = "locked"
         /\ ev.fraud # None /\ ev.fraud.signals \cap Accounts!Dangerous = {}

Risky == MoneyMoves \cup {"create_unlock_account_draft"}

\* A ticket that offers to approve a movement of money or an unlocked account has
\* a reason: the records its last investigation read support it, or nobody has
\* investigated since the chat last filed it and the offer is the one of its
\* case.  However readings and rules failed, whoever opened and decided the
\* ticket, and however often the chat filed it again, no offer is left over from
\* an earlier reading or an earlier filing.
ApprovalHasItsReason ==
  (ticket.action \in Risky /\ Button(ticket.action, ticket.approval) = "approve")
  => \/ basis.kind = "read" /\ Justifies(basis.ev, ticket.action)
     \/ /\ basis.kind = "filed"
        /\ ticket.filed.action = ticket.action /\ ticket.filed.approval = TRUE

\* README.md:235 "Conflict = manual review - Conflicting sources: no diagnosis,
\* route to human".  An investigation never looks for conflicts.
ConflictGoesToAPerson ==
  HasConflict(basis.ev, ticket.filed.complainant) => ticket.action = "manual_review"

\* chat_handoff.py:638 "Each contract defines the *semantics* of what
\* approve/review means for that action type": an approval is recorded for the
\* action its author was shown.
ApprovesWhatWasShown ==
  [][\A s \in Staff :
       LET entry == ticket'.log[Len(ticket'.log)]
       IN (/\ Len(ticket'.log) > Len(ticket.log) /\ screen[s] \notin {None}
           /\ entry.actor = s /\ entry.action = "approve")
          => entry.event = AuditEvent(screen[s].action)]_vars

\* chat_handoff.py:1461 "Assign next owner team on approve": an approved ticket
\* is with the team its action belongs to.
TeamOfTheAction == ticket.status = "approved" => ticket.team = Team(ticket.action)

\* chat_handoff.py:639 "Button labels are conditional on approval_required
\* (true: approve; false: confirm)".
ButtonSaysApproval ==
  \A s \in Staff :
    \/ screen[s] \in {None}
    \/ (screen[s].button = "approve") = screen[s].approval

\* README.md:234 "Human approval required - All money-affecting actions need
\* approval".  A rule engine that raises takes the approval and leaves the action.
MoneyAsksForApproval ==
  \A s \in Staff :
    screen[s] \in {None} \/ (screen[s].action \in MoneyMoves => screen[s].approval)
=============================================================================
