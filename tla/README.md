# A TLA+ model of the fintech back office

The repository is the back office of a payment wallet. A customer complains
("the money left my wallet and there is no ticket"); the system reads the
trusted records, decides by fixed rules what should happen, and drafts it. Money
is never moved by the program, it only ever drafts a request that does, and
every such draft is supposed to have been approved by a person first. Around
this pipeline there is a customer chat, which finds the record a complaint is
about, opens a case for it and hands a ticket to the staff, and a staff desk,
which investigates and decides those tickets. This directory models that
machinery in TLA+, checks it with TLC and proves what matters most with TLAPS.

Paths below are relative to `src/src/fintech_agent/` unless they start with
another directory of the repository.

## 1. Inventory

| Part | State it keeps | Operations | Interacts with | Covered by |
|---|---|---|---|---|
| `api/service.py`, `api/cases.py` (CaseService) | `_cases`: the latest AgentState of every case | create_and_run, approve_case, reject_case, reads | graph, ApprovalService | CaseFlow, AccountCases |
| `workflows/approval_service.py` | `_pending`, `_decided` | register_pending, approve_case, reject_case | create_draft and audit_and_close nodes | CaseFlow, TwoPhaseApproval |
| `graph/`, `nodes/` | the AgentState of one run | 14 nodes, 8 conditional edges | MCP client, rules | CaseFlow (transactions), AccountCases (locks and settlements), CaseTickets (extraction, claims, ticket) |
| `rules/` for tickets, bills, top-ups; refund, conflict, risk and idempotency rules | none | decision engines | called by nodes and tools | CaseRules, RuleTables |
| `rules/` for fraud locks and merchant settlement | none | decision engines | called by nodes, investigation | AccountRules, AccountTables |
| `rules/claim_verifier.py` | none | a verdict per claim | graph (never blocks) | ClaimVerifier, CaseTickets |
| `llm/extractor.py`, regex and model extraction | none | what a text is read as | graph | ComplaintIntake |
| `llm/ticket_builder.py`, `schemas/resolution_ticket.py` | none | the resolution ticket of a case | generate_response | ResolutionTicket, CaseTickets |
| `mcp_client/` | one session to a child process | call_tool_sync with a 30 s limit | MCP server | CaseFlow |
| `mcp_server/`, `tools/draft_action_tools.py` | DraftStore in the server's memory | read tools, draft tools | repositories | CaseFlow, AccountCases |
| systems of record (`supabase/`) | transactions, ledgers, provider, refund, fraud, settlement, payout rows | changed by others | read by the server | CaseFlow, AccountCases, Investigation (external) |
| `api/customer_chat.py`, `api/case_transition.py` | `_session_context`: a context per session, dropped after 180 s idle | customer_chat, customer_chat_handoff | CaseService, tickets | ChatDesk |
| `api/customer_claims.py` | the claims, evidence and contradictions of a context | merge, bind, clear | chat, tickets | CustomerClaims |
| `api/generic_resolver.py`, `workflows/workflow_registry.py`, `api/account_verifier.py` | none | resolve a complaint by registry entry, verify the result | chat | CaseResolver, WorkflowRegistry |
| `api/chat_handoff.py` | ChatTicketStore | finalize, read, approve, reject, request-info | chat contexts, investigation | ChatDesk, Investigation |
| `api/ticket_investigation.py` | none (writes into tickets) | investigate | read tools, rules | Investigation |
| `api/mock_auth.py` | mock sessions | login, resolve, logout | chat | an input of ChatDesk |
| `audit/`, `api/chat_trace.py` | append-only logs | log | everything | not modelled: nothing decides by them |
| `llm/` otherwise, `messages/`, `safety/` | none | wording and filtering of texts | graph, chat | not modelled: see section 6 |
| `main.py`, `config.py`, health, models | settings | start | | not modelled |
| `frontend/`, `scripts/`, `data/` | none of the back office's | | REST | not modelled |

**What is hard here.** The endpoints are `async def` with synchronous bodies,
so API requests run one at a time; the difficulty is not threads but time. A
case waits for a person while the records it was judged by move on. A draft call
is abandoned after 30 s and still executed. The store that holds the
idempotency keys dies with its process. Reads fail one by one, a failed read
looks like a missing record, and the program goes on with what it has. A chat's
context may be dropped, replaced or reset between any two messages while its
case, its claims and its ticket live elsewhere. A ticket is rewritten whenever
somebody looks at it. `PROJECT.json` lists each of these with the line where it
bites and the properties that watch it.

**What makes each part correct.**

- Approval: no money draft without an approval; one decision per case; the three
  registers (`_cases`, `_pending`, `_decided`) tell one story.
- Drafts: at most one money draft of a kind per transaction, never overwritten;
  what a case reports as drafted is in the store.
- Evidence: a draft rests on records that agree, about the right person,
  account, merchant and day.
- Graph: every request ends, whatever fails.
- Rules: the cascades of early returns implement the documented matrices; the
  approval flag agrees with the risk class; more suspicion never helps; a
  settlement is paid once and for a reason.
- Tickets of a case: amounts come from the systems; a disputed amount is not
  called actionable.
- Chat: a diagnosis belongs to the case it is used on; customers do not cross;
  claims are superseded, never rewritten.
- Resolver: own records only; a mismatch is reported as one.
- Desk: what the staff did is kept and on record; an approval of money asked for
  on a ticket rests on what was last read, or is what the case itself proposed.

## 2. Modules

| Module | What it is |
|---|---|
| `CaseRules` | the pure rule engine of the transaction workflows: conflicts, refund eligibility, three decision engines, risk, idempotency |
| `AccountRules` | the same for locked accounts and late settlements: two decision engines and the records they read |
| `RuleTables`, `AccountTables` | the engines against their documented matrices and promises, over every combination of the values they tell apart |
| `DecisionTables` | both tables as one specification, the choice of `nodes/rule_decision.py` |
| `TwoPhaseApproval` | the abstract promise of the approval service: submit, judge once, commit at most once per key, possibly lose the store |
| `CaseFlow` | API process, MCP session, MCP server with its draft store, and systems of record, for the transaction workflows |
| `AccountCases` | the lock and settlement cases: naming the customer, reading records while they move, approval, draft |
| `ComplaintIntake` | what the regexes and the model make of a text, and what is then missing |
| `ClaimVerifier` | the verdict on each claim and the summary flags |
| `ResolutionTicket` | the ticket built from decision, evidence and claims |
| `CaseTickets` | the graph from complaint to ticket and decision, composed of the three before and both rule modules |
| `WorkflowRegistry` | the registered workflows |
| `CaseResolver` | one lookup and its verification on an account and a message, each read failing by itself |
| `CustomerClaims` | claims, evidence, contradictions and ticket copies of one chat |
| `ChatDesk` | chats, sessions, cases, tickets and staff decisions |
| `TicketRecord` | the abstract promise of the staff desk: a ticket is filed once and its record is the decisions made of it |
| `Investigation` | a ticket the chat files again and several members of the staff open and decide |
| `MC...` | the instances for TLC |
| `CaseFlow_proofs` | types, registers, approval; what drafts rest on, their keys, what cases report; that CaseFlow implements TwoPhaseApproval |
| `DecisionTables_proofs` | the promises and matrices of the five engines |
| `AccountCases_proofs` | lock and settlement cases: approved drafts, of the reviewed account, of the ledger; causes of a second payout |
| `CaseTickets_proofs` | intake and tickets: what is missing, amounts, what escalates |
| `CaseResolver_proofs` | what a lookup may answer |
| `CustomerClaims_proofs` | the history of claims and its contradictions |
| `ChatDesk_proofs` | contexts, cases and tickets of the chats |
| `Investigation_proofs` | what an offer of approval rests on, and that the log is the decisions |

The parts meet through small interfaces: what one module takes as an input,
another one computes. `ChatDesk` takes the outcome of a graph run
(`CaseFlow`, `AccountCases`), of a lookup (`CaseResolver`) and of an
investigation (`Investigation`) from sets of such outcomes; `CustomerClaims` is
the part of a context `ChatDesk` leaves out. `Investigation` and `CaseTickets`
use the decision engines themselves.

### How CaseFlow corresponds to the code

| Variable | Code |
|---|---|
| `world` | rows of the tables the read tools look up, one record per transaction |
| `cases`, `pending`, `decided` | `CaseService._cases`, keys of `ApprovalService._pending` and `_decided` |
| `pc`, `current`, `st`, `failed`, `retries` | the request in progress: where it is, its case, its AgentState, the critical tools that failed (`tool_results`), `retry_count` |
| `reply` | the answer of the server that is on its way to the client |
| `mcp`, `queue`, `drafts` | the server process, its unhandled draft calls, its DraftStore |

| Action | Code |
|---|---|
| `CreateCase` | `create_and_run` through `case_intake`, `extract_info`, `missing_info_handler` |
| `FetchTransaction` ... `FetchReconciliation` | the MCP reads of `fetch_evidence`, each an own step because records may change between them |
| `RetryOrDeadLetter` | `retry_or_dead_letter` and its edge |
| `Decide` | `detect_conflict`, `route_workflow`, `apply_rules`, `recommend_action`, `approval_gate` and the edges between them; they touch only the agent state, so one step |
| `DraftNothing`, `SendDraftCall`, `CallDeadServer`, `ReceiveReply`, `Timeout` | `create_draft` and `call_tool_sync` |
| `FinishCreate`, `FinishApprove` | `audit_and_close`, then the stores of `create_and_run` or `approve_case` |
| `Approve`, `Reject` | the first half of `approve_case`; the whole of `reject_case` |
| `HandleDraftCall`, `Crash` | the draft tools; the end of the server process |
| `RefundMoves`, `ProviderMoves`, `BankMoves` | what other teams and systems do to the records (external) |

A step of the model is the longest stretch of code no other party can see into.
`Approve` leaves the case in `pending` until `FinishApprove`, as the code does:
during the draft call a case is pending in the register and approved in its
state. A second request cannot start meanwhile: the handlers block the event
loop.

Abstractions. A complaint is what the extractor reads out of it (transaction,
service, user). Amounts: a transaction's amount, and the wallet debit is taken
to be that amount. A retried fetch rebuilds the whole bundle, as in the code.
A restart of the API process loses every variable but `world` and is the initial
state again; it is not an action.

### How AccountCases corresponds to the code

`cases` is CaseService's store; `req` and `pc` are the request in progress and
the tool call it is at; `accounts`, `frauds`, `ledgers`, `payouts`, `receipts` and
`batches` are the rows of the systems of record. A payout that failed and is
tried again keeps its row or is followed by a second one, since nothing in the
table makes the day unique: `retried` are the days with an old row beside
`payouts`, and `latest` is the day of the row that was created last. `Identify` tries the ways a
user is named in the order of `_fetch_fraud_evidence`; each `Read...` action is
one tool call of `_fetch_fraud_evidence` or `_fetch_merchant_settlement_evidence`
with the repository's choice of a row (of the payouts of a day any, because that
query takes one row in no order; without a day the payout created last; the
ledger of the day or the newest), and may come back empty because the query failed. `Decide` is
`apply_rules` to `approval_gate` and the store; `Approve` and `Reject` are the
approval service, the first with the draft made of the evidence of the first
phase. `RiskReviews`, and the moves of days, payouts and batches, belong to
other systems. The MCP session is CaseFlow's matter: here a draft call answers
or fails.

### How the chat modules correspond to the code

`ChatDesk`: `chats` is `_session_context`, `idle` the sessions older than the
limit, `live` the session repository, `cases` CaseService and the approval
register, `tickets` the ChatTicketStore by its deduplication key. Each way a
message can end is one action (small talk, a secret, a request for a person, a
refusal, a disputed amount, not found, several candidates, a case opened or
failed to open, a follow-up), and every action starts with the same prefix:
the context is looked up (and dropped if idle), tested for a new issue or a
switch, and the given fields are merged. `Finalize` is
`finalize_customer_chat_and_handoff`; `OpenTicket`, which leaves a
ticket as it is when there is nothing to investigate, and `DecideTicket` are the
staff endpoints; `DecideCase` the approval endpoints of the case.

`CustomerClaims` has one context and its filed tickets; its actions are the
places of `customer_chat` that merge, bind, clear or copy claims.
`CaseResolver` fixes the records, the session and one reading of a message and
then takes two steps, `Resolve` and `VerifyIssue`, which resolves the message a
second time. Five repository calls fail independently in each of the two
(`failed` keeps those of the first). `claim` is the amount among the customer's
latest claims, which the verifier compares with the record; a case that is opened
takes it away while the reading goes on with the amount for its search.

`Investigation` has the ticket, how far each entity's records have moved (`at`),
what the ticket's action rests on (`basis`, a history variable: the last filing,
an investigation that read nothing, or one that read these records), and the
`screen` of each member of the staff. A conversation is the set of ways one chat
may file its ticket (`filed` is the last): `FileAs` takes action, approval and risk
from the case and `StatusFiled` the status, at the start and whenever `FileAgain`
files it anew, keeping only the team and the log. `Open` investigates, unless the
ticket names nothing to look for or the investigation breaks off; a rule engine
may fail after the records were read. `DecideTicket` and `RecordsChange` are the
other steps.

`CaseTickets` walks one complaint through the nodes of the graph, one action
per node (the workflow is that of the complaint's service or, if an id tells
none, of the service of the transaction that was read): `ExtractInfo`, `FetchEvidence`, `DetectConflict` with the claim verifier,
`ManualReview`, `RecommendAction` with the rules, `GenerateResponse` with the gate,
and `DecideApproval`, a person's decision.

## 3. Runs

| Run | Instance | What it shows |
|---|---|---|
| `train` | 2 cases, 1 ticket transaction, owner and stranger, 8 initial records, all records moving, timeout and crash, 1 retry | the safety properties of the pipeline, the refinement of `TwoPhaseApproval`, and that every request ends |
| `lands` | 2 cases, a bill and a top-up, 6 readings of a complaint (complete, without a user, by a stranger, without a transaction, with the wrong service), 6 initial records, failing reads, 3 retries | a request takes a bounded number of steps; an approved money action ends in a draft for its transaction |
| `decisions` | every combination of evidence the five engines tell apart: 67,477 states | engines = matrices, but for one row of the top-ups (`TopupFallback` in section 4); approval flag = risk class; suspicion never helps; paid once, for a reason, and a payout below the net amount reviewed |
| `accounts` | a case about one of 7 complaints, 2 users, 1 merchant, 2 settlement days, failing reads and draft calls, risk reviews, moving payouts and batches: 3.98 million states | what is drafted was approved, and is about the account, the merchant and the money that were judged; a second payout has one of four causes |
| `tickets` | 10 complaints, read by regex or model, every evidence with amounts 0, 1 and 2: 679,686 states | intake of a transaction or account case names what is looked up; the ticket's amounts are the systems'; a mismatch on money escalates |
| `claims` | one chat, up to 3 claims of an amount, one record | the newest claim is live, contradictions are backed, history is kept |
| `resolver` | 62 readings of a message, the amount on record as a claim or lost, all accounts of at most 2 transactions, sessions of a user, a merchant and nobody, five lookups failing separately: 32,489 questions, 495,057 states | own records only; mismatches are about the one record in question; an amount is answered; a claimed amount that differs is disputed, never confirmed |
| `desk` | 1 session with 2 chats, 2 workflows, 1 case with 4 outcomes, the staff opening tickets and deciding once | a diagnosis is of the case it stands by; the staff's work is kept: the refinement of `TicketRecord` |
| `desk_two` | 2 sessions that may expire, 1 case | cases, tickets and conversations do not cross |
| `investigation` | 2 members of the staff, 8 chats with 13 ways to file their tickets, 4 transactions, 3 people, records that move, reads and rules that fail: 130,189 states | an offer to approve money or an unlock rests on the last reading, or is the case's own and nobody has investigated since |

Two runs state what the repository's own words say and the code does not do; TLC
finds each violated:

| Run | Statement | What happens |
|---|---|---|
| `approval_drafts` | "Creates the draft and closes the case." (`workflows/approval_service.py:95`) | a failed draft call still files the case as approved, with no draft and no way to approve again |
| `settlement_unread` | "Never duplicate payout if payout is processing or success." (`rules/merchant_settlement_rules.py:26`) | a payout that could not be read counts as none, and a manual payout is drafted beside it |

**Bounds.** Two cases about one transaction are the smallest instance in which a
duplicate, an abandoned call of one case and the draft of another meet; a third
case meets the same keys again. One retry shows both branches of the retry node
with the crash; `lands` uses the code's three. Amounts: one above
and one below the high-risk threshold in CaseFlow; scores on both sides of 50
and 70, and a debt, nothing, and two payable sums for the engines. Lock and
settlement cases do not meet each other's records, and no case changes a record
another one reads, so one case at a time shows all of a case; two days are the
fewest for a record of the wrong day, and two users for the wrong account. One case and two chats of a session are the fewest
in which a context outlives, loses or changes its case; two sessions the fewest
in which they could cross. `MaxTalks` bounds the chats of a session and
`MaxDecisions` the decisions of the staff on the desk, or, in `investigation`,
on the ticket; `MaxHistory` the claims of a chat.
`investigation` uses the symmetry of the two members of the staff; it checks no
liveness. Nothing else is bounded: queues and stores are finite because every
case sends at most one draft call. `CHECK_DEADLOCK FALSE` is set where a system
may rightly stop: every case is closed, decided or waiting for a person, a
lookup has been verified, a chat has reached its bound.

**Fairness.** `ApiFairness` says that a request in progress takes its next step
when it can; a `Timeout` is one of those steps, which is what the 30 s limit
gives. It says nothing of the server, of people, or of other systems, and is
what `train` assumes when it asks whether every request ends with a server that
may hang or die. `ServerFairness`, assumed by `lands` only, says that a living
server handles the calls in its queue: an approved draft cannot land otherwise.

Every property of a passing run is paired, in `PROJECT.json`, with a faulty
variant of one definition that breaks it. The variants stand next to the
definitions they replace and are marked "Faulty variant". `train` checks
CaseFlow's type invariant; those of the other modules (`TypeOK`) are theorems.

## 4. Statements of the repository that the code does not keep

The modules state more of what docstrings, comments, tests and the repository's
README say than the two runs above. Each definition below is an invariant or
action property that TLC finds violated when it takes the place of the
properties of the configuration named (no other change unless one is given).
They stay in the modules because each marks an exposure that a change of
the code should close; none of the passing properties depends on them.

`Lands.cfg`; for `NoDraftOverExistingRefund`, `Train.cfg`:

- `RefundOnlyIfNotRequested`, `rules/refund_rules.py:79`: check_no_existing_refund returns eligible for a refund record that is None, which is also what a failed read yields, and for one that failed. The module says "A refund request draft can ONLY be created when ALL of these are true" ... "refund_status == not_requested" (refund_rules.py:3-6).
- `NoDraftOverExistingRefund`, `mcp_server/handlers.py:163`: handle_create_refund_request_draft passes no refund_status to the tool, so its check never blocks, and a refund requested while the case waits for approval is drafted a second time. The tool's docstring lists "3. existing refund status check" among its safety checks (draft_action_tools.py:149-152).
- `AmountIsTheApprovedOne`, `nodes/approval_gate.py:49`: approval_gate takes the packet's amount from the wallet ledger, which is never fetched for a top-up, so the person approves amount 0 while create_draft sends the transaction's amount. recommend_action does it right and says why: "For wallet_topup, amount comes from transaction (no wallet_ledger)" (recommendation.py:27).
- `DraftNamesOwner`, `nodes/draft_action.py:37`: create_draft sends the complainant's id, or UNKNOWN when the case has none, and the ownership check is skipped without an id; the refund draft of such a case names no owner. The tool documents the argument as "user_id: The user who owns the transaction." (draft_action_tools.py:157).

`DecisionTables.cfg`:

- `TopupFallback`, `rules/wallet_topup_rules.py:114`: A pending top-up whose bank status is neither success nor failed, with money known not to have arrived, gets draft_customer_response without approval. The matrix says "pending | * | * | manual_review (fallback)" (wallet_topup_rules.py:13). `DocumentedMatrices` claims that row for all other money.
- `MissingScoreIsReviewed`, `rules/fraud_account_lock_rules.py:82`: `risk_score or 0` reads a fraud record without a score as harmless and recommends to unlock the account. The matrix says "missing evidence       | *              | manual_review" (fraud_account_lock_rules.py:9).
- `PaysVerifiedOnly`, `rules/merchant_settlement_rules.py:270`: _is_bank_account_invalid names the bad statuses: an account whose verification_status is empty is usable, and a manual payout is drafted for it. The module says "Never payout if bank account is invalid, inactive, or not verified." (merchant_settlement_rules.py:25).

`Accounts.cfg`:

- `OneUnlockDraft` (with `Cases = {c1, c2}` and `Complaints <- AliceComplains`), `mcp_server/handlers.py:357`: handle_create_unlock_account_draft stores nothing and looks nothing up; two approved cases about one lock make two drafts. The server's README says "Idempotency checks prevent duplicate drafts" (mcp_server/README.md:60).
- `NeverDuplicatePayout` (with `Merchants <- TwoMerchants` and `Complaints <- AboutOther`), `repositories/supabase/supabase_merchant_settlement_repo.py:231`: A payout number in the text is looked up without the merchant, so the failed payout of another merchant is taken for this one's and a paid settlement is drafted again. The module says "Never duplicate payout if payout is processing or success." (merchant_settlement_rules.py:26).
- `DuplicateIsFlagged`, `nodes/draft_action.py:343`: _draft_manual_payout computes duplicate_payout_risk from the evidence of the first phase, on which the rules would not have proposed a payout had it been set: the draft of a settlement that went out meanwhile says there is no risk. The comment says "Check duplicate payout risk" (draft_action.py:343).

`Claims.cfg`:

- `CorrectionSupersedes`, `api/customer_claims.py:70`: merge_claim stops at the newest live record of the field, so a claim told twice and then corrected leaves its first telling live, and the ticket shows both as current. The module says "If customer corrects themselves, old claim is superseded." (customer_claims.py:10).
- `TicketShowsContradictions`, `api/chat_handoff.py:427`: finalize copies the contradictions only if there are any, but the claims and the evidence always: after the customer corrects the amount the ticket shows the agreeing values beside the old contradiction. The module says "Contradictions are surfaced in customer response and staff ticket." (customer_claims.py:11).
- `DiagnosisBound`, `api/customer_chat.py:1648`: The context that replaces the old one after create_and_run has the diagnosis but not _verified_evidence, so the guard of later messages has no amount to compare a new claim with. The comment says "the old diagnosis is bound to the verified transaction it was built from" (customer_chat.py:1722).

`Resolver.cfg`:

- `NoneOfTheAmount`, `api/generic_resolver.py:270`: When the search fails to read the transactions its empty result passes for an amount that matched nothing; the fallback reads the list again and reports a mismatch although a transaction has the claimed amount. The message it leads to "states that no transaction matching the CLAIMED amount exists on the logged-in account" (generic_resolver.py:157-158).
- `ErrorIsNotNoMatch`, `api/generic_resolver.py:270`: _search_user_transactions returns an empty list when the repository fails, which the resolver reports as no_match; only the scan without criteria tells an error apart. The scan's docstring says "the caller must NOT treat empty results as 'no issues'" (generic_resolver.py:632) and the tests "Scan repo error → evidence_error, NOT no_match." (tests/test_account_discovery.py:10).
- `DiscoversWithoutAmount`, `api/generic_resolver.py:406`: A time, a bank or a reference counts as a criterion and suppresses the scan, but the search by criteria can match none of them in a transaction record and finds nothing. The tests say "No amount/transaction_id provided → still discovers pending transaction." (tests/test_account_discovery.py:6).
- `IssueRulesHonoured`, `api/account_verifier.py:311`: verify_account_issue never reads issue_verification_rules: a resolved record is a verified issue whatever its status, a completed top-up included. The registry says "the verifier checks these rules against verified evidence." (workflow_registry.py:68).
- `WorkflowScoped`, `api/generic_resolver.py:257`: The search by criteria adds one point for the service but does not filter by it: an amount that fits a train ticket answers a complaint about a top-up. The tests say "never answer from another workflow's data that happens to exist on the account" (tests/test_routing_workflow_scoping.py:3).
- `GatheredIsDisputed`, `api/customer_chat.py:1648`: The context that follows create_and_run has no claims, so the verifier compares nothing, while extracted_info still gives the search the amount (customer_chat.py:911): a record within a tenth of it is then confirmed. The module of the claims says "Contradictions are surfaced in customer response and staff ticket." (customer_claims.py:11).

`Desk.cfg`:

- `OneTicketPerChat`, `api/chat_handoff.py:364`: The key of a chat's ticket changes from its session to its case when the case is opened, so a chat that is filed before and after has two tickets. The module says "One ticket per chat (dedup) — never duplicates." (chat_handoff.py:17).
- `TicketOfOneChat`, `api/chat_handoff.py:382`: Chats without a case share the key of their session, and all chats whose session has expired share one key: a later chat overwrites the earlier one's ticket. The handoff says "Idempotent per chat (deduped)." (customer_chat.py:1918).
- `DecisionStored`, `api/chat_handoff.py:414`: finalize sets the status from the case alone: an approved or rejected ticket whose customer writes again waits for approval again. approve_chat_ticket says "Store staff decision" (chat_handoff.py:1485).
- `ExpiryFilesTicket`, `api/customer_chat.py:208`: _get_active_context drops an idle context, its case included, without filing it; only the handoff endpoint files, and finds no context any more. The module says "Creates/updates ONE back-office ticket when a customer chat ends, expires, or the customer requests staff support." (chat_handoff.py:3).
- `LostChatStillFiled`, `api/customer_chat.py:1926`: Without a context the handoff looks for a ticket under the session, but a ticket made proactively is filed under its case, so the customer is told that there is nothing to hand off. The comment says "proactive creation may have already made a ticket before context was lost ... Update it and return success." (customer_chat.py:1923).
- `CaseKeepsAnsweredWorkflow`, `api/customer_chat.py:1650`: The first answer follows the analyzer's hint, but the new context keeps the graph's selected_workflow, which then overrides the hint of every later message. The comment says "The per-message analyzer's workflow_hint takes priority over the graph's selected_workflow." (customer_chat.py:1418).
- `WaitingCaseHasTicket`, `api/customer_chat.py:718`: When the second lookup of a message finds nothing, no ticket is made although the graph has left the case waiting for approval. The docstring says "Returns True when staff attention is warranted: ... Approval is required" (customer_chat.py:705).
- `InformationAccumulates`, `api/customer_chat.py:861`: As long as a chat has no case every message is a new_case to decide_case_transition, and the fields collected so far make it a new issue that starts fresh. The comment says "Accumulate across messages — don't discard previous extractions." (customer_chat.py:883).

`Investigation.cfg`:

- `ConflictGoesToAPerson`, `api/ticket_investigation.py:811`: investigate_customer_chat_ticket goes from fetch_evidence straight to apply_rules; the node that looks for conflicts is not called, so conflicting records yield a refund or another recommendation. README.md:235 says "**Conflict = manual review** — Conflicting sources → no diagnosis, route to human".
- `ApprovesWhatWasShown`, `api/chat_handoff.py:1458`: _decide takes the contract of the ticket's current action and the request does not name the one that was shown; when a colleague has opened the ticket in between, the approval of one action is logged, and the ticket assigned, as that of another. The contracts say "Each contract defines the *semantics* of what approve/review means for that action type" (chat_handoff.py:638-639).
- `TeamOfTheAction`, `api/chat_handoff.py:1431`: get_chat_ticket investigates on every read, whatever the ticket's status, and replaces the action of an approved ticket; the team stays that of the action that was approved. _decide says "Assign next owner team on approve" (chat_handoff.py:1461).
- `ButtonSaysApproval`, `api/chat_handoff.py:786`: A request for documents, an UNC e-mail and a confirmed response carry the same label with and without approval, so a step whose approval is required is offered for confirmation. The contracts say "Button labels are conditional on approval_required (true -> \"Phê duyệt …\" ; false -> \"Xác nhận …\")" (chat_handoff.py:639-640).
- `MoneyAsksForApproval`, `api/chat_handoff.py:1248`: A rule engine that raises leaves a finding without an action (ticket_investigation.py:816-822); the ticket then keeps its old action and gets approval_required false, so a refund is offered for confirmation. README.md:234 says "**Human approval required** — All money-affecting actions need approval".

`Tickets.cfg`:

- `MoneyForTheCaseUser`, `llm/extractor.py:80`: The user of the case is used only when the model returned none; a text that names another user moves the case, its conflict check and its draft to that user. The comment says "If LLM returned a user_id but we already have one from state, prefer state" (extractor.py:79).
- `TransactionIsNeeded`, `llm/extractor.py:94`: A non-empty missing_fields of the model is kept as it is, so a list of optional fields hides that the transaction is missing, and the case goes on to fetch evidence. missing_info.py:20 says "Transaction-based workflows: transaction_id missing → dead_letter."
- `MerchantIsEnough`, `llm/extractor.py:86`: After the model's extraction a missing transaction_id counts for every service, and the prompt knows no merchant service (prompts.py:18), so a merchant's complaint is dead-lettered. extract_info.py:71 says "merchant_settlement_delay needs merchant identity, not transaction_id."
- `SystemConflictBlocks`, `nodes/conflict_detection.py:59`: has_system_evidence_conflict is recorded and shown on the ticket, but the graph routes on detect_all_conflicts alone (edges.py:49), and the money action is recommended and can be approved. claim_verifier.py:15 says "system_evidence_conflict: system sources disagree → block risky actions".
- `MatchedIsConfirmed`, `rules/claim_verifier.py:222`: _verify_payment_status_claim sets MATCHED whenever a ledger was read, also when the customer says money was taken and the ledger has no debit. claim_verification.py:134 says matched_claims are "Which claims match system data".
- `PhoneIsTheAccounts`, `rules/claim_verifier.py:346`: _verify_user_identity_claim compares the claimed number with the claim's own raw_text, which is the same number, so any account that was read confirms it, also when the account is that of the user_id of the case. The explanation says "Đã xác minh: {phone} → user_id = … (từ accounts)" (claim_verifier.py:352).
- `PreconditionsHold`, `llm/ticket_builder.py:39`: The refund entry lists "refund_status = not_requested" and the transaction's status among its preconditions; the rules recommend a refund also when the refund record and the transaction could not be read. resolution_ticket.py:96 calls them "Điều kiện tiên quyết để thực hiện action" (preconditions for carrying out the action).
- `SameTrustedAmount`, `llm/ticket_builder.py:903`: The elif chain stops at a transaction record even when its amount is zero, so the bank's amount never gets its turn; the ticket then shows no amount, and a mismatch the claim verifier found does not escalate. The comment says "Trusted amount from system evidence (priority order)" (ticket_builder.py:880), with "Priority 3: reconciliation.bank_amount" (ticket_builder.py:908).
- `ApprovalIsAskedFor`, `nodes/manual_review.py:12`: manual_review sets approval_required and a draft output "pending_human", but not the status WAITING_APPROVAL, the only one audit_and_close spares; the case is closed and never registered as pending. README.md:235 says "**Conflict = manual review** — Conflicting sources → no diagnosis, route to human", manual_review.py:1 "route to human for manual resolution".
- `TicketShowsDecision`, `nodes/generate_response.py:71`: The ticket is built once, before the gate, with approval_status "pending"; approve_case and reject_case change the case's status and not the ticket, which the API goes on returning (cases.py:190). resolution_ticket.py:108 says "'not_required' | 'pending' | 'approved' | 'rejected'".

## 5. Proofs

Every safety property of a passing run, invariant or action property, is a
theorem, and so are the refinements of `TwoPhaseApproval` and `TicketRecord`, for
all values of the constants under the assumptions the modules name. TLC found each invariant to hold on the
run's instance before it was proved; the runs remain, because they show that the
statements are not empty and that they fail when a guard is dropped. The
`TypeOK` of every module with states is proved under the name `TypeCorrect`, but
for `DecisionTables`, `TwoPhaseApproval` and `TicketRecord`, which have none.

### CaseFlow

Assumed: complaints, transactions and records are typed, `MaxRetries` is a
natural number, `None` is none of the values it stands beside.

- `TypeCorrect`, `NoMoneyWithoutApprovalHolds`, `RegistersAgreeHolds`,
  `DecidedIsFinalHolds`, `MoneyDraftsAreKeptHolds`, `WorkIsBoundedHolds`;
- `MoneyIsJustifiedHolds`, `OneMoneyDraftPerTransactionHolds`,
  `ReportedDraftIsStoredHolds`, `DuplicateHasOriginalHolds`;
- `ImplementsProtocolHolds`, the refinement.

None of the invariants is inductive alone: that an approved draft
belongs to an approved case rests on what a request may look like between its
start and its end, which the code never writes down. `IInv` (in CaseFlow, where
TLC can evaluate it) adds `RequestShape`: a request works either on a pending
case, whose state then says approved, or on a new case, which is in no register
and whose draft call cannot move money because the engines never recommend a
money action without asking for approval (`DecisionsAreKnown`, over the whole rule
engine). `PendingShape` says a waiting case is undecided and has a transaction,
`MoneyCallsKnown` that a money draft belongs to a case that exists. The proof has
three lemmas, one per part of `IInv` (`TypeNext`, `ShapesNext`, `MoneyNext`), each
with one step per action. The action properties follow from `IInv` and a case
split over the actions; `MoneyDraftsAreKept` rests on the keys of money drafts being
disjoint from all others (`MoneyKeysAreTheirOwn`).

`WorkIsBounded` is the part of termination that needs no fairness: a request
takes at most ten steps and six more for each retry, because every step of it
makes `StepsLeft` smaller and no step of anybody else changes it. With
`ApiFairness` it gives `RequestReturns`, which TLC checks.

The drafts need more: that a draft rests on evidence is a fact about the moment
it was decided, and the draft appears steps later, perhaps after its case was
closed. The second invariant, `DInv`, is `IInv` with five parts, one lemma each:

- `CallsOfCases` (`CallsNext`): every draft and every abandoned call is exactly
  what its case's latest state would send, and a case makes at most one call;
- `MoneyKeysUnique` (`KeysNext`): money drafts have different keys and positive
  amounts, because the tool looks before it saves;
- `EvidenceShape` (`EvidenceNext`): while evidence is gathered nothing is decided,
  and the transaction in it carries its owner;
- `StatesJustified` (`JustifiedNext`): a case whose action moves money has the
  evidence for it, from the decision on (`DecisionsAreJustified`, over the three
  engines);
- `ReportsShape` (`ReportsNext`): what a case reports, and the answer on its way to
  it, is what the store holds; no save overwrites it (`HandleKeepsReports`).

`StepKinds` groups the actions into a dozen kinds, and a few lemmas say once what
each kind leaves alone (`EarlySteps`, `AnswerSteps`, `FinishSteps`, `HandleFacts`).
`OneMoneyDraftPerTransaction` then follows from the keys: two drafts of a kind for
one transaction have its amount, hence one key. The refinement maps each kind of
step: `FinishCreate` submits, `Approve` and `Reject` judge, a money draft created by
`HandleDraftCall` commits, `Crash` loses the store, and the rest stutters.

### DecisionTables

Assumed: scores and net amounts are integers (`ScoresAssumption`,
`NetsAssumption`), `None` is no record (`NoneAssumption`).

- `PaysOnceThm`, `PaysForAReasonThm`, `ShortPayoutIsReviewedThm`,
  `SuspicionNeverHelpsThm`: what the `decisions` run shows for a few scores and
  amounts holds for all integers;
- `DocumentedMatricesThm`, `ApprovalMatchesRiskThm`.

The bundles of evidence never change (`BundlesStay`, `JudgementStays`), so each
proof is about one engine, its chain of early returns read backwards.
`PayoutNeeds` and `PayoutReasons` say under which conditions the cascade reaches a
manual payout, `SuspicionIsMonotone` compares two fraud records of which one is at
least as suspicious, and `TrainRows`, `UtilityRows` and `TopupRows` take the
documented rows one by one. Two of the statements have an edge: a payout that is
short has a positive amount below the net (the engine does not ask about more,
none or zero), and the fallback row of the top-up matrix is claimed only for money
that is not known to be missing, which is what the engine keeps of it.

### AccountCases

Assumed: the systems of record file a record under the user it is about and a
profile under a merchant, and their records are typed (`RecordsAssumption`); net
amounts are integers (`NetAssumption`); there are a first and a last day
(`DaysAssumption`); a
lock complaint and a settlement complaint have their own fields
(`ComplaintsAssumption`).

- `TypeCorrect`, `DraftsAreApprovedThm`, `UnlockOfTheReviewedThm`,
  `PayoutOfTheLedgerThm`, `DuplicateHasACauseHolds`.

The properties speak of a stored draft; the invariant follows the evidence it
was made of. `RequestInv` says, for each tool call a request may be at, what has
been read so far and about whom: account and fraud record are the subject's,
however the subject was found, and a ledger is of a closed day of the subject.
`CasesInv` says that a stored case is the decision on such evidence, that its
output is the draft of that decision, and that it was approved if the decision
asked for it. `WorldInv` says that the systems keep their records filed properly
and that closed days stay closed (`OwedGrows`), which is why what was read stays
true while the systems move. There is one lemma per action (`AfterIdentify`,
`AfterReadLedger`, `AfterDecide`, `AfterApprove`, ...), and one about every decision
the two engines can take (`Decisions`).

`DuplicateHasACause` needs what was not read: `PayInv` notes at the read of the
payout whether the settlement was under way, and then keeps one of four causes
(`Unseen`): the read failed, the text named a payout, the payout created
last is of another day than the ledger, or the row that was found is of an
attempt that had failed before. Otherwise the payout that was read is in
progress or done, and the engine does not propose another (`NoSecondPayout`).
`WorldTypes` types the settlement system and `PayoutsInv` says that it files a
payout under its day; a cause, once found, remains one, because `retried` only
grows (`CausesStay`).

### CaseTickets

Assumed: amounts are natural numbers and `None` is none (`AmountsAssumption`), a
complaint names a known user or nobody (`ComplaintsAssumption`), and `None` is not
the name of a service or a workflow (`NoneAssumption`, in `ComplaintIntake`).

- `TypeCorrect`, `RegexIntakeIsCompleteHolds`, `TicketAmountsHolds`,
  `MismatchEscalatesHolds`.

A ticket is built in one step, of five values computed in five earlier ones.
`IInv` has a conjunct for each: `InfoInv`, the amount among the claims is the one
extracted, and a regex intake that goes on has its identities; `EvidenceInv`,
nothing is there before it was read, only a merchant's evidence has a
settlement, a ledger and a transaction have amounts, and a transaction is of one
of the services that are paid for; `SummaryInv`, the summary compares with this evidence; `DecisionInv`, an
action that moves a customer's money is not decided on a settlement; `TicketInv`,
the properties of the ticket. `TrustedIs` gives the order in which the systems'
amounts are trusted, and `ActionAmountIsTrusted` shows that the ticket shows the
amount the verifier compared with, but for a transaction of amount zero (see
`SameTrustedAmount` in section 4, which is why `MismatchEscalates` excepts it).

### CaseResolver

Assumed: an account is a finite set of transactions with different ids
(`AccountAssumption`), a reading is typed (`ReadingAssumption`), the lookups that may
fail are among the five (`FaultAssumption`), `None` is neither the user nor a number
(`NoneAssumption`).

- `TypeCorrect`, `OwnRecordOnlyHolds`, `MismatchHonestHolds`,
  `AmountIsAnsweredHolds`, `NearIsDisputedHolds`.

`Honest(r, f)` says what a lookup with the failures `f` may end in: nothing said, a
resolved transaction of the user with its recorded values, or a mismatch on a
`Mistaken` record: the only one that needs attention, not of the claimed amount,
and, unless the search's own read of the list is in `f`, in an account where no
record has that amount (`NoneOfTheAmount` in section 4 is what is missing). Each resolver is shown
to give only that (`WalletUserHonest`, `OtherResolversHonest`): the search because an
exact amount scores three by itself (`ExactIsFound`), the second read because it
insists on one record (`FallbackGives`). `AmountFinds` shows that with every read
succeeding one of the two has an answer. `IInv` joins these with the two properties
themselves; the records do not change before the verification (`RecordsStay`), whose
own failures are independent of the first lookup's.

### CustomerClaims

Assumed: the field order lists every field once (`FieldAssumption`), the empty
value is no value (`ValueAssumption`), records are typed (`RecordAssumption`).

- `TypeCorrect`, `LatestIsLiveHolds`, `ContradictionsBackedHolds`, `HistoryKeptHolds`.

A message is merged field by field, by a recursive function. The provers cannot
use an induction theorem whose predicate is an operator parameter; `SetInduction`
states induction with a set of naturals in its place and follows from the
well-foundedness of the order on them. `LoopInv` is the invariant of the merge at
a position of the field order: earlier claims keep their place, the last claim
of each field merged so far is live and is the latest value. `MergeExtractedKeeps`
sums it up for every history and every message; the actions need no more.

### ChatDesk

Assumed: messages and outcomes are typed and `None` is no workflow, case or session
(`InputAssumption`), no stored case and no ticket (`NoneAssumption`).

- `TypeCorrect`, `OwnCaseOnlyHolds`, `DiagnosisOfThisCaseHolds`, `StaffWorkKeptHolds`.

Contexts, cases and tickets are copied from one another, so one invariant speaks
of all: a context is `Proper` (its case is its session's, its diagnosis is its
case's) and a ticket `Honest` (it is filed under the case or the session its
customer's story is of). Every action begins with the context the message is
judged with (`JudgedProper`) and ends with a store and perhaps a ticket
(`StoredStep`, `InPlaceStep`, `FinalizeStep`). `StaffWorkKept` is the refinement of
`TicketRecord`, where a record is the audit log of a filed ticket: a filing is a
step of the record the first time and a stutter after it (`FilingStep`); a
decision appends its entry (`DecisionStep`); all else stutters.

### Investigation

Assumed: histories of records are not empty and owners are people
(`EntitiesAssumption`), a chat files typed tickets (`ConversationsAssumption`),
`MaxDecisions` is a natural number (`BoundAssumption`).

- `TypeCorrect`, `ApprovalHasItsReasonHolds`, `LogImplementsRecord`.

`Sound` says of a decision that it asks for approval only of an action, and that an
action on money or on a locked account asks for approval and rests on the
evidence; all five engines decide soundly (`DecideSound`), on any evidence.
`IInv` is the type invariant and the property: together they are inductive,
because every step that writes the action writes what it rests on. A filing makes
the case's own offer (`FiledHasReason`, `FileAgainStep`), an investigation that finds
nothing takes the offer away (`FindNothingStep`), one whose rules failed keeps the
action and takes the approval (`ReadRecordsStep`), and a decision leaves both
alone (`DecideStep`). `LogImplementsRecord` is the refinement of `TicketRecord` by the
one ticket, which is filed from the start; it is proved only, no run repeats it.

### What is only model-checked

Liveness, which is out of the prover's reach, as is ENABLED: `RequestReturns` and
`ApprovedMoneyLands`. The statements the code does not keep (the two runs
that expect a violation, and section 4) are shown by a counterexample, not proved.

## 6. Not modelled, and why

- `api/mock_auth.py`: tokens drawn at random, stored with a persona and looked up;
  a session that expires is an input of ChatDesk.
- Texts: which words make the analyzer call a message a complaint or a follow-up
  (`llm/message_analyzer.py`, `api/message_router.py`), how an answer is composed
  (`llm/response_composer.py`, `messages/`), how secrets and prompts are filtered
  (`safety/`). What a text is read as is an input of the models, over all
  readings the code tells apart. The guard on actions (`safety/`) admits every action the
  graph can recommend and so never fires in it.
- Language models: their output is an input, within what the extractor and its
  sanitizing accept.
- `workflows/generic_diagnosis.py` and `workflows/card_payment_dispute.py`: the wording
  of a diagnosis, and an example workflow nothing registers.
- SQL and row conversion: a read returns the row the query selects, or nothing.
- Logs and traces, start-up, settings, response shapes, scripts, sample data and
  the frontend: nothing the models speak of depends on them.
- The 24 h deadline on an approval packet is written and never read.

## 7. Plan

1. An abstract resolver of claims, "the last value told and whether a record
   disagrees", which `CustomerClaims` implements.
2. Invariants that sections 1 and 4 leave unsaid: that a case waiting for a
   person is never lost to a conversation, up to the exposures listed.
