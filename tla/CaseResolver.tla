----------------------------- MODULE CaseResolver -----------------------------
(***************************************************************************)
(* How a chat finds the record a complaint is about, and what it then      *)
(* takes for verified (api/generic_resolver.py, api/account_verifier.py).  *)
(*                                                                         *)
(* A behaviour fixes the systems of record, a logged-in session, one       *)
(* reading of the message and what the chat remembers to have been         *)
(* claimed.  It resolves the message and then verifies the issue, which    *)
(* resolves the message once more; each of the reads may fail by itself.   *)
(* Messages to the customer are left out; so are the criteria that can     *)
(* match nothing, because a transaction record has no bank and no          *)
(* reference (schemas/evidence.py): a bank, a reference, a time or a bill  *)
(* code make the resolver search, and the search then ignores them.        *)
(***************************************************************************)
EXTENDS WorkflowRegistry, Integers, FiniteSets

CONSTANTS
  None,        \* Python's None and the empty string
  Me,          \* the user, or the merchant, of the session
  TxnIds,      \* identifiers a customer may quote
  Accounts,    \* the transaction records to choose from: sets of Transactions
  Readings,    \* the readings of a message to choose from
  Faults       \* the lookups that may fail, among Lookups

Maybe(S) == S \cup {None}

\* A transaction with the status its provider reports, None when it has no
\* provider reference, the provider has no record or cannot be asked.
Transactions ==
  [id : TxnIds, owner : {Me, None}, service : UNION {Registry[w].services : w \in KnownWorkflows},
   amount : Nat, status : STRING, provider : Maybe(STRING)]

\* The separate calls to the repositories: the transaction with a quoted
\* identifier (two calls), the user's transactions for the search by criteria,
\* the same again for the scan of the account, and the account-status record.
Lookups == {"by_txn", "by_order", "list", "scan", "account"}

\* What the message analyzer makes of a message, with what the chat gathered
\* before (_apply_context_to_extraction); an amount of 0 is no amount.
ReadingType ==
  [hint : Hints, txn : Maybe(TxnIds), order : Maybe(TxnIds), amount : Nat,
   soft : SUBSET {"bank", "reference", "time", "bill_code"}]

ASSUME NoneAssumption == Me # None /\ None \notin Nat
ASSUME AccountAssumption ==
  \A a \in Accounts : /\ a \subseteq Transactions /\ IsFiniteSet(a)
                      /\ \A t, u \in a : t.id = u.id => t = u
ASSUME ReadingAssumption == Readings \subseteq ReadingType
ASSUME FaultAssumption == Faults \subseteq Lookups

VARIABLES
  session,     \* the server-side session, or None
  reading,     \* [hint, txn, order, amount, soft]: the message
  claim,       \* the amount among the customer's latest claims, 0 for none
  account,     \* the transactions in the systems of record
  lock,        \* the account-status record of the user, or None
  settlement,  \* which of the merchant's three records exist
  resolution,  \* ResolutionResult, or None
  failed,      \* the lookups that failed when it was made
  verification \* VerificationResult, or None

records == <<session, reading, claim, account, lock, settlement>>
vars == <<records, resolution, failed, verification>>

-----------------------------------------------------------------------------
(* Results *)

Outcome(status, type) ==
  [status |-> status, type |-> type, entity |-> None, amount |-> None,
   claimed |-> None, found |-> None, scanned |-> FALSE, issue |-> FALSE,
   locked |-> FALSE]

InvalidSession == Outcome("invalid_session", "none")
NeedMoreInfo   == Outcome("need_more_info", "none")
NoMatch        == Outcome("no_match", "none")
Several        == Outcome("multiple_candidates", "transaction")
EvidenceError  == Outcome("evidence_error", "none")

\* _resolved_from_txn: every value is the record's.
ResolvedTxn(t) ==
  [Outcome("resolved", "transaction") EXCEPT
     !.entity = t.id, !.amount = t.amount, !.found = t.status]

-----------------------------------------------------------------------------
(* The search by criteria *)

Mine == {t \in account : t.owner = Me}

\* Faulty variant: a quoted identifier is looked up without its owner.
DirectAnyOwner(id) == {t \in account : t.id = id}

\* get_by_id with the ownership test.
Direct(id) == {t \in account : t.id = id /\ t.owner = Me}

Near(amount, claimed) ==
  LET d == IF amount > claimed THEN amount - claimed ELSE claimed - amount
  IN 10 * d < claimed

\* The service's text holds the workflow's name; that of a bill does not.
NamesService(hint, service) ==
  hint = service /\ hint \in {"wallet_topup", "train_ticket"}

Score(t) ==
  (IF reading.amount = 0 THEN 0
   ELSE IF t.amount = reading.amount THEN 3
   ELSE IF Near(t.amount, reading.amount) THEN 1 ELSE 0)
  + (IF NamesService(reading.hint, t.service) THEN 1 ELSE 0)

Matches == {t \in Mine : Score(t) >= 2}

\* _search_user_transactions, when the lookups f fail.  Each call has a try of
\* its own: one that fails finds nothing, and the search goes on without it.
Search(f) ==
  IF "by_txn" \notin f /\ Direct(reading.txn) # {} THEN Direct(reading.txn)
  ELSE IF "by_order" \notin f /\ Direct(reading.order) # {} THEN Direct(reading.order)
  ELSE IF "list" \in f THEN {} ELSE Matches

-----------------------------------------------------------------------------
(* The scan of the account *)

TicketIssued(t) == t.provider \in {"ticket_issued", "confirmed"}
BillConfirmed(t) == t.provider = "confirmed"

\* A transaction that did not cleanly complete for the customer: unfinished,
\* or paid for a service that the provider does not confirm.
NeedsAttention(t) ==
  \/ t.status \in {"pending", "processing", "in_progress", "failed", "error"}
  \/ /\ t.status \in {"success", "completed", "confirmed"}
     /\ \/ t.service = "train_ticket" /\ ~TicketIssued(t)
        \/ t.service \in {"electric_bill", "water_bill"} /\ ~BillConfirmed(t)

\* _find_problematic_user_transactions, when the scan completes
Problematic(hint) == {t \in Mine : InScope(t.service, hint) /\ NeedsAttention(t)}

\* discover_account_issues and what _resolve_wallet_user makes of it
Scan(hint, f) ==
  IF "scan" \in f
  THEN [EvidenceError EXCEPT !.scanned = TRUE]
  ELSE LET found == Problematic(hint)
           base == IF Cardinality(found) = 1
                   THEN ResolvedTxn(CHOOSE t \in found : TRUE)
                   ELSE IF found # {} THEN Several
                   ELSE IF hint = "unknown" THEN NeedMoreInfo
                   ELSE NoMatch
       IN [base EXCEPT !.scanned = TRUE, !.issue = found # {}]

-----------------------------------------------------------------------------
(* The resolvers *)

GaveId == reading.txn # None \/ reading.order # None \/ "bill_code" \in reading.soft
HasCriteria == GaveId \/ reading.amount # 0 \/ reading.soft # {}

\* The one problematic record, kept apart from the amount claimed for it.
Mismatch(t) ==
  [ResolvedTxn(t) EXCEPT !.status = "amount_mismatch", !.claimed = reading.amount]

\* Faulty variant: any problematic record will do.
FallbackFirst(f) ==
  LET found == Problematic(reading.hint) IN
  IF ~GaveId /\ reading.amount # 0 /\ "scan" \notin f /\ found # {}
  THEN Mismatch(CHOOSE t \in found : TRUE)
  ELSE NoMatch

\* Faulty variant: the guard on identifiers is inverted.
FallbackForIds(f) ==
  LET found == Problematic(reading.hint) IN
  IF /\ GaveId /\ reading.amount # 0
     /\ "scan" \notin f
     /\ Cardinality(found) = 1
     /\ \A t \in found : t.amount # reading.amount
  THEN Mismatch(CHOOSE t \in found : TRUE)
  ELSE NoMatch

\* The amount matched nothing: before saying so, look for the one
\* problematic record it may be about, in a read of its own.
Fallback(f) ==
  LET found == Problematic(reading.hint) IN
  IF /\ ~GaveId /\ reading.amount # 0
     /\ "scan" \notin f
     /\ Cardinality(found) = 1
     /\ \A t \in found : t.amount # reading.amount
  THEN Mismatch(CHOOSE t \in found : TRUE)
  ELSE NoMatch

\* _resolve_wallet_user
ResolveWalletUser(f) ==
  IF session.id = None THEN InvalidSession
  ELSE IF ~HasCriteria THEN Scan(reading.hint, f)
  ELSE IF Cardinality(Search(f)) = 1 THEN ResolvedTxn(CHOOSE t \in Search(f) : TRUE)
  ELSE IF Search(f) # {} THEN Several
  ELSE Fallback(f)

\* _resolve_merchant: a lookup that fails counts as a record that is missing.
\* The status is the payout's, or the ledger's.
ResolveMerchant ==
  IF session.id = None THEN InvalidSession
  ELSE IF settlement = {} THEN [NoMatch EXCEPT !.type = "merchant_settlement"]
  ELSE [Outcome("resolved", "merchant_settlement") EXCEPT
          !.entity = session.id,
          !.found = IF "payout" \in settlement THEN "payout"
                    ELSE IF "ledger" \in settlement THEN "ledger" ELSE None]

AccountStatus(raw) ==
  CASE raw \in {"active", "normal", "ok", "enabled"} -> "active"
    [] raw \in {"locked", "frozen", "suspended"} -> "locked"
    [] raw \in {"restricted", "limited"} -> "restricted"
    [] raw \in {"under_review", "reviewing", "pending_review"} -> "under_review"
    [] OTHER -> raw

\* lock_evidence_found of an account record
LockEvidence(a) ==
  \/ AccountStatus(a.status) \in {"locked", "restricted", "under_review"}
  \/ a.withdrawal_disabled
  \/ a.locked_at

\* _resolve_account_lock: an error is not an answer, and neither is the
\* customer's claim.
ResolveAccountLock(f) ==
  IF session.id = None THEN InvalidSession
  ELSE IF "account" \in f
       THEN [Outcome("evidence_error", "account") EXCEPT !.entity = session.id]
  ELSE IF lock = None
       THEN [Outcome("no_match", "account") EXCEPT !.entity = session.id]
  ELSE [Outcome("resolved", "account") EXCEPT
          !.entity = session.id, !.found = AccountStatus(lock.status),
          !.locked = LockEvidence(lock)]

\* resolve_case_evidence; no builtin workflow registers a resolver of its own.
ResolveCaseEvidence(f) ==
  IF session = None THEN InvalidSession
  ELSE IF reading.hint = "fraud_account_lock"
       THEN IF session.subject = "wallet_user" THEN ResolveAccountLock(f)
            ELSE InvalidSession                \* a merchant has no user_id
  ELSE CASE session.subject = "wallet_user" -> ResolveWalletUser(f)
         [] session.subject = "merchant" -> ResolveMerchant

-----------------------------------------------------------------------------
(* verify_account_issue *)

\* detect_contradictions compares the latest claim with the record, whatever
\* amount the search was given.
Contradicted(r) == claim # 0 /\ r.amount # None /\ r.amount # claim

\* _RESOLUTION_TO_ISSUE_STATUS
IssueStatusOf(status) ==
  CASE status \in {"resolved", "multiple_candidates"} -> "verified_issue_found"
    [] status = "amount_mismatch" -> "contradiction"
    [] status \in {"need_more_info", "evidence_error"} -> "insufficient_evidence"
    [] OTHER -> "no_match"

\* Faulty variant: a contradiction is only looked for in a mismatch.
MapIssueStatusMismatch(r) ==
  LET base == IssueStatusOf(r.status)
  IN IF base = "no_match" /\ ~r.issue THEN "no_issue_found" ELSE base

\* _map_issue_status
MapIssueStatus(r) ==
  LET base == IssueStatusOf(r.status) IN
  IF Contradicted(r) /\ r.status \in {"resolved", "amount_mismatch"}
  THEN "contradiction"
  ELSE IF base = "no_match" /\ ~r.issue THEN "no_issue_found"
  ELSE base

Supported(hint) ==
  hint \notin KnownWorkflows \/ session.subject \in Registry[hint].subjects

\* The verifier's own resolution r: its status, and the record it is about.
Verify(r) ==
  IF session = None \/ session.id = None \/ ~Supported(reading.hint)
  THEN [status |-> "no_match", exists |-> FALSE, entity |-> None, amount |-> None]
  ELSE LET status == MapIssueStatus(r)
       IN [status |-> status,
           exists |-> status \in {"verified_issue_found", "contradiction"},
           entity |-> r.entity, amount |-> r.amount]

-----------------------------------------------------------------------------
Init ==
  /\ session \in {None} \cup [subject : {"wallet_user", "merchant"}, id : {Me, None}]
  /\ reading \in Readings
  /\ account \in Accounts
  /\ lock \in Maybe([status : {"active", "frozen"}, withdrawal_disabled : BOOLEAN,
                     locked_at : BOOLEAN])
  /\ settlement \in SUBSET {"payout", "ledger", "bank"}
  \* What a session cannot reach does not vary with it.
  /\ settlement # {} => session # None /\ session.subject = "merchant"
  /\ lock # None => /\ session # None /\ session.subject = "wallet_user"
                    /\ reading.hint = "fraud_account_lock"
  /\ account # {} => session # None /\ session.subject = "wallet_user"
                     /\ reading.hint # "fraud_account_lock"
  \* A case that was opened took the claims with it, while the amount stays
  \* among the details gathered for the search.
  /\ claim \in {0, reading.amount}
  /\ resolution = None
  /\ failed = {}
  /\ verification = None

\* The lookups a resolution may make for this message.
Relevant ==
  IF reading.hint = "fraud_account_lock" THEN {"account"}
  ELSE {"list", "scan"}
       \cup (IF reading.txn = None THEN {} ELSE {"by_txn"})
       \cup (IF reading.order = None THEN {} ELSE {"by_order"})

Resolve ==
  /\ resolution = None
  /\ \E f \in SUBSET (Faults \cap Relevant) :
       resolution' = ResolveCaseEvidence(f) /\ failed' = f
  /\ UNCHANGED <<records, verification>>

\* The verifier resolves the message once more.
VerifyIssue ==
  /\ resolution # None /\ verification = None
  /\ \E f \in SUBSET (Faults \cap Relevant) :
       verification' = Verify(ResolveCaseEvidence(f))
  /\ UNCHANGED <<records, resolution, failed>>

Next == Resolve \/ VerifyIssue

Spec == Init /\ [][Next]_vars

-----------------------------------------------------------------------------
(* Properties *)

Statuses ==
  {"invalid_session", "need_more_info", "no_match", "multiple_candidates",
   "evidence_error", "resolved", "amount_mismatch"}

TypeOK ==
  /\ resolution = None \/ resolution.status \in Statuses
  /\ verification = None
     \/ verification.status \in {"verified_issue_found", "contradiction", "no_match",
                                  "no_issue_found", "insufficient_evidence"}

Resolved == resolution # None /\ resolution.status \in {"resolved", "amount_mismatch"}
ResolvedTransaction == Resolved /\ resolution.type = "transaction"
Confirmed == verification # None /\ verification.exists

\* Whatever identifier, amount or workflow the customer names, a chat only
\* ever speaks of a transaction of its own user (_search_user_transactions,
\* _find_problematic_user_transactions), and gives its recorded amount, never
\* the claimed one.
OwnRecordOnly ==
  ResolvedTransaction =>
    \E t \in account : /\ t.id = resolution.entity /\ t.owner = Me
                       /\ t.amount = resolution.amount
                       /\ t.status = resolution.found

\* An amount mismatch is only ever reported about the one record of the account
\* that needs attention, with an amount that is not the claimed one; and if the
\* search could read the user's transactions, none of them has the claimed amount
\* (_resolve_wallet_user, the claim-vs-account fallback and its second read).
MismatchHonest ==
  resolution # None /\ resolution.status = "amount_mismatch" =>
    /\ resolution.claimed = reading.amount /\ resolution.amount # reading.amount
    /\ \A t \in Problematic(reading.hint) : t.id = resolution.entity
    /\ "list" \notin failed => \A t \in Mine : t.amount # resolution.claimed

\* The resolver answered a customer whose one record of the complaint's scope
\* needs attention, and every read it needed succeeded.
OneProblem ==
  /\ resolution # None /\ session # None
  /\ session.subject = "wallet_user" /\ session.id = Me
  /\ reading.hint # "fraud_account_lock"
  /\ failed = {}
  /\ Cardinality(Problematic(reading.hint)) = 1

\* A customer who names an amount, right or wrong, and no identifier is not told
\* that there is nothing while the account holds one record that needs attention
\* and the reads succeed: the answer is that record, a record of the amount, or
\* several of them (_resolve_wallet_user, the search and its fallback).
AmountIsAnswered ==
  (OneProblem /\ reading.amount # 0 /\ ~GaveId) =>
    resolution.status \in {"resolved", "amount_mismatch", "multiple_candidates"}

\* While the customer's claim is on record, the record the chat speaks of is not
\* confirmed under another amount than the claimed one without the contradiction:
\* the search takes amounts within a tenth, and of a quoted identifier any, and
\* the verifier must notice (detect_contradictions, _map_issue_status).
NearIsDisputed ==
  (/\ Confirmed /\ ResolvedTransaction /\ claim # 0
   /\ verification.amount # None /\ verification.entity = resolution.entity
   /\ resolution.amount # reading.amount) =>
    verification.status = "contradiction"

\* "Contradictions are surfaced in customer response and staff ticket."
\* (customer_claims.py:11): the same for an amount that the search still uses
\* after the claim was lost with the context of an earlier message.
GatheredIsDisputed ==
  (/\ Confirmed /\ ResolvedTransaction /\ reading.amount # 0
   /\ verification.amount # None /\ verification.entity = resolution.entity
   /\ resolution.amount # reading.amount) =>
    verification.status = "contradiction"

\* amount_mismatch_message "states that no transaction matching the CLAIMED amount
\* exists on the logged-in account" (generic_resolver.py:157-158).
NoneOfTheAmount ==
  resolution # None /\ resolution.status = "amount_mismatch" =>
    \A t \in Mine : t.amount # resolution.claimed

\* "When scan_completed is False, the caller must NOT treat empty results as
\* 'no issues'" (generic_resolver.py:632) and "Scan repo error -> evidence_error,
\* NOT no_match" (tests/test_account_discovery.py:10): a customer is not told
\* that there is no such record when the records could not be read.
ErrorIsNotNoMatch ==
  (/\ resolution # None /\ resolution.status = "no_match"
   /\ session.subject = "wallet_user" /\ reading.hint # "fraud_account_lock") =>
    failed \cap {"list", "scan"} = {}

\* "No amount/transaction_id provided -> still discovers pending transaction"
\* (tests/test_account_discovery.py:6).
DiscoversWithoutAmount ==
  (OneProblem /\ reading.amount = 0 /\ reading.txn = None /\ reading.order = None) =>
    resolution.status = "resolved"

\* "the verifier checks these rules against verified evidence"
\* (workflow_registry.py:68): a workflow's issue is confirmed only with a status
\* that its issue_verification_rules count as an issue.
IssueRulesHonoured ==
  (/\ Confirmed /\ verification.status = "verified_issue_found" /\ Resolved
   /\ reading.hint \in KnownWorkflows /\ resolution.type # "merchant_settlement") =>
    resolution.found \in Registry[reading.hint].issue

\* "never answer from another workflow's data that happens to exist on the
\* account" (tests/test_routing_workflow_scoping.py:3).
WorkflowScoped ==
  ResolvedTransaction /\ ~GaveId => \E t \in account :
    t.id = resolution.entity /\ InScope(t.service, reading.hint)
=============================================================================
