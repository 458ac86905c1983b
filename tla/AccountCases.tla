----------------------------- MODULE AccountCases -----------------------------
(***************************************************************************)
(* The life of the complaint cases that are not about a transaction:       *)
(* locked accounts and late settlements (nodes/fetch_evidence.py,          *)
(* nodes/rule_decision.py, nodes/draft_action.py and the tools they call). *)
(*                                                                         *)
(* One request runs at a time and reads the records one tool call after    *)
(* the other, while the settlement system and the risk team change them.   *)
(* A case that needs approval waits for a person; its draft is then made   *)
(* of the evidence of the first phase.                                     *)
(*                                                                         *)
(* The MCP session, its timeouts and the double decisions on a case are    *)
(* the matter of CaseFlow; here a tool call answers or fails.              *)
(***************************************************************************)
EXTENDS AccountRules, FiniteSets, FiniteSetsExt, Sequences

CONSTANTS
  Cases,        \* case identifiers
  Users,        \* wallet users
  Merchants,    \* merchants
  Days,         \* settlement days: a range of numbers
  Complaints,   \* what customers' texts are read as
  Accounts,     \* Accounts[u]: the account record at the start
  FraudRecords, \* FraudRecords[u]: Maybe the latest fraud case at the start
  Profiles,     \* Profiles[m]: Maybe the merchant's profile
  Banks,        \* Banks[m]: Maybe the merchant's bank account
  NewSignals,   \* the signals a risk review may come upon
  Net,          \* Net[m]: the net settlement amount of each of its days
  Faults        \* "read": a read may fail; "draft": a draft call may fail

ASSUME CasesAssumption ==
  None \notin Cases /\ None \notin Users /\ None \notin Merchants /\ None \notin Days
ASSUME DaysAssumption ==
  /\ Days \subseteq Nat /\ Min(Days) \in Days
  /\ \E last \in Days : \A d \in Days : d <= last

PayoutIds == Merchants \X Days

\* ExtractedInfo: hints are the phone, the e-mail and the wallet id, in that
\* order, as the user each of them belongs to: None when nobody has it.
AccountComplaints ==
  [workflow : {"fraud_account_lock"}, user : Maybe(Users), hints : Seq(Maybe(Users))]

\* contact is the merchant that the phone, e-mail or tax code belongs to.
SettlementComplaints ==
  [workflow : {"merchant_settlement_delay"}, merchant : Maybe(Merchants),
   contact : Maybe(Merchants), day : Maybe(Days), payout : Maybe(PayoutIds),
   batch : Maybe(Days)]

ASSUME ComplaintsAssumption == Complaints \subseteq AccountComplaints \cup SettlementComplaints

\* The systems file a record under the user or the merchant it is about, except
\* that a profile may be found under a contact of the merchant.
ASSUME RecordsAssumption ==
  /\ \A u \in Users : Accounts[u] \in AccountsOf({u})
  /\ FraudRecords \in [Users -> Maybe(FraudCasesOf(Users))]
  /\ \A u \in Users : FraudRecords[u] # None => FraudRecords[u].user = u
  /\ \A m \in Merchants :
       Profiles[m] \in Maybe(ProfilesOf(Merchants)) /\ Banks[m] \in Maybe(BankAccounts)
ASSUME NetAssumption == \A m \in Merchants, d \in Days : Net[m][d] \in Int

Evidence ==
  [account : Maybe(AccountsOf(Users)), fraud : Maybe(FraudCasesOf(Users)),
   profile : Maybe(ProfilesOf(Merchants)), bank : Maybe(BankAccounts),
   ledger : Maybe(LedgersOf(Days)), payout : Maybe(PayoutsOf(Merchants, Days)),
   batch : Maybe(Batches), receipt : Maybe(Receipts)]

NoEvidence ==
  [account |-> None, fraud |-> None, profile |-> None, bank |-> None,
   ledger |-> None, payout |-> None, batch |-> None, receipt |-> None]

\* A request: its case and complaint, what it has read, and about whom.
Requests ==
  [case : Cases, complaint : Complaints, ev : Evidence, paying : BOOLEAN,
   subject : Maybe(Users \cup Merchants)]

ASSUME NoneAssumption == None \notin Requests /\ None \notin PayoutsOf(Merchants, Days)

VARIABLES
  accounts,  \* the account system
  frauds,    \* the fraud system
  ledgers,   \* the settlement days whose ledger is closed, per merchant
  payouts,   \* the payout of each merchant and day, None before it exists
  retried,   \* the days of which a payout that failed has a row of its own still
  latest,    \* the day of the payout of each merchant that was created last
  receipts,  \* the bank transfer receipt of each payout
  batches,   \* the settlement batch of each day
  pc,        \* the next tool call of the request in progress, or "idle"
  req,       \* that request: its case, complaint, subject and evidence
  cases      \* the stored cases

accountVars == <<accounts, frauds>>
settlementVars == <<ledgers, payouts, retried, latest, receipts, batches>>
vars == <<accountVars, settlementVars, pc, req, cases>>

Init ==
  /\ accounts = Accounts
  /\ frauds = FraudRecords
  /\ ledgers \in [Merchants -> {{Min(Days)}}]
  /\ payouts = [m \in Merchants |-> [d \in Days |-> None]]
  /\ retried = [m \in Merchants |-> {}] /\ latest = [m \in Merchants |-> None]
  /\ receipts = [m \in Merchants |-> [d \in Days |-> None]]
  /\ batches = [d \in Days |-> None]
  /\ pc = "idle" /\ req = None
  /\ cases = [c \in Cases |-> None]

-----------------------------------------------------------------------------
(* The systems of record, which move on their own *)

\* Risk looks at an account again: a signal appears, or the account opens.
RiskReviews(u) ==
  /\ frauds[u] # None
  /\ \E s \in (Dangerous \cap NewSignals) \ frauds[u].signals :
       frauds' = [frauds EXCEPT ![u].signals = @ \cup {s}]
  /\ UNCHANGED <<accounts, settlementVars, pc, req, cases>>

CloseDay(m, d) ==
  /\ d \notin ledgers[m] /\ d - 1 \in ledgers[m]
  /\ ledgers' = [ledgers EXCEPT ![m] = @ \cup {d}]
  /\ UNCHANGED <<accountVars, payouts, retried, latest, receipts, batches, pc, req, cases>>

RunBatch(d) ==
  /\ batches[d] = None
  /\ \E s \in {"failed", "done"} : batches' = [batches EXCEPT ![d] = [status |-> s]]
  /\ UNCHANGED <<accountVars, ledgers, payouts, retried, latest, receipts, pc, req, cases>>

Payout(m, d, status, retriable) ==
  [merchant |-> m, day |-> d, status |-> status, amount |-> Net[m][d],
   retriable |-> retriable]

\* The first attempt, or a new one after a failure the bank may get over.  A
\* new attempt takes over the row or has one of its own: merchant_payouts has
\* no constraint on the day.
StartPayout(m, d) ==
  /\ d \in ledgers[m] /\ Net[m][d] > 0
  /\ payouts[m][d] \in {None, Payout(m, d, "failed", TRUE)}
  /\ payouts' = [payouts EXCEPT ![m][d] = Payout(m, d, "processing", FALSE)]
  /\ \/ payouts[m][d] # None /\ UNCHANGED <<retried, latest>>
     \/ /\ latest' = [latest EXCEPT ![m] = d]
        /\ retried' = [retried EXCEPT ![m] = IF payouts[m][d] = None THEN @ ELSE @ \cup {d}]
  /\ UNCHANGED <<accountVars, ledgers, receipts, batches, pc, req, cases>>

EndPayout(m, d) ==
  /\ payouts[m][d] = Payout(m, d, "processing", FALSE)
  /\ \/ /\ payouts' = [payouts EXCEPT ![m][d] = Payout(m, d, "success", FALSE)]
        /\ \E sent \in BOOLEAN :
             receipts' = [receipts EXCEPT ![m][d] = [bank |-> "success", sent |-> sent]]
     \/ /\ \E r \in BOOLEAN : payouts' = [payouts EXCEPT ![m][d] = Payout(m, d, "failed", r)]
        /\ UNCHANGED receipts
  /\ UNCHANGED <<accountVars, ledgers, retried, latest, batches, pc, req, cases>>

SystemsMove ==
  \/ \E u \in Users : RiskReviews(u)
  \/ \E m \in Merchants, d \in Days :
       CloseDay(m, d) \/ StartPayout(m, d) \/ EndPayout(m, d)
  \/ \E d \in Days : RunBatch(d)

\* The money of a settlement is at the bank or on its way.
Paying(m, d) == payouts[m][d] # None /\ payouts[m][d].status \in {"processing", "success"}

-----------------------------------------------------------------------------
(* Taking a complaint in *)

Request(c, m) ==
  [case |-> c, complaint |-> m, ev |-> NoEvidence, paying |-> FALSE,
   subject |-> IF m.workflow = "fraud_account_lock" THEN m.user ELSE m.merchant]

\* A case is stored with what its request found; the ghost field paying says
\* whether the settlement was under way when its payout was read.
Case(r, action, status, output, approved) ==
  [workflow |-> r.complaint.workflow, complaint |-> r.complaint, subject |-> r.subject,
   ev |-> r.ev, paying |-> r.paying, action |-> action, status |-> status,
   output |-> output, approved |-> approved]

Store(c, case) == cases' = [cases EXCEPT ![c] = case]

EndRequest == pc' = "idle" /\ req' = None

\* extract_info and missing_info_handler: a complaint about an account that
\* names nobody is a dead letter; one about a settlement goes on regardless.
NoIdentity(m) == m.workflow = "fraud_account_lock" /\ m.user = None /\ m.hints = <<>>

Submit(c, m) ==
  /\ pc = "idle" /\ cases[c] = None
  /\ IF NoIdentity(m)
     THEN /\ Store(c, Case(Request(c, m), None, "closed", None, FALSE))
          /\ UNCHANGED <<pc, req>>
     ELSE /\ req' = Request(c, m)
          /\ pc' = IF m.workflow = "fraud_account_lock" THEN "identify" ELSE "profile"
          /\ UNCHANGED cases
  /\ UNCHANGED <<accountVars, settlementVars>>

-----------------------------------------------------------------------------
(* fetch_evidence: the reads of an account case *)

\* What a read of a record may give: the record, or None when it fails.  The
\* repositories answer a failed query like one that found nothing.
Read(record) == IF "read" \in Faults THEN {record, None} ELSE {record}

Reads(field, record, next) ==
  /\ \E r \in Read(record) : req' = [req EXCEPT !.ev[field] = r]
  /\ pc' = next
  /\ UNCHANGED <<accountVars, settlementVars, cases>>

Hints == req.complaint.hints
MayFail(hint) == hint = None \/ "read" \in Faults

\* An explicit user, else the first of phone, e-mail and wallet id whose lookup
\* answers; with no answer the evidence stays empty.
Identify ==
  /\ pc = "identify"
  /\ \/ /\ req.subject # None
        /\ pc' = "account" /\ UNCHANGED req
     \/ /\ req.subject = None
        /\ \E i \in DOMAIN Hints :
             /\ Hints[i] # None /\ \A j \in 1 .. i - 1 : MayFail(Hints[j])
             /\ req' = [req EXCEPT !.subject = Hints[i]]
        /\ pc' = "account"
     \/ /\ req.subject = None /\ \A i \in DOMAIN Hints : MayFail(Hints[i])
        /\ pc' = "decide" /\ UNCHANGED req
  /\ UNCHANGED <<accountVars, settlementVars, cases>>

ReadAccount == pc = "account" /\ Reads("account", accounts[req.subject], "fraud")
ReadFraud == pc = "fraud" /\ Reads("fraud", frauds[req.subject], "decide")

-----------------------------------------------------------------------------
(* fetch_evidence: the reads of a settlement case *)

\* By merchant id, else by contact.  A merchant id the lookup does not know is
\* used all the same; without any merchant the evidence stays empty.
ReadProfile ==
  LET m == req.complaint
      asked == IF m.merchant # None THEN m.merchant ELSE m.contact
  IN /\ pc = "profile"
     /\ \E p \in IF asked = None THEN {None} ELSE Read(Profiles[asked]) :
          LET subject == IF p # None THEN p.merchant ELSE m.merchant
          IN /\ req' = [req EXCEPT !.ev.profile = p, !.subject = subject]
             /\ pc' = IF subject = None THEN "decide" ELSE "bank"
     /\ UNCHANGED <<accountVars, settlementVars, cases>>

ReadBank == pc = "bank" /\ Reads("bank", Banks[req.subject], "ledger")

\* The ledger of the day asked for, or the latest one.
LedgerOf(m, day) ==
  LET d == IF day # None THEN day ELSE Max(ledgers[m])
  IN IF d \in ledgers[m]
     THEN [day |-> d, due |-> "past", net |-> Net[m][d]] ELSE None

ReadLedger ==
  /\ pc = "ledger"
  /\ Reads("ledger", LedgerOf(req.subject, req.complaint.day), "payout")

\* The rows of a day: limit(1) of a query without an order is any of them.
PayoutRows(m, d) ==
  {payouts[m][d]} \cup IF d \in retried[m] THEN {Payout(m, d, "failed", TRUE)} ELSE {}

\* get_merchant_payout: by the number the text names, whosever payout it is;
\* else one of the day asked for, or the latest of this merchant.
PayoutsFound(m, complaint) ==
  CASE complaint.payout # None -> PayoutRows(complaint.payout[1], complaint.payout[2])
    [] complaint.payout = None /\ complaint.day # None -> PayoutRows(m, complaint.day)
    [] OTHER -> {IF latest[m] = None THEN None ELSE payouts[m][latest[m]]}

ReadPayout ==
  /\ pc = "payout"
  /\ \E found \in PayoutsFound(req.subject, req.complaint) : \E p \in Read(found) :
       req' = [req EXCEPT !.ev.payout = p,
                          !.paying = /\ req.ev.ledger # None
                                     /\ Paying(req.subject, req.ev.ledger.day)]
  /\ pc' = "batch"
  /\ UNCHANGED <<accountVars, settlementVars, cases>>

\* The batch the text names, else of the day asked for, else of the ledger's.
BatchDay(m, ledger) ==
  CASE m.batch # None                  -> m.batch
    [] m.batch = None /\ m.day # None  -> m.day
    [] OTHER -> IF ledger # None THEN ledger.day ELSE None

ReadBatch ==
  LET d == BatchDay(req.complaint, req.ev.ledger)
  IN pc = "batch" /\ Reads("batch", IF d = None THEN None ELSE batches[d], "receipt")

\* By the transfer or the number of the payout that was read; the receipt of
\* the day may be that of a later attempt.
ReceiptsFound(p) ==
  IF p = None THEN {None}
  ELSE {receipts[p.merchant][p.day]} \cup IF p.status = "failed" THEN {None} ELSE {}

ReadReceipt ==
  /\ pc = "receipt"
  /\ \E found \in ReceiptsFound(req.ev.payout) : Reads("receipt", found, "decide")

-----------------------------------------------------------------------------
(* apply_rules, recommend_action, approval_gate, create_draft *)

ApplyRules(r) ==
  IF r.complaint.workflow = "fraud_account_lock"
  THEN DecideAccountLock(r.ev.account, r.ev.fraud)
  ELSE DecideSettlement(r.ev)

ToolActions == {"create_unlock_account_draft", "create_request_documents_response_draft",
                "draft_customer_response"}

NoDraft == {"request_identity_correction"}

\* Faulty variant: the amount is taken from the wallet ledger, like the packet's.
DraftAmountOfPacket(ev) == 0

\* _draft_manual_payout: the net amount of the ledger that was read.
DraftAmount(ev) == IF ev.ledger # None THEN ev.ledger.net ELSE 0

\* `Check duplicate payout risk`, on the evidence of the first phase.
DuplicateRisk(ev) == ev.payout # None /\ ev.payout.status \in {"processing", "success"}

\* Faulty variant: the draft is for the user the complaint came with.
DraftForCaller(r, action) ==
  [type |-> action, subject |-> r.complaint.user, amount |-> None, risk |-> FALSE]

Draft(r, action) ==
  [type |-> action, subject |-> r.subject,
   amount |-> IF action = "create_manual_payout_draft" THEN DraftAmount(r.ev) ELSE None,
   risk |-> IF action = "create_manual_payout_draft" THEN DuplicateRisk(r.ev) ELSE FALSE]

\* What create_draft leaves: a tool that fails leaves no draft.
Outputs(r, action) ==
  IF action \in NoDraft THEN {None}
  ELSE {Draft(r, action)} \cup
       (IF action \in ToolActions /\ "draft" \in Faults THEN {None} ELSE {})

\* Faulty variant: the approval follows the risk level alone.
DecideByRisk ==
  /\ pc = "decide"
  /\ LET d == ApplyRules(req)
     IN IF HighRisk(d.action)
        THEN Store(req.case, Case(req, d.action, "waiting_approval", None, FALSE))
        ELSE \E o \in Outputs(req, d.action) :
               Store(req.case, Case(req, d.action, "closed", o, FALSE))
  /\ EndRequest
  /\ UNCHANGED <<accountVars, settlementVars>>

Decide ==
  /\ pc = "decide"
  /\ LET d == ApplyRules(req)
     IN IF d.approval
        THEN Store(req.case, Case(req, d.action, "waiting_approval", None, FALSE))
        ELSE \E o \in Outputs(req, d.action) :
               Store(req.case, Case(req, d.action, "closed", o, FALSE))
  /\ EndRequest
  /\ UNCHANGED <<accountVars, settlementVars>>

Waiting(c) == cases[c] # None /\ cases[c].status = "waiting_approval"

Approve(c) ==
  /\ pc = "idle" /\ Waiting(c)
  /\ \E o \in Outputs(cases[c], cases[c].action) :
       Store(c, [cases[c] EXCEPT !.status = "closed", !.output = o, !.approved = TRUE])
  /\ UNCHANGED <<accountVars, settlementVars, pc, req>>

Reject(c) ==
  /\ pc = "idle" /\ Waiting(c)
  /\ Store(c, [cases[c] EXCEPT !.status = "closed"])
  /\ UNCHANGED <<accountVars, settlementVars, pc, req>>

Works ==
  \/ Identify \/ ReadAccount \/ ReadFraud
  \/ ReadProfile \/ ReadBank \/ ReadLedger \/ ReadPayout \/ ReadBatch \/ ReadReceipt
  \/ Decide

Next ==
  \/ \E c \in Cases, m \in Complaints : Submit(c, m)
  \/ Works
  \/ \E c \in Cases : Approve(c) \/ Reject(c)
  \/ SystemsMove

Spec == Init /\ [][Next]_vars

-----------------------------------------------------------------------------
(* Properties *)

\* Every variable holds what the code may keep in it.
TypeOK ==
  /\ pc \in {"idle", "identify", "account", "fraud", "profile", "bank", "ledger",
             "payout", "batch", "receipt", "decide"}
  /\ pc = "idle" <=> req = None
  /\ req # None => req.ev \in Evidence
  /\ \A m \in Merchants : ledgers[m] \subseteq Days /\ retried[m] \subseteq Days
  /\ \A c \in Cases : cases[c] # None =>
       /\ cases[c].status \in {"waiting_approval", "closed"}
       /\ cases[c].ev \in Evidence

Filed == {c \in Cases : cases[c] # None}
Drafted(action) == {c \in Filed : cases[c].output # None /\ cases[c].output.type = action}

\* A draft that gives an account back or moves or announces money, or asks for a
\* person's judgement, exists only after a person approved its case.
DraftsAreApproved ==
  \A a \in {"create_unlock_account_draft", "create_manual_payout_draft", "send_unc_email_draft"} :
    \A c \in Drafted(a) : cases[c].approved

\* The account an unlock draft names is the one whose lock and fraud record the
\* decision looked at, however the customer was identified.
UnlockOfTheReviewed ==
  \A c \in Drafted("create_unlock_account_draft") :
    /\ cases[c].ev.account.user = cases[c].output.subject
    /\ cases[c].ev.fraud.user = cases[c].output.subject

\* A payout draft is for money the ledger of that day owes this merchant.
PayoutOfTheLedger ==
  \A c \in Drafted("create_manual_payout_draft") :
    /\ cases[c].output.amount > 0
    /\ \E d \in ledgers[cases[c].output.subject] :
         cases[c].output.amount = Net[cases[c].output.subject][d]

\* When a payout is proposed although the settlement was already on its way as
\* its payout was read, the read failed, it was of another payout, or of an
\* earlier attempt at this one that failed.
DuplicateHasACause ==
  \A c \in Filed :
    cases[c].action = "create_manual_payout_draft" /\ cases[c].paying =>
      \/ cases[c].ev.payout = None /\ "read" \in Faults
      \/ cases[c].complaint.payout # None
      \/ cases[c].complaint.day = None /\ cases[c].ev.payout.day # cases[c].ev.ledger.day
      \/ /\ cases[c].complaint.day \in retried[cases[c].subject]
         /\ cases[c].ev.payout =
              Payout(cases[c].subject, cases[c].complaint.day, "failed", TRUE)

\* "Never duplicate payout if payout is processing or success": nobody is asked
\* to pay a settlement that was on its way when the case looked at it.
NeverDuplicatePayout ==
  \A c \in Filed : cases[c].action = "create_manual_payout_draft" => ~cases[c].paying

\* A payout draft made while the settlement is on its way carries the flag that
\* warns of a duplicate payout.
DuplicateIsFlagged ==
  [][\A c \in Cases :
       (/\ Waiting(c) /\ cases'[c].output # None
        /\ cases[c].action = "create_manual_payout_draft"
        /\ Paying(cases[c].subject, cases[c].ev.ledger.day))
       => cases'[c].output.risk]_cases

\* One account has at most one unlock draft.
OneUnlockDraft ==
  \A c, e \in Drafted("create_unlock_account_draft") :
    cases[c].output.subject = cases[e].output.subject => c = e
=============================================================================
