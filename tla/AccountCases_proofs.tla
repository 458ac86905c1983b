------------------------- MODULE AccountCases_proofs -------------------------
(***************************************************************************)
(* Drafts of account and settlement cases are approved, and are about the  *)
(* account that was reviewed and the money that is owed; and a payout that *)
(* is proposed twice has one of four causes.                               *)
(*                                                                         *)
(* None of the properties is inductive: a draft is made of evidence that   *)
(* was read, one record at a time, before it and perhaps by another way of *)
(* naming the customer.  The invariant follows the evidence: what the      *)
(* request in progress has read is about its subject, and a stored case is *)
(* the decision on such evidence.  PayInv adds what the payout that was    *)
(* read says of the settlement that was under way.                         *)
(***************************************************************************)
EXTENDS AccountCases, TLAPS

-----------------------------------------------------------------------------
(* The invariant *)

\* The fields of an evidence bundle, a request and a case.
EvForm(e) ==
  [account |-> e.account, fraud |-> e.fraud, profile |-> e.profile, bank |-> e.bank,
   ledger |-> e.ledger, payout |-> e.payout, batch |-> e.batch, receipt |-> e.receipt]
ReqForm(r) ==
  [case |-> r.case, complaint |-> r.complaint, ev |-> EvForm(r.ev), paying |-> r.paying,
   subject |-> r.subject]
CaseForm(x) ==
  [workflow |-> x.workflow, complaint |-> x.complaint, subject |-> x.subject, ev |-> x.ev,
   paying |-> x.paying, action |-> x.action, status |-> x.status, output |-> x.output,
   approved |-> x.approved]

\* Account records that were read are the subject's.
LockEvidence(e, s) ==
  /\ e.account # None => e.account.user = s
  /\ e.fraud # None => e.fraud.user = s

\* A ledger that was read is of a closed day of the subject; L is ledgers.
OwedEvidence(e, s, L) ==
  e.ledger # None =>
    /\ s \in Merchants
    /\ e.ledger.day \in L[s] /\ e.ledger.net = Net[s][e.ledger.day]

Unread(e) == e.account = None /\ e.fraud = None

\* The request at the tool call p.
ReqInv(r, p, L) ==
  /\ r = ReqForm(r)
  /\ r.case \in Cases
  /\ LockEvidence(r.ev, r.subject) /\ OwedEvidence(r.ev, r.subject, L)
  /\ p = "identify" => /\ Unread(r.ev) /\ r.ev.ledger = None
                       /\ r.complaint \in AccountComplaints /\ r.subject \in Maybe(Users)
  /\ p \in {"account", "fraud"} => r.subject \in Users /\ r.ev.ledger = None
  /\ p = "profile" => /\ Unread(r.ev) /\ r.ev.ledger = None
                      /\ r.complaint \in SettlementComplaints
  /\ p \in {"bank", "ledger", "payout", "batch", "receipt"} =>
       r.subject \in Merchants /\ Unread(r.ev)

CaseInv(x, L) ==
  /\ x = CaseForm(x)
  /\ LockEvidence(x.ev, x.subject) /\ OwedEvidence(x.ev, x.subject, L)
  /\ x.output # None => x.output = Draft(x, x.action)
  /\ x.output # None \/ x.status = "waiting_approval" => x.action = ApplyRules(x).action
  /\ x.output # None => x.approved \/ ~ApplyRules(x).approval

WorldInv ==
  /\ accounts = Accounts
  /\ frauds \in [Users -> Maybe(FraudCasesOf(Users))]
  /\ \A u \in Users : frauds[u] # None => frauds[u].user = u
  /\ ledgers \in [Merchants -> SUBSET Days]

CasesInv ==
  /\ cases = [c \in Cases |-> cases[c]]
  /\ \A c \in Cases : cases[c] # None => CaseInv(cases[c], ledgers)

RequestInv == pc # "idle" => ReqInv(req, pc, ledgers)

IInv == WorldInv /\ CasesInv /\ RequestInv

-----------------------------------------------------------------------------
(* What the rules decide *)

LEMMA LockDecisions ==
  ASSUME NEW a, NEW f
  PROVE  /\ DecideAccountLock(a, f) \in {ManualReview, Respond, RequestDocuments, Unlock}
         /\ DecideAccountLock(a, f) = Unlock => a # None /\ f # None
BY DEF DecideAccountLock, ManualReview, Respond, RequestDocuments, Unlock, Decision

LEMMA SettlementDecisions ==
  ASSUME NEW e
  PROVE  /\ DecideSettlement(e) \in {RequestIdentity, SettlementReview, RequestBankAccount,
                                      Respond, ManualPayout, SendUnc}
         /\ DecideSettlement(e) = ManualPayout =>
              e.ledger # None /\ ~(OrZero(e.ledger.net) <= 0)
<1>. DEFINE pay == DecidePayout(e.ledger, e.payout, e.batch, e.receipt)
            closed == e.ledger.due = "future"
            none == OrZero(e.ledger.net) <= 0
            held == e.profile.on_hold
            bad == BankAccountInvalid(e.bank)
<1>1. pay \in {SettlementReview, Respond, ManualPayout, SendUnc}
  BY DEF DecidePayout, AfterSuccess
<1>2. DecideSettlement(e) =
        IF e.profile = None THEN RequestIdentity
        ELSE IF held THEN SettlementReview
        ELSE IF e.bank = None THEN RequestBankAccount
        ELSE IF bad THEN RequestBankAccount
        ELSE IF e.ledger = None THEN SettlementReview
        ELSE IF closed \/ none THEN Respond ELSE pay
  BY DEF DecideSettlement
<1>3. ManualPayout \notin {RequestIdentity, SettlementReview, RequestBankAccount, Respond}
  BY DEF RequestIdentity, SettlementReview, RequestBankAccount, Respond, ManualPayout, Decision
<1>. HIDE DEF pay, closed, none, held, bad
<1>4. /\ DecideSettlement(e) \in {RequestIdentity, SettlementReview, RequestBankAccount,
                                   Respond, ManualPayout, SendUnc}
      /\ DecideSettlement(e) = ManualPayout => e.ledger # None /\ ~none
  BY <1>1, <1>2, <1>3
<1>5. QED BY <1>4 DEF none

LEMMA Decisions ==
  ASSUME NEW r
  PROVE  LET d == ApplyRules(r) IN
         /\ ~d.approval => d.action \notin {"create_unlock_account_draft",
                              "create_manual_payout_draft", "send_unc_email_draft"}
         /\ d.action = "create_unlock_account_draft" =>
              r.ev.account # None /\ r.ev.fraud # None
         /\ d.action = "create_manual_payout_draft" =>
              r.ev.ledger # None /\ ~(OrZero(r.ev.ledger.net) <= 0)
<1>1. CASE r.complaint.workflow = "fraud_account_lock"
  BY <1>1, LockDecisions
     DEF ApplyRules, ManualReview, Respond, RequestDocuments, Unlock, Decision
<1>2. CASE r.complaint.workflow # "fraud_account_lock"
  BY <1>2, SettlementDecisions
     DEF ApplyRules, RequestIdentity, SettlementReview, RequestBankAccount, Respond,
         ManualPayout, SendUnc, Decision
<1>3. QED BY <1>1, <1>2

-----------------------------------------------------------------------------
(* The systems of record move under the request and the cases *)

Grow(L, M) == \A m \in Merchants : L[m] \subseteq M[m]

LEMMA OwedGrows ==
  ASSUME NEW L, NEW M, Grow(L, M), NEW e, NEW s, OwedEvidence(e, s, L)
  PROVE  OwedEvidence(e, s, M)
BY DEF Grow, OwedEvidence

LEMMA CasesKept ==
  ASSUME CasesInv, cases' = cases, Grow(ledgers, ledgers') PROVE CasesInv'
<1>1. \A c \in Cases : cases[c] # None => CaseInv(cases[c], ledgers')
  BY OwedGrows DEF CasesInv, CaseInv
<1>2. QED BY <1>1 DEF CasesInv

LEMMA RequestKept ==
  ASSUME RequestInv, UNCHANGED <<pc, req>>, Grow(ledgers, ledgers') PROVE RequestInv'
<1>1. pc # "idle" => ReqInv(req, pc, ledgers')
  BY OwedGrows DEF RequestInv, ReqInv
<1>2. QED BY <1>1 DEF RequestInv

LEMMA WorldMoves ==
  ASSUME WorldInv, [Next]_vars PROVE WorldInv' /\ Grow(ledgers, ledgers')
<1>1. CASE UNCHANGED <<accountVars, ledgers>>
  BY <1>1 DEF WorldInv, Grow, accountVars
<1>2. ASSUME NEW u \in Users, RiskReviews(u) PROVE WorldInv' /\ Grow(ledgers, ledgers')
  <2>1. PICK s \in Dangerous \ frauds[u].signals :
          frauds' = [frauds EXCEPT ![u].signals = @ \cup {s}]
    BY <1>2 DEF RiskReviews
  <2>2. /\ frauds[u] # None /\ UNCHANGED <<accounts, ledgers>>
        /\ frauds \in [Users -> Maybe(FraudCasesOf(Users))]
        /\ frauds[u].user = u
    BY <1>2 DEF RiskReviews, WorldInv, settlementVars
  <2>3. PICK f \in FraudCasesOf(Users) : f = frauds[u]
    BY <2>2 DEF Maybe
  <2>. DEFINE g == [f EXCEPT !.signals = f.signals \cup {s}]
  <2>4. g \in FraudCasesOf(Users) /\ g.user = u
    BY <2>1, <2>2, <2>3 DEF FraudCasesOf, Dangerous, Signals
  <2>. HIDE DEF g
  <2>5. frauds' = [frauds EXCEPT ![u] = g]
    BY <2>1, <2>3 DEF g
  <2>6. frauds' \in [Users -> Maybe(FraudCasesOf(Users))]
    BY <2>2, <2>4, <2>5 DEF Maybe
  <2>7. \A v \in Users : frauds'[v] # None => frauds'[v].user = v
    BY <2>2, <2>4, <2>5 DEF WorldInv
  <2>8. QED BY <2>2, <2>6, <2>7 DEF WorldInv, Grow
<1>3. ASSUME NEW m \in Merchants, NEW d \in Days, CloseDay(m, d)
      PROVE WorldInv' /\ Grow(ledgers, ledgers')
  BY <1>3 DEF CloseDay, WorldInv, Grow, accountVars
<1>4. ASSUME NEW m \in Merchants, NEW d \in Days,
             StartPayout(m, d) \/ EndPayout(m, d)
      PROVE UNCHANGED <<accountVars, ledgers>>
  BY <1>4 DEF StartPayout, EndPayout
<1>5. ASSUME NEW d \in Days, RunBatch(d) PROVE UNCHANGED <<accountVars, ledgers>>
  BY <1>5 DEF RunBatch
<1>6. ASSUME NEW c \in Cases, NEW m \in Complaints, Submit(c, m)
      PROVE UNCHANGED <<accountVars, ledgers>>
  BY <1>6 DEF Submit, settlementVars
<1>7. ASSUME Works PROVE UNCHANGED <<accountVars, ledgers>>
  BY <1>7 DEF Works, Identify, ReadAccount, ReadFraud, ReadProfile, ReadBank, ReadLedger,
     ReadPayout, ReadBatch, ReadReceipt, Decide, Reads, settlementVars
<1>8. ASSUME NEW c \in Cases, Approve(c) \/ Reject(c)
      PROVE UNCHANGED <<accountVars, ledgers>>
  BY <1>8 DEF Approve, Reject, settlementVars
<1>9. ASSUME UNCHANGED vars PROVE UNCHANGED <<accountVars, ledgers>>
  BY <1>9 DEF vars, settlementVars
<1>10. QED BY <1>1, <1>2, <1>3, <1>4, <1>5, <1>6, <1>7, <1>8, <1>9 DEF Next, SystemsMove

-----------------------------------------------------------------------------
(* Requests: what one tool call adds is about the subject *)

\* A tool call that succeeds or fails puts r into one field of the evidence.
LEMMA ReadAdds ==
  ASSUME NEW field, NEW record, NEW next, Reads(field, record, next), req = ReqForm(req),
         field \in {"account", "fraud", "bank", "ledger", "batch", "receipt"}
  PROVE  \E r \in {record, None} :
           /\ req' = [req EXCEPT !.ev = [req.ev EXCEPT ![field] = r]]
           /\ pc' = next /\ UNCHANGED <<accountVars, settlementVars, cases>>
BY DEF Reads, Read

LEMMA AfterReadAccount ==
  ASSUME WorldInv, RequestInv, ReadAccount PROVE RequestInv'
<1>1. pc = "account" /\ ReqInv(req, "account", ledgers)
  BY DEF ReadAccount, RequestInv
<1>2. PICK r \in {accounts[req.subject], None} :
        req' = [req EXCEPT !.ev = [req.ev EXCEPT !["account"] = r]]
  BY <1>1, ReadAdds DEF ReadAccount, ReqInv
<1>3. pc' = "fraud" /\ ledgers' = ledgers
  BY DEF ReadAccount, Reads, settlementVars
<1>4. /\ req = ReqForm(req) /\ req.subject \in Users /\ req.ev.ledger = None
      /\ LockEvidence(req.ev, req.subject) /\ req.case \in Cases
  BY <1>1 DEF ReqInv
<1>5. /\ req'.ev = [req.ev EXCEPT !["account"] = r]
      /\ req'.subject = req.subject /\ req'.case = req.case
      /\ req'.complaint = req.complaint /\ req'.paying = req.paying
  BY <1>2, <1>4 DEF ReqForm
<1>6. req' = ReqForm(req')
  BY <1>2, <1>4 DEF ReqForm, EvForm
<1>7. req'.ev.account = r /\ req'.ev.fraud = req.ev.fraud /\ req'.ev.ledger = None
  BY <1>4, <1>5 DEF ReqForm, EvForm
<1>8. r # None => r.user = req.subject
  BY <1>4, RecordsAssumption DEF WorldInv, AccountsOf
<1>9. ReqInv(req', "fraud", ledgers)
  BY <1>4, <1>5, <1>6, <1>7, <1>8 DEF ReqInv, LockEvidence, OwedEvidence
<1>10. QED BY <1>3, <1>9 DEF RequestInv

LEMMA AfterReadFraud ==
  ASSUME WorldInv, RequestInv, ReadFraud PROVE RequestInv'
<1>1. pc = "fraud" /\ ReqInv(req, "fraud", ledgers)
  BY DEF ReadFraud, RequestInv
<1>2. PICK r \in {frauds[req.subject], None} :
        req' = [req EXCEPT !.ev = [req.ev EXCEPT !["fraud"] = r]]
  BY <1>1, ReadAdds DEF ReadFraud, ReqInv
<1>3. pc' = "decide" /\ ledgers' = ledgers
  BY DEF ReadFraud, Reads, settlementVars
<1>4. /\ req = ReqForm(req) /\ req.subject \in Users /\ req.ev.ledger = None
      /\ LockEvidence(req.ev, req.subject) /\ req.case \in Cases
  BY <1>1 DEF ReqInv
<1>5. /\ req'.ev = [req.ev EXCEPT !["fraud"] = r]
      /\ req'.subject = req.subject /\ req'.case = req.case
      /\ req'.complaint = req.complaint /\ req'.paying = req.paying
  BY <1>2, <1>4 DEF ReqForm
<1>6. req' = ReqForm(req')
  BY <1>2, <1>4 DEF ReqForm, EvForm
<1>7. req'.ev.fraud = r /\ req'.ev.account = req.ev.account /\ req'.ev.ledger = None
  BY <1>4, <1>5 DEF ReqForm, EvForm
<1>8. r # None => r.user = req.subject
  BY <1>4 DEF WorldInv
<1>9. ReqInv(req', "decide", ledgers)
  BY <1>4, <1>5, <1>6, <1>7, <1>8 DEF ReqInv, LockEvidence, OwedEvidence
<1>10. QED BY <1>3, <1>9 DEF RequestInv

\* The bank account, the batch and the receipt identify nobody.
LEMMA AfterReadOther ==
  ASSUME RequestInv, NEW field \in {"bank", "batch", "receipt"}, NEW record,
         NEW next \in {"ledger", "receipt", "decide"}, Reads(field, record, next),
         pc \in {"bank", "batch", "receipt"}
  PROVE  RequestInv'
<1>1. ReqInv(req, pc, ledgers) /\ req = ReqForm(req)
  BY DEF RequestInv, ReqInv
<1>2. PICK r \in {record, None} : req' = [req EXCEPT !.ev = [req.ev EXCEPT ![field] = r]]
  BY <1>1, ReadAdds
<1>3. pc' = next /\ ledgers' = ledgers
  BY DEF Reads, settlementVars
<1>4. /\ req.subject \in Merchants /\ Unread(req.ev) /\ req.case \in Cases
      /\ OwedEvidence(req.ev, req.subject, ledgers)
  BY <1>1 DEF ReqInv
<1>5. /\ req'.ev = [req.ev EXCEPT ![field] = r]
      /\ req'.subject = req.subject /\ req'.case = req.case
      /\ req'.complaint = req.complaint /\ req'.paying = req.paying
  BY <1>1, <1>2 DEF ReqForm
<1>6. req' = ReqForm(req')
  BY <1>1, <1>2 DEF ReqForm, EvForm
<1>7. /\ req'.ev.account = req.ev.account /\ req'.ev.fraud = req.ev.fraud
      /\ req'.ev.ledger = req.ev.ledger
  BY <1>1, <1>5 DEF ReqForm, EvForm
<1>8. ReqInv(req', next, ledgers)
  BY <1>4, <1>5, <1>6, <1>7 DEF ReqInv, LockEvidence, OwedEvidence, Unread
<1>9. QED BY <1>3, <1>8 DEF RequestInv

LEMMA AfterReadLedger ==
  ASSUME RequestInv, ReadLedger PROVE RequestInv'
<1>1. pc = "ledger" /\ ReqInv(req, "ledger", ledgers)
  BY DEF ReadLedger, RequestInv
<1>2. PICK r \in {LedgerOf(req.subject, req.complaint.day), None} :
        req' = [req EXCEPT !.ev = [req.ev EXCEPT !["ledger"] = r]]
  BY <1>1, ReadAdds DEF ReadLedger, ReqInv
<1>3. pc' = "payout" /\ ledgers' = ledgers
  BY DEF ReadLedger, Reads, settlementVars
<1>4. /\ req = ReqForm(req) /\ req.subject \in Merchants /\ Unread(req.ev)
      /\ req.case \in Cases
  BY <1>1 DEF ReqInv
<1>5. /\ req'.ev = [req.ev EXCEPT !["ledger"] = r]
      /\ req'.subject = req.subject /\ req'.case = req.case
      /\ req'.complaint = req.complaint /\ req'.paying = req.paying
  BY <1>2, <1>4 DEF ReqForm
<1>6. req' = ReqForm(req')
  BY <1>2, <1>4 DEF ReqForm, EvForm
<1>7. req'.ev.ledger = r /\ Unread(req'.ev)
  BY <1>4, <1>5 DEF ReqForm, EvForm, Unread
<1>8. r # None => r.day \in ledgers[req.subject] /\ r.net = Net[req.subject][r.day]
  BY <1>2 DEF LedgerOf
<1>9. ReqInv(req', "payout", ledgers)
  BY <1>4, <1>5, <1>6, <1>7, <1>8 DEF ReqInv, LockEvidence, OwedEvidence, Unread
<1>10. QED BY <1>3, <1>9 DEF RequestInv

LEMMA AfterReadPayout ==
  ASSUME RequestInv, ReadPayout PROVE RequestInv'
<1>1. pc = "payout" /\ ReqInv(req, "payout", ledgers) /\ pc' = "batch" /\ ledgers' = ledgers
  BY DEF ReadPayout, RequestInv, settlementVars
<1>2. PICK p, b : req' = [req EXCEPT !.ev.payout = p, !.paying = b]
  BY DEF ReadPayout
<1>3. /\ req = ReqForm(req) /\ req.subject \in Merchants /\ Unread(req.ev)
      /\ req.case \in Cases /\ OwedEvidence(req.ev, req.subject, ledgers)
  BY <1>1 DEF ReqInv
<1>4. /\ req'.subject = req.subject /\ req'.case = req.case
      /\ req'.ev.account = req.ev.account /\ req'.ev.fraud = req.ev.fraud
      /\ req'.ev.ledger = req.ev.ledger
  BY <1>2, <1>3 DEF ReqForm, EvForm
<1>5. req' = ReqForm(req')
  <2>. DEFINE e == [req.ev EXCEPT !.payout = p]
  <2>1. req.ev = EvForm(req.ev)
    BY <1>3 DEF ReqForm
  <2>2. e = EvForm(e)
    BY <2>1 DEF EvForm
  <2>. HIDE DEF e
  <2>3. req' = [req EXCEPT !.ev = e, !.paying = b]
    BY <1>2, <1>3 DEF ReqForm, e
  <2>4. QED BY <1>3, <2>2, <2>3 DEF ReqForm
<1>6. ReqInv(req', "batch", ledgers)
  BY <1>3, <1>4, <1>5 DEF ReqInv, LockEvidence, OwedEvidence, Unread
<1>7. QED BY <1>1, <1>6 DEF RequestInv

\* A profile that was found names the subject; otherwise the complaint does.
LEMMA AfterReadProfile ==
  ASSUME RequestInv, ReadProfile PROVE RequestInv'
<1>1. pc = "profile" /\ ReqInv(req, "profile", ledgers) /\ ledgers' = ledgers
  BY DEF ReadProfile, RequestInv, settlementVars
<1>2. /\ req = ReqForm(req) /\ Unread(req.ev) /\ req.ev.ledger = None /\ req.case \in Cases
      /\ req.complaint \in SettlementComplaints
  BY <1>1 DEF ReqInv
<1>. DEFINE m == req.complaint
            asked == IF m.merchant # None THEN m.merchant ELSE m.contact
<1>3. m.merchant \in Maybe(Merchants) /\ asked \in Maybe(Merchants)
  BY <1>2 DEF SettlementComplaints
<1>4. PICK p \in IF asked = None THEN {None} ELSE Read(Profiles[asked]) :
        /\ req' = [req EXCEPT !.ev.profile = p,
                              !.subject = IF p # None THEN p.merchant ELSE m.merchant]
        /\ pc' = IF (IF p # None THEN p.merchant ELSE m.merchant) = None
                 THEN "decide" ELSE "bank"
  BY DEF ReadProfile
<1>. DEFINE s == IF p # None THEN p.merchant ELSE m.merchant
<1>5. s \in Maybe(Merchants)
  <2>1. p # None => asked \in Merchants /\ p = Profiles[asked]
    BY <1>3, <1>4 DEF Read, Maybe
  <2>2. QED BY <1>3, <2>1, RecordsAssumption DEF Maybe, ProfilesOf
<1>. HIDE DEF s, m, asked
<1>6. /\ req'.subject = s /\ req'.case = req.case
      /\ req'.ev.account = req.ev.account /\ req'.ev.fraud = req.ev.fraud
      /\ req'.ev.ledger = req.ev.ledger
  BY <1>2, <1>4 DEF ReqForm, EvForm, s
<1>7. req' = ReqForm(req')
  <2>. DEFINE e == [req.ev EXCEPT !.profile = p]
  <2>1. req.ev = EvForm(req.ev)
    BY <1>2 DEF ReqForm
  <2>2. e = EvForm(e)
    BY <2>1 DEF EvForm
  <2>. HIDE DEF e
  <2>3. req' = [req EXCEPT !.ev = e, !.subject = s]
    BY <1>2, <1>4 DEF ReqForm, e, s
  <2>4. QED BY <1>2, <2>2, <2>3 DEF ReqForm
<1>8. pc' \in {"decide", "bank"} /\ (pc' = "bank" => s \in Merchants)
  BY <1>4, <1>5 DEF s, Maybe
<1>9. ReqInv(req', pc', ledgers)
  BY <1>2, <1>6, <1>7, <1>8 DEF ReqInv, LockEvidence, OwedEvidence, Unread
<1>10. QED BY <1>1, <1>9 DEF RequestInv

\* Whoever the hints lead to, nothing was read about anybody before.
LEMMA AfterIdentify ==
  ASSUME RequestInv, Identify PROVE RequestInv'
<1>1. pc = "identify" /\ ReqInv(req, "identify", ledgers) /\ ledgers' = ledgers
  BY DEF Identify, RequestInv, settlementVars
<1>2. /\ req = ReqForm(req) /\ Unread(req.ev) /\ req.ev.ledger = None /\ req.case \in Cases
      /\ req.complaint \in AccountComplaints /\ req.subject \in Maybe(Users)
  BY <1>1 DEF ReqInv
<1>3. Hints \in Seq(Maybe(Users))
  BY <1>2 DEF Hints, AccountComplaints
<1>4. CASE req' = req /\ pc' \in {"account", "decide"} /\ (pc' = "account" => req.subject # None)
  <2>1. ReqInv(req, pc', ledgers)
    BY <1>2, <1>4 DEF ReqInv, LockEvidence, OwedEvidence, Unread, Maybe
  <2>2. QED BY <1>1, <1>4, <2>1 DEF RequestInv
<1>5. CASE /\ \E i \in DOMAIN Hints :
               Hints[i] # None /\ req' = [req EXCEPT !.subject = Hints[i]]
           /\ pc' = "account"
  <2>1. PICK i \in DOMAIN Hints :
          Hints[i] # None /\ req' = [req EXCEPT !.subject = Hints[i]]
    BY <1>5
  <2>2. Hints[i] \in Users
    BY <1>3, <2>1 DEF Maybe
  <2>3. /\ req'.subject \in Users /\ req'.ev = req.ev /\ req'.case = req.case
        /\ req' = ReqForm(req')
    BY <1>2, <2>1, <2>2 DEF ReqForm
  <2>4. ReqInv(req', "account", ledgers)
    BY <1>2, <2>3 DEF ReqInv, LockEvidence, OwedEvidence, Unread
  <2>5. QED BY <1>1, <1>5, <2>4 DEF RequestInv
<1>6. QED BY <1>4, <1>5 DEF Identify

-----------------------------------------------------------------------------
(* Cases: what is stored is the decision on that evidence *)

LEMMA StoreKeeps ==
  ASSUME CasesInv, ledgers' = ledgers, NEW c \in Cases, NEW x, Store(c, x),
         CaseInv(x, ledgers)
  PROVE  CasesInv'
<1>1. cases' = [cases EXCEPT ![c] = x] /\ cases = [d \in Cases |-> cases[d]]
  BY DEF Store, CasesInv
<1>2. cases' = [d \in Cases |-> cases'[d]]
  BY <1>1
<1>3. \A d \in Cases : cases'[d] # None => CaseInv(cases'[d], ledgers)
  BY <1>1 DEF CasesInv
<1>4. QED BY <1>2, <1>3 DEF CasesInv

LEMMA AfterSubmit ==
  ASSUME CasesInv, NEW c \in Cases, NEW m \in Complaints, Submit(c, m)
  PROVE  CasesInv' /\ RequestInv'
<1>. DEFINE r == Request(c, m)
            x == Case(r, None, "closed", None, FALSE)
<1>1. /\ r = ReqForm(r) /\ r.ev = NoEvidence /\ r.case = c /\ r.complaint = m
      /\ r.subject = IF m.workflow = "fraud_account_lock" THEN m.user ELSE m.merchant
  BY DEF Request, ReqForm, EvForm, NoEvidence
<1>2. Unread(r.ev) /\ r.ev.ledger = None
  BY <1>1 DEF NoEvidence, Unread
<1>. HIDE DEF r
<1>3. ledgers' = ledgers /\ pc = "idle"
  BY DEF Submit, settlementVars
<1>4. CASE NoIdentity(m)
  <2>1. x = CaseForm(x) /\ x.output = None /\ x.status = "closed" /\ x.ev = r.ev
    BY DEF Case, CaseForm
  <2>. HIDE DEF x
  <2>2. CaseInv(x, ledgers)
    BY <1>2, <2>1 DEF CaseInv, LockEvidence, OwedEvidence, Unread
  <2>3. Store(c, x) /\ pc' = pc
    BY <1>4 DEF Submit, x, r
  <2>4. QED BY <1>3, <2>2, <2>3, StoreKeeps DEF RequestInv
<1>5. CASE ~NoIdentity(m)
  <2>1. /\ cases' = cases /\ req' = r
        /\ pc' = IF m.workflow = "fraud_account_lock" THEN "identify" ELSE "profile"
    BY <1>5 DEF Submit, r
  <2>2. /\ m.workflow = "fraud_account_lock" => m \in AccountComplaints
        /\ m.workflow # "fraud_account_lock" => m \in SettlementComplaints
    BY ComplaintsAssumption DEF AccountComplaints, SettlementComplaints
  <2>3. m \in AccountComplaints => m.user \in Maybe(Users)
    BY DEF AccountComplaints
  <2>4. ReqInv(r, pc', ledgers)
    BY <1>1, <1>2, <2>1, <2>2, <2>3 DEF ReqInv, LockEvidence, OwedEvidence, Unread
  <2>5. CasesInv'
    BY <1>3, <2>1 DEF CasesInv
  <2>6. QED BY <1>3, <2>1, <2>4, <2>5 DEF RequestInv
<1>6. QED BY <1>4, <1>5

LEMMA AfterDecide ==
  ASSUME CasesInv, RequestInv, Decide PROVE CasesInv' /\ RequestInv'
<1>. DEFINE d == ApplyRules(req)
<1>1. /\ ReqInv(req, "decide", ledgers) /\ ledgers' = ledgers /\ pc' = "idle"
  BY DEF Decide, RequestInv, settlementVars, EndRequest
<1>2. /\ req.case \in Cases
      /\ LockEvidence(req.ev, req.subject) /\ OwedEvidence(req.ev, req.subject, ledgers)
  BY <1>1 DEF ReqInv
<1>3. PICK o, status :
        /\ Store(req.case, Case(req, d.action, status, o, FALSE))
        /\ o # None => ~d.approval /\ o = Draft(req, d.action)
  BY DEF Decide, Outputs
<1>. DEFINE x == Case(req, d.action, status, o, FALSE)
<1>4. /\ x = CaseForm(x) /\ x.ev = req.ev /\ x.subject = req.subject
      /\ x.complaint = req.complaint /\ x.action = d.action /\ x.output = o
  BY DEF Case, CaseForm
<1>5. ApplyRules(x) = d /\ Draft(x, d.action) = Draft(req, d.action)
  BY <1>4 DEF ApplyRules, Draft
<1>. HIDE DEF x, d
<1>6. CaseInv(x, ledgers)
  BY <1>2, <1>3, <1>4, <1>5 DEF CaseInv
<1>7. CasesInv'
  BY <1>1, <1>2, <1>3, <1>6, StoreKeeps DEF x
<1>8. QED BY <1>1, <1>7 DEF RequestInv

\* a waiting case as its approval leaves it
ClosedCase(y, o, t) == [y EXCEPT !.status = "closed", !.output = o, !.approved = t]

LEMMA Closing ==
  ASSUME NEW y, y = CaseForm(y), NEW o, NEW t, NEW x,
         x = ClosedCase(y, o, t)
  PROVE  /\ x = CaseForm(x) /\ x.ev = y.ev /\ x.subject = y.subject /\ x.output = o
         /\ x.complaint = y.complaint /\ x.action = y.action /\ x.approved = t
         /\ x.paying = y.paying
<1>. DEFINE u == [y EXCEPT !.status = "closed"]
            v == [u EXCEPT !.output = o]
            w == [v EXCEPT !.approved = t]
<1>1. /\ u = CaseForm(u) /\ u.ev = y.ev /\ u.subject = y.subject
      /\ u.complaint = y.complaint /\ u.action = y.action /\ u.paying = y.paying
  BY DEF CaseForm
<1>. HIDE DEF u
<1>2. /\ v = CaseForm(v) /\ v.ev = u.ev /\ v.subject = u.subject /\ v.output = o
      /\ v.complaint = u.complaint /\ v.action = u.action /\ v.paying = u.paying
  BY <1>1 DEF CaseForm
<1>. HIDE DEF v
<1>3. /\ w = CaseForm(w) /\ w.ev = v.ev /\ w.subject = v.subject /\ w.output = v.output
      /\ w.complaint = v.complaint /\ w.action = v.action /\ w.approved = t
      /\ w.paying = v.paying
  BY <1>2 DEF CaseForm
<1>4. w = x
  BY DEF u, v, ClosedCase
<1>. HIDE DEF w
<1>5. QED BY <1>1, <1>2, <1>3, <1>4

LEMMA AfterApprove ==
  ASSUME CasesInv, NEW c \in Cases, Approve(c) PROVE CasesInv'
<1>1. /\ cases[c] # None /\ cases[c].status = "waiting_approval" /\ ledgers' = ledgers
      /\ CaseInv(cases[c], ledgers)
  BY DEF Approve, Waiting, CasesInv, settlementVars
<1>2. PICK o \in Outputs(cases[c], cases[c].action) :
        Store(c, [cases[c] EXCEPT !.status = "closed", !.output = o, !.approved = TRUE])
  BY DEF Approve
<1>3. o # None => o = Draft(cases[c], cases[c].action)
  BY <1>2 DEF Outputs
<1>4. PICK y : y = cases[c]
  OBVIOUS
<1>5. PICK yes : yes = TRUE
  OBVIOUS
<1>6. PICK x : x = ClosedCase(y, o, yes)
  OBVIOUS
<1>7. y = CaseForm(y)
  BY <1>1, <1>4 DEF CaseInv
<1>8. /\ x = CaseForm(x) /\ x.ev = y.ev /\ x.subject = y.subject /\ x.output = o
      /\ x.complaint = y.complaint /\ x.action = y.action /\ x.approved = yes
  BY <1>7, <1>6, Closing
<1>9. ApplyRules(x) = ApplyRules(y) /\ Draft(x, y.action) = Draft(y, y.action)
  BY <1>8 DEF ApplyRules, Draft
<1>10. /\ LockEvidence(y.ev, y.subject) /\ OwedEvidence(y.ev, y.subject, ledgers)
      /\ y.action = ApplyRules(y).action
  BY <1>1, <1>4 DEF CaseInv
<1>11. CaseInv(x, ledgers)
  BY <1>3, <1>8, <1>9, <1>10, <1>5, <1>4 DEF CaseInv
<1>12. Store(c, x)
  BY <1>2, <1>6, <1>5, <1>4 DEF ClosedCase
<1>13. QED BY <1>1, <1>11, <1>12, StoreKeeps

LEMMA AfterReject ==
  ASSUME CasesInv, NEW c \in Cases, Reject(c) PROVE CasesInv'
<1>. DEFINE y == cases[c]
            x == [y EXCEPT !.status = "closed"]
<1>1. ledgers' = ledgers /\ CaseInv(y, ledgers) /\ Store(c, x)
  BY DEF Reject, Waiting, CasesInv, settlementVars
<1>2. y = CaseForm(y)
  BY <1>1 DEF CaseInv
<1>3. /\ x = CaseForm(x) /\ x.ev = y.ev /\ x.subject = y.subject /\ x.output = y.output
      /\ x.complaint = y.complaint /\ x.action = y.action /\ x.approved = y.approved
      /\ x.status = "closed"
  BY <1>2 DEF CaseForm
<1>4. ApplyRules(x) = ApplyRules(y) /\ Draft(x, y.action) = Draft(y, y.action)
  BY <1>3 DEF ApplyRules, Draft
<1>. HIDE DEF x, y
<1>5. CaseInv(x, ledgers)
  BY <1>1, <1>3, <1>4 DEF CaseInv
<1>6. QED BY <1>1, <1>5, StoreKeeps

-----------------------------------------------------------------------------
(* The theorems *)

LEMMA InitInv == Init => IInv
<1>. SUFFICES ASSUME Init PROVE IInv
  OBVIOUS
<1>1. WorldInv
  BY RecordsAssumption, DaysAssumption DEF Init, WorldInv
<1>2. CasesInv /\ RequestInv
  BY DEF Init, CasesInv, RequestInv
<1>3. QED BY <1>1, <1>2 DEF IInv

LEMMA NextInv == IInv /\ [Next]_vars => IInv'
<1>. SUFFICES ASSUME IInv, [Next]_vars PROVE IInv'
  OBVIOUS
<1>1. WorldInv' /\ Grow(ledgers, ledgers')
  BY WorldMoves DEF IInv
<1>2. CasesInv' /\ RequestInv'
  <2>1. CASE UNCHANGED <<pc, req, cases>>
    BY <1>1, <2>1, CasesKept, RequestKept DEF IInv
  <2>2. ASSUME NEW c \in Cases, NEW m \in Complaints, Submit(c, m)
        PROVE CasesInv' /\ RequestInv'
    BY <2>2, AfterSubmit DEF IInv
  <2>3. ASSUME SystemsMove PROVE UNCHANGED <<pc, req, cases>>
    BY <2>3 DEF SystemsMove, RiskReviews, CloseDay, StartPayout, EndPayout, RunBatch
  <2>4. CASE Works
    <3>1. CASE Decide
      BY <3>1, AfterDecide DEF IInv
    <3>2. ASSUME Identify \/ ReadAccount \/ ReadFraud \/ ReadProfile \/ ReadLedger \/ ReadPayout
          PROVE CasesInv' /\ RequestInv'
      <4>1. cases' = cases
        BY <3>2 DEF Identify, ReadAccount, ReadFraud, ReadProfile, ReadLedger, ReadPayout, Reads
      <4>2. RequestInv'
        BY <3>2, AfterIdentify, AfterReadAccount, AfterReadFraud, AfterReadProfile,
           AfterReadLedger, AfterReadPayout DEF IInv
      <4>3. QED BY <1>1, <4>1, <4>2, CasesKept DEF IInv
    <3>3. ASSUME ReadBank \/ ReadBatch \/ ReadReceipt PROVE CasesInv' /\ RequestInv'
      <4>1. cases' = cases
        BY <3>3 DEF ReadBank, ReadBatch, ReadReceipt, Reads
      <4>2. ASSUME ReadBank PROVE RequestInv'
        BY <4>2, AfterReadOther DEF ReadBank, IInv
      <4>3. ASSUME ReadBatch PROVE RequestInv'
        BY <4>3, AfterReadOther DEF ReadBatch, IInv
      <4>4. ASSUME ReadReceipt PROVE RequestInv'
        BY <4>4, AfterReadOther DEF ReadReceipt, IInv
      <4>5. QED BY <1>1, <3>3, <4>1, <4>2, <4>3, <4>4, CasesKept DEF IInv
    <3>4. QED BY <2>4, <3>1, <3>2, <3>3 DEF Works
  <2>5. ASSUME NEW c \in Cases, Approve(c) \/ Reject(c) PROVE CasesInv' /\ RequestInv'
    <3>1. CasesInv'
      BY <2>5, AfterApprove, AfterReject DEF IInv
    <3>2. UNCHANGED <<pc, req>>
      BY <2>5 DEF Approve, Reject
    <3>3. QED BY <1>1, <3>1, <3>2, RequestKept DEF IInv
  <2>6. ASSUME UNCHANGED vars PROVE UNCHANGED <<pc, req, cases>>
    BY <2>6 DEF vars
  <2>7. QED BY <2>1, <2>2, <2>3, <2>4, <2>5, <2>6 DEF Next
<1>3. QED BY <1>1, <1>2 DEF IInv

LEMMA Inductive == Spec => []IInv
BY InitInv, NextInv, PTL DEF Spec

\* The output of a case is a draft of the action the rules decided on.
LEMMA Outcome ==
  ASSUME IInv, NEW c \in Filed, cases[c].output # None
  PROVE  LET x == cases[c] IN
         /\ c \in Cases /\ x.output = Draft(x, x.action) /\ x.output.type = x.action
         /\ x.action = ApplyRules(x).action
         /\ x.approved \/ ~ApplyRules(x).approval
         /\ LockEvidence(x.ev, x.subject) /\ OwedEvidence(x.ev, x.subject, ledgers)
<1>1. c \in Cases /\ CaseInv(cases[c], ledgers)
  BY DEF IInv, CasesInv, Filed
<1>2. cases[c].output = Draft(cases[c], cases[c].action)
  BY <1>1 DEF CaseInv
<1>3. Draft(cases[c], cases[c].action).type = cases[c].action
  BY DEF Draft
<1>4. QED BY <1>1, <1>2, <1>3 DEF CaseInv

\* No account is given back and no money moved or announced without a person:
\* every such draft belongs to an approved case (approval_gate, create_draft).
THEOREM DraftsAreApprovedThm == Spec => []DraftsAreApproved
<1>1. IInv => DraftsAreApproved
  <2>. SUFFICES ASSUME IInv, NEW a \in {"create_unlock_account_draft",
                         "create_manual_payout_draft", "send_unc_email_draft"},
                       NEW c \in Drafted(a)
       PROVE cases[c].approved
    BY DEF DraftsAreApproved
  <2>1. c \in Filed /\ cases[c].output # None /\ cases[c].output.type = a
    BY DEF Drafted
  <2>2. cases[c].approved \/ ~ApplyRules(cases[c]).approval
    BY <2>1, Outcome
  <2>3. ApplyRules(cases[c]).action = a
    BY <2>1, Outcome
  <2>4. QED BY <2>2, <2>3, Decisions
<1>2. QED BY <1>1, Inductive, PTL

\* However the customer was identified, an unlock draft names the account whose
\* lock and fraud record the decision looked at.
THEOREM UnlockOfTheReviewedThm == Spec => []UnlockOfTheReviewed
<1>1. IInv => UnlockOfTheReviewed
  <2>. SUFFICES ASSUME IInv, NEW c \in Drafted("create_unlock_account_draft")
       PROVE /\ cases[c].ev.account.user = cases[c].output.subject
             /\ cases[c].ev.fraud.user = cases[c].output.subject
    BY DEF UnlockOfTheReviewed
  <2>1. /\ c \in Filed /\ cases[c].output # None
        /\ cases[c].output.type = "create_unlock_account_draft"
    BY DEF Drafted
  <2>2. /\ ApplyRules(cases[c]).action = "create_unlock_account_draft"
        /\ LockEvidence(cases[c].ev, cases[c].subject)
        /\ cases[c].output = Draft(cases[c], cases[c].action)
    BY <2>1, Outcome
  <2>3. cases[c].ev.account # None /\ cases[c].ev.fraud # None
    BY <2>2, Decisions
  <2>4. cases[c].output.subject = cases[c].subject
    BY <2>2 DEF Draft
  <2>5. QED BY <2>2, <2>3, <2>4 DEF LockEvidence
<1>2. QED BY <1>1, Inductive, PTL

\* A payout draft is for a positive amount that the ledger of a closed day owes
\* its merchant, whatever was settled in the meantime (_draft_manual_payout).
THEOREM PayoutOfTheLedgerThm == Spec => []PayoutOfTheLedger
<1>1. IInv => PayoutOfTheLedger
  <2>. SUFFICES ASSUME IInv, NEW c \in Drafted("create_manual_payout_draft")
       PROVE /\ cases[c].output.amount > 0
             /\ \E d \in ledgers[cases[c].output.subject] :
                  cases[c].output.amount = Net[cases[c].output.subject][d]
    BY DEF PayoutOfTheLedger
  <2>. DEFINE x == cases[c]
              s == x.subject
              e == x.ev.ledger
  <2>1. /\ c \in Filed /\ x.output # None
        /\ x.output.type = "create_manual_payout_draft"
    BY DEF Drafted
  <2>2. /\ ApplyRules(x).action = "create_manual_payout_draft"
        /\ x.action = "create_manual_payout_draft"
        /\ OwedEvidence(x.ev, s, ledgers) /\ x.output = Draft(x, x.action)
    BY <2>1, Outcome
  <2>3. e # None /\ ~(OrZero(e.net) <= 0)
    BY <2>2, Decisions
  <2>4. x.output.subject = s /\ x.output.amount = e.net
    BY <2>2, <2>3 DEF Draft, DraftAmount
  <2>5. s \in Merchants /\ e.day \in ledgers[s] /\ e.net = Net[s][e.day]
    BY <2>2, <2>3 DEF OwedEvidence
  <2>. HIDE DEF x, s, e
  <2>6. e.day \in Days
    BY <2>5 DEF IInv, WorldInv
  <2>7. e.net \in Int
    BY <2>5, <2>6, NetAssumption
  <2>8. e.net > 0
    BY <2>3, <2>7 DEF OrZero
  <2>9. x.output.amount > 0
    BY <2>4, <2>8
  <2>10. QED BY <2>4, <2>5, <2>9 DEF x
<1>2. QED BY <1>1, Inductive, PTL

-----------------------------------------------------------------------------
(* The records of the settlement system *)

WorldTypes ==
  /\ payouts \in [Merchants -> [Days -> Maybe(PayoutsOf(Merchants, Days))]]
  /\ retried \in [Merchants -> SUBSET Days] /\ latest \in [Merchants -> Maybe(Days)]
  /\ receipts \in [Merchants -> [Days -> Maybe(Receipts)]]
  /\ batches \in [Days -> Maybe(Batches)]

LEMMA WorldTypesMove ==
  ASSUME WorldTypes, [Next]_vars PROVE WorldTypes'
<1>1. CASE UNCHANGED <<payouts, retried, latest, receipts, batches>>
  BY <1>1 DEF WorldTypes
<1>2. ASSUME NEW d \in Days, RunBatch(d) PROVE WorldTypes'
  <2>1. PICK s \in {"failed", "done"} : batches' = [batches EXCEPT ![d] = [status |-> s]]
    BY <1>2 DEF RunBatch
  <2>2. [status |-> s] \in Maybe(Batches)
    BY <2>1 DEF Maybe, Batches
  <2>3. UNCHANGED <<payouts, retried, latest, receipts>>
    BY <1>2 DEF RunBatch
  <2> QED BY <2>1, <2>2, <2>3 DEF WorldTypes
<1>3. ASSUME NEW m \in Merchants, NEW d \in Days, NEW s \in PayoutStatus, NEW b \in BOOLEAN
      PROVE  Payout(m, d, s, b) \in Maybe(PayoutsOf(Merchants, Days))
  BY NetAssumption DEF Payout, Maybe, PayoutsOf
<1>4. ASSUME NEW m \in Merchants, NEW d \in Days, NEW s \in PayoutStatus, NEW b \in BOOLEAN,
             payouts' = [payouts EXCEPT ![m][d] = Payout(m, d, s, b)],
             UNCHANGED batches,
             retried' \in [Merchants -> SUBSET Days], latest' \in [Merchants -> Maybe(Days)],
             receipts' \in [Merchants -> [Days -> Maybe(Receipts)]]
      PROVE  WorldTypes'
  <2>. DEFINE p == Payout(m, d, s, b)
  <2>1. p \in Maybe(PayoutsOf(Merchants, Days)) /\ payouts' = [payouts EXCEPT ![m][d] = p]
    BY <1>3, <1>4
  <2>. HIDE DEF p
  <2>2. payouts' \in [Merchants -> [Days -> Maybe(PayoutsOf(Merchants, Days))]]
    BY <2>1 DEF WorldTypes
  <2> QED BY <1>4, <2>2 DEF WorldTypes
<1>5. ASSUME NEW m \in Merchants, NEW d \in Days, StartPayout(m, d) PROVE WorldTypes'
  <2>1. payouts' = [payouts EXCEPT ![m][d] = Payout(m, d, "processing", FALSE)]
    BY <1>5 DEF StartPayout
  <2>2. UNCHANGED <<receipts, batches>> /\ "processing" \in PayoutStatus
    BY <1>5 DEF StartPayout, PayoutStatus
  <2>3. receipts' \in [Merchants -> [Days -> Maybe(Receipts)]]
    BY <2>2 DEF WorldTypes
  <2>4. /\ UNCHANGED retried \/ \E D : /\ D \in {retried[m], retried[m] \cup {d}}
                                       /\ retried' = [retried EXCEPT ![m] = D]
        /\ latest' = latest \/ latest' = [latest EXCEPT ![m] = d]
    BY <1>5 DEF StartPayout
  <2>5. retried' \in [Merchants -> SUBSET Days]
    BY <2>4 DEF WorldTypes
  <2>6. latest' \in [Merchants -> Maybe(Days)]
    BY <2>4 DEF WorldTypes, Maybe
  <2> QED BY <1>4, <2>1, <2>2, <2>3, <2>5, <2>6
<1>6. ASSUME NEW m \in Merchants, NEW d \in Days, EndPayout(m, d) PROVE WorldTypes'
  <2>1. UNCHANGED <<batches, retried, latest>> /\ "success" \in PayoutStatus /\ "failed" \in PayoutStatus
    BY <1>6 DEF EndPayout, PayoutStatus
  <2>2. CASE /\ payouts' = [payouts EXCEPT ![m][d] = Payout(m, d, "success", FALSE)]
             /\ \E sent \in BOOLEAN :
                  receipts' = [receipts EXCEPT ![m][d] = [bank |-> "success", sent |-> sent]]
    <3>1. PICK sent \in BOOLEAN :
            receipts' = [receipts EXCEPT ![m][d] = [bank |-> "success", sent |-> sent]]
      BY <2>2
    <3>2. [bank |-> "success", sent |-> sent] \in Maybe(Receipts)
      BY DEF Maybe, Receipts
    <3>3. receipts' \in [Merchants -> [Days -> Maybe(Receipts)]]
      BY <3>1, <3>2 DEF WorldTypes
    <3> QED BY <1>4, <2>1, <2>2, <3>3 DEF WorldTypes
  <2>3. CASE /\ \E r \in BOOLEAN : payouts' = [payouts EXCEPT ![m][d] = Payout(m, d, "failed", r)]
             /\ UNCHANGED receipts
    <3>1. receipts' \in [Merchants -> [Days -> Maybe(Receipts)]]
      BY <2>3 DEF WorldTypes
    <3> QED BY <1>4, <2>1, <2>3, <3>1 DEF WorldTypes
  <2> QED BY <1>6, <2>2, <2>3, Zenon DEF EndPayout
<1>7. ASSUME \/ \E u \in Users : RiskReviews(u)
             \/ \E m \in Merchants, d \in Days : CloseDay(m, d)
             \/ \E c \in Cases, m \in Complaints : Submit(c, m)
             \/ \E c \in Cases : Approve(c) \/ Reject(c)
             \/ UNCHANGED vars
      PROVE  UNCHANGED <<payouts, retried, latest, receipts, batches>>
  BY <1>7 DEF RiskReviews, CloseDay, Submit, Approve, Reject, vars, settlementVars
<1>8. ASSUME Works PROVE UNCHANGED <<payouts, retried, latest, receipts, batches>>
  BY <1>8 DEF Works, Identify, ReadAccount, ReadFraud, ReadProfile, ReadBank, ReadLedger,
     ReadPayout, ReadBatch, ReadReceipt, Decide, Reads, settlementVars
<1> QED BY <1>1, <1>2, <1>5, <1>6, <1>7, <1>8 DEF Next, SystemsMove

LEMMA WorldTyped == Spec => []WorldTypes
<1>1. Init => WorldTypes
  BY DEF Init, WorldTypes, Maybe
<1> QED BY <1>1, WorldTypesMove, PTL DEF Spec

-----------------------------------------------------------------------------
(* Why a payout may be proposed twice *)

\* The payout that was read is an attempt that failed, and was made again; R is
\* retried.
Superseded(r, R) ==
  /\ r.subject \in Merchants /\ r.complaint.day \in R[r.subject]
  /\ r.ev.payout = Payout(r.subject, r.complaint.day, "failed", TRUE)

\* Why the request or case r saw no payout on its way.
Unseen(r, R) ==
  \/ r.ev.payout = None /\ "read" \in Faults
  \/ r.complaint.payout # None
  \/ r.complaint.day = None /\ r.ev.payout.day # r.ev.ledger.day
  \/ Superseded(r, R)

\* A request that noted that the settlement is being paid.
Caused(r, R) ==
  r.paying =>
    \/ Unseen(r, R)
    \/ r.ev.payout # None /\ r.ev.payout.status \in {"processing", "success"}

\* A case that noted it.
CauseOf(x, R) ==
  x.action = "create_manual_payout_draft" /\ x.paying => Unseen(x, R)

\* The settlement system files a payout under its day, and the payout that was
\* created last is one of its payouts.
PayoutsInv ==
  /\ \A m \in Merchants, d \in Days :
       payouts[m][d] # None => payouts[m][d].day = d /\ latest[m] # None
  /\ \A m \in Merchants : latest[m] # None => payouts[m][latest[m]] # None

\* The request before its payout is read, at that read, and after it.
PayInv ==
  /\ pc \in {"identify", "account", "fraud", "profile", "bank", "ledger"} => ~req.paying
  /\ pc = "payout" /\ req.ev.ledger # None /\ req.complaint.day # None =>
       req.ev.ledger.day = req.complaint.day
  /\ pc \in {"batch", "receipt", "decide"} => Caused(req, retried)

CasesCaused == \A c \in Cases : cases[c] # None => CauseOf(cases[c], retried)

DupInv == PayoutsInv /\ PayInv /\ CasesCaused

\* Days are never taken off retried, so what was superseded stays so.
LEMMA CausesStay ==
  ASSUME NEW R, NEW S, \A m \in Merchants : R[m] \subseteq S[m], NEW r
  PROVE  /\ Caused(r, R) => Caused(r, S)
         /\ CauseOf(r, R) => CauseOf(r, S)
<1>1. Superseded(r, R) => Superseded(r, S)
  BY DEF Superseded
<1> QED BY <1>1 DEF Caused, CauseOf, Unseen

\* A payout that is under way or done is not made again.
LEMMA NoSecondPayout ==
  ASSUME NEW r, ApplyRules(r).action = "create_manual_payout_draft"
  PROVE  r.ev.payout = None \/ r.ev.payout.status \notin {"processing", "success"}
<1>. DEFINE e == r.ev
            pay == DecidePayout(e.ledger, e.payout, e.batch, e.receipt)
<1>1. r.complaint.workflow # "fraud_account_lock" /\ DecideSettlement(e) = ManualPayout
  <2>1. CASE r.complaint.workflow = "fraud_account_lock"
    BY <2>1, LockDecisions
       DEF ApplyRules, ManualReview, Respond, RequestDocuments, Unlock, Decision
  <2>2. CASE r.complaint.workflow # "fraud_account_lock"
    <3>1. DecideSettlement(e).action = "create_manual_payout_draft"
      BY <2>2 DEF ApplyRules
    <3>2. DecideSettlement(e) \in {RequestIdentity, SettlementReview, RequestBankAccount,
                                   Respond, ManualPayout, SendUnc}
      BY SettlementDecisions
    <3>. HIDE DEF e
    <3>3. DecideSettlement(e) = ManualPayout
      BY <3>1, <3>2
         DEF RequestIdentity, SettlementReview, RequestBankAccount, Respond, SendUnc, Decision
    <3> QED BY <2>2, <3>3
  <2> QED BY <2>1, <2>2
<1>2. ManualPayout \notin {RequestIdentity, SettlementReview, RequestBankAccount, Respond,
                           SendUnc}
  BY DEF RequestIdentity, SettlementReview, RequestBankAccount, Respond, ManualPayout,
         SendUnc, Decision
<1>3. pay = ManualPayout
  BY <1>1, <1>2 DEF DecideSettlement
<1>4. AfterSuccess(e.ledger, e.payout, e.receipt) \in {SettlementReview, Respond, SendUnc}
  BY DEF AfterSuccess
<1>5. CASE e.payout # None /\ e.payout.status = "processing"
  BY <1>2, <1>3, <1>5 DEF DecidePayout, PayoutInProgress
<1>6. CASE e.payout # None /\ e.payout.status = "success"
  BY <1>2, <1>3, <1>4, <1>6 DEF DecidePayout
<1> QED BY <1>5, <1>6

LEMMA PayoutsMove ==
  ASSUME WorldTypes, PayoutsInv, [Next]_vars
  PROVE  PayoutsInv' /\ \A m \in Merchants : retried[m] \subseteq retried'[m]
<1>1. CASE UNCHANGED <<payouts, retried, latest>>
  BY <1>1 DEF PayoutsInv
<1>2. ASSUME NEW m \in Merchants, NEW d \in Days, NEW p, p # None, p.day = d,
             payouts' = [payouts EXCEPT ![m][d] = p],
             latest' = latest \/ latest' = [latest EXCEPT ![m] = d],
             latest'[m] # None
      PROVE  PayoutsInv'
  <2>1. \A n \in Merchants, e \in Days :
          payouts'[n][e] = IF n = m /\ e = d THEN p ELSE payouts[n][e]
    BY <1>2 DEF WorldTypes
  <2>2. \A n \in Merchants : /\ latest'[n] = latest[n] \/ (n = m /\ latest'[n] = d)
                             /\ latest[n] \in Maybe(Days)
    BY <1>2 DEF WorldTypes
  <2>3. ASSUME NEW n \in Merchants, NEW e \in Days, payouts'[n][e] # None
        PROVE  payouts'[n][e].day = e /\ latest'[n] # None
    <3>1. CASE n = m /\ e = d
      BY <1>2, <2>1, <3>1
    <3>2. CASE ~(n = m /\ e = d)
      <4>1. payouts'[n][e] = payouts[n][e]
        BY <2>1, <3>2
      <4>2. payouts[n][e].day = e /\ latest[n] # None
        BY <2>3, <4>1 DEF PayoutsInv
      <4> QED BY <1>2, <2>2, <4>1, <4>2
    <3> QED BY <3>1, <3>2
  <2>4. ASSUME NEW n \in Merchants, latest'[n] # None PROVE payouts'[n][latest'[n]] # None
    <3>1. CASE n = m /\ latest'[n] = d
      BY <1>2, <2>1, <3>1
    <3>2. CASE latest'[n] = latest[n]
      <4>1. latest[n] \in Days /\ payouts[n][latest[n]] # None
        BY <2>2, <2>4, <3>2 DEF PayoutsInv, Maybe
      <4>2. payouts'[n][latest[n]] = IF n = m /\ latest[n] = d THEN p ELSE payouts[n][latest[n]]
        BY <2>1, <4>1
      <4> QED BY <1>2, <3>2, <4>1, <4>2
    <3> QED BY <2>2, <3>1, <3>2
  <2> QED BY <2>3, <2>4 DEF PayoutsInv
<1>3. \A m, d, s, b : Payout(m, d, s, b).day = d
  BY DEF Payout
<1>4. \A m \in Merchants, d \in Days, s \in PayoutStatus, b \in BOOLEAN :
        Payout(m, d, s, b) # None
  BY NoneAssumption, NetAssumption DEF Payout, Maybe, PayoutsOf
<1>5. ASSUME NEW m \in Merchants, NEW d \in Days, StartPayout(m, d)
      PROVE  PayoutsInv' /\ \A n \in Merchants : retried[n] \subseteq retried'[n]
  <2>. DEFINE p == Payout(m, d, "processing", FALSE)
  <2>1. /\ payouts' = [payouts EXCEPT ![m][d] = p]
        /\ \/ payouts[m][d] # None /\ UNCHANGED <<retried, latest>>
           \/ /\ latest' = [latest EXCEPT ![m] = d]
              /\ \E D : /\ retried[m] \subseteq D
                        /\ retried' = [retried EXCEPT ![m] = D]
    BY <1>5 DEF StartPayout
  <2>2. p # None /\ p.day = d
    BY <1>3, <1>4 DEF PayoutStatus
  <2>. HIDE DEF p
  <2>3. latest' = latest \/ latest' = [latest EXCEPT ![m] = d]
    BY <2>1
  <2>4. latest'[m] # None
    BY <2>1, CasesAssumption DEF PayoutsInv, WorldTypes
  <2>5. PayoutsInv'
    BY <1>2, <2>1, <2>2, <2>3, <2>4
  <2>6. \A n \in Merchants : retried[n] \subseteq retried'[n]
    BY <2>1 DEF WorldTypes
  <2> QED BY <2>5, <2>6
<1>6. ASSUME NEW m \in Merchants, NEW d \in Days, EndPayout(m, d)
      PROVE  PayoutsInv' /\ \A n \in Merchants : retried[n] \subseteq retried'[n]
  <2>1. PICK s \in {"success", "failed"}, b \in BOOLEAN :
          payouts' = [payouts EXCEPT ![m][d] = Payout(m, d, s, b)]
    BY <1>6, Zenon DEF EndPayout
  <2>. DEFINE p == Payout(m, d, s, b)
  <2>2. payouts[m][d] # None /\ UNCHANGED <<retried, latest>>
    BY <1>4, <1>6 DEF EndPayout, PayoutStatus
  <2>3. p # None /\ p.day = d /\ payouts' = [payouts EXCEPT ![m][d] = p]
    BY <1>3, <1>4, <2>1 DEF PayoutStatus
  <2>. HIDE DEF p
  <2>4. latest'[m] # None
    BY <2>2 DEF PayoutsInv
  <2> QED BY <1>2, <2>2, <2>3, <2>4
<1>7. ASSUME \/ \E u \in Users : RiskReviews(u)
             \/ \E m \in Merchants, d \in Days : CloseDay(m, d)
             \/ \E d \in Days : RunBatch(d)
             \/ \E c \in Cases, m \in Complaints : Submit(c, m)
             \/ \E c \in Cases : Approve(c) \/ Reject(c)
             \/ UNCHANGED vars
      PROVE  UNCHANGED <<payouts, retried, latest>>
  BY <1>7 DEF RiskReviews, CloseDay, RunBatch, Submit, Approve, Reject, vars, settlementVars
<1>8. ASSUME Works PROVE UNCHANGED <<payouts, retried, latest>>
  BY <1>8 DEF Works, Identify, ReadAccount, ReadFraud, ReadProfile, ReadBank, ReadLedger,
     ReadPayout, ReadBatch, ReadReceipt, Decide, Reads, settlementVars
<1> QED BY <1>1, <1>5, <1>6, <1>7, <1>8 DEF Next, SystemsMove

\* A tool call that is not about the settlement's day or payout.
LEMMA DupReadOther ==
  ASSUME IInv, DupInv,
         NEW field \in {"account", "fraud", "bank", "batch", "receipt"}, NEW record,
         NEW next \in {"fraud", "decide", "ledger", "receipt"}, Reads(field, record, next),
         pc \in {"account", "fraud", "bank", "batch", "receipt"},
         pc \in {"account", "fraud"} => next \in {"fraud", "decide"},
         pc = "bank" => next = "ledger",
         pc \in {"batch", "receipt"} => next \in {"receipt", "decide"}
  PROVE  PayInv'
<1>1. req = ReqForm(req) /\ req.ev = EvForm(req.ev)
  BY DEF IInv, RequestInv, ReqInv, ReqForm
<1>2. PICK r \in {record, None} : req' = [req EXCEPT !.ev = [req.ev EXCEPT ![field] = r]]
  BY <1>1, ReadAdds
<1>3. /\ req'.complaint = req.complaint /\ req'.paying = req.paying
      /\ req'.subject = req.subject
      /\ req'.ev = [req.ev EXCEPT ![field] = r]
  BY <1>1, <1>2 DEF ReqForm
<1>4. req'.ev.payout = req.ev.payout /\ req'.ev.ledger = req.ev.ledger
  BY <1>1, <1>3 DEF EvForm
<1>5. pc' = next /\ retried' = retried
  BY DEF Reads, settlementVars
<1>6. PayInv
  BY DEF DupInv
<1>7. ~req.paying => Caused(req', retried)
  BY <1>3 DEF Caused
<1>8. Caused(req, retried) => Caused(req', retried)
  BY <1>3, <1>4 DEF Caused, Unseen, Superseded
<1>9. next # "payout"
  OBVIOUS
<1>. DEFINE good == Caused(req', retried')
<1>10. PayInv' <=>
         /\ pc' \in {"identify", "account", "fraud", "profile", "bank", "ledger"} => ~req'.paying
         /\ pc' = "payout" /\ req'.ev.ledger # None /\ req'.complaint.day # None =>
              req'.ev.ledger.day = req'.complaint.day
         /\ pc' \in {"batch", "receipt", "decide"} => good
  BY Zenon DEF PayInv, Caused
<1>. HIDE DEF good
<1> QED BY <1>3, <1>5, <1>6, <1>7, <1>8, <1>9, <1>10 DEF PayInv, good

LEMMA DupReadLedger ==
  ASSUME IInv, DupInv, ReadLedger PROVE PayInv'
<1>1. pc = "ledger" /\ pc' = "payout" /\ req = ReqForm(req)
  BY DEF ReadLedger, Reads, IInv, RequestInv, ReqInv
<1>2. PICK r \in {LedgerOf(req.subject, req.complaint.day), None} :
        req' = [req EXCEPT !.ev = [req.ev EXCEPT !["ledger"] = r]]
  BY <1>1, ReadAdds DEF ReadLedger
<1>3. req'.complaint = req.complaint /\ req'.ev.ledger = r
  BY <1>1, <1>2 DEF ReqForm, EvForm
<1>4. r # None /\ req.complaint.day # None => r.day = req.complaint.day
  BY <1>2 DEF LedgerOf
<1> QED BY <1>1, <1>3, <1>4 DEF PayInv

LEMMA DupReadPayout ==
  ASSUME IInv, DupInv, WorldTypes, ReadPayout PROVE PayInv'
<1>1. /\ pc = "payout" /\ pc' = "batch" /\ ReqInv(req, "payout", ledgers)
      /\ PayInv /\ PayoutsInv /\ retried' = retried
  BY DEF ReadPayout, IInv, RequestInv, DupInv, settlementVars
<1>. DEFINE s == req.subject
            m == req.complaint
            l == req.ev.ledger
<1>2. req = ReqForm(req) /\ s \in Merchants /\ OwedEvidence(req.ev, s, ledgers)
  BY <1>1 DEF ReqInv
<1>3. PICK found \in PayoutsFound(s, m) : \E p \in Read(found) :
        req' = [req EXCEPT !.ev.payout = p,
                           !.paying = l # None /\ Paying(s, l.day)]
  BY DEF ReadPayout
<1>4. PICK p \in Read(found) :
        req' = [req EXCEPT !.ev.payout = p,
                           !.paying = l # None /\ Paying(s, l.day)]
  BY <1>3
<1>5. /\ req'.complaint = m /\ req'.ev.payout = p /\ req'.ev.ledger = l /\ req'.subject = s
      /\ req'.paying = (l # None /\ Paying(s, l.day))
  BY <1>2, <1>4 DEF ReqForm, EvForm
<1>6. ASSUME l # None, Paying(s, l.day)
      PROVE  \/ p = None /\ "read" \in Faults
             \/ m.payout # None
             \/ m.day = None /\ p.day # l.day
             \/ m.day \in retried[s] /\ p = Payout(s, m.day, "failed", TRUE)
             \/ p # None /\ p.status \in {"processing", "success"}
  <2>1. l.day \in Days
    BY <1>2, <1>6 DEF OwedEvidence, IInv, WorldInv
  <2>2. /\ payouts[s][l.day] # None
        /\ payouts[s][l.day].status \in {"processing", "success"}
    BY <1>6 DEF Paying
  <2>3. CASE p # found
    BY <1>4, <2>3 DEF Read
  <2>4. CASE p = found /\ m.payout = None /\ m.day # None
    <3>1. found \in PayoutRows(s, m.day)
      BY <1>3, <2>4 DEF PayoutsFound
    <3>2. l.day = m.day
      BY <1>1, <1>6, <2>4 DEF PayInv
    <3>3. \/ found = payouts[s][m.day]
          \/ m.day \in retried[s] /\ found = Payout(s, m.day, "failed", TRUE)
      BY <3>1 DEF PayoutRows
    <3> QED BY <2>2, <2>4, <3>2, <3>3
  <2>5. CASE p = found /\ m.payout = None /\ m.day = None
    <3>1. latest[s] # None
      BY <1>1, <1>2, <2>1, <2>2 DEF PayoutsInv
    <3>2. found = payouts[s][latest[s]] /\ found # None
      BY <1>1, <1>2, <1>3, <2>5, <3>1 DEF PayoutsFound, PayoutsInv
    <3>3. latest[s] \in Days
      BY <1>2, <3>1 DEF WorldTypes, Maybe
    <3>4. found.day = latest[s]
      BY <1>1, <1>2, <3>2, <3>3 DEF PayoutsInv
    <3>5. CASE latest[s] = l.day
      BY <2>2, <2>5, <3>2, <3>5
    <3>6. CASE latest[s] # l.day
      BY <2>5, <3>4, <3>6
    <3> QED BY <3>5, <3>6
  <2> QED BY <2>3, <2>4, <2>5
<1>7. Caused(req', retried)
  <2>. HIDE DEF s, m, l
  <2> QED BY <1>2, <1>5, <1>6 DEF Caused, Unseen, Superseded
<1> QED BY <1>1, <1>7 DEF PayInv, Caused

\* Naming the customer, and the steps before the settlement's ledger is read.
LEMMA DupEarly ==
  ASSUME IInv, DupInv, Identify \/ ReadProfile PROVE PayInv'
<1>1. /\ pc \in {"identify", "profile"} /\ pc' \in {"account", "decide", "bank"}
      /\ req = ReqForm(req) /\ ~req.paying
  BY DEF Identify, ReadProfile, IInv, RequestInv, ReqInv, DupInv, PayInv
<1>2. CASE Identify
  <2>1. req' = req \/ \E x : req' = [req EXCEPT !.subject = x]
    BY <1>2 DEF Identify
  <2>2. req'.paying = req.paying
    BY <1>1, <2>1 DEF ReqForm
  <2> QED BY <1>1, <2>2 DEF PayInv, Caused
<1>3. CASE ReadProfile
  <2>1. PICK p, x : req' = [req EXCEPT !.ev.profile = p, !.subject = x]
    BY <1>3 DEF ReadProfile
  <2>2. req'.paying = req.paying
    BY <1>1, <2>1 DEF ReqForm
  <2> QED BY <1>1, <2>2 DEF PayInv, Caused
<1> QED BY <1>2, <1>3

LEMMA DupStore ==
  ASSUME IInv, CasesCaused, NEW c \in Cases, NEW x, Store(c, x), CauseOf(x, retried),
         retried' = retried
  PROVE  CasesCaused'
<1>1. cases' = [cases EXCEPT ![c] = x] /\ cases = [d \in Cases |-> cases[d]]
  BY DEF Store, IInv, CasesInv
<1>2. \A d \in Cases : cases'[d] # None => CauseOf(cases'[d], retried)
  BY <1>1 DEF CasesCaused
<1> QED BY <1>2 DEF CasesCaused

LEMMA DupDecide ==
  ASSUME IInv, DupInv, Decide PROVE PayInv' /\ CasesCaused'
<1>. DEFINE d == ApplyRules(req)
<1>1. /\ pc = "decide" /\ pc' = "idle" /\ Caused(req, retried)
      /\ req.case \in Cases /\ retried' = retried
  BY DEF Decide, EndRequest, DupInv, PayInv, IInv, RequestInv, ReqInv, settlementVars
<1>2. PICK o, status : Store(req.case, Case(req, d.action, status, o, FALSE))
  BY DEF Decide
<1>. DEFINE x == Case(req, d.action, status, o, FALSE)
<1>3. /\ x.ev = req.ev /\ x.complaint = req.complaint /\ x.paying = req.paying
      /\ x.action = d.action /\ x.subject = req.subject
  BY DEF Case
<1>. HIDE DEF x
<1>4. CauseOf(x, retried)
  BY <1>1, <1>3, NoSecondPayout DEF CauseOf, Caused, Unseen, Superseded
<1>5. CasesCaused'
  BY <1>1, <1>2, <1>4, DupStore DEF x, DupInv
<1>6. PayInv'
  BY <1>1 DEF PayInv
<1> QED BY <1>5, <1>6

LEMMA DupAnswer ==
  ASSUME IInv, DupInv, NEW c \in Cases, Approve(c) \/ Reject(c)
  PROVE  CasesCaused'
<1>1. /\ cases[c] # None /\ cases[c] = CaseForm(cases[c]) /\ retried' = retried
  BY DEF Approve, Reject, Waiting, IInv, CasesInv, CaseInv, settlementVars
<1>2. CauseOf(cases[c], retried) /\ CasesCaused
  BY <1>1 DEF DupInv, CasesCaused
<1>3. PICK y : y = cases[c]
  OBVIOUS
<1>4. CASE Approve(c)
  <2>1. PICK o, yes : Store(c, ClosedCase(y, o, yes))
    BY <1>3, <1>4 DEF Approve, ClosedCase
  <2>2. PICK x : x = ClosedCase(y, o, yes)
    OBVIOUS
  <2>3. /\ x.ev = y.ev /\ x.complaint = y.complaint /\ x.action = y.action
        /\ x.paying = y.paying /\ x.subject = y.subject
    BY <1>1, <1>3, <2>2, Closing
  <2>4. CauseOf(x, retried)
    BY <1>2, <1>3, <2>3 DEF CauseOf, Unseen, Superseded
  <2> QED BY <1>1, <1>2, <2>1, <2>2, <2>4, DupStore
<1>5. CASE Reject(c)
  <2>. DEFINE x == [y EXCEPT !.status = "closed"]
  <2>1. Store(c, x)
    BY <1>3, <1>5 DEF Reject
  <2>2. /\ x.ev = y.ev /\ x.complaint = y.complaint /\ x.action = y.action
        /\ x.paying = y.paying /\ x.subject = y.subject
    BY <1>1, <1>3 DEF CaseForm
  <2>. HIDE DEF x
  <2>3. CauseOf(x, retried)
    BY <1>2, <1>3, <2>2 DEF CauseOf, Unseen, Superseded
  <2> QED BY <1>1, <1>2, <2>1, <2>3, DupStore
<1> QED BY <1>4, <1>5

LEMMA DupSubmit ==
  ASSUME IInv, DupInv, NEW c \in Cases, NEW m \in Complaints, Submit(c, m)
  PROVE  PayInv' /\ CasesCaused'
<1>. DEFINE r == Request(c, m)
            x == Case(r, None, "closed", None, FALSE)
<1>1. ~r.paying /\ pc = "idle" /\ CasesCaused /\ retried' = retried
  BY DEF Request, Submit, DupInv, settlementVars
<1>2. CASE NoIdentity(m)
  <2>1. Store(c, x) /\ pc' = pc
    BY <1>2 DEF Submit
  <2>2. ~x.paying
    BY <1>1 DEF Case
  <2>. HIDE DEF x
  <2>3. CauseOf(x, retried)
    BY <2>2 DEF CauseOf
  <2> QED BY <1>1, <2>1, <2>3, DupStore DEF PayInv
<1>3. CASE ~NoIdentity(m)
  <2>1. cases' = cases /\ req' = r /\ pc' \in {"identify", "profile"}
    BY <1>3 DEF Submit
  <2>. HIDE DEF r
  <2> QED BY <1>1, <2>1 DEF PayInv, CasesCaused
<1> QED BY <1>2, <1>3

LEMMA DupInitially == Init => DupInv
BY DEF Init, DupInv, PayoutsInv, PayInv, CasesCaused

LEMMA DupNext == IInv /\ WorldTypes /\ DupInv /\ [Next]_vars => DupInv'
<1>. SUFFICES ASSUME IInv, WorldTypes, DupInv, [Next]_vars PROVE DupInv'
  OBVIOUS
<1>1. PayoutsInv' /\ \A m \in Merchants : retried[m] \subseteq retried'[m]
  BY PayoutsMove DEF DupInv
<1>2. PayInv' /\ CasesCaused'
  <2>. DEFINE goal == PayInv' /\ CasesCaused'
  <2>1. CASE UNCHANGED <<pc, req, cases>>
    <3>1. \A r : /\ Caused(r, retried) => Caused(r, retried')
                 /\ CauseOf(r, retried) => CauseOf(r, retried')
      BY <1>1, CausesStay
    <3>2. PayInv'
      BY <2>1, <3>1 DEF DupInv, PayInv
    <3>3. CasesCaused'
      BY <2>1, <3>1 DEF DupInv, CasesCaused
    <3> QED BY <3>2, <3>3
  <2>2. ASSUME SystemsMove \/ UNCHANGED vars PROVE UNCHANGED <<pc, req, cases>>
    BY <2>2 DEF SystemsMove, RiskReviews, CloseDay, StartPayout, EndPayout, RunBatch, vars
  <2>3. ASSUME NEW c \in Cases, NEW m \in Complaints, Submit(c, m) PROVE goal
    BY <2>3, DupSubmit
  <2>4. ASSUME NEW c \in Cases, Approve(c) \/ Reject(c) PROVE goal
    <3>1. UNCHANGED <<pc, req, retried>>
      BY <2>4 DEF Approve, Reject, settlementVars
    <3>2. PayInv'
      BY <3>1 DEF DupInv, PayInv, Caused
    <3> QED BY <2>4, <3>2, DupAnswer
  <2>5. CASE Decide
    BY <2>5, DupDecide
  <2>6. ASSUME \/ Identify \/ ReadAccount \/ ReadFraud \/ ReadProfile
               \/ ReadBank \/ ReadLedger \/ ReadPayout \/ ReadBatch \/ ReadReceipt
        PROVE  goal
    <3>1. cases' = cases /\ retried' = retried
      BY <2>6 DEF Identify, ReadAccount, ReadFraud, ReadProfile, ReadBank, ReadLedger,
         ReadPayout, ReadBatch, ReadReceipt, Reads, settlementVars
    <3>2. CasesCaused'
      BY <3>1 DEF DupInv, CasesCaused
    <3>3. ASSUME ReadAccount PROVE PayInv'
      <4>1. PICK record : Reads("account", record, "fraud")
        BY <3>3, Zenon DEF ReadAccount
      <4>2. pc = "account"
        BY <3>3 DEF ReadAccount
      <4> QED BY <4>1, <4>2, DupReadOther
    <3>4. ASSUME ReadFraud PROVE PayInv'
      <4>1. PICK record : Reads("fraud", record, "decide")
        BY <3>4, Zenon DEF ReadFraud
      <4>2. pc = "fraud"
        BY <3>4 DEF ReadFraud
      <4> QED BY <4>1, <4>2, DupReadOther
    <3>5. ASSUME ReadBank PROVE PayInv'
      <4>1. PICK record : Reads("bank", record, "ledger")
        BY <3>5, Zenon DEF ReadBank
      <4>2. pc = "bank"
        BY <3>5 DEF ReadBank
      <4> QED BY <4>1, <4>2, DupReadOther
    <3>6. ASSUME ReadBatch PROVE PayInv'
      <4>1. PICK record : Reads("batch", record, "receipt")
        BY <3>6, Zenon DEF ReadBatch
      <4>2. pc = "batch"
        BY <3>6 DEF ReadBatch
      <4> QED BY <4>1, <4>2, DupReadOther
    <3>7. ASSUME ReadReceipt PROVE PayInv'
      <4>1. PICK record : Reads("receipt", record, "decide")
        BY <3>7, Zenon DEF ReadReceipt
      <4>2. pc = "receipt"
        BY <3>7 DEF ReadReceipt
      <4> QED BY <4>1, <4>2, DupReadOther
    <3>8. PayInv'
      BY <2>6, <3>3, <3>4, <3>5, <3>6, <3>7, DupEarly, DupReadLedger, DupReadPayout
    <3> QED BY <3>2, <3>8
  <2>. HIDE DEF goal
  <2>7. goal
    BY <2>1, <2>2, <2>3, <2>4, <2>5, <2>6 DEF Next, Works, goal
  <2> QED BY <2>7 DEF goal
<1> QED BY <1>1, <1>2 DEF DupInv

\* A payout is proposed although the settlement was under way only when the
\* read failed, or was of another payout: one the text names, the latest one
\* although the ledger is of another day, or a row of the same day that a later
\* attempt has superseded (get_merchant_payout).
THEOREM DuplicateHasACauseHolds == Spec => []DuplicateHasACause
<1>1. IInv /\ WorldTypes /\ DupInv /\ [Next]_vars => DupInv'
  BY DupNext
<1>2. Spec => []DupInv
  BY <1>1, DupInitially, Inductive, WorldTyped, PTL DEF Spec
<1>3. DupInv => DuplicateHasACause
  BY DEF DupInv, CasesCaused, CauseOf, Unseen, Superseded, DuplicateHasACause, Filed
<1> QED BY <1>2, <1>3, PTL

-----------------------------------------------------------------------------
(* Type correctness *)

SettlementCalls == {"profile", "bank", "ledger", "payout", "batch", "receipt"}

RequestTypes ==
  /\ pc \in SettlementCalls \cup {"idle", "identify", "account", "fraud", "decide"}
  /\ pc = "idle" => req = None
  /\ pc # "idle" => req \in Requests
  /\ pc \in SettlementCalls => req.complaint \in SettlementComplaints

CaseTypes ==
  \A c \in Cases : cases[c] # None =>
    cases[c].status \in {"waiting_approval", "closed"} /\ cases[c].ev \in Evidence

LEMMA TypesAreTypes == IInv /\ WorldTypes /\ RequestTypes /\ CaseTypes => TypeOK
BY NoneAssumption DEF IInv, WorldInv, WorldTypes, RequestTypes, CaseTypes, TypeOK, SettlementCalls, Requests

\* What a read of one field may bring.
LEMMA EvidenceTypes ==
  ASSUME NEW e \in Evidence, NEW r
  PROVE  /\ r \in Maybe(AccountsOf(Users)) => [e EXCEPT !["account"] = r] \in Evidence
         /\ r \in Maybe(FraudCasesOf(Users)) => [e EXCEPT !["fraud"] = r] \in Evidence
         /\ r \in Maybe(ProfilesOf(Merchants)) => [e EXCEPT !["profile"] = r] \in Evidence
         /\ r \in Maybe(BankAccounts) => [e EXCEPT !["bank"] = r] \in Evidence
         /\ r \in Maybe(LedgersOf(Days)) => [e EXCEPT !["ledger"] = r] \in Evidence
         /\ r \in Maybe(PayoutsOf(Merchants, Days)) => [e EXCEPT !["payout"] = r] \in Evidence
         /\ r \in Maybe(Batches) => [e EXCEPT !["batch"] = r] \in Evidence
         /\ r \in Maybe(Receipts) => [e EXCEPT !["receipt"] = r] \in Evidence
<1>. DEFINE A == Maybe(AccountsOf(Users))
            F == Maybe(FraudCasesOf(Users))
            P == Maybe(ProfilesOf(Merchants))
            B == Maybe(BankAccounts)
            L == Maybe(LedgersOf(Days))
            O == Maybe(PayoutsOf(Merchants, Days))
            T == Maybe(Batches)
            R == Maybe(Receipts)
<1>1. Evidence = [account : A, fraud : F, profile : P, bank : B, ledger : L, payout : O,
                  batch : T, receipt : R]
  BY DEF Evidence
<1>. HIDE DEF A, F, P, B, L, O, T, R
<1>2. /\ r \in A => [e EXCEPT !["account"] = r] \in Evidence
      /\ r \in F => [e EXCEPT !["fraud"] = r] \in Evidence
      /\ r \in P => [e EXCEPT !["profile"] = r] \in Evidence
      /\ r \in B => [e EXCEPT !["bank"] = r] \in Evidence
      /\ r \in L => [e EXCEPT !["ledger"] = r] \in Evidence
      /\ r \in O => [e EXCEPT !["payout"] = r] \in Evidence
      /\ r \in T => [e EXCEPT !["batch"] = r] \in Evidence
      /\ r \in R => [e EXCEPT !["receipt"] = r] \in Evidence
  BY <1>1
<1> QED BY <1>2 DEF A, F, P, B, L, O, T, R

LEMMA ReadTypes ==
  ASSUME RequestTypes, pc # "idle", NEW field, NEW record,
         NEW next \in {"fraud", "ledger", "payout", "receipt", "decide"},
         next \in SettlementCalls => pc \in SettlementCalls,
         Reads(field, record, next),
         \A r \in {record, None} : [req.ev EXCEPT ![field] = r] \in Evidence
  PROVE  RequestTypes'
<1>1. req \in Requests
  BY DEF RequestTypes
<1>2. PICK r \in {record, None} : req' = [req EXCEPT !.ev = [req.ev EXCEPT ![field] = r]]
  BY <1>1 DEF Reads, Read, Requests
<1>3. PICK e : e = [req.ev EXCEPT ![field] = r]
  OBVIOUS
<1>4. e \in Evidence /\ req' = [req EXCEPT !.ev = e]
  BY <1>2, <1>3
<1>5. req' \in Requests /\ req'.complaint = req.complaint
  BY <1>1, <1>4 DEF Requests
<1>6. pc' = next
  BY DEF Reads
<1> QED BY <1>5, <1>6 DEF RequestTypes, SettlementCalls

LEMMA AccountReadTypes ==
  ASSUME IInv, RequestTypes, ReadAccount \/ ReadFraud PROVE RequestTypes'
<1>1. /\ pc \in {"account", "fraud"} /\ req.subject \in Users /\ req.ev \in Evidence
  BY DEF ReadAccount, ReadFraud, IInv, RequestInv, ReqInv, RequestTypes, Requests
<1>2. CASE ReadAccount
  <2>1. \A r \in {accounts[req.subject], None} : r \in Maybe(AccountsOf(Users))
    BY <1>1, RecordsAssumption DEF IInv, WorldInv, Maybe, AccountsOf
  <2>2. \A r \in {accounts[req.subject], None} : [req.ev EXCEPT !["account"] = r] \in Evidence
    BY <1>1, <2>1, EvidenceTypes
  <2> QED BY <1>1, <1>2, <2>2, ReadTypes DEF ReadAccount, SettlementCalls
<1>3. CASE ReadFraud
  <2>1. \A r \in {frauds[req.subject], None} : r \in Maybe(FraudCasesOf(Users))
    BY <1>1 DEF IInv, WorldInv, Maybe
  <2>2. \A r \in {frauds[req.subject], None} : [req.ev EXCEPT !["fraud"] = r] \in Evidence
    BY <1>1, <2>1, EvidenceTypes
  <2> QED BY <1>1, <1>3, <2>2, ReadTypes DEF ReadFraud, SettlementCalls
<1> QED BY <1>2, <1>3

LEMMA SettlementReadTypes ==
  ASSUME IInv, WorldTypes, RequestTypes, ReadBank \/ ReadLedger \/ ReadBatch \/ ReadReceipt
  PROVE  RequestTypes'
<1>1. /\ pc \in {"bank", "ledger", "batch", "receipt"} /\ pc \in SettlementCalls
      /\ req.subject \in Merchants /\ req.ev \in Evidence
      /\ req.complaint \in SettlementComplaints
  BY DEF ReadBank, ReadLedger, ReadBatch, ReadReceipt, IInv, RequestInv, ReqInv, RequestTypes,
         Requests, SettlementCalls
<1>2. CASE ReadBank
  <2>1. \A r \in {Banks[req.subject], None} : r \in Maybe(BankAccounts)
    BY <1>1, RecordsAssumption DEF Maybe
  <2>2. \A r \in {Banks[req.subject], None} : [req.ev EXCEPT !["bank"] = r] \in Evidence
    BY <1>1, <2>1, EvidenceTypes
  <2> QED BY <1>1, <1>2, <2>2, ReadTypes DEF ReadBank
<1>3. CASE ReadLedger
  <2>. DEFINE l == LedgerOf(req.subject, req.complaint.day)
  <2>1. l \in Maybe(LedgersOf(Days))
    <3>. DEFINE d == IF req.complaint.day # None THEN req.complaint.day
                     ELSE Max(ledgers[req.subject])
    <3>1. l = IF d \in ledgers[req.subject]
              THEN [day |-> d, due |-> "past", net |-> Net[req.subject][d]] ELSE None
      BY DEF LedgerOf
    <3>2. d \in ledgers[req.subject] => d \in Days /\ Net[req.subject][d] \in Int
      BY <1>1, NetAssumption DEF IInv, WorldInv
    <3>. HIDE DEF d
    <3> QED BY <3>1, <3>2 DEF LedgersOf, Maybe
  <2>. HIDE DEF l
  <2>2. \A r \in {l, None} : r \in Maybe(LedgersOf(Days))
    BY <2>1 DEF Maybe
  <2>3. \A r \in {l, None} : [req.ev EXCEPT !["ledger"] = r] \in Evidence
    BY <1>1, <2>2, EvidenceTypes
  <2> QED BY <1>1, <1>3, <2>3, ReadTypes DEF ReadLedger, l
<1>4. CASE ReadBatch
  <2>. DEFINE d == BatchDay(req.complaint, req.ev.ledger)
              b == IF d = None THEN None ELSE batches[d]
  <2>1. d \in Maybe(Days)
    BY <1>1 DEF BatchDay, SettlementComplaints, Evidence, Maybe, LedgersOf
  <2>2. b \in Maybe(Batches)
    BY <2>1 DEF Maybe, WorldTypes
  <2>3. pc = "batch" /\ Reads("batch", b, "receipt")
    BY <1>4 DEF ReadBatch
  <2>. HIDE DEF b
  <2>4. \A r \in {b, None} : r \in Maybe(Batches)
    BY <2>2 DEF Maybe
  <2>5. \A r \in {b, None} : [req.ev EXCEPT !["batch"] = r] \in Evidence
    BY <1>1, <2>4, EvidenceTypes
  <2> QED BY <1>1, <2>3, <2>5, ReadTypes
<1>5. CASE ReadReceipt
  <2>. DEFINE p == req.ev.payout
  <2>0. PICK b \in ReceiptsFound(p) : Reads("receipt", b, "decide")
    BY <1>5 DEF ReadReceipt
  <2>1. p \in Maybe(PayoutsOf(Merchants, Days))
    BY <1>1 DEF Evidence
  <2>2. b \in Maybe(Receipts)
    BY <2>0, <2>1 DEF ReceiptsFound, Maybe, PayoutsOf, WorldTypes
  <2>3. pc = "receipt" /\ Reads("receipt", b, "decide")
    BY <1>5, <2>0 DEF ReadReceipt
  <2>4. \A r \in {b, None} : r \in Maybe(Receipts)
    BY <2>2 DEF Maybe
  <2>5. \A r \in {b, None} : [req.ev EXCEPT !["receipt"] = r] \in Evidence
    BY <1>1, <2>4, EvidenceTypes
  <2> QED BY <1>1, <2>3, <2>5, ReadTypes
<1> QED BY <1>2, <1>3, <1>4, <1>5

LEMMA PayoutReadTypes ==
  ASSUME IInv, WorldTypes, RequestTypes, ReadPayout PROVE RequestTypes'
<1>. DEFINE s == req.subject
            m == req.complaint
            l == req.ev.ledger
<1>1. /\ pc = "payout" /\ pc' = "batch" /\ req \in Requests
      /\ s \in Merchants /\ req.ev \in Evidence /\ m \in SettlementComplaints
      /\ l # None => l.day \in Days
  BY DEF ReadPayout, IInv, WorldInv, RequestInv, ReqInv, OwedEvidence, RequestTypes, Requests,
         SettlementCalls
<1>2. PICK found \in PayoutsFound(s, m) : \E p \in Read(found) :
        req' = [req EXCEPT !.ev.payout = p, !.paying = l # None /\ Paying(s, l.day)]
  BY DEF ReadPayout
<1>3. PICK p \in Read(found) :
        req' = [req EXCEPT !.ev.payout = p, !.paying = l # None /\ Paying(s, l.day)]
  BY <1>2
<1>4. found \in Maybe(PayoutsOf(Merchants, Days))
  <2>1. ASSUME NEW n \in Merchants, NEW d \in Days
        PROVE  /\ payouts[n][d] \in Maybe(PayoutsOf(Merchants, Days))
               /\ Payout(n, d, "failed", TRUE) \in Maybe(PayoutsOf(Merchants, Days))
    BY NetAssumption DEF WorldTypes, Payout, Maybe, PayoutsOf, PayoutStatus
  <2>2. CASE m.payout # None
    <3>1. m.payout \in Merchants \X Days
      BY <1>1, <2>2 DEF SettlementComplaints, Maybe, PayoutIds
    <3>2. m.payout[1] \in Merchants /\ m.payout[2] \in Days
      BY <3>1
    <3>3. found \in PayoutRows(m.payout[1], m.payout[2])
      BY <1>2, <2>2 DEF PayoutsFound
    <3> QED BY <2>1, <3>2, <3>3 DEF PayoutRows
  <2>3. CASE m.payout = None /\ m.day # None
    <3>1. m.day \in Days
      BY <1>1, <2>3 DEF SettlementComplaints, Maybe
    <3>2. found \in PayoutRows(s, m.day)
      BY <1>2, <2>3 DEF PayoutsFound
    <3> QED BY <1>1, <2>1, <3>1, <3>2 DEF PayoutRows
  <2>4. CASE m.payout = None /\ m.day = None
    <3>1. found = IF latest[s] = None THEN None ELSE payouts[s][latest[s]]
      BY <1>2, <2>4 DEF PayoutsFound
    <3>2. latest[s] # None => latest[s] \in Days
      BY <1>1 DEF WorldTypes, Maybe
    <3> QED BY <1>1, <2>1, <3>1, <3>2 DEF Maybe
  <2> QED BY <2>2, <2>3, <2>4
<1>5. p \in Maybe(PayoutsOf(Merchants, Days))
  BY <1>3, <1>4 DEF Read, Maybe
<1>6. PICK b \in BOOLEAN : b = (l # None /\ Paying(s, l.day))
  BY DEF Paying
<1>7. PICK e : e = [req.ev EXCEPT !["payout"] = p]
  OBVIOUS
<1>8. e \in Evidence
  BY <1>1, <1>5, <1>7, EvidenceTypes
<1>9. req' = [req EXCEPT !.ev = e, !.paying = b]
  BY <1>1, <1>3, <1>6, <1>7 DEF Requests
<1>10. req' \in Requests /\ req'.complaint = m
  BY <1>1, <1>8, <1>9 DEF Requests
<1> QED BY <1>1, <1>10 DEF RequestTypes, SettlementCalls

LEMMA ProfileReadTypes ==
  ASSUME IInv, RequestTypes, ReadProfile PROVE RequestTypes'
<1>. DEFINE m == req.complaint
            asked == IF m.merchant # None THEN m.merchant ELSE m.contact
<1>1. pc = "profile" /\ req \in Requests /\ m \in SettlementComplaints /\ req.ev \in Evidence
  BY DEF ReadProfile, RequestTypes, Requests, SettlementCalls
<1>2. m.merchant \in Maybe(Merchants) /\ asked \in Maybe(Merchants)
  BY <1>1 DEF SettlementComplaints
<1>3. PICK p \in IF asked = None THEN {None} ELSE Read(Profiles[asked]) :
        /\ req' = [req EXCEPT !.ev.profile = p,
                              !.subject = IF p # None THEN p.merchant ELSE m.merchant]
        /\ pc' = IF (IF p # None THEN p.merchant ELSE m.merchant) = None
                 THEN "decide" ELSE "bank"
  BY DEF ReadProfile
<1>. DEFINE s == IF p # None THEN p.merchant ELSE m.merchant
<1>4. p \in Maybe(ProfilesOf(Merchants))
  BY <1>2, <1>3, RecordsAssumption DEF Read, Maybe
<1>5. s \in Maybe(Users \cup Merchants)
  BY <1>2, <1>4 DEF Maybe, ProfilesOf
<1>6. pc' \in {"decide", "bank"}
  BY <1>3
<1>7. PICK e : e = [req.ev EXCEPT !["profile"] = p]
  OBVIOUS
<1>8. e \in Evidence
  BY <1>1, <1>4, <1>7, EvidenceTypes
<1>9. req' = [req EXCEPT !.ev = e, !.subject = s]
  BY <1>1, <1>3, <1>7 DEF Requests
<1>. HIDE DEF s
<1>10. req' \in Requests /\ req'.complaint = m
  BY <1>1, <1>5, <1>8, <1>9 DEF Requests
<1> QED BY <1>1, <1>6, <1>10 DEF RequestTypes, SettlementCalls

LEMMA IdentifyTypes ==
  ASSUME IInv, RequestTypes, Identify PROVE RequestTypes'
<1>1. /\ pc = "identify" /\ pc' \in {"account", "decide"} /\ req \in Requests
      /\ req.complaint \in AccountComplaints
  BY DEF Identify, IInv, RequestInv, ReqInv, RequestTypes
<1>2. Hints \in Seq(Maybe(Users))
  BY <1>1 DEF Hints, AccountComplaints
<1>3. CASE req' = req
  BY <1>1, <1>3 DEF RequestTypes, SettlementCalls
<1>4. CASE \E i \in DOMAIN Hints : req' = [req EXCEPT !.subject = Hints[i]]
  <2>1. PICK i \in DOMAIN Hints : req' = [req EXCEPT !.subject = Hints[i]]
    BY <1>4
  <2>2. Hints[i] \in Maybe(Users \cup Merchants)
    BY <1>2, <2>1 DEF Maybe
  <2>3. req' \in Requests
    BY <1>1, <2>1, <2>2 DEF Requests
  <2> QED BY <1>1, <2>3 DEF RequestTypes, SettlementCalls
<1> QED BY <1>3, <1>4 DEF Identify

LEMMA SubmitTypes ==
  ASSUME RequestTypes, CaseTypes, CasesInv, NEW c \in Cases, NEW m \in Complaints, Submit(c, m)
  PROVE  RequestTypes' /\ CaseTypes'
<1>. DEFINE r == Request(c, m)
            x == Case(r, None, "closed", None, FALSE)
<1>1. NoEvidence \in Evidence
  BY DEF NoEvidence, Evidence, Maybe
<1>2. /\ m.workflow = "fraud_account_lock" =>
           m \in AccountComplaints /\ m.user \in Maybe(Users)
      /\ m.workflow # "fraud_account_lock" =>
           m \in SettlementComplaints /\ m.merchant \in Maybe(Merchants)
  BY ComplaintsAssumption DEF AccountComplaints, SettlementComplaints
<1>3. r \in Requests /\ r.complaint = m /\ r.ev = NoEvidence
  BY <1>1, <1>2 DEF Request, Requests, Maybe
<1>. HIDE DEF r
<1>4. x.status = "closed" /\ x.ev = NoEvidence
  BY <1>3 DEF Case
<1>. HIDE DEF x
<1>5. CASE NoIdentity(m)
  <2>1. cases' = [cases EXCEPT ![c] = x] /\ UNCHANGED <<pc, req>>
    BY <1>5 DEF Submit, Store, x, r
  <2> QED BY <1>1, <1>4, <2>1 DEF RequestTypes, CaseTypes, CasesInv
<1>6. CASE ~NoIdentity(m)
  <2>1. /\ cases' = cases /\ req' = r
        /\ pc' = IF m.workflow = "fraud_account_lock" THEN "identify" ELSE "profile"
    BY <1>6 DEF Submit, r
  <2> QED BY <1>2, <1>3, <2>1 DEF RequestTypes, CaseTypes, SettlementCalls
<1> QED BY <1>5, <1>6

LEMMA DecideTypes ==
  ASSUME RequestTypes, CaseTypes, CasesInv, Decide
  PROVE  RequestTypes' /\ CaseTypes'
<1>1. /\ pc = "decide" /\ pc' = "idle" /\ req' = None
      /\ req.case \in Cases /\ req.ev \in Evidence
  BY DEF Decide, EndRequest, RequestTypes, Requests
<1>2. PICK o, status :
        /\ status \in {"waiting_approval", "closed"}
        /\ Store(req.case, Case(req, ApplyRules(req).action, status, o, FALSE))
  BY DEF Decide
<1>. DEFINE x == Case(req, ApplyRules(req).action, status, o, FALSE)
<1>3. x.status = status /\ x.ev = req.ev /\ cases' = [cases EXCEPT ![req.case] = x]
  BY <1>2 DEF Case, Store
<1>. HIDE DEF x
<1>4. CaseTypes'
  BY <1>1, <1>2, <1>3 DEF CaseTypes, CasesInv
<1> QED BY <1>1, <1>4 DEF RequestTypes, SettlementCalls

LEMMA AnswerTypes ==
  ASSUME RequestTypes, CaseTypes, CasesInv, NEW c \in Cases, Approve(c) \/ Reject(c)
  PROVE  RequestTypes' /\ CaseTypes'
<1>1. cases[c] # None /\ UNCHANGED <<pc, req>>
  BY DEF Approve, Reject, Waiting
<1>2. PICK y : y = cases[c]
  OBVIOUS
<1>3. y = CaseForm(y) /\ y.ev \in Evidence
  BY <1>1, <1>2 DEF CasesInv, CaseInv, CaseTypes
<1>4. PICK x : x.status = "closed" /\ x.ev = y.ev /\ cases' = [cases EXCEPT ![c] = x]
  <2>1. CASE Approve(c)
    <3>1. PICK o : Store(c, [y EXCEPT !.status = "closed", !.output = o, !.approved = TRUE])
      BY <1>2, <2>1 DEF Approve
    <3>. DEFINE u == [y EXCEPT !.status = "closed"]
                v == [u EXCEPT !.output = o]
                w == [v EXCEPT !.approved = TRUE]
    <3>2. u = CaseForm(u) /\ u.status = "closed" /\ u.ev = y.ev
      BY <1>3 DEF CaseForm
    <3>. HIDE DEF u
    <3>3. v = CaseForm(v) /\ v.status = u.status /\ v.ev = u.ev
      BY <3>2 DEF CaseForm
    <3>. HIDE DEF v
    <3>4. w.status = v.status /\ w.ev = v.ev
      BY <3>3 DEF CaseForm
    <3>5. Store(c, w)
      BY <3>1 DEF w, v, u
    <3>. HIDE DEF w
    <3> QED BY <3>2, <3>3, <3>4, <3>5 DEF Store
  <2>2. CASE Reject(c)
    <3>. DEFINE u == [y EXCEPT !.status = "closed"]
    <3>1. u.status = "closed" /\ u.ev = y.ev
      BY <1>3 DEF CaseForm
    <3>2. Store(c, u)
      BY <1>2, <2>2 DEF Reject
    <3>. HIDE DEF u
    <3> QED BY <3>1, <3>2 DEF Store
  <2> QED BY <2>1, <2>2
<1>5. CaseTypes'
  BY <1>3, <1>4 DEF CaseTypes, CasesInv
<1> QED BY <1>1, <1>5 DEF RequestTypes

LEMMA TypesNext ==
  ASSUME IInv, WorldTypes, RequestTypes, CaseTypes, [Next]_vars
  PROVE  RequestTypes' /\ CaseTypes'
<1>1. ASSUME UNCHANGED <<pc, req, cases>> PROVE RequestTypes' /\ CaseTypes'
  BY <1>1 DEF RequestTypes, CaseTypes
<1>2. ASSUME SystemsMove \/ UNCHANGED vars PROVE UNCHANGED <<pc, req, cases>>
  BY <1>2 DEF SystemsMove, RiskReviews, CloseDay, StartPayout, EndPayout, RunBatch, vars
<1>3. ASSUME UNCHANGED cases PROVE CaseTypes'
  BY <1>3 DEF CaseTypes
<1>4. ASSUME \/ Identify \/ ReadAccount \/ ReadFraud
             \/ ReadProfile \/ ReadBank \/ ReadLedger \/ ReadPayout \/ ReadBatch \/ ReadReceipt
      PROVE  UNCHANGED cases
  BY <1>4 DEF Identify, ReadAccount, ReadFraud, ReadProfile, ReadBank, ReadLedger, ReadPayout,
              ReadBatch, ReadReceipt, Reads
<1>5. ASSUME Works PROVE RequestTypes' /\ CaseTypes'
  <2>1. CASE Decide
    BY <2>1, DecideTypes DEF IInv
  <2>2. CASE ReadAccount \/ ReadFraud
    BY <1>3, <1>4, <2>2, AccountReadTypes
  <2>3. CASE ReadBank \/ ReadLedger \/ ReadBatch \/ ReadReceipt
    BY <1>3, <1>4, <2>3, SettlementReadTypes
  <2>4. CASE ReadProfile
    BY <1>3, <1>4, <2>4, ProfileReadTypes
  <2>5. CASE ReadPayout
    BY <1>3, <1>4, <2>5, PayoutReadTypes
  <2>6. CASE Identify
    BY <1>3, <1>4, <2>6, IdentifyTypes
  <2> QED BY <1>5, <2>1, <2>2, <2>3, <2>4, <2>5, <2>6 DEF Works
<1> QED BY <1>1, <1>2, <1>5, SubmitTypes, AnswerTypes DEF Next, IInv

\* Type correctness: a request is at one of the tool calls, what it read and
\* what a case was stored with is evidence of the proper kinds, and a stored
\* case is closed or waits for a person (fetch_evidence, create_and_run).
THEOREM TypeCorrect == Spec => []TypeOK
<1>. DEFINE Types == WorldTypes /\ RequestTypes /\ CaseTypes
<1>1. Init => Types
  BY DEF Init, WorldTypes, RequestTypes, CaseTypes, Maybe, SettlementCalls
<1>2. IInv /\ Types /\ [Next]_vars => Types'
  BY WorldTypesMove, TypesNext
<1>3. IInv /\ Types => TypeOK
  BY TypesAreTypes
<1>. HIDE DEF Types
<1> QED BY <1>1, <1>2, <1>3, Inductive, PTL DEF Spec
=============================================================================
