-------------------------- MODULE CaseTickets_proofs --------------------------
(***************************************************************************)
(* What a resolution ticket says, for every complaint, whatever the        *)
(* language model or the regexes read in it, every set of amounts, and     *)
(* every read of the evidence that fails.                                  *)
(*                                                                         *)
(* A ticket is built of five values that five earlier steps computed.  The *)
(* invariant keeps, of each of them, what the ticket relies on: the amount *)
(* among the claims is the one extracted, only the evidence of a merchant  *)
(* has a settlement, the summary compares with this evidence, and an       *)
(* action that moves a customer's money is not a merchant's.               *)
(***************************************************************************)
EXTENDS CaseTickets, TLAPS, SequenceTheorems

-----------------------------------------------------------------------------
(* Extraction *)

\* The claims a case is verified with name the amount that was extracted.
AmountClaimsFit(claims, paid) ==
  \A c \in claims : c.type = "transaction_amount" => paid # None /\ c.value = paid

LEMMA ClaimIfHas ==
  ASSUME NEW type, NEW value, NEW c \in ClaimIf(type, value)
  PROVE  c.type = type /\ c.value = value /\ value # None
BY DEF ClaimIf, Claim

LEMMA ExtractClaimsFit ==
  ASSUME NEW m
  PROVE  AmountClaimsFit(ExtractClaims(m), m.paid)
<1>. SUFFICES ASSUME NEW c \in ExtractClaims(m), c.type = "transaction_amount"
              PROVE  m.paid # None /\ c.value = m.paid
  BY DEF AmountClaimsFit
<1>. DEFINE payment == FirstOf(PaymentPhrases, m.payment)
            delivery == FirstOf(DeliveryPhrases, m.delivery)
            account == FirstOf(AccountPhrases, m.account)
            refund == FirstOf(RefundPhrases, m.refund)
<1>1. \/ c \in ClaimIf("transaction_id", m.txn) \/ c \in ClaimIf("wallet_balance", m.balance)
      \/ c \in ClaimIf("transaction_amount", m.paid) \/ c \in ClaimIf("payment_status", payment)
      \/ c \in ClaimIf("service_delivery", delivery) \/ c \in ClaimIf("account_status", account)
      \/ c \in ClaimIf("refund_status", refund)
  BY DEF ExtractClaims
<1>. HIDE DEF payment, delivery, account, refund
<1> QED BY <1>1, ClaimIfHas

LEMMA FlatClaimsFit ==
  ASSUME NEW i, NEW m, AmountClaimsFit(i.claims, i.paid)
  PROVE  AmountClaimsFit(ClaimsFromInfo(i, m), i.paid)
<1>1. CASE i.claims # {}
  BY <1>1 DEF ClaimsFromInfo
<1>2. CASE i.claims = {}
  <2>. SUFFICES ASSUME NEW c \in ClaimsFromInfo(i, m), c.type = "transaction_amount"
                PROVE  i.paid # None /\ c.value = i.paid
    BY DEF AmountClaimsFit
  <2>1. \A d \in AccountClaims(i, m) : d.type # "transaction_amount"
    <3>. SUFFICES ASSUME NEW d \in AccountClaims(i, m)
                  PROVE  d.type # "transaction_amount"
      OBVIOUS
    <3>1. \/ d = Claim("account_status", "locked") \/ d = Claim("withdrawal_status", "blocked")
          \/ d = Claim("customer_opinion", "for no reason")
          \/ d \in ClaimIf("user_identity", i.phone)
      <4>. DEFINE A == IF i.issue = "account_locked"
                       THEN {Claim("account_status", "locked")} ELSE {}
                  B == IF m.withdraw THEN {Claim("withdrawal_status", "blocked")} ELSE {}
                  C == IF m.opinion THEN {Claim("customer_opinion", "for no reason")} ELSE {}
                  D == ClaimIf("user_identity", i.phone)
      <4>1. d \in UNION {A, B, C, D}
        BY DEF AccountClaims
      <4>2. \A x : x \in A => x = Claim("account_status", "locked")
        OBVIOUS
      <4>3. \A x : x \in B => x = Claim("withdrawal_status", "blocked")
        OBVIOUS
      <4>4. \A x : x \in C => x = Claim("customer_opinion", "for no reason")
        OBVIOUS
      <4>. HIDE DEF A, B, C
      <4> QED BY <4>1, <4>2, <4>3, <4>4
    <3>2. d \in ClaimIf("user_identity", i.phone) => d.type = "user_identity"
      BY ClaimIfHas
    <3>3. CASE d = Claim("account_status", "locked")
      BY <3>3 DEF Claim
    <3>4. CASE d = Claim("withdrawal_status", "blocked")
      BY <3>4 DEF Claim
    <3>5. CASE d = Claim("customer_opinion", "for no reason")
      BY <3>5 DEF Claim
    <3> QED BY <3>1, <3>2, <3>3, <3>4, <3>5
  <2>2. \/ c \in ClaimIf("transaction_id", i.txn)
        \/ c \in ClaimIf("transaction_amount", i.paid)
        \/ c \in ClaimIf("service_delivery", i.service)
        \/ c \in AccountClaims(i, m)
    BY <1>2 DEF ClaimsFromInfo
  <2> QED BY <2>1, <2>2, ClaimIfHas
<1> QED BY <1>1, <1>2

\* Whatever extracts, the claims fit; and what the regexes found and did not
\* find of the identities is on the list of what is missing.
LEMMA ExtractionFits ==
  ASSUME NEW m, NEW u, NEW mock, NEW i \in Extractions(m, u, mock)
  PROVE  /\ AmountClaimsFit(i.claims, i.paid)
         /\ i.method = "regex" =>
              i.missing = MissingFields(i.service, i.txn, i.user, i.phone # None, i.merchant)
<1>1. CASE i = MockExtract(m, u)
  <2>1. i.claims = ExtractClaims(m) /\ i.paid = m.paid
    BY <1>1 DEF MockExtract
  <2>2. i.missing = MissingFields(i.service, i.txn, i.user, i.phone # None, i.merchant)
    BY <1>1, Zenon DEF MockExtract
  <2> QED BY <2>1, <2>2, ExtractClaimsFit
<1>2. ASSUME NEW r \in LLMReadings(m), i = Sanitized(r, u)
      PROVE  i.claims = {} /\ i.method = "llm"
  <2>. DEFINE s == [r EXCEPT !.user = IF @ = None THEN u ELSE @]
  <2>1. /\ r.claims = {} /\ r.method = "llm"
        /\ DOMAIN r = {"method", "txn", "user", "service", "issue", "phone", "merchant",
                       "paid", "missing", "claims"}
    BY <1>2 DEF LLMReadings
  <2>2. s.claims = {} /\ s.method = "llm" /\ DOMAIN s = DOMAIN r
    BY <2>1
  <2>3. i = [s EXCEPT !.missing = IF @ = {} THEN LLMMissing(s) ELSE @]
    BY <1>2 DEF Sanitized
  <2>. HIDE DEF s
  <2> QED BY <2>1, <2>2, <2>3
<1>3. CASE \E r \in LLMReadings(m) : i = Sanitized(r, u)
  BY <1>2, <1>3 DEF AmountClaimsFit
<1> QED BY <1>1, <1>3 DEF Extractions

-----------------------------------------------------------------------------
(* Which case goes on *)

\* What RegexIntakeIsComplete needs of the extraction i and the user u.
IntakeFits(i, u) ==
  /\ i.service \notin {"account_security", "merchant_settlement"} => i.txn # None
  /\ i.service = "account_security" => (IF u # None THEN u ELSE i.phone) # None

LEMMA ServicesAndWorkflows ==
  /\ \A s : WorkflowOf(s) = "fraud_account_lock" <=> s = "account_security"
  /\ \A s : WorkflowOf(s) = "merchant_settlement_delay" <=> s = "merchant_settlement"
  /\ \A s \in PaidServices : WorkflowOf(s) # "fraud_account_lock"
<1>1. ASSUME NEW s
      PROVE  /\ WorkflowOf(s) = "fraud_account_lock" <=> s = "account_security"
             /\ WorkflowOf(s) = "merchant_settlement_delay" <=> s = "merchant_settlement"
  <2>1. s \in {"electric_bill", "water_bill"} <=> s = "electric_bill" \/ s = "water_bill"
    OBVIOUS
  <2>2. CASE s \notin {"train_ticket", "electric_bill", "water_bill", "wallet_topup",
                       "account_security", "merchant_settlement"}
    <3>1. WorkflowOf(s) = None
      BY <2>2 DEF WorkflowOf
    <3> QED BY <2>2, <3>1, NoneAssumption
  <2>3. CASE s \in {"train_ticket", "electric_bill", "water_bill", "wallet_topup"}
    <3>1. WorkflowOf(s) \in {"train_ticket", "utility_bill", "wallet_topup"}
      BY <2>3 DEF WorkflowOf
    <3> QED BY <2>3, <3>1
  <2>4. CASE s \in {"account_security", "merchant_settlement"}
    BY <2>4 DEF WorkflowOf
  <2> QED BY <2>2, <2>3, <2>4
<1>2. "account_security" \notin PaidServices
  BY DEF PaidServices
<1> QED BY <1>1, <1>2

LEMMA NotDeadFits ==
  ASSUME NEW i, NEW u, ~DeadLettered(i),
         i.missing = MissingFields(i.service, i.txn, i.user, i.phone # None, i.merchant)
  PROVE  IntakeFits(i, CaseUser(i, u))
<1>. DEFINE missing == MissingFields(i.service, i.txn, i.user, i.phone # None, i.merchant)
<1>1. MissingInfo(i) = missing
  BY DEF MissingInfo
<1>2. /\ "transaction_id" \in missing <=>
           i.txn = None /\ i.service \notin {"account_security", "merchant_settlement"}
      /\ "user_id" \in missing <=>
           i.service # "merchant_settlement" /\ i.user = None /\ ~(i.phone # None)
  BY DEF MissingFields, MissingIf
<1>. HIDE DEF missing
<1>3. i.service # "account_security" => "transaction_id" \notin missing
  BY <1>1, ServicesAndWorkflows DEF DeadLettered
<1>4. i.service = "account_security" => "user_id" \notin missing
  BY <1>1, ServicesAndWorkflows DEF DeadLettered
<1> QED BY <1>2, <1>3, <1>4 DEF IntakeFits, CaseUser

-----------------------------------------------------------------------------
(* Evidence *)

\* What the ticket relies on in the evidence e of the extraction i.
EvidenceFits(e, i) ==
  /\ e.settlement # None => i.service = "merchant_settlement"
  /\ e.ledger # None => e.ledger.debit # None
  /\ e.transaction # None => /\ e.transaction.amount # None
                             /\ e.transaction.service \in PaidServices

Keys == {"transaction", "ledger", "train", "utility", "refund", "recon", "account",
         "fraud", "profile", "bank", "settlement", "payout", "batch", "receipt"}

LEMMA NoEvidenceIsEmpty == DOMAIN NoEvidence = Keys /\ \A key \in Keys : NoEvidence[key] = None
BY DEF NoEvidence, Keys

LEMMA NothingRead ==
  ASSUME NEW i PROVE EvidenceFits(NoEvidence, i)
BY NoEvidenceIsEmpty DEF EvidenceFits, Keys

LEMMA AmountsAreAmounts ==
  /\ \A l \in OrNone(Ledgers) : l # None => l.debit # None
  /\ \A t \in OrNone(Transactions) :
       t # None => t.amount # None /\ t.service \in PaidServices
<1>1. \A l \in Ledgers : l.debit # None
  BY AmountsAssumption DEF Ledgers, Ledger
<1>2. \A t \in Transactions : t.amount # None /\ t.service \in PaidServices
  BY AmountsAssumption DEF Transactions
<1> QED BY <1>1, <1>2 DEF OrNone

LEMMA TransactionEvidenceFits ==
  ASSUME NEW e \in TransactionEvidence
  PROVE  e.settlement = None /\ EvidenceFits(e, info)
<1>1. CASE info.txn = None
  <2>1. e = NoEvidence
    BY <1>1 DEF TransactionEvidence
  <2> QED BY <2>1, NothingRead, NoEvidenceIsEmpty DEF Keys
<1>2. CASE info.txn # None
  <2>. DEFINE P(t) == UNION {Provided(TransactionRead(t, l, r, c)) :
                              l \in UnlessTopup(Ledgers, t), r \in UnlessTopup(Refunds, t),
                              c \in OrNone(Recons)}
  <2>0. PICK t \in OrNone(Transactions) : e \in P(t)
    <3>1. e \in UNION {P(t) : t \in OrNone(Transactions)}
      BY <1>2 DEF TransactionEvidence
    <3> QED BY <3>1
  <2>1. PICK l \in UnlessTopup(Ledgers, t), r \in UnlessTopup(Refunds, t),
             c \in OrNone(Recons) : e \in Provided(TransactionRead(t, l, r, c))
    BY <2>0
  <2>2. l \in OrNone(Ledgers)
    BY DEF UnlessTopup, OrNone
  <2>. DEFINE b == TransactionRead(t, l, r, c)
  <2>3. /\ DOMAIN b = Keys /\ b.transaction = t /\ b.ledger = l /\ b.settlement = None
    BY NoEvidenceIsEmpty DEF Keys, TransactionRead
  <2>4. e \in Provided(b)
    BY <2>1
  <2>. HIDE DEF b
  <2>5. e = b \/ \E x : e = [b EXCEPT !.train = x] \/ e = [b EXCEPT !.utility = x]
    <3>1. CASE b.transaction = None
      BY <2>4, <3>1 DEF Provided
    <3>2. CASE b.transaction # None /\ ServiceHint(b.transaction) = "train_ticket"
      <4>1. e \in {[b EXCEPT !.train = x] : x \in OrNone(Trains)}
        BY <2>4, <3>2 DEF Provided
      <4> QED BY <4>1
    <3>3. CASE /\ b.transaction # None
               /\ ServiceHint(b.transaction) \in {"electric_bill", "water_bill"}
      <4>1. e \in {[b EXCEPT !.utility = x] :
                     x \in {None, "confirmed", "failed", "not_confirmed"}}
        BY <2>4, <3>3 DEF Provided
      <4> QED BY <4>1
    <3>4. CASE b.transaction # None
               /\ ServiceHint(b.transaction)
                    \notin {"train_ticket", "electric_bill", "water_bill"}
      BY <2>4, <3>4 DEF Provided
    <3> QED BY <3>1, <3>2, <3>3, <3>4
  <2>6. e.transaction = t /\ e.ledger = l /\ e.settlement = None
    BY <2>3, <2>5 DEF Keys
  <2> QED BY <2>2, <2>6, AmountsAreAmounts DEF EvidenceFits
<1> QED BY <1>1, <1>2

LEMMA AllEvidenceFits ==
  ASSUME NEW e \in Evidence PROVE EvidenceFits(e, info)
<1>1. CASE info.service = "account_security"
  <2>1. e \in AccountEvidence
    BY <1>1 DEF Evidence
  <2>2. e = NoEvidence \/ \E a, f : e = AccountRead(a, f)
    BY <2>1 DEF AccountEvidence
  <2>3. ASSUME NEW a, NEW f, e = AccountRead(a, f)
        PROVE  e.settlement = None /\ e.ledger = None /\ e.transaction = None
    BY <2>3, NoEvidenceIsEmpty DEF Keys, AccountRead
  <2>4. e = NoEvidence \/ (e.settlement = None /\ e.ledger = None /\ e.transaction = None)
    BY <2>2, <2>3
  <2> QED BY <2>4, NothingRead DEF EvidenceFits
<1>2. CASE info.service = "merchant_settlement"
  <2>1. e \in MerchantEvidence
    BY <1>2 DEF Evidence
  <2>2. e = NoEvidence \/ \E b, s, p, t : e = MerchantRead(b, s, p, t)
    BY <2>1 DEF MerchantEvidence
  <2>3. ASSUME NEW b, NEW s, NEW p, NEW t, e = MerchantRead(b, s, p, t)
        PROVE  e.ledger = None /\ e.transaction = None
    BY <2>3, NoEvidenceIsEmpty DEF Keys, MerchantRead
  <2>4. e = NoEvidence \/ (e.ledger = None /\ e.transaction = None)
    BY <2>2, <2>3
  <2> QED BY <1>2, <2>4, NothingRead DEF EvidenceFits
<1>3. CASE info.service \notin {"account_security", "merchant_settlement"}
  <2>1. e \in TransactionEvidence
    BY <1>3 DEF Evidence
  <2> QED BY <2>1, TransactionEvidenceFits
<1> QED BY <1>1, <1>2, <1>3

-----------------------------------------------------------------------------
(* The amount the systems agree on *)

LEMMA FirstKnown ==
  ASSUME NEW X, NEW a \in Seq(X), NEW b \in Seq(X), NEW c \in Seq(X)
  PROVE  /\ a # <<>> => (a \o b) \o c # <<>> /\ Head((a \o b) \o c) = a[1]
         /\ a = <<>> /\ b # <<>> => (a \o b) \o c # <<>> /\ Head((a \o b) \o c) = b[1]
         /\ a = <<>> /\ b = <<>> /\ c # <<>> =>
              (a \o b) \o c # <<>> /\ Head((a \o b) \o c) = c[1]
         /\ a = <<>> /\ b = <<>> /\ c = <<>> => (a \o b) \o c = <<>>
<1>1. /\ a \o b \in Seq(X) /\ Len(a \o b) = Len(a) + Len(b)
      /\ (a \o b) \o c \in Seq(X) /\ Len((a \o b) \o c) = Len(a) + Len(b) + Len(c)
  OBVIOUS
<1>2. \A s \in Seq(X) : /\ Len(s) \in Nat
                        /\ s = <<>> <=> Len(s) = 0
                        /\ s # <<>> => Head(s) = s[1]
  OBVIOUS
<1>3. \A s, t \in Seq(X) : /\ Len(s) > 0 => (s \o t)[1] = s[1]
                           /\ Len(s) = 0 /\ Len(t) > 0 => (s \o t)[1] = t[1]
  OBVIOUS
<1> QED BY <1>1, <1>2, <1>3

\* An amount of a record that was read.
Known1(record, amount) == record # None /\ amount \notin {None, 0}

LEMMA TrustedIs ==
  ASSUME NEW e
  PROVE  TrustedAmount(e) =
           IF Known1(e.ledger, e.ledger.debit) THEN e.ledger.debit
           ELSE IF Known1(e.transaction, e.transaction.amount) THEN e.transaction.amount
           ELSE IF Known1(e.recon, e.recon.amount) THEN e.recon.amount
           ELSE None
<1>. DEFINE Item(source, amount) == [source |-> source, amount |-> amount]
            X == {Item("ledger", e.ledger.debit), Item("transaction", e.transaction.amount),
                  Item("recon", e.recon.amount)}
            a == IF e.ledger = None THEN <<>> ELSE Known("ledger", e.ledger.debit)
            b == IF e.transaction = None THEN <<>>
                 ELSE Known("transaction", e.transaction.amount)
            c == IF e.recon = None THEN <<>> ELSE Known("recon", e.recon.amount)
<1>1. KnownAmounts(e) = (a \o b) \o c
  BY Zenon DEF KnownAmounts
<1>2. a = IF Known1(e.ledger, e.ledger.debit) THEN <<Item("ledger", e.ledger.debit)>> ELSE <<>>
  BY DEF Known, Known1
<1>3. b = IF Known1(e.transaction, e.transaction.amount)
          THEN <<Item("transaction", e.transaction.amount)>> ELSE <<>>
  BY DEF Known, Known1
<1>4. c = IF Known1(e.recon, e.recon.amount) THEN <<Item("recon", e.recon.amount)>> ELSE <<>>
  BY DEF Known, Known1
<1>5. \A source, amount : Item(source, amount).amount = amount
  OBVIOUS
<1>. HIDE DEF Item, a, b, c
<1>6. \A x \in X : <<x>> \in Seq(X) /\ <<x>> # <<>> /\ <<x>>[1] = x
  OBVIOUS
<1>7. <<>> \in Seq(X)
  OBVIOUS
<1>8. /\ Item("ledger", e.ledger.debit) \in X /\ Item("recon", e.recon.amount) \in X
      /\ Item("transaction", e.transaction.amount) \in X
  OBVIOUS
<1>. HIDE DEF X
<1>9. a \in Seq(X) /\ b \in Seq(X) /\ c \in Seq(X)
  BY <1>2, <1>3, <1>4, <1>6, <1>7, <1>8
<1>10. TrustedAmount(e) = IF KnownAmounts(e) = <<>> THEN None ELSE Head(KnownAmounts(e)).amount
  BY DEF TrustedAmount
<1>11. CASE Known1(e.ledger, e.ledger.debit)
  <2>1. a # <<>> /\ a[1] = Item("ledger", e.ledger.debit)
    BY <1>2, <1>6, <1>8, <1>11
  <2>2. KnownAmounts(e) # <<>> /\ Head(KnownAmounts(e)) = Item("ledger", e.ledger.debit)
    BY <1>1, <1>9, <2>1, FirstKnown
  <2> QED BY <1>5, <1>10, <1>11, <2>2
<1>12. CASE ~Known1(e.ledger, e.ledger.debit) /\ Known1(e.transaction, e.transaction.amount)
  <2>1. a = <<>> /\ b # <<>> /\ b[1] = Item("transaction", e.transaction.amount)
    BY <1>2, <1>3, <1>6, <1>8, <1>12
  <2>2. /\ KnownAmounts(e) # <<>>
        /\ Head(KnownAmounts(e)) = Item("transaction", e.transaction.amount)
    BY <1>1, <1>9, <2>1, FirstKnown
  <2> QED BY <1>5, <1>10, <1>12, <2>2
<1>13. CASE /\ ~Known1(e.ledger, e.ledger.debit)
            /\ ~Known1(e.transaction, e.transaction.amount)
            /\ Known1(e.recon, e.recon.amount)
  <2>1. a = <<>> /\ b = <<>> /\ c # <<>> /\ c[1] = Item("recon", e.recon.amount)
    BY <1>2, <1>3, <1>4, <1>6, <1>8, <1>13
  <2>2. KnownAmounts(e) # <<>> /\ Head(KnownAmounts(e)) = Item("recon", e.recon.amount)
    BY <1>1, <1>9, <2>1, FirstKnown
  <2> QED BY <1>5, <1>10, <1>13, <2>2
<1>14. CASE /\ ~Known1(e.ledger, e.ledger.debit)
            /\ ~Known1(e.transaction, e.transaction.amount)
            /\ ~Known1(e.recon, e.recon.amount)
  <2>1. KnownAmounts(e) = <<>>
    BY <1>1, <1>2, <1>3, <1>4, <1>9, <1>14, FirstKnown
  <2> QED BY <1>10, <1>14, <2>1
<1> QED BY <1>11, <1>12, <1>13, <1>14

-----------------------------------------------------------------------------
(* The summary of the claims *)

\* What the ticket relies on in the summary s of evidence e and extraction i.
SummaryFits(s, e, i) ==
  /\ s.system_conflict = ~AmountsAgree(e)
  /\ \A c \in s.claims :
       c.type = "transaction_amount" /\ c.status = "mismatched" =>
         i.paid # None /\ TrustedAmount(e) # None /\ i.paid # TrustedAmount(e)

LEMMA VerifiedFits ==
  ASSUME NEW claims, NEW e, NEW i, AmountClaimsFit(claims, i.paid)
  PROVE  SummaryFits(VerifyAllClaims(claims, e), e, i)
<1>. DEFINE s == VerifyAllClaims(claims, e)
            v(c) == [type |-> c.type, value |-> c.value, status |-> Verify(c, e).status,
                     trusted |-> Verify(c, e).trusted]
<1>1. s.system_conflict = ~AmountsAgree(e)
  BY DEF VerifyAllClaims
<1>2. s.claims = {v(c) : c \in claims} \cup SystemOnly(claims, e)
  BY DEF VerifyAllClaims
<1>3. \A d \in SystemOnly(claims, e) : d.status = "system_only"
  BY DEF SystemOnly
<1>4. ASSUME NEW c \in claims, c.type = "transaction_amount", Verify(c, e).status = "mismatched"
      PROVE  i.paid # None /\ TrustedAmount(e) # None /\ i.paid # TrustedAmount(e)
  <2>1. Verify(c, e) = VerifyAmount(c, e)
    BY <1>4 DEF Verify
  <2>2. TrustedAmount(e) # None
    BY <1>4, <2>1 DEF VerifyAmount, NotVerifiable, Verdict
  <2>3. VerifyAmount(c, e).status = IF c.value = TrustedAmount(e) THEN "matched" ELSE "mismatched"
    BY <2>2 DEF VerifyAmount, Compared, Verdict
  <2>4. c.value = i.paid /\ i.paid # None
    BY <1>4 DEF AmountClaimsFit
  <2> QED BY <1>4, <2>1, <2>2, <2>3, <2>4
<1>5. \A c : v(c).type = c.type /\ v(c).status = Verify(c, e).status
  OBVIOUS
<1>. HIDE DEF s, v
<1>6. ASSUME NEW d \in s.claims, d.type = "transaction_amount", d.status = "mismatched"
      PROVE  i.paid # None /\ TrustedAmount(e) # None /\ i.paid # TrustedAmount(e)
  <2>1. PICK c \in claims : d = v(c)
    BY <1>2, <1>3, <1>6
  <2> QED BY <1>4, <1>5, <1>6, <2>1
<1> QED BY <1>1, <1>6 DEF SummaryFits, s

-----------------------------------------------------------------------------
(* The ticket *)

\* Without a settlement, and but for a transaction of amount zero, the ticket's
\* amount is the one the claim verifier trusts.
LEMMA ActionAmountIsTrusted ==
  ASSUME NEW e, NEW i, EvidenceFits(e, i), e.settlement = None,
         e.transaction = None \/ e.transaction.amount # 0, TrustedAmount(e) # None
  PROVE  ActionAmount(e) = TrustedAmount(e)
<1>1. SettlementNet(e) = None
  BY DEF SettlementNet
<1>2. ActionAmount(e) =
        IF e.ledger # None /\ e.ledger.debit # 0 THEN e.ledger.debit
        ELSE IF e.transaction # None THEN Nonzero(e.transaction.amount)
        ELSE IF e.recon # None THEN Nonzero(e.recon.amount)
        ELSE None
  BY <1>1 DEF ActionAmount
<1>3. /\ e.ledger # None => e.ledger.debit # None
      /\ e.transaction # None => e.transaction.amount # None
  BY DEF EvidenceFits
<1>4. e.transaction # None => Nonzero(e.transaction.amount) = e.transaction.amount
  BY DEF Nonzero
<1>5. CASE Known1(e.ledger, e.ledger.debit)
  BY <1>2, <1>5, TrustedIs DEF Known1
<1>6. CASE ~Known1(e.ledger, e.ledger.debit) /\ e.transaction # None
  BY <1>2, <1>3, <1>4, <1>6, TrustedIs DEF Known1
<1>7. CASE ~Known1(e.ledger, e.ledger.debit) /\ e.transaction = None
  <2>1. TrustedAmount(e) = IF Known1(e.recon, e.recon.amount) THEN e.recon.amount ELSE None
    BY <1>7, TrustedIs DEF Known1
  <2>2. Known1(e.recon, e.recon.amount)
    BY <2>1
  <2>3. Nonzero(e.recon.amount) = e.recon.amount
    BY <2>2 DEF Known1, Nonzero
  <2> QED BY <1>2, <1>3, <1>7, <2>1, <2>2, <2>3 DEF Known1
<1> QED BY <1>5, <1>6, <1>7

\* An amount that is on a ticket is one of a record.
LEMMA AmountHasASource ==
  ASSUME NEW e, ActionAmount(e) # None
  PROVE  \/ e.settlement # None /\ ActionAmount(e) = e.settlement.net
         \/ e.ledger # None /\ ActionAmount(e) = e.ledger.debit
         \/ e.transaction # None /\ ActionAmount(e) = e.transaction.amount
         \/ e.recon # None /\ ActionAmount(e) = e.recon.amount
<1>1. \A a : Nonzero(a) # None => Nonzero(a) = a
  BY DEF Nonzero
<1>2. SettlementNet(e) # None => e.settlement # None /\ SettlementNet(e) = e.settlement.net
  BY <1>1 DEF SettlementNet
<1> QED BY <1>1, <1>2 DEF ActionAmount

\* The tool's amount is the ticket's, a refund being never about a settlement.
LEMMA InputIsActionAmount ==
  ASSUME NEW e, NEW action, InputAmount(action, e) # None,
         action = "create_refund_request_draft" => e.settlement = None
  PROVE  InputAmount(action, e) = ActionAmount(e)
<1>1. CASE action = "create_refund_request_draft"
  <2>1. InputAmount(action, e) = IF e.ledger = None THEN None ELSE Nonzero(e.ledger.debit)
    BY <1>1 DEF InputAmount
  <2>2. e.ledger # None /\ e.ledger.debit # 0 /\ InputAmount(action, e) = e.ledger.debit
    BY <2>1 DEF Nonzero
  <2>3. SettlementNet(e) = None
    BY <1>1 DEF SettlementNet
  <2> QED BY <2>2, <2>3 DEF ActionAmount
<1>2. CASE action = "create_manual_payout_draft"
  BY <1>2 DEF InputAmount, ActionAmount
<1>3. CASE action \notin {"create_refund_request_draft", "create_manual_payout_draft"}
  BY <1>3 DEF InputAmount
<1> QED BY <1>1, <1>2, <1>3

\* What an actionable ticket t, built of the decision d, says.
LEMMA Actionable ==
  ASSUME NEW w, NEW d, NEW e, NEW paid, NEW s, NEW t,
         t = BuildResolutionTicket(w, d, e, paid, s), t.resolution = "actionable"
  PROVE  /\ ~s.system_conflict
         /\ ~(AmountMismatch(paid, ActionAmount(e)) /\ d.action \in MoneyActionTypes)
<1>. DEFINE escalated == AmountMismatch(paid, ActionAmount(e)) /\ d.action \in MoneyActionTypes
            r == ResolutionStatus(d.action, Missing(w, e), escalated)
<1>1. t.resolution = IF s.system_conflict THEN "manual_review_required" ELSE r
  BY DEF BuildResolutionTicket
<1>. HIDE DEF escalated
<1>2. ~s.system_conflict /\ r = "actionable"
  BY <1>1
<1>3. ~escalated
  BY <1>2 DEF ResolutionStatus
<1> QED BY <1>2, <1>3 DEF escalated

-----------------------------------------------------------------------------
(* The decision *)

MoneyDrafts == {"create_refund_request_draft", "create_force_success_draft",
                "create_reconciliation_ticket_draft"}

LEMMA LockActions ==
  ASSUME NEW account, NEW fraud
  PROVE  Accounts!DecideAccountLock(account, fraud).action
           \in {"manual_review", "draft_customer_response", "create_unlock_account_draft",
                "create_request_documents_response_draft"}
BY DEF Accounts!DecideAccountLock, Accounts!ManualReview, Accounts!Respond,
       Accounts!RequestDocuments, Accounts!Unlock, Accounts!Decision

LEMMA SettlementActions ==
  ASSUME NEW s
  PROVE  Accounts!DecideSettlement(s).action
           \in {"request_identity_correction", "manual_settlement_review",
                "request_bank_account_correction", "draft_customer_response",
                "create_manual_payout_draft", "send_unc_email_draft"}
<1>1. \A l, p, r : Accounts!AfterSuccess(l, p, r)
                     \in {Accounts!SettlementReview, Accounts!Respond, Accounts!SendUnc}
  BY DEF Accounts!AfterSuccess
<1>2. \A l, p, b, r : Accounts!DecidePayout(l, p, b, r)
        \in {Accounts!ManualPayout, Accounts!SettlementReview, Accounts!Respond,
             Accounts!SendUnc}
  BY <1>1 DEF Accounts!DecidePayout
<1>3. Accounts!DecideSettlement(s)
        \in {Accounts!RequestIdentity, Accounts!SettlementReview,
             Accounts!RequestBankAccount, Accounts!Respond, Accounts!ManualPayout,
             Accounts!SendUnc}
  BY <1>2 DEF Accounts!DecideSettlement
<1> QED BY <1>3 DEF Accounts!RequestIdentity, Accounts!SettlementReview,
           Accounts!RequestBankAccount, Accounts!Respond, Accounts!ManualPayout,
           Accounts!SendUnc, Accounts!Decision

\* Only the rules of a transaction draft a transfer, and those cases have no
\* settlement.
LEMMA MoneyDecision ==
  ASSUME EvidenceFits(ev, info), Decided.action \in MoneyDrafts
  PROVE  ev.settlement = None
<1>1. Workflow = "merchant_settlement_delay" => \E s : Decided = Accounts!DecideSettlement(s)
  BY DEF Decided
<1>2. Workflow # "merchant_settlement_delay"
  BY <1>1, SettlementActions DEF MoneyDrafts
<1>3. info.service # "merchant_settlement"
  <2>1. ASSUME info.service = "merchant_settlement"
        PROVE  Workflow = "merchant_settlement_delay"
    <3>1. WorkflowOf(info.service) = "merchant_settlement_delay"
      BY <2>1, ServicesAndWorkflows
    <3> QED BY <3>1, NoneAssumption DEF Workflow
  <2> QED BY <1>2, <2>1
<1> QED BY <1>3 DEF EvidenceFits

-----------------------------------------------------------------------------
(* The invariant: one conjunct per value the ticket is made of *)

\* What was extracted.
InfoInv ==
  /\ status # "extracting" => AmountClaimsFit(info.claims, info.paid)
  /\ Proceeds /\ info.method = "regex" => IntakeFits(info, user)

EvidenceInv ==
  /\ status \in {"extracting", "fetching_evidence"} => ev = None
  /\ status \notin {"extracting", "dead_letter", "fetching_evidence"} => EvidenceFits(ev, info)

SummaryInv ==
  status \notin {"extracting", "dead_letter", "fetching_evidence", "detecting"} =>
    SummaryFits(summary, ev, info)

DecisionInv ==
  status \in {"responding", "waiting_approval", "closed"} =>
    (decision.action \in MoneyDrafts => ev.settlement = None)

\* The ticket is of the evidence, the summary and the decision that stay.
TicketInv ==
  /\ ticket # None => status \in {"waiting_approval", "closed"}
  /\ TicketAmounts /\ MismatchEscalates

IInv == InfoInv /\ EvidenceInv /\ SummaryInv /\ DecisionInv /\ TicketInv

\* Whoever extracted, a case that goes on has the identities its service needs.
LEMMA AfterExtract ==
  ASSUME NEW i \in Extractions(complaint, caseUser, MockLLM), ~DeadLettered(i),
         i.method = "regex"
  PROVE  IntakeFits(i, CaseUser(i, caseUser))
<1>1. i.missing = MissingFields(i.service, i.txn, i.user, i.phone # None, i.merchant)
  BY ExtractionFits
<1> QED BY <1>1, NotDeadFits

\* The ticket the node builds is one the invariant describes.
LEMMA BuiltTicket ==
  ASSUME EvidenceFits(ev, info), SummaryFits(summary, ev, info),
         decision.action \in MoneyDrafts => ev.settlement = None,
         NEW t, t = BuildResolutionTicket(Workflow, decision, ev, info.paid, summary)
  PROVE  /\ t.action_amount # None =>
              \/ ev.settlement # None /\ t.action_amount = ev.settlement.net
              \/ ev.ledger # None /\ t.action_amount = ev.ledger.debit
              \/ ev.transaction # None /\ t.action_amount = ev.transaction.amount
              \/ ev.recon # None /\ t.action_amount = ev.recon.amount
         /\ t.input_amount # None => t.input_amount = t.action_amount
         /\ (/\ t.action \in MoneyDrafts
             /\ (ev.transaction = None \/ ev.transaction.amount # 0)
             /\ Mismatched("transaction_amount")) => t.resolution # "actionable"
<1>1. /\ t.action = decision.action /\ t.action_amount = ActionAmount(ev)
      /\ t.input_amount = InputAmount(decision.action, ev)
  BY DEF BuildResolutionTicket
<1>2. t.input_amount # None => t.input_amount = t.action_amount
  BY <1>1, InputIsActionAmount DEF MoneyDrafts
<1>3. ASSUME t.resolution = "actionable"
      PROVE  ~(AmountMismatch(info.paid, ActionAmount(ev))
                 /\ decision.action \in MoneyActionTypes)
  BY <1>3, Actionable
<1>4. ASSUME t.action \in MoneyDrafts, Mismatched("transaction_amount"),
             ev.transaction = None \/ ev.transaction.amount # 0
      PROVE  t.resolution # "actionable"
  <2>1. info.paid # None /\ TrustedAmount(ev) # None /\ info.paid # TrustedAmount(ev)
    BY <1>4 DEF Mismatched, SummaryFits
  <2>2. ev.settlement = None
    BY <1>1, <1>4
  <2>3. ActionAmount(ev) = TrustedAmount(ev)
    BY <1>4, <2>1, <2>2, ActionAmountIsTrusted
  <2>4. AmountMismatch(info.paid, ActionAmount(ev)) /\ decision.action \in MoneyActionTypes
    BY <1>1, <1>4, <2>1, <2>3 DEF AmountMismatch, MoneyDrafts, MoneyActionTypes
  <2> QED BY <1>3, <2>4
<1>5. t.action_amount # None =>
        \/ ev.settlement # None /\ t.action_amount = ev.settlement.net
        \/ ev.ledger # None /\ t.action_amount = ev.ledger.debit
        \/ ev.transaction # None /\ t.action_amount = ev.transaction.amount
        \/ ev.recon # None /\ t.action_amount = ev.recon.amount
  BY <1>1, AmountHasASource
<1> QED BY <1>2, <1>4, <1>5

\* A step that leaves the ticket and what it was made of alone.
LEMMA TicketStays ==
  ASSUME TicketInv, UNCHANGED <<info, ev, summary, ticket>>,
         ticket # None => status' \in {"waiting_approval", "closed"}
  PROVE  TicketInv'
<1>1. TicketAmounts'
  BY DEF TicketInv, TicketAmounts
<1>2. MismatchEscalates'
  BY DEF TicketInv, MismatchEscalates, Mismatched
<1> QED BY <1>1, <1>2 DEF TicketInv

\* A step of a case that has no ticket.
LEMMA NoTicketYet ==
  ASSUME ticket' = None PROVE TicketInv'
BY DEF TicketInv, TicketAmounts, MismatchEscalates

LEMMA InitInv == Init => IInv
<1>. SUFFICES ASSUME Init PROVE IInv
  OBVIOUS
<1>1. InfoInv /\ EvidenceInv /\ SummaryInv /\ DecisionInv
  BY DEF Init, InfoInv, Proceeds, EvidenceInv, SummaryInv, DecisionInv
<1>2. TicketInv
  BY DEF Init, TicketInv, TicketAmounts, MismatchEscalates
<1> QED BY <1>1, <1>2 DEF IInv

LEMMA NextInv == IInv /\ [Next]_vars => IInv'
<1>. SUFFICES ASSUME IInv, [Next]_vars PROVE IInv'
  OBVIOUS
<1>. USE DEF IInv
<1>1. CASE ExtractInfo
  <2>1. PICK i \in Extractions(complaint, caseUser, MockLLM) :
          /\ info' = i /\ user' = CaseUser(i, caseUser)
          /\ status' = IF DeadLettered(i) THEN "dead_letter" ELSE "fetching_evidence"
    BY <1>1 DEF ExtractInfo
  <2>2. AmountClaimsFit(info'.claims, info'.paid)
    BY <2>1, ExtractionFits
  <2>3. Proceeds' /\ info'.method = "regex" => IntakeFits(info', user')
    BY <2>1, AfterExtract DEF Proceeds
  <2>4. InfoInv'
    BY <2>2, <2>3 DEF InfoInv, Proceeds
  <2>5. EvidenceInv' /\ SummaryInv' /\ DecisionInv'
    BY <1>1, <2>1 DEF ExtractInfo, EvidenceInv, SummaryInv, DecisionInv
  <2>6. ticket' = None
    BY <1>1 DEF ExtractInfo, TicketInv
  <2> QED BY <2>4, <2>5, <2>6, NoTicketYet
<1>2. CASE FetchEvidence
  <2>1. PICK e \in Evidence :
          /\ ev' = e /\ status' = IF CriticalReadsFailed(e) THEN "dead_letter" ELSE "detecting"
    BY <1>2 DEF FetchEvidence
  <2>2. status = "fetching_evidence" /\ UNCHANGED <<user, info, ticket>>
    BY <1>2 DEF FetchEvidence
  <2>3. InfoInv'
    BY <2>1, <2>2 DEF InfoInv, Proceeds
  <2>4. EvidenceInv'
    BY <2>1, <2>2, AllEvidenceFits DEF EvidenceInv
  <2>5. SummaryInv' /\ DecisionInv'
    BY <2>1 DEF SummaryInv, DecisionInv
  <2>6. ticket' = None
    BY <2>2 DEF TicketInv
  <2> QED BY <2>3, <2>4, <2>5, <2>6, NoTicketYet
<1>3. CASE DetectConflict
  <2>1. /\ status = "detecting" /\ status' \in {"manual_review", "rule_decision"}
        /\ summary' = VerifyAllClaims(ClaimsFromInfo(info, complaint), ev)
        /\ UNCHANGED <<user, info, ev, ticket>>
    BY <1>3 DEF DetectConflict
  <2>2. InfoInv' /\ EvidenceInv' /\ DecisionInv'
    BY <2>1 DEF InfoInv, Proceeds, EvidenceInv, DecisionInv
  <2>3. AmountClaimsFit(ClaimsFromInfo(info, complaint), info.paid)
    BY <2>1, FlatClaimsFit DEF InfoInv
  <2>4. SummaryFits(summary', ev, info)
    BY <2>1, <2>3, VerifiedFits
  <2>5. SummaryInv'
    BY <2>1, <2>4 DEF SummaryInv
  <2>6. ticket' = None
    BY <2>1 DEF TicketInv
  <2> QED BY <2>2, <2>5, <2>6, NoTicketYet
<1>4. CASE ManualReview
  <2>1. /\ status = "manual_review" /\ status' = "closed"
        /\ decision' = [action |-> "manual_review", approval |-> TRUE]
        /\ UNCHANGED <<user, info, ev, summary, ticket>>
    BY <1>4 DEF ManualReview
  <2>2. InfoInv' /\ EvidenceInv' /\ SummaryInv'
    BY <2>1 DEF InfoInv, Proceeds, EvidenceInv, SummaryInv
  <2>3. DecisionInv'
    BY <2>1 DEF DecisionInv, MoneyDrafts
  <2>4. ticket' = None
    BY <2>1 DEF TicketInv
  <2> QED BY <2>2, <2>3, <2>4, NoTicketYet
<1>5. CASE RecommendAction
  <2>1. /\ status = "rule_decision" /\ status' = "responding" /\ decision' = Decided
        /\ UNCHANGED <<user, info, ev, summary, ticket>>
    BY <1>5 DEF RecommendAction
  <2>2. InfoInv' /\ EvidenceInv' /\ SummaryInv'
    BY <2>1 DEF InfoInv, Proceeds, EvidenceInv, SummaryInv
  <2>3. Decided.action \in MoneyDrafts => ev.settlement = None
    BY <2>1, MoneyDecision DEF EvidenceInv
  <2>4. DecisionInv'
    BY <2>1, <2>3 DEF DecisionInv
  <2>5. ticket' = None
    BY <2>1 DEF TicketInv
  <2> QED BY <2>2, <2>4, <2>5, NoTicketYet
<1>6. CASE GenerateResponse
  <2>1. /\ status = "responding" /\ status' \in {"waiting_approval", "closed"}
        /\ ticket' = BuildResolutionTicket(Workflow, decision, ev, info.paid, summary)
        /\ UNCHANGED <<user, info, ev, summary, decision>>
    BY <1>6 DEF GenerateResponse
  <2>2. InfoInv' /\ EvidenceInv' /\ SummaryInv'
    BY <2>1 DEF InfoInv, Proceeds, EvidenceInv, SummaryInv
  <2>3. DecisionInv'
    BY <2>1 DEF DecisionInv
  <2>4. (Mismatched("transaction_amount"))' <=> Mismatched("transaction_amount")
    BY <2>1 DEF Mismatched
  <2>5. TicketInv'
    <3>1. /\ EvidenceFits(ev, info) /\ SummaryFits(summary, ev, info)
          /\ decision.action \in MoneyDrafts => ev.settlement = None
      BY <2>1 DEF EvidenceInv, SummaryInv, DecisionInv
    <3>2. TicketAmounts'
      BY <2>1, <3>1, BuiltTicket DEF TicketAmounts
    <3>3. (/\ ticket'.action \in MoneyDrafts
           /\ (ev.transaction = None \/ ev.transaction.amount # 0)
           /\ Mismatched("transaction_amount")) => ticket'.resolution # "actionable"
      BY <2>1, <3>1, BuiltTicket
    <3>4. MismatchEscalates'
      BY <2>1, <2>4, <3>3 DEF MismatchEscalates, MoneyDrafts
    <3> QED BY <2>1, <3>2, <3>4 DEF TicketInv
  <2> QED BY <2>2, <2>3, <2>5
<1>7. CASE DecideApproval
  <2>1. /\ status = "waiting_approval" /\ status' = "closed"
        /\ UNCHANGED <<user, info, ev, summary, decision, ticket>>
    BY <1>7 DEF DecideApproval
  <2>2. InfoInv' /\ EvidenceInv' /\ SummaryInv' /\ DecisionInv'
    BY <2>1 DEF InfoInv, Proceeds, EvidenceInv, SummaryInv, DecisionInv
  <2> QED BY <2>1, <2>2, TicketStays
<1>8. CASE UNCHANGED vars
  <2>1. UNCHANGED <<user, info, ev, summary, decision, ticket, status>>
    BY <1>8 DEF vars
  <2>2. InfoInv' /\ EvidenceInv' /\ SummaryInv' /\ DecisionInv'
    BY <2>1 DEF InfoInv, Proceeds, EvidenceInv, SummaryInv, DecisionInv
  <2>3. ticket # None => status' \in {"waiting_approval", "closed"}
    BY <2>1 DEF TicketInv
  <2> QED BY <2>1, <2>2, <2>3, TicketStays
<1> QED BY <1>1, <1>2, <1>3, <1>4, <1>5, <1>6, <1>7, <1>8 DEF Next

LEMMA Inductive == Spec => []IInv
BY InitInv, NextInv, PTL DEF Spec

-----------------------------------------------------------------------------
(* What follows *)

\* A case whose text the regexes read, and which was not given up, has what its
\* workflow looks up: a transaction, or somebody whose account is locked.
THEOREM RegexIntakeIsCompleteHolds == Spec => []RegexIntakeIsComplete
<1>1. ASSUME IInv PROVE RegexIntakeIsComplete
  <2>. SUFFICES ASSUME Proceeds, info.method = "regex"
                PROVE  /\ Workflow \in TransactionWorkflows => info.txn # None
                       /\ Workflow = "fraud_account_lock" => Subject # None
    BY DEF RegexIntakeIsComplete
  <2>1. IntakeFits(info, user)
    BY <1>1 DEF IInv, InfoInv
  <2>2. info.service = "account_security" => Workflow = "fraud_account_lock"
    <3>1. info.service = "account_security" => WorkflowOf(info.service) = "fraud_account_lock"
      BY ServicesAndWorkflows
    <3> QED BY <3>1, NoneAssumption DEF Workflow
  <2>3. info.service = "merchant_settlement" => Workflow = "merchant_settlement_delay"
    <3>1. info.service = "merchant_settlement" =>
            WorkflowOf(info.service) = "merchant_settlement_delay"
      BY ServicesAndWorkflows
    <3> QED BY <3>1, NoneAssumption DEF Workflow
  <2>4. Workflow = "fraud_account_lock" => info.service = "account_security"
    <3>1. WorkflowOf(info.service) = "fraud_account_lock" => info.service = "account_security"
      BY ServicesAndWorkflows
    <3>2. ev # None /\ ev.transaction # None =>
            WorkflowOf(ev.transaction.service) # "fraud_account_lock"
      BY <1>1, ServicesAndWorkflows DEF IInv, EvidenceInv, EvidenceFits, Proceeds
    <3> QED BY <3>1, <3>2, NoneAssumption DEF Workflow
  <2> QED BY <2>1, <2>2, <2>3, <2>4 DEF TransactionWorkflows, IntakeFits, Subject
<1> QED BY <1>1, Inductive, PTL

\* Every amount on a ticket is that of a record that was read, and the amount
\* the tool would be called with is the one the ticket shows.
THEOREM TicketAmountsHolds == Spec => []TicketAmounts
<1>1. IInv => TicketAmounts
  BY DEF IInv, TicketInv
<1> QED BY <1>1, Inductive, PTL

\* A customer the claim verifier found wrong about the amount does not get an
\* actionable transfer, although the ticket compares other fields than it did.
THEOREM MismatchEscalatesHolds == Spec => []MismatchEscalates
<1>1. IInv => MismatchEscalates
  BY DEF IInv, TicketInv
<1> QED BY <1>1, Inductive, PTL

-----------------------------------------------------------------------------
(* Types: every action the rules decide has an entry in the action map *)

LEMMA EveryActionIsMapped ==
  DOMAIN ActionMap =
    {"create_refund_request_draft", "create_force_success_draft",
     "create_reconciliation_ticket_draft", "create_unlock_account_draft",
     "draft_customer_response", "create_request_documents_response_draft", "manual_review",
     "create_manual_payout_draft", "send_unc_email_draft", "request_bank_account_correction",
     "manual_settlement_review", "request_identity_correction", "wait_sla", "no_action"}
BY DEF ActionMap

LEMMA WorkflowsAre ==
  Workflow \in {"train_ticket", "utility_bill", "wallet_topup", "fraud_account_lock",
                "merchant_settlement_delay", None}
<1>1. ASSUME NEW s
      PROVE  WorkflowOf(s) \in {"train_ticket", "utility_bill", "wallet_topup",
               "fraud_account_lock", "merchant_settlement_delay", None}
  <2>1. CASE s \in {"electric_bill", "water_bill"}
    <3>1. WorkflowOf(s) = "utility_bill"
      BY <2>1 DEF WorkflowOf
    <3> QED BY <3>1
  <2>2. CASE s \in {"train_ticket", "wallet_topup", "account_security", "merchant_settlement"}
    BY <2>2 DEF WorkflowOf
  <2>3. CASE s \notin {"train_ticket", "electric_bill", "water_bill", "wallet_topup",
                       "account_security", "merchant_settlement"}
    <3>1. WorkflowOf(s) = None
      BY <2>3 DEF WorkflowOf
    <3> QED BY <3>1
  <2> QED BY <2>1, <2>2, <2>3
<1> QED BY <1>1 DEF Workflow

LEMMA DecidedIsMapped ==
  ASSUME Workflow # None PROVE Decided.action \in DOMAIN ActionMap
<1>1. CASE Workflow = "fraud_account_lock"
  <2>1. Decided = Accounts!DecideAccountLock(ev.account, ev.fraud)
    BY <1>1 DEF Decided
  <2> QED BY <2>1, LockActions, EveryActionIsMapped
<1>2. CASE Workflow = "merchant_settlement_delay"
  <2>1. \E s : Decided = Accounts!DecideSettlement(s)
    BY <1>2 DEF Decided
  <2> QED BY <2>1, SettlementActions, EveryActionIsMapped
<1>3. CASE Workflow \in TransactionWorkflows
  <2>. DEFINE Engines == {Rules!ManualReview, Rules!Respond, Rules!Reconcile, Rules!WaitSla,
                          Rules!NoAction, Rules!Refund, Rules!ForceSuccess}
  <2>1. Decided = Rules!ApplyRules(Workflow, ev, FALSE)
    BY <1>3 DEF Decided, TransactionWorkflows
  <2>2. /\ Rules!DecideTrainTicket(ev, FALSE) \in Engines
        /\ Rules!DecideUtilityBill(ev, FALSE) \in Engines
        /\ Rules!DecideWalletTopup(ev, FALSE) \in Engines
    BY DEF Rules!DecideTrainTicket, Rules!DecideUtilityBill, Rules!DecideWalletTopup
  <2>. HIDE DEF Engines
  <2>3. Decided \in Engines
    BY <1>3, <2>1, <2>2 DEF Rules!ApplyRules, TransactionWorkflows
  <2>4. \A d \in Engines : d.action \in
          {"manual_review", "draft_customer_response", "create_reconciliation_ticket_draft",
           "wait_sla", "no_action", "create_refund_request_draft", "create_force_success_draft"}
    BY DEF Engines, Rules!ManualReview, Rules!Respond, Rules!Reconcile, Rules!WaitSla,
           Rules!NoAction, Rules!Refund, Rules!ForceSuccess, Rules!Decision
  <2> QED BY <2>3, <2>4, EveryActionIsMapped
<1> QED BY <1>1, <1>2, <1>3, WorkflowsAre DEF TransactionWorkflows

LEMMA ExtractedUser ==
  ASSUME NEW m \in Complaints, NEW u \in OrNone(Users), NEW mock, NEW i \in Extractions(m, u, mock)
  PROVE  CaseUser(i, u) \in OrNone(Users)
<1>1. m.user \in OrNone(Users)
  BY ComplaintsAssumption DEF OrNone
<1>2. CASE i = MockExtract(m, u)
  <2>1. i.user = IF u # None THEN u ELSE m.user
    BY <1>2, Zenon DEF MockExtract
  <2> QED BY <1>1, <2>1 DEF CaseUser
<1>3. ASSUME NEW r \in LLMReadings(m), i = Sanitized(r, u)
      PROVE  CaseUser(i, u) \in OrNone(Users)
  <2>. DEFINE s == [r EXCEPT !.user = IF @ = None THEN u ELSE @]
  <2>1. /\ r.user = m.user
        /\ DOMAIN r = {"method", "txn", "user", "service", "issue", "phone", "merchant",
                       "paid", "missing", "claims"}
    BY <1>3 DEF LLMReadings
  <2>2. s.user \in OrNone(Users) /\ DOMAIN s = DOMAIN r
    BY <1>1, <2>1
  <2>3. i = [s EXCEPT !.missing = IF @ = {} THEN LLMMissing(s) ELSE @]
    BY <1>3 DEF Sanitized
  <2>. HIDE DEF s
  <2>4. i.user = s.user
    BY <2>1, <2>2, <2>3
  <2> QED BY <2>2, <2>4 DEF CaseUser
<1> QED BY <1>2, <1>3 DEF Extractions

\* The rules are asked about a case that has a workflow.
TypeInv == TypeOK /\ (status = "rule_decision" => Workflow # None)

LEMMA NextType == TypeInv /\ [Next]_vars => TypeInv'
<1>. SUFFICES ASSUME TypeInv, [Next]_vars PROVE TypeInv'
  OBVIOUS
<1>. USE DEF TypeInv, TypeOK
<1>1. CASE ExtractInfo
  <2>1. PICK i \in Extractions(complaint, caseUser, MockLLM) :
          /\ info' = i /\ user' = CaseUser(i, caseUser)
          /\ status' = IF DeadLettered(i) THEN "dead_letter" ELSE "fetching_evidence"
    BY <1>1 DEF ExtractInfo
  <2>2. user' \in OrNone(Users)
    BY <2>1, ExtractedUser
  <2> QED BY <1>1, <2>1, <2>2 DEF ExtractInfo
<1>2. CASE FetchEvidence
  BY <1>2 DEF FetchEvidence
<1>3. CASE DetectConflict
  <2>1. /\ status' = IF Rules!HasConflict(ev, user) \/ Workflow = None
                     THEN "manual_review" ELSE "rule_decision"
        /\ UNCHANGED <<complaint, caseUser, user, info, ev, decision, approval>>
    BY <1>3 DEF DetectConflict
  <2>2. Workflow' = Workflow
    BY <2>1 DEF Workflow
  <2>3. status' = "rule_decision" => Workflow' # None
    BY <2>1, <2>2
  <2>4. status' \in {"manual_review", "rule_decision"}
    BY <2>1
  <2> QED BY <2>1, <2>3, <2>4
<1>4. CASE ManualReview
  <2>1. decision'.action \in DOMAIN ActionMap
    BY <1>4, EveryActionIsMapped DEF ManualReview
  <2> QED BY <1>4, <2>1 DEF ManualReview
<1>5. CASE RecommendAction
  <2>1. decision'.action \in DOMAIN ActionMap
    BY <1>5, DecidedIsMapped DEF RecommendAction
  <2> QED BY <1>5, <2>1 DEF RecommendAction
<1>6. CASE GenerateResponse
  BY <1>6 DEF GenerateResponse
<1>7. CASE DecideApproval
  BY <1>7 DEF DecideApproval
<1>8. CASE UNCHANGED vars
  <2>1. Workflow' = Workflow
    BY <1>8 DEF vars, Workflow
  <2> QED BY <1>8, <2>1 DEF vars
<1> QED BY <1>1, <1>2, <1>3, <1>4, <1>5, <1>6, <1>7, <1>8 DEF Next

\* The values stay in their sets; and whatever the rules decide, the ticket
\* builder finds the action in its map.
THEOREM TypeCorrect == Spec => []TypeOK
<1>1. Init => TypeInv
  BY DEF Init, TypeInv, TypeOK, OrNone
<1>2. TypeInv => TypeOK
  BY DEF TypeInv
<1> QED BY <1>1, <1>2, NextType, PTL DEF Spec
=============================================================================
