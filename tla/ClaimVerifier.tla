----------------------------- MODULE ClaimVerifier -----------------------------
(***************************************************************************)
(* rules/claim_verifier.py: what the customer says, compared with what the *)
(* systems say.  A claim is [type, value], see ComplaintIntake; a verified *)
(* claim also has a status and the trusted value it was compared with.     *)
(* The evidence is the bundle of CaseRules with the amounts and the        *)
(* records of the other workflows added:                                   *)
(*   transaction [id, user, status, amount]                                *)
(*   ledger      [has_user_debit, has_credit_refund, debit, net]           *)
(*   recon       [bank, money, amount]                                     *)
(*   account     [user, status, withdrawal]                                *)
(* each None when it was not read.  Explanations are left out.             *)
(***************************************************************************)
EXTENDS ComplaintIntake

-----------------------------------------------------------------------------
(* The amounts the systems know, in the order they are trusted.  An amount *)
(* of zero is no amount.                                                   *)

Known(source, amount) ==
  IF amount \in {None, 0} THEN <<>> ELSE <<[source |-> source, amount |-> amount]>>

KnownAmounts(ev) ==
  (IF ev.ledger = None THEN <<>> ELSE Known("ledger", ev.ledger.debit))
  \o (IF ev.transaction = None THEN <<>> ELSE Known("transaction", ev.transaction.amount))
  \o (IF ev.recon = None THEN <<>> ELSE Known("recon", ev.recon.amount))

TrustedAmount(ev) ==
  IF KnownAmounts(ev) = <<>> THEN None ELSE Head(KnownAmounts(ev)).amount

AmountsAgree(ev) ==
  LET known == KnownAmounts(ev)
  IN \A i, j \in DOMAIN known : known[i].amount = known[j].amount

-----------------------------------------------------------------------------
(* One verifier per type of claim *)

Verdict(status, trusted) == [status |-> status, trusted |-> trusted]

NotVerifiable == Verdict("not_verifiable", None)

Compared(claimed, trusted) ==
  Verdict(IF claimed = trusted THEN "matched" ELSE "mismatched", trusted)

VerifyTransactionId(c, ev) ==
  IF ev.transaction = None THEN Verdict("not_found", None)
  ELSE Compared(c.value, ev.transaction.id)

VerifyAmount(c, ev) ==
  IF TrustedAmount(ev) = None THEN NotVerifiable
  ELSE Compared(c.value, TrustedAmount(ev))

\* Without a ledger a pending transaction confirms any balance.
VerifyBalance(c, ev) ==
  IF ev.ledger # None THEN Compared(c.value, ev.ledger.net)
  ELSE IF ev.transaction # None /\ ev.transaction.status = "pending"
  THEN Verdict("matched", "wallet_not_credited")
  ELSE NotVerifiable

\* The next five find the record and report it as a match, whatever the
\* customer said about it.
VerifyPayment(c, ev) ==
  IF ev.ledger # None THEN Verdict("matched", ev.ledger.has_user_debit)
  ELSE IF ev.transaction # None THEN Verdict("matched", ev.transaction.status)
  ELSE NotVerifiable

VerifyDelivery(c, ev) ==
  IF ev.train # None THEN Verdict("matched", ev.train.status)
  ELSE IF ev.utility # None THEN Verdict("matched", ev.utility)
  ELSE NotVerifiable

VerifyBank(c, ev) ==
  IF ev.recon = None THEN NotVerifiable ELSE Verdict("matched", ev.recon.bank)

VerifyRefund(c, ev) ==
  IF ev.refund = None THEN NotVerifiable ELSE Verdict("matched", ev.refund)

VerifyAccount(c, ev) ==
  IF ev.account = None THEN NotVerifiable ELSE Verdict("matched", ev.account.status)

\* The value of an identity claim is a phone number, named by its owner, and
\* raw_text is that same number: it equals itself for any account that was
\* read.
VerifyIdentity(c, ev) ==
  IF ev.account # None THEN Verdict("matched", ev.account.user)
  ELSE IF ev.transaction # None THEN Verdict("mismatched", ev.transaction.user)
  ELSE Verdict("not_found", None)

\* The only value a claim of this type gets is "blocked".
VerifyWithdrawal(c, ev) ==
  IF ev.account = None \/ ev.account.withdrawal = None THEN NotVerifiable
  ELSE Compared(c.value, IF ev.account.withdrawal THEN "allowed" ELSE "blocked")

\* The registry: an opinion, and any type without a verifier, cannot be checked.
Verify(c, ev) ==
  CASE c.type = "transaction_id" -> VerifyTransactionId(c, ev)
    [] c.type = "transaction_amount" -> VerifyAmount(c, ev)
    [] c.type = "wallet_balance" -> VerifyBalance(c, ev)
    [] c.type = "payment_status" -> VerifyPayment(c, ev)
    [] c.type \in {"service_delivery", "provider_status"} -> VerifyDelivery(c, ev)
    [] c.type = "bank_status" -> VerifyBank(c, ev)
    [] c.type = "refund_status" -> VerifyRefund(c, ev)
    [] c.type = "account_status" -> VerifyAccount(c, ev)
    [] c.type = "user_identity" -> VerifyIdentity(c, ev)
    [] c.type = "withdrawal_status" -> VerifyWithdrawal(c, ev)
    [] OTHER -> NotVerifiable

-----------------------------------------------------------------------------
(* _claims_from_extracted_info: the extractor's claims, or, when it found  *)
(* none, claims made of the flat fields and the complaint m.               *)

AccountClaims(info, m) ==
  UNION {IF info.issue = "account_locked" THEN {Claim("account_status", "locked")} ELSE {},
         IF m.withdraw THEN {Claim("withdrawal_status", "blocked")} ELSE {},
         IF m.opinion THEN {Claim("customer_opinion", "for no reason")} ELSE {},
         ClaimIf("user_identity", info.phone)}

ClaimsFromInfo(info, m) ==
  IF info.claims # {} THEN info.claims
  ELSE UNION {ClaimIf("transaction_id", info.txn),
              ClaimIf("transaction_amount", info.paid),
              ClaimIf("service_delivery", info.service),
              IF info.service = "account_security" THEN AccountClaims(info, m) ELSE {}}

\* The transaction amount nobody claimed is reported as the system's.
SystemOnly(claims, ev) ==
  IF \/ \E c \in claims : c.type = "transaction_amount"
     \/ TrustedAmount(ev) = None
  THEN {}
  ELSE {[type |-> "transaction_amount", value |-> None, status |-> "system_only",
         trusted |-> TrustedAmount(ev)]}

\* _build_trusted_data_for_action: the account's user replaces the transaction's.
TrustedUser(ev) ==
  IF ev.account # None THEN ev.account.user
  ELSE IF ev.transaction # None THEN ev.transaction.user ELSE None

VerifyAllClaims(claims, ev) ==
  LET verified ==
        {[type |-> c.type, value |-> c.value, status |-> Verify(c, ev).status,
          trusted |-> Verify(c, ev).trusted] : c \in claims} \cup SystemOnly(claims, ev)
  IN [claims |-> verified,
      customer_mismatch |-> \E c \in verified : c.status = "mismatched",
      system_conflict |-> ~AmountsAgree(ev),
      action_amount |-> TrustedAmount(ev),
      action_user |-> TrustedUser(ev)]
=============================================================================
