---------------------------- MODULE ComplaintIntake ----------------------------
(***************************************************************************)
(* How a complaint becomes the ExtractedInfo a case starts with: the regex *)
(* extractor (llm/mock_extractor.py), the extraction by the language model *)
(* (llm/extractor.py), the extract_info node and missing_info_handler.     *)
(*                                                                         *)
(* A complaint is what its text mentions:                                  *)
(*   txn      a transaction id, named for its prefix, or None              *)
(*   user     a user id, or None                                           *)
(*   phone    the owner of the phone number in the text, or None           *)
(*   merchant whether it names a merchant id or a tax code                 *)
(*   topics   the routing keywords found in it                             *)
(*   paid, balance   the number after a paying verb / after "wallet shows" *)
(*   payment, delivery, account, refund   the status phrases found         *)
(*   withdraw, opinion  "cannot withdraw" / "for no reason"                *)
(* E-mails and wallet ids, other ways to name an account, are left out.    *)
(***************************************************************************)
EXTENDS SequencesExt

CONSTANT None

ASSUME NoneAssumption ==
  None \notin {"train_ticket", "electric_bill", "water_bill", "wallet_topup",
               "account_security", "merchant_settlement",
               "utility_bill", "fraud_account_lock", "merchant_settlement_delay"}

Optional(v) == IF v = None THEN {} ELSE {v}

\* The first element of order that is in S.
FirstOf(order, S) ==
  LET i == SelectInSeq(order, LAMBDA x : x \in S)
  IN IF i = 0 THEN None ELSE order[i]

-----------------------------------------------------------------------------
(* mock_extractor.py: the typed claims *)

Claim(type, value) == [type |-> type, value |-> value]

ClaimIf(type, value) == IF value = None THEN {} ELSE {Claim(type, value)}

PaymentPhrases ==
  <<"bank_deducted", "payment_completed", "money_deducted", "money_not_received">>
DeliveryPhrases == <<"ticket_not_received", "bill_not_confirmed">>
AccountPhrases == <<"account_locked", "withdrawal_blocked">>
RefundPhrases == <<"refund_not_received", "refund_requested">>

\* At most one claim of a type; of several phrases the first pattern counts.
ExtractClaims(m) ==
  UNION {ClaimIf("transaction_id", m.txn),
         ClaimIf("wallet_balance", m.balance),
         ClaimIf("transaction_amount", m.paid),
         ClaimIf("payment_status", FirstOf(PaymentPhrases, m.payment)),
         ClaimIf("service_delivery", FirstOf(DeliveryPhrases, m.delivery)),
         ClaimIf("account_status", FirstOf(AccountPhrases, m.account)),
         ClaimIf("refund_status", FirstOf(RefundPhrases, m.refund))}

-----------------------------------------------------------------------------
(* mock_extractor.py: the flat fields *)

ServiceOfId(txn) ==
  CASE txn = "TXN_TRAIN" -> "train_ticket"
    [] txn = "TXN_BILL" -> "electric_bill"
    [] txn = "TXN_TOPUP" -> "wallet_topup"
    [] OTHER -> None

\* "dien thoai" (phone) contains "dien" (electricity), and merchants write
\* of banks too: the order of the services matters.
ServiceOrder ==
  <<"merchant_settlement", "train_ticket", "account_security", "electric_bill",
    "water_bill", "wallet_topup">>

ServiceOf(m) ==
  IF ServiceOfId(m.txn) # None THEN ServiceOfId(m.txn)
  ELSE FirstOf(ServiceOrder, m.topics)

MissingIf(field, condition) == IF condition THEN {field} ELSE {}

\* Faulty variant: an account complaint needs no identity.
MissingWithoutIdentity(service, txn, user, hint, merchant) ==
  MissingIf("transaction_id",
    txn = None /\ service \notin {"account_security", "merchant_settlement"})
  \cup MissingIf("merchant_id", service = "merchant_settlement" /\ ~merchant /\ ~hint)
  \cup MissingIf("service_type", service = None)

\* A merchant is identified by its own id, tax code, phone or e-mail; anyone
\* else by a user id or a hint that can be resolved to one.
MissingFields(service, txn, user, hint, merchant) ==
  MissingIf("transaction_id",
    txn = None /\ service \notin {"account_security", "merchant_settlement"})
  \cup MissingIf("merchant_id", service = "merchant_settlement" /\ ~merchant /\ ~hint)
  \cup MissingIf("user_id", service # "merchant_settlement" /\ user = None /\ ~hint)
  \cup MissingIf("service_type", service = None)

\* The user the case was opened for comes before one named in the text.
MockExtract(m, caseUser) ==
  LET user == IF caseUser # None THEN caseUser ELSE m.user
      service == ServiceOf(m)
  IN [method |-> "regex", txn |-> m.txn, user |-> user, service |-> service,
      issue |-> IF service = "account_security" THEN "account_locked" ELSE None,
      phone |-> m.phone, merchant |-> m.merchant, paid |-> m.paid,
      missing |-> MissingFields(service, m.txn, user, m.phone # None, m.merchant),
      claims |-> ExtractClaims(m)]

-----------------------------------------------------------------------------
(* prompts.py, openai_client.py, extractor.py *)

\* The services the prompt offers the model; it may answer "unknown".
PromptServices == {"train_ticket", "electric_bill", "water_bill"}

LLMService(m) ==
  IF ServiceOf(m) \in PromptServices THEN ServiceOf(m) ELSE "unknown"

\* The model reads what the text says, lists any of the optional fields as
\* missing or none, and is asked for no phone, merchant or claims.
LLMReadings(m) ==
  {[method |-> "llm", txn |-> m.txn, user |-> m.user, service |-> LLMService(m),
    issue |-> None, phone |-> None, merchant |-> FALSE, paid |-> m.paid,
    missing |-> listed, claims |-> {}] : listed \in {{}, {"order_id"}}}

\* The three fields of every transaction complaint, whatever the service.
LLMMissing(info) ==
  MissingIf("transaction_id", info.txn = None)
  \cup MissingIf("user_id", info.user = None)
  \cup MissingIf("service_type", info.service = None)

\* The user of the case only fills a gap the model left, and a list of
\* missing fields the model gave is kept as it is.
Sanitized(reading, caseUser) ==
  LET info == [reading EXCEPT !.user = IF @ = None THEN caseUser ELSE @]
  IN [info EXCEPT !.missing = IF @ = {} THEN LLMMissing(info) ELSE @]

\* With MOCK_LLM, and whenever the call of the model fails, the regexes.
Extractions(m, caseUser, mockLLM) ==
  {MockExtract(m, caseUser)} \cup
  IF mockLLM THEN {} ELSE {Sanitized(r, caseUser) : r \in LLMReadings(m)}

-----------------------------------------------------------------------------
(* nodes/extract_info.py and nodes/missing_info.py *)

WorkflowOf(service) ==
  CASE service = "train_ticket" -> "train_ticket"
    [] service \in {"electric_bill", "water_bill"} -> "utility_bill"
    [] service = "wallet_topup" -> "wallet_topup"
    [] service = "account_security" -> "fraud_account_lock"
    [] service = "merchant_settlement" -> "merchant_settlement_delay"
    [] OTHER -> None

\* The extractor's list, or else the node's own.
MissingInfo(info) ==
  IF info.missing # {} THEN info.missing
  ELSE MissingFields(info.service, info.txn, info.user, info.phone # None, info.merchant)

CaseUser(info, caseUser) == IF info.user # None THEN info.user ELSE caseUser

\* after_extract_info and missing_info_handler: what is missing ends the
\* case only when it is the transaction, or the identity of a locked account.
DeadLettered(info) ==
  LET fraud == WorkflowOf(info.service) = "fraud_account_lock"
  IN \/ "transaction_id" \in MissingInfo(info) /\ ~fraud
     \/ "user_id" \in MissingInfo(info) /\ fraud
=============================================================================
