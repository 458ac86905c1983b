----------------------------- MODULE AccountTables -----------------------------
(***************************************************************************)
(* The decision engines of AccountRules against what their modules promise,*)
(* on every combination of the values they tell apart.  A state is one     *)
(* bundle of evidence; nothing moves.                                      *)
(***************************************************************************)
EXTENDS AccountRules

CONSTANTS
  Scores,   \* the risk scores a fraud record may hold, at both thresholds
  Nets      \* the net amounts of a ledger and the amounts of a payout

ASSUME ScoresAssumption == Scores \subseteq Int /\ None \notin Scores
ASSUME NetsAssumption == Nets \subseteq Int

VARIABLES
  lock,      \* [account, fraud]
  late       \* [profile, bank, ledger, payout, batch, receipt]

vars == <<lock, late>>

NoLock == [account |-> None, fraud |-> None]
NoSettlement ==
  [profile |-> None, bank |-> None, ledger |-> None, payout |-> None, batch |-> None,
   receipt |-> None]

FraudCases == [user : {"u"}, score : Maybe(Scores), signals : SUBSET Signals]
LockBundles ==
  [account : Maybe([user : {"u"}, status : Maybe({"locked", "active"})]),
   fraud : Maybe(FraudCases)]

Merchant == [merchant |-> "m", on_hold |-> FALSE]
GoodBank == [verification |-> "verified", active |-> TRUE, failure |-> FALSE]
\* A record is never taken for one that is missing.
ASSUME NoneAssumption == None \notin FraudCases /\ None \notin {Merchant, GoodBank}

Owed(net) == [day |-> 1, due |-> "past", net |-> net]
Payouts ==
  [merchant : {"m"}, day : {1}, status : Maybe(PayoutStatus), amount : Maybe(Nets),
   retriable : BOOLEAN]

\* Every payout, batch and receipt for a merchant whose account is fine, and
\* every merchant, account and ledger for a settlement nobody has paid.
PayoutBundles ==
  [profile : {Merchant}, bank : {GoodBank}, ledger : {Owed(n) : n \in Maybe(Nets)},
   payout : Maybe(Payouts), batch : Maybe(Batches), receipt : Maybe(Receipts)]
AccountBundles ==
  [profile : Maybe([merchant : {"m"}, on_hold : BOOLEAN]), bank : Maybe(BankAccounts),
   ledger : Maybe([day : {1}, due : Maybe({"past", "future"}), net : Maybe(Nets)]),
   payout : {None}, batch : {None}, receipt : {None}]

Init ==
  \/ lock \in LockBundles /\ late = NoSettlement
  \/ lock = NoLock /\ late \in PayoutBundles \cup AccountBundles

Next == UNCHANGED vars

Spec == Init /\ [][Next]_vars

-----------------------------------------------------------------------------
(* Locked accounts *)

LockAction(l) == DecideAccountLock(l.account, l.fraud).action

\* What is done to the account, from giving it back to keeping it locked.
Severity(action) ==
  CASE action = "create_unlock_account_draft"                -> 0
    [] action = "manual_review"                              -> 1
    [] action = "create_request_documents_response_draft"    -> 2
    [] OTHER                                                 -> 3

Suspicious(fraud, more, score) ==
  [fraud EXCEPT !.signals = @ \cup more, !.score = score]

\* More suspicion is never milder: another signal or a higher score does not
\* turn a review into an unlock or a request for documents into either.
SuspicionNeverHelps ==
  lock.account # None /\ lock.fraud # None =>
    \A s \in Signals, score \in Scores :
      RiskScore(lock.fraud) <= score =>
        Severity(LockAction(lock)) <=
          Severity(LockAction([lock EXCEPT !.fraud = Suspicious(lock.fraud, {s}, score)]))

\* The matrix of the module: missing evidence goes to a person.
MissingScoreIsReviewed ==
  (/\ lock.account # None /\ lock.fraud # None
   /\ lock.fraud.score = None) => LockAction(lock) # "create_unlock_account_draft"

-----------------------------------------------------------------------------
(* Late settlements *)

SettlementAction == DecideSettlement(late).action
Pays == SettlementAction = "create_manual_payout_draft"

\* Money goes out once: not when a payout is under way or done, nor while the
\* bank still works on a transfer, whatever the payout's own status says.
PaysOnce ==
  Pays => /\ late.payout # None => late.payout.status \notin {"processing", "success"}
          /\ (late.payout # None /\ late.receipt # None) => late.receipt.bank # "processing"

\* A payout is drafted for something the ledger owes, because a payout failed
\* for a passing reason or the batch never made one.
PaysForAReason ==
  Pays => /\ late.ledger.net # None /\ late.ledger.net > 0 /\ late.ledger.due # "future"
          /\ \/ late.payout # None /\ late.payout.status = "failed" /\ late.payout.retriable
             \/ BatchFailed(late.batch)

\* A payout counted as paid whose amount is positive and below the net amount of
\* the ledger reaches a person once the bank is done with it, even when the
\* merchant was sent the receipt.  Nothing is said of one that paid too much, or
\* whose amount is missing or zero: the engine takes these as paid.
ShortPayoutIsReviewed ==
  (/\ late.payout # None /\ late.payout.status = "success"
   /\ late.receipt # None => late.receipt.bank # "processing"
   /\ late.payout.amount # None /\ late.ledger # None /\ late.ledger.net # None
   /\ 0 < late.payout.amount /\ late.payout.amount < late.ledger.net) =>
     SettlementAction = "manual_settlement_review"

\* "Never payout if bank account is invalid, inactive, or not verified."
PaysVerifiedOnly == Pays => late.bank.verification = "verified"
=============================================================================
