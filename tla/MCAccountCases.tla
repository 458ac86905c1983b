---------------------------- MODULE MCAccountCases ----------------------------
(***************************************************************************)
(* Small account and settlement systems.                                   *)
(***************************************************************************)
EXTENDS AccountCases, TLC

Alice == "alice"
Bob == "bob"
TwoUsers == {Alice, Bob}
NoUsers == {}

Locked == [u \in TwoUsers |-> [user |-> u, status |-> "locked"]]
NoAccounts == <<>>

\* Alice's lock looks like a mistake, Bob's does not.
Scores ==
  (Alice :> [user |-> Alice, score |-> 10, signals |-> {"new_devices"}]) @@
  (Bob :> [user |-> Bob, score |-> 40, signals |-> {"blacklist"}])

LockComplaint(user, hints) ==
  [workflow |-> "fraud_account_lock", user |-> user, hints |-> hints]

LockComplaints ==
  {LockComplaint(Alice, <<Bob>>), LockComplaint(None, <<Alice, Bob>>),
   LockComplaint(None, <<None, Bob>>), LockComplaint(None, <<>>)}

AliceComplains == {LockComplaint(Alice, <<>>)}

Shop == "shop"
Cafe == "cafe"
OneMerchant == {Shop}
TwoMerchants == {Shop, Cafe}
TwoDays == {1, 2}

Open == [m \in TwoMerchants |-> [merchant |-> m, on_hold |-> FALSE]]
Usable == [verification |-> "verified", active |-> TRUE, failure |-> FALSE]
Verified == [m \in TwoMerchants |-> Usable]

\* Days that pay differently, so that a record of the wrong day shows.
Nets == (Shop :> <<300, 200>>) @@ (Cafe :> <<500, 100>>)

LateComplaint(m, contact, day, payout, batch) ==
  [workflow |-> "merchant_settlement_delay", merchant |-> m, contact |-> contact,
   day |-> day, payout |-> payout, batch |-> batch]

\* About the latest day, by nobody known, and by contact about a day but with
\* the batch of another.
LateComplaints ==
  {LateComplaint(Shop, None, None, None, None), LateComplaint(None, None, None, None, None),
   LateComplaint(None, Shop, 1, None, 2)}

AnyComplaints == LockComplaints \cup LateComplaints

AboutToday == {LateComplaint(Shop, None, None, None, None)}
AboutOther == {LateComplaint(Shop, None, 1, <<Cafe, 1>>, None)}
=============================================================================
