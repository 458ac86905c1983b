------------------------- MODULE CaseResolver_proofs -------------------------
(***************************************************************************)
(* Proofs about CaseResolver, for every set of accounts, of readings and   *)
(* of faults.  The records do not change between the resolution and its    *)
(* verification, so most of the work is to say what the resolvers can give *)
(* when the lookups f fail (Honest); the invariant is that the resolution  *)
(* is such a result, and so is the one the verifier makes by itself.       *)
(***************************************************************************)
EXTENDS CaseResolver, TLAPS, FiniteSetTheorems

LEMMA OneIsSome ==
  ASSUME NEW S, Cardinality(S) = 1 PROVE S # {}
BY FS_EmptySet

LEMMA OneIsTheOnly ==
  ASSUME NEW S, IsFiniteSet(S), Cardinality(S) = 1, NEW x \in S
  PROVE  S = {x}
<1>1. IsFiniteSet(S \ {x}) /\ Cardinality(S \ {x}) = 0
  BY FS_RemoveElement
<1>2. S \ {x} = {}
  BY <1>1, FS_EmptySet
<1> QED BY <1>2

-----------------------------------------------------------------------------
(* Results *)

LEMMA OutcomeFields ==
  ASSUME NEW status, NEW type
  PROVE  /\ Outcome(status, type).status = status /\ Outcome(status, type).type = type
BY DEF Outcome

LEMMA ResolvedTxnFields ==
  ASSUME NEW t
  PROVE  /\ ResolvedTxn(t).status = "resolved" /\ ResolvedTxn(t).type = "transaction"
         /\ ResolvedTxn(t).entity = t.id /\ ResolvedTxn(t).amount = t.amount
         /\ ResolvedTxn(t).found = t.status
BY DEF ResolvedTxn, Outcome

LEMMA MismatchFields ==
  ASSUME NEW t
  PROVE  /\ Mismatch(t).status = "amount_mismatch" /\ Mismatch(t).type = "transaction"
         /\ Mismatch(t).entity = t.id /\ Mismatch(t).amount = t.amount
         /\ Mismatch(t).found = t.status /\ Mismatch(t).claimed = reading.amount
<1>. DEFINE r == ResolvedTxn(t)
<1>1. Mismatch(t) = [r EXCEPT !.status = "amount_mismatch", !.claimed = reading.amount]
  BY DEF Mismatch
<1>2. DOMAIN r = {"status", "type", "entity", "amount", "claimed", "found", "scanned",
                  "issue", "locked"}
  BY DEF ResolvedTxn, Outcome
<1>. HIDE DEF r
<1>3. \A f \in {"type", "entity", "amount", "found"} : Mismatch(t)[f] = r[f]
  BY <1>1, <1>2
<1>4. Mismatch(t).status = "amount_mismatch" /\ Mismatch(t).claimed = reading.amount
  BY <1>1, <1>2
<1> QED BY <1>3, <1>4, ResolvedTxnFields DEF r

\* Result r tells of transaction t.
Tells(r, t) ==
  r.type = "transaction" /\ r.entity = t.id /\ r.amount = t.amount /\ r.found = t.status

Silent == {"invalid_session", "need_more_info", "no_match", "multiple_candidates",
           "evidence_error"}

\* Result r tells of no record.
Mute(r) == r.status \in Silent /\ r.amount = None

LEMMA SilentOutcomes ==
  ASSUME NEW r \in {InvalidSession, NeedMoreInfo, NoMatch, Several, EvidenceError}
  PROVE  Mute(r)
BY DEF InvalidSession, NeedMoreInfo, NoMatch, Several, EvidenceError, Outcome, Silent, Mute

-----------------------------------------------------------------------------
(* The records *)

Given ==
  /\ reading \in ReadingType
  /\ account \subseteq Transactions /\ IsFiniteSet(account)
  /\ \A t, u \in account : t.id = u.id => t = u
  /\ claim \in {0, reading.amount}
  /\ session = None \/ session.subject \in {"wallet_user", "merchant"}

LEMMA ProblematicIsMine ==
  ASSUME Given, NEW hint
  PROVE  /\ Problematic(hint) \subseteq Mine /\ Mine \subseteq account
         /\ IsFiniteSet(Problematic(hint))
<1>1. Problematic(hint) \subseteq Mine /\ Mine \subseteq account
  BY DEF Problematic, Mine
<1> QED BY <1>1, FS_Subset DEF Given

LEMMA SearchIsMine == \A f : Search(f) \subseteq Mine
BY DEF Search, Direct, Matches, Mine

\* An exact amount is found: it scores three by itself.
LEMMA ExactIsFound ==
  ASSUME Given, reading.amount # 0, NEW f, Search(f) = {}, "list" \notin f
  PROVE  \A t \in Mine : t.amount # reading.amount
<1>. SUFFICES ASSUME NEW t \in Mine, t.amount = reading.amount PROVE FALSE
  OBVIOUS
<1>1. Score(t) \in {3, 4}
  BY DEF Score
<1>2. t \in Matches
  BY <1>1 DEF Matches
<1>3. Search(f) = Matches
  BY DEF Search
<1> QED BY <1>2, <1>3

-----------------------------------------------------------------------------
(* What the resolvers give *)

LEMMA ScanGives ==
  ASSUME Given, NEW hint, NEW f
  PROVE  \/ Mute(Scan(hint, f))
         \/ /\ Scan(hint, f).status = "resolved"
            /\ \E t \in Mine : Tells(Scan(hint, f), t)
<1>. DEFINE found == Problematic(hint)
            t == CHOOSE t \in found : TRUE
            base == IF Cardinality(found) = 1 THEN ResolvedTxn(t)
                    ELSE IF found # {} THEN Several
                    ELSE IF hint = "unknown" THEN NeedMoreInfo
                    ELSE NoMatch
            full == [base EXCEPT !.scanned = TRUE, !.issue = found # {}]
            err == [EvidenceError EXCEPT !.scanned = TRUE]
<1>1. Scan(hint, f) = IF "scan" \in f THEN err ELSE full
  BY DEF Scan
<1>2. Mute(err)
  BY DEF EvidenceError, Outcome, Silent, Mute
<1>3. full.status = base.status /\ full.type = base.type /\ full.entity = base.entity
      /\ full.amount = base.amount /\ full.found = base.found
  <2>1. DOMAIN base = {"status", "type", "entity", "amount", "claimed", "found", "scanned",
                       "issue", "locked"}
    BY DEF ResolvedTxn, Several, NeedMoreInfo, NoMatch, Outcome
  <2>. HIDE DEF base, found
  <2> QED BY <2>1
<1>4. CASE Cardinality(found) = 1
  <2>1. t \in Mine
    BY <1>4, OneIsSome, ProblematicIsMine
  <2>2. base = ResolvedTxn(t)
    BY <1>4
  <2>. HIDE DEF base, full, err, t
  <2> QED BY <1>1, <1>2, <1>3, <2>1, <2>2, ResolvedTxnFields DEF Tells
<1>5. CASE Cardinality(found) # 1
  <2>1. Mute(base)
    BY <1>5, SilentOutcomes
  <2>. HIDE DEF base, full, err
  <2> QED BY <1>1, <1>2, <1>3, <2>1 DEF Mute
<1> QED BY <1>4, <1>5

\* Transaction t is the only one that needs attention, has not the claimed
\* amount, and neither has any other that the search by criteria could read.
Mistaken(t, f) ==
  /\ Problematic(reading.hint) = {t}
  /\ t.amount # reading.amount
  /\ "list" \notin f => \A u \in Mine : u.amount # reading.amount

LEMMA FallbackGives ==
  ASSUME Given, NEW f, Search(f) = {}
  PROVE  \/ Fallback(f) = NoMatch
         \/ \E t \in Mine : Fallback(f) = Mismatch(t) /\ Mistaken(t, f)
<1>. DEFINE found == Problematic(reading.hint)
            t == CHOOSE t \in found : TRUE
            disputed == /\ ~GaveId /\ reading.amount # 0
                        /\ "scan" \notin f
                        /\ Cardinality(found) = 1
                        /\ \A x \in found : x.amount # reading.amount
<1>1. CASE disputed
  <2>1. Fallback(f) = Mismatch(t)
    BY <1>1 DEF Fallback
  <2>2. t \in found
    BY <1>1, OneIsSome
  <2>3. found = {t} /\ t \in Mine
    BY <1>1, <2>2, OneIsTheOnly, ProblematicIsMine
  <2>4. Mistaken(t, f)
    BY <1>1, <2>2, <2>3, ExactIsFound DEF Mistaken
  <2> QED BY <2>1, <2>3, <2>4
<1>2. CASE ~disputed
  BY <1>2 DEF Fallback
<1> QED BY <1>1, <1>2

\* A result about a transaction tells of one of the user's own; a mismatch, of
\* the only one that needs attention.
Honest(r, f) ==
  \/ Mute(r)
  \/ r.status = "resolved" /\ r.type # "transaction" /\ r.amount = None
  \/ r.status = "resolved" /\ \E t \in Mine : Tells(r, t)
  \/ /\ r.status = "amount_mismatch" /\ r.claimed = reading.amount
     /\ \E t \in Mine : Tells(r, t) /\ Mistaken(t, f)

LEMMA WalletUserHonest ==
  ASSUME Given, NEW f, NEW r, r = ResolveWalletUser(f)
  PROVE  Honest(r, f)
<1>. DEFINE t == CHOOSE t \in Search(f) : TRUE
<1>1. r \in {InvalidSession, Several, NoMatch} => Honest(r, f)
  BY SilentOutcomes DEF Honest
<1>2. CASE r = Scan(reading.hint, f)
  BY <1>2, ScanGives DEF Honest
<1>3. CASE Cardinality(Search(f)) = 1 /\ r = ResolvedTxn(t)
  <2>1. t \in Mine
    BY <1>3, OneIsSome, SearchIsMine
  <2>2. Tells(r, t) /\ r.status = "resolved"
    BY <1>3, ResolvedTxnFields DEF Tells
  <2>. HIDE DEF t
  <2> QED BY <2>1, <2>2 DEF Honest
<1>4. CASE Search(f) = {} /\ r = Fallback(f)
  <2>1. CASE Fallback(f) = NoMatch
    BY <1>1, <1>4, <2>1
  <2>2. CASE \E x \in Mine : Fallback(f) = Mismatch(x) /\ Mistaken(x, f)
    <3>1. PICK x \in Mine : Fallback(f) = Mismatch(x) /\ Mistaken(x, f)
      BY <2>2
    <3>2. Tells(r, x) /\ r.status = "amount_mismatch" /\ r.claimed = reading.amount
      BY <1>4, <3>1, MismatchFields DEF Tells
    <3> QED BY <3>1, <3>2 DEF Honest
  <2> QED BY <1>4, <2>1, <2>2, FallbackGives
<1>5. \/ r \in {InvalidSession, Several}
      \/ r = Scan(reading.hint, f)
      \/ Cardinality(Search(f)) = 1 /\ r = ResolvedTxn(t)
      \/ Search(f) = {} /\ r = Fallback(f)
  BY Zenon DEF ResolveWalletUser
<1>. HIDE DEF t
<1> QED BY <1>1, <1>2, <1>3, <1>4, <1>5

LEMMA OtherResolversHonest ==
  ASSUME NEW f PROVE Honest(ResolveMerchant, f) /\ Honest(ResolveAccountLock(f), f)
<1>1. Honest(InvalidSession, f)
  BY SilentOutcomes DEF Honest
<1>2. Honest(ResolveMerchant, f)
  BY <1>1 DEF ResolveMerchant, NoMatch, Outcome, Honest, Mute, Silent
<1>3. Honest(ResolveAccountLock(f), f)
  BY <1>1 DEF ResolveAccountLock, Outcome, Honest, Mute, Silent
<1> QED BY <1>2, <1>3

LEMMA CaseHonest ==
  ASSUME Given, NEW f PROVE Honest(ResolveCaseEvidence(f), f)
<1>1. Honest(InvalidSession, f)
  BY SilentOutcomes DEF Honest
<1>2. ResolveCaseEvidence(f) \in
        {InvalidSession, ResolveAccountLock(f), ResolveWalletUser(f), ResolveMerchant}
  BY DEF Given, ResolveCaseEvidence
<1> QED BY <1>1, <1>2, WalletUserHonest, OtherResolversHonest

\* With one record that needs attention, naming an amount finds something.
LEMMA AmountFinds ==
  ASSUME Given, session # None, session.subject = "wallet_user", session.id = Me,
         reading.hint # "fraud_account_lock", NEW f, f = {},
         Cardinality(Problematic(reading.hint)) = 1, reading.amount # 0, ~GaveId
  PROVE  ResolveCaseEvidence(f).status \in
           {"resolved", "amount_mismatch", "multiple_candidates"}
<1>1. ResolveCaseEvidence(f) = ResolveWalletUser(f)
  BY DEF ResolveCaseEvidence
<1>2. HasCriteria /\ session.id # None
  BY NoneAssumption DEF HasCriteria
<1>3. CASE Cardinality(Search(f)) = 1
  <2>. DEFINE t == CHOOSE t \in Search(f) : TRUE
  <2>1. ResolveWalletUser(f) = ResolvedTxn(t)
    BY <1>2, <1>3 DEF ResolveWalletUser
  <2> QED BY <1>1, <2>1, ResolvedTxnFields
<1>4. CASE Cardinality(Search(f)) # 1 /\ Search(f) # {}
  BY <1>1, <1>2, <1>4, OutcomeFields DEF ResolveWalletUser, Several
<1>5. CASE Search(f) = {}
  <2>. DEFINE t == CHOOSE t \in Problematic(reading.hint) : TRUE
  <2>1. Cardinality(Search(f)) # 1
    BY <1>5, OneIsSome
  <2>2. \A x \in Problematic(reading.hint) : x.amount # reading.amount
    BY <1>5, ExactIsFound, ProblematicIsMine
  <2>3. ResolveWalletUser(f) = Mismatch(t)
    BY <1>2, <1>5, <2>1, <2>2 DEF ResolveWalletUser, Fallback
  <2> QED BY <1>1, <2>3, MismatchFields
<1> QED BY <1>3, <1>4, <1>5

-----------------------------------------------------------------------------
(* The invariant *)

IInv ==
  /\ Given
  /\ resolution = None \/ Honest(resolution, failed)
  /\ verification # None => resolution # None
  /\ AmountIsAnswered
  /\ NearIsDisputed

LEMMA HonestIsOwn ==
  ASSUME Given, resolution = None \/ Honest(resolution, failed)
  PROVE  OwnRecordOnly /\ MismatchHonest
<1>1. CASE resolution = None
  BY <1>1 DEF OwnRecordOnly, ResolvedTransaction, Resolved, MismatchHonest
<1>2. CASE resolution # None
  <2>1. Honest(resolution, failed)
    BY <1>2
  <2>2. OwnRecordOnly
    <3>. SUFFICES ASSUME resolution.status \in {"resolved", "amount_mismatch"},
                         resolution.type = "transaction"
                  PROVE  \E t \in account : /\ t.id = resolution.entity /\ t.owner = Me
                                            /\ t.amount = resolution.amount
                                            /\ t.status = resolution.found
      BY DEF OwnRecordOnly, ResolvedTransaction, Resolved
    <3>1. PICK t \in Mine : Tells(resolution, t)
      BY <2>1 DEF Honest, Mute, Silent
    <3> QED BY <3>1 DEF Tells, Mine
  <2>3. MismatchHonest
    <3>. SUFFICES ASSUME resolution.status = "amount_mismatch"
                  PROVE  /\ resolution.claimed = reading.amount
                         /\ resolution.amount # reading.amount
                         /\ \A t \in Problematic(reading.hint) : t.id = resolution.entity
                         /\ "list" \notin failed =>
                              \A t \in Mine : t.amount # resolution.claimed
      BY DEF MismatchHonest
    <3>1. resolution.claimed = reading.amount
          /\ \E t \in Mine : Tells(resolution, t) /\ Mistaken(t, failed)
      BY <2>1 DEF Honest, Mute, Silent
    <3> QED BY <3>1 DEF Tells, Mistaken
  <2> QED BY <2>2, <2>3
<1> QED BY <1>1, <1>2

LEMMA InitInvariant == Init => IInv
BY AccountAssumption, ReadingAssumption
   DEF Init, IInv, Given, AmountIsAnswered, OneProblem, NearIsDisputed, Confirmed

\* What is said of the records stays true of them.
LEMMA RecordsStay ==
  ASSUME UNCHANGED records
  PROVE  /\ Given' = Given /\ Mine' = Mine
         /\ Problematic(reading.hint)' = Problematic(reading.hint)
         /\ GaveId' = GaveId
<1>. UNCHANGED <<session, reading, claim, account, lock, settlement>>
  BY DEF records
<1>1. Mine' = Mine
  BY DEF Mine
<1>2. Problematic(reading.hint)' = Problematic(reading.hint)
  BY <1>1 DEF Problematic
<1>3. Given' = Given /\ GaveId' = GaveId
  BY DEF Given, GaveId
<1> QED BY <1>1, <1>2, <1>3

LEMMA ResolveStep ==
  ASSUME IInv, Resolve PROVE IInv'
<1>1. PICK f \in SUBSET (Faults \cap Relevant) :
        resolution' = ResolveCaseEvidence(f) /\ failed' = f
  BY DEF Resolve
<1>2. resolution = None /\ UNCHANGED <<records, verification>>
  BY DEF Resolve
<1>3. Given'
  BY <1>2, RecordsStay DEF IInv
<1>4. Honest(resolution, failed)'
  <2>1. Honest(ResolveCaseEvidence(f), f)
    BY CaseHonest DEF IInv
  <2>2. Honest(resolution', failed')
    BY <1>1, <2>1
  <2>3. Mine' = Mine /\ reading' = reading
        /\ Problematic(reading.hint)' = Problematic(reading.hint)
    BY <1>2, RecordsStay DEF records
  <2> QED BY <2>2, <2>3 DEF Honest, Mistaken
<1>5. verification' = None
  BY <1>2 DEF IInv
<1>6. AmountIsAnswered'
  <2>. SUFFICES ASSUME OneProblem', (reading.amount # 0 /\ ~GaveId)'
                PROVE  (resolution.status \in {"resolved", "amount_mismatch",
                                               "multiple_candidates"})'
    BY DEF AmountIsAnswered
  <2>1. /\ session # None /\ session.subject = "wallet_user" /\ session.id = Me
        /\ reading.hint # "fraud_account_lock" /\ f = {}
        /\ Cardinality(Problematic(reading.hint)) = 1
        /\ reading.amount # 0 /\ ~GaveId
    BY <1>1, <1>2, RecordsStay DEF OneProblem, records
  <2> QED BY <1>1, <2>1, AmountFinds DEF IInv
<1>7. NearIsDisputed'
  BY <1>5 DEF NearIsDisputed, Confirmed
<1> QED BY <1>3, <1>4, <1>5, <1>6, <1>7 DEF IInv

\* A verification that names a record of the chat's resolution saw that record.
LEMMA VerifyDisputes ==
  ASSUME IInv, resolution # None, NEW f, NEW v, v = Verify(ResolveCaseEvidence(f)),
         v.exists, ResolvedTransaction, claim # 0, v.amount # None,
         v.entity = resolution.entity, resolution.amount # reading.amount
  PROVE  v.status = "contradiction"
<1>. DEFINE r == ResolveCaseEvidence(f)
<1>1. /\ v.status = MapIssueStatus(r) /\ v.entity = r.entity /\ v.amount = r.amount
  BY DEF Verify
<1>2. PICK t \in account : t.id = resolution.entity /\ t.amount = resolution.amount
  BY HonestIsOwn DEF IInv, OwnRecordOnly
<1>3. Honest(r, f)
  BY CaseHonest DEF IInv
<1>4. /\ r.status \in {"resolved", "amount_mismatch"}
      /\ \E u \in Mine : Tells(r, u)
  <2>. HIDE DEF r
  <2> QED BY <1>1, <1>3 DEF Honest, Mute
<1>5. PICK u \in Mine : Tells(r, u)
  BY <1>4
<1>6. u \in account /\ u.id = t.id
  BY <1>1, <1>2, <1>5 DEF Mine, Tells
<1>7. r.amount = t.amount
  BY <1>2, <1>5, <1>6 DEF IInv, Given, Tells
<1>8. claim = reading.amount
  BY DEF IInv, Given
<1>9. Contradicted(r)
  BY <1>1, <1>2, <1>7, <1>8 DEF Contradicted
<1> QED BY <1>1, <1>4, <1>9 DEF MapIssueStatus

LEMMA VerifyStep ==
  ASSUME IInv, VerifyIssue PROVE IInv'
<1>1. resolution # None /\ UNCHANGED <<records, resolution, failed>>
  BY DEF VerifyIssue
<1>2. PICK f \in SUBSET (Faults \cap Relevant) :
        verification' = Verify(ResolveCaseEvidence(f))
  BY DEF VerifyIssue
<1>3. Given' /\ (resolution = None \/ Honest(resolution, failed))'
  <2>1. Mine' = Mine /\ reading' = reading
        /\ Problematic(reading.hint)' = Problematic(reading.hint)
    BY <1>1, RecordsStay DEF records
  <2>2. Honest(resolution, failed)
    BY <1>1 DEF IInv
  <2>3. Honest(resolution, failed)'
    BY <1>1, <2>1, <2>2 DEF Honest, Mistaken
  <2> QED BY <1>1, <2>3, RecordsStay DEF IInv
<1>4. AmountIsAnswered'
  BY <1>1, RecordsStay DEF IInv, AmountIsAnswered, OneProblem, records
<1>5. NearIsDisputed'
  BY <1>1, <1>2, VerifyDisputes
     DEF NearIsDisputed, Confirmed, ResolvedTransaction, Resolved, records
<1> QED BY <1>1, <1>3, <1>4, <1>5 DEF IInv

LEMMA Invariance == Spec => []IInv
<1>1. IInv /\ [Next]_vars => IInv'
  <2>. SUFFICES ASSUME IInv, [Next]_vars PROVE IInv'
    OBVIOUS
  <2>1. CASE UNCHANGED vars
    <3>1. UNCHANGED <<records, resolution, failed, verification>>
      BY <2>1 DEF vars
    <3>2. Mine' = Mine /\ reading' = reading
          /\ Problematic(reading.hint)' = Problematic(reading.hint)
      BY <3>1, RecordsStay DEF records
    <3>3. (resolution = None \/ Honest(resolution, failed))'
      BY <3>1, <3>2 DEF IInv, Honest, Mistaken
    <3> QED
      BY <3>1, <3>3, RecordsStay
         DEF IInv, AmountIsAnswered, OneProblem, NearIsDisputed, Confirmed,
             ResolvedTransaction, Resolved, records
  <2> QED BY <2>1, ResolveStep, VerifyStep DEF Next
<1> QED BY <1>1, InitInvariant, PTL DEF Spec

-----------------------------------------------------------------------------
(* The theorems *)

\* Whatever the customer quotes, the chat speaks of one of the user's own
\* transactions, with its recorded amount (_search_user_transactions).
THEOREM OwnRecordOnlyHolds == Spec => []OwnRecordOnly
<1>1. IInv => OwnRecordOnly
  BY HonestIsOwn DEF IInv
<1> QED BY <1>1, Invariance, PTL

\* A reported mismatch is about the only record that needs attention, with an
\* amount that is not the claimed one; no transaction has the claimed amount when
\* the search could read them (_resolve_wallet_user).
THEOREM MismatchHonestHolds == Spec => []MismatchHonest
<1>1. IInv => MismatchHonest
  BY HonestIsOwn DEF IInv
<1> QED BY <1>1, Invariance, PTL

\* While the reads succeed, a customer who names an amount and no identifier is
\* answered with a record if one needs attention (_resolve_wallet_user).
THEOREM AmountIsAnsweredHolds == Spec => []AmountIsAnswered
<1>1. IInv => AmountIsAnswered
  BY DEF IInv
<1> QED BY <1>1, Invariance, PTL

\* While the claim is on record, the chat's record is not confirmed under another
\* amount than the claimed one, near as the search lets it be (_map_issue_status),
\* whichever lookups fail the first or the second time.
THEOREM NearIsDisputedHolds == Spec => []NearIsDisputed
<1>1. IInv => NearIsDisputed
  BY DEF IInv
<1> QED BY <1>1, Invariance, PTL

LEMMA StatusIsKnown ==
  ASSUME NEW r, r.status \in Statuses
  PROVE  MapIssueStatus(r) \in {"verified_issue_found", "contradiction", "no_match",
                                "no_issue_found", "insufficient_evidence"}
<1>1. IssueStatusOf(r.status) \in {"verified_issue_found", "contradiction", "no_match",
                                   "no_issue_found", "insufficient_evidence"}
  BY DEF IssueStatusOf, Statuses
<1> QED BY <1>1 DEF MapIssueStatus

\* Type correctness: a lookup ends in one of the resolver's statuses, and each of
\* them has a verdict of the verifier (verify_account_issue).
THEOREM TypeCorrect == Spec => []TypeOK
<1>1. IInv => (resolution = None \/ resolution.status \in Statuses)
  BY DEF IInv, Honest, Mute, Silent, Statuses
<1>2. Init => TypeOK
  BY DEF Init, TypeOK
<1>3. IInv /\ IInv' /\ TypeOK /\ [Next]_vars => TypeOK'
  <2>. SUFFICES ASSUME IInv, IInv', TypeOK, [Next]_vars PROVE TypeOK'
    OBVIOUS
  <2>1. (resolution = None \/ resolution.status \in Statuses)'
    BY DEF IInv, Honest, Mute, Silent, Statuses
  <2>2. CASE UNCHANGED vars
    BY <2>1, <2>2 DEF TypeOK, vars
  <2>3. CASE Resolve
    BY <2>1, <2>3 DEF TypeOK, Resolve
  <2>4. CASE VerifyIssue
    <3>1. PICK f \in SUBSET (Faults \cap Relevant) :
            verification' = Verify(ResolveCaseEvidence(f))
      BY <2>4 DEF VerifyIssue
    <3>. DEFINE r == ResolveCaseEvidence(f)
    <3>2. Honest(r, f)
      BY CaseHonest DEF IInv
    <3>3. Verify(r).status \in {"no_match", MapIssueStatus(r)}
      BY DEF Verify
    <3>. HIDE DEF r
    <3>4. r.status \in Statuses
      BY <3>2 DEF Honest, Mute, Silent, Statuses
    <3> QED BY <2>1, <3>1, <3>3, <3>4, StatusIsKnown DEF TypeOK, r
  <2> QED BY <2>2, <2>3, <2>4 DEF Next
<1> QED BY <1>2, <1>3, Invariance, PTL DEF Spec
=============================================================================
