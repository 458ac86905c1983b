---------------------------- MODULE CustomerClaims ----------------------------
(***************************************************************************)
(* What a chat remembers of the customer's claims and of the system's      *)
(* evidence (api/customer_claims.py, and the steps of api/customer_chat.py *)
(* that merge, bind and clear them).                                       *)
(*                                                                         *)
(* A message is merged into the claims before the chat decides whether to  *)
(* look anything up, so a message may end with the evidence and the        *)
(* contradictions of an earlier one.                                       *)
(***************************************************************************)
EXTENDS Integers, Sequences, FiniteSets

CONSTANTS
  Fields,        \* the claim fields of _FIELD_MAP a customer fills in
  FieldOrder,    \* the order _FIELD_MAP merges them in
  Values,        \* Values[f]: what a customer may say of field f
  Records,       \* [amount, bank]: the records a lookup may bind
  NoValue,       \* a field nobody has filled in
  MaxHistory     \* bound on the claims of one chat

ASSUME FieldAssumption ==
  /\ FieldOrder \in Seq(Fields)
  /\ \A f \in Fields : \E i \in 1..Len(FieldOrder) : FieldOrder[i] = f
  /\ \A i, j \in 1..Len(FieldOrder) : FieldOrder[i] = FieldOrder[j] => i = j
ASSUME ValueAssumption ==
  /\ NoValue \notin UNION {Values[f] : f \in Fields}
  /\ MaxHistory \in Nat

AllValues == UNION {Values[f] : f \in Fields}

ASSUME RecordAssumption ==
  Records \subseteq [amount : AllValues \cup {NoValue}, bank : AllValues \cup {NoValue}]

Claims == [field : Fields, value : AllValues, superseded : BOOLEAN]

NoEvidence == [amount |-> NoValue, bank |-> NoValue]

VARIABLES
  ctx,       \* the chat's context, as far as claims and evidence go
  tickets    \* the claim fields of the tickets filed for it

vars == <<ctx, tickets>>

\* The attributes of the context: CustomerClaims.history and .latest,
\* _verified_evidence, the fields of _contradictions; whether it has these
\* attributes at all; whether last_diagnosis is not empty; and what its ticket
\* is filed under, its case or the chat itself.
Empty ==
  [history |-> <<>>, latest |-> [f \in Fields |-> NoValue],
   evidence |-> NoEvidence, contradictions |-> {}, tracked |-> FALSE,
   diagnosed |-> FALSE, key |-> "chat"]

-----------------------------------------------------------------------------
(* CustomerClaims *)

\* The loop over reversed(history) that stops at the first live record.
Supersede(h, f) ==
  [i \in 1..Len(h) |->
     IF /\ h[i].field = f /\ ~h[i].superseded
        /\ \A j \in (i + 1)..Len(h) : h[j].field = f => h[j].superseded
     THEN [h[i] EXCEPT !.superseded = TRUE] ELSE h[i]]

Claim(f, v) == [field |-> f, value |-> v, superseded |-> FALSE]

\* Faulty variant: a correction overwrites the newest claim.
MergeClaimOver(h, f, v, correction) ==
  IF correction /\ h # <<>> THEN [h EXCEPT ![Len(h)] = Claim(f, v)]
  ELSE Append(h, Claim(f, v))

MergeClaim(h, f, v, correction) ==
  Append(IF correction THEN Supersede(h, f) ELSE h, Claim(f, v))

\* merge_extracted_fields: the fields a message m names, in _FIELD_MAP's order.
MergeExtracted(h, m, correction) ==
  LET Merged[i \in 0..Len(FieldOrder)] ==
        IF i = 0 THEN h
        ELSE IF m[FieldOrder[i]] = NoValue THEN Merged[i - 1]
        ELSE MergeClaim(Merged[i - 1], FieldOrder[i], m[FieldOrder[i]], correction)
  IN Merged[Len(FieldOrder)]

\* Faulty variant: the first claim of a field is kept.
MergeFirst(l, m) ==
  [f \in Fields |-> IF l[f] = NoValue THEN m[f] ELSE l[f]]

MergeLatest(l, m) == [f \in Fields |-> IF m[f] = NoValue THEN l[f] ELSE m[f]]

\* detect_contradictions: only a field that is both claimed and verified.
Contradictions(l, e) ==
  {f \in Fields \cap {"amount", "bank"} :
     l[f] # NoValue /\ e[f] # NoValue /\ l[f] # e[f]}

-----------------------------------------------------------------------------
(* The ticket's copy *)

\* The claims the staff page shows as not superseded, of each field.
Live(h) ==
  [f \in Fields |->
     {h[i].value : i \in {j \in 1..Len(h) : h[j].field = f /\ ~h[j].superseded}}]

NoTicket == [filed |-> FALSE, claims |-> Live(<<>>), evidence |-> NoEvidence,
             contradictions |-> {}]

\* What finalize_customer_chat_and_handoff copies from context c into ticket t.
\* A context without the attributes, and an empty list of contradictions,
\* leave the old values.
Copy(t, c) ==
  [filed |-> TRUE,
   claims |-> IF c.tracked THEN Live(c.history) ELSE t.claims,
   evidence |-> IF c.tracked THEN c.evidence ELSE t.evidence,
   contradictions |-> IF c.contradictions # {} THEN c.contradictions
                      ELSE t.contradictions]

-----------------------------------------------------------------------------
(* The chat's steps *)

Init ==
  /\ ctx = Empty
  /\ tickets = [k \in {"chat", "case"} |-> NoTicket]

\* What a message may say, a value or nothing for each field; whether it
\* corrects the customer; and whether it is a new complaint or turns to
\* another service.
Messages ==
  [says : {m \in [Fields -> AllValues \cup {NoValue}] :
             \A f \in Fields : m[f] \in Values[f] \cup {NoValue}},
   correction : BOOLEAN, fresh : BOOLEAN]

\* Faulty variant: a correction throws away the evidence but not the
\* contradictions found with it.
ForgetEvidenceOnly(c) ==
  [c EXCEPT !.evidence = NoEvidence, !.diagnosed = FALSE]

\* A correction throws away a diagnosis, with its evidence.
Forget(c) ==
  [c EXCEPT !.evidence = NoEvidence, !.contradictions = {}, !.diagnosed = FALSE]

\* The context a message m is judged with.  Its claims are merged before
\* anything is looked up; a new case starts without the old one's.
Begin(m) ==
  LET base == IF m.fresh THEN Empty ELSE ctx
      merged == [base EXCEPT !.history = MergeExtracted(@, m.says, m.correction),
                             !.latest = MergeLatest(@, m.says),
                             !.tracked = TRUE]
  IN IF m.correction /\ base.diagnosed THEN Forget(merged) ELSE merged

\* Bounds the history; a fresh case needs something to leave behind.
Sendable(m) ==
  /\ Len(Begin(m).history) <= MaxHistory
  /\ m.fresh => ctx # Empty

\* A message that binds nothing: thanks, small talk, a warning about
\* secrets, a foreign transaction, or a lookup that finds nothing.
Talk ==
  \E m \in Messages :
    /\ Sendable(m)
    /\ ctx' = Begin(m)
    /\ UNCHANGED tickets

\* A message that asks for staff files the ticket at once.
AskForStaff ==
  \E m \in Messages :
    /\ Sendable(m)
    /\ ctx' = Begin(m)
    /\ tickets' = [tickets EXCEPT ![ctx'.key] = Copy(@, ctx')]

\* _verified_evidence and _contradictions after a lookup that found record r.
Bind(c, r) ==
  [c EXCEPT !.evidence = r, !.contradictions = Contradictions(c.latest, r)]

\* The customer's amount is answered with a correction, not with a diagnosis.
Disputed(m, r) ==
  m.says["amount"] # NoValue /\ "amount" \in Contradictions(Begin(m).latest, r)

\* A message about an open case, or about none, whose lookup binds a record;
\* a record that explains the problem becomes the diagnosis.  When the amount
\* the chat remembers finds nothing, the lookup itself may report a mismatch
\* (amount_mismatch) although the message named no amount.
FollowUp ==
  \E m \in Messages, r \in Records, explained, mismatch \in BOOLEAN :
    /\ Sendable(m)
    /\ mismatch => "amount" \in Contradictions(Begin(m).latest, r)
    /\ ctx' = [Bind(Begin(m), r) EXCEPT
                 !.diagnosed = ~mismatch /\ ~Disputed(m, r) /\ (explained \/ @)]
    /\ UNCHANGED tickets

\* A message that opens a case.  The context is replaced by one that has the
\* diagnosis and none of the attributes, and the ticket of the new case, if it
\* is filed at once, is filed from that one.
OpenCase ==
  \E m \in Messages, r \in Records, filed \in BOOLEAN :
    /\ Sendable(m)
    /\ ~Disputed(m, r)
    /\ ctx' = [Empty EXCEPT !.diagnosed = TRUE, !.key = "case"]
    /\ tickets' = [tickets EXCEPT !["case"] =
                     IF filed THEN Copy(NoTicket, ctx') ELSE NoTicket]

\* The handoff endpoint files or updates the ticket.
Handoff ==
  /\ ctx # Empty
  /\ tickets' = [tickets EXCEPT ![ctx.key] = Copy(@, ctx)]
  /\ UNCHANGED ctx

Next == Talk \/ AskForStaff \/ FollowUp \/ OpenCase \/ Handoff

Spec == Init /\ [][Next]_vars

-----------------------------------------------------------------------------
(* Properties *)

Contexts ==
  [history : Seq(Claims), latest : [Fields -> AllValues \cup {NoValue}],
   evidence : Records \cup {NoEvidence}, contradictions : SUBSET Fields,
   tracked : BOOLEAN, diagnosed : BOOLEAN, key : {"chat", "case"}]

TypeOK ==
  /\ ctx \in Contexts
  /\ DOMAIN tickets = {"chat", "case"}

\* The two halves of CustomerClaims agree: what the chat believes of a field
\* is the newest claim about it, and no correction ever struck that one out.
LatestIsLive ==
  \A f \in Fields :
    LET of == {i \in 1..Len(ctx.history) : ctx.history[i].field = f} IN
    IF of = {} THEN ctx.latest[f] = NoValue
    ELSE LET last == ctx.history[CHOOSE i \in of : \A j \in of : j <= i]
         IN ctx.latest[f] = last.value /\ ~last.superseded

\* Whatever the customer says next, and however the chat goes on, a
\* contradiction is never kept without the evidence it was found against.
ContradictionsBacked ==
  \A f \in ctx.contradictions : f \in DOMAIN ctx.evidence /\ ctx.evidence[f] # NoValue

\* The history is an audit trail: unless a chat starts over, so that its
\* history is one message's, a step only adds claims and strikes out older
\* ones; none is rewritten, dropped or rehabilitated.
HistoryKept ==
  [][\/ \A i, j \in 1..Len(ctx'.history) :
           ctx'.history[i].field = ctx'.history[j].field => i = j
     \/ /\ Len(ctx'.history) >= Len(ctx.history)
        /\ \A i \in 1..Len(ctx.history) :
             /\ ctx'.history[i].field = ctx.history[i].field
             /\ ctx'.history[i].value = ctx.history[i].value
             /\ ctx.history[i].superseded => ctx'.history[i].superseded]_vars

\* "If customer corrects themselves, old claim is superseded"
\* (customer_claims.py:10): no claim older than a superseded one is still
\* live.  The loop stops at the newest live claim, so a claim repeated without
\* a correction leaves the first one live beside the corrected one.
CorrectionSupersedes ==
  \A i, j \in 1..Len(ctx.history) :
    i < j /\ ctx.history[i].field = ctx.history[j].field /\ ctx.history[j].superseded
      => ctx.history[i].superseded

\* "Contradictions are surfaced in customer response and staff ticket"
\* (customer_claims.py:11): what a ticket shows as claimed and as verified is
\* shown as contradictory exactly when it is.
TicketShowsContradictions ==
  \A k \in {"chat", "case"} :
    \A f \in tickets[k].contradictions :
      tickets[k].claims[f] # {tickets[k].evidence[f]}

\* "the old diagnosis is bound to the verified transaction it was built from"
\* (customer_chat.py:1722): a chat that reuses a
\* diagnosis knows the record to test new claims against.
DiagnosisBound == ctx.diagnosed => ctx.evidence # NoEvidence
=============================================================================
