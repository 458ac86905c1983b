---------------------------- MODULE ChatDesk_proofs ----------------------------
(***************************************************************************)
(* Proofs about ChatDesk, for every set of customers, cases, workflows,    *)
(* messages, graph outcomes and findings.                                  *)
(*                                                                         *)
(* A context, a case and a ticket are copied from one another, so a        *)
(* property of one of them is kept only together with that of the others.  *)
(* The invariant says what a context may hold (Proper) and what a ticket   *)
(* may tell (Honest), of every context and ticket at once.                 *)
(***************************************************************************)
EXTENDS ChatDesk, TLAPS, SequenceTheorems

-----------------------------------------------------------------------------
(* The invariant *)

\* Context c may be that of session s when the cases are K.
Proper(c, s, K) ==
  /\ c \in Contexts
  /\ c.case # None => K[c.case] # None /\ K[c.case].session = s
  /\ c.diagnosis # None => c.diagnosis.case = c.case

\* What the ticket filed under k may say when the cases are K.
Honest(t, k, K) ==
  /\ t.session \in {t.story[1], None}
  /\ k[1] = "chat" => k[2] = t.session /\ t.case = None
  /\ k[1] = "case" => /\ t.case = k[2] /\ K[k[2]] # None
                      /\ K[k[2]].session = t.story[1]

ChatsInv == \A s \in Sessions : chats[s] # None => Proper(chats[s], s, cases)
TicketsInv == \A k \in Keys : tickets[k] # None => Honest(tickets[k], k, cases)

IInv == TypeOK /\ ChatsInv /\ TicketsInv

-----------------------------------------------------------------------------
(* Contexts *)

LEMMA FreshProper ==
  ASSUME NEW s \in Sessions, NEW K, NEW talk \in 1..MaxTalks
  PROVE  Proper(Fresh(talk), s, K)
BY DEF Proper, Fresh, Contexts, Maybe

\* A message is always judged with a context that is the session's own.
LEMMA JudgedProper ==
  ASSUME IInv, NEW s \in Sessions, NEW m \in Messages, Received(s)
  PROVE  /\ Proper(Judged(s, m), s, cases)
         /\ Judged(s, m).talk = Current(s).talk
<1>1. Proper(Current(s), s, cases)
  <2>1. CASE chats[s] = None \/ s \in idle
    <3>1. talks[s] + 1 \in 1..MaxTalks
      BY <2>1, InputAssumption DEF Received, Current, Fresh, IInv, TypeOK
    <3> QED BY <2>1, <3>1, FreshProper DEF Current
  <2>2. CASE ~(chats[s] = None \/ s \in idle)
    BY <2>2 DEF Current, IInv, ChatsInv
  <2> QED BY <2>1, <2>2
<1>2. Proper(Fresh(Current(s).talk), s, cases)
  BY <1>1, FreshProper DEF Proper, Contexts
<1>. DEFINE c == IF Resets(s, m) THEN StartFresh(Current(s)) ELSE Current(s)
<1>3. Proper(c, s, cases) /\ c.talk = Current(s).talk
  BY <1>1, <1>2 DEF StartFresh, Fresh
<1>4. Judged(s, m) = [c EXCEPT !.info = @ \/ m.gives, !.missing = @ /\ ~m.gives]
  BY DEF Judged
<1>5. m.gives \in BOOLEAN
  BY InputAssumption DEF MessageType
<1>. HIDE DEF c
<1> QED BY <1>3, <1>4, <1>5 DEF Proper, Contexts

-----------------------------------------------------------------------------
(* What a message leaves behind *)

\* The variables a message to session s changes are well formed after it.
ChatStep ==
  /\ chats' \in [Sessions -> Maybe(Contexts)]
  /\ idle' \subseteq Sessions /\ live' \subseteq Sessions
  /\ talks' \in [Sessions -> 0..MaxTalks]
  /\ ChatsInv'

LEMMA StoredStep ==
  ASSUME IInv, NEW s \in Sessions, Received(s), NEW c, Proper(c, s, cases),
         c.talk = Current(s).talk, Stored(s, c), UNCHANGED <<live, cases>>
  PROVE  ChatStep
<1>1. c \in Contexts /\ c.talk \in 0..MaxTalks
  BY InputAssumption DEF Proper, Contexts
<1>2. /\ chats' \in [Sessions -> Maybe(Contexts)]
      /\ talks' \in [Sessions -> 0..MaxTalks]
  BY <1>1 DEF IInv, TypeOK, Stored, Maybe
<1>3. idle' \subseteq Sessions /\ live' \subseteq Sessions
  BY DEF IInv, TypeOK, Received
<1>4. ChatsInv'
  BY DEF ChatsInv, IInv, TypeOK, Stored, Proper
<1> QED BY <1>2, <1>3, <1>4 DEF ChatStep

LEMMA InPlaceStep ==
  ASSUME IInv, NEW s \in Sessions, NEW m \in Messages, Received(s), NEW c,
         Proper(c, s, cases), chats' = InPlace(s, m, c), UNCHANGED <<talks, live, cases>>
  PROVE  ChatStep
<1>1. c \in Contexts
  BY DEF Proper
<1>2. chats' \in [Sessions -> Maybe(Contexts)]
  BY <1>1 DEF IInv, TypeOK, InPlace, Maybe
<1>3. idle' \subseteq Sessions /\ live' \subseteq Sessions
  BY DEF IInv, TypeOK, Received
<1>4. ChatsInv'
  BY DEF ChatsInv, IInv, TypeOK, InPlace, Proper
<1> QED BY <1>2, <1>3, <1>4 DEF ChatStep, IInv, TypeOK

-----------------------------------------------------------------------------
(* Tickets *)

Audit == {"approve", "reject", "request_info"}

LEMMA StatusType ==
  ASSUME NEW o, NEW missing
  PROVE  TicketStatus(o, missing) \in
           {"pending_approval", "need_more_info", "closed_no_action", "pending_review"}
BY DEF TicketStatus

\* The records of the filed tickets, as Record sees them.
Records == [k \in {l \in Keys : tickets[l] # None} |-> tickets[k].audit]

RecordStep == Record!Next \/ Records' = Records

\* Filing a ticket, again or for the first time, is a step of the record.
LEMMA FilingStep ==
  ASSUME NEW k \in Keys, NEW t, t # None, DOMAIN tickets = Keys,
         t.audit = IF tickets[k] = None THEN <<>> ELSE tickets[k].audit,
         tickets' = [tickets EXCEPT ![k] = t]
  PROVE  RecordStep
<1>1. tickets'[k] = t /\ \A l \in Keys \ {k} : tickets'[l] = tickets[l]
  OBVIOUS
<1>2. CASE tickets[k] = None
  <2>1. {l \in Keys : tickets'[l] # None} = {l \in Keys : tickets[l] # None} \cup {k}
    BY <1>1
  <2>2. k \notin DOMAIN Records
    BY <1>2 DEF Records
  <2>3. Records' = [l \in DOMAIN Records \cup {k} |-> IF l = k THEN <<>> ELSE Records[l]]
    BY <1>1, <1>2, <2>1 DEF Records
  <2>4. Record!File(k)
    BY <2>2, <2>3 DEF Record!File, Records
  <2> QED BY <2>4 DEF RecordStep, Record!Next
<1>3. CASE tickets[k] # None
  <2>1. {l \in Keys : tickets'[l] # None} = {l \in Keys : tickets[l] # None}
    BY <1>1, <1>3
  <2>2. Records' = Records
    BY <1>1, <1>3, <2>1 DEF Records
  <2> QED BY <2>2 DEF RecordStep
<1> QED BY <1>2, <1>3

\* What finalize_customer_chat_and_handoff makes of a proper context.
LEMMA FiledType ==
  ASSUME NEW t \in Maybe(TicketType), NEW c \in Contexts, NEW s \in Maybe(Sessions),
         NEW teller \in Sessions, NEW o \in OutcomeType, NEW missing
  PROVE  /\ Filed(t, c, s, teller, o, missing) \in TicketType
         /\ Filed(t, c, s, teller, o, missing) # None
         /\ Filed(t, c, s, teller, o, missing).session = s
         /\ Filed(t, c, s, teller, o, missing).story[1] = teller
         /\ Filed(t, c, s, teller, o, missing).case = c.case
         /\ Filed(t, c, s, teller, o, missing).audit = IF t = None THEN <<>> ELSE t.audit
<1>1. (IF t = None THEN <<>> ELSE t.audit) \in Seq(Audit)
  BY DEF Maybe, TicketType, Audit
<1>2. (IF c.workflow # None \/ c.diagnosis = None THEN c.workflow
       ELSE c.diagnosis.workflow) \in Maybe(Workflows)
  BY DEF Contexts, Maybe
<1>3. <<teller, c.talk>> \in Sessions \X (1..MaxTalks)
  BY DEF Contexts
<1>4. o.action \in Maybe(Actions) /\ o.approval \in BOOLEAN
  BY DEF OutcomeType
<1>5. c.case \in Maybe(Cases)
  BY DEF Contexts
<1>6. Filed(t, c, s, teller, o, missing) \in TicketType
  BY <1>1, <1>2, <1>3, <1>4, <1>5, StatusType DEF Filed, TicketType, Audit
<1>7. Filed(t, c, s, teller, o, missing) # None
  BY <1>6, NoneAssumption
<1> QED BY <1>6, <1>7 DEF Filed

\* A filing of a proper context of session teller, by teller or by nobody
\* known, leaves every ticket typed and honest and is a step of the record.
LEMMA FinalizeStep ==
  ASSUME IInv, NEW c, NEW teller \in Sessions, NEW s \in {teller, None},
         Proper(c, teller, cases), tickets' = Finalize(c, s, teller), cases' = cases
  PROVE  tickets' \in [Keys -> Maybe(TicketType)] /\ TicketsInv' /\ RecordStep
<1>. DEFINE k == TicketKey(c, s)
            t == Filed(tickets[k], c, s, teller, OutcomeOf(c.case), c.missing)
<1>1. c \in Contexts /\ c.case \in Maybe(Cases)
  BY DEF Proper, Contexts
<1>2. k \in Keys
  BY <1>1 DEF TicketKey, Keys, Maybe
<1>3. OutcomeOf(c.case) \in OutcomeType
  <2>1. NoOutcome \in OutcomeType
    BY DEF NoOutcome, OutcomeType, Maybe
  <2>2. c.case # None => cases[c.case].outcome \in OutcomeType
    BY <1>1 DEF Proper, IInv, TypeOK, CaseType, Maybe
  <2> QED BY <2>1, <2>2 DEF OutcomeOf
<1>4. s \in Maybe(Sessions) /\ tickets[k] \in Maybe(TicketType)
  BY <1>2 DEF Maybe, IInv, TypeOK
<1>5. /\ t \in TicketType /\ t # None
      /\ t.session = s /\ t.story[1] = teller /\ t.case = c.case
      /\ t.audit = IF tickets[k] = None THEN <<>> ELSE tickets[k].audit
  BY <1>1, <1>3, <1>4, FiledType
<1>6. tickets' = [tickets EXCEPT ![k] = t]
  BY DEF Finalize
<1>7. Honest(t, k, cases)
  BY <1>5 DEF Honest, TicketKey, Proper
<1>. HIDE DEF k, t
<1>8. tickets' \in [Keys -> Maybe(TicketType)]
  BY <1>2, <1>5, <1>6 DEF IInv, TypeOK, Maybe
<1>9. TicketsInv'
  BY <1>2, <1>6, <1>7 DEF IInv, TypeOK, TicketsInv, Honest
<1>10. RecordStep
  BY <1>2, <1>5, <1>6, FilingStep DEF IInv, TypeOK
<1> QED BY <1>8, <1>9, <1>10

-----------------------------------------------------------------------------
(* The invariant is inductive *)

\* A step that leaves the tickets and the cases alone is judged by its chats.
LEMMA ChatOnly ==
  ASSUME IInv, ChatStep, UNCHANGED <<cases, tickets>>
  PROVE  IInv'
BY DEF IInv, TypeOK, ChatStep, TicketsInv, Honest

LEMMA InitInv == Init => IInv
<1> SUFFICES ASSUME Init PROVE IInv
  OBVIOUS
<1>1. TypeOK
  BY InputAssumption DEF Init, TypeOK, Maybe
<1>2. ChatsInv /\ TicketsInv
  BY DEF Init, ChatsInv, TicketsInv
<1> QED BY <1>1, <1>2 DEF IInv

LEMMA SmallTalkInv ==
  ASSUME IInv, NEW s \in Sessions, SmallTalk(s)
  PROVE  IInv'
<1>1. PICK m \in Messages : Received(s) /\ Stored(s, Judged(s, m))
  BY DEF SmallTalk
<1>2. UNCHANGED <<live, cases, tickets>>
  BY DEF SmallTalk
<1>3. ChatStep
  BY <1>1, <1>2, JudgedProper, StoredStep
<1> QED BY <1>2, <1>3, ChatOnly

LEMMA WarnSecretsInv ==
  ASSUME IInv, NEW s \in Sessions, WarnSecrets(s)
  PROVE  IInv'
<1>1. PICK m \in Messages : Received(s) /\ Stored(s, Judged(s, m))
  BY DEF WarnSecrets
<1>2. UNCHANGED <<live, cases, tickets>>
  BY DEF WarnSecrets
<1>3. ChatStep
  BY <1>1, <1>2, JudgedProper, StoredStep
<1> QED BY <1>2, <1>3, ChatOnly

LEMMA RequestStaffInv ==
  ASSUME IInv, NEW s \in Sessions, RequestStaff(s)
  PROVE  IInv'
<1>1. PICK m \in Messages : /\ Received(s) /\ Stored(s, Judged(s, m))
                            /\ tickets' = Finalize(Judged(s, m), s, s)
  BY DEF RequestStaff
<1>2. UNCHANGED <<live, cases>>
  BY DEF RequestStaff
<1>3. ChatStep
  BY <1>1, <1>2, JudgedProper, StoredStep
<1>4. tickets' \in [Keys -> Maybe(TicketType)] /\ TicketsInv'
  BY <1>1, <1>2, JudgedProper, FinalizeStep
<1> QED BY <1>2, <1>3, <1>4 DEF IInv, TypeOK, ChatStep

LEMMA RefuseInv ==
  ASSUME IInv, NEW s \in Sessions, Refuse(s)
  PROVE  IInv'
<1>1. PICK m \in Messages : Received(s) /\ chats' = InPlace(s, m, Judged(s, m))
  BY DEF Refuse
<1>2. UNCHANGED <<talks, live, cases, tickets>>
  BY DEF Refuse
<1>3. ChatStep
  BY <1>1, <1>2, JudgedProper, InPlaceStep
<1> QED BY <1>2, <1>3, ChatOnly

LEMMA DisputeInv ==
  ASSUME IInv, NEW s \in Sessions, Dispute(s)
  PROVE  IInv'
<1>1. PICK m \in Messages :
        /\ Received(s)
        /\ Stored(s, [Judged(s, m) EXCEPT !.info = TRUE, !.diagnosis = None])
  BY DEF Dispute
<1>2. UNCHANGED <<live, cases, tickets>>
  BY DEF Dispute
<1>. DEFINE c == Judged(s, m)
            d == [c EXCEPT !.info = TRUE, !.diagnosis = None]
<1>3. Proper(c, s, cases) /\ c.talk = Current(s).talk
  BY <1>1, JudgedProper
<1>. HIDE DEF c
<1>4. Proper(d, s, cases) /\ d.talk = Current(s).talk
  BY <1>3 DEF Proper, Contexts, Maybe
<1>5. Stored(s, d)
  BY <1>1 DEF c
<1>6. ChatStep
  BY <1>1, <1>2, <1>4, <1>5, StoredStep
<1> QED BY <1>2, <1>6, ChatOnly

LEMMA NoMatchInv ==
  ASSUME IInv, NEW s \in Sessions, NoMatch(s)
  PROVE  IInv'
<1>1. PICK m \in Messages :
        Received(s) /\ Stored(s, [Judged(s, m) EXCEPT !.streak = TRUE])
  BY DEF NoMatch
<1>2. UNCHANGED <<live, cases, tickets>>
  BY DEF NoMatch
<1>. DEFINE c == Judged(s, m)
            d == [c EXCEPT !.streak = TRUE]
<1>3. Proper(c, s, cases) /\ c.talk = Current(s).talk
  BY <1>1, JudgedProper
<1>. HIDE DEF c
<1>4. Proper(d, s, cases) /\ d.talk = Current(s).talk
  BY <1>3 DEF Proper, Contexts
<1>5. Stored(s, d)
  BY <1>1 DEF c
<1>6. ChatStep
  BY <1>1, <1>2, <1>4, <1>5, StoredStep
<1> QED BY <1>2, <1>6, ChatOnly

LEMMA SeveralInv ==
  ASSUME IInv, NEW s \in Sessions, Several(s)
  PROVE  IInv'
<1>1. PICK m \in Messages : Received(s) /\ Stored(s, Judged(s, m))
  BY DEF Several
<1>2. UNCHANGED <<live, cases, tickets>>
  BY DEF Several
<1>3. ChatStep
  BY <1>1, <1>2, JudgedProper, StoredStep
<1> QED BY <1>2, <1>3, ChatOnly

\* A lookup changes neither the case nor the diagnosis of a context.
LEMMA AfterLookupProper ==
  ASSUME NEW s, NEW K, NEW c, Proper(c, s, K), NEW result
  PROVE  /\ Proper(AfterLookup(c, result), s, K)
         /\ AfterLookup(c, result).talk = c.talk
BY DEF Proper, Contexts, AfterLookup

LEMMA OpenCaseFailsInv ==
  ASSUME IInv, NEW s \in Sessions, OpenCaseFails(s)
  PROVE  IInv'
<1>1. PICK m \in Messages, result \in Results :
        Received(s) /\ chats' = InPlace(s, m, AfterLookup(Judged(s, m), result))
  BY DEF OpenCaseFails
<1>2. UNCHANGED <<talks, live, cases, tickets>>
  BY DEF OpenCaseFails
<1>3. Proper(AfterLookup(Judged(s, m), result), s, cases)
  BY <1>1, JudgedProper, AfterLookupProper
<1>4. ChatStep
  BY <1>1, <1>2, <1>3, InPlaceStep
<1> QED BY <1>2, <1>4, ChatOnly

LEMMA FollowUpInv ==
  ASSUME IInv, NEW s \in Sessions, FollowUp(s)
  PROVE  IInv'
<1>. DEFINE C(m, result) == AfterLookup(Judged(s, m), result)
            W(m, c) == IF Hint(m, c) # "unknown" THEN Hint(m, c) ELSE c.workflow
            D(m, c, x) == IF x THEN [c EXCEPT !.diagnosis = [workflow |-> W(m, c), case |-> c.case]]
                          ELSE c
<1>1. PICK m \in Messages, result \in Results, explained \in BOOLEAN :
        /\ Received(s)
        /\ Stored(s, D(m, C(m, result), result = "resolved" /\ explained))
  BY DEF FollowUp
<1>2. UNCHANGED <<live, cases, tickets>>
  BY DEF FollowUp
<1>3. Proper(C(m, result), s, cases) /\ C(m, result).talk = Current(s).talk
  BY <1>1, JudgedProper, AfterLookupProper
<1>. HIDE DEF C
<1>. DEFINE c == C(m, result)
            d == D(m, c, result = "resolved" /\ explained)
<1>4. W(m, c) \in Maybe(Workflows)
  BY <1>3, InputAssumption DEF Hint, Hints, MessageType, Proper, Contexts, Maybe
<1>. HIDE DEF W
<1>5. Proper(d, s, cases) /\ d.talk = Current(s).talk
  BY <1>3, <1>4 DEF Proper, Contexts, Maybe
<1>6. ChatStep
  BY <1>1, <1>2, <1>5, StoredStep
<1> QED BY <1>2, <1>6, ChatOnly

\* The context, the case and the ticket that opening a case stores
OpenedAs(c, case, o, w) ==
  [Fresh(c.talk) EXCEPT !.case = case, !.workflow = o.workflow,
     !.diagnosis = [workflow |-> w, case |-> case],
     !.missing = o.missing, !.info = c.info]
NewCase(s, o, w) == [session |-> s, outcome |-> o, register |-> Register(o), about |-> w]
NewTicket(c, case, s, o) ==
  Filed(tickets[<<"case", case>>], c, s, s, o, o.missing)

\* A case is opened for the session that complains; no context and no ticket
\* knew its identifier before.
LEMMA OpenCaseInv ==
  ASSUME IInv, NEW s \in Sessions, OpenCase(s)
  PROVE  IInv' /\ RecordStep
<1>1. PICK m \in Messages, result \in Results, again \in Results, o \in Outcomes,
           case \in {k \in Cases : cases[k] = None} :
        LET c == AfterLookup(Judged(s, m), result)
            w == AnsweredWorkflow(m, c, o)
        IN /\ Received(s)
           /\ Stored(s, OpenedAs(c, case, o, w))
           /\ cases' = [cases EXCEPT ![case] = NewCase(s, o, w)]
           /\ \/ tickets' = [tickets EXCEPT
                    ![<<"case", case>>] = NewTicket(OpenedAs(c, case, o, w), case, s, o)]
              \/ tickets' = tickets
           /\ UNCHANGED live
  <2>1. PICK m \in Messages, result, again \in Results, o \in Outcomes,
             case \in {k \in Cases : cases[k] = None} :
          LET c == AfterLookup(Judged(s, m), result)
              w == AnsweredWorkflow(m, c, o)
              opened == OpenedAs(c, case, o, w)
          IN /\ Received(s) /\ Reaches(m, Judged(s, m), result) /\ Opens(m, c)
             /\ again # result => Hint(m, c) = "unknown" /\ o.workflow # None
             /\ Stored(s, opened)
             /\ cases' = [cases EXCEPT ![case] = NewCase(s, o, w)]
             /\ tickets' =
                  IF ShouldCreateTicket(o, again)
                  THEN [tickets EXCEPT ![<<"case", case>>] = NewTicket(opened, case, s, o)]
                  ELSE tickets
             /\ UNCHANGED live
    BY Zenon DEF OpenCase, OpenedAs, NewCase, NewTicket
  <2> QED BY <2>1, Zenon
<1>. DEFINE c == AfterLookup(Judged(s, m), result)
            w == AnsweredWorkflow(m, c, o)
            opened == OpenedAs(c, case, o, w)
            new == NewCase(s, o, w)
            k == <<"case", case>>
            t == NewTicket(opened, case, s, o)
<1>a. /\ Received(s) /\ Stored(s, opened) /\ UNCHANGED live
      /\ cases' = [cases EXCEPT ![case] = new]
      /\ tickets' = [tickets EXCEPT ![k] = t] \/ tickets' = tickets
  BY <1>1, Zenon
<1>2. c \in Contexts /\ c.talk = Current(s).talk
  <2>1. Proper(Judged(s, m), s, cases) /\ Judged(s, m).talk = Current(s).talk
    BY <1>a, JudgedProper
  <2>2. Proper(c, s, cases) /\ c.talk = Judged(s, m).talk
    BY <2>1, AfterLookupProper
  <2> QED BY <2>1, <2>2 DEF Proper
<1>. HIDE DEF c
<1>3. case \in Cases /\ cases[case] = None /\ o \in OutcomeType
  BY <1>1, InputAssumption
<1>4. w \in Maybe(Workflows)
  BY <1>2, <1>3, InputAssumption
     DEF AnsweredWorkflow, Hint, Hints, MessageType, Contexts, OutcomeType, Maybe
<1>. HIDE DEF w
<1>5. opened \in Contexts /\ opened.talk = Current(s).talk /\ opened.case = case
      /\ opened.diagnosis.case = case
  <2>1. c.talk \in 1..MaxTalks /\ c.info \in BOOLEAN /\ o.missing \in BOOLEAN
        /\ o.workflow \in Maybe(Workflows) /\ case \in Maybe(Cases)
    BY <1>2, <1>3 DEF Contexts, OutcomeType, Maybe
  <2>2. [workflow |-> w, case |-> case] \in Maybe([workflow : Maybe(Workflows), case : Maybe(Cases)])
    BY <2>1, <1>4 DEF Maybe
  <2>. DEFINE f == Fresh(c.talk)
  <2>3. f \in Contexts /\ f.talk = c.talk
    BY <2>1 DEF Fresh, Contexts, Maybe
  <2>. HIDE DEF f
  <2>4. opened = [f EXCEPT !.case = case, !.workflow = o.workflow,
                    !.diagnosis = [workflow |-> w, case |-> case],
                    !.missing = o.missing, !.info = c.info]
    BY Zenon DEF OpenedAs, f
  <2>. HIDE DEF opened
  <2> QED BY <1>2, <2>1, <2>2, <2>3, <2>4 DEF Contexts
<1>6. new \in CaseType /\ new # None /\ new.session = s
  BY <1>3, <1>4, NoneAssumption DEF NewCase, CaseType, Register
<1>7. case # None
  BY <1>3, InputAssumption
<1>8. Stored(s, opened) /\ cases' = [cases EXCEPT ![case] = new] /\ Received(s)
  BY <1>a
<1>9. k \in Keys /\ tickets[k] \in Maybe(TicketType)
  BY <1>3 DEF Keys, IInv, TypeOK
<1>. HIDE DEF opened
<1>10. /\ t \in TicketType /\ t # None
       /\ t.session = s /\ t.story[1] = s /\ t.case = case
       /\ t.audit = IF tickets[k] = None THEN <<>> ELSE tickets[k].audit
  <2>1. t = Filed(tickets[k], opened, s, s, o, o.missing)
    BY DEF NewTicket
  <2>2. s \in Maybe(Sessions)
    BY DEF Maybe
  <2>. HIDE DEF t, k
  <2> QED BY <1>3, <1>5, <1>9, <2>1, <2>2, FiledType
<1>11. tickets' = [tickets EXCEPT ![k] = t] \/ tickets' = tickets
  BY <1>a
<1>. HIDE DEF opened, new, t
<1>12. cases' \in [Cases -> Maybe(CaseType)] /\ tickets' \in [Keys -> Maybe(TicketType)]
  BY <1>6, <1>8, <1>10, <1>11 DEF IInv, TypeOK, Maybe
<1>13. opened.talk \in 0..MaxTalks
  BY <1>5, InputAssumption DEF Contexts
<1>14. /\ chats' \in [Sessions -> Maybe(Contexts)] /\ talks' \in [Sessions -> 0..MaxTalks]
       /\ idle' \subseteq Sessions /\ live' \subseteq Sessions
  BY <1>a, <1>5, <1>8, <1>13 DEF IInv, TypeOK, Stored, Received, Maybe
<1>15. ChatsInv'
  <2>1. SUFFICES ASSUME NEW r \in Sessions, chats'[r] # None
                 PROVE  Proper(chats'[r], r, cases')
    BY DEF ChatsInv
  <2>2. CASE r = s
    <3>1. chats'[r] = opened
      BY <1>8, <2>2 DEF Stored, IInv, TypeOK
    <3>2. cases'[case] = new
      BY <1>3, <1>8 DEF IInv, TypeOK
    <3> QED BY <1>5, <1>6, <2>2, <3>1, <3>2 DEF Proper
  <2>3. CASE r # s
    <3>1. chats'[r] = chats[r] /\ Proper(chats[r], r, cases)
      BY <1>8, <2>1, <2>3 DEF Stored, IInv, TypeOK, ChatsInv
    <3>2. chats[r].case # None => cases'[chats[r].case] = cases[chats[r].case]
      BY <1>3, <1>8, <3>1 DEF Proper, IInv, TypeOK
    <3> QED BY <3>1, <3>2 DEF Proper
  <2> QED BY <2>2, <2>3
<1>16. TicketsInv'
  <2>1. SUFFICES ASSUME NEW l \in Keys, tickets'[l] # None
                 PROVE  Honest(tickets'[l], l, cases')
    BY DEF TicketsInv
  <2>2. CASE l = k /\ tickets'[l] = t
    <3>1. cases'[case] = new /\ l[1] = "case" /\ l[2] = case
      BY <1>3, <1>8, <2>2 DEF IInv, TypeOK
    <3> QED BY <1>6, <1>10, <2>2, <3>1 DEF Honest
  <2>3. CASE tickets'[l] = tickets[l]
    <3>1. Honest(tickets[l], l, cases)
      BY <2>1, <2>3 DEF IInv, TicketsInv
    <3>2. l[1] = "case" => cases'[l[2]] = cases[l[2]]
      BY <1>3, <1>8, <3>1 DEF Honest, IInv, TypeOK
    <3> QED BY <2>3, <3>1, <3>2 DEF Honest
  <2> QED BY <1>9, <1>11, <2>2, <2>3 DEF IInv, TypeOK
<1>17. RecordStep
  <2>1. CASE tickets' = tickets
    BY <2>1 DEF RecordStep, Records
  <2>2. CASE tickets' = [tickets EXCEPT ![k] = t]
    BY <1>9, <1>10, <2>2, FilingStep DEF IInv, TypeOK
  <2> QED BY <1>11, <2>1, <2>2
<1> QED BY <1>12, <1>14, <1>15, <1>16, <1>17 DEF IInv, TypeOK

LEMMA SilenceInv ==
  ASSUME IInv, NEW s \in Sessions, Silence(s)
  PROVE  IInv'
BY DEF Silence, IInv, TypeOK, ChatsInv, TicketsInv, Proper, Honest

LEMMA SessionExpiresInv ==
  ASSUME IInv, NEW s \in Sessions, SessionExpires(s)
  PROVE  IInv'
BY DEF SessionExpires, IInv, TypeOK, ChatsInv, TicketsInv, Proper, Honest

LEMMA HandoffInv ==
  ASSUME IInv, NEW s \in Sessions, Handoff(s)
  PROVE  IInv'
<1>. DEFINE r == IF s \in live THEN s ELSE None
<1>1. /\ tickets' = Finalize(chats[s], r, s)
      /\ UNCHANGED <<chats, idle, talks, live, cases>>
  BY DEF Handoff
<1>2. Proper(chats[s], s, cases)
  BY DEF Handoff, IInv, ChatsInv
<1>3. r \in {s, None}
  OBVIOUS
<1>. HIDE DEF r
<1>4. tickets' \in [Keys -> Maybe(TicketType)] /\ TicketsInv'
  BY <1>1, <1>2, <1>3, FinalizeStep
<1> QED BY <1>1, <1>4 DEF IInv, TypeOK, ChatsInv, Proper

\* A ticket of which only the finding, the status and the log change
LEMMA TicketStep ==
  ASSUME IInv, NEW k \in Keys, tickets[k] # None, NEW t \in TicketType,
         t.session = tickets[k].session, t.story = tickets[k].story,
         t.case = tickets[k].case, tickets' = [tickets EXCEPT ![k] = t],
         UNCHANGED <<chats, idle, talks, live, cases>>
  PROVE  IInv'
<1>1. tickets' \in [Keys -> Maybe(TicketType)]
  BY DEF IInv, TypeOK, Maybe
<1>2. TicketsInv'
  BY DEF IInv, TypeOK, TicketsInv, Honest
<1> QED BY <1>1, <1>2 DEF IInv, TypeOK, ChatsInv, Proper

LEMMA OpenTicketStep ==
  ASSUME IInv, NEW k \in Keys, OpenTicket(k)
  PROVE  \E t \in TicketType :
           /\ t.session = tickets[k].session /\ t.story = tickets[k].story
           /\ t.case = tickets[k].case /\ t.audit = tickets[k].audit
           /\ tickets[k] # None /\ tickets' = [tickets EXCEPT ![k] = t]
           /\ UNCHANGED <<chats, idle, talks, live, cases>>
<1>1. /\ tickets[k] # None
      /\ \/ tickets' = tickets
         \/ \E f \in Findings : tickets' = [tickets EXCEPT ![k] = Examined(tickets[k], f)]
      /\ UNCHANGED <<chats, idle, talks, live, cases>>
  BY DEF OpenTicket, IInv, TypeOK
<1>2. tickets[k] \in TicketType /\ tickets = [tickets EXCEPT ![k] = tickets[k]]
  BY <1>1 DEF IInv, TypeOK, Maybe
<1>. SUFFICES ASSUME NEW f \in Findings,
                     tickets' = [tickets EXCEPT ![k] = Examined(tickets[k], f)]
     PROVE  \E t \in TicketType :
              /\ t.session = tickets[k].session /\ t.story = tickets[k].story
              /\ t.case = tickets[k].case /\ t.audit = tickets[k].audit
              /\ tickets' = [tickets EXCEPT ![k] = t]
  BY <1>1, <1>2
<1>3. f \in FindingType
  BY InputAssumption
<1>. DEFINE a == IF ~f.resolved THEN "manual_review"
                 ELSE IF f.action # None THEN f.action ELSE tickets[k].action
            b == f.resolved /\ f.approval
<1>a. a \in Maybe(Actions) /\ b \in BOOLEAN
  <2>1. f.action \in Maybe(Actions) /\ tickets[k].action \in Maybe(Actions)
    BY <1>2, <1>3 DEF FindingType, TicketType
  <2>2. a \in Maybe(Actions)
    BY <2>1, InputAssumption DEF Maybe
  <2>3. b \in BOOLEAN
    BY Zenon
  <2> QED BY <2>2, <2>3, Zenon
<1>b. Examined(tickets[k], f) = [tickets[k] EXCEPT !.action = a, !.approval = b]
  BY DEF Examined
<1>. HIDE DEF a, b
<1>4. /\ Examined(tickets[k], f) \in TicketType
      /\ Examined(tickets[k], f).session = tickets[k].session
      /\ Examined(tickets[k], f).story = tickets[k].story
      /\ Examined(tickets[k], f).case = tickets[k].case
      /\ Examined(tickets[k], f).audit = tickets[k].audit
  BY <1>2, <1>a, <1>b DEF TicketType
<1> QED BY <1>4

LEMMA DecideTicketStep ==
  ASSUME IInv, NEW k \in Keys, DecideTicket(k)
  PROVE  \E t \in TicketType, e \in Audit :
           /\ t.session = tickets[k].session /\ t.story = tickets[k].story
           /\ t.case = tickets[k].case /\ t.audit = Append(tickets[k].audit, e)
           /\ tickets[k] # None /\ tickets' = [tickets EXCEPT ![k] = t]
           /\ UNCHANGED <<chats, idle, talks, live, cases>>
<1>1. PICK d \in Decisions :
        /\ tickets[k] # None
        /\ tickets' = [tickets EXCEPT ![k] =
             [tickets[k] EXCEPT !.status = d[2], !.audit = Append(@, d[1])]]
        /\ UNCHANGED <<chats, idle, talks, live, cases>>
  BY DEF DecideTicket, IInv, TypeOK
<1>. DEFINE t == [tickets[k] EXCEPT !.status = d[2], !.audit = Append(@, d[1])]
<1>2. tickets[k] \in TicketType
  BY <1>1 DEF IInv, TypeOK, Maybe
<1>3. /\ d[1] \in Audit
      /\ d[2] \in {"approved", "closed_no_action", "need_more_info"}
  BY DEF Decisions, Audit
<1>4. tickets[k].audit \in Seq(Audit)
  BY <1>2 DEF TicketType, Audit
<1>5. Append(tickets[k].audit, d[1]) \in Seq(Audit)
  BY <1>3, <1>4, AppendProperties
<1>6. /\ t \in TicketType /\ t.session = tickets[k].session
      /\ t.story = tickets[k].story /\ t.case = tickets[k].case
      /\ t.audit = Append(tickets[k].audit, d[1])
  BY <1>2, <1>3, <1>5 DEF TicketType, Audit
<1> QED BY <1>1, <1>3, <1>6

LEMMA DecideCaseInv ==
  ASSUME IInv, NEW case \in Cases, DecideCase(case)
  PROVE  IInv'
<1>1. PICK verdict \in {"approved", "rejected"} :
        /\ cases[case] # None
        /\ cases' = [cases EXCEPT ![case] = [cases[case] EXCEPT !.register = verdict]]
        /\ UNCHANGED <<chats, idle, talks, live, tickets>>
  BY DEF DecideCase, IInv, TypeOK
<1>. DEFINE x == [cases[case] EXCEPT !.register = verdict]
<1>2. cases[case] \in CaseType
  BY <1>1 DEF IInv, TypeOK, Maybe
<1>3. x \in CaseType /\ x.session = cases[case].session /\ x # None
  BY <1>2, NoneAssumption DEF CaseType
<1>4. cases' = [cases EXCEPT ![case] = x]
  BY <1>1
<1>. HIDE DEF x
<1>5. cases' \in [Cases -> Maybe(CaseType)]
  BY <1>3, <1>4 DEF IInv, TypeOK, Maybe
<1>6. \A k \in Cases : cases[k] # None =>
         cases'[k] # None /\ cases'[k].session = cases[k].session
  BY <1>3, <1>4 DEF IInv, TypeOK
<1>7. ChatsInv'
  BY <1>1, <1>6 DEF IInv, ChatsInv, Proper, Contexts, Maybe
<1>8. TicketsInv'
  BY <1>1, <1>6 DEF IInv, TicketsInv, Honest, Keys
<1> QED BY <1>1, <1>5, <1>7, <1>8 DEF IInv, TypeOK

LEMMA NextInv == IInv /\ [Next]_vars => IInv'
<1> SUFFICES ASSUME IInv, [Next]_vars PROVE IInv'
  OBVIOUS
<1>1. ASSUME NEW s \in Sessions, Message(s) PROVE IInv'
  BY <1>1, SmallTalkInv, WarnSecretsInv, RequestStaffInv, RefuseInv, DisputeInv,
     NoMatchInv, SeveralInv, OpenCaseFailsInv, OpenCaseInv, FollowUpInv DEF Message
<1>2. ASSUME NEW s \in Sessions, Silence(s) \/ Handoff(s) \/ SessionExpires(s) PROVE IInv'
  BY <1>2, SilenceInv, HandoffInv, SessionExpiresInv
<1>3. ASSUME NEW k \in Keys, OpenTicket(k) PROVE IInv'
  BY <1>3, OpenTicketStep, TicketStep
<1>4. ASSUME NEW k \in Keys, DecideTicket(k) PROVE IInv'
  BY <1>4, DecideTicketStep, TicketStep
<1>5. ASSUME NEW case \in Cases, DecideCase(case) PROVE IInv'
  BY <1>5, DecideCaseInv
<1>6. CASE UNCHANGED vars
  BY <1>6 DEF vars, IInv, TypeOK, ChatsInv, TicketsInv, Proper, Honest
<1> QED BY <1>1, <1>2, <1>3, <1>4, <1>5, <1>6 DEF Next

LEMMA Invariance == Spec => []IInv
BY InitInv, NextInv, PTL DEF Spec

-----------------------------------------------------------------------------
(* Theorems *)

\* Contexts, cases and tickets have their types.
THEOREM TypeCorrect == Spec => []TypeOK
BY Invariance, PTL DEF IInv

\* However messages, silences, handoffs and decisions interleave, a chat keeps
\* to the cases of its own session and a ticket to one customer
\* (customer_chat.py, chat_handoff.py).
THEOREM OwnCaseOnlyHolds == Spec => []OwnCaseOnly
<1>1. IInv => OwnCaseOnly
  BY DEF IInv, ChatsInv, TicketsInv, Proper, Honest, OwnCaseOnly
<1> QED BY <1>1, Invariance, PTL

\* The diagnosis a chat would answer from is that of the case it is on
\* (case_transition.py).
THEOREM DiagnosisOfThisCaseHolds == Spec => []DiagnosisOfThisCase
<1>1. IInv => DiagnosisOfThisCase
  BY DEF IInv, ChatsInv, Proper, DiagnosisOfThisCase
<1> QED BY <1>1, Invariance, PTL

-----------------------------------------------------------------------------
(* The desk is a record of tickets *)

LEMMA SameRecords ==
  ASSUME tickets' = tickets
  PROVE  RecordStep
BY DEF RecordStep, Records

\* A decision adds its entry to the record of its ticket.
LEMMA DecisionStep ==
  ASSUME IInv, NEW k \in Keys, DecideTicket(k)
  PROVE  RecordStep
<1>1. PICK t \in TicketType, e \in Audit :
        /\ t.audit = Append(tickets[k].audit, e)
        /\ tickets[k] # None /\ tickets' = [tickets EXCEPT ![k] = t]
  BY DecideTicketStep
<1>2. t # None
  BY NoneAssumption
<1>3. tickets'[k] = t /\ \A l \in Keys \ {k} : tickets'[l] = tickets[l]
  BY <1>1 DEF IInv, TypeOK
<1>4. {l \in Keys : tickets'[l] # None} = {l \in Keys : tickets[l] # None}
  BY <1>1, <1>2, <1>3
<1>. DEFINE F == {l \in Keys : tickets[l] # None}
<1>5. /\ Records = [l \in F |-> tickets[l].audit] /\ k \in F
      /\ Records' = [l \in F |-> tickets'[l].audit]
  BY <1>1, <1>4 DEF Records
<1>a. \A l \in F \ {k} : tickets'[l] = tickets[l]
  BY <1>3
<1>. HIDE DEF F
<1>b. Records' = [Records EXCEPT ![k] = Append(@, e)] /\ k \in DOMAIN Records
  <2>1. \A l \in F : tickets'[l].audit = IF l = k THEN Append(Records[k], e) ELSE Records[l]
    <3>. TAKE l \in F
    <3>1. Records[l] = tickets[l].audit
      BY <1>5
    <3>2. CASE l = k
      <4>1. tickets'[l].audit = Append(tickets[l].audit, e)
        BY <1>1, <1>3, <3>2
      <4> QED BY <3>1, <3>2, <4>1
    <3>3. CASE l # k
      <4>1. tickets'[l].audit = tickets[l].audit
        BY <1>a, <3>3
      <4> QED BY <3>1, <3>3, <4>1
    <3> QED BY <3>2, <3>3
  <2> QED BY <1>5, <2>1
<1>6. e \in {d[1] : d \in Decisions}
  BY DEF Audit, Decisions
<1>7. Record!Decide(k, e)
  BY <1>b DEF Record!Decide, Records
<1> QED BY <1>6, <1>7 DEF RecordStep, Record!Next

LEMMA NextRecord == IInv /\ [Next]_vars => RecordStep
<1> SUFFICES ASSUME IInv, [Next]_vars PROVE RecordStep
  OBVIOUS
<1>1. ASSUME NEW s \in Sessions, Message(s) PROVE RecordStep
  <2>1. CASE RequestStaff(s)
    <3>1. PICK m \in Messages : /\ Received(s)
                                /\ tickets' = Finalize(Judged(s, m), s, s)
      BY <2>1 DEF RequestStaff
    <3>2. cases' = cases
      BY <2>1 DEF RequestStaff
    <3> QED BY <3>1, <3>2, JudgedProper, FinalizeStep
  <2>2. CASE OpenCase(s)
    BY <2>2, OpenCaseInv
  <2>3. CASE ~RequestStaff(s) /\ ~OpenCase(s)
    <3>1. tickets' = tickets
      BY <1>1, <2>3 DEF Message, SmallTalk, WarnSecrets, Refuse, Dispute, NoMatch, Several,
                        OpenCaseFails, FollowUp
    <3> QED BY <3>1, SameRecords
  <2> QED BY <2>1, <2>2, <2>3
<1>2. ASSUME NEW s \in Sessions, Silence(s) \/ SessionExpires(s) PROVE RecordStep
  BY <1>2, SameRecords DEF Silence, SessionExpires
<1>3. ASSUME NEW s \in Sessions, Handoff(s) PROVE RecordStep
  <2>. DEFINE r == IF s \in live THEN s ELSE None
  <2>1. tickets' = Finalize(chats[s], r, s) /\ cases' = cases
    BY <1>3 DEF Handoff
  <2>2. Proper(chats[s], s, cases)
    BY <1>3 DEF Handoff, IInv, ChatsInv
  <2>3. r \in {s, None}
    OBVIOUS
  <2>. HIDE DEF r
  <2> QED BY <2>1, <2>2, <2>3, FinalizeStep
<1>4. ASSUME NEW k \in Keys, OpenTicket(k) PROVE RecordStep
  <2>1. PICK t \in TicketType : /\ t.audit = tickets[k].audit /\ tickets[k] # None
                                /\ tickets' = [tickets EXCEPT ![k] = t]
    BY <1>4, OpenTicketStep
  <2> QED BY <2>1, FilingStep, NoneAssumption DEF IInv, TypeOK
<1>5. ASSUME NEW k \in Keys, DecideTicket(k) PROVE RecordStep
  BY <1>5, DecisionStep
<1>6. ASSUME NEW case \in Cases, DecideCase(case) PROVE RecordStep
  BY <1>6, SameRecords DEF DecideCase
<1>7. CASE UNCHANGED vars
  BY <1>7, SameRecords DEF vars
<1> QED BY <1>1, <1>2, <1>3, <1>4, <1>5, <1>6, <1>7 DEF Next

\* The desk implements TicketRecord: no filing, handoff, investigation or
\* decision loses or rewrites an entry of a ticket's audit log, and an entry is
\* there only because a decision was made (finalize_customer_chat_and_handoff,
\* _decide).
THEOREM StaffWorkKeptHolds == Spec => StaffWorkKept
<1>1. Init => Record!Init
  <2>1. ASSUME Init PROVE Records = [k \in {} |-> <<>>]
    <3>1. {l \in Keys : tickets[l] # None} = {}
      BY <2>1 DEF Init
    <3> QED BY <3>1 DEF Records
  <2> QED BY <2>1 DEF Record!Init, Records
<1>2. IInv /\ [Next]_vars => [Record!Next]_Records
  BY NextRecord DEF RecordStep
<1> QED BY <1>1, <1>2, Invariance, PTL DEF StaffWorkKept, Spec, Record!Spec, Records
=============================================================================
