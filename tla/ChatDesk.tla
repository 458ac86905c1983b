------------------------------- MODULE ChatDesk -------------------------------
(***************************************************************************)
(* The customer chat and the back-office desk it hands its cases to        *)
(* (api/customer_chat.py, api/case_transition.py, the ticket store,        *)
(* finalization and staff decisions of api/chat_handoff.py).               *)
(*                                                                         *)
(* Every handler runs to its end without awaiting anything, so an action   *)
(* is a whole request.  Three parties act: the customer (messages, silence,*)
(* the handoff the frontend sends when a chat ends or expires), the staff  *)
(* working on tickets, and the staff deciding cases in the ApprovalService.*)
(* All stores are in memory and separate.                                  *)
(*                                                                         *)
(* What a lookup finds, what the workflow graph makes of a complaint and   *)
(* what a ticket's investigation yields are inputs here; CaseResolver,     *)
(* CaseFlow and Investigation model how they come about.                   *)
(***************************************************************************)
EXTENDS Integers, Sequences, FiniteSets, SequencesExt

CONSTANTS
  None,         \* Python's None and the empty string
  Sessions,     \* logged-in customers
  Cases,        \* identifiers create_and_run may give
  Workflows,    \* registered workflows
  Actions,      \* what a rule decision may recommend
  Outcomes,     \* what the graph may make of a complaint
  Messages,     \* what the analyzer may make of a message
  Findings,     \* what an investigation may make of a ticket
  MaxDecisions, \* bound on the staff's decisions
  MaxTalks      \* bound on the chats of one session

Maybe(S) == S \cup {None}

\* selected_workflow, the rule decision's action, approval_required, and
\* whether fields are missing; None where the graph stopped before.
OutcomeType ==
  [workflow : Maybe(Workflows), action : Maybe(Actions), approval : BOOLEAN,
   missing : BOOLEAN]

\* An unresolved investigation, or the rule's action and whether it needs
\* approval.
FindingType == [resolved : BOOLEAN, action : Maybe(Actions), approval : BOOLEAN]

\* message_type, as far as it tells paths apart, workflow_hint, and whether
\* the message gives searchable fields
MessageTypes ==
  {"new_complaint", "workflow_switch", "follow_up", "provide_missing_info",
   "thank_you", "greeting", "provide_sensitive_info"}
Hints == Workflows \cup {"unknown"}
MessageType == [type : MessageTypes, hint : Hints, gives : BOOLEAN]

ASSUME InputAssumption ==
  /\ None \notin Workflows \cup Cases \cup Sessions
  /\ "manual_review" \in Actions
  /\ Messages \subseteq MessageType
  /\ \A o \in Outcomes : o \in OutcomeType
  /\ \A f \in Findings : f \in FindingType
  /\ MaxDecisions \in Nat /\ MaxTalks \in Nat

\* A stored case and a filed ticket.
CaseType ==
  [session : Sessions, outcome : OutcomeType,
   register : {"none", "pending", "approved", "rejected"}, about : Maybe(Workflows)]

TicketType ==
  [session : Maybe(Sessions), story : Sessions \X (1..MaxTalks), case : Maybe(Cases),
   workflow : Maybe(Workflows), action : Maybe(Actions), approval : BOOLEAN,
   status : {"pending_approval", "need_more_info", "closed_no_action", "pending_review",
             "approved"},
   audit : Seq({"approve", "reject", "request_info"})]

\* None is no object.
ASSUME NoneAssumption == None \notin CaseType /\ None \notin TicketType

VARIABLES
  chats,    \* _session_context: the context of a session, or None
  idle,     \* the sessions silent for longer than SESSION_IDLE_TTL_SECONDS
  talks,    \* how many chats a session has begun
  live,     \* the sessions the session repository returns
  cases,    \* CaseService: the outcome and the approval register of a case
  tickets   \* ChatTicketStore, by deduplication key

vars == <<chats, idle, talks, live, cases, tickets>>

\* ActiveCaseContext, with the attributes the chat attaches to it: its case,
\* its workflow, the workflow and the case of last_diagnosis, whether
\* _no_match_count is positive, whether missing_fields and whether extracted_info hold anything, and the
\* chat whose transcript it is.
Fresh(talk) ==
  [talk |-> talk, case |-> None, workflow |-> None, diagnosis |-> None, streak |-> FALSE,
   missing |-> FALSE, info |-> FALSE]

-----------------------------------------------------------------------------
(* decide_case_transition *)

\* The transition of a message that the analyzer gave a type and a hint.  A
\* new complaint always leaves the active case, finished or not.
Transition(type, hint, c) ==
  LET other == hint # "unknown" /\ c.workflow # None /\ hint # c.workflow IN
  IF type = "greeting" THEN "off_topic"
  ELSE IF c.workflow = None /\ c.case = None THEN "new_case"
  ELSE IF type = "new_complaint" THEN IF other THEN "workflow_switch" ELSE "new_case"
  ELSE IF type = "workflow_switch" \/ other THEN "workflow_switch"
  ELSE "same_case"

\* _is_workflow_switch
IsWorkflowSwitch(type, hint, c) ==
  /\ c.workflow # None /\ hint # "unknown" /\ hint # c.workflow
  /\ type \in {"workflow_switch", "new_complaint"}

IsNewIssue(type, hint, c) ==
  /\ Transition(type, hint, c) \in {"new_case", "workflow_switch"}
  /\ \/ c.workflow # None \/ c.case # None \/ c.info
     \/ c.streak \/ c.diagnosis # None

\* Faulty variant: a new issue starts with the diagnosis of the old one.
StartFreshWithDiagnosis(c) == [Fresh(c.talk) EXCEPT !.diagnosis = c.diagnosis]

\* _start_fresh_case_for_switch: only the transcript goes on.
StartFresh(c) == Fresh(c.talk)

-----------------------------------------------------------------------------
(* The context of a message *)

\* _get_active_context
Current(s) ==
  IF chats[s] = None \/ s \in idle THEN Fresh(talks[s] + 1) ELSE chats[s]

Resets(s, m) ==
  \/ IsNewIssue(m.type, m.hint, Current(s))
  \/ IsWorkflowSwitch(m.type, m.hint, Current(s))

\* The context a message is handled with: a new one for a new issue, and in
\* both cases with the fields the message gives.
Judged(s, m) ==
  LET c == IF Resets(s, m) THEN StartFresh(Current(s)) ELSE Current(s)
  IN [c EXCEPT !.info = @ \/ m.gives, !.missing = @ /\ ~m.gives]

\* The active case's workflow takes the place of the hint.
Hint(m, c) ==
  IF c.workflow # None /\ m.type \notin {"new_complaint", "workflow_switch"}
  THEN c.workflow ELSE m.hint

\* Objects are shared: what a handler changes in a context that is stored
\* stays, whether or not it stores the context again.
InPlace(s, m, c) ==
  IF s \in idle THEN [chats EXCEPT ![s] = None]
  ELSE IF chats[s] = None \/ Resets(s, m) THEN chats
  ELSE [chats EXCEPT ![s] = c]

\* A message gets past the login check and counts as activity.
Received(s) ==
  /\ s \in live
  /\ Current(s).talk <= MaxTalks
  /\ idle' = idle \ {s}

\* The context is stored.
Stored(s, c) ==
  /\ chats' = [chats EXCEPT ![s] = c]
  /\ talks' = [talks EXCEPT ![s] = c.talk]

SmallTalkTypes == {"thank_you", "greeting"}

-----------------------------------------------------------------------------
(* finalize_customer_chat_and_handoff *)

NoOutcome == [workflow |-> None, action |-> None, approval |-> FALSE, missing |-> FALSE]

\* Faulty variant: a chat without a case is filed without its session.
TicketKeySessionless(c, s) == IF c.case # None THEN <<"case", c.case>> ELSE <<"chat", None>>

\* The deduplication key; the handoff endpoint may come without a session.
TicketKey(c, s) == IF c.case # None THEN <<"case", c.case>> ELSE <<"chat", s>>

Keys == ({"case"} \X Cases) \cup ({"chat"} \X Maybe(Sessions))

\* _resolve_status
TicketStatus(o, missing) ==
  IF o.approval THEN "pending_approval"
  ELSE IF missing THEN "need_more_info"
  ELSE IF o.action = "no_action" THEN "closed_no_action"
  ELSE "pending_review"

\* Faulty variant: a chat that is finalized again files its ticket anew.
FiledAnew(t, c, s, teller, o, missing) ==
  [session |-> s, story |-> <<teller, c.talk>>, case |-> c.case, workflow |-> c.workflow,
   action |-> o.action, approval |-> o.approval,
   status |-> TicketStatus(o, missing), audit |-> <<>>]

\* The ticket of context c, with outcome o of its case: who is known to
\* complain, whose conversation it tells, and what is to be done.  An existing
\* ticket t keeps its audit log, all else is written over.
Filed(t, c, s, teller, o, missing) ==
  [session |-> s, story |-> <<teller, c.talk>>, case |-> c.case,
   workflow |-> IF c.workflow # None \/ c.diagnosis = None THEN c.workflow
                ELSE c.diagnosis.workflow,
   action |-> o.action, approval |-> o.approval,
   status |-> TicketStatus(o, missing),
   audit |-> IF t = None THEN <<>> ELSE t.audit]

OutcomeOf(case) == IF case = None THEN NoOutcome ELSE cases[case].outcome

Finalize(c, s, teller) ==
  [tickets EXCEPT ![TicketKey(c, s)] =
     Filed(@, c, s, teller, OutcomeOf(c.case), c.missing)]

-----------------------------------------------------------------------------
(* Messages *)

\* Thanks and greetings are answered without looking anything up.
SmallTalk(s) ==
  \E m \in Messages :
    /\ Received(s)
    /\ m.type \in SmallTalkTypes
    /\ Stored(s, Judged(s, m))
    /\ UNCHANGED <<live, cases, tickets>>

\* So is a message that gives away a secret.
WarnSecrets(s) ==
  \E m \in Messages :
    /\ Received(s)
    /\ m.type = "provide_sensitive_info"
    /\ Stored(s, Judged(s, m))
    /\ UNCHANGED <<live, cases, tickets>>

\* A message that asks for a person files a ticket.
RequestStaff(s) ==
  \E m \in Messages :
    /\ Received(s)
    /\ m.type \notin SmallTalkTypes
    /\ Stored(s, Judged(s, m))
    /\ tickets' = Finalize(Judged(s, m), s, s)
    /\ UNCHANGED <<live, cases>>

Substantial(m) == m.type \notin SmallTalkTypes \cup {"provide_sensitive_info"}

\* A message about somebody else's transaction or settlement is refused.
Refuse(s) ==
  \E m \in Messages :
    /\ Received(s) /\ Substantial(m)
    /\ chats' = InPlace(s, m, Judged(s, m))
    /\ UNCHANGED <<talks, live, cases, tickets>>

\* The claimed amount is not the record's: the diagnosis is dropped.
Dispute(s) ==
  \E m \in Messages :
    /\ Received(s) /\ Substantial(m)
    /\ Stored(s, [Judged(s, m) EXCEPT !.info = TRUE, !.diagnosis = None])
    /\ UNCHANGED <<live, cases, tickets>>

\* An honest not-found answer.  Without a workflow it is left to the graph.
\* Insistence on it changes the wording only.
NoMatch(s) ==
  \E m \in Messages :
    LET c == Judged(s, m)
    IN /\ Received(s) /\ Substantial(m)
       /\ Hint(m, c) # "unknown"
       /\ Stored(s, [c EXCEPT !.streak = TRUE])
       /\ UNCHANGED <<live, cases, tickets>>

\* Several records match: one question is asked.
Several(s) ==
  \E m \in Messages :
    /\ Received(s) /\ Substantial(m)
    /\ Stored(s, Judged(s, m))
    /\ UNCHANGED <<live, cases, tickets>>

\* The lookups that get as far as Step 7; an inconclusive one lacks
\* information, could not read the records or has no usable session.
Results == {"resolved", "no_match", "inconclusive"}

Reaches(m, c, result) ==
  /\ Substantial(m)
  /\ result = "no_match" => Hint(m, c) = "unknown"

\* A new complaint runs the workflow graph, and so does any other message but
\* a question about progress as long as there is no case.
Opens(m, c) ==
  \/ m.type = "new_complaint"
  \/ c.case = None /\ m.type # "follow_up"

AfterLookup(c, result) ==
  IF result = "resolved" THEN [c EXCEPT !.streak = FALSE, !.info = TRUE] ELSE c

\* The graph failed; nothing is stored.
OpenCaseFails(s) ==
  \E m \in Messages, result \in Results :
    LET c == Judged(s, m)
    IN /\ Received(s) /\ Reaches(m, c, result) /\ Opens(m, c)
       /\ chats' = InPlace(s, m, AfterLookup(c, result))
       /\ UNCHANGED <<talks, live, cases, tickets>>

\* The workflow the answer is about: the analyzer's word, then the graph's.
AnsweredWorkflow(m, c, o) ==
  IF Hint(m, c) # "unknown" THEN Hint(m, c)
  ELSE IF o.workflow # None THEN o.workflow ELSE c.workflow

\* _should_create_ticket for a case just opened.  Its context is new and has
\* no contradictions.
ShouldCreateTicket(o, result) ==
  /\ result # "no_match"
  /\ o.action # None \/ o.approval \/ result # "resolved"

\* A case whose graph run stopped at the approval gate waits; manual review
\* sets approval_required but registers nothing.
Register(o) ==
  IF o.approval /\ o.action # "manual_review" THEN "pending" ELSE "none"

\* A case is opened.  The message is resolved once more when the graph names
\* a workflow the analyzer did not; a failing repository then gives no match.
OpenCase(s) ==
  \E m \in Messages, result, again \in Results, o \in Outcomes,
     case \in {k \in Cases : cases[k] = None} :
    LET c == AfterLookup(Judged(s, m), result)
        w == AnsweredWorkflow(m, c, o)
        opened == [Fresh(c.talk) EXCEPT !.case = case, !.workflow = o.workflow,
                     !.diagnosis = [workflow |-> w, case |-> case],
                     !.missing = o.missing, !.info = c.info]
    IN /\ Received(s) /\ Reaches(m, Judged(s, m), result) /\ Opens(m, c)
       /\ again # result => Hint(m, c) = "unknown" /\ o.workflow # None
       /\ Stored(s, opened)
       /\ cases' = [cases EXCEPT ![case] =
                      [session |-> s, outcome |-> o, register |-> Register(o),
                       about |-> w]]
       /\ tickets' =
            IF ShouldCreateTicket(o, again)
            THEN [tickets EXCEPT ![<<"case", case>>] =
                    Filed(@, opened, s, s, o, o.missing)]
            ELSE tickets
       /\ UNCHANGED live

\* A message on an open case, or a question without one.  A record that
\* explains the problem becomes the diagnosis.
FollowUp(s) ==
  \E m \in Messages, result \in Results, explained \in BOOLEAN :
    LET c == AfterLookup(Judged(s, m), result)
        w == IF Hint(m, c) # "unknown" THEN Hint(m, c) ELSE c.workflow
    IN /\ Received(s) /\ Reaches(m, Judged(s, m), result) /\ ~Opens(m, c)
       /\ Stored(s, IF result = "resolved" /\ explained
                    THEN [c EXCEPT !.diagnosis = [workflow |-> w, case |-> c.case]]
                    ELSE c)
       /\ UNCHANGED <<live, cases, tickets>>

-----------------------------------------------------------------------------
(* Silence, handoff, sessions *)

Silence(s) ==
  /\ chats[s] # None
  /\ s \notin idle
  /\ idle' = idle \cup {s}
  /\ UNCHANGED <<chats, talks, live, cases, tickets>>

\* customer_chat_handoff with a context; idle or not, it is still there.
\* The session may have expired in the meantime.
Handoff(s) ==
  /\ chats[s] # None
  /\ tickets' = Finalize(chats[s], IF s \in live THEN s ELSE None, s)
  /\ UNCHANGED <<chats, idle, talks, live, cases>>

\* Without a context the endpoint looks for an earlier ticket of the session,
\* to set its reason and say that the chat was handed off.
FindsTicket(s) == tickets[<<"chat", s>>] # None

\* A session's expires_at passes.
SessionExpires(s) ==
  /\ s \in live
  /\ live' = live \ {s}
  /\ UNCHANGED <<chats, idle, talks, cases, tickets>>

-----------------------------------------------------------------------------
(* The staff *)

\* _apply_investigation_to_ticket: an unresolved investigation asks for manual
\* review; a resolved one that names no action keeps the ticket's.
Examined(t, f) ==
  [t EXCEPT !.action = IF ~f.resolved THEN "manual_review"
                       ELSE IF f.action # None THEN f.action ELSE @,
            !.approval = f.resolved /\ f.approval]

\* The staff open a ticket: what its investigation finds is written to it, its
\* status is not.  A ticket without a workflow, or with nothing to look a
\* record up by, is left as it is; so is one whose investigation breaks off.
OpenTicket(k) ==
  /\ tickets[k] # None
  /\ \/ UNCHANGED tickets
     \/ /\ tickets[k].workflow # None
        /\ \E f \in Findings : tickets' = [tickets EXCEPT ![k] = Examined(@, f)]
  /\ UNCHANGED <<chats, idle, talks, live, cases>>

Decisions ==
  {<<"approve", "approved">>, <<"reject", "closed_no_action">>,
   <<"request_info", "need_more_info">>}

DecisionsMade ==
  MapThenSumSet(LAMBDA k : IF tickets[k] = None THEN 0 ELSE Len(tickets[k].audit), Keys)

\* _decide: any ticket, whatever its status.
DecideTicket(k) ==
  \E d \in Decisions :
    /\ tickets[k] # None
    /\ DecisionsMade < MaxDecisions
    /\ tickets' = [tickets EXCEPT
         ![k].status = d[2],
         ![k].audit = Append(@, d[1])]
    /\ UNCHANGED <<chats, idle, talks, live, cases>>

\* The approval endpoints of the case, whatever became of its ticket.
DecideCase(case) ==
  \E verdict \in {"approved", "rejected"} :
    /\ cases[case] # None /\ cases[case].register = "pending"
    /\ cases' = [cases EXCEPT ![case].register = verdict]
    /\ UNCHANGED <<chats, idle, talks, live, tickets>>

-----------------------------------------------------------------------------
Init ==
  /\ chats = [s \in Sessions |-> None]
  /\ idle = {}
  /\ talks = [s \in Sessions |-> 0]
  /\ live = Sessions
  /\ cases = [c \in Cases |-> None]
  /\ tickets = [k \in Keys |-> None]

Message(s) ==
  \/ SmallTalk(s) \/ WarnSecrets(s) \/ RequestStaff(s) \/ Refuse(s) \/ Dispute(s)
  \/ NoMatch(s) \/ Several(s) \/ OpenCaseFails(s) \/ OpenCase(s) \/ FollowUp(s)

Next ==
  \/ \E s \in Sessions :
       Message(s) \/ Silence(s) \/ Handoff(s) \/ SessionExpires(s)
  \/ \E k \in Keys : OpenTicket(k) \/ DecideTicket(k)
  \/ \E case \in Cases : DecideCase(case)

Spec == Init /\ [][Next]_vars

-----------------------------------------------------------------------------
(* Properties *)

Contexts ==
  [talk : 1..MaxTalks, case : Maybe(Cases), workflow : Maybe(Workflows),
   diagnosis : Maybe([workflow : Maybe(Workflows), case : Maybe(Cases)]),
   streak : BOOLEAN, missing : BOOLEAN, info : BOOLEAN]

TypeOK ==
  /\ chats \in [Sessions -> Maybe(Contexts)]
  /\ idle \subseteq Sessions /\ live \subseteq Sessions
  /\ talks \in [Sessions -> 0..MaxTalks]
  /\ cases \in [Cases -> Maybe(CaseType)]
  /\ tickets \in [Keys -> Maybe(TicketType)]

\* A chat keeps to its own: its case was opened by its session, a ticket's key,
\* its case and its conversation belong together, and no ticket names another
\* customer as the complainant.
OwnCaseOnly ==
  /\ \A s \in Sessions : chats[s] # None /\ chats[s].case # None =>
       cases[chats[s].case] # None /\ cases[chats[s].case].session = s
  /\ \A k \in Keys : tickets[k] # None =>
       /\ tickets[k].session \in {tickets[k].story[1], None}
       /\ k[1] = "chat" => k[2] = tickets[k].session /\ tickets[k].case = None
       /\ k[1] = "case" => /\ tickets[k].case = k[2] /\ cases[k[2]] # None
                           /\ cases[k[2]].session = tickets[k].story[1]

\* "must NOT reuse old diagnosis" (decide_case_transition): however a chat
\* moves between complaints, corrections and silence, the diagnosis it would
\* answer from was made for the case it is on.
DiagnosisOfThisCase ==
  \A s \in Sessions :
    chats[s] # None /\ chats[s].diagnosis # None =>
      chats[s].diagnosis.case = chats[s].case

\* The staff's work is kept: to the staff the desk is a record of tickets, each
\* filed once, to which every decision adds its entry and from which no filing,
\* handoff or investigation takes one.
Record ==
  INSTANCE TicketRecord
    WITH Entries <- {d[1] : d \in Decisions},
         records <- [k \in {l \in Keys : tickets[l] # None} |-> tickets[k].audit]

StaffWorkKept == Record!Spec

\* "One ticket per chat (dedup) - never duplicates" (chat_handoff.py:17).
OneTicketPerChat ==
  \A k, l \in Keys :
    tickets[k] # None /\ tickets[l] # None /\ tickets[k].story = tickets[l].story => k = l

\* "Idempotent per chat (deduped)" (customer_chat.py:1918): filing one chat
\* updates that chat's ticket, not another chat's.
TicketOfOneChat ==
  [][\A k \in Keys : tickets[k] # None => tickets'[k].story = tickets[k].story]_vars

\* "Store staff decision" (approve_chat_ticket): what the customer does next
\* does not undo it.
DecisionStored ==
  [][\A k \in Keys :
       tickets[k] # None /\ tickets[k].status = "approved" /\ tickets'[k].audit = tickets[k].audit
         => tickets'[k].status = "approved"]_vars

\* "Creates/updates ONE back-office ticket when a customer chat ends, expires,
\* or the customer requests staff support" (chat_handoff.py:3): a chat with a
\* case that is dropped for its age leaves a ticket behind.
ExpiryFilesTicket ==
  [][\A s \in Sessions :
       (s \in idle /\ s \notin idle' /\ chats[s].case # None) =>
         \E k \in Keys : tickets[k] # None /\ tickets[k].story = <<s, chats[s].talk>>]_vars

\* "proactive creation may have already made a ticket before context was lost.
\* Update it and return success" (customer_chat.py:1923).
LostChatStillFiled ==
  \A s \in Sessions :
    (chats[s] = None /\ \E k \in Keys : tickets[k] # None /\ tickets[k].story[1] = s) =>
      FindsTicket(s)

\* "The per-message analyzer's workflow_hint takes priority over the graph's
\* selected_workflow" (customer_chat.py:1418): the case goes on about the
\* workflow its first answer was about.
CaseKeepsAnsweredWorkflow ==
  \A s \in Sessions :
    chats[s] # None /\ chats[s].case # None /\ cases[chats[s].case].about # None =>
      chats[s].workflow = cases[chats[s].case].about

\* "Returns True when staff attention is warranted: ... Approval is required"
\* (_should_create_ticket): a case that waits for approval has a ticket.
WaitingCaseHasTicket ==
  \A c \in Cases :
    cases[c] # None /\ cases[c].register = "pending" => tickets[<<"case", c>>] # None

\* "Accumulate across messages - don't discard previous extractions"
\* (customer_chat.py:883): an answer to the chat's question, which names no
\* other service, leaves the chat knowing what it knew.
InformationAccumulates ==
  \A s \in Sessions, m \in Messages :
    (/\ chats[s] # None /\ s \notin idle /\ chats[s].info
     /\ m.type = "provide_missing_info" /\ m.hint = "unknown") => Judged(s, m).info
=============================================================================
