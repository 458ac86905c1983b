------------------------------ MODULE MCChatDesk ------------------------------
(***************************************************************************)
(* Small chats and desks.  The graph may ask for approval of a refund,     *)
(* send the case to manual review, close it, or stop to ask for fields.    *)
(***************************************************************************)
EXTENDS ChatDesk

\* Small talk without a hint, complaints about anything, and answers that give
\* a field; the second workflow is named by complaints and switches only.
FewMessages ==
  {m \in MessageType :
     /\ m.gives => m.type = "provide_missing_info"
     /\ m.type \notin {"new_complaint", "workflow_switch"} => m.hint = "unknown"}

Outcome(workflow, action, approval, missing) ==
  [workflow |-> workflow, action |-> action, approval |-> approval, missing |-> missing]

RefundOrAsk ==
  {Outcome("wallet_topup", "refund", TRUE, FALSE),
   Outcome(None, None, FALSE, TRUE)}

JustRefund == {Outcome("wallet_topup", "refund", TRUE, FALSE)}

AllOutcomes ==
  RefundOrAsk \cup
  {Outcome("train_ticket", "manual_review", TRUE, FALSE),
   Outcome("train_ticket", "no_action", FALSE, FALSE)}

Finding(resolved, action, approval) ==
  [resolved |-> resolved, action |-> action, approval |-> approval]

NoFindings == {}
NoEvidence == {Finding(FALSE, None, FALSE)}
TwoFindings == NoEvidence \cup {Finding(TRUE, "refund", TRUE)}
=============================================================================
