---------------------------- MODULE DecisionTables ----------------------------
(***************************************************************************)
(* The five decision engines nodes/rule_decision.py chooses from, each     *)
(* against what its module promises: the three of RuleTables, which are    *)
(* judged after the conflict check, and the two of AccountTables.  A       *)
(* behaviour is about one bundle of evidence for one workflow; the         *)
(* variables of the other tables are at rest.                              *)
(***************************************************************************)
EXTENDS AccountTables

CONSTANT Users     \* complainants and owners of transactions
VARIABLES workflow, ev, user, decision

Transactions == INSTANCE RuleTables
transactionVars == <<workflow, ev, user, decision>>
AtRest == workflow = None /\ ev = None /\ user = None /\ decision = None

AnyInit ==
  \/ Init /\ AtRest
  \/ Transactions!Init /\ lock = NoLock /\ late = NoSettlement

JudgeTransaction == workflow # None /\ Transactions!Judge /\ UNCHANGED vars

AnySpec == AnyInit /\ [][JudgeTransaction]_<<vars, transactionVars>>

\* The three transaction engines agree with the decision matrices at the head of
\* train_ticket_rules.py, utility_bill_rules.py and wallet_topup_rules.py, for
\* evidence without a conflict.  Of the top-up's fallback row only what the
\* code keeps is meant here; TopupFallback is the row as it is written.
DocumentedMatrices ==
  Transactions!TrainMatrix /\ Transactions!UtilityMatrix /\ Transactions!TopupMatrix

\* Two tables written apart agree: an engine asks for approval exactly when
\* risk_rules.requires_approval says its action needs one, whatever the amount.
ApprovalMatchesRisk == Transactions!ApprovalMatchesRisk

\* "pending | * | * | manual_review (fallback)" (wallet_topup_rules.py:13): a
\* top-up whose bank status is none of the matrix goes to a person, even when
\* its money is known not to have arrived.
TopupFallback == Transactions!TopupFallback
=============================================================================
