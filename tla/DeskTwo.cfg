SPECIFICATION Spec
CHECK_DEADLOCK FALSE
CONSTANTS
  None = None
  Sessions = {s1, s2}
  Cases = {c1}
  Workflows = {"wallet_topup"}
  Actions = {"refund", "manual_review", "no_action"}
  Outcomes <- JustRefund
  Messages <- FewMessages
  Findings <- NoFindings
  MaxDecisions = 0
  MaxTalks = 1
INVARIANTS OwnCaseOnly
