SPECIFICATION Spec
CHECK_DEADLOCK FALSE
CONSTANTS
  None = None
  Sessions = {s1}
  Cases = {c1}
  Workflows = {"wallet_topup", "train_ticket"}
  Actions = {"refund", "manual_review", "no_action"}
  Outcomes <- AllOutcomes
  Messages <- FewMessages
  Findings <- TwoFindings
  MaxDecisions = 1
  MaxTalks = 2
INVARIANTS DiagnosisOfThisCase
PROPERTIES StaffWorkKept
