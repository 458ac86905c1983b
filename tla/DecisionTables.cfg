SPECIFICATION AnySpec
CONSTANTS
  None = None
  Users = {alice, bob}
  Scores <- SomeScores
  Nets <- SomeNets
INVARIANTS
  DocumentedMatrices
  ApprovalMatchesRisk
  SuspicionNeverHelps
  PaysOnce
  PaysForAReason
  ShortPayoutIsReviewed
CHECK_DEADLOCK FALSE
