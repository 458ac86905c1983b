SPECIFICATION Spec
CHECK_DEADLOCK FALSE
CONSTANTS
  None = None
  Cases = {c1}
  Users <- TwoUsers
  Merchants <- OneMerchant
  Days <- TwoDays
  Complaints <- AnyComplaints
  Accounts <- Locked
  FraudRecords <- Scores
  Profiles <- Open
  Banks <- Verified
  Net <- Nets
  NewSignals = {"blacklist"}
  Faults = {"read", "draft"}
INVARIANTS UnlockOfTheReviewed PayoutOfTheLedger DuplicateHasACause DraftsAreApproved
