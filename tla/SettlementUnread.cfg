SPECIFICATION Spec
CHECK_DEADLOCK FALSE
CONSTANTS
  None = None
  Cases = {c1}
  Users <- NoUsers
  Merchants <- OneMerchant
  Days <- TwoDays
  Complaints <- AboutToday
  Accounts <- NoAccounts
  FraudRecords <- NoAccounts
  Profiles <- Open
  Banks <- Verified
  Net <- Nets
  NewSignals = {"blacklist"}
  Faults = {"read"}
INVARIANTS NeverDuplicatePayout
