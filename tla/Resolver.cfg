SPECIFICATION Spec
CHECK_DEADLOCK FALSE
CONSTANTS
  None = None
  Me = me
  TxnIds = {"t1", "t2"}
  Accounts <- SmallAccounts
  Readings <- SmallReadings
  Faults = {"by_txn", "by_order", "list", "scan", "account"}
INVARIANTS
  OwnRecordOnly
  AmountIsAnswered
  MismatchHonest
  NearIsDisputed
