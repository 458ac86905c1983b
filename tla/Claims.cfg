SPECIFICATION Spec
CONSTANTS
  NoValue = NoValue
  Fields <- AmountOnly
  FieldOrder <- AmountOrder
  Values <- AmountValues
  Records <- AmountRecords
  MaxHistory = 3
INVARIANTS
  LatestIsLive
  ContradictionsBacked
PROPERTIES
  HistoryKept
CHECK_DEADLOCK FALSE
