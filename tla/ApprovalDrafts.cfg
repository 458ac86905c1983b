SPECIFICATION Spec
CONSTANTS
  None = None
  c1 = c1
  c2 = c2
  alice = alice
  bob = bob
  train1 = train1
  bill1 = bill1
  topup1 = topup1
  Users <- MCUsers
  Service <- MCService
  Owner <- MCOwner
  Amount <- MCAmount
  Cases <- OneCase
  Txns <- TrainTxn
  Complaints <- TrainComplaints
  Worlds <- RefundableWorld
  WorldMoves = {}
  Faults = {"timeout"}
  MaxRetries = 0
INVARIANT
  ApprovalCreatesDraft
CHECK_DEADLOCK FALSE
