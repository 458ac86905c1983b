SPECIFICATION FairSpec
CONSTANTS
  None = None
  c1 = c1
  c2 = c2
  alice = alice
  bob = bob
  train1 = train1
  bill1 = bill1
  topup1 = topup1
  Users <- MCUsers
  Service <- MCService
  Owner <- MCOwner
  Amount <- MCAmount
  Cases <- TwoCases
  Txns <- BillAndTopup
  Complaints <- MixedComplaints
  Worlds <- FewWorlds
  WorldMoves = {}
  Faults = {"fetch"}
  MaxRetries = 3
PROPERTIES
  WorkIsBounded
  ApprovedMoneyLands
CHECK_DEADLOCK FALSE
