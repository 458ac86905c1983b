SPECIFICATION ApiFairSpec
CONSTANTS
  None = None
  c1 = c1
  c2 = c2
  alice = alice
  bob = bob
  train1 = train1
  bill1 = bill1
  topup1 = topup1
  Users <- MCUsers
  Service <- MCService
  Owner <- MCOwner
  Amount <- MCAmount
  Cases <- TwoCases
  Txns <- TrainTxn
  Complaints <- TrainComplaints
  Worlds <- TrainWorlds
  WorldMoves = {"refund", "provider", "bank"}
  Faults = {"timeout", "crash"}
  MaxRetries = 1
INVARIANTS
  TypeOK
  RegistersAgree
  NoMoneyWithoutApproval
  MoneyIsJustified
  OneMoneyDraftPerTransaction
  DuplicateHasOriginal
  ReportedDraftIsStored
PROPERTIES
  DecidedIsFinal
  MoneyDraftsAreKept
  ImplementsProtocol
  RequestReturns
CHECK_DEADLOCK FALSE
