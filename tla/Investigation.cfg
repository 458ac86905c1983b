SPECIFICATION Spec
CONSTANTS
  None = None
  Staff = {ann, ben}
  Txns <- FourTxns
  People <- ThreePeople
  Owner <- Owners
  Histories <- Records
  Conversations <- Chats
  MaxDecisions = 1
INVARIANTS ApprovalHasItsReason
SYMMETRY Colleagues
CHECK_DEADLOCK FALSE
