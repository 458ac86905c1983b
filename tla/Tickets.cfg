SPECIFICATION Spec
CONSTANTS
  None = None
  Users <- TwoUsers
  Complaints <- SomeComplaints
  MockLLM = FALSE
  Amounts <- SomeAmounts
  Debits <- SomeDebits
CHECK_DEADLOCK FALSE
INVARIANTS RegexIntakeIsComplete TicketAmounts MismatchEscalates
