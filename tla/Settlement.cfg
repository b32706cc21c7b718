CONSTANTS
  Rides = {r1}
  Calls = {c1, c2}
  BatchSize = 2
  GiveUp = 1
  MaxFaults = 2
  Sandbox = TRUE
  None = None
SPECIFICATION FairSpec
INVARIANTS TypeOK CompletedIsPaid ProcessingIsTimed PaidHasReceipt
  ReceiptIsOfPaid NothingLost FewDuplicates InOrder
PROPERTIES PaymentsMoveForward PaymentSettles PassengerIsTold RowsAreClosed
  ImplementsAtLeastOnce
CHECK_DEADLOCK FALSE
