SPECIFICATION Spec
CONSTANTS
  t1 = t1
  t2 = t2
  r1 = r1
  r2 = r2
  r3 = r3
  Tables <- Two
  Records <- Three
  TableOf <- Owner
  None = None
  MaxTx = 4
  BatchSize = 1
  Calls = {"async", "overlap", "direct", "disconnect"}
  FaultModels <- Worst
INVARIANTS TypeOK OpenTransactionIsLast CommittedOnce UnitIsHeldBack
PROPERTIES GoesStaleOnlyByLoss SuccessMeansSaved OwnTransactionsEnd
CHECK_DEADLOCK FALSE
