SPECIFICATION Spec
CONSTANTS
  r1 = r1  r2 = r2  r3 = r3  v1 = v1  v2 = v2
  None = None
  Records <- ThreeRecords
  Vals <- TwoValues
  Keys <- Keys5
  MaxKey = 5
  MaxData = 3
  MaxPending = 3
  InitialRows = 1
  BatchSize = 2
  DbGenerated = TRUE
  Engines = {"SQLServer", "PostgreSQL", "MySQL"}
  Faults = {"roundTrip"}
  Calls = {"assign"}
INVARIANT InsertedRecordsFindTheirRows
INVARIANT BatchesAddUp
PROPERTY SaveIsAtomic
CHECK_DEADLOCK FALSE
SYMMETRY Symmetry3
