SPECIFICATION Spec
CONSTANTS
  r1 = r1  r2 = r2  r3 = r3  v1 = v1  v2 = v2
  None = None
  Records <- TwoRecords
  Vals <- OneValue
  Keys <- Keys2
  MaxKey = 2
  MaxData = 2
  MaxPending = 2
  InitialRows = 1
  BatchSize = 1
  DbGenerated = FALSE
  Engines = {"SQLServer"}
  Faults = {"roundTrip","cancel","beforeSave","afterSave","beforeModify","afterModify"}
  Calls = {"update","delete","load","assignKey"}
INVARIANT TypeOK
INVARIANT BatchesAddUp
PROPERTY SaveIsAtomic
PROPERTY SaveTerminates
CHECK_DEADLOCK FALSE
