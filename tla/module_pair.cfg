SPECIFICATION Spec
CONSTANTS
  o1 = o1  o2 = o2  l1 = l1  p1 = p1
  None = None
  Tables <- TwoTables
  MainTable = "Order"
  Master <- Pair
  Level <- PairLevel
  Position <- PairPosition
  Records <- PairRecords
  TableOf <- PairTableOf
  Stored = {o1,l1}
  DbKeys = {}
  NeverEmpty = {}
  MaxPending = 2
  MaxListed = 2
  Calls = {"update","delete","assignMaster","load","loadByFields","clear"}
  Faults = {"roundTrip"}
INVARIANT TypeOK
INVARIANT PlainSavesGoThrough
PROPERTY ModuleSaveIsAtomic
PROPERTY LoadBringsTheWholeGraph
PROPERTY ModuleSaveTerminates
CHECK_DEADLOCK FALSE
