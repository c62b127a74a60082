SPECIFICATION Spec
CONSTANTS
  o1 = o1  o2 = o2  l1 = l1  p1 = p1
  None = None
  Tables <- ThreeTables
  MainTable = "Order"
  Master <- Chain
  Level <- ChainLevel
  Position <- MastersFirst
  Records <- ChainRecords
  TableOf <- ChainTableOf
  Stored = {o1,l1,p1}
  DbKeys = {}
  NeverEmpty = {"Part"}
  MaxPending = 2
  MaxListed = 2
  Calls = {"update","delete","load"}
  Faults = {"roundTrip"}
INVARIANT ConsistentSavesGoThrough
PROPERTY ModuleSaveIsAtomic
PROPERTY LoadBringsTheWholeGraph
CHECK_DEADLOCK FALSE
