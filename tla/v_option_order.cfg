SPECIFICATION Spec
CONSTANTS
  MainTable = "Order"
  Details = {"Line", "Part", "Note", "Batch"}
  Keyed = {"Note"}
  MaxModules = 1
  None = None
INVARIANT MastersAreInsertedFirst
CHECK_DEADLOCK FALSE
