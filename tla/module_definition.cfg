SPECIFICATION Spec
CONSTANTS
  MainTable = "Order"
  Details = {"Line", "Part", "Note", "Batch"}
  Keyed = {"Note"}
  MaxModules = 2
  None = None
INVARIANT LinksFollowTheDefinition
INVARIANT KeyFieldsFollowTheOrder
INVARIANT LevelsCountTheMasters
CHECK_DEADLOCK FALSE
