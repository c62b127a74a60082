SPECIFICATION Spec
CONSTANTS
  Objects <- Three
  DependsOn <- ThreeDepend
  Schemas <- SomeListed
  Versions <- ThreeVersions
  Releases <- SomeReleases
  Model <- Growing
  Seeded <- OrdersSeeded
  MaxCalls = 2
  Retries = FALSE
  Faults = {"crash","roundTrip","check"}
  MaxFaults = 1
INVARIANT TypeOK
INVARIANT TablesAreWhole
INVARIANT FirstCallsAreAccepted
INVARIANT ExecuteMakesTheSchema
INVARIANT FreshDropLeavesNothing
INVARIANT RowsMatchTables
PROPERTY CallsEnd
