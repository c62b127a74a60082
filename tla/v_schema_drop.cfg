SPECIFICATION Spec
CONSTANTS
  Objects <- Two
  DependsOn <- TwoDepend
  Schemas <- AllListed
  Versions <- ThreeVersions
  Releases <- FirstRelease
  Model <- Growing
  Seeded = {}
  MaxCalls = 2
  Retries = FALSE
  Faults = {}
  MaxFaults = 0
INVARIANT DropLeavesNothing
