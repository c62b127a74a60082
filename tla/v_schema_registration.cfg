SPECIFICATION Spec
CONSTANTS
  Objects <- Two
  DependsOn <- TwoDepend
  Schemas <- AllListed
  Versions <- ThreeVersions
  Releases <- FirstRelease
  Model <- Growing
  Seeded = {}
  MaxCalls = 2
  Retries = FALSE
  Faults = {"crash"}
  MaxFaults = 1
INVARIANT ExecutedObjectsAreRegistered
