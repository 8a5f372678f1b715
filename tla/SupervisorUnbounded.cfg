SPECIFICATION Spec
CONSTANTS
  Order <- Suite
  Probes <- SuiteAsked
  Fallible = {"weftmark", "gateway"}
  Attempts = 2
  CommandTime = 1
  StopTimeout = 2
  PodmanTimeout = 4
  MaxRequests = 1
  MaxFaults = 0
INVARIANTS
  StopIsBounded
CHECK_DEADLOCK FALSE
