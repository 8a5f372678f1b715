SPECIFICATION Spec
CONSTANTS
  Order <- Suite
  Probes <- SuiteAsked
  Fallible = {"weftmark", "gateway"}
  Attempts = 2
  CommandTime = 1
  StopTimeout = 2
  PodmanTimeout = 4
  MaxRequests = 2
  MaxFaults = 2
INVARIANTS
  NothingCutOff
  StatusTellsWhy
  HealthyIsTrue
  KilledOnlyIfUnknown
PROPERTIES
  ExitOfOneEndsAll
CHECK_DEADLOCK FALSE
