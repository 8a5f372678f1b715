SPECIFICATION Spec
CONSTANTS
  Cmd = {"deferB", "review", "anonymous", "list"}
  Hold = {"g", "b"}
  Keyed = {"b"}
  Kind <- MCKind
  Target <- MCTarget
  Form <- MCForm
  FirstDeadline <- MCDeadline
  DeferBy = 1
  MaxCommands = 2
  MaxRemembered = 1
  MaxNow = 0
  MaxFaults = 1
INVARIANTS
  OkIsRecorded
  RefusalsAreTrue
PROPERTIES
  EveryDecisionReported
