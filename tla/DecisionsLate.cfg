SPECIFICATION Spec
CONSTANTS
  Cmd = {"approve", "defer"}
  Hold = {"g"}
  Keyed = {}
  Kind <- MCKind
  Target <- MCTarget
  Form <- MCForm
  FirstDeadline <- MCDeadline
  DeferBy = 1
  MaxCommands = 2
  MaxRemembered = 2
  MaxNow = 2
  MaxFaults = 0
PROPERTIES
  NeverApprovedLate
