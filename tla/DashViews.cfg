SPECIFICATION Spec
CONSTANTS
  Edition = {"old", "again", "foreign"}
  SnapshotOf <- MCSnapshotOf
  EditorialOf <- MCEditorialOf
  Observed <- MCObserved
  Generated <- MCGenerated
  Contract <- MCContract
  Contracts = {"v1"}
  Readable = {"old", "again", "foreign"}
  Sound = {"old", "again"}
  Slack = 1
  MaxEvidence = 1
  MaxNow = 2
  MaxFaults = 1
  Hold = {"b", "g", "h"}
  SurfaceOf <- MCSurfaceOf
  Gates <- MCGates
  Setups <- MCSetups
  Limit = 2
  FrogReply = {"down", "fresh"}
  SizeOf <- MCSizeOf
  FrogSize = 2
  WorkSize = {1, 2}
  Cap = 4
INVARIANTS
  AnswerFits
  PendingIsShown
  ShownWasPending
  OptionalYields
  PushedFits
PROPERTIES
  WholeEditions
  EditionArrives
