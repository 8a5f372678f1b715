SPECIFICATION Spec
CHECK_DEADLOCK FALSE
CONSTANTS
  Session = {"talker", "other"}
  Requests <- MCRequests
  Capacity = 1
  MaxSessions = 1
  MaxFaults = 1
INVARIANTS
  ChildrenBounded
  WholeAnswer
  WholeRequest
PROPERTIES
  AnswersArrive
  SlotComesBack
