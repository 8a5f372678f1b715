SPECIFICATION Spec
CONSTANTS
  Cmd = {"approve", "deny", "defer", "junk"}
  Hold = {"g"}
  Keyed = {}
  Kind <- MCKind
  Target <- MCTarget
  Form <- MCForm
  FirstDeadline <- MCDeadline
  DeferBy = 1
  MaxCommands = 2
  MaxRemembered = 2
  MaxNow = 2
  MaxFaults = 1
INVARIANTS
  EffectsAccounted
  AppliedOnceUnlessForgotten
  ReportsAgree
PROPERTIES
  NoOverturn
  KeepsTrail
