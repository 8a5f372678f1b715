SPECIFICATION Spec
CONSTANTS
  Content = {calm, held}
  Poll = 2
  Heartbeat = 5
  MinPoll = 1
  Watch = 1
  MaxBackoff = 8
  EphorStates = {TRUE, FALSE}
  TakesCommands = TRUE
  Snapshots = {TRUE, FALSE}
  RoundTime = 1
  MaxRetry = 3
  MaxAge = 11
  MaxFaults = 2
SYMMETRY Symmetry
INVARIANTS
  HeartbeatKept
  ChangesArrive
  RefreshServed
  CatchesUp
