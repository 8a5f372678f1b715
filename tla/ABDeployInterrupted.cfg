SPECIFICATION Spec
CONSTANTS
  Run = {r1}
  Image = {old, new, broken}
  Works = {old, new}
  Loaded = {old, new, broken}
  FirstPin = old
  NoImage = none
  MaxFaults = 3
INVARIANTS
  InterruptionIsRecorded
