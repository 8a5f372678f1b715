SPECIFICATION Spec
CONSTANTS
  Request = {r1, r2}
  MaxTokens = 2
  MaxNow = 2
  MaxFaults = 2
  SessionTTL = 1
  Jwt = {"guest"}
  Claims <- MCClaims
  AllowedSubjects = {}
  RequiredScopes = {"read"}
SYMMETRY Interchangeable
INVARIANTS
  StaysOut
  RefusedForCause
  NeverLockedOut
