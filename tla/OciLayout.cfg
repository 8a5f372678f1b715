SPECIFICATION Spec
CHECK_DEADLOCK FALSE
CONSTANTS
  Publisher = {"p", "q"}
  Acquirer = {"a", "b"}
  Record = {"r", "s", "bad"}
  Valid = {"r", "s"}
  PayloadOf <- MCPayloadOf
  ManifestOf <- MCManifestOf
  Config = "config"
  Image = {"image", "other"}
  ImageOf <- MCImageOf
  PartsOf <- MCPartsOf
  Acceptable = {"image", "other"}
  SubjectOf <- MCSubjectOf
  NoSubject = "none"
  Malformed = {"other"}
  Misdescribed = {"image"}
  MaxDescriptors = 2
  MaxKills = 1
INVARIANTS
  IndexLeadsSomewhere
  AcquiredWhole
  HandoffStays
  
