\* A service made by a run cut short, on an account without the add-on.
SPECIFICATION Spec
CONSTANTS
  portal = portal
  records = records
  Names <- MCNames
  Services <- MCServices
  People = {jon, raf}
  SvcIds = {s1, s2, s3}
  GrpIds = {g1, g2, g3}
  Placeholder = Placeholder
  None = None
  Starts <- FreshAccounts
  Modes <- ApplyOnly
  MaxRuns = 2
  MaxEdits = 0
  MaxFaults = 1
CHECK_DEADLOCK FALSE
INVARIANTS
  TitlesLostNeverSeverity
