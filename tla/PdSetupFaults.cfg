\* Three runs from every start, two faults anywhere, nobody else about.
SPECIFICATION Spec
CONSTANTS
  portal = portal
  records = records
  Names <- MCNames
  Services <- MCServices
  People = {jon, raf}
  SvcIds = {s1, s2, s3}
  GrpIds = {g1, g2, g3}
  Placeholder = Placeholder
  None = None
  Starts <- SharedToo
  Modes <- AllModes
  MaxRuns = 3
  MaxEdits = 0
  MaxFaults = 2
CHECK_DEADLOCK FALSE
INVARIANTS
  TypeOK
  NoPlaceholderRequest
  ParentsFirst
  SeverityNeverLost
  RerunChangesNothing
  DryRunForetells
PROPERTIES
  NeverASecond
