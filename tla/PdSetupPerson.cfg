\* Two runs, one edit by hand and one fault, anywhere; a run that is started ends.
SPECIFICATION FairSpec
CONSTANTS
  portal = portal
  records = records
  Names <- MCNames
  Services <- MCServices
  People = {jon, raf}
  SvcIds = {s1, s2, s3}
  GrpIds = {g1, g2, g3}
  Placeholder = Placeholder
  None = None
  Starts <- FewBuilt
  Modes <- DryAndApply
  MaxRuns = 2
  MaxEdits = 1
  MaxFaults = 1
CHECK_DEADLOCK FALSE
INVARIANTS
  ExitZeroMeansMatch
  RefusesOnlyWhatBlocks
PROPERTIES
  SharedSettingKept
  RunEnds
