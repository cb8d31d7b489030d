\* connectors: its limits of 60 s and 120 s as they are, a pass in every 30 s;
\* the 10 minutes a freeze line is looked for, the 15 an ERROR line and the
\* 24 hours a freeze stand for, scaled; Loki or the ruler fails once. Lines of
\* every shape of up to five nodes. Two checks and an hour of eight scrapes. Of
\* the tiles, three minutes and a spell of two; days of three hours and a window
\* of six; slots of five minutes, thirty for the archives, fifteen for a service.
SPECIFICATION MonitoringSpec
CONSTANTS
  Amber = 4
  Red = 8
  Schedule = 2
  ErrorsFor = 6
  FreezeLook = 5
  FreezeShown = 7
  MaxFaults = 1
  Lines <- MCLines
  Checks = {ready, db}
  DbChecks = {db}
  Hour = 8
  MaxMissed = 2
  Nothing = Nothing
  Minutes = 3
  Spell = 2
  MaxOdd = 1
  Day = 3
  NightHours = 1
  MarginHours = 1
  BACKUP_HOURS = 6
  POINTS = 2
  MaxFailures = 1
  PITR_MINUTES = 6
  PITR_RAN_MINUTES = 4
  PITR_FAILED_MINUTES = 3
  Period = 2
  Quarter = 3
  BelowFor = 1
  AbsentFor = 2
CHECK_DEADLOCK FALSE
INVARIANTS CountedOnce NormalIsReported WorkerIsTold ScrubIsComplete ProbesAgree TilesAgree
