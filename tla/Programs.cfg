\* A step of eight ticks and an egress budget of six for two targets; journeys
\* of four to six steps; a wait of two ticks, events up to four late; pages of
\* two of three objects, which change twice; command lines of up to five words;
\* several hundred small images; two starts over one image; lists of two keys.
SPECIFICATION ProgramsSpec
CONSTANTS
  None = None
  Budget = 8
  CONNECT_ATTEMPT_S = 3
  CONNECT_PAUSE_S = 1
  MaxAddresses = 2
  MaxResolve = 4
  Overrun = 1
  Targets = 2
  EgressBudget = 6
  EgressResolve = 1
  EGRESS_ATTEMPT_S = 2
  EGRESS_PAUSE_S = 2
  EGRESS_READY = 2
  Journeys <- MCJourneys
  Settings = {"config"}
  Gates = {"ops_shell", "crm_shell"}
  SignIns = {"login"}
  Statuses = {101, 200, 204, 302, 401, 403, 423, 429, 503}
  Paused = TRUE
  Runs <- MCRuns
  Wait = 2
  MaxCall = 1
  MaxNow = 14
  MaxFaults = 1
  Delay = 4
  Jobs = {"list", "cursor", "slack", "find", "write"}
  Objects = {1, 2, 3}
  Named = {2, 3}
  Page = 2
  MaxChanges = 2
  Argvs <- MCArgvs
  Names = {"beta", "beta2", "production"}
  Directories <- MCDirectories
  Images <- MCImages
  Purge <- MCPurge
  Forbidden <- MCForbidden
  NoLogin <- MCNoLogin
  GrafanaImages <- MCGrafanaImages
  ContainerSettings <- MCContainerSettings
  KNOWN_PAUSED_JOBS = {"sweep", "importer"}
  KNOWN_NOT_DEPLOYED_JOBS = {"importer"}
  KNOWN_DATABASES = {"tpa-db"}
  CC_ONLY_PAGES = {"callcentre"}
  MaxStarts = 2
  Usable <- MCUsable
  Kid <- MCKid
  MaxKeys = 2
  NotJson = NotJson
CHECK_DEADLOCK FALSE
INVARIANTS FitsTheStep LineIsTrue PagerDutyIsTold KeysAreTheirs ImageIsWhole
PROPERTIES IsConnecting ConnectionsAreTold EveryRunEnds
