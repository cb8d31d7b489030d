----------------------------- MODULE Monitoring -----------------------------
(***************************************************************************)
(* What the monitoring makes of the stack: the home page's rules on a      *)
(* worker's lines, Alloy's scrub of a line, the probe rules and alerts,    *)
(* and the tiles of the cloud pages. They read different series, so one of *)
(* them runs in each behaviour.                                            *)
(***************************************************************************)
EXTENDS Integers, WorkerState

CONSTANTS
  \* a line of a log
  Lines,
  \* the probes
  Checks, DbChecks, Hour, MaxMissed,
  \* the tiles
  Nothing,
  Minutes, Spell, MaxOdd,
  Day, NightHours, MarginHours, BACKUP_HOURS, POINTS, MaxFailures,
  PITR_MINUTES, PITR_RAN_MINUTES, PITR_FAILED_MINUTES, Period,
  Quarter, BelowFor, AbsentFor

ASSUME ChecksAssumption == DbChecks \subseteq Checks /\ Hour \in Nat /\ Hour > 3

\* No value is no number.
ASSUME NothingAssumption == Nothing \notin Int

\* The tiles read something.
ASSUME AreaAssumption == Minutes \in Nat \ {0} /\ Spell \in Nat \ {0}
ASSUME ServiceAssumption ==
  Quarter \in Nat \ {0} /\ BelowFor \in Nat \ {0} /\ AbsentFor \in Nat \ {0}

\* cloud_dashboards.py says how the backups tile's window is chosen: a day and a
\* night at least, which two nights' backups are never apart; and what is left of
\* it beside a day is longer than the alert is shut (30 hours, nights of 4, an
\* hour's margin).
ASSUME BackupAssumption ==
  /\ Day \in Nat /\ NightHours \in Nat \ {0} /\ POINTS \in Nat \ {0} /\ BACKUP_HOURS \in Nat
  /\ MarginHours \in Nat /\ MaxFailures \in Nat
  /\ NightHours + MarginHours < Day
  /\ BACKUP_HOURS >= Day + NightHours /\ BACKUP_HOURS - Day > NightHours + MarginHours

\* The logs tile judges on more than half of its range, and the alert's sums and
\* its hold cover all of it (30 minutes, 20, and sums of 10).
ASSUME LogsAssumption ==
  /\ PITR_MINUTES \in Nat /\ PITR_RAN_MINUTES \in Nat \ {0} /\ PITR_FAILED_MINUTES \in Nat \ {0}
  /\ Period \in Nat \ {0}
  /\ PITR_RAN_MINUTES < PITR_MINUTES /\ PITR_MINUTES < 2 * PITR_RAN_MINUTES
  /\ PITR_MINUTES <= PITR_RAN_MINUTES + Period

VARIABLES
  part,    \* the one that runs
  \* LogScrub
  fate, stage, first, line, read, meta,
  \* ProbeState
  expected, last, passed, failed, sampled, groups_due, running, state, down,
  degraded,
  \* AreaTile
  checks, window,
  \* BackupTile
  hours, hour, backed, missed, backup_said,
  \* PitrTile
  archive_slots, archive_said,
  \* ServiceTile
  warm, inside, slots, service_said

Scrub == INSTANCE LogScrub WITH
  at <- stage
Probe == INSTANCE ProbeState WITH
  due <- groups_due
Area == INSTANCE AreaTile
Backup == INSTANCE BackupTile WITH
  said <- backup_said
Logs == INSTANCE PitrTile WITH
  slots <- archive_slots, said <- archive_said
Service == INSTANCE ServiceTile WITH
  said <- service_said

scrub_vars == <<fate, stage, first, line, read, meta>>
probe_vars == <<expected, last, passed, failed, sampled, groups_due, running,
      state, down, degraded>>
area_vars == <<checks, window>>
backup_vars == <<hours, hour, backed, missed, backup_said>>
logs_vars == <<archive_slots, archive_said>>
service_vars == <<warm, inside, slots, service_said>>
all == <<part, vars, scrub_vars, probe_vars, area_vars, backup_vars,
      logs_vars, service_vars>>

ASSUME LinesAssumption == \A l \in Lines : Scrub!IsLine(l)

-----------------------------------------------------------------------------

\* One runs, from any of its starts; the variables of the others stay as they are.
Begin ==
  /\ part \in {"worker", "scrub", "probe", "area", "backup", "logs", "service"}
  /\ Init /\ (part # "worker" => alertPhase = 1)
  /\ IF part = "scrub" THEN Scrub!Init
     ELSE fate = "none" /\ stage = 0 /\ first = <<>> /\ line = <<>> /\ read = <<>> /\ meta = <<>>
  /\ IF part = "probe" THEN Probe!Init
     ELSE expected = FALSE /\ last = <<>> /\ passed = <<>> /\ failed = <<>> /\ sampled = <<>>
          /\ groups_due = {} /\ running = "none" /\ state = <<>> /\ down = <<>> /\ degraded = <<>>
  /\ IF part = "area" THEN Area!Init
     ELSE checks = FALSE /\ window = <<>>
  /\ IF part = "backup" THEN Backup!Init
     ELSE hours = <<>> /\ hour = 0 /\ backed = FALSE /\ missed = FALSE /\ backup_said = "none"
  /\ IF part = "logs" THEN Logs!Init
     ELSE archive_slots = <<>> /\ archive_said = "none"
  /\ IF part = "service" THEN Service!Init
     ELSE warm = FALSE /\ inside = FALSE /\ slots = <<>> /\ service_said = "none"

WatchWorker == part = "worker" /\ Next
  /\ UNCHANGED <<part, scrub_vars, probe_vars, area_vars, backup_vars,
       logs_vars, service_vars>>
ScrubLine == part = "scrub" /\ Scrub!Next
  /\ UNCHANGED <<part, vars, probe_vars, area_vars, backup_vars, logs_vars,
       service_vars>>
WatchProbes == part = "probe" /\ Probe!Next
  /\ UNCHANGED <<part, vars, scrub_vars, area_vars, backup_vars, logs_vars,
       service_vars>>
ReadArea == part = "area" /\ Area!Next
  /\ UNCHANGED <<part, vars, scrub_vars, probe_vars, backup_vars, logs_vars,
       service_vars>>
ReadBackups == part = "backup" /\ Backup!Next
  /\ UNCHANGED <<part, vars, scrub_vars, probe_vars, area_vars, logs_vars,
       service_vars>>
ReadArchives == part = "logs" /\ Logs!Next
  /\ UNCHANGED <<part, vars, scrub_vars, probe_vars, area_vars, backup_vars,
       service_vars>>
ReadService == part = "service" /\ Service!Next
  /\ UNCHANGED <<part, vars, scrub_vars, probe_vars, area_vars, backup_vars,
       logs_vars>>

Step ==
  \/ WatchWorker \/ ScrubLine \/ WatchProbes \/ ReadArea \/ ReadBackups
  \/ ReadArchives \/ ReadService

MonitoringSpec == Begin /\ [][Step]_all

-----------------------------------------------------------------------------
(* What they promise *)

\* Of a line that Alloy ships nothing listed is left, at whatever depth and in
\* whatever spacing, whole or torn; what is not listed is where it was.
ScrubIsComplete == part = "scrub" => Scrub!Safe

\* A check an alert fires for is shown as failing, one that failed three probes
\* is seen to, and a stack that is off raises nothing.
ProbesAgree == part = "probe" => Probe!Safe

\* A tile of the cloud pages and the alerts beside it tell the same: no page
\* beside a tile that reads well, and nothing that arrives late, or not at all,
\* is read as good. One page comes before its tile: of a service kept warm whose
\* counts stop, ten minutes after the last, the tile reads that last count for
\* the fifteen minutes of its range (AbsentIsDown).
TilesAgree ==
  /\ part = "area" => Area!Safe
  /\ part = "backup" => Backup!Safe
  /\ part = "logs" => Logs!Safe
  /\ part = "service" => Service!Safe
=============================================================================
