------------------------------ MODULE BackupTile ------------------------------
(***************************************************************************)
(* scripts/cloud_dashboards.py, backups_status: an instance's backups tile *)
(* over the last BACKUP_HOURS hours, as the hours pass. A counter's series *)
(* has a point only in an hour that counted something, and an instance     *)
(* reports no point while it is stopped. Left out: the tile while its      *)
(* database is stopped on purpose (quieten).                               *)
(***************************************************************************)
EXTENDS DashboardFields

CONSTANTS
  Day,                \* hours of a day
  NightHours,         \* the backup window is a day's first hours
  MarginHours,        \* the alert judges from the window's end plus these
  BACKUP_HOURS,
  POINTS,             \* an instance reports in an hour (minutes of it)
  MaxFailures         \* entries of failed backups in an hour

VARIABLES
  hours,              \* the hours the tile reads, oldest first
  hour,               \* of the day, the next one
  backed,             \* whether tonight has a backup; one a night
  missed,             \* whether a night ended without one since the last: no variable of the code
  said                \* what the tile said an hour ago: no variable of the code

vars == <<hours, hour, backed, missed, said>>

HourOf(minutes, backups, failed) == [minutes |-> minutes, backups |-> backups, failed |-> failed]

-----------------------------------------------------------------------------
(* The tile *)

Points(field) == [n \in 1..Len(hours) |-> hours[n][field]]

MinutesKept == SumOfPoints(Points("minutes"))
Backups == SumOfPoints(Points("backups"))

\* newest: the hour of the newest count, no value where there is none.
Newest(points) ==
  LET there == {n \in 1..Len(points) : Arrived(points[n]) /\ points[n] > 0}
  IN IF there = {} THEN Nothing ELSE Max(there)

\* Mutant: the window counts as run once it has begun.
RanTheWindowBegun == FloorOf(MinutesKept, POINTS)

\* Whether the instance reported all but an hour of the window's hours.
RanTheWindow == FloorOf(MinutesKept, (BACKUP_HOURS - 1) * POINTS)

BackedUp == AtLeastOne(SumArrived(<<Backups>>))

\* The newest failure is later than the newest backup.
AFailureSince ==
  AtLeastOne(AboveZero(Minus(SumArrived(<<Newest(Points("failed"))>>),
                             SumArrived(<<Newest(Points("backups"))>>))))

Missing == Times(RanTheWindow, Minus(1, BackedUp))

\* The worst of the three; a tile with nothing to read has none.
Status ==
  IF \A n \in 1..Len(hours) : hours[n] = HourOf(Nothing, Nothing, Nothing) THEN Nothing
  ELSE MaxArrived(<<BackedUp, Times(AFailureSince, 2), Times(Missing, 4)>>)

BACKUP_STATUS == [code \in {0, 1, 2, 4} |->
  CASE code = 0 -> "no backup yet" [] code = 1 -> "backed up" [] code = 2 -> "a backup failed" [] OTHER -> "none"]

\* What the tile says.
Says == LET status == Status IN IF status = Nothing THEN "not reporting" ELSE BACKUP_STATUS[status]

\* The alert <db>-backup-missing, as it stood some hours ago: from the window's
\* end and the margin until the next window's start, no backup in the last day
\* of an instance that reported all of it but an hour.
BackupMissing(ago) ==
  LET last == Len(hours) - ago
      day == SubSeq(hours, last - Day + 1, last)
  IN /\ (hour - ago) % Day >= NightHours + MarginHours
     /\ last >= Day
     /\ \A n \in 1..Day : ~Arrived(day[n].backups)
     /\ SumArrived([n \in 1..Day |-> day[n].minutes]) >= (Day - 1) * POINTS

-----------------------------------------------------------------------------
(* The instance *)

Init == hours = <<>> /\ hour \in 0..(Day - 1) /\ backed = FALSE /\ missed = FALSE /\ said = Says

InNight == hour < NightHours

\* The hour is read for BACKUP_HOURS hours.
Read(h) == hours' = IF Len(hours) < BACKUP_HOURS THEN Append(hours, h) ELSE Append(Tail(hours), h)

\* The clock goes on; a night that ends without a backup was missed.
Pass(success) ==
  /\ hour' = (hour + 1) % Day
  /\ backed' = (hour' # 0 /\ (backed \/ success))
  /\ missed' = IF success THEN FALSE ELSE missed \/ (hour = NightHours - 1 /\ ~backed)

\* An hour in which the instance runs, for all of it or part of it: a night's
\* backup may be tried, fail and be tried again; another operation's error is
\* counted as a failed backup too.
Runs == \E minutes \in 1..POINTS, success \in {0, 1}, failures \in 0..MaxFailures :
  /\ success = 1 => InNight /\ ~backed
  /\ Read(HourOf(minutes, IF success = 0 THEN Nothing ELSE success, IF failures = 0 THEN Nothing ELSE failures))
  /\ Pass(success = 1)

Stopped == Read(HourOf(Nothing, Nothing, Nothing)) /\ Pass(FALSE)

Next == said' = Says /\ (Runs \/ Stopped)

Spec == Init /\ [][Next]_vars

-----------------------------------------------------------------------------
(***************************************************************************)
(* What the backups tile promises, in the words of its description.        *)
(***************************************************************************)

Succeeded == {n \in 1..Len(hours) : Arrived(hours[n].backups)}
HadFailure == {n \in 1..Len(hours) : Arrived(hours[n].failed)}
Reported == {n \in 1..Len(hours) : Arrived(hours[n].minutes)}

\* Hours of the window the instance ran for all of.
RanWhole == {n \in Reported : hours[n].minutes = POINTS}

-----------------------------------------------------------------------------

\* "none" is said of an instance that had no backup though it ran all of the
\* window but an hour, and always of it; never of one started since.
NoneAsSaid ==
  /\ Says = "none" => Succeeded = {} /\ Cardinality(Reported) >= BACKUP_HOURS - 1
  /\ Cardinality(RanWhole) >= BACKUP_HOURS - 1 /\ Succeeded = {} => Says = "none"

\* A healthy instance never reads "none": the window is longer than two
\* successful nights' backups can be apart, so where it reads "none" a night
\* passed without one.
NoneMeansMissed == Says = "none" => missed

\* The page comes before the tile: where an instance reads "none" its alert
\* opened since the tile's window was a day long, though it is shut while a
\* night's backup may still come.
NoneIsPaged == Says = "none" => \E ago \in 0..(BACKUP_HOURS - Day) : BackupMissing(ago)

\* "a backup failed" is said while the newest failure is later than the newest
\* success, each by the hour: a failed attempt that was made good reads backed
\* up, however many failures the window holds.
FailedAsSaid ==
  /\ Says = "a backup failed" => \E f \in HadFailure : \A s \in Succeeded : s < f
  /\ Says = "backed up" => Succeeded # {} /\ \A f \in HadFailure : \E s \in Succeeded : s >= f

\* Once a failure is told it stays told until a backup succeeds or it is too
\* old to read: it never turns into backed up by itself.
FailureStays == said = "a backup failed" /\ Says = "backed up" => Arrived(hours[Len(hours)].backups)

\* What the tile promises, all of it.
Safe ==
  /\ NoneAsSaid /\ NoneMeansMissed /\ NoneIsPaged /\ FailedAsSaid
  /\ FailureStays
=============================================================================
