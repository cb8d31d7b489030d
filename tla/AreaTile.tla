------------------------------- MODULE AreaTile -------------------------------
(***************************************************************************)
(* scripts/cloud_dashboards.py, area_rows, area_transformations and        *)
(* area_count: one area of the home page over its last minutes, as its     *)
(* tile counts the problems and as the table "What's wrong" lists them.    *)
(* One series stands for all those whose points are problems as they are   *)
(* (5xx, crashes, kills, failed runs, checks and backups), and one warm    *)
(* service and one private check for all. Left out: the tile while its     *)
(* database is stopped on purpose (quieten).                               *)
(***************************************************************************)
EXTENDS DashboardFields

CONSTANTS
  Minutes,      \* minutes the panels read
  Spell,        \* minutes without an instance that are a problem
  MaxOdd        \* series of a minute that are not as they should be

VARIABLES
  checks,       \* whether the area has the uptime and private checks
  window        \* the minutes the panels read, oldest first

vars == <<checks, window>>

-----------------------------------------------------------------------------
(* The minutes: what arrived of each series *)

\* The values a series may have in a minute, the first as it should be; a
\* database's point, a region's answer and an instance count read 1 or 0.
Values == [errors |-> <<Nothing, 1>>, db |-> <<1, 0, Nothing>>, own |-> <<1, 0, Nothing>>,
           others |-> <<1, Nothing>>, passing |-> <<1, 0, Nothing>>, uptime |-> <<1, Nothing>>]
Series == DOMAIN Values
Checked == {"passing", "uptime"}    \* read only where the area has the checks

AMinute == {m \in [Series -> {Nothing, 0, 1}] : \A s \in Series : m[s] \in {Values[s][n] : n \in DOMAIN Values[s]}}
Odd(m) == {s \in Series : m[s] # Values[s][1]}

\* A minute of the run: few series at odds, or none arrived.
AMinuteSeen == {m \in AMinute : Cardinality(Odd(m)) <= MaxOdd \/ \A s \in Series : ~Arrived(m[s])}

Read(m) == [s \in Series |-> IF checks \/ s \notin Checked THEN m[s] ELSE Nothing]

\* How many points arrived of a series: one, or it has no count.
PointsOf(v) == IF Arrived(v) THEN 1 ELSE Nothing

-----------------------------------------------------------------------------
(* A minute's rows *)

\* Mutant: a minute without a point is down.
DbDownSilent(m) == Minus(1, SumArrived(<<m.db>>))

\* A minute the database wrote a point in and was not up.
DbDown(m) == Minus(AtLeastOne(PointsOf(m.db)), m.db)

ProjectRan(m) == AtLeastOne(SumOfPoints(<<PointsOf(m.own), PointsOf(m.others)>>))

\* A minute the project reported instance counts in and this service none.
NoInstance(m) == Minus(ProjectRan(m), AtLeastOne(SumArrived(<<m.own>>)))

\* A minute a region answered in and none passed.
InsideFailing(m) == Minus(AtLeastOne(PointsOf(m.passing)), AtLeastOne(m.passing))

\* Every point of the uptime checks, or of the database; turned negative.
Reporting(m) == Times(IF checks THEN m.uptime ELSE PointsOf(m.db), -1)

Rows(m) == [errors |-> m.errors, down |-> DbDown(m), none |-> NoInstance(m),
            failing |-> InsideFailing(m), reporting |-> Reporting(m)]
Names == {"errors", "down", "none", "failing", "reporting"}

-----------------------------------------------------------------------------
(* The panels *)

\* Each row summed over the minutes; a series that never arrived has no row.
Totals(w) == LET rows == [n \in DOMAIN w |-> Rows(w[n])]
             IN [name \in Names |-> SumOfPoints([n \in DOMAIN w |-> rows[n][name]])]

\* The table: what is not 0.
Listed(w) == LET totals == Totals(w)
             IN {name \in Names : Arrived(totals[name]) /\ totals[name] # 0}

\* A row's total; a warm service's in whole spells.
Whole(name, total) == IF name = "none" THEN FloorOf(total, Spell) ELSE total

\* 1 for a row above 0, 0 for one that is not.
Problem(name, total) == AtLeastOne(AboveZero(Whole(name, total)))

\* The rows the tile counts.
Problems(w) == LET totals == Totals(w)
               IN {name \in Names : Problem(name, totals[name]) = 1}

\* Mutant: no row reads as no problem.
SaysNothingIsGood(w) == IF Problems(w) = {} THEN "all good" ELSE "problems"

\* What the tile says, and counts where it says problems.
Says(w) ==
  IF \A n \in DOMAIN w, name \in Names : ~Arrived(Rows(w[n])[name]) THEN "can't tell"
  ELSE IF Problems(w) = {} THEN "all good" ELSE "problems"

-----------------------------------------------------------------------------
(* The area *)

Init == checks \in BOOLEAN /\ window = <<>>

\* A minute passes; what of it arrives is read for as long as the panels read.
Next == \E m \in AMinuteSeen :
  /\ window' = IF Len(window) < Minutes THEN Append(window, Read(m)) ELSE Append(Tail(window), Read(m))
  /\ UNCHANGED checks

Spec == Init /\ [][Next]_vars

-----------------------------------------------------------------------------
(***************************************************************************)
(* What an area's tile and its table promise, in the words of the tile's   *)
(* description and of area_rows.                                           *)
(***************************************************************************)

Has(s, v) == {n \in DOMAIN window : window[n][s] = v}

\* What the points of the window tell, one by one: anything that counts errors,
\* a database point that is down, an answer in which no region passed, a warm
\* service that had none in a spell's minutes of those its project reported.
Told ==
  {p \in {"errors"} : Has("errors", 1) # {}}
    \cup {p \in {"down"} : Has("db", 0) # {}}
    \cup {p \in {"failing"} : Has("passing", 0) # {}}
    \cup {p \in {"none"} :
           Cardinality(Has("own", 0) \cup (Has("own", Nothing) \cap Has("others", 1))) >= Spell}

-----------------------------------------------------------------------------

\* The tile counts exactly what the points tell: nothing that went wrong is
\* averaged, cancelled or hidden by another row, and the reporting row, however
\* many points it counts, is no problem.
CountsWhatIsTold == Problems(window) = Told

\* The latest minute's points are the ones that are late: one that has not
\* arrived never makes a problem of its own, with it the tile counts the same
\* problems or more. Only a warm service's own count is read as none where it is
\* missing, and that is a problem only by the spell.
LatePointsAddNothing ==
  \A s \in Series \ {"own"} : window # <<>> =>
    Problems([window EXCEPT ![Len(window)][s] = Nothing]) \subseteq Problems(window)

\* The tile and the table agree: each problem counted is a row of the table
\* above 0, and each such row is counted but a warm service's below a spell.
TileAsTable ==
  LET above == {name \in Listed(window) : Totals(window)[name] > 0}
  IN /\ Problems(window) \subseteq above
     /\ above \ Problems(window) \subseteq {"none"}

\* Blind is never green: where nothing arrived in the window the tile cannot
\* tell and the table is empty, and a tile that says all is good has seen a
\* point of something.
BlindIsNotGood ==
  /\ (\A n \in DOMAIN window, s \in Series : ~Arrived(window[n][s])) <=> Says(window) = "can't tell"
  /\ Says(window) = "can't tell" => Listed(window) = {}
  /\ Says(window) = "all good" => Told = {}

\* What the tile and its table promise, all of it.
Safe ==
  /\ CountsWhatIsTold /\ LatePointsAddNothing /\ TileAsTable /\ BlindIsNotGood
=============================================================================
