----------------------------- MODULE WorkerState -----------------------------
(***************************************************************************)
(* scripts/gen_home.py, what the home page says of a background worker:    *)
(* its lines reach Loki through Alloy, Loki's ruler records them every     *)
(* 30 s, Prometheus keeps what it records, and the page and the alerts     *)
(* read that. Time goes by in intervals of 15 s: a line is as old as the   *)
(* intervals that went by after its own, and every evaluation and every    *)
(* look at the page falls between two intervals. One odd line stands for   *)
(* an ERROR line of the worker and for a freeze line of records, which the *)
(* rules read each their own way. Some service logs in every interval.     *)
(* Left out: the drains and auth's not-ready lines, a Prometheus that      *)
(* restarts, and lines Alloy gives up on.                                  *)
(***************************************************************************)
EXTENDS Naturals

CONSTANTS
  Amber, Red,     \* a worker's limits, in intervals
  Schedule,       \* a worker on time reports at least every so many intervals
  ErrorsFor,      \* how long an ERROR line makes a worker erroring
  FreezeLook,     \* how far back the ruler looks for a freeze line
  FreezeShown,    \* how long a freeze stays on the headline
  MaxFaults       \* times Loki refuses lines or the ruler stops in a run

\* WORKERS: the shortest red limit is two minutes, and each is at least 75 s
\* longer than the worker's loop (the publisher's 150 s, over its 50 s). A freeze
\* is shown for a day and looked for ten minutes.
ASSUME LimitsAssumption ==
  /\ {Amber, Red, Schedule, ErrorsFor, FreezeLook, FreezeShown, MaxFaults} \subseteq Nat
  /\ 0 < Schedule /\ Schedule <= Amber /\ Amber < Red
  /\ 8 <= Red /\ Schedule + 5 <= Red
  /\ 2 < FreezeLook /\ FreezeLook <= FreezeShown

VARIABLES
  reports,        \* the ages of the worker's reports
  odd,            \* the age of the odd line
  lag,            \* Loki has the lines this old and older
  taking,         \* whether Loki takes lines
  ruling,         \* whether the ruler evaluates
  due,            \* the evaluations of this moment that are still to come
  phase,          \* intervals since the ruler's turn, one every two intervals
  alertPhase,     \* the phase Prometheus evaluates its alerts at
  beats,          \* what the heartbeat counted at the last turns, newest first
  told,           \* the age of the newest report Prometheus was told of
  counted,        \* the age of the last count of the odd line
  times,          \* how often it was counted
  frozen,         \* the age of the last sample that saw a freeze line
  pending,        \* evaluations in a row the stale alert's expression has held
  faults,
  since,          \* intervals since the worker's report
  steady,         \* intervals it has been on time for
  calm            \* intervals the ruler has run for, with lines on time

worker == <<reports, odd, since, steady>>
pipe == <<lag, taking, ruling, faults, calm>>
recorded == <<beats, told, counted, times, frozen>>
clock == <<phase, alertPhase>>
vars == <<worker, pipe, due, clock, recorded, pending>>

\* An age, which nothing tells apart from a limit on.
UpTo(limit, a) == IF a < limit THEN a ELSE limit
Longest == IF Red < FreezeLook THEN FreezeLook ELSE Red
Oldest == IF ErrorsFor < FreezeLook THEN FreezeLook ELSE ErrorsFor
Long == Red + 8

-----------------------------------------------------------------------------
(* Loki's ruler *)

\* Loki has the lines logged this long ago.
Has(a) == a >= lag

\* Mutant: the last 45 s.
CountedAgesAll == {0, 1, 2}

\* The 30 s that ended 15 s ago.
CountedAges == {1, 2}

Counts(line) == line \in CountedAges /\ Has(line)

\* A worker's last report is looked for over its whole red limit.
ReportAges == 0..(Red - 1)

\* A freeze line is looked for in the last ten minutes.
FreezeAges == 0..(FreezeLook - 1)

Seen == {a \in reports \cap ReportAges : Has(a)}

\* The newest of some lines.
Newest(ages) == {a \in ages : \A b \in ages : a <= b}

\* The ruler's turn: one evaluation of loki_rules, or none while it is stopped.
Evaluate ==
  /\ "rules" \in due
  /\ due' = due \ {"rules"}
  /\ phase' = 0
  /\ beats' = <<IF ~ruling THEN "none" ELSE IF \E a \in CountedAges : Has(a) THEN "lines" ELSE "zero",
                beats[1], beats[2], beats[3]>>
  /\ told' \in IF ruling /\ Seen # {} THEN Newest(Seen) ELSE {told}
  /\ counted' = IF ruling /\ Counts(odd) THEN 0 ELSE counted
  /\ times' = IF ruling /\ Counts(odd) THEN times + 1 ELSE times
  /\ frozen' = IF ruling /\ odd \in FreezeAges /\ Has(odd) THEN 0 ELSE frozen
  /\ UNCHANGED <<worker, pipe, alertPhase, pending>>

-----------------------------------------------------------------------------
(* The page, over what is recorded *)

\* What the heartbeat counted in the last intervals.
Within(intervals) == {beats[n] : n \in {m \in 1..4 : phase + 2 * (m - 1) < intervals}}

\* Mutant: the ruler counted a line in the last half minute.
FreshShort == "lines" \in Within(2)

\* The ruler counted a line in the last minute.
FRESH == "lines" \in Within(4)

\* Nothing written in two minutes; or written in the last one, and no line.
RULES_ABSENT == Within(8) \subseteq {"none"}
NO_LINES == ~FRESH /\ "zero" \in Within(4)

\* No report in the limit; none in an hour, longer than any limit, is as old.
OverRed == told >= Red

erroring == counted < ErrorsFor

\* The worker's card on the map.
worker_state ==
  IF ~FRESH THEN "can't tell"
  ELSE IF OverRed THEN "stale"
  ELSE IF erroring THEN "erroring"
  ELSE IF told >= Amber THEN "late" ELSE "on time"

\* The logs' side of the headline: its problems, which are counted only while
\* lines arrive, and the watchtower's own blindness.
LOKI_PROBLEMS == {p \in {"stale"} : OverRed} \cup {p \in {"erroring"} : erroring}
LOKI_BLIND == {b \in {"rules"} : RULES_ABSENT} \cup {b \in {"lines"} : NO_LINES}

\* Mutant: a side that does not answer has no problem.
NormalUnanswered == (FRESH => LOKI_PROBLEMS = {}) /\ LOKI_BLIND = {}

\* "All running systems normal": the side answers and every count is 0.
Normal == FRESH /\ LOKI_PROBLEMS = {} /\ LOKI_BLIND = {}

\* A freeze line in the last day; the alert has no hold.
StaffAccountFrozen == frozen < FreezeShown

-----------------------------------------------------------------------------
(* The alert *)

\* The evaluations in a row that a minute's hold takes.
Hold == 3

\* Prometheus evaluates WorkerStale.
Alert ==
  /\ "alerts" \in due
  /\ due' = due \ {"alerts"}
  /\ pending' = IF OverRed /\ FRESH THEN UpTo(Hold, pending + 1) ELSE 0
  /\ UNCHANGED <<worker, pipe, clock, recorded>>

WorkerStale == pending >= Hold

-----------------------------------------------------------------------------
(* Time, the worker and what fails *)

\* Lines are at most an interval late while Loki takes them; a backlog is
\* shipped in order, any part of it in an interval.
Shipped(behind) ==
  IF ~taking THEN {UpTo(Longest, behind)}
  ELSE IF behind <= 2 THEN {0, 1} ELSE 0..UpTo(Longest, behind)

\* An interval goes by, with a report or without one, with an odd line or not.
\* A worker reports on its schedule, or it is late first.
Pass(report, oddly) ==
  /\ due = {}
  /\ report => since + 1 = Schedule \/ since >= Amber
  /\ oddly => odd = Oldest /\ times = 0 /\ frozen = FreezeShown
  /\ reports' = {a + 1 : a \in reports \cap 0..(Red - 2)} \cup {a \in {0} : report}
  /\ since' = IF report THEN 0 ELSE UpTo(Long, since + 1)
  /\ steady' = IF since' < Schedule THEN UpTo(Red, steady + 1) ELSE 0
  /\ odd' = IF oddly THEN 0 ELSE UpTo(Oldest, odd + 1)
  /\ lag' \in Shipped(lag + 1)
  /\ calm' = IF ruling /\ lag' <= 1 THEN UpTo(Long, calm + 1) ELSE 0
  /\ phase' = phase + 1
  /\ due' = {e \in {"rules"} : phase' = 2} \cup {e \in {"alerts"} : phase' = alertPhase}
  /\ told' = UpTo(Red, told + 1)
  /\ counted' = UpTo(ErrorsFor, counted + 1)
  /\ frozen' = UpTo(FreezeShown, frozen + 1)
  /\ UNCHANGED <<taking, ruling, faults, alertPhase, beats, times, pending>>

\* Loki refuses lines, and takes them again.
Refuse ==
  /\ taking /\ faults < MaxFaults
  /\ taking' = FALSE /\ faults' = faults + 1
  /\ UNCHANGED <<worker, lag, ruling, calm, due, clock, recorded, pending>>

TakeAgain ==
  /\ ~taking
  /\ taking' = TRUE
  /\ UNCHANGED <<worker, lag, ruling, faults, calm, due, clock, recorded, pending>>

\* The ruler stops, and starts with nothing but what Loki has.
Stop ==
  /\ ruling /\ faults < MaxFaults
  /\ ruling' = FALSE /\ faults' = faults + 1 /\ calm' = 0
  /\ UNCHANGED <<worker, lag, taking, due, clock, recorded, pending>>

Start ==
  /\ ~ruling
  /\ ruling' = TRUE
  /\ UNCHANGED <<worker, lag, taking, faults, calm, due, clock, recorded, pending>>

\* A stack just started: nothing logged and nothing recorded.
Init ==
  /\ reports = {} /\ since = Long /\ steady = 0 /\ odd = Oldest
  /\ lag = 0 /\ taking = TRUE /\ ruling = TRUE /\ faults = 0 /\ calm = 0
  /\ due = {} /\ phase = 0 /\ alertPhase \in 1..2
  /\ beats = <<"none", "none", "none", "none">>
  /\ told = Red /\ counted = ErrorsFor /\ times = 0 /\ frozen = FreezeShown
  /\ pending = 0

Next ==
  \/ \E report, oddly \in BOOLEAN : Pass(report, oddly)
  \/ Evaluate \/ Alert
  \/ Refuse \/ TakeAgain \/ Stop \/ Start

Spec == Init /\ [][Next]_vars

-----------------------------------------------------------------------------
(***************************************************************************)
(* What the home page may say of a worker, whatever Loki, its ruler and    *)
(* the lines' way there do.                                                *)
(***************************************************************************)

\* The moment's turn of the ruler is taken.
Settled == "rules" \notin due

-----------------------------------------------------------------------------

\* The pieces of the state have their types, and neither Loki nor Prometheus
\* knows of a report newer than the worker's last.
TypeOK ==
  /\ reports \in SUBSET ReportAges /\ \A a \in reports : a >= since
  /\ since \in 0..Long /\ steady \in 0..Red /\ odd \in 0..Oldest
  /\ lag \in 0..Longest /\ calm \in 0..Long /\ faults \in 0..MaxFaults
  /\ taking \in BOOLEAN /\ ruling \in BOOLEAN
  /\ due \in SUBSET {"rules", "alerts"} /\ phase \in 0..2 /\ alertPhase \in 1..2
  /\ beats \in [1..4 -> {"none", "zero", "lines"}]
  /\ told \in 0..Red /\ (told >= since \/ told = Red)
  /\ counted \in 0..ErrorsFor /\ frozen \in 0..FreezeShown
  /\ times \in Nat /\ pending \in 0..Hold

\* The comments at FRESH and at loki_rules: a worker that kept its schedule for
\* its red limit is never stale, neither while its lines are refused, nor when
\* they arrive again, nor at the ruler's first evaluation after a stop.
NeverStaleUnheard == steady = Red => worker_state # "stale" /\ ~WorkerStale

\* A worker that reports nothing is stale as soon as its limit is over and
\* lines have arrived for half a minute, and the alert fires by 75 s after.
SilentIsSeen ==
  /\ since >= Red /\ calm >= 2 /\ Settled => worker_state = "stale"
  /\ since >= Red + 5 /\ calm >= 8 /\ due = {} => WorkerStale

\* However late in its interval an ERROR line arrives, the windows count it no
\* more than once.
CountedOnce == times <= 1

\* And they do count it, if nothing fails until they have looked at it: the
\* worker is erroring, or worse.
ErrorIsHeard ==
  odd \in 3..(ErrorsFor - 1) /\ calm > odd /\ Settled => times = 1 /\ worker_state \in {"erroring", "stale"}

\* A freeze line that arrives minutes late, over a stop of the ruler or of
\* Loki, is on the headline by the next evaluation.
FreezeIsShown == odd \in 2..(FreezeLook - 1) /\ calm >= 2 /\ Settled => StaffAccountFrozen

\* The headline is never normal over a worker that has reported nothing for its
\* red limit, whoever else is unheard.
NormalIsReported == Normal => since < Red

\* Nor over silence: it has heard of a line of the last minute and a half.
NormalIsHeard == Normal => lag < 6

\* The page recovers: with lines arriving for 45 s it names no blindness and
\* answers, whenever it is looked at. Nor is a worker on time late then, but where
\* its limit is no longer than its schedule and what went by since the ruler's turn.
AnswersAgain ==
  calm >= 3 =>
    /\ LOKI_BLIND = {} /\ worker_state # "can't tell"
    /\ steady = Red /\ Schedule + phase < Amber => worker_state \in {"on time", "erroring"}

\* What the home page says of a worker: never that one on its schedule is
\* stale, for whatever refused lines and stops of the ruler; that a silent one
\* is, that an error and a freeze happened, and nothing of a silence but that.
WorkerIsTold ==
  /\ TypeOK
  /\ NeverStaleUnheard /\ SilentIsSeen /\ ErrorIsHeard /\ FreezeIsShown
  /\ NormalIsHeard /\ AnswersAgain
=============================================================================
