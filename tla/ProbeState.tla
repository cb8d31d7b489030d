------------------------------ MODULE ProbeState ------------------------------
(***************************************************************************)
(* prometheus/rules/local.yml: what Prometheus makes of one stack's        *)
(* probes. Every 30 s the checks are scraped and each of the three rule    *)
(* groups takes its turn, in any order; the probe-state group reads what   *)
(* the stack-state group recorded at its own turn. Left out: PostgresDown, *)
(* and the text of the alerts.                                             *)
(***************************************************************************)
EXTENDS Naturals, Sequences

CONSTANTS
  Checks,         \* the stack's checks
  DbChecks,       \* those whose body says how the database is (probe "db")
  Hour,           \* scrapes in an hour
  MaxMissed       \* scrapes in a row a check may miss

\* What a scrape of a check brings: it passes, it answers 2xx and fails all the
\* same, it fails otherwise, or there is no sample.
Outcomes == {"pass", "db down", "fail", "missed"}

VARIABLES
  expected,       \* whether the stack is tpa, which is expected to run
  last,           \* each check's last three scrapes, newest first
  passed,         \* scrapes since each check passed, up to an hour
  failed,         \* scrapes in a row each check failed, up to Hold
  sampled,        \* scrapes since each check had a sample, up to an hour
  due,            \* the rule groups whose turn is still to come
  running,        \* stack:probe_success:max_over_time1h, as recorded
  state,          \* probe:state of each check, as recorded
  down, degraded  \* turns in a row ProbeDown's, DatabaseReportedDown's expression held

scraped == <<expected, last, passed, failed, sampled>>
vars == <<scraped, due, running, state, down, degraded>>

Groups == {"stack-state", "probe-state", "probes"}

\* Mutant: no hold.
HoldNone == 1

\* Two minutes' hold: the fifth turn in a row that an alert's expression holds.
Hold == 5

\* An age, which nothing tells apart from an hour on.
Older(age) == IF age < Hour THEN age + 1 ELSE Hour

-----------------------------------------------------------------------------
(* The expressions *)

\* max by (stack) of the last hour's probe_success: 1, 0, or no series.
StackSuccess ==
  IF \E c \in Checks : passed[c] < Hour THEN "1"
  ELSE IF \E c \in Checks : sampled[c] < Hour THEN "0" ELSE "absent"

\* Mutant: two probes.
ProbesInWindowTwo == 1..2

\* The probes in 90 s.
ProbesInWindow == 1..3

Seen(c) == {last[c][n] : n \in ProbesInWindow} \ {"missed"}

\* A db check that answered 2xx, whatever its body says.
Answers2xx(c) == c \in DbChecks /\ last[c][1] \in {"pass", "db down"}

\* Failed by its body alone, as its last sample has it.
Degraded(c) == "pass" \notin Seen(c) /\ Answers2xx(c)

\* No pass of the stack recorded for an hour; tpa is expected to run.
NotRunning == ~expected /\ running # "1"

\* The states in the order of the expression's operands.
StateOf(c) ==
  IF Seen(c) = {} THEN "absent"
  ELSE IF NotRunning THEN "not running"
  ELSE IF "pass" \in Seen(c) THEN "up"
  ELSE IF Degraded(c) THEN "degraded" ELSE "down"

\* probe_success == 0 at the moment, on a stack that passed within the hour.
Failing(c) == last[c][1] \in {"fail", "db down"} /\ StackSuccess = "1"

-----------------------------------------------------------------------------
(* The groups' turns *)

Turn(group) == group \in due /\ due' = due \ {group}

StackTurn ==
  /\ Turn("stack-state")
  /\ running' = StackSuccess
  /\ UNCHANGED <<scraped, state, down, degraded>>

StateTurn ==
  /\ Turn("probe-state")
  /\ state' = [c \in Checks |-> StateOf(c)]
  /\ UNCHANGED <<scraped, running, down, degraded>>

\* How long an expression has held.
Held(turns, holds) ==
  IF ~holds THEN 0 ELSE IF turns < Hold THEN turns + 1 ELSE Hold

AlertTurn ==
  /\ Turn("probes")
  /\ down' = [c \in Checks |-> Held(down[c], Failing(c) /\ ~Answers2xx(c))]
  /\ degraded' = [c \in Checks |-> Held(degraded[c], Failing(c) /\ Answers2xx(c))]
  /\ UNCHANGED <<scraped, running, state>>

ProbeDown(c) == down[c] = Hold
DatabaseReportedDown(c) == degraded[c] = Hold

-----------------------------------------------------------------------------
(* The scrapes *)

MayMiss(c) == \E n \in 1..MaxMissed : last[c][n] # "missed"

Scrape(outcome) ==
  /\ due = {}
  /\ \A c \in Checks : outcome[c] = "missed" => MayMiss(c)
  /\ \A c \in Checks \ DbChecks : outcome[c] # "db down"
  /\ last' = [c \in Checks |-> <<outcome[c], last[c][1], last[c][2]>>]
  /\ passed' = [c \in Checks |-> IF outcome[c] = "pass" THEN 0 ELSE Older(passed[c])]
  /\ failed' = [c \in Checks |-> Held(failed[c], outcome[c] \in {"fail", "db down"})]
  /\ sampled' = [c \in Checks |-> IF outcome[c] # "missed" THEN 0 ELSE Older(sampled[c])]
  /\ due' = Groups
  /\ UNCHANGED <<expected, running, state, down, degraded>>

\* Prometheus just started: nothing scraped and nothing recorded.
Init ==
  /\ last = [c \in Checks |-> <<"missed", "missed", "missed">>]
  /\ expected \in BOOLEAN
  /\ passed = [c \in Checks |-> Hour] /\ failed = [c \in Checks |-> 0] /\ sampled = [c \in Checks |-> Hour]
  /\ due = {}
  /\ running = "absent" /\ state = [c \in Checks |-> "absent"]
  /\ down = [c \in Checks |-> 0] /\ degraded = [c \in Checks |-> 0]

Next ==
  \/ \E outcome \in [Checks -> Outcomes] : Scrape(outcome)
  \/ StackTurn \/ StateTurn \/ AlertTurn

Spec == Init /\ [][Next]_vars

-----------------------------------------------------------------------------
(***************************************************************************)
(* What the alerts and the home page's checks promise, in the words of     *)
(* prometheus/rules/local.yml.                                             *)
(***************************************************************************)

\* Every group has taken its turn since the scrape.
Settled == due = {}

Fires(c) == ProbeDown(c) \/ DatabaseReportedDown(c)

-----------------------------------------------------------------------------

\* The pieces of the state have their types; no check passed without a sample.
TypeOK ==
  /\ \A c \in Checks : last[c] \in [1..3 -> Outcomes]
  /\ \A c \in Checks : passed[c] \in 0..Hour /\ sampled[c] \in 0..passed[c]
  /\ due \subseteq Groups /\ running \in {"1", "0", "absent"}
  /\ \A c \in Checks : state[c] \in {"absent", "not running", "up", "degraded", "down"}
  /\ \A c \in Checks : {failed[c], down[c], degraded[c]} \subseteq 0..Hold

\* "A stack with no successful probe in the last hour is not running and raises
\* nothing": no alert stands on the passes of a longer ago.
OffIsQuiet == Settled /\ (\E c \in Checks : Fires(c)) => \E c \in Checks : passed[c] < Hour

\* What the headline leaves to the map and its list (SHOWN_ALERTS): a check an
\* alert fires for is there as failing, and never as not running or as up.
AlertIsShown == Settled => \A c \in Checks : Fires(c) => state[c] \in {"down", "degraded"}

\* A stack reads as not running on its first pass in an hour at most, while the
\* group that records it is behind; tpa never does.
NotRunningIsOff ==
  Settled => \A c \in Checks : state[c] = "not running" => ~expected /\ \A d \in Checks : passed[d] \in {0, Hour}

\* "One lost probe is not an outage": a check of a running stack that passed in
\* one of its last three probes is up.
LostProbeIsUp ==
  Settled => \A c \in Checks : passed[c] < 3 =>
    state[c] = "up" \/ (state[c] = "not running" /\ passed[c] = 0)

\* A check that failed its last three probes is seen to, whichever way it
\* failed: on a stack that passed within the hour, and on tpa always.
FailureIsSeen ==
  Settled => \A c \in Checks :
    failed[c] >= 3 /\ (expected \/ \E d \in Checks : passed[d] \in 1..(Hour - 1)) => state[c] \in {"down", "degraded"}

\* What the alerts and the checks promise, all of it.
Safe ==
  /\ TypeOK /\ OffIsQuiet /\ AlertIsShown /\ NotRunningIsOff /\ LostProbeIsUp
  /\ FailureIsSeen
=============================================================================
