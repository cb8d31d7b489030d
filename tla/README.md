# Verification of trellis-watchtower

TLA+ modules for the parts of trellis-watchtower that keep state, talk to
another system and can be interrupted, and for those that decide what others
may see; TLC configurations that check them on
small instances; and TLAPS proofs for every value of the constants. Every
definition is translated from the code under `src/`; `PROJECT.json` names, for
each one, the lines it stands for.

## 1. The system and its parts

trellis-watchtower observes a benefits platform (TPA): locally with
Prometheus, Loki, Alloy and Grafana, in the cloud with Grafana over Cloud
Monitoring, with synthetic sign-ins as Cloud Run jobs, and with PagerDuty for
paging. Its own logic is in the programs below. They share no memory: they
meet in external state (the PagerDuty account, the site's sessions, log lines,
recorded series, files in an image).

| Part | State it keeps or changes | Operations | What is hard |
|---|---|---|---|
| **PagerDuty reconciler** `scripts/pagerduty/pd_setup.py`, `pdlib.py` | the account: team, members, schedule, policy, services with integration, grouping and orchestration, business service, notification rules; within a run: ids, one listing of services, the fallback it learned, the report | a dry run or `--apply`, with `--add-rules`, `--retry-intelligent-grouping` | twenty-odd writes with no transaction: refused, answered late or not at all, cut short between any two; a person edits the same account; the orchestration is written before it is known whether it is declined |
| **Synthetic journeys** `synthetics/` | the run's step, cookie jar, bearer, deadline; on the site a session and a lockout budget | `staff-sign-in`, `ops-desk`, `crm` | lost answers, budgets inside budgets, a code with a life of its own, a session that must be ended whatever happened |
| **Terraform key gate** `tf_with_keys.py` | none of its own; hands keys to a child | check the command, read keys, exec | which command lines pass |
| **PagerDuty client** `pdlib.py` | the account, through one request after another | list by offset, by cursor; find; write; retry | an account that changes between two pages; a write retried |
| **Test event** `pd_test_event.py` | one incident in PagerDuty | trigger, poll, resolve, poll | events processed late; a failure that leaves the incident open |
| **Log scrub pipeline** `alloy/config.alloy` | a line and what was extracted from it | ordered stages | one replacement per stage; failing closed |
| **Probe state and alerts** `prometheus/rules/local.yml` | probe results in windows of 90 s, 2 min and 1 h | recording and alerting rules | windows of different lengths; absent against false |
| **Home page rules** `gen_home.py`, `loki/rules`, `prometheus/rules/home.yml` | recorded series with delays | ruler evaluation, gating on a heartbeat | silence of a source read as health |
| **Dashboard rendering** `cloud/render-dashboards.sh` | the directory Grafana reads | settle tokens, choose variants, replace the set | crash between removing and moving; precedence of lists |
| **IAP key pinning** `refresh_iap_keys.sh` | `cloud/iap_keys.json` | compare, write | rotation; a write in place |
| **Image stripping** `image_strip.py` | the image's packages, alternatives, set-id bits | purge, tidy, check | order of removals |
| **Catalogue** `catalogue.py` | none (files in, files out) | parse, name metrics | a YAML reader of its own; two roles, one project |
| **Generators** `cloud_dashboards.py`, `gen_security.py` | none; what they write decides over series as time goes by | tiles, tables, layout | a point that is late, absent or stale read as health or as an outage; a tile and the alert it stands for |
| **Linter** `dashboard_lint.py` | none | judge queries, rules, files | a query read token by token must be judged as what evaluates it reads it |
| **Check scripts, compose, Makefile** | none | run the above | - |

How they interact: the reconciler makes the services whose integration keys
the key gate reads and hands to Terraform, and whose orchestration the test
event exercises; a journey's result line is a log line from which Cloud
Monitoring pages through those services; Alloy feeds Loki, whose ruler feeds
Prometheus, whose rules feed the pages the generators write, the linter checks
and the entrypoint renders.

What makes each part correct, in a line: the reconciler must be safe to repeat,
never lose severity and never lie in its exit status; a journey must end its
session, send nothing twice or too late, and page through one channel only; the
key gate must pass no other command and no other environment; the test event
must leave no incident open; the pipeline must ship no listed field; probe
state must call nothing "not running" that is down; log-derived answers must
not read silence as zero; a tile must say what its alert says; the linter must
pass no query that returns what is not listed; rendering must leave a whole
set; a stripped image must keep what stays; pinning must never lose the keys.

## 2. Modules

| Module | Models |
|---|---|
| `PagerDutyAccount` | the account as the reconciler reads and writes it, what PagerDuty does with a request, and what a person may edit (external: taken from the requests of `pd_setup.py` and `tests/pagerduty/fakes.py`) |
| `PdSetup` | runs of `pd_setup.py` over that account |
| `PdSetupProperties`, `MCPdSetup` | its types, safety, liveness, and two claims of the documentation that fail; starting accounts and argument lists for TLC |
| `PdSetupProofs`, `PdSetupOutcomeProofs` | its proofs: what no step may do; what an outcome says and what a dry run foretells (section 5) |
| `SyntheticJourney`, `SyntheticProofs` | one run of a journey: steps, requests, clock, code, session, and its properties; their proofs |
| **`Programs`**, `MCPrograms` | the programs below, composed |
| `ProgramsProofs` | what dial (with its refinement), the egress step, the result line, the key gate, the stripper, the entrypoint, the pinning and, with `PagerDutyCallProofs`, the PagerDuty calls and the test event promise, proved |
| `Connecting` | abstract: what `dial` and `_egress` both promise of the connections they try |
| `Dial`, `Egress` | `dial` and `_connect_once`; `_egress` and `_reach`; each implements `Connecting` |
| `ResultLine` | the end of a run: `Run.timed` and `check`, `run`, `render`, the exit |
| `PagerDutyRequests` | one call of `pdlib.PagerDuty` over `http_json`, request by request |
| `TestEvent` | a run of `pd_test_event.py` beside a PagerDuty that works events off late |
| `PagerDutyCallProofs` | the invariants of these two, and that their steps keep them |
| `KeyGate` | `tf_with_keys.py` over command lines |
| `ImageStrip` | `image_strip.py` over an image |
| `IapKeys` | runs of `refresh_iap_keys.sh` over the pinned file |
| `RenderDashboards` | `cloud/render-dashboards.sh`, stopped and started again |
| **`Monitoring`**, `MCMonitoring` | what reads the logs, probes and series, composed |
| `LogScrub` | the stages of Alloy's `loki.process "scrub"` over a line |
| `ProbeState` | `prometheus/rules/local.yml` as its groups take their turns |
| `WorkerState` | the home page's rules for a background worker: Alloy, Loki's ruler, Prometheus, the page |
| `MonitoringProofs` | what the worker's and the probes' rules, the scrub and the tiles promise, proved |
| `BackupTile`, `PitrTile`, `ServiceTile`, `AreaTile` | the four kinds of tile of the cloud home page that decide something, beside their alerts |
| `DashboardFields` | Grafana's calculated fields, as the generator uses them; shared by the tiles |
| **`DashboardTools`**, `MCDashboardTools` | the layout, the linter and the catalogue reader, composed |
| `PanelLayout` | where the panels of a page go |
| `QueryLabels`, `Pipelines` | the linter on one query: its aggregations, its LogQL stages |
| `CloudLint`, `LocalLint`, `LokiRules`, `LintFiles` | the linter on a cloud dashboard, a local one, a rule file, all files together |
| `DashboardPages` | which file each page is written from; shared by `RenderDashboards` and `LintFiles` |
| `CatalogueTree` | `mapping_tree`, beside the YAML it is given |
| `DashboardToolsProofs`, `DashboardQueryProofs` | what the layout, the linter and the catalogue reader promise, proved; the second, what the linter promises of one query |

A component's module states, after its specification, what the component
promises, part by part, and `Safe`, all of it; the reconciler's promises are in
`PdSetupProperties`, and a journey's are one by one. A `Mutant:` is a form the
code could have had by a slip; it stands before the definition it would replace and is used by
nothing.

**The composites.** The programs of one composite share no state and never run
in one process, so interleaving them would multiply the states and add no
behaviour of any of them. A composite therefore chooses in its initial state
which one runs (`program`, `part`, `tool`), gives the others fixed values, and
has one action for each: a behaviour of the composite is a behaviour of one
component, and every behaviour of each is there. `DashboardTools`, `Programs`
and `Monitoring` extend the component whose theorems they carry (`PanelLayout`,
`Dial`, `WorkerState`) and take the rest by `INSTANCE ... WITH`. Their
properties say of all components of a kind what each one's `Safe` says.
`LintFiles` and `RenderDashboards` do share one thing, which page a file is for,
and take it from `DashboardPages`.

### 2.1 The reconciler

`run` holds the local variables of one run of `main()`; `run.at` is where it
stands in the chain of `ensure_*` calls, and each of those calls, or each pass
of a loop in one, is an action: `EnsureTeam`, `ListMembers`, `EnsureMember`,
`EnsureSchedule`, `EnsurePolicy`, `ListServices`, `EnsureService`,
`EnsureIntegration`, `EnsureGrouping`, `EnsureOrchestration`, `EnsureActive`,
`ReportSlack`, `EnsureBusiness`, `ListSupports`, `EnsureSupport`, `EnsureRule`,
`End`. An action's branches are those of the code: found as designed, found
different, absent, found twice (`Refused`), left to a person (`refuse`).

A write is two steps. The `ensure_*` action hands `Plan.change` a request
(`req`), and without `--apply` only a line of the report. The answer is one of
`Done`, `Warned` then `PutBack`, `FallBack` (grouping), `RefuseGone`
(PagerDuty no longer has what the request names), `Refuse`, `LoseAnswer`
(carried out, and the answer is an error to the run) or `Abort` (the run is cut
short, the write carried out or not). Between any two steps a person may change
the account (`EditByHand`, one of `Edits`).

An object of the account is its comparison with the design: `match`, `drift`,
`absent`, `twins` (two of the name), `layers` (a schedule whose active layers
are not one). An orchestration is one of four: empty, a person's own, the
severity rules, the design. Ids are kept where the code's behaviour depends on
them: of services and of grouping settings.

`quiet`, `smooth`, `severe`, `warned`, `settled` and `plan` are history
variables: they decide nothing and let a property relate a run's end to its
beginning or to an earlier run.

### 2.2 A journey

`Journey(j)` is the sequence of a journey's steps; `n` is where the run is.
Steps that send nothing are `ReadSettings`, `Egress` and `Mint`. A request goes
through `Send` (budget, dial), `NotReached` or `Reach` (the site handles it, and
may make, end or refuse a session), `HeadersArrive`, then `BodyRead` or `Lost`.
Time passes only where the code waits. `FailHolding` is every way out: inside
the `try` of `_signed_in_to_auth` and `_signed_in_to_crm`, a run that holds a
session goes to `QuietSignOut` first. `Report` is the line and the status: it is
written, and the status is 1 of the runner's own errors alone, or it cannot be
written, and the status is 1.

The site is external: `Handlings` lists what IAP, auth, the CRM and the
metadata server may answer, what each answer makes of the session, and when a
code is late.

### 2.3 The other programs

`Dial` has an action for each thing the loop of `dial` and the loop over
addresses in `_connect_once` do (`Attempt`, `Resolve`, `Opens`, `Connects`,
`Refuses`, `Drops`, `Raise`, `Pause`, `Return`...), with a clock of its own; `Egress` the
rounds of `_egress`. Both refine `Connecting`, which knows only a clock, a
state and the number of tries: a connection is begun inside the budget, and
giving up needs the budget spent but for a grace. `ResultLine` follows
`Run.timed`, `check`, the token's fetch, `run` and `render` until the exit.

`TestEvent` has `main()`'s calls in order and, beside them, PagerDuty: `Process`
works off the oldest event, `Joined` groups another alert in, a person may
`Acknowledge` or `ResolveByHand`; `CallFails` and `Interrupt` end a run anywhere.
`PagerDutyRequests` pages through listings while others `Add` and `Delete`.
`KeyGate` goes through a command line as `main()` does, split, options, command,
directory, flags, environment, keys. `ImageStrip` is `main()` step by step over
an image of packages, places, links, set-id bits and accounts. `RenderDashboards`
is the script's loop and its swap of the directory, stopped between any two
commands; `IapKeys` a run's fetch, comparison and write in place, beside a
Google that changes its list.

### 2.4 The monitoring

`WorkerState` moves by intervals of 15 s. The worker logs, Alloy ships late by
up to an interval or for as long as Loki refuses (`Refuse`, `TakeAgain`), the
ruler evaluates every second interval unless it is stopped (`Stop`, `Start`),
and the page's words (`worker_state`, `Normal`, `LOKI_BLIND`) are operators over
what was recorded. `ProbeState` lets the three rule groups take their turns in
any order after a scrape and keeps, for each check, the recent outcomes its
windows see. `LogScrub` takes one line through every stage; a line is a tree of
keys and words in one of four forms, possibly torn. The tiles slide a window
over points that may arrive or not and compute what Grafana computes from it.

### 2.5 The dashboards

`QueryLabels` walks a query's tokens with the shared entries the code keeps on
its stack; the query comes with the tree it was written from: which bracket
closes which, from which follows what every token is, and what the answer
returns. So what the walk finds can be compared with what the query answers.
`Pipelines` cuts a LogQL query's pipelines, each of which comes with the place
where it stands, and judges their stages beside what Loki makes of a line. `CloudLint`, `LocalLint` and `LokiRules` apply the linter's rules panel by
panel or line by line, beside what Grafana would send and Cloud Monitoring
answer. `LintFiles` is `collect` and `main`. `PanelLayout` places panels one
after another; `CatalogueTree` reads each line as it is written.

## 3. Runs and what they show

| Run | Checks | Instance | States |
|---|---|---|---|
| `PdSetupFaults` | `TypeOK`, `NoPlaceholderRequest`, `ParentsFirst`, `SeverityNeverLost`, `RerunChangesNothing`, `NeverASecond`, `DryRunForetells` | 9 starting accounts, one with a setting that two services share; all 8 argument lists, 3 runs, 2 faults | 3.8 M |
| `PdSetupPerson` | `ExitZeroMeansMatch`, `RefusesOnlyWhatBlocks`, `SharedSettingKept`, `RunEnds` | 7 starting accounts, one with a shared setting; dry runs and applies, 2 runs, 1 edit by hand, 1 fault; fairness | 2.4 M |
| `PdSetupWarned` | `WarnedIsRefused` fails | 2 applies, 1 fault | |
| `PdSetupTitles` | `TitlesLostNeverSeverity` fails | 2 applies, 1 fault | |
| `SyntheticJourney` | `TypeOK`, `SessionSignedOut`, `NeverSentTwice`, `NeverCharged`, `PassLeavesNoSession`, `PagesOnce`, `FitsItsBudgets`, `NothingPastDeadline`, `RunExits` | the 3 journeys, every start in a code's step, fairness | 1.0 M |
| `SyntheticBody` | `ArrivedSignsOut` fails | auth's two journeys | |
| `SyntheticCsrf` | `InJarSignsOut` fails | auth's two journeys | |
| `DashboardTools` | `NothingOverlaps`, `LaidOutAsWritten`, `QueriesShowListedLabels`, `PanelsShowListedLabels`, `FilesFitTogether`, `CatalogueReadAsWritten` | pages of 5 panels on 4 columns, queries three calls deep, dashboards two changes from a good one, two rules, 6 files, catalogues of 6 lines | 0.9 M |
| `PickedAnswers` | `EveryAnswerListed` fails | as `DashboardTools` | |
| `Programs` | `FitsTheStep`, `LineIsTrue`, `PagerDutyIsTold`, `KeysAreTheirs`, `ImageIsWhole`, `IsConnecting`, `ConnectionsAreTold`, `EveryRunEnds` | below; fairness | 1.0 M |
| `TestEventOpen` | `SentIsResolved` fails | as `Programs` | |
| `Monitoring` | `CountedOnce`, `NormalIsReported`, `WorkerIsTold`, `ScrubIsComplete`, `ProbesAgree`, `TilesAgree` | below | 2.8 M |

`IsConnecting` and `Egr!IsConnecting` (inside `ConnectionsAreTold`) are the
refinement of `Connecting`. The six violations are disagreements between the
code and what its docstrings or `docs/PAGERDUTY.md` say; `PROJECT.json` quotes
both under "findings".

1. *A put-back that fails is later taken for in order.* The first `--apply`
   says refused and asks for a re-run; the re-run compares the declined
   orchestration with the design, finds it equal, prints ok and exits 0.
2. *A service whose creation was interrupted never gets its severity rules* on
   an account without Advanced Event Orchestration: only a service made in the
   same run gets the severity rules alone, any other gets back what it had,
   which was nothing.
3. *A session is left behind when the sign-in's body is lost.* The cookies are
   taken after the body, not before it.
4. *A session is left behind without a CSRF cookie.* The quiet sign-out needs
   the cookie whose absence it is there to clean up after.
5. *A test event may stay open.* `pd_test_event.py` resolves what it sent only
   where every read succeeds; one that fails while it polls ends the run with
   nothing sent to resolve the incident.
6. *What only picks or orders series counts as an aggregation.* The linter takes
   `topk`, `sort` and their like for aggregations (`dashboard_lint.py:162`), and
   they keep every label of what they are given, where `:555` says every label a
   query can return is listed. `QueriesShowListedLabels` promises that only of a
   query whose series are all reduced.

### 3.1 Disagreements without a run

While the modules were written the code and a comment of its own also differed
in these places. The models do as the code does; the properties leave each case
out by name, and say so where they do.

- `pd_setup.py:332` with `:746`: "--apply makes the creates and updates below". A
  dry run names every service of a grouping setting that several of them share
  and that is not as designed; the first one's write rights the setting for all,
  and --apply finds the others ok. `DryRunForetells` allows for exactly this.
- `dashboard_lint.py:850` reads a rule's labels only below `labels:`; written
  after it as a mapping they are not read (`:45`). `EveryLabelListed` is about
  labels in a block; the run has rules with inline ones.
- `dashboard_lint.py:700` judges no query whose datasource neither it nor its
  panel names, though Grafana sends it to the default one (`:19`, `:24`,
  `datasources.yml:22`). `EveryQueryJudged` is about queries that are `Addressed`;
  the run has panels with others.
- `cloud_dashboards.py:1259`: a service that reports no count at all is paged
  for after ten minutes and may read up until its last count is fifteen minutes
  old (`:892`, `:1245`). `AbsentIsDown` says how long the tile and its page may
  differ, and over what.
- `gen_home.py:122`: auth-publisher, which prints once per 50 s loop
  (`docs/SIGNALS.md:75`), reads late, over 75 s, before many of the ruler's turns,
  which are 30 s apart, though it is on time (`:316`). `AnswersAgain` promises
  "on time" only of a worker whose amber limit is longer than its schedule and
  what went by since the turn.
- `prometheus/rules/local.yml:27`: after a gap in the scrapes one failed probe
  is the whole window, and the check is down at once (`:24`).
  `FailureIsSeen` and `LostProbeIsUp` hold all the same.
- `prometheus/rules/local.yml:57`: a database check that fails now by no answer
  and now by its answer never fires either alert (`:6`). `FailureIsSeen` is
  about the state the page shows.
- `refresh_iap_keys.sh:93`: after a write that was stopped half way every further
  run ends with a traceback until the file is restored by hand (`:12`).
  `PinnedIsUsable` and `CheckTells` are about a file that can be read.
- `config.alloy:120`: a line that begins with a brace and is not JSON passes the
  stage that drops what is not JSON (`:116`). `ScrubIsComplete` says what such a
  line may still hold.

### 3.2 Bounds

**Bounds of the reconciler.** Two services (of the design's three) show every
relation between services: one made and one found, two that share a setting, a
listing older than the other's write. Two people do the same for members and
rules. Three service ids leave one for a service of another name or a second of
the same; three settings likewise. `HasRoom` stops a create when ids run out:
then only the faults of that write remain. Three runs are enough for a fault in
one, a second that repairs it and a third that must change nothing; two faults
for a fault in the repair. `MaxEdits` is 1 beside a fault: each of a person's
edits alone breaks the agreement the properties are about. `PdSetupPerson` starts
from fewer accounts (new ones of each kind, two built and one shared): an edit
makes the others of them.

**Bounds of a journey.** A clock unit is about 7.5 s: `TotpStep` 4 is 30 s and
`MinLeft` 2 is a little over `MIN_SECONDS_LEFT`. `Deadline` 9 is 67 s of at
most 100, so that it does run out in the middle of any step; `StepTimeout` 7 is
above the shortest life of a code (6), so that the code's budget is the one
that binds, as it may with settings up to 60 s; `SignOutBudget` 2 is below both.
A run starts at each moment of a code's step. `Stall` 1 and `Overrun` 1 stand
for a process that stands still while it holds a code, and for what no budget
bounds (a name lookup, headers that trickle).

**Bounds of the programs.** `Dial`: a step of eight ticks holds two whole
attempts of three with their pause of one and a part of a third; a name takes up
to four to resolve, longer than an attempt, and has up to two addresses. `Egress`:
two targets, of which one may be lost while the other is ready, and a budget of
six for rounds of up to four. `ResultLine`: a journey of four steps, one of five
with a step that `result.py` does not list, and every class of status.
`TestEvent`: polls of one tick, a wait of two and events up to four late, so that
an event is worked off before, in and after the wait; one fault; the severities
Critical, Warning and one the design does not name. The clock's
bound of 14 is past the last wait. `PagerDutyRequests`: three objects on pages of
two in two workspaces, two changes between pages. `KeyGate`: up to three words
before the `--` and five after. `ImageStrip`: several hundred images of three
packages. `RenderDashboards`: six pages, sixteen settings, two starts, so that a
second one finds whatever the first left. `IapKeys`: four kinds of key, two of
one id and one unusable, lists of two, two changes.

**Bounds of the monitoring.** `WorkerState`: the limits of connectors, 60 s and
120 s, are as they are and so is a pass every 30 s; the times over which an error,
a freeze line and a freeze stand are scaled to a few intervals, in their order
(fifteen minutes, ten minutes, a day); Loki or its ruler fails once and stays failed for
as long as the run likes. `LogScrub`: every shape of up to five nodes with a
listed field anywhere, compact, spaced and torn after its last word, and every
line of two fields (three where the first decides a stage) with every word a
stage looks for. `ProbeState`: two checks, one of a database; an hour of eight
scrapes, which is longer than the alerts' two minutes and the state's 90 s; two
missed scrapes. `AreaTile`: three minutes with one series at odds in each, or
none arrived. `BackupTile`: days of three hours, a window of six, the first hour
of a day for backups. `PitrTile`: five minutes a slot, its thirty, twenty and
fifteen as six, four and three. `ServiceTile`: five minutes a slot, its range of
fifteen as three, the alert's ten without a count as two, so that an absence
begins before, with and after the last count in the range.

**Bounds of the dashboards.** Widths of one to three on four columns give lines
that fill, that overflow and that leave a gap. A query is a series of one of four
kinds under two calls, `topk` and `sort` among them, or a join of two of depth
one; parsers come with and without a field. A pipeline has up to three
stages, enough to set a label twice and read it. A cloud dashboard differs from
an accepted one in one or two settings. A catalogue of six lines closes two
levels at once.

**Fairness.** `PdSetup`'s `FairSpec` is weak fairness of the run's own steps
and of answers: Python goes on to the next statement, and `http_json` gives each
socket operation 30 s, so a request is answered or the run aborts. Nothing is
assumed of `Abort`, `EditByHand` or the next `Start`. `SyntheticJourney`'s is
weak fairness of everything but `Bug`: a socket's timeout ends every wait.
`Programs` assumes that the program goes on while it can (`RunsOn`: no stop, no
person, no change of the account or of Google's list) and that PagerDuty works
its queue off (`PagerDutyWorks`); without the second, which is PagerDuty's to
keep, no test event would ever be resolved. `EveryRunEnds` says of each program
that it ends but of `IapKeys`, whose runs follow each other for ever.
Deadlock is not checked: a program that has exited has no next step.

## 4. What is left out

Of the reconciler: wording; paging of listings (an account holds far fewer than
the 100 of a page) and with it what a deletion between two pages does; the
retry of a 429, which repeats a request that was not carried out; a find and
the read that follows it are one step; two runs at once (one operator). The
order of team members and of notification rules within their step does not
matter to any property and is left open; a person's notification rules are one
object.

Of a journey: `--no-iap`; within `SyntheticJourney`, the egress step's rounds and
dial's attempts (`Egress` and `Dial` have them) and the line's making
(`ResultLine`); cookies that a later step's answer clears or expires, the jar's
paths; the arithmetic of a code; a process killed by `task_timeout` (the property
is that it never is); steps of the wall clock; the network's and the site's own
delay after a request is written; a bug after an answer is read counts as one at
the next step.

Of the tools of PagerDuty and Terraform: the letters of names and keys,
`scrub` and every other wording, the events' payload beyond severity and title.
Two people who run `--apply` at once are in no module.

Of the image and the container: dpkg's file formats, permissions but the set-id
bits, what `TOOL_STATE` names but one folder; spaces and underscores in the
names lists. Of the pinned keys: the curve arithmetic that makes a key usable,
a constant.

Of the monitoring: in `WorkerState`, the drains and auth's not-ready lines, a
Prometheus that restarts, lines Alloy gives up on, a stack in which no service
logs for an interval, and evaluations that do not fall between two intervals; in
`ProbeState`, PostgresDown; in `LogScrub`, braces and keys inside a text, and the
labels and targets of the sources; in the tiles, a database stopped on purpose
(`quieten` is in `RenderDashboards`), an instance that reports itself down, and
floating point (a spell is counted in whole minutes). A minute without an
instance counts in `AreaTile` only where its project reported some instance
count in it, as in the code.

Of the dashboards: cutting a query into tokens, a parser inside a quoted text, `strip_comments`,
`cloud_datasources`, `_read_value`, the report; the content of panels, which is
queries and wording; `gen_security.py`, whose panels count lines in the page's
range and keep nothing; the rest of `gen_home.py`, which is layout; the
catalogue's names, labels, extractors and thresholds, found by expressions over
text. The check scripts, the Makefile and compose run what is above and keep no
state.

Liveness and anything with `ENABLED` is checked by TLC only.

## 5. What is proved

**`PdSetupProofs`** and **`PdSetupOutcomeProofs`**, for every `Services`, `Names`, `People`, ids, starting accounts, argument lists and bounds that satisfy the
modules' assumptions: names are not the markers `other`, `gone`, `-`; ids are
finitely many; a service is named once; the placeholder is no id and `None`
neither an id nor an exit status; starting accounts are accounts whose grouping
settings hold services that exist, as PagerDuty's do.

- `TypeCorrect`: `Spec => []TypeOK`.
- `NeverAPlaceholder`: `Spec => []NoPlaceholderRequest`.
- `SeverityKept`: `Spec => []SeverityNeverLost`.
- `SettingsKept`: `Spec => SharedSettingKept`.
- `KnowledgeHolds`: `Spec => []Known`, on which the rest stand.
- `ParentsComeFirst`: `Spec => []ParentsFirst`.
- `NoSecondMade`: `Spec => NeverASecond`.
- `RefusesWithReason`: `Spec => []RefusesOnlyWhatBlocks`.
- `ExitZeroMatches`: `Spec => []ExitZeroMeansMatch`.
- `RerunIsQuiet`: `Spec => []RerunChangesNothing`.
- `DryRunTold`: `Spec => []DryRunForetells`.

`TypeOK` is not inductive: `EnsureOrchestration` reads `acct.svc[Sid]`, which
has a type only if `Sid` is an id and not a placeholder or `None`. The
inductive invariant `IInv` adds `Control`: which local variables are set where
in a run, which kinds of request can be under way at each point, and that a
request exists only in an `--apply`. `Invariance` proves `Spec => []IInv` with a
lemma for each action; `PdSetupProofs` begins with what the account's
operators preserve (a handled request or an edit by hand leaves an account).
`NeverAPlaceholder` follows from `IInv` alone. `SeverityKept` is an induction of
its own on top of `IInv`: a put-back sends the orchestration that was read when
the update was planned, and on a quiet account nobody changed it since.
`SettingsKept` needs that an update of a setting carries the members it holds.

The other six rest on what a run knows of an account that nobody else changes.
A run lists the services once and acts on that listing to its end, so `Known`
says how the listing ages: what was listed is still there and no further from
the design (`KnownServices`); for services still to come it is as good as new
(`Ahead`); a parent the run is past is there (`Standing`); and the write under
way fits the account (`Fits`: what it refers to exists, what it makes does not,
a setting goes back whole). `Standing` cannot be said of the account as it is,
since a run moves on when it has sent a write: it is said of the account
`Promised`, with that write answered. `ParentsFirst` and `NeverASecond` follow
from `Fits`.

Each outcome is an invariant of its own on top. `SmoothInv`: where no fault was
met, whatever is reported as refused is something `Blocked` names, and stays so.
`ReachInv`: an `--apply` that refused nothing has reached, on the `Promised`
account, all that it is past, and has the service it is at as far as it is with
it (`AsFar`); at the last place that is `Matches`, and `ExitInv` says that only
this place gives the status 0. `SettledInv`: on an account that matches, a run
finds everything it looks for (`Aware`), so only a write that its own options
newly ask for is `Spare`, and no answer to one undoes the match.

`DryRunForetells` compares two runs, and the account that the first one read is
gone when the second ends. What carries it is an operator: `Says` is what a run
reports of an object, given the account, its listing and whether it found the
team and the business service, each as the run has read it or would read it by
now (`SaysNow`). `HeldInv` says what a run that nobody disturbs holds of what it
has listed. One lemma for each step then shows that it goes on (`Goes`: it asks
about the next objects, once each, and reports what `SaysNow` says of them), or
stops where `SaysNow` said it would. So a dry run's report, while it goes and when
it has ended, is what the account says of everything asked (`DryInv`, `PlanInv`).
The --apply changes the account under that plan: `HandledSays` shows that the
answer to a write changes what will be said of nothing still to come, but for a
setting of several services, which it puts right for all of them. `FollowInv`
joins the two: each object yet to come will be as planned or has been put right
with another's write (`Coming`); each one past was done, said or put right as
planned (`Answered`).

**`SyntheticProofs`**, for the three journeys and every choice of timeouts,
budgets, code step, stall and overrun that `SyntheticJourney` assumes (numbers,
the first ones positive; a process stands still for less than the life a code
must have left, and twice that is less than a code's step): all that
`SyntheticJourney` says of a journey but that it exits. `TypeCorrect`,
`SignsOutWhatItTook` (`SessionSignedOut`), `NothingSentTwice` (`NeverSentTwice`),
`CodeNeverLate` (`NeverCharged`), `PassIsWhole` (`PassLeavesNoSession`),
`FailureBlamedOnce` (`PagesOnce`), `RunFitsItsBudgets` (`FitsItsBudgets`) and
`ReachedInTime` (`Spec => NothingPastDeadline`). None of them is inductive. The
invariant `Inv` says, place by place of a journey, what the code has achieved
there: `Control`, where a request can be under way and when a run signs out
quietly; `DialledLogin`, `DialledVerify`, `DialledLogout`, that a step's request
is dialled at that step alone, which is why nothing is sent twice; `HeldInv`, that
only the sign-in's own answers hand a run anything to hold; `EndsInv`, that a
sign-out answered well has ended the session for good; `Blames`, that a code and
its step go together from the moment a failure is decided on; `ExitInv`, what the
exit status is once the line is written or could not be; `CodeInv`, that a
code under way is answered, or given up, before its life ends: the longest
pause and stall are counted when it is minted, and its request's budget is cut
to what is left of it; `UntilInv`, how long the request under way may last,
`IdleInv`, how late it may be between two, and `RunInv`, where that leaves the
whole run. One lemma says, for each action, what it does in terms of the places
of a journey; one, for each part of `Inv`, that every action keeps it.

**`ProgramsProofs`** begins with `Dial` alone, for every budget, attempt, pause,
number of addresses, length of a lookup and overrun that are natural numbers:
`DialTyped`, `DialClosesSockets` (a socket is open from the moment an address is
tried, and one that is refused or not answered is closed before the next is), `DialFits`
(`Spec => []FitsTheStep`), `DialTellsErrors` (a timeout is told only where a
time was spent) and `DialConnects` (`Spec => IsConnecting`: `Dial` implements
`Connecting`). The bounds on the clock are not inductive alone. `TimeInv` says
where time may stand at each point of the loop: an attempt begins inside the
budget, only a lookup or a pause takes it further, and no socket is opened after
it; `ErrorInv` what an attempt in progress knows of its error. The refinement
follows step by step: each step of `Dial` is one of `Connecting` or leaves what
it knows alone.

Then, for the programs as `Programs` composes them, with these assumptions:
the egress step's times and number of targets are positive (there is always a
target, and a lookup may take no time), journeys are sequences and statuses
numbers, command lines are sequences of arguments whose value is never `None`,
`beta` is an environment's name and `-` is none, key ids are numbers; the objects
of an account are finitely many positive numbers and a page holds one at least;
the test event's waits are numbers and `None` is neither a time nor a reading.

- `ConnectionsTold` (`ProgramsSpec => ConnectionsAreTold`): `Egress` keeps its
  counts, fits its step and implements `Connecting`, beside what is
  proved of `Dial`. `EgressInv` says of the history what the count means: the
  connections counted are the last ones of the history, and each target before
  the one being reached has all it needs or was reached for in this round.
- `LineTold` (`ProgramsSpec => []LineIsTrue`): `LineInv` says what a verdict knows
  of the step and status it was decided on, the runner's own steps apart from
  the site's, and that the line made of it is renderable; the line's status class
  follows by arithmetic from the status.
- `PagerDutyTold` (`ProgramsSpec => []PagerDutyIsTold`), from the two invariants of
  `PagerDutyCallProofs`. A listing by offset is only right about ranks: `Ranks` and
  `InOrder` say that a finite set of numbers has each rank once, `FirstWithout`
  that a deletion moves at most one more object among the first so many, and
  `FirstWith` that an addition moves none but itself. `RequestInv` then says that
  what a listing has passed over (`Passed`: there all along, not listed, ranked
  before the offset) is no more than was deleted; that `find_by_name`'s list
  rises, ahead of all that is to come, unless something was added, so that two
  hits are two objects; and that a cursor has listed all that stayed up to it.
  `EventInv` says that the one trigger is worked off once, before anything is
  read; that the incident of the test's own is what the service's rules made of
  the event; and that main() gave up on nothing listed before its deadline. What
  an exit 0 says of the severity rules it says of Error and Warning alone: a
  Critical event that is grouped into an incident of the design's looks as
  designed without any rule.
- `KeysTold` (`ProgramsSpec => []KeysAreTheirs`). For the gate, `GateInv` says how
  far the command line is read: what is left of each part is its end, the
  environment is the last that was asked for, every word before the place read
  is a `-chdir`, the last of which is remembered, and the keys read are the
  roles' in their order. For the pinning, `PinInv` says that what is kept is
  usable and in the order of its ids; that a check tells rightly rests on
  `SortedTells` (sorting by counting gives each place once, so it is a
  rearrangement) and on `OneList` (two lists of rising ids that hold the same
  keys are one list).
- `ImageTold` (`ProgramsSpec => []ImageIsWhole`), for any image, any list of
  packages to purge and any programs for `NO_LOGIN`; for any pages, settings and
  number of starts. Of the stripper, `StripInv` says at each step of `main()` what
  is gone and what is still there: nothing comes that was not there (`TreeInv`);
  while packages are purged, what is gone is what they list, to the last file
  (`PurgeInv`); from then on each place of the image is there, or gone with its
  package, or a link of an alternative without a program left, or the tools'
  (`LeftPlaces`); and dpkg's records agree with that (`RecordsInv`). Deleting
  folders keeps the tree, because one goes only where all that is left in it goes
  too. Of the entrypoint, `RenderInv`
  says that the pages already written are of this start's settings, each from
  its own file, in the scratch directory or in Grafana's, whatever the last start
  left. What a tile reads is a fold of sed's rules: `FoldOfRules` says it is the
  work of the first rule that lists one of the tile's names, and
  `FirstRuleIsWhy` that this is the reason the properties speak of. The
  images of the first are assumed to be well made (`ImagesAreWellMade`): places
  form a tree; an alternative has choices, which are files, and links that are
  its own; what only the tools read belongs to no package that stays; and no
  folder above it or above such a link is purged. The images of the second are
  assumed to be written as `cloud_dashboards.py` writes them (`ContainersAreTyped`):
  no page used without a call centre names its project.

  Proving it corrected the model in three places. `Orphaned` took an alternative
  without choices for one whose choices are gone, which `image_strip.py:276`
  skips; `RefusesOnlySurprises` did not allow for an image without Python, nor
  `RefusedForCause` for one without pages, both of which the code refuses. No
  image that the run tries has any of the three.

Inductions over a list or a number are done without an induction rule: a set of
counterexamples that is not empty has a least member (`LeastOf`), and that one
is refuted.

**`DashboardToolsProofs`**, of the layout, for any columns, any widths that fit them, any heights
and a page of any length: `PanelsStayApart` (`Spec => []NothingOverlaps`). The
invariant must know of the line being filled: everything placed lies above it or
on it to the left of `x`, and a shut row's panels below the row and above what
follows. One lemma places a panel on a page of which that holds. On top of it,
`LaidOut` (`Spec => []LaidOutAsWritten`). Its invariant `Written` says, of the page
so far, that every shut row lies between what comes before it and what comes
after it or in it (`RowsInPlace`), so that opening it moves the right panels by
the right height; that the next panel comes after all on its page
(`NextInOrder`); and that some panel reaches exactly to the line being filled,
and one on that line to where the next will start (`Filled`), whence no gap. A
height is a maximum, which exists because a page ends somewhere (`HighestOf`).

Of the linter's look at all files, for any files with any uids: `FilesTold`
(`ToolsSpec => []FilesFitTogether`). `FilesInv` says that every file read so far is
fine or among the errors, that each uid noted is its file's, and that a lint which
ends clean has read them all. It assumes that files are of the directories the
linter goes through and each there once (`FilesAreCollected`).

Of the catalogue, for any lines that `CatalogueTree` writes, however many and deep:
`CatalogueTold` (`ToolsSpec => []CatalogueReadAsWritten`). `CatalogueInv` says that
the reader is where the writer is: each container the writer has open has its
level on the reader's stack, at the writer's indent (`LevelFits`); entries stand
where the next level is; what was counted of a list is what there is of it; and of
a block's text nothing is read. It assumes that what a key holds stands deeper
than the key (`MappingsAreDeeper`).

Of a dashboard and of a rule file that pass, for any number of panels, queries,
annotations and lines: `PanelsTold` (`ToolsSpec => []PanelsShowListedLabels`), from
an invariant for each lint. `CloudInv` and `LocalInv`: while there is no error,
every panel, query and annotation passed is fine, where fine is what a reader of
the dashboard needs, not the list of rules (`CloudPanelWithout`, `QueryWithout`,
`KindIsSent` and `PanelWithout` get the one from the other). That the panels gone
through are the dashboard's, a row's own among them, is `PanelsAre`. `RulesInv`:
while there is no error, the indent the lint holds is that of the labels key its
line is below, if it is below one, so no label is taken for another key; a line is
below a key while all since are deeper (`DeeperSince`). The assumptions: panels,
queries and annotations are lists, and what each listed metric carries is known
(`CloudPagesAreWhole`); the local stack's datasources are Prometheus and Loki,
one of them the default (`LocalPagesAreWhole`); and a dash comes after a `labels`
key only once a line is no deeper (`LabelsAreMappings`). A local query that
neither names a datasource nor has a panel that does, and labels written inline,
`labels: {...}`, are among the inputs: the lint lets both through, and the
property says so (`Addressed`, `InBlock`).

**`DashboardQueryProofs`**, of the linter's look at one query, however long and
deep: `QueriesTold` (`ToolsSpec => []QueriesShowListedLabels`). `QueryInv` compares,
at each token, what the walk keeps with the brackets of the query as written
(`Walked`): entries are numbered in the order in which their brackets open
(`Numbered`), and the stack holds those around the token, outermost first
(`Stacked`); an entry says what its bracket is, how many of its arguments are
behind and, once its brackets are closed, whether a grouping follows that makes
an aggregation of it (`Entered`, `EntryAt`); the selectors noted are the series
read so far, each with the brackets around it (`Selected`); and the aggregation
that waits for its arguments is the one whose grouping list has come and whose
arguments have not (`Awaits`). Then a token is a problem to the walk exactly when
it is one in the tree (`Clean`), and at the end the entries around a selector are
aggregations exactly when the calls around the series are. One lemma for each
kind of token says that the walk goes on so.

`PipelineInv` says that the pipelines taken are those that stand before the item
looked at (`Between`), that the one being read is so far what is written of it,
with as many brackets open as stand open there (`Reading`), and that those judged
without a problem pass. What a line's labels hold after each stage is a
recursive function over them (`RunIs`): a label set once holds from there on what
that stage put in it (`Quiet`), and a listed label that no stage sets holds its
own.

The assumptions: brackets come out even, a grouping list holds labels and its
aggregation's arguments come after it, and what a query is said to read and name
is what its brackets say (`QueriesAreTrees`); a pipeline stands from behind its
selector to its range, the end of its call or the end of the text
(`TextsAreWritten`); the stages are those `_assignments` can read, and the labels
the vetted templates are made of are not listed (`StagesAreNamed`). What a query
answers is not assumed of the linter's verdict but of PromQL and LogQL
(`AnswersAreOfTheQuery`): a call that keeps the labels of what it is given keeps
them, one that reduces it leaves those of its list, and `topk`, `bottomk`,
`limitk`, `limit_ratio`, `sort` and `sort_desc` keep them too (`KEEPING`). From
this `AnswersListed` follows where each series is under a call that reduces
(`Reduced`), and not elsewhere, as the run `PickedAnswers` shows.

**`MonitoringProofs`**, of the worker, for any limits, schedule, look-backs and
number of faults that satisfy `WorkerState`'s assumptions: `WorkerTyped`, `LineCountedOnce`
(`Spec => []CountedOnce`), `NormalNeedsAReport` (`Spec => []NormalIsReported`) and
`WorkerTold` (`Spec => []WorkerIsTold`).
`TypeOK` says that neither Loki nor Prometheus knows of a report newer than the
worker's last, from which the headline's claim follows; `CountedBefore`, which
makes it inductive for the other, that a line once counted lies behind the
ruler's next window. For `WorkerIsTold` the invariant is `Followed`, which follows
a line from turn to turn: a ruler that has run with lines on time for longer
than the time since a turn counted lines at it (`Ruled`); a worker on time has a
report in every stretch of its schedule (`OnSchedule`), so what is known of it is
no older than that and what went by since the turn (`Heard`); the odd line is
counted and seen at the first turn after it (`OddHeard`); and each turn of the
alert counts a silent worker and none that has been on time (`Alerted`). The
proof asks that a red limit be two minutes at least and 75 s longer than the
worker's schedule, which every worker of `WORKERS` meets (`docs/SIGNALS.md:75`,
`:76` and `:104` say how often they run), and which the bounded run had met
unnoticed. It also showed that an odd line's age must be followed up
to the longer of two look-backs: cut at the ten minutes of a freeze line, as the
model had it, `ErrorIsHeard` is false of a line in the five minutes after. `WatchesAWorker`
carries the four to the composite, whose specification implies `WorkerState`'s.

Of the probes, for any number of scrapes, faults and settings of `ProbeState`:
`ProbesTold` (`MonitoringSpec => []ProbesAgree`). Its invariant `ProbeInv` says what
each series is worth: the counts are of what the last three scrapes were
(`Scrapes`); the stack's hour as recorded is at most a scrape behind
(`Recorded`); the turns of an alert stand on failed scrapes of a stack that is
known to have passed (`TurnsCount`); and a recorded state says what its
definition says of the series it was made from (`States`).

Of the scrub, for lines of any service, depth, spacing and tear: `LinesScrubbed`
(`MonitoringSpec => []ScrubIsComplete`). `ScrubInv` says what holds of a line at
each of the fourteen stages: what has been taken out or stopped so far
(`CutSoFar`); that a line of DEBUG says so until it is read and is dropped on
what was read (`DebugIsSeen`); that a line rebuilt from velocity's fields has no
key but its template's, the exception's class in an object of its own among them
(`ExceptionIsTree`); that a class is read before its error is cut
(`ClassIsRead`); and what a line with nothing to drop it still has (`RestStays`).
The last rests on `TwoCuts`: where no listed field holds its like, the second
replacement finds all that the first one left, because what still opens an
object after a cut opened it before. It assumes of a line that it is a tree and
that the text which gives an error's class stands in an error only.

Of the tiles: `TilesTold` (`MonitoringSpec => []TilesAgree`), for windows of any
length and any order of stops, starts and late points. What Grafana calculates of
a row's points is folded over them, so the lemmas before it say once what a sum,
a quotient or the latest point of any points is, by the least point at which it
would not be so: `SumBetween` bounds a sum by how many of its points are of a
set, `PartSum` what a stretch of it lacks. A tile's words then follow from sets of
its window (`ServiceWords`, `LogsWords`, `ProblemsAreTold`, `BackupWords`), and so
do most of its promises, that of a service whose counts stop among them: the
latest count in the range is one from before the absence, or there is none. What says that a state stays (`RecoversOnACount`,
`StallStays`, `FailureStays`) holds of two windows that differ by a point at each
end. Only the backups tile needs more than its window: that its "none" comes of a
night without a backup rests on `SinceABackup`, which says, at each hour of the day
and by whether tonight's backup is there, for how many hours there can have been
none if no night was missed. `TilesTold` assumes what `cloud_dashboards.py` says
of how the windows were chosen (`BackupAssumption`, `LogsAssumption`): that the
backups' is a day and a night at least, and longer beside a day than the alert
is shut (6 hours, where it is shut for 5); that the logs tile judges on more than
half of its range; and that the sums and the hold of its alert cover it
(10 and 20 minutes of 30, with nothing to spare).

Every invariant and action property that a passing run checks is stated by one
of these theorems, and so is the refinement of `Connecting`. Model-checked only is
all liveness: `RunEnds`, `RunExits` and `EveryRunEnds`.

## 6. Plan

What pages people came first, then what it rests on, then what others read.
Done: the reconciler and its core proofs; the journeys; dial, the egress step and
their common specification; the result line; the PagerDuty client and test
event; the key gate; image, entrypoint and pinned keys; the probe rules, the home
page's rules and the scrub pipeline; the tiles; the layout, the linter and the
catalogue reader; the proofs of section 5. Next: `gen_home.py`'s drains and auth's
not-ready lines, beside the worker's.
