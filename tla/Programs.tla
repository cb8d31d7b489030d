------------------------------ MODULE Programs ------------------------------
(***************************************************************************)
(* The programs outside pd_setup.py and the journeys' own steps: the       *)
(* synthetic runner's connections, its egress step and its result line,    *)
(* the PagerDuty test event and client, the Terraform gate, the image      *)
(* stripper, the dashboards' entrypoint and the key pinning. Each runs as  *)
(* a process of its own, so one of them runs in each behaviour.            *)
(***************************************************************************)
EXTENDS Dial, Sequences, FiniteSets

CONSTANTS
  None,
  \* the egress step
  Targets, EgressBudget, EgressResolve, EGRESS_ATTEMPT_S, EGRESS_PAUSE_S, EGRESS_READY,
  \* a run of the synthetics
  Journeys, Settings, Gates, SignIns, Statuses, Paused,
  \* PagerDuty
  Runs, Wait, MaxCall, MaxNow, MaxFaults, Delay,
  Jobs, Objects, Named, Page, MaxChanges,
  \* Terraform's command lines
  Argvs, Names, Directories,
  \* the image
  Images, Purge, Forbidden, NoLogin,
  GrafanaImages, ContainerSettings, KNOWN_PAUSED_JOBS, KNOWN_NOT_DEPLOYED_JOBS, KNOWN_DATABASES,
  CC_ONLY_PAGES, MaxStarts,
  \* the pinned keys
  Usable, Kid, MaxKeys, NotJson

ASSUME EgressTimes ==
  /\ EgressResolve \in Nat
  /\ Targets \in Nat \ {0} /\ EgressBudget \in Nat \ {0}
  /\ EGRESS_ATTEMPT_S \in Nat \ {0} /\ EGRESS_PAUSE_S \in Nat \ {0} /\ EGRESS_READY \in Nat \ {0}
ASSUME RunsAreSequences == Journeys \subseteq [job : STRING, steps : Seq(STRING)] /\ Statuses \subseteq Nat
ASSUME PagesAreOfObjects ==
  /\ Objects \subseteq Nat \ {0} /\ IsFiniteSet(Objects)
  /\ Page \in Nat \ {0} /\ MaxChanges \in Nat
ASSUME KeysHaveIds == MaxKeys \in Nat /\ \A key \in DOMAIN Kid : Kid[key] \in Nat
ASSUME BetaIsAName == "beta" \in Names /\ "-" \notin Names

\* The words of the command lines, and the keys of Terraform's roles; None is
\* the value of no word, and no child.
Arguments == UNION {{words[i] : i \in DOMAIN words} : words \in Argvs}
RoleKeys == {"app", "phi", "cc"} \X (Names \X {"app", "phi", "cc"}) \X {"key"}
ASSUME CommandLines ==
  /\ Argvs \subseteq Seq(Arguments)
  /\ \A arg \in Arguments : arg[2] # None
  /\ None \notin [args : Seq(Arguments), cwd : Directories, keys : SUBSET RoleKeys]

VARIABLES
  program,    \* the one that runs
  \* Egress
  egress_now, egress_pc, target, target_addresses, in_a_row, left, knocks,
  tried, seen_targets,
  \* ResultLine
  run_pc, journey, due, step, last_status, timed, verdict, lines, line,
  run_exit,
  \* TestEvent
  args, event_at, event_now, deadline, got, event_exit, raised, faults, svc,
  queue, alert, holder, shape, company, acked, seen,
  \* PagerDutyRequests
  job, call_at, ws, offset, after, items, attempt, slept, carried, account,
  stayed, gone,
  \* KeyGate
  gate_at, argv, cwd, log, ours, command, rest, chdir, env, role_keys,
  missing, child,
  \* ImageStrip
  strip_at, was, python, status, records, files, links, dirs, setid, db,
  shells, accounts, keep, gone_places, folders, todo,
  \* RenderDashboards
  image, set, starts, script_pc, work, dst,
  \* IapKeys
  published, pinned, changes, pin_step, write, usable_keys, pin_exit

Egr == INSTANCE Egress WITH
  Budget <- EgressBudget, MaxResolve <- EgressResolve, now <- egress_now,
  pc <- egress_pc, addresses <- target_addresses, seen <- seen_targets
Result == INSTANCE ResultLine WITH
  pc <- run_pc, end <- verdict, exit <- run_exit
Event == INSTANCE TestEvent WITH
  at <- event_at, now <- event_now, exit <- event_exit
Request == INSTANCE PagerDutyRequests WITH
  at <- call_at
Gate == INSTANCE KeyGate WITH
  at <- gate_at, keys <- role_keys
Strip == INSTANCE ImageStrip WITH
  at <- strip_at, gone <- gone_places
Render == INSTANCE RenderDashboards WITH
  Images <- GrafanaImages, Settings <- ContainerSettings, pc <- script_pc
Pins == INSTANCE IapKeys WITH
  step <- pin_step, keys <- usable_keys, exit <- pin_exit

\* Images as Debian's and Python's tools leave them, and NO_LOGIN's programs
\* named by where they are.
ASSUME ImagesAreWellMade ==
  /\ Purge \in Seq(STRING) /\ NoLogin \in Seq(Seq(STRING))
  /\ \A i \in DOMAIN NoLogin : Strip!Where(NoLogin[i]) = NoLogin[i] /\ ~Strip!OfTools(NoLogin[i])
  /\ \A im \in Images : Strip!WellMade(im)

\* Grafana's images as they are written, and the names a setting may have.
ASSUME ContainersAreTyped ==
  /\ MaxStarts \in Nat \ {0}
  /\ IsFiniteSet(KNOWN_PAUSED_JOBS) /\ IsFiniteSet(KNOWN_NOT_DEPLOYED_JOBS) /\ IsFiniteSet(KNOWN_DATABASES)
  /\ \A s \in ContainerSettings : s.cc \in BOOLEAN
  /\ \A im \in GrafanaImages : Render!Written(im)

\* The test event's numbers, and its arguments; None is no reading and no time.
ASSUME EventsAreTyped ==
  /\ Wait \in Nat /\ MaxCall \in Nat /\ MaxNow \in Nat
  /\ Runs \subseteq Event!Args /\ None \notin Nat /\ None \notin Event!Shapes

egress_vars == <<egress_now, egress_pc, target, target_addresses, in_a_row,
      left, knocks, tried, seen_targets>>
line_vars == <<run_pc, journey, due, step, last_status, timed, verdict, lines,
      line, run_exit>>
event_vars == <<args, event_at, event_now, deadline, got, event_exit, raised,
      faults, svc, queue, alert, holder, shape, company, acked, seen>>
request_vars == <<job, call_at, ws, offset, after, items, attempt, slept,
      carried, account, stayed, gone>>
gate_vars == <<gate_at, argv, cwd, log, ours, command, rest, chdir, env,
      role_keys, missing, child>>
strip_vars == <<strip_at, was, python, status, records, files, links, dirs,
      setid, db, shells, accounts, keep, gone_places, folders, todo>>
render_vars == <<image, set, starts, script_pc, work, dst>>
pin_vars == <<published, pinned, changes, pin_step, write, usable_keys,
      pin_exit>>
all == <<program, vars, egress_vars, line_vars, event_vars, request_vars,
      gate_vars, strip_vars, render_vars, pin_vars>>

event_rest == <<program, vars, egress_vars, line_vars, request_vars, gate_vars, strip_vars, render_vars, pin_vars>>

request_rest == <<program, vars, egress_vars, line_vars, event_vars, gate_vars, strip_vars, render_vars, pin_vars>>

render_rest == <<program, vars, egress_vars, line_vars, event_vars, request_vars, gate_vars, strip_vars, pin_vars>>

-----------------------------------------------------------------------------

\* One runs, from any of its starts; the variables of the others stay as they are.
Start ==
  /\ program \in {"dial", "egress", "line", "event", "request", "gate", "strip", "render", "pin"}
  /\ Init
  /\ Egr!Init
  /\ IF program = "line" THEN Result!Init
     ELSE run_pc = "none" /\ journey = "none" /\ due = 1 /\ step = "none" /\ last_status = None
          /\ timed = {} /\ verdict = "none" /\ lines = <<>> /\ line = <<>> /\ run_exit = None
  /\ IF program = "event" THEN Event!Init
     ELSE args = "none" /\ event_at = "none" /\ event_now = 0 /\ deadline = 0 /\ got = None
          /\ event_exit = None /\ raised = FALSE /\ faults = 0 /\ svc = "none" /\ queue = <<>>
          /\ alert = "none" /\ holder = "none" /\ shape = None /\ company = FALSE /\ acked = FALSE
          /\ seen = None
  /\ IF program = "request" THEN Request!Init
     ELSE job = "none" /\ call_at = "none" /\ ws = 1 /\ offset = 0 /\ after = 0 /\ items = <<>>
          /\ attempt = 0 /\ slept = 0 /\ carried = 0 /\ account = <<>> /\ stayed = <<>> /\ gone = <<>>
  /\ IF program = "gate" THEN Gate!Init
     ELSE gate_at = "none" /\ argv = <<>> /\ cwd = "none" /\ log = "none" /\ ours = <<>>
          /\ command = <<>> /\ rest = <<>> /\ chdir = None /\ env = "none" /\ role_keys = <<>>
          /\ missing = <<>> /\ child = None
  /\ IF program = "strip" THEN Strip!Init
     ELSE strip_at = "none" /\ was = "none" /\ python = {} /\ status = {} /\ records = {}
          /\ files = {} /\ links = <<>> /\ dirs = {} /\ setid = {} /\ db = {} /\ shells = {}
          /\ accounts = <<>> /\ keep = {} /\ gone_places = {} /\ folders = {} /\ todo = <<>>
  /\ IF program = "render" THEN Render!Init
     ELSE image = "none" /\ set = "none" /\ starts = 0 /\ script_pc = "none" /\ work = <<>> /\ dst = <<>>
  /\ IF program = "pin" THEN Pins!Init
     ELSE published = <<>> /\ pinned = <<>> /\ changes = 0 /\ pin_step = "none" /\ write = FALSE
          /\ usable_keys = <<>> /\ pin_exit = 9

Connect == program = "dial" /\ Next
  /\ UNCHANGED <<program, egress_vars, line_vars, event_vars, request_vars,
       gate_vars, strip_vars, render_vars, pin_vars>>
KnockAtEgress == program = "egress" /\ Egr!Next
  /\ UNCHANGED <<program, vars, line_vars, event_vars, request_vars,
       gate_vars, strip_vars, render_vars, pin_vars>>
WriteResult == program = "line" /\ Result!Next
  /\ UNCHANGED <<program, vars, egress_vars, event_vars, request_vars,
       gate_vars, strip_vars, render_vars, pin_vars>>
TestPagerDuty == program = "event" /\ Event!Next
  /\ UNCHANGED event_rest
CallPagerDuty == program = "request" /\ Request!Next
  /\ UNCHANGED request_rest
RunTerraform == program = "gate" /\ Gate!Next
  /\ UNCHANGED <<program, vars, egress_vars, line_vars, event_vars,
       request_vars, strip_vars, render_vars, pin_vars>>
StripImage == program = "strip" /\ Strip!Next
  /\ UNCHANGED <<program, vars, egress_vars, line_vars, event_vars,
       request_vars, gate_vars, render_vars, pin_vars>>
StartGrafana == program = "render" /\ Render!Next
  /\ UNCHANGED render_rest
PinKeys == program = "pin" /\ Pins!Next
  /\ UNCHANGED <<program, vars, egress_vars, line_vars, event_vars,
       request_vars, gate_vars, strip_vars, render_vars>>

Step ==
  \/ Connect \/ KnockAtEgress \/ WriteResult \/ TestPagerDuty \/ CallPagerDuty
  \/ RunTerraform \/ StripImage \/ StartGrafana \/ PinKeys

\* A run of theirs is never held up for ever: each goes on while it can, and
\* PagerDuty works its queue off. An operator, Google or a stop may come or not.
RunsOn ==
  \/ Connect \/ KnockAtEgress \/ WriteResult \/ RunTerraform \/ StripImage
  \/ program = "event" /\ Event!Works /\ UNCHANGED event_rest
  \/ program = "request" /\ Request!Answer /\ UNCHANGED request_rest
  \/ program = "render" /\ Render!Script /\ UNCHANGED render_rest
PagerDutyWorks == program = "event" /\ Event!Process /\ UNCHANGED event_rest

ProgramsSpec == Start /\ [][Step]_all /\ WF_all(RunsOn) /\ WF_all(PagerDutyWorks)

-----------------------------------------------------------------------------
(* What they promise *)

\* What dial and the egress step tell is so: a socket is open exactly where an
\* address is asked or has connected, a timeout is only told where a time was spent, the step passes
\* on connections in a row to every target, and each of the two gives up only
\* once its time is spent, as Connecting says.
ConnectionsAreTold ==
  /\ [](/\ TypeOK /\ NoSocketLeft /\ ErrorStands
        /\ Egr!Safe)
  /\ Egr!IsConnecting

\* A line of result.py and the exit agree with what the run met, and page once.
LineIsTrue == program = "line" => Result!Safe

\* pd_test_event.py's exit 0 means the design, and its "not found" that nothing
\* was there in time; pdlib.py's writes are carried out once, and its listings
\* miss no more than what was deleted under them.
PagerDutyIsTold ==
  /\ program = "event" => Event!Safe
  /\ program = "request" => Request!Safe

\* Keys go where they belong: a Terraform that runs is a plan or an apply with
\* the keys of its own directory's environment, and the file of IAP's keys pins
\* usable ones, and a check of it tells whether they are Google's.
KeysAreTheirs ==
  /\ program = "gate" => Gate!Safe
  /\ program = "pin" => Pins!Safe

\* An image that image_strip.py lets through holds all that stays and nothing
\* that goes; Grafana starts on one environment's whole set of pages, wherever
\* an earlier start stopped.
ImageIsWhole ==
  /\ program = "strip" => Strip!Safe
  /\ program = "render" => Render!Safe

\* Every run ends, and what the test event opened is resolved in the end.
Ended ==
  CASE program = "dial" -> Over
    [] program = "egress" -> Egr!Over
    [] program = "line" -> Result!Over
    [] program = "event" -> Event!Over
    [] program = "request" -> Request!Over
    [] program = "gate" -> Gate!Over
    [] program = "strip" -> Strip!Over
    [] program = "render" -> Render!Over
    [] program = "pin" -> TRUE
EveryRunEnds == <>[](Ended /\ (program = "event" => Event!NothingOpen))

\* What the head of pd_test_event.py says: the script "resolves it through the
\* same integration, so the escalation's second level never fires".
SentIsResolved == program = "event" => Event!SentIsResolved
=============================================================================
