------------------------------ MODULE ResultLine ------------------------------
(***************************************************************************)
(* How a run's end becomes its one line and its exit: synthetics           *)
(* /journeys.py's Run (timed, check), what its steps raise, synthetics     *)
(* /__main__.py's run and synthetics/result.py's render. A journey is the  *)
(* sequence of its timed steps, each of at most one response; a new one    *)
(* may name a step that result.py does not list. Left out: the line's JSON *)
(* and the durations.                                                      *)
(***************************************************************************)
EXTENDS Integers, Sequences

CONSTANTS
  Journeys,    \* each a job and the sequence of its steps
  Settings,    \* those that only read settings
  Gates, SignIns,  \* those checked with gate=True, with sign_in=True
  Statuses,    \* a response may have
  Paused       \* whether SYNTHETICS_PAUSED may be set

\* The closed lists.
JOBS == {"staff-sign-in", "ops-desk", "crm"}
PASS_CODES == {"ok"}
SKIP_CODES == {"paused", "not_configured"}
ERROR_CODES == {"config", "egress", "iap_token", "runner"}
CODES == PASS_CODES \cup SKIP_CODES \cup ERROR_CODES \cup
  {"iap", "connect", "tls", "timeout", "redirect", "status", "credentials", "locked", "rate_limited", "csrf", "shape"}
STEPS ==
  {"none", "config", "egress", "secrets", "iap_token", "ops_shell", "ops_release", "crm_shell", "login",
   "mfa_verify", "me", "crm_tenant", "desk_version", "live_queue", "desk_version_employers", "logout",
   "portal_shell"}

VARIABLES
  pc,          \* "start", "running", "ended", "rendered", "done"
  journey,     \* that runs
  due,         \* the index of the next step
  step, last_status, timed,   \* of the Run; timed: the keys of steps_ms
  end,         \* the verdict: outcome, code, step and status
  lines,       \* written to stdout
  line,        \* rendered
  exit

vars == <<pc, journey, due, step, last_status, timed, end, lines, line, exit>>

steps == journey.steps

\* None of Python, for a status.
Unset == -1

Verdict(outcome, code, at, status) == [outcome |-> outcome, code |-> code, step |-> at, status |-> status]

Init ==
  /\ pc = "start" /\ journey \in Journeys /\ due = 1 /\ step = "none" /\ last_status = Unset /\ timed = {}
  /\ end = Verdict("pass", "ok", "none", Unset)
  /\ lines = <<>> /\ line = <<>> /\ exit = Unset

-----------------------------------------------------------------------------
(* The journey, as run sees it *)

OutcomeOf(code) ==
  CASE code \in PASS_CODES -> "pass" [] code \in SKIP_CODES -> "skipped"
    [] code \in ERROR_CODES -> "error" [] OTHER -> "fail"

\* Mutant: a failure is told with the last status, its own or an earlier one.
FailedLast(code, status) ==
  /\ pc' = "ended"
  /\ end' = Verdict(IF code \in CODES THEN OutcomeOf(code) ELSE "error", code, step', last_status')

\* A StepFailure: the code's outcome, at the step that is under way.
Failed(code, status) ==
  /\ pc' = "ended"
  /\ end' = Verdict(IF code \in CODES THEN OutcomeOf(code) ELSE "error", code, step', status)

\* The run's switch is off, or the CRM's journey is not set up yet.
Skipped ==
  /\ pc = "start"
  /\ \E code \in SKIP_CODES :
       /\ code = "paused" => Paused
       /\ code = "not_configured" => journey.job = "crm"
       /\ end' = Verdict("skipped", code, "none", Unset)
  /\ pc' = "ended"
  /\ UNCHANGED <<journey, due, step, last_status, timed, lines, line, exit>>

\* A step begins: step is its name from here on, and it is timed however it ends.
Enter ==
  /\ due <= Len(steps)
  /\ due' = due + 1 /\ step' = steps[due] /\ timed' = timed \cup {steps[due]}
  /\ UNCHANGED <<journey, lines, line, exit>>

\* The steps of _prepare, which ask nothing of the site.
Preparations == Settings \cup {"egress", "iap_token"}

\* Only auth's sign-out needs a CSRF token.
NeedsToken(at) == at = "logout" /\ journey.job # "crm"

\* A setting is read or will not do, the path comes up or does not; a request
\* gets no response, or is not sent for want of its token.
Quiet ==
  /\ pc \in {"start", "running"} /\ Enter /\ UNCHANGED last_status
  /\ \/ steps[due] \in Settings \cup {"egress"} /\ pc' = "running" /\ UNCHANGED end
     \/ steps[due] \in Settings /\ Failed("config", Unset)
     \/ steps[due] = "egress" /\ Failed("egress", Unset)
     \/ steps[due] = "iap_token" /\ Failed("iap_token", Unset)
     \/ /\ steps[due] \notin Preparations
        /\ \/ \E code \in {"connect", "tls", "timeout"} : Failed(code, Unset)
           \/ NeedsToken(steps[due]) /\ Failed("csrf", Unset)

\* fetch_id_token: the metadata server's answer, which is not the site's, has a
\* token or is the runner's failure, whatever its status.
Token ==
  /\ pc \in {"start", "running"} /\ Enter /\ steps[due] = "iap_token" /\ UNCHANGED last_status
  /\ \/ pc' = "running" /\ UNCHANGED end
     \/ \E status \in Statuses : Failed("iap_token", status)

\* Mutant: a sign-out that answers without a body is no answer of its.
AcceptedWithBody(at) == {200}

\* The statuses a step takes.
Accepted(at) == IF at = "logout" THEN {200, 204} ELSE {200}

\* check, and auth's sign-out before it: what the code of a response is, "ok"
\* where it is the step's.
CheckCode(status, iap, at) ==
  CASE iap \/ (at \in Gates /\ status \in {401, 403}) -> "iap"
    [] NeedsToken(at) /\ status = 403 -> "csrf"
    [] status \in Accepted(at) -> "ok"
    [] status \in 300..399 -> "redirect"
    [] at \in SignIns /\ status = 401 -> "credentials"
    [] status = 423 -> "locked"
    [] status = 429 -> "rate_limited"
    [] OTHER -> "status"

\* A response of the site; one that is the step's may still not have its shape,
\* but for the sign-out's, of which nothing is read.
Checked ==
  /\ pc \in {"start", "running"} /\ Enter /\ steps[due] \notin Preparations
  /\ \E status \in Statuses, iap \in BOOLEAN :
       LET code == CheckCode(status, iap, steps[due])
       IN /\ last_status' = status
          /\ \/ code = "ok" /\ pc' = "running" /\ UNCHANGED end
             \/ code = "ok" /\ steps[due] # "logout" /\ Failed("shape", status)
             \/ code # "ok" /\ Failed(code, status)

\* Anything else that is raised, inside a step, its answer read or not, or
\* between two.
Bug ==
  /\ pc \in {"start", "running"} /\ due <= Len(steps)
  /\ \/ Enter /\ last_status' \in Statuses \cup {last_status}
     \/ UNCHANGED <<journey, due, step, last_status, timed, lines, line, exit>>
  /\ pc' = "ended" /\ end' = Verdict("error", "runner", step', Unset)

Passed ==
  /\ pc = "running" /\ due > Len(steps)
  /\ pc' = "ended" /\ end' = [end EXCEPT !.status = last_status]
  /\ UNCHANGED <<journey, due, step, last_status, timed, lines, line, exit>>

-----------------------------------------------------------------------------
(* render *)

StatusClass(status) ==
  IF status \notin 200..599 THEN "none"
  ELSE [k \in 2..5 |-> CASE k = 2 -> "2xx" [] k = 3 -> "3xx" [] k = 4 -> "4xx" [] OTHER -> "5xx"][status \div 100]

\* What render does not refuse: every value on its list, the code's outcome, a
\* step for a failure and none for a pass or a skip.
Renderable(v, times) ==
  /\ journey.job \in JOBS /\ v.code \in CODES /\ OutcomeOf(v.code) = v.outcome /\ v.step \in STEPS
  /\ v.outcome \in {"pass", "skipped"} => v.step = "none"
  /\ v.outcome = "fail" => v.step # "none"
  /\ times \subseteq STEPS \ {"none"}

Line(v, times) == [outcome |-> v.outcome, code |-> v.code, step |-> v.step,
                   status_class |-> StatusClass(v.status), steps_ms |-> times]

Render ==
  /\ pc = "ended" /\ Renderable(end, timed)
  /\ pc' = "rendered" /\ line' = Line(end, timed)
  /\ UNCHANGED <<journey, due, step, last_status, timed, end, lines, exit>>

OwnError == Verdict("error", "runner", IF end.step \in STEPS THEN end.step ELSE "none", Unset)

\* A value off the lists is the runner's own error, told without timings.
RenderOwnError ==
  /\ pc = "ended" /\ ~Renderable(end, timed) /\ Renderable(OwnError, {})
  /\ pc' = "rendered" /\ end' = OwnError /\ line' = Line(OwnError, {})
  /\ UNCHANGED <<journey, due, step, last_status, timed, lines, exit>>

\* Mutant: the exit is the verdict's, pass or not.
ExitOfVerdict == IF end.outcome = "pass" THEN 0 ELSE 1

\* A journey's failure is no failure of the runner.
ExitOf == IF end.outcome = "error" THEN 1 ELSE 0

Write ==
  /\ pc = "rendered"
  /\ pc' = "done" /\ lines' = Append(lines, line) /\ exit' = ExitOf
  /\ UNCHANGED <<journey, due, step, last_status, timed, end, line>>

\* Nobody reads stdout: the exit alone says so.
Unwritten ==
  /\ pc = "rendered"
  /\ pc' = "done" /\ exit' = 1
  /\ UNCHANGED <<journey, due, step, last_status, timed, end, lines, line>>

-----------------------------------------------------------------------------

Next == \/ Skipped \/ Quiet \/ Token \/ Checked \/ Bug \/ Passed
        \/ Render \/ RenderOwnError \/ Write \/ Unwritten

Spec == Init /\ [][Next]_vars /\ WF_vars(Next)

-----------------------------------------------------------------------------
(***************************************************************************)
(* What a run's line and its exit promise to the alerts that read them.    *)
(***************************************************************************)

\* The type of every variable.
TypeOK ==
  /\ pc \in {"start", "running", "ended", "rendered", "done"}
  /\ due \in 1..(Len(steps) + 1) /\ last_status \in Statuses \cup {Unset}
  /\ end.outcome \in {"pass", "fail", "skipped", "error"} /\ exit \in {Unset, 0, 1}
  /\ Len(lines) <= 1

-----------------------------------------------------------------------------

\* The line of a failure agrees with itself, as the alerts' labels need: a code
\* of one status has its class, a connection that failed has none, whatever was
\* answered before; the step it names was timed and is one of the site's, never
\* one that prepares the run.
ToldAsItWas == lines # <<>> /\ lines[1].outcome = "fail" =>
  LET told == lines[1]
  IN /\ told.code = "redirect" => told.status_class = "3xx"
     /\ told.code \in {"credentials", "locked", "rate_limited"} => told.status_class = "4xx"
     /\ told.code \in {"connect", "tls", "timeout"} => told.status_class = "none"
     /\ told.code = "shape" => told.status_class = "2xx"
     /\ told.code = "csrf" => told.status_class \in {"4xx", "none"} /\ told.step = "logout"
     /\ told.step \in told.steps_ms /\ told.step = step /\ told.step \notin Preparations

\* An answer that has a code of its own is told with it: wrong credentials, a
\* locked account, a rate limit and a refused sign-out are never just a status,
\* nor is an answer the step takes.
OwnCodes == lines # <<>> /\ lines[1].code = "status" =>
  /\ last_status \notin {200, 423, 429} /\ ~(last_status = 401 /\ step \in SignIns \cup Gates)
  /\ step = "logout" => last_status # 204 /\ (last_status = 403 => journey.job = "crm")

\* No line holds a value that is not on its list, in a run that takes a step
\* result.py does not know too.
NothingUnlisted == \A k \in 1..Len(lines) :
  lines[k].code \in CODES /\ lines[k].step \in STEPS /\ lines[k].steps_ms \subseteq STEPS \ {"none"}

\* The exit and the line page once between them: the exit is 0 exactly when a
\* verdict was written.
PagesOnce == pc = "done" =>
  (exit = 0 <=> lines # <<>> /\ lines[1].outcome \in {"pass", "fail", "skipped"})

\* What a line promises.
Safe ==
  /\ TypeOK /\ ToldAsItWas /\ OwnCodes /\ NothingUnlisted /\ PagesOnce

\* Where it ends.
Over == pc = "done"
=============================================================================
