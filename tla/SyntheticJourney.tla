-------------------------- MODULE SyntheticJourney --------------------------
(***************************************************************************)
(* One run of python -m synthetics journey <job> through IAP: the steps of *)
(* synthetics/journeys.py, the requests of synthetics/client.py, the code  *)
(* of synthetics/totp.py and the line and status of synthetics/__main__.py.*)
(*                                                                         *)
(* The run is sequential; what makes it hard is time and answers that do   *)
(* not come. A request is dialled, handled by the site, answered with      *)
(* headers and then a body, and may fail between any two of these. Time    *)
(* passes only where the code waits: one clock, in a coarse unit, stands   *)
(* for the monotonic one of the budgets and the wall clock of the codes.   *)
(*                                                                         *)
(* Left out: the local mode (--no-iap), the egress step's rounds (it takes *)
(* its time and says whether the path came up), how a connection is        *)
(* dialled again inside its budget, and the values of bodies and cookies.  *)
(***************************************************************************)
EXTENDS Integers, Sequences

CONSTANTS
  Jobs,           \* the journeys that are run
  StepTimeout, Deadline, EgressWait, SignOutBudget, \* the budgets, in clock units
  TotpStep, MinLeft, LateSteps,  \* STEP_SECONDS, MIN_SECONDS_LEFT, ACCEPTED_LATE_STEPS
  Stall,          \* the longest a process stands still while it holds a code
  Overrun         \* the longest a request outlasts its budget: a name lookup,
                  \* or headers that trickle, which no socket timeout bounds

ASSUME JobsAssumption == Jobs \subseteq {"staff-sign-in", "ops-desk", "crm"}
ASSUME BudgetsAssumption ==
  /\ StepTimeout \in Nat \ {0} /\ Deadline \in Nat \ {0}
  /\ EgressWait \in Nat /\ SignOutBudget \in Nat \ {0}
  /\ Stall \in Nat /\ Overrun \in Nat
ASSUME TotpAssumption ==
  /\ TotpStep \in Nat \ {0} /\ MinLeft \in Nat /\ LateSteps \in Nat
  /\ Stall < MinLeft /\ 2 * Stall < TotpStep

VARIABLES
  job, now, start,
  phase,    \* "starting", "running", "signing_out", "done", then "reported" where
            \* the result line was written and "unwritten" where it could not be
  n,        \* which step of the journey the run is at
  end,      \* when the run's deadline ends
  held,     \* what of a session the run holds: cookies in the jar, a bearer
  code,     \* the TOTP step its code was minted for, -1 before
  wire,     \* the request under way
  result,   \* the code of the result line and the step it names
  exit,     \* the exit status, -1 before
  session,  \* on the server: "none", "live" or "ended"
  charged,  \* the server refused a code that came too late
  arrived,  \* the cookies whose headers reached the run
  tries     \* how often each of these requests was dialled

run == <<job, start>>
vars == <<job, now, start, phase, n, end, held, code, wire, result, exit,
          session, charged, arrived, tries>>

-----------------------------------------------------------------------------
(* The journeys *)

Prepare == <<"config", "egress", "secrets", "iap_token">>
SignIn == <<"login", "mint", "mfa_verify">>

\* staff_sign_in, ops_desk and crm; "mint" is totp.mint, which is not timed.
Journey(j) ==
  IF j = "staff-sign-in"
  THEN Prepare \o <<"ops_shell", "ops_release">> \o SignIn
       \o <<"me", "desk_version", "logout", "portal_shell">>
  ELSE IF j = "ops-desk"
  THEN Prepare \o SignIn \o <<"live_queue", "desk_version_employers", "logout">>
  ELSE Prepare \o <<"crm_shell">> \o SignIn \o <<"me", "crm_tenant", "logout">>

Path == Journey(job)
Step == Path[n]

\* Mutant: the pause before the code is a step of its own, which result.py
\* does not list.
NamedAsAt == Step

\* The run's last step that Run.timed named.
Named == IF Step = "mint" THEN "login" ELSE Step

Local == {"config", "egress", "secrets", "mint"}
Gates == {"ops_shell", "crm_shell", "portal_shell"}
Once == {"login", "mfa_verify", "logout"}

\* The steps inside the try of _signed_in_to_auth and _signed_in_to_crm.
Guarded == {"login", "mint", "mfa_verify", "me", "desk_version", "live_queue",
            "desk_version_employers", "crm_tenant"}

NoWire == [at |-> "none"]

Idle == wire.at = "none"

\* The step a request belongs to; the quiet sign-out has none of its own.
Sending == IF phase = "signing_out" THEN "logout" ELSE Step

-----------------------------------------------------------------------------
(* How a run goes on and how it ends *)

OutcomeOf(c) ==
  IF c = "ok" THEN "pass"
  ELSE IF c \in {"paused", "not_configured"} THEN "skipped"
  ELSE IF c \in {"config", "egress", "iap_token", "runner"} THEN "error"
  ELSE "fail"

\* Signed in: auth's session cookie is in the jar, or the CRM's bearer is read.
Holds(h) == (IF job = "crm" THEN "bearer" ELSE "session") \in h

\* The step succeeded: the next one, or the end of the journey.
Advance ==
  IF n < Len(Path) THEN n' = n + 1 /\ UNCHANGED <<phase, result>>
  ELSE phase' = "done" /\ result' = [code |-> "ok", step |-> "none"] /\ UNCHANGED n

\* Mutant: the sign-out step is inside the try.
TriedWithLogout == Guarded \cup {"logout"}

\* The steps whose failure signs out before it propagates.
Tried == Guarded

\* StepFailure(c) or a bug, with what the run holds by then.
FailHolding(c, h) ==
  /\ result' = [code |-> c, step |-> Named]
  /\ phase' = IF Step \in Tried /\ Holds(h) THEN "signing_out" ELSE "done"
  /\ UNCHANGED n

Fail(c) == FailHolding(c, held)

-----------------------------------------------------------------------------
(* The steps that send nothing *)

\* The two switches that end a run before it does a thing.
CheckSwitches ==
  /\ phase = "starting"
  /\ \/ phase' = "running" /\ UNCHANGED result
     \/ \E c \in {"paused"} \cup {s \in {"not_configured"} : job = "crm"} :
          phase' = "done" /\ result' = [code |-> c, step |-> "none"]
  /\ UNCHANGED <<run, now, n, end, held, code, wire, exit, session, charged,
                 arrived, tries>>

At(s) == phase = "running" /\ Idle /\ Step = s

\* load_config and ssl_context, and later read_credentials.
ReadSettings ==
  /\ At("config") \/ At("secrets")
  /\ Advance \/ Fail("config")
  /\ UNCHANGED <<run, now, end, held, code, wire, exit, session, charged,
                 arrived, tries>>

\* _egress: the path came up inside its budget, or never did. The deadline
\* starts when it is over.
Egress ==
  /\ At("egress")
  /\ \/ /\ \E d \in 0..EgressWait : now' = now + d
        /\ end' = now' + Deadline
        /\ Advance
     \/ /\ EgressWait > 0
        /\ \E d \in EgressWait..(EgressWait + Overrun) : now' = now + d
        /\ Fail("egress")
        /\ UNCHANGED end
  /\ UNCHANGED <<run, held, code, wire, exit, session, charged, arrived, tries>>

StepLeft(t) == TotpStep - (t % TotpStep)

\* Mutant: a code is minted however little of its step is left.
MintedAtOnce == {now}

\* Mutant: mint looks again at the time it has, and waits for ever.
MintedNever == IF StepLeft(now) >= MinLeft THEN {now} ELSE {}

\* When totp.mint reads the time it makes the code for: now, or once it has
\* slept into the next step.
Minted == IF StepLeft(now) >= MinLeft THEN {now}
          ELSE {now + StepLeft(now) + s : s \in 0..Stall}

\* Between the code and what accepted_for makes of the time, a stall may fall.
Mint ==
  /\ At("mint")
  /\ \E m \in Minted, s \in 0..Stall : code' = m \div TotpStep /\ now' = m + s
  /\ Advance
  /\ UNCHANGED <<run, end, held, wire, exit, session, charged, arrived, tries>>

\* A bug in a step, before it has sent anything.
Bug ==
  /\ phase = "running" /\ Idle
  /\ Fail("runner")
  /\ UNCHANGED <<run, now, end, held, code, wire, exit, session, charged,
                 arrived, tries>>

-----------------------------------------------------------------------------
(* A request *)

Least(a, b) == IF a <= b THEN a ELSE b

SignOut == Least(StepTimeout, SignOutBudget)

\* How long a code for this time's step is accepted after it.
AcceptedFor(t) == (t \div TotpStep + 1 + LateSteps) * TotpStep - t

\* Mutant: the sign-out has what is left of the deadline, as any step.
BudgetInDeadline ==
  LET own == Least(StepTimeout, end - now) IN
  IF Sending = "mfa_verify" THEN Least(own, AcceptedFor(now)) ELSE own

\* Mutant: the deadline is not looked at.
BudgetOfStep ==
  IF Sending = "logout" THEN SignOut
  ELSE IF Sending = "mfa_verify" THEN Least(StepTimeout, AcceptedFor(now))
  ELSE StepTimeout

\* The request's timeout: its step's and the deadline's smaller; the sign-out
\* has its own; the code's request never outlasts the code.
Budget ==
  LET own == Least(StepTimeout, end - now) IN
  IF Sending = "logout" THEN SignOut
  ELSE IF Sending = "mfa_verify" THEN Least(own, AcceptedFor(now))
  ELSE own

\* Mutant: a metadata server that does not answer is a timeout like any other.
CodeOfTransport(c) == c

\* fetch_id_token makes every failure its own.
CodeOf(c) == IF Step = "iap_token" THEN "iap_token" ELSE c

\* auth's sign-out cannot be asked for without its CSRF cookie.
NoToken == Sending = "logout" /\ job # "crm" /\ "csrf" \notin held

\* Session.request and send: nothing is dialled once the budget is spent.
Send ==
  /\ phase = "running" /\ Idle /\ Step \notin Local
  /\ IF NoToken THEN Fail("csrf") /\ UNCHANGED <<wire, tries>>
     ELSE IF Budget <= 0
     THEN Fail(CodeOf("timeout")) /\ UNCHANGED <<wire, tries>>
     ELSE /\ wire' = [at |-> "dialled", until |-> now + Budget]
          /\ tries' = [s \in Once |-> tries[s] + IF s = Step THEN 1 ELSE 0]
          /\ UNCHANGED <<phase, n, result>>
  /\ UNCHANGED <<run, now, end, held, code, exit, session, charged, arrived>>

\* _quiet_sign_out, before the exception propagates, whatever comes of it.
QuietSignOut ==
  /\ phase = "signing_out" /\ Idle
  /\ IF NoToken \/ Budget <= 0
     THEN phase' = "done" /\ UNCHANGED <<wire, tries>>
     ELSE /\ wire' = [at |-> "dialled", until |-> now + Budget]
          /\ tries' = [tries EXCEPT !["logout"] = @ + 1]
          /\ UNCHANGED phase
  /\ UNCHANGED <<run, now, n, end, held, code, result, exit, session, charged, arrived>>

\* The request is over: what comes of it, unless it was the quiet sign-out.
Over(outcome) ==
  /\ wire' = NoWire
  /\ IF phase = "signing_out" THEN phase' = "done" /\ UNCHANGED <<n, result>>
     ELSE outcome

Transport == {"connect", "tls", "timeout"}

\* No connection inside the budget, or TLS failed: nothing was written.
NotReached ==
  /\ wire.at = "dialled"
  /\ \E t \in now..(wire.until + Overrun) : now' = t
  /\ \E c \in Transport : Over(Fail(CodeOf(c)))
  /\ UNCHANGED <<run, end, held, code, exit, session, charged, arrived, tries>>

-----------------------------------------------------------------------------
(* The site handles a request: IAP, auth, the CRM and the metadata server *)

\* Answers that refuse: nothing of their body is looked at.
Refused == [status : {302, 401, 403, 423, 429, 500}, google : BOOLEAN,
            good : {TRUE}, holds : {{}}]

\* Answers of a step that is taken: what they hand over, a good body or not.
Given(statuses, grants) ==
  [status : statuses, google : {FALSE}, good : BOOLEAN, holds : grants]

\* What a sign-in hands over, a faulty one less than all of it.
Grants == IF job = "crm" THEN {{"bearer"}, {}}
          ELSE {{"session", "csrf"}, {"session"}, {}}

InTime(t) == t < (code + 1 + LateSteps) * TotpStep

\* The answers to a request handled at t, each with what it makes of the
\* session. The password alone may sign in to the CRM, where the login has lost
\* its second factor; a sign-out may fail after it went through.
Handlings(t) ==
  (Refused \X {session})
  \cup (IF Sending \in {"mfa_verify", "logout"} THEN {}
        ELSE Given({200}, {{}}) \X {session})
  \cup (IF Sending = "login" /\ job = "crm" THEN Given({200}, {{"bearer"}}) \X {"live"}
        ELSE {})
  \cup (IF Sending = "mfa_verify" /\ InTime(t) THEN Given({200}, Grants) \X {"live"}
        ELSE {})
  \cup (IF Sending = "logout" THEN Given({200, 204, 500}, {{}}) \X {"ended"} ELSE {})

\* The request is written before its budget is spent (dial closes a connection
\* that has nothing left of it) and handled then.
Reach ==
  /\ wire.at = "dialled"
  /\ \E t \in now..(wire.until - 1) :
       /\ now' = t
       /\ \E h \in Handlings(t) :
            /\ wire' = [at |-> "handled", until |-> wire.until, answer |-> h[1]]
            /\ session' = h[2]
       /\ charged' = (charged \/ (Sending = "mfa_verify" /\ ~InTime(t)))
  /\ UNCHANGED <<run, phase, n, end, held, code, result, exit, arrived, tries>>

-----------------------------------------------------------------------------
(* The answer *)

Cookies == {"session", "csrf"}

\* The status line and the headers reach the run; it has not taken a cookie
\* of them yet.
HeadersArrive ==
  /\ wire.at = "handled"
  /\ wire' = [wire EXCEPT !.at = "headers"]
  /\ arrived' = arrived \cup (wire.answer.holds \cap Cookies)
  /\ UNCHANGED <<run, now, phase, n, end, held, code, result, exit, session,
                 charged, tries>>

\* The answer hangs, or its connection drops, before or in its headers or body.
Lost ==
  /\ wire.at \in {"handled", "headers"}
  /\ \E t \in now..(wire.until + Overrun) : now' = t
  /\ \E c \in Transport : Over(Fail(CodeOf(c)))
  /\ UNCHANGED <<run, end, held, code, exit, session, charged, arrived, tries>>

\* Mutant: a 403 is taken for a sign-out that went through.
AcceptedLoosely(s) == IF s = "logout" THEN {200, 204, 403} ELSE {200}

\* The statuses a step takes for an answer.
Accepted(s) == IF s = "logout" THEN {200, 204} ELSE {200}

\* Run.check, after the sign-out's own look at a 403.
Check(r, s) ==
  IF s = "logout" /\ job # "crm" /\ r.status = 403 /\ ~r.google THEN "csrf"
  ELSE IF r.google THEN "iap"
  ELSE IF s \in Gates /\ r.status \in {401, 403} THEN "iap"
  ELSE IF r.status \in Accepted(s) THEN "ok"
  ELSE IF r.status = 302 THEN "redirect"
  ELSE IF s \in {"login", "mfa_verify"} /\ r.status = 401 THEN "credentials"
  ELSE IF r.status = 423 THEN "locked"
  ELSE IF r.status = 429 THEN "rate_limited"
  ELSE "status"

\* What a sign-in must have handed over.
Whole == IF job = "crm" THEN {"bearer"} ELSE Cookies

\* An answer of the right status may still not have what the step needs. A
\* login that hands over a session has lost its second factor.
HasShape(r, s) ==
  /\ s # "logout" => r.good
  /\ s = "login" => r.holds = {}
  /\ s = "mfa_verify" => Whole \subseteq r.holds

Verdict(r, s) ==
  IF Check(r, s) = "ok" /\ ~HasShape(r, s) THEN "shape" ELSE Check(r, s)

\* What the run takes from an answer it has read: the cookies whatever the
\* answer's status and body, the bearer from a body that holds one.
Taken(r) == IF r.good THEN r.holds ELSE r.holds \cap Cookies

\* The body is read inside the budget, and the answer judged.
BodyRead ==
  /\ wire.at = "headers"
  /\ \E t \in now..wire.until : now' = t
  /\ held' = held \cup Taken(wire.answer)
  /\ Over(LET c == Verdict(wire.answer, Sending) IN
            IF c = "ok" THEN Advance ELSE FailHolding(CodeOf(c), held'))
  /\ UNCHANGED <<run, end, code, exit, session, charged, arrived, tries>>

-----------------------------------------------------------------------------

\* Mutant: anything but a pass is an exit status of 1.
ExitOfVerdict(c) == IF OutcomeOf(c) \in {"pass", "skipped"} THEN 0 ELSE 1

\* The exit status of a run whose line was written.
ExitOf(c) == IF OutcomeOf(c) = "error" THEN 1 ELSE 0

\* __main__.run writes the result line, or cannot, and exits.
Report ==
  /\ phase = "done"
  /\ \/ phase' = "reported" /\ exit' = ExitOf(result.code)
     \/ phase' = "unwritten" /\ exit' = 1
  /\ UNCHANGED <<run, now, n, end, held, code, wire, result, session, charged,
                 arrived, tries>>

Init ==
  /\ job \in Jobs
  /\ start \in 0..(TotpStep - 1) /\ now = start
  /\ phase = "starting" /\ n = 1 /\ end = 0 /\ held = {} /\ code = -1
  /\ wire = NoWire /\ result = [code |-> "ok", step |-> "none"] /\ exit = -1
  /\ session = "none" /\ charged = FALSE /\ arrived = {}
  /\ tries = [s \in Once |-> 0]

Works ==
  \/ CheckSwitches \/ ReadSettings \/ Egress \/ Mint \/ Send \/ QuietSignOut
  \/ NotReached \/ Reach \/ HeadersArrive \/ Lost \/ BodyRead \/ Report

Next == Works \/ Bug

Spec == Init /\ [][Next]_vars

\* Python runs on, and a socket's timeout ends every wait; a bug is never owed.
FairSpec == Spec /\ WF_vars(Works)

-----------------------------------------------------------------------------
(* What a journey promises: its types, then what it keeps to *)

Tokens == {"session", "csrf", "bearer"}
Sessions == {"none", "live", "ended"}
Answers == [status : {200, 204, 302, 401, 403, 423, 429, 500},
            google : BOOLEAN, good : BOOLEAN, holds : SUBSET Tokens]

Wires == {NoWire} \cup [at : {"dialled"}, until : Int]
         \cup [at : {"handled", "headers"}, until : Int, answer : Answers]

Codes == {"ok", "paused", "not_configured", "config", "runner", "egress",
          "iap_token", "iap", "connect", "tls", "timeout", "redirect", "status",
          "credentials", "locked", "rate_limited", "csrf", "shape"}

StepNames == {"none", "config", "egress", "secrets", "iap_token", "ops_shell",
              "ops_release", "crm_shell", "login", "mfa_verify", "me",
              "crm_tenant", "desk_version", "live_queue",
              "desk_version_employers", "logout", "portal_shell"}

\* Every variable has its type; a result line is made of what result.py lists.
TypeOK ==
  /\ job \in Jobs /\ now \in Nat /\ start \in Nat /\ now >= start
  /\ phase \in {"starting", "running", "signing_out", "done", "reported", "unwritten"}
  /\ n \in 1..Len(Path) /\ end \in Nat /\ held \subseteq Tokens
  /\ code \in Int /\ wire \in Wires
  /\ result \in [code : Codes, step : StepNames] /\ exit \in {-1, 0, 1}
  /\ session \in Sessions /\ charged \in BOOLEAN /\ arrived \subseteq Cookies
  /\ tries \in [Once -> Nat]

BrokeSigningOut == result = [code |-> "runner", step |-> "logout"]

Exited == phase \in {"reported", "unwritten"}
Ended == phase = "done" \/ Exited

-----------------------------------------------------------------------------
(* Safety *)

\* "Every run that got a session signs out, whatever ends it": a run that took
\* a whole sign-in (both of auth's cookies, or the CRM's bearer) has dialled
\* the sign-out by the time it is over, its deadline spent or not, unless the
\* bug that ended it is in the sign-out step.
SessionSignedOut ==
  Ended /\ Holds(held) /\ (job = "crm" \/ "csrf" \in held) =>
    tries["logout"] > 0 \/ BrokeSigningOut

\* "One password and one code per run, never retried", and the logout step
\* "never repeated": whatever was lost, none of the three is dialled twice.
NeverSentTwice == \A s \in Once : tries[s] <= 1

\* A code never reaches auth once it would be refused and charged to the
\* lockout budget, however long the connection or the pause before it took.
NeverCharged == ~charged

\* A pass is a journey that went all the way and left no session behind.
PassLeavesNoSession ==
  Ended /\ result.code = "ok" => session = "ended" /\ n = Len(Path)

\* The two channels a run pages through: "the result line alone drives
\* synthetic-failing", on its outcome fail, and the job's own jobs-failed reads
\* the exit status.
LinePages == phase = "reported" /\ OutcomeOf(result.code) = "fail"
ExitPages == exit = 1

\* "One failure never pages twice", and none goes unpaged: a run that exits
\* having failed, at the site or by itself, pages through one channel, and one
\* that passed or was skipped, its line written, through none. The line pages
\* only for a step that asked the site for something; the exit pages beside a
\* line only for a bug or for a step that prepares the run.
OwnSteps == {"none", "config", "egress", "secrets", "iap_token"}
PagesOnce ==
  /\ ~(LinePages /\ ExitPages)
  /\ Exited /\ OutcomeOf(result.code) \in {"fail", "error"} => LinePages \/ ExitPages
  /\ phase = "reported" /\ OutcomeOf(result.code) \in {"pass", "skipped"} => ~ExitPages
  /\ LinePages => result.step \notin OwnSteps
  /\ phase = "reported" /\ ExitPages => result.code = "runner" \/ result.step \in OwnSteps

Longest(a, b) == IF a >= b THEN a ELSE b

\* The longest wait after the deadline: the sign-out's, or totp.mint's.
LastWait == Longest(SignOut + Overrun, MinLeft + 2 * Stall)

\* The egress budget, the deadline and the last wait hold a whole run, but for
\* what no budget bounds, in the request the deadline ends in: so task_timeout,
\* set above their sum, never kills a run that is signed in.
FitsItsBudgets ==
  now <= start + EgressWait + Deadline + Overrun + LastWait

\* Nothing but the sign-out reaches the site once the deadline has passed.
NothingPastDeadline ==
  [][wire.at = "dialled" /\ wire'.at = "handled" /\ Sending # "logout" =>
       now' < end]_vars

-----------------------------------------------------------------------------
(* Liveness *)

\* Every run writes its line, or fails to, and exits.
RunExits == <>Exited

-----------------------------------------------------------------------------
(* What the documentation says that the runs do not keep *)

\* The session cookie is "taken there the moment /auth/mfa/verify answers,
\* before anything reads the body. From then on, any exception ... sends the
\* sign-out": a run whose sign-in's headers brought both cookies signs out.
ArrivedSignsOut ==
  Ended /\ Cookies \subseteq arrived => tries["logout"] > 0 \/ BrokeSigningOut

\* "Signed in means auth's session cookie is in the jar ... From then on, any
\* exception (in the sign-in's own checks ...) sends the sign-out".
InJarSignsOut ==
  Ended /\ "session" \in held => tries["logout"] > 0 \/ BrokeSigningOut
=============================================================================
