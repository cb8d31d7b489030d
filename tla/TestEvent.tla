------------------------------ MODULE TestEvent ------------------------------
(***************************************************************************)
(* scripts/pagerduty/pd_test_event.py: one test event sent to a service,   *)
(* found again as an incident, compared with the design and resolved.      *)
(*                                                                         *)
(* The script is sequential and every call of it may fail. PagerDuty works *)
(* events off in order but late, may group the test's alert into another   *)
(* incident or another alert into the test's, and a person it pages may    *)
(* acknowledge or resolve. One unit of time is the three seconds between   *)
(* two polls. Left out: the payload's other fields, the wording, and       *)
(* --monitoring-subject, which only changes which title is wanted.         *)
(***************************************************************************)
EXTENDS Integers, Sequences

CONSTANTS
  Runs,       \* the argument lists: severity, send, keep
  Wait,       \* --wait
  MaxCall,    \* the longest a call takes
  MaxNow,     \* bound on the clock
  MaxFaults,  \* bound on calls that fail and interruptions
  Delay,      \* bound on how long PagerDuty leaves an event waiting
  None

Severities == {"Critical", "Error", "Warning", "other"}
Args == [severity : Severities, send : BOOLEAN, keep : BOOLEAN]

VARIABLES
  args,      \* the arguments
  at,        \* where main() stands
  now,       \* the clock
  deadline,  \* of the poll under way
  got,       \* the incident as read, None before
  exit,      \* the exit status, None before
  raised,    \* main() did not return: a call failed or it was interrupted
  faults,
  svc,       \* the service, as PagerDuty has it
  queue,     \* events PagerDuty has taken and not worked off, with when
  alert,     \* the test's alert
  holder,    \* the incident that holds it
  shape,     \* what that incident looks like
  company,   \* it holds an open alert of someone else
  acked,
  seen       \* when the listing first showed it, None before

script == <<args, at, deadline, got, exit, raised, faults>>
account == <<svc, queue, alert, holder, shape, company, acked, seen>>
vars == <<script, now, account>>

-----------------------------------------------------------------------------
(* The design *)

\* expected(): urgency, alert severity and priority of a Monitoring severity.
Expected(severity) ==
  CASE severity = "Critical" -> [urgency |-> "high", severity |-> "critical", priority |-> "P1"]
    [] severity = "Error" -> [urgency |-> "high", severity |-> "error", priority |-> "P2"]
    [] severity = "Warning" -> [urgency |-> "low", severity |-> "warning", priority |-> "P3"]
    [] OTHER -> [urgency |-> "high", severity |-> "critical", priority |-> "none"]

\* expected_title() is one of the three an event can end with: the others are
\* Monitoring's own and one that someone else's alert brought.
Titles == {"expected", "Monitoring", "other"}
Designed(severity) == [of |-> Expected(severity), title |-> "expected"]

Shapes == [of : [urgency : {"high", "low"}, priority : {"P1", "P2", "P3", "none"},
                severity : {"critical", "error", "warning"}],
           title : Titles]

\* What the service's orchestration makes of an event: nothing, the severity
\* alone, or the design.
Outcome(rules, severity) ==
  [of |-> IF rules = "none" THEN Expected("other") ELSE Expected(severity),
   title |-> IF rules = "design" THEN "expected" ELSE "Monitoring"]

-----------------------------------------------------------------------------
(* PagerDuty *)

\* The incident's status is that of its alerts.
Status == IF alert = "open" \/ company THEN IF acked THEN "acknowledged" ELSE "triggered"
          ELSE "resolved"

\* Incidents are listed from a minute before the test on, whatever their status.
Listed == alert # "none" /\ holder \in {"own", "recent"}

\* The oldest event is worked off: the trigger makes an incident, or joins one.
Process ==
  /\ queue # <<>>
  /\ queue' = Tail(queue)
  /\ CASE Head(queue).type = "trigger" ->
            /\ alert' = "open"
            /\ holder' \in {"own"} \cup IF svc.groups THEN {"recent", "older"} ELSE {}
            /\ LET mine == Outcome(svc.rules, args.severity) IN
                 IF holder' = "own" THEN shape' = mine /\ company' = FALSE
                 ELSE /\ \E s \in {mine.of, Expected("Critical")},
                            t \in {"expected", "other"} :
                           shape' = [of |-> [s EXCEPT !.severity = mine.of.severity], title |-> t]
                      /\ company' = TRUE
            /\ seen' = IF holder' = "older" THEN None ELSE now
            /\ UNCHANGED acked
       [] Head(queue).type = "resolve" ->
            /\ alert' = IF alert = "open" THEN "resolved" ELSE alert
            /\ UNCHANGED <<holder, shape, company, acked, seen>>
  /\ UNCHANGED <<script, now, svc>>

\* Another alert of the service is grouped into the test's incident.
Joined ==
  /\ svc.groups /\ holder = "own" /\ alert = "open" /\ ~company
  /\ company' = TRUE
  /\ UNCHANGED <<script, now, svc, queue, alert, holder, shape, acked, seen>>

\* Whoever is paged acknowledges, or resolves the incident.
Acknowledge ==
  /\ Status = "triggered" /\ alert = "open"
  /\ acked' = TRUE
  /\ UNCHANGED <<script, now, svc, queue, alert, holder, shape, company, seen>>

ResolveByHand ==
  /\ alert # "none" /\ Status # "resolved"
  /\ alert' = "resolved" /\ company' = FALSE
  /\ UNCHANGED <<script, now, svc, queue, holder, shape, acked, seen>>

-----------------------------------------------------------------------------
(* The script *)

\* A call's answer, or a sleep, takes this long; PagerDuty leaves no event
\* waiting longer than Delay.
Passes(d) ==
  /\ now + d <= MaxNow
  /\ \A i \in DOMAIN queue : now + d - queue[i].sent <= Delay
  /\ now' = now + d
Takes == \E d \in 0..MaxCall : Passes(d)

Return(code) == at' = "done" /\ exit' = code
Sent(type) == queue' = Append(queue, [type |-> type, sent |-> now'])

\* service_integration_key: no service of the name or two, no integration of
\* ours, or no key on it, is refused. Without --send nothing more is called.
LookUp ==
  /\ at = "look_up" /\ Takes
  /\ IF svc.found # "one" \/ svc.key = "none" THEN Return(2)
     ELSE IF ~args.send THEN Return(0)
     ELSE at' = "trigger" /\ UNCHANGED exit
  /\ UNCHANGED <<args, deadline, got, raised, faults, account>>

Trigger ==
  /\ at = "trigger" /\ Takes
  /\ Sent("trigger")
  /\ at' = "poll" /\ deadline' = now' + Wait
  /\ UNCHANGED <<args, got, exit, raised, faults, svc, alert, holder, shape,
                 company, acked, seen>>

\* Mutant: no poll is begun that could end after the deadline.
PastNext(t) == t + 1 + MaxCall > deadline

\* Nothing more is tried once the deadline has passed.
Past(t) == t > deadline

\* find_incident: the listing and each incident's alerts; then the incident.
Poll ==
  /\ at = "poll" /\ Takes
  /\ at' = IF Listed THEN "read" ELSE IF Past(now') THEN "give_up" ELSE "sleep"
  /\ UNCHANGED <<args, deadline, got, exit, raised, faults, account>>

Sleep ==
  /\ at \in {"sleep", "sleep_on"} /\ Passes(1)
  /\ at' = IF at = "sleep" THEN "poll" ELSE "await"
  /\ UNCHANGED <<args, deadline, got, exit, raised, faults, account>>

\* Mutant: what was not found is only said.
GiveUpQuietly ==
  /\ at = "give_up" /\ Return(1)
  /\ UNCHANGED <<now, args, deadline, got, raised, faults, account>>

\* Not found: the event may still be on its way, so it is resolved all the same.
GiveUp ==
  /\ at = "give_up" /\ Takes
  /\ Sent("resolve") /\ Return(1)
  /\ UNCHANGED <<args, deadline, got, raised, faults, svc, alert, holder, shape,
                 company, acked, seen>>

\* Mutant: the title is printed and not compared.
AsDesignedButTitle(incident) == incident.of = Expected(args.severity)

\* main()'s ok: urgency, the alert's severity, priority and title.
AsDesigned(incident) == incident = Designed(args.severity)

\* GET /incidents/{id}, and the comparison printed; --keep ends here.
Read ==
  /\ at = "read" /\ Takes
  /\ got' = shape
  /\ IF args.keep THEN Return(IF AsDesigned(shape) THEN 0 ELSE 1)
     ELSE at' = "resolve" /\ UNCHANGED exit
  /\ UNCHANGED <<args, deadline, raised, faults, account>>

Resolve ==
  /\ at = "resolve" /\ Takes
  /\ Sent("resolve")
  /\ at' = "await" /\ deadline' = now' + Wait
  /\ UNCHANGED <<args, got, exit, raised, faults, svc, alert, holder, shape,
                 company, acked, seen>>

\* The incident is read until it is resolved or the second wait is over.
Await ==
  /\ at = "await" /\ Takes
  /\ IF Status = "resolved" \/ Past(now')
     THEN Return(IF AsDesigned(got) /\ Status = "resolved" THEN 0 ELSE 1)
     ELSE at' = "sleep_on" /\ UNCHANGED exit
  /\ UNCHANGED <<args, deadline, got, raised, faults, account>>

Calls == {"look_up", "trigger", "poll", "read", "give_up", "resolve", "await"}

\* A call fails and nothing catches it: an event sent may have been taken.
CallFails ==
  /\ at \in Calls /\ faults < MaxFaults /\ Takes
  /\ faults' = faults + 1 /\ raised' = TRUE /\ Return(1)
  /\ \/ UNCHANGED queue
     \/ at = "trigger" /\ Sent("trigger")
     \/ at \in {"give_up", "resolve"} /\ Sent("resolve")
  /\ UNCHANGED <<args, deadline, got, svc, alert, holder, shape, company, acked,
                 seen>>

\* The person running it stops it.
Interrupt ==
  /\ at # "done" /\ faults < MaxFaults
  /\ faults' = faults + 1 /\ raised' = TRUE /\ Return(130)
  /\ UNCHANGED <<args, now, deadline, got, account>>

-----------------------------------------------------------------------------

Init ==
  /\ args \in Runs
  /\ at = "look_up" /\ now = 0 /\ deadline = 0 /\ got = None /\ exit = None
  /\ raised = FALSE /\ faults = 0
  /\ svc \in [found : {"one"}, key : {"set"}, groups : BOOLEAN,
              rules : {"none", "severity", "design"}]
        \cup [found : {"none", "twins"}, key : {"none"}, groups : {FALSE}, rules : {"none"}]
        \cup [found : {"one"}, key : {"none"}, groups : {FALSE}, rules : {"none"}]
  /\ queue = <<>> /\ alert = "none" /\ holder = "none" /\ shape = None
  /\ company = FALSE /\ acked = FALSE /\ seen = None

Works == LookUp \/ Trigger \/ Poll \/ Sleep \/ GiveUp \/ Read \/ Resolve \/ Await
PagerDuty == Process \/ Joined \/ Acknowledge \/ ResolveByHand

Next == Works \/ CallFails \/ Interrupt \/ PagerDuty

Spec == Init /\ [][Next]_vars /\ WF_vars(Works) /\ WF_vars(Process)

-----------------------------------------------------------------------------
(***************************************************************************)
(* What a run of pd_test_event.py promises, as properties of TestEvent.    *)
(***************************************************************************)

\* Every variable has its type, and main() resolves and awaits only an
\* incident it has read.
TypeOK ==
  /\ args \in Args /\ now \in 0..MaxNow /\ deadline \in 0..(MaxNow + Wait)
  /\ at \in Calls \cup {"sleep", "sleep_on", "done"}
  /\ got \in Shapes \cup {None} /\ shape \in Shapes \cup {None}
  /\ exit \in {None, 0, 1, 2, 130} /\ (exit = None <=> at # "done")
  /\ at \in {"resolve", "await", "sleep_on"} => got # None
  /\ queue \in Seq([type : {"trigger", "resolve"}, sent : 0..MaxNow])
  /\ alert \in {"none", "open", "resolved"}
  /\ holder \in {"none", "own", "recent", "older"}
  /\ raised \in BOOLEAN /\ company \in BOOLEAN /\ acked \in BOOLEAN
  /\ seen \in 0..MaxNow \cup {None}

\* "Exit 0 when PagerDuty did what the design says": an incident of the test's
\* own went through the whole design, an event whose severity is not the one
\* that PagerDuty gives any event went through its rule, and without --keep the
\* incident was resolved when the run ended.
ZeroIsDesigned ==
  exit = 0 /\ args.send =>
    /\ holder = "own" => svc.rules = "design"
    /\ args.severity \in {"Error", "Warning"} => svc.rules # "none"
    /\ ~args.keep => alert = "resolved"

\* Not found means it was not there: an incident the listing showed in time
\* for the last poll (one call before the deadline) is found.
FoundIfInTime ==
  ~raised /\ at = "done" /\ exit = 1 /\ got = None /\ seen # None =>
    seen > deadline - MaxCall

\* A run that returns leaves nothing open: the test's alert, however late it
\* opens, is resolved in the end.
NothingOpen == at = "done" /\ ~raised /\ args.send /\ ~args.keep => alert # "open"

\* What the head of pd_test_event.py says: the script "resolves it through the
\* same integration, so the escalation's second level never fires".
SentIsResolved ==
  exit \in {0, 1} /\ alert = "open" /\ ~args.keep =>
    \E i \in DOMAIN queue : queue[i].type = "resolve"

\* What the test event promises at any moment.
Safe ==
  /\ TypeOK /\ ZeroIsDesigned /\ FoundIfInTime

\* Where it ends.
Over == at = "done"
=============================================================================
