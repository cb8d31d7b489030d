------------------------------ MODULE PdSetup ------------------------------
(***************************************************************************)
(* scripts/pagerduty/pd_setup.py: runs that make a PagerDuty account match *)
(* the design, one at a time, and what can happen around them.             *)
(*                                                                         *)
(* A run is sequential, so "at" is where it stands. Each ensure_* step     *)
(* reads the account and either finds the object as designed, leaves it    *)
(* to a person, or hands Plan.change a write; with --apply the write is a  *)
(* request that PagerDuty carries out, refuses, or carries out with its    *)
(* answer lost. Between any two steps a person may change the account by   *)
(* hand and the run may be cut short.                                      *)
(*                                                                         *)
(* Left out: wording, paging of listings, the retry of a 429, and the      *)
(* order of team members and of notification rules within their step.      *)
(***************************************************************************)
EXTENDS PagerDutyAccount, Sequences

CONSTANTS
  Services,     \* d.SERVICES: the names, in the design's order
  Placeholder,  \* the "<new ...>" a dry run has instead of an id
  None,         \* Python's None, or a variable not yet set
  Starts,       \* the accounts a first run may meet
  Modes,        \* the argument lists of the runs
  MaxRuns, MaxEdits, MaxFaults  \* bounds on runs, edits by hand and faults

Args == [apply : BOOLEAN, addRules : BOOLEAN, retry : BOOLEAN]

ASSUME ServicesAssumption ==
  /\ Services \in Seq(Names) /\ Len(Services) > 0
  /\ \A i, j \in 1..Len(Services) : Services[i] = Services[j] => i = j
ASSUME SentinelAssumption == /\ Placeholder \notin SvcIds /\ None \notin SvcIds
                             /\ Placeholder # None
                             /\ None \notin GrpIds \cup {0, 1, 2, 130}
ASSUME StartsAssumption == /\ Starts \subseteq Account
                           /\ \A a \in Starts : SettingsHold(a) /\ SupportsHold(a)
ASSUME ModesAssumption == Modes \subseteq Args

VARIABLES
  acct,    \* the account
  run,     \* the local variables of the run
  req,     \* the write under way, NoReq if there is none
  exit,    \* the exit status of the last run that ended, None before
  quiet,   \* nobody changed the account since the run began
  smooth,  \* nor was a write of this run refused or its answer lost
  severe,  \* services whose severity rules ran when the run began
  warned,  \* services whose orchestration, put by a run, PagerDuty warned of
  settled, \* an apply run ended with exit 0, and nobody changed a thing since
  plan,    \* what a dry run reported, while nobody changed a thing since
  runs, edits, faults  \* how many there have been

history == <<quiet, smooth, severe, warned, settled, plan>>
bounds == <<runs, edits, faults>>
vars == <<acct, run, req, exit, history, bounds>>

-----------------------------------------------------------------------------
(* The run's values *)

ServiceCount == Len(Services)
Verbs == {"create", "update", "refused"}
WriteKinds == Kinds \cup {"member", "service", "integration", "grouping",
                          "orchestration", "putback", "active", "support", "rule"}
Subjects == Names \cup People \cup {"-"}

NoReq == [kind |-> "none"]
Blank == [kind |-> "none", verb |-> "create", who |-> "-", on |-> None,
          back |-> "empty", setting |-> None, type |-> "intelligent",
          members |-> {}]

\* A line of the plan that is a change or a refusal: what was said of what.
Line(verb, q) == <<verb, q.kind, q.who>>

Parents == {"team", "schedule", "policy", "service", "business"}

\* Mutant: the escalation policy is made without parent=True.
IsParentButPolicy(q) == q.verb = "create" /\ q.kind \in Parents \ {"policy"}

\* plan.change(..., parent=True): the creations that later steps depend on.
IsParent(q) == q.verb = "create" /\ q.kind \in Parents

Idle(args) ==
  [at |-> "idle", args |-> args, n |-> 1, left |-> {},
   team |-> "unset", roles |-> [p \in People |-> "absent"],
   sids |-> [i \in 1..ServiceCount |-> None], every |-> [i \in SvcIds |-> NoService],
   new |-> FALSE, business |-> "unset", supporting |-> {},
   preferred |-> "intelligent", report |-> {}]

Sid == run.sids[run.n]
Name == Services[run.n]

-----------------------------------------------------------------------------
(* The steps of a run that only it takes *)

\* pd_setup.py is started. A run begins with main()'s local variables unset.
Start ==
  /\ run.at = "idle" /\ runs < MaxRuns
  /\ \E args \in Modes : run' = [Idle(args) EXCEPT !.at = "preflight"]
  /\ exit' = None
  /\ quiet' = TRUE /\ smooth' = TRUE
  /\ severe' = {i \in SvcIds : Severe(acct.svc[i])}
  /\ plan' = IF run.args.apply THEN None ELSE plan
  /\ runs' = runs + 1
  /\ UNCHANGED <<acct, req, warned, settled, edits, faults>>

\* The process exits with this status; its local variables are kept for the
\* properties that look back at the run.
Exit(code, r) ==
  /\ run' = [r EXCEPT !.at = "idle"] /\ exit' = code /\ req' = NoReq

Proceed(r) ==
  /\ run' = r
  /\ UNCHANGED <<acct, req, exit, history, bounds>>

Say(r, verb, kind, who) == [r EXCEPT !.report = @ \cup {<<verb, kind, who>>}]

\* raise Refused: the run stops, status 2.
StopRefused ==
  /\ Exit(2, run)
  /\ UNCHANGED <<acct, history, bounds>>

\* Plan.change: with --apply the request is sent; without, the line is all.
Change(q, r) ==
  /\ IF run.args.apply THEN run' = r /\ req' = q
     ELSE run' = [r EXCEPT !.report = @ \cup {Line(q.verb, q)}] /\ req' = NoReq
  /\ UNCHANGED <<acct, exit, history, bounds>>

Step(at) == run.at = at /\ req = NoReq

\* main() before the plan: the vendor, the priorities and the users.
Preflight ==
  /\ Step("preflight")
  /\ IF acct.ready THEN Proceed([run EXCEPT !.at = "team"]) ELSE StopRefused

\* The id of an object not found: PagerDuty's once created, or a placeholder.
NewId == IF run.args.apply THEN "created" ELSE "placeholder"

EnsureTeam ==
  /\ Step("team")
  /\ LET q == [Blank EXCEPT !.kind = "team"]
         r == [run EXCEPT !.at = "listing_members", !.team = "found"]
     IN  \/ acct.named["team"] = "twins" /\ StopRefused
         \/ acct.named["team"] = "absent" /\ Change(q, [r EXCEPT !.team = NewId])
         \/ acct.named["team"] = "drift" /\ Change([q EXCEPT !.verb = "update"], r)
         \/ acct.named["team"] = "match" /\ Proceed(r)

\* Only a team that was found is asked for its members.
ListMembers ==
  /\ Step("listing_members")
  /\ run.team = "found" => Exists(acct, "team")
  /\ Proceed([run EXCEPT !.at = "members", !.left = People,
                         !.roles = IF run.team = "found" THEN acct.member ELSE @])

\* One pass of the loop over d.TEAM_MEMBERS; the last one goes on.
EnsureMember ==
  /\ Step("members")
  /\ \E p \in run.left :
       LET r == [run EXCEPT !.left = @ \ {p},
                            !.at = IF run.left = {p} THEN "schedule" ELSE @]
           q == [Blank EXCEPT !.kind = "member", !.who = p,
                   !.verb = IF run.roles[p] = "absent" THEN "create" ELSE "update"]
       IN  IF run.roles[p] = "manager" THEN Proceed(r) ELSE Change(q, r)

EnsureSchedule ==
  /\ Step("schedule")
  /\ LET q == [Blank EXCEPT !.kind = "schedule"]
         r == [run EXCEPT !.at = "policy"]
     IN  \/ acct.named["schedule"] = "twins" /\ StopRefused
         \/ acct.named["schedule"] = "absent" /\ Change(q, r)
         \/ /\ acct.named["schedule"] = "layers"
            /\ Proceed(Say(r, "refused", "schedule", "-"))
         \/ acct.named["schedule"] = "drift" /\ Change([q EXCEPT !.verb = "update"], r)
         \/ acct.named["schedule"] = "match" /\ Proceed(r)

EnsurePolicy ==
  /\ Step("policy")
  /\ LET q == [Blank EXCEPT !.kind = "policy"]
         r == [run EXCEPT !.at = "list"]
     IN  \/ acct.named["policy"] = "twins" /\ StopRefused
         \/ acct.named["policy"] = "absent" /\ Change(q, r)
         \/ acct.named["policy"] = "drift" /\ Change([q EXCEPT !.verb = "update"], r)
         \/ acct.named["policy"] = "match" /\ Proceed(r)

\* ensure_services' one listing: every later service step goes by it.
ListServices ==
  /\ Step("list")
  /\ Proceed([run EXCEPT !.at = "service", !.n = 1, !.every = acct.svc])

\* Mutant: any service outside the design is taken for a renamed one.
StraysWithout == {i \in SvcIds : run.every[i].name = "other"}

\* Services with our integration under a name the design does not use.
Strays == {i \in SvcIds : run.every[i].name = "other" /\ run.every[i].integ}

\* Mutant: one service too many.
NextServiceTooFar(r) ==
  IF r.n <= ServiceCount THEN [r EXCEPT !.at = "service", !.n = @ + 1]
  ELSE [r EXCEPT !.at = "slack"]

\* Mutant: the loop does not advance.
NextServiceAgain(r) == IF r.n < ServiceCount THEN [r EXCEPT !.at = "service"]
                       ELSE [r EXCEPT !.at = "slack"]

\* On to the next service of the design, or past them all.
NextService(r) == IF r.n < ServiceCount THEN [r EXCEPT !.at = "service", !.n = @ + 1]
                  ELSE [r EXCEPT !.at = "slack"]

\* Mutant: a service is ours only once it has our integration.
SameNameAndOurs == {i \in Called(run.every, Name) : run.every[i].integ}

\* The listed services of the design's name.
SameName == Called(run.every, Name)

EnsureService ==
  /\ Step("service")
  /\ LET same == SameName
         q == [Blank EXCEPT !.kind = "service", !.who = Name]
         r == [run EXCEPT !.at = "integration"]
     IN  \/ /\ Cardinality(same) > 1
            /\ StopRefused
         \/ /\ same = {} /\ Strays # {}
            /\ Proceed(NextService(Say(run, "refused", "service", Name)))
         \/ /\ same = {} /\ Strays = {}
            /\ Change(q, [r EXCEPT !.new = TRUE,
                            !.sids[run.n] = IF run.args.apply THEN None ELSE Placeholder])
         \/ \E i \in same :
              /\ same = {i}
              /\ LET found == [r EXCEPT !.new = FALSE, !.sids[run.n] = i]
                 IN  IF run.every[i].fields = "match" THEN Proceed(found)
                     ELSE Change([q EXCEPT !.verb = "update", !.on = i], found)

EnsureIntegration ==
  /\ Step("integration")
  /\ LET q == [Blank EXCEPT !.kind = "integration", !.who = Name, !.on = Sid]
         r == [run EXCEPT !.at = "grouping"]
     IN  IF ~run.new /\ run.every[Sid].integ THEN Proceed(r) ELSE Change(q, r)

\* Mutant: only the preferred grouping will do.
AcceptableIfPreferred(type) == type = "intelligent"

\* Mutant: a dry run does not look at the setting it found.
AcceptableIfDry(type) ==
  ~run.args.apply \/ type = "intelligent" \/ (type = "time" /\ ~run.args.retry)

\* Mutant: the timeout of time-based grouping is not compared.
AcceptableAnyTime(type) == ~run.args.retry \/ type = "intelligent"

\* Grouping.acceptable; "time" is the designed ten minutes.
Acceptable(type) ==
  type = "intelligent" \/ (type = "time" /\ ~run.args.retry)

\* Mutant: the setting is sent back for the one service.
HoldersJustOne(g) == {Sid}

\* The services a setting is sent back with: all it holds.
Holders(g) == acct.grp[g].members

EnsureGrouping ==
  /\ Step("grouping")
  /\ LET holding == {g \in GrpIds : Sid \in acct.grp[g].members}
         q == [Blank EXCEPT !.kind = "grouping", !.who = Name, !.on = Sid,
                            !.type = run.preferred, !.members = {Sid}]
         r == [run EXCEPT !.at = "orchestration"]
     IN  \/ /\ \/ run.new /\ ~run.args.apply
               \/ holding = {}
            /\ Change(q, r)
         \/ /\ ~(run.new /\ ~run.args.apply)
            /\ Cardinality(holding) > 1
            /\ Proceed(Say(r, "refused", "grouping", Name))
         \/ /\ ~(run.new /\ ~run.args.apply)
            /\ \E g \in holding :
                 /\ holding = {g}
                 /\ IF Acceptable(acct.grp[g].type) THEN Proceed(r)
                    ELSE Change([q EXCEPT !.verb = "update", !.setting = g,
                                          !.members = Holders(g)], r)

\* Mutant: the path is read for every service, new or not.
ReadsAlways == TRUE

\* Only a service that was found has an orchestration to read.
Reads == ~run.new

\* Mutant: the body to put back has lost its sets.
RestorableEmpty(i) == "empty"

\* restorable(): the orchestration as read, as a body to put back.
Restorable(i) == acct.svc[i].orch

\* The orchestration to go back to on warnings is decided with the update.
EnsureOrchestration ==
  /\ Step("orchestration")
  /\ LET q == [Blank EXCEPT !.kind = "orchestration", !.who = Name, !.on = Sid]
         r == [run EXCEPT !.at = "active"]
     IN  \/ /\ ~Reads
            /\ Change([q EXCEPT !.back = "severity"], r)
         \/ /\ Reads /\ acct.svc[Sid].name # "gone"
            /\ IF acct.svc[Sid].orch = "design" THEN Proceed(r)
               ELSE Change([q EXCEPT !.verb = "update",
                                     !.back = Restorable(Sid)], r)

EnsureActive ==
  /\ Step("active")
  /\ LET q == [Blank EXCEPT !.kind = "active", !.who = Name, !.on = Sid]
         r == NextService(run)
     IN  \/ /\ ~Reads
            /\ Change(q, r)
         \/ /\ Reads /\ acct.svc[Sid].name # "gone"
            /\ IF acct.svc[Sid].active THEN Proceed(r)
               ELSE Change([q EXCEPT !.verb = "update"], r)

\* report_slack only reads, and reports even what it cannot read.
ReportSlack == Step("slack") /\ Proceed([run EXCEPT !.at = "business"])

EnsureBusiness ==
  /\ Step("business")
  /\ LET q == [Blank EXCEPT !.kind = "business"]
         r == [run EXCEPT !.at = "listing_supports", !.business = "found"]
     IN  \/ acct.named["business"] = "twins" /\ StopRefused
         \/ acct.named["business"] = "absent" /\ Change(q, [r EXCEPT !.business = NewId])
         \/ acct.named["business"] = "drift" /\ Change([q EXCEPT !.verb = "update"], r)
         \/ acct.named["business"] = "match" /\ Proceed(r)

ListSupports ==
  /\ Step("listing_supports")
  /\ run.business = "found" => Exists(acct, "business")
  /\ Proceed([run EXCEPT !.at = "supports", !.n = 1,
                         !.supporting = IF run.business = "found"
                                        THEN acct.supports ELSE {}])

\* One pass of the loop over the services' ids; None is a refused service.
EnsureSupport ==
  /\ Step("supports")
  /\ LET q == [Blank EXCEPT !.kind = "support", !.who = Name, !.on = Sid]
         r == IF run.n < ServiceCount THEN [run EXCEPT !.n = @ + 1]
              ELSE [run EXCEPT !.at = "rules", !.left = People]
     IN  IF Sid = None \/ Sid \in run.supporting THEN Proceed(r) ELSE Change(q, r)

EnsureRule ==
  /\ Step("rules")
  /\ \E p \in run.left :
       LET r == [run EXCEPT !.left = @ \ {p},
                            !.at = IF run.left = {p} THEN "end" ELSE @]
           q == [Blank EXCEPT !.kind = "rule", !.who = p]
       IN  IF acct.rule[p] = "missing" /\ run.args.addRules THEN Change(q, r)
           ELSE Proceed(r)

Changes(report) == {line \in report : line[1] # "refused"}
Refusals(report) == {line \in report : line[1] = "refused"}

\* main() returns: 1 if anything was refused.
End ==
  /\ Step("end")
  /\ LET code == IF Refusals(run.report) = {} THEN 0 ELSE 1 IN
       /\ Exit(code, run)
       /\ settled' = IF ~(run.args.apply /\ code = 0 /\ quiet) THEN settled
                     ELSE IF run.args.addRules \/ settled = "rules" THEN "rules"
                     ELSE "plain"
       /\ plan' = IF ~run.args.apply /\ quiet
                  THEN [report |-> run.report, args |-> run.args] ELSE plan
  /\ UNCHANGED <<acct, quiet, smooth, severe, warned, bounds>>

\* A read of something no longer there is a 404, which nothing catches.
ReadGone ==
  /\ \/ Step("listing_members") /\ run.team = "found" /\ ~Exists(acct, "team")
     \/ Step("listing_supports") /\ run.business = "found"
        /\ ~Exists(acct, "business")
     \/ /\ Step("orchestration") \/ Step("active")
        /\ Reads /\ acct.svc[Sid].name = "gone"
  /\ Exit(1, run)
  /\ UNCHANGED <<acct, history, bounds>>

-----------------------------------------------------------------------------
(* PagerDuty answers the write under way *)

\* A refusal of intelligent grouping itself.
RefusesIntelligent ==
  req.kind = "grouping" /\ req.type = "intelligent" /\ ~acct.intelligent

Takes == /\ req # NoReq /\ CanTake(acct, req) /\ HasRoom(acct, req)
         /\ ~RefusesIntelligent

\* change() has its result: the line is said, a new service's id is kept.
Done ==
  /\ Takes /\ req.kind # "putback"
  /\ ~(req.kind = "orchestration" /\ Warns(acct, "design"))
  /\ acct' = Handle(acct, req)
  /\ run' = [run EXCEPT
               !.report = @ \cup {Line(req.verb, req)},
               !.sids = IF req.kind = "service" /\ req.verb = "create"
                        THEN [@ EXCEPT ![run.n] = NextSvc(acct)] ELSE @]
  /\ req' = NoReq
  /\ warned' = IF req.kind = "orchestration" THEN warned \ {req.on} ELSE warned
  /\ UNCHANGED <<exit, quiet, smooth, severe, settled, plan, bounds>>

\* PagerDuty took the orchestration and warned: the one before goes back.
Warned ==
  /\ Takes /\ req.kind = "orchestration" /\ Warns(acct, "design")
  /\ acct' = Handle(acct, req)
  /\ req' = [req EXCEPT !.kind = "putback"]
  /\ warned' = warned \cup {req.on}
  /\ UNCHANGED <<run, exit, quiet, smooth, severe, settled, plan, bounds>>

\* raise Declined after the put-back went through.
PutBack ==
  /\ Takes /\ req.kind = "putback"
  /\ acct' = Handle(acct, req)
  /\ run' = Say(run, "refused", "orchestration", req.who)
  /\ req' = NoReq
  /\ warned' = warned \ {req.on}
  /\ UNCHANGED <<exit, quiet, smooth, severe, settled, plan, bounds>>

\* Grouping._send learns the fallback, once a run, and sends it.
FallBack ==
  /\ req # NoReq /\ CanTake(acct, req) /\ RefusesIntelligent
  /\ run' = [run EXCEPT !.preferred = "time"]
  /\ req' = [req EXCEPT !.type = "time"]
  /\ UNCHANGED <<acct, exit, history, bounds>>

\* An ApiError is said as refused; a refused parent stops the run.
TakeRefusal ==
  LET kind == IF req.kind = "putback" THEN "orchestration" ELSE req.kind
      r == Say(run, "refused", kind, req.who)
  IN  IF IsParent(req) THEN Exit(2, r)
      ELSE run' = r /\ req' = NoReq /\ UNCHANGED exit

\* PagerDuty refuses because what the request refers to is not there.
RefuseGone ==
  /\ req # NoReq /\ ~CanTake(acct, req)
  /\ TakeRefusal
  /\ smooth' = FALSE
  /\ UNCHANGED <<acct, quiet, severe, warned, settled, plan, bounds>>

\* PagerDuty refuses for a reason of its own (4xx, 5xx), or cannot be reached.
Refuse ==
  /\ req # NoReq /\ CanTake(acct, req) /\ faults < MaxFaults
  /\ TakeRefusal
  /\ smooth' = FALSE /\ faults' = faults + 1
  /\ UNCHANGED <<acct, quiet, severe, warned, settled, plan, runs, edits>>

WarnedAfter ==
  IF req.kind = "orchestration" /\ Warns(acct, "design") THEN warned \cup {req.on}
  ELSE IF req.kind \in {"orchestration", "putback"} THEN warned \ {req.on}
  ELSE warned

\* PagerDuty carries the request out and its answer is lost behind a gateway's
\* 5xx: to the run it is an ApiError like any other.
LoseAnswer ==
  /\ Takes /\ faults < MaxFaults
  /\ acct' = Handle(acct, req)
  /\ TakeRefusal
  /\ warned' = WarnedAfter
  /\ smooth' = FALSE /\ faults' = faults + 1
  /\ UNCHANGED <<quiet, severe, settled, plan, runs, edits>>

\* The run is cut short: interrupted or killed, a read that failed, or a write
\* whose answer timed out, which no step catches (run_main exits 1 or 130). A
\* write under way may have been carried out.
Abort ==
  /\ run.at # "idle" /\ faults < MaxFaults
  /\ \/ UNCHANGED <<acct, warned>>
     \/ Takes /\ acct' = Handle(acct, req) /\ warned' = WarnedAfter
  /\ \E code \in {1, 130} : Exit(code, run)
  /\ smooth' = FALSE /\ faults' = faults + 1
  /\ UNCHANGED <<quiet, severe, settled, plan, runs, edits>>

-----------------------------------------------------------------------------
(* A person changes the account by hand, at any moment *)

EditByHand ==
  /\ edits < MaxEdits
  /\ \E a \in Edits(acct) :
       /\ a # acct
       /\ acct' = a
       /\ warned' = {i \in warned : a.svc[i].orch = "design"}
  /\ quiet' = FALSE /\ smooth' = FALSE
  /\ settled' = "no" /\ plan' = None
  /\ edits' = edits + 1
  /\ UNCHANGED <<run, req, exit, severe, runs, faults>>

-----------------------------------------------------------------------------

Init ==
  /\ acct \in Starts
  /\ run = Idle([apply |-> FALSE, addRules |-> FALSE, retry |-> FALSE])
  /\ req = NoReq /\ exit = None
  /\ quiet = TRUE /\ smooth = TRUE /\ severe = {} /\ warned = {}
  /\ settled = "no" /\ plan = None
  /\ runs = 0 /\ edits = 0 /\ faults = 0

Ensure ==
  \/ Preflight \/ EnsureTeam \/ ListMembers \/ EnsureMember \/ EnsureSchedule
  \/ EnsurePolicy \/ ListServices \/ EnsureService \/ EnsureIntegration
  \/ EnsureGrouping \/ EnsureOrchestration \/ EnsureActive \/ ReportSlack
  \/ EnsureBusiness \/ ListSupports \/ EnsureSupport \/ EnsureRule \/ End \/ ReadGone

Answer ==
  \/ Done \/ Warned \/ PutBack \/ FallBack \/ RefuseGone \/ Refuse \/ LoseAnswer

Next == Start \/ Ensure \/ Answer \/ Abort \/ EditByHand

Spec == Init /\ [][Next]_vars

\* Python runs on to the next statement, and http_json gives each socket
\* operation of a request 30 s, so a request is answered or the run aborts.
FairSpec == Spec /\ WF_vars(Ensure) /\ WF_vars(Answer)
=============================================================================
