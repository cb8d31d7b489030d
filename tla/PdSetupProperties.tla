-------------------------- MODULE PdSetupProperties --------------------------
(***************************************************************************)
(* What pd_setup.py promises of its runs, as properties of PdSetup.        *)
(***************************************************************************)
EXTENDS PdSetup

-----------------------------------------------------------------------------
(* Types *)

Ats == {"idle", "preflight", "team", "listing_members", "members", "schedule",
        "policy", "list", "service", "integration", "grouping",
        "orchestration", "active", "slack", "business", "listing_supports",
        "supports", "rules", "end"}

HeldIds == {"unset", "found", "created", "placeholder"}

Lines == Verbs \X WriteKinds \X Subjects

Runs == [at : Ats, args : Args, n : 1..ServiceCount, left : SUBSET People,
         team : HeldIds, roles : [People -> {"absent", "other", "manager"}],
         sids : [1..ServiceCount -> SvcIds \cup {Placeholder, None}],
         every : [SvcIds -> Service], new : BOOLEAN, business : HeldIds,
         supporting : SUBSET SvcIds, preferred : {"intelligent", "time"},
         report : SUBSET Lines]

Requests == [kind : WriteKinds, verb : {"create", "update"}, who : Subjects,
             on : SvcIds \cup {Placeholder, None}, back : Orchestrations,
             setting : GrpIds \cup {None}, type : {"intelligent", "time"},
             members : SUBSET SvcIds]

\* Every variable has its type.
TypeOK ==
  /\ acct \in Account
  /\ run \in Runs
  /\ req \in Requests \cup {NoReq}
  /\ exit \in {None, 0, 1, 2, 130}
  /\ quiet \in BOOLEAN /\ smooth \in BOOLEAN
  /\ severe \subseteq SvcIds /\ warned \subseteq SvcIds
  /\ settled \in {"no", "plain", "rules"}
  /\ plan \in [report : SUBSET Lines, args : Args] \cup {None}
  /\ runs \in Nat /\ edits \in Nat /\ faults \in Nat

-----------------------------------------------------------------------------
(* Safety *)

\* The service ids a step at this point builds a URL from.
UrlIds ==
  (IF req # NoReq /\ req.kind \in {"service", "integration", "grouping",
                                   "orchestration", "putback", "active", "support"}
      /\ ~(req.kind = "service" /\ req.verb = "create")
   THEN {req.on} ELSE {})
  \cup (IF run.at \in {"orchestration", "active"} /\ req = NoReq /\ Reads
        THEN {Sid} ELSE {})

\* PagerDuty._url and PagerDuty.write never raise RuntimeError: no request is
\* built from a placeholder or from a service that was refused, and a dry run
\* never attempts a write (pdlib.py, test_the_run_stops_and_no_url_...).
NoPlaceholderRequest ==
  /\ req # NoReq => run.args.apply
  /\ UrlIds \subseteq SvcIds
  /\ run.args.apply => "placeholder" \notin {run.team, run.business}

\* A refused parent stops the run before anything that depends on it: while
\* nobody else touches the account, whatever a write refers to is there.
ParentsFirst == quiet /\ req # NoReq => CanTake(acct, req)

\* An account without Advanced Event Orchestration "loses only the titles,
\* never the severity": a service whose severity rules ran when the run began
\* has them at every step of it, the put-back, a lost answer or an
\* interruption between two writes included.
SeverityNeverLost == quiet => \A i \in severe : Severe(acct.svc[i])

\* Exit 0 after --apply means that the account is as designed, down to each
\* service's children, and not only that the last writes went through.
ExitZeroMeansMatch ==
  run.at = "idle" /\ exit = 0 /\ run.args.apply /\ quiet =>
    Matches(acct, {Services[i] : i \in 1..ServiceCount}, run.args.addRules)

\* What the script leaves to a person.
Blocked ==
  \/ ~acct.ready
  \/ \E k \in Kinds : acct.named[k] \in {"twins", "layers"}
  \/ \E nm \in Names : Cardinality(Called(acct.svc, nm)) > 1
  \/ \E i \in SvcIds : acct.svc[i].name = "other" /\ acct.svc[i].integ
  \/ \E i \in SvcIds : Cardinality({g \in GrpIds : i \in acct.grp[g].members}) > 1
  \/ ~acct.advanced

\* A run that meets no fault and no one else refuses only what its docstring
\* says it leaves to a person: it never stops or exits 1 for want of trying.
RefusesOnlyWhatBlocks ==
  run.at = "idle" /\ exit \in {1, 2} /\ run.args.apply /\ smooth => Blocked

\* The verb and the object of a line, whatever became of it.
Objects(report) == {<<line[2], line[3]>> : line \in report}

\* The service's alert grouping is another one's too, whose the run has made right.
RightedWithAnother(nm) ==
  \E g \in GrpIds : \E i, j \in acct.grp[g].members :
    acct.svc[i].name = nm /\ <<"update", "grouping", acct.svc[j].name>> \in run.report

\* A dry run foretells the --apply that follows it: nothing else is touched,
\* each object that is changed is changed as the dry run said, and every one it
\* named is touched, but for a grouping setting that several services share:
\* the dry run names each of them, and the first one's write does for all.
DryRunForetells ==
  run.at = "idle" /\ exit \in {0, 1, 2} /\ run.args.apply /\ smooth
    /\ plan # None /\ plan.args = [run.args EXCEPT !.apply = FALSE] =>
    /\ Changes(run.report) \subseteq plan.report
    /\ Refusals(plan.report) \subseteq run.report
    /\ Objects(run.report) \subseteq Objects(plan.report)
    /\ \A o \in Objects(plan.report) \ Objects(run.report) :
         o[1] = "grouping" /\ RightedWithAnother(o[2])

\* "Re-running changes nothing when PagerDuty already matches": after an
\* --apply that exited 0, a run (dry or not, without
\* --retry-intelligent-grouping) neither changes nor plans nor refuses a thing.
RerunChangesNothing ==
  /\ settled # "no"
  /\ ~run.args.retry
  /\ run.args.addRules => settled = "rules"
  /\ run.at # "idle"
  => req = NoReq /\ run.report = {}

\* No run makes a second object of a name, even when the answer to a create
\* was lost or the run was cut short before it was written down.
NeverASecond ==
  [][quiet' =>
       /\ \A nm \in Names : Cardinality(Called(acct'.svc, nm)) > 1 =>
                              Cardinality(Called(acct.svc, nm)) > 1
       /\ \A k \in Kinds : acct'.named[k] = "twins" => acct.named[k] = "twins"]_vars

\* Correcting one service's alert grouping takes no other service out of a
\* setting they share.
SharedSettingKept ==
  [][quiet' => \A g \in GrpIds :
                 acct.grp[g].members \subseteq acct'.grp[g].members]_vars

-----------------------------------------------------------------------------
(* Liveness *)

\* A run that is started ends.
RunEnds == run.at # "idle" ~> run.at = "idle"

-----------------------------------------------------------------------------
(* What the documentation says that the runs do not keep *)

\* pd_setup.py will not "keep an event orchestration PagerDuty answered with
\* warnings"; what it will not do prints "as kept or refused" (its docstring):
\* a run that goes through a service whose warned orchestration is still there
\* says so.
WarnedIsRefused ==
  run.at = "idle" /\ exit \in {0, 1} /\ run.args.apply /\ smooth =>
    \A i \in warned : <<"refused", "orchestration", acct.svc[i].name>> \in run.report

\* An account without Advanced Event Orchestration "loses only the titles,
\* never the severity" (docs/PAGERDUTY.md): once an --apply has been through
\* a service and met no fault, the service's severity rules run.
TitlesLostNeverSeverity ==
  run.at = "idle" /\ exit \in {0, 1} /\ run.args.apply /\ smooth =>
    \A nm \in Names : \A i \in Called(acct.svc, nm) :
      acct.svc[i].active => Severe(acct.svc[i])
=============================================================================
