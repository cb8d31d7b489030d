-------------------------- MODULE PagerDutyAccount --------------------------
(***************************************************************************)
(* The PagerDuty account that scripts/pagerduty/pd_setup.py reads and      *)
(* writes: which of the designed objects it holds, how each compares with  *)
(* the design, and what PagerDuty does with a request.                     *)
(*                                                                         *)
(* PagerDuty is not in this repository: it is modelled from the requests   *)
(* pd_setup.py sends, what it expects back and tests/pagerduty/fakes.py.   *)
(*                                                                         *)
(* An object is abstracted to its comparison with the design: "match"      *)
(* stands for every field pd_setup.py compares being as designed, the ids  *)
(* it refers to included.                                                  *)
(***************************************************************************)
EXTENDS Integers, FiniteSets

CONSTANTS
  Names,   \* the names the design gives services
  People,  \* the designed team members
  SvcIds,  \* service ids, used or not
  GrpIds   \* alert grouping setting ids, used or not

ASSUME NamesAssumption == Names \cap {"other", "gone", "-"} = {}
ASSUME IdsAssumption == IsFiniteSet(SvcIds) /\ IsFiniteSet(GrpIds)

-----------------------------------------------------------------------------
(* Values *)

\* The objects found by name that come once each.
Kinds == {"team", "schedule", "policy", "business"}

\* "twins": two objects share the designed name. "layers": not exactly one
\* active layer (a schedule only).
NamedStates == {"absent", "drift", "match", "twins", "layers"}

\* "empty": no rules. "custom": a person's own rules, without the severity
\* rules. "severity": the severity rules alone. "design": severity and titles.
Orchestrations == {"empty", "custom", "severity", "design"}

\* An id that is not in use has the name "gone"; a service a person renamed
\* away from the design has the name "other".
Service == [name : Names \cup {"other", "gone"}, fields : {"drift", "match"},
            integ : BOOLEAN, orch : Orchestrations, active : BOOLEAN]

\* A setting id that is not in use has no members.
Setting == [type : {"intelligent", "time", "other"}, members : SUBSET SvcIds]

Account == [named : [Kinds -> NamedStates],
            member : [People -> {"absent", "other", "manager"}],
            rule : [People -> {"missing", "designed", "theirs"}],
            svc : [SvcIds -> Service],
            grp : [GrpIds -> Setting],
            supports : SUBSET SvcIds,
            advanced : BOOLEAN, intelligent : BOOLEAN, ready : BOOLEAN]

NoService == [name |-> "gone", fields |-> "drift", integ |-> FALSE,
              orch |-> "empty", active |-> FALSE]
NewService(nm) == [name |-> nm, fields |-> "match", integ |-> FALSE,
                   orch |-> "empty", active |-> TRUE]

-----------------------------------------------------------------------------
(* Reading the account *)

Exists(a, k) == a.named[k] # "absent"

Called(svcs, nm) == {i \in SvcIds : svcs[i].name = nm}

UnusedSvc(a) == {i \in SvcIds : a.svc[i].name = "gone"}
UnusedGrp(a) == {g \in GrpIds : a.grp[g].members = {}}

\* Each alert grouping setting holds services that are in the account.
SettingsHold(a) == \A g \in GrpIds : a.grp[g].members \cap UnusedSvc(a) = {}

\* So does each business service: what supports it is in the account.
SupportsHold(a) == a.supports \cap UnusedSvc(a) = {}

\* What the next POST /services, or POST /alert_grouping_settings, makes.
NextSvc(a) == CHOOSE i \in UnusedSvc(a) : TRUE
NextGrp(a) == CHOOSE g \in UnusedGrp(a) : TRUE

\* PagerDuty warns of an orchestration it will not run in full.
Warns(a, o) == o = "design" /\ ~a.advanced

\* Whether an event's severity is set from Monitoring's: the severity rules
\* are in "start", which runs with or without Advanced Event Orchestration.
Severe(s) == s.name # "gone" /\ s.orch \in {"severity", "design"} /\ s.active

-----------------------------------------------------------------------------
(* Requests: what PagerDuty can carry out, and the account afterwards *)

\* The writes to one service's URL, or to a child of it.
OnService == {"integration", "orchestration", "putback", "active", "support"}

\* The objects a request's URL and body refer to are in the account; a person
\* has at most one rule that starts the way the designed one does.
CanTake(a, q) ==
  /\ q.kind \in Kinds /\ q.verb = "update" => Exists(a, q.kind)
  /\ q.kind \in {"member", "schedule", "policy", "business"} => Exists(a, "team")
  /\ q.kind = "policy" => Exists(a, "schedule")
  /\ q.kind = "service" => Exists(a, "policy")
  /\ q.kind = "service" /\ q.verb = "update" => a.svc[q.on].name # "gone"
  /\ q.kind \in OnService => a.svc[q.on].name # "gone"
  /\ q.kind = "support" => Exists(a, "business")
  /\ q.kind = "grouping" => q.members \cap UnusedSvc(a) = {}
  /\ q.kind = "grouping" /\ q.verb = "update" => a.grp[q.setting].members # {}
  /\ q.kind = "rule" => a.rule[q.who] # "designed"

\* The bound on ids: there is one left for what a request makes.
HasRoom(a, q) ==
  q.verb = "create" => /\ q.kind = "service" => UnusedSvc(a) # {}
                       /\ q.kind = "grouping" => UnusedGrp(a) # {}

\* A POST makes a second object of a name already in use; a PUT leaves twins.
NamedAfter(a, q) ==
  [k \in Kinds |->
    IF k # q.kind THEN a.named[k]
    ELSE IF a.named[k] = "twins" \/ (q.verb = "create" /\ Exists(a, k)) THEN "twins"
    ELSE "match"]

ServiceAfter(s, q) ==
  [s EXCEPT !.name = IF q.kind = "service" THEN q.who ELSE @,
            !.fields = IF q.kind = "service" THEN "match" ELSE @,
            !.integ = @ \/ q.kind = "integration",
            !.orch = IF q.kind = "orchestration" THEN "design"
                     ELSE IF q.kind = "putback" THEN q.back ELSE @,
            !.active = @ \/ q.kind = "active"]

ServicesAfter(a, q) ==
  [i \in SvcIds |->
    IF q.kind = "service" /\ q.verb = "create"
    THEN IF i = NextSvc(a) THEN NewService(q.who) ELSE a.svc[i]
    ELSE IF i = q.on THEN ServiceAfter(a.svc[i], q) ELSE a.svc[i]]

SettingsAfter(a, q) ==
  LET written == IF q.verb = "create" THEN NextGrp(a) ELSE q.setting IN
  IF q.kind # "grouping" THEN a.grp
  ELSE [g \in GrpIds |-> IF g = written THEN [type |-> q.type, members |-> q.members]
                         ELSE a.grp[g]]

Handle(a, q) ==
  [a EXCEPT
    !.named = NamedAfter(a, q),
    !.member = [p \in People |-> IF q.kind = "member" /\ p = q.who THEN "manager"
                                 ELSE a.member[p]],
    !.rule = [p \in People |-> IF q.kind = "rule" /\ p = q.who THEN "designed"
                               ELSE a.rule[p]],
    !.svc = ServicesAfter(a, q),
    !.grp = SettingsAfter(a, q),
    !.supports = IF q.kind = "support" THEN @ \cup {q.on} ELSE @]

-----------------------------------------------------------------------------
(* What a person may change by hand in PagerDuty *)

\* A thing deleted is no longer what the things that referred to it refer to.
Referrers == [team |-> {"schedule", "policy", "business"},
              schedule |-> {"policy"}, policy |-> {}, business |-> {}]

Unpolicied(s) == IF s.name = "gone" THEN s ELSE [s EXCEPT !.fields = "drift"]

DeleteNamed(a, k) ==
  [a EXCEPT
    !.named = [j \in Kinds |->
                 IF j = k THEN "absent"
                 ELSE IF j \in Referrers[k] /\ a.named[j] = "match" THEN "drift"
                 ELSE a.named[j]],
    !.member = IF k = "team" THEN [p \in People |-> "absent"] ELSE @,
    !.supports = IF k = "business" THEN {} ELSE @,
    !.svc = IF k = "policy" THEN [i \in SvcIds |-> Unpolicied(a.svc[i])] ELSE @]

\* Deleting, drifting, making a second one; changing the schedule's layers.
NamedEdits(a) ==
  LET there == {k \in Kinds : Exists(a, k)} IN
  {DeleteNamed(a, k) : k \in there}
  \cup {[a EXCEPT !.named[k] = v] : k \in there, v \in {"drift", "twins"}}
  \cup {[a EXCEPT !.named[k] = "layers"] : k \in there \cap {"schedule"}}

PersonEdits(a) ==
  {[a EXCEPT !.member[p] = v] : p \in {r \in People : Exists(a, "team")},
                                v \in {"absent", "other"}}
  \cup {[a EXCEPT !.rule[p] = v] : p \in People, v \in {"missing", "theirs"}}

DeleteService(a, i) ==
  [a EXCEPT !.svc[i] = NoService, !.supports = @ \ {i},
            !.grp = [g \in GrpIds |-> [a.grp[g] EXCEPT !.members = @ \ {i}]]]

\* Renaming, drifting, taking the integration away, writing the
\* orchestration, switching it.
EditedService(s) ==
  {[s EXCEPT !.name = nm] : nm \in Names \cup {"other"}}
  \cup {[s EXCEPT !.fields = "drift"], [s EXCEPT !.integ = FALSE]}
  \cup {[s EXCEPT !.orch = o] : o \in Orchestrations}
  \cup {[s EXCEPT !.active = v] : v \in BOOLEAN}

ServicesByHand == {[NewService(nm) EXCEPT !.fields = "drift"] : nm \in Names}

EditsOf(a, i) ==
  IF a.svc[i].name = "gone" THEN {[a EXCEPT !.svc[i] = s] : s \in ServicesByHand}
  ELSE {[a EXCEPT !.svc[i] = s] : s \in EditedService(a.svc[i])} \cup {DeleteService(a, i)}

ServiceEdits(a) == UNION {EditsOf(a, i) : i \in SvcIds}

GroupingEdits(a) ==
  {[a EXCEPT !.grp[g] = s] : g \in GrpIds,
     s \in {x \in Setting : x.members \subseteq SvcIds \ UnusedSvc(a)}}

SupportEdits(a) == {[a EXCEPT !.supports = @ \ {i}] : i \in a.supports}

\* The account gains or loses an add-on, or a thing every run needs: the
\* vendor, a priority, one user for each name.
FeatureEdits(a) == {[a EXCEPT !.advanced = v] : v \in BOOLEAN}
                   \cup {[a EXCEPT !.intelligent = v] : v \in BOOLEAN}
                   \cup {[a EXCEPT !.ready = v] : v \in BOOLEAN}

Edits(a) == NamedEdits(a) \cup PersonEdits(a) \cup ServiceEdits(a)
            \cup GroupingEdits(a) \cup SupportEdits(a) \cup FeatureEdits(a)

-----------------------------------------------------------------------------
(* The account is as designed, what a person is left to decide apart *)

Matches(a, services, addRules) ==
  /\ \A k \in Kinds : a.named[k] = "match"
  /\ \A p \in People : a.member[p] = "manager"
  /\ addRules => \A p \in People : a.rule[p] # "missing"
  /\ \A nm \in services :
       \E i \in SvcIds :
         /\ Called(a.svc, nm) = {i}
         /\ a.svc[i].fields = "match" /\ a.svc[i].integ
         /\ a.svc[i].orch = "design" /\ a.svc[i].active
         /\ i \in a.supports
         /\ \E g \in GrpIds : {h \in GrpIds : i \in a.grp[h].members} = {g}
                              /\ a.grp[g].type # "other"
=============================================================================
