---------------------------- MODULE PdSetupProofs ----------------------------
(***************************************************************************)
(* Proofs about PdSetup, for every design, account and bound: the types,   *)
(* and what no step may do. No URL from a placeholder, no severity lost,   *)
(* no service taken out of a setting; then, from what a run knows of an    *)
(* account that nobody else changes, no write before what it refers to     *)
(* and no second object of a name.                                         *)
(***************************************************************************)
EXTENDS PdSetupProperties, FiniteSetTheorems, TLAPS

-----------------------------------------------------------------------------
(* The account: PagerDuty's answers and a person's edits make an account of *)
(* an account.                                                              *)

\* What PagerDuty makes of a request that it has room for is an account.
LEMMA HandleType ==
  ASSUME NEW a \in Account, NEW q, HasRoom(a, q),
         q.back \in Orchestrations, q.members \subseteq SvcIds,
         q.type \in {"intelligent", "time"},
         q.kind = "service" => q.who \in Names,
         q.kind = "support" => q.on \in SvcIds
  PROVE  Handle(a, q) \in Account
<1>1. NamedAfter(a, q) \in [Kinds -> NamedStates]
  BY DEF NamedAfter, Account, NamedStates
<1>2. [p \in People |-> IF q.kind = "member" /\ p = q.who THEN "manager"
                        ELSE a.member[p]] \in [People -> {"absent", "other", "manager"}]
  BY DEF Account
<1>3. [p \in People |-> IF q.kind = "rule" /\ p = q.who THEN "designed"
                        ELSE a.rule[p]] \in [People -> {"missing", "designed", "theirs"}]
  BY DEF Account
<1>4. ServicesAfter(a, q) \in [SvcIds -> Service]
  <2>1. \A s \in Service : ServiceAfter(s, q) \in Service
    BY DEF ServiceAfter, Service, Orchestrations
  <2>2. q.kind = "service" => NewService(q.who) \in Service
    BY DEF NewService, Service, Orchestrations
  <2> QED
    BY <2>1, <2>2 DEF ServicesAfter, Account
<1>5. SettingsAfter(a, q) \in [GrpIds -> Setting]
  BY DEF SettingsAfter, Account, Setting
<1>6. (IF q.kind = "support" THEN a.supports \cup {q.on} ELSE a.supports) \subseteq SvcIds
  BY DEF Account
<1> QED
  BY <1>1, <1>2, <1>3, <1>4, <1>5, <1>6 DEF Handle, Account

\* What a person may do to an account makes an account.
LEMMA EditsType ==
  ASSUME NEW a \in Account, NEW b \in Edits(a)
  PROVE  b \in Account
<1>1. CASE b \in NamedEdits(a)
  <2>1. \A k \in Kinds : DeleteNamed(a, k) \in Account
    <3>1. TAKE k \in Kinds
    <3>2. \A i \in SvcIds : Unpolicied(a.svc[i]) \in Service
      BY DEF Unpolicied, Account, Service
    <3> QED
      BY <3>2 DEF DeleteNamed, Account, NamedStates
  <2>2. \A k \in Kinds, v \in NamedStates : [a EXCEPT !.named[k] = v] \in Account
    BY DEF Account
  <2>3. \/ \E k \in Kinds : b = DeleteNamed(a, k)
        \/ \E k \in Kinds, v \in NamedStates : b = [a EXCEPT !.named[k] = v]
    BY <1>1 DEF NamedEdits, NamedStates
  <2> QED
    BY <2>1, <2>2, <2>3
<1>2. CASE b \in PersonEdits(a)
  BY <1>2 DEF PersonEdits, Account
<1>3. CASE b \in ServiceEdits(a)
  <2>1. \A i \in SvcIds, s \in Service : [a EXCEPT !.svc[i] = s] \in Account
    BY DEF Account
  <2>2. ASSUME NEW s \in Service
        PROVE  EditedService(s) \subseteq Service
    <3>1. \A nm \in Names \cup {"other"} : [s EXCEPT !.name = nm] \in Service
      BY DEF Service
    <3>2. [s EXCEPT !.fields = "drift"] \in Service /\ [s EXCEPT !.integ = FALSE] \in Service
      BY DEF Service
    <3>3. \A o \in Orchestrations : [s EXCEPT !.orch = o] \in Service
      BY DEF Service
    <3>4. \A v \in BOOLEAN : [s EXCEPT !.active = v] \in Service
      BY DEF Service
    <3> QED
      BY <3>1, <3>2, <3>3, <3>4 DEF EditedService
  <2>3. ServicesByHand \subseteq Service
    BY DEF ServicesByHand, NewService, Service, Orchestrations
  <2>4. ASSUME NEW i \in SvcIds
        PROVE  DeleteService(a, i) \in Account
    <3>1. NoService \in Service
      BY DEF NoService, Service, Orchestrations
    <3>2. \A g \in GrpIds : [a.grp[g] EXCEPT !.members = @ \ {i}] \in Setting
      BY DEF Account, Setting
    <3> QED
      BY <3>1, <3>2 DEF DeleteService, Account
  <2>5. PICK i \in SvcIds : b \in EditsOf(a, i)
    BY <1>3 DEF ServiceEdits
  <2>6. EditedService(a.svc[i]) \subseteq Service
    BY <2>2 DEF Account
  <2> QED
    BY <2>1, <2>3, <2>4, <2>5, <2>6 DEF EditsOf
<1>4. CASE b \in GroupingEdits(a)
  <2>1. \A g \in GrpIds, s \in Setting : [a EXCEPT !.grp[g] = s] \in Account
    BY DEF Account
  <2> QED
    BY <1>4, <2>1 DEF GroupingEdits
<1>5. CASE b \in SupportEdits(a)
  BY <1>5 DEF SupportEdits, Account
<1>6. CASE b \in FeatureEdits(a)
  BY <1>6 DEF FeatureEdits, Account
<1> QED
  BY <1>1, <1>2, <1>3, <1>4, <1>5, <1>6 DEF Edits

-----------------------------------------------------------------------------
(* The inductive invariant *)

\* Where a run works on the service Services[run.n].
ServiceAts == {"integration", "grouping", "orchestration", "active"}

\* The write under way: only with --apply, to a service that has an id.
SoundRequest(r, q) ==
  q # NoReq =>
    /\ r.args.apply
    /\ q.kind \in OnService \cup {"grouping"} => q.on \in SvcIds
    /\ q.kind = "service" => q.who \in Names
    /\ q.kind = "service" /\ q.verb = "update" => q.on \in SvcIds
    /\ q.kind = "service" /\ q.verb = "create" => r.at = "integration" /\ r.new

\* What the run knows: an id for each service it found, a placeholder only in
\* a dry run, no id yet only while the service is being made.
SoundRun(r, q) ==
  /\ r.at = "idle" => q = NoReq
  /\ r.at \in ServiceAts /\ ~r.new => r.sids[r.n] \in SvcIds
  /\ r.at \in ServiceAts /\ r.sids[r.n] = None =>
       r.at = "integration" /\ q # NoReq /\ q.kind = "service" /\ q.verb = "create"
  /\ r.args.apply => /\ \A j \in 1..ServiceCount : r.sids[j] # Placeholder
                     /\ "placeholder" \notin {r.team, r.business}

\* What runs and requests may be, beside their types.
Control == SoundRequest(run, req) /\ SoundRun(run, req)

\* The inductive invariant under every theorem here.
IInv == TypeOK /\ Control

-----------------------------------------------------------------------------
(* How a step may leave a run *)

\* The design has at least one service.
LEMMA ServiceCountType == ServiceCount \in Nat /\ ServiceCount > 0
BY ServicesAssumption DEF ServiceCount

\* Every entry of d.SERVICES is one of the design's names.
LEMMA NameType == ASSUME NEW n \in 1..ServiceCount PROVE Services[n] \in Names
BY ServicesAssumption DEF ServiceCount

\* NoReq is no request.
LEMMA NoReqIsNone == NoReq \notin Requests
BY DEF NoReq, Requests, WriteKinds, Kinds

\* A line that is said of a request is a line of a plan.
LEMMA SayType ==
  ASSUME NEW r \in Runs, NEW verb \in Verbs, NEW kind \in WriteKinds, NEW who \in Subjects
  PROVE  [r EXCEPT !.report = @ \cup {<<verb, kind, who>>}] \in Runs
BY DEF Runs, Lines

\* Proceed leaves the run as sound as the record it is given.
LEMMA ProceedSound ==
  ASSUME IInv, req = NoReq, NEW r \in Runs, SoundRun(r, NoReq), Proceed(r)
  PROVE  IInv'
BY DEF IInv, TypeOK, Control, SoundRequest, Proceed, history, bounds

\* Change leaves a sound request with --apply, and only a line without.
LEMMA ChangeOrSay ==
  ASSUME IInv, req = NoReq, NEW r \in Runs, NEW q, Line(q.verb, q) \in Lines,
         run.args.apply => q \in Requests /\ SoundRequest(r, q) /\ SoundRun(r, q),
         ~run.args.apply => SoundRun(r, NoReq),
         Change(q, r)
  PROVE  IInv'
<1>1. CASE run.args.apply
  BY <1>1 DEF IInv, TypeOK, Control, Change, history, bounds
<1>2. CASE ~run.args.apply
  <2>1. [r EXCEPT !.report = @ \cup {Line(q.verb, q)}] \in Runs
    BY DEF Runs
  <2>2. SoundRun([r EXCEPT !.report = @ \cup {Line(q.verb, q)}], NoReq)
    BY <1>2 DEF SoundRun, Runs
  <2> QED
    BY <1>2, <2>1, <2>2 DEF IInv, TypeOK, Control, SoundRequest, Change, history, bounds
<1> QED
  BY <1>1, <1>2

\* Plan.change leaves a sound run, whichever way it went.
LEMMA ChangeSound ==
  ASSUME IInv, req = NoReq, NEW r \in Runs, NEW q \in Requests,
         run.args.apply => SoundRequest(r, q) /\ SoundRun(r, q),
         ~run.args.apply => SoundRun(r, NoReq),
         Change(q, r)
  PROVE  IInv'
<1>1. Line(q.verb, q) \in Lines
  BY DEF Line, Lines, Requests, Verbs
<1> QED
  BY <1>1, ChangeOrSay

\* A run that ends has no write under way.
LEMMA ExitSound ==
  ASSUME TypeOK, NEW r \in Runs, NEW code \in {0, 1, 2, 130}, Exit(code, r),
         r.args.apply => /\ \A j \in 1..ServiceCount : r.sids[j] # Placeholder
                         /\ "placeholder" \notin {r.team, r.business}
  PROVE  run' \in Runs /\ req' = NoReq /\ exit' \in {None, 0, 1, 2, 130} /\ Control'
BY DEF Exit, Runs, Ats, Control, SoundRequest, SoundRun, ServiceAts

-----------------------------------------------------------------------------
(* The steps of a run *)

\* A start leaves a run at its beginning.
LEMMA StartStep == IInv /\ Start => IInv'
<1> SUFFICES ASSUME IInv, Start PROVE IInv'
  OBVIOUS
<1>1. PICK args \in Modes : run' = [Idle(args) EXCEPT !.at = "preflight"]
  BY DEF Start
<1>2. args \in Args
  BY ModesAssumption
<1>3. run' \in Runs
  <2>1. NoService \in Service
    BY DEF NoService, Service, Orchestrations
  <2>2. 1 \in 1..ServiceCount
    BY ServiceCountType
  <2>3. [i \in 1..ServiceCount |-> None] \in [1..ServiceCount -> SvcIds \cup {Placeholder, None}]
    OBVIOUS
  <2>4. Idle(args) \in Runs
    BY <1>2, <2>1, <2>2, <2>3 DEF Idle, Runs, Ats, HeldIds
  <2> QED
    BY <1>1, <2>4 DEF Runs, Ats
<1>4. req' = NoReq
  BY DEF Start, IInv, Control, SoundRun
<1>5. SoundRun(run', NoReq)
  BY <1>1, <1>2, SentinelAssumption DEF SoundRun, Idle, ServiceAts
<1>6. plan' \in [report : SUBSET Lines, args : Args] \cup {None}
  BY DEF Start, IInv, TypeOK
<1> QED
  BY <1>3, <1>4, <1>5, <1>6 DEF Start, IInv, TypeOK, Control, SoundRequest

\* A refusal of the whole run.
LEMMA StopStep == IInv /\ StopRefused => IInv'
<1> SUFFICES ASSUME IInv, StopRefused PROVE IInv'
  OBVIOUS
<1>1. run' \in Runs /\ req' = NoReq /\ exit' \in {None, 0, 1, 2, 130} /\ Control'
  BY ExitSound DEF StopRefused, IInv, TypeOK, Control, SoundRun
<1> QED
  BY <1>1 DEF IInv, TypeOK, StopRefused, history, bounds

\* main() before the plan keeps the invariant.
LEMMA PreflightStep == IInv /\ Preflight => IInv'
<1> SUFFICES ASSUME IInv, Preflight PROVE IInv'
  OBVIOUS
<1>1. [run EXCEPT !.at = "team"] \in Runs /\ SoundRun([run EXCEPT !.at = "team"], NoReq)
  BY DEF IInv, TypeOK, Control, SoundRun, Runs, Ats, ServiceAts
<1> QED
  BY <1>1, ProceedSound, StopStep DEF Preflight, Step

\* ensure_team's first part keeps it: found, created or refused.
LEMMA TeamStep == IInv /\ EnsureTeam => IInv'
<1> SUFFICES ASSUME IInv, EnsureTeam PROVE IInv'
  OBVIOUS
<1> DEFINE q == [Blank EXCEPT !.kind = "team"]
           u == [q EXCEPT !.verb = "update"]
           r == [run EXCEPT !.at = "listing_members", !.team = "found"]
           c == [r EXCEPT !.team = NewId]
<1>1. q \in Requests /\ u \in Requests
  BY DEF Blank, Requests, WriteKinds, Kinds, Subjects, Orchestrations
<1>2. r \in Runs /\ c \in Runs
  BY DEF IInv, TypeOK, Runs, Ats, HeldIds, NewId
<1>3. /\ SoundRun(r, NoReq) /\ SoundRun(c, NoReq)
      /\ SoundRun(r, u) /\ SoundRun(c, q)
  BY DEF IInv, TypeOK, Control, SoundRun, ServiceAts, Runs, NewId
<1>4. run.args.apply => SoundRequest(r, u) /\ SoundRequest(c, q)
  BY DEF IInv, TypeOK, SoundRequest, Runs, OnService, Blank
<1>5. req = NoReq
  BY DEF EnsureTeam, Step
<1> HIDE DEF q, u, r, c
<1> QED
  BY <1>1, <1>2, <1>3, <1>4, <1>5, ProceedSound, ChangeSound, StopStep DEF EnsureTeam, q, u, r, c

\* Reading the members of the team keeps it.
LEMMA ListMembersStep == IInv /\ ListMembers => IInv'
<1> SUFFICES ASSUME IInv, ListMembers PROVE IInv'
  OBVIOUS
<1> DEFINE r == [run EXCEPT !.at = "members", !.left = People,
                            !.roles = IF run.team = "found" THEN acct.member ELSE @]
<1>1. r \in Runs /\ SoundRun(r, NoReq)
  BY DEF IInv, TypeOK, Control, SoundRun, Runs, Ats, ServiceAts, Account
<1> QED
  BY <1>1, ProceedSound DEF ListMembers, Step

\* One pass of the loop over the members keeps it.
LEMMA MemberStep == IInv /\ EnsureMember => IInv'
<1> SUFFICES ASSUME IInv, EnsureMember PROVE IInv'
  OBVIOUS
<1>1. PICK p \in run.left :
        LET r == [run EXCEPT !.left = @ \ {p},
                             !.at = IF run.left = {p} THEN "schedule" ELSE @]
            q == [Blank EXCEPT !.kind = "member", !.who = p,
                    !.verb = IF run.roles[p] = "absent" THEN "create" ELSE "update"]
        IN  IF run.roles[p] = "manager" THEN Proceed(r) ELSE Change(q, r)
  BY DEF EnsureMember
<1> DEFINE r == [run EXCEPT !.left = @ \ {p},
                            !.at = IF run.left = {p} THEN "schedule" ELSE @]
           q == [Blank EXCEPT !.kind = "member", !.who = p,
                   !.verb = IF run.roles[p] = "absent" THEN "create" ELSE "update"]
<1>2. p \in People
  BY DEF IInv, TypeOK, Runs
<1>3. q \in Requests
  BY <1>2 DEF Blank, Requests, WriteKinds, Subjects, Orchestrations
<1>4. r \in Runs /\ run.at = "members" /\ req = NoReq
  BY DEF EnsureMember, Step, IInv, TypeOK, Runs, Ats
<1>5. SoundRun(r, NoReq) /\ SoundRun(r, q)
  BY <1>4 DEF IInv, TypeOK, Control, SoundRun, ServiceAts, Runs
<1>6. run.args.apply => SoundRequest(r, q)
  BY DEF IInv, TypeOK, SoundRequest, Runs, OnService, Blank
<1> HIDE DEF q, r
<1> QED
  BY <1>1, <1>3, <1>4, <1>5, <1>6, ProceedSound, ChangeSound DEF q, r

\* ensure_schedule keeps it.
LEMMA ScheduleStep == IInv /\ EnsureSchedule => IInv'
<1> SUFFICES ASSUME IInv, EnsureSchedule PROVE IInv'
  OBVIOUS
<1> DEFINE q == [Blank EXCEPT !.kind = "schedule"]
           u == [q EXCEPT !.verb = "update"]
           r == [run EXCEPT !.at = "policy"]
           s == Say(r, "refused", "schedule", "-")
<1>1. q \in Requests /\ u \in Requests
  BY DEF Blank, Requests, WriteKinds, Kinds, Subjects, Orchestrations
<1>2. r \in Runs
  BY DEF IInv, TypeOK, Runs, Ats
<1>3. s \in Runs
  BY <1>2, SayType DEF Say, Verbs, WriteKinds, Kinds, Subjects
<1>4. /\ SoundRun(r, NoReq) /\ SoundRun(s, NoReq)
      /\ SoundRun(r, u) /\ SoundRun(r, q)
  BY DEF IInv, TypeOK, Control, SoundRun, ServiceAts, Runs, Say
<1>5. run.args.apply => SoundRequest(r, u) /\ SoundRequest(r, q)
  BY DEF IInv, TypeOK, SoundRequest, Runs, OnService, Blank
<1>6. req = NoReq
  BY DEF EnsureSchedule, Step
<1> HIDE DEF q, u, r, s
<1> QED
  BY <1>1, <1>2, <1>3, <1>4, <1>5, <1>6, ProceedSound, ChangeSound, StopStep
  DEF EnsureSchedule, q, u, r, s

\* ensure_policy keeps it.
LEMMA PolicyStep == IInv /\ EnsurePolicy => IInv'
<1> SUFFICES ASSUME IInv, EnsurePolicy PROVE IInv'
  OBVIOUS
<1> DEFINE q == [Blank EXCEPT !.kind = "policy"]
           u == [q EXCEPT !.verb = "update"]
           r == [run EXCEPT !.at = "list"]
<1>1. q \in Requests /\ u \in Requests
  BY DEF Blank, Requests, WriteKinds, Kinds, Subjects, Orchestrations
<1>2. r \in Runs
  BY DEF IInv, TypeOK, Runs, Ats
<1>3. SoundRun(r, NoReq) /\ SoundRun(r, u) /\ SoundRun(r, q)
  BY DEF IInv, TypeOK, Control, SoundRun, ServiceAts, Runs
<1>4. run.args.apply => SoundRequest(r, u) /\ SoundRequest(r, q)
  BY DEF IInv, TypeOK, SoundRequest, Runs, OnService, Blank
<1>5. req = NoReq
  BY DEF EnsurePolicy, Step
<1> HIDE DEF q, u, r
<1> QED
  BY <1>1, <1>2, <1>3, <1>4, <1>5, ProceedSound, ChangeSound, StopStep
  DEF EnsurePolicy, q, u, r

\* ensure_services' listing keeps it.
LEMMA ListServicesStep == IInv /\ ListServices => IInv'
<1> SUFFICES ASSUME IInv, ListServices PROVE IInv'
  OBVIOUS
<1> DEFINE r == [run EXCEPT !.at = "service", !.n = 1, !.every = acct.svc]
<1>1. 1 \in 1..ServiceCount
  BY ServiceCountType
<1>2. r \in Runs /\ SoundRun(r, NoReq)
  BY <1>1 DEF IInv, TypeOK, Control, SoundRun, Runs, Ats, ServiceAts, Account
<1> QED
  BY <1>2, ProceedSound DEF ListServices, Step

\* Going on to the next service leaves a run at a service of the design, or
\* past them, with nothing held.
LEMMA NextServiceSound ==
  ASSUME NEW r \in Runs, NEW q,
         r.args.apply => /\ \A j \in 1..ServiceCount : r.sids[j] # Placeholder
                         /\ "placeholder" \notin {r.team, r.business}
  PROVE  /\ NextService(r) \in Runs /\ SoundRun(NextService(r), q)
         /\ NextService(r).args = r.args
<1>1. r.n < ServiceCount => r.n + 1 \in 1..ServiceCount
  BY ServiceCountType DEF Runs
<1> QED
  BY <1>1 DEF NextService, SoundRun, Runs, Ats, ServiceAts

\* Finding, making or refusing a service keeps it.
LEMMA ServiceStep == IInv /\ EnsureService => IInv'
<1> SUFFICES ASSUME IInv, EnsureService PROVE IInv'
  OBVIOUS
<1> DEFINE q == [Blank EXCEPT !.kind = "service", !.who = Name]
           r == [run EXCEPT !.at = "integration"]
           made == [r EXCEPT !.new = TRUE,
                      !.sids[run.n] = IF run.args.apply THEN None ELSE Placeholder]
           found(i) == [r EXCEPT !.new = FALSE, !.sids[run.n] = i]
           u(i) == [q EXCEPT !.verb = "update", !.on = i]
           skip == Say(run, "refused", "service", Name)
<1>1. run \in Runs /\ run.n \in 1..ServiceCount /\ Name \in Names /\ req = NoReq
  BY NameType DEF EnsureService, Step, IInv, TypeOK, Runs, Name
<1>2. SameName \subseteq SvcIds
  BY DEF SameName, Called
<1>3. CASE Cardinality(SameName) > 1 /\ StopRefused
  BY <1>3, StopStep
<1>4. CASE Proceed(NextService(skip))
  <2>1. skip \in Runs
    BY <1>1, SayType DEF Say, Verbs, WriteKinds, Kinds, Subjects
  <2>2. NextService(skip) \in Runs /\ SoundRun(NextService(skip), NoReq)
    BY <2>1, NextServiceSound DEF IInv, TypeOK, Control, SoundRun, Say, Runs
  <2> QED
    BY <1>1, <1>4, <2>2, ProceedSound
<1>5. CASE Change(q, made)
  <2>1. q \in Requests
    BY <1>1 DEF Blank, Requests, WriteKinds, Subjects, Orchestrations
  <2>2. made \in Runs
    BY <1>1 DEF Runs, Ats
  <2>3. run.args.apply => SoundRequest(made, q) /\ SoundRun(made, q)
    BY <1>1, NoReqIsNone, <2>1, SentinelAssumption
    DEF IInv, TypeOK, Control, SoundRequest, SoundRun, ServiceAts, Runs, OnService, Blank
  <2>4. ~run.args.apply => SoundRun(made, NoReq)
    BY <1>1, SentinelAssumption DEF IInv, TypeOK, Control, SoundRun, ServiceAts, Runs
  <2> HIDE DEF q, made
  <2> QED
    BY <1>1, <1>5, <2>1, <2>2, <2>3, <2>4, ChangeSound
<1>6. ASSUME NEW i \in SvcIds,
             IF run.every[i].fields = "match" THEN Proceed(found(i))
             ELSE Change(u(i), found(i))
      PROVE  IInv'
  <2>1. u(i) \in Requests
    BY <1>1 DEF Blank, Requests, WriteKinds, Subjects, Orchestrations
  <2>2. found(i) \in Runs
    BY <1>1 DEF Runs, Ats
  <2>3. SoundRun(found(i), NoReq) /\ SoundRun(found(i), u(i))
    <3>1. /\ found(i).at = "integration" /\ found(i).sids[found(i).n] = i
          /\ found(i).args = run.args /\ found(i).team = run.team
          /\ found(i).business = run.business
          /\ \A j \in 1..ServiceCount : found(i).sids[j] \in {i, run.sids[j]}
      BY <1>1 DEF Runs
    <3>2. i # None /\ i # Placeholder
      BY SentinelAssumption
    <3> HIDE DEF u, found
    <3> QED
      BY <3>1, <3>2 DEF IInv, Control, SoundRun, ServiceAts
  <2>4. run.args.apply => SoundRequest(found(i), u(i))
    BY <1>1 DEF SoundRequest, Runs, OnService, Blank
  <2> HIDE DEF u, found
  <2> QED
    BY <1>1, <1>6, <2>1, <2>2, <2>3, <2>4, ProceedSound, ChangeSound
<1> QED
  BY <1>2, <1>3, <1>4, <1>5, <1>6 DEF EnsureService

\* While a run is at a service and no write is under way, it holds the
\* service's id, or in a dry run a placeholder.
LEMMA SidHeld ==
  ASSUME IInv, run.at \in ServiceAts, req = NoReq
  PROVE  /\ Sid \in SvcIds \cup {Placeholder} /\ Sid # None
         /\ run.args.apply \/ ~run.new => Sid \in SvcIds
         /\ run.n \in 1..ServiceCount /\ Name \in Names
<1>1. run.n \in 1..ServiceCount /\ Sid \in SvcIds \cup {Placeholder, None}
  <2>1. run \in Runs
    BY DEF IInv, TypeOK
  <2>2. /\ run.n \in 1..ServiceCount
        /\ run.sids \in [1..ServiceCount -> SvcIds \cup {Placeholder, None}]
    BY <2>1 DEF Runs
  <2> QED
    BY <2>2 DEF Sid
<1>2. Name \in Names
  BY <1>1, NameType DEF Name
<1>3. Sid # None
  BY DEF IInv, Control, SoundRun, Sid
<1>4. run.args.apply => Sid # Placeholder
  BY <1>1 DEF IInv, Control, SoundRun, Sid
<1>5. ~run.new => Sid \in SvcIds
  BY DEF IInv, Control, SoundRun, Sid
<1> QED
  BY <1>1, <1>2, <1>3, <1>4, <1>5

\* The service's integration keeps it.
LEMMA IntegrationStep == IInv /\ EnsureIntegration => IInv'
<1> SUFFICES ASSUME IInv, EnsureIntegration PROVE IInv'
  OBVIOUS
<1> DEFINE q == [Blank EXCEPT !.kind = "integration", !.who = Name, !.on = Sid]
           r == [run EXCEPT !.at = "grouping"]
<1>1. req = NoReq /\ run.at = "integration"
  BY DEF EnsureIntegration, Step
<1>2. q \in Requests
  BY <1>1, SidHeld DEF Blank, Requests, WriteKinds, Subjects, Orchestrations, ServiceAts
<1>3. r \in Runs
  BY DEF IInv, TypeOK, Runs, Ats
<1>4. SoundRun(r, NoReq) /\ SoundRun(r, q)
  BY <1>1, SidHeld DEF IInv, TypeOK, Control, SoundRun, ServiceAts, Runs, Sid
<1>5. run.args.apply => SoundRequest(r, q)
  BY <1>1, SidHeld DEF IInv, TypeOK, SoundRequest, Runs, OnService, Blank, ServiceAts
<1> HIDE DEF q, r
<1> QED
  BY <1>1, <1>2, <1>3, <1>4, <1>5, ProceedSound, ChangeSound DEF EnsureIntegration, q, r

\* Grouping.ensure keeps it.
LEMMA GroupingStep == IInv /\ EnsureGrouping => IInv'
<1> SUFFICES ASSUME IInv, EnsureGrouping PROVE IInv'
  OBVIOUS
<1> DEFINE q == [Blank EXCEPT !.kind = "grouping", !.who = Name, !.on = Sid,
                              !.type = run.preferred, !.members = {Sid}]
           u(g) == [q EXCEPT !.verb = "update", !.setting = g, !.members = Holders(g)]
           r == [run EXCEPT !.at = "orchestration"]
           s == Say(r, "refused", "grouping", Name)
<1>1. req = NoReq /\ run.at = "grouping" /\ run \in Runs
  BY DEF EnsureGrouping, Step, IInv, TypeOK
<1>2. Name \in Names /\ (run.args.apply => Sid \in SvcIds)
  BY <1>1, SidHeld DEF ServiceAts
<1>3. r \in Runs
  BY <1>1 DEF Runs, Ats
<1>4. s \in Runs
  BY <1>2, <1>3, SayType DEF Say, Verbs, WriteKinds, Kinds, Subjects
<1>5. SoundRun(r, NoReq) /\ SoundRun(s, NoReq) /\ \A x : SoundRun(r, x)
  BY <1>1, SidHeld DEF IInv, Control, SoundRun, ServiceAts, Runs, Sid, Say
<1>6. CASE Change(q, r)
  <2>1. run.args.apply => q \in Requests
    BY <1>1, <1>2 DEF Blank, Requests, WriteKinds, Subjects, Orchestrations, Runs
  <2>2. Line(q.verb, q) \in Lines
    BY <1>2 DEF Line, Lines, Blank, WriteKinds, Subjects, Verbs
  <2>3. run.args.apply => SoundRequest(r, q)
    BY <1>1, <1>2 DEF SoundRequest, Runs, OnService, Blank
  <2> HIDE DEF q, r
  <2> QED
    BY <1>1, <1>3, <1>5, <1>6, <2>1, <2>2, <2>3, ChangeOrSay
<1>7. ASSUME NEW g \in GrpIds, Change(u(g), r)
      PROVE  IInv'
  <2>1. Holders(g) \subseteq SvcIds
    BY DEF Holders, IInv, TypeOK, Account, Setting
  <2>2. run.args.apply => u(g) \in Requests
    BY <1>1, <1>2, <2>1 DEF Blank, Requests, WriteKinds, Subjects, Orchestrations, Runs
  <2>3. Line(u(g).verb, u(g)) \in Lines
    BY <1>2 DEF Line, Lines, Blank, WriteKinds, Subjects, Verbs
  <2>4. run.args.apply => SoundRequest(r, u(g))
    BY <1>1, <1>2 DEF SoundRequest, Runs, OnService, Blank
  <2> HIDE DEF u, r
  <2> QED
    BY <1>1, <1>3, <1>5, <1>7, <2>2, <2>3, <2>4, ChangeOrSay
<1>8. CASE Proceed(r) \/ Proceed(s)
  BY <1>1, <1>3, <1>4, <1>5, <1>8, ProceedSound
<1> QED
  BY <1>6, <1>7, <1>8 DEF EnsureGrouping

\* ensure_orchestration's update keeps it.
LEMMA OrchestrationStep == IInv /\ EnsureOrchestration => IInv'
<1> SUFFICES ASSUME IInv, EnsureOrchestration PROVE IInv'
  OBVIOUS
<1> DEFINE q == [Blank EXCEPT !.kind = "orchestration", !.who = Name, !.on = Sid]
           c == [q EXCEPT !.back = "severity"]
           u == [q EXCEPT !.verb = "update", !.back = Restorable(Sid)]
           r == [run EXCEPT !.at = "active"]
<1>1. req = NoReq /\ run.at = "orchestration" /\ run \in Runs
  BY DEF EnsureOrchestration, Step, IInv, TypeOK
<1>2. /\ Name \in Names /\ Sid \in SvcIds \cup {Placeholder}
      /\ run.args.apply => Sid \in SvcIds
      /\ Reads => Sid \in SvcIds
  BY <1>1, SidHeld DEF ServiceAts, Reads
<1>3. r \in Runs
  BY <1>1 DEF Runs, Ats
<1>4. \A x : SoundRun(r, x)
  BY <1>1, SidHeld DEF IInv, Control, SoundRun, ServiceAts, Runs, Sid
<1>5. c \in Requests
  BY <1>2 DEF Blank, Requests, WriteKinds, Subjects, Orchestrations
<1>6. Reads => u \in Requests
  <2>1. Reads => Restorable(Sid) \in Orchestrations
    BY <1>2 DEF Restorable, IInv, TypeOK, Account, Service
  <2> QED
    BY <1>2, <2>1 DEF Blank, Requests, WriteKinds, Subjects
<1>7. run.args.apply => SoundRequest(r, c) /\ SoundRequest(r, u)
  BY <1>1, <1>2 DEF SoundRequest, Runs, OnService, Blank
<1>8. \/ Change(c, r)
      \/ Reads /\ (Proceed(r) \/ Change(u, r))
  BY DEF EnsureOrchestration
<1> HIDE DEF c, u, r
<1> QED
  BY <1>1, <1>3, <1>4, <1>5, <1>6, <1>7, <1>8, ProceedSound, ChangeSound

\* Switching the orchestration on keeps it.
LEMMA ActiveStep == IInv /\ EnsureActive => IInv'
<1> SUFFICES ASSUME IInv, EnsureActive PROVE IInv'
  OBVIOUS
<1> DEFINE q == [Blank EXCEPT !.kind = "active", !.who = Name, !.on = Sid]
           u == [q EXCEPT !.verb = "update"]
           r == NextService(run)
<1>1. req = NoReq /\ run.at = "active" /\ run \in Runs
  BY DEF EnsureActive, Step, IInv, TypeOK
<1>2. /\ Name \in Names /\ Sid \in SvcIds \cup {Placeholder}
      /\ run.args.apply => Sid \in SvcIds
  BY <1>1, SidHeld DEF ServiceAts
<1>3. r \in Runs /\ r.args = run.args /\ \A x : SoundRun(r, x)
  BY <1>1, NextServiceSound DEF IInv, Control, SoundRun
<1>4. q \in Requests /\ u \in Requests
  BY <1>2 DEF Blank, Requests, WriteKinds, Subjects, Orchestrations
<1>5. run.args.apply => SoundRequest(r, q) /\ SoundRequest(r, u)
  BY <1>2, <1>3 DEF SoundRequest, OnService, Blank
<1>6. Change(q, r) \/ Proceed(r) \/ Change(u, r)
  BY DEF EnsureActive
<1> HIDE DEF q, u, r
<1> QED
  BY <1>1, <1>3, <1>4, <1>5, <1>6, ProceedSound, ChangeSound

\* report_slack keeps it.
LEMMA SlackStep == IInv /\ ReportSlack => IInv'
<1> SUFFICES ASSUME IInv, ReportSlack PROVE IInv'
  OBVIOUS
<1>1. [run EXCEPT !.at = "business"] \in Runs /\ SoundRun([run EXCEPT !.at = "business"], NoReq)
  BY DEF IInv, TypeOK, Control, SoundRun, Runs, Ats, ServiceAts
<1> QED
  BY <1>1, ProceedSound DEF ReportSlack, Step

\* ensure_business_service's first part keeps it.
LEMMA BusinessStep == IInv /\ EnsureBusiness => IInv'
<1> SUFFICES ASSUME IInv, EnsureBusiness PROVE IInv'
  OBVIOUS
<1> DEFINE q == [Blank EXCEPT !.kind = "business"]
           u == [q EXCEPT !.verb = "update"]
           r == [run EXCEPT !.at = "listing_supports", !.business = "found"]
           c == [r EXCEPT !.business = NewId]
<1>1. q \in Requests /\ u \in Requests
  BY DEF Blank, Requests, WriteKinds, Kinds, Subjects, Orchestrations
<1>2. r \in Runs /\ c \in Runs
  BY DEF IInv, TypeOK, Runs, Ats, HeldIds, NewId
<1>3. /\ SoundRun(r, NoReq) /\ SoundRun(c, NoReq)
      /\ SoundRun(r, u) /\ SoundRun(c, q)
  BY DEF IInv, TypeOK, Control, SoundRun, ServiceAts, Runs, NewId
<1>4. run.args.apply => SoundRequest(r, u) /\ SoundRequest(c, q)
  BY DEF IInv, TypeOK, SoundRequest, Runs, OnService, Blank
<1>5. req = NoReq
  BY DEF EnsureBusiness, Step
<1> HIDE DEF q, u, r, c
<1> QED
  BY <1>1, <1>2, <1>3, <1>4, <1>5, ProceedSound, ChangeSound, StopStep
  DEF EnsureBusiness, q, u, r, c

\* Reading what supports the business service keeps it.
LEMMA ListSupportsStep == IInv /\ ListSupports => IInv'
<1> SUFFICES ASSUME IInv, ListSupports PROVE IInv'
  OBVIOUS
<1> DEFINE r == [run EXCEPT !.at = "supports", !.n = 1,
                            !.supporting = IF run.business = "found"
                                           THEN acct.supports ELSE {}]
<1>1. 1 \in 1..ServiceCount
  BY ServiceCountType
<1>2. r \in Runs /\ SoundRun(r, NoReq)
  BY <1>1 DEF IInv, TypeOK, Control, SoundRun, Runs, Ats, ServiceAts, Account
<1> QED
  BY <1>2, ProceedSound DEF ListSupports, Step

\* One pass of the loop over the services' ids keeps it.
LEMMA SupportStep == IInv /\ EnsureSupport => IInv'
<1> SUFFICES ASSUME IInv, EnsureSupport PROVE IInv'
  OBVIOUS
<1> DEFINE q == [Blank EXCEPT !.kind = "support", !.who = Name, !.on = Sid]
           r == IF run.n < ServiceCount THEN [run EXCEPT !.n = @ + 1]
                ELSE [run EXCEPT !.at = "rules", !.left = People]
<1>1. req = NoReq /\ run.at = "supports" /\ run \in Runs
  BY DEF EnsureSupport, Step, IInv, TypeOK
<1>2. /\ run.n \in 1..ServiceCount
      /\ run.sids \in [1..ServiceCount -> SvcIds \cup {Placeholder, None}]
  BY <1>1 DEF Runs
<1>3. Sid \in SvcIds \cup {Placeholder, None} /\ Name \in Names
  BY <1>2, NameType DEF Sid, Name
<1>4. run.args.apply /\ Sid # None => Sid \in SvcIds
  BY <1>2, <1>3 DEF IInv, Control, SoundRun, Sid
<1>5. r \in Runs /\ r.args = run.args
  <2>1. run.n < ServiceCount => run.n + 1 \in 1..ServiceCount
    BY <1>2, ServiceCountType
  <2> QED
    BY <1>1, <2>1 DEF Runs, Ats
<1>6. \A x : SoundRun(r, x)
  BY <1>1 DEF IInv, Control, SoundRun, ServiceAts, Runs
<1>7. q \in Requests
  BY <1>3 DEF Blank, Requests, WriteKinds, Subjects, Orchestrations
<1>8. run.args.apply /\ Sid # None => SoundRequest(r, q)
  BY <1>4, <1>5 DEF SoundRequest, OnService, Blank
<1>9. Proceed(r) \/ (Sid # None /\ Change(q, r))
  BY DEF EnsureSupport
<1> HIDE DEF q, r
<1> QED
  BY <1>1, <1>5, <1>6, <1>7, <1>8, <1>9, ProceedSound, ChangeSound

\* One pass of ensure_notification_rules keeps it.
LEMMA RuleStep == IInv /\ EnsureRule => IInv'
<1> SUFFICES ASSUME IInv, EnsureRule PROVE IInv'
  OBVIOUS
<1>1. PICK p \in run.left :
        LET r == [run EXCEPT !.left = @ \ {p},
                             !.at = IF run.left = {p} THEN "end" ELSE @]
            q == [Blank EXCEPT !.kind = "rule", !.who = p]
        IN  Change(q, r) \/ Proceed(r)
  BY DEF EnsureRule
<1> DEFINE r == [run EXCEPT !.left = @ \ {p}, !.at = IF run.left = {p} THEN "end" ELSE @]
           q == [Blank EXCEPT !.kind = "rule", !.who = p]
<1>2. p \in People
  BY DEF IInv, TypeOK, Runs
<1>3. q \in Requests
  BY <1>2 DEF Blank, Requests, WriteKinds, Subjects, Orchestrations
<1>4. r \in Runs /\ run.at = "rules" /\ req = NoReq
  BY DEF EnsureRule, Step, IInv, TypeOK, Runs, Ats
<1>5. SoundRun(r, NoReq) /\ SoundRun(r, q)
  BY <1>4 DEF IInv, TypeOK, Control, SoundRun, ServiceAts, Runs
<1>6. run.args.apply => SoundRequest(r, q)
  BY DEF IInv, TypeOK, SoundRequest, Runs, OnService, Blank
<1> HIDE DEF q, r
<1> QED
  BY <1>1, <1>3, <1>4, <1>5, <1>6, ProceedSound, ChangeSound DEF q, r

\* main() returning keeps it.
LEMMA EndStep == IInv /\ End => IInv'
<1> SUFFICES ASSUME IInv, End PROVE IInv'
  OBVIOUS
<1> DEFINE code == IF Refusals(run.report) = {} THEN 0 ELSE 1
<1>1. Exit(code, run) /\ code \in {0, 1, 2, 130}
  BY DEF End
<1> HIDE DEF code
<1>2. run' \in Runs /\ req' = NoReq /\ exit' \in {None, 0, 1, 2, 130} /\ Control'
  BY <1>1, ExitSound DEF IInv, TypeOK, Control, SoundRun
<1>3. settled' \in {"no", "plain", "rules"}
  BY DEF End, IInv, TypeOK
<1>4. plan' \in [report : SUBSET Lines, args : Args] \cup {None}
  <2>1. [report |-> run.report, args |-> run.args] \in [report : SUBSET Lines, args : Args]
    BY DEF IInv, TypeOK, Runs
  <2> QED
    BY <2>1 DEF End, IInv, TypeOK
<1> QED
  BY <1>2, <1>3, <1>4 DEF End, IInv, TypeOK, bounds

\* A read that is a 404 keeps it.
LEMMA ReadGoneStep == IInv /\ ReadGone => IInv'
<1> SUFFICES ASSUME IInv, ReadGone PROVE IInv'
  OBVIOUS
<1>1. Exit(1, run) /\ UNCHANGED <<acct, history, bounds>>
  BY DEF ReadGone
<1>2. run' \in Runs /\ req' = NoReq /\ exit' \in {None, 0, 1, 2, 130} /\ Control'
  BY <1>1, ExitSound DEF IInv, TypeOK, Control, SoundRun
<1> QED
  BY <1>1, <1>2 DEF IInv, TypeOK, history, bounds

\* Every step the run takes by itself keeps it.
LEMMA EnsureStep == IInv /\ Ensure => IInv'
BY PreflightStep, TeamStep, ListMembersStep, MemberStep, ScheduleStep, PolicyStep,
   ListServicesStep, ServiceStep, IntegrationStep, GroupingStep, OrchestrationStep,
   ActiveStep, SlackStep, BusinessStep, ListSupportsStep, SupportStep, RuleStep,
   EndStep, ReadGoneStep
DEF Ensure

-----------------------------------------------------------------------------
(* PagerDuty's answers *)

\* What PagerDuty makes of a request it takes is an account.
LEMMA HandledType == IInv /\ Takes => Handle(acct, req) \in Account
<1> SUFFICES ASSUME IInv, Takes PROVE Handle(acct, req) \in Account
  OBVIOUS
<1>1. acct \in Account /\ req \in Requests /\ HasRoom(acct, req)
  BY DEF IInv, TypeOK, Takes
<1>2. /\ req.back \in Orchestrations /\ req.members \subseteq SvcIds
      /\ req.type \in {"intelligent", "time"}
  BY <1>1 DEF Requests
<1>3. /\ req.kind = "service" => req.who \in Names
      /\ req.kind = "support" => req.on \in SvcIds
  BY DEF IInv, Control, SoundRequest, Takes, OnService
<1> QED
  BY <1>1, <1>2, <1>3, HandleType

\* A write that makes a service makes it of an id that was not in use.
LEMMA NextSvcUnused ==
  ASSUME NEW a, UnusedSvc(a) # {}
  PROVE  NextSvc(a) \in SvcIds /\ a.svc[NextSvc(a)].name = "gone"
BY DEF NextSvc, UnusedSvc

\* A refusal leaves no write under way, and no service without its id.
LEMMA RefusalSound ==
  ASSUME IInv, req # NoReq, TakeRefusal
  PROVE  run' \in Runs /\ req' = NoReq /\ exit' \in {None, 0, 1, 2, 130} /\ Control'
<1> DEFINE kind == IF req.kind = "putback" THEN "orchestration" ELSE req.kind
           r == Say(run, "refused", kind, req.who)
<1>1. req \in Requests /\ run \in Runs
  BY DEF IInv, TypeOK
<1>2. r \in Runs
  BY <1>1, SayType DEF Say, Verbs, Requests, WriteKinds
<1>3. /\ r.at = run.at /\ r.args = run.args /\ r.sids = run.sids /\ r.n = run.n
      /\ r.new = run.new /\ r.team = run.team /\ r.business = run.business
  BY <1>1 DEF Say, Runs
<1>4. CASE IsParent(req)
  <2>1. Exit(2, r)
    BY <1>4 DEF TakeRefusal
  <2> HIDE DEF r
  <2> QED
    BY <1>2, <1>3, <2>1, ExitSound DEF IInv, Control, SoundRun
<1>5. CASE ~IsParent(req)
  <2>1. run' = r /\ req' = NoReq /\ exit' = exit
    BY <1>5 DEF TakeRefusal
  <2>2. ~(req.kind = "service" /\ req.verb = "create")
    BY <1>5 DEF IsParent, Parents
  <2>3. SoundRun(r, NoReq)
    BY <1>3, <2>2 DEF IInv, Control, SoundRun
  <2> HIDE DEF r
  <2> QED
    BY <1>2, <2>1, <2>3 DEF IInv, TypeOK, Control, SoundRequest
<1> QED
  BY <1>4, <1>5

\* The services PagerDuty warned of are services.
LEMMA WarnedAfterType == IInv /\ req # NoReq => WarnedAfter \subseteq SvcIds
BY DEF WarnedAfter, IInv, TypeOK, Control, SoundRequest, OnService

\* A write that went through keeps it.
LEMMA DoneStep == IInv /\ Done => IInv'
<1> SUFFICES ASSUME IInv, Done PROVE IInv'
  OBVIOUS
<1>1. acct' \in Account
  BY HandledType DEF Done
<1>2. req \in Requests /\ run \in Runs /\ req # NoReq /\ HasRoom(acct, req)
  BY DEF Done, Takes, IInv, TypeOK
<1>3. [run EXCEPT !.report = @ \cup {Line(req.verb, req)}] \in Runs
  BY <1>2, SayType DEF Line, Verbs, Requests
<1>4. CASE req.kind = "service" /\ req.verb = "create"
  <2>1. NextSvc(acct) \in SvcIds
    BY <1>2, <1>4, NextSvcUnused DEF HasRoom
  <2>2. run' = [run EXCEPT !.report = @ \cup {Line(req.verb, req)},
                           !.sids = [@ EXCEPT ![run.n] = NextSvc(acct)]]
    BY <1>4 DEF Done
  <2>3. run' \in Runs
    BY <1>3, <2>1, <2>2 DEF Runs
  <2>4. run.n \in 1..ServiceCount /\ run.sids \in [1..ServiceCount -> SvcIds \cup {Placeholder, None}]
    BY <1>2 DEF Runs
  <2>5. /\ run'.at = run.at /\ run'.args = run.args /\ run'.n = run.n
        /\ run'.new = run.new /\ run'.team = run.team /\ run'.business = run.business
        /\ run'.sids[run.n] = NextSvc(acct)
        /\ \A j \in 1..ServiceCount : run'.sids[j] \in {NextSvc(acct), run.sids[j]}
    BY <1>2, <2>2, <2>4 DEF Runs
  <2>6. SoundRun(run', NoReq)
    BY <1>2, <2>1, <2>5, SentinelAssumption DEF IInv, Control, SoundRun
  <2> QED
    BY <1>1, <2>3, <2>6, <1>4 DEF Done, IInv, TypeOK, Control, SoundRequest, bounds
<1>5. CASE ~(req.kind = "service" /\ req.verb = "create")
  <2>1. run' = [run EXCEPT !.report = @ \cup {Line(req.verb, req)}]
    BY <1>2, <1>5 DEF Done, Runs
  <2>2. SoundRun(run', NoReq)
    BY <1>2, <1>5, <2>1 DEF IInv, Control, SoundRun, Runs
  <2>3. warned' \subseteq SvcIds
    BY DEF Done, IInv, TypeOK
  <2>4. run' \in Runs /\ req' = NoReq /\ Control'
    BY <1>3, <2>1, <2>2 DEF Done, Control, SoundRequest
  <2> QED
    BY <1>1, <2>3, <2>4 DEF Done, IInv, TypeOK, bounds
<1> QED
  BY <1>4, <1>5

\* A warned orchestration, to be put back, keeps it.
LEMMA WarnedStep == IInv /\ Warned => IInv'
<1> SUFFICES ASSUME IInv, Warned PROVE IInv'
  OBVIOUS
<1>1. acct' \in Account
  BY HandledType DEF Warned
<1>2. req \in Requests /\ req # NoReq
  BY DEF Warned, Takes, IInv, TypeOK
<1>3. req' = [req EXCEPT !.kind = "putback"] /\ req' \in Requests /\ req.kind = "orchestration"
  BY <1>2 DEF Warned, Requests, WriteKinds
<1>4. SoundRequest(run, req') /\ SoundRun(run, req')
  BY <1>2, <1>3 DEF IInv, Control, SoundRequest, SoundRun, Requests, OnService
<1>5. warned' \subseteq SvcIds
  BY <1>2 DEF Warned, IInv, TypeOK, Control, SoundRequest, OnService
<1> QED
  BY <1>1, <1>3, <1>4, <1>5 DEF Warned, IInv, TypeOK, Control, bounds

\* A put-back that went through keeps it.
LEMMA PutBackStep == IInv /\ PutBack => IInv'
<1> SUFFICES ASSUME IInv, PutBack PROVE IInv'
  OBVIOUS
<1>1. acct' \in Account
  BY HandledType DEF PutBack
<1>2. req \in Requests /\ req # NoReq /\ req.kind = "putback"
  BY DEF PutBack, Takes, IInv, TypeOK
<1>3. run' \in Runs
  BY <1>2, SayType DEF PutBack, Say, Verbs, WriteKinds, Requests, IInv, TypeOK
<1>4. SoundRun(run', NoReq)
  BY <1>2 DEF PutBack, Say, IInv, TypeOK, Control, SoundRun, Runs
<1> QED
  BY <1>1, <1>3, <1>4 DEF PutBack, IInv, TypeOK, Control, SoundRequest, bounds

\* The fallback to time-based grouping keeps it.
LEMMA FallBackStep == IInv /\ FallBack => IInv'
<1> SUFFICES ASSUME IInv, FallBack PROVE IInv'
  OBVIOUS
<1>1. req \in Requests /\ req # NoReq /\ run \in Runs /\ req.kind = "grouping"
  BY DEF FallBack, RefusesIntelligent, IInv, TypeOK
<1>2. run' \in Runs /\ req' \in Requests
  BY <1>1 DEF FallBack, Runs, Requests
<1>3. SoundRequest(run', req') /\ SoundRun(run', req')
  BY <1>1, <1>2 DEF FallBack, IInv, Control, SoundRequest, SoundRun, Requests, Runs, OnService
<1> QED
  BY <1>2, <1>3 DEF FallBack, IInv, TypeOK, Control, history, bounds

\* A refused write keeps it.
LEMMA RefuseStep == IInv /\ (RefuseGone \/ Refuse) => IInv'
<1> SUFFICES ASSUME IInv, RefuseGone \/ Refuse PROVE IInv'
  OBVIOUS
<1>1. run' \in Runs /\ req' = NoReq /\ exit' \in {None, 0, 1, 2, 130} /\ Control'
  BY RefusalSound DEF RefuseGone, Refuse
<1>2. acct' = acct /\ smooth' = FALSE /\ faults' \in Nat
  BY DEF RefuseGone, Refuse, IInv, TypeOK, bounds
<1> QED
  BY <1>1, <1>2 DEF RefuseGone, Refuse, IInv, TypeOK, bounds

\* A write whose answer was lost keeps it.
LEMMA LoseAnswerStep == IInv /\ LoseAnswer => IInv'
<1> SUFFICES ASSUME IInv, LoseAnswer PROVE IInv'
  OBVIOUS
<1>1. run' \in Runs /\ req' = NoReq /\ exit' \in {None, 0, 1, 2, 130} /\ Control'
  BY RefusalSound DEF LoseAnswer, Takes
<1>2. acct' \in Account /\ warned' \subseteq SvcIds
  BY HandledType, WarnedAfterType DEF LoseAnswer, Takes
<1>3. smooth' = FALSE /\ faults' \in Nat
  BY DEF LoseAnswer, IInv, TypeOK
<1> QED
  BY <1>1, <1>2, <1>3 DEF LoseAnswer, IInv, TypeOK

\* Every answer keeps it.
LEMMA AnswerStep == IInv /\ Answer => IInv'
BY DoneStep, WarnedStep, PutBackStep, FallBackStep, RefuseStep, LoseAnswerStep DEF Answer

-----------------------------------------------------------------------------
(* Interruptions, a person, and the whole *)

\* A run cut short keeps it.
LEMMA AbortStep == IInv /\ Abort => IInv'
<1> SUFFICES ASSUME IInv, Abort PROVE IInv'
  OBVIOUS
<1>1. PICK code \in {1, 130} : Exit(code, run)
  BY DEF Abort
<1>2. run' \in Runs /\ req' = NoReq /\ exit' \in {None, 0, 1, 2, 130} /\ Control'
  BY <1>1, ExitSound DEF IInv, TypeOK, Control, SoundRun
<1>3. acct' \in Account /\ warned' \subseteq SvcIds
  BY HandledType, WarnedAfterType DEF Abort, Takes, IInv, TypeOK
<1>4. smooth' = FALSE /\ faults' \in Nat
  BY DEF Abort, IInv, TypeOK
<1> QED
  BY <1>2, <1>3, <1>4 DEF Abort, IInv, TypeOK

\* A change by hand keeps it.
LEMMA EditStep == IInv /\ EditByHand => IInv'
<1> SUFFICES ASSUME IInv, EditByHand PROVE IInv'
  OBVIOUS
<1>1. acct' \in Account
  BY EditsType DEF EditByHand, IInv, TypeOK
<1>2. warned' \subseteq SvcIds
  BY DEF EditByHand, IInv, TypeOK
<1>3. /\ quiet' = FALSE /\ smooth' = FALSE /\ settled' = "no" /\ plan' = None
      /\ edits' \in Nat
  BY DEF EditByHand, IInv, TypeOK
<1>4. UNCHANGED <<run, req, exit, severe, runs, faults>>
  BY DEF EditByHand
<1> QED
  BY <1>1, <1>2, <1>3, <1>4 DEF IInv, TypeOK, Control

\* It holds before the first run.
LEMMA InitSound == Init => IInv
<1> SUFFICES ASSUME Init PROVE IInv
  OBVIOUS
<1> DEFINE args == [apply |-> FALSE, addRules |-> FALSE, retry |-> FALSE]
<1>1. NoService \in Service
  BY DEF NoService, Service, Orchestrations
<1>2. 1 \in 1..ServiceCount
  BY ServiceCountType
<1>3. run \in Runs
  <2>1. Idle(args) \in Runs
    BY <1>1, <1>2 DEF Idle, Runs, Ats, HeldIds, Args
  <2> QED
    BY <2>1 DEF Init
<1>4. SoundRun(run, NoReq)
  BY DEF Init, SoundRun, Idle, ServiceAts
<1> QED
  BY <1>3, <1>4, StartsAssumption DEF Init, IInv, TypeOK, Control, SoundRequest

\* Every step keeps it.
LEMMA NextSound == IInv /\ [Next]_vars => IInv'
<1>1. IInv /\ UNCHANGED vars => IInv'
  BY DEF vars, history, bounds, IInv, TypeOK, Control
<1> QED
  BY <1>1, StartStep, EnsureStep, AnswerStep, AbortStep, EditStep DEF Next

\* At every state of every behaviour the variables have their types and the
\* run is in control: a write under way is one --apply sent to a service that
\* has an id, and a found service keeps its id until the run is past it.
THEOREM Invariance == Spec => []IInv
<1> QED
  BY InitSound, NextSound, PTL DEF Spec

\* Every variable keeps its type, for every design, account and bound.
THEOREM TypeCorrect == Spec => []TypeOK
<1>1. IInv => TypeOK
  BY DEF IInv
<1> QED
  BY <1>1, Invariance, PTL

-----------------------------------------------------------------------------
(* Placeholders *)

\* The invariant leaves no step a service id that is not one.
LEMMA NoPlaceholderFromInvariant == IInv => NoPlaceholderRequest
<1> SUFFICES ASSUME IInv PROVE NoPlaceholderRequest
  OBVIOUS
<1>1. run.at \in {"orchestration", "active"} /\ req = NoReq /\ Reads => Sid \in SvcIds
  BY SidHeld DEF ServiceAts, Reads
<1>2. req # NoReq /\ req.kind \in {"service", "integration", "grouping", "orchestration",
                                   "putback", "active", "support"}
        /\ ~(req.kind = "service" /\ req.verb = "create") => req.on \in SvcIds
  BY DEF IInv, TypeOK, Control, SoundRequest, Requests, OnService
<1> QED
  BY <1>1, <1>2 DEF NoPlaceholderRequest, UrlIds, IInv, Control, SoundRequest, SoundRun

\* No request is built from a placeholder or sent by a dry run
\* (PagerDuty._url and PagerDuty.write never raise), whatever happens.
THEOREM NeverAPlaceholder == Spec => []NoPlaceholderRequest
BY Invariance, NoPlaceholderFromInvariant, PTL

-----------------------------------------------------------------------------
(* What steps do to the account and to the write under way *)

\* The write under way, and so each way that an account can change while the
\* run is alone with it.
LEMMA AccountSteps ==
  ASSUME [Next]_vars
  PROVE  \/ acct' = acct \/ (Takes /\ acct' = Handle(acct, req)) \/ EditByHand
BY DEF Next, Start, Ensure, Answer, Preflight, EnsureTeam, ListMembers, EnsureMember,
  EnsureSchedule, EnsurePolicy, ListServices, EnsureService, EnsureIntegration, EnsureGrouping,
  EnsureOrchestration, EnsureActive, ReportSlack, EnsureBusiness, ListSupports, EnsureSupport,
  EnsureRule, End, ReadGone, Proceed, Change, StopRefused, Done, Warned, PutBack, FallBack,
  RefuseGone, Refuse, LoseAnswer, Abort, vars

\* Only a start forgets what was severe, and only a person's edit is not quiet.
LEMMA QuietSteps ==
  ASSUME [Next]_vars, ~Start, quiet'
  PROVE  quiet /\ severe' = severe /\ ~EditByHand
BY DEF Next, Ensure, Answer, Preflight, EnsureTeam, ListMembers, EnsureMember,
  EnsureSchedule, EnsurePolicy, ListServices, EnsureService, EnsureIntegration, EnsureGrouping,
  EnsureOrchestration, EnsureActive, ReportSlack, EnsureBusiness, ListSupports, EnsureSupport,
  EnsureRule, End, ReadGone, Proceed, Change, StopRefused, Done, Warned, PutBack, FallBack,
  RefuseGone, Refuse, LoseAnswer, Abort, EditByHand, vars, history

\* Where a write under way comes from, for the two kinds that carry something
\* read from the account.
LEMMA NewRequests ==
  ASSUME IInv, [Next]_vars, req' # NoReq
  PROVE  /\ req'.kind \in {"orchestration", "putback"} =>
              req' = req \/ Warned \/ EnsureOrchestration
         /\ req'.kind = "grouping" =>
              req' = req \/ FallBack \/ EnsureGrouping
<1>1. CASE Ensure
  <2>1. CASE EnsureTeam \/ EnsureSchedule \/ EnsurePolicy \/ EnsureBusiness
    BY <2>1 DEF EnsureTeam, EnsureSchedule, EnsurePolicy, EnsureBusiness, Change, Proceed,
                StopRefused, Exit, Blank
  <2>2. CASE EnsureMember \/ EnsureRule \/ EnsureSupport
    <3>1. EnsureMember => req'.kind = "member"
      BY DEF EnsureMember, Step, Change, Proceed, Blank
    <3>2. EnsureRule => req'.kind = "rule"
      BY DEF EnsureRule, Step, Change, Proceed, Blank
    <3>3. EnsureSupport => req'.kind = "support"
      BY DEF EnsureSupport, Step, Change, Proceed, Blank
    <3> QED
      BY <2>2, <3>1, <3>2, <3>3
  <2>3. CASE EnsureService \/ EnsureIntegration \/ EnsureActive
    <3>1. EnsureService => req'.kind = "service"
      BY DEF EnsureService, Step, Change, Proceed, StopRefused, Exit, Blank
    <3>2. EnsureIntegration => req'.kind = "integration"
      BY DEF EnsureIntegration, Step, Change, Proceed, Blank
    <3>3. EnsureActive => req'.kind = "active"
      BY DEF EnsureActive, Step, Change, Proceed, Blank
    <3> QED
      BY <2>3, <3>1, <3>2, <3>3
  <2>4. CASE Preflight \/ ListMembers \/ ListServices \/ ReportSlack \/ ListSupports \/ End
             \/ ReadGone
    BY <2>4 DEF Preflight, ListMembers, ListServices, ReportSlack, ListSupports, End, ReadGone,
                Proceed, StopRefused, Exit
  <2>5. EnsureGrouping => req'.kind = "grouping"
    BY DEF EnsureGrouping, Step, Change, Proceed, Blank
  <2>6. EnsureOrchestration => req'.kind = "orchestration"
    BY DEF EnsureOrchestration, Step, Change, Proceed, Blank
  <2> QED
    BY <1>1, <2>1, <2>2, <2>3, <2>4, <2>5, <2>6 DEF Ensure
<1>2. CASE Start \/ EditByHand \/ UNCHANGED vars
  BY <1>2 DEF Start, EditByHand, vars
<1>3. CASE Answer \/ Abort
  <2>1. CASE FallBack
    BY <2>1 DEF FallBack, RefusesIntelligent, IInv, TypeOK, Requests
  <2>2. CASE Warned
    BY <2>2 DEF Warned, IInv, TypeOK, Requests
  <2>3. CASE Done \/ PutBack \/ RefuseGone \/ Refuse \/ LoseAnswer \/ Abort
    BY <2>3 DEF Done, PutBack, RefuseGone, Refuse, LoseAnswer, Abort, TakeRefusal, Exit
  <2> QED
    BY <1>3, <2>1, <2>2, <2>3 DEF Answer
<1> QED
  BY <1>1, <1>2, <1>3 DEF Next

-----------------------------------------------------------------------------
(* Severity *)

\* What a run may put back on a service whose severity rules ran keeps them.
SoundPutBack ==
  quiet /\ req # NoReq /\ req.kind \in {"orchestration", "putback"} /\ req.on \in severe
    => req.back \in {"severity", "design"}

\* No severity is lost, and no put-back under way will lose it.
SevInv == SeverityNeverLost /\ SoundPutBack

\* PagerDuty's answer to a sound write leaves each such service its rules.
LEMMA HandledSevere ==
  ASSUME IInv, SevInv, Takes, quiet, NEW i \in severe
  PROVE  Severe(Handle(acct, req).svc[i])
<1>1. /\ i \in SvcIds /\ acct \in Account /\ req \in Requests /\ req # NoReq
      /\ HasRoom(acct, req)
  BY DEF IInv, TypeOK, Takes
<1>2. Severe(acct.svc[i])
  BY DEF SevInv, SeverityNeverLost
<1>3. Handle(acct, req).svc = ServicesAfter(acct, req)
  BY <1>1 DEF Handle, Account
<1>4. CASE req.kind = "service" /\ req.verb = "create"
  <2>1. i # NextSvc(acct)
    BY <1>1, <1>2, <1>4, NextSvcUnused DEF HasRoom, Severe
  <2> QED
    BY <1>1, <1>2, <1>3, <1>4, <2>1 DEF ServicesAfter
<1>5. CASE ~(req.kind = "service" /\ req.verb = "create")
  <2>1. CASE i = req.on
    <3>1. Handle(acct, req).svc[i] = ServiceAfter(acct.svc[i], req)
      BY <1>1, <1>3, <1>5, <2>1 DEF ServicesAfter
    <3>2. req.kind = "service" => req.who # "gone"
      BY <1>1, NamesAssumption DEF IInv, Control, SoundRequest
    <3>3. req.kind = "putback" => req.back \in {"severity", "design"}
      BY <1>1, <2>1 DEF SevInv, SoundPutBack
    <3>4. acct.svc[i] \in Service
      BY <1>1 DEF Account
    <3> QED
      BY <1>2, <3>1, <3>2, <3>3, <3>4 DEF ServiceAfter, Severe, Service
  <2>2. CASE i # req.on
    BY <1>1, <1>2, <1>3, <1>5, <2>2 DEF ServicesAfter
  <2> QED
    BY <2>1, <2>2
<1> QED
  BY <1>4, <1>5

\* Every step keeps it.
LEMMA SeverityStep == IInv /\ SevInv /\ [Next]_vars => SevInv'
<1> SUFFICES ASSUME IInv, SevInv, [Next]_vars, quiet' PROVE SevInv'
  BY DEF SevInv, SeverityNeverLost, SoundPutBack
<1>1. CASE Start
  <2>1. req' = NoReq
    BY <1>1 DEF Start, IInv, Control, SoundRun
  <2> QED
    BY <1>1, <2>1 DEF Start, SevInv, SeverityNeverLost, SoundPutBack
<1>2. CASE ~Start
  <2>1. quiet /\ severe' = severe /\ ~EditByHand
    BY <1>2, QuietSteps
  <2>2. SeverityNeverLost'
    BY <2>1, AccountSteps, HandledSevere DEF SevInv, SeverityNeverLost
  <2>3. ASSUME req' # NoReq, req'.kind \in {"orchestration", "putback"}, req'.on \in severe
        PROVE  req'.back \in {"severity", "design"}
    <3>1. CASE req' = req
      BY <2>1, <2>3, <3>1 DEF SevInv, SoundPutBack
    <3>2. CASE Warned
      BY <2>1, <2>3, <3>2 DEF Warned, Takes, IInv, TypeOK, Requests, SevInv, SoundPutBack
    <3>3. CASE EnsureOrchestration
      <4>1. Severe(acct.svc[req'.on])
        BY <2>1, <2>3 DEF SevInv, SeverityNeverLost
      <4>2. \/ req'.back = "severity"
            \/ req'.on = Sid /\ req'.back = acct.svc[Sid].orch
        BY <2>3, <3>3 DEF EnsureOrchestration, Step, Change, Proceed, Blank, Restorable
      <4> QED
        BY <4>1, <4>2 DEF Severe
    <3> QED
      BY <2>3, <3>1, <3>2, <3>3, NewRequests
  <2> QED
    BY <2>1, <2>2, <2>3 DEF SevInv, SoundPutBack
<1> QED
  BY <1>1, <1>2

\* "Never the severity": while nobody else touches the account, a service
\* whose severity rules ran when the run began has them at every step of it,
\* for every design, account, fault and interruption.
THEOREM SeverityKept == Spec => []SeverityNeverLost
<1>1. Init => SevInv
  BY DEF Init, SevInv, SeverityNeverLost, SoundPutBack
<1>2. SevInv => SeverityNeverLost
  BY DEF SevInv
<1> QED
  BY <1>1, <1>2, SeverityStep, Invariance, PTL DEF Spec

-----------------------------------------------------------------------------
(* Shared settings *)

\* A setting is sent back with all that it holds.
WholeSetting ==
  quiet /\ req # NoReq /\ req.kind = "grouping" /\ req.verb = "update"
    => req.members = acct.grp[req.setting].members

\* PagerDuty's answer takes no service out of a setting.
LEMMA HandledSettings ==
  ASSUME IInv, WholeSetting, Takes, quiet, NEW g \in GrpIds
  PROVE  acct.grp[g].members \subseteq Handle(acct, req).grp[g].members
<1>1. Handle(acct, req).grp = SettingsAfter(acct, req)
  BY DEF Handle, Account, IInv, TypeOK
<1>2. CASE req.kind # "grouping"
  BY <1>1, <1>2 DEF SettingsAfter
<1>3. CASE req.kind = "grouping" /\ req.verb = "create"
  <2>1. acct.grp[NextGrp(acct)].members = {}
    BY <1>3 DEF Takes, HasRoom, NextGrp, UnusedGrp
  <2> QED
    BY <1>1, <1>3, <2>1 DEF SettingsAfter
<1>4. CASE req.kind = "grouping" /\ req.verb = "update"
  BY <1>1, <1>4 DEF SettingsAfter, WholeSetting, Takes
<1> QED
  BY <1>2, <1>3, <1>4 DEF IInv, TypeOK, Takes, Requests

\* Every step sends a setting back whole.
LEMMA SharedStep == IInv /\ WholeSetting /\ [Next]_vars => WholeSetting'
<1> SUFFICES ASSUME IInv, WholeSetting, [Next]_vars, quiet', req' # NoReq,
                    req'.kind = "grouping", req'.verb = "update"
             PROVE  req'.members = acct'.grp[req'.setting].members
  BY DEF WholeSetting
<1>1. ~Start
  BY DEF Start, IInv, Control, SoundRun
<1>2. quiet /\ ~EditByHand
  BY <1>1, QuietSteps
<1>3. CASE req' = req
  <2>1. acct' = acct
    BY <1>2, <1>3 DEF Next, Ensure, Answer, vars, Preflight, EnsureTeam, ListMembers, EnsureMember,
  EnsureSchedule, EnsurePolicy, ListServices, EnsureService, EnsureIntegration, EnsureGrouping,
  EnsureOrchestration, EnsureActive, ReportSlack, EnsureBusiness, ListSupports, EnsureSupport,
  EnsureRule, End, ReadGone, Proceed, Change, StopRefused, Start, Done, Warned, PutBack, FallBack,
  RefuseGone, Refuse, LoseAnswer, Abort, TakeRefusal, Exit
  <2> QED
    BY <1>2, <1>3, <2>1 DEF WholeSetting
<1>4. CASE FallBack
  BY <1>2, <1>4 DEF FallBack, RefusesIntelligent, IInv, TypeOK, Requests, WholeSetting
<1>5. CASE EnsureGrouping
  BY <1>5 DEF EnsureGrouping, Step, Change, Proceed, Blank, Holders
<1> QED
  BY <1>3, <1>4, <1>5, NewRequests

\* Correcting one service's alert grouping takes no other service out of a
\* setting they share: Grouping.ensure sends a setting back whole.
THEOREM SettingsKept == Spec => SharedSettingKept
<1>1. Init => WholeSetting
  BY DEF Init, WholeSetting
<1>2. IInv /\ WholeSetting /\ [Next]_vars =>
        [quiet' => \A g \in GrpIds : acct.grp[g].members \subseteq acct'.grp[g].members]_vars
  <2> SUFFICES ASSUME IInv, WholeSetting, [Next]_vars, quiet', NEW g \in GrpIds
               PROVE  acct.grp[g].members \subseteq acct'.grp[g].members
    OBVIOUS
  <2>1. CASE Start
    BY <2>1 DEF Start
  <2>2. CASE ~Start
    BY <2>2, QuietSteps, AccountSteps, HandledSettings
  <2> QED
    BY <2>1, <2>2
<1> QED
  BY <1>1, <1>2, SharedStep, Invariance, PTL DEF Spec, SharedSettingKept

-----------------------------------------------------------------------------
(* What a run knows of an account that nobody else changes *)

\* The places of a run, by what it has been through.
ServicePhase == {"service", "integration", "grouping", "orchestration", "active"}
AfterServices == {"slack", "business", "listing_supports", "supports", "rules", "end"}
AfterPolicy == {"list"} \cup ServicePhase \cup AfterServices
AfterSchedule == {"policy"} \cup AfterPolicy
AfterTeam == {"listing_members", "members", "schedule"} \cup AfterSchedule
AfterBusiness == {"listing_supports", "supports", "rules", "end"}

\* A POST of a service; the settings that hold a service.
Creates(q) == q.kind = "service" /\ q.verb = "create"
Holding(a, i) == {g \in GrpIds : i \in a.grp[g].members}

\* What was listed is still there, no further from the design; the ids kept are
\* those of the services of the design, in its order.
KnownServices(a, r) ==
  /\ \A i \in SvcIds : r.every[i].name # "gone" =>
       /\ a.svc[i].name = r.every[i].name
       /\ r.every[i].fields = "match" => a.svc[i].fields = "match"
       /\ r.every[i].integ => a.svc[i].integ
  /\ \A n \in 1..ServiceCount :
       r.sids[n] \in SvcIds => a.svc[r.sids[n]].name = Services[n]

\* For the services still to come the listing is as good as a new one.
Ahead(a, r) ==
  r.at \in ServicePhase =>
    \A m \in 1..ServiceCount :
      m > r.n \/ (m = r.n /\ r.at = "service") =>
        Called(a.svc, Services[m]) = Called(r.every, Services[m])

\* A parent that the run is past is there.
Standing(a, r) ==
  /\ r.at \in AfterTeam => Exists(a, "team")
  /\ r.at \in AfterSchedule => Exists(a, "schedule")
  /\ r.at \in AfterPolicy => Exists(a, "policy")
  /\ r.at \in AfterBusiness => Exists(a, "business")

\* A write is what the account calls for: PagerDuty has what it refers to, it
\* makes nothing that is there, and a setting is sent back whole.
Fits(a, r, q) ==
  /\ CanTake(a, q)
  /\ q.kind \in Kinds => a.named[q.kind] = IF q.verb = "create" THEN "absent" ELSE "drift"
  /\ q.kind = "service" =>
       /\ q.who = Services[r.n]
       /\ IF q.verb = "create" THEN Called(a.svc, q.who) = {} ELSE a.svc[q.on].name = q.who
  /\ q.kind = "grouping" =>
       IF q.verb = "create" THEN Holding(a, q.on) = {} /\ q.members = {q.on}
       ELSE Holding(a, q.on) = {q.setting} /\ q.members = a.grp[q.setting].members
  /\ q.kind = "putback" => ~a.advanced

\* The account once PagerDuty has answered the write under way.
Promised(a, q) == IF q = NoReq THEN a ELSE Handle(a, q)

\* What a run may be sure of about the account, its write under way included.
Sure(a, r, q) ==
  /\ KnownServices(a, r) /\ Ahead(a, r)
  /\ q # NoReq => Fits(a, r, q)
  /\ r.args.apply => Standing(Promised(a, q), r)

\* It may while nobody else writes; PagerDuty keeps its settings in any case.
Known == SettingsHold(acct) /\ (quiet => Sure(acct, run, req))

-----------------------------------------------------------------------------
(* What PagerDuty's answer leaves of it *)

\* An answer, part by part of the account.
LEMMA HandleParts ==
  ASSUME NEW a \in Account, NEW q
  PROVE  /\ Handle(a, q).named = NamedAfter(a, q)
         /\ Handle(a, q).svc = ServicesAfter(a, q)
         /\ Handle(a, q).grp = SettingsAfter(a, q)
         /\ Handle(a, q).supports = IF q.kind = "support" THEN a.supports \cup {q.on} ELSE a.supports
         /\ Handle(a, q).advanced = a.advanced /\ Handle(a, q).ready = a.ready
         /\ \A p \in People :
              /\ Handle(a, q).member[p] = IF q.kind = "member" /\ p = q.who THEN "manager" ELSE a.member[p]
              /\ Handle(a, q).rule[p] = IF q.kind = "rule" /\ p = q.who THEN "designed" ELSE a.rule[p]
BY DEF Handle, Account

\* What is there stays there.
LEMMA HandledExists ==
  ASSUME NEW a \in Account, NEW q, NEW k \in Kinds, Exists(a, k)
  PROVE  Exists(Handle(a, q), k)
BY HandleParts DEF Exists, NamedAfter

\* What a write asks for by name is there afterwards.
LEMMA HandledMakes ==
  ASSUME NEW a \in Account, NEW q, q.kind \in Kinds
  PROVE  Exists(Handle(a, q), q.kind)
<1>1. NamedAfter(a, q)[q.kind] \in {"twins", "match"}
  BY DEF NamedAfter
<1> QED
  BY <1>1, HandleParts DEF Exists

\* A service in the account keeps its name and comes no further from the design,
\* but for an orchestration that is put back.
LEMMA HandledService ==
  ASSUME NEW a \in Account, NEW r, NEW q \in Requests, SoundRequest(r, q), Fits(a, r, q),
         HasRoom(a, q), NEW i \in SvcIds, a.svc[i].name # "gone"
  PROVE  /\ Handle(a, q).svc[i].name = a.svc[i].name
         /\ a.svc[i].fields = "match" => Handle(a, q).svc[i].fields = "match"
         /\ a.svc[i].integ => Handle(a, q).svc[i].integ
         /\ a.svc[i].active => Handle(a, q).svc[i].active
         /\ q.kind # "putback" /\ a.svc[i].orch = "design" => Handle(a, q).svc[i].orch = "design"
<1>1. Handle(a, q).svc[i] = ServicesAfter(a, q)[i] /\ a.svc[i] \in Service
  BY HandleParts DEF Account
<1>2. CASE Creates(q)
  <2>1. NextSvc(a) # i
    BY <1>2, NextSvcUnused DEF HasRoom, Creates
  <2> QED
    BY <1>1, <1>2, <2>1 DEF ServicesAfter, Creates
<1>3. CASE ~Creates(q) /\ i = q.on
  <2>1. Handle(a, q).svc[i] = ServiceAfter(a.svc[i], q)
    BY <1>1, <1>3 DEF ServicesAfter, Creates
  <2>2. q.kind = "service" => a.svc[i].name = q.who
    BY <1>3 DEF Fits, Creates, Requests
  <2> QED
    BY <1>1, <2>1, <2>2 DEF ServiceAfter, Service
<1>4. CASE ~Creates(q) /\ i # q.on
  BY <1>1, <1>4 DEF ServicesAfter, Creates
<1> QED
  BY <1>2, <1>3, <1>4

\* A write makes no service of a name but the one it is to make, and that once.
LEMMA HandledCalled ==
  ASSUME NEW a \in Account, NEW r, NEW q \in Requests, q # NoReq, SoundRequest(r, q), Fits(a, r, q),
         HasRoom(a, q), NEW nm \in Names
  PROVE  IF Creates(q) /\ nm = q.who
         THEN /\ Called(Handle(a, q).svc, nm) = {NextSvc(a)}
              /\ Handle(a, q).svc[NextSvc(a)] = NewService(nm) /\ NextSvc(a) \in SvcIds
         ELSE Called(Handle(a, q).svc, nm) = Called(a.svc, nm)
<1>1. nm # "gone"
  BY NamesAssumption
<1>2. \A i \in SvcIds : a.svc[i].name # "gone" => Handle(a, q).svc[i].name = a.svc[i].name
  BY HandledService
<1>3. \A i \in SvcIds : Handle(a, q).svc[i] = ServicesAfter(a, q)[i]
  BY HandleParts
<1>4. CASE Creates(q)
  <2>1. NextSvc(a) \in SvcIds /\ a.svc[NextSvc(a)].name = "gone"
    BY <1>4, NextSvcUnused DEF HasRoom, Creates
  <2>2. \A i \in SvcIds :
          Handle(a, q).svc[i] = IF i = NextSvc(a) THEN NewService(q.who) ELSE a.svc[i]
    BY <1>3, <1>4 DEF ServicesAfter, Creates
  <2>3. NewService(q.who).name = q.who
    BY DEF NewService
  <2>4. nm = q.who => Called(a.svc, nm) = {}
    BY <1>4 DEF Fits, Creates
  <2> QED
    BY <1>1, <1>4, <2>1, <2>2, <2>3, <2>4 DEF Called
<1>5. CASE ~Creates(q)
  <2>1. ASSUME NEW i \in SvcIds, a.svc[i].name = "gone"
        PROVE  Handle(a, q).svc[i].name = "gone"
    <3>1. CASE i = q.on
      <4>1. q.kind # "service"
        BY <1>5, <2>1, <3>1 DEF Fits, CanTake, Creates, Requests
      <4>2. Handle(a, q).svc[i] = ServiceAfter(a.svc[i], q) /\ a.svc[i] \in Service
        BY <1>3, <1>5, <3>1 DEF ServicesAfter, Creates, Account
      <4> QED
        BY <2>1, <4>1, <4>2 DEF ServiceAfter, Service
    <3>2. CASE i # q.on
      BY <1>3, <1>5, <2>1, <3>2 DEF ServicesAfter, Creates
    <3> QED
      BY <3>1, <3>2
  <2> QED
    BY <1>1, <1>2, <1>5, <2>1 DEF Called
<1> QED
  BY <1>4, <1>5

\* What the run knows of the services stays so.
LEMMA HandledKnown ==
  ASSUME NEW a \in Account, NEW r \in Runs, NEW q \in Requests, q # NoReq, SoundRequest(r, q),
         Fits(a, r, q), HasRoom(a, q), KnownServices(a, r), Ahead(a, r)
  PROVE  KnownServices(Handle(a, q), r) /\ Ahead(Handle(a, q), r)
<1> DEFINE b == Handle(a, q)
<1>1. \A i \in SvcIds : a.svc[i].name # "gone" =>
         /\ b.svc[i].name = a.svc[i].name
         /\ a.svc[i].fields = "match" => b.svc[i].fields = "match"
         /\ a.svc[i].integ => b.svc[i].integ
  BY HandledService
<1>2. \A n \in 1..ServiceCount : Services[n] # "gone" /\ Services[n] \in Names
  BY NameType, NamesAssumption
<1>3. ASSUME r.at \in ServicePhase, NEW m \in 1..ServiceCount,
             m > r.n \/ (m = r.n /\ r.at = "service")
      PROVE  Called(b.svc, Services[m]) = Called(a.svc, Services[m])
  <2>1. Creates(q) => Services[m] # q.who
    <3>1. SUFFICES ASSUME Creates(q) PROVE m # r.n /\ q.who = Services[r.n]
      BY ServicesAssumption DEF Runs, ServiceCount
    <3>2. r.at = "integration" /\ q.who = Services[r.n]
      BY <3>1 DEF SoundRequest, Creates, Fits
    <3> QED
      BY <1>3, <3>2 DEF Runs
  <2> QED
    BY <1>2, <2>1, HandledCalled
<1> HIDE DEF b
<1>4. KnownServices(b, r)
  BY <1>1, <1>2 DEF KnownServices
<1>5. Ahead(b, r)
  BY <1>3 DEF Ahead
<1> QED
  BY <1>4, <1>5 DEF b

\* Settings hold what is there, whatever PagerDuty takes.
LEMMA HandledSettingsHold ==
  ASSUME NEW a \in Account, NEW q \in Requests, CanTake(a, q), HasRoom(a, q),
         q.kind = "service" => q.who # "gone", SettingsHold(a)
  PROVE  SettingsHold(Handle(a, q))
<1>1. UnusedSvc(Handle(a, q)) \subseteq UnusedSvc(a)
  <2> SUFFICES ASSUME NEW i \in SvcIds, a.svc[i].name # "gone"
               PROVE  Handle(a, q).svc[i].name # "gone"
    BY DEF UnusedSvc
  <2>1. Handle(a, q).svc[i] = ServicesAfter(a, q)[i] /\ a.svc[i] \in Service
    BY HandleParts DEF Account
  <2>2. Creates(q) => NextSvc(a) # i
    BY NextSvcUnused DEF HasRoom, Creates
  <2>3. ServiceAfter(a.svc[i], q).name # "gone"
    BY <2>1 DEF ServiceAfter, Service
  <2> QED
    BY <2>1, <2>2, <2>3 DEF ServicesAfter, Creates
<1>2. \A g \in GrpIds : \/ Handle(a, q).grp[g].members = a.grp[g].members
                        \/ q.kind = "grouping" /\ Handle(a, q).grp[g].members = q.members
  <2>1. \A g \in GrpIds : \/ SettingsAfter(a, q)[g] = a.grp[g]
                          \/ /\ q.kind = "grouping"
                             /\ SettingsAfter(a, q)[g] = [type |-> q.type, members |-> q.members]
    BY DEF SettingsAfter
  <2>2. Handle(a, q).grp = SettingsAfter(a, q)
    BY HandleParts
  <2> QED
    BY <2>1, <2>2
<1>3. q.kind = "grouping" => q.members \cap UnusedSvc(a) = {}
  BY DEF CanTake
<1> QED
  BY <1>1, <1>2, <1>3 DEF SettingsHold

-----------------------------------------------------------------------------
(* The run's own steps keep what it knows *)

\* Away from the services a run only has to keep its listing and its ids.
LEMMA KeepsServices ==
  ASSUME NEW a, NEW s, NEW r, KnownServices(a, s), r.every = s.every, r.sids = s.sids,
         r.at \notin ServicePhase
  PROVE  KnownServices(a, r) /\ Ahead(a, r)
BY DEF KnownServices, Ahead

\* The same at a service, once the run is at it or at the next one.
LEMMA KeepsAhead ==
  ASSUME NEW a, NEW s \in Runs, NEW r \in Runs, KnownServices(a, s), Ahead(a, s),
         s.at \in ServicePhase, r.every = s.every, r.sids = s.sids,
         (r.n = s.n /\ r.at \in ServiceAts) \/ r.n > s.n
  PROVE  KnownServices(a, r) /\ Ahead(a, r)
<1>1. KnownServices(a, r)
  BY DEF KnownServices
<1>2. ASSUME NEW m \in 1..ServiceCount, m > r.n \/ (m = r.n /\ r.at = "service")
      PROVE  m > s.n
  BY <1>2 DEF Runs, ServiceAts
<1> QED
  BY <1>1, <1>2 DEF Ahead

\* What stands stays, whatever PagerDuty is asked.
LEMMA HandledStanding ==
  ASSUME NEW a \in Account, NEW q, NEW r, Standing(a, r)
  PROVE  Standing(Handle(a, q), r)
BY HandledExists DEF Standing, Kinds

\* Proceed keeps what holds of the record it is given.
LEMMA ProceedKnown ==
  ASSUME Known, req = NoReq, NEW r, Proceed(r),
         quiet => /\ KnownServices(acct, r) /\ Ahead(acct, r)
                  /\ r.args.apply => Standing(acct, r)
  PROVE  Known'
<1>1. acct' = acct /\ quiet' = quiet /\ run' = r /\ req' = NoReq
  BY DEF Proceed, history
<1> QED
  BY <1>1 DEF Known, Sure, Promised

\* Plan.change keeps it if the write fits, which a dry run does not send.
LEMMA ChangeKnown ==
  ASSUME IInv, Known, req = NoReq, NEW r \in Runs, r.args = run.args,
         NEW q, q.kind # "none", Change(q, r),
         quiet => KnownServices(acct, r) /\ Ahead(acct, r),
         quiet /\ run.args.apply => Fits(acct, r, q) /\ Standing(Handle(acct, q), r)
  PROVE  Known'
<1>1. acct' = acct /\ quiet' = quiet
  BY DEF Change, history
<1>2. CASE run.args.apply
  <2>1. run' = r /\ req' = q
    BY <1>2 DEF Change
  <2>2. q # NoReq /\ Promised(acct, q) = Handle(acct, q)
    BY DEF Promised, NoReq
  <2> QED
    BY <1>1, <1>2, <2>1, <2>2 DEF Known, Sure
<1>3. CASE ~run.args.apply
  <2>1. run' = [r EXCEPT !.report = @ \cup {Line(q.verb, q)}] /\ req' = NoReq
    BY <1>3 DEF Change
  <2>2. /\ run'.every = r.every /\ run'.sids = r.sids /\ run'.at = r.at /\ run'.n = r.n
        /\ run'.args = r.args
    BY <2>1 DEF Runs
  <2>3. quiet => KnownServices(acct, run') /\ Ahead(acct, run')
    BY <2>2 DEF KnownServices, Ahead
  <2> QED
    BY <1>1, <1>3, <2>1, <2>2, <2>3 DEF Known, Sure
<1> QED
  BY <1>2, <1>3

\* A run that ends has nothing left to be sure of but its services.
LEMMA ExitKnown ==
  ASSUME NEW r \in Runs, NEW code, Exit(code, r), SettingsHold(acct'),
         quiet' => KnownServices(acct', r)
  PROVE  Known'
<1>1. run' = [r EXCEPT !.at = "idle"] /\ req' = NoReq
  BY DEF Exit
<1>2. run'.every = r.every /\ run'.sids = r.sids /\ run'.at = "idle"
  BY <1>1 DEF Runs
<1>3. quiet' => KnownServices(acct', run') /\ Ahead(acct', run')
  BY <1>2, KeepsServices DEF ServicePhase
<1>4. Standing(Promised(acct', req'), run')
  BY <1>2 DEF Standing, AfterTeam, AfterSchedule, AfterPolicy, AfterServices, AfterBusiness,
              ServicePhase
<1> QED
  BY <1>1, <1>3, <1>4 DEF Known, Sure

\* So does one that ends by itself.
LEMMA StopKnown ==
  ASSUME IInv, Known, NEW code, Exit(code, run), acct' = acct, quiet' = quiet
  PROVE  Known'
BY ExitKnown DEF IInv, TypeOK, Known, Sure

\* main() before the plan, and the steps for the team.
LEMMA TeamKnown == IInv /\ Known /\ (Preflight \/ EnsureTeam \/ ListMembers \/ EnsureMember) => Known'
<1> SUFFICES ASSUME IInv, Known, Preflight \/ EnsureTeam \/ ListMembers \/ EnsureMember
             PROVE  Known'
  OBVIOUS
<1>1. run \in Runs /\ req = NoReq /\ acct \in Account
  BY DEF IInv, TypeOK, Preflight, EnsureTeam, ListMembers, EnsureMember, Step
<1>2. quiet => KnownServices(acct, run) /\ (run.args.apply => Standing(acct, run))
  BY <1>1 DEF Known, Sure, Promised
<1>3. ASSUME StopRefused PROVE Known'
  BY <1>3, StopKnown DEF StopRefused, history
<1> USE DEF AfterTeam, AfterSchedule, AfterPolicy, AfterServices, AfterBusiness, ServicePhase
<1>4. CASE Preflight
  <2> DEFINE r == [run EXCEPT !.at = "team"]
  <2>1. r.every = run.every /\ r.sids = run.sids /\ r.at = "team"
    BY <1>1 DEF Runs
  <2>2. StopRefused \/ Proceed(r)
    BY <1>4 DEF Preflight
  <2> HIDE DEF r
  <2>3. Standing(acct, r)
    BY <2>1 DEF Standing
  <2> QED
    BY <1>1, <1>2, <1>3, <2>1, <2>2, <2>3, KeepsServices, ProceedKnown
<1>5. CASE EnsureTeam
  <2> DEFINE q == [Blank EXCEPT !.kind = "team"]
             u == [q EXCEPT !.verb = "update"]
             r == [run EXCEPT !.at = "listing_members", !.team = "found"]
             c == [r EXCEPT !.team = NewId]
  <2>1. /\ r.every = run.every /\ r.sids = run.sids /\ r.at = "listing_members" /\ r.args = run.args
        /\ c.every = run.every /\ c.sids = run.sids /\ c.at = "listing_members" /\ c.args = run.args
    BY <1>1 DEF Runs
  <2>2. r \in Runs /\ c \in Runs
    BY <1>1 DEF Runs, Ats, HeldIds, NewId
  <2>3. /\ q.kind = "team" /\ q.verb = "create"
        /\ u.kind = "team" /\ u.verb = "update"
    BY DEF Blank
  <2>4. \/ StopRefused
        \/ acct.named["team"] = "absent" /\ Change(q, c)
        \/ acct.named["team"] = "drift" /\ Change(u, r)
        \/ acct.named["team"] = "match" /\ Proceed(r)
    BY <1>5 DEF EnsureTeam
  <2> HIDE DEF q, u, r, c
  <2>5. /\ acct.named["team"] = "absent" => Fits(acct, c, q)
        /\ acct.named["team"] = "drift" => Fits(acct, r, u)
    BY <2>3 DEF Fits, CanTake, Exists, Kinds, OnService
  <2>6. /\ Standing(Handle(acct, q), c) /\ Standing(Handle(acct, u), r)
        /\ acct.named["team"] = "match" => Standing(acct, r)
    BY <1>1, <2>1, <2>3, HandledMakes DEF Standing, Kinds, Exists
  <2> QED
    BY <1>1, <1>2, <1>3, <2>1, <2>2, <2>3, <2>4, <2>5, <2>6, KeepsServices, ProceedKnown,
       ChangeKnown
<1>6. CASE ListMembers
  <2> DEFINE r == [run EXCEPT !.at = "members", !.left = People,
                              !.roles = IF run.team = "found" THEN acct.member ELSE @]
  <2>1. r.every = run.every /\ r.sids = run.sids /\ r.at = "members" /\ r.args = run.args
    BY <1>1 DEF Runs
  <2>2. run.at = "listing_members" /\ Proceed(r)
    BY <1>6 DEF ListMembers, Step
  <2> HIDE DEF r
  <2>3. quiet /\ r.args.apply => Standing(acct, r)
    BY <1>2, <2>1, <2>2 DEF Standing
  <2> QED
    BY <1>1, <1>2, <2>1, <2>2, <2>3, KeepsServices, ProceedKnown
<1>7. CASE EnsureMember
  <2>1. PICK p \in run.left :
        LET r == [run EXCEPT !.left = @ \ {p},
                             !.at = IF run.left = {p} THEN "schedule" ELSE @]
            q == [Blank EXCEPT !.kind = "member", !.who = p,
                    !.verb = IF run.roles[p] = "absent" THEN "create" ELSE "update"]
        IN  Proceed(r) \/ Change(q, r)
    BY <1>7 DEF EnsureMember
  <2> DEFINE r == [run EXCEPT !.left = @ \ {p},
                              !.at = IF run.left = {p} THEN "schedule" ELSE @]
             q == [Blank EXCEPT !.kind = "member", !.who = p,
                     !.verb = IF run.roles[p] = "absent" THEN "create" ELSE "update"]
  <2>2. run.at = "members"
    BY <1>7 DEF EnsureMember, Step
  <2>3. /\ r.every = run.every /\ r.sids = run.sids /\ r.at \in {"members", "schedule"}
        /\ r.args = run.args /\ r \in Runs
    BY <1>1, <2>2 DEF Runs, Ats
  <2>4. q.kind = "member"
    BY DEF Blank
  <2>5. Proceed(r) \/ Change(q, r)
    BY <2>1
  <2> HIDE DEF q, r
  <2>6. quiet /\ run.args.apply => Standing(acct, r) /\ Fits(acct, r, q)
    BY <1>2, <2>2, <2>3, <2>4 DEF Standing, Fits, CanTake, OnService, Kinds
  <2> QED
    BY <1>1, <1>2, <2>3, <2>4, <2>5, <2>6, KeepsServices, ProceedKnown, ChangeKnown,
       HandledStanding
<1> QED
  BY <1>4, <1>5, <1>6, <1>7

\* The steps for the schedule and the escalation policy.
LEMMA ParentsKnown == IInv /\ Known /\ (EnsureSchedule \/ EnsurePolicy) => Known'
<1> SUFFICES ASSUME IInv, Known, EnsureSchedule \/ EnsurePolicy PROVE Known'
  OBVIOUS
<1>1. run \in Runs /\ req = NoReq /\ acct \in Account
  BY DEF IInv, TypeOK, EnsureSchedule, EnsurePolicy, Step
<1>2. quiet => KnownServices(acct, run) /\ (run.args.apply => Standing(acct, run))
  BY <1>1 DEF Known, Sure, Promised
<1>3. ASSUME StopRefused PROVE Known'
  BY <1>3, StopKnown DEF StopRefused, history
<1> USE DEF AfterTeam, AfterSchedule, AfterPolicy, AfterServices, AfterBusiness, ServicePhase
<1>4. CASE EnsureSchedule
  <2> DEFINE q == [Blank EXCEPT !.kind = "schedule"]
             u == [q EXCEPT !.verb = "update"]
             r == [run EXCEPT !.at = "policy"]
             s == Say(r, "refused", "schedule", "-")
  <2>1. /\ r.every = run.every /\ r.sids = run.sids /\ r.at = "policy" /\ r.args = run.args
        /\ s.every = run.every /\ s.sids = run.sids /\ s.at = "policy" /\ s.args = run.args
        /\ run.at = "schedule" /\ r \in Runs
    BY <1>1, <1>4 DEF Runs, Say, EnsureSchedule, Step, Ats
  <2>2. /\ q.kind = "schedule" /\ q.verb = "create"
        /\ u.kind = "schedule" /\ u.verb = "update"
    BY DEF Blank
  <2>3. \/ StopRefused
        \/ acct.named["schedule"] = "absent" /\ Change(q, r)
        \/ acct.named["schedule"] = "layers" /\ Proceed(s)
        \/ acct.named["schedule"] = "drift" /\ Change(u, r)
        \/ acct.named["schedule"] = "match" /\ Proceed(r)
    BY <1>4 DEF EnsureSchedule
  <2> HIDE DEF q, u, r, s
  <2>4. quiet /\ run.args.apply => Exists(acct, "team")
    BY <1>2, <2>1 DEF Standing
  <2>5. quiet /\ run.args.apply =>
          /\ acct.named["schedule"] = "absent" => Fits(acct, r, q)
          /\ acct.named["schedule"] = "drift" => Fits(acct, r, u)
    BY <2>2, <2>4 DEF Fits, CanTake, Exists, Kinds, OnService
  <2>6. quiet /\ run.args.apply =>
          /\ Standing(Handle(acct, q), r) /\ Standing(Handle(acct, u), r)
          /\ acct.named["schedule"] \in {"layers", "match"} => Standing(acct, r) /\ Standing(acct, s)
    <3>1. /\ Exists(Handle(acct, q), "schedule") /\ Exists(Handle(acct, u), "schedule")
          /\ Exists(acct, "team") => Exists(Handle(acct, q), "team") /\ Exists(Handle(acct, u), "team")
      BY <1>1, <2>2, HandledMakes, HandledExists DEF Kinds
    <3> QED
      BY <2>1, <2>4, <3>1 DEF Standing, Exists
  <2> QED
    BY <1>1, <1>2, <1>3, <2>1, <2>2, <2>3, <2>5, <2>6, KeepsServices, ProceedKnown, ChangeKnown
<1>5. CASE EnsurePolicy
  <2> DEFINE q == [Blank EXCEPT !.kind = "policy"]
             u == [q EXCEPT !.verb = "update"]
             r == [run EXCEPT !.at = "list"]
  <2>1. /\ r.every = run.every /\ r.sids = run.sids /\ r.at = "list" /\ r.args = run.args
        /\ run.at = "policy" /\ r \in Runs
    BY <1>1, <1>5 DEF Runs, EnsurePolicy, Step, Ats
  <2>2. /\ q.kind = "policy" /\ q.verb = "create"
        /\ u.kind = "policy" /\ u.verb = "update"
    BY DEF Blank
  <2>3. \/ StopRefused
        \/ acct.named["policy"] = "absent" /\ Change(q, r)
        \/ acct.named["policy"] = "drift" /\ Change(u, r)
        \/ acct.named["policy"] = "match" /\ Proceed(r)
    BY <1>5 DEF EnsurePolicy
  <2> HIDE DEF q, u, r
  <2>4. quiet /\ run.args.apply => Exists(acct, "team") /\ Exists(acct, "schedule")
    BY <1>2, <2>1 DEF Standing
  <2>5. quiet /\ run.args.apply =>
          /\ acct.named["policy"] = "absent" => Fits(acct, r, q)
          /\ acct.named["policy"] = "drift" => Fits(acct, r, u)
    BY <2>2, <2>4 DEF Fits, CanTake, Exists, Kinds, OnService
  <2>6. quiet /\ run.args.apply =>
          /\ Standing(Handle(acct, q), r) /\ Standing(Handle(acct, u), r)
          /\ acct.named["policy"] = "match" => Standing(acct, r)
    <3>1. /\ Exists(Handle(acct, q), "policy") /\ Exists(Handle(acct, u), "policy")
          /\ Exists(acct, "team") => Exists(Handle(acct, q), "team") /\ Exists(Handle(acct, u), "team")
          /\ Exists(acct, "schedule") =>
               Exists(Handle(acct, q), "schedule") /\ Exists(Handle(acct, u), "schedule")
      BY <1>1, <2>2, HandledMakes, HandledExists DEF Kinds
    <3> QED
      BY <2>1, <2>4, <3>1 DEF Standing, Exists
  <2> QED
    BY <1>1, <1>2, <1>3, <2>1, <2>2, <2>3, <2>5, <2>6, KeepsServices, ProceedKnown, ChangeKnown
<1> QED
  BY <1>4, <1>5

\* The listing is what the run then knows.
LEMMA ListingKnown == IInv /\ Known /\ ListServices => Known'
<1> SUFFICES ASSUME IInv, Known, ListServices PROVE Known'
  OBVIOUS
<1> DEFINE r == [run EXCEPT !.at = "service", !.n = 1, !.every = acct.svc]
<1>1. run \in Runs /\ req = NoReq /\ run.at = "list" /\ Proceed(r)
  BY DEF IInv, TypeOK, ListServices, Step
<1>2. /\ r.every = acct.svc /\ r.sids = run.sids /\ r.at = "service" /\ r.args = run.args
  BY <1>1 DEF Runs
<1>3. quiet => KnownServices(acct, run) /\ (run.args.apply => Standing(acct, run))
  BY <1>1 DEF Known, Sure, Promised
<1> HIDE DEF r
<1>4. quiet => KnownServices(acct, r) /\ Ahead(acct, r)
  BY <1>2, <1>3 DEF KnownServices, Ahead
<1>5. quiet /\ r.args.apply => Standing(acct, r)
  BY <1>1, <1>2, <1>3 DEF Standing, AfterTeam, AfterSchedule, AfterPolicy, AfterServices,
                          AfterBusiness, ServicePhase
<1> QED
  BY <1>1, <1>4, <1>5, ProceedKnown

\* While the run is at the services, those parents stand that its writes need.
LEMMA ServiceParents ==
  ASSUME NEW a, NEW r, r.at \in ServicePhase, Standing(a, r)
  PROVE  /\ Exists(a, "team") /\ Exists(a, "policy")
         /\ \A s : s.at \in ServicePhase \cup {"slack"} => Standing(a, s)
BY DEF Standing, AfterTeam, AfterSchedule, AfterPolicy, AfterServices, AfterBusiness, ServicePhase

\* Going on to the next service keeps what is known.
LEMMA NextServiceKnown ==
  ASSUME NEW a, NEW s \in Runs, KnownServices(a, s), Ahead(a, s), s.at \in ServicePhase
  PROVE  /\ KnownServices(a, NextService(s)) /\ Ahead(a, NextService(s))
         /\ NextService(s).at \in ServicePhase \cup {"slack"} /\ NextService(s).args = s.args
         /\ NextService(s) \in Runs
<1>1. s.n < ServiceCount => s.n + 1 \in 1..ServiceCount /\ s.n + 1 > s.n
  BY ServiceCountType DEF Runs
<1>2. CASE s.n < ServiceCount
  <2> DEFINE r == [s EXCEPT !.at = "service", !.n = @ + 1]
  <2>1. r \in Runs /\ r.every = s.every /\ r.sids = s.sids /\ r.n > s.n /\ r.at = "service"
        /\ r.args = s.args
    BY <1>1, <1>2 DEF Runs, Ats
  <2>2. NextService(s) = r
    BY <1>2 DEF NextService
  <2> HIDE DEF r
  <2> QED
    BY <2>1, <2>2, KeepsAhead DEF ServicePhase
<1>3. CASE ~(s.n < ServiceCount)
  <2> DEFINE r == [s EXCEPT !.at = "slack"]
  <2>1. r \in Runs /\ r.every = s.every /\ r.sids = s.sids /\ r.at = "slack" /\ r.args = s.args
    BY DEF Runs, Ats
  <2>2. NextService(s) = r
    BY <1>3 DEF NextService
  <2> HIDE DEF r
  <2> QED
    BY <2>1, <2>2, KeepsServices DEF ServicePhase
<1> QED
  BY <1>2, <1>3

\* Finding, making or refusing a service.
LEMMA ServiceKnown == IInv /\ Known /\ EnsureService => Known'
<1> SUFFICES ASSUME IInv, Known, EnsureService PROVE Known'
  OBVIOUS
<1> DEFINE q == [Blank EXCEPT !.kind = "service", !.who = Name]
           r == [run EXCEPT !.at = "integration"]
           made == [r EXCEPT !.new = TRUE,
                      !.sids[run.n] = IF run.args.apply THEN None ELSE Placeholder]
           found(i) == [r EXCEPT !.new = FALSE, !.sids[run.n] = i]
           u(i) == [q EXCEPT !.verb = "update", !.on = i]
           skip == Say(run, "refused", "service", Name)
<1>1. /\ run \in Runs /\ req = NoReq /\ acct \in Account /\ run.at = "service"
      /\ run.n \in 1..ServiceCount /\ Name \in Names
  BY NameType DEF IInv, TypeOK, EnsureService, Step, Runs, Name
<1>2. quiet => /\ KnownServices(acct, run) /\ Ahead(acct, run)
               /\ run.args.apply => Standing(acct, run)
  BY <1>1 DEF Known, Sure, Promised
<1>3. quiet => Called(acct.svc, Name) = SameName
  BY <1>1, <1>2 DEF Ahead, SameName, Name, ServicePhase
<1>4. CASE StopRefused
  BY <1>4, StopKnown DEF StopRefused, history
<1>5. CASE Proceed(NextService(skip))
  <2>1. skip \in Runs
    BY <1>1, SayType DEF Say, Verbs, WriteKinds, Kinds, Subjects
  <2>2. /\ skip.every = run.every /\ skip.sids = run.sids /\ skip.at = run.at /\ skip.n = run.n
        /\ skip.args = run.args
    BY <1>1 DEF Say, Runs
  <2> HIDE DEF skip
  <2>3. quiet => KnownServices(acct, skip) /\ Ahead(acct, skip)
    BY <1>2, <2>2 DEF KnownServices, Ahead
  <2> QED
    BY <1>1, <1>2, <1>5, <2>1, <2>2, <2>3, NextServiceKnown, ServiceParents, ProceedKnown DEF ServicePhase
<1>6. CASE SameName = {} /\ Change(q, made)
  <2>1. /\ made \in Runs /\ made.every = run.every /\ made.at = "integration" /\ made.n = run.n
        /\ made.args = run.args
        /\ made.sids = [run.sids EXCEPT ![run.n] = IF run.args.apply THEN None ELSE Placeholder]
    BY <1>1 DEF Runs, Ats
  <2>2. \A n \in 1..ServiceCount : made.sids[n] \in SvcIds => made.sids[n] = run.sids[n]
    BY <1>1, <2>1, SentinelAssumption DEF Runs
  <2>3. q.kind = "service" /\ q.verb = "create" /\ q.who = Name
    BY DEF Blank
  <2> HIDE DEF q, made
  <2>4. quiet => KnownServices(acct, made) /\ Ahead(acct, made)
    BY <1>1, <1>2, <2>1, <2>2 DEF KnownServices, Ahead, ServicePhase, Runs
  <2>5. quiet /\ run.args.apply => Fits(acct, made, q) /\ Standing(acct, made)
    <3> SUFFICES ASSUME quiet, run.args.apply PROVE Fits(acct, made, q) /\ Standing(acct, made)
      OBVIOUS
    <3>1. Exists(acct, "policy") /\ Standing(acct, made)
      BY <1>1, <1>2, <2>1, ServiceParents DEF ServicePhase
    <3>2. CanTake(acct, q)
      BY <2>3, <3>1 DEF CanTake, Kinds, OnService
    <3> QED
      BY <1>3, <1>6, <2>1, <2>3, <3>1, <3>2 DEF Fits, Kinds, Name
  <2> QED
    BY <1>1, <1>6, <2>1, <2>3, <2>4, <2>5, ChangeKnown, HandledStanding
<1>7. ASSUME NEW i \in SameName,
             IF run.every[i].fields = "match" THEN Proceed(found(i))
             ELSE Change(u(i), found(i))
      PROVE  Known'
  <2>1. i \in SvcIds /\ run.every[i].name = Name
    BY DEF SameName, Called
  <2>2. /\ found(i) \in Runs /\ found(i).every = run.every /\ found(i).at = "integration"
        /\ found(i).n = run.n /\ found(i).args = run.args
        /\ found(i).sids = [run.sids EXCEPT ![run.n] = i]
    BY <1>1, <2>1 DEF Runs, Ats
  <2>3. \A n \in 1..ServiceCount :
          found(i).sids[n] = IF n = run.n THEN i ELSE run.sids[n]
    BY <1>1, <2>2 DEF Runs
  <2>4. u(i).kind = "service" /\ u(i).verb = "update" /\ u(i).who = Name /\ u(i).on = i
    BY DEF Blank
  <2> HIDE DEF u, found
  <2>5. quiet => acct.svc[i].name = Name /\ Name # "gone"
    BY <1>1, <1>2, <2>1, NamesAssumption DEF KnownServices
  <2>6. quiet => KnownServices(acct, found(i)) /\ Ahead(acct, found(i))
    <3> SUFFICES ASSUME quiet PROVE KnownServices(acct, found(i)) /\ Ahead(acct, found(i))
      OBVIOUS
    <3>1. KnownServices(acct, found(i))
      BY <1>2, <2>2, <2>3, <2>5 DEF KnownServices, Name
    <3> QED
      BY <1>1, <1>2, <2>2, <3>1 DEF Ahead, ServicePhase, Runs
  <2>7. quiet /\ run.args.apply => Fits(acct, found(i), u(i)) /\ Standing(acct, found(i))
    <3> SUFFICES ASSUME quiet, run.args.apply
                 PROVE  Fits(acct, found(i), u(i)) /\ Standing(acct, found(i))
      OBVIOUS
    <3>1. Exists(acct, "policy") /\ Standing(acct, found(i))
      BY <1>1, <1>2, <2>2, ServiceParents DEF ServicePhase
    <3>2. CanTake(acct, u(i))
      BY <2>4, <2>5, <3>1 DEF CanTake, Kinds, OnService
    <3> QED
      BY <2>2, <2>4, <2>5, <3>1, <3>2 DEF Fits, Kinds, Name
  <2> QED
    BY <1>1, <1>7, <2>2, <2>4, <2>6, <2>7, ProceedKnown, ChangeKnown, HandledStanding
<1> QED
  BY <1>4, <1>5, <1>6, <1>7 DEF EnsureService

\* The service the run works on is there, under its name.
LEMMA SidThere ==
  ASSUME IInv, Known, quiet, run.at \in ServiceAts, req = NoReq, run.args.apply \/ ~run.new
  PROVE  Sid \in SvcIds /\ acct.svc[Sid].name = Name /\ Name # "gone"
<1>1. Sid \in SvcIds /\ run.n \in 1..ServiceCount /\ Name \in Names
  BY SidHeld
<1> QED
  BY <1>1, NamesAssumption DEF Known, Sure, KnownServices, Sid, Name

\* A step of a service after which the run goes on knowing what it knew.
LEMMA ServiceStepKnown ==
  ASSUME IInv, Known, req = NoReq, run.at \in ServiceAts, NEW r \in Runs, r.args = run.args,
         quiet => KnownServices(acct, r) /\ Ahead(acct, r),
         r.at \in ServicePhase \cup {"slack"},
         \/ Proceed(r)
         \/ \E q : /\ Change(q, r) /\ q.kind \in {"integration", "grouping", "orchestration", "active"}
                   /\ quiet /\ run.args.apply => Fits(acct, r, q)
  PROVE  Known'
<1>1. acct \in Account /\ (quiet /\ run.args.apply => Standing(acct, run))
  BY DEF Known, Sure, Promised, IInv, TypeOK
<1>2. quiet /\ run.args.apply => Standing(acct, r)
  BY <1>1, ServiceParents DEF ServiceAts, ServicePhase
<1>3. CASE Proceed(r)
  BY <1>2, <1>3, ProceedKnown
<1>4. ASSUME NEW q, Change(q, r), q.kind \in {"integration", "grouping", "orchestration", "active"},
             quiet /\ run.args.apply => Fits(acct, r, q)
      PROVE  Known'
  <2>1. quiet /\ run.args.apply => Standing(Handle(acct, q), r)
    BY <1>1, <1>2, HandledStanding
  <2> QED
    BY <1>4, <2>1, ChangeKnown
<1> QED
  BY <1>3, <1>4

\* The steps for a service's children.
LEMMA ChildrenKnown ==
  IInv /\ Known /\ (EnsureIntegration \/ EnsureGrouping \/ EnsureOrchestration \/ EnsureActive)
    => Known'
<1> SUFFICES ASSUME IInv, Known,
                    EnsureIntegration \/ EnsureGrouping \/ EnsureOrchestration \/ EnsureActive
             PROVE  Known'
  OBVIOUS
<1>1. run \in Runs /\ req = NoReq /\ acct \in Account /\ run.at \in ServiceAts
  BY DEF IInv, TypeOK, EnsureIntegration, EnsureGrouping, EnsureOrchestration, EnsureActive, Step,
         ServiceAts
<1>2. quiet => KnownServices(acct, run) /\ Ahead(acct, run) /\ SettingsHold(acct)
  BY DEF Known, Sure
<1>3. quiet /\ run.args.apply => Sid \in SvcIds /\ acct.svc[Sid].name # "gone"
  BY <1>1, SidThere
<1>4. ASSUME NEW q, q.kind \in {"integration", "orchestration", "active"}, q.on = Sid,
             NEW r, quiet, run.args.apply
      PROVE  Fits(acct, r, q)
  BY <1>3, <1>4 DEF Fits, CanTake, Kinds
<1>5. ASSUME NEW at \in ServiceAts
      PROVE  LET r == [run EXCEPT !.at = at]
                 s == Say(r, "refused", "grouping", Name)
             IN  /\ r \in Runs /\ r.args = run.args /\ r.at = at
                 /\ quiet => KnownServices(acct, r) /\ Ahead(acct, r)
                 /\ s \in Runs /\ s.args = run.args /\ s.at = at
                 /\ quiet => KnownServices(acct, s) /\ Ahead(acct, s)
  <2> DEFINE r == [run EXCEPT !.at = at]
             s == Say(r, "refused", "grouping", Name)
  <2>1. /\ r \in Runs /\ r.every = run.every /\ r.sids = run.sids /\ r.n = run.n
        /\ r.at = at /\ r.args = run.args
    BY <1>1 DEF Runs, Ats, ServiceAts
  <2>2. Name \in Names
    BY <1>1, SidHeld
  <2> HIDE DEF r
  <2>3. s \in Runs
    BY <2>1, <2>2, SayType DEF Say, Verbs, WriteKinds, Subjects
  <2>4. /\ s.every = run.every /\ s.sids = run.sids /\ s.n = run.n /\ s.at = at
        /\ s.args = run.args
    BY <2>1 DEF Say, Runs
  <2>5. run.at \in ServicePhase
    BY <1>1 DEF ServiceAts, ServicePhase
  <2> HIDE DEF s
  <2> QED
    BY <1>1, <1>2, <2>1, <2>3, <2>4, <2>5, KeepsAhead DEF r, s
<1>6. CASE EnsureIntegration
  <2> DEFINE q == [Blank EXCEPT !.kind = "integration", !.who = Name, !.on = Sid]
             r == [run EXCEPT !.at = "grouping"]
  <2>1. Proceed(r) \/ Change(q, r)
    BY <1>6 DEF EnsureIntegration
  <2>2. q.kind = "integration" /\ q.on = Sid
    BY DEF Blank
  <2>3. /\ r \in Runs /\ r.args = run.args /\ r.at \in ServicePhase
        /\ quiet => KnownServices(acct, r) /\ Ahead(acct, r)
    BY <1>5 DEF ServiceAts, ServicePhase
  <2> HIDE DEF q, r
  <2> QED
    BY <1>1, <1>4, <2>1, <2>2, <2>3, ServiceStepKnown
<1>7. CASE EnsureOrchestration
  <2> DEFINE q == [Blank EXCEPT !.kind = "orchestration", !.who = Name, !.on = Sid]
             c == [q EXCEPT !.back = "severity"]
             u == [q EXCEPT !.verb = "update", !.back = Restorable(Sid)]
             r == [run EXCEPT !.at = "active"]
  <2>1. Proceed(r) \/ Change(c, r) \/ Change(u, r)
    BY <1>7 DEF EnsureOrchestration
  <2>2. c.kind = "orchestration" /\ c.on = Sid /\ u.kind = "orchestration" /\ u.on = Sid
    BY DEF Blank
  <2>3. /\ r \in Runs /\ r.args = run.args /\ r.at \in ServicePhase
        /\ quiet => KnownServices(acct, r) /\ Ahead(acct, r)
    BY <1>5 DEF ServiceAts, ServicePhase
  <2> HIDE DEF q, c, u, r
  <2> QED
    BY <1>1, <1>4, <2>1, <2>2, <2>3, ServiceStepKnown
<1>8. CASE EnsureActive
  <2> DEFINE q == [Blank EXCEPT !.kind = "active", !.who = Name, !.on = Sid]
             u == [q EXCEPT !.verb = "update"]
             r == NextService(run)
  <2>1. Proceed(r) \/ Change(q, r) \/ Change(u, r)
    BY <1>8 DEF EnsureActive
  <2>2. q.kind = "active" /\ q.on = Sid /\ u.kind = "active" /\ u.on = Sid
    BY DEF Blank
  <2>3. r.at \in ServicePhase \cup {"slack"} /\ r.args = run.args /\ r \in Runs
    <3>1. run.n < ServiceCount => run.n + 1 \in 1..ServiceCount
      BY <1>1, ServiceCountType DEF Runs
    <3> QED
      BY <1>1, <3>1 DEF NextService, Runs, Ats, ServicePhase
  <2>4. quiet => KnownServices(acct, r) /\ Ahead(acct, r)
    BY <1>1, <1>2, NextServiceKnown DEF ServiceAts, ServicePhase
  <2> HIDE DEF q, u, r
  <2> QED
    BY <1>1, <1>4, <2>1, <2>2, <2>3, <2>4, ServiceStepKnown
<1>9. CASE EnsureGrouping
  <2> DEFINE q == [Blank EXCEPT !.kind = "grouping", !.who = Name, !.on = Sid,
                                !.type = run.preferred, !.members = {Sid}]
             u(g) == [q EXCEPT !.verb = "update", !.setting = g, !.members = Holders(g)]
             r == [run EXCEPT !.at = "orchestration"]
             s == Say(r, "refused", "grouping", Name)
  <2>1. /\ q.kind = "grouping" /\ q.verb = "create" /\ q.on = Sid /\ q.members = {Sid}
        /\ \A g : /\ u(g).kind = "grouping" /\ u(g).verb = "update" /\ u(g).on = Sid
                  /\ u(g).setting = g /\ u(g).members = acct.grp[g].members
    BY DEF Blank, Holders
  <2>2. \/ Proceed(r) \/ Proceed(s)
        \/ Change(q, r) /\ (run.args.apply => Holding(acct, Sid) = {})
        \/ \E g \in GrpIds : Holding(acct, Sid) = {g} /\ Change(u(g), r)
    BY <1>9 DEF EnsureGrouping, Holding
  <2>3. /\ r \in Runs /\ r.args = run.args /\ r.at \in ServicePhase
        /\ quiet => KnownServices(acct, r) /\ Ahead(acct, r)
        /\ s \in Runs /\ s.args = run.args /\ s.at \in ServicePhase
        /\ quiet => KnownServices(acct, s) /\ Ahead(acct, s)
    BY <1>5 DEF ServiceAts, ServicePhase
  <2> HIDE DEF q, u, r, s
  <2>4. CASE Proceed(r) \/ Proceed(s)
    BY <1>1, <2>3, <2>4, ServiceStepKnown
  <2>5. CASE Change(q, r) /\ (run.args.apply => Holding(acct, Sid) = {})
    <3>1. quiet /\ run.args.apply => Fits(acct, r, q)
      <4> SUFFICES ASSUME quiet, run.args.apply PROVE Fits(acct, r, q)
        OBVIOUS
      <4>1. CanTake(acct, q)
        BY <1>3, <2>1 DEF CanTake, Kinds, OnService, UnusedSvc
      <4> QED
        BY <2>1, <2>5, <4>1 DEF Fits, Kinds
    <3> QED
      BY <1>1, <2>1, <2>3, <2>5, <3>1, ServiceStepKnown
  <2>6. ASSUME NEW g \in GrpIds, Holding(acct, Sid) = {g}, Change(u(g), r)
        PROVE  Known'
    <3>1. quiet /\ run.args.apply => Fits(acct, r, u(g))
      <4> SUFFICES ASSUME quiet, run.args.apply PROVE Fits(acct, r, u(g))
        OBVIOUS
      <4>1. acct.grp[g].members \cap UnusedSvc(acct) = {} /\ Sid \in acct.grp[g].members
        BY <1>2, <2>6 DEF SettingsHold, Holding
      <4>2. CanTake(acct, u(g))
        BY <2>1, <4>1 DEF CanTake, Kinds, OnService
      <4> QED
        BY <2>1, <2>6, <4>2 DEF Fits, Kinds
    <3> QED
      BY <1>1, <2>1, <2>3, <2>6, <3>1, ServiceStepKnown
  <2> QED
    BY <2>2, <2>4, <2>5, <2>6
<1> QED
  BY <1>6, <1>7, <1>8, <1>9

\* What follows the services.
LEMMA BusinessKnown ==
  IInv /\ Known /\ (ReportSlack \/ EnsureBusiness \/ ListSupports) => Known'
<1> SUFFICES ASSUME IInv, Known, ReportSlack \/ EnsureBusiness \/ ListSupports PROVE Known'
  OBVIOUS
<1>1. run \in Runs /\ req = NoReq /\ acct \in Account
  BY DEF IInv, TypeOK, ReportSlack, EnsureBusiness, ListSupports, Step
<1>2. quiet => KnownServices(acct, run) /\ (run.args.apply => Standing(acct, run))
  BY <1>1 DEF Known, Sure, Promised
<1>3. ASSUME StopRefused PROVE Known'
  BY <1>3, StopKnown DEF StopRefused, history
<1> USE DEF AfterTeam, AfterSchedule, AfterPolicy, AfterServices, AfterBusiness, ServicePhase
<1>4. CASE ReportSlack
  <2> DEFINE r == [run EXCEPT !.at = "business"]
  <2>1. r.every = run.every /\ r.sids = run.sids /\ r.at = "business" /\ r.args = run.args
    BY <1>1 DEF Runs
  <2>2. run.at = "slack" /\ Proceed(r)
    BY <1>4 DEF ReportSlack, Step
  <2> HIDE DEF r
  <2>3. quiet /\ r.args.apply => Standing(acct, r)
    BY <1>2, <2>1, <2>2 DEF Standing
  <2> QED
    BY <1>1, <1>2, <2>1, <2>2, <2>3, KeepsServices, ProceedKnown
<1>5. CASE EnsureBusiness
  <2> DEFINE q == [Blank EXCEPT !.kind = "business"]
             u == [q EXCEPT !.verb = "update"]
             r == [run EXCEPT !.at = "listing_supports", !.business = "found"]
             c == [r EXCEPT !.business = NewId]
  <2>1. /\ r.every = run.every /\ r.sids = run.sids /\ r.at = "listing_supports" /\ r.args = run.args
        /\ c.every = run.every /\ c.sids = run.sids /\ c.at = "listing_supports" /\ c.args = run.args
        /\ run.at = "business"
    BY <1>1, <1>5 DEF Runs, EnsureBusiness, Step
  <2>2. r \in Runs /\ c \in Runs
    BY <1>1 DEF Runs, Ats, HeldIds, NewId
  <2>3. /\ q.kind = "business" /\ q.verb = "create"
        /\ u.kind = "business" /\ u.verb = "update"
    BY DEF Blank
  <2>4. \/ StopRefused
        \/ acct.named["business"] = "absent" /\ Change(q, c)
        \/ acct.named["business"] = "drift" /\ Change(u, r)
        \/ acct.named["business"] = "match" /\ Proceed(r)
    BY <1>5 DEF EnsureBusiness
  <2> HIDE DEF q, u, r, c
  <2>5. quiet /\ run.args.apply =>
          Exists(acct, "team") /\ Exists(acct, "schedule") /\ Exists(acct, "policy")
    BY <1>2, <2>1 DEF Standing
  <2>6. quiet /\ run.args.apply =>
          /\ acct.named["business"] = "absent" => Fits(acct, c, q)
          /\ acct.named["business"] = "drift" => Fits(acct, r, u)
    BY <2>3, <2>5 DEF Fits, CanTake, Exists, Kinds, OnService
  <2>7. quiet /\ run.args.apply =>
          /\ Standing(Handle(acct, q), c) /\ Standing(Handle(acct, u), r)
          /\ acct.named["business"] = "match" => Standing(acct, r)
    <3>1. /\ Exists(Handle(acct, q), "business") /\ Exists(Handle(acct, u), "business")
          /\ \A k \in {"team", "schedule", "policy"} :
               Exists(acct, k) => Exists(Handle(acct, q), k) /\ Exists(Handle(acct, u), k)
      BY <1>1, <2>3, HandledMakes, HandledExists DEF Kinds
    <3> QED
      BY <2>1, <2>5, <3>1 DEF Standing, Exists
  <2> QED
    BY <1>1, <1>2, <1>3, <2>1, <2>2, <2>3, <2>4, <2>6, <2>7, KeepsServices, ProceedKnown, ChangeKnown
<1>6. CASE ListSupports
  <2> DEFINE r == [run EXCEPT !.at = "supports", !.n = 1,
                         !.supporting = IF run.business = "found"
                                        THEN acct.supports ELSE {}]
  <2>1. r.every = run.every /\ r.sids = run.sids /\ r.at = "supports" /\ r.args = run.args
    BY <1>1 DEF Runs
  <2>2. run.at = "listing_supports" /\ Proceed(r)
    BY <1>6 DEF ListSupports, Step
  <2> HIDE DEF r
  <2>3. quiet /\ r.args.apply => Standing(acct, r)
    BY <1>2, <2>1, <2>2 DEF Standing
  <2> QED
    BY <1>1, <1>2, <2>1, <2>2, <2>3, KeepsServices, ProceedKnown
<1> QED
  BY <1>4, <1>5, <1>6

\* The loops over the services' ids and over the notification rules.
LEMMA LoopsKnown == IInv /\ Known /\ (EnsureSupport \/ EnsureRule) => Known'
<1> SUFFICES ASSUME IInv, Known, EnsureSupport \/ EnsureRule PROVE Known'
  OBVIOUS
<1>1. run \in Runs /\ req = NoReq /\ acct \in Account
  BY DEF IInv, TypeOK, EnsureSupport, EnsureRule, Step
<1>2. quiet => KnownServices(acct, run) /\ (run.args.apply => Standing(acct, run))
  BY <1>1 DEF Known, Sure, Promised
<1> USE DEF AfterTeam, AfterSchedule, AfterPolicy, AfterServices, AfterBusiness, ServicePhase
<1>3. CASE EnsureSupport
  <2> DEFINE q == [Blank EXCEPT !.kind = "support", !.who = Name, !.on = Sid]
             r == IF run.n < ServiceCount THEN [run EXCEPT !.n = @ + 1]
                  ELSE [run EXCEPT !.at = "rules", !.left = People]
  <2>1. run.at = "supports" /\ run.n \in 1..ServiceCount
    BY <1>1, <1>3 DEF EnsureSupport, Step, Runs
  <2>2. /\ r.every = run.every /\ r.sids = run.sids /\ r.at \in {"supports", "rules"}
        /\ r.args = run.args /\ r \in Runs
    <3>1. run.n < ServiceCount => run.n + 1 \in 1..ServiceCount
      BY <2>1, ServiceCountType
    <3> QED
      BY <1>1, <2>1, <3>1 DEF Runs, Ats
  <2>3. q.kind = "support" /\ q.on = Sid
    BY DEF Blank
  <2>4. Proceed(r) \/ (Change(q, r) /\ Sid # None)
    BY <1>3 DEF EnsureSupport
  <2> HIDE DEF q, r
  <2>5. run.args.apply /\ Sid # None => Sid \in SvcIds
    <3>1. run.sids \in [1..ServiceCount -> SvcIds \cup {Placeholder, None}]
      BY <1>1 DEF Runs
    <3> QED
      BY <2>1, <3>1 DEF IInv, Control, SoundRun, Sid
  <2>6. quiet /\ run.args.apply => Standing(acct, r)
    BY <1>2, <2>1, <2>2 DEF Standing
  <2>7. quiet /\ run.args.apply /\ Sid # None => Fits(acct, r, q)
    <3> SUFFICES ASSUME quiet, run.args.apply, Sid # None PROVE Fits(acct, r, q)
      OBVIOUS
    <3>1. Exists(acct, "business")
      BY <1>2, <2>1 DEF Standing
    <3>2. acct.svc[Sid].name # "gone"
      BY <1>2, <2>1, <2>5, NameType, NamesAssumption DEF KnownServices, Sid
    <3>3. CanTake(acct, q)
      BY <2>3, <3>1, <3>2 DEF CanTake, Kinds, OnService
    <3> QED
      BY <2>3, <3>3 DEF Fits, Kinds
  <2> QED
    BY <1>1, <1>2, <2>2, <2>3, <2>4, <2>6, <2>7, KeepsServices, ProceedKnown, ChangeKnown,
       HandledStanding
<1>4. CASE EnsureRule
  <2>1. PICK p \in run.left :
        LET r == [run EXCEPT !.left = @ \ {p},
                             !.at = IF run.left = {p} THEN "end" ELSE @]
            q == [Blank EXCEPT !.kind = "rule", !.who = p]
        IN  Proceed(r) \/ (Change(q, r) /\ acct.rule[p] = "missing")
    BY <1>4 DEF EnsureRule
  <2> DEFINE r == [run EXCEPT !.left = @ \ {p},
                              !.at = IF run.left = {p} THEN "end" ELSE @]
             q == [Blank EXCEPT !.kind = "rule", !.who = p]
  <2>2. run.at = "rules"
    BY <1>4 DEF EnsureRule, Step
  <2>3. /\ r.every = run.every /\ r.sids = run.sids /\ r.at \in {"rules", "end"}
        /\ r.args = run.args /\ r \in Runs
    BY <1>1, <2>2 DEF Runs, Ats
  <2>4. q.kind = "rule" /\ q.who = p
    BY DEF Blank
  <2>5. Proceed(r) \/ (Change(q, r) /\ acct.rule[p] = "missing")
    BY <2>1
  <2> HIDE DEF q, r
  <2>6. quiet /\ run.args.apply => Standing(acct, r)
    BY <1>2, <2>2, <2>3 DEF Standing
  <2>7. acct.rule[p] = "missing" => Fits(acct, r, q)
    BY <2>4 DEF Fits, CanTake, OnService, Kinds
  <2> QED
    BY <1>1, <1>2, <2>3, <2>4, <2>5, <2>6, <2>7, KeepsServices, ProceedKnown, ChangeKnown,
       HandledStanding
<1> QED
  BY <1>3, <1>4

\* Every step the run takes by itself.
LEMMA EnsureKnown == IInv /\ Known /\ Ensure => Known'
<1>1. IInv /\ Known /\ (End \/ ReadGone) => Known'
  BY StopKnown DEF End, ReadGone, history
<1> QED
  BY <1>1, TeamKnown, ParentsKnown, ListingKnown, ServiceKnown, ChildrenKnown, BusinessKnown,
     LoopsKnown DEF Ensure

-----------------------------------------------------------------------------
(* So do PagerDuty's answers, an interruption and a person *)

\* A request under way, and what its answer leaves of what is known.
LEMMA AnswerKeeps ==
  ASSUME IInv, Known, Takes
  PROVE  /\ run \in Runs /\ acct \in Account /\ req \in Requests /\ req # NoReq
         /\ HasRoom(acct, req) /\ SoundRequest(run, req)
         /\ SettingsHold(Handle(acct, req))
         /\ quiet => /\ Fits(acct, run, req)
                     /\ KnownServices(Handle(acct, req), run) /\ Ahead(Handle(acct, req), run)
                     /\ run.args.apply => Standing(Handle(acct, req), run)
<1>1. /\ run \in Runs /\ acct \in Account /\ req \in Requests /\ req # NoReq
      /\ HasRoom(acct, req) /\ SoundRequest(run, req) /\ CanTake(acct, req)
  BY DEF IInv, TypeOK, Takes, Control
<1>2. req.kind = "service" => req.who # "gone"
  BY <1>1, NamesAssumption DEF SoundRequest
<1>3. SettingsHold(Handle(acct, req))
  BY <1>1, <1>2, HandledSettingsHold DEF Known
<1>4. quiet => /\ Fits(acct, run, req) /\ KnownServices(acct, run) /\ Ahead(acct, run)
               /\ run.args.apply => Standing(Handle(acct, req), run)
  BY <1>1 DEF Known, Sure, Promised
<1> QED
  BY <1>1, <1>3, <1>4, HandledKnown

\* A line more in the report changes nothing that is known.
LEMMA SaidKnown ==
  ASSUME NEW a, NEW r \in Runs, NEW s, s = [r EXCEPT !.report = s.report],
         KnownServices(a, r), Ahead(a, r)
  PROVE  /\ KnownServices(a, s) /\ Ahead(a, s) /\ s.args = r.args
         /\ Standing(a, r) => Standing(a, s)
<1>1. s.every = r.every /\ s.sids = r.sids /\ s.at = r.at /\ s.n = r.n /\ s.args = r.args
  BY DEF Runs
<1> QED
  BY <1>1 DEF KnownServices, Ahead, Standing

\* A write that went through.
LEMMA DoneKnown == IInv /\ Known /\ Done => Known'
<1> SUFFICES ASSUME IInv, Known, Done PROVE Known'
  OBVIOUS
<1> DEFINE b == Handle(acct, req)
<1>1. /\ run \in Runs /\ acct \in Account /\ req \in Requests /\ req # NoReq
      /\ HasRoom(acct, req) /\ SoundRequest(run, req) /\ SettingsHold(b)
      /\ quiet => /\ Fits(acct, run, req) /\ KnownServices(b, run) /\ Ahead(b, run)
                  /\ run.args.apply => Standing(b, run)
  BY AnswerKeeps DEF Done
<1>2. acct' = b /\ quiet' = quiet /\ req' = NoReq
  BY DEF Done
<1>3. /\ run'.every = run.every /\ run'.at = run.at /\ run'.n = run.n /\ run'.args = run.args
      /\ run'.sids = IF Creates(req) THEN [run.sids EXCEPT ![run.n] = NextSvc(acct)] ELSE run.sids
  BY <1>1 DEF Done, Runs, Creates
<1> HIDE DEF b
<1>4. ASSUME quiet, NEW n \in 1..ServiceCount, run'.sids[n] \in SvcIds
      PROVE  b.svc[run'.sids[n]].name = Services[n]
  <2>1. CASE Creates(req) /\ n = run.n
    <3>1. run.n \in 1..ServiceCount /\ run.sids \in [1..ServiceCount -> SvcIds \cup {Placeholder, None}]
      BY <1>1 DEF Runs
    <3>2. run'.sids[n] = NextSvc(acct)
      BY <1>3, <2>1, <3>1
    <3>3. req.who = Services[n] /\ req.who \in Names
      BY <1>1, <1>4, <2>1 DEF Fits, Creates, SoundRequest
    <3>4. b.svc[NextSvc(acct)] = NewService(req.who)
      BY <1>1, <1>4, <2>1, <3>3, HandledCalled DEF b
    <3> QED
      BY <3>2, <3>3, <3>4 DEF NewService
  <2>2. CASE ~(Creates(req) /\ n = run.n)
    <3>1. run.sids \in [1..ServiceCount -> SvcIds \cup {Placeholder, None}]
      BY <1>1 DEF Runs
    <3>2. run'.sids[n] = run.sids[n]
      BY <1>3, <2>2, <3>1
    <3> QED
      BY <1>1, <1>4, <3>2 DEF KnownServices
  <2> QED
    BY <2>1, <2>2
<1>5. quiet => KnownServices(b, run') /\ Ahead(b, run')
  BY <1>1, <1>3, <1>4 DEF KnownServices, Ahead
<1>6. quiet /\ run'.args.apply => Standing(b, run')
  BY <1>1, <1>3 DEF Standing
<1> QED
  BY <1>1, <1>2, <1>5, <1>6 DEF Known, Sure, Promised

\* A warned orchestration, its put-back and the fallback of a grouping.
LEMMA WarnedKnown == IInv /\ Known /\ (Warned \/ PutBack \/ FallBack) => Known'
<1> SUFFICES ASSUME IInv, Known, Warned \/ PutBack \/ FallBack PROVE Known'
  OBVIOUS
<1>1. CASE Warned
  <2>1. /\ acct \in Account /\ req \in Requests /\ req # NoReq /\ SettingsHold(acct')
        /\ quiet => /\ Fits(acct, run, req) /\ KnownServices(acct', run) /\ Ahead(acct', run)
                    /\ run.args.apply => Standing(acct', run)
        /\ HasRoom(acct, req) /\ SoundRequest(run, req)
    BY <1>1, AnswerKeeps DEF Warned
  <2>2. /\ acct' = Handle(acct, req) /\ run' = run /\ quiet' = quiet /\ ~acct.advanced
        /\ req' = [req EXCEPT !.kind = "putback"] /\ req.kind = "orchestration"
    BY <1>1 DEF Warned, Warns
  <2>3. req'.kind = "putback" /\ req'.on = req.on /\ req' # NoReq
    BY <2>1, <2>2 DEF Requests, NoReq
  <2>4. acct' \in Account /\ acct'.advanced = acct.advanced
    <3>1. Handle(acct, req) \in Account
      BY <1>1, HandledType DEF Warned
    <3>2. Handle(acct, req).advanced = acct.advanced
      BY <2>1, HandleParts
    <3> QED
      BY <2>2, <3>1, <3>2
  <2>5. quiet => Fits(acct', run', req')
    <3> SUFFICES ASSUME quiet PROVE Fits(acct', run', req')
      OBVIOUS
    <3>1. req.on \in SvcIds /\ acct.svc[req.on].name # "gone"
      BY <2>1, <2>2 DEF SoundRequest, OnService, Fits, CanTake
    <3>2. acct'.svc[req.on].name # "gone"
      BY <2>1, <2>2, <3>1, HandledService
    <3>3. CanTake(acct', req')
      BY <2>3, <3>2 DEF CanTake, Kinds, OnService
    <3> QED
      BY <2>2, <2>3, <2>4, <3>3 DEF Fits, Kinds
  <2>6. quiet /\ run.args.apply => Standing(Handle(acct', req'), run')
    BY <2>1, <2>2, <2>4, HandledStanding
  <2> QED
    BY <2>1, <2>2, <2>3, <2>5, <2>6 DEF Known, Sure, Promised
<1>2. CASE PutBack
  <2>1. /\ run \in Runs /\ SettingsHold(acct')
        /\ quiet => /\ KnownServices(acct', run) /\ Ahead(acct', run)
                    /\ run.args.apply => Standing(acct', run)
    BY <1>2, AnswerKeeps DEF PutBack
  <2>2. /\ quiet' = quiet /\ req' = NoReq /\ run' = [run EXCEPT !.report = run'.report]
    BY <1>2, <2>1 DEF PutBack, Say, Runs
  <2>3. quiet => /\ KnownServices(acct', run') /\ Ahead(acct', run')
                 /\ run'.args.apply => Standing(acct', run')
    BY <2>1, <2>2, SaidKnown
  <2> QED
    BY <2>1, <2>2, <2>3 DEF Known, Sure, Promised
<1>3. CASE FallBack
  <2>1. run \in Runs /\ acct \in Account /\ req \in Requests /\ req # NoReq
    BY <1>3 DEF FallBack, IInv, TypeOK
  <2>2. /\ acct' = acct /\ quiet' = quiet
        /\ run'.every = run.every /\ run'.sids = run.sids /\ run'.at = run.at
        /\ run'.n = run.n /\ run'.args = run.args
    BY <1>3, <2>1 DEF FallBack, Runs, history
  <2>3. /\ req.kind = "grouping" /\ req' # NoReq
        /\ req'.kind = req.kind /\ req'.verb = req.verb /\ req'.on = req.on
        /\ req'.who = req.who /\ req'.setting = req.setting /\ req'.members = req.members
    BY <1>3, <2>1 DEF FallBack, RefusesIntelligent, Requests, NoReq
  <2>4. quiet => Fits(acct, run', req')
    BY <2>1, <2>2, <2>3 DEF Known, Sure, Fits, CanTake
  <2>5. quiet /\ run.args.apply => Standing(Handle(acct, req'), run')
    <3>1. NamedAfter(acct, req') = NamedAfter(acct, req)
      BY <2>3 DEF NamedAfter
    <3>2. Handle(acct, req').named = Handle(acct, req).named
      BY <2>1, <3>1 DEF Handle, Account
    <3> QED
      BY <2>1, <2>2, <3>2 DEF Known, Sure, Promised, Standing, Exists
  <2>6. quiet => KnownServices(acct, run') /\ Ahead(acct, run')
    BY <2>2 DEF Known, Sure, KnownServices, Ahead
  <2> QED
    BY <2>2, <2>3, <2>4, <2>5, <2>6 DEF Known, Sure, Promised
<1> QED
  BY <1>1, <1>2, <1>3

\* What is to be made is a parent, so a refusal of anything else leaves what
\* stood before.
LEMMA StoodBefore ==
  ASSUME NEW a \in Account, NEW q \in Requests, NEW r, NEW s, CanTake(a, q), ~IsParent(q),
         Standing(Handle(a, q), r), s.at = r.at
  PROVE  Standing(a, s)
<1>1. ASSUME NEW k \in Kinds, Exists(Handle(a, q), k)
      PROVE  Exists(a, k)
  <2>1. CASE k = q.kind
    <3>1. q.verb = "update"
      BY <2>1 DEF IsParent, Parents, Kinds, Requests
    <3> QED
      BY <2>1, <3>1 DEF CanTake
  <2>2. CASE k # q.kind
    <3>1. NamedAfter(a, q)[k] = a.named[k]
      BY <2>2 DEF NamedAfter
    <3> QED
      BY <1>1, <3>1, HandleParts DEF Exists
  <2> QED
    BY <2>1, <2>2
<1> QED
  BY <1>1 DEF Standing, Kinds

\* A refusal, before or after PagerDuty carried the write out.
LEMMA RefusalKnown == IInv /\ Known /\ (RefuseGone \/ Refuse \/ LoseAnswer) => Known'
<1> SUFFICES ASSUME IInv, Known, RefuseGone \/ Refuse \/ LoseAnswer PROVE Known'
  OBVIOUS
<1>1. /\ run \in Runs /\ acct \in Account /\ req \in Requests /\ req # NoReq /\ quiet' = quiet
      /\ TakeRefusal
  BY DEF RefuseGone, Refuse, LoseAnswer, Takes, IInv, TypeOK
<1>2. PICK r \in Runs : /\ r = [run EXCEPT !.report = r.report]
                        /\ \/ IsParent(req) /\ Exit(2, r)
                           \/ ~IsParent(req) /\ run' = r /\ req' = NoReq
  <2> DEFINE kind == IF req.kind = "putback" THEN "orchestration" ELSE req.kind
             r == Say(run, "refused", kind, req.who)
  <2>1. r \in Runs
    BY <1>1, SayType DEF Say, Verbs, Requests, WriteKinds
  <2>2. r = [run EXCEPT !.report = r.report]
    BY <1>1 DEF Say, Runs
  <2>3. IF IsParent(req) THEN Exit(2, r) ELSE run' = r /\ req' = NoReq
    BY <1>1 DEF TakeRefusal
  <2> HIDE DEF r
  <2> QED
    BY <2>1, <2>2, <2>3
<1>3. /\ SettingsHold(acct')
      /\ quiet => /\ KnownServices(acct', run) /\ Ahead(acct', run)
                  /\ run.args.apply /\ ~IsParent(req) => Standing(acct', run)
  <2>1. CASE RefuseGone
    BY <2>1, <1>1 DEF RefuseGone, Known, Sure, Fits
  <2>2. CASE Refuse
    <3>1. acct' = acct /\ CanTake(acct, req)
      BY <2>2 DEF Refuse
    <3>2. quiet /\ run.args.apply => Standing(Handle(acct, req), run)
      BY <1>1 DEF Known, Sure, Promised
    <3> QED
      BY <1>1, <3>1, <3>2, StoodBefore DEF Known, Sure
  <2>3. CASE LoseAnswer
    BY <2>3, AnswerKeeps DEF LoseAnswer
  <2> QED
    BY <2>1, <2>2, <2>3
<1>4. quiet => /\ KnownServices(acct', r) /\ Ahead(acct', r) /\ r.args = run.args
               /\ Standing(acct', run) => Standing(acct', r)
  BY <1>1, <1>2, <1>3, SaidKnown
<1>5. CASE Exit(2, r)
  BY <1>1, <1>3, <1>4, <1>5, ExitKnown
<1>6. CASE ~IsParent(req) /\ run' = r /\ req' = NoReq
  BY <1>1, <1>3, <1>4, <1>6 DEF Known, Sure, Promised
<1> QED
  BY <1>2, <1>5, <1>6

\* A run cut short, whatever became of its write.
LEMMA AbortKnown == IInv /\ Known /\ Abort => Known'
<1> SUFFICES ASSUME IInv, Known, Abort PROVE Known'
  OBVIOUS
<1>1. PICK code : Exit(code, run)
  BY DEF Abort
<1>2. run \in Runs /\ quiet' = quiet
  BY DEF Abort, IInv, TypeOK
<1>3. SettingsHold(acct') /\ (quiet => KnownServices(acct', run))
  BY AnswerKeeps DEF Abort, Known, Sure
<1> QED
  BY <1>1, <1>2, <1>3, ExitKnown

\* A new run knows nothing.
LEMMA StartKnown == IInv /\ Known /\ Start => Known'
<1> SUFFICES ASSUME IInv, Known, Start PROVE Known'
  OBVIOUS
<1>1. PICK args \in Modes : run' = [Idle(args) EXCEPT !.at = "preflight"]
  BY DEF Start
<1>2. /\ run'.at = "preflight"
      /\ \A i \in SvcIds : run'.every[i].name = "gone"
      /\ \A n \in 1..ServiceCount : run'.sids[n] = None
  BY <1>1 DEF Idle, NoService
<1>3. acct' = acct /\ req' = NoReq
  BY DEF Start, IInv, Control, SoundRun
<1>4. KnownServices(acct', run') /\ Ahead(acct', run') /\ Standing(acct', run')
  BY <1>2, SentinelAssumption
  DEF KnownServices, Ahead, Standing, AfterTeam, AfterSchedule, AfterPolicy, AfterServices,
      AfterBusiness, ServicePhase
<1> QED
  BY <1>3, <1>4 DEF Known, Sure, Promised

\* A person's edit leaves no setting with a service that is gone.
LEMMA EditsHold ==
  ASSUME NEW a \in Account, SettingsHold(a), NEW b \in Edits(a)
  PROVE  SettingsHold(b)
<1>1. ASSUME b.grp = a.grp, \A i \in SvcIds : a.svc[i].name # "gone" => b.svc[i].name # "gone"
      PROVE  SettingsHold(b)
  BY <1>1 DEF SettingsHold, UnusedSvc
<1>2. CASE b \in NamedEdits(a)
  <2>1. ASSUME NEW k \in Kinds, b = DeleteNamed(a, k)
        PROVE  SettingsHold(b)
    <3>1. b.grp = a.grp /\ (b.svc = a.svc \/ b.svc = [i \in SvcIds |-> Unpolicied(a.svc[i])])
      BY <2>1 DEF DeleteNamed, Account
    <3>2. \A i \in SvcIds : Unpolicied(a.svc[i]).name = a.svc[i].name
      BY DEF Unpolicied, Account, Service
    <3> QED
      BY <1>1, <3>1, <3>2
  <2>2. ASSUME NEW k \in Kinds, NEW v, b = [a EXCEPT !.named[k] = v]
        PROVE  SettingsHold(b)
    BY <1>1, <2>2 DEF Account
  <2> QED
    BY <1>2, <2>1, <2>2 DEF NamedEdits
<1>3. CASE b \in PersonEdits(a)
  <2>1. b.grp = a.grp /\ b.svc = a.svc
    BY <1>3 DEF PersonEdits, Account
  <2> QED
    BY <1>1, <2>1
<1>4. CASE b \in ServiceEdits(a)
  <2>1. PICK i \in SvcIds : b \in EditsOf(a, i)
    BY <1>4 DEF ServiceEdits
  <2>2. ASSUME NEW s, b = [a EXCEPT !.svc[i] = s], a.svc[i].name # "gone" => s.name # "gone"
        PROVE  SettingsHold(b)
    BY <1>1, <2>2 DEF Account
  <2>3. ASSUME NEW s \in EditedService(a.svc[i]), a.svc[i].name # "gone"
        PROVE  s.name # "gone"
    <3>1. a.svc[i] \in Service
      BY DEF Account
    <3> QED
      BY <2>3, <3>1, NamesAssumption DEF EditedService, Service
  <2>4. CASE b = DeleteService(a, i)
    <3>1. /\ \A j \in SvcIds : b.svc[j] = IF j = i THEN NoService ELSE a.svc[j]
          /\ \A g \in GrpIds : b.grp[g].members = a.grp[g].members \ {i}
      BY <2>4 DEF DeleteService, Account, Setting
    <3> QED
      BY <3>1 DEF SettingsHold, UnusedSvc
  <2> QED
    BY <2>1, <2>2, <2>3, <2>4 DEF EditsOf
<1>5. CASE b \in GroupingEdits(a)
  <2>1. PICK g \in GrpIds, s \in Setting : /\ s.members \subseteq SvcIds \ UnusedSvc(a)
                                           /\ b = [a EXCEPT !.grp[g] = s]
    BY <1>5 DEF GroupingEdits
  <2>2. b.svc = a.svc /\ \A h \in GrpIds : b.grp[h] = IF h = g THEN s ELSE a.grp[h]
    BY <2>1 DEF Account
  <2> QED
    BY <2>1, <2>2 DEF SettingsHold, UnusedSvc
<1>6. CASE b \in SupportEdits(a) \cup FeatureEdits(a)
  <2>1. b.grp = a.grp /\ b.svc = a.svc
    BY <1>6 DEF SupportEdits, FeatureEdits, Account
  <2> QED
    BY <1>1, <2>1
<1> QED
  BY <1>2, <1>3, <1>4, <1>5, <1>6 DEF Edits

\* A person's edit is not quiet, and leaves the settings in order.
LEMMA EditKnown == IInv /\ Known /\ EditByHand => Known'
BY EditsHold DEF EditByHand, Known, IInv, TypeOK

\* It holds before the first run.
LEMMA KnownInit == Init => Known
<1> SUFFICES ASSUME Init PROVE Known
  OBVIOUS
<1>1. /\ run.at = "idle" /\ req = NoReq
      /\ \A i \in SvcIds : run.every[i].name = "gone"
      /\ \A n \in 1..ServiceCount : run.sids[n] = None
  BY DEF Init, Idle, NoService
<1> QED
  BY <1>1, StartsAssumption, SentinelAssumption
  DEF Init, Known, Sure, Promised, KnownServices, Ahead, Standing, AfterTeam, AfterSchedule,
      AfterPolicy, AfterServices, AfterBusiness, ServicePhase

\* Every step keeps it.
LEMMA KnownStep == IInv /\ Known /\ [Next]_vars => Known'
<1>1. IInv /\ Known /\ Answer => Known'
  BY DoneKnown, WarnedKnown, RefusalKnown DEF Answer
<1>2. Known /\ UNCHANGED vars => Known'
  BY DEF vars, history, Known
<1> QED
  BY <1>1, <1>2, EnsureKnown, AbortKnown, StartKnown, EditKnown DEF Next

\* At every state of every behaviour in which nobody else touched the account
\* since the run began, what the run knows of it is so.
THEOREM KnowledgeHolds == Spec => []Known
BY KnownInit, KnownStep, Invariance, PTL DEF Spec

\* A refused parent stops the run before anything that depends on it
\* (Plan.change, parent=True): whatever a write refers to is in the account,
\* for every design, account, fault and interruption.
THEOREM ParentsComeFirst == Spec => []ParentsFirst
<1>1. Known => ParentsFirst
  BY DEF Known, Sure, Fits, ParentsFirst
<1> QED
  BY <1>1, KnowledgeHolds, PTL

-----------------------------------------------------------------------------
(* One object of a name *)

\* No answer of PagerDuty's makes a second object of a name.
LEMMA AnsweredOnce ==
  ASSUME IInv, Known, Takes, quiet
  PROVE  /\ \A nm \in Names : Cardinality(Called(Handle(acct, req).svc, nm)) > 1 =>
                                Cardinality(Called(acct.svc, nm)) > 1
         /\ \A k \in Kinds : Handle(acct, req).named[k] = "twins" => acct.named[k] = "twins"
<1>1. /\ acct \in Account /\ req \in Requests /\ req # NoReq /\ HasRoom(acct, req)
      /\ SoundRequest(run, req) /\ Fits(acct, run, req)
  BY AnswerKeeps
<1>2. ASSUME NEW nm \in Names, Cardinality(Called(Handle(acct, req).svc, nm)) > 1
      PROVE  Cardinality(Called(acct.svc, nm)) > 1
  <2>1. Cardinality({NextSvc(acct)}) = 1
    BY FS_Singleton
  <2>2. ~(Creates(req) /\ nm = req.who)
    BY <1>1, <1>2, <2>1, HandledCalled
  <2>3. Called(Handle(acct, req).svc, nm) = Called(acct.svc, nm)
    BY <1>1, <2>2, HandledCalled
  <2> QED
    BY <1>2, <2>3
<1>3. ASSUME NEW k \in Kinds, Handle(acct, req).named[k] = "twins"
      PROVE  acct.named[k] = "twins"
  <2>1. NamedAfter(acct, req)[k] = "twins"
    BY <1>1, <1>3, HandleParts
  <2>2. req.kind \in Kinds => acct.named[req.kind] = IF req.verb = "create" THEN "absent" ELSE "drift"
    BY <1>1 DEF Fits
  <2> QED
    BY <2>1, <2>2 DEF NamedAfter, Exists
<1> QED
  BY <1>2, <1>3

\* No run makes a second object of a name, whatever answer is lost and wherever
\* a run is cut short: the next one finds what the last one made.
THEOREM NoSecondMade == Spec => NeverASecond
<1>1. IInv /\ Known /\ [Next]_vars =>
        [quiet' => /\ \A nm \in Names : Cardinality(Called(acct'.svc, nm)) > 1 =>
                                          Cardinality(Called(acct.svc, nm)) > 1
                   /\ \A k \in Kinds : acct'.named[k] = "twins" => acct.named[k] = "twins"]_vars
  <2> SUFFICES ASSUME IInv, Known, [Next]_vars, quiet'
               PROVE  /\ \A nm \in Names : Cardinality(Called(acct'.svc, nm)) > 1 =>
                                             Cardinality(Called(acct.svc, nm)) > 1
                      /\ \A k \in Kinds : acct'.named[k] = "twins" => acct.named[k] = "twins"
    OBVIOUS
  <2>1. CASE Start
    BY <2>1 DEF Start
  <2>2. CASE ~Start
    BY <2>2, QuietSteps, AccountSteps, AnsweredOnce
  <2> QED
    BY <2>1, <2>2
<1> QED
  BY <1>1, KnowledgeHolds, Invariance, PTL DEF Spec, NeverASecond
=============================================================================
