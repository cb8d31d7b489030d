------------------------ MODULE PdSetupOutcomeProofs ------------------------
(***************************************************************************)
(* What the outcome of a pd_setup.py run says, proved for every design,    *)
(* account and bound: why it refused, what exit 0 means for the account,   *)
(* that the run after it changes nothing, and that a dry run foretells     *)
(* what the --apply that follows it does.                                  *)
(***************************************************************************)
EXTENDS PdSetupProofs

-----------------------------------------------------------------------------
(* What is refused *)

\* While no write was refused and nobody else touched the account, what was
\* said to be refused, or ended the run, is something left to a person.
SmoothInv ==
  smooth =>
    /\ quiet
    /\ run.args.apply
         /\ (Refusals(run.report) # {} \/ (run.at = "idle" /\ exit \in {1, 2})) => Blocked

\* What is left to a person is left, whatever PagerDuty answers.
LEMMA HandledBlocked ==
  ASSUME IInv, Known, Takes, quiet, Blocked, acct' = Handle(acct, req)
  PROVE  Blocked'
<1> DEFINE b == Handle(acct, req)
<1>1. /\ acct \in Account /\ req \in Requests /\ req # NoReq /\ HasRoom(acct, req)
      /\ SoundRequest(run, req) /\ Fits(acct, run, req)
  BY AnswerKeeps
<1>2. b.ready = acct.ready /\ b.advanced = acct.advanced
  BY <1>1, HandleParts
<1>3. ASSUME NEW k \in Kinds, acct.named[k] \in {"twins", "layers"}
      PROVE  b.named[k] \in {"twins", "layers"}
  <2>1. k # req.kind
    BY <1>1, <1>3 DEF Fits
  <2>2. NamedAfter(acct, req)[k] = acct.named[k]
    BY <2>1 DEF NamedAfter
  <2> QED
    BY <1>1, <1>3, <2>2, HandleParts
<1>4. ASSUME NEW nm \in Names, Cardinality(Called(acct.svc, nm)) > 1
      PROVE  Cardinality(Called(b.svc, nm)) > 1
  <2>1. ~(Creates(req) /\ nm = req.who)
    BY <1>1, <1>4, FS_EmptySet DEF Fits, Creates
  <2>2. Called(b.svc, nm) = Called(acct.svc, nm)
    BY <1>1, <2>1, HandledCalled
  <2> QED
    BY <1>4, <2>2
<1>5. ASSUME NEW i \in SvcIds, acct.svc[i].name = "other", acct.svc[i].integ
      PROVE  b.svc[i].name = "other" /\ b.svc[i].integ
  BY <1>1, <1>5, HandledService
<1>6. ASSUME NEW i \in SvcIds, Cardinality(Holding(acct, i)) > 1
      PROVE  Cardinality(Holding(b, i)) > 1
  <2>1. \A g \in GrpIds : acct.grp[g].members \subseteq b.grp[g].members
    BY <1>1, HandledSettings DEF WholeSetting, Fits, Requests
  <2>2. Holding(acct, i) \subseteq Holding(b, i) /\ Holding(b, i) \subseteq GrpIds
    BY <2>1 DEF Holding
  <2>3. IsFiniteSet(Holding(b, i))
    BY <2>2, IdsAssumption, FS_Subset
  <2>4. /\ Cardinality(Holding(acct, i)) \in Nat /\ Cardinality(Holding(b, i)) \in Nat
        /\ Cardinality(Holding(acct, i)) <= Cardinality(Holding(b, i))
    BY <2>2, <2>3, FS_Subset, FS_CardinalityType
  <2> QED
    BY <1>6, <2>4
<1> HIDE DEF b
<1>7. acct' = b
  BY DEF b
<1> QED
  BY <1>2, <1>3, <1>4, <1>5, <1>6, <1>7 DEF Blocked, Holding

\* A step of the run that goes on says no more than it said, or has a reason.
LEMMA GoesOn ==
  ASSUME IInv, SmoothInv, NEW r \in Runs, Proceed(r) \/ (\E q : Change(q, r)),
         r.args = run.args, r.at # "idle", smooth /\ run.args.apply => r.report = run.report \/ Blocked
  PROVE  SmoothInv'
<1>1. /\ acct' = acct /\ smooth' = smooth /\ quiet' = quiet
      /\ run'.args = run.args /\ run'.at # "idle"
      /\ run.args.apply => run'.report = r.report
  <2>1. CASE Proceed(r)
    BY <2>1 DEF Proceed, history
  <2>2. ASSUME NEW q, Change(q, r)
        PROVE  /\ acct' = acct /\ smooth' = smooth /\ quiet' = quiet
               /\ run'.args = run.args /\ run'.at # "idle"
               /\ run.args.apply => run'.report = r.report
    BY <2>2 DEF Change, history, Runs
  <2> QED
    BY <2>1, <2>2
<1> QED
  BY <1>1 DEF SmoothInv, Blocked

\* A run stops only at what is left to a person.
LEMMA Stops ==
  ASSUME IInv, SmoothInv, NEW code, Exit(code, run), acct' = acct, smooth' = smooth,
         quiet' = quiet, smooth /\ run.args.apply /\ code \in {1, 2} => Blocked
  PROVE  SmoothInv'
<1>1. run'.args = run.args /\ run'.report = run.report /\ exit' = code
  BY DEF Exit, IInv, TypeOK, Runs
<1> QED
  BY <1>1 DEF SmoothInv, Blocked

\* The steps for the things found by name.
LEMMA NamedSmooth ==
  IInv /\ Known /\ SmoothInv
    /\ (Preflight \/ EnsureTeam \/ ListMembers \/ EnsureMember \/ EnsureSchedule \/ EnsurePolicy
          \/ ReportSlack \/ EnsureBusiness)
  => SmoothInv'
<1> SUFFICES ASSUME IInv, Known, SmoothInv,
                    \/ Preflight \/ EnsureTeam \/ ListMembers \/ EnsureMember \/ EnsureSchedule
                    \/ EnsurePolicy \/ ReportSlack \/ EnsureBusiness
             PROVE  SmoothInv'
  OBVIOUS
<1>1. run \in Runs
  BY DEF IInv, TypeOK
<1>2. ASSUME StopRefused, Blocked PROVE SmoothInv'
  BY <1>2, Stops DEF StopRefused, history
<1>3. ASSUME NEW k \in Kinds, acct.named[k] \in {"twins", "layers"} PROVE Blocked
  BY <1>3 DEF Blocked
<1>4. CASE Preflight
  <2> DEFINE r == [run EXCEPT !.at = "team"]
  <2>1. r \in Runs /\ r.args = run.args /\ r.at # "idle" /\ r.report = run.report
    BY <1>1 DEF Runs, Ats
  <2>2. (StopRefused /\ ~acct.ready) \/ Proceed(r)
    BY <1>4 DEF Preflight
  <2>3. ~acct.ready => Blocked
    BY DEF Blocked
  <2> HIDE DEF r
  <2> QED
    BY <1>2, <2>1, <2>2, <2>3, GoesOn
<1>5. CASE EnsureTeam
  <2> DEFINE r == [run EXCEPT !.at = "listing_members", !.team = "found"]
             c == [r EXCEPT !.team = NewId]
  <2>1. /\ r \in Runs /\ r.args = run.args /\ r.at # "idle" /\ r.report = run.report
        /\ c \in Runs /\ c.args = run.args /\ c.at # "idle" /\ c.report = run.report
    BY <1>1 DEF Runs, Ats, HeldIds, NewId
  <2>2. \/ acct.named["team"] = "twins" /\ StopRefused
        \/ Proceed(r) \/ (\E q : Change(q, r)) \/ (\E q : Change(q, c))
    BY <1>5 DEF EnsureTeam
  <2> HIDE DEF r, c
  <2> QED
    BY <1>2, <1>3, <2>1, <2>2, GoesOn DEF Kinds
<1>6. CASE ListMembers
  <2> DEFINE r == [run EXCEPT !.at = "members", !.left = People,
                              !.roles = IF run.team = "found" THEN acct.member ELSE @]
  <2>1. r \in Runs /\ r.args = run.args /\ r.at # "idle" /\ r.report = run.report
    BY <1>1 DEF Runs, Ats, IInv, TypeOK, Account
  <2>2. Proceed(r)
    BY <1>6 DEF ListMembers
  <2> HIDE DEF r
  <2> QED
    BY <2>1, <2>2, GoesOn
<1>7. CASE EnsureMember
  <2>1. PICK p \in run.left :
          LET r == [run EXCEPT !.left = @ \ {p},
                               !.at = IF run.left = {p} THEN "schedule" ELSE @]
          IN  Proceed(r) \/ (\E q : Change(q, r))
    BY <1>7 DEF EnsureMember
  <2> DEFINE r == [run EXCEPT !.left = @ \ {p},
                              !.at = IF run.left = {p} THEN "schedule" ELSE @]
  <2>2. run.at = "members"
    BY <1>7 DEF EnsureMember, Step
  <2>3. r \in Runs /\ r.args = run.args /\ r.at # "idle" /\ r.report = run.report
    BY <1>1, <2>2 DEF Runs, Ats
  <2>4. Proceed(r) \/ (\E q : Change(q, r))
    BY <2>1
  <2> HIDE DEF r
  <2> QED
    BY <2>3, <2>4, GoesOn
<1>8. CASE EnsureSchedule
  <2> DEFINE r == [run EXCEPT !.at = "policy"]
             s == Say(r, "refused", "schedule", "-")
  <2>1. r \in Runs /\ r.args = run.args /\ r.at # "idle" /\ r.report = run.report
    BY <1>1 DEF Runs, Ats
  <2>2. s \in Runs /\ s.args = run.args /\ s.at # "idle"
    BY <2>1, SayType DEF Say, Verbs, WriteKinds, Kinds, Subjects, Runs
  <2>3. \/ acct.named["schedule"] = "twins" /\ StopRefused
        \/ acct.named["schedule"] = "layers" /\ Proceed(s)
        \/ Proceed(r) \/ (\E q : Change(q, r))
    BY <1>8 DEF EnsureSchedule
  <2> HIDE DEF r, s
  <2> QED
    BY <1>2, <1>3, <2>1, <2>2, <2>3, GoesOn DEF Kinds
<1>9. CASE EnsurePolicy
  <2> DEFINE r == [run EXCEPT !.at = "list"]
  <2>1. r \in Runs /\ r.args = run.args /\ r.at # "idle" /\ r.report = run.report
    BY <1>1 DEF Runs, Ats
  <2>2. \/ acct.named["policy"] = "twins" /\ StopRefused
        \/ Proceed(r) \/ (\E q : Change(q, r))
    BY <1>9 DEF EnsurePolicy
  <2> HIDE DEF r
  <2> QED
    BY <1>2, <1>3, <2>1, <2>2, GoesOn DEF Kinds
<1>10. CASE ReportSlack
  <2> DEFINE r == [run EXCEPT !.at = "business"]
  <2>1. r \in Runs /\ r.args = run.args /\ r.at # "idle" /\ r.report = run.report
    BY <1>1 DEF Runs, Ats
  <2>2. Proceed(r)
    BY <1>10 DEF ReportSlack
  <2> HIDE DEF r
  <2> QED
    BY <2>1, <2>2, GoesOn
<1>11. CASE EnsureBusiness
  <2> DEFINE r == [run EXCEPT !.at = "listing_supports", !.business = "found"]
             c == [r EXCEPT !.business = NewId]
  <2>1. /\ r \in Runs /\ r.args = run.args /\ r.at # "idle" /\ r.report = run.report
        /\ c \in Runs /\ c.args = run.args /\ c.at # "idle" /\ c.report = run.report
    BY <1>1 DEF Runs, Ats, HeldIds, NewId
  <2>2. \/ acct.named["business"] = "twins" /\ StopRefused
        \/ Proceed(r) \/ (\E q : Change(q, r)) \/ (\E q : Change(q, c))
    BY <1>11 DEF EnsureBusiness
  <2> HIDE DEF r, c
  <2> QED
    BY <1>2, <1>3, <2>1, <2>2, GoesOn DEF Kinds
<1> QED
  BY <1>4, <1>5, <1>6, <1>7, <1>8, <1>9, <1>10, <1>11

\* The steps for the services and for what follows from them.
LEMMA ServicesSmooth ==
  IInv /\ Known /\ SmoothInv
    /\ (ListServices \/ EnsureService \/ EnsureIntegration \/ EnsureGrouping
          \/ EnsureOrchestration \/ EnsureActive \/ ListSupports \/ EnsureSupport \/ EnsureRule)
  => SmoothInv'
<1> SUFFICES ASSUME IInv, Known, SmoothInv,
                    \/ ListServices \/ EnsureService \/ EnsureIntegration \/ EnsureGrouping
                    \/ EnsureOrchestration \/ EnsureActive \/ ListSupports \/ EnsureSupport
                    \/ EnsureRule
             PROVE  SmoothInv'
  OBVIOUS
<1>1. /\ run \in Runs /\ run.n \in 1..ServiceCount /\ req = NoReq /\ acct \in Account
      /\ Name \in Names
  BY NameType DEF IInv, TypeOK, Runs, Name, Step, ListServices, EnsureService, EnsureIntegration,
     EnsureGrouping, EnsureOrchestration, EnsureActive, ListSupports, EnsureSupport, EnsureRule
<1>2. smooth => quiet /\ KnownServices(acct, run) /\ Ahead(acct, run)
  BY DEF SmoothInv, Known, Sure
<1>3. ASSUME NEW s \in Runs, s.args = run.args
      PROVE  /\ NextService(s) \in Runs /\ NextService(s).args = run.args
             /\ NextService(s).at # "idle" /\ NextService(s).report = s.report
  <2>1. s.n < ServiceCount => s.n + 1 \in 1..ServiceCount
    BY ServiceCountType DEF Runs
  <2> QED
    BY <1>3, <2>1 DEF NextService, Runs, Ats
<1>4. ASSUME NEW at \in Ats \ {"idle"}
      PROVE  LET r == [run EXCEPT !.at = at] IN
               r \in Runs /\ r.args = run.args /\ r.at # "idle" /\ r.report = run.report
  BY <1>1 DEF Runs
<1>5. CASE ListServices
  <2> DEFINE r == [run EXCEPT !.at = "service", !.n = 1, !.every = acct.svc]
  <2>1. r \in Runs /\ r.args = run.args /\ r.at # "idle" /\ r.report = run.report
    <3>1. 1 \in 1..ServiceCount
      BY ServiceCountType
    <3> QED
      BY <1>1, <3>1 DEF Runs, Ats, Account
  <2>2. Proceed(r)
    BY <1>5 DEF ListServices
  <2> HIDE DEF r
  <2> QED
    BY <2>1, <2>2, GoesOn
<1>6. CASE EnsureService
  <2> DEFINE r == [run EXCEPT !.at = "integration"]
             made == [r EXCEPT !.new = TRUE,
                        !.sids[run.n] = IF run.args.apply THEN None ELSE Placeholder]
             found(i) == [r EXCEPT !.new = FALSE, !.sids[run.n] = i]
             skip == Say(run, "refused", "service", Name)
  <2>1. /\ made \in Runs /\ made.args = run.args /\ made.at # "idle" /\ made.report = run.report
    BY <1>1 DEF Runs, Ats
  <2>2. \A i \in SvcIds : /\ found(i) \in Runs /\ found(i).args = run.args
                         /\ found(i).at # "idle" /\ found(i).report = run.report
    BY <1>1 DEF Runs, Ats
  <2>3. skip \in Runs /\ skip.args = run.args
    BY <1>1, SayType DEF Say, Verbs, WriteKinds, Kinds, Subjects, Runs
  <2>4. SameName \subseteq SvcIds /\ (smooth => Called(acct.svc, Name) = SameName)
    BY <1>1, <1>2, <1>6 DEF Ahead, SameName, Name, ServicePhase, EnsureService, Step, Called
  <2>5. smooth /\ Cardinality(SameName) > 1 => Blocked
    BY <1>1, <2>4 DEF Blocked
  <2>6. smooth /\ Strays # {} => Blocked
    <3> SUFFICES ASSUME smooth, NEW i \in Strays PROVE Blocked
      OBVIOUS
    <3>1. i \in SvcIds /\ acct.svc[i].name = "other" /\ acct.svc[i].integ
      BY <1>2 DEF Strays, KnownServices
    <3> QED
      BY <3>1 DEF Blocked
  <2>7. \/ Cardinality(SameName) > 1 /\ StopRefused
        \/ Strays # {} /\ Proceed(NextService(skip))
        \/ \E q : Change(q, made)
        \/ \E i \in SvcIds : Proceed(found(i)) \/ (\E q : Change(q, found(i)))
    BY <1>6, <2>4 DEF EnsureService
  <2> HIDE DEF made, found, skip
  <2>8. CASE Cardinality(SameName) > 1 /\ StopRefused
    BY <2>5, <2>8, Stops DEF StopRefused, history
  <2>9. CASE Strays # {} /\ Proceed(NextService(skip))
    BY <1>3, <2>3, <2>6, <2>9, GoesOn
  <2>10. CASE \E q : Change(q, made)
    BY <2>1, <2>10, GoesOn
  <2>11. ASSUME NEW i \in SvcIds, Proceed(found(i)) \/ (\E q : Change(q, found(i)))
         PROVE  SmoothInv'
    BY <2>2, <2>11, GoesOn
  <2> QED
    BY <2>7, <2>8, <2>9, <2>10, <2>11
<1>7. CASE EnsureIntegration \/ EnsureOrchestration
  <2> DEFINE r(at) == [run EXCEPT !.at = at]
  <2>1. \E at \in {"grouping", "active"} : Proceed(r(at)) \/ (\E q : Change(q, r(at)))
    BY <1>7 DEF EnsureIntegration, EnsureOrchestration
  <2>2. \A at \in {"grouping", "active"} : /\ r(at) \in Runs /\ r(at).args = run.args
                                          /\ r(at).at # "idle" /\ r(at).report = run.report
    BY <1>4 DEF Ats
  <2> HIDE DEF r
  <2> QED
    BY <2>1, <2>2, GoesOn
<1>8. CASE EnsureGrouping
  <2> DEFINE r == [run EXCEPT !.at = "orchestration"]
             s == Say(r, "refused", "grouping", Name)
  <2>1. r \in Runs /\ r.args = run.args /\ r.at # "idle" /\ r.report = run.report
    BY <1>4 DEF Ats
  <2>2. s \in Runs /\ s.args = run.args /\ s.at # "idle"
    BY <1>1, <2>1, SayType DEF Say, Verbs, WriteKinds, Subjects, Runs
  <2>3. \/ Cardinality(Holding(acct, Sid)) > 1 /\ ~(run.new /\ ~run.args.apply) /\ Proceed(s)
        \/ Proceed(r) \/ (\E q : Change(q, r))
    BY <1>8 DEF EnsureGrouping, Holding
  <2>4. run.args.apply => Sid \in SvcIds
    BY <1>1, <1>8, SidHeld DEF EnsureGrouping, Step, ServiceAts
  <2>5. run.args.apply /\ Cardinality(Holding(acct, Sid)) > 1 => Blocked
    BY <2>4 DEF Blocked, Holding
  <2> HIDE DEF r, s
  <2> QED
    BY <2>1, <2>2, <2>3, <2>5, GoesOn
<1>9. CASE EnsureActive
  <2>1. Proceed(NextService(run)) \/ (\E q : Change(q, NextService(run)))
    BY <1>9 DEF EnsureActive
  <2> QED
    BY <1>1, <1>3, <2>1, GoesOn
<1>10. CASE ListSupports
  <2> DEFINE r == [run EXCEPT !.at = "supports", !.n = 1,
                         !.supporting = IF run.business = "found"
                                        THEN acct.supports ELSE {}]
  <2>1. r \in Runs /\ r.args = run.args /\ r.at # "idle" /\ r.report = run.report
    <3>1. 1 \in 1..ServiceCount
      BY ServiceCountType
    <3> QED
      BY <1>1, <3>1 DEF Runs, Ats, Account
  <2>2. Proceed(r)
    BY <1>10 DEF ListSupports
  <2> HIDE DEF r
  <2> QED
    BY <2>1, <2>2, GoesOn
<1>11. CASE EnsureSupport
  <2> DEFINE r == IF run.n < ServiceCount THEN [run EXCEPT !.n = @ + 1]
                  ELSE [run EXCEPT !.at = "rules", !.left = People]
  <2>1. run.n < ServiceCount => run.n + 1 \in 1..ServiceCount
    BY <1>1, ServiceCountType
  <2>2. r \in Runs /\ r.args = run.args /\ r.at # "idle" /\ r.report = run.report
    BY <1>1, <1>11, <2>1 DEF Runs, Ats, EnsureSupport, Step
  <2>3. Proceed(r) \/ (\E q : Change(q, r))
    BY <1>11 DEF EnsureSupport
  <2> HIDE DEF r
  <2> QED
    BY <2>2, <2>3, GoesOn
<1>12. CASE EnsureRule
  <2>1. PICK p \in run.left :
          LET r == [run EXCEPT !.left = @ \ {p},
                               !.at = IF run.left = {p} THEN "end" ELSE @]
          IN  Proceed(r) \/ (\E q : Change(q, r))
    BY <1>12 DEF EnsureRule
  <2> DEFINE r == [run EXCEPT !.left = @ \ {p},
                              !.at = IF run.left = {p} THEN "end" ELSE @]
  <2>2. run.at = "rules"
    BY <1>12 DEF EnsureRule, Step
  <2>3. r \in Runs /\ r.args = run.args /\ r.at # "idle" /\ r.report = run.report
    BY <1>1, <2>2 DEF Runs, Ats
  <2>4. Proceed(r) \/ (\E q : Change(q, r))
    BY <2>1
  <2> HIDE DEF r
  <2> QED
    BY <2>3, <2>4, GoesOn
<1> QED
  BY <1>5, <1>6, <1>7, <1>8, <1>9, <1>10, <1>11, <1>12

\* A run whose parents stand reads nothing that is gone.
LEMMA NeverReadsGone == IInv /\ Known /\ quiet /\ run.args.apply => ~ReadGone
<1> SUFFICES ASSUME IInv, Known, quiet, run.args.apply, ReadGone PROVE FALSE
  OBVIOUS
<1>1. req = NoReq
  BY DEF ReadGone, Step
<1>2. Standing(acct, run)
  BY <1>1 DEF Known, Sure, Promised
<1>3. CASE run.at \in {"listing_members", "listing_supports"}
  BY <1>2, <1>3 DEF ReadGone, Step, Standing, AfterTeam, AfterBusiness
<1>4. CASE run.at \in {"orchestration", "active"}
  BY <1>1, <1>4, SidThere DEF ReadGone, Step, ServiceAts, Reads
<1> QED
  BY <1>3, <1>4 DEF ReadGone, Step

\* The ends of a run.
LEMMA EndsSmooth == IInv /\ Known /\ SmoothInv /\ (End \/ ReadGone) => SmoothInv'
<1> SUFFICES ASSUME IInv, Known, SmoothInv, End \/ ReadGone PROVE SmoothInv'
  OBVIOUS
<1>1. CASE End
  <2> DEFINE code == IF Refusals(run.report) = {} THEN 0 ELSE 1
  <2>1. Exit(code, run) /\ acct' = acct /\ smooth' = smooth /\ quiet' = quiet
    BY <1>1 DEF End
  <2>2. smooth /\ run.args.apply /\ code \in {1, 2} => Blocked
    BY DEF SmoothInv
  <2> HIDE DEF code
  <2> QED
    BY <2>1, <2>2, Stops
<1>2. CASE ReadGone
  <2>1. Exit(1, run) /\ acct' = acct /\ smooth' = smooth /\ quiet' = quiet
    BY <1>2 DEF ReadGone, history
  <2>2. ~(smooth /\ run.args.apply)
    BY <1>2, NeverReadsGone DEF SmoothInv
  <2> QED
    BY <2>1, <2>2, Stops
<1> QED
  BY <1>1, <1>2

\* PagerDuty's answers: only a warned orchestration is said to be refused.
LEMMA AnswersSmooth == IInv /\ Known /\ SmoothInv /\ Answer => SmoothInv'
<1> SUFFICES ASSUME IInv, Known, SmoothInv, Answer, smooth' PROVE SmoothInv'
  BY DEF SmoothInv
<1>1. Done \/ Warned \/ PutBack \/ FallBack
  BY DEF Answer, RefuseGone, Refuse, LoseAnswer
<1>2. smooth /\ quiet /\ quiet' /\ run \in Runs
  BY <1>1 DEF SmoothInv, Done, Warned, PutBack, FallBack, history, IInv, TypeOK
<1>3. CASE Done
  <2>1. req \in Requests /\ req # NoReq
    BY <1>3, AnswerKeeps DEF Done
  <2>2. run'.at = run.at /\ run'.args = run.args /\ Refusals(run'.report) = Refusals(run.report)
    <3>1. /\ run'.at = run.at /\ run'.args = run.args
          /\ run'.report = run.report \cup {Line(req.verb, req)}
      BY <1>2, <1>3 DEF Done, Runs
    <3>2. Line(req.verb, req)[1] # "refused"
      BY <2>1 DEF Line, Requests
    <3> QED
      BY <3>1, <3>2 DEF Refusals
  <2>3. Blocked => Blocked'
    BY <1>2, <1>3, HandledBlocked DEF Done
  <2>4. exit' = exit
    BY <1>3 DEF Done
  <2> QED
    BY <1>2, <2>2, <2>3, <2>4 DEF SmoothInv
<1>4. CASE Warned
  <2>1. Blocked => Blocked'
    BY <1>2, <1>4, HandledBlocked DEF Warned
  <2> QED
    BY <1>2, <1>4, <2>1 DEF SmoothInv, Warned
<1>5. CASE PutBack
  <2>1. Blocked
    BY <1>2, <1>5, AnswerKeeps DEF PutBack, Fits, Blocked
  <2>2. Blocked'
    BY <1>2, <1>5, <2>1, HandledBlocked DEF PutBack
  <2> QED
    BY <1>2, <2>2 DEF SmoothInv
<1>6. CASE FallBack
  <2>1. run'.at = run.at /\ run'.args = run.args /\ run'.report = run.report
    BY <1>2, <1>6 DEF FallBack, Runs
  <2> QED
    BY <1>2, <1>6, <2>1 DEF SmoothInv, FallBack, Blocked
<1> QED
  BY <1>1, <1>3, <1>4, <1>5, <1>6

\* Every step keeps it.
LEMMA SmoothStep == IInv /\ Known /\ SmoothInv /\ [Next]_vars => SmoothInv'
<1> SUFFICES ASSUME IInv, Known, SmoothInv, [Next]_vars PROVE SmoothInv'
  OBVIOUS
<1>1. CASE Start
  <2>1. PICK args \in Modes : run' = [Idle(args) EXCEPT !.at = "preflight"]
    BY <1>1 DEF Start
  <2>2. run'.at = "preflight" /\ run'.report = {}
    BY <2>1 DEF Idle
  <2> QED
    BY <1>1, <2>2 DEF Start, SmoothInv, Refusals
<1>2. CASE Abort \/ EditByHand
  BY <1>2 DEF Abort, EditByHand, SmoothInv
<1>3. CASE UNCHANGED vars
  BY <1>3 DEF vars, history, SmoothInv, Blocked
<1>4. Ensure => SmoothInv'
  BY NamedSmooth, ServicesSmooth, EndsSmooth DEF Ensure
<1> QED
  BY <1>1, <1>2, <1>3, <1>4, AnswersSmooth DEF Next

\* An --apply that met no fault and nobody else stops, or exits 1, only for
\* what its docstring says it leaves to a person, whatever account it met.
THEOREM RefusesWithReason == Spec => []RefusesOnlyWhatBlocks
<1>1. Init => SmoothInv
  BY DEF Init, SmoothInv, Idle, Refusals
<1>2. SmoothInv => RefusesOnlyWhatBlocks
  BY DEF SmoothInv, RefusesOnlyWhatBlocks
<1> QED
  BY <1>1, <1>2, SmoothStep, KnowledgeHolds, Invariance, PTL DEF Spec

-----------------------------------------------------------------------------
(* What a run that refused nothing has reached *)

\* Alert grouping as Matches asks for it.
Grouped(a, i) == \E g \in GrpIds : Holding(a, i) = {g} /\ a.grp[g].type # "other"

\* A service the run has been through.
Finished(a, nm, i) ==
  /\ i \in SvcIds /\ Called(a.svc, nm) = {i}
  /\ a.svc[i].fields = "match" /\ a.svc[i].integ
  /\ a.svc[i].orch = "design" /\ a.svc[i].active /\ Grouped(a, i)

\* The service the run is at, as far as it is with it.
AsFar(a, r, i) ==
  /\ r.sids[r.n] \in {i, None} /\ Called(a.svc, Services[r.n]) = {i}
  /\ a.svc[i].fields = "match"
  /\ r.new \/ r.every[i].name # "gone"
  /\ r.at # "integration" => a.svc[i].integ
  /\ r.at \in {"orchestration", "active"} => Grouped(a, i)
  /\ r.at = "active" => a.svc[i].orch = "design"

\* What the run is past is as designed: the team, the schedule, the policy and
\* the business service; people; services and what is theirs.
ReachedNamed(a, r) ==
  /\ r.at \in AfterTeam => a.named["team"] = "match"
  /\ r.at \in AfterSchedule => a.named["schedule"] = "match"
  /\ r.at \in AfterPolicy => a.named["policy"] = "match"
  /\ r.at \in AfterBusiness => a.named["business"] = "match"

ReachedPeople(a, r) ==
  /\ r.at \in {"preflight", "team", "listing_members"} => \A p \in People : r.roles[p] = "absent"
  /\ r.at = "members" =>
       \A p \in People : p \notin r.left \/ r.roles[p] = "manager" => a.member[p] = "manager"
  /\ r.at \in {"schedule"} \cup AfterSchedule => \A p \in People : a.member[p] = "manager"
  /\ r.at = "rules" /\ r.args.addRules => \A p \in People \ r.left : a.rule[p] # "missing"
  /\ r.at = "end" /\ r.args.addRules => \A p \in People : a.rule[p] # "missing"

ReachedServices(a, r) ==
  /\ \A m \in 1..ServiceCount :
       (r.at \in ServicePhase /\ m < r.n) \/ r.at \in AfterServices
         => Finished(a, Services[m], r.sids[m])
  /\ r.at \in ServiceAts => \E i \in SvcIds : AsFar(a, r, i)
  /\ r.at = "supports" => r.supporting \subseteq a.supports
  /\ \A m \in 1..ServiceCount :
       (r.at = "supports" /\ m < r.n) \/ r.at \in {"rules", "end"} => r.sids[m] \in a.supports

Reached(a, r) == ReachedNamed(a, r) /\ ReachedPeople(a, r) /\ ReachedServices(a, r)

\* A run that is alone with the account and refused nothing has reached, with
\* the write under way, all that it is past. A put-back is a refusal to come.
ReachInv ==
  /\ quiet /\ run.args.apply /\ run.at # "idle" /\ Refusals(run.report) = {}
  /\ req # NoReq => req.kind # "putback" /\ HasRoom(acct, req)
  => Reached(Promised(acct, req), run)

\* A setting that holds a service goes on holding it, in a type as designed.
LEMMA HandledGrouped ==
  ASSUME NEW a \in Account, NEW r, NEW q \in Requests, Fits(a, r, q), HasRoom(a, q),
         NEW i \in SvcIds, Grouped(a, i)
  PROVE  Grouped(Handle(a, q), i)
<1>1. PICK g \in GrpIds : Holding(a, i) = {g} /\ a.grp[g].type # "other"
  BY DEF Grouped
<1>2. Handle(a, q).grp = SettingsAfter(a, q)
  BY HandleParts
<1>3. CASE q.kind # "grouping"
  BY <1>1, <1>2, <1>3 DEF SettingsAfter, Grouped, Holding
<1>4. CASE q.kind = "grouping" /\ q.verb = "create"
  <2>1. NextGrp(a) \in GrpIds /\ a.grp[NextGrp(a)].members = {}
    BY <1>4 DEF HasRoom, NextGrp, UnusedGrp
  <2>2. q.members = {q.on} /\ q.on # i
    BY <1>1, <1>4 DEF Fits, Holding
  <2>3. \A h \in GrpIds : SettingsAfter(a, q)[h] = IF h = NextGrp(a)
                          THEN [type |-> q.type, members |-> q.members] ELSE a.grp[h]
    BY <1>4 DEF SettingsAfter
  <2>4. \A h \in GrpIds : i \in SettingsAfter(a, q)[h].members <=> i \in a.grp[h].members
    BY <2>1, <2>2, <2>3
  <2>5. g # NextGrp(a)
    BY <1>1, <2>1 DEF Holding
  <2>6. Holding(Handle(a, q), i) = {g}
    BY <1>1, <1>2, <2>4 DEF Holding
  <2> QED
    BY <1>1, <1>2, <2>3, <2>5, <2>6 DEF Grouped
<1>5. CASE q.kind = "grouping" /\ q.verb = "update"
  <2>1. q.members = a.grp[q.setting].members /\ q.type # "other"
    BY <1>5 DEF Fits, Requests
  <2>2. \A h \in GrpIds : SettingsAfter(a, q)[h] = IF h = q.setting
                          THEN [type |-> q.type, members |-> q.members] ELSE a.grp[h]
    BY <1>5 DEF SettingsAfter
  <2>3. \A h \in GrpIds : SettingsAfter(a, q)[h].members = a.grp[h].members
    BY <2>1, <2>2
  <2>4. Holding(Handle(a, q), i) = {g} /\ Handle(a, q).grp[g].type # "other"
    BY <1>1, <1>2, <2>1, <2>2, <2>3 DEF Holding
  <2> QED
    BY <2>4 DEF Grouped
<1> QED
  BY <1>3, <1>4, <1>5 DEF Requests

\* A setting that is written holds the service it is written for.
LEMMA MadeGrouped ==
  ASSUME NEW a \in Account, NEW r, NEW q \in Requests, Fits(a, r, q), HasRoom(a, q),
         q.kind = "grouping"
  PROVE  Grouped(Handle(a, q), q.on)
<1>1. Handle(a, q).grp = SettingsAfter(a, q) /\ q.type # "other"
  BY HandleParts DEF Requests
<1>2. CASE q.verb = "create"
  <2>1. NextGrp(a) \in GrpIds
    BY <1>2 DEF HasRoom, NextGrp, UnusedGrp
  <2>2. Holding(a, q.on) = {} /\ q.members = {q.on}
    BY <1>2 DEF Fits
  <2>3. \A h \in GrpIds : SettingsAfter(a, q)[h] = IF h = NextGrp(a)
                          THEN [type |-> q.type, members |-> q.members] ELSE a.grp[h]
    BY <1>2 DEF SettingsAfter
  <2>4. \A h \in GrpIds : q.on \in SettingsAfter(a, q)[h].members <=> h = NextGrp(a)
    BY <2>2, <2>3 DEF Holding
  <2>5. Holding(Handle(a, q), q.on) = {NextGrp(a)}
    BY <1>1, <2>1, <2>4 DEF Holding
  <2>6. Handle(a, q).grp[NextGrp(a)].type = q.type
    BY <1>1, <2>1, <2>3
  <2> QED
    BY <1>1, <2>1, <2>5, <2>6 DEF Grouped
<1>3. CASE q.verb = "update"
  <2>1. Holding(a, q.on) = {q.setting} /\ q.members = a.grp[q.setting].members
    BY <1>3 DEF Fits
  <2>2. \A h \in GrpIds : SettingsAfter(a, q)[h] = IF h = q.setting
                          THEN [type |-> q.type, members |-> q.members] ELSE a.grp[h]
    BY <1>3 DEF SettingsAfter
  <2>3. \A h \in GrpIds : SettingsAfter(a, q)[h].members = a.grp[h].members
    BY <2>1, <2>2
  <2>4. q.setting \in GrpIds
    BY <2>1 DEF Holding
  <2>5. Holding(Handle(a, q), q.on) = {q.setting} /\ Handle(a, q).grp[q.setting].type = q.type
    BY <1>1, <2>1, <2>2, <2>3, <2>4 DEF Holding
  <2> QED
    BY <1>1, <2>4, <2>5 DEF Grouped
<1> QED
  BY <1>2, <1>3 DEF Requests

\* What a write asks for by name is as designed afterwards.
LEMMA MadeMatch ==
  ASSUME NEW a \in Account, NEW r, NEW q, Fits(a, r, q), q.kind \in Kinds
  PROVE  Handle(a, q).named[q.kind] = "match"
<1>1. a.named[q.kind] = IF q.verb = "create" THEN "absent" ELSE "drift"
  BY DEF Fits
<1>2. NamedAfter(a, q)[q.kind] = "match"
  BY <1>1 DEF NamedAfter, Exists
<1> QED
  BY <1>2, HandleParts

\* What was reached stays reached, whatever else PagerDuty is asked.
LEMMA HandledReached ==
  ASSUME NEW a \in Account, NEW r, NEW q \in Requests, q # NoReq, SoundRequest(r, q),
         Fits(a, r, q), HasRoom(a, q), q.kind # "putback", NEW s \in Runs, Reached(a, s)
  PROVE  Reached(Handle(a, q), s)
<1> DEFINE b == Handle(a, q)
<1>1. ASSUME NEW k \in Kinds, a.named[k] = "match"
      PROVE  b.named[k] = "match"
  <2>1. k # q.kind
    BY <1>1 DEF Fits
  <2>2. NamedAfter(a, q)[k] = a.named[k]
    BY <2>1 DEF NamedAfter
  <2> QED
    BY <1>1, <2>2, HandleParts
<1>2. ASSUME NEW p \in People
      PROVE  /\ a.member[p] = "manager" => b.member[p] = "manager"
             /\ a.rule[p] # "missing" => b.rule[p] # "missing"
  <2>1. b.member = [o \in People |-> IF q.kind = "member" /\ o = q.who THEN "manager"
                                     ELSE a.member[o]]
    BY DEF b, Handle, Account
  <2>2. b.rule = [o \in People |-> IF q.kind = "rule" /\ o = q.who THEN "designed"
                                   ELSE a.rule[o]]
    BY DEF b, Handle, Account
  <2> HIDE DEF b
  <2>3. a.member[p] = "manager" => b.member[p] = "manager"
    BY <2>1
  <2>4. a.rule[p] # "missing" => b.rule[p] # "missing"
    BY <2>2
  <2> QED
    BY <2>3, <2>4
<1>3. a.supports \subseteq b.supports
  BY HandleParts
<1>4. ASSUME NEW nm \in Names, NEW i \in SvcIds, Called(a.svc, nm) = {i}
      PROVE  /\ Called(b.svc, nm) = {i}
             /\ a.svc[i].fields = "match" => b.svc[i].fields = "match"
             /\ a.svc[i].integ => b.svc[i].integ
             /\ a.svc[i].active => b.svc[i].active
             /\ a.svc[i].orch = "design" => b.svc[i].orch = "design"
             /\ Grouped(a, i) => Grouped(b, i)
  <2>1. ~(Creates(q) /\ nm = q.who)
    BY <1>4 DEF Fits, Creates
  <2>2. Called(b.svc, nm) = {i}
    BY <1>4, <2>1, HandledCalled
  <2>3. a.svc[i].name # "gone"
    BY <1>4, NamesAssumption DEF Called
  <2> QED
    BY <2>2, <2>3, HandledService, HandledGrouped
<1>5. \A m \in 1..ServiceCount : Services[m] \in Names
  BY NameType
<1> HIDE DEF b
<1>6. ReachedNamed(b, s)
  BY <1>1 DEF Reached, ReachedNamed, Kinds
<1>7. ReachedPeople(b, s)
  BY <1>2 DEF Reached, ReachedPeople
<1>8. \A m \in 1..ServiceCount : Finished(a, Services[m], s.sids[m]) => Finished(b, Services[m], s.sids[m])
  BY <1>4, <1>5 DEF Finished
<1>9. \A i \in SvcIds : AsFar(a, s, i) => AsFar(b, s, i)
  <2>1. s.n \in 1..ServiceCount
    BY DEF Runs
  <2> QED
    BY <1>4, <1>5, <2>1 DEF AsFar
<1>10. ReachedServices(b, s)
  BY <1>3, <1>8, <1>9 DEF Reached, ReachedServices
<1> QED
  BY <1>6, <1>7, <1>10 DEF Reached, b

\* A line more in the report, or a type of grouping learnt, changes nothing
\* that is reached.
LEMMA SameReached ==
  ASSUME NEW a, NEW r, NEW s, Reached(a, r), s.at = r.at, s.args = r.args, s.n = r.n,
         s.left = r.left, s.roles = r.roles, s.sids = r.sids, s.every = r.every,
         s.new = r.new, s.supporting = r.supporting
  PROVE  Reached(a, s)
<1>1. \A i \in SvcIds : AsFar(a, r, i) => AsFar(a, s, i)
  BY DEF AsFar
<1>2. ReachedServices(a, s)
  BY <1>1 DEF Reached, ReachedServices
<1> QED
  BY <1>2 DEF Reached, ReachedNamed, ReachedPeople

\* Going on as the account is.
LEMMA ReachProceed ==
  ASSUME ReachInv, req = NoReq, run.at # "idle", NEW r, Proceed(r),
         r.args = run.args, r.report = run.report,
         quiet /\ run.args.apply /\ Reached(acct, run) => Reached(acct, r)
  PROVE  ReachInv'
<1>1. acct' = acct /\ quiet' = quiet /\ run' = r /\ req' = NoReq
  BY DEF Proceed, history
<1> QED
  BY <1>1 DEF ReachInv, Promised

\* Going on with a write.
LEMMA ReachChange ==
  ASSUME IInv, IInv', Known', ReachInv, req = NoReq, run.at # "idle", NEW r \in Runs, NEW q,
         Change(q, r),
         r.args = run.args, r.report = run.report, q.kind \notin {"none", "putback"},
         quiet /\ run.args.apply /\ Reached(acct, run) /\ q \in Requests /\ Fits(acct, r, q)
           /\ SoundRequest(r, q) /\ HasRoom(acct, q) /\ Reached(Handle(acct, q), run)
           => Reached(Handle(acct, q), r)
  PROVE  ReachInv'
<1> SUFFICES ASSUME quiet', run'.args.apply, Refusals(run'.report) = {},
                    req' # NoReq => HasRoom(acct', req')
             PROVE  Reached(Promised(acct', req'), run')
  BY DEF ReachInv
<1>1. acct' = acct /\ quiet' = quiet /\ acct \in Account /\ run \in Runs
  BY DEF Change, history, IInv, TypeOK
<1>2. run.args.apply
  <2>1. ~run.args.apply => run' = [r EXCEPT !.report = @ \cup {Line(q.verb, q)}]
    BY DEF Change
  <2>2. ~run.args.apply => run'.args = r.args
    BY <2>1 DEF Runs
  <2> QED
    BY <2>2
<1>3. run' = r /\ req' = q /\ q # NoReq
  BY <1>2 DEF Change, NoReq
<1>4. q \in Requests /\ SoundRequest(r, q) /\ Fits(acct, r, q) /\ HasRoom(acct, q)
  BY <1>1, <1>3 DEF IInv, TypeOK, Control, Known, Sure
<1>5. Reached(acct, run)
  BY <1>1, <1>2, <1>3 DEF ReachInv, Promised
<1>6. Reached(Handle(acct, q), run)
  BY <1>1, <1>3, <1>4, <1>5, HandledReached
<1> QED
  BY <1>1, <1>2, <1>3, <1>4, <1>5, <1>6 DEF Promised

\* A run that refuses something or stops promises nothing.
LEMMA ReachRefused ==
  /\ \A r : Refusals(r.report) # {} /\ Proceed(r) => ReachInv'
  /\ \A r \in Runs : \A code : Exit(code, r) => ReachInv'
<1>1. ASSUME NEW r, Refusals(r.report) # {}, Proceed(r)
      PROVE  ReachInv'
  BY <1>1 DEF Proceed, ReachInv
<1>2. ASSUME NEW r \in Runs, NEW code, Exit(code, r)
      PROVE  ReachInv'
  <2>1. run'.at = "idle"
    BY <1>2 DEF Exit, Runs
  <2> QED
    BY <2>1 DEF ReachInv
<1> QED
  BY <1>1, <1>2

\* What is refused is in the report.
LEMMA SaidRefused ==
  ASSUME NEW r \in Runs, NEW kind, NEW who
  PROVE  Refusals(Say(r, "refused", kind, who).report) # {}
<1>1. <<"refused", kind, who>> \in Say(r, "refused", kind, who).report
  BY DEF Say, Runs
<1>2. <<"refused", kind, who>>[1] = "refused"
  OBVIOUS
<1> QED
  BY <1>1, <1>2 DEF Refusals

-----------------------------------------------------------------------------
(* What each step of the run adds *)

\* main() before the plan, and the steps for the team.
LEMMA TeamReach ==
  ASSUME IInv, IInv', Known', ReachInv, Preflight \/ EnsureTeam \/ ListMembers \/ EnsureMember
  PROVE  ReachInv'
<1>1. run \in Runs /\ req = NoReq /\ acct \in Account
  BY DEF IInv, TypeOK, Preflight, EnsureTeam, ListMembers, EnsureMember, Step
<1>2. ASSUME StopRefused PROVE ReachInv'
  BY <1>1, <1>2, ReachRefused DEF StopRefused
<1> USE DEF AfterTeam, AfterSchedule, AfterPolicy, AfterServices, AfterBusiness, ServicePhase,
            ServiceAts
<1>3. ASSUME NEW a, NEW r, r.at \in {"team", "listing_members", "members", "schedule"}
      PROVE  ReachedServices(a, r)
  BY <1>3 DEF ReachedServices
<1>4. CASE Preflight
  <2> DEFINE r == [run EXCEPT !.at = "team"]
  <2>1. r.at = "team" /\ r.roles = run.roles /\ r.args = run.args /\ r.report = run.report
    BY <1>1 DEF Runs
  <2>2. (StopRefused \/ Proceed(r)) /\ run.at = "preflight"
    BY <1>4 DEF Preflight, Step
  <2> HIDE DEF r
  <2>3. Reached(acct, run) => Reached(acct, r)
    BY <1>3, <2>1, <2>2 DEF Reached, ReachedNamed, ReachedPeople
  <2> QED
    BY <1>1, <1>2, <2>1, <2>2, <2>3, ReachProceed
<1>5. CASE EnsureTeam
  <2> DEFINE q == [Blank EXCEPT !.kind = "team"]
             u == [q EXCEPT !.verb = "update"]
             r == [run EXCEPT !.at = "listing_members", !.team = "found"]
             c == [r EXCEPT !.team = NewId]
  <2>1. /\ r.at = "listing_members" /\ r.roles = run.roles /\ r.args = run.args /\ r.report = run.report
        /\ c.at = "listing_members" /\ c.roles = run.roles /\ c.args = run.args /\ c.report = run.report
        /\ r \in Runs /\ c \in Runs /\ run.at = "team"
    BY <1>1, <1>5 DEF Runs, Ats, HeldIds, NewId, EnsureTeam, Step
  <2>2. q.kind = "team" /\ u.kind = "team"
    BY DEF Blank
  <2>3. \/ StopRefused \/ Change(q, c) \/ Change(u, r)
        \/ acct.named["team"] = "match" /\ Proceed(r)
    BY <1>5 DEF EnsureTeam
  <2> HIDE DEF q, u, r, c
  <2>4. acct.named["team"] = "match" /\ Reached(acct, run) => Reached(acct, r)
    BY <1>3, <2>1 DEF Reached, ReachedNamed, ReachedPeople
  <2>5. ASSUME NEW x, x.kind = "team", NEW s, Fits(acct, s, x), s = c \/ s = r,
               Reached(Handle(acct, x), run)
        PROVE  Reached(Handle(acct, x), s)
    <3>1. Handle(acct, x).named["team"] = "match"
      BY <1>1, <2>5, MadeMatch DEF Kinds
    <3> QED
      BY <1>3, <2>1, <2>5, <3>1 DEF Reached, ReachedNamed, ReachedPeople
  <2> QED
    BY <1>1, <1>2, <2>1, <2>2, <2>3, <2>4, <2>5, ReachProceed, ReachChange
<1>6. CASE ListMembers
  <2> DEFINE r == [run EXCEPT !.at = "members", !.left = People,
                              !.roles = IF run.team = "found" THEN acct.member ELSE @]
  <2>1. /\ r.at = "members" /\ r.left = People /\ r.args = run.args /\ r.report = run.report
        /\ r.roles = acct.member \/ r.roles = run.roles
    BY <1>1 DEF Runs
  <2>2. run.at = "listing_members" /\ Proceed(r)
    BY <1>6 DEF ListMembers, Step
  <2> HIDE DEF r
  <2>3. Reached(acct, run) => Reached(acct, r)
    <3> SUFFICES ASSUME Reached(acct, run) PROVE Reached(acct, r)
      OBVIOUS
    <3>1. ReachedNamed(acct, r)
      BY <2>1, <2>2 DEF Reached, ReachedNamed
    <3>2. \A p \in People : r.roles[p] = "manager" => acct.member[p] = "manager"
      BY <2>1, <2>2 DEF Reached, ReachedPeople
    <3>3. ReachedPeople(acct, r)
      BY <2>1, <3>2 DEF ReachedPeople
    <3> QED
      BY <1>3, <2>1, <3>1, <3>3 DEF Reached
  <2> QED
    BY <1>1, <2>1, <2>2, <2>3, ReachProceed
<1>7. CASE EnsureMember
  <2>1. PICK p \in run.left :
        LET r == [run EXCEPT !.left = @ \ {p},
                             !.at = IF run.left = {p} THEN "schedule" ELSE @]
            q == [Blank EXCEPT !.kind = "member", !.who = p,
                    !.verb = IF run.roles[p] = "absent" THEN "create" ELSE "update"]
        IN  IF run.roles[p] = "manager" THEN Proceed(r) ELSE Change(q, r)
    BY <1>7 DEF EnsureMember
  <2> DEFINE r == [run EXCEPT !.left = @ \ {p},
                              !.at = IF run.left = {p} THEN "schedule" ELSE @]
             q == [Blank EXCEPT !.kind = "member", !.who = p,
                     !.verb = IF run.roles[p] = "absent" THEN "create" ELSE "update"]
  <2>2. run.at = "members" /\ p \in People
    BY <1>1, <1>7 DEF EnsureMember, Step, Runs
  <2>3. /\ r.at = IF run.left = {p} THEN "schedule" ELSE "members"
        /\ r.left = run.left \ {p} /\ r.roles = run.roles
        /\ r.args = run.args /\ r.report = run.report /\ r \in Runs
    BY <1>1, <2>2 DEF Runs, Ats
  <2>4. q.kind = "member" /\ q.who = p
    BY DEF Blank
  <2>5. IF run.roles[p] = "manager" THEN Proceed(r) ELSE Change(q, r)
    BY <2>1
  <2> HIDE DEF q, r
  <2>6. ASSUME NEW a, Reached(a, run), a.member[p] = "manager"
        PROVE  Reached(a, r)
    <3>1. ReachedNamed(a, r)
      BY <2>2, <2>3, <2>6 DEF Reached, ReachedNamed
    <3>2. \A o \in People : o \notin run.left \/ run.roles[o] = "manager" => a.member[o] = "manager"
      BY <2>2, <2>6 DEF Reached, ReachedPeople
    <3>3. \A o \in People : o \notin r.left \/ r.roles[o] = "manager" => a.member[o] = "manager"
      BY <2>3, <2>6, <3>2
    <3>4. r.at = "schedule" => \A o \in People : a.member[o] = "manager"
      BY <2>3, <3>3
    <3>5. ReachedPeople(a, r)
      BY <2>3, <3>3, <3>4 DEF ReachedPeople
    <3> QED
      BY <1>3, <2>3, <3>1, <3>5 DEF Reached
  <2>7. run.roles[p] = "manager" /\ Reached(acct, run) => acct.member[p] = "manager"
    BY <2>2 DEF Reached, ReachedPeople
  <2>8. Handle(acct, q).member[p] = "manager"
    BY <1>1, <2>2, <2>4, HandleParts
  <2> QED
    BY <1>1, <2>2, <2>3, <2>4, <2>5, <2>6, <2>7, <2>8, ReachProceed, ReachChange
<1> QED
  BY <1>4, <1>5, <1>6, <1>7

\* The steps for the schedule and the escalation policy.
LEMMA ParentsReach ==
  ASSUME IInv, IInv', Known', ReachInv, EnsureSchedule \/ EnsurePolicy
  PROVE  ReachInv'
<1>1. run \in Runs /\ req = NoReq /\ acct \in Account
  BY DEF IInv, TypeOK, EnsureSchedule, EnsurePolicy, Step
<1>2. ASSUME StopRefused PROVE ReachInv'
  BY <1>1, <1>2, ReachRefused DEF StopRefused
<1> USE DEF AfterTeam, AfterSchedule, AfterPolicy, AfterServices, AfterBusiness, ServicePhase,
            ServiceAts
<1>3. CASE EnsureSchedule
  <2> DEFINE q == [Blank EXCEPT !.kind = "schedule"]
             u == [q EXCEPT !.verb = "update"]
             r == [run EXCEPT !.at = "policy"]
             s == Say(r, "refused", "schedule", "-")
  <2>1. /\ r.at = "policy" /\ r.args = run.args /\ r.report = run.report
        /\ r \in Runs /\ run.at = "schedule"
    BY <1>1, <1>3 DEF Runs, Ats, EnsureSchedule, Step
  <2>2. q.kind = "schedule" /\ u.kind = "schedule"
    BY DEF Blank
  <2>3. \/ StopRefused \/ Change(q, r) \/ Change(u, r) \/ Proceed(s)
        \/ acct.named["schedule"] = "match" /\ Proceed(r)
    BY <1>3 DEF EnsureSchedule
  <2>4. Refusals(s.report) # {}
    BY <2>1, SaidRefused
  <2> HIDE DEF q, u, r, s
  <2>5. ASSUME NEW a, Reached(a, run), a.named["schedule"] = "match"
        PROVE  Reached(a, r)
    BY <2>1, <2>5 DEF Reached, ReachedNamed, ReachedPeople, ReachedServices
  <2>6. ASSUME NEW x, x.kind = "schedule", Fits(acct, r, x)
        PROVE  Handle(acct, x).named["schedule"] = "match"
    BY <1>1, <2>6, MadeMatch DEF Kinds
  <2> QED
    BY <1>1, <1>2, <2>1, <2>2, <2>3, <2>4, <2>5, <2>6, ReachProceed, ReachChange, ReachRefused
<1>4. CASE EnsurePolicy
  <2> DEFINE q == [Blank EXCEPT !.kind = "policy"]
             u == [q EXCEPT !.verb = "update"]
             r == [run EXCEPT !.at = "list"]
  <2>1. /\ r.at = "list" /\ r.args = run.args /\ r.report = run.report
        /\ r \in Runs /\ run.at = "policy"
    BY <1>1, <1>4 DEF Runs, Ats, EnsurePolicy, Step
  <2>2. q.kind = "policy" /\ u.kind = "policy"
    BY DEF Blank
  <2>3. \/ StopRefused \/ Change(q, r) \/ Change(u, r)
        \/ acct.named["policy"] = "match" /\ Proceed(r)
    BY <1>4 DEF EnsurePolicy
  <2> HIDE DEF q, u, r
  <2>4. ASSUME NEW a, Reached(a, run), a.named["policy"] = "match"
        PROVE  Reached(a, r)
    BY <2>1, <2>4 DEF Reached, ReachedNamed, ReachedPeople, ReachedServices
  <2>5. ASSUME NEW x, x.kind = "policy", Fits(acct, r, x)
        PROVE  Handle(acct, x).named["policy"] = "match"
    BY <1>1, <2>5, MadeMatch DEF Kinds
  <2> QED
    BY <1>1, <1>2, <2>1, <2>2, <2>3, <2>4, <2>5, ReachProceed, ReachChange
<1> QED
  BY <1>3, <1>4

\* The listing reaches nothing by itself.
LEMMA ListingReach == ASSUME IInv, ReachInv, ListServices PROVE ReachInv'
<1> DEFINE r == [run EXCEPT !.at = "service", !.n = 1, !.every = acct.svc]
<1>1. run \in Runs /\ req = NoReq /\ run.at = "list" /\ Proceed(r)
  BY DEF IInv, TypeOK, ListServices, Step
<1>2. r.at = "service" /\ r.n = 1 /\ r.args = run.args /\ r.report = run.report
  BY <1>1 DEF Runs
<1> HIDE DEF r
<1> USE DEF AfterTeam, AfterSchedule, AfterPolicy, AfterServices, AfterBusiness, ServicePhase,
            ServiceAts
<1>3. \A m \in 1..ServiceCount : ~(m < r.n)
  BY <1>2, ServiceCountType
<1>4. ASSUME Reached(acct, run) PROVE Reached(acct, r)
  <2>1. ReachedServices(acct, r)
    BY <1>2, <1>3 DEF ReachedServices
  <2> QED
    BY <1>1, <1>2, <1>4, <2>1 DEF Reached, ReachedNamed, ReachedPeople
<1> QED
  BY <1>1, <1>2, <1>4, ReachProceed

\* At a service it is enough that the run gets further with that one.
LEMMA FurtherReached ==
  ASSUME NEW a, NEW s \in Runs, Reached(a, s), s.at \in ServicePhase,
         NEW r \in Runs, r.at \in ServiceAts, r.n = s.n,
         \A m \in 1..ServiceCount : m < s.n => r.sids[m] = s.sids[m],
         NEW i \in SvcIds, AsFar(a, r, i)
  PROVE  Reached(a, r)
<1> USE DEF AfterTeam, AfterSchedule, AfterPolicy, AfterServices, AfterBusiness, ServicePhase,
            ServiceAts
<1>1. ReachedNamed(a, r) /\ ReachedPeople(a, r)
  BY DEF Reached, ReachedNamed, ReachedPeople
<1>2. \A m \in 1..ServiceCount : m < r.n => Finished(a, Services[m], r.sids[m])
  BY DEF Reached, ReachedServices
<1>3. ReachedServices(a, r)
  BY <1>2 DEF ReachedServices
<1> QED
  BY <1>1, <1>3 DEF Reached

\* Finding or making a service.
LEMMA ServiceReach ==
  ASSUME IInv, IInv', Known, Known', ReachInv, EnsureService
  PROVE  ReachInv'
<1> DEFINE q == [Blank EXCEPT !.kind = "service", !.who = Name]
           r == [run EXCEPT !.at = "integration"]
           made == [r EXCEPT !.new = TRUE,
                      !.sids[run.n] = IF run.args.apply THEN None ELSE Placeholder]
           found(i) == [r EXCEPT !.new = FALSE, !.sids[run.n] = i]
           u(i) == [q EXCEPT !.verb = "update", !.on = i]
           skip == Say(run, "refused", "service", Name)
<1>1. /\ run \in Runs /\ req = NoReq /\ acct \in Account /\ run.at = "service"
      /\ run.n \in 1..ServiceCount /\ Name \in Names
  BY NameType DEF IInv, TypeOK, EnsureService, Step, Runs, Name
<1>2. quiet => KnownServices(acct, run) /\ Called(acct.svc, Name) = SameName
  BY <1>1 DEF Known, Sure, Ahead, SameName, Name, ServicePhase
<1>3. run.sids \in [1..ServiceCount -> SvcIds \cup {Placeholder, None}]
  BY <1>1 DEF Runs
<1>4. CASE StopRefused
  BY <1>1, <1>4, ReachRefused DEF StopRefused
<1>5. CASE Proceed(NextService(skip))
  <2>1. Refusals(skip.report) # {} /\ skip \in Runs
    BY <1>1, SaidRefused, SayType DEF Say, Verbs, WriteKinds, Kinds, Subjects
  <2> HIDE DEF skip
  <2>2. NextService(skip).report = skip.report
    BY <2>1 DEF NextService, Runs
  <2> QED
    BY <1>5, <2>1, <2>2, ReachRefused
<1>6. CASE Change(q, made)
  <2>1. /\ made \in Runs /\ made.at = "integration" /\ made.n = run.n /\ made.new
        /\ made.args = run.args /\ made.report = run.report
        /\ made.sids = [run.sids EXCEPT ![run.n] = IF run.args.apply THEN None ELSE Placeholder]
    BY <1>1 DEF Runs, Ats
  <2>2. q.kind = "service" /\ q.verb = "create" /\ q.who = Name
    BY DEF Blank
  <2> HIDE DEF q, made
  <2>3. /\ made.sids[run.n] = IF run.args.apply THEN None ELSE Placeholder
        /\ \A m \in 1..ServiceCount : m < run.n => made.sids[m] = run.sids[m]
    BY <1>1, <1>3, <2>1, ServiceCountType
  <2>4. ASSUME run.args.apply, q \in Requests, Fits(acct, made, q), SoundRequest(made, q),
               HasRoom(acct, q), Reached(Handle(acct, q), run)
        PROVE  Reached(Handle(acct, q), made)
    <3> DEFINE b == Handle(acct, q)
               i == NextSvc(acct)
    <3>1. q # NoReq
      BY <2>2 DEF NoReq
    <3>2. /\ Called(b.svc, Name) = {i} /\ b.svc[i] = NewService(Name) /\ i \in SvcIds
      BY <1>1, <2>2, <2>4, <3>1, HandledCalled DEF Creates
    <3>3. b.svc[i].fields = "match"
      BY <3>2 DEF NewService
    <3> HIDE DEF b, i
    <3>4. AsFar(b, made, i)
      BY <2>1, <2>3, <2>4, <3>2, <3>3 DEF AsFar, Name
    <3> QED
      BY <1>1, <2>1, <2>3, <2>4, <3>2, <3>4, FurtherReached DEF b, ServicePhase, ServiceAts
  <2> QED
    BY <1>1, <1>6, <2>1, <2>2, <2>4, ReachChange
<1>7. ASSUME NEW i \in SvcIds, SameName = {i},
             IF run.every[i].fields = "match" THEN Proceed(found(i))
             ELSE Change(u(i), found(i))
      PROVE  ReachInv'
  <2>1. /\ found(i) \in Runs /\ found(i).at = "integration" /\ found(i).n = run.n
        /\ found(i).args = run.args /\ found(i).report = run.report /\ found(i).every = run.every
        /\ found(i).sids = [run.sids EXCEPT ![run.n] = i]
    BY <1>1 DEF Runs, Ats
  <2>2. u(i).kind = "service" /\ u(i).verb = "update" /\ u(i).who = Name /\ u(i).on = i
    BY DEF Blank
  <2> HIDE DEF q, r, found, u
  <2>3. /\ found(i).sids[run.n] = i
        /\ \A m \in 1..ServiceCount : m < run.n => found(i).sids[m] = run.sids[m]
    BY <1>1, <1>3, <2>1, ServiceCountType
  <2>4. run.every[i].name # "gone"
    BY <1>1, <1>7, NamesAssumption DEF SameName, Called
  <2>5. ASSUME NEW a, Reached(a, run), Called(a.svc, Name) = {i}, a.svc[i].fields = "match"
        PROVE  Reached(a, found(i))
    <3>1. AsFar(a, found(i), i)
      BY <2>1, <2>3, <2>4, <2>5 DEF AsFar, Name
    <3> QED
      BY <1>1, <2>1, <2>3, <2>5, <3>1, FurtherReached DEF ServicePhase, ServiceAts
  <2>6. quiet /\ run.every[i].fields = "match" => acct.svc[i].fields = "match"
    BY <1>2, <2>4 DEF KnownServices
  <2>7. ASSUME quiet, u(i) \in Requests, Fits(acct, found(i), u(i)), SoundRequest(found(i), u(i)),
               HasRoom(acct, u(i))
        PROVE  /\ Called(Handle(acct, u(i)).svc, Name) = {i}
               /\ Handle(acct, u(i)).svc[i].fields = "match"
    <3>1. u(i) # NoReq /\ ~Creates(u(i))
      BY <2>2 DEF NoReq, Creates
    <3>2. Called(Handle(acct, u(i)).svc, Name) = {i}
      BY <1>1, <1>2, <1>7, <2>7, <3>1, HandledCalled
    <3>3. ServicesAfter(acct, u(i))[i] = ServiceAfter(acct.svc[i], u(i))
      BY <2>2 DEF ServicesAfter
    <3>4. ServiceAfter(acct.svc[i], u(i)).fields = "match"
      BY <1>1, <2>2 DEF ServiceAfter, Account, Service
    <3>5. Handle(acct, u(i)).svc[i].fields = "match"
      BY <1>1, <3>3, <3>4, HandleParts
    <3> QED
      BY <3>2, <3>5
  <2> QED
    BY <1>1, <1>2, <1>7, <2>1, <2>2, <2>5, <2>6, <2>7, ReachProceed, ReachChange
<1> QED
  BY <1>4, <1>5, <1>6, <1>7 DEF EnsureService, SameName, Called

\* Past the last child of a service the run is done with it.
LEMMA ServiceReached ==
  ASSUME NEW a, NEW s \in Runs, Reached(a, s), s.at = "active", s.sids[s.n] \in SvcIds,
         a.svc[s.sids[s.n]].active
  PROVE  Reached(a, NextService(s))
<1> DEFINE r == NextService(s)
<1> USE DEF AfterTeam, AfterSchedule, AfterPolicy, AfterServices, AfterBusiness, ServicePhase,
            ServiceAts
<1>1. s.n \in 1..ServiceCount /\ s.n \in Nat
  BY ServiceCountType DEF Runs
<1>2. Finished(a, Services[s.n], s.sids[s.n])
  BY SentinelAssumption DEF Reached, ReachedServices, AsFar, Finished
<1>3. \A m \in 1..ServiceCount : m < s.n => Finished(a, Services[m], s.sids[m])
  BY DEF Reached, ReachedServices
<1>4. /\ r.sids = s.sids
      /\ IF s.n < ServiceCount THEN r.at = "service" /\ r.n = s.n + 1
         ELSE r.at = "slack"
  BY DEF NextService, Runs
<1> HIDE DEF r
<1>5. \A m \in 1..ServiceCount :
        r.at = "slack" \/ m < r.n => Finished(a, Services[m], r.sids[m])
  BY <1>1, <1>2, <1>3, <1>4, ServiceCountType
<1>6. ReachedServices(a, r)
  BY <1>4, <1>5 DEF ReachedServices
<1>7. ReachedNamed(a, r) /\ ReachedPeople(a, r)
  BY <1>4 DEF Reached, ReachedNamed, ReachedPeople
<1> QED
  BY <1>6, <1>7 DEF Reached, r

\* The steps for a service's children.
LEMMA ChildrenReach ==
  ASSUME IInv, IInv', Known, Known', ReachInv,
         EnsureIntegration \/ EnsureGrouping \/ EnsureOrchestration \/ EnsureActive
  PROVE  ReachInv'
<1>1. /\ run \in Runs /\ req = NoReq /\ acct \in Account
      /\ run.at \in ServiceAts /\ run.at # "idle"
  BY DEF IInv, TypeOK, EnsureIntegration, EnsureGrouping, EnsureOrchestration, EnsureActive, Step,
         ServiceAts
<1>2. quiet => KnownServices(acct, run)
  BY DEF Known, Sure
<1>3. quiet /\ run.args.apply => Sid \in SvcIds
  BY <1>1, SidThere
<1>4. ASSUME NEW at \in ServiceAts
      PROVE  LET r == [run EXCEPT !.at = at]
             IN  /\ r \in Runs /\ r.args = run.args /\ r.report = run.report /\ r.at = at
                 /\ r.n = run.n /\ r.sids = run.sids /\ r.new = run.new /\ r.every = run.every
  BY <1>1 DEF Runs, Ats, ServiceAts
<1>5. ASSUME NEW a, Reached(a, run), Sid \in SvcIds
      PROVE  AsFar(a, run, Sid)
  BY <1>1, <1>5, SentinelAssumption DEF Reached, ReachedServices, AsFar, Sid
<1>6. ASSUME NEW a, Reached(a, run), NEW r \in Runs, r.at \in ServiceAts, r.n = run.n,
             r.sids = run.sids, Sid \in SvcIds, AsFar(a, r, Sid)
      PROVE  Reached(a, r)
  BY <1>1, <1>6, FurtherReached DEF ServicePhase, ServiceAts
<1>7. ASSUME NEW q, Sid \in SvcIds, q.on = Sid, q.kind # "service"
      PROVE  /\ Handle(acct, q).svc[Sid].integ <=> acct.svc[Sid].integ \/ q.kind = "integration"
             /\ q.kind = "orchestration" => Handle(acct, q).svc[Sid].orch = "design"
             /\ Handle(acct, q).svc[Sid].active <=> acct.svc[Sid].active \/ q.kind = "active"
  <2>1. ServicesAfter(acct, q)[Sid] = ServiceAfter(acct.svc[Sid], q) /\ acct.svc[Sid] \in Service
    BY <1>1, <1>7 DEF ServicesAfter, Account
  <2>2. Handle(acct, q).svc[Sid] = ServiceAfter(acct.svc[Sid], q)
    BY <1>1, <2>1, HandleParts
  <2> QED
    BY <1>7, <2>1, <2>2 DEF ServiceAfter, Service
<1>8. CASE EnsureIntegration
  <2> DEFINE q == [Blank EXCEPT !.kind = "integration", !.who = Name, !.on = Sid]
             r == [run EXCEPT !.at = "grouping"]
  <2>1. /\ run.at = "integration"
        /\ \/ ~run.new /\ run.every[Sid].integ /\ Proceed(r)
           \/ Change(q, r)
    BY <1>8 DEF EnsureIntegration, Step
  <2>2. q.kind = "integration" /\ q.on = Sid
    BY DEF Blank
  <2>3. /\ r \in Runs /\ r.args = run.args /\ r.report = run.report /\ r.at = "grouping"
        /\ r.n = run.n /\ r.sids = run.sids /\ r.new = run.new /\ r.every = run.every
    BY <1>4 DEF ServiceAts
  <2> HIDE DEF q, r
  <2>4. ASSUME NEW a, Reached(a, run), Sid \in SvcIds, a.svc[Sid].integ
        PROVE  Reached(a, r)
    <3>1. AsFar(a, r, Sid)
      BY <1>5, <2>3, <2>4 DEF AsFar
    <3> QED
      BY <1>6, <2>3, <2>4, <3>1 DEF ServiceAts
  <2>5. quiet /\ Sid \in SvcIds /\ Reached(acct, run) /\ ~run.new /\ run.every[Sid].integ
          => acct.svc[Sid].integ
    BY <1>2, <1>5 DEF AsFar, KnownServices
  <2> QED
    BY <1>1, <1>3, <1>7, <2>1, <2>2, <2>3, <2>4, <2>5, ReachProceed, ReachChange
<1>9. CASE EnsureGrouping
  <2> DEFINE q == [Blank EXCEPT !.kind = "grouping", !.who = Name, !.on = Sid,
                                !.type = run.preferred, !.members = {Sid}]
             u(g) == [q EXCEPT !.verb = "update", !.setting = g, !.members = Holders(g)]
             r == [run EXCEPT !.at = "orchestration"]
             s == Say(r, "refused", "grouping", Name)
  <2>1. /\ q.kind = "grouping" /\ q.on = Sid
        /\ \A g : u(g).kind = "grouping" /\ u(g).on = Sid
    BY DEF Blank
  <2>2. /\ run.at = "grouping"
        /\ \/ Proceed(s) \/ Change(q, r)
           \/ \E g \in GrpIds : Holding(acct, Sid) = {g} /\ acct.grp[g].type # "other" /\ Proceed(r)
           \/ \E g \in GrpIds : Change(u(g), r)
    BY <1>9 DEF EnsureGrouping, Holding, Step, Acceptable
  <2>3. /\ r \in Runs /\ r.args = run.args /\ r.report = run.report /\ r.at = "orchestration"
        /\ r.n = run.n /\ r.sids = run.sids /\ r.new = run.new /\ r.every = run.every
    BY <1>4 DEF ServiceAts
  <2>4. Refusals(s.report) # {}
    BY <2>3, SaidRefused
  <2> HIDE DEF q, u, r, s
  <2>5. ASSUME NEW a, Reached(a, run), Sid \in SvcIds, Grouped(a, Sid)
        PROVE  Reached(a, r)
    <3>1. AsFar(a, r, Sid)
      BY <1>5, <2>2, <2>3, <2>5 DEF AsFar
    <3> QED
      BY <1>6, <2>3, <2>5, <3>1 DEF ServiceAts
  <2>6. CASE Proceed(s)
    BY <2>4, <2>6, ReachRefused
  <2>7. ASSUME NEW g \in GrpIds, Holding(acct, Sid) = {g}, acct.grp[g].type # "other", Proceed(r)
        PROVE  ReachInv'
    BY <1>1, <1>3, <2>3, <2>5, <2>7, ReachProceed DEF Grouped
  <2>8. ASSUME NEW x, x.kind = "grouping", x.on = Sid, Change(x, r)
        PROVE  ReachInv'
    <3>1. x \in Requests /\ Fits(acct, r, x) /\ HasRoom(acct, x) => Grouped(Handle(acct, x), Sid)
      BY <1>1, <2>8, MadeGrouped
    <3> QED
      BY <1>1, <1>3, <2>3, <2>5, <2>8, <3>1, ReachChange
  <2> QED
    BY <2>1, <2>2, <2>6, <2>7, <2>8
<1>10. CASE EnsureOrchestration
  <2> DEFINE q == [Blank EXCEPT !.kind = "orchestration", !.who = Name, !.on = Sid]
             c == [q EXCEPT !.back = "severity"]
             u == [q EXCEPT !.verb = "update", !.back = Restorable(Sid)]
             r == [run EXCEPT !.at = "active"]
  <2>1. /\ run.at = "orchestration"
        /\ \/ Proceed(r) /\ acct.svc[Sid].orch = "design"
           \/ Change(c, r) \/ Change(u, r)
    BY <1>10 DEF EnsureOrchestration, Step
  <2>2. c.kind = "orchestration" /\ c.on = Sid /\ u.kind = "orchestration" /\ u.on = Sid
    BY DEF Blank
  <2>3. /\ r \in Runs /\ r.args = run.args /\ r.report = run.report /\ r.at = "active"
        /\ r.n = run.n /\ r.sids = run.sids /\ r.new = run.new /\ r.every = run.every
    BY <1>4 DEF ServiceAts
  <2> HIDE DEF q, c, u, r
  <2>4. ASSUME NEW a, Reached(a, run), Sid \in SvcIds, a.svc[Sid].orch = "design"
        PROVE  Reached(a, r)
    <3>1. AsFar(a, r, Sid)
      BY <1>5, <2>1, <2>3, <2>4 DEF AsFar
    <3> QED
      BY <1>6, <2>3, <2>4, <3>1 DEF ServiceAts
  <2> QED
    BY <1>1, <1>3, <1>7, <2>1, <2>2, <2>3, <2>4, ReachProceed, ReachChange
<1>11. CASE EnsureActive
  <2> DEFINE q == [Blank EXCEPT !.kind = "active", !.who = Name, !.on = Sid]
             u == [q EXCEPT !.verb = "update"]
             r == NextService(run)
  <2>1. /\ run.at = "active"
        /\ \/ Proceed(r) /\ acct.svc[Sid].active
           \/ Change(q, r) \/ Change(u, r)
    BY <1>11 DEF EnsureActive, Step
  <2>2. q.kind = "active" /\ q.on = Sid /\ u.kind = "active" /\ u.on = Sid
    BY DEF Blank
  <2>3. r \in Runs /\ r.args = run.args /\ r.report = run.report
    <3>1. run.n < ServiceCount => run.n + 1 \in 1..ServiceCount
      BY <1>1, ServiceCountType DEF Runs
    <3> QED
      BY <1>1, <3>1 DEF NextService, Runs, Ats
  <2>4. ASSUME NEW a, Reached(a, run), Sid \in SvcIds, a.svc[Sid].active
        PROVE  Reached(a, r)
    BY <1>1, <2>1, <2>4, ServiceReached DEF Sid
  <2> HIDE DEF q, u, r
  <2> QED
    BY <1>1, <1>3, <1>7, <2>1, <2>2, <2>3, <2>4, ReachProceed, ReachChange
<1> QED
  BY <1>8, <1>9, <1>10, <1>11

\* What follows the services.
LEMMA BusinessReach ==
  ASSUME IInv, IInv', Known', ReachInv, ReportSlack \/ EnsureBusiness \/ ListSupports
  PROVE  ReachInv'
<1>1. run \in Runs /\ req = NoReq /\ acct \in Account
  BY DEF IInv, TypeOK, ReportSlack, EnsureBusiness, ListSupports, Step
<1>2. ASSUME StopRefused PROVE ReachInv'
  BY <1>1, <1>2, ReachRefused DEF StopRefused
<1> USE DEF AfterTeam, AfterSchedule, AfterPolicy, AfterServices, AfterBusiness, ServicePhase,
            ServiceAts
<1>3. CASE ReportSlack
  <2> DEFINE r == [run EXCEPT !.at = "business"]
  <2>1. r.at = "business" /\ r.sids = run.sids /\ r.args = run.args /\ r.report = run.report
    BY <1>1 DEF Runs
  <2>2. run.at = "slack" /\ Proceed(r)
    BY <1>3 DEF ReportSlack, Step
  <2> HIDE DEF r
  <2>3. Reached(acct, run) => Reached(acct, r)
    BY <2>1, <2>2 DEF Reached, ReachedNamed, ReachedPeople, ReachedServices
  <2> QED
    BY <1>1, <2>1, <2>2, <2>3, ReachProceed
<1>4. CASE EnsureBusiness
  <2> DEFINE q == [Blank EXCEPT !.kind = "business"]
             u == [q EXCEPT !.verb = "update"]
             r == [run EXCEPT !.at = "listing_supports", !.business = "found"]
             c == [r EXCEPT !.business = NewId]
  <2>1. /\ r.at = "listing_supports" /\ r.sids = run.sids /\ r.args = run.args /\ r.report = run.report
        /\ c.at = "listing_supports" /\ c.sids = run.sids /\ c.args = run.args /\ c.report = run.report
        /\ r \in Runs /\ c \in Runs /\ run.at = "business"
    BY <1>1, <1>4 DEF Runs, Ats, HeldIds, NewId, EnsureBusiness, Step
  <2>2. q.kind = "business" /\ u.kind = "business"
    BY DEF Blank
  <2>3. \/ StopRefused \/ Change(q, c) \/ Change(u, r)
        \/ acct.named["business"] = "match" /\ Proceed(r)
    BY <1>4 DEF EnsureBusiness
  <2> HIDE DEF q, u, r, c
  <2>4. ASSUME NEW a, NEW s, s = c \/ s = r, Reached(a, run), a.named["business"] = "match"
        PROVE  Reached(a, s)
    BY <2>1, <2>4 DEF Reached, ReachedNamed, ReachedPeople, ReachedServices
  <2>5. ASSUME NEW x, x.kind = "business", NEW s, Fits(acct, s, x)
        PROVE  Handle(acct, x).named["business"] = "match"
    BY <1>1, <2>5, MadeMatch DEF Kinds
  <2> QED
    BY <1>1, <1>2, <2>1, <2>2, <2>3, <2>4, <2>5, ReachProceed, ReachChange
<1>5. CASE ListSupports
  <2> DEFINE r == [run EXCEPT !.at = "supports", !.n = 1,
                              !.supporting = IF run.business = "found" THEN acct.supports ELSE {}]
  <2>1. /\ r.at = "supports" /\ r.n = 1 /\ r.sids = run.sids /\ r.args = run.args
        /\ r.report = run.report /\ r.supporting \subseteq acct.supports
    BY <1>1 DEF Runs
  <2>2. run.at = "listing_supports" /\ Proceed(r)
    BY <1>5 DEF ListSupports, Step
  <2> HIDE DEF r
  <2>3. Reached(acct, run) => Reached(acct, r)
    <3> SUFFICES ASSUME Reached(acct, run) PROVE Reached(acct, r)
      OBVIOUS
    <3>1. \A m \in 1..ServiceCount : ~(m < r.n)
      BY <2>1, ServiceCountType
    <3>2. ReachedServices(acct, r)
      BY <2>1, <2>2, <3>1 DEF Reached, ReachedServices
    <3> QED
      BY <2>1, <2>2, <3>2 DEF Reached, ReachedNamed, ReachedPeople
  <2> QED
    BY <1>1, <2>1, <2>2, <2>3, ReachProceed
<1> QED
  BY <1>3, <1>4, <1>5

\* The loop over the services' ids.
LEMMA SupportReach ==
  ASSUME IInv, IInv', Known', ReachInv, EnsureSupport
  PROVE  ReachInv'
<1> USE DEF AfterTeam, AfterSchedule, AfterPolicy, AfterServices, AfterBusiness, ServicePhase,
            ServiceAts
<1> DEFINE q == [Blank EXCEPT !.kind = "support", !.who = Name, !.on = Sid]
           r == IF run.n < ServiceCount THEN [run EXCEPT !.n = @ + 1]
                ELSE [run EXCEPT !.at = "rules", !.left = People]
<1>1. run \in Runs /\ req = NoReq /\ acct \in Account /\ run.at = "supports"
  BY DEF IInv, TypeOK, EnsureSupport, Step
<1>2. run.n \in 1..ServiceCount /\ run.n \in Nat
  BY <1>1, ServiceCountType DEF Runs
<1>3. IF Sid = None \/ Sid \in run.supporting THEN Proceed(r) ELSE Change(q, r)
  BY DEF EnsureSupport
<1>4. q.kind = "support" /\ q.on = Sid
  BY DEF Blank
<1>5. /\ r.sids = run.sids /\ r.supporting = run.supporting /\ r.args = run.args
      /\ r.report = run.report /\ r \in Runs
      /\ IF run.n < ServiceCount THEN r.at = "supports" /\ r.n = run.n + 1
         ELSE r.at = "rules" /\ r.left = People
  <2>1. run.n < ServiceCount => run.n + 1 \in 1..ServiceCount
    BY <1>2, ServiceCountType
  <2> QED
    BY <1>1, <2>1 DEF Runs, Ats
<1> HIDE DEF q, r
<1>6. ASSUME NEW a, Reached(a, run), Sid \in a.supports
      PROVE  Reached(a, r)
  <2>1. \A m \in 1..ServiceCount : m < run.n => run.sids[m] \in a.supports
    BY <1>1, <1>6 DEF Reached, ReachedServices
  <2>2. \A m \in 1..ServiceCount : r.at = "rules" \/ m < r.n => run.sids[m] \in a.supports
    BY <1>2, <1>5, <1>6, <2>1, ServiceCountType DEF Sid
  <2>3. ReachedServices(a, r)
    BY <1>1, <1>5, <1>6, <2>2 DEF Reached, ReachedServices
  <2>4. ReachedNamed(a, r)
    BY <1>1, <1>5, <1>6 DEF Reached, ReachedNamed
  <2>5. ReachedPeople(a, r)
    BY <1>1, <1>5, <1>6 DEF Reached, ReachedPeople
  <2> QED
    BY <2>3, <2>4, <2>5 DEF Reached
<1>7. Reached(acct, run) => Sid # None
  BY <1>1, <1>2, SentinelAssumption DEF Reached, ReachedServices, Finished, Sid
<1>8. Reached(acct, run) /\ Sid \in run.supporting => Sid \in acct.supports
  BY <1>1 DEF Reached, ReachedServices
<1>9. Sid \in Handle(acct, q).supports
  <2>1. Handle(acct, q).supports = acct.supports \cup {q.on}
    BY <1>1, <1>4, HandleParts
  <2> QED
    BY <1>4, <2>1
<1> QED
  BY <1>1, <1>3, <1>4, <1>5, <1>6, <1>7, <1>8, <1>9, ReachProceed, ReachChange

\* The loop over the notification rules.
LEMMA RuleReach ==
  ASSUME IInv, IInv', Known', ReachInv, EnsureRule
  PROVE  ReachInv'
<1> USE DEF AfterTeam, AfterSchedule, AfterPolicy, AfterServices, AfterBusiness, ServicePhase,
            ServiceAts
<1>1. run \in Runs /\ req = NoReq /\ acct \in Account /\ run.at = "rules"
  BY DEF IInv, TypeOK, EnsureRule, Step
<1>2. PICK p \in run.left :
        LET r == [run EXCEPT !.left = @ \ {p},
                             !.at = IF run.left = {p} THEN "end" ELSE @]
            q == [Blank EXCEPT !.kind = "rule", !.who = p]
        IN  IF acct.rule[p] = "missing" /\ run.args.addRules THEN Change(q, r) ELSE Proceed(r)
  BY DEF EnsureRule
<1> DEFINE r == [run EXCEPT !.left = @ \ {p}, !.at = IF run.left = {p} THEN "end" ELSE @]
           q == [Blank EXCEPT !.kind = "rule", !.who = p]
<1>3. IF acct.rule[p] = "missing" /\ run.args.addRules THEN Change(q, r) ELSE Proceed(r)
  BY <1>2
<1>4. q.kind = "rule" /\ q.who = p
  BY DEF Blank
<1>5. /\ r.sids = run.sids /\ r.args = run.args /\ r.report = run.report /\ r \in Runs
      /\ r.at = IF run.left = {p} THEN "end" ELSE "rules"
      /\ r.left = run.left \ {p} /\ p \in People
  BY <1>1 DEF Runs, Ats
<1> HIDE DEF q, r
<1>6. ASSUME NEW a, Reached(a, run), run.args.addRules => a.rule[p] # "missing"
      PROVE  Reached(a, r)
  <2>1. run.args.addRules => \A o \in People \ run.left : a.rule[o] # "missing"
    BY <1>1, <1>6 DEF Reached, ReachedPeople
  <2>2. run.args.addRules => \A o \in People \ r.left : a.rule[o] # "missing"
    BY <1>5, <1>6, <2>1
  <2>3. run.args.addRules /\ r.at = "end" => \A o \in People : a.rule[o] # "missing"
    BY <1>5, <2>2
  <2>4. ReachedPeople(a, r)
    BY <1>1, <1>5, <1>6, <2>2, <2>3 DEF Reached, ReachedPeople
  <2>5. ReachedServices(a, r) /\ ReachedNamed(a, r)
    BY <1>1, <1>5, <1>6 DEF Reached, ReachedServices, ReachedNamed
  <2> QED
    BY <2>4, <2>5 DEF Reached
<1>7. Handle(acct, q).rule[p] # "missing"
  BY <1>1, <1>4, <1>5, HandleParts
<1> QED
  BY <1>1, <1>3, <1>4, <1>5, <1>6, <1>7, ReachProceed, ReachChange

\* Every step the run takes by itself.
LEMMA EnsureReach == ASSUME IInv, IInv', Known, Known', ReachInv, Ensure PROVE ReachInv'
<1>1. CASE End \/ ReadGone
  BY <1>1, ReachRefused DEF End, ReadGone, IInv, TypeOK
<1> QED
  BY <1>1, TeamReach, ParentsReach, ListingReach, ServiceReach, ChildrenReach, BusinessReach,
     SupportReach, RuleReach DEF Ensure

-----------------------------------------------------------------------------
(* Answers keep their promise *)

\* A write that went through is what was promised, a new service's id kept.
LEMMA DoneReach == ASSUME IInv, Known, ReachInv, Done PROVE ReachInv'
<1> DEFINE b == Handle(acct, req)
<1>1. /\ run \in Runs /\ acct \in Account /\ req \in Requests /\ req # NoReq
      /\ HasRoom(acct, req) /\ SoundRequest(run, req)
      /\ quiet => Fits(acct, run, req)
  BY AnswerKeeps DEF Done
<1>2. acct' = b /\ quiet' = quiet /\ req' = NoReq /\ req.kind # "putback"
  BY DEF Done
<1>3. /\ run'.every = run.every /\ run'.at = run.at /\ run'.n = run.n /\ run'.args = run.args
      /\ run'.left = run.left /\ run'.roles = run.roles /\ run'.new = run.new
      /\ run'.supporting = run.supporting
      /\ run'.report = run.report \cup {Line(req.verb, req)}
      /\ run'.sids = IF Creates(req) THEN [run.sids EXCEPT ![run.n] = NextSvc(acct)] ELSE run.sids
  BY <1>1 DEF Done, Runs, Creates
<1> HIDE DEF b
<1> SUFFICES ASSUME quiet, run.args.apply, run.at # "idle", Refusals(run'.report) = {}
             PROVE  Reached(b, run')
  BY <1>2, <1>3 DEF ReachInv, Promised
<1>4. Reached(b, run)
  <2>1. Refusals(run.report) = {}
    BY <1>3 DEF Refusals
  <2> QED
    BY <1>1, <1>2, <2>1 DEF ReachInv, Promised, b
<1>5. CASE ~Creates(req)
  BY <1>3, <1>4, <1>5, SameReached
<1>6. CASE Creates(req)
  <2>1. run.sids \in [1..ServiceCount -> SvcIds \cup {Placeholder, None}] /\ run.n \in 1..ServiceCount
    BY <1>1 DEF Runs
  <2>2. run.at = "integration" /\ req.who = Services[run.n] /\ req.who \in Names
    BY <1>1, <1>6 DEF SoundRequest, Fits, Creates
  <2>3. Called(b.svc, Services[run.n]) = {NextSvc(acct)}
    BY <1>1, <1>6, <2>2, HandledCalled DEF b
  <2>4. PICK i \in SvcIds : AsFar(b, run, i)
    BY <1>4, <2>2 DEF Reached, ReachedServices, ServiceAts, ServicePhase
  <2>5. i = NextSvc(acct)
    BY <2>3, <2>4 DEF AsFar
  <2>6. run'.sids[run.n] = i /\ \A m \in 1..ServiceCount : m < run.n => run'.sids[m] = run.sids[m]
    BY <1>3, <1>6, <2>1, <2>5, ServiceCountType
  <2>7. AsFar(b, run', i)
    BY <1>3, <2>4, <2>6 DEF AsFar
  <2>8. ReachedNamed(b, run') /\ ReachedPeople(b, run')
    BY <1>3, <1>4 DEF Reached, ReachedNamed, ReachedPeople
  <2>9. \A m \in 1..ServiceCount : m < run.n => Finished(b, Services[m], run'.sids[m])
    BY <1>4, <2>2, <2>6 DEF Reached, ReachedServices, ServicePhase
  <2>10. ReachedServices(b, run')
    BY <1>3, <2>2, <2>7, <2>9 DEF ReachedServices, ServicePhase, AfterServices
  <2> QED
    BY <2>8, <2>10 DEF Reached
<1> QED
  BY <1>5, <1>6

\* Time-based grouping is as good as the intelligent one it stands in for.
LEMMA FallBackReach == ASSUME IInv, Known, ReachInv, FallBack PROVE ReachInv'
<1>1. /\ run \in Runs /\ acct \in Account /\ req \in Requests /\ req # NoReq
      /\ req.kind = "grouping"
  BY DEF FallBack, RefusesIntelligent, IInv, TypeOK
<1>2. /\ acct' = acct /\ quiet' = quiet
      /\ run' = [run EXCEPT !.preferred = "time"] /\ req' = [req EXCEPT !.type = "time"]
  BY DEF FallBack, history
<1>3. /\ run'.every = run.every /\ run'.at = run.at /\ run'.n = run.n /\ run'.args = run.args
      /\ run'.left = run.left /\ run'.roles = run.roles /\ run'.new = run.new
      /\ run'.supporting = run.supporting /\ run'.report = run.report /\ run'.sids = run.sids
  BY <1>1, <1>2 DEF Runs
<1>4. /\ req'.kind = req.kind /\ req'.verb = req.verb /\ req'.on = req.on /\ req'.who = req.who
      /\ req'.setting = req.setting /\ req'.members = req.members /\ req'.type = "time"
      /\ req' # NoReq
  BY <1>1, <1>2 DEF Requests, NoReq
<1> SUFFICES ASSUME quiet, run.args.apply, run.at # "idle", Refusals(run.report) = {},
                    HasRoom(acct, req')
             PROVE  Reached(Handle(acct, req'), run')
  BY <1>2, <1>3, <1>4 DEF ReachInv, Promised
<1> DEFINE a == Handle(acct, req)
           b == Handle(acct, req')
<1>5. Reached(a, run)
  BY <1>1, <1>4 DEF ReachInv, Promised, HasRoom
<1>6. /\ b.named = a.named /\ b.member = a.member /\ b.rule = a.rule /\ b.supports = a.supports
      /\ b.svc = a.svc
  <2>1. NamedAfter(acct, req') = NamedAfter(acct, req)
    BY <1>4 DEF NamedAfter
  <2>2. ServicesAfter(acct, req') = ServicesAfter(acct, req)
    <3>1. \A s : ServiceAfter(s, req') = ServiceAfter(s, req)
      BY <1>1, <1>4 DEF ServiceAfter
    <3> QED
      BY <1>1, <1>4, <3>1 DEF ServicesAfter
  <2>3. b.named = a.named /\ b.svc = a.svc /\ b.supports = a.supports
    BY <1>1, <1>4, <2>1, <2>2 DEF Handle, Account
  <2>4. b.member = a.member /\ b.rule = a.rule
    BY <1>1, <1>4 DEF Handle, Account
  <2> QED
    BY <2>3, <2>4
<1>7. \A g \in GrpIds : /\ b.grp[g].members = a.grp[g].members
                        /\ a.grp[g].type # "other" => b.grp[g].type # "other"
  <2>1. \A g \in GrpIds :
          LET written == IF req.verb = "create" THEN NextGrp(acct) ELSE req.setting
          IN  /\ SettingsAfter(acct, req)[g] =
                   IF g = written THEN [type |-> req.type, members |-> req.members] ELSE acct.grp[g]
              /\ SettingsAfter(acct, req')[g] =
                   IF g = written THEN [type |-> "time", members |-> req.members] ELSE acct.grp[g]
    BY <1>1, <1>4 DEF SettingsAfter
  <2>2. a.grp = SettingsAfter(acct, req) /\ b.grp = SettingsAfter(acct, req')
    BY <1>1 DEF Handle, Account
  <2> HIDE DEF a, b
  <2> QED
    BY <2>1, <2>2
<1> HIDE DEF a, b
<1>8. ASSUME NEW i, Grouped(a, i) PROVE Grouped(b, i)
  <2>1. Holding(b, i) = Holding(a, i)
    BY <1>7 DEF Holding
  <2> QED
    BY <1>7, <1>8, <2>1 DEF Grouped
<1>9. \A i, nm : Finished(a, nm, i) => Finished(b, nm, i)
  BY <1>6, <1>8 DEF Finished
<1>10. \A i \in SvcIds : AsFar(a, run, i) => AsFar(b, run, i)
  BY <1>6, <1>8 DEF AsFar
<1>11. ReachedServices(b, run)
  BY <1>5, <1>6, <1>9, <1>10 DEF Reached, ReachedServices
<1>12. ReachedNamed(b, run) /\ ReachedPeople(b, run)
  BY <1>5, <1>6 DEF Reached, ReachedNamed, ReachedPeople
<1>13. Reached(b, run)
  BY <1>11, <1>12 DEF Reached
<1> QED
  BY <1>3, <1>13, SameReached DEF b

\* Everything else that can be answered is a refusal, or one to come.
LEMMA AnswerReach == ASSUME IInv, Known, ReachInv, Answer PROVE ReachInv'
<1>1. CASE Warned
  <2>1. req' = [req EXCEPT !.kind = "putback"] /\ req \in Requests
    BY <1>1 DEF Warned, Takes, IInv, TypeOK
  <2>2. req'.kind = "putback" /\ req' # NoReq
    BY <2>1 DEF Requests, NoReq
  <2> QED
    BY <2>2 DEF ReachInv
<1>2. ASSUME NEW kind, run' = Say(run, "refused", kind, req.who)
      PROVE  ReachInv'
  <2>1. Refusals(run'.report) # {}
    BY <1>2, SaidRefused DEF IInv, TypeOK
  <2> QED
    BY <2>1 DEF ReachInv
<1>3. CASE PutBack
  BY <1>2, <1>3 DEF PutBack
<1>4. CASE RefuseGone \/ Refuse \/ LoseAnswer
  <2> DEFINE kind == IF req.kind = "putback" THEN "orchestration" ELSE req.kind
  <2>1. Exit(2, Say(run, "refused", kind, req.who)) \/ run' = Say(run, "refused", kind, req.who)
    BY <1>4 DEF RefuseGone, Refuse, LoseAnswer, TakeRefusal
  <2>2. Say(run, "refused", kind, req.who) \in Runs
    <3>1. run \in Runs /\ req \in Requests
      BY <1>4 DEF IInv, TypeOK, RefuseGone, Refuse, LoseAnswer, Takes
    <3> QED
      BY <3>1, SayType DEF Say, Verbs, Requests, WriteKinds
  <2> HIDE DEF kind
  <2> QED
    BY <1>2, <2>1, <2>2, ReachRefused
<1> QED
  BY <1>1, <1>3, <1>4, DoneReach, FallBackReach DEF Answer

\* Whatever happens, a run has reached what it is past.
LEMMA ReachStep ==
  ASSUME IInv, IInv', Known, Known', ReachInv, [Next]_vars
  PROVE  ReachInv'
<1>1. CASE Start
  <2>1. PICK args \in Modes : run' = [Idle(args) EXCEPT !.at = "preflight"]
    BY <1>1 DEF Start
  <2>2. run'.at = "preflight" /\ \A p \in People : run'.roles[p] = "absent"
    BY <2>1 DEF Idle
  <2>3. acct' = acct /\ req' = NoReq
    BY <1>1 DEF Start, IInv, Control, SoundRun
  <2>4. Reached(acct', run')
    BY <2>2 DEF Reached, ReachedNamed, ReachedPeople, ReachedServices, AfterTeam, AfterSchedule,
                AfterPolicy, AfterServices, AfterBusiness, ServicePhase, ServiceAts
  <2> QED
    BY <2>3, <2>4 DEF ReachInv, Promised
<1>2. CASE Abort
  BY <1>2, ReachRefused DEF Abort, IInv, TypeOK
<1>3. CASE EditByHand
  BY <1>3 DEF EditByHand, ReachInv
<1>4. CASE UNCHANGED vars
  BY <1>4 DEF vars, history, ReachInv, Promised, Reached, ReachedNamed, ReachedPeople,
              ReachedServices, AsFar, Finished, Grouped, Holding
<1> QED
  BY <1>1, <1>2, <1>3, <1>4, EnsureReach, AnswerReach DEF Next

-----------------------------------------------------------------------------
(* Exit 0 *)

\* At the end of a run that has reached everything the account is as designed.
LEMMA EndMatches ==
  ASSUME NEW a, NEW r \in Runs, Reached(a, r), r.at = "end"
  PROVE  Matches(a, {Services[i] : i \in 1..ServiceCount}, r.args.addRules)
<1> USE DEF AfterTeam, AfterSchedule, AfterPolicy, AfterServices, AfterBusiness, ServicePhase
<1>1. \A k \in Kinds : a.named[k] = "match"
  BY DEF Reached, ReachedNamed, Kinds
<1>2. \A p \in People : a.member[p] = "manager"
  BY DEF Reached, ReachedPeople
<1>3. r.args.addRules => \A p \in People : a.rule[p] # "missing"
  BY DEF Reached, ReachedPeople
<1>4. ASSUME NEW m \in 1..ServiceCount
      PROVE  Finished(a, Services[m], r.sids[m]) /\ r.sids[m] \in a.supports
  BY DEF Reached, ReachedServices
<1>5. \A nm \in {Services[i] : i \in 1..ServiceCount} :
        \E i \in SvcIds : Finished(a, nm, i) /\ i \in a.supports
  BY <1>4 DEF Finished
<1> QED
  BY <1>1, <1>2, <1>3, <1>5 DEF Matches, Finished, Grouped, Holding

\* Only its end gives a run the exit status 0.
LEMMA ExitSteps ==
  ASSUME Ensure \/ Answer, ~End, exit' = 0
  PROVE  exit = 0
<1>1. \A r : Proceed(r) => exit' = exit
  BY DEF Proceed
<1>2. \A q, r : Change(q, r) => exit' = exit
  BY DEF Change
<1>3. ~StopRefused /\ ~ReadGone /\ (TakeRefusal => exit' = exit)
  BY DEF StopRefused, ReadGone, TakeRefusal, Exit
<1>4. CASE Preflight \/ EnsureTeam \/ ListMembers \/ EnsureMember \/ EnsureSchedule \/ EnsurePolicy
  BY <1>1, <1>2, <1>3, <1>4 DEF Preflight, EnsureTeam, ListMembers, EnsureMember, EnsureSchedule,
                                EnsurePolicy
<1>5. CASE ListServices \/ EnsureService \/ EnsureIntegration \/ EnsureGrouping
           \/ EnsureOrchestration \/ EnsureActive
  BY <1>1, <1>2, <1>3, <1>5 DEF ListServices, EnsureService, EnsureIntegration, EnsureGrouping,
                                EnsureOrchestration, EnsureActive
<1>6. CASE ReportSlack \/ EnsureBusiness \/ ListSupports \/ EnsureSupport \/ EnsureRule
  BY <1>1, <1>2, <1>3, <1>6 DEF ReportSlack, EnsureBusiness, ListSupports, EnsureSupport, EnsureRule
<1>7. CASE Answer
  BY <1>3, <1>7 DEF Answer, Done, Warned, PutBack, FallBack, RefuseGone, Refuse, LoseAnswer
<1> QED
  BY <1>3, <1>4, <1>5, <1>6, <1>7 DEF Ensure

\* No run is given an exit status before it ends.
ExitInv == /\ run.at # "idle" => exit # 0
           /\ ExitZeroMeansMatch

\* Every step keeps it: a run that ends well has reached everything.
LEMMA ExitStep ==
  ASSUME IInv, ReachInv, ExitInv, [Next]_vars
  PROVE  ExitInv'
<1>1. CASE End
  <2>1. /\ run \in Runs /\ run.at = "end" /\ req = NoReq
        /\ run' = [run EXCEPT !.at = "idle"] /\ acct' = acct /\ quiet' = quiet
        /\ exit' = 0 => Refusals(run.report) = {}
    BY <1>1 DEF End, Exit, Step, IInv, TypeOK
  <2>2. run'.at = "idle" /\ run'.args = run.args
    BY <2>1 DEF Runs
  <2>3. exit' = 0 /\ quiet' /\ run.args.apply => Reached(acct, run)
    BY <2>1 DEF ReachInv, Promised
  <2>4. exit' = 0 /\ quiet' /\ run.args.apply =>
          Matches(acct, {Services[i] : i \in 1..ServiceCount}, run.args.addRules)
    BY <2>1, <2>3, EndMatches
  <2> QED
    BY <2>1, <2>2, <2>4 DEF ExitInv, ExitZeroMeansMatch
<1>2. CASE (Ensure \/ Answer) /\ ~End
  <2>1. run.at # "idle"
    BY <1>2 DEF IInv, Control, SoundRun, Ensure, Preflight, EnsureTeam, ListMembers, EnsureMember,
         EnsureSchedule, EnsurePolicy, ListServices, EnsureService, EnsureIntegration,
         EnsureGrouping, EnsureOrchestration, EnsureActive, ReportSlack, EnsureBusiness,
         ListSupports, EnsureSupport, EnsureRule, ReadGone, Step, Answer, Done, Warned, PutBack,
         FallBack, RefuseGone, Refuse, LoseAnswer, Takes
  <2> QED
    BY <1>2, <2>1, ExitSteps DEF ExitInv, ExitZeroMeansMatch
<1>3. CASE Start \/ Abort
  BY <1>3, SentinelAssumption DEF Start, Abort, Exit, ExitInv, ExitZeroMeansMatch
<1>4. CASE EditByHand
  BY <1>4 DEF EditByHand, ExitInv, ExitZeroMeansMatch
<1>5. CASE UNCHANGED vars
  BY <1>5 DEF vars, history, ExitInv, ExitZeroMeansMatch
<1> QED
  BY <1>1, <1>2, <1>3, <1>4, <1>5 DEF Next

\* Exit status 0 after --apply means that the account is as designed, down to
\* each service's children, whatever account the run met.
THEOREM ExitZeroMatches == Spec => []ExitZeroMeansMatch
<1>1. Init => ReachInv /\ ExitInv
  BY SentinelAssumption DEF Init, Idle, ReachInv, ExitInv, ExitZeroMeansMatch
<1>2. IInv /\ IInv' /\ Known /\ Known' /\ ReachInv /\ [Next]_vars => ReachInv'
  BY ReachStep
<1>3. IInv /\ ReachInv /\ ExitInv /\ [Next]_vars => ExitInv'
  BY ExitStep
<1>4. ExitInv => ExitZeroMeansMatch
  BY DEF ExitInv
<1> QED
  BY <1>1, <1>2, <1>3, <1>4, KnowledgeHolds, Invariance, PTL DEF Spec

-----------------------------------------------------------------------------
(* Re-running changes nothing *)

\* The names that the design gives its services.
Designed == {Services[i] : i \in 1..ServiceCount}

\* What a run knows of an account that already matches: everything it looked
\* for was found.
Aware(a, r) ==
  /\ r.at \in AfterTeam => r.team = "found"
  /\ r.at \in AfterBusiness => r.business = "found"
  /\ r.at = "members" => r.roles = a.member
  /\ r.at \in ServicePhase => r.every = a.svc
  /\ r.at \in ServiceAts => ~r.new
  /\ \A m \in 1..ServiceCount :
       (r.at \in ServicePhase /\ m < r.n) \/ (r.at \in ServiceAts /\ m = r.n) \/ r.at \in AfterServices
         => Called(a.svc, Services[m]) = {r.sids[m]}
  /\ r.at = "supports" => r.supporting = a.supports

\* What may still be asked of such an account: a rule that no run was yet to
\* add, and the grouping that --retry-intelligent-grouping asks for.
Spare(so, args, q) ==
  \/ q.kind = "rule" /\ args.addRules /\ so = "plain"
  \/ q.kind = "grouping" /\ q.verb = "update" /\ args.retry

\* After an exit 0 that nobody disturbed, a run has only spare things to ask for.
SettledInv ==
  settled # "no" =>
    /\ quiet /\ Matches(acct, Designed, settled = "rules")
    /\ run.at # "idle" =>
         /\ Aware(acct, run)
         /\ req # NoReq => Spare(settled, run.args, req)
         /\ ~run.args.retry /\ (run.args.addRules => settled = "rules") => run.report = {}

\* Such a write leaves the rest of the account alone.
LEMMA SpareHandled ==
  ASSUME NEW a \in Account, NEW r, NEW q \in Requests, Fits(a, r, q),
         q.kind = "rule" \/ (q.kind = "grouping" /\ q.verb = "update"),
         NEW b, Matches(a, Designed, b)
  PROVE  /\ Matches(Handle(a, q), Designed, b)
         /\ \A s : Aware(a, s) => Aware(Handle(a, q), s)
<1> DEFINE c == Handle(a, q)
<1>1. c.named = a.named
  <2>1. NamedAfter(a, q) = a.named
    BY DEF NamedAfter, Kinds, Account
  <2> QED
    BY <2>1, HandleParts
<1>2. c.svc = a.svc
  <2>1. \A s \in Service : ServiceAfter(s, q) = s
    BY DEF ServiceAfter, Service
  <2>2. ServicesAfter(a, q) = a.svc
    BY <2>1 DEF ServicesAfter, Account
  <2> QED
    BY <2>2, HandleParts
<1>3. c.member = a.member /\ c.supports = a.supports
  BY DEF Handle, Account
<1>4. \A p \in People : a.rule[p] # "missing" => c.rule[p] # "missing"
  BY HandleParts
<1>5. HasRoom(a, q)
  BY DEF HasRoom
<1>6. \A i \in SvcIds : Grouped(a, i) => Grouped(c, i)
  BY <1>5, HandledGrouped
<1> HIDE DEF c
<1>7. Matches(c, Designed, b)
  BY <1>1, <1>2, <1>3, <1>4, <1>6 DEF Matches, Grouped, Holding
<1>8. \A s : Aware(a, s) => Aware(c, s)
  BY <1>2, <1>3 DEF Aware
<1> QED
  BY <1>7, <1>8 DEF c

\* A run that goes on with nothing new to say.
LEMMA SettledProceed ==
  ASSUME SettledInv, settled # "no", req = NoReq, run.at # "idle", NEW r, Proceed(r),
         r.args = run.args, r.report = run.report, Aware(acct, r)
  PROVE  SettledInv'
<1>1. acct' = acct /\ quiet' = quiet /\ settled' = settled /\ run' = r /\ req' = NoReq
  BY DEF Proceed, history
<1>2. Aware(acct', run')
  BY <1>1
<1> QED
  BY <1>1, <1>2 DEF SettledInv

\* One that has something to ask for after all.
LEMMA SettledChange ==
  ASSUME SettledInv, settled # "no", req = NoReq, run.at # "idle", NEW r \in Runs, NEW q, Change(q, r),
         r.args = run.args, r.report = run.report, Aware(acct, r), Spare(settled, run.args, q)
  PROVE  SettledInv'
<1>1. acct' = acct /\ quiet' = quiet /\ settled' = settled
  BY DEF Change, history
<1>2. /\ run'.at = r.at /\ run'.team = r.team /\ run'.business = r.business /\ run'.roles = r.roles
      /\ run'.every = r.every /\ run'.new = r.new /\ run'.sids = r.sids /\ run'.n = r.n
      /\ run'.supporting = r.supporting /\ run'.args = r.args /\ req' \in {q, NoReq}
  BY DEF Change, Runs
<1>3. Aware(acct', run')
  BY <1>1, <1>2 DEF Aware
<1>4. ~(~run.args.retry /\ (run.args.addRules => settled = "rules"))
  BY DEF Spare
<1>5. Matches(acct', Designed, settled' = "rules") /\ quiet'
  BY <1>1 DEF SettledInv
<1>6. req' # NoReq => Spare(settled', run'.args, req')
  BY <1>1, <1>2 DEF Spare
<1> QED
  BY <1>1, <1>2, <1>3, <1>4, <1>5, <1>6 DEF SettledInv, Spare

\* A run that stops leaves a settled account settled.
LEMMA SettledStops ==
  ASSUME SettledInv, NEW r \in Runs, NEW code, Exit(code, r), acct' = acct, quiet' = quiet,
         settled' = settled
  PROVE  SettledInv'
<1>1. run'.at = "idle"
  BY DEF Exit, Runs
<1> QED
  BY <1>1 DEF SettledInv

\* What the steps of a run find in a settled account.
LEMMA Found ==
  ASSUME SettledInv, settled # "no", run.at # "idle"
  PROVE  /\ Aware(acct, run)
         /\ \A k \in Kinds : acct.named[k] = "match"
         /\ \A p \in People : acct.member[p] = "manager"
         /\ settled = "rules" => \A p \in People : acct.rule[p] # "missing"
         /\ \A m \in 1..ServiceCount : \E i \in SvcIds :
              Finished(acct, Services[m], i) /\ i \in acct.supports
<1>1. Aware(acct, run) /\ Matches(acct, Designed, settled = "rules")
  BY DEF SettledInv
<1>2. \A m \in 1..ServiceCount : Services[m] \in Designed
  BY DEF Designed
<1> QED
  BY <1>1, <1>2 DEF Matches, Finished, Grouped, Holding

\* Away from the services there is only the place to go by.
LEMMA SameAware ==
  ASSUME NEW a, NEW s, Aware(a, s), NEW r, r.team = s.team, r.business = s.business,
         r.sids = s.sids, s.at \notin ServicePhase, r.at \notin ServicePhase,
         r.at \in AfterTeam => s.at \in AfterTeam,
         r.at \in AfterBusiness => s.at \in AfterBusiness,
         r.at \in AfterServices => s.at \in AfterServices,
         r.at = "members" => s.at = "members" /\ r.roles = s.roles,
         r.at = "supports" => s.at = "supports" /\ r.supporting = s.supporting
  PROVE  Aware(a, r)
BY DEF Aware, ServiceAts, ServicePhase

\* The steps before the services.
LEMMA SettledBefore ==
  ASSUME IInv, SettledInv, settled # "no",
         \/ Preflight \/ EnsureTeam \/ ListMembers \/ EnsureMember \/ EnsureSchedule
         \/ EnsurePolicy \/ ListServices
  PROVE  SettledInv'
<1>1. run \in Runs /\ req = NoReq /\ run.at # "idle"
  BY DEF IInv, TypeOK, Preflight, EnsureTeam, ListMembers, EnsureMember, EnsureSchedule,
         EnsurePolicy, ListServices, Step
<1>2. /\ Aware(acct, run)
      /\ \A k \in Kinds : acct.named[k] = "match"
      /\ \A p \in People : acct.member[p] = "manager"
  BY <1>1, Found
<1>3. ASSUME StopRefused PROVE SettledInv'
  BY <1>1, <1>3, SettledStops DEF StopRefused, history
<1>4. \A k \in Kinds : acct.named[k] \notin {"absent", "drift", "twins", "layers"}
  BY <1>2
<1> USE DEF AfterTeam, AfterSchedule, AfterPolicy, AfterServices, AfterBusiness, ServicePhase,
            ServiceAts
<1>5. CASE Preflight
  <2> DEFINE r == [run EXCEPT !.at = "team"]
  <2>1. /\ r.at = "team" /\ r.args = run.args /\ r.report = run.report /\ r.team = run.team
        /\ r.business = run.business /\ r.sids = run.sids
    BY <1>1 DEF Runs
  <2>2. (StopRefused \/ Proceed(r)) /\ run.at = "preflight"
    BY <1>5 DEF Preflight, Step
  <2> HIDE DEF r
  <2>3. Aware(acct, r)
    BY <1>2, <2>1, <2>2, SameAware
  <2> QED
    BY <1>1, <1>3, <2>1, <2>2, <2>3, SettledProceed
<1>6. CASE EnsureTeam
  <2> DEFINE r == [run EXCEPT !.at = "listing_members", !.team = "found"]
  <2>1. /\ r.at = "listing_members" /\ r.args = run.args /\ r.report = run.report
        /\ r.team = "found"
    BY <1>1 DEF Runs
  <2>2. StopRefused \/ Proceed(r)
    BY <1>4, <1>6 DEF EnsureTeam, Kinds
  <2> HIDE DEF r
  <2>3. Aware(acct, r)
    BY <2>1 DEF Aware
  <2> QED
    BY <1>1, <1>3, <2>1, <2>2, <2>3, SettledProceed
<1>7. CASE ListMembers
  <2> DEFINE r == [run EXCEPT !.at = "members", !.left = People,
                              !.roles = IF run.team = "found" THEN acct.member ELSE @]
  <2>1. run.team = "found" /\ Proceed(r)
    BY <1>2, <1>7 DEF ListMembers, Step, Aware
  <2>2. /\ r.at = "members" /\ r.args = run.args /\ r.report = run.report /\ r.team = run.team
        /\ r.roles = acct.member
    BY <1>1, <2>1 DEF Runs
  <2> HIDE DEF r
  <2>3. Aware(acct, r)
    BY <2>1, <2>2 DEF Aware
  <2> QED
    BY <1>1, <2>1, <2>2, <2>3, SettledProceed
<1>8. CASE EnsureMember
  <2>1. PICK p \in run.left :
        LET r == [run EXCEPT !.left = @ \ {p},
                             !.at = IF run.left = {p} THEN "schedule" ELSE @]
        IN  run.roles[p] = "manager" => Proceed(r)
    BY <1>8 DEF EnsureMember
  <2> DEFINE r == [run EXCEPT !.left = @ \ {p},
                              !.at = IF run.left = {p} THEN "schedule" ELSE @]
  <2>2. run.at = "members" /\ p \in People
    BY <1>1, <1>8 DEF EnsureMember, Step, Runs
  <2>3. run.roles[p] = "manager"
    BY <1>2, <2>2 DEF Aware
  <2>4. /\ r.at \in {"members", "schedule"} /\ r.args = run.args /\ r.report = run.report
        /\ r.team = run.team /\ r.business = run.business /\ r.sids = run.sids
        /\ r.roles = run.roles
    BY <1>1, <2>2 DEF Runs
  <2>5. Proceed(r)
    BY <2>1, <2>3
  <2> HIDE DEF r
  <2>6. Aware(acct, r)
    BY <1>2, <2>2, <2>4, SameAware
  <2> QED
    BY <1>1, <2>4, <2>5, <2>6, SettledProceed
<1>9. CASE EnsureSchedule
  <2> DEFINE r == [run EXCEPT !.at = "policy"]
  <2>1. /\ r.at = "policy" /\ r.args = run.args /\ r.report = run.report /\ r.team = run.team
        /\ r.business = run.business /\ r.sids = run.sids
    BY <1>1 DEF Runs
  <2>2. (StopRefused \/ Proceed(r)) /\ run.at = "schedule"
    BY <1>4, <1>9 DEF EnsureSchedule, Kinds, Step
  <2> HIDE DEF r
  <2>3. Aware(acct, r)
    BY <1>2, <2>1, <2>2, SameAware
  <2> QED
    BY <1>1, <1>3, <2>1, <2>2, <2>3, SettledProceed
<1>10. CASE EnsurePolicy
  <2> DEFINE r == [run EXCEPT !.at = "list"]
  <2>1. /\ r.at = "list" /\ r.args = run.args /\ r.report = run.report /\ r.team = run.team
        /\ r.business = run.business /\ r.sids = run.sids
    BY <1>1 DEF Runs
  <2>2. (StopRefused \/ Proceed(r)) /\ run.at = "policy"
    BY <1>4, <1>10 DEF EnsurePolicy, Kinds, Step
  <2> HIDE DEF r
  <2>3. Aware(acct, r)
    BY <1>2, <2>1, <2>2, SameAware
  <2> QED
    BY <1>1, <1>3, <2>1, <2>2, <2>3, SettledProceed
<1>11. CASE ListServices
  <2> DEFINE r == [run EXCEPT !.at = "service", !.n = 1, !.every = acct.svc]
  <2>1. /\ r.at = "service" /\ r.args = run.args /\ r.report = run.report /\ r.team = run.team
        /\ r.every = acct.svc /\ r.n = 1
    BY <1>1 DEF Runs
  <2>2. Proceed(r) /\ run.at = "list"
    BY <1>11 DEF ListServices, Step
  <2> HIDE DEF r
  <2>3. \A m \in 1..ServiceCount : ~(m < r.n)
    BY <2>1, ServiceCountType
  <2>4. Aware(acct, r)
    BY <1>2, <2>1, <2>2, <2>3 DEF Aware
  <2> QED
    BY <1>1, <2>1, <2>2, <2>4, SettledProceed
<1> QED
  BY <1>5, <1>6, <1>7, <1>8, <1>9, <1>10, <1>11

\* What follows the services.
LEMMA SettledAfter ==
  ASSUME IInv, SettledInv, settled # "no",
         ReportSlack \/ EnsureBusiness \/ ListSupports \/ EnsureSupport \/ EnsureRule
  PROVE  SettledInv'
<1>1. run \in Runs /\ req = NoReq /\ run.at # "idle"
  BY DEF IInv, TypeOK, ReportSlack, EnsureBusiness, ListSupports, EnsureSupport, EnsureRule, Step
<1>2. /\ Aware(acct, run)
      /\ \A k \in Kinds : acct.named[k] = "match"
      /\ settled = "rules" => \A p \in People : acct.rule[p] # "missing"
      /\ \A m \in 1..ServiceCount : \E i \in SvcIds :
           Called(acct.svc, Services[m]) = {i} /\ i \in acct.supports
  BY <1>1, Found DEF Finished
<1>3. ASSUME StopRefused PROVE SettledInv'
  BY <1>1, <1>3, SettledStops DEF StopRefused, history
<1> USE DEF AfterTeam, AfterSchedule, AfterPolicy, AfterServices, AfterBusiness, ServicePhase,
            ServiceAts
<1>4. CASE ReportSlack
  <2> DEFINE r == [run EXCEPT !.at = "business"]
  <2>1. /\ r.at = "business" /\ r.args = run.args /\ r.report = run.report /\ r.team = run.team
        /\ r.business = run.business /\ r.sids = run.sids
    BY <1>1 DEF Runs
  <2>2. Proceed(r) /\ run.at = "slack"
    BY <1>4 DEF ReportSlack, Step
  <2> HIDE DEF r
  <2>3. Aware(acct, r)
    BY <1>2, <2>1, <2>2, SameAware
  <2> QED
    BY <1>1, <2>1, <2>2, <2>3, SettledProceed
<1>5. CASE EnsureBusiness
  <2> DEFINE r == [run EXCEPT !.at = "listing_supports", !.business = "found"]
  <2>1. /\ r.at = "listing_supports" /\ r.args = run.args /\ r.report = run.report
        /\ r.team = run.team /\ r.business = "found" /\ r.sids = run.sids
    BY <1>1 DEF Runs
  <2>2. acct.named["business"] = "match"
    BY <1>2 DEF Kinds
  <2>3. Proceed(r) /\ run.at = "business"
    BY <1>5, <2>2 DEF EnsureBusiness, Step
  <2> HIDE DEF r
  <2>4. Aware(acct, r)
    BY <1>2, <2>1, <2>3 DEF Aware
  <2> QED
    BY <1>1, <2>1, <2>3, <2>4, SettledProceed
<1>6. CASE ListSupports
  <2> DEFINE r == [run EXCEPT !.at = "supports", !.n = 1,
                         !.supporting = IF run.business = "found"
                                        THEN acct.supports ELSE {}]
  <2>1. run.at = "listing_supports" /\ run.business = "found" /\ Proceed(r)
    BY <1>2, <1>6 DEF ListSupports, Step, Aware
  <2>2. /\ r.at = "supports" /\ r.args = run.args /\ r.report = run.report
        /\ r.team = run.team /\ r.business = run.business /\ r.sids = run.sids
        /\ r.supporting = acct.supports
    BY <1>1, <2>1 DEF Runs
  <2> HIDE DEF r
  <2>3. Aware(acct, r)
    BY <1>2, <2>1, <2>2 DEF Aware
  <2> QED
    BY <1>1, <2>1, <2>2, <2>3, SettledProceed
<1>7. CASE EnsureSupport
  <2> DEFINE q == [Blank EXCEPT !.kind = "support", !.who = Name, !.on = Sid]
             r == IF run.n < ServiceCount THEN [run EXCEPT !.n = @ + 1]
                  ELSE [run EXCEPT !.at = "rules", !.left = People]
  <2>1. run.at = "supports" /\ run.n \in 1..ServiceCount
    BY <1>1, <1>7 DEF EnsureSupport, Step, Runs
  <2>2. Sid \in run.supporting
    <3>1. PICK i \in SvcIds : Called(acct.svc, Services[run.n]) = {i} /\ i \in acct.supports
      BY <1>2, <2>1
    <3>2. Called(acct.svc, Services[run.n]) = {Sid} /\ run.supporting = acct.supports
      BY <1>2, <2>1 DEF Aware, Sid
    <3> QED
      BY <3>1, <3>2
  <2>3. Proceed(r)
    BY <1>7, <2>2 DEF EnsureSupport
  <2>4. /\ r.at \in {"supports", "rules"} /\ r.args = run.args /\ r.report = run.report
        /\ r.team = run.team /\ r.business = run.business /\ r.sids = run.sids
        /\ r.supporting = run.supporting
    BY <1>1, <2>1 DEF Runs
  <2> HIDE DEF r
  <2>5. Aware(acct, r)
    BY <1>2, <2>1, <2>4, SameAware
  <2> QED
    BY <1>1, <2>3, <2>4, <2>5, SettledProceed
<1>8. CASE EnsureRule
  <2>1. PICK p \in run.left :
        LET r == [run EXCEPT !.left = @ \ {p},
                             !.at = IF run.left = {p} THEN "end" ELSE @]
            q == [Blank EXCEPT !.kind = "rule", !.who = p]
        IN  Proceed(r) \/ (Change(q, r) /\ acct.rule[p] = "missing" /\ run.args.addRules)
    BY <1>8 DEF EnsureRule
  <2> DEFINE r == [run EXCEPT !.left = @ \ {p},
                              !.at = IF run.left = {p} THEN "end" ELSE @]
             q == [Blank EXCEPT !.kind = "rule", !.who = p]
  <2>2. run.at = "rules" /\ p \in People
    BY <1>1, <1>8 DEF EnsureRule, Step, Runs
  <2>3. /\ r.at \in {"rules", "end"} /\ r.args = run.args /\ r.report = run.report
        /\ r.team = run.team /\ r.business = run.business /\ r.sids = run.sids /\ r \in Runs
    BY <1>1, <2>2 DEF Runs, Ats
  <2>4. q.kind = "rule"
    BY DEF Blank
  <2>5. Proceed(r) \/ (Change(q, r) /\ acct.rule[p] = "missing" /\ run.args.addRules)
    BY <2>1
  <2> HIDE DEF q, r
  <2>6. Aware(acct, r)
    BY <1>2, <2>2, <2>3, SameAware
  <2>7. CASE Proceed(r)
    BY <1>1, <2>3, <2>6, <2>7, SettledProceed
  <2>8. CASE Change(q, r) /\ acct.rule[p] = "missing" /\ run.args.addRules
    <3>1. settled = "plain"
      BY <1>2, <2>2, <2>8 DEF IInv, TypeOK
    <3>2. Spare(settled, run.args, q)
      BY <2>4, <2>8, <3>1 DEF Spare
    <3> QED
      BY <1>1, <2>3, <2>6, <2>8, <3>2, SettledChange
  <2> QED
    BY <2>5, <2>7, <2>8
<1> QED
  BY <1>4, <1>5, <1>6, <1>7, <1>8

\* At a service: its place in the design and what was found of it.
LEMMA AwareOf ==
  ASSUME IInv, Aware(acct, run), run.at \in ServiceAts, run \in Runs,
         \A m \in 1..ServiceCount : \E i \in SvcIds :
           Finished(acct, Services[m], i) /\ i \in acct.supports
  PROVE  /\ ~run.new /\ run.every = acct.svc /\ Sid \in SvcIds
         /\ Finished(acct, Name, Sid)
<1>1. run.n \in 1..ServiceCount
  BY DEF Runs
<1>2. PICK i \in SvcIds : Finished(acct, Services[run.n], i)
  BY <1>1
<1>3. Called(acct.svc, Services[run.n]) = {Sid}
  BY <1>1 DEF Aware, Sid
<1>4. i = Sid
  BY <1>2, <1>3 DEF Finished
<1> QED
  BY <1>2, <1>4 DEF Aware, Name, ServiceAts, ServicePhase

\* The next child of a service goes by what the one before went by.
LEMMA SameService ==
  ASSUME NEW a, NEW s, Aware(a, s), s.at \in ServiceAts, NEW r, r.at \in ServiceAts,
         r.team = s.team, r.every = s.every, r.new = s.new, r.sids = s.sids, r.n = s.n
  PROVE  Aware(a, r)
BY DEF Aware, AfterTeam, AfterSchedule, AfterPolicy, AfterServices, AfterBusiness, ServicePhase,
       ServiceAts

\* Finding the services of a settled account.
LEMMA SettledService ==
  ASSUME IInv, Known, SettledInv, settled # "no", EnsureService
  PROVE  SettledInv'
<1> DEFINE r == [run EXCEPT !.at = "integration"]
           found(i) == [r EXCEPT !.new = FALSE, !.sids[run.n] = i]
<1>1. /\ run \in Runs /\ req = NoReq /\ run.at = "service" /\ run.n \in 1..ServiceCount
      /\ run.sids \in [1..ServiceCount -> SvcIds \cup {Placeholder, None}]
  BY DEF IInv, TypeOK, EnsureService, Step, Runs
<1>2. Aware(acct, run) /\ \A m \in 1..ServiceCount : \E i \in SvcIds : Finished(acct, Services[m], i)
  BY <1>1, Found
<1>3. PICK i \in SvcIds : Finished(acct, Name, i)
  BY <1>1, <1>2 DEF Name
<1>4. run.every = acct.svc /\ SameName = {i} /\ run.every[i].fields = "match"
  BY <1>1, <1>2, <1>3 DEF Aware, ServicePhase, SameName, Finished
<1>5. StopRefused \/ Proceed(found(i))
  BY <1>4 DEF EnsureService
<1>6. CASE StopRefused
  BY <1>1, <1>6, SettledStops DEF StopRefused, history
<1>7. CASE Proceed(found(i))
  <2>1. /\ found(i).at = "integration" /\ found(i).args = run.args /\ found(i).report = run.report
        /\ found(i).team = run.team /\ found(i).every = run.every /\ found(i).n = run.n
        /\ ~found(i).new /\ found(i).sids = [run.sids EXCEPT ![run.n] = i]
    BY <1>1 DEF Runs
  <2> HIDE DEF found
  <2>2. /\ found(i).sids[run.n] = i
        /\ \A m \in 1..ServiceCount : m < run.n => found(i).sids[m] = run.sids[m]
    BY <1>1, <2>1, ServiceCountType
  <2>3. \A m \in 1..ServiceCount : m < run.n \/ m = run.n =>
          Called(acct.svc, Services[m]) = {found(i).sids[m]}
    BY <1>1, <1>2, <1>3, <2>2 DEF Aware, ServicePhase, Finished, Name
  <2>4. Aware(acct, found(i))
    BY <1>1, <1>2, <2>1, <2>3 DEF Aware, AfterTeam, AfterSchedule, AfterPolicy, AfterServices,
                                  AfterBusiness, ServicePhase, ServiceAts
  <2> QED
    BY <1>1, <1>7, <2>1, <2>4, SettledProceed
<1> QED
  BY <1>5, <1>6, <1>7

\* The children of the services of a settled account.
LEMMA SettledChildren ==
  ASSUME IInv, Known, SettledInv, settled # "no",
         EnsureIntegration \/ EnsureGrouping \/ EnsureOrchestration \/ EnsureActive
  PROVE  SettledInv'
<1>1. /\ run \in Runs /\ req = NoReq /\ acct \in Account
      /\ run.at \in ServiceAts /\ run.at # "idle"
  BY DEF IInv, TypeOK, EnsureIntegration, EnsureGrouping, EnsureOrchestration, EnsureActive, Step,
         ServiceAts
<1>2. /\ Aware(acct, run)
      /\ ~run.new /\ run.every = acct.svc /\ Sid \in SvcIds /\ Finished(acct, Name, Sid)
  BY <1>1, Found, AwareOf
<1>3. ASSUME NEW at \in ServiceAts
      PROVE  LET r == [run EXCEPT !.at = at]
             IN  /\ r \in Runs /\ r.args = run.args /\ r.report = run.report
                 /\ Aware(acct, r)
  <2> DEFINE r == [run EXCEPT !.at = at]
  <2>1. /\ r \in Runs /\ r.args = run.args /\ r.report = run.report /\ r.at = at
        /\ r.team = run.team /\ r.every = run.every /\ r.new = run.new /\ r.sids = run.sids
        /\ r.n = run.n
    BY <1>1 DEF Runs, Ats, ServiceAts
  <2> HIDE DEF r
  <2>2. Aware(acct, r)
    BY <1>1, <1>2, <2>1, SameService
  <2> QED
    BY <2>1, <2>2 DEF r
<1>4. CASE EnsureIntegration
  <2> DEFINE r == [run EXCEPT !.at = "grouping"]
  <2>1. Proceed(r)
    BY <1>2, <1>4 DEF EnsureIntegration, Finished
  <2>2. r.args = run.args /\ r.report = run.report /\ Aware(acct, r)
    BY <1>3 DEF ServiceAts
  <2> HIDE DEF r
  <2> QED
    BY <1>1, <2>1, <2>2, SettledProceed
<1>5. CASE EnsureGrouping
  <2> DEFINE q == [Blank EXCEPT !.kind = "grouping", !.who = Name, !.on = Sid,
                                !.type = run.preferred, !.members = {Sid}]
             u(g) == [q EXCEPT !.verb = "update", !.setting = g, !.members = Holders(g)]
             r == [run EXCEPT !.at = "orchestration"]
  <2>1. PICK g \in GrpIds : Holding(acct, Sid) = {g} /\ acct.grp[g].type # "other"
    BY <1>2 DEF Finished, Grouped
  <2>2. Cardinality({g}) = 1
    BY FS_Singleton
  <2>3. Proceed(r) \/ (Change(u(g), r) /\ ~Acceptable(acct.grp[g].type))
    <3>1. \/ Holding(acct, Sid) = {} \/ run.new \/ Cardinality(Holding(acct, Sid)) > 1
          \/ \E h \in GrpIds : /\ Holding(acct, Sid) = {h}
                               /\ IF Acceptable(acct.grp[h].type) THEN Proceed(r) ELSE Change(u(h), r)
      BY <1>5 DEF EnsureGrouping, Holding
    <3>2. ~(Cardinality(Holding(acct, Sid)) > 1)
      BY <2>1, <2>2
    <3> HIDE DEF r, u
    <3> QED
      BY <1>2, <2>1, <3>1, <3>2
  <2>4. u(g).kind = "grouping" /\ u(g).verb = "update"
    BY DEF Blank
  <2>5. ~Acceptable(acct.grp[g].type) => run.args.retry
    BY <1>1, <2>1 DEF Acceptable, Account, Setting
  <2>6. r \in Runs /\ r.args = run.args /\ r.report = run.report /\ Aware(acct, r)
    BY <1>3 DEF ServiceAts
  <2> HIDE DEF r, u
  <2> QED
    BY <1>1, <2>3, <2>4, <2>5, <2>6, SettledProceed, SettledChange DEF Spare
<1>6. CASE EnsureOrchestration
  <2> DEFINE r == [run EXCEPT !.at = "active"]
  <2>1. Proceed(r)
    BY <1>2, <1>6 DEF EnsureOrchestration, Reads, Finished
  <2>2. r.args = run.args /\ r.report = run.report /\ Aware(acct, r)
    BY <1>3 DEF ServiceAts
  <2> HIDE DEF r
  <2> QED
    BY <1>1, <2>1, <2>2, SettledProceed
<1>7. CASE EnsureActive
  <2> DEFINE r == NextService(run)
  <2>1. Proceed(r) /\ run.at = "active"
    BY <1>2, <1>7 DEF EnsureActive, Reads, Finished, Step
  <2>2. /\ r.args = run.args /\ r.report = run.report /\ r.team = run.team /\ r.every = run.every
        /\ r.sids = run.sids
        /\ IF run.n < ServiceCount THEN r.at = "service" /\ r.n = run.n + 1
           ELSE r.at = "slack"
    BY <1>1 DEF NextService, Runs
  <2>3. run.n \in 1..ServiceCount
    BY <1>1 DEF Runs
  <2> HIDE DEF r
  <2>4. \A m \in 1..ServiceCount : m < run.n \/ m = run.n =>
          Called(acct.svc, Services[m]) = {run.sids[m]}
    BY <1>2, <2>1 DEF Aware, ServicePhase, ServiceAts
  <2>5. \A m \in 1..ServiceCount : r.at = "slack" \/ m < r.n =>
          Called(acct.svc, Services[m]) = {r.sids[m]}
    BY <2>2, <2>3, <2>4, ServiceCountType
  <2>6. Aware(acct, r)
    BY <1>2, <2>1, <2>2, <2>5 DEF Aware, AfterTeam, AfterSchedule, AfterPolicy, AfterServices,
                                  AfterBusiness, ServicePhase, ServiceAts
  <2> QED
    BY <1>1, <2>1, <2>2, <2>6, SettledProceed
<1> QED
  BY <1>4, <1>5, <1>6, <1>7

\* A write that is answered leaves a settled account settled.
LEMMA SettledAnswer ==
  ASSUME IInv, Known, SettledInv, settled # "no", Answer \/ Abort
  PROVE  SettledInv'
<1>1. run.at # "idle" /\ (Answer => req # NoReq) /\ run \in Runs /\ acct \in Account
  BY DEF IInv, TypeOK, Control, SoundRun, Answer, Abort, Done, Warned, PutBack, FallBack,
         RefuseGone, Refuse, LoseAnswer, Takes
<1>2. quiet' = quiet /\ settled' = settled /\ quiet
  BY DEF SettledInv, Answer, Abort, Done, Warned, PutBack, FallBack, RefuseGone, Refuse,
         LoseAnswer, history
<1>3. /\ Matches(acct, Designed, settled = "rules") /\ Aware(acct, run)
      /\ req # NoReq => Spare(settled, run.args, req) /\ req \in Requests /\ Fits(acct, run, req)
      /\ ~run.args.retry /\ (run.args.addRules => settled = "rules") => run.report = {}
  BY <1>1, <1>2 DEF SettledInv, Known, Sure, IInv, TypeOK
<1>4. ASSUME req # NoReq, acct' = acct \/ acct' = Handle(acct, req)
      PROVE  Matches(acct', Designed, settled = "rules") /\ \A s : Aware(acct, s) => Aware(acct', s)
  <2>1. CASE acct' = acct
    BY <1>3, <2>1
  <2>2. CASE acct' = Handle(acct, req)
    <3>1. req.kind = "rule" \/ (req.kind = "grouping" /\ req.verb = "update")
      BY <1>3, <1>4 DEF Spare
    <3>2. req \in Requests /\ Fits(acct, run, req) /\ Matches(acct, Designed, settled = "rules")
      BY <1>3, <1>4
    <3>3. /\ Matches(Handle(acct, req), Designed, settled = "rules")
          /\ \A s : Aware(acct, s) => Aware(Handle(acct, req), s)
      BY <1>1, <3>1, <3>2, SpareHandled
    <3> QED
      BY <2>2, <3>3
  <2> QED
    BY <1>4, <2>1, <2>2
<1>5. CASE Abort
  <2>1. (req # NoReq /\ acct' = Handle(acct, req)) \/ acct' = acct
    BY <1>5 DEF Abort, Takes
  <2>2. Matches(acct', Designed, settled = "rules")
    BY <1>3, <1>4, <2>1
  <2>3. run'.at = "idle"
    BY <1>1, <1>5 DEF Abort, Exit, Runs
  <2> QED
    BY <1>2, <2>2, <2>3 DEF SettledInv
<1>6. CASE Answer
  <2>1. /\ req # NoReq /\ Spare(settled, run.args, req) /\ req \in Requests
        /\ req.kind \in {"rule", "grouping"}
    BY <1>1, <1>3, <1>6 DEF Spare
  <2>2. Done \/ FallBack \/ RefuseGone \/ Refuse \/ LoseAnswer
    BY <1>6, <2>1 DEF Answer, Warned, PutBack
  <2>3. acct' = acct \/ acct' = Handle(acct, req)
    BY <2>2 DEF Done, FallBack, RefuseGone, Refuse, LoseAnswer
  <2>4. /\ run'.at = run.at /\ run'.team = run.team /\ run'.business = run.business
        /\ run'.roles = run.roles /\ run'.every = run.every /\ run'.new = run.new
        /\ run'.sids = run.sids /\ run'.n = run.n /\ run'.supporting = run.supporting
        /\ run'.args = run.args
    BY <1>1, <2>1, <2>2 DEF Done, FallBack, RefuseGone, Refuse, LoseAnswer, TakeRefusal, IsParent,
                            Parents, Say, Runs
  <2>5. Aware(acct', run) /\ Matches(acct', Designed, settled = "rules")
    BY <1>3, <1>4, <2>1, <2>3
  <2>6. Aware(acct', run')
    BY <2>4, <2>5 DEF Aware
  <2>7. req' # NoReq => Spare(settled', run'.args, req')
    <3>1. CASE FallBack
      <4>1. req' = [req EXCEPT !.type = "time"]
        BY <3>1 DEF FallBack
      <4>2. req'.kind = req.kind /\ req'.verb = req.verb
        BY <2>1, <4>1 DEF Requests
      <4> QED
        BY <1>2, <2>1, <2>4, <4>2 DEF Spare
    <3>2. CASE ~FallBack
      <4>1. req' = NoReq
        BY <2>1, <2>2, <3>2 DEF Done, RefuseGone, Refuse, LoseAnswer, TakeRefusal, Exit
      <4> QED
        BY <4>1
    <3> QED
      BY <3>1, <3>2
  <2>8. ~(~run.args.retry /\ (run.args.addRules => settled = "rules"))
    BY <2>1 DEF Spare
  <2> QED
    BY <1>2, <2>4, <2>5, <2>6, <2>7, <2>8 DEF SettledInv
<1> QED
  BY <1>5, <1>6

\* A run that ends with exit 0 settles the account.
LEMMA SettledEnd ==
  ASSUME IInv, ReachInv, SettledInv, End
  PROVE  SettledInv'
<1>1. /\ run \in Runs /\ run.at = "end" /\ req = NoReq
      /\ run' = [run EXCEPT !.at = "idle"] /\ acct' = acct /\ quiet' = quiet
      /\ settled' = IF ~(run.args.apply /\ Refusals(run.report) = {} /\ quiet) THEN settled
                    ELSE IF run.args.addRules \/ settled = "rules" THEN "rules" ELSE "plain"
  BY DEF End, Exit, Step, IInv, TypeOK
<1>2. run'.at = "idle"
  BY <1>1 DEF Runs
<1>3. CASE ~(run.args.apply /\ Refusals(run.report) = {} /\ quiet)
  BY <1>1, <1>2, <1>3 DEF SettledInv
<1>4. CASE run.args.apply /\ Refusals(run.report) = {} /\ quiet
  <2>1. Reached(acct, run)
    BY <1>1, <1>4 DEF ReachInv, Promised
  <2>2. Matches(acct, Designed, run.args.addRules)
    BY <1>1, <2>1, EndMatches DEF Designed
  <2>3. settled = "rules" => Matches(acct, Designed, settled = "rules")
    BY DEF SettledInv
  <2>4. Matches(acct, Designed, settled' = "rules")
    <3>1. CASE settled = "rules"
      BY <1>1, <1>4, <2>3, <3>1
    <3>2. CASE settled # "rules"
      BY <1>1, <1>4, <2>2, <3>2 DEF Matches
    <3> QED
      BY <3>1, <3>2
  <2> QED
    BY <1>1, <1>2, <1>4, <2>4 DEF SettledInv
<1> QED
  BY <1>3, <1>4

\* Every step keeps a settled account settled, but a person's.
LEMMA SettledStep ==
  ASSUME IInv, Known, ReachInv, SettledInv, [Next]_vars
  PROVE  SettledInv'
<1>1. CASE settled = "no" /\ ~End
  <2>1. settled' = "no"
    BY <1>1 DEF Next, Start, Ensure, Answer, Preflight, EnsureTeam, ListMembers, EnsureMember,
       EnsureSchedule, EnsurePolicy, ListServices, EnsureService, EnsureIntegration, EnsureGrouping,
       EnsureOrchestration, EnsureActive, ReportSlack, EnsureBusiness, ListSupports, EnsureSupport,
       EnsureRule, ReadGone, Proceed, Change, StopRefused, Done, Warned, PutBack, FallBack,
       RefuseGone, Refuse, LoseAnswer, Abort, EditByHand, vars, history
  <2> QED
    BY <2>1 DEF SettledInv
<1>2. CASE settled # "no" /\ ~End
  <2>1. CASE Start
    <3>1. PICK args \in Modes : run' = [Idle(args) EXCEPT !.at = "preflight"]
      BY <2>1 DEF Start
    <3>2. run'.at = "preflight" /\ run'.report = {}
      BY <3>1 DEF Idle
    <3>3. acct' = acct /\ quiet' /\ req' = NoReq /\ settled' = settled
      BY <2>1 DEF Start, IInv, Control, SoundRun
    <3>4. Aware(acct', run')
      BY <3>2 DEF Aware, AfterTeam, AfterSchedule, AfterPolicy, AfterServices, AfterBusiness,
                  ServicePhase, ServiceAts
    <3> QED
      BY <1>2, <3>2, <3>3, <3>4 DEF SettledInv
  <2>2. CASE EditByHand
    BY <2>2 DEF EditByHand, SettledInv
  <2>3. CASE UNCHANGED vars
    BY <2>3 DEF vars, history, SettledInv, Aware, Spare, Matches, Designed
  <2>4. CASE ReadGone
    BY <2>4, SettledStops DEF ReadGone, history, IInv, TypeOK
  <2> QED
    BY <1>2, <2>1, <2>2, <2>3, <2>4, SettledBefore, SettledService, SettledChildren, SettledAfter,
       SettledAnswer DEF Next, Ensure
<1>3. CASE End
  BY <1>3, SettledEnd
<1> QED
  BY <1>1, <1>2, <1>3

\* "Re-running changes nothing when PagerDuty already matches": it neither
\* changes nor plans nor refuses a thing, whatever account the first run met.
THEOREM RerunIsQuiet == Spec => []RerunChangesNothing
<1>1. Init => ReachInv /\ SettledInv
  BY DEF Init, Idle, ReachInv, SettledInv
<1>2. IInv /\ IInv' /\ Known /\ Known' /\ ReachInv /\ [Next]_vars => ReachInv'
  BY ReachStep
<1>3. IInv /\ Known /\ ReachInv /\ SettledInv /\ [Next]_vars => SettledInv'
  BY SettledStep
<1>4. SettledInv => RerunChangesNothing
  BY DEF SettledInv, RerunChangesNothing, Spare
<1> QED
  BY <1>1, <1>2, <1>3, <1>4, KnowledgeHolds, Invariance, PTL DEF Spec

-----------------------------------------------------------------------------
(* What a run goes through *)

\* The writes to a service; to it and to what a business service says of it.
Children == {"service", "integration", "grouping", "orchestration", "active"}
OfService == Children \cup {"support"}

\* The objects of a run, which it asks about once each.
Of(k, w) ==
  \/ k \in Kinds /\ w = "-"
  \/ k \in {"member", "rule"} /\ w \in People
  \/ k \in OfService /\ w \in Designed

\* At this place of a service, this of its children is yet to come.
Comes(at, k) ==
  \/ at = "service"
  \/ at = "integration" /\ k # "service"
  \/ at = "grouping" /\ k \in {"grouping", "orchestration", "active"}
  \/ at = "orchestration" /\ k \in {"orchestration", "active"}
  \/ at = "active" /\ k = "active"

\* The object is one that the run has yet to ask about.
Pending(r, k, w) ==
  \/ k = "team" /\ r.at \notin AfterTeam
  \/ k = "member" /\ \/ r.at \notin AfterTeam \/ r.at = "listing_members"
                     \/ r.at = "members" /\ w \in r.left
  \/ k = "schedule" /\ r.at \notin AfterSchedule
  \/ k = "policy" /\ r.at \notin AfterPolicy
  \/ k \in Children /\ \/ r.at \notin ServicePhase \cup AfterServices
                       \/ r.at \in ServicePhase /\ \E m \in 1..ServiceCount :
                            Services[m] = w /\ (m > r.n \/ (m = r.n /\ Comes(r.at, k)))
  \/ k = "business" /\ r.at \notin AfterBusiness
  \/ k = "support" /\ \/ r.at \notin {"supports", "rules", "end"}
                      \/ r.at = "supports" /\ \E m \in 1..ServiceCount : Services[m] = w /\ m >= r.n
  \/ k = "rule" /\ \/ r.at \notin {"rules", "end"}
                   \/ r.at = "rules" /\ w \in r.left

-----------------------------------------------------------------------------
(* What it says of each *)

\* Services of a listing with our integration under a name that is not ours; a
\* service to be made, and one that is left to a person for those.
Strange(e) == {i \in SvcIds : e[i].name = "other" /\ e[i].integ}
Made(e, w) == Called(e, w) = {} /\ Strange(e) = {}
Left(e, w) == Called(e, w) = {} /\ Strange(e) # {}

\* Of an object found by name, of a member and of a rule.
NamedSays(a, k) ==
  IF a.named[k] = "absent" THEN "create"
  ELSE IF a.named[k] = "drift" THEN "update"
  ELSE IF a.named[k] = "twins" THEN "stop"
  ELSE IF a.named[k] = "layers" /\ k = "schedule" THEN "refused"
  ELSE "none"
MemberSays(a, team, p) ==
  IF ~team \/ a.member[p] = "absent" THEN "create"
  ELSE IF a.member[p] = "manager" THEN "none" ELSE "update"
RuleSays(a, args, p) == IF a.rule[p] = "missing" /\ args.addRules THEN "create" ELSE "none"

\* Of the children of a service that was found.
ServiceSays(e, w) ==
  IF Cardinality(Called(e, w)) > 1 THEN "stop"
  ELSE IF \A i \in Called(e, w) : e[i].fields = "match" THEN "none" ELSE "update"
IntegrationSays(e, w) == IF \A i \in Called(e, w) : e[i].integ THEN "none" ELSE "create"
HeldBy(a, e, w) == {g \in GrpIds : a.grp[g].members \cap Called(e, w) # {}}
Enough(args, type) == type = "intelligent" \/ (type = "time" /\ ~args.retry)
GroupingSays(a, e, args, w) ==
  IF HeldBy(a, e, w) = {} THEN "create"
  ELSE IF Cardinality(HeldBy(a, e, w)) > 1 THEN "refused"
  ELSE IF \A g \in HeldBy(a, e, w) : Enough(args, a.grp[g].type) THEN "none" ELSE "update"
OrchestrationSays(a, e, w) ==
  IF \A i \in Called(e, w) : a.svc[i].orch = "design" THEN "none" ELSE "update"
ActiveSays(a, e, w) == IF \A i \in Called(e, w) : a.svc[i].active THEN "none" ELSE "update"
SupportSays(a, e, business, w) ==
  IF business /\ Called(e, w) \subseteq a.supports THEN "none" ELSE "create"

FoundSays(a, e, business, args, k, w) ==
  IF k = "service" THEN ServiceSays(e, w)
  ELSE IF k = "integration" THEN IntegrationSays(e, w)
  ELSE IF k = "grouping" THEN GroupingSays(a, e, args, w)
  ELSE IF k = "orchestration" THEN OrchestrationSays(a, e, w)
  ELSE IF k = "active" THEN ActiveSays(a, e, w)
  ELSE SupportSays(a, e, business, w)

\* Everything of a service to be made is made, nothing of one that is left.
ChildSays(a, e, business, args, k, w) ==
  IF Made(e, w) THEN "create"
  ELSE IF Left(e, w) THEN IF k = "service" THEN "refused" ELSE "none"
  ELSE FoundSays(a, e, business, args, k, w)

\* What a run says of an object by the account, its listing e of the services
\* and whether it found the team and the business service; "stop" ends it.
Says(a, e, team, business, args, k, w) ==
  IF k \in Kinds THEN NamedSays(a, k)
  ELSE IF k = "member" THEN MemberSays(a, team, w)
  ELSE IF k = "rule" THEN RuleSays(a, args, w)
  ELSE ChildSays(a, e, business, args, k, w)

\* The listing, and whether the team and the business service were found: what
\* the run has read, or would read by now.
Listing(a, r) == IF r.at \in ServicePhase \cup AfterServices THEN r.every ELSE a.svc
TeamFound(a, r) == IF r.at \in AfterTeam THEN r.team = "found" ELSE Exists(a, "team")
BusinessFound(a, r) ==
  IF r.at \in AfterBusiness THEN r.business = "found" ELSE Exists(a, "business")
SaysNow(a, r, k, w) ==
  Says(a, Listing(a, r), TeamFound(a, r), BusinessFound(a, r), r.args, k, w)

\* What it says if nothing of the account has changed.
Plain(a, args, k, w) ==
  Says(a, a.svc, Exists(a, "team"), Exists(a, "business"), args, k, w)

-----------------------------------------------------------------------------
(* What a run holds of what it has listed *)

\* The members it has yet to ask about have the roles that it listed.
Members(a, r) ==
  /\ r.at \in {"preflight", "team", "listing_members"} => \A p \in People : r.roles[p] = "absent"
  /\ r.at = "members" => \A p \in r.left :
       r.roles[p] = IF r.team = "found" THEN a.member[p] ELSE "absent"

\* It is past the step for this service.
Gone(r, m) ==
  \/ r.at \in AfterServices
  \/ r.at \in ServicePhase /\ (m < r.n \/ (m = r.n /\ r.at \in ServiceAts))

\* The ids it keeps are those of the services it listed, None for one that is
\* left, and for a new one a placeholder or an id that was not in use.
Ids(r) ==
  /\ r.at \in ServiceAts => IF r.new THEN Made(r.every, Services[r.n])
                            ELSE Called(r.every, Services[r.n]) = {r.sids[r.n]}
  /\ \A m \in 1..ServiceCount :
       IF ~Gone(r, m) THEN r.sids[m] = None
       ELSE /\ \A i \in Called(r.every, Services[m]) :
                 Called(r.every, Services[m]) = {i} /\ r.sids[m] = i
            /\ Left(r.every, Services[m]) => r.sids[m] = None
            /\ Made(r.every, Services[m]) =>
                 /\ r.sids[m] \in SvcIds => r.every[r.sids[m]].name = "gone"
                 /\ r.sids[m] = None => r.at = "integration" /\ m = r.n

\* A business service is supported by services that were listed, and of those
\* yet to be asked about by the ones it listed.
Supported(a, r) ==
  /\ r.at \in ServicePhase \cup {"slack", "business", "listing_supports"} =>
       \A i \in a.supports : r.every[i].name # "gone"
  /\ r.at = "supports" =>
       /\ \A i \in r.supporting : r.every[i].name # "gone"
       /\ \A m \in 1..ServiceCount : m >= r.n => \A i \in Called(r.every, Services[m]) :
            i \in r.supporting <=> r.business = "found" /\ i \in a.supports

\* No setting holds a service that was just made.
NewHeld(a, r) ==
  r.at \in {"integration", "grouping"} /\ r.new /\ r.sids[r.n] \in SvcIds =>
    Holding(a, r.sids[r.n]) = {}

Held(a, r) == Members(a, r) /\ Ids(r) /\ Supported(a, r) /\ NewHeld(a, r)

\* The object of a write, the orchestration's for the one that puts it back.
KindOf(q) == IF q.kind = "putback" THEN "orchestration" ELSE q.kind

\* A write to a service is under its name in the account, and in the listing if
\* it is there; a setting is rewritten because it has to be.
Meant(a, r, q) ==
  /\ KindOf(q) \in OfService /\ ~Creates(q) =>
       r.every[q.on].name \in {q.who, "gone"} /\ a.svc[q.on].name = q.who
  /\ q.kind = "grouping" /\ q.verb = "update" => ~Enough(r.args, a.grp[q.setting].type)

\* A write is for an object that is no longer pending.
Asked(a, r, q) ==
  q # NoReq => /\ Of(KindOf(q), q.who) /\ ~Pending(r, KindOf(q), q.who)
               /\ Meant(a, r, q)

\* A run that nobody disturbs goes by what it holds.
HeldInv ==
  /\ SupportsHold(acct)
  /\ run.at # "idle" /\ ~run.args.apply /\ quiet => smooth
  /\ run.at # "idle" /\ smooth => Held(acct, run) /\ Asked(acct, run, req)

-----------------------------------------------------------------------------
(* What a dry run has said, and what of it an apply has done *)

\* Its reading is of the account as it is, and its report what it says of all it
\* is past.
DryInv ==
  run.at # "idle" /\ ~run.args.apply /\ smooth =>
    /\ /\ Listing(acct, run) = acct.svc
       /\ TeamFound(acct, run) <=> Exists(acct, "team")
       /\ BusinessFound(acct, run) <=> Exists(acct, "business")
    /\ run.at # "preflight" => acct.ready
    /\ \A k \in WriteKinds, w \in Subjects :
         Of(k, w) /\ ~Pending(run, k, w) => Plain(acct, run.args, k, w) # "stop"
    /\ \A v \in Verbs, k \in WriteKinds, w \in Subjects :
         <<v, k, w>> \in run.report <=>
           Of(k, w) /\ ~Pending(run, k, w) /\ v = Plain(acct, run.args, k, w)

\* So is the plan that it leaves, while it is the last word.
PlanInv ==
  plan # None /\ ~run.args.apply =>
    /\ acct.ready
    /\ \A k \in WriteKinds, w \in Subjects : Of(k, w) => Plain(acct, plan.args, k, w) # "stop"
    /\ \A v \in Verbs, k \in WriteKinds, w \in Subjects :
         <<v, k, w>> \in plan.report <=> Of(k, w) /\ v = Plain(acct, plan.args, k, w)

\* An --apply after its dry run that has met no fault and nobody else.
Following ==
  plan # None /\ run.args.apply /\ smooth /\ plan.args = [run.args EXCEPT !.apply = FALSE]

\* What was planned has been asked for, said, or done with another's write.
Answered(v, k, w) ==
  \/ req # NoReq /\ k = KindOf(req) /\ w = req.who
  \/ (\E u \in Verbs : <<u, k, w>> \in run.report) /\ (v = "refused" => <<v, k, w>> \in run.report)
  \/ k = "grouping" /\ v = "update" /\ RightedWithAnother(w)

\* What is yet to come will be as planned, or has been done with another's write.
Coming(k, w) ==
  /\ SaysNow(acct, run, k, w) # "stop"
  /\ \/ \A v \in Verbs : <<v, k, w>> \in plan.report <=> v = SaysNow(acct, run, k, w)
     \/ /\ k = "grouping" /\ SaysNow(acct, run, k, w) = "none" /\ RightedWithAnother(w)
        /\ \A v \in Verbs : <<v, k, w>> \in plan.report <=> v = "update"

\* What the run has said was planned, and so is the write under way.
Planned ==
  /\ \A v \in Verbs, k \in WriteKinds, w \in Subjects : <<v, k, w>> \in plan.report => Of(k, w)
  /\ \A u, v \in Verbs, k \in WriteKinds, w \in Subjects :
       <<u, k, w>> \in plan.report /\ <<v, k, w>> \in plan.report => u = v
  /\ \A v \in Verbs, k \in WriteKinds, w \in Subjects : <<v, k, w>> \in run.report =>
       /\ \E u \in Verbs : <<u, k, w>> \in plan.report
       /\ v # "refused" => <<v, k, w>> \in plan.report
  /\ req # NoReq => <<req.verb, KindOf(req), req.who>> \in plan.report

FollowInv ==
  Following =>
    /\ Planned
    /\ run.at # "idle" =>
         /\ acct.ready
         /\ \A k \in WriteKinds, w \in Subjects : Of(k, w) /\ Pending(run, k, w) => Coming(k, w)
    /\ run.at # "idle" \/ exit # None =>
         \A v \in Verbs, k \in WriteKinds, w \in Subjects :
           <<v, k, w>> \in plan.report /\ (run.at = "idle" \/ ~Pending(run, k, w)) =>
             Answered(v, k, w)

-----------------------------------------------------------------------------
(* How a step of a run goes on *)

\* The account is read the same way.
SameView(a, r, s) ==
  /\ Listing(a, s) = Listing(a, r) /\ s.args = r.args
  /\ TeamFound(a, s) <=> TeamFound(a, r)
  /\ BusinessFound(a, s) <=> BusinessFound(a, r)

\* An object the step has asked about.
Passed(r, s, k, w) == Of(k, w) /\ Pending(r, k, w) /\ ~Pending(s, k, w)

\* What was to be said of it is said, or asked for.
Told(r, s, q, v, k, w) ==
  \/ v = "none"
  \/ (~r.args.apply \/ v = "refused") /\ <<v, k, w>> \in s.report
  \/ r.args.apply /\ q # NoReq /\ q.kind = k /\ q.who = w /\ q.verb = v

\* A step from r to s, with no write under way before it and q after it.
Moves(a, r, s, q) ==
  /\ SameView(a, r, s) /\ s.at # "idle" /\ r.report \subseteq s.report
  /\ \A k \in WriteKinds, w \in Subjects : Of(k, w) /\ Pending(s, k, w) => Pending(r, k, w)
  /\ \A k \in WriteKinds, w \in Subjects : Passed(r, s, k, w) =>
       SaysNow(a, r, k, w) # "stop" /\ Told(r, s, q, SaysNow(a, r, k, w), k, w)
  /\ \A v \in Verbs, k \in WriteKinds, w \in Subjects : <<v, k, w>> \in s.report =>
       \/ <<v, k, w>> \in r.report
       \/ Passed(r, s, k, w) /\ v = SaysNow(a, r, k, w) /\ (r.args.apply => v = "refused")
  /\ q # NoReq => /\ Passed(r, s, q.kind, q.who) /\ q.verb = SaysNow(a, r, q.kind, q.who)
                  /\ r.args.apply /\ q.kind # "putback"

\* What a run says goes by its view of the account alone.
LEMMA SaysSame ==
  ASSUME NEW a, NEW r, NEW s, SameView(a, r, s), NEW k, NEW w
  PROVE  SaysNow(a, s, k, w) = SaysNow(a, r, k, w)
<1>1. /\ Listing(a, s) = Listing(a, r) /\ s.args = r.args
      /\ TeamFound(a, s) <=> TeamFound(a, r)
      /\ BusinessFound(a, s) <=> BusinessFound(a, r)
  BY DEF SameView
<1>2. MemberSays(a, TeamFound(a, s), w) = MemberSays(a, TeamFound(a, r), w)
  BY <1>1 DEF MemberSays
<1>3. SupportSays(a, Listing(a, s), BusinessFound(a, s), w)
        = SupportSays(a, Listing(a, r), BusinessFound(a, r), w)
  BY <1>1 DEF SupportSays
<1> QED
  BY <1>1, <1>2, <1>3 DEF SaysNow, Says, ChildSays, FoundSays

\* An object of a run is a kind of write and a subject.
LEMMA OfTypes == ASSUME NEW k, NEW w, Of(k, w) PROVE k \in WriteKinds \ {"putback"} /\ w \in Subjects
<1>1. Designed \subseteq Names
  BY NameType DEF Designed
<1> QED
  BY <1>1 DEF Of, Children, OfService, WriteKinds, Kinds, Subjects

\* A line more in the report leaves what is pending, and how the account is read.
LEMMA SaidSame ==
  ASSUME NEW a, NEW r \in Runs, NEW s, s = [r EXCEPT !.report = s.report]
  PROVE  /\ SameView(a, r, s) /\ s.at = r.at /\ s.args = r.args
         /\ \A k, w : Pending(s, k, w) <=> Pending(r, k, w)
<1>1. /\ s.at = r.at /\ s.args = r.args /\ s.left = r.left /\ s.n = r.n /\ s.every = r.every
      /\ s.team = r.team /\ s.business = r.business
  BY DEF Runs
<1>2. SameView(a, r, s)
  BY <1>1 DEF SameView, Listing, TeamFound, BusinessFound
<1> QED
  BY <1>1, <1>2 DEF Pending

\* What the run holds is the same.
LEMMA SaidHeld ==
  ASSUME NEW a, NEW r \in Runs, NEW s, s = [r EXCEPT !.report = s.report], Held(a, r)
  PROVE  Held(a, s)
<1>1. /\ s.at = r.at /\ s.left = r.left /\ s.n = r.n /\ s.every = r.every /\ s.team = r.team
      /\ s.business = r.business /\ s.roles = r.roles /\ s.sids = r.sids /\ s.new = r.new
      /\ s.supporting = r.supporting
  BY DEF Runs
<1>2. Members(a, s)
  BY <1>1 DEF Held, Members
<1>3. Ids(s)
  BY <1>1 DEF Held, Ids, Gone
<1>4. Supported(a, s) /\ NewHeld(a, s)
  BY <1>1 DEF Held, Supported, NewHeld
<1> QED
  BY <1>2, <1>3, <1>4 DEF Held

\* How a step of a run that goes on leaves it.
Goes ==
  /\ Moves(acct, run, run', req')
  /\ Held(acct, run') /\ Asked(acct, run', req')
  /\ UNCHANGED <<acct, exit, history>>

\* A step that asks about nothing.
LEMMA MovesOn ==
  ASSUME req = NoReq, NEW r, Proceed(r), SameView(acct, run, r), r.at # "idle",
         r.report = run.report, Held(acct, r),
         \A k, w : Of(k, w) => (Pending(r, k, w) <=> Pending(run, k, w))
  PROVE  Goes
<1>1. run' = r /\ req' = NoReq /\ UNCHANGED <<acct, exit, history>>
  BY DEF Proceed
<1>2. Moves(acct, run, r, NoReq)
  BY DEF Moves, Passed
<1> QED
  BY <1>1, <1>2 DEF Goes, Asked

\* The objects that a step has asked about: but for one, nothing is to be said.
Asks(r, k, w) ==
  /\ Passed(run, r, k, w)
  /\ \A j, u : Of(j, u) =>
       /\ Pending(r, j, u) => Pending(run, j, u)
       /\ Passed(run, r, j, u) => (j = k /\ u = w) \/ SaysNow(acct, run, j, u) = "none"

\* A step that has nothing to say.
LEMMA MovesPast ==
  ASSUME req = NoReq, NEW r, Proceed(r), SameView(acct, run, r), r.at # "idle",
         r.report = run.report, Held(acct, r), NEW k, NEW w, Asks(r, k, w),
         SaysNow(acct, run, k, w) = "none"
  PROVE  Goes
<1>1. run' = r /\ req' = NoReq /\ UNCHANGED <<acct, exit, history>>
  BY DEF Proceed
<1>2. Moves(acct, run, r, NoReq)
  <2>1. ASSUME NEW j, NEW u, Passed(run, r, j, u) PROVE SaysNow(acct, run, j, u) = "none"
    BY <2>1 DEF Asks, Passed
  <2> QED
    BY <2>1 DEF Moves, Asks, Told
<1> QED
  BY <1>1, <1>2 DEF Goes, Asked

\* A step that leaves its object to a person.
LEMMA MovesRefused ==
  ASSUME req = NoReq, NEW r \in Runs, NEW k, NEW w, Proceed(Say(r, "refused", k, w)),
         SameView(acct, run, r), r.at # "idle",
         r.report = run.report, Held(acct, r), Asks(r, k, w),
         SaysNow(acct, run, k, w) = "refused"
  PROVE  Goes
<1> DEFINE s == Say(r, "refused", k, w)
<1>1. run' = s /\ req' = NoReq /\ UNCHANGED <<acct, exit, history>>
  BY DEF Proceed
<1>2. s = [r EXCEPT !.report = s.report] /\ s.report = run.report \cup {<<"refused", k, w>>}
  BY DEF Say, Runs
<1> HIDE DEF s
<1>3. SameView(acct, r, s) /\ s.at = r.at /\ s.args = r.args
      /\ \A j, u : Pending(s, j, u) <=> Pending(r, j, u)
  BY <1>2, SaidSame
<1>4. SameView(acct, run, s)
  BY <1>3 DEF SameView
<1>5. Held(acct, s)
  BY <1>2, SaidHeld
<1>6. Moves(acct, run, s, NoReq)
  <2>1. ASSUME NEW j \in WriteKinds, NEW u \in Subjects, Passed(run, s, j, u)
        PROVE  SaysNow(acct, run, j, u) # "stop" /\ Told(run, s, NoReq, SaysNow(acct, run, j, u), j, u)
    BY <1>2, <1>3, <2>1 DEF Asks, Told, Passed
  <2>2. Passed(run, s, k, w)
    BY <1>3 DEF Asks, Passed
  <2> QED
    BY <1>2, <1>3, <1>4, <2>1, <2>2 DEF Moves, Asks
<1> QED
  BY <1>1, <1>5, <1>6 DEF Goes, Asked

\* A step that asks for a write, or says so in a dry run.
LEMMA MovesChange ==
  ASSUME req = NoReq, NEW r \in Runs, NEW q, Change(q, r), SameView(acct, run, r), r.at # "idle",
         r.report = run.report, Held(acct, r), Asks(r, q.kind, q.who),
         q.verb \in {"create", "update"}, SaysNow(acct, run, q.kind, q.who) = q.verb,
         run.args.apply => Meant(acct, r, q)
  PROVE  Goes
<1>0. Of(q.kind, q.who) /\ q.kind \in WriteKinds \ {"putback"} /\ q.who \in Subjects
  BY OfTypes DEF Asks, Passed
<1>1. UNCHANGED <<acct, exit, history>>
  BY DEF Change
<1>2. CASE run.args.apply
  <2>1. run' = r /\ req' = q
    BY <1>2 DEF Change
  <2>2. KindOf(q) = q.kind
    BY <1>0 DEF KindOf
  <2>3. Asked(acct, r, q)
    BY <1>2, <2>2 DEF Asked, Asks, Passed
  <2>4. q # NoReq
    BY <1>0 DEF NoReq, WriteKinds, Kinds
  <2>5. ASSUME NEW j \in WriteKinds, NEW u \in Subjects, Passed(run, r, j, u)
        PROVE  SaysNow(acct, run, j, u) # "stop" /\ Told(run, r, q, SaysNow(acct, run, j, u), j, u)
    <3>1. (j = q.kind /\ u = q.who) \/ SaysNow(acct, run, j, u) = "none"
      BY <2>5 DEF Asks, Passed
    <3> QED
      BY <1>2, <2>4, <3>1 DEF Told
  <2>6. Moves(acct, run, r, q)
    BY <1>0, <1>2, <2>5 DEF Moves, Asks
  <2> QED
    BY <1>1, <2>1, <2>3, <2>6 DEF Goes
<1>3. CASE ~run.args.apply
  <2> DEFINE s == [r EXCEPT !.report = @ \cup {Line(q.verb, q)}]
  <2>1. run' = s /\ req' = NoReq
    BY <1>3 DEF Change
  <2>2. s = [r EXCEPT !.report = s.report] /\ s.report = run.report \cup {<<q.verb, q.kind, q.who>>}
    BY DEF Line, Runs
  <2> HIDE DEF s
  <2>3. SameView(acct, r, s) /\ s.at = r.at /\ s.args = r.args
        /\ \A j, u : Pending(s, j, u) <=> Pending(r, j, u)
    BY <2>2, SaidSame
  <2>4. SameView(acct, run, s)
    BY <2>3 DEF SameView
  <2>5. Held(acct, s)
    BY <2>2, SaidHeld
  <2>6. ASSUME NEW j \in WriteKinds, NEW u \in Subjects, Passed(run, s, j, u)
        PROVE  SaysNow(acct, run, j, u) # "stop" /\ Told(run, s, NoReq, SaysNow(acct, run, j, u), j, u)
    BY <1>3, <2>2, <2>3, <2>6 DEF Asks, Told, Passed
  <2>7. Passed(run, s, q.kind, q.who)
    BY <2>3 DEF Asks, Passed
  <2>8. Moves(acct, run, s, NoReq)
    BY <1>3, <2>2, <2>3, <2>4, <2>6, <2>7 DEF Moves, Asks
  <2> QED
    BY <1>1, <2>1, <2>5, <2>8 DEF Goes, Asked
<1> QED
  BY <1>2, <1>3

\* The run stops at something that it says to stop for.
Stopped ==
  /\ StopRefused
  /\ \/ run.at = "preflight" /\ ~acct.ready
     \/ \E k, w : Of(k, w) /\ Pending(run, k, w) /\ SaysNow(acct, run, k, w) = "stop"

\* What is said of each kind of object.
LEMMA SaysOf ==
  ASSUME NEW a, NEW r, NEW w
  PROVE  /\ \A k \in Kinds : SaysNow(a, r, k, w) = NamedSays(a, k)
         /\ SaysNow(a, r, "member", w) = MemberSays(a, TeamFound(a, r), w)
         /\ SaysNow(a, r, "rule", w) = RuleSays(a, r.args, w)
         /\ \A k \in OfService :
              SaysNow(a, r, k, w) = ChildSays(a, Listing(a, r), BusinessFound(a, r), r.args, k, w)
BY DEF SaysNow, Says, Kinds, OfService, Children

\* Away from the services a run holds on to its ids.
LEMMA SameHeld ==
  ASSUME NEW a, NEW s, NEW r, Held(a, s), s.at \notin ServicePhase, r.at \notin ServicePhase,
         r.sids = s.sids, r.every = s.every, r.at \in AfterServices <=> s.at \in AfterServices,
         Members(a, r), Supported(a, r)
  PROVE  Held(a, r)
<1>1. Ids(r)
  BY DEF Held, Ids, Gone, ServiceAts, ServicePhase
<1>2. NewHeld(a, r)
  BY DEF NewHeld, ServicePhase
<1> QED
  BY <1>1, <1>2 DEF Held

\* The steps for an object found by name that nothing is listed of.
LEMMA NamedGoes ==
  ASSUME NEW r \in Runs, NEW k \in Kinds, req = NoReq, SameView(acct, run, r), r.at # "idle",
         r.report = run.report, Held(acct, r), acct \in Account,
         \A j, u : Of(j, u) => (Pending(run, j, u) <=> Pending(r, j, u) \/ j = k),
         ~Pending(r, k, "-"),
         \/ acct.named[k] = "twins" /\ StopRefused
         \/ acct.named[k] = "absent" /\ Change([Blank EXCEPT !.kind = k], r)
         \/ /\ acct.named[k] = "layers" /\ k = "schedule"
            /\ Proceed(Say(r, "refused", "schedule", "-"))
         \/ acct.named[k] = "drift" /\ Change([[Blank EXCEPT !.kind = k] EXCEPT !.verb = "update"], r)
         \/ acct.named[k] = "match" /\ Proceed(r)
  PROVE  Goes \/ Stopped
<1>1. Of(k, "-") /\ SaysNow(acct, run, k, "-") = NamedSays(acct, k)
  BY SaysOf DEF Of
<1>2. Asks(r, k, "-")
  <2>1. \A u : Of(k, u) => u = "-"
    BY DEF Of, Kinds, OfService, Children
  <2> QED
    BY <1>1, <2>1 DEF Asks, Passed
<1>3. \A q : q.kind = k => Meant(acct, r, q)
  BY DEF Meant, KindOf, Kinds, OfService, Children
<1>4. CASE acct.named[k] = "twins" /\ StopRefused
  BY <1>1, <1>2, <1>4 DEF NamedSays, Stopped, Asks, Passed
<1>5. CASE acct.named[k] = "absent" /\ Change([Blank EXCEPT !.kind = k], r)
  <2> DEFINE q == [Blank EXCEPT !.kind = k]
  <2>1. q.kind = k /\ q.who = "-" /\ q.verb = "create" /\ Change(q, r)
    BY <1>5 DEF Blank
  <2> HIDE DEF q
  <2>2. SaysNow(acct, run, k, "-") = "create"
    BY <1>1, <1>5 DEF NamedSays
  <2> QED
    BY <1>2, <1>3, <2>1, <2>2, MovesChange
<1>6. CASE /\ acct.named[k] = "layers" /\ k = "schedule"
           /\ Proceed(Say(r, "refused", "schedule", "-"))
  BY <1>1, <1>2, <1>6, MovesRefused DEF NamedSays
<1>7. CASE acct.named[k] = "drift" /\ Change([[Blank EXCEPT !.kind = k] EXCEPT !.verb = "update"], r)
  <2> DEFINE q == [[Blank EXCEPT !.kind = k] EXCEPT !.verb = "update"]
  <2>1. q.kind = k /\ q.who = "-" /\ q.verb = "update" /\ Change(q, r)
    BY <1>7 DEF Blank
  <2> HIDE DEF q
  <2>2. SaysNow(acct, run, k, "-") = "update"
    BY <1>1, <1>7 DEF NamedSays
  <2> QED
    BY <1>2, <1>3, <2>1, <2>2, MovesChange
<1>8. CASE acct.named[k] = "match" /\ Proceed(r)
  BY <1>1, <1>2, <1>8, MovesPast DEF NamedSays
<1> QED
  BY <1>4, <1>5, <1>6, <1>7, <1>8

\* main() before the plan, and the team.
LEMMA TeamGoes ==
  ASSUME IInv, Held(acct, run), Preflight \/ EnsureTeam
  PROVE  Goes \/ Stopped
<1>1. run \in Runs /\ req = NoReq /\ acct \in Account
  BY DEF IInv, TypeOK, Preflight, EnsureTeam, Step
<1> USE DEF AfterTeam, AfterSchedule, AfterPolicy, AfterServices, AfterBusiness, ServicePhase
<1>2. CASE Preflight
  <2> DEFINE r == [run EXCEPT !.at = "team"]
  <2>1. /\ r.at = "team" /\ r.args = run.args /\ r.report = run.report /\ r.sids = run.sids
        /\ r.every = run.every /\ r.roles = run.roles
    BY <1>1 DEF Runs
  <2>2. run.at = "preflight" /\ ((~acct.ready /\ StopRefused) \/ Proceed(r))
    BY <1>2 DEF Preflight, Step
  <2> HIDE DEF r
  <2>3. Members(acct, r) /\ Supported(acct, r)
    BY <2>1, <2>2 DEF Members, Supported, Held
  <2>4. Held(acct, r)
    BY <2>1, <2>2, <2>3, SameHeld
  <2>5. SameView(acct, run, r)
    BY <2>1, <2>2 DEF SameView, Listing, TeamFound, BusinessFound
  <2>6. \A k, w : Of(k, w) => (Pending(r, k, w) <=> Pending(run, k, w))
    BY <2>1, <2>2 DEF Pending
  <2> QED
    BY <1>1, <2>1, <2>2, <2>4, <2>5, <2>6, MovesOn DEF Stopped
<1>3. CASE EnsureTeam
  <2> DEFINE r(t) == [run EXCEPT !.at = "listing_members", !.team = t]
  <2>1. ASSUME NEW t \in HeldIds
        PROVE  /\ r(t).at = "listing_members" /\ r(t).args = run.args /\ r(t).report = run.report
               /\ r(t).sids = run.sids /\ r(t).every = run.every /\ r(t).roles = run.roles
               /\ r(t).team = t /\ r(t) \in Runs
    BY <1>1 DEF Runs, Ats
  <2>2. run.at = "team"
    BY <1>3 DEF EnsureTeam, Step
  <2>3. PICK t \in HeldIds :
          /\ t = "found" <=> Exists(acct, "team")
          /\ \/ acct.named["team"] = "twins" /\ StopRefused
             \/ acct.named["team"] = "absent" /\ Change([Blank EXCEPT !.kind = "team"], r(t))
             \/ /\ acct.named["team"] = "drift"
                /\ Change([[Blank EXCEPT !.kind = "team"] EXCEPT !.verb = "update"], r(t))
             \/ acct.named["team"] = "match" /\ Proceed(r(t))
    <3>1. CASE acct.named["team"] = "absent"
      <4>1. r(NewId) = [[run EXCEPT !.at = "listing_members", !.team = "found"] EXCEPT !.team = NewId]
        BY <1>1 DEF Runs
      <4>2. NewId \in HeldIds /\ NewId # "found"
        BY DEF NewId, HeldIds
      <4> QED
        BY <1>3, <3>1, <4>1, <4>2 DEF EnsureTeam, Exists
    <3>2. CASE acct.named["team"] # "absent"
      BY <1>3, <3>2 DEF EnsureTeam, HeldIds, Exists
    <3> QED
      BY <3>1, <3>2
  <2> HIDE DEF r
  <2>4. Members(acct, r(t)) /\ Supported(acct, r(t))
    BY <2>1, <2>2 DEF Members, Supported, Held
  <2>5. Held(acct, r(t))
    BY <2>1, <2>2, <2>4, SameHeld
  <2>6. SameView(acct, run, r(t))
    BY <2>1, <2>2, <2>3 DEF SameView, Listing, TeamFound, BusinessFound
  <2>7. \A j, u : Of(j, u) => (Pending(run, j, u) <=> Pending(r(t), j, u) \/ j = "team")
    BY <2>1, <2>2 DEF Pending, Of
  <2>8. ~Pending(r(t), "team", "-")
    BY <2>1 DEF Pending, Children
  <2> QED
    BY <1>1, <2>1, <2>3, <2>5, <2>6, <2>7, <2>8, NamedGoes DEF Kinds
<1> QED
  BY <1>2, <1>3

\* The members.
LEMMA MembersGo ==
  ASSUME IInv, Held(acct, run), ListMembers \/ EnsureMember
  PROVE  Goes
<1>1. run \in Runs /\ req = NoReq /\ acct \in Account
  BY DEF IInv, TypeOK, ListMembers, EnsureMember, Step
<1> USE DEF AfterTeam, AfterSchedule, AfterPolicy, AfterServices, AfterBusiness, ServicePhase
<1>2. CASE ListMembers
  <2> DEFINE r == [run EXCEPT !.at = "members", !.left = People,
                         !.roles = IF run.team = "found" THEN acct.member ELSE @]
  <2>1. /\ r.at = "members" /\ r.args = run.args /\ r.report = run.report /\ r.sids = run.sids
        /\ r.every = run.every /\ r.team = run.team /\ r.left = People
        /\ r.roles = IF run.team = "found" THEN acct.member ELSE run.roles
    BY <1>1 DEF Runs
  <2>2. run.at = "listing_members" /\ Proceed(r)
    BY <1>2 DEF ListMembers, Step
  <2> HIDE DEF r
  <2>3. Members(acct, r) /\ Supported(acct, r)
    BY <2>1, <2>2 DEF Members, Supported, Held
  <2>4. Held(acct, r)
    BY <2>1, <2>2, <2>3, SameHeld
  <2>5. SameView(acct, run, r)
    BY <2>1, <2>2 DEF SameView, Listing, TeamFound, BusinessFound
  <2>6. \A k, w : Of(k, w) => (Pending(r, k, w) <=> Pending(run, k, w))
    BY <2>1, <2>2 DEF Pending, Of, Kinds, OfService, Children
  <2> QED
    BY <1>1, <2>1, <2>2, <2>4, <2>5, <2>6, MovesOn
<1>3. CASE EnsureMember
  <2>1. PICK p \in run.left :
        LET r == [run EXCEPT !.left = @ \ {p},
                             !.at = IF run.left = {p} THEN "schedule" ELSE @]
            q == [Blank EXCEPT !.kind = "member", !.who = p,
                   !.verb = IF run.roles[p] = "absent" THEN "create" ELSE "update"]
        IN  IF run.roles[p] = "manager" THEN Proceed(r) ELSE Change(q, r)
    BY <1>3 DEF EnsureMember
  <2> DEFINE r == [run EXCEPT !.left = @ \ {p},
                              !.at = IF run.left = {p} THEN "schedule" ELSE @]
             q == [Blank EXCEPT !.kind = "member", !.who = p,
                   !.verb = IF run.roles[p] = "absent" THEN "create" ELSE "update"]
  <2>2. run.at = "members" /\ p \in People
    BY <1>1, <1>3 DEF EnsureMember, Step, Runs
  <2>3. /\ r.at = IF run.left = {p} THEN "schedule" ELSE "members"
        /\ r.args = run.args /\ r.report = run.report
        /\ r.team = run.team /\ r.every = run.every /\ r.sids = run.sids
        /\ r.roles = run.roles /\ r.left = run.left \ {p} /\ r \in Runs
    BY <1>1, <2>2 DEF Runs, Ats
  <2>4. /\ q.kind = "member" /\ q.who = p
        /\ q.verb = IF run.roles[p] = "absent" THEN "create" ELSE "update"
    BY DEF Blank
  <2>5. IF run.roles[p] = "manager" THEN Proceed(r) ELSE Change(q, r)
    BY <2>1
  <2> HIDE DEF r, q
  <2>6. Members(acct, r) /\ Supported(acct, r)
    BY <2>2, <2>3 DEF Members, Supported, Held
  <2>7. Held(acct, r)
    BY <2>2, <2>3, <2>6, SameHeld
  <2>8. SameView(acct, run, r)
    BY <2>2, <2>3 DEF SameView, Listing, TeamFound, BusinessFound
  <2>9. Asks(r, "member", p)
    <3>1. Of("member", p)
      BY <2>2 DEF Of
    <3>2. Pending(run, "member", p) /\ ~Pending(r, "member", p)
      BY <2>2, <2>3 DEF Pending, Children
    <3>3. ASSUME NEW j, NEW u, Of(j, u)
          PROVE  Pending(run, j, u) <=> Pending(r, j, u) \/ (j = "member" /\ u = p)
      BY <2>2, <2>3, <3>3 DEF Pending, Of, Kinds, OfService, Children
    <3> QED
      BY <3>1, <3>2, <3>3 DEF Asks, Passed
  <2>10. run.roles[p] = IF run.team = "found" THEN acct.member[p] ELSE "absent"
    BY <2>2 DEF Held, Members
  <2>11. SaysNow(acct, run, "member", p) = IF run.roles[p] = "manager" THEN "none" ELSE q.verb
    <3>1. SaysNow(acct, run, "member", p) = MemberSays(acct, TeamFound(acct, run), p)
      BY SaysOf
    <3>2. TeamFound(acct, run) <=> run.team = "found"
      BY <2>2 DEF TeamFound
    <3> QED
      BY <2>4, <2>10, <3>1, <3>2 DEF MemberSays
  <2>12. Meant(acct, r, q)
    BY <2>4 DEF Meant, KindOf, OfService, Children
  <2> QED
    BY <1>1, <2>2, <2>3, <2>4, <2>5, <2>7, <2>8, <2>9, <2>11, <2>12, MovesPast, MovesChange
<1> QED
  BY <1>2, <1>3

\* The schedule and the policy.
LEMMA ParentsGo ==
  ASSUME IInv, Held(acct, run), EnsureSchedule \/ EnsurePolicy
  PROVE  Goes \/ Stopped
<1>1. run \in Runs /\ req = NoReq /\ acct \in Account
  BY DEF IInv, TypeOK, EnsureSchedule, EnsurePolicy, Step
<1> USE DEF AfterTeam, AfterSchedule, AfterPolicy, AfterServices, AfterBusiness, ServicePhase
<1>2. ASSUME NEW k \in {"schedule", "policy"}, run.at = k,
             NEW at, at = IF k = "schedule" THEN "policy" ELSE "list",
             NEW r, r = [run EXCEPT !.at = at]
      PROVE  /\ r \in Runs /\ r.at # "idle" /\ r.report = run.report
             /\ SameView(acct, run, r) /\ Held(acct, r) /\ ~Pending(r, k, "-")
             /\ \A j, u : Of(j, u) => (Pending(run, j, u) <=> Pending(r, j, u) \/ j = k)
  <2>1. /\ r.at = at /\ r.args = run.args /\ r.report = run.report /\ r.team = run.team
        /\ r.every = run.every /\ r.sids = run.sids /\ r \in Runs
    BY <1>1, <1>2 DEF Runs, Ats
  <2>2. Members(acct, r) /\ Supported(acct, r)
    BY <1>2, <2>1 DEF Members, Supported, Held
  <2>3. Held(acct, r)
    <3>1. r.at \in {"policy", "list"} /\ run.at \in {"schedule", "policy"}
      BY <1>2, <2>1
    <3> QED
      BY <2>1, <2>2, <3>1, SameHeld
  <2>4. SameView(acct, run, r)
    BY <1>2, <2>1 DEF SameView, Listing, TeamFound, BusinessFound
  <2>5. \A j, u : Of(j, u) => (Pending(run, j, u) <=> Pending(r, j, u) \/ j = k)
    BY <1>2, <2>1 DEF Pending, Of, Kinds, OfService, Children
  <2>6. ~Pending(r, k, "-")
    BY <1>2, <2>1 DEF Pending, Children
  <2> QED
    BY <1>2, <2>1, <2>3, <2>4, <2>5, <2>6
<1>3. CASE EnsureSchedule
  <2> DEFINE r == [run EXCEPT !.at = "policy"]
  <2>1. run.at = "schedule"
    BY <1>3 DEF EnsureSchedule, Step
  <2>2. \/ acct.named["schedule"] = "twins" /\ StopRefused
        \/ acct.named["schedule"] = "absent" /\ Change([Blank EXCEPT !.kind = "schedule"], r)
        \/ /\ acct.named["schedule"] = "layers"
           /\ Proceed(Say(r, "refused", "schedule", "-"))
        \/ /\ acct.named["schedule"] = "drift"
           /\ Change([[Blank EXCEPT !.kind = "schedule"] EXCEPT !.verb = "update"], r)
        \/ acct.named["schedule"] = "match" /\ Proceed(r)
    BY <1>3 DEF EnsureSchedule
  <2> HIDE DEF r
  <2>3. /\ r \in Runs /\ r.at # "idle" /\ r.report = run.report
        /\ SameView(acct, run, r) /\ Held(acct, r) /\ ~Pending(r, "schedule", "-")
        /\ \A j, u : Of(j, u) => (Pending(run, j, u) <=> Pending(r, j, u) \/ j = "schedule")
    BY <1>2, <2>1 DEF r
  <2> QED
    BY <1>1, <2>2, <2>3, NamedGoes DEF Kinds
<1>4. CASE EnsurePolicy
  <2> DEFINE r == [run EXCEPT !.at = "list"]
  <2>1. run.at = "policy"
    BY <1>4 DEF EnsurePolicy, Step
  <2>2. \/ acct.named["policy"] = "twins" /\ StopRefused
        \/ acct.named["policy"] = "absent" /\ Change([Blank EXCEPT !.kind = "policy"], r)
        \/ /\ acct.named["policy"] = "drift"
           /\ Change([[Blank EXCEPT !.kind = "policy"] EXCEPT !.verb = "update"], r)
        \/ acct.named["policy"] = "match" /\ Proceed(r)
    BY <1>4 DEF EnsurePolicy
  <2> HIDE DEF r
  <2>3. /\ r \in Runs /\ r.at # "idle" /\ r.report = run.report
        /\ SameView(acct, run, r) /\ Held(acct, r) /\ ~Pending(r, "policy", "-")
        /\ \A j, u : Of(j, u) => (Pending(run, j, u) <=> Pending(r, j, u) \/ j = "policy")
    BY <1>2, <2>1 DEF r
  <2> QED
    BY <1>1, <2>2, <2>3, NamedGoes DEF Kinds
<1> QED
  BY <1>3, <1>4

\* Before the services the listing is the account.
LEMMA ListingGoes ==
  ASSUME IInv, SupportsHold(acct), Held(acct, run), ListServices
  PROVE  Goes
<1> DEFINE r == [run EXCEPT !.at = "service", !.n = 1, !.every = acct.svc]
<1>1. run \in Runs /\ req = NoReq /\ acct \in Account /\ run.at = "list"
  BY DEF IInv, TypeOK, ListServices, Step
<1>2. /\ r.at = "service" /\ r.args = run.args /\ r.report = run.report /\ r.team = run.team
      /\ r.every = acct.svc /\ r.sids = run.sids /\ r.n = 1
  BY <1>1 DEF Runs
<1>3. Proceed(r)
  BY DEF ListServices
<1> HIDE DEF r
<1> USE DEF AfterTeam, AfterSchedule, AfterPolicy, AfterServices, AfterBusiness, ServicePhase,
            ServiceAts
<1>4. \A m \in 1..ServiceCount : ~(m < r.n) /\ (m > r.n \/ m = r.n)
  BY <1>2, ServiceCountType
<1>5. Held(acct, r)
  <2>1. Ids(r)
    BY <1>1, <1>2, <1>4 DEF Held, Ids, Gone
  <2>2. \A i \in acct.supports : acct.svc[i].name # "gone"
    BY <1>1 DEF SupportsHold, UnusedSvc, Account
  <2> QED
    BY <1>2, <2>1, <2>2 DEF Held, Members, Supported, NewHeld
<1>6. SameView(acct, run, r)
  BY <1>1, <1>2 DEF SameView, Listing, TeamFound, BusinessFound
<1>7. \A k, w : Of(k, w) => (Pending(r, k, w) <=> Pending(run, k, w))
  <2>1. ASSUME NEW k \in Children, NEW w \in Designed PROVE Pending(r, k, w) /\ Pending(run, k, w)
    BY <1>1, <1>2, <1>4, <2>1 DEF Pending, Designed, Comes
  <2>2. ASSUME NEW k, NEW w, Of(k, w), k \notin Children PROVE Pending(r, k, w) <=> Pending(run, k, w)
    BY <1>1, <1>2, <2>2 DEF Pending
  <2> QED
    BY <2>1, <2>2 DEF Of, Kinds, OfService, Children
<1> QED
  BY <1>1, <1>2, <1>3, <1>5, <1>6, <1>7, MovesOn

-----------------------------------------------------------------------------
(* The steps of the services *)

\* A name of the design is at one place of it.
LEMMA OnePlace ==
  ASSUME NEW n \in 1..ServiceCount, NEW m \in 1..ServiceCount, Services[m] = Services[n]
  PROVE  m = n
BY ServicesAssumption DEF ServiceCount

\* The next child of a service: the one before is asked about, and it alone.
LEMMA NextChild ==
  ASSUME NEW s \in Runs, NEW r, r.n = s.n, s.at \in ServicePhase,
         \/ s.at = "service" /\ r.at = "integration"
         \/ s.at = "integration" /\ r.at = "grouping"
         \/ s.at = "grouping" /\ r.at = "orchestration"
         \/ s.at = "orchestration" /\ r.at = "active"
  PROVE  /\ Of(s.at, Services[s.n]) /\ Pending(s, s.at, Services[s.n])
         /\ ~Pending(r, s.at, Services[s.n])
         /\ \A j, u : Of(j, u) =>
              (Pending(s, j, u) <=> Pending(r, j, u) \/ (j = s.at /\ u = Services[s.n]))
<1>1. s.n \in 1..ServiceCount /\ s.n \in Nat /\ ~(s.n > s.n)
  BY ServiceCountType DEF Runs
<1>2. \A j \in Children : Comes(s.at, j) <=> Comes(r.at, j) \/ j = s.at
  BY DEF Comes, Children
<1>3. ~Comes(r.at, s.at) /\ Comes(s.at, s.at)
  BY DEF Comes
<1>4. s.at \in Children /\ r.at \in ServicePhase
  BY DEF Children, ServicePhase
<1>5. Services[s.n] \in Designed
  BY <1>1 DEF Designed
<1>6. ASSUME NEW j \in Children, NEW u
      PROVE  /\ Pending(s, j, u) <=> \E m \in 1..ServiceCount :
                  Services[m] = u /\ (m > s.n \/ (m = s.n /\ Comes(s.at, j)))
             /\ Pending(r, j, u) <=> \E m \in 1..ServiceCount :
                  Services[m] = u /\ (m > s.n \/ (m = s.n /\ Comes(r.at, j)))
  BY <1>4 DEF Pending, Children, ServicePhase, AfterServices
<1>7. ~Pending(r, s.at, Services[s.n])
  BY <1>1, <1>3, <1>4, <1>6, OnePlace
<1>8. ASSUME NEW j, NEW u, Of(j, u)
      PROVE  Pending(s, j, u) <=> Pending(r, j, u) \/ (j = s.at /\ u = Services[s.n])
  <2>1. CASE j \in Children
    BY <1>1, <1>2, <1>3, <1>6, <2>1, OnePlace
  <2>2. CASE j \notin Children
    BY <1>4, <2>2 DEF Pending, AfterTeam, AfterSchedule, AfterPolicy, AfterServices, AfterBusiness,
                      ServicePhase
  <2> QED
    BY <2>1, <2>2
<1>9. Pending(s, s.at, Services[s.n])
  BY <1>1, <1>3, <1>4, <1>6
<1> QED
  BY <1>4, <1>5, <1>7, <1>8, <1>9 DEF Of, OfService

\* The next service, or what follows them: nothing of the one before is left.
LEMMA NextPending ==
  ASSUME NEW s \in Runs, s.at \in ServicePhase
  PROVE  /\ NextService(s) \in Runs
         /\ NextService(s) = [s EXCEPT !.at = NextService(s).at, !.n = NextService(s).n]
         /\ \/ s.n < ServiceCount /\ NextService(s).at = "service" /\ NextService(s).n = s.n + 1
            \/ s.n = ServiceCount /\ NextService(s).at = "slack" /\ NextService(s).n = s.n
         /\ \A j \in Children : \A u : Pending(NextService(s), j, u) <=>
              \E m \in 1..ServiceCount : Services[m] = u /\ m > s.n
         /\ \A j, u : j \notin Children => (Pending(NextService(s), j, u) <=> Pending(s, j, u))
<1> DEFINE r == NextService(s)
<1>1. s.n \in 1..ServiceCount /\ s.n \in Nat /\ ServiceCount \in Nat
  BY ServiceCountType DEF Runs
<1>2. /\ r \in Runs /\ r = [s EXCEPT !.at = r.at, !.n = r.n]
      /\ \/ s.n < ServiceCount /\ r.at = "service" /\ r.n = s.n + 1
         \/ s.n = ServiceCount /\ r.at = "slack" /\ r.n = s.n
  <2>1. CASE s.n < ServiceCount
    <3>1. r = [s EXCEPT !.at = "service", !.n = s.n + 1]
      BY <2>1 DEF NextService
    <3> HIDE DEF r
    <3>2. s.n + 1 \in 1..ServiceCount
      BY <1>1, <2>1
    <3> QED
      BY <2>1, <3>1, <3>2 DEF Runs, Ats
  <2>2. CASE ~(s.n < ServiceCount)
    <3>1. r = [s EXCEPT !.at = "slack"]
      BY <2>2 DEF NextService
    <3> HIDE DEF r
    <3>2. s.n = ServiceCount
      BY <1>1, <2>2
    <3> QED
      BY <3>1, <3>2 DEF Runs, Ats
  <2> QED
    BY <2>1, <2>2
<1> HIDE DEF r
<1>3. ASSUME NEW j \in Children, NEW u
      PROVE  Pending(r, j, u) <=> \E m \in 1..ServiceCount : Services[m] = u /\ m > s.n
  <2>1. CASE s.n < ServiceCount /\ r.at = "service" /\ r.n = s.n + 1
    <3>1. Pending(r, j, u) <=> \E m \in 1..ServiceCount :
            Services[m] = u /\ (m > r.n \/ (m = r.n /\ Comes(r.at, j)))
      BY <2>1 DEF Pending, Children, ServicePhase, AfterServices
    <3>2. Comes(r.at, j)
      BY <2>1 DEF Comes
    <3>3. \A m \in 1..ServiceCount : m > r.n \/ m = r.n <=> m > s.n
      BY <1>1, <2>1
    <3> QED
      BY <3>1, <3>2, <3>3
  <2>2. CASE s.n = ServiceCount /\ r.at = "slack" /\ r.n = s.n
    <3>1. \A m \in 1..ServiceCount : ~(m > s.n)
      BY <1>1, <2>2
    <3> QED
      BY <2>2, <3>1 DEF Pending, Children, ServicePhase, AfterServices
  <2> QED
    BY <1>2, <2>1, <2>2
<1>4. ASSUME NEW j, NEW u, j \notin Children PROVE Pending(r, j, u) <=> Pending(s, j, u)
  <2>1. r.at \in {"service", "slack"}
    BY <1>2
  <2> QED
    BY <1>4, <2>1 DEF Pending, AfterTeam, AfterSchedule, AfterPolicy, AfterServices, AfterBusiness,
                      ServicePhase
<1> QED
  BY <1>2, <1>3, <1>4 DEF r

\* Going on among the services, the account is read the same way.
LEMMA ServicesView ==
  ASSUME NEW a, NEW s, NEW r, s.at \in ServicePhase, r.at \in ServicePhase \cup {"slack"},
         r.args = s.args, r.every = s.every, r.team = s.team
  PROVE  SameView(a, s, r)
BY DEF SameView, Listing, TeamFound, BusinessFound, AfterTeam, AfterSchedule, AfterPolicy,
       AfterServices, AfterBusiness, ServicePhase

\* At a service: it was found, or it is to be made.
LEMMA AtService ==
  ASSUME IInv, Held(acct, run), run.at \in ServiceAts, req = NoReq
  PROVE  /\ run \in Runs /\ run.n \in 1..ServiceCount /\ Sid # None
         /\ IF run.new THEN Made(run.every, Name)
            ELSE Called(run.every, Name) = {Sid} /\ Sid \in SvcIds
         /\ \A k \in Children : SaysNow(acct, run, k, Name) =
              IF run.new THEN "create"
              ELSE FoundSays(acct, run.every, BusinessFound(acct, run), run.args, k, Name)
<1>1. run \in Runs /\ run.n \in 1..ServiceCount /\ Sid # None
  BY SidHeld DEF IInv, TypeOK
<1>2. IF run.new THEN Made(run.every, Name)
      ELSE Called(run.every, Name) = {Sid} /\ Sid \in SvcIds
  BY SidHeld DEF Held, Ids, Sid, Name
<1>3. Listing(acct, run) = run.every
  BY DEF Listing, ServiceAts, ServicePhase
<1>4. ~run.new => ~Made(run.every, Name) /\ ~Left(run.every, Name)
  BY <1>2 DEF Made, Left
<1>5. \A k \in Children : SaysNow(acct, run, k, Name)
        = ChildSays(acct, run.every, BusinessFound(acct, run), run.args, k, Name)
  <2>1. ASSUME NEW k \in Children PROVE k \in OfService
    BY DEF OfService
  <2>2. ASSUME NEW k \in OfService
        PROVE  SaysNow(acct, run, k, Name)
                 = ChildSays(acct, Listing(acct, run), BusinessFound(acct, run), run.args, k, Name)
    BY SaysOf
  <2> QED
    BY <1>3, <2>1, <2>2
<1> QED
  BY <1>1, <1>2, <1>4, <1>5 DEF ChildSays

\* What is held of a service is held through its children.
LEMMA HeldFurther ==
  ASSUME NEW a, NEW s \in Runs, Held(a, s), s.sids[s.n] # None, NEW r,
         \/ s.at = "integration" /\ r.at = "grouping"
         \/ s.at = "grouping" /\ r.at = "orchestration"
         \/ s.at = "orchestration" /\ r.at = "active",
         r.n = s.n, r.sids = s.sids, r.every = s.every, r.new = s.new
  PROVE  Held(a, r)
<1>1. \A m \in 1..ServiceCount : Gone(r, m) <=> Gone(s, m)
  BY DEF Gone, ServiceAts, ServicePhase, AfterServices
<1>2. s.at \in ServiceAts /\ r.at \in ServiceAts /\ s.at \in ServicePhase /\ r.at \in ServicePhase
  BY DEF ServiceAts, ServicePhase
<1>3. Ids(r)
  BY <1>1, <1>2 DEF Held, Ids
<1>4. Members(a, r) /\ Supported(a, r) /\ NewHeld(a, r)
  BY <1>2 DEF Held, Members, Supported, NewHeld
<1> QED
  BY <1>3, <1>4 DEF Held

\* It is held once the run goes on to the next.
LEMMA HeldNext ==
  ASSUME NEW a, NEW s \in Runs, Held(a, s),
         \/ s.at = "active" /\ s.sids[s.n] # None
         \/ s.at = "service" /\ Left(s.every, Services[s.n])
  PROVE  Held(a, NextService(s))
<1> DEFINE r == NextService(s)
<1>1. s.n \in 1..ServiceCount /\ s.n \in Nat /\ ServiceCount \in Nat
  BY ServiceCountType DEF Runs
<1>2. s.at \in ServicePhase
  BY DEF ServicePhase
<1>3. /\ r = [s EXCEPT !.at = r.at, !.n = r.n]
      /\ \/ s.n < ServiceCount /\ r.at = "service" /\ r.n = s.n + 1
         \/ s.n = ServiceCount /\ r.at = "slack" /\ r.n = s.n
  BY <1>2, NextPending
<1> HIDE DEF r
<1>4. r.sids = s.sids /\ r.every = s.every
  BY <1>3 DEF Runs
<1>5. \A m \in 1..ServiceCount : Gone(r, m) <=> m <= s.n
  BY <1>1, <1>3 DEF Gone, ServiceAts, ServicePhase, AfterServices
<1>6. \A m \in 1..ServiceCount : m # s.n => (Gone(s, m) <=> m <= s.n)
  BY <1>1, <1>2 DEF Gone, ServicePhase, AfterServices
<1>9. Members(a, r) /\ Supported(a, r) /\ NewHeld(a, r)
  <2>1. r.at \in {"service", "slack"}
    BY <1>3
  <2>2. \A i \in a.supports : s.every[i].name # "gone"
    BY <1>2 DEF Held, Supported
  <2> QED
    BY <1>4, <2>1, <2>2 DEF Members, Supported, NewHeld
<1>7. CASE s.at = "active" /\ s.sids[s.n] # None
  <2>1. Gone(s, s.n)
    BY <1>1, <1>7 DEF Gone, ServiceAts, ServicePhase
  <2>2. Ids(r)
    BY <1>1, <1>3, <1>4, <1>5, <1>6, <1>7, <2>1 DEF Held, Ids, ServiceAts
  <2> QED
    BY <1>9, <2>2 DEF Held, r
<1>8. CASE s.at = "service" /\ Left(s.every, Services[s.n])
  <2>1. ~Gone(s, s.n)
    BY <1>1, <1>8 DEF Gone, ServiceAts, AfterServices
  <2>2. s.sids[s.n] = None
    BY <1>1, <2>1 DEF Held, Ids
  <2>3. Ids(r)
    BY <1>1, <1>3, <1>4, <1>5, <1>6, <1>8, <2>2 DEF Held, Ids, ServiceAts, Left, Made
  <2> QED
    BY <1>9, <2>3 DEF Held, r
<1> QED
  BY <1>7, <1>8 DEF r

\* Finding, making or refusing a service.
LEMMA ServiceGoes ==
  ASSUME IInv, Known, quiet, Held(acct, run), EnsureService
  PROVE  Goes \/ Stopped
<1> DEFINE q == [Blank EXCEPT !.kind = "service", !.who = Name]
           r == [run EXCEPT !.at = "integration"]
           made == [r EXCEPT !.new = TRUE,
                      !.sids[run.n] = IF run.args.apply THEN None ELSE Placeholder]
           found(i) == [r EXCEPT !.new = FALSE, !.sids[run.n] = i]
           u(i) == [q EXCEPT !.verb = "update", !.on = i]
<1>1. /\ run \in Runs /\ req = NoReq /\ acct \in Account /\ run.at = "service"
      /\ run.n \in 1..ServiceCount /\ Name \in Names
  BY NameType DEF IInv, TypeOK, EnsureService, Step, Runs, Name
<1>2. KnownServices(acct, run)
  BY DEF Known, Sure
<1>3. SaysNow(acct, run, "service", Name)
        = IF Made(run.every, Name) THEN "create" ELSE IF Left(run.every, Name) THEN "refused"
          ELSE ServiceSays(run.every, Name)
  <2>1. Listing(acct, run) = run.every
    BY <1>1 DEF Listing, ServicePhase
  <2> QED
    BY <2>1, SaysOf DEF ChildSays, FoundSays, OfService, Children
<1>4. SameName = Called(run.every, Name) /\ Strays = Strange(run.every)
  BY DEF SameName, Strays, Strange
<1>5. Of("service", Name) /\ Pending(run, "service", Name)
  <2>1. Name \in Designed
    BY <1>1 DEF Name, Designed
  <2>2. Comes(run.at, "service")
    BY <1>1 DEF Comes
  <2> QED
    BY <1>1, <2>1, <2>2 DEF Of, OfService, Children, Pending, ServicePhase, Name
<1>6. CASE Cardinality(SameName) > 1 /\ StopRefused
  <2>1. SameName # {}
    BY <1>6, FS_EmptySet
  <2>2. SaysNow(acct, run, "service", Name) = "stop"
    BY <1>3, <1>4, <1>6, <2>1 DEF Made, Left, ServiceSays
  <2> QED
    BY <1>5, <1>6, <2>2 DEF Stopped
<1>7. CASE /\ SameName = {} /\ Strays # {}
           /\ Proceed(NextService(Say(run, "refused", "service", Name)))
  <2> DEFINE s == NextService(run)
  <2>1. run.at \in ServicePhase /\ Services[run.n] = Name
    BY <1>1 DEF ServicePhase, Name
  <2>2. Left(run.every, Name) /\ ~Made(run.every, Name)
    BY <1>4, <1>7 DEF Left, Made
  <2>3. NextService(Say(run, "refused", "service", Name)) = Say(s, "refused", "service", Name)
    BY <1>1 DEF NextService, Say, Runs
  <2>4. /\ s \in Runs /\ s = [run EXCEPT !.at = s.at, !.n = s.n]
        /\ s.at \in {"service", "slack"}
        /\ \A j \in Children : \A w : Pending(s, j, w) <=>
             \E m \in 1..ServiceCount : Services[m] = w /\ m > run.n
        /\ \A j, w : j \notin Children => (Pending(s, j, w) <=> Pending(run, j, w))
    BY <1>1, <2>1, NextPending
  <2>5. Held(acct, s)
    BY <1>1, <2>1, <2>2, HeldNext
  <2> HIDE DEF s
  <2>6. s.args = run.args /\ s.every = run.every /\ s.team = run.team /\ s.report = run.report
    BY <1>1, <2>4 DEF Runs
  <2>7. SameView(acct, run, s)
    BY <2>1, <2>4, <2>6, ServicesView DEF ServicePhase
  <2>8. Asks(s, "service", Name)
    <3>1. ~Pending(s, "service", Name)
      <4>1. ~(run.n > run.n)
        BY <1>1, ServiceCountType
      <4> QED
        BY <1>1, <2>1, <2>4, <4>1, OnePlace DEF Children
    <3>2. ASSUME NEW j \in Children, NEW w
          PROVE  Pending(run, j, w) <=> Pending(s, j, w) \/ w = Name
      <4>1. Comes(run.at, j)
        BY <1>1 DEF Comes
      <4>2. Pending(run, j, w) <=>
              \E m \in 1..ServiceCount : Services[m] = w /\ (m > run.n \/ m = run.n)
        BY <1>1, <4>1 DEF Pending, Children, ServicePhase, AfterServices
      <4> QED
        BY <1>1, <2>1, <2>4, <4>2
    <3>3. ASSUME NEW j \in Children, j # "service"
          PROVE  SaysNow(acct, run, j, Name) = "none"
      <4>1. Listing(acct, run) = run.every
        BY <1>1 DEF Listing, ServicePhase
      <4>2. j \in OfService
        BY DEF OfService
      <4> QED
        BY <2>2, <3>3, <4>1, <4>2, SaysOf DEF ChildSays
    <3> QED
      BY <1>5, <2>4, <3>1, <3>2, <3>3 DEF Asks, Passed
  <2>9. SaysNow(acct, run, "service", Name) = "refused"
    BY <1>3, <2>2
  <2> QED
    BY <1>1, <1>7, <2>3, <2>4, <2>5, <2>6, <2>7, <2>8, <2>9, MovesRefused
<1>8. ASSUME NEW s, s \in Runs, s.at = "integration", s.n = run.n, s.args = run.args,
             s.every = run.every, s.team = run.team, s.report = run.report
      PROVE  SameView(acct, run, s) /\ Asks(s, "service", Name)
  <2>1. run.at \in ServicePhase /\ s.at \in ServicePhase
    BY <1>1, <1>8 DEF ServicePhase
  <2>2. SameView(acct, run, s)
    BY <1>8, <2>1, ServicesView
  <2>3. /\ Of(run.at, Services[run.n]) /\ Pending(run, run.at, Services[run.n])
        /\ ~Pending(s, run.at, Services[run.n])
        /\ \A j, w : Of(j, w) =>
             (Pending(run, j, w) <=> Pending(s, j, w) \/ (j = run.at /\ w = Services[run.n]))
    BY <1>1, <1>8, <2>1, NextChild
  <2> QED
    BY <1>1, <2>2, <2>3 DEF Asks, Passed, Name
<1>9. ASSUME NEW m \in 1..ServiceCount, NEW s, s.at = "integration", s.n = run.n
      PROVE  Gone(s, m) <=> Gone(run, m) \/ m = run.n
  <2>1. run.n \in Nat
    BY <1>1
  <2> QED
    <3>1. Gone(s, m) <=> m < run.n \/ m = run.n
      BY <1>9 DEF Gone, ServiceAts, ServicePhase, AfterServices
    <3>2. Gone(run, m) <=> m < run.n
      BY <1>1 DEF Gone, ServiceAts, ServicePhase, AfterServices
    <3> QED
      BY <3>1, <3>2
<1>10. CASE SameName = {} /\ Strays = {} /\ Change(q, made)
  <2>1. /\ made \in Runs /\ made.every = run.every /\ made.at = "integration" /\ made.n = run.n
        /\ made.args = run.args /\ made.team = run.team /\ made.report = run.report /\ made.new
        /\ made.sids = [run.sids EXCEPT ![run.n] = IF run.args.apply THEN None ELSE Placeholder]
    BY <1>1 DEF Runs, Ats
  <2>2. q.kind = "service" /\ q.verb = "create" /\ q.who = Name
    BY DEF Blank
  <2> HIDE DEF q, made
  <2>3. Made(run.every, Name)
    BY <1>4, <1>10 DEF Made
  <2>4. /\ \A m \in 1..ServiceCount : m # run.n => made.sids[m] = run.sids[m]
        /\ made.sids[run.n] \in {None, Placeholder}
        /\ ~run.args.apply => made.sids[run.n] = Placeholder
    BY <1>1, <2>1 DEF Runs
  <2>5. Ids(made)
    <3>1. made.new /\ Made(made.every, Services[made.n])
      BY <2>1, <2>3 DEF Name
    <3>2. ASSUME NEW m \in 1..ServiceCount, m # run.n
          PROVE  IF ~Gone(made, m) THEN made.sids[m] = None
                 ELSE /\ \A i \in Called(made.every, Services[m]) :
                           Called(made.every, Services[m]) = {i} /\ made.sids[m] = i
                      /\ Left(made.every, Services[m]) => made.sids[m] = None
                      /\ Made(made.every, Services[m]) =>
                           /\ made.sids[m] \in SvcIds => made.every[made.sids[m]].name = "gone"
                           /\ made.sids[m] = None => made.at = "integration" /\ m = made.n
      <4>1. Gone(made, m) <=> Gone(run, m)
        BY <1>9, <2>1, <3>2
      <4> QED
        BY <1>1, <2>1, <2>4, <3>2, <4>1 DEF Held, Ids
    <3>3. Gone(made, run.n)
      BY <1>1, <1>9, <2>1
    <3>4. Called(made.every, Services[run.n]) = {} /\ ~Left(made.every, Services[run.n])
      BY <2>1, <2>3 DEF Made, Left, Name
    <3>5. made.sids[run.n] \notin SvcIds
      BY <2>4, SentinelAssumption
    <3> QED
      BY <2>1, <3>1, <3>2, <3>3, <3>4, <3>5 DEF Ids
  <2>6. Held(acct, made)
    <3>1. NewHeld(acct, made)
      BY <2>1, <2>4, SentinelAssumption DEF NewHeld
    <3>2. Supported(acct, made) /\ Members(acct, made)
      <4>1. \A i \in acct.supports : run.every[i].name # "gone"
        BY <1>1 DEF Held, Supported, ServicePhase
      <4> QED
        BY <2>1, <4>1 DEF Supported, Members
    <3> QED
      BY <2>5, <3>1, <3>2 DEF Held
  <2>7. SameView(acct, run, made) /\ Asks(made, "service", Name)
    BY <1>8, <2>1
  <2>8. Meant(acct, made, q)
    BY <2>2 DEF Meant, Creates
  <2>9. SaysNow(acct, run, "service", Name) = "create"
    BY <1>3, <2>3
  <2> QED
    BY <1>1, <1>10, <2>1, <2>2, <2>6, <2>7, <2>8, <2>9, MovesChange
<1>11. ASSUME NEW i \in SameName, SameName = {i},
              IF run.every[i].fields = "match" THEN Proceed(found(i))
              ELSE Change(u(i), found(i))
       PROVE  Goes
  <2>1. i \in SvcIds /\ run.every[i].name = Name /\ Called(run.every, Name) = {i}
    BY <1>4, <1>11 DEF Called
  <2>2. /\ found(i) \in Runs /\ found(i).every = run.every /\ found(i).at = "integration"
        /\ found(i).n = run.n /\ found(i).args = run.args /\ found(i).team = run.team
        /\ found(i).report = run.report /\ ~found(i).new
        /\ found(i).sids = [run.sids EXCEPT ![run.n] = i]
    BY <1>1, <2>1 DEF Runs, Ats
  <2>3. u(i).kind = "service" /\ u(i).verb = "update" /\ u(i).who = Name /\ u(i).on = i
    BY DEF Blank
  <2> HIDE DEF u, found
  <2>4. /\ \A m \in 1..ServiceCount : m # run.n => found(i).sids[m] = run.sids[m]
        /\ found(i).sids[run.n] = i
    BY <1>1, <2>2 DEF Runs
  <2>5. ~Made(run.every, Name) /\ ~Left(run.every, Name)
    BY <2>1 DEF Made, Left
  <2>6. Ids(found(i))
    <3>1. ASSUME NEW m \in 1..ServiceCount, m # run.n
          PROVE  IF ~Gone(found(i), m) THEN found(i).sids[m] = None
                 ELSE /\ \A j \in Called(found(i).every, Services[m]) :
                           Called(found(i).every, Services[m]) = {j} /\ found(i).sids[m] = j
                      /\ Left(found(i).every, Services[m]) => found(i).sids[m] = None
                      /\ Made(found(i).every, Services[m]) =>
                           /\ found(i).sids[m] \in SvcIds => found(i).every[found(i).sids[m]].name = "gone"
                           /\ found(i).sids[m] = None => found(i).at = "integration" /\ m = found(i).n
      <4>1. Gone(found(i), m) <=> Gone(run, m)
        BY <1>9, <2>2, <3>1
      <4> QED
        BY <1>1, <2>2, <2>4, <3>1, <4>1 DEF Held, Ids
    <3>2. Gone(found(i), run.n)
      BY <1>1, <1>9, <2>2
    <3> QED
      BY <2>1, <2>2, <2>4, <2>5, <3>1, <3>2 DEF Ids, Name
  <2>7. Held(acct, found(i))
    <3>1. NewHeld(acct, found(i))
      BY <2>2 DEF NewHeld
    <3>2. Supported(acct, found(i)) /\ Members(acct, found(i))
      <4>1. \A j \in acct.supports : run.every[j].name # "gone"
        BY <1>1 DEF Held, Supported, ServicePhase
      <4> QED
        BY <2>2, <4>1 DEF Supported, Members
    <3> QED
      BY <2>6, <3>1, <3>2 DEF Held
  <2>8. SameView(acct, run, found(i)) /\ Asks(found(i), "service", Name)
    BY <1>8, <2>2
  <2>9. Meant(acct, found(i), u(i))
    <3>1. acct.svc[i].name = Name
      BY <1>1, <1>2, <2>1, NamesAssumption DEF KnownServices
    <3> QED
      BY <2>1, <2>2, <2>3, <3>1 DEF Meant
  <2>10. SaysNow(acct, run, "service", Name) = IF run.every[i].fields = "match" THEN "none" ELSE "update"
    <3>1. ~(Cardinality(Called(run.every, Name)) > 1)
      <4>1. Cardinality({i}) = 1
        BY FS_Singleton
      <4> QED
        BY <2>1, <4>1
    <3> QED
      BY <1>3, <2>1, <2>5, <3>1 DEF ServiceSays
  <2> QED
    BY <1>1, <1>11, <2>2, <2>3, <2>7, <2>8, <2>9, <2>10, MovesPast, MovesChange
<1> QED
  BY <1>6, <1>7, <1>10, <1>11 DEF EnsureService

\* A step for a child asks about that child.
LEMMA ChildStep ==
  ASSUME IInv, Held(acct, run), req = NoReq, NEW r,
         \/ run.at = "integration" /\ r = [run EXCEPT !.at = "grouping"]
         \/ run.at = "grouping" /\ r = [run EXCEPT !.at = "orchestration"]
         \/ run.at = "orchestration" /\ r = [run EXCEPT !.at = "active"]
         \/ run.at = "active" /\ r = NextService(run)
  PROVE  /\ r \in Runs /\ r.at # "idle" /\ r.report = run.report /\ r.args = run.args
         /\ r.every = run.every
         /\ SameView(acct, run, r) /\ Held(acct, r) /\ Asks(r, run.at, Name)
<1>1. run.at \in ServiceAts /\ run.at \in ServicePhase /\ run.at \in Children
  BY DEF ServiceAts, ServicePhase, Children
<1>2. run \in Runs /\ run.n \in 1..ServiceCount /\ run.sids[run.n] # None /\ Services[run.n] = Name
  BY <1>1, AtService DEF Sid, Name
<1>3. CASE run.at # "active"
  <2>1. /\ r \in Runs /\ r.report = run.report /\ r.args = run.args /\ r.every = run.every
        /\ r.team = run.team /\ r.n = run.n /\ r.sids = run.sids /\ r.new = run.new
        /\ \/ run.at = "integration" /\ r.at = "grouping"
           \/ run.at = "grouping" /\ r.at = "orchestration"
           \/ run.at = "orchestration" /\ r.at = "active"
    BY <1>2, <1>3 DEF Runs, Ats
  <2>2. Held(acct, r)
    BY <1>2, <2>1, HeldFurther
  <2>3. r.at \in ServicePhase /\ r.at # "idle"
    BY <2>1 DEF ServicePhase
  <2>4. SameView(acct, run, r)
    BY <1>1, <2>1, <2>3, ServicesView
  <2>5. Asks(r, run.at, Name)
    <3>1. /\ Of(run.at, Services[run.n]) /\ Pending(run, run.at, Services[run.n])
          /\ ~Pending(r, run.at, Services[run.n])
          /\ \A j, w : Of(j, w) =>
               (Pending(run, j, w) <=> Pending(r, j, w) \/ (j = run.at /\ w = Services[run.n]))
      BY <1>1, <1>2, <2>1, NextChild
    <3> QED
      BY <1>2, <3>1 DEF Asks, Passed
  <2> QED
    BY <2>1, <2>2, <2>3, <2>4, <2>5
<1>4. CASE run.at = "active"
  <2>1. r = NextService(run)
    BY <1>4
  <2>2. /\ r \in Runs /\ r = [run EXCEPT !.at = r.at, !.n = r.n]
        /\ r.at \in {"service", "slack"}
        /\ \A j \in Children : \A w : Pending(r, j, w) <=>
             \E m \in 1..ServiceCount : Services[m] = w /\ m > run.n
        /\ \A j, w : j \notin Children => (Pending(r, j, w) <=> Pending(run, j, w))
    BY <1>1, <1>2, <2>1, NextPending
  <2>3. Held(acct, r)
    BY <1>2, <1>4, <2>1, HeldNext
  <2>4. /\ r.args = run.args /\ r.every = run.every /\ r.team = run.team /\ r.report = run.report
        /\ r.at # "idle" /\ r.at \in ServicePhase \cup {"slack"}
    BY <1>2, <2>2 DEF Runs, ServicePhase
  <2>5. SameView(acct, run, r)
    BY <1>1, <2>4, ServicesView
  <2>6. Asks(r, "active", Name)
    <3>1. ASSUME NEW j \in Children, NEW w
          PROVE  Pending(run, j, w) <=> Pending(r, j, w) \/ (j = "active" /\ w = Name)
      <4>1. Pending(run, j, w) <=> \E m \in 1..ServiceCount :
              Services[m] = w /\ (m > run.n \/ (m = run.n /\ j = "active"))
        BY <1>4, <3>1 DEF Pending, Comes, Children, ServicePhase, AfterServices
      <4> QED
        BY <1>2, <2>2, <4>1
    <3>2. ~Pending(r, "active", Name)
      <4>1. ~(run.n > run.n)
        BY <1>2, ServiceCountType
      <4> QED
        BY <1>2, <2>2, <4>1, OnePlace DEF Children
    <3>3. Of("active", Name)
      BY <1>2 DEF Of, OfService, Children, Designed
    <3>4. Pending(run, "active", Name)
      BY <3>1 DEF Children
    <3> QED
      BY <2>2, <3>1, <3>2, <3>3, <3>4 DEF Asks, Passed
  <2> QED
    BY <1>4, <2>2, <2>3, <2>4, <2>5, <2>6
<1> QED
  BY <1>3, <1>4

\* A write to a service is under its name.
LEMMA SidMeant ==
  ASSUME IInv, Known, quiet, Held(acct, run), run.at \in ServiceAts, req = NoReq, run.args.apply
  PROVE  /\ Sid \in SvcIds /\ run.every[Sid].name \in {Name, "gone"} /\ acct.svc[Sid].name = Name
         /\ run.new /\ run.at \in {"integration", "grouping"} => Holding(acct, Sid) = {}
<1>1. run \in Runs /\ run.n \in 1..ServiceCount
  BY AtService
<1>2. Sid \in SvcIds /\ acct.svc[Sid].name = Name
  BY SidThere
<1>3. CASE run.new
  <2>1. Gone(run, run.n)
    BY DEF Gone, ServiceAts, ServicePhase
  <2>2. Made(run.every, Services[run.n])
    BY <1>3 DEF Held, Ids
  <2>3. run.every[Sid].name = "gone"
    BY <1>1, <1>2, <2>1, <2>2 DEF Held, Ids, Sid
  <2> QED
    BY <1>2, <2>3 DEF Held, NewHeld, Sid
<1>4. CASE ~run.new
  <2>1. Called(run.every, Name) = {Sid}
    BY <1>4, AtService
  <2> QED
    BY <1>2, <1>4, <2>1 DEF Called
<1> QED
  BY <1>3, <1>4

\* The integration, the orchestration and the switch of a service.
LEMMA ChildrenGo ==
  ASSUME IInv, Known, quiet, Held(acct, run),
         EnsureIntegration \/ EnsureOrchestration \/ EnsureActive
  PROVE  Goes
<1>1. run.at \in ServiceAts /\ req = NoReq
  BY DEF EnsureIntegration, EnsureOrchestration, EnsureActive, Step, ServiceAts
<1>2. /\ run \in Runs /\ run.n \in 1..ServiceCount
      /\ IF run.new THEN Made(run.every, Name)
         ELSE Called(run.every, Name) = {Sid} /\ Sid \in SvcIds
      /\ \A k \in Children : SaysNow(acct, run, k, Name) =
           IF run.new THEN "create"
           ELSE FoundSays(acct, run.every, BusinessFound(acct, run), run.args, k, Name)
  BY <1>1, AtService
<1>3. ASSUME NEW q, q.on = Sid, q.who = Name, q.kind # "grouping", NEW r, r.every = run.every,
             run.args.apply
      PROVE  Meant(acct, r, q)
  BY <1>1, <1>3, SidMeant DEF Meant
<1>4. CASE EnsureIntegration
  <2> DEFINE q == [Blank EXCEPT !.kind = "integration", !.who = Name, !.on = Sid]
             r == [run EXCEPT !.at = "grouping"]
  <2>1. /\ run.at = "integration"
        /\ IF ~run.new /\ run.every[Sid].integ THEN Proceed(r) ELSE Change(q, r)
    BY <1>4 DEF EnsureIntegration, Step
  <2>2. q.kind = "integration" /\ q.who = Name /\ q.verb = "create" /\ q.on = Sid
    BY DEF Blank
  <2>3. r = [run EXCEPT !.at = "grouping"]
    OBVIOUS
  <2> HIDE DEF q, r
  <2>4. /\ r \in Runs /\ r.at # "idle" /\ r.report = run.report /\ r.args = run.args
        /\ r.every = run.every
        /\ SameView(acct, run, r) /\ Held(acct, r) /\ Asks(r, "integration", Name)
    BY <1>1, <2>1, <2>3, ChildStep
  <2>5. SaysNow(acct, run, "integration", Name)
          = IF ~run.new /\ run.every[Sid].integ THEN "none" ELSE "create"
    BY <1>2 DEF FoundSays, IntegrationSays, Children
  <2>6. run.args.apply => Meant(acct, r, q)
    BY <1>3, <2>2, <2>4
  <2> QED
    BY <1>1, <2>1, <2>2, <2>4, <2>5, <2>6, MovesPast, MovesChange
<1>5. CASE EnsureOrchestration
  <2> DEFINE q == [Blank EXCEPT !.kind = "orchestration", !.who = Name, !.on = Sid]
             made == [q EXCEPT !.back = "severity"]
             put == [q EXCEPT !.verb = "update", !.back = Restorable(Sid)]
             r == [run EXCEPT !.at = "active"]
  <2>1. /\ run.at = "orchestration"
        /\ IF run.new THEN Change(made, r)
           ELSE IF acct.svc[Sid].orch = "design" THEN Proceed(r) ELSE Change(put, r)
    BY <1>5 DEF EnsureOrchestration, Step, Reads
  <2>2. /\ made.kind = "orchestration" /\ made.who = Name /\ made.verb = "create" /\ made.on = Sid
        /\ put.kind = "orchestration" /\ put.who = Name /\ put.verb = "update" /\ put.on = Sid
    BY DEF Blank
  <2>3. r = [run EXCEPT !.at = "active"]
    OBVIOUS
  <2> HIDE DEF q, made, put, r
  <2>4. /\ r \in Runs /\ r.at # "idle" /\ r.report = run.report /\ r.args = run.args
        /\ r.every = run.every
        /\ SameView(acct, run, r) /\ Held(acct, r) /\ Asks(r, "orchestration", Name)
    BY <1>1, <2>1, <2>3, ChildStep
  <2>5. SaysNow(acct, run, "orchestration", Name)
          = IF run.new THEN "create" ELSE IF acct.svc[Sid].orch = "design" THEN "none" ELSE "update"
    BY <1>2 DEF FoundSays, OrchestrationSays, Children
  <2>6. run.args.apply => Meant(acct, r, made) /\ Meant(acct, r, put)
    BY <1>3, <2>2, <2>4
  <2> QED
    BY <1>1, <2>1, <2>2, <2>4, <2>5, <2>6, MovesPast, MovesChange
<1>6. CASE EnsureActive
  <2> DEFINE q == [Blank EXCEPT !.kind = "active", !.who = Name, !.on = Sid]
             u == [q EXCEPT !.verb = "update"]
             r == NextService(run)
  <2>1. /\ run.at = "active"
        /\ IF run.new THEN Change(q, r)
           ELSE IF acct.svc[Sid].active THEN Proceed(r) ELSE Change(u, r)
    BY <1>6 DEF EnsureActive, Step, Reads
  <2>2. /\ q.kind = "active" /\ q.who = Name /\ q.verb = "create" /\ q.on = Sid
        /\ u.kind = "active" /\ u.who = Name /\ u.verb = "update" /\ u.on = Sid
    BY DEF Blank
  <2>3. r = NextService(run)
    OBVIOUS
  <2> HIDE DEF q, u, r
  <2>4. /\ r \in Runs /\ r.at # "idle" /\ r.report = run.report /\ r.args = run.args
        /\ r.every = run.every
        /\ SameView(acct, run, r) /\ Held(acct, r) /\ Asks(r, "active", Name)
    BY <1>1, <2>1, <2>3, ChildStep
  <2>5. SaysNow(acct, run, "active", Name)
          = IF run.new THEN "create" ELSE IF acct.svc[Sid].active THEN "none" ELSE "update"
    BY <1>2 DEF FoundSays, ActiveSays, Children
  <2>6. run.args.apply => Meant(acct, r, q) /\ Meant(acct, r, u)
    BY <1>3, <2>2, <2>4
  <2> QED
    BY <1>1, <2>1, <2>2, <2>4, <2>5, <2>6, MovesPast, MovesChange
<1> QED
  BY <1>4, <1>5, <1>6

\* The alert grouping of a service.
LEMMA GroupingGoes ==
  ASSUME IInv, Known, quiet, Held(acct, run), EnsureGrouping
  PROVE  Goes
<1> DEFINE q == [Blank EXCEPT !.kind = "grouping", !.who = Name, !.on = Sid,
                              !.type = run.preferred, !.members = {Sid}]
           u(g) == [q EXCEPT !.verb = "update", !.setting = g, !.members = Holders(g)]
           r == [run EXCEPT !.at = "orchestration"]
<1>1. run.at = "grouping" /\ run.at \in ServiceAts /\ req = NoReq
  BY DEF EnsureGrouping, Step, ServiceAts
<1>2. /\ run \in Runs /\ run.n \in 1..ServiceCount
      /\ IF run.new THEN Made(run.every, Name)
         ELSE Called(run.every, Name) = {Sid} /\ Sid \in SvcIds
      /\ SaysNow(acct, run, "grouping", Name) =
           IF run.new THEN "create" ELSE GroupingSays(acct, run.every, run.args, Name)
  BY <1>1, AtService DEF FoundSays, Children
<1>3. \/ ((run.new /\ ~run.args.apply) \/ Holding(acct, Sid) = {}) /\ Change(q, r)
      \/ /\ ~(run.new /\ ~run.args.apply) /\ Cardinality(Holding(acct, Sid)) > 1
         /\ Proceed(Say(r, "refused", "grouping", Name))
      \/ /\ ~(run.new /\ ~run.args.apply)
         /\ \E g \in Holding(acct, Sid) :
              /\ Holding(acct, Sid) = {g}
              /\ IF Acceptable(acct.grp[g].type) THEN Proceed(r) ELSE Change(u(g), r)
  BY DEF EnsureGrouping, Holding
<1>4. /\ q.kind = "grouping" /\ q.who = Name /\ q.verb = "create" /\ q.on = Sid
      /\ \A g : /\ u(g).kind = "grouping" /\ u(g).who = Name /\ u(g).verb = "update"
                /\ u(g).on = Sid /\ u(g).setting = g
  BY DEF Blank
<1>5. r = [run EXCEPT !.at = "orchestration"]
  OBVIOUS
<1> HIDE DEF q, u, r
<1>6. /\ r \in Runs /\ r.at # "idle" /\ r.report = run.report /\ r.args = run.args
      /\ r.every = run.every
      /\ SameView(acct, run, r) /\ Held(acct, r) /\ Asks(r, "grouping", Name)
  BY <1>1, <1>5, ChildStep
<1>7. ~run.new => HeldBy(acct, run.every, Name) = Holding(acct, Sid)
  BY <1>2 DEF HeldBy, Holding
<1>8. run.new /\ run.args.apply => Holding(acct, Sid) = {}
  BY <1>1, SidMeant
<1>9. CASE ((run.new /\ ~run.args.apply) \/ Holding(acct, Sid) = {}) /\ Change(q, r)
  <2>1. SaysNow(acct, run, "grouping", Name) = "create"
    BY <1>2, <1>7, <1>9 DEF GroupingSays
  <2>2. run.args.apply => Meant(acct, r, q)
    BY <1>1, <1>4, <1>6, SidMeant DEF Meant
  <2> QED
    BY <1>1, <1>4, <1>6, <1>9, <2>1, <2>2, MovesChange
<1>10. CASE /\ ~(run.new /\ ~run.args.apply) /\ Cardinality(Holding(acct, Sid)) > 1
            /\ Proceed(Say(r, "refused", "grouping", Name))
  <2>1. Holding(acct, Sid) # {}
    BY <1>10, FS_EmptySet
  <2>2. SaysNow(acct, run, "grouping", Name) = "refused"
    BY <1>2, <1>7, <1>8, <1>10, <2>1 DEF GroupingSays
  <2> QED
    BY <1>1, <1>6, <1>10, <2>2, MovesRefused
<1>11. ASSUME ~(run.new /\ ~run.args.apply), NEW g \in Holding(acct, Sid), Holding(acct, Sid) = {g},
              IF Acceptable(acct.grp[g].type) THEN Proceed(r) ELSE Change(u(g), r)
       PROVE  Goes
  <2>1. ~run.new
    BY <1>8, <1>11
  <2>2. ~(Cardinality(Holding(acct, Sid)) > 1)
    <3>1. Cardinality({g}) = 1
      BY FS_Singleton
    <3> QED
      BY <1>11, <3>1
  <2>3. Acceptable(acct.grp[g].type) <=> Enough(run.args, acct.grp[g].type)
    BY DEF Acceptable, Enough
  <2>4. SaysNow(acct, run, "grouping", Name)
          = IF Enough(run.args, acct.grp[g].type) THEN "none" ELSE "update"
    BY <1>2, <1>7, <1>11, <2>1, <2>2 DEF GroupingSays
  <2>5. ~Enough(run.args, acct.grp[g].type) /\ run.args.apply => Meant(acct, r, u(g))
    BY <1>1, <1>4, <1>6, SidMeant DEF Meant
  <2> QED
    BY <1>1, <1>4, <1>6, <1>11, <2>3, <2>4, <2>5, MovesPast, MovesChange
<1> QED
  BY <1>3, <1>9, <1>10, <1>11

-----------------------------------------------------------------------------
(* The steps after the services *)

\* The report of slack, the business service and the list of what supports it.
LEMMA BusinessGoes ==
  ASSUME IInv, Held(acct, run), ReportSlack \/ EnsureBusiness \/ ListSupports
  PROVE  Goes \/ Stopped
<1>1. run \in Runs /\ req = NoReq /\ acct \in Account
  BY DEF IInv, TypeOK, ReportSlack, EnsureBusiness, ListSupports, Step
<1> USE DEF AfterTeam, AfterSchedule, AfterPolicy, AfterServices, AfterBusiness, ServicePhase
<1>2. CASE ReportSlack
  <2> DEFINE r == [run EXCEPT !.at = "business"]
  <2>1. /\ r.at = "business" /\ r.args = run.args /\ r.report = run.report /\ r.sids = run.sids
        /\ r.every = run.every /\ r.team = run.team
    BY <1>1 DEF Runs
  <2>2. run.at = "slack" /\ Proceed(r)
    BY <1>2 DEF ReportSlack, Step
  <2> HIDE DEF r
  <2>3. Members(acct, r) /\ Supported(acct, r)
    BY <2>1, <2>2 DEF Members, Supported, Held
  <2>4. Held(acct, r)
    BY <2>1, <2>2, <2>3, SameHeld
  <2>5. SameView(acct, run, r)
    BY <2>1, <2>2 DEF SameView, Listing, TeamFound, BusinessFound
  <2>6. \A k, w : Of(k, w) => (Pending(r, k, w) <=> Pending(run, k, w))
    BY <2>1, <2>2 DEF Pending
  <2> QED
    BY <1>1, <2>1, <2>2, <2>4, <2>5, <2>6, MovesOn
<1>3. CASE EnsureBusiness
  <2> DEFINE r(t) == [run EXCEPT !.at = "listing_supports", !.business = t]
  <2>1. ASSUME NEW t \in HeldIds
        PROVE  /\ r(t).at = "listing_supports" /\ r(t).args = run.args /\ r(t).report = run.report
               /\ r(t).sids = run.sids /\ r(t).every = run.every /\ r(t).team = run.team
               /\ r(t).business = t /\ r(t) \in Runs
    BY <1>1 DEF Runs, Ats
  <2>2. run.at = "business"
    BY <1>3 DEF EnsureBusiness, Step
  <2>3. PICK t \in HeldIds :
          /\ t = "found" <=> Exists(acct, "business")
          /\ \/ acct.named["business"] = "twins" /\ StopRefused
             \/ acct.named["business"] = "absent" /\ Change([Blank EXCEPT !.kind = "business"], r(t))
             \/ /\ acct.named["business"] = "drift"
                /\ Change([[Blank EXCEPT !.kind = "business"] EXCEPT !.verb = "update"], r(t))
             \/ acct.named["business"] = "match" /\ Proceed(r(t))
    <3>1. CASE acct.named["business"] = "absent"
      <4>1. r(NewId) = [[run EXCEPT !.at = "listing_supports", !.business = "found"]
                          EXCEPT !.business = NewId]
        BY <1>1 DEF Runs
      <4>2. NewId \in HeldIds /\ NewId # "found"
        BY DEF NewId, HeldIds
      <4> QED
        BY <1>3, <3>1, <4>1, <4>2 DEF EnsureBusiness, Exists
    <3>2. CASE acct.named["business"] # "absent"
      BY <1>3, <3>2 DEF EnsureBusiness, HeldIds, Exists
    <3> QED
      BY <3>1, <3>2
  <2> HIDE DEF r
  <2>4. Members(acct, r(t)) /\ Supported(acct, r(t))
    BY <2>1, <2>2 DEF Members, Supported, Held
  <2>5. Held(acct, r(t))
    BY <2>1, <2>2, <2>4, SameHeld
  <2>6. SameView(acct, run, r(t))
    BY <2>1, <2>2, <2>3 DEF SameView, Listing, TeamFound, BusinessFound
  <2>7. \A j, u : Of(j, u) => (Pending(run, j, u) <=> Pending(r(t), j, u) \/ j = "business")
    BY <2>1, <2>2 DEF Pending, Of, Kinds, OfService, Children
  <2>8. ~Pending(r(t), "business", "-")
    BY <2>1 DEF Pending, Children
  <2> QED
    BY <1>1, <2>1, <2>3, <2>5, <2>6, <2>7, <2>8, NamedGoes DEF Kinds
<1>4. CASE ListSupports
  <2> DEFINE r == [run EXCEPT !.at = "supports", !.n = 1,
                         !.supporting = IF run.business = "found" THEN acct.supports ELSE {}]
  <2>1. /\ r.at = "supports" /\ r.args = run.args /\ r.report = run.report /\ r.sids = run.sids
        /\ r.every = run.every /\ r.team = run.team /\ r.business = run.business /\ r.n = 1
        /\ r.supporting = IF run.business = "found" THEN acct.supports ELSE {}
    BY <1>1 DEF Runs
  <2>2. run.at = "listing_supports" /\ Proceed(r)
    BY <1>4 DEF ListSupports, Step
  <2> HIDE DEF r
  <2>3. \A i \in acct.supports : run.every[i].name # "gone"
    BY <2>2 DEF Held, Supported
  <2>4. Members(acct, r) /\ Supported(acct, r)
    BY <2>1, <2>3 DEF Members, Supported
  <2>5. Held(acct, r)
    BY <2>1, <2>2, <2>4, SameHeld
  <2>6. SameView(acct, run, r)
    BY <2>1, <2>2 DEF SameView, Listing, TeamFound, BusinessFound
  <2>7. \A m \in 1..ServiceCount : m >= r.n
    BY <2>1, ServiceCountType
  <2>8. \A k, w : Of(k, w) => (Pending(r, k, w) <=> Pending(run, k, w))
    <3>1. ASSUME NEW w \in Designed PROVE Pending(r, "support", w)
      BY <2>1, <2>7 DEF Pending, Designed
    <3>2. ASSUME NEW w PROVE Pending(run, "support", w)
      BY <2>2 DEF Pending
    <3>3. ASSUME NEW k, NEW w, k # "support" PROVE Pending(r, k, w) <=> Pending(run, k, w)
      BY <2>1, <2>2, <3>3 DEF Pending
    <3> QED
      BY <3>1, <3>2, <3>3 DEF Of, Kinds
  <2> QED
    BY <1>1, <2>1, <2>2, <2>5, <2>6, <2>8, MovesOn
<1> QED
  BY <1>2, <1>3, <1>4

\* The business service's support by a service.
LEMMA SupportGoes ==
  ASSUME IInv, Known, quiet, Held(acct, run), EnsureSupport
  PROVE  Goes
<1> DEFINE q == [Blank EXCEPT !.kind = "support", !.who = Name, !.on = Sid]
           r == IF run.n < ServiceCount THEN [run EXCEPT !.n = @ + 1]
                ELSE [run EXCEPT !.at = "rules", !.left = People]
<1>1. /\ run \in Runs /\ req = NoReq /\ acct \in Account /\ run.at = "supports"
      /\ run.n \in 1..ServiceCount /\ run.n \in Nat /\ ServiceCount \in Nat
  BY ServiceCountType DEF IInv, TypeOK, EnsureSupport, Step, Runs
<1>2. IF Sid = None \/ Sid \in run.supporting THEN Proceed(r) ELSE Change(q, r)
  BY DEF EnsureSupport
<1>3. q.kind = "support" /\ q.who = Name /\ q.verb = "create" /\ q.on = Sid
  BY DEF Blank
<1>4. /\ r \in Runs /\ r.args = run.args /\ r.report = run.report /\ r.sids = run.sids
      /\ r.every = run.every /\ r.team = run.team /\ r.business = run.business
      /\ r.supporting = run.supporting
      /\ \/ r.at = "supports" /\ r.n = run.n + 1
         \/ r.at = "rules" /\ r.left = People /\ run.n = ServiceCount
  <2>1. CASE run.n < ServiceCount
    <3>1. run.n + 1 \in 1..ServiceCount
      BY <1>1, <2>1
    <3> QED
      BY <1>1, <2>1, <3>1 DEF Runs
  <2>2. CASE ~(run.n < ServiceCount)
    <3>1. run.n = ServiceCount
      BY <1>1, <2>2
    <3> QED
      BY <1>1, <2>2, <3>1 DEF Runs, Ats
  <2> QED
    BY <2>1, <2>2
<1> HIDE DEF q, r
<1>5. \A m \in 1..ServiceCount : m >= run.n <=> m = run.n \/ (r.at = "supports" /\ m >= r.n)
  BY <1>1, <1>4
<1>6. Services[run.n] = Name /\ Name \in Designed
  BY <1>1 DEF Name, Designed
<1>7. Held(acct, r)
  <2>1. Supported(acct, r)
    BY <1>1, <1>4, <1>5 DEF Held, Supported, ServicePhase
  <2>2. Members(acct, r)
    BY <1>4 DEF Members
  <2>3. r.at \in {"supports", "rules"}
    BY <1>4
  <2> QED
    BY <1>1, <1>4, <2>1, <2>2, <2>3, SameHeld DEF ServicePhase, AfterServices
<1>8. SameView(acct, run, r)
  <2>1. r.at \in {"supports", "rules"}
    BY <1>4
  <2> QED
    BY <1>1, <1>4, <2>1 DEF SameView, Listing, TeamFound, BusinessFound, AfterTeam, AfterSchedule,
                            AfterPolicy, AfterServices, AfterBusiness, ServicePhase
<1>9. Asks(r, "support", Name)
  <2>1. Of("support", Name)
    BY <1>6 DEF Of, OfService
  <2>2. ASSUME NEW w PROVE /\ Pending(run, "support", w) <=>
                                \E m \in 1..ServiceCount : Services[m] = w /\ m >= run.n
                           /\ Pending(r, "support", w) <=> \E m \in 1..ServiceCount :
                                Services[m] = w /\ r.at = "supports" /\ m >= r.n
    BY <1>1, <1>4 DEF Pending, Children
  <2>3. ASSUME NEW w PROVE Pending(run, "support", w) <=> Pending(r, "support", w) \/ w = Name
    BY <1>1, <1>5, <1>6, <2>2
  <2>4. ~Pending(r, "support", Name)
    <3>1. ~(r.at = "supports" /\ run.n >= r.n)
      BY <1>1, <1>4
    <3> QED
      BY <1>1, <1>6, <2>2, <3>1, OnePlace
  <2>5. ASSUME NEW k, NEW w, k # "support", Of(k, w) PROVE Pending(r, k, w) <=> Pending(run, k, w)
    <3>1. r.at \in {"supports", "rules"} /\ (r.at = "rules" => r.left = People)
      BY <1>4
    <3>2. k = "rule" => w \in People
      BY <2>5 DEF Of, Kinds, OfService, Children
    <3> QED
      BY <1>1, <2>5, <3>1, <3>2 DEF Pending, AfterTeam, AfterSchedule, AfterPolicy, AfterServices,
                                    AfterBusiness, ServicePhase
  <2> QED
    BY <2>1, <2>3, <2>4, <2>5 DEF Asks, Passed
<1>10. Gone(run, run.n) /\ run.sids[run.n] = Sid
  BY <1>1 DEF Gone, AfterServices, Sid
<1>11. SaysNow(acct, run, "support", Name) =
         IF Made(run.every, Name) THEN "create" ELSE IF Left(run.every, Name) THEN "none"
         ELSE IF run.business = "found" /\ Called(run.every, Name) \subseteq acct.supports
              THEN "none" ELSE "create"
  <2>1. Listing(acct, run) = run.every /\ (BusinessFound(acct, run) <=> run.business = "found")
    BY <1>1 DEF Listing, BusinessFound, AfterServices, AfterBusiness
  <2>2. SaysNow(acct, run, "support", Name)
          = ChildSays(acct, Listing(acct, run), BusinessFound(acct, run), run.args, "support", Name)
    <3>1. "support" \in OfService
      BY DEF OfService
    <3>2. ASSUME NEW k \in OfService
          PROVE  SaysNow(acct, run, k, Name)
                   = ChildSays(acct, Listing(acct, run), BusinessFound(acct, run), run.args, k, Name)
      BY SaysOf
    <3> QED
      BY <3>1, <3>2
  <2>3. SupportSays(acct, run.every, BusinessFound(acct, run), Name) =
          IF run.business = "found" /\ Called(run.every, Name) \subseteq acct.supports
          THEN "none" ELSE "create"
    BY <2>1 DEF SupportSays
  <2> QED
    BY <2>1, <2>2, <2>3 DEF ChildSays, FoundSays
<1>12. run.supporting \subseteq SvcIds
  BY <1>1 DEF Runs
<1>13. /\ SaysNow(acct, run, "support", Name)
             = IF Sid = None \/ Sid \in run.supporting THEN "none" ELSE "create"
       /\ Sid \in SvcIds => run.every[Sid].name \in {Name, "gone"}
  <2>1. CASE Made(run.every, Name)
    <3>1. Sid # None /\ (Sid \in SvcIds => run.every[Sid].name = "gone")
      BY <1>1, <1>6, <1>10, <2>1 DEF Held, Ids
    <3>2. Sid \notin run.supporting
      BY <1>1, <1>12, <3>1 DEF Held, Supported
    <3> QED
      BY <1>11, <2>1, <3>1, <3>2
  <2>2. CASE Left(run.every, Name)
    <3>1. Sid = None
      BY <1>1, <1>6, <1>10, <2>2 DEF Held, Ids
    <3> QED
      BY <1>11, <2>2, <3>1, SentinelAssumption DEF Made, Left
  <2>3. CASE ~Made(run.every, Name) /\ ~Left(run.every, Name)
    <3>1. PICK i \in Called(run.every, Name) : Called(run.every, Name) = {i} /\ Sid = i
      BY <1>1, <1>6, <1>10, <2>3 DEF Held, Ids, Made, Left
    <3>2. i \in SvcIds /\ run.every[i].name = Name /\ i # None
      BY <3>1, SentinelAssumption DEF Called
    <3>3. i \in run.supporting <=> run.business = "found" /\ i \in acct.supports
      <4>1. run.n >= run.n
        BY <1>1
      <4> QED
        BY <1>1, <1>6, <3>1, <4>1 DEF Held, Supported
    <3> QED
      BY <1>11, <2>3, <3>1, <3>2, <3>3
  <2> QED
    BY <2>1, <2>2, <2>3
<1>14. run.args.apply /\ Sid # None => Meant(acct, r, q)
  <2> SUFFICES ASSUME run.args.apply, Sid # None PROVE Meant(acct, r, q)
    OBVIOUS
  <2>1. Sid \in SvcIds
    <3>1. Sid \in SvcIds \cup {Placeholder, None}
      BY <1>1 DEF Runs, Sid
    <3>2. Sid # Placeholder
      BY <1>1 DEF IInv, Control, SoundRun, Sid
    <3> QED
      BY <3>1, <3>2
  <2>2. acct.svc[Sid].name = Name
    BY <1>1, <1>6, <1>10, <2>1 DEF Known, Sure, KnownServices
  <2> QED
    BY <1>3, <1>4, <1>13, <2>1, <2>2 DEF Meant
<1>15. r.at # "idle"
  BY <1>4
<1> QED
  BY <1>1, <1>2, <1>3, <1>4, <1>7, <1>8, <1>9, <1>13, <1>14, <1>15, MovesPast, MovesChange

\* The notification rules.
LEMMA RuleGoes ==
  ASSUME IInv, Held(acct, run), EnsureRule
  PROVE  Goes
<1>1. run \in Runs /\ req = NoReq /\ acct \in Account
  BY DEF IInv, TypeOK, EnsureRule, Step
<1> USE DEF AfterTeam, AfterSchedule, AfterPolicy, AfterServices, AfterBusiness, ServicePhase
<1>2. PICK p \in run.left :
        LET r == [run EXCEPT !.left = @ \ {p},
                             !.at = IF run.left = {p} THEN "end" ELSE @]
            q == [Blank EXCEPT !.kind = "rule", !.who = p]
        IN  IF acct.rule[p] = "missing" /\ run.args.addRules THEN Change(q, r) ELSE Proceed(r)
  BY DEF EnsureRule
<1> DEFINE r == [run EXCEPT !.left = @ \ {p},
                            !.at = IF run.left = {p} THEN "end" ELSE @]
           q == [Blank EXCEPT !.kind = "rule", !.who = p]
<1>3. run.at = "rules" /\ p \in People
  BY <1>1 DEF EnsureRule, Step, Runs
<1>4. /\ r.at = IF run.left = {p} THEN "end" ELSE "rules"
      /\ r.args = run.args /\ r.report = run.report
      /\ r.team = run.team /\ r.business = run.business /\ r.every = run.every /\ r.sids = run.sids
      /\ r.left = run.left \ {p} /\ r \in Runs
  BY <1>1, <1>3 DEF Runs, Ats
<1>5. q.kind = "rule" /\ q.who = p /\ q.verb = "create"
  BY DEF Blank
<1>6. IF acct.rule[p] = "missing" /\ run.args.addRules THEN Change(q, r) ELSE Proceed(r)
  BY <1>2
<1> HIDE DEF r, q
<1>7. Members(acct, r) /\ Supported(acct, r)
  BY <1>3, <1>4 DEF Members, Supported, Held
<1>8. Held(acct, r)
  BY <1>3, <1>4, <1>7, SameHeld
<1>9. SameView(acct, run, r)
  BY <1>3, <1>4 DEF SameView, Listing, TeamFound, BusinessFound
<1>10. Asks(r, "rule", p)
  <2>1. Of("rule", p)
    BY <1>3 DEF Of
  <2>2. Pending(run, "rule", p) /\ ~Pending(r, "rule", p)
    BY <1>3, <1>4 DEF Pending, Children
  <2>3. ASSUME NEW j, NEW u, Of(j, u)
        PROVE  Pending(run, j, u) <=> Pending(r, j, u) \/ (j = "rule" /\ u = p)
    BY <1>3, <1>4, <2>3 DEF Pending, Of, Kinds, OfService, Children
  <2> QED
    BY <2>1, <2>2, <2>3 DEF Asks, Passed
<1>11. SaysNow(acct, run, "rule", p)
         = IF acct.rule[p] = "missing" /\ run.args.addRules THEN "create" ELSE "none"
  BY SaysOf DEF RuleSays
<1>12. Meant(acct, r, q)
  BY <1>5 DEF Meant, KindOf, OfService, Children
<1>13. r.at # "idle"
  BY <1>4
<1> QED
  BY <1>1, <1>3, <1>4, <1>5, <1>6, <1>8, <1>9, <1>10, <1>11, <1>12, <1>13, MovesPast, MovesChange

-----------------------------------------------------------------------------
(* The run's own steps *)

\* A step of a run goes on, or ends it.
LEMMA EnsureGoes ==
  ASSUME IInv, Known, quiet, SupportsHold(acct), Held(acct, run), Ensure
  PROVE  Goes \/ Stopped \/ End \/ ReadGone
<1>1. CASE Preflight \/ EnsureTeam
  BY <1>1, TeamGoes
<1>2. CASE ListMembers \/ EnsureMember
  BY <1>2, MembersGo
<1>3. CASE EnsureSchedule \/ EnsurePolicy
  BY <1>3, ParentsGo
<1>4. CASE ListServices
  BY <1>4, ListingGoes
<1>5. CASE EnsureService
  BY <1>5, ServiceGoes
<1>6. CASE EnsureIntegration \/ EnsureOrchestration \/ EnsureActive
  BY <1>6, ChildrenGo
<1>7. CASE EnsureGrouping
  BY <1>7, GroupingGoes
<1>8. CASE ReportSlack \/ EnsureBusiness \/ ListSupports
  BY <1>8, BusinessGoes
<1>9. CASE EnsureSupport
  BY <1>9, SupportGoes
<1>10. CASE EnsureRule
  BY <1>10, RuleGoes
<1> QED
  BY <1>1, <1>2, <1>3, <1>4, <1>5, <1>6, <1>7, <1>8, <1>9, <1>10 DEF Ensure

\* It goes on from main()'s first reads only when all of it is there.
LEMMA ReadyFirst == ASSUME Ensure, Goes, run.at = "preflight" PROVE acct.ready
<1>1. Preflight
  BY DEF Ensure, Step, EnsureTeam, ListMembers, EnsureMember, EnsureSchedule, EnsurePolicy,
    ListServices, EnsureService, EnsureIntegration, EnsureGrouping, EnsureOrchestration,
    EnsureActive, ReportSlack, EnsureBusiness, ListSupports, EnsureSupport, EnsureRule, End, ReadGone
<1>2. run'.at # "idle"
  BY DEF Goes, Moves
<1>3. ASSUME ~acct.ready PROVE run'.at = "idle"
  <2>1. run' = [run EXCEPT !.at = "idle"]
    BY <1>1, <1>3 DEF Preflight, StopRefused, Exit
  <2>2. CASE run \in Runs
    BY <2>1, <2>2 DEF Runs
  <2> QED
    BY <2>1
<1> QED
  BY <1>2, <1>3

\* The run's own steps touch nothing but the run, and leave its arguments.
LEMMA EnsureKeeps ==
  ASSUME IInv, Ensure
  PROVE  /\ UNCHANGED <<acct, quiet, smooth>> /\ run'.args = run.args
         /\ req = NoReq /\ run.at # "idle" /\ (plan' = plan \/ End)
<1>1. run \in Runs
  BY DEF IInv, TypeOK
<1>2. /\ UNCHANGED <<acct, quiet, smooth>> /\ req = NoReq /\ run.at # "idle" /\ (plan' = plan \/ End)
  BY DEF Ensure, Preflight, EnsureTeam, ListMembers, EnsureMember, EnsureSchedule, EnsurePolicy,
    ListServices, EnsureService, EnsureIntegration, EnsureGrouping, EnsureOrchestration,
    EnsureActive, ReportSlack, EnsureBusiness, ListSupports, EnsureSupport, EnsureRule, End, ReadGone,
    Proceed, Change, StopRefused, Step, history
<1>3. ASSUME NEW r, NEW q, Change(q, r), r.args = run.args, r \in Runs PROVE run'.args = run.args
  BY <1>3 DEF Change, Runs
<1>4. Preflight => run'.args = run.args
  BY <1>1 DEF Preflight, Proceed, StopRefused, Exit, Runs
<1>5. EnsureTeam => run'.args = run.args
  BY <1>1 DEF EnsureTeam, Proceed, Change, StopRefused, Exit, Runs
<1>6. ListMembers => run'.args = run.args
  BY <1>1 DEF ListMembers, Proceed, Runs
<1>7. EnsureSchedule => run'.args = run.args
  BY <1>1 DEF EnsureSchedule, Proceed, Change, StopRefused, Exit, Say, Runs
<1>8. EnsurePolicy => run'.args = run.args
  BY <1>1 DEF EnsurePolicy, Proceed, Change, StopRefused, Exit, Runs
<1>9. EnsureMember => run'.args = run.args
  BY <1>1 DEF EnsureMember, Proceed, Change, Runs
<1>10. EnsureRule => run'.args = run.args
  BY <1>1 DEF EnsureRule, Proceed, Change, Runs
<1>11. ListServices => run'.args = run.args
  BY <1>1 DEF ListServices, Proceed, Runs
<1>12. EnsureService => run'.args = run.args
  BY <1>1 DEF EnsureService, Proceed, Change, NextService, Say, StopRefused, Exit, Runs
<1>13. EnsureIntegration => run'.args = run.args
  BY <1>1 DEF EnsureIntegration, Proceed, Change, Runs
<1>14. EnsureGrouping => run'.args = run.args
  BY <1>1 DEF EnsureGrouping, Proceed, Change, Say, Runs
<1>15. EnsureOrchestration => run'.args = run.args
  BY <1>1 DEF EnsureOrchestration, Proceed, Change, Runs
<1>16. EnsureActive => run'.args = run.args
  BY <1>1 DEF EnsureActive, Proceed, Change, NextService, Runs
<1>17. ReportSlack => run'.args = run.args
  BY <1>1 DEF ReportSlack, Proceed, Runs
<1>18. EnsureBusiness => run'.args = run.args
  BY <1>1 DEF EnsureBusiness, Proceed, Change, StopRefused, Exit, Runs
<1>19. ListSupports => run'.args = run.args
  BY <1>1 DEF ListSupports, Proceed, Runs
<1>20. EnsureSupport => run'.args = run.args
  BY <1>1 DEF EnsureSupport, Proceed, Change, Runs
<1>21. End => run'.args = run.args
  BY <1>1 DEF End, Exit, Runs
<1>22. ReadGone => run'.args = run.args
  BY <1>1 DEF ReadGone, Exit, Runs
<1> QED
  BY <1>2, <1>4, <1>5, <1>6, <1>7, <1>8, <1>9, <1>10, <1>11, <1>12, <1>13, <1>14, <1>15,
     <1>16, <1>17, <1>18, <1>19, <1>20, <1>21, <1>22 DEF Ensure

\* PagerDuty's answers leave the run where it is, or end it.
LEMMA AnswerStays ==
  ASSUME IInv, Answer
  PROVE  /\ run'.args = run.args /\ run.args.apply /\ req \in Requests /\ req # NoReq
         /\ run.at # "idle" /\ plan' = plan /\ quiet' = quiet
         /\ \/ smooth' = smooth /\ exit' = exit /\ run'.at = run.at /\ (Done \/ Warned \/ PutBack \/ FallBack)
            \/ smooth' = FALSE
<1>1. run \in Runs /\ req # NoReq /\ req \in Requests /\ run.args.apply /\ run.at # "idle"
  BY DEF IInv, TypeOK, Control, SoundRequest, SoundRun, Answer, Done, Warned, PutBack, FallBack,
    RefuseGone, Refuse, LoseAnswer, Takes
<1>2. CASE Done \/ Warned \/ PutBack \/ FallBack
  <2>1. run'.args = run.args /\ run'.at = run.at
    BY <1>1, <1>2 DEF Done, Warned, PutBack, FallBack, Say, Runs
  <2> QED
    BY <1>1, <1>2, <2>1 DEF Done, Warned, PutBack, FallBack, history
<1>3. CASE RefuseGone \/ Refuse \/ LoseAnswer
  <2>1. run'.args = run.args
    BY <1>1, <1>3 DEF RefuseGone, Refuse, LoseAnswer, TakeRefusal, Exit, Say, Runs
  <2> QED
    BY <1>1, <1>3, <2>1 DEF RefuseGone, Refuse, LoseAnswer
<1> QED
  BY <1>2, <1>3 DEF Answer

-----------------------------------------------------------------------------
(* What PagerDuty's answers leave of what a run holds *)

\* A service in the account is not deleted by a write.
LEMMA HandledThere ==
  ASSUME NEW a \in Account, NEW q \in Requests, HasRoom(a, q),
         q.kind = "service" => q.who # "gone", NEW i \in SvcIds, a.svc[i].name # "gone"
  PROVE  Handle(a, q).svc[i].name # "gone"
<1>1. Handle(a, q).svc[i] = ServicesAfter(a, q)[i] /\ a.svc[i] \in Service
  BY HandleParts DEF Account
<1>2. Creates(q) => NextSvc(a) # i
  BY NextSvcUnused DEF HasRoom, Creates
<1>3. ServiceAfter(a.svc[i], q).name # "gone"
  BY <1>1 DEF ServiceAfter, Service
<1> QED
  BY <1>1, <1>2, <1>3 DEF ServicesAfter, Creates

\* What supports a business service is there, whatever PagerDuty takes.
LEMMA HandledSupports ==
  ASSUME NEW a \in Account, NEW q \in Requests, CanTake(a, q), HasRoom(a, q),
         q.kind = "service" => q.who # "gone", SupportsHold(a)
  PROVE  SupportsHold(Handle(a, q))
<1> SUFFICES ASSUME NEW i \in SvcIds, i \in Handle(a, q).supports, Handle(a, q).svc[i].name = "gone"
             PROVE  FALSE
  BY DEF SupportsHold, UnusedSvc
<1>1. a.svc[i].name = "gone"
  BY HandledThere
<1>2. i \notin a.supports
  BY <1>1 DEF SupportsHold, UnusedSvc
<1>3. q.kind = "support" /\ i = q.on
  <2>1. Handle(a, q).supports = IF q.kind = "support" THEN a.supports \cup {q.on} ELSE a.supports
    BY HandleParts
  <2> QED
    BY <1>2, <2>1
<1>4. a.svc[q.on].name # "gone"
  BY <1>3 DEF CanTake, OnService
<1> QED
  BY <1>1, <1>3, <1>4

\* A person's edit leaves no business service supported by a service that is gone.
LEMMA EditsSupport ==
  ASSUME NEW a \in Account, SupportsHold(a), NEW b \in Edits(a)
  PROVE  SupportsHold(b)
<1>1. ASSUME b.supports \subseteq a.supports,
             \A i \in SvcIds : a.svc[i].name # "gone" => b.svc[i].name # "gone"
      PROVE  SupportsHold(b)
  BY <1>1 DEF SupportsHold, UnusedSvc
<1>2. CASE b \in NamedEdits(a)
  <2>1. ASSUME NEW k \in Kinds, b = DeleteNamed(a, k)
        PROVE  SupportsHold(b)
    <3>1. /\ b.supports \subseteq a.supports
          /\ b.svc = a.svc \/ b.svc = [i \in SvcIds |-> Unpolicied(a.svc[i])]
      BY <2>1 DEF DeleteNamed, Account
    <3>2. \A i \in SvcIds : Unpolicied(a.svc[i]).name = a.svc[i].name
      BY DEF Unpolicied, Account, Service
    <3> QED
      BY <1>1, <3>1, <3>2
  <2>2. ASSUME NEW k \in Kinds, NEW v, b = [a EXCEPT !.named[k] = v]
        PROVE  SupportsHold(b)
    BY <1>1, <2>2 DEF Account
  <2> QED
    BY <1>2, <2>1, <2>2 DEF NamedEdits
<1>3. CASE b \in PersonEdits(a)
  <2>1. b.supports = a.supports /\ b.svc = a.svc
    BY <1>3 DEF PersonEdits, Account
  <2> QED
    BY <1>1, <2>1
<1>4. CASE b \in ServiceEdits(a)
  <2>1. PICK i \in SvcIds : b \in EditsOf(a, i)
    BY <1>4 DEF ServiceEdits
  <2>2. ASSUME NEW s, b = [a EXCEPT !.svc[i] = s], a.svc[i].name # "gone" => s.name # "gone"
        PROVE  SupportsHold(b)
    BY <1>1, <2>2 DEF Account
  <2>3. ASSUME NEW s \in EditedService(a.svc[i]), a.svc[i].name # "gone"
        PROVE  s.name # "gone"
    <3>1. a.svc[i] \in Service
      BY DEF Account
    <3> QED
      BY <2>3, <3>1, NamesAssumption DEF EditedService, Service
  <2>4. CASE b = DeleteService(a, i)
    <3>1. /\ \A j \in SvcIds : b.svc[j] = IF j = i THEN NoService ELSE a.svc[j]
          /\ b.supports = a.supports \ {i}
      BY <2>4 DEF DeleteService, Account
    <3> QED
      BY <3>1 DEF SupportsHold, UnusedSvc
  <2> QED
    BY <2>1, <2>2, <2>3, <2>4 DEF EditsOf
<1>5. CASE b \in GroupingEdits(a) \cup SupportEdits(a) \cup FeatureEdits(a)
  <2>1. b.supports \subseteq a.supports /\ b.svc = a.svc
    BY <1>5 DEF GroupingEdits, SupportEdits, FeatureEdits, Account
  <2> QED
    BY <1>1, <2>1
<1> QED
  BY <1>2, <1>3, <1>4, <1>5 DEF Edits

\* So it is at every step.
LEMMA SupportsStep ==
  ASSUME IInv, Known, SupportsHold(acct), [Next]_vars
  PROVE  SupportsHold(acct')
<1>1. acct \in Account
  BY DEF IInv, TypeOK
<1>2. CASE Takes /\ acct' = Handle(acct, req)
  <2>1. req \in Requests /\ req # NoReq /\ SoundRequest(run, req) /\ CanTake(acct, req) /\ HasRoom(acct, req)
    BY <1>2, AnswerKeeps DEF Takes
  <2>2. req.kind = "service" => req.who # "gone"
    BY <2>1, NamesAssumption DEF SoundRequest
  <2> QED
    BY <1>1, <1>2, <2>1, <2>2, HandledSupports
<1>3. CASE EditByHand
  BY <1>1, <1>3, EditsSupport DEF EditByHand
<1> QED
  BY <1>2, <1>3, AccountSteps

\* Before the team is ensured everything is yet to come.
LEMMA AllToCome ==
  ASSUME NEW r, r.at \notin AfterTeam, NEW k, NEW w, Of(k, w)
  PROVE  Pending(r, k, w)
<1>1. r.at \notin AfterSchedule /\ r.at \notin AfterPolicy /\ r.at \notin ServicePhase \cup AfterServices
      /\ r.at \notin AfterBusiness
  BY DEF AfterTeam, AfterSchedule, AfterPolicy, AfterServices, AfterBusiness
<1>2. r.at \notin {"supports", "rules", "end"} /\ r.at \notin {"rules", "end"}
  BY <1>1 DEF AfterBusiness
<1> QED
  BY <1>1, <1>2 DEF Of, Pending, Kinds, OfService

\* An answer read by one field of the account, when the write is for another.
LEMMA HandledApart ==
  ASSUME NEW a \in Account, NEW q
  PROVE  /\ \A k \in Kinds : k # q.kind => Handle(a, q).named[k] = a.named[k]
         /\ q.kind # "grouping" => Handle(a, q).grp = a.grp
         /\ q.kind # "support" => Handle(a, q).supports = a.supports
         /\ \A p \in People : ~(q.kind = "member" /\ p = q.who) => Handle(a, q).member[p] = a.member[p]
         /\ \A p \in People : ~(q.kind = "rule" /\ p = q.who) => Handle(a, q).rule[p] = a.rule[p]
         /\ q.kind \notin Children \cup {"putback"} => Handle(a, q).svc = a.svc
<1>1. ASSUME NEW k \in Kinds, k # q.kind PROVE Handle(a, q).named[k] = a.named[k]
  <2>1. NamedAfter(a, q)[k] = a.named[k]
    BY <1>1 DEF NamedAfter
  <2> QED
    BY <2>1, HandleParts
<1>2. q.kind # "grouping" => Handle(a, q).grp = a.grp
  BY HandleParts DEF SettingsAfter
<1>3. ASSUME q.kind \notin Children \cup {"putback"} PROVE Handle(a, q).svc = a.svc
  <2>1. \A i \in SvcIds : a.svc[i] \in Service
    BY DEF Account
  <2>2. ASSUME NEW s \in Service PROVE ServiceAfter(s, q) = s
    <3>1. q.kind \notin {"service", "integration", "orchestration", "putback", "active"}
      BY <1>3 DEF Children
    <3> QED
      BY <3>1 DEF ServiceAfter, Service
  <2>3. \A i \in SvcIds : ServicesAfter(a, q)[i] = a.svc[i]
    BY <1>3, <2>1, <2>2 DEF ServicesAfter, Children
  <2>4. ServicesAfter(a, q) = [i \in SvcIds |-> ServicesAfter(a, q)[i]]
    BY DEF ServicesAfter
  <2>5. a.svc = [i \in SvcIds |-> a.svc[i]]
    BY DEF Account
  <2> QED
    BY <2>3, <2>4, <2>5, HandleParts
<1>4. q.kind # "support" => Handle(a, q).supports = a.supports
  BY HandleParts
<1>5. ASSUME NEW p \in People
      PROVE  /\ ~(q.kind = "member" /\ p = q.who) => Handle(a, q).member[p] = a.member[p]
             /\ ~(q.kind = "rule" /\ p = q.who) => Handle(a, q).rule[p] = a.rule[p]
  <2>1. Handle(a, q).member = [o \in People |-> IF q.kind = "member" /\ o = q.who THEN "manager"
                                                ELSE a.member[o]]
    BY DEF Handle, Account
  <2>2. Handle(a, q).rule = [o \in People |-> IF q.kind = "rule" /\ o = q.who THEN "designed"
                                              ELSE a.rule[o]]
    BY DEF Handle, Account
  <2>3. ~(q.kind = "member" /\ p = q.who) => Handle(a, q).member[p] = a.member[p]
    BY <2>1
  <2>4. ~(q.kind = "rule" /\ p = q.who) => Handle(a, q).rule[p] = a.rule[p]
    BY <2>2
  <2> QED
    BY <2>3, <2>4
<1> QED
  BY <1>1, <1>2, <1>3, <1>4, <1>5

-----------------------------------------------------------------------------
(* What it will say after an answer *)

\* A write under way of a run that holds what it has listed.
Writing(a, r, q) ==
  /\ a \in Account /\ r \in Runs /\ q \in Requests /\ q # NoReq
  /\ SoundRequest(r, q) /\ Fits(a, r, q) /\ HasRoom(a, q)
  /\ KnownServices(a, r) /\ SettingsHold(a)
  /\ Held(a, r) /\ Asked(a, r, q)

\* The account is read the same way after it.
LEMMA HandledView ==
  ASSUME NEW a, NEW r, NEW q, Writing(a, r, q)
  PROVE  /\ Listing(Handle(a, q), r) = Listing(a, r)
         /\ TeamFound(Handle(a, q), r) <=> TeamFound(a, r)
         /\ BusinessFound(Handle(a, q), r) <=> BusinessFound(a, r)
         /\ r.at \notin ServicePhase \cup AfterServices => KindOf(q) \notin OfService
<1>1. a \in Account /\ Of(KindOf(q), q.who) /\ ~Pending(r, KindOf(q), q.who)
  BY DEF Writing, Asked
<1>2. r.at \in AfterTeam
  BY <1>1, AllToCome
<1>3. TeamFound(Handle(a, q), r) <=> TeamFound(a, r)
  BY <1>2 DEF TeamFound
<1>4. BusinessFound(Handle(a, q), r) <=> BusinessFound(a, r)
  <2>1. CASE r.at \in AfterBusiness
    BY <2>1 DEF BusinessFound
  <2>2. CASE r.at \notin AfterBusiness
    <3>1. KindOf(q) # "business"
      BY <1>1, <2>2 DEF Pending
    <3>2. q.kind # "business"
      BY <3>1 DEF KindOf
    <3>3. Handle(a, q).named["business"] = a.named["business"]
      BY <1>1, <3>2, HandledApart DEF Kinds
    <3> QED
      BY <2>2, <3>3 DEF BusinessFound, Exists
  <2> QED
    BY <2>1, <2>2
<1>5. ASSUME r.at \notin ServicePhase \cup AfterServices PROVE KindOf(q) \notin OfService
  <2>1. r.at \notin {"supports", "rules", "end"}
    BY <1>5 DEF AfterServices
  <2> QED
    BY <1>1, <1>5, <2>1 DEF Pending, OfService
<1>6. Listing(Handle(a, q), r) = Listing(a, r)
  <2>1. CASE r.at \in ServicePhase \cup AfterServices
    BY <2>1 DEF Listing
  <2>2. CASE r.at \notin ServicePhase \cup AfterServices
    <3>1. q.kind \notin Children \cup {"putback"}
      BY <1>5, <2>2 DEF KindOf, OfService, Children
    <3> QED
      BY <1>1, <2>2, <3>1, HandledApart DEF Listing
  <2> QED
    BY <2>1, <2>2
<1> QED
  BY <1>3, <1>4, <1>5, <1>6

\* The services of a name that it listed, when the write is for another.
LEMMA HandledChild ==
  ASSUME NEW a, NEW r, NEW q, Writing(a, r, q), r.at \in ServicePhase \cup AfterServices,
         NEW w \in Designed, NEW i \in Called(r.every, w)
  PROVE  /\ i \in SvcIds /\ a.svc[i].name = w /\ w # "gone"
         /\ Creates(q) => NextSvc(a) # i
         /\ KindOf(q) \in OfService /\ ~Creates(q) /\ q.on = i => q.who = w
         /\ Handle(a, q).svc[i].name = w
<1>1. i \in SvcIds /\ r.every[i].name = w /\ w \in Names /\ w # "gone"
  BY NamesAssumption, NameType DEF Called, Designed
<1>2. a.svc[i].name = w
  BY <1>1 DEF Writing, KnownServices
<1>3. Creates(q) => NextSvc(a) # i
  BY <1>1, <1>2, NextSvcUnused DEF Writing, HasRoom, Creates
<1>4. KindOf(q) \in OfService /\ ~Creates(q) /\ q.on = i => q.who = w
  BY <1>1 DEF Writing, Asked, Meant
<1>5. Handle(a, q).svc[i].name = a.svc[i].name
  BY <1>1, <1>2, HandledService DEF Writing
<1> QED
  BY <1>1, <1>2, <1>3, <1>4, <1>5

\* Its orchestration, and whether that is active.
LEMMA HandledSwitches ==
  ASSUME NEW a, NEW r, NEW q, Writing(a, r, q), r.at \in ServicePhase \cup AfterServices,
         NEW w \in Designed, NEW i \in Called(r.every, w)
  PROVE  /\ ~(KindOf(q) = "orchestration" /\ q.who = w) => Handle(a, q).svc[i].orch = a.svc[i].orch
         /\ ~(KindOf(q) = "active" /\ q.who = w) => Handle(a, q).svc[i].active = a.svc[i].active
<1>1. /\ i \in SvcIds /\ (Creates(q) => NextSvc(a) # i)
      /\ KindOf(q) \in OfService /\ ~Creates(q) /\ q.on = i => q.who = w
  BY HandledChild
<1>2. a.svc[i] \in Service /\ Handle(a, q).svc[i] = ServicesAfter(a, q)[i]
  BY <1>1, HandleParts DEF Writing, Account
<1>3. CASE Creates(q)
  BY <1>1, <1>2, <1>3 DEF ServicesAfter, Creates
<1>4. CASE ~Creates(q) /\ i # q.on
  BY <1>1, <1>2, <1>4 DEF ServicesAfter, Creates
<1>5. CASE ~Creates(q) /\ i = q.on
  <2>1. Handle(a, q).svc[i] = ServiceAfter(a.svc[i], q)
    BY <1>1, <1>2, <1>5 DEF ServicesAfter, Creates
  <2>2. q.kind \in {"orchestration", "putback"} <=> KindOf(q) = "orchestration"
    BY DEF KindOf
  <2>3. q.kind = "active" <=> KindOf(q) = "active"
    BY DEF KindOf
  <2>4. q.who = w \/ KindOf(q) \notin {"orchestration", "active"}
    BY <1>1, <1>5 DEF OfService, Children
  <2>5. KindOf(q) # "orchestration" => ServiceAfter(a.svc[i], q).orch = a.svc[i].orch
    BY <1>2, <2>2 DEF ServiceAfter, Service
  <2>6. KindOf(q) # "active" => ServiceAfter(a.svc[i], q).active = a.svc[i].active
    BY <1>2, <2>3 DEF ServiceAfter, Service
  <2> QED
    BY <2>1, <2>4, <2>5, <2>6
<1> QED
  BY <1>3, <1>4, <1>5

\* A setting that the write corrects for another service that it holds.
Corrected(a, r, q, w) ==
  /\ SaysNow(a, r, "grouping", w) = "update" /\ SaysNow(Handle(a, q), r, "grouping", w) = "none"
  /\ q.kind = "grouping" /\ q.verb = "update"
  /\ \E g \in GrpIds : \E i, j \in Handle(a, q).grp[g].members :
       Handle(a, q).svc[i].name = w /\ Handle(a, q).svc[j].name = q.who

\* The settings that hold a service, when a write is for another: the same, of
\* the same types but for one that it corrects.
LEMMA HandledHolders ==
  ASSUME NEW a, NEW r, NEW q, Writing(a, r, q), r.at \in ServicePhase \cup AfterServices,
         NEW w \in Designed, ~(q.kind = "grouping" /\ q.who = w)
  PROVE  /\ HeldBy(Handle(a, q), r.every, w) = HeldBy(a, r.every, w)
         /\ \A g \in HeldBy(a, r.every, w) :
              \/ Handle(a, q).grp[g].type = a.grp[g].type
              \/ /\ q.kind = "grouping" /\ q.verb = "update" /\ g = q.setting
                 /\ Handle(a, q).grp[g].type = q.type
         /\ \A g \in GrpIds : a.grp[g].members \subseteq Handle(a, q).grp[g].members
<1>1. a \in Account /\ Handle(a, q).grp = SettingsAfter(a, q) /\ q \in Requests
  BY HandleParts DEF Writing
<1>2. CASE q.kind # "grouping"
  BY <1>1, <1>2 DEF SettingsAfter, HeldBy
<1>3. CASE q.kind = "grouping" /\ q.verb = "create"
  <2>1. NextGrp(a) \in GrpIds /\ a.grp[NextGrp(a)].members = {}
    BY <1>3 DEF Writing, HasRoom, NextGrp, UnusedGrp
  <2>2. q.members = {q.on}
    BY <1>3 DEF Writing, Fits
  <2>3. q.on \notin Called(r.every, w)
    <3>1. KindOf(q) \in OfService /\ ~Creates(q)
      BY <1>3 DEF KindOf, OfService, Children, Creates
    <3> QED
      BY <1>3, <3>1, HandledChild
  <2>4. \A g \in GrpIds : Handle(a, q).grp[g] =
          IF g = NextGrp(a) THEN [type |-> q.type, members |-> {q.on}] ELSE a.grp[g]
    BY <1>1, <1>3, <2>2 DEF SettingsAfter
  <2>5. \A g \in GrpIds : Handle(a, q).grp[g].members \cap Called(r.every, w) # {}
                            <=> a.grp[g].members \cap Called(r.every, w) # {}
    BY <2>1, <2>3, <2>4
  <2>6. NextGrp(a) \notin HeldBy(a, r.every, w)
    BY <2>1 DEF HeldBy
  <2>7. HeldBy(Handle(a, q), r.every, w) = HeldBy(a, r.every, w)
    BY <2>5 DEF HeldBy
  <2>8. \A g \in GrpIds : a.grp[g].members \subseteq Handle(a, q).grp[g].members
    BY <2>1, <2>4
  <2>9. \A g \in HeldBy(a, r.every, w) : Handle(a, q).grp[g].type = a.grp[g].type
    BY <2>4, <2>6 DEF HeldBy
  <2> QED
    BY <2>7, <2>8, <2>9
<1>4. CASE q.kind = "grouping" /\ q.verb = "update"
  <2>1. q.members = a.grp[q.setting].members
    BY <1>4 DEF Writing, Fits
  <2>2. \A g \in GrpIds : Handle(a, q).grp[g] =
          IF g = q.setting THEN [type |-> q.type, members |-> q.members] ELSE a.grp[g]
    BY <1>1, <1>4 DEF SettingsAfter
  <2>3. \A g \in GrpIds : Handle(a, q).grp[g].members = a.grp[g].members
    BY <2>1, <2>2
  <2>4. \A g \in GrpIds : Handle(a, q).grp[g].type = IF g = q.setting THEN q.type ELSE a.grp[g].type
    BY <2>2
  <2> QED
    BY <1>4, <2>3, <2>4 DEF HeldBy
<1> QED
  BY <1>1, <1>2, <1>3, <1>4 DEF Requests

\* What is said of a grouping yet to come, unless the write corrects it.
LEMMA GroupingKept ==
  ASSUME NEW a, NEW r, NEW q, Writing(a, r, q), r.at \in ServicePhase \cup AfterServices,
         NEW w \in Designed, ~(q.kind = "grouping" /\ q.who = w)
  PROVE  SaysNow(Handle(a, q), r, "grouping", w) = SaysNow(a, r, "grouping", w) \/ Corrected(a, r, q, w)
<1> DEFINE b == Handle(a, q)
           e == r.every
           G == HeldBy(a, e, w)
<1>1. HeldBy(b, e, w) = G
  BY HandledHolders
<1>2. ASSUME NEW g \in G PROVE \/ b.grp[g].type = a.grp[g].type
                               \/ /\ q.kind = "grouping" /\ q.verb = "update" /\ g = q.setting
                                  /\ b.grp[g].type = q.type
  BY HandledHolders
<1>3. \A g \in GrpIds : a.grp[g].members \subseteq b.grp[g].members
  BY HandledHolders
<1>4. Listing(a, r) = e /\ Listing(b, r) = e
  BY DEF Listing
<1>5. \A c \in {a, b} : SaysNow(c, r, "grouping", w) =
        IF Made(e, w) THEN "create" ELSE IF Left(e, w) THEN "none" ELSE GroupingSays(c, e, r.args, w)
  <2>1. "grouping" \in OfService
    BY DEF OfService, Children
  <2>2. ASSUME NEW c \in {a, b}, NEW k \in OfService
        PROVE  SaysNow(c, r, k, w) = ChildSays(c, Listing(c, r), BusinessFound(c, r), r.args, k, w)
    BY SaysOf
  <2> HIDE DEF b, e, G
  <2> QED
    BY <1>4, <2>1, <2>2 DEF ChildSays, FoundSays
<1>6. G \subseteq GrpIds
  BY DEF HeldBy
<1> HIDE DEF G
<1>7. CASE GroupingSays(b, e, r.args, w) = GroupingSays(a, e, r.args, w)
  BY <1>5, <1>7
<1>8. CASE GroupingSays(b, e, r.args, w) # GroupingSays(a, e, r.args, w)
  <2>1. G # {} /\ ~(Cardinality(G) > 1)
    BY <1>1, <1>8 DEF GroupingSays, G
  <2>2. PICK g \in G : G = {g}
    <3>1. PICK g \in G : TRUE
      BY <2>1
    <3>2. IsFiniteSet(G)
      BY <1>6, IdsAssumption, FS_Subset
    <3>3. ASSUME NEW h \in G, h # g PROVE FALSE
      <4>1. {g, h} \subseteq G
        BY <3>3
      <4>2. Cardinality({g, h}) = 2
        <5>1. Cardinality({g}) = 1 /\ IsFiniteSet({g})
          BY FS_Singleton
        <5>2. {g, h} = {g} \cup {h}
          OBVIOUS
        <5>3. Cardinality({g} \cup {h}) = Cardinality({g}) + 1
          BY <3>3, <5>1, FS_AddElement
        <5> QED
          BY <5>1, <5>2, <5>3
      <4>3. Cardinality({g, h}) <= Cardinality(G) /\ Cardinality(G) \in Nat
        BY <3>2, <4>1, FS_Subset, FS_CardinalityType
      <4> QED
        BY <2>1, <4>2, <4>3
    <3> QED
      BY <3>1, <3>3
  <2>3. /\ GroupingSays(a, e, r.args, w) = IF Enough(r.args, a.grp[g].type) THEN "none" ELSE "update"
        /\ GroupingSays(b, e, r.args, w) = IF Enough(r.args, b.grp[g].type) THEN "none" ELSE "update"
    BY <1>1, <2>1, <2>2 DEF GroupingSays, G
  <2>4. b.grp[g].type # a.grp[g].type
    BY <1>8, <2>3
  <2>5. q.kind = "grouping" /\ q.verb = "update" /\ g = q.setting /\ g \in GrpIds
    BY <1>2, <1>6, <2>2, <2>4
  <2>6. ~Enough(r.args, a.grp[g].type)
    BY <2>5 DEF Writing, Asked, Meant
  <2>7. ~Made(e, w) /\ ~Left(e, w)
    <3>1. Called(e, w) # {}
      BY <2>1 DEF G, HeldBy
    <3> QED
      BY <3>1 DEF Made, Left
  <2>8. SaysNow(a, r, "grouping", w) = "update" /\ SaysNow(b, r, "grouping", w) = "none"
    BY <1>5, <1>8, <2>3, <2>6, <2>7
  <2>9. PICK i \in a.grp[g].members : i \in Called(e, w)
    BY <2>2 DEF G, HeldBy
  <2>10. b.svc[i].name = w
    BY <2>9, HandledChild
  <2>11. q.on \in a.grp[g].members /\ b.svc[q.on].name = q.who
    <3>1. Holding(a, q.on) = {g}
      BY <2>5 DEF Writing, Fits
    <3>2. q.on \in a.grp[g].members
      BY <3>1 DEF Holding
    <3>3. a.svc[q.on].name = q.who /\ q.on \in SvcIds
      BY <2>5 DEF Writing, Asked, Meant, KindOf, OfService, Children, Creates, SoundRequest
    <3>4. a.svc[q.on].name # "gone"
      BY <2>5, <3>2, <3>3 DEF Writing, SettingsHold, UnusedSvc
    <3>5. b.svc[q.on].name = a.svc[q.on].name
      BY <3>3, <3>4, HandledService DEF Writing
    <3> QED
      BY <3>2, <3>3, <3>5
  <2>12. i \in b.grp[g].members /\ q.on \in b.grp[g].members
    BY <1>3, <2>5, <2>9, <2>11
  <2> QED
    BY <2>5, <2>8, <2>10, <2>11, <2>12 DEF Corrected
<1> QED
  BY <1>7, <1>8

\* What a run will say of an object that is yet to come is what it would have
\* said before the write under way, but for a setting that this corrects.
LEMMA HandledSays ==
  ASSUME NEW a, NEW r, NEW q, Writing(a, r, q), NEW k, NEW w, Of(k, w), Pending(r, k, w)
  PROVE  SaysNow(Handle(a, q), r, k, w) = SaysNow(a, r, k, w) \/ (k = "grouping" /\ Corrected(a, r, q, w))
<1> DEFINE b == Handle(a, q)
<1>1. a \in Account /\ ~(KindOf(q) = k /\ q.who = w)
  BY DEF Writing, Asked
<1>2. /\ Listing(b, r) = Listing(a, r) /\ (TeamFound(b, r) <=> TeamFound(a, r))
      /\ (BusinessFound(b, r) <=> BusinessFound(a, r))
      /\ r.at \notin ServicePhase \cup AfterServices => KindOf(q) \notin OfService
  BY HandledView
<1>3. CASE k \in Kinds
  <2>1. w = "-" /\ (Of(KindOf(q), q.who) /\ KindOf(q) \in Kinds => q.who = "-")
    BY <1>3 DEF Of, Kinds, OfService, Children
  <2>2. k # q.kind
    BY <1>1, <1>3, <2>1 DEF KindOf, Kinds, Writing, Asked
  <2>3. b.named[k] = a.named[k]
    BY <1>1, <1>3, <2>2, HandledApart
  <2>4. NamedSays(b, k) = NamedSays(a, k)
    BY <2>3 DEF NamedSays
  <2>5. ASSUME NEW c, NEW j \in Kinds PROVE SaysNow(c, r, j, w) = NamedSays(c, j)
    BY SaysOf
  <2> HIDE DEF b
  <2>6. SaysNow(b, r, k, w) = SaysNow(a, r, k, w)
    BY <1>3, <2>4, <2>5
  <2> QED
    BY <2>6 DEF b
<1>4. CASE k = "member" /\ w \in People
  <2>1. ~(q.kind = "member" /\ w = q.who)
    BY <1>1, <1>4 DEF KindOf
  <2>2. b.member[w] = a.member[w]
    BY <1>1, <1>4, <2>1, HandledApart
  <2>3. MemberSays(b, TeamFound(b, r), w) = MemberSays(a, TeamFound(a, r), w)
    BY <1>2, <2>2 DEF MemberSays
  <2> QED
    BY <1>4, <2>3, SaysOf
<1>5. CASE k = "rule" /\ w \in People
  <2>1. ~(q.kind = "rule" /\ w = q.who)
    BY <1>1, <1>5 DEF KindOf
  <2>2. b.rule[w] = a.rule[w]
    BY <1>1, <1>5, <2>1, HandledApart
  <2>3. RuleSays(b, r.args, w) = RuleSays(a, r.args, w)
    BY <2>2 DEF RuleSays
  <2> QED
    BY <1>5, <2>3, SaysOf
<1>6. CASE k \in OfService /\ w \in Designed
  <2> DEFINE e == Listing(a, r)
  <2>1. ASSUME NEW c \in {a, b}
        PROVE  SaysNow(c, r, k, w) = ChildSays(c, e, BusinessFound(c, r), r.args, k, w)
    <3>1. ASSUME NEW d, NEW j \in OfService
          PROVE  SaysNow(d, r, j, w) = ChildSays(d, Listing(d, r), BusinessFound(d, r), r.args, j, w)
      BY SaysOf
    <3>2. Listing(c, r) = e
      BY <1>2
    <3> HIDE DEF e, b
    <3> QED
      BY <1>6, <3>1, <3>2
  <2>2. CASE r.at \notin ServicePhase \cup AfterServices
    <3>1. q.kind \notin Children \cup {"putback"} /\ q.kind # "grouping" /\ q.kind # "support"
      BY <1>2, <2>2 DEF KindOf, OfService, Children
    <3>2. b.svc = a.svc /\ b.grp = a.grp /\ b.supports = a.supports
      BY <1>1, <3>1, HandledApart
    <3> HIDE DEF b, e
    <3>3. GroupingSays(b, e, r.args, w) = GroupingSays(a, e, r.args, w)
      BY <3>2 DEF GroupingSays, HeldBy
    <3>4. /\ OrchestrationSays(b, e, w) = OrchestrationSays(a, e, w)
          /\ ActiveSays(b, e, w) = ActiveSays(a, e, w)
      BY <3>2 DEF OrchestrationSays, ActiveSays
    <3>5. SupportSays(b, e, BusinessFound(b, r), w) = SupportSays(a, e, BusinessFound(a, r), w)
      BY <1>2, <3>2 DEF b, SupportSays
    <3>6. SaysNow(b, r, k, w) = SaysNow(a, r, k, w)
      BY <2>1, <3>3, <3>4, <3>5 DEF ChildSays, FoundSays
    <3> QED
      BY <3>6 DEF b
  <2>3. CASE r.at \in ServicePhase \cup AfterServices
    <3>1. e = r.every
      BY <2>3 DEF Listing
    <3>2. CASE k \in {"service", "integration"}
      <4>1. SaysNow(b, r, k, w) = SaysNow(a, r, k, w)
        <5> HIDE DEF b, e
        <5> QED
          BY <2>1, <3>2 DEF ChildSays, FoundSays
      <4> QED
        BY <4>1
    <3>3. CASE k = "grouping"
      <4>1. ~(q.kind = "grouping" /\ q.who = w)
        BY <1>1, <3>3 DEF KindOf
      <4> QED
        BY <1>6, <2>3, <3>3, <4>1, GroupingKept
    <3>4. CASE k = "orchestration"
      <4>1. ASSUME NEW i \in Called(e, w) PROVE b.svc[i].orch = a.svc[i].orch
        BY <1>1, <1>6, <2>3, <3>1, <3>4, HandledSwitches
      <4> HIDE DEF b, e
      <4>2. OrchestrationSays(b, e, w) = OrchestrationSays(a, e, w)
        BY <4>1 DEF OrchestrationSays
      <4>3. SaysNow(b, r, k, w) = SaysNow(a, r, k, w)
        BY <2>1, <3>4, <4>2 DEF ChildSays, FoundSays
      <4> QED
        BY <4>3 DEF b
    <3>5. CASE k = "active"
      <4>1. ASSUME NEW i \in Called(e, w) PROVE b.svc[i].active = a.svc[i].active
        BY <1>1, <1>6, <2>3, <3>1, <3>5, HandledSwitches
      <4> HIDE DEF b, e
      <4>2. ActiveSays(b, e, w) = ActiveSays(a, e, w)
        BY <4>1 DEF ActiveSays
      <4>3. SaysNow(b, r, k, w) = SaysNow(a, r, k, w)
        BY <2>1, <3>5, <4>2 DEF ChildSays, FoundSays
      <4> QED
        BY <4>3 DEF b
    <3>6. CASE k = "support"
      <4>1. b.supports = IF q.kind = "support" THEN a.supports \cup {q.on} ELSE a.supports
        BY <1>1, HandleParts
      <4>2. q.kind = "support" => q.on \notin Called(e, w)
        <5>1. q.kind = "support" => KindOf(q) = "support" /\ ~Creates(q)
          BY DEF KindOf, Creates
        <5> QED
          BY <1>1, <1>6, <2>3, <3>1, <3>6, <5>1, HandledChild DEF OfService
      <4>3. Called(e, w) \subseteq b.supports <=> Called(e, w) \subseteq a.supports
        BY <4>1, <4>2
      <4>4. BusinessFound(b, r) <=> BusinessFound(a, r)
        BY <1>2
      <4> HIDE DEF b, e
      <4>5. SupportSays(b, e, BusinessFound(b, r), w) = SupportSays(a, e, BusinessFound(a, r), w)
        BY <4>3, <4>4 DEF SupportSays
      <4>6. SaysNow(b, r, k, w) = SaysNow(a, r, k, w)
        BY <2>1, <3>6, <4>5 DEF ChildSays, FoundSays
      <4> QED
        BY <4>6 DEF b
    <3> QED
      BY <1>6, <3>2, <3>3, <3>4, <3>5, <3>6 DEF OfService, Children
  <2> QED
    BY <2>2, <2>3
<1> QED
  BY <1>3, <1>4, <1>5, <1>6 DEF Of

-----------------------------------------------------------------------------
(* What a run goes on holding *)

\* A run with the same place, listing and findings as another.
Alike(r, s) ==
  /\ s.at = r.at /\ s.args = r.args /\ s.n = r.n /\ s.left = r.left /\ s.every = r.every
  /\ s.team = r.team /\ s.business = r.business /\ s.roles = r.roles /\ s.new = r.new
  /\ s.supporting = r.supporting

\* It reads the account the same way, and the same is yet to come.
LEMMA AlikeSame ==
  ASSUME NEW r, NEW s, Alike(r, s)
  PROVE  /\ \A a : SameView(a, r, s)
         /\ \A k, w : Pending(s, k, w) <=> Pending(r, k, w)
<1>1. \A a : SameView(a, r, s)
  BY DEF Alike, SameView, Listing, TeamFound, BusinessFound
<1> QED
  BY <1>1 DEF Alike, Pending

\* What a run holds of what it has listed it holds after PagerDuty's answer.
LEMMA HandledHeld ==
  ASSUME NEW a, NEW r, NEW q, Writing(a, r, q), NEW s \in Runs, Alike(r, s),
         s.sids = IF Creates(q) THEN [r.sids EXCEPT ![r.n] = NextSvc(a)] ELSE r.sids
  PROVE  Held(Handle(a, q), s)
<1>0. Handle(a, q).grp = SettingsAfter(a, q)
  BY HandleParts DEF Writing
<1> DEFINE b == Handle(a, q)
<1>1. /\ a \in Account /\ r \in Runs /\ q \in Requests /\ Held(a, r) /\ KnownServices(a, r)
      /\ Of(KindOf(q), q.who) /\ ~Pending(r, KindOf(q), q.who)
  BY DEF Writing, Asked
<1>2. r.n \in 1..ServiceCount /\ r.sids \in [1..ServiceCount -> SvcIds \cup {Placeholder, None}]
  BY <1>1 DEF Runs
<1>3. Creates(q) => /\ r.at = "integration" /\ r.new /\ Made(r.every, Services[r.n])
                    /\ NextSvc(a) \in SvcIds /\ a.svc[NextSvc(a)].name = "gone"
                    /\ r.every[NextSvc(a)].name = "gone"
  <2> SUFFICES ASSUME Creates(q)
               PROVE  /\ r.at = "integration" /\ r.new /\ Made(r.every, Services[r.n])
                      /\ NextSvc(a) \in SvcIds /\ a.svc[NextSvc(a)].name = "gone"
                      /\ r.every[NextSvc(a)].name = "gone"
    OBVIOUS
  <2>1. r.at = "integration" /\ r.new
    BY DEF Writing, SoundRequest, Creates
  <2>2. Made(r.every, Services[r.n])
    BY <1>1, <2>1 DEF Held, Ids, ServiceAts
  <2>3. NextSvc(a) \in SvcIds /\ a.svc[NextSvc(a)].name = "gone"
    BY NextSvcUnused DEF Writing, HasRoom, Creates
  <2> QED
    BY <1>1, <2>1, <2>2, <2>3 DEF KnownServices
<1>4. Members(b, s)
  <2>1. ASSUME NEW p \in r.left, r.at = "members" PROVE b.member[p] = a.member[p]
    <3>1. p \in People
      BY <1>1 DEF Runs
    <3>2. ~(q.kind = "member" /\ p = q.who)
      BY <1>1, <2>1 DEF Pending, KindOf
    <3> QED
      BY <1>1, <3>1, <3>2, HandledApart
  <2> HIDE DEF b
  <2> QED
    BY <1>1, <2>1 DEF Held, Members, Alike
<1>5. Ids(s)
  <2>1. \A m \in 1..ServiceCount : s.sids[m] = IF Creates(q) /\ m = r.n THEN NextSvc(a) ELSE r.sids[m]
    BY <1>2
  <2>2. \A m \in 1..ServiceCount : Gone(s, m) <=> Gone(r, m)
    BY DEF Alike, Gone
  <2>3. Creates(q) => Gone(r, r.n) /\ ~Left(r.every, Services[r.n]) /\ Called(r.every, Services[r.n]) = {}
    <3>1. r.n \in Nat
      BY <1>2
    <3> QED
      BY <1>3, <3>1 DEF Gone, ServiceAts, ServicePhase, Made, Left
  <2>4. s.at \in ServiceAts => IF s.new THEN Made(s.every, Services[s.n])
                               ELSE Called(s.every, Services[s.n]) = {s.sids[s.n]}
    BY <1>1, <1>2, <1>3, <2>1 DEF Held, Ids, Alike
  <2>5. ASSUME NEW m \in 1..ServiceCount
        PROVE  IF ~Gone(s, m) THEN s.sids[m] = None
               ELSE /\ \A i \in Called(s.every, Services[m]) :
                         Called(s.every, Services[m]) = {i} /\ s.sids[m] = i
                    /\ Left(s.every, Services[m]) => s.sids[m] = None
                    /\ Made(s.every, Services[m]) =>
                         /\ s.sids[m] \in SvcIds => s.every[s.sids[m]].name = "gone"
                         /\ s.sids[m] = None => s.at = "integration" /\ m = s.n
    <3>1. CASE Creates(q) /\ m = r.n
      <4>1. s.sids[m] = NextSvc(a) /\ Gone(s, m) /\ s.every = r.every
        BY <2>1, <2>2, <2>3, <3>1 DEF Alike
      <4>2. NextSvc(a) # None /\ s.every[NextSvc(a)].name = "gone"
        BY <1>3, <3>1, <4>1, SentinelAssumption
      <4> QED
        BY <2>3, <3>1, <4>1, <4>2
    <3>2. CASE ~(Creates(q) /\ m = r.n)
      <4>1. s.sids[m] = r.sids[m]
        BY <2>1, <3>2
      <4>2. s.every = r.every /\ s.at = r.at /\ s.n = r.n
        BY DEF Alike
      <4> QED
        BY <1>1, <2>2, <4>1, <4>2 DEF Held, Ids
    <3> QED
      BY <3>1, <3>2
  <2> QED
    BY <2>4, <2>5 DEF Ids
<1>6. Supported(b, s)
  <2>1. b.supports = IF q.kind = "support" THEN a.supports \cup {q.on} ELSE a.supports
    BY <1>1, HandleParts
  <2>2. q.kind = "support" => KindOf(q) = "support" /\ ~Creates(q)
    BY DEF KindOf, Creates
  <2>3. r.at \notin {"supports", "rules", "end"} => b.supports = a.supports
    BY <1>1, <2>1, <2>2 DEF Pending
  <2>4. ASSUME r.at = "supports", NEW m \in 1..ServiceCount, m >= r.n,
               NEW i \in Called(r.every, Services[m])
        PROVE  i \in b.supports <=> i \in a.supports
    <3>1. CASE q.kind = "support" /\ q.on = i
      <4>1. Services[m] \in Designed
        BY DEF Designed
      <4>2. q.who = Services[m]
        BY <2>2, <2>4, <3>1, <4>1, HandledChild DEF OfService, AfterServices
      <4>3. Pending(r, "support", q.who)
        BY <2>4, <4>2 DEF Pending
      <4> QED
        BY <1>1, <2>2, <3>1, <4>3
    <3>2. CASE ~(q.kind = "support" /\ q.on = i)
      BY <2>1, <3>2
    <3> QED
      BY <3>1, <3>2
  <2> HIDE DEF b
  <2>5. s.at = r.at /\ s.every = r.every /\ s.supporting = r.supporting /\ s.n = r.n
        /\ s.business = r.business
    BY DEF Alike
  <2>6. ASSUME s.at \in ServicePhase \cup {"slack", "business", "listing_supports"}, NEW i \in b.supports
        PROVE  s.every[i].name # "gone"
    <3>1. r.at \notin {"supports", "rules", "end"}
      BY <2>5, <2>6 DEF ServicePhase
    <3> QED
      BY <1>1, <2>3, <2>5, <2>6, <3>1 DEF Held, Supported
  <2> QED
    BY <1>1, <2>4, <2>5, <2>6 DEF Held, Supported
<1>7. NewHeld(b, s)
  <2> SUFFICES ASSUME r.at \in {"integration", "grouping"}, r.new, s.sids[r.n] \in SvcIds
               PROVE  Holding(b, s.sids[r.n]) = {}
    BY DEF NewHeld, Alike
  <2>1. r.at \in ServicePhase \cup AfterServices /\ Services[r.n] \in Designed
    BY <1>2 DEF ServicePhase, Designed
  <2>2. CASE Creates(q)
    <3>1. s.sids[r.n] = NextSvc(a)
      BY <1>2, <2>2
    <3>2. b.grp = a.grp
      BY <1>1, <2>2, HandledApart DEF Creates
    <3>3. Holding(a, NextSvc(a)) = {}
      BY <1>3, <2>2 DEF Writing, SettingsHold, UnusedSvc, Holding
    <3> QED
      BY <3>1, <3>2, <3>3 DEF Holding
  <2>3. CASE ~Creates(q) /\ q.kind # "grouping"
    <3>1. b.grp = a.grp /\ s.sids = r.sids
      BY <1>1, <2>3, HandledApart
    <3>2. Holding(a, r.sids[r.n]) = {}
      BY <1>1, <3>1 DEF Held, NewHeld
    <3> QED
      BY <3>1, <3>2 DEF Holding
  <2>4. CASE q.kind = "grouping"
    <3>1. s.sids = r.sids /\ ~Creates(q) /\ KindOf(q) = "grouping"
      BY <2>4 DEF Creates, KindOf
    <3>2. Holding(a, r.sids[r.n]) = {}
      BY <1>1, <3>1 DEF Held, NewHeld
    <3>3. q.who # Services[r.n]
      <4>1. Comes(r.at, "grouping")
        BY DEF Comes
      <4>2. Pending(r, "grouping", Services[r.n])
        BY <1>2, <4>1 DEF Pending, Children, ServicePhase
      <4> QED
        BY <1>1, <3>1, <4>2
    <3>4. q.on # r.sids[r.n]
      <4>1. a.svc[r.sids[r.n]].name = Services[r.n]
        BY <1>1, <1>2, <3>1 DEF KnownServices
      <4>2. a.svc[q.on].name = q.who
        BY <3>1 DEF Writing, Asked, Meant, OfService, Children
      <4> QED
        BY <3>3, <4>1, <4>2
    <3>5. b.grp = SettingsAfter(a, q)
      BY <1>0
    <3>6. CASE q.verb = "create"
      <4>1. q.members = {q.on}
        BY <2>4, <3>6 DEF Writing, Fits
      <4>2. \A g \in GrpIds : b.grp[g] = IF g = NextGrp(a) THEN [type |-> q.type, members |-> {q.on}]
                                         ELSE a.grp[g]
        BY <2>4, <3>5, <3>6, <4>1 DEF SettingsAfter
      <4>3. \A g \in GrpIds : r.sids[r.n] \notin b.grp[g].members
        BY <3>2, <3>4, <4>2 DEF Holding
      <4> QED
        BY <3>1, <4>3 DEF Holding
    <3>7. CASE q.verb = "update"
      <4>1. q.members = a.grp[q.setting].members
        BY <2>4, <3>7 DEF Writing, Fits
      <4>2. \A g \in GrpIds : b.grp[g] = IF g = q.setting
                              THEN [type |-> q.type, members |-> q.members] ELSE a.grp[g]
        BY <2>4, <3>5, <3>7 DEF SettingsAfter
      <4>3. \A g \in GrpIds : b.grp[g].members = a.grp[g].members
        BY <4>1, <4>2
      <4> QED
        BY <3>1, <3>2, <4>3 DEF Holding
    <3> QED
      BY <1>1, <3>6, <3>7 DEF Requests
  <2> QED
    BY <2>2, <2>3, <2>4
<1> QED
  BY <1>4, <1>5, <1>6, <1>7 DEF Held

\* What a run holds goes by its place, its listing, its findings and its ids.
LEMMA AlikeHeld ==
  ASSUME NEW a, NEW r, NEW s, Alike(r, s), s.sids = r.sids, Held(a, r)
  PROVE  Held(a, s)
<1>1. Members(a, s)
  BY DEF Alike, Held, Members
<1>2. Ids(s)
  BY DEF Alike, Held, Ids, Gone
<1>3. Supported(a, s) /\ NewHeld(a, s)
  BY DEF Alike, Held, Supported, NewHeld
<1> QED
  BY <1>1, <1>2, <1>3 DEF Held

\* A write under way is one of a run that holds what it has listed.
LEMMA WritingNow ==
  ASSUME IInv, Known, quiet, Held(acct, run), Asked(acct, run, req), Takes
  PROVE  Writing(acct, run, req)
<1>1. /\ run \in Runs /\ acct \in Account /\ req \in Requests /\ req # NoReq
      /\ HasRoom(acct, req) /\ SoundRequest(run, req) /\ Fits(acct, run, req)
  BY AnswerKeeps
<1>2. KnownServices(acct, run) /\ SettingsHold(acct)
  BY DEF Known, Sure
<1> QED
  BY <1>1, <1>2 DEF Writing

\* The answers that leave the run smooth leave it where it is.
LEMMA AnswerAlike ==
  ASSUME IInv, Done \/ Warned \/ PutBack \/ FallBack
  PROVE  /\ Alike(run, run') /\ req \in Requests /\ req # NoReq
         /\ run'.sids = IF Done /\ Creates(req) THEN [run.sids EXCEPT ![run.n] = NextSvc(acct)]
                        ELSE run.sids
         /\ run'.report = IF Done THEN run.report \cup {<<req.verb, req.kind, req.who>>}
                          ELSE IF PutBack THEN run.report \cup {<<"refused", "orchestration", req.who>>}
                          ELSE run.report
<1>1. run \in Runs /\ req \in Requests /\ req # NoReq
  BY DEF IInv, TypeOK, Done, Warned, PutBack, FallBack, Takes
<1>2. CASE Done
  BY <1>1, <1>2 DEF Done, Alike, Runs, Creates, Line
<1>3. CASE Warned
  <2>1. ~Done
    BY <1>3 DEF Warned, Done
  <2>2. ~PutBack
    BY <1>3 DEF Warned, PutBack
  <2> QED
    BY <1>1, <1>3, <2>1, <2>2 DEF Warned, Alike
<1>4. CASE PutBack
  <2>1. ~Done
    BY <1>4 DEF PutBack, Done
  <2> QED
    BY <1>1, <1>4, <2>1 DEF PutBack, Alike, Runs, Say
<1>5. CASE FallBack
  <2>1. ~Done
    BY <1>5 DEF FallBack, Done, Takes
  <2>2. ~PutBack
    BY <1>5 DEF FallBack, PutBack, Takes
  <2> QED
    BY <1>1, <1>5, <2>1, <2>2 DEF FallBack, Alike, Runs
<1> QED
  BY <1>2, <1>3, <1>4, <1>5

\* They leave what it holds.
LEMMA AnswerHeld ==
  ASSUME IInv, IInv', Known, quiet, Held(acct, run), Asked(acct, run, req),
         Done \/ Warned \/ PutBack \/ FallBack
  PROVE  Held(acct', run') /\ Asked(acct', run', req')
<1>1. Alike(run, run') /\ req \in Requests /\ req # NoReq /\ run \in Runs /\ run' \in Runs
  BY AnswerAlike DEF IInv, TypeOK
<1>2. CASE FallBack
  <2>1. ~Done
    BY <1>2 DEF FallBack, Done, Takes
  <2>2. run'.sids = run.sids /\ acct' = acct
    BY <1>2, <2>1, AnswerAlike DEF FallBack
  <2>3. Held(acct', run')
    BY <1>1, <2>2, AlikeHeld
  <2>4. /\ req'.kind = req.kind /\ req'.verb = req.verb /\ req'.who = req.who /\ req'.on = req.on
        /\ req'.setting = req.setting
    BY <1>1, <1>2 DEF FallBack, Requests
  <2>5. KindOf(req') = KindOf(req) /\ (Creates(req') <=> Creates(req))
    BY <2>4 DEF KindOf, Creates
  <2>6. \A k, w : Pending(run', k, w) <=> Pending(run, k, w)
    BY <1>1, AlikeSame
  <2>7. Meant(acct', run', req')
    BY <1>1, <2>2, <2>4, <2>5 DEF Asked, Meant, Alike
  <2> QED
    BY <1>1, <2>3, <2>4, <2>5, <2>6, <2>7 DEF Asked
<1>3. CASE Done \/ Warned \/ PutBack
  <2>1. Takes /\ acct' = Handle(acct, req)
    BY <1>3 DEF Done, Warned, PutBack
  <2>2. Writing(acct, run, req)
    BY <2>1, WritingNow
  <2>3. run'.sids = IF Creates(req) THEN [run.sids EXCEPT ![run.n] = NextSvc(acct)] ELSE run.sids
    <3>1. Warned \/ PutBack => ~Creates(req)
      BY DEF Warned, PutBack, Creates
    <3> QED
      BY <1>3, <3>1, AnswerAlike
  <2>4. Held(acct', run')
    BY <1>1, <2>1, <2>2, <2>3, HandledHeld
  <2>5. CASE req' = NoReq
    BY <2>4, <2>5 DEF Asked
  <2>6. CASE Warned
    <3>1. /\ req'.kind = "putback" /\ req.kind = "orchestration" /\ req'.who = req.who
          /\ req'.on = req.on /\ run' = run
      BY <1>1, <2>6 DEF Warned, Requests
    <3>2. KindOf(req') = KindOf(req) /\ ~Creates(req) /\ KindOf(req) \in OfService
      BY <3>1 DEF KindOf, Creates, OfService, Children
    <3>3. req.on \in SvcIds /\ acct.svc[req.on].name # "gone"
      BY <2>1, <2>2, <3>1 DEF Writing, SoundRequest, OnService, Takes, CanTake
    <3>4. acct'.svc[req.on].name = acct.svc[req.on].name
      BY <2>1, <2>2, <3>3, HandledService DEF Writing
    <3>5. Meant(acct', run', req')
      BY <1>1, <3>1, <3>2, <3>4 DEF Asked, Meant
    <3> QED
      BY <1>1, <2>4, <3>1, <3>2, <3>5 DEF Asked
  <2> QED
    BY <1>3, <2>5, <2>6 DEF Done, PutBack
<1> QED
  BY <1>2, <1>3

\* A new run holds nothing.
LEMMA StartHeld ==
  ASSUME IInv, Start
  PROVE  /\ run'.at = "preflight" /\ run'.report = {} /\ run'.args \in Modes
         /\ acct' = acct /\ req' = NoReq /\ exit' = None
         /\ Held(acct', run') /\ Asked(acct', run', req')
<1>1. PICK args \in Modes : run' = [Idle(args) EXCEPT !.at = "preflight"]
  BY DEF Start
<1>2. /\ run'.at = "preflight" /\ run'.report = {} /\ run'.args = args
      /\ \A p \in People : run'.roles[p] = "absent"
      /\ \A m \in 1..ServiceCount : run'.sids[m] = None
  BY <1>1 DEF Idle
<1>3. acct' = acct /\ req' = NoReq /\ exit' = None
  BY DEF Start, IInv, Control, SoundRun
<1>4. Held(acct', run')
  BY <1>2 DEF Held, Members, Ids, Supported, NewHeld, Gone, ServiceAts, ServicePhase, AfterServices
<1> QED
  BY <1>2, <1>3, <1>4 DEF Asked

\* Every step keeps it.
LEMMA HeldStep ==
  ASSUME IInv, IInv', Known, SmoothInv, HeldInv, [Next]_vars
  PROVE  HeldInv'
<1>1. SupportsHold(acct')
  BY SupportsStep DEF HeldInv
<1> SUFFICES /\ run'.at # "idle" /\ ~run'.args.apply /\ quiet' => smooth'
             /\ run'.at # "idle" /\ smooth' => Held(acct', run') /\ Asked(acct', run', req')
  BY <1>1 DEF HeldInv
<1>2. CASE Start
  BY <1>2, StartHeld DEF Start
<1>3. CASE Ensure
  <2>1. /\ acct' = acct /\ quiet' = quiet /\ smooth' = smooth /\ run'.args = run.args /\ run.at # "idle"
    BY <1>3, EnsureKeeps
  <2>2. CASE ~smooth
    BY <2>1, <2>2 DEF HeldInv
  <2>3. CASE smooth
    <3>1. Goes \/ Stopped \/ End \/ ReadGone
      BY <1>3, <2>1, <2>3, EnsureGoes DEF HeldInv, SmoothInv
    <3>2. CASE Goes
      BY <2>1, <2>3, <3>2 DEF Goes
    <3>3. CASE Stopped \/ End \/ ReadGone
      <4>1. run'.at = "idle"
        BY <3>3 DEF Stopped, StopRefused, End, ReadGone, Exit, IInv, TypeOK, Runs
      <4> QED
        BY <4>1
    <3> QED
      BY <3>1, <3>2, <3>3
  <2> QED
    BY <2>2, <2>3
<1>4. CASE Answer
  <2>1. /\ run'.args = run.args /\ run.args.apply /\ run.at # "idle" /\ quiet' = quiet
        /\ \/ smooth' = smooth /\ (Done \/ Warned \/ PutBack \/ FallBack)
           \/ smooth' = FALSE
    BY <1>4, AnswerStays
  <2>2. CASE smooth' /\ smooth /\ (Done \/ Warned \/ PutBack \/ FallBack)
    <3>1. Held(acct, run) /\ Asked(acct, run, req) /\ quiet
      BY <2>1, <2>2 DEF HeldInv, SmoothInv
    <3> QED
      BY <2>1, <2>2, <3>1, AnswerHeld
  <2> QED
    BY <2>1, <2>2
<1>5. CASE Abort
  <2>1. run'.at = "idle"
    BY <1>5 DEF Abort, Exit, IInv, TypeOK, Runs
  <2> QED
    BY <2>1
<1>6. CASE EditByHand
  BY <1>6 DEF EditByHand
<1>7. CASE UNCHANGED vars
  BY <1>7 DEF vars, history, HeldInv
<1> QED
  BY <1>2, <1>3, <1>4, <1>5, <1>6, <1>7 DEF Next

\* It holds before the first run.
LEMMA HeldInit == Init => HeldInv
BY StartsAssumption DEF Init, HeldInv, Idle

-----------------------------------------------------------------------------
(* What a dry run has said *)

\* What a run says is plain when it reads the account as it is.
LEMMA SaysPlain ==
  ASSUME NEW a, NEW r, Listing(a, r) = a.svc, TeamFound(a, r) <=> Exists(a, "team"),
         BusinessFound(a, r) <=> Exists(a, "business"), NEW k, NEW w
  PROVE  SaysNow(a, r, k, w) = Plain(a, r.args, k, w)
<1>1. MemberSays(a, TeamFound(a, r), w) = MemberSays(a, Exists(a, "team"), w)
  BY DEF MemberSays
<1>2. SupportSays(a, Listing(a, r), BusinessFound(a, r), w)
        = SupportSays(a, Listing(a, r), Exists(a, "business"), w)
  BY DEF SupportSays
<1> QED
  BY <1>1, <1>2 DEF SaysNow, Plain, Says, ChildSays, FoundSays

\* It does not go by whether the run may write.
LEMMA PlainBoth ==
  ASSUME NEW a, NEW x, NEW y, x.retry = y.retry, x.addRules = y.addRules, NEW k, NEW w
  PROVE  Plain(a, x, k, w) = Plain(a, y, k, w)
<1>1. GroupingSays(a, a.svc, x, w) = GroupingSays(a, a.svc, y, w)
  BY DEF GroupingSays, Enough
<1>2. RuleSays(a, x, w) = RuleSays(a, y, w)
  BY DEF RuleSays
<1> QED
  BY <1>1, <1>2 DEF Plain, Says, ChildSays, FoundSays

\* A run begins with everything yet to come, read as it is.
LEMMA BeginsPlain ==
  ASSUME NEW a, NEW r, r.at = "preflight"
  PROVE  /\ Listing(a, r) = a.svc /\ (TeamFound(a, r) <=> Exists(a, "team"))
         /\ (BusinessFound(a, r) <=> Exists(a, "business"))
         /\ \A k, w : Of(k, w) => Pending(r, k, w)
<1>1. /\ r.at \notin AfterTeam /\ r.at \notin AfterBusiness
      /\ r.at \notin ServicePhase \cup AfterServices
  BY DEF AfterTeam, AfterSchedule, AfterPolicy, AfterServices, AfterBusiness, ServicePhase
<1> QED
  BY <1>1, AllToCome DEF Listing, TeamFound, BusinessFound

\* It ends with nothing yet to come.
LEMMA EndsPast == ASSUME NEW r, r.at = "end", NEW k, NEW w PROVE ~Pending(r, k, w)
BY DEF Pending, AfterTeam, AfterSchedule, AfterPolicy, AfterServices, AfterBusiness, ServicePhase

\* Every step of a dry run keeps what it has said true of the account.
LEMMA DryStep ==
  ASSUME IInv, Known, SmoothInv, HeldInv, DryInv, [Next]_vars
  PROVE  DryInv'
<1> SUFFICES ASSUME run'.at # "idle", ~run'.args.apply, smooth' PROVE DryInv'
  BY DEF DryInv
<1>1. CASE Start
  <2>1. run'.at = "preflight" /\ run'.report = {} /\ acct' = acct
    BY <1>1, StartHeld
  <2>2. /\ Listing(acct', run') = acct'.svc /\ (TeamFound(acct', run') <=> Exists(acct', "team"))
        /\ (BusinessFound(acct', run') <=> Exists(acct', "business"))
        /\ \A k, w : Of(k, w) => Pending(run', k, w)
    BY <2>1, BeginsPlain
  <2> QED
    BY <2>1, <2>2 DEF DryInv
<1>2. CASE Ensure
  <2>1. /\ acct' = acct /\ quiet' = quiet /\ smooth' = smooth /\ run'.args = run.args
        /\ run.at # "idle" /\ req = NoReq
    BY <1>2, EnsureKeeps
  <2>2. Goes \/ Stopped \/ End \/ ReadGone
    BY <1>2, <2>1, EnsureGoes DEF HeldInv, SmoothInv
  <2>3. Stopped \/ End \/ ReadGone => run'.at = "idle"
    BY DEF Stopped, StopRefused, End, ReadGone, Exit, IInv, TypeOK, Runs
  <2>4. Goes
    BY <2>2, <2>3
  <2>5. /\ SameView(acct, run, run') /\ run.report \subseteq run'.report
        /\ \A k \in WriteKinds, w \in Subjects : Of(k, w) /\ Pending(run', k, w) => Pending(run, k, w)
        /\ \A k \in WriteKinds, w \in Subjects : Passed(run, run', k, w) =>
             SaysNow(acct, run, k, w) # "stop" /\ Told(run, run', req', SaysNow(acct, run, k, w), k, w)
        /\ \A v \in Verbs, k \in WriteKinds, w \in Subjects : <<v, k, w>> \in run'.report =>
             \/ <<v, k, w>> \in run.report
             \/ Passed(run, run', k, w) /\ v = SaysNow(acct, run, k, w)
    BY <2>4 DEF Goes, Moves
  <2>6. /\ Listing(acct, run) = acct.svc
        /\ TeamFound(acct, run) <=> Exists(acct, "team")
        /\ BusinessFound(acct, run) <=> Exists(acct, "business")
        /\ run.at # "preflight" => acct.ready
        /\ \A k \in WriteKinds, w \in Subjects :
             Of(k, w) /\ ~Pending(run, k, w) => Plain(acct, run.args, k, w) # "stop"
        /\ \A v \in Verbs, k \in WriteKinds, w \in Subjects :
             <<v, k, w>> \in run.report <=>
               Of(k, w) /\ ~Pending(run, k, w) /\ v = Plain(acct, run.args, k, w)
    BY <2>1 DEF DryInv
  <2>7. /\ Listing(acct', run') = acct'.svc
        /\ TeamFound(acct', run') <=> Exists(acct', "team")
        /\ BusinessFound(acct', run') <=> Exists(acct', "business")
    BY <2>1, <2>5, <2>6 DEF SameView
  <2>8. \A k, w : SaysNow(acct, run, k, w) = Plain(acct, run.args, k, w)
    BY <2>6, SaysPlain
  <2>9. run'.at # "preflight" => acct'.ready
    BY <1>2, <2>1, <2>4, <2>6, ReadyFirst
  <2>10. ASSUME NEW k \in WriteKinds, NEW w \in Subjects, Of(k, w), ~Pending(run', k, w)
         PROVE  Plain(acct', run'.args, k, w) # "stop"
    BY <2>1, <2>5, <2>6, <2>8, <2>10 DEF Passed
  <2>11. ASSUME NEW v \in Verbs, NEW k \in WriteKinds, NEW w \in Subjects
         PROVE  <<v, k, w>> \in run'.report <=>
                  Of(k, w) /\ ~Pending(run', k, w) /\ v = Plain(acct', run'.args, k, w)
    <3>1. ASSUME <<v, k, w>> \in run'.report
          PROVE  Of(k, w) /\ ~Pending(run', k, w) /\ v = Plain(acct', run'.args, k, w)
      BY <2>1, <2>5, <2>6, <2>8, <3>1 DEF Passed
    <3>2. ASSUME Of(k, w), ~Pending(run', k, w), v = Plain(acct', run'.args, k, w)
          PROVE  <<v, k, w>> \in run'.report
      <4>1. CASE ~Pending(run, k, w)
        BY <2>1, <2>5, <2>6, <3>2, <4>1
      <4>2. CASE Pending(run, k, w)
        <5>1. Told(run, run', req', v, k, w)
          BY <2>1, <2>5, <2>8, <3>2, <4>2 DEF Passed
        <5>2. v # "none" /\ ~run.args.apply
          BY <2>1 DEF Verbs
        <5> QED
          BY <5>1, <5>2 DEF Told
      <4> QED
        BY <4>1, <4>2
    <3> QED
      BY <3>1, <3>2
  <2> QED
    BY <2>7, <2>9, <2>10, <2>11 DEF DryInv
<1>3. CASE Answer
  BY <1>3, AnswerStays
<1>4. CASE Abort
  BY <1>4 DEF Abort
<1>5. CASE EditByHand
  BY <1>5 DEF EditByHand
<1>6. CASE UNCHANGED vars
  BY <1>6 DEF vars, history, DryInv
<1> QED
  BY <1>1, <1>2, <1>3, <1>4, <1>5, <1>6 DEF Next

\* A plan that was left stays true of the account until somebody changes that.
LEMMA PlanStep ==
  ASSUME IInv, Known, SmoothInv, HeldInv, DryInv, PlanInv, [Next]_vars
  PROVE  PlanInv'
<1> SUFFICES ASSUME plan' # None, ~run'.args.apply PROVE PlanInv'
  BY DEF PlanInv
<1>1. ASSUME plan' = plan, acct' = acct, ~run.args.apply
      PROVE  PlanInv'
  BY <1>1 DEF PlanInv
<1>2. CASE Start
  <2>1. plan' = plan /\ ~run.args.apply /\ acct' = acct
    BY <1>2 DEF Start
  <2> QED
    BY <1>1, <2>1
<1>3. CASE Ensure
  <2>1. acct' = acct /\ run'.args = run.args /\ (plan' = plan \/ End) /\ run.at # "idle"
    BY <1>3, EnsureKeeps
  <2>2. CASE plan' = plan
    BY <1>1, <2>1, <2>2
  <2>3. CASE End /\ plan' # plan
    <3>1. run.at = "end" /\ quiet /\ plan' = [report |-> run.report, args |-> run.args]
      BY <2>3 DEF End, Step
    <3>2. smooth
      BY <2>1, <3>1 DEF HeldInv
    <3>3. \A k, w : ~Pending(run, k, w)
      BY <3>1, EndsPast
    <3>4. plan'.report = run.report /\ plan'.args = run.args
      BY <3>1
    <3>5. acct.ready
      BY <2>1, <3>1, <3>2 DEF DryInv
    <3>6. \A k \in WriteKinds, w \in Subjects : Of(k, w) => Plain(acct, run.args, k, w) # "stop"
      BY <2>1, <3>2, <3>3 DEF DryInv
    <3>7. \A v \in Verbs, k \in WriteKinds, w \in Subjects :
            <<v, k, w>> \in run.report <=> Of(k, w) /\ v = Plain(acct, run.args, k, w)
      BY <2>1, <3>2, <3>3 DEF DryInv
    <3> QED
      BY <2>1, <3>4, <3>5, <3>6, <3>7 DEF PlanInv
  <2> QED
    BY <2>1, <2>2, <2>3
<1>4. CASE Answer
  BY <1>4, AnswerStays
<1>5. CASE Abort
  <2>1. plan' = plan /\ run'.args = run.args
    BY <1>5 DEF Abort, Exit, IInv, TypeOK, Runs
  <2>2. acct' = acct
    BY <1>5, <2>1 DEF Abort, Takes, IInv, Control, SoundRequest
  <2> QED
    BY <1>1, <2>1, <2>2
<1>6. CASE EditByHand
  BY <1>6 DEF EditByHand
<1>7. CASE UNCHANGED vars
  BY <1>7 DEF vars, history, PlanInv
<1> QED
  BY <1>2, <1>3, <1>4, <1>5, <1>6, <1>7 DEF Next

-----------------------------------------------------------------------------
(* What an --apply has done of its plan *)

\* A setting that was corrected stays so.
LEMMA RightedStays ==
  ASSUME IInv, Known, NEW w,
         acct' = acct \/ (quiet /\ Takes /\ acct' = Handle(acct, req)),
         run.report \subseteq run'.report, RightedWithAnother(w)
  PROVE  RightedWithAnother(w)'
<1>0. PICK g \in GrpIds : \E i, j \in acct.grp[g].members :
        acct.svc[i].name = w /\ <<"update", "grouping", acct.svc[j].name>> \in run.report
  BY DEF RightedWithAnother
<1>1. PICK i \in acct.grp[g].members, j \in acct.grp[g].members :
        acct.svc[i].name = w /\ <<"update", "grouping", acct.svc[j].name>> \in run.report
  BY <1>0
<1>2. CASE acct' = acct
  BY <1>1, <1>2 DEF RightedWithAnother
<1>3. CASE quiet /\ Takes /\ acct' = Handle(acct, req)
  <2>1. /\ acct \in Account /\ req \in Requests /\ SoundRequest(run, req) /\ Fits(acct, run, req)
        /\ HasRoom(acct, req)
    BY <1>3, AnswerKeeps
  <2>2. acct.grp[g].members \subseteq acct'.grp[g].members
    BY <1>3, <2>1, HandledSettings DEF WholeSetting, Fits, Requests
  <2>3. ASSUME NEW n \in acct.grp[g].members PROVE acct'.svc[n].name = acct.svc[n].name
    <3>1. n \in SvcIds
      BY <2>1 DEF Account, Setting
    <3>2. acct.svc[n].name # "gone"
      BY <3>1 DEF Known, SettingsHold, UnusedSvc
    <3> QED
      BY <1>3, <2>1, <3>1, <3>2, HandledService
  <2> QED
    BY <1>1, <2>2, <2>3 DEF RightedWithAnother
<1> QED
  BY <1>2, <1>3

\* An --apply that begins has all of its plan before it.
LEMMA StartFollows ==
  ASSUME IInv, PlanInv, Start, Following'
  PROVE  FollowInv'
<1>1. /\ run'.at = "preflight" /\ run'.report = {} /\ acct' = acct /\ req' = NoReq
  BY StartHeld
<1>2. /\ plan' # None /\ plan' = plan /\ ~run.args.apply
      /\ plan.args = [run'.args EXCEPT !.apply = FALSE]
  BY DEF Following, Start
<1>4. \A k, w : Plain(acct, run'.args, k, w) = Plain(acct, plan.args, k, w)
  <2>1. plan.args.retry = run'.args.retry /\ plan.args.addRules = run'.args.addRules
    <3>1. run'.args \in Args
      BY StartHeld, ModesAssumption
    <3> QED
      BY <1>2, <3>1 DEF Args
  <2> QED
    BY <2>1, PlainBoth
<1>5. /\ acct.ready
      /\ \A k \in WriteKinds, w \in Subjects : Of(k, w) => Plain(acct, plan.args, k, w) # "stop"
      /\ \A v \in Verbs, k \in WriteKinds, w \in Subjects :
           <<v, k, w>> \in plan.report <=> Of(k, w) /\ v = Plain(acct, plan.args, k, w)
  BY <1>2 DEF PlanInv
<1>6. /\ Listing(acct, run') = acct.svc /\ (TeamFound(acct, run') <=> Exists(acct, "team"))
      /\ (BusinessFound(acct, run') <=> Exists(acct, "business"))
      /\ \A k, w : Of(k, w) => Pending(run', k, w)
  BY <1>1, BeginsPlain
<1>7. \A k, w : SaysNow(acct', run', k, w) = Plain(acct, plan.args, k, w)
  BY <1>1, <1>4, <1>6, SaysPlain
<1>8. Planned'
  BY <1>1, <1>2, <1>5 DEF Planned
<1>9. ASSUME NEW k \in WriteKinds, NEW w \in Subjects, Of(k, w) PROVE Coming(k, w)'
  <2>1. SaysNow(acct', run', k, w) # "stop"
    BY <1>5, <1>7, <1>9
  <2>2. \A v \in Verbs : <<v, k, w>> \in plan'.report <=> v = SaysNow(acct', run', k, w)
    BY <1>2, <1>5, <1>7, <1>9
  <2> QED
    BY <2>1, <2>2 DEF Coming
<1>10. \A v \in Verbs, k \in WriteKinds, w \in Subjects : <<v, k, w>> \in plan'.report => Pending(run', k, w)
  BY <1>2, <1>5, <1>6
<1> QED
  BY <1>1, <1>5, <1>8, <1>9, <1>10 DEF FollowInv

\* A step of its own that goes on does and says what was planned.
LEMMA GoesFollow ==
  ASSUME IInv, IInv', Known, Following, FollowInv, run.at # "idle", req = NoReq, plan' = plan, Goes
  PROVE  FollowInv'
<1>1. /\ acct' = acct /\ run'.at # "idle" /\ SameView(acct, run, run') /\ run'.args = run.args
      /\ run.report \subseteq run'.report /\ run.args.apply
      /\ \A k \in WriteKinds, w \in Subjects : Of(k, w) /\ Pending(run', k, w) => Pending(run, k, w)
      /\ \A k \in WriteKinds, w \in Subjects : Passed(run, run', k, w) =>
           Told(run, run', req', SaysNow(acct, run, k, w), k, w)
      /\ \A v \in Verbs, k \in WriteKinds, w \in Subjects : <<v, k, w>> \in run'.report =>
           \/ <<v, k, w>> \in run.report
           \/ Passed(run, run', k, w) /\ v = SaysNow(acct, run, k, w) /\ v = "refused"
      /\ req' # NoReq => /\ Passed(run, run', req'.kind, req'.who) /\ req'.kind # "putback"
                         /\ req'.verb = SaysNow(acct, run, req'.kind, req'.who)
  BY DEF Goes, Moves, SameView, Following
<1>2. /\ Planned /\ acct.ready
      /\ \A k \in WriteKinds, w \in Subjects : Of(k, w) /\ Pending(run, k, w) => Coming(k, w)
      /\ \A v \in Verbs, k \in WriteKinds, w \in Subjects :
           <<v, k, w>> \in plan.report /\ ~Pending(run, k, w) => Answered(v, k, w)
  BY DEF FollowInv
<1>3. ASSUME NEW w, RightedWithAnother(w) PROVE RightedWithAnother(w)'
  BY <1>1, <1>3, RightedStays
<1>4. ASSUME NEW k \in WriteKinds, NEW w \in Subjects, Passed(run, run', k, w),
             NEW v \in Verbs, v = SaysNow(acct, run, k, w)
      PROVE  <<v, k, w>> \in plan.report
  <2>1. Coming(k, w)
    BY <1>2, <1>4 DEF Passed
  <2>2. v # "none"
    BY DEF Verbs
  <2> QED
    BY <1>4, <2>1, <2>2 DEF Coming
<1>5. Planned'
  <2>1. ASSUME NEW v \in Verbs, NEW k \in WriteKinds, NEW w \in Subjects, <<v, k, w>> \in run'.report
        PROVE  /\ \E u \in Verbs : <<u, k, w>> \in plan.report
               /\ v # "refused" => <<v, k, w>> \in plan.report
    <3>1. CASE <<v, k, w>> \in run.report
      BY <1>2, <3>1 DEF Planned
    <3>2. CASE <<v, k, w>> \notin run.report
      BY <1>1, <1>4, <2>1, <3>2
    <3> QED
      BY <3>1, <3>2
  <2>2. ASSUME req' # NoReq PROVE <<req'.verb, KindOf(req'), req'.who>> \in plan.report
    <3>1. req' \in Requests
      BY <2>2 DEF IInv, TypeOK
    <3>2. req'.verb \in Verbs /\ req'.kind \in WriteKinds /\ req'.who \in Subjects
      BY <3>1 DEF Requests, Verbs
    <3>3. KindOf(req') = req'.kind
      BY <1>1, <2>2 DEF KindOf
    <3> QED
      BY <1>1, <1>4, <2>2, <3>2, <3>3
  <2> QED
    BY <1>2, <2>1, <2>2 DEF Planned
<1>6. ASSUME NEW k \in WriteKinds, NEW w \in Subjects, Of(k, w), Pending(run', k, w)
      PROVE  Coming(k, w)'
  <2>1. Coming(k, w)
    BY <1>1, <1>2, <1>6
  <2>2. SaysNow(acct', run', k, w) = SaysNow(acct, run, k, w)
    BY <1>1, SaysSame
  <2> QED
    BY <1>3, <2>1, <2>2 DEF Coming
<1>7. ASSUME NEW v \in Verbs, NEW k \in WriteKinds, NEW w \in Subjects, <<v, k, w>> \in plan.report,
             ~Pending(run', k, w)
      PROVE  Answered(v, k, w)'
  <2>1. CASE ~Pending(run, k, w)
    <3>1. Answered(v, k, w)
      BY <1>2, <1>7, <2>1
    <3> QED
      BY <1>1, <1>3, <3>1 DEF Answered
  <2>2. CASE Pending(run, k, w)
    <3>1. Of(k, w) /\ Coming(k, w) /\ Passed(run, run', k, w)
      BY <1>2, <1>7, <2>2 DEF Planned, Passed
    <3>2. CASE v = SaysNow(acct, run, k, w)
      <4>1. Told(run, run', req', v, k, w) /\ v # "none"
        BY <1>1, <3>1, <3>2 DEF Verbs
      <4>2. CASE <<v, k, w>> \in run'.report
        BY <4>2 DEF Answered
      <4>3. CASE req' # NoReq /\ req'.kind = k /\ req'.who = w
        <5>1. KindOf(req') = k
          BY <1>1, <4>3 DEF KindOf
        <5> QED
          BY <4>3, <5>1 DEF Answered
      <4> QED
        BY <4>1, <4>2, <4>3 DEF Told
    <3>3. CASE v # SaysNow(acct, run, k, w)
      <4>1. k = "grouping" /\ v = "update" /\ RightedWithAnother(w)
        BY <1>7, <3>1, <3>3 DEF Coming
      <4> QED
        BY <1>3, <4>1 DEF Answered
    <3> QED
      BY <3>2, <3>3
  <2> QED
    BY <2>1, <2>2
<1>8. acct'.ready
  BY <1>1, <1>2
<1> QED
  BY <1>1, <1>5, <1>6, <1>7, <1>8 DEF FollowInv

\* A step of its own.
LEMMA EnsureFollows ==
  ASSUME IInv, IInv', Known, SmoothInv, HeldInv, Following, FollowInv, Ensure
  PROVE  FollowInv'
<1>1. /\ acct' = acct /\ req = NoReq /\ run.at # "idle" /\ (plan' = plan \/ End)
      /\ smooth /\ quiet /\ run.args.apply
  BY EnsureKeeps DEF Following, SmoothInv
<1>2. plan' = plan
  BY <1>1 DEF End
<1>3. Goes \/ Stopped \/ End \/ ReadGone
  BY <1>1, EnsureGoes DEF HeldInv
<1>4. CASE Goes
  BY <1>1, <1>2, <1>4, GoesFollow
<1>5. ~ReadGone
  BY <1>1, NeverReadsGone
<1>6. ~Stopped
  <2>1. acct.ready
    BY <1>1 DEF FollowInv
  <2>2. ASSUME NEW k, NEW w, Of(k, w), Pending(run, k, w) PROVE SaysNow(acct, run, k, w) # "stop"
    <3>1. k \in WriteKinds /\ w \in Subjects
      BY <2>2, OfTypes
    <3> QED
      BY <1>1, <2>2, <3>1 DEF FollowInv, Coming
  <2> QED
    BY <2>1, <2>2 DEF Stopped
<1>7. CASE End
  <2>1. run.at = "end" /\ run' = [run EXCEPT !.at = "idle"] /\ req' = NoReq /\ run \in Runs
    BY <1>7 DEF End, Step, Exit, IInv, TypeOK
  <2>2. run'.at = "idle" /\ run'.report = run.report
    BY <2>1 DEF Runs
  <2>3. \A k, w : ~Pending(run, k, w)
    BY <2>1, EndsPast
  <2>4. /\ Planned
        /\ \A v \in Verbs, k \in WriteKinds, w \in Subjects :
             <<v, k, w>> \in plan.report => Answered(v, k, w)
    BY <1>1, <2>3 DEF FollowInv
  <2>5. ASSUME NEW w, RightedWithAnother(w) PROVE RightedWithAnother(w)'
    BY <1>1, <2>2, <2>5, RightedStays
  <2>6. \A v \in Verbs, k \in WriteKinds, w \in Subjects :
          <<v, k, w>> \in plan.report => Answered(v, k, w)'
    BY <1>1, <2>2, <2>4, <2>5 DEF Answered
  <2>7. Planned'
    BY <1>2, <2>1, <2>2, <2>4 DEF Planned
  <2> QED
    BY <1>2, <2>2, <2>6, <2>7 DEF FollowInv
<1> QED
  BY <1>3, <1>4, <1>5, <1>6, <1>7

\* What is yet to come is as planned after PagerDuty's answer too.
LEMMA AnswerComes ==
  ASSUME IInv, Known, quiet, Held(acct, run), Asked(acct, run, req), plan' = plan,
         Done \/ Warned \/ PutBack \/ FallBack,
         NEW k \in WriteKinds, NEW w \in Subjects, Of(k, w), Pending(run, k, w), Coming(k, w)
  PROVE  Coming(k, w)'
<1>1. /\ Alike(run, run') /\ run.report \subseteq run'.report
      /\ Done => <<req.verb, req.kind, req.who>> \in run'.report
  BY AnswerAlike
<1>2. SaysNow(acct', run', k, w) = SaysNow(acct', run, k, w)
  BY <1>1, AlikeSame, SaysSame
<1>3. acct' = acct \/ (quiet /\ Takes /\ acct' = Handle(acct, req))
  BY DEF Done, Warned, PutBack, FallBack
<1>4. RightedWithAnother(w) => RightedWithAnother(w)'
  BY <1>1, <1>3, RightedStays
<1>5. CASE SaysNow(acct', run, k, w) = SaysNow(acct, run, k, w)
  BY <1>2, <1>4, <1>5 DEF Coming
<1>6. CASE SaysNow(acct', run, k, w) # SaysNow(acct, run, k, w)
  <2>1. Takes /\ acct' = Handle(acct, req)
    BY <1>3, <1>6
  <2>2. Writing(acct, run, req)
    BY <2>1, WritingNow
  <2>3. k = "grouping" /\ Corrected(acct, run, req, w)
    BY <1>6, <2>1, <2>2, HandledSays
  <2>4. /\ SaysNow(acct, run, k, w) = "update" /\ SaysNow(acct', run', k, w) = "none"
        /\ req.kind = "grouping" /\ req.verb = "update"
        /\ \E g \in GrpIds : \E i, j \in acct'.grp[g].members :
             acct'.svc[i].name = w /\ acct'.svc[j].name = req.who
    BY <1>2, <2>1, <2>3 DEF Corrected
  <2>5. \A v \in Verbs : <<v, k, w>> \in plan.report <=> v = "update"
    BY <2>4 DEF Coming
  <2>6. Done
    BY <2>1, <2>4 DEF Warned, PutBack, FallBack, Takes
  <2>7. RightedWithAnother(w)'
    BY <1>1, <2>4, <2>6 DEF RightedWithAnother
  <2> QED
    BY <2>3, <2>4, <2>5, <2>7 DEF Coming
<1> QED
  BY <1>5, <1>6

\* An answer that leaves the run smooth.
LEMMA AnswerFollows ==
  ASSUME IInv, IInv', Known, SmoothInv, HeldInv, Following, FollowInv,
         Done \/ Warned \/ PutBack \/ FallBack
  PROVE  FollowInv'
<1>1. /\ run.at # "idle" /\ plan' = plan /\ smooth /\ quiet
      /\ Held(acct, run) /\ Asked(acct, run, req) /\ run'.at = run.at
  BY AnswerStays, AnswerAlike DEF Alike, Following, SmoothInv, HeldInv, Answer
<1>2. /\ Alike(run, run') /\ run.report \subseteq run'.report /\ req \in Requests /\ req # NoReq
      /\ run'.report = IF Done THEN run.report \cup {<<req.verb, req.kind, req.who>>}
                       ELSE IF PutBack THEN run.report \cup {<<"refused", "orchestration", req.who>>}
                       ELSE run.report
  BY AnswerAlike
<1>3. /\ Planned /\ acct.ready
      /\ \A k \in WriteKinds, w \in Subjects : Of(k, w) /\ Pending(run, k, w) => Coming(k, w)
      /\ \A v \in Verbs, k \in WriteKinds, w \in Subjects :
           <<v, k, w>> \in plan.report /\ ~Pending(run, k, w) => Answered(v, k, w)
  BY <1>1 DEF FollowInv
<1>4. acct' = acct \/ (quiet /\ Takes /\ acct' = Handle(acct, req))
  BY <1>1 DEF Done, Warned, PutBack, FallBack
<1>5. ASSUME NEW w, RightedWithAnother(w) PROVE RightedWithAnother(w)'
  BY <1>2, <1>4, <1>5, RightedStays
<1>6. \A k, w : Pending(run', k, w) <=> Pending(run, k, w)
  BY <1>2, AlikeSame
<1>7. acct'.ready
  <2>1. acct \in Account
    BY DEF IInv, TypeOK
  <2>2. Handle(acct, req).ready = acct.ready
    BY <2>1, HandleParts
  <2> QED
    BY <1>3, <1>4, <2>2
<1>8. \A k \in WriteKinds, w \in Subjects : Of(k, w) /\ Pending(run', k, w) => Coming(k, w)'
  BY <1>1, <1>3, <1>6, AnswerComes
<1>9. /\ KindOf(req) \in WriteKinds /\ req.who \in Subjects /\ req.verb \in Verbs
      /\ req.verb # "refused" /\ <<req.verb, KindOf(req), req.who>> \in plan.report
  BY <1>2, <1>3 DEF Requests, KindOf, WriteKinds, Verbs, Planned
<1>10. Done => KindOf(req) = req.kind
  BY DEF Done, KindOf
<1>11. PutBack => KindOf(req) = "orchestration"
  BY DEF PutBack, KindOf
<1>12. req' # NoReq => KindOf(req') = KindOf(req) /\ req'.verb = req.verb /\ req'.who = req.who
  <2>1. CASE Done \/ PutBack
    BY <2>1 DEF Done, PutBack
  <2>2. CASE Warned
    BY <1>2, <2>2 DEF Warned, KindOf, Requests
  <2>3. CASE FallBack
    BY <1>2, <2>3 DEF FallBack, KindOf, Requests
  <2> QED
    BY <2>1, <2>2, <2>3
<1>13. Planned'
  <2>1. ASSUME NEW v \in Verbs, NEW k \in WriteKinds, NEW w \in Subjects, <<v, k, w>> \in run'.report
        PROVE  /\ \E u \in Verbs : <<u, k, w>> \in plan.report
               /\ v # "refused" => <<v, k, w>> \in plan.report
    <3>1. CASE <<v, k, w>> \in run.report
      BY <1>3, <3>1 DEF Planned
    <3>2. CASE <<v, k, w>> \notin run.report
      <4>1. k = KindOf(req) /\ w = req.who /\ (v = req.verb \/ v = "refused")
        BY <1>2, <1>10, <1>11, <2>1, <3>2
      <4> QED
        BY <1>9, <4>1
    <3> QED
      BY <3>1, <3>2
  <2> QED
    BY <1>1, <1>3, <1>9, <1>12, <2>1 DEF Planned
<1>14. ASSUME NEW v \in Verbs, NEW k \in WriteKinds, NEW w \in Subjects, <<v, k, w>> \in plan.report,
              ~Pending(run, k, w)
       PROVE  Answered(v, k, w)'
  <2>1. Answered(v, k, w)
    BY <1>3, <1>14
  <2>2. CASE k = KindOf(req) /\ w = req.who
    <3>1. v # "refused"
      BY <1>3, <1>9, <1>14, <2>2 DEF Planned
    <3>2. CASE Done \/ PutBack
      <4>1. \E u \in Verbs : <<u, k, w>> \in run'.report
        BY <1>2, <1>9, <1>10, <1>11, <2>2, <3>2 DEF Verbs
      <4> QED
        BY <3>1, <4>1 DEF Answered
    <3>3. CASE Warned \/ FallBack
      <4>1. req' # NoReq
        BY <1>2, <3>3 DEF Warned, FallBack, Requests, NoReq
      <4> QED
        BY <1>12, <2>2, <4>1 DEF Answered
    <3> QED
      BY <3>2, <3>3
  <2>3. CASE (\E u \in Verbs : <<u, k, w>> \in run.report) /\ (v = "refused" => <<v, k, w>> \in run.report)
    BY <1>2, <2>3 DEF Answered
  <2>4. CASE k = "grouping" /\ v = "update" /\ RightedWithAnother(w)
    BY <1>5, <2>4 DEF Answered
  <2> QED
    BY <2>1, <2>2, <2>3, <2>4 DEF Answered
<1> QED
  BY <1>1, <1>6, <1>7, <1>8, <1>13, <1>14 DEF FollowInv

\* Every step keeps an --apply to its plan.
LEMMA FollowStep ==
  ASSUME IInv, IInv', Known, SmoothInv, HeldInv, PlanInv, FollowInv, [Next]_vars
  PROVE  FollowInv'
<1> SUFFICES ASSUME Following' PROVE FollowInv'
  BY DEF FollowInv
<1>1. CASE Start
  BY <1>1, StartFollows
<1>2. CASE Ensure
  <2>1. /\ run'.args = run.args /\ smooth' = smooth /\ (plan' = plan \/ End)
    BY <1>2, EnsureKeeps
  <2>2. Following
    BY <2>1 DEF Following, End
  <2> QED
    BY <1>2, <2>2, EnsureFollows
<1>3. CASE Answer
  <2>1. /\ run'.args = run.args /\ plan' = plan
        /\ smooth' = smooth /\ (Done \/ Warned \/ PutBack \/ FallBack)
    BY <1>3, AnswerStays DEF Following
  <2>2. Following
    BY <2>1 DEF Following
  <2> QED
    BY <2>1, <2>2, AnswerFollows
<1>4. CASE Abort
  BY <1>4 DEF Abort, Following
<1>5. CASE EditByHand
  BY <1>5 DEF EditByHand, Following
<1>6. CASE UNCHANGED vars
  <2>1. /\ acct' = acct /\ run' = run /\ req' = req /\ exit' = exit /\ plan' = plan /\ smooth' = smooth
    BY <1>6 DEF vars, history
  <2>2. FollowInv /\ Following
    BY <2>1 DEF Following
  <2>3. Planned' /\ (\A w : RightedWithAnother(w)' <=> RightedWithAnother(w))
    BY <2>1, <2>2 DEF FollowInv, Planned, RightedWithAnother
  <2>4. \A v, k, w : Answered(v, k, w)' <=> Answered(v, k, w)
    BY <2>1, <2>3 DEF Answered
  <2>5. \A k, w : Coming(k, w)' <=> Coming(k, w)
    BY <2>1, <2>3 DEF Coming
  <2> QED
    BY <2>1, <2>2, <2>3, <2>4, <2>5 DEF FollowInv
<1> QED
  BY <1>1, <1>2, <1>3, <1>4, <1>5, <1>6 DEF Next

\* What was planned and what was done, once the run has ended.
LEMMA FollowedForetold == IInv /\ FollowInv => DryRunForetells
<1> SUFFICES ASSUME IInv, FollowInv, run.at = "idle", exit \in {0, 1, 2}, Following
             PROVE  /\ Changes(run.report) \subseteq plan.report
                    /\ Refusals(plan.report) \subseteq run.report
                    /\ Objects(run.report) \subseteq Objects(plan.report)
                    /\ \A o \in Objects(plan.report) \ Objects(run.report) :
                         o[1] = "grouping" /\ RightedWithAnother(o[2])
  BY DEF DryRunForetells, Following
<1>1. /\ req = NoReq /\ exit # None
  BY SentinelAssumption DEF IInv, Control, SoundRun
<1>2. Planned /\ \A v \in Verbs, k \in WriteKinds, w \in Subjects :
                   <<v, k, w>> \in plan.report => Answered(v, k, w)
  BY <1>1 DEF FollowInv
<1>3. run.report \subseteq Verbs \X WriteKinds \X Subjects
      /\ plan.report \subseteq Verbs \X WriteKinds \X Subjects
  BY DEF IInv, TypeOK, Runs, Lines, Following
<1>4. Changes(run.report) \subseteq plan.report
  <2> SUFFICES ASSUME NEW line \in run.report, line[1] # "refused" PROVE line \in plan.report
    BY DEF Changes
  <2>1. PICK v \in Verbs, k \in WriteKinds, w \in Subjects : line = <<v, k, w>>
    BY <1>3
  <2> QED
    BY <1>2, <2>1 DEF Planned
<1>5. Refusals(plan.report) \subseteq run.report
  <2> SUFFICES ASSUME NEW line \in plan.report, line[1] = "refused" PROVE line \in run.report
    BY DEF Refusals
  <2>1. PICK v \in Verbs, k \in WriteKinds, w \in Subjects : line = <<v, k, w>>
    BY <1>3
  <2>2. v = "refused" /\ Answered(v, k, w)
    BY <1>2, <2>1
  <2> QED
    BY <1>1, <2>1, <2>2 DEF Answered
<1>6. Objects(run.report) \subseteq Objects(plan.report)
  <2> SUFFICES ASSUME NEW line \in run.report PROVE <<line[2], line[3]>> \in Objects(plan.report)
    BY DEF Objects
  <2>1. PICK v \in Verbs, k \in WriteKinds, w \in Subjects : line = <<v, k, w>>
    BY <1>3
  <2>2. PICK u \in Verbs : <<u, k, w>> \in plan.report
    BY <1>2, <2>1 DEF Planned
  <2>3. <<u, k, w>>[2] = line[2] /\ <<u, k, w>>[3] = line[3]
    BY <2>1
  <2> QED
    BY <2>2, <2>3 DEF Objects
<1>7. ASSUME NEW o \in Objects(plan.report) \ Objects(run.report)
      PROVE  o[1] = "grouping" /\ RightedWithAnother(o[2])
  <2>1. PICK line \in plan.report : o = <<line[2], line[3]>>
    BY DEF Objects
  <2>2. PICK v \in Verbs, k \in WriteKinds, w \in Subjects : line = <<v, k, w>>
    BY <1>3
  <2>3. Answered(v, k, w) /\ o = <<k, w>>
    BY <1>2, <2>1, <2>2
  <2>4. ASSUME NEW u \in Verbs, <<u, k, w>> \in run.report PROVE FALSE
    <3>1. <<u, k, w>>[2] = k /\ <<u, k, w>>[3] = w
      OBVIOUS
    <3>2. <<k, w>> \in Objects(run.report)
      BY <2>4, <3>1 DEF Objects
    <3> QED
      BY <2>3, <3>2
  <2> QED
    BY <1>1, <2>3, <2>4 DEF Answered
<1> QED
  BY <1>4, <1>5, <1>6, <1>7

\* A dry run foretells the --apply that follows it, for every design, account
\* and bound: what the --apply changes was said, what was refused is refused,
\* and what was said is touched, a shared alert grouping setting apart.
THEOREM DryRunTold == Spec => []DryRunForetells
<1> DEFINE All == SmoothInv /\ HeldInv /\ DryInv /\ PlanInv /\ FollowInv
<1>1. Init => All
  <2>1. Init => SmoothInv
    BY DEF Init, SmoothInv, Idle, Refusals
  <2>2. Init => DryInv
    BY DEF Init, DryInv, Idle
  <2>3. Init => PlanInv /\ FollowInv
    BY DEF Init, PlanInv, FollowInv, Following
  <2> QED
    BY <2>1, <2>2, <2>3, HeldInit
<1>2. IInv /\ IInv' /\ Known /\ All /\ [Next]_vars => All'
  BY SmoothStep, HeldStep, DryStep, PlanStep, FollowStep
<1>3. IInv /\ All => DryRunForetells
  BY FollowedForetold
<1> HIDE DEF All
<1> QED
  BY <1>1, <1>2, <1>3, Invariance, KnowledgeHolds, PTL DEF Spec
=============================================================================
