---------------------------- MODULE SyntheticProofs ----------------------------
(***************************************************************************)
(* What a synthetic journey promises, proved for every choice of budgets   *)
(* and code steps that SyntheticJourney assumes.                           *)
(*                                                                         *)
(* First where the steps of the three journeys stand in their order; then, *)
(* for each action, what it does in terms of that order; then the parts of *)
(* an inductive invariant, each preserved by every action; then the        *)
(* promises. The phase, the place in the journey and the state of the      *)
(* request carry the control; the other parts say, for each of the         *)
(* promises, how far it is kept at each place.                             *)
(***************************************************************************)
EXTENDS SyntheticJourney, TLAPS

-----------------------------------------------------------------------------
(* The journeys *)

\* Where the sign-in, its code and the sign-out stand in each journey.
LoginAt ==
  IF job = "staff-sign-in" THEN 7 ELSE IF job = "ops-desk" THEN 5 ELSE 6
VerifyAt == LoginAt + 2
LogoutAt ==
  IF job = "staff-sign-in" THEN 12 ELSE IF job = "ops-desk" THEN 10 ELSE 11

\* The steps of staff_sign_in, one by one.
LEMMA StaffPath ==
  LET p == Journey("staff-sign-in") IN
  /\ Len(p) = 13
  /\ p[1] = "config" /\ p[2] = "egress" /\ p[3] = "secrets" /\ p[4] = "iap_token"
  /\ p[5] = "ops_shell" /\ p[6] = "ops_release"
  /\ p[7] = "login" /\ p[8] = "mint" /\ p[9] = "mfa_verify"
  /\ p[10] = "me" /\ p[11] = "desk_version" /\ p[12] = "logout"
  /\ p[13] = "portal_shell"
BY DEF Journey, Prepare, SignIn

\* The steps of ops_desk, one by one.
LEMMA OpsPath ==
  LET p == Journey("ops-desk") IN
  /\ Len(p) = 10
  /\ p[1] = "config" /\ p[2] = "egress" /\ p[3] = "secrets" /\ p[4] = "iap_token"
  /\ p[5] = "login" /\ p[6] = "mint" /\ p[7] = "mfa_verify"
  /\ p[8] = "live_queue" /\ p[9] = "desk_version_employers" /\ p[10] = "logout"
BY DEF Journey, Prepare, SignIn

\* The steps of crm, one by one.
LEMMA CrmPath ==
  LET p == Journey("crm") IN
  /\ Len(p) = 11
  /\ p[1] = "config" /\ p[2] = "egress" /\ p[3] = "secrets" /\ p[4] = "iap_token"
  /\ p[5] = "crm_shell" /\ p[6] = "login" /\ p[7] = "mint" /\ p[8] = "mfa_verify"
  /\ p[9] = "me" /\ p[10] = "crm_tenant" /\ p[11] = "logout"
BY DEF Journey, Prepare, SignIn

\* What the three journeys have in common: which steps come where.
PathShape ==
  /\ Len(Path) \in Nat /\ LoginAt \in 5..7 /\ LogoutAt \in 10..12
  /\ VerifyAt < LogoutAt /\ LogoutAt <= Len(Path)
  /\ \A k \in 1..Len(Path) :
       /\ Path[k] \in (StepNames \ {"none"}) \cup {"mint"}
       /\ Path[k] = "config" <=> k = 1
       /\ Path[k] = "egress" <=> k = 2
       /\ Path[k] = "secrets" <=> k = 3
       /\ Path[k] = "iap_token" <=> k = 4
       /\ Path[k] = "login" <=> k = LoginAt
       /\ Path[k] = "mint" <=> k = LoginAt + 1
       /\ Path[k] = "mfa_verify" <=> k = VerifyAt
       /\ Path[k] = "logout" <=> k = LogoutAt
       /\ Path[k] \in Guarded <=> LoginAt <= k /\ k < LogoutAt

\* Each journey prepares, signs in with a code, looks around and signs out.
LEMMA JourneysAreAlike == job \in Jobs => PathShape
<1> SUFFICES ASSUME job \in Jobs PROVE PathShape
  OBVIOUS
<1> USE DEF PathShape, Path, LoginAt, VerifyAt, LogoutAt, StepNames, Guarded
<1>1. CASE job = "staff-sign-in"
  BY <1>1, StaffPath, SMTT(40)
<1>2. CASE job = "ops-desk"
  BY <1>2, OpsPath
<1>3. CASE job = "crm"
  BY <1>3, CrmPath
<1> QED
  BY <1>1, <1>2, <1>3, JobsAssumption

\* What the place a run is at says of its step, and of the step it would name.
Here ==
  /\ n \in 1..Len(Path) /\ Len(Path) \in Nat /\ LoginAt \in 5..7
  /\ LogoutAt \in 10..12
  /\ VerifyAt = LoginAt + 2 /\ LogoutAt <= Len(Path)
  /\ Step = "config" <=> n = 1
  /\ Step = "egress" <=> n = 2
  /\ Step = "secrets" <=> n = 3
  /\ Step = "iap_token" <=> n = 4
  /\ Step = "login" <=> n = LoginAt
  /\ Step = "mint" <=> n = LoginAt + 1
  /\ Step = "mfa_verify" <=> n = VerifyAt
  /\ Step = "logout" <=> n = LogoutAt
  /\ Step \in Guarded <=> LoginAt <= n /\ n < LogoutAt
  /\ Named \in StepNames \ {"none"}
  /\ Named \in OwnSteps <=> n <= 4
  /\ Named = "logout" <=> n = LogoutAt

\* A run of the right type is at a step of its journey.
LEMMA WhereItIs == TypeOK => Here
<1> SUFFICES ASSUME TypeOK PROVE Here
  OBVIOUS
<1>1. PathShape
  BY JourneysAreAlike DEF TypeOK
<1> HIDE DEF Path, LoginAt, LogoutAt, StepNames
<1>2. n \in 1..Len(Path)
  BY DEF TypeOK
<1>3. Step \in (StepNames \ {"none"}) \cup {"mint"}
  BY <1>1, <1>2 DEF PathShape, Step
<1>4. Named \in StepNames \ {"none"}
  BY <1>3 DEF Named, StepNames
<1>5. /\ Len(Path) \in Nat /\ LoginAt \in 5..7 /\ LogoutAt \in 10..12
      /\ VerifyAt = LoginAt + 2 /\ LogoutAt <= Len(Path)
      /\ Step = "config" <=> n = 1
      /\ Step = "egress" <=> n = 2
      /\ Step = "secrets" <=> n = 3
      /\ Step = "iap_token" <=> n = 4
      /\ Step = "login" <=> n = LoginAt
      /\ Step = "mint" <=> n = LoginAt + 1
      /\ Step = "mfa_verify" <=> n = VerifyAt
      /\ Step = "logout" <=> n = LogoutAt
      /\ Step \in Guarded <=> LoginAt <= n /\ n < LogoutAt
  BY <1>1, <1>2 DEF PathShape, Step, VerifyAt
<1>6. Named \in OwnSteps <=> n <= 4
  BY <1>2, <1>3, <1>5 DEF Named, OwnSteps
<1>7. Named = "logout" <=> n = LogoutAt
  BY <1>5 DEF Named
<1> QED
  BY <1>2, <1>4, <1>5, <1>6, <1>7 DEF Here

\* The order of a journey's milestones, as numbers.
Milestones ==
  /\ n \in Nat /\ n >= 1 /\ LoginAt \in Nat /\ LoginAt > 4 /\ VerifyAt = LoginAt + 2
  /\ LogoutAt \in Nat /\ VerifyAt < LogoutAt /\ LogoutAt <= Len(Path)
  /\ Len(Path) \in Nat

\* They are in that order wherever the run is.
LEMMA InOrder == TypeOK => Milestones
BY WhereItIs DEF Here, Milestones

\* What no step changes: the journey, its beginning and its milestones.
SameJourney ==
  /\ job' = job /\ start' = start /\ Path' = Path /\ Len(Path)' = Len(Path)
  /\ LoginAt' = LoginAt /\ LogoutAt' = LogoutAt /\ VerifyAt' = VerifyAt

\* A run stays on the journey it began.
LEMMA RunStands == Next => SameJourney
<1>1. Next => job' = job /\ start' = start
  BY DEF Next, Works, run, CheckSwitches, ReadSettings, Egress, Mint, Bug, Send,
         QuietSignOut, NotReached, Reach, HeadersArrive, Lost, BodyRead, Report
<1> QED
  BY <1>1 DEF SameJourney, LoginAt, LogoutAt, VerifyAt, Path

-----------------------------------------------------------------------------
(* Time and codes *)

\* The sign-out always has a budget of its own.
LEMMA SignOutType == SignOut \in Nat \ {0}
BY BudgetsAssumption DEF SignOut, Least

\* The last wait covers the sign-out that outlasts its budget, and the pause
\* before a code.
LEMMA LastWaitType ==
  /\ LastWait \in Nat /\ LastWait >= SignOut + Overrun
  /\ LastWait >= MinLeft + 2 * Stall
  /\ MinLeft + 2 * Stall \in Nat
BY SignOutType, BudgetsAssumption, TotpAssumption DEF LastWait, Longest

\* Division with remainder by a positive number.
LEMMA DivMod ==
  ASSUME NEW x \in Nat, NEW T \in Nat \ {0}
  PROVE  /\ x \div T \in Nat /\ x % T \in 0..(T - 1)
         /\ x = (x \div T) * T + (x % T)
OBVIOUS

\* The quotient is the only one.
LEMMA DivUnique ==
  ASSUME NEW q \in Int, NEW T \in Nat \ {0}, NEW r \in 0..(T - 1)
  PROVE  (q * T + r) \div T = q
OBVIOUS

\* A budget is a number, spent or not.
LEMMA BudgetType == TypeOK => Budget \in Int
<1> SUFFICES ASSUME TypeOK PROVE Budget \in Int
  OBVIOUS
<1>0. end \in Nat /\ now \in Nat
  BY DEF TypeOK
<1>1. Least(StepTimeout, end - now) \in Int
  BY <1>0, BudgetsAssumption DEF Least
<1>2. AcceptedFor(now) \in Int
  BY <1>0, TotpAssumption DEF AcceptedFor
<1> QED
  BY <1>1, <1>2, SignOutType DEF Budget, Least

\* A request's budget fits the deadline, but for the sign-out's own; that of
\* the code's request fits the code.
LEMMA BudgetBounds ==
  ASSUME TypeOK, phase = "running"
  PROVE  /\ n = LogoutAt => Budget = SignOut
         /\ n # LogoutAt => Budget <= end - now
         /\ n = VerifyAt => Budget <= AcceptedFor(now)
<1>1. /\ (Sending = "logout") <=> (n = LogoutAt)
      /\ (Sending = "mfa_verify") <=> (n = VerifyAt)
      /\ VerifyAt # LogoutAt
  BY WhereItIs DEF Here, Sending
<1>2. now \in Nat /\ end \in Nat /\ StepTimeout \in Nat
  BY BudgetsAssumption DEF TypeOK
<1>3. AcceptedFor(now) \in Int
  BY <1>2, TotpAssumption, DivMod DEF AcceptedFor
<1>4. n = LogoutAt => Budget = SignOut
  BY <1>1 DEF Budget
<1>5. n # LogoutAt => Budget <= end - now
  BY <1>1, <1>2, <1>3 DEF Budget, Least
<1>6. n = VerifyAt => Budget <= AcceptedFor(now)
  BY <1>1, <1>2, <1>3 DEF Budget, Least
<1> QED
  BY <1>4, <1>5, <1>6

\* A code for this time's step is accepted until the same moment all through
\* the step.
LEMMA AcceptedWhileGood ==
  ASSUME TypeOK
  PROVE  now + AcceptedFor(now) = (now \div TotpStep + 1 + LateSteps) * TotpStep
<1>1. now \in Nat /\ now \div TotpStep \in Nat
  BY TotpAssumption, DivMod DEF TypeOK
<1> QED
  BY <1>1, TotpAssumption DEF AcceptedFor

\* A code is minted for the step its time is in, and still is in it after the
\* longest stall; the pause before it is short.
LEMMA MintedInTime ==
  ASSUME TypeOK, NEW m \in Minted, NEW s \in 0..Stall
  PROVE  /\ m \in Nat /\ m >= now /\ m + s <= now + MinLeft + 2 * Stall
         /\ (m + s) \div TotpStep = m \div TotpStep
<1> DEFINE T == TotpStep
<1>1. /\ now \in Nat /\ T \in Nat \ {0} /\ MinLeft \in Nat /\ Stall \in Nat
      /\ s \in Nat /\ s <= Stall
      /\ Stall < MinLeft /\ 2 * Stall < T
  BY TotpAssumption, BudgetsAssumption DEF TypeOK
<1>2. /\ now \div T \in Nat /\ now % T \in 0..(T - 1)
      /\ now = (now \div T) * T + (now % T)
  BY <1>1, DivMod
<1> DEFINE q == now \div T
           r == now % T
<1>3. StepLeft(now) = T - r
  BY DEF StepLeft
<1> HIDE DEF q, r, T
<1>4. q \in Nat /\ r \in 0..(T - 1) /\ now = q * T + r
  BY <1>2 DEF q, r
<1>5. CASE T - r >= MinLeft
  <2>1. m = now
    BY <1>5, <1>3 DEF Minted
  <2>2. r + s \in 0..(T - 1) /\ m = q * T + r /\ m + s = q * T + (r + s)
    BY <1>1, <1>4, <1>5, <2>1
  <2>3. (m + s) \div T = q /\ m \div T = q
    BY <1>1, <1>4, <2>2, DivUnique
  <2> QED
    BY <2>1, <2>3, <1>1 DEF T
<1>6. CASE ~(T - r >= MinLeft)
  <2>1. PICK u \in 0..Stall : m = now + (T - r) + u
    BY <1>6, <1>3 DEF Minted
  <2>2. m = (q + 1) * T + u
    BY <1>1, <1>4, <2>1
  <2>3. u \in 0..(T - 1) /\ u + s \in 0..(T - 1) /\ m + s = (q + 1) * T + (u + s)
          /\ q + 1 \in Int
    BY <1>1, <1>4, <2>1, <2>2
  <2>4. (m + s) \div T = q + 1 /\ m \div T = q + 1
    BY <1>1, <2>2, <2>3, DivUnique
  <2>5. m \in Nat /\ m >= now /\ m + s <= now + MinLeft + 2 * Stall
    BY <1>1, <1>4, <1>6, <2>1
  <2> QED
    BY <2>4, <2>5 DEF T
<1> QED
  BY <1>5, <1>6

-----------------------------------------------------------------------------
(* What an action does, by the place the run is at *)

\* The run is still on its way, and has not ended or given up.
Live == phase \in {"starting", "running"}

\* The request under way would sign out: the step's, or the quiet one.
SignsOut == phase = "signing_out" \/ n = LogoutAt

\* On to the next step.
Went == n < Len(Path) /\ n' = n + 1 /\ phase' = "running" /\ result' = result

\* Past the last one.
Passed == n = Len(Path) /\ n' = n /\ phase' = "done"
          /\ result' = [code |-> "ok", step |-> "none"]

\* Over with code c, holding h: by way of the sign-out when signed in.
Failed(c, h) == /\ n' = n /\ result' = [code |-> c, step |-> Named]
                /\ phase' = IF LoginAt <= n /\ n < LogoutAt /\ Holds(h)
                            THEN "signing_out" ELSE "done"

\* The quiet sign-out is over, whatever came of it.
Hushed == phase = "signing_out" /\ phase' = "done" /\ n' = n /\ result' = result

\* The codes of an answer that does not do.
SiteCodes == {"csrf", "iap", "redirect", "credentials", "locked", "rate_limited",
  "status", "shape"}

\* A request without an answer.
Dropped ==
  /\ ~Idle /\ wire' = NoWire
  /\ \E t \in now..(wire.until + Overrun) : now' = t
  /\ \/ Hushed
     \/ /\ phase # "signing_out"
        /\ Failed("iap_token", held) /\ n = 4
     \/ /\ phase # "signing_out" /\ n # 4
        /\ \E c \in Transport : Failed(c, held)
  /\ UNCHANGED <<job, start, end, held, code, exit, session, charged, arrived,
       tries>>

\* A request of step s, which stands at place p, is counted when it is one.
Counted(s, p) == tries'[s] = IF n = p THEN tries[s] + 1 ELSE tries[s]

\* A step that succeeds.
LEMMA AdvanceStep == ASSUME TypeOK, phase = "running", Advance PROVE Went \/ Passed
BY DEF Advance, Went, Passed, TypeOK

\* A step that fails.
LEMMA FailStep == ASSUME TypeOK, NEW c, NEW h, FailHolding(c, h) PROVE Failed(c, h)
BY WhereItIs DEF FailHolding, Tried, Here, Failed

\* The switches let the run begin, or end it.
LEMMA CheckSwitchesStep ==
  ASSUME CheckSwitches
  PROVE  /\ phase = "starting" /\ n' = n
         /\ \/ phase' = "running" /\ result' = result
            \/ \E c \in {"paused", "not_configured"} :
                  phase' = "done" /\ result' = [code |-> c, step |-> "none"]
         /\ UNCHANGED <<job, start, now, end, held, code, wire, exit, session,
              charged, arrived, tries>>
BY DEF CheckSwitches, run

\* The settings are read first, the credentials once the path is up.
LEMMA ReadSettingsStep ==
  ASSUME TypeOK, ReadSettings
  PROVE  /\ phase = "running" /\ Idle /\ n \in {1, 3}
         /\ Went \/ Failed("config", held)
         /\ UNCHANGED <<job, start, now, end, held, code, wire, exit, session,
              charged, arrived, tries>>
<1>h. Here
  BY WhereItIs
<1>1. /\ phase = "running" /\ Idle /\ n \in {1, 3}
  BY <1>h DEF ReadSettings, At, Here
<1>2. n < Len(Path)
  BY <1>h, <1>1 DEF Here
<1>3. Went \/ Failed("config", held)
  BY <1>1, <1>2, AdvanceStep, FailStep DEF ReadSettings, Fail, Passed
<1> QED
  BY <1>1, <1>3 DEF ReadSettings, run

\* The egress step is the second, and starts the deadline.
LEMMA EgressStep ==
  ASSUME TypeOK, Egress
  PROVE  /\ phase = "running" /\ Idle /\ n = 2
         /\ \/ /\ Went /\ end' = now' + Deadline
               /\ \E d \in 0..EgressWait : now' = now + d
            \/ /\ Failed("egress", held) /\ end' = end
               /\ \E d \in 0..(EgressWait + Overrun) : now' = now + d
         /\ UNCHANGED <<job, start, held, code, wire, exit, session, charged,
              arrived, tries>>
<1>h. Here
  BY WhereItIs
<1>1. /\ phase = "running" /\ Idle /\ n = 2
  BY <1>h DEF Egress, At, Here
<1>2. n < Len(Path)
  BY <1>h, <1>1 DEF Here
<1>3. \/ /\ \E d \in 0..EgressWait : now' = now + d
        /\ end' = now' + Deadline
        /\ Advance
     \/ /\ EgressWait > 0
        /\ \E d \in EgressWait..(EgressWait + Overrun) : now' = now + d
        /\ Fail("egress")
        /\ UNCHANGED end
  BY DEF Egress
<1>4. CASE  /\ \E d \in 0..EgressWait : now' = now + d
        /\ end' = now' + Deadline
        /\ Advance
  <2>0. Advance
    BY <1>4
  <2>1. Went \/ Passed
    BY <2>0, <1>1, AdvanceStep
  <2>2. Went
    BY <2>1, <1>2, <1>h DEF Passed, Here
  <2> QED
    BY <1>1, <2>2, <1>4 DEF Egress, run
<1>5. CASE  /\ \E d \in EgressWait..(EgressWait + Overrun) : now' = now + d
        /\ Fail("egress")
        /\ UNCHANGED end
  <2>1. Failed("egress", held)
    BY <1>5, FailStep DEF Fail
  <2>2. \E d \in 0..(EgressWait + Overrun) : now' = now + d
    BY <1>5, BudgetsAssumption
  <2> QED
    BY <1>1, <2>1, <2>2, <1>5 DEF Egress, run
<1> QED
  BY <1>3, <1>4, <1>5

\* The code is minted right after the login.
LEMMA MintStep ==
  ASSUME TypeOK, Mint
  PROVE  /\ phase = "running" /\ Idle /\ n = LoginAt + 1 /\ Went
         /\ \E m \in Minted, s \in 0..Stall : code' = m \div TotpStep
              /\ now' = m + s
         /\ UNCHANGED <<job, start, end, held, wire, exit, session, charged,
              arrived, tries>>
<1>h. Here
  BY WhereItIs
<1>1. /\ phase = "running" /\ Idle /\ n = LoginAt + 1
  BY <1>h DEF Mint, At, Here
<1>2. n < Len(Path)
  BY <1>h, <1>1 DEF Here
<1>3. Went
  BY <1>1, <1>2, AdvanceStep DEF Mint, Passed
<1> QED
  BY <1>1, <1>3 DEF Mint, run

\* A bug ends the run like a failure.
LEMMA BugStep ==
  ASSUME TypeOK, Bug
  PROVE  /\ phase = "running" /\ Idle
         /\ Failed("runner", held)
         /\ UNCHANGED <<job, start, now, end, held, code, wire, exit, session,
              charged, arrived, tries>>
BY FailStep DEF Bug, Fail, run

\* A step's request is dialled while its budget lasts; the sign-out's always
\* has one.
LEMMA SendStep ==
  ASSUME TypeOK, Send
  PROVE  /\ phase = "running" /\ Idle /\ n \notin {1, 2, 3, LoginAt + 1}
         /\ \/ /\ n = LogoutAt /\ job # "crm" /\ "csrf" \notin held
               /\ Failed("csrf", held) /\ UNCHANGED <<wire, tries>>
            \/ /\ n # LogoutAt
               /\ Failed(IF n = 4 THEN "iap_token" ELSE "timeout", held)
               /\ UNCHANGED <<wire, tries>>
            \/ /\ n = LogoutAt => ~(job # "crm" /\ "csrf" \notin held)
               /\ Budget > 0 /\ wire' = [at |-> "dialled", until |-> now + Budget]
               /\ n' = n /\ phase' = phase /\ result' = result
               /\ tries' \in [Once -> Nat]
               /\ Counted("login", LoginAt)
               /\ Counted("mfa_verify", VerifyAt)
               /\ Counted("logout", LogoutAt)
         /\ UNCHANGED <<job, start, now, end, held, code, exit, session, charged,
              arrived>>
<1>h. Here
  BY WhereItIs
<1>1. /\ phase = "running" /\ Idle /\ n \notin {1, 2, 3, LoginAt + 1}
  BY <1>h DEF Send, Local, Here
<1>2. NoToken <=> n = LogoutAt /\ job # "crm" /\ "csrf" \notin held
  BY <1>h, <1>1 DEF NoToken, Sending, Here
<1>3. CodeOf("timeout") = IF n = 4 THEN "iap_token" ELSE "timeout"
  BY <1>h, <1>1 DEF CodeOf, Here
<1>4. n = LogoutAt => Budget > 0
  BY <1>h, <1>1, BudgetsAssumption DEF Budget, SignOut, Least, Sending, Here
<1>5. UNCHANGED <<job, start, now, end, held, code, exit, session, charged,
        arrived>>
  BY DEF Send, run
<1>6. CASE NoToken
  BY <1>6, <1>1, <1>2, <1>5, FailStep DEF Send, Fail
<1>7. CASE ~NoToken /\ Budget <= 0
  <2>1. Fail(CodeOf("timeout")) /\ UNCHANGED <<wire, tries>>
    BY <1>7 DEF Send
  <2>2. n # LogoutAt
    BY <1>7, <1>4, BudgetType
  <2>3. Failed(CodeOf("timeout"), held)
    BY <2>1, FailStep DEF Fail
  <2> QED
    BY <2>1, <2>2, <2>3, <1>1, <1>3, <1>5
<1>8. CASE ~NoToken /\ ~(Budget <= 0)
  <2>1. /\ wire' = [at |-> "dialled", until |-> now + Budget]
        /\ tries' = [s \in Once |-> tries[s] + IF s = Step THEN 1 ELSE 0]
        /\ UNCHANGED <<phase, n, result>>
    BY <1>8 DEF Send
  <2>2. tries \in [Once -> Nat]
    BY DEF TypeOK
  <2>3. /\ Counted("login", LoginAt)
        /\ Counted("mfa_verify", VerifyAt)
        /\ Counted("logout", LogoutAt)
    BY <2>1, <2>2, <1>h DEF Counted, Once, Here
  <2>4. Budget > 0
    BY <1>8, BudgetType
  <2>5. tries' \in [Once -> Nat]
    BY <2>1, <2>2
  <2> QED
    BY <2>1, <2>3, <2>4, <2>5, <1>1, <1>2, <1>5, <1>8
<1> QED
  BY <1>6, <1>7, <1>8

\* The quiet sign-out is dialled unless its CSRF cookie is missing.
LEMMA QuietSignOutStep ==
  ASSUME TypeOK, QuietSignOut
  PROVE  /\ phase = "signing_out" /\ Idle /\ n' = n /\ result' = result
         /\ \/ /\ job # "crm" /\ "csrf" \notin held
               /\ phase' = "done" /\ UNCHANGED <<wire, tries>>
            \/ /\ phase' = phase
               /\ wire' = [at |-> "dialled", until |-> now + SignOut]
               /\ tries' \in [Once -> Nat]
               /\ tries'["login"] = tries["login"]
               /\ tries'["mfa_verify"] = tries["mfa_verify"]
               /\ tries'["logout"] = tries["logout"] + 1
         /\ UNCHANGED <<job, start, now, end, held, code, exit, session, charged,
              arrived>>
<1>1. phase = "signing_out" /\ Idle /\ n' = n /\ result' = result
  BY DEF QuietSignOut
<1>2. Sending = "logout"
  BY <1>1 DEF Sending
<1>3. Budget = SignOut /\ ~(Budget <= 0)
  BY <1>2, SignOutType DEF Budget
<1>4. UNCHANGED <<job, start, now, end, held, code, exit, session, charged,
        arrived>>
  BY DEF QuietSignOut, run
<1>5. CASE NoToken
  BY <1>5, <1>1, <1>4 DEF QuietSignOut, NoToken
<1>6. CASE ~NoToken
  <2>1. /\ phase' = phase /\ wire' = [at |-> "dialled", until |-> now + SignOut]
        /\ tries' = [tries EXCEPT !["logout"] = @ + 1]
    BY <1>6, <1>3 DEF QuietSignOut
  <2>2. tries \in [Once -> Nat]
    BY DEF TypeOK
  <2>3. /\ tries'["login"] = tries["login"]
        /\ tries'["mfa_verify"] = tries["mfa_verify"]
        /\ tries'["logout"] = tries["logout"] + 1
    BY <2>1, <2>2 DEF Once
  <2>4. tries' \in [Once -> Nat]
    BY <2>1, <2>2 DEF Once
  <2> QED
    BY <2>1, <2>3, <2>4, <1>1, <1>4
<1> QED
  BY <1>5, <1>6

\* A request that is not reached or whose answer is lost.
LEMMA DroppedStep ==
  ASSUME TypeOK, NotReached \/ Lost PROVE Dropped
<1>h. Here
  BY WhereItIs
<1>1. ~Idle /\ wire' = NoWire
  BY DEF NotReached, Lost, Over, Idle
<1>2. \E t \in now..(wire.until + Overrun) : now' = t
  BY DEF NotReached, Lost
<1>3. UNCHANGED <<job, start, end, held, code, exit, session, charged, arrived,
        tries>>
  BY DEF NotReached, Lost, run
<1>4. CASE phase = "signing_out"
  <2>1. Hushed
    BY <1>4 DEF NotReached, Lost, Over, Hushed
  <2> QED
    BY <2>1, <1>1, <1>2, <1>3 DEF Dropped
<1>5. CASE phase # "signing_out"
  <2>1. PICK c \in Transport : Fail(CodeOf(c))
    BY <1>5 DEF NotReached, Lost, Over
  <2>2. Failed(CodeOf(c), held)
    BY <2>1, FailStep DEF Fail
  <2>3. CASE n = 4
    <3>1. CodeOf(c) = "iap_token"
      BY <2>3, <1>h DEF CodeOf, Here
    <3> QED
      BY <3>1, <2>2, <2>3, <1>1, <1>2, <1>3, <1>5 DEF Dropped
  <2>4. CASE n # 4
    <3>1. CodeOf(c) = c
      BY <2>4, <1>h DEF CodeOf, Here
    <3> QED
      BY <3>1, <2>2, <2>4, <1>1, <1>2, <1>3, <1>5 DEF Dropped
  <2> QED
    BY <2>3, <2>4
<1> QED
  BY <1>4, <1>5

\* An answer that refuses hands over nothing.
LEMMA RefusedAnswers ==
  ASSUME NEW r \in Refused
  PROVE  r \in Answers /\ r.holds = {} /\ r.status \notin {200, 204}
<1>1. /\ r = [status |-> r.status, google |-> r.google, good |-> r.good,
           holds |-> r.holds]
      /\ r.status \in {302, 401, 403, 423, 429, 500}
      /\ r.good \in {TRUE} /\ r.holds = {}
  BY DEF Refused
<1>2. r.google \in BOOLEAN
  BY Zenon DEF Refused
<1>3. r.good \in BOOLEAN
  BY <1>1, Zenon
<1>4. /\ r.holds \in SUBSET Tokens
      /\ r.status \in {200, 204, 302, 401, 403, 423, 429, 500}
  BY <1>1
<1>5. r \in Answers
  BY <1>1, <1>2, <1>3, <1>4, Zenon DEF Answers
<1> QED
  BY <1>1, <1>5

\* An answer that is given hands over no more than its grants.
LEMMA GivenAnswers ==
  ASSUME NEW S \in SUBSET {200, 204, 500}, NEW G \in SUBSET SUBSET Tokens,
         NEW r \in Given(S, G)
  PROVE  r \in Answers /\ r.holds \in G
<1>1. /\ r = [status |-> r.status, google |-> r.google, good |-> r.good,
           holds |-> r.holds]
      /\ r.status \in S /\ r.google \in {FALSE} /\ r.holds \in G
  BY DEF Given
<1>2. r.good \in BOOLEAN
  BY Zenon DEF Given
<1>3. r.google \in BOOLEAN
  BY <1>1, Zenon
<1>4. /\ r.holds \in SUBSET Tokens
      /\ r.status \in {200, 204, 302, 401, 403, 423, 429, 500}
  BY <1>1
<1>5. r \in Answers
  BY <1>1, <1>2, <1>3, <1>4, Zenon DEF Answers
<1> QED
  BY <1>1, <1>5

\* What the site may make of a request.
LEMMA HandlingsType ==
  ASSUME TypeOK, NEW t, NEW h \in Handlings(t)
  PROVE  /\ h[1] \in Answers /\ h[2] \in Sessions
         /\ h[1].holds # {} => Sending \in {"login", "mfa_verify"}
         /\ Sending = "logout" /\ h[1].status \in {200, 204} => h[2] = "ended"
         /\ h[2] # session => h[2] = "ended" \/ Sending \in {"login", "mfa_verify"}
<1>s. session \in Sessions
  BY DEF TypeOK
<1>1. CASE h \in Refused \X {session}
  BY <1>1, RefusedAnswers, <1>s
<1>2. CASE Sending \notin {"mfa_verify", "logout"}
             /\ h \in Given({200}, {{}}) \X {session}
  BY <1>2, GivenAnswers, <1>s DEF Tokens
<1>3. CASE Sending = "login" /\ job = "crm"
             /\ h \in Given({200}, {{"bearer"}}) \X {"live"}
  BY <1>3, GivenAnswers DEF Sessions, Tokens
<1>4. CASE Sending = "mfa_verify" /\ h \in Given({200}, Grants) \X {"live"}
  <2>1. Grants \in SUBSET SUBSET Tokens
    BY DEF Grants, Tokens
  <2> QED
    BY <1>4, GivenAnswers, <2>1 DEF Sessions
<1>5. CASE Sending = "logout" /\ h \in Given({200, 204, 500}, {{}}) \X {"ended"}
  BY <1>5, GivenAnswers DEF Sessions, Tokens
<1> QED
  BY <1>1, <1>2, <1>3, <1>4, <1>5 DEF Handlings

\* The site handles a request inside its budget.
LEMMA ReachStep ==
  ASSUME TypeOK, Reach
  PROVE  /\ wire.at = "dialled" /\ wire'.at = "handled" /\ wire'.until = wire.until
         /\ wire'.answer \in Answers
         /\ wire'.answer.holds # {} => phase # "signing_out"
              /\ n \in {LoginAt, VerifyAt}
         /\ SignsOut /\ wire'.answer.status \in {200, 204} => session' = "ended"
         /\ session' # session => session' = "ended" \/ n \in LoginAt..VerifyAt
         /\ session' \in Sessions
         /\ \E t \in now..(wire.until - 1) : now' = t
         /\ charged' = (charged \/ (Sending = "mfa_verify" /\ ~InTime(now')))
         /\ UNCHANGED <<job, start, phase, n, end, held, code, result, exit,
              arrived, tries>>
         /\ wire' = [at |-> "handled", until |-> wire.until,
              answer |-> wire'.answer]
<1>h. Here
  BY WhereItIs
<1>1. PICK t \in now..(wire.until - 1) :
        /\ now' = t
        /\ \E h \in Handlings(t) :
            /\ wire' = [at |-> "handled", until |-> wire.until, answer |-> h[1]]
            /\ session' = h[2]
        /\ charged' = (charged \/ (Sending = "mfa_verify" /\ ~InTime(t)))
  BY DEF Reach
<1>2. PICK h \in Handlings(t) :
            /\ wire' = [at |-> "handled", until |-> wire.until, answer |-> h[1]]
            /\ session' = h[2]
  BY <1>1
<1>3. wire'.answer = h[1] /\ wire'.at = "handled" /\ wire'.until = wire.until
  BY <1>2
<1>4. /\ h[1] \in Answers /\ h[2] \in Sessions
      /\ h[1].holds # {} => Sending \in {"login", "mfa_verify"}
      /\ Sending = "logout" /\ h[1].status \in {200, 204} => h[2] = "ended"
      /\ h[2] # session => h[2] = "ended" \/ Sending \in {"login", "mfa_verify"}
  BY HandlingsType
<1>5. /\ (Sending = "logout") <=> SignsOut
      /\ Sending \in {"login", "mfa_verify"} =>
            phase # "signing_out" /\ n \in {LoginAt, VerifyAt}
  BY <1>h DEF Sending, Here, SignsOut
<1>6. /\ wire.at = "dialled"
      /\ UNCHANGED <<job, start, phase, n, end, held, code, result, exit, arrived,
           tries>>
  BY DEF Reach, run
<1>7. wire'.answer.holds # {} => phase # "signing_out" /\ n \in {LoginAt, VerifyAt}
  BY <1>3, <1>4, <1>5
<1>8. SignsOut /\ wire'.answer.status \in {200, 204} => session' = "ended"
  BY <1>2, <1>3, <1>4, <1>5
<1>a. n \in {LoginAt, VerifyAt} => n \in LoginAt..VerifyAt
  BY <1>h DEF Here
<1>9. session' # session => session' = "ended" \/ n \in LoginAt..VerifyAt
  BY <1>2, <1>4, <1>5, <1>a
<1>10. charged' = (charged \/ (Sending = "mfa_verify" /\ ~InTime(now')))
  BY <1>1
<1> QED
  BY <1>1, <1>2, <1>3, <1>4, <1>6, <1>7, <1>8, <1>9, <1>10

\* The headers arrive, and the answer is the same.
LEMMA HeadersArriveStep ==
  ASSUME TypeOK, HeadersArrive
  PROVE  /\ wire.at = "handled" /\ wire'.at = "headers"
         /\ wire'.until = wire.until /\ wire'.answer = wire.answer
         /\ wire' \in Wires /\ arrived' \in SUBSET Cookies
         /\ UNCHANGED <<job, start, now, phase, n, end, held, code, result, exit,
              session, charged, tries>>
<1>2. wire.at = "handled" /\ wire' = [wire EXCEPT !.at = "headers"]
  BY DEF HeadersArrive
<1>0. wire \in Wires
  BY DEF TypeOK
<1>1. wire \in [at : {"handled", "headers"}, until : Int, answer : Answers]
  BY <1>0, <1>2 DEF Wires, NoWire
<1>3. wire' = [at |-> "headers", until |-> wire.until, answer |-> wire.answer]
  BY <1>1, <1>2
<1>4. wire' \in Wires
  BY <1>1, <1>3 DEF Wires
<1>5. arrived' \in SUBSET Cookies
  BY DEF TypeOK, HeadersArrive
<1> QED
  BY <1>2, <1>3, <1>4, <1>5 DEF HeadersArrive, run

\* What the run makes of an answer.
LEMMA VerdictType ==
  ASSUME NEW r, NEW s
  PROVE  /\ Verdict(r, s) \in SiteCodes \cup {"ok"}
         /\ Verdict(r, s) = "ok" =>
               /\ s = "logout" => r.status \in {200, 204}
               /\ s = "login" => r.holds = {}
BY DEF Verdict, Check, HasShape, Accepted, SiteCodes

\* The body is read inside the budget, and the step succeeds or fails.
LEMMA BodyReadStep ==
  ASSUME TypeOK, BodyRead, ~Idle => phase \in {"running", "signing_out"}
  PROVE  /\ wire.at = "headers" /\ wire' = NoWire
         /\ \E t \in now..wire.until : now' = t
         /\ \E T \in SUBSET wire.answer.holds : held' = held \cup T
         /\ \/ Hushed
            \/ /\ phase = "running" /\ (Went \/ Passed)
               /\ n = LogoutAt => wire.answer.status \in {200, 204}
               /\ n = LoginAt => held' = held
            \/ /\ phase # "signing_out" /\ n = 4 /\ Failed("iap_token", held')
            \/ /\ phase # "signing_out" /\ n # 4
                    /\ \E c \in SiteCodes : Failed(c, held')
         /\ UNCHANGED <<job, start, end, code, exit, session, charged, arrived,
              tries>>
<1>h. Here
  BY WhereItIs
<1>1. /\ wire.at = "headers" /\ wire' = NoWire
      /\ \E t \in now..wire.until : now' = t
      /\ held' = held \cup Taken(wire.answer)
      /\ UNCHANGED <<job, start, end, code, exit, session, charged, arrived, tries>>
  BY DEF BodyRead, run, Over
<1>2. Taken(wire.answer) \in SUBSET wire.answer.holds
  BY DEF Taken
<1>3. CASE phase = "signing_out"
  <2>1. Hushed
    BY <1>3 DEF BodyRead, Over, Hushed
  <2> QED
    BY <2>1, <1>1, <1>2
<1>4. CASE phase # "signing_out"
  <2> DEFINE c == Verdict(wire.answer, Sending)
  <2>1. IF c = "ok" THEN Advance ELSE FailHolding(CodeOf(c), held')
    BY <1>4 DEF BodyRead, Over
  <2>2. Sending = Step /\ phase = "running"
    BY <1>4, <1>1 DEF Sending, Idle
  <2>3. CASE c = "ok"
    <3>1. Went \/ Passed
      BY <2>1, <2>2, <2>3, AdvanceStep
    <3>2. n = LogoutAt => wire.answer.status \in {200, 204}
      BY <2>2, <2>3, <1>h, VerdictType DEF Here
    <3>3. n = LoginAt => held' = held
      BY <2>2, <2>3, <1>h, <1>1, <1>2, VerdictType DEF Here
    <3> QED
      BY <3>1, <3>2, <3>3, <2>2, <1>1, <1>2
  <2>4. CASE c # "ok"
    <3>1. Failed(CodeOf(c), held') /\ c \in SiteCodes
      BY <2>1, <2>4, FailStep, VerdictType
    <3>2. IF n = 4 THEN CodeOf(c) = "iap_token" ELSE CodeOf(c) = c
      BY <1>h DEF CodeOf, Here
    <3> HIDE DEF c
    <3> QED
      BY <3>1, <3>2, <1>1, <1>2, <1>4
  <2> QED
    BY <2>3, <2>4
<1> QED
  BY <1>3, <1>4

\* The report changes the phase and the exit status alone.
LEMMA ReportStep ==
  ASSUME Report
  PROVE  /\ phase = "done" /\ phase' \in {"reported", "unwritten"} /\ exit' \in {0, 1}
         /\ exit' = IF phase' = "reported" THEN ExitOf(result.code) ELSE 1
         /\ UNCHANGED <<job, start, n, now, end, held, code, wire, result, session,
              charged, arrived, tries>>
BY DEF Report, ExitOf, run

-----------------------------------------------------------------------------
(* The invariant, part by part *)

\* The request of the step at place p has been dialled.
Sent(p) == n > p \/ (n = p /\ ~Idle)

\* A request is under way only from a step that sends one, or to sign out; only
\* a run that is signed in, and not past the sign-out, signs out quietly.
Control ==
  /\ phase = "starting" => Idle /\ n = 1
  /\ ~Idle => phase \in {"running", "signing_out"}
  /\ phase = "running" /\ ~Idle => n \notin {1, 2, 3, LoginAt + 1}
  /\ phase = "signing_out" => LoginAt <= n /\ n < LogoutAt /\ Holds(held)

\* The password goes out at its own step alone.
DialledLogin ==
  /\ Live /\ ~Sent(LoginAt) => tries["login"] = 0
  /\ tries["login"] <= 1

\* And so does the code.
DialledVerify ==
  /\ Live /\ ~Sent(VerifyAt) => tries["mfa_verify"] = 0
  /\ tries["mfa_verify"] <= 1

\* The sign-out goes out at its step, or quietly before the step is reached.
DialledLogout ==
  /\ Live /\ ~Sent(LogoutAt) => tries["logout"] = 0
  /\ phase = "signing_out" /\ Idle => tries["logout"] = 0
  /\ tries["logout"] <= 1
  /\ phase = "running" /\ Sent(LogoutAt) => tries["logout"] = 1
  /\ phase = "signing_out" /\ ~Idle => tries["logout"] = 1

\* A run holds nothing until its code is verified, and only the sign-in's
\* answers hand anything over.
HeldInv ==
  /\ Live /\ n <= VerifyAt => held = {}
  /\ wire.at \in {"handled", "headers"} /\ wire.answer.holds # {} =>
       phase # "signing_out" /\ n \in {LoginAt, VerifyAt}

\* The result is open while the run is on its way; a sign-out answered well has
\* ended the session, and nothing opens one after it.
EndsInv ==
  /\ Live => result = [code |-> "ok", step |-> "none"]
  /\ phase = "signing_out" => result.code # "ok"
  /\ wire.at \in {"handled", "headers"} /\ SignsOut
       /\ wire.answer.status \in {200, 204} =>
       session = "ended"
  /\ Live /\ n > LogoutAt => session = "ended"

\* Once a failure is decided on, its code and its step go together.
Blames ==
  ~Live =>
     /\ OutcomeOf(result.code) = "error" /\ result.code # "runner"
          => result.step \in OwnSteps
     /\ OutcomeOf(result.code) = "fail" => result.step \notin OwnSteps

\* A run exits by its result's code where its line is written, and with 1 where
\* it is not.
ExitInv ==
  /\ ~Exited => exit = -1
  /\ phase = "reported" => exit = ExitOf(result.code)
  /\ phase = "unwritten" => exit = 1

\* When the server stops accepting the code the run has minted.
GoodUntil == (code + 1 + LateSteps) * TotpStep

\* The code is of this moment's step until it is sent, and its request is over
\* before the code is.
CodeInv ==
  /\ phase = "running" /\ n = VerifyAt /\ Idle => now \div TotpStep = code
  /\ phase = "running" /\ n = VerifyAt /\ ~Idle => wire.until <= GoodUntil
  /\ ~charged

\* How long a request may last.
UntilInv ==
  /\ ~Idle => now <= wire.until
  /\ phase = "running" /\ ~Idle /\ n # LogoutAt => wire.until <= end
  /\ phase = "running" /\ ~Idle /\ n = LogoutAt => wire.until <= end + SignOut
  /\ phase = "signing_out" /\ ~Idle => wire.until <= end + Overrun + SignOut

\* How late it may be between two requests.
IdleInv ==
  /\ phase = "running" /\ Idle /\ n > 2 /\ n # VerifyAt /\ n <= LogoutAt
       => now <= end
  /\ phase = "running" /\ Idle /\ n = VerifyAt => now <= end + MinLeft + 2 * Stall
  /\ phase = "running" /\ Idle /\ n > LogoutAt => now <= end + SignOut
  /\ phase = "signing_out" /\ Idle => now <= end + Overrun

\* When the deadline is, and that the run stays in its budgets.
RunInv ==
  /\ Live /\ n <= 2 => now = start
  /\ n > 2 => end <= start + EgressWait + Deadline
  /\ FitsItsBudgets

Inv ==
  /\ TypeOK /\ Control /\ DialledLogin /\ DialledVerify /\ DialledLogout /\ HeldInv
  /\ EndsInv /\ Blames /\ ExitInv /\ CodeInv /\ UntilInv /\ IdleInv /\ RunInv
  /\ SessionSignedOut /\ PassLeavesNoSession

-----------------------------------------------------------------------------
(* Types *)

\* TypeOK in pieces that change together: where the run is, ...
PlaceOK ==
  /\ phase \in {"starting", "running", "signing_out", "done", "reported", "unwritten"}
  /\ n \in 1..Len(Path) /\ result \in [code : Codes, step : StepNames]
       /\ exit \in {-1, 0, 1}

\* ... what time it is, ...
ClockOK == now \in Nat /\ start \in Nat /\ now >= start /\ end \in Nat
  /\ code \in Int

\* ... and what was taken and dialled.
HeldOK ==
  /\ held \subseteq Tokens /\ arrived \subseteq Cookies
  /\ session \in Sessions /\ tries \in [Once -> Nat]

\* They make up the type.
LEMMA TypeParts ==
  TypeOK <=> job \in Jobs /\ PlaceOK /\ ClockOK /\ wire \in Wires /\ HeldOK
    /\ charged \in BOOLEAN
BY DEF TypeOK, PlaceOK, ClockOK, HeldOK

\* A failure's result line is made of what result.py lists.
LEMMA FailureTyped ==
  ASSUME TypeOK, NEW c, NEW h, Failed(c, h), exit' = exit,
         c \in SiteCodes \cup Transport \cup {"config", "egress", "iap_token",
           "runner"},
         Len(Path)' = Len(Path)
  PROVE  PlaceOK'
<1>1. Named \in StepNames
  BY WhereItIs DEF Here
<1>2. c \in Codes
  BY DEF SiteCodes, Transport, Codes
<1>3. result' \in [code : Codes, step : StepNames]
  BY <1>1, <1>2 DEF Failed
<1>4. n \in 1..Len(Path) /\ exit \in {-1, 0, 1}
  BY DEF TypeOK
<1> QED
  BY <1>3, <1>4 DEF Failed, PlaceOK

\* Every step keeps the types.
LEMMA TypeHolds == TypeOK /\ Control /\ Next => TypeOK'
<1> SUFFICES ASSUME TypeOK, Control, Next PROVE TypeOK'
  OBVIOUS
<1>a. SameJourney
  BY RunStands
<1>h. /\ n \in 1..Len(Path) /\ Len(Path) \in Nat
  BY WhereItIs DEF Here
<1>t. job \in Jobs /\ PlaceOK /\ ClockOK /\ wire \in Wires /\ HeldOK
        /\ charged \in BOOLEAN
  BY TypeParts
<1>c. "csrf" \in SiteCodes /\ "timeout" \in Transport
  BY DEF SiteCodes, Transport
<1>n. "none" \in StepNames /\ {"ok", "paused", "not_configured"} \in SUBSET Codes
  BY DEF StepNames, Codes
<1>1. PlaceOK'
  <2> USE <1>a, <1>h, <1>t, <1>n DEF SameJourney
  <2>1. CASE CheckSwitches
    BY <2>1, CheckSwitchesStep DEF PlaceOK
  <2>2. CASE ReadSettings
    BY <2>2, ReadSettingsStep, FailureTyped DEF PlaceOK, Went
  <2>3. CASE Egress
    BY <2>3, EgressStep, FailureTyped DEF PlaceOK, Went
  <2>4. CASE Mint
    BY <2>4, MintStep DEF PlaceOK, Went
  <2>5. CASE Bug
    BY <2>5, BugStep, FailureTyped
  <2>6. CASE Send
    BY <2>6, <1>c, SendStep, FailureTyped DEF PlaceOK
  <2>7. CASE QuietSignOut
    BY <2>7, QuietSignOutStep DEF PlaceOK
  <2>8. CASE NotReached \/ Lost
    BY <2>8, DroppedStep, FailureTyped DEF PlaceOK, Dropped, Hushed
  <2>9. CASE Reach \/ HeadersArrive
    BY <2>9, ReachStep, HeadersArriveStep DEF PlaceOK
  <2>10. CASE BodyRead
    BY <2>10, BodyReadStep, FailureTyped DEF PlaceOK, Went, Passed, Hushed, Control
  <2>11. CASE Report
    BY <2>11, ReportStep DEF PlaceOK
  <2> QED
    BY <2>1, <2>2, <2>3, <2>4, <2>5, <2>6, <2>7, <2>8, <2>9, <2>10, <2>11
       DEF Next, Works
<1>2. ClockOK'
  <2> USE <1>a, <1>t DEF ClockOK, SameJourney
  <2>w. ~Idle => wire.until \in Int
    BY <1>t DEF Wires, NoWire, Idle
  <2>1. CASE CheckSwitches \/ ReadSettings \/ Bug \/ Send \/ QuietSignOut
               \/ HeadersArrive \/ Report
    BY <2>1, CheckSwitchesStep, ReadSettingsStep, BugStep, SendStep,
       QuietSignOutStep, HeadersArriveStep, ReportStep
  <2>2. CASE Egress
    BY <2>2, EgressStep, BudgetsAssumption
  <2>3. CASE Mint
    <3>1. PICK m \in Minted, s \in 0..Stall : code' = m \div TotpStep
            /\ now' = m + s
      BY <2>3, MintStep
    <3>2. m \in Nat /\ m >= now /\ s \in Nat
      BY MintedInTime, BudgetsAssumption
    <3>3. m \div TotpStep \in Nat
      BY <3>2, DivMod, TotpAssumption
    <3> QED
      BY <3>1, <3>2, <3>3, <2>3, MintStep
  <2>4. CASE NotReached \/ Lost
    <3>1. PICK t \in now..(wire.until + Overrun) : now' = t
      BY <2>4, DroppedStep DEF Dropped
    <3> QED
      BY <3>1, <2>4, <2>w, DroppedStep, BudgetsAssumption DEF Dropped
  <2>5. CASE Reach
    BY <2>5, <2>w, ReachStep DEF Idle
  <2>6. CASE BodyRead
    BY <2>6, <2>w, BodyReadStep DEF Idle, Control
  <2> QED
    BY <2>1, <2>2, <2>3, <2>4, <2>5, <2>6 DEF Next, Works
<1>3. wire' \in Wires
  <2> USE <1>t
  <2>1. CASE CheckSwitches \/ ReadSettings \/ Egress \/ Mint \/ Bug \/ Report
    BY <2>1, CheckSwitchesStep, ReadSettingsStep, EgressStep, MintStep, BugStep,
       ReportStep
  <2>2. CASE Send
    <3>1. now + Budget \in Int
      BY BudgetType DEF ClockOK
    <3>2. [at |-> "dialled", until |-> now + Budget] \in Wires
      BY <3>1 DEF Wires
    <3> QED
      BY <2>2, <3>2, SendStep
  <2>3. CASE QuietSignOut
    <3>1. now + SignOut \in Int
      BY SignOutType DEF ClockOK
    <3>2. [at |-> "dialled", until |-> now + SignOut] \in Wires
      BY <3>1 DEF Wires
    <3> QED
      BY <2>3, <3>2, QuietSignOutStep
  <2>4. CASE NotReached \/ Lost \/ BodyRead
    BY <2>4, DroppedStep, BodyReadStep DEF Dropped, Wires, Control
  <2>5. CASE Reach
    <3>1. wire'.answer \in Answers /\ wire.until \in Int
      BY <2>5, ReachStep DEF Wires, NoWire
    <3> QED
      BY <2>5, <3>1, ReachStep DEF Wires
  <2>6. CASE HeadersArrive
    BY <2>6, HeadersArriveStep
  <2> QED
    BY <2>1, <2>2, <2>3, <2>4, <2>5, <2>6 DEF Next, Works
<1>4. HeldOK'
  <2> USE <1>t DEF HeldOK
  <2>1. CASE CheckSwitches \/ ReadSettings \/ Egress \/ Mint \/ Bug \/ Report
    BY <2>1, CheckSwitchesStep, ReadSettingsStep, EgressStep, MintStep, BugStep,
       ReportStep
  <2>2. CASE Send \/ QuietSignOut
    BY <2>2, SendStep, QuietSignOutStep
  <2>3. CASE NotReached \/ Lost
    BY <2>3, DroppedStep DEF Dropped
  <2>4. CASE Reach
    BY <2>4, ReachStep
  <2>5. CASE HeadersArrive
    BY <2>5, HeadersArriveStep
  <2>6. CASE BodyRead
    <3>1. wire.at = "headers"
      BY <2>6, BodyReadStep DEF Control
    <3>2. wire.answer.holds \in SUBSET Tokens
      BY <3>1 DEF Wires, NoWire, Answers
    <3> QED
      BY <2>6, <3>2, BodyReadStep DEF Control
  <2> QED
    BY <2>1, <2>2, <2>3, <2>4, <2>5, <2>6 DEF Next, Works
<1>5. charged' \in BOOLEAN
  <2>1. CASE Reach
    BY <2>1, ReachStep, Zenon
  <2>2. CASE ~Reach
    <3>1. charged' = charged
      BY <2>2, CheckSwitchesStep, ReadSettingsStep, EgressStep, MintStep, BugStep,
         SendStep, QuietSignOutStep,
         DroppedStep, HeadersArriveStep, BodyReadStep, ReportStep
           DEF Next, Works, Dropped, Control
    <3> QED
      BY <3>1, <1>t
  <2> QED
    BY <2>1, <2>2
<1>6. TypeOK' <=>
        (job \in Jobs /\ PlaceOK /\ ClockOK /\ wire \in Wires /\ HeldOK
          /\ charged \in BOOLEAN)'
  BY DEF TypeOK, PlaceOK, ClockOK, HeldOK
<1> QED
  BY <1>1, <1>2, <1>3, <1>4, <1>5, <1>6, <1>a, <1>t DEF SameJourney

-----------------------------------------------------------------------------
(* Every step keeps every part *)

\* The phases, the places and the requests go together.
LEMMA ControlHolds ==
  ASSUME TypeOK, Control, Next
  PROVE  Control'
<1>m. Milestones /\ SameJourney
  BY InOrder, RunStands
<1> USE <1>m DEF Milestones, SameJourney, Control, Holds, Went, Passed, Failed,
          Hushed, Idle, NoWire, Live
<1>1. CASE CheckSwitches \/ ReadSettings \/ Egress \/ Mint \/ Bug \/ Send
             \/ QuietSignOut \/ Report
  BY <1>1, CheckSwitchesStep, ReadSettingsStep, EgressStep, MintStep, BugStep,
     SendStep, QuietSignOutStep, ReportStep
<1>2. CASE NotReached \/ Lost
  BY <1>2, DroppedStep DEF Dropped
<1>3. CASE Reach \/ HeadersArrive
  BY <1>3, ReachStep, HeadersArriveStep
<1>4. CASE BodyRead
  BY <1>4, BodyReadStep
<1> QED
  BY <1>1, <1>2, <1>3, <1>4 DEF Next, Works

\* The password is sent once.
LEMMA DialledLoginHolds ==
  ASSUME TypeOK, Control, DialledLogin, Next
  PROVE  DialledLogin'
<1>m. Milestones /\ SameJourney
  BY InOrder, RunStands
<1> USE <1>m DEF Milestones, SameJourney, Control, DialledLogin, Sent, Went,
          Counted, Passed, Failed, Hushed, Idle, NoWire, Live
<1>1. CASE CheckSwitches \/ ReadSettings \/ Egress \/ Mint \/ Bug \/ Send
             \/ QuietSignOut \/ Report
  BY <1>1, CheckSwitchesStep, ReadSettingsStep, EgressStep, MintStep, BugStep,
     SendStep, QuietSignOutStep, ReportStep
<1>2. CASE NotReached \/ Lost
  BY <1>2, DroppedStep DEF Dropped
<1>3. CASE Reach \/ HeadersArrive
  BY <1>3, ReachStep, HeadersArriveStep
<1>4. CASE BodyRead
  BY <1>4, BodyReadStep
<1> QED
  BY <1>1, <1>2, <1>3, <1>4 DEF Next, Works

\* The code is sent once.
LEMMA DialledVerifyHolds ==
  ASSUME TypeOK, Control, DialledVerify, Next
  PROVE  DialledVerify'
<1>m. Milestones /\ SameJourney
  BY InOrder, RunStands
<1> USE <1>m DEF Milestones, SameJourney, Control, DialledVerify, Sent, Went,
          Counted, Passed, Failed, Hushed, Idle, NoWire, Live
<1>1. CASE CheckSwitches \/ ReadSettings \/ Egress \/ Mint \/ Bug \/ Send
             \/ QuietSignOut \/ Report
  BY <1>1, CheckSwitchesStep, ReadSettingsStep, EgressStep, MintStep, BugStep,
     SendStep, QuietSignOutStep, ReportStep
<1>2. CASE NotReached \/ Lost
  BY <1>2, DroppedStep DEF Dropped
<1>3. CASE Reach \/ HeadersArrive
  BY <1>3, ReachStep, HeadersArriveStep
<1>4. CASE BodyRead
  BY <1>4, BodyReadStep
<1> QED
  BY <1>1, <1>2, <1>3, <1>4 DEF Next, Works

\* The sign-out is sent once, and before a signed-in run is over.
LEMMA DialledLogoutHolds ==
  ASSUME TypeOK, Control, DialledLogout, Next
  PROVE  DialledLogout'
<1>m. Milestones /\ SameJourney
  BY InOrder, RunStands
<1> USE <1>m DEF Milestones, SameJourney, Control, DialledLogout, Sent, Went,
          Counted, Passed, Failed, Hushed, Idle, NoWire, Live
<1>1. CASE CheckSwitches \/ ReadSettings \/ Egress \/ Mint \/ Bug \/ Send
             \/ QuietSignOut \/ Report
  BY <1>1, CheckSwitchesStep, ReadSettingsStep, EgressStep, MintStep, BugStep,
     SendStep, QuietSignOutStep, ReportStep
<1>2. CASE NotReached \/ Lost
  BY <1>2, DroppedStep DEF Dropped
<1>3. CASE Reach \/ HeadersArrive
  BY <1>3, ReachStep, HeadersArriveStep
<1>4. CASE BodyRead
  BY <1>4, BodyReadStep
<1> QED
  BY <1>1, <1>2, <1>3, <1>4 DEF Next, Works

\* What a run holds comes from its sign-in.
LEMMA HeldInvHolds ==
  ASSUME TypeOK, Control, HeldInv, Next
  PROVE  HeldInv'
<1>m. Milestones /\ SameJourney
  BY InOrder, RunStands
<1> USE <1>m DEF Milestones, SameJourney, Control, HeldInv, Went, Passed, Failed,
          Hushed, Idle, NoWire, Live
<1>1. CASE CheckSwitches \/ ReadSettings \/ Egress \/ Mint \/ Bug \/ Send
             \/ QuietSignOut \/ Report
  BY <1>1, CheckSwitchesStep, ReadSettingsStep, EgressStep, MintStep, BugStep,
     SendStep, QuietSignOutStep, ReportStep
<1>2. CASE NotReached \/ Lost
  BY <1>2, DroppedStep DEF Dropped
<1>3. CASE Reach \/ HeadersArrive
  BY <1>3, ReachStep, HeadersArriveStep
<1>4. CASE BodyRead
  BY <1>4, BodyReadStep
<1> QED
  BY <1>1, <1>2, <1>3, <1>4 DEF Next, Works

\* The session ends with the sign-out.
LEMMA EndsInvHolds ==
  ASSUME TypeOK, Control, EndsInv, Next
  PROVE  EndsInv'
<1>m. Milestones /\ SameJourney
  BY InOrder, RunStands
<1> USE <1>m DEF Milestones, SameJourney, Control, EndsInv, SignsOut, SiteCodes,
          Transport, Went, Passed, Failed, Hushed, Idle, NoWire, Live
<1>1. CASE CheckSwitches \/ ReadSettings \/ Egress \/ Mint \/ Bug \/ Send
             \/ QuietSignOut \/ Report
  BY <1>1, CheckSwitchesStep, ReadSettingsStep, EgressStep, MintStep, BugStep,
     SendStep, QuietSignOutStep, ReportStep
<1>2. CASE NotReached \/ Lost
  BY <1>2, DroppedStep DEF Dropped
<1>3. CASE Reach \/ HeadersArrive
  BY <1>3, ReachStep, HeadersArriveStep
<1>4. CASE BodyRead
  BY <1>4, BodyReadStep
<1> QED
  BY <1>1, <1>2, <1>3, <1>4 DEF Next, Works

\* A run that took a sign-in ends with the sign-out dialled.
LEMMA SessionSignedOutHolds ==
  ASSUME TypeOK, Control, DialledLogout, HeldInv, SessionSignedOut, Next
  PROVE  SessionSignedOut'
<1>m. Milestones /\ SameJourney
  BY InOrder, RunStands
<1>b. (Named = "logout") <=> (n = LogoutAt)
  BY WhereItIs DEF Here
<1> USE <1>b
<1> USE <1>m DEF Milestones, SameJourney, Control, SessionSignedOut, DialledLogout,
          HeldInv, BrokeSigningOut, Holds, Ended, Exited, Sent, Went, Counted, Passed,
            Failed, Hushed, Idle, NoWire, Live
<1>1. CASE CheckSwitches \/ ReadSettings \/ Egress \/ Mint \/ Bug \/ Send
             \/ QuietSignOut \/ Report
  BY <1>1, CheckSwitchesStep, ReadSettingsStep, EgressStep, MintStep, BugStep,
     SendStep, QuietSignOutStep, ReportStep
<1>2. CASE NotReached \/ Lost
  BY <1>2, DroppedStep DEF Dropped
<1>3. CASE Reach \/ HeadersArrive
  BY <1>3, ReachStep, HeadersArriveStep
<1>4. CASE BodyRead
  BY <1>4, BodyReadStep
<1> QED
  BY <1>1, <1>2, <1>3, <1>4 DEF Next, Works

\* A pass has gone all the way.
LEMMA PassLeavesNoSessionHolds ==
  ASSUME TypeOK, Control, EndsInv, PassLeavesNoSession, Next
  PROVE  PassLeavesNoSession'
<1>m. Milestones /\ SameJourney
  BY InOrder, RunStands
<1> USE <1>m DEF Milestones, SameJourney, Control, EndsInv, PassLeavesNoSession,
          SignsOut, SiteCodes, Transport, Ended, Exited, Went, Passed, Failed, Hushed,
            Idle, NoWire, Live
<1>1. CASE CheckSwitches \/ ReadSettings \/ Egress \/ Mint \/ Bug \/ Send
             \/ QuietSignOut \/ Report
  BY <1>1, CheckSwitchesStep, ReadSettingsStep, EgressStep, MintStep, BugStep,
     SendStep, QuietSignOutStep, ReportStep
<1>2. CASE NotReached \/ Lost
  BY <1>2, DroppedStep DEF Dropped
<1>3. CASE Reach \/ HeadersArrive
  BY <1>3, ReachStep, HeadersArriveStep
<1>4. CASE BodyRead
  BY <1>4, BodyReadStep
<1> QED
  BY <1>1, <1>2, <1>3, <1>4 DEF Next, Works

\* The exit status is the report's alone.
LEMMA ExitHolds ==
  ASSUME TypeOK, Control, ExitInv, Next
  PROVE  ExitInv'
<1> USE DEF Control, ExitInv, Exited, Went, Passed, Failed, Hushed, Idle, NoWire
<1>1. CASE CheckSwitches \/ ReadSettings \/ Egress \/ Mint \/ Bug \/ Send
             \/ QuietSignOut
  BY <1>1, CheckSwitchesStep, ReadSettingsStep, EgressStep, MintStep, BugStep,
     SendStep, QuietSignOutStep
<1>2. CASE NotReached \/ Lost
  BY <1>2, DroppedStep DEF Dropped
<1>3. CASE Reach \/ HeadersArrive
  BY <1>3, ReachStep, HeadersArriveStep
<1>4. CASE BodyRead
  BY <1>4, BodyReadStep
<1>5. CASE Report
  BY <1>5, ReportStep
<1> QED
  BY <1>1, <1>2, <1>3, <1>4, <1>5 DEF Next, Works

\* The outcome each kind of code has.
LEMMA Outcomes ==
  /\ \A c \in SiteCodes \cup Transport : OutcomeOf(c) = "fail"
  /\ \A c \in {"config", "egress", "iap_token", "runner"} : OutcomeOf(c) = "error"
  /\ \A c \in {"paused", "not_configured"} : OutcomeOf(c) = "skipped"
  /\ OutcomeOf("ok") = "pass"
BY DEF SiteCodes, Transport, OutcomeOf

\* A failure whose code fits its step is blamed once.
LEMMA FailureBlamed ==
  ASSUME TypeOK, NEW c, NEW h, Failed(c, h),
         \/ c \in SiteCodes \cup Transport /\ n > 4
         \/ c \in {"config", "egress", "iap_token"} /\ n <= 4
         \/ c = "runner"
  PROVE  Blames'
<1>1. (Named \in OwnSteps) <=> n <= 4
  BY WhereItIs DEF Here
<1>2. result'.code = c /\ result'.step = Named
  BY DEF Failed
<1>3. n \in Nat
  BY WhereItIs DEF Here
<1>4. CASE c \in SiteCodes \cup Transport /\ n > 4
  <2>1. OutcomeOf(c) = "fail" /\ Named \notin OwnSteps
    BY <1>1, <1>3, <1>4, Outcomes
  <2> QED
    BY <2>1, <1>2 DEF Blames
<1>5. CASE c \in {"config", "egress", "iap_token"} /\ n <= 4
  <2>1. OutcomeOf(c) = "error" /\ Named \in OwnSteps
    BY <1>1, <1>5, Outcomes
  <2> QED
    BY <2>1, <1>2 DEF Blames
<1>6. CASE c = "runner"
  <2>1. OutcomeOf(c) = "error"
    BY <1>6, Outcomes
  <2> QED
    BY <2>1, <1>2, <1>6 DEF Blames
<1> QED
  BY <1>4, <1>5, <1>6

\* Every failure's code fits its step.
LEMMA BlamesHolds ==
  ASSUME TypeOK, Control, EndsInv, Blames, Next
  PROVE  Blames'
<1>n. n \in 1..Len(Path) /\ Len(Path) \in Nat
  BY WhereItIs DEF Here
<1>r. ~Idle /\ phase # "signing_out" => n > 3
  BY <1>n DEF Control
<1>t. "csrf" \in SiteCodes /\ "timeout" \in Transport
  BY DEF SiteCodes, Transport
<1>1. CASE CheckSwitches
  BY <1>1, CheckSwitchesStep, Outcomes DEF Blames, Live
<1>2. CASE ReadSettings
  BY <1>2, ReadSettingsStep, FailureBlamed DEF Blames, Live, Went
<1>3. CASE Egress
  BY <1>3, EgressStep, FailureBlamed DEF Blames, Live, Went
<1>4. CASE Mint
  BY <1>4, MintStep DEF Blames, Live, Went
<1>5. CASE Bug
  BY <1>5, BugStep, FailureBlamed
<1>6. CASE Send
  <2>1. n > 3
    BY <1>6, <1>n, SendStep
  <2>2. CASE n = LogoutAt /\ Failed("csrf", held)
    <3>1. n > 4
      BY <2>2, WhereItIs DEF Here
    <3> QED
      BY <2>2, <3>1, <1>t, FailureBlamed
  <2>3. CASE Failed(IF n = 4 THEN "iap_token" ELSE "timeout", held)
    <3>1. CASE n = 4
      BY <2>3, <3>1, FailureBlamed
    <3>2. CASE n # 4
      <4>1. Failed("timeout", held) /\ n > 4
        BY <2>1, <2>3, <3>2, <1>n
      <4> QED
        BY <4>1, <1>t, FailureBlamed
    <3> QED
      BY <3>1, <3>2
  <2>4. CASE phase = "running" /\ phase' = phase
    BY <2>4 DEF Blames, Live
  <2> QED
    BY <1>6, <2>2, <2>3, <2>4, SendStep
<1>7. CASE QuietSignOut
  BY <1>7, QuietSignOutStep DEF Blames, Live
<1>8. CASE NotReached \/ Lost
  <2>1. Dropped
    BY <1>8, DroppedStep
  <2>2. CASE Hushed
    BY <2>2 DEF Hushed, Blames, Live
  <2>3. CASE phase # "signing_out" /\ Failed("iap_token", held) /\ n = 4
    BY <2>3, FailureBlamed
  <2>4. CASE phase # "signing_out" /\ n # 4 /\ \E c \in Transport : Failed(c, held)
    <3>1. n > 4
      BY <2>1, <2>4, <1>n, <1>r DEF Dropped
    <3> QED
      BY <2>4, <3>1, FailureBlamed
  <2> QED
    BY <2>1, <2>2, <2>3, <2>4 DEF Dropped
<1>9. CASE Reach \/ HeadersArrive
  <2>1. phase' = phase /\ result' = result
    BY <1>9, ReachStep, HeadersArriveStep
  <2> QED
    BY <2>1 DEF Blames, Live
<1>10. CASE BodyRead
  <2>1. ~Idle
    BY <1>10, BodyReadStep DEF Idle, Control
  <2>2. CASE Hushed
    BY <2>2 DEF Hushed, Blames, Live
  <2>3. CASE phase = "running" /\ (Went \/ Passed)
    BY <2>3, Outcomes DEF Went, Passed, Blames, Live
  <2>4. CASE phase # "signing_out" /\ n = 4 /\ Failed("iap_token", held')
    BY <2>4, FailureBlamed
  <2>5. CASE phase # "signing_out" /\ n # 4 /\ \E c \in SiteCodes : Failed(c, held')
    <3>1. n > 4
      BY <2>1, <2>5, <1>n, <1>r
    <3> QED
      BY <2>5, <3>1, FailureBlamed
  <2> QED
    BY <1>10, <2>2, <2>3, <2>4, <2>5, BodyReadStep DEF Control
<1>11. CASE Report
  BY <1>11, ReportStep DEF Blames, Live
<1> QED
  BY <1>1, <1>2, <1>3, <1>4, <1>5, <1>6, <1>7, <1>8, <1>9, <1>10, <1>11
     DEF Next, Works

\* The code is used before it is refused.
LEMMA CodeInvHolds ==
  ASSUME TypeOK, TypeOK', Control, CodeInv, Next
  PROVE  CodeInv'
<1>m. Milestones /\ SameJourney
  BY InOrder, RunStands
<1>g. code' = code => GoodUntil' = GoodUntil
  BY DEF GoodUntil
<1>h. Here
  BY WhereItIs
<1>w. wire \in Wires /\ now \in Nat /\ now' \in Nat
  BY DEF TypeOK
<1> USE <1>g
<1> USE <1>m DEF Milestones, SameJourney, Control, CodeInv, Went, Passed, Failed,
          Hushed, Idle, NoWire, Live
<1>1. CASE CheckSwitches \/ ReadSettings \/ Egress \/ Bug \/ QuietSignOut
             \/ HeadersArrive \/ Report
  BY <1>1, CheckSwitchesStep, ReadSettingsStep, EgressStep, BugStep,
     QuietSignOutStep, HeadersArriveStep, ReportStep
<1>2. CASE Mint
  <2>1. PICK m \in Minted, s \in 0..Stall : code' = m \div TotpStep /\ now' = m + s
    BY <1>2, MintStep
  <2>2. now' \div TotpStep = code'
    BY <2>1, MintedInTime
  <2> QED
    BY <2>2, <1>2, MintStep
<1>3. CASE Send
  <2>1. n = VerifyAt /\ Idle /\ phase = "running" => now + Budget <= GoodUntil
    <3> SUFFICES ASSUME n = VerifyAt, Idle, phase = "running"
          PROVE now + Budget <= GoodUntil
      OBVIOUS
    <3>1. Budget <= AcceptedFor(now) /\ Budget \in Int
      BY BudgetBounds, BudgetType
    <3>2. now + AcceptedFor(now) = GoodUntil
      BY AcceptedWhileGood DEF GoodUntil
    <3>3. AcceptedFor(now) \in Int
      BY <1>w, TotpAssumption, DivMod DEF AcceptedFor
    <3> QED
      BY <3>1, <3>2, <3>3, <1>w
  <2> QED
    BY <2>1, <1>3, SendStep
<1>4. CASE NotReached \/ Lost
  BY <1>4, DroppedStep DEF Dropped
<1>5. CASE Reach
  <2>1. ~(Sending = "mfa_verify" /\ ~InTime(now'))
    <3> SUFFICES ASSUME Sending = "mfa_verify" PROVE InTime(now')
      OBVIOUS
    <3>1. n = VerifyAt /\ phase = "running" /\ ~Idle
      BY <1>h, <1>5, ReachStep DEF Here, Sending
    <3>2. wire.until <= GoodUntil
      BY <3>1
    <3>3. now' <= wire.until - 1 /\ wire.until \in Int
      BY <1>5, <1>w, ReachStep DEF Wires
    <3>4. GoodUntil \in Int
      BY TotpAssumption DEF GoodUntil, TypeOK
    <3> QED
      BY <3>2, <3>3, <3>4, <1>w DEF InTime, GoodUntil
  <2> QED
    BY <2>1, <1>5, ReachStep
<1>6. CASE BodyRead
  BY <1>6, BodyReadStep
<1> QED
  BY <1>1, <1>2, <1>3, <1>4, <1>5, <1>6 DEF Next, Works

\* A request is dialled in time and lasts no longer than its budget.
LEMMA UntilHolds ==
  ASSUME TypeOK, TypeOK', Control, UntilInv, IdleInv, Next
  PROVE  UntilInv'
<1>a. SameJourney
  BY RunStands
<1>n. Milestones
  BY InOrder
<1>c. /\ now \in Nat /\ start \in Nat /\ end \in Nat /\ now' \in Nat /\ end' \in Nat
      /\ EgressWait \in Nat /\ Deadline \in Nat /\ Overrun \in Nat
      /\ MinLeft \in Nat /\ Stall \in Nat
      /\ SignOut \in Nat /\ LastWait \in Nat /\ LastWait >= SignOut + Overrun
      /\ LastWait >= MinLeft + 2 * Stall
  BY SignOutType, LastWaitType, BudgetsAssumption, TotpAssumption DEF TypeOK
<1> USE DEF SameJourney, Milestones
<1>w. ~Idle => wire.until \in Int
  <2>1. wire \in Wires
    BY DEF TypeOK
  <2> QED
    BY <2>1 DEF Wires, NoWire, Idle
<1>1. CASE Idle'
  BY <1>1 DEF UntilInv
<1>2. CASE Send /\ ~Idle'
  <2>1. /\ phase = "running" /\ phase' = phase /\ n \notin {1, 2, 3, LoginAt + 1}
        /\ Idle
        /\ wire' = [at |-> "dialled", until |-> now + Budget] /\ Budget > 0
        /\ now' = now /\ end' = end /\ n' = n
    BY <1>2, SendStep DEF Idle
  <2>2. Budget \in Int /\ (n = LogoutAt => Budget = SignOut) /\ (n # LogoutAt
          => Budget <= end - now)
    BY <2>1, BudgetBounds, BudgetType
  <2>3. wire'.until = now + Budget
    BY <2>1
  <2>4. n = LogoutAt => now <= end
    BY <2>1, <1>n DEF IdleInv
  <2> QED
    BY <2>1, <2>2, <2>3, <2>4, <1>a, <1>c DEF UntilInv
<1>3. CASE QuietSignOut /\ ~Idle'
  <2>1. /\ phase = "signing_out" /\ phase' = phase /\ Idle /\ now' = now
        /\ end' = end
        /\ wire' = [at |-> "dialled", until |-> now + SignOut]
    BY <1>3, QuietSignOutStep DEF Idle
  <2>2. now <= end + Overrun /\ wire'.until = now + SignOut
    BY <2>1 DEF IdleInv
  <2> QED
    BY <2>1, <2>2, <1>c DEF UntilInv
<1>4. CASE Reach
  <2>1. /\ ~Idle /\ wire'.until = wire.until /\ end' = end /\ n' = n
        /\ phase' = phase
        /\ \E t \in now..(wire.until - 1) : now' = t
    BY <1>4, ReachStep DEF Idle
  <2>2. now' <= wire.until
    BY <2>1, <1>c, <1>w
  <2> QED
    BY <2>1, <2>2, <1>a DEF UntilInv
<1>5. CASE HeadersArrive
  <2>1. ~Idle /\ wire'.until = wire.until /\ end' = end /\ n' = n /\ phase' = phase
          /\ now' = now
    BY <1>5, HeadersArriveStep DEF Idle
  <2> QED
    BY <2>1, <1>a DEF UntilInv
<1>6. CASE CheckSwitches \/ ReadSettings \/ Egress \/ Mint \/ Bug \/ NotReached
             \/ Lost \/ BodyRead \/ Report
  <2>1. Idle'
    BY <1>6, CheckSwitchesStep, ReadSettingsStep, EgressStep, MintStep, BugStep,
       DroppedStep, BodyReadStep, ReportStep
       DEF Control, Dropped, Idle, NoWire
  <2> QED
    BY <2>1, <1>1
<1> QED
  BY <1>1, <1>2, <1>3, <1>4, <1>5, <1>6 DEF Next, Works

\* Each wait is bounded by the budget of what waited.
LEMMA IdleHolds ==
  ASSUME TypeOK, TypeOK', Control, HeldInv, RunInv, UntilInv, IdleInv, Next
  PROVE  IdleInv'
<1>a. SameJourney
  BY RunStands
<1>n. Milestones
  BY InOrder
<1>c. /\ now \in Nat /\ start \in Nat /\ end \in Nat /\ now' \in Nat /\ end' \in Nat
      /\ EgressWait \in Nat /\ Deadline \in Nat /\ Overrun \in Nat
      /\ MinLeft \in Nat /\ Stall \in Nat
      /\ SignOut \in Nat /\ LastWait \in Nat /\ LastWait >= SignOut + Overrun
      /\ LastWait >= MinLeft + 2 * Stall
  BY SignOutType, LastWaitType, BudgetsAssumption, TotpAssumption DEF TypeOK
<1> USE DEF SameJourney, Milestones
<1>w. ~Idle => wire.until \in Int
  <2>1. wire \in Wires
    BY DEF TypeOK
  <2> QED
    BY <2>1 DEF Wires, NoWire, Idle
<1> USE <1>a, <1>n, <1>c, <1>w
<1>1. CASE CheckSwitches
  BY <1>1, CheckSwitchesStep DEF IdleInv, Control
<1>2. CASE ReadSettings
  <2>1. phase = "running" /\ Idle /\ n \in {1, 3} /\ now' = now /\ end' = end
          /\ n' \in {n, n + 1} /\ phase' # "signing_out"
    BY <1>2, ReadSettingsStep DEF Went, Failed
  <2> QED
    BY <2>1 DEF IdleInv, Idle
<1>3. CASE Egress
  <2>1. n = 2
    BY <1>3, EgressStep
  <2>2. CASE Went /\ end' = now' + Deadline
    <3>1. phase' = "running" /\ n' = 3
      BY <2>1, <2>2 DEF Went
    <3> HIDE <1>a, <1>n, <1>c, <1>w
    <3>e. end' = now' + Deadline /\ now' \in Nat /\ Deadline \in Nat
      BY <2>2, <1>c
    <3>2. now' <= end'
      <4> DEFINE t == now'
      <4>1. t \in Nat /\ Deadline \in Nat
        BY <1>c
      <4>2. end' = t + Deadline
        BY <2>2
      <4> HIDE DEF t
      <4>3. t <= t + Deadline
        BY <4>1
      <4>4. t <= end'
        BY <4>2, <4>3
      <4> QED
        BY <4>4 DEF t
    <3>3. n' # VerifyAt' /\ ~(n' > LogoutAt')
      BY <3>1, <1>a, <1>n
    <3> QED
      BY <3>1, <3>2, <3>3 DEF IdleInv
  <2>3. CASE Failed("egress", held)
    <3>1. phase' = "done"
      BY <2>1, <2>3 DEF Failed
    <3> QED
      BY <3>1 DEF IdleInv
  <2> QED
    BY <1>3, <2>2, <2>3, EgressStep
<1>4. CASE Mint
  <2>1. /\ phase = "running" /\ Idle /\ n = LoginAt + 1 /\ n' = n + 1 /\ end' = end
        /\ phase' = phase
        /\ now' <= now + MinLeft + 2 * Stall
    BY <1>4, MintStep, MintedInTime DEF Went
  <2> QED
    BY <2>1 DEF IdleInv
<1>5. CASE Bug \/ (Send /\ Idle')
  <2>1. /\ phase = "running" /\ Idle /\ phase' \in {"done", "signing_out"}
        /\ now' = now /\ end' = end
        /\ phase' = "signing_out" => Holds(held) /\ LoginAt <= n /\ n < LogoutAt
    BY <1>5, BugStep, SendStep DEF Failed, Holds, Idle
  <2>2. phase' = "signing_out" => n # VerifyAt
    BY <2>1 DEF HeldInv, Holds, Live
  <2> QED
    BY <2>1, <2>2 DEF IdleInv
<1>6. CASE ~Idle'
  BY <1>6 DEF IdleInv
<1>7. CASE QuietSignOut /\ Idle'
  BY <1>7, QuietSignOutStep DEF IdleInv, Idle
<1>8. CASE NotReached \/ Lost
  <2>1. Dropped
    BY <1>8, DroppedStep
  <2>2. now' <= wire.until + Overrun
    BY <2>1 DEF Dropped
  <2>3. /\ ~Idle /\ end' = end /\ phase' \in {"done", "signing_out"}
        /\ phase' = "signing_out" => phase = "running" /\ n < LogoutAt
    BY <2>1 DEF Dropped, Hushed, Failed, Control
  <2> QED
    BY <2>2, <2>3 DEF IdleInv, UntilInv
<1>9. CASE BodyRead
  <2>1. ~Idle /\ end' = end /\ now' <= wire.until
    BY <1>9, BodyReadStep DEF Idle, Control
  <2>2. CASE phase = "running" /\ Went
    BY <2>1, <2>2 DEF Went, IdleInv, UntilInv, Control
  <2>3. CASE phase' \in {"done", "signing_out"} /\ (phase' = "signing_out"
               => phase = "running" /\ n < LogoutAt)
    BY <2>1, <2>3 DEF IdleInv, UntilInv
  <2> QED
    BY <1>9, <2>2, <2>3, <2>1, BodyReadStep DEF Control, Hushed, Passed, Failed
<1>10. CASE Report
  BY <1>10, ReportStep DEF IdleInv
<1>11. CASE Reach \/ HeadersArrive
  BY <1>11, <1>6, ReachStep, HeadersArriveStep DEF Idle
<1> QED
  BY <1>1, <1>2, <1>3, <1>4, <1>5, <1>6, <1>7, <1>8, <1>9, <1>10, <1>11
     DEF Next, Works

\* The run as a whole stays in its budgets.
LEMMA RunHolds ==
  ASSUME TypeOK, TypeOK', Control, UntilInv, IdleInv, RunInv, Next
  PROVE  RunInv'
<1>a. SameJourney
  BY RunStands
<1>n. Milestones
  BY InOrder
<1>c. /\ now \in Nat /\ start \in Nat /\ end \in Nat /\ now' \in Nat /\ end' \in Nat
      /\ EgressWait \in Nat /\ Deadline \in Nat /\ Overrun \in Nat
      /\ MinLeft \in Nat /\ Stall \in Nat
      /\ SignOut \in Nat /\ LastWait \in Nat /\ LastWait >= SignOut + Overrun
      /\ LastWait >= MinLeft + 2 * Stall
  BY SignOutType, LastWaitType, BudgetsAssumption, TotpAssumption DEF TypeOK
<1> USE DEF SameJourney, Milestones
<1>w. ~Idle => wire.until \in Int
  <2>1. wire \in Wires
    BY DEF TypeOK
  <2> QED
    BY <2>1 DEF Wires, NoWire, Idle
<1> USE <1>a, <1>n, <1>c, <1>w
<1>1. CASE CheckSwitches \/ ReadSettings \/ Bug \/ Send \/ QuietSignOut
             \/ HeadersArrive \/ Report
  <2>1. /\ now' = now /\ end' = end /\ (Live' => Live)
        /\ n' = n \/ (n \in {1, 3} /\ n' = n + 1)
    BY <1>1, CheckSwitchesStep, ReadSettingsStep, BugStep, SendStep,
       QuietSignOutStep, HeadersArriveStep, ReportStep
       DEF Live, Went, Failed
  <2> QED
    BY <2>1 DEF RunInv, FitsItsBudgets
<1>2. CASE Egress
  <2>1. phase = "running" /\ Idle /\ n = 2 /\ now = start
    BY <1>2, EgressStep DEF RunInv, Live
  <2>2. CASE Went /\ end' = now' + Deadline
               /\ \E d \in 0..EgressWait : now' = now + d
    <3>1. now' <= start + EgressWait
      BY <2>1, <2>2
    <3> QED
      BY <2>1, <2>2, <3>1 DEF RunInv, FitsItsBudgets, Went
  <2>3. CASE Failed("egress", held) /\ end' = end
               /\ \E d \in 0..(EgressWait + Overrun) : now' = now + d
    <3>1. now' <= start + EgressWait + Overrun
      BY <2>1, <2>3
    <3> QED
      BY <2>1, <2>3, <3>1 DEF RunInv, FitsItsBudgets, Failed, Live
  <2> QED
    BY <1>2, <2>2, <2>3, EgressStep
<1>3. CASE Mint
  <2>1. /\ phase = "running" /\ Idle /\ n = LoginAt + 1 /\ n' = n + 1 /\ end' = end
        /\ now' <= now + MinLeft + 2 * Stall
    BY <1>3, MintStep, MintedInTime DEF Went
  <2>2. now <= end /\ end <= start + EgressWait + Deadline
    BY <2>1 DEF IdleInv, RunInv
  <2> QED
    BY <2>1, <2>2 DEF RunInv, FitsItsBudgets
<1>4. CASE NotReached \/ Lost \/ Reach \/ BodyRead
  <2>1. /\ ~Idle /\ end' = end /\ n' \in {n, n + 1} /\ (Live' => Live)
        /\ now' <= wire.until + Overrun
    <3>1. CASE NotReached \/ Lost
      BY <3>1, DroppedStep DEF Dropped, Control, Failed, Hushed, Live
    <3>2. CASE Reach
      <4>1. ~Idle /\ end' = end /\ n' = n /\ phase' = phase
        BY <3>2, ReachStep DEF Idle
      <4>2. PICK t \in now..(wire.until - 1) : now' = t
        BY <3>2, ReachStep
      <4>3. now' <= wire.until + Overrun
        BY <4>1, <4>2
      <4> QED
        BY <4>1, <4>3 DEF Live
    <3>3. CASE BodyRead
      <4>1. ~Idle /\ end' = end /\ now' <= wire.until
        BY <3>3, BodyReadStep DEF Idle, Control
      <4>2. n' \in {n, n + 1} /\ (Live' => Live)
        BY <3>3, BodyReadStep DEF Control, Went, Failed, Passed, Hushed, Live
      <4> QED
        BY <4>1, <4>2
    <3> QED
      BY <1>4, <3>1, <3>2, <3>3
  <2>2. n > 2
    BY <2>1, WhereItIs DEF Control, Here
  <2>3. now' <= end + Overrun + SignOut + Overrun
    BY <2>1 DEF Control, UntilInv
  <2> QED
    BY <2>1, <2>2, <2>3 DEF RunInv, FitsItsBudgets
<1> QED
  BY <1>1, <1>2, <1>3, <1>4 DEF Next, Works

-----------------------------------------------------------------------------
(* What a run promises *)

\* A run starts in the invariant.
LEMMA InitInv == Init => Inv
<1> SUFFICES ASSUME Init PROVE Inv
  OBVIOUS
<1>1. TypeOK
  <2>1. Len(Path) >= 10 /\ Len(Path) \in Nat
    BY JourneysAreAlike DEF PathShape, Init
  <2>2. start \in Nat /\ now = start
    BY TotpAssumption DEF Init
  <2>3. n \in 1..Len(Path) /\ wire \in Wires /\ tries \in [Once -> Nat]
    BY <2>1 DEF Init, Wires
  <2>c. charged \in BOOLEAN
    BY DEF Init
  <2>4. result \in [code : Codes, step : StepNames]
    BY DEF Init, Codes, StepNames
  <2> QED
    BY <2>2, <2>3, <2>c, <2>4 DEF Init, TypeOK, Sessions
<1>2. /\ n = 1 /\ LoginAt > 4 /\ LogoutAt > 9 /\ LoginAt \in Nat /\ LogoutAt \in Nat
      /\ VerifyAt = LoginAt + 2
  BY <1>1, WhereItIs DEF Here, Init
<1>3. /\ now \in Nat /\ start = now
      /\ start <= start + EgressWait + Deadline + Overrun + LastWait
  BY <1>1, LastWaitType, BudgetsAssumption DEF Init, TypeOK
<1> USE <1>2, <1>3 DEF Init, Idle, NoWire, Live, Sent, Once
<1>4. Control
  BY DEF Control
<1>5. DialledLogin /\ DialledVerify /\ DialledLogout
  BY DEF DialledLogin, DialledVerify, DialledLogout
<1>6. HeldInv /\ EndsInv /\ Blames
  BY DEF HeldInv, EndsInv, Blames
<1>7. CodeInv /\ UntilInv /\ IdleInv /\ RunInv
  BY DEF CodeInv, UntilInv, IdleInv, RunInv, FitsItsBudgets
<1>8. SessionSignedOut /\ PassLeavesNoSession
  BY DEF SessionSignedOut, PassLeavesNoSession, Ended, Exited
<1>9. ExitInv
  BY DEF ExitInv, Exited
<1> QED
  BY <1>1, <1>4, <1>5, <1>6, <1>7, <1>8, <1>9 DEF Inv

\* And every step keeps it.
LEMMA NextInv == Inv /\ [Next]_vars => Inv'
<1> SUFFICES ASSUME Inv, [Next]_vars PROVE Inv'
  OBVIOUS
<1>1. CASE Next
  <2>1. TypeOK'
    BY <1>1, TypeHolds DEF Inv
  <2> QED
    BY <1>1, <2>1, ControlHolds, DialledLoginHolds, DialledVerifyHolds,
       DialledLogoutHolds, HeldInvHolds,
       EndsInvHolds, BlamesHolds, ExitHolds, CodeInvHolds, UntilHolds, IdleHolds, RunHolds,
         SessionSignedOutHolds, PassLeavesNoSessionHolds DEF Inv
<1>2. CASE UNCHANGED vars
  BY <1>2 DEF vars, Inv, TypeOK, Path, Control, Holds, Idle, DialledLogin,
     DialledVerify, DialledLogout, Live, Sent, LoginAt, VerifyAt, LogoutAt,
     HeldInv, EndsInv, SignsOut, Blames, ExitInv, CodeInv, GoodUntil, UntilInv, IdleInv,
       RunInv, FitsItsBudgets, SessionSignedOut, Ended, Exited, BrokeSigningOut,
         PassLeavesNoSession
<1> QED
  BY <1>1, <1>2

\* The invariant holds of every run, whatever its budgets.
THEOREM Invariant == Spec => []Inv
BY InitInv, NextInv, PTL DEF Spec

\* Every variable keeps its type, and every result line is made of the codes and
\* steps that result.py lists.
THEOREM TypeCorrect == Spec => []TypeOK
<1>1. Inv => TypeOK
  BY DEF Inv
<1> QED
  BY <1>1, Invariant, PTL

\* A run that took a whole sign-in has dialled the sign-out by the time it is
\* over, whatever was lost and however late it was.
THEOREM SignsOutWhatItTook == Spec => []SessionSignedOut
<1>1. Inv => SessionSignedOut
  BY DEF Inv
<1> QED
  BY <1>1, Invariant, PTL

\* The password, the code and the sign-out are dialled once at most.
THEOREM NothingSentTwice == Spec => []NeverSentTwice
<1>1. Inv => NeverSentTwice
  BY DEF Inv, DialledLogin, DialledVerify, DialledLogout, NeverSentTwice, Once
<1> QED
  BY <1>1, Invariant, PTL

\* No code reaches auth too late, however long the pause, the stall or the
\* connection before it took.
THEOREM CodeNeverLate == Spec => []NeverCharged
<1>1. Inv => NeverCharged
  BY DEF Inv, CodeInv, NeverCharged
<1> QED
  BY <1>1, Invariant, PTL

\* A pass went through all of its journey and ended its session.
THEOREM PassIsWhole == Spec => []PassLeavesNoSession
<1>1. Inv => PassLeavesNoSession
  BY DEF Inv
<1> QED
  BY <1>1, Invariant, PTL

\* A failure pages through the line or through the exit status, never through
\* both and never through none, and each channel tells of its own failures.
THEOREM FailureBlamedOnce == Spec => []PagesOnce
<1>1. ASSUME Inv PROVE PagesOnce
  <2> USE DEF Exited, LinePages, ExitPages, Inv
  <2>1. /\ Exited => ~Live
        /\ ~Exited => exit # 1
        /\ phase = "reported" => exit = IF OutcomeOf(result.code) = "error" THEN 1 ELSE 0
        /\ phase = "unwritten" => exit = 1
    BY <1>1 DEF ExitInv, ExitOf, Live
  <2>2. /\ Exited /\ OutcomeOf(result.code) = "error" /\ result.code # "runner"
             => result.step \in OwnSteps
        /\ Exited /\ OutcomeOf(result.code) = "fail" => result.step \notin OwnSteps
    BY <1>1, <2>1 DEF Blames
  <2> QED
    BY <2>1, <2>2 DEF PagesOnce
<1> QED
  BY <1>1, Invariant, PTL

\* No run lasts longer than its budgets and one overrun.
THEOREM RunFitsItsBudgets == Spec => []FitsItsBudgets
<1>1. Inv => FitsItsBudgets
  BY DEF Inv, RunInv
<1> QED
  BY <1>1, Invariant, PTL

\* Nothing but a sign-out is handled by the site after the deadline.
THEOREM ReachedInTime == Spec => NothingPastDeadline
<1> DEFINE A == wire.at = "dialled" /\ wire'.at = "handled" /\ Sending # "logout"
      => now' < end
<1>1. Inv /\ [Next]_vars => [A]_vars
  <2> SUFFICES ASSUME Inv, Next, wire.at = "dialled", wire'.at = "handled",
        Sending # "logout" PROVE now' < end
    OBVIOUS
  <2>1. Reach
    BY CheckSwitchesStep, ReadSettingsStep, EgressStep, MintStep, BugStep,
       SendStep, QuietSignOutStep, DroppedStep,
       HeadersArriveStep, BodyReadStep, ReportStep
         DEF Next, Works, Dropped, Inv, Control, NoWire, Idle
  <2>2. phase = "running" /\ n # LogoutAt /\ ~Idle
    BY WhereItIs DEF Sending, Here, Inv, Control, Idle
  <2>3. wire.until <= end /\ wire.until \in Int
    BY <2>2 DEF Inv, UntilInv, TypeOK, Wires, NoWire, Idle
  <2> QED
    BY <2>1, <2>3, ReachStep DEF Inv, TypeOK
<1> QED
  BY <1>1, Invariant, PTL DEF Spec, NothingPastDeadline
=============================================================================
