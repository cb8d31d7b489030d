---------------------------- MODULE ProgramsProofs ----------------------------
(***************************************************************************)
(* What the programs promise, proved for every choice of their constants.  *)
(*                                                                         *)
(* One of them runs in a behaviour: each section has the inductive         *)
(* invariant of one, that its first states have it and that its steps keep *)
(* it. The theorems are at the end.                                        *)
(***************************************************************************)
EXTENDS PagerDutyCallProofs, WellFoundedInduction

-----------------------------------------------------------------------------
(* dial *)

\* Where time stands at each point of the script: an attempt begins inside the
\* budget, only the name's resolution and a pause take it further, and an
\* address is tried inside the attempt.
TimeInv ==
  /\ end <= Budget
  /\ pc = "loop" => now <= Budget + Overrun
  /\ pc = "resolve" => now < Budget
  /\ pc \in {"addresses", "caught"} => now <= Budget + MaxResolve
  /\ pc = "connecting" => now < end /\ addresses > 0
  /\ pc = "opened" => now <= Budget
  /\ pc = "connected" => timeout > 0 /\ now + timeout = Budget
  /\ pc = "failed" => now <= Budget + MaxResolve + Overrun

\* What an attempt in progress knows of its error.
ErrorInv ==
  /\ pc = "resolve" => error = "connect"
  /\ pc \in {"addresses", "caught", "failed"} /\ error = "timeout" => now >= end
  /\ pc \in {"resolve", "addresses", "connecting", "caught", "opened", "connected"} => attempts > 0

\* The inductive invariant.
IInv == TypeOK /\ TimeInv /\ NoSocketLeft /\ ErrorInv

\* The invariant holds as dial begins.
LEMMA InitHolds == Init => IInv
BY TimesAreNatural DEF Init, IInv, TypeOK, TimeInv, NoSocketLeft, ErrorInv

\* Every step of dial and of its attempts keeps it.
LEMMA StepHolds == IInv /\ [Next]_vars => IInv'
<1> SUFFICES ASSUME IInv, [Next]_vars PROVE IInv'
  OBVIOUS
<1> USE TimesAreNatural DEF IInv, TypeOK, TimeInv, NoSocketLeft, ErrorInv
<1>1. CASE Attempt
  BY <1>1 DEF Attempt, AttemptEnd
<1>2. CASE Spent
  BY <1>2 DEF Spent
<1>3. CASE Raise
  BY <1>3 DEF Raise
<1>4. CASE Pause
  BY <1>4 DEF Pause, Last
<1>5. CASE Return
  BY <1>5 DEF Return
<1>6. CASE TooLate
  BY <1>6 DEF TooLate
<1>7. CASE Resolve
  BY <1>7 DEF Resolve
<1>8. CASE Opens
  BY <1>8 DEF Opens
<1>9. CASE Refuses
  BY <1>9 DEF Refuses, Closed
<1>10. CASE Drops
  BY <1>10 DEF Drops, Closed
<1>11. CASE AttemptSpent
  BY <1>11 DEF AttemptSpent
<1>12. CASE NoneLeft
  BY <1>12 DEF NoneLeft
<1>13. CASE Connects
  BY <1>13 DEF Connects
<1>14. CASE UNCHANGED vars
  BY <1>14 DEF vars
<1> QED
  BY <1>1, <1>2, <1>3, <1>4, <1>5, <1>6, <1>7, <1>8, <1>9, <1>10, <1>11, <1>12, <1>13, <1>14 DEF Next

\* The inductive invariant holds in every state.
THEOREM DialInvariant == Spec => []IInv
BY InitHolds, StepHolds, PTL DEF Spec

\* Every variable keeps its type: one socket at most, a timeout inside the step.
THEOREM DialTyped == Spec => []TypeOK
<1>1. IInv => TypeOK
  BY DEF IInv
<1> QED
  BY <1>1, DialInvariant, PTL

\* No attempt leaves a socket open behind it, and none is open after a failure.
THEOREM DialClosesSockets == Spec => []NoSocketLeft
<1>1. IInv => NoSocketLeft
  BY DEF IInv
<1> QED
  BY <1>1, DialInvariant, PTL

\* dial is back within its step, but for the time one name took to resolve and
\* one pause ran over, and its socket has exactly the time that is left.
THEOREM DialFits == Spec => []FitsTheStep
<1>1. IInv => FitsTheStep
  BY TimesAreNatural DEF IInv, TypeOK, TimeInv, FitsTheStep
<1> QED
  BY <1>1, DialInvariant, PTL

\* A timeout is told only where a time was spent.
THEOREM DialTellsErrors == Spec => []ErrorStands
<1>1. IInv => ErrorStands
  BY DEF IInv, ErrorInv, ErrorStands
<1> QED
  BY <1>1, DialInvariant, PTL

\* dial begins as a Connecting does.
LEMMA PromiseInit == Init => Promise!Init
BY DEF Init, Promise!Init

\* Every step of dial is a step of Connecting, or one it does not see.
LEMMA PromiseStep == IInv /\ IInv' /\ [Next]_vars => [Promise!Next]_Promise!vars
<1> SUFFICES ASSUME IInv, IInv', [Next]_vars PROVE [Promise!Next]_Promise!vars
  OBVIOUS
<1> USE TimesAreNatural DEF IInv, TypeOK, TimeInv, ErrorInv, Promise!Next, Promise!vars
<1>1. CASE Attempt
  BY <1>1 DEF Attempt, Promise!Try
<1>2. CASE Spent
  BY <1>2 DEF Spent, Promise!GiveUp
<1>3. CASE Raise
  BY <1>3 DEF Raise, Last, Promise!GiveUp
<1>4. CASE Pause
  BY <1>4 DEF Pause, Promise!Pass
<1>5. CASE Return
  BY <1>5 DEF Return, Promise!Connect
<1>6. CASE TooLate
  BY <1>6 DEF TooLate, Promise!GiveUp
<1>7. CASE Resolve
  BY <1>7 DEF Resolve, Promise!Pass
<1>8. CASE Opens
  BY <1>8 DEF Opens
<1>9. CASE Refuses
  BY <1>9 DEF Refuses, Promise!Pass
<1>10. CASE Drops
  BY <1>10 DEF Drops, Promise!Pass
<1>11. CASE AttemptSpent
  BY <1>11 DEF AttemptSpent
<1>12. CASE NoneLeft
  BY <1>12 DEF NoneLeft
<1>13. CASE Connects
  BY <1>13 DEF Connects, Promise!Pass
<1>14. CASE UNCHANGED vars
  BY <1>14 DEF vars
<1> QED
  BY <1>1, <1>2, <1>3, <1>4, <1>5, <1>6, <1>7, <1>8, <1>9, <1>10, <1>11, <1>12, <1>13, <1>14 DEF Next

\* dial implements Connecting: no attempt begins once the step's time is spent,
\* and none is given up while there is time for another.
THEOREM DialConnects == Spec => IsConnecting
<1>1. Init => Promise!Init
  BY PromiseInit
<1>2. Spec => [][Promise!Next]_Promise!vars
  BY PromiseStep, DialInvariant, PTL DEF Spec
<1> QED
  BY <1>1, <1>2, PTL DEF Spec, IsConnecting, Promise!Spec

-----------------------------------------------------------------------------
(* The egress step *)

\* What is remembered of a target's attempts agrees with its count: no more than
\* EGRESS_READY, the last in_a_row of them connected.
Outcomes == {"connected", "lost"}
RowsInv ==
  /\ tried \in [1..Targets -> Seq(Outcomes)]
  /\ \A t \in 1..Targets :
       /\ Len(tried[t]) <= EGRESS_READY /\ in_a_row[t] <= Len(tried[t])
       /\ \A k \in 1..Len(tried[t]) :
            k > Len(tried[t]) - in_a_row[t] => tried[t][k] = "connected"

\* A target is being reached only while it is not ready, every one before it in
\* the round has been, and none was ever reached without a try.
RoundInv ==
  /\ egress_pc \in {"resolve", "address"} =>
       target <= Targets /\ in_a_row[target] < EGRESS_READY
  /\ egress_pc \in {"target", "resolve", "address"} =>
       \A t \in 1..Targets :
         t < target /\ in_a_row[t] < EGRESS_READY => t \in seen_targets
  /\ egress_pc = "passed" => Egr!AllReady
  /\ \A t \in 1..Targets : in_a_row[t] > 0 => knocks > 0

\* Time goes past the budget by one lookup or one pause, and no target is ever
\* ready late.
EgressTimeInv ==
  /\ egress_pc = "resolve" => egress_now < EgressBudget
  /\ Egr!WithinBudget
  /\ Egr!AllReady => egress_now <= EgressBudget

EgressInv == Egr!TypeOK /\ RowsInv /\ RoundInv /\ EgressTimeInv

\* The constants of the egress step are numbers.
LEMMA EgressNumbers ==
  /\ EgressResolve \in Nat /\ Overrun \in Nat /\ MaxAddresses \in Nat
  /\ Targets \in Nat /\ Targets > 0
  /\ EgressBudget \in Nat /\ EgressBudget > 0
  /\ EGRESS_ATTEMPT_S \in Nat /\ EGRESS_ATTEMPT_S > 0
  /\ EGRESS_PAUSE_S \in Nat /\ EGRESS_PAUSE_S > 0
  /\ EGRESS_READY \in Nat /\ EGRESS_READY > 0
BY EgressTimes, TimesAreNatural

\* It begins so.
LEMMA EgressInit == Egr!Init => EgressInv
<1> SUFFICES ASSUME Egr!Init PROVE EgressInv
  OBVIOUS
<1> USE EgressNumbers
<1>1. Egr!TypeOK
  BY DEF Egr!Init, Egr!TypeOK, Egr!Unknown
<1>2. RowsInv
  <2>1. tried = [t \in 1..Targets |-> <<>>] /\ in_a_row = [t \in 1..Targets |-> 0]
    BY DEF Egr!Init
  <2> QED
    BY <2>1 DEF RowsInv
<1>3. RoundInv
  BY DEF Egr!Init, RoundInv
<1>4. EgressTimeInv
  BY DEF Egr!Init, EgressTimeInv, Egr!WithinBudget, Egr!AllReady
<1> QED
  BY <1>1, <1>2, <1>3, <1>4 DEF EgressInv

\* One more at the end, the first dropped once there are enough.
LEMMA Shifted ==
  ASSUME NEW S, NEW s \in Seq(S), NEW r \in S, NEW full \in BOOLEAN, full => s # <<>>
  PROVE  LET q == IF full THEN Append(Tail(s), r) ELSE Append(s, r)
             z == IF full THEN 1 ELSE 0
         IN  /\ q \in Seq(S) /\ Len(q) = Len(s) - z + 1 /\ q[Len(q)] = r
             /\ \A k \in 1..(Len(q) - 1) : q[k] = s[k + z]
<1>1. CASE ~full
  BY <1>1
<1>2. CASE full
  <2> DEFINE w == Tail(s)
  <2>1. w \in Seq(S) /\ Len(w) = Len(s) - 1 /\ \A k \in 1..(Len(s) - 1) : w[k] = s[k + 1]
    BY <1>2, HeadTailProperties
  <2>2. Len(s) \in Nat
    OBVIOUS
  <2> HIDE DEF w
  <2>3. Append(w, r) \in Seq(S) /\ Len(Append(w, r)) = Len(w) + 1
          /\ Append(w, r)[Len(w) + 1] = r /\ \A k \in 1..Len(w) : Append(w, r)[k] = w[k]
    BY <2>1
  <2>4. /\ Append(w, r) \in Seq(S) /\ Len(Append(w, r)) = Len(s) /\ Append(w, r)[Len(s)] = r
        /\ \A k \in 1..(Len(s) - 1) : Append(w, r)[k] = s[k + 1]
    BY <2>1, <2>2, <2>3
  <2> QED
    BY <1>2, <2>2, <2>4 DEF w
<1> QED
  BY <1>1, <1>2

\* The count of the attempts in a row agrees with what is remembered.
LEMMA RowCount ==
  ASSUME NEW S, NEW s \in Seq(S), Len(s) <= EGRESS_READY, NEW r, NEW yes,
         NEW c \in Nat, c <= Len(s), c < EGRESS_READY,
         \A k \in 1..Len(s) : k > Len(s) - c => s[k] = yes,
         NEW z \in {0, 1}, z = 0 => Len(s) < EGRESS_READY, z = 1 => Len(s) = EGRESS_READY,
         NEW q \in Seq(S), Len(q) = Len(s) - z + 1, q[Len(q)] = r,
         \A k \in 1..(Len(q) - 1) : q[k] = s[k + z],
         NEW d \in Nat, r = yes => d = c + 1, r # yes => d = 0
  PROVE  /\ Len(q) <= EGRESS_READY /\ d \in 0..EGRESS_READY /\ d <= Len(q)
         /\ \A k \in 1..Len(q) : k > Len(q) - d => q[k] = yes
<1>1. Len(s) \in Nat /\ Len(q) \in Nat
  OBVIOUS
<1>2. ASSUME NEW k \in 1..Len(q), k > Len(q) - d PROVE q[k] = yes
  <2>1. r = yes /\ d = c + 1
    BY <1>1, <1>2
  <2>2. CASE k = Len(q)
    BY <2>1, <2>2
  <2>3. CASE k # Len(q)
    <3>1. k \in 1..(Len(q) - 1) /\ k + z \in 1..Len(s) /\ k + z > Len(s) - c
      BY <1>1, <1>2, <2>1, <2>3
    <3> QED
      BY <3>1
  <2> QED
    BY <2>2, <2>3
<1> QED
  BY EgressNumbers, <1>1, <1>2
\* An attempt at a target that is due, over: what it changes of the invariant.
LEMMA AnswerKeeps ==
  ASSUME EgressInv, NEW r \in Outcomes, Egr!Answer(r),
         egress_pc \in {"target", "resolve", "address"},
         target <= Targets, in_a_row[target] < EGRESS_READY
  PROVE  /\ RowsInv' /\ egress_pc' = "target" /\ target' = target + 1
         /\ target' \in 1..(Targets + 1)
         /\ in_a_row' \in [1..Targets -> 0..EGRESS_READY]
         /\ \A t \in 1..Targets : t # target => in_a_row'[t] = in_a_row[t]
         /\ in_a_row'[target] = IF r = "connected" THEN in_a_row[target] + 1 ELSE 0
         /\ seen_targets' = seen_targets \cup {target}
<1> USE EgressNumbers
<1>1. target \in 1..Targets /\ in_a_row \in [1..Targets -> 0..EGRESS_READY]
      /\ tried \in [1..Targets -> Seq(Outcomes)]
  BY DEF EgressInv, Egr!TypeOK, RowsInv
<1> DEFINE q == IF Len(tried[target]) < EGRESS_READY THEN Append(tried[target], r)
                ELSE Append(Tail(tried[target]), r)
           d == IF r = "connected" THEN in_a_row[target] + 1 ELSE 0
<1>2. tried' = [tried EXCEPT ![target] = q] /\ in_a_row' = [in_a_row EXCEPT ![target] = d]
      /\ egress_pc' = "target" /\ target' = target + 1
      /\ seen_targets' = seen_targets \cup {target}
  BY DEF Egr!Answer, Egr!Seen
<1>3. /\ q \in Seq(Outcomes) /\ Len(q) <= EGRESS_READY
      /\ d \in 0..EGRESS_READY /\ d <= Len(q)
      /\ \A k \in 1..Len(q) : k > Len(q) - d => q[k] = "connected"
  <2> DEFINE s == tried[target]
             c == in_a_row[target]
             full == ~(Len(s) < EGRESS_READY)
             z == IF full THEN 1 ELSE 0
  <2>1. /\ s \in Seq(Outcomes) /\ Len(s) <= EGRESS_READY /\ c \in Nat /\ c <= Len(s)
        /\ c < EGRESS_READY
        /\ \A k \in 1..Len(s) : k > Len(s) - c => s[k] = "connected"
    BY <1>1 DEF EgressInv, RowsInv
  <2>2. /\ full \in BOOLEAN /\ (full => s # <<>>)
        /\ q = IF full THEN Append(Tail(s), r) ELSE Append(s, r)
        /\ z \in {0, 1} /\ (z = 0 => Len(s) < EGRESS_READY) /\ (z = 1 => Len(s) = EGRESS_READY)
        /\ d \in Nat /\ (r = "connected" => d = c + 1) /\ (r # "connected" => d = 0)
    BY <2>1
  <2> HIDE DEF s, c, q, d
  <2>3. /\ q \in Seq(Outcomes) /\ Len(q) = Len(s) - z + 1 /\ q[Len(q)] = r
        /\ \A k \in 1..(Len(q) - 1) : q[k] = s[k + z]
    BY <2>1, <2>2, Shifted
  <2> HIDE DEF full, z
  <2> QED
    BY <2>1, <2>2, <2>3, RowCount
<1> HIDE DEF q, d
<1>4. in_a_row' \in [1..Targets -> 0..EGRESS_READY] /\ tried' \in [1..Targets -> Seq(Outcomes)]
  BY <1>1, <1>2, <1>3
<1>5. RowsInv'
  <2> SUFFICES ASSUME NEW t \in 1..Targets
      PROVE /\ Len(tried'[t]) <= EGRESS_READY /\ in_a_row'[t] <= Len(tried'[t])
            /\ \A k \in 1..Len(tried'[t]) :
                 k > Len(tried'[t]) - in_a_row'[t] => tried'[t][k] = "connected"
    BY <1>4 DEF RowsInv
  <2>1. CASE t = target
    BY <2>1, <1>1, <1>2, <1>3
  <2>2. CASE t # target
    <3>1. tried'[t] = tried[t] /\ in_a_row'[t] = in_a_row[t]
      BY <2>2, <1>1, <1>2
    <3> QED
      BY <3>1 DEF EgressInv, RowsInv
  <2> QED
    BY <2>1, <2>2
<1>6. in_a_row'[target] = d /\ \A t \in 1..Targets : t # target => in_a_row'[t] = in_a_row[t]
  BY <1>1, <1>2
<1> QED
  BY <1>1, <1>2, <1>4, <1>5, <1>6 DEF d

\* What is left to show of a step that ends an attempt: the clock.
LEMMA AfterAnswer ==
  ASSUME EgressInv, NEW r \in Outcomes, Egr!Answer(r),
         egress_pc \in {"target", "resolve", "address"},
         target <= Targets, in_a_row[target] < EGRESS_READY,
         egress_now' \in Nat, Egr!WithinBudget', r = "connected" => egress_now' <= EgressBudget,
         knocks' \in Nat, knocks' >= knocks, r = "connected" => knocks' > 0,
         target_addresses' = target_addresses, left' = left
  PROVE  EgressInv'
<1> USE EgressNumbers
<1>1. /\ RowsInv' /\ egress_pc' = "target" /\ target' = target + 1
      /\ target' \in 1..(Targets + 1)
      /\ in_a_row' \in [1..Targets -> 0..EGRESS_READY]
      /\ \A t \in 1..Targets : t # target => in_a_row'[t] = in_a_row[t]
      /\ in_a_row'[target] = IF r = "connected" THEN in_a_row[target] + 1 ELSE 0
      /\ seen_targets' = seen_targets \cup {target}
  BY AnswerKeeps
<1>2. Egr!TypeOK'
  BY <1>1 DEF Egr!TypeOK, EgressInv
<1>3. RoundInv'
  BY <1>1 DEF RoundInv, EgressInv, Egr!TypeOK
<1>4. EgressTimeInv'
  <2>1. target \in 1..Targets
    BY DEF EgressInv, Egr!TypeOK
  <2>2. Egr!AllReady' => r = "connected"
    BY <1>1, <2>1 DEF Egr!AllReady
  <2> QED
    BY <1>1, <2>2 DEF EgressTimeInv
<1> QED
  BY <1>1, <1>2, <1>3, <1>4 DEF EgressInv

\* Every step of the egress step keeps its invariant.
LEMMA EgressStep == EgressInv /\ [Egr!Next]_egress_vars => EgressInv'
<1> SUFFICES ASSUME EgressInv, [Egr!Next]_egress_vars PROVE EgressInv'
  OBVIOUS
<1> USE EgressNumbers
<1>0. /\ egress_now \in Nat /\ knocks \in Nat /\ target \in 1..(Targets + 1)
      /\ target_addresses \in [1..Targets -> {Egr!Unknown} \cup 0..MaxAddresses]
      /\ in_a_row \in [1..Targets -> 0..EGRESS_READY]
      /\ Egr!WithinBudget
  BY DEF EgressInv, Egr!TypeOK, EgressTimeInv
<1>1. CASE Egr!NoTime
  <2>1. /\ egress_now' = egress_now /\ target_addresses' = target_addresses
        /\ left' = left /\ knocks' = knocks /\ Egr!Answer("lost")
        /\ egress_pc = "target" /\ target <= Targets /\ in_a_row[target] < EGRESS_READY
    BY <1>1 DEF Egr!NoTime, Egr!Due
  <2>2. egress_now' \in Nat /\ Egr!WithinBudget' /\ knocks' \in Nat /\ knocks' >= knocks
    BY <1>0, <2>1 DEF Egr!WithinBudget
  <2> QED
    BY <2>1, <2>2, AfterAnswer DEF Outcomes
<1>2. CASE Egr!Reach
  <2>1. left' \in 0..MaxAddresses
    BY <1>2, <1>0 DEF Egr!Reach, Egr!Due, Egr!Unknown, EgressInv, Egr!TypeOK
  <2> QED
    BY <1>2, <2>1 DEF Egr!Reach, Egr!Due, EgressInv, Egr!TypeOK, RowsInv, RoundInv,
      EgressTimeInv, Egr!WithinBudget, Egr!AllReady
<1>3. CASE Egr!Resolve
  <2>1. egress_pc = "resolve" /\ target <= Targets /\ in_a_row[target] < EGRESS_READY
        /\ target \in 1..Targets /\ ~Egr!AllReady
    BY <1>3, <1>0 DEF Egr!Resolve, EgressInv, RoundInv, Egr!AllReady
  <2>2. egress_now' \in Nat /\ knocks' = knocks /\ Egr!WithinBudget'
    BY <1>3, <1>0, <2>1 DEF Egr!Resolve, EgressInv, EgressTimeInv, Egr!WithinBudget
  <2>3. CASE Egr!Answer("lost") /\ UNCHANGED <<target_addresses, left>>
    <3>1. knocks' \in Nat /\ knocks' >= knocks
      BY <2>2, <1>0
    <3> QED
      BY <2>1, <2>2, <2>3, <3>1, AfterAnswer DEF Outcomes
  <2>4. CASE /\ left' \in 0..MaxAddresses
             /\ target_addresses' = [target_addresses EXCEPT ![target] = left']
             /\ egress_pc' = "address" /\ UNCHANGED <<target, in_a_row, tried, seen_targets>>
    <3>1. Egr!TypeOK'
      BY <2>1, <2>2, <2>4, <1>0 DEF EgressInv, Egr!TypeOK, Egr!Unknown
    <3>2. RowsInv' /\ RoundInv'
      BY <2>1, <2>2, <2>4 DEF EgressInv, RowsInv, RoundInv
    <3>3. EgressTimeInv'
      BY <2>1, <2>2, <2>4 DEF EgressTimeInv, Egr!AllReady
    <3> QED
      BY <3>1, <3>2, <3>3 DEF EgressInv
  <2> QED
    BY <1>3, <2>3, <2>4 DEF Egr!Resolve
<1>4. ASSUME Egr!Knocks
      PROVE  /\ egress_pc = "address" /\ target <= Targets /\ in_a_row[target] < EGRESS_READY
             /\ target \in 1..Targets /\ ~Egr!AllReady /\ left > 0
             /\ egress_now' \in Nat /\ egress_now' <= EgressBudget
             /\ knocks' = knocks + 1 /\ Egr!WithinBudget'
  <2>1. egress_pc = "address" /\ target <= Targets /\ in_a_row[target] < EGRESS_READY
        /\ target \in 1..Targets /\ ~Egr!AllReady
    BY <1>4, <1>0 DEF Egr!Knocks, EgressInv, RoundInv, Egr!AllReady
  <2>2. egress_now' \in Nat /\ egress_now' <= EgressBudget
    BY <1>4, <1>0 DEF Egr!Knocks, Egr!AttemptEnd
  <2>3. knocks' = knocks + 1 /\ left > 0
    BY <1>4 DEF Egr!Knocks
  <2> QED
    BY <2>1, <2>2, <2>3 DEF Egr!WithinBudget
<1>5. CASE Egr!Connects
  <2>1. Egr!Answer("connected") /\ target_addresses' = target_addresses /\ left' = left /\ Egr!Knocks
    BY <1>5 DEF Egr!Connects
  <2>2. knocks' \in Nat /\ knocks' >= knocks /\ knocks' > 0
    BY <1>0, <1>4, <2>1
  <2> QED
    BY <1>4, <2>1, <2>2, AfterAnswer DEF Outcomes
<1>6. CASE Egr!Refused
  <2>1. /\ left' = left - 1
        /\ UNCHANGED <<egress_pc, target, target_addresses, in_a_row, tried, seen_targets>>
    BY <1>6 DEF Egr!Refused
  <2>2. Egr!TypeOK'
    BY <1>6, <1>4, <2>1, <1>0 DEF Egr!Refused, EgressInv, Egr!TypeOK
  <2>3. RowsInv' /\ RoundInv'
    BY <1>6, <1>4, <2>1, <1>0 DEF Egr!Refused, EgressInv, RowsInv, RoundInv, Egr!AllReady
  <2>4. EgressTimeInv'
    BY <1>6, <1>4, <2>1 DEF Egr!Refused, EgressTimeInv, Egr!AllReady
  <2> QED
    BY <2>2, <2>3, <2>4 DEF EgressInv
<1>7. CASE Egr!Lost
  <2>1. /\ egress_now' = egress_now /\ target_addresses' = target_addresses
        /\ left' = left /\ knocks' = knocks /\ Egr!Answer("lost") /\ egress_pc = "address"
    BY <1>7 DEF Egr!Lost
  <2>2. target <= Targets /\ in_a_row[target] < EGRESS_READY
    BY <2>1 DEF EgressInv, RoundInv
  <2>3. egress_now' \in Nat /\ Egr!WithinBudget' /\ knocks' \in Nat /\ knocks' >= knocks
    BY <1>0, <2>1 DEF Egr!WithinBudget
  <2> QED
    BY <2>1, <2>2, <2>3, AfterAnswer DEF Outcomes
<1>8. CASE Egr!Ready
  BY <1>8, <1>0 DEF Egr!Ready, EgressInv, Egr!TypeOK, RowsInv, RoundInv,
    EgressTimeInv, Egr!WithinBudget, Egr!AllReady
<1>9. CASE Egr!Pass
  BY <1>9, <1>0 DEF Egr!Pass, EgressInv, Egr!TypeOK, RowsInv, RoundInv,
    EgressTimeInv, Egr!WithinBudget, Egr!AllReady, Egr!RoundOver
<1>10. CASE Egr!GiveUp
  BY <1>10, <1>0 DEF Egr!GiveUp, EgressInv, Egr!TypeOK, RowsInv, RoundInv,
    EgressTimeInv, Egr!WithinBudget, Egr!AllReady, Egr!RoundOver
<1>11. CASE Egr!Pause
  <2>1. egress_now' \in Nat /\ egress_now' <= EgressBudget + Overrun
    BY <1>11, <1>0 DEF Egr!Pause, Egr!PauseTime, Egr!Spent
  <2> QED
    BY <1>11, <1>0, <2>1 DEF Egr!Pause, EgressInv, Egr!TypeOK, RowsInv, RoundInv,
      EgressTimeInv, Egr!WithinBudget, Egr!AllReady, Egr!RoundOver
<1>12. CASE UNCHANGED egress_vars
  BY <1>12 DEF egress_vars, EgressInv, Egr!TypeOK, RowsInv, RoundInv,
    EgressTimeInv, Egr!WithinBudget, Egr!AllReady
<1> QED
  BY <1>1, <1>2, <1>3, <1>5, <1>6, <1>7, <1>8, <1>9, <1>10, <1>11, <1>12 DEF Egr!Next

\* The invariant has what the egress step promises at any moment.
LEMMA EgressSafe == EgressInv => Egr!Safe
<1> SUFFICES ASSUME EgressInv PROVE Egr!Safe
  OBVIOUS
<1> USE EgressNumbers
<1>1. Egr!PassedInARow
  <2> SUFFICES ASSUME egress_pc = "passed", NEW t \in 1..Targets
        PROVE tried[t] = [k \in 1..EGRESS_READY |-> "connected"]
    BY DEF Egr!PassedInARow
  <2>1. in_a_row[t] >= EGRESS_READY /\ in_a_row[t] \in 0..EGRESS_READY
    BY DEF EgressInv, RoundInv, Egr!AllReady, Egr!TypeOK
  <2>2. tried[t] \in Seq(Outcomes) /\ Len(tried[t]) = EGRESS_READY
    BY <2>1 DEF EgressInv, RowsInv
  <2>3. ASSUME NEW k \in 1..EGRESS_READY PROVE tried[t][k] = "connected"
    <3>1. k \in 1..Len(tried[t]) /\ k > Len(tried[t]) - in_a_row[t]
      BY <2>1, <2>2
    <3> QED
      BY <3>1 DEF EgressInv, RowsInv
  <2>4. tried[t] \in [1..EGRESS_READY -> Outcomes]
    BY <2>2, LenProperties, Zenon
  <2> QED
    BY <2>3, <2>4, Zenon
<1>2. Egr!NoneStarves
  BY DEF Egr!NoneStarves, Egr!RoundOver, EgressInv, RoundInv, Egr!TypeOK
<1> QED
  BY <1>1, <1>2 DEF Egr!Safe, EgressInv, EgressTimeInv

\* It begins as a Connecting does.
LEMMA EgressPromiseInit == Egr!Init => Egr!Promise!Init
BY DEF Egr!Init, Egr!Promise!Init

\* Each of its steps is one of Connecting, or one that it does not see.
LEMMA EgressPromiseStep ==
  EgressInv /\ EgressInv' /\ [Egr!Next]_egress_vars => [Egr!Promise!Next]_(Egr!Promise!vars)
<1> SUFFICES ASSUME EgressInv, EgressInv', [Egr!Next]_egress_vars
      PROVE [Egr!Promise!Next]_(Egr!Promise!vars)
  OBVIOUS
<1> USE EgressNumbers DEF Egr!Promise!Next, Egr!Promise!vars
<1>0. egress_now \in Nat /\ egress_now' \in Nat /\ knocks \in Nat
  BY DEF EgressInv, Egr!TypeOK
<1>1. CASE Egr!NoTime
  BY <1>1 DEF Egr!NoTime, Egr!Due, Egr!Answer
<1>2. CASE Egr!Reach
  BY <1>2 DEF Egr!Reach, Egr!Due
<1>3. CASE Egr!Resolve
  <2>1. egress_pc = "resolve" /\ egress_pc' \in {"address", "target"} /\ knocks' = knocks
        /\ egress_now' >= egress_now
    <3>1. PICK d \in 0..EgressResolve : egress_now' = egress_now + d
      BY <1>3 DEF Egr!Resolve
    <3> QED
      BY <1>3, <1>0, <3>1 DEF Egr!Resolve, Egr!Answer
  <2> QED
    BY <2>1, <1>0 DEF Egr!Promise!Pass
<1>4. ASSUME Egr!Knocks PROVE egress_now < EgressBudget /\ egress_now' >= egress_now
        /\ knocks' = knocks + 1 /\ egress_pc = "address"
  BY <1>4, <1>0 DEF Egr!Knocks
<1>5. CASE Egr!Connects
  BY <1>5, <1>4, <1>0 DEF Egr!Connects, Egr!Answer, Egr!Promise!Try
<1>6. CASE Egr!Refused
  BY <1>6, <1>4, <1>0 DEF Egr!Refused, Egr!Promise!Try
<1>7. CASE Egr!Lost
  BY <1>7 DEF Egr!Lost, Egr!Answer
<1>8. CASE Egr!Ready
  BY <1>8 DEF Egr!Ready
<1>9. CASE Egr!Pass
  <2>1. egress_now <= EgressBudget
    BY <1>9 DEF Egr!Pass, EgressInv, EgressTimeInv
  <2>2. in_a_row[1] > 0 /\ 1 \in 1..Targets
    BY <1>9 DEF Egr!Pass, Egr!AllReady, EgressInv, Egr!TypeOK
  <2>3. knocks > 0
    BY <2>2 DEF EgressInv, RoundInv
  <2> QED
    BY <1>9, <2>1, <2>3 DEF Egr!Pass, Egr!RoundOver, Egr!Promise!Connect
<1>10. CASE Egr!GiveUp
  BY <1>10, <1>0 DEF Egr!GiveUp, Egr!RoundOver, Egr!Spent, Egr!Promise!GiveUp
<1>11. CASE Egr!Pause
  <2>1. egress_now' > egress_now
    BY <1>11, <1>0 DEF Egr!Pause, Egr!PauseTime, Egr!Spent
  <2> QED
    BY <1>11, <1>0, <2>1 DEF Egr!Pause, Egr!RoundOver, Egr!Promise!Pass
<1>12. CASE UNCHANGED egress_vars
  BY <1>12 DEF egress_vars
<1> QED
  BY <1>1, <1>2, <1>3, <1>5, <1>6, <1>7, <1>8, <1>9, <1>10, <1>11, <1>12 DEF Egr!Next

-----------------------------------------------------------------------------
(* A run's result line *)

\* The class that goes with a status.
LEMMA StatusClasses ==
  ASSUME NEW http \in Int
  PROVE  /\ http \in 200..299 => Result!StatusClass(http) = "2xx"
         /\ http \in 300..399 => Result!StatusClass(http) = "3xx"
         /\ http \in 400..499 => Result!StatusClass(http) = "4xx"
         /\ http = Result!Unset => Result!StatusClass(http) = "none"
<1>1. ASSUME http \in 200..599 PROVE http \div 100 \in 2..5
        /\ 100 * (http \div 100) <= http /\ http < 100 * (http \div 100) + 100
  BY <1>1
<1>2. CASE http \in 200..599
  BY <1>1, <1>2 DEF Result!StatusClass, Result!Unset
<1>3. CASE http \notin 200..599
  BY <1>3 DEF Result!StatusClass
<1> QED
  BY <1>2, <1>3

\* An answer of this status, at this step, has no code of its own.
NoneOfItsOwn(http, at, of) ==
  /\ http \notin {200, 423, 429} /\ ~(http = 401 /\ at \in SignIns \cup Gates)
  /\ at = "logout" => http # 204 /\ (http = 403 => of = "crm")

\* What a verdict knows of the run it ends: the code of an answer goes with its
\* status, that of a connection with none, and a failure with the step under way.
Agrees(v) ==
  /\ v.outcome \in {"pass", "fail", "skipped", "error"}
  /\ v.outcome = "fail" =>
       /\ v.code = "redirect" => v.status \in 300..399
       /\ v.code \in {"credentials", "locked", "rate_limited"} => v.status \in 400..499
       /\ v.code \in {"connect", "tls", "timeout"} => v.status = Result!Unset
       /\ v.code = "shape" => v.status \in 200..299
       /\ v.code = "csrf" => (v.status \in 400..499 \/ v.status = Result!Unset) /\ step = "logout"
       /\ v.step = step /\ step \in timed /\ step \notin Result!Preparations
  /\ v.code = "status" => NoneOfItsOwn(last_status, step, journey.job)

\* The line tells the verdict, with every value on its list.
Tells(v) ==
  /\ Result!Renderable(v, line.steps_ms)
  /\ line = Result!Line(v, line.steps_ms)
  /\ v.outcome = "fail" => line.steps_ms = timed

LineInv ==
  /\ Result!TypeOK
  /\ journey \in Journeys
  /\ run_pc \in {"start", "running"} => verdict = Result!Verdict("pass", "ok", "none", Result!Unset)
  /\ run_pc \in {"ended", "rendered", "done"} => Agrees(verdict)
  /\ run_pc \in {"rendered", "done"} => Tells(verdict)
  /\ IF run_pc = "done"
     THEN (lines = <<>> /\ run_exit = 1) \/ (lines = <<line>> /\ run_exit = Result!ExitOf)
     ELSE lines = <<>>

\* It begins so.
LEMMA LineInit == Result!Init => LineInv
<1> SUFFICES ASSUME Result!Init PROVE LineInv
  OBVIOUS
<1>1. Len(Result!steps) \in Nat
  BY RunsAreSequences DEF Result!Init, Result!steps
<1> QED
  BY <1>1 DEF Result!Init, Result!TypeOK, LineInv, Result!Verdict, Result!Unset

\* A failure agrees with what it was decided on.
LEMMA FailureAgrees ==
  ASSUME NEW code, NEW http, Result!Failed(code, http), step' \in timed',
         code = "redirect" => http \in 300..399,
         code \in {"credentials", "locked", "rate_limited"} => http \in 400..499,
         code \in {"connect", "tls", "timeout"} => http = Result!Unset,
         code = "shape" => http \in 200..299,
         code = "csrf" => (http \in 400..499 \/ http = Result!Unset) /\ step' = "logout",
         Result!OutcomeOf(code) = "fail" => step' \notin Result!Preparations,
         code = "status" => NoneOfItsOwn(last_status', step', journey'.job)
  PROVE  Agrees(verdict)' /\ run_pc' = "ended"
<1> DEFINE outcome == IF code \in Result!CODES THEN Result!OutcomeOf(code) ELSE "error"
<1>1. verdict' = [outcome |-> outcome, code |-> code, step |-> step', status |-> http]
      /\ run_pc' = "ended"
  BY DEF Result!Failed, Result!Verdict
<1>2. /\ outcome \in {"pass", "fail", "skipped", "error"}
      /\ outcome = "fail" => Result!OutcomeOf(code) = "fail"
  BY DEF Result!OutcomeOf
<1> HIDE DEF outcome
<1> QED
  BY <1>1, <1>2 DEF Agrees

\* Every step of a run keeps the invariant.
LEMMA LineStep == LineInv /\ [Result!Next]_line_vars => LineInv'
<1> SUFFICES ASSUME LineInv, [Result!Next]_line_vars PROVE LineInv'
  OBVIOUS
<1>0. /\ Len(Result!steps) \in Nat /\ due \in 1..(Len(Result!steps) + 1)
      /\ last_status \in Statuses \cup {Result!Unset} /\ run_exit \in {Result!Unset, 0, 1}
  BY RunsAreSequences DEF LineInv, Result!TypeOK, Result!steps
<1>1. ASSUME Result!Enter, run_pc \in {"start", "running"}
      PROVE  /\ due' \in 1..(Len(Result!steps) + 1) /\ step' = Result!steps[due] /\ step' \in timed'
             /\ journey' = journey /\ journey' \in Journeys /\ lines' = <<>> /\ run_exit' = run_exit
             /\ (Result!steps)' = Result!steps
  BY <1>0, <1>1 DEF Result!Enter, LineInv, Result!steps
<1>2. ASSUME Result!Enter, run_pc \in {"start", "running"}, NEW code, NEW http,
             last_status' \in Statuses \cup {Result!Unset}, Result!Failed(code, http), 
             code = "redirect" => http \in 300..399,
             code \in {"credentials", "locked", "rate_limited"} => http \in 400..499,
             code \in {"connect", "tls", "timeout"} => http = Result!Unset,
             code = "shape" => http \in 200..299,
             code = "csrf" => (http \in 400..499 \/ http = Result!Unset) /\ step' = "logout",
             Result!OutcomeOf(code) = "fail" => step' \notin Result!Preparations,
             code = "status" => NoneOfItsOwn(last_status', step', journey'.job)
      PROVE  LineInv'
  <2>1. Agrees(verdict)' /\ run_pc' = "ended"
    BY <1>1, <1>2, FailureAgrees
  <2>2. Result!TypeOK'
    BY <1>0, <1>1, <1>2, <2>1 DEF Result!TypeOK, Agrees, Result!steps
  <2> QED
    BY <1>1, <1>2, <2>1, <2>2 DEF LineInv
<1>3. ASSUME Result!Enter, run_pc \in {"start", "running"},
             last_status' \in Statuses \cup {Result!Unset}, run_pc' = "running", verdict' = verdict
      PROVE  LineInv'
  <2>1. verdict' = Result!Verdict("pass", "ok", "none", Result!Unset)
    BY <1>3 DEF LineInv
  <2>2. Result!TypeOK'
    BY <1>0, <1>1, <1>3, <2>1 DEF Result!TypeOK, Result!Verdict, Result!steps
  <2> QED
    BY <1>1, <1>3, <2>1, <2>2 DEF LineInv
<1>4. CASE Result!Skipped
  <2>1. PICK code \in Result!SKIP_CODES :
          verdict' = Result!Verdict("skipped", code, "none", Result!Unset) /\ run_pc' = "ended"
          /\ UNCHANGED <<journey, due, step, last_status, timed, lines, run_exit>> /\ lines = <<>>
    BY <1>4 DEF Result!Skipped, LineInv
  <2> QED
    BY <1>0, <2>1 DEF LineInv, Result!TypeOK, Result!steps, Result!SKIP_CODES, Agrees, Result!Verdict
<1>5. CASE Result!Quiet
  <2>1. Result!Enter /\ run_pc \in {"start", "running"} /\ last_status' = last_status
    BY <1>5 DEF Result!Quiet
  <2>2. CASE run_pc' = "running" /\ UNCHANGED verdict
    BY <1>0, <1>3, <2>1, <2>2
  <2>3. ASSUME NEW code \in {"config", "egress", "iap_token"}, Result!Failed(code, Result!Unset)
        PROVE LineInv'
    <3>1. Result!OutcomeOf(code) = "error"
      BY DEF Result!OutcomeOf, Result!PASS_CODES, Result!SKIP_CODES, Result!ERROR_CODES
    <3> QED
      BY <1>0, <1>2, <2>1, <2>3, <3>1
  <2>4. ASSUME NEW code \in {"connect", "tls", "timeout"}, Result!Failed(code, Result!Unset),
               Result!steps[due] \notin Result!Preparations
        PROVE LineInv'
    BY <1>0, <1>1, <1>2, <2>1, <2>4
  <2>5. ASSUME Result!NeedsToken(Result!steps[due]), Result!Failed("csrf", Result!Unset),
               Result!steps[due] \notin Result!Preparations
        PROVE LineInv'
    BY <1>0, <1>1, <1>2, <2>1, <2>5 DEF Result!NeedsToken
  <2> QED
    BY <1>5, <2>2, <2>3, <2>4, <2>5 DEF Result!Quiet
<1>14. CASE Result!Token
  <2>1. Result!Enter /\ run_pc \in {"start", "running"} /\ last_status' = last_status
    BY <1>14 DEF Result!Token
  <2>2. CASE run_pc' = "running" /\ UNCHANGED verdict
    BY <1>0, <1>3, <2>1, <2>2
  <2>3. ASSUME NEW http \in Statuses, Result!Failed("iap_token", http) PROVE LineInv'
    <3>1. Result!OutcomeOf("iap_token") = "error"
      BY DEF Result!OutcomeOf, Result!PASS_CODES, Result!SKIP_CODES, Result!ERROR_CODES
    <3> QED
      BY <1>0, <1>2, <2>1, <2>3, <3>1
  <2> QED
    BY <1>14, <2>2, <2>3 DEF Result!Token
<1>6. CASE Result!Checked
  <2> DEFINE at == Result!steps[due]
  <2>1. Result!Enter /\ run_pc \in {"start", "running"} /\ at \notin Result!Preparations
    BY <1>6 DEF Result!Checked
  <2>2. PICK http \in Statuses, iap \in BOOLEAN :
          LET code == Result!CheckCode(http, iap, at)
          IN /\ last_status' = http
             /\ \/ code = "ok" /\ run_pc' = "running" /\ UNCHANGED verdict
                \/ code = "ok" /\ at # "logout" /\ Result!Failed("shape", http)
                \/ code # "ok" /\ Result!Failed(code, http)
    BY <1>6 DEF Result!Checked
  <2> DEFINE code == Result!CheckCode(http, iap, at)
  <2>3. /\ code \notin {"connect", "tls", "timeout", "shape"}
        /\ code = "ok" => http \in {200, 204}
        /\ code = "redirect" => http \in 300..399
        /\ code = "credentials" => http = 401
        /\ code = "locked" => http = 423
        /\ code = "rate_limited" => http = 429
        /\ code = "csrf" => http = 403 /\ at = "logout"
        /\ code = "status" => NoneOfItsOwn(http, at, journey.job)
    BY DEF Result!CheckCode, Result!NeedsToken, Result!Accepted, NoneOfItsOwn
  <2>4. http \in Nat /\ last_status' = http /\ step' = at /\ journey' = journey
    BY <1>1, <2>1, <2>2, RunsAreSequences
  <2>5. \/ code = "ok" /\ run_pc' = "running" /\ UNCHANGED verdict
        \/ code = "ok" /\ Result!Failed("shape", http)
        \/ code # "ok" /\ Result!Failed(code, http)
    BY <2>2
  <2> HIDE DEF code, at
  <2>6. CASE run_pc' = "running" /\ UNCHANGED verdict
    BY <1>3, <2>1, <2>4, <2>6
  <2>7. CASE code = "ok" /\ Result!Failed("shape", http)
    BY <1>2, <2>1, <2>3, <2>4, <2>7
  <2>8. CASE code # "ok" /\ Result!Failed(code, http)
    BY <1>2, <2>1, <2>3, <2>4, <2>8
  <2> QED
    BY <2>5, <2>6, <2>7, <2>8
<1>7. CASE Result!Bug
  <2>1. verdict' = Result!Verdict("error", "runner", step', Result!Unset) /\ run_pc' = "ended"
        /\ run_pc \in {"start", "running"}
    BY <1>7 DEF Result!Bug
  <2>2. Agrees(verdict)'
    BY <2>1 DEF Agrees, Result!Verdict
  <2>3. CASE Result!Enter /\ last_status' \in Statuses \cup {last_status}
    <3>1. Result!TypeOK'
      BY <1>0, <1>1, <2>1, <2>3 DEF Result!TypeOK, Result!Verdict, Result!steps
    <3> QED
      BY <1>1, <2>1, <2>2, <2>3, <3>1 DEF LineInv
  <2>4. CASE UNCHANGED <<journey, due, step, last_status, timed, lines, line, run_exit>>
    <3>1. Result!TypeOK'
      BY <1>0, <2>1, <2>4 DEF Result!TypeOK, Result!Verdict, Result!steps, LineInv
    <3> QED
      BY <2>1, <2>2, <2>4, <3>1 DEF LineInv
  <2> QED
    BY <1>7, <2>3, <2>4 DEF Result!Bug
<1>8. CASE Result!Passed
  <2>1. verdict' = Result!Verdict("pass", "ok", "none", last_status) /\ run_pc' = "ended"
        /\ UNCHANGED <<journey, due, step, last_status, timed, lines, run_exit>> /\ lines = <<>>
    BY <1>8 DEF Result!Passed, LineInv, Result!Verdict
  <2> QED
    BY <1>0, <2>1 DEF LineInv, Result!TypeOK, Result!steps, Agrees, Result!Verdict
<1>9. CASE Result!Render
  <2>1. /\ run_pc = "ended" /\ run_pc' = "rendered" /\ Result!Renderable(verdict, timed)
        /\ line' = Result!Line(verdict, timed)
        /\ UNCHANGED <<journey, due, step, last_status, timed, verdict, lines, run_exit>>
    BY <1>9 DEF Result!Render
  <2>2. line'.steps_ms = timed
    BY <2>1 DEF Result!Line
  <2>3. Tells(verdict)' /\ Agrees(verdict)'
    BY <2>1, <2>2 DEF Tells, Agrees, LineInv, Result!Renderable, Result!Line
  <2>4. Result!TypeOK'
    BY <2>1 DEF Result!TypeOK, Result!steps, LineInv
  <2> QED
    BY <2>1, <2>3, <2>4 DEF LineInv
<1>10. CASE Result!RenderOwnError
  <2> DEFINE own == Result!OwnError
  <2>1. /\ run_pc = "ended" /\ run_pc' = "rendered" /\ Result!Renderable(own, {})
        /\ verdict' = own /\ line' = Result!Line(own, {})
        /\ UNCHANGED <<journey, due, step, last_status, timed, lines, run_exit>>
    BY <1>10 DEF Result!RenderOwnError
  <2>2. own.outcome = "error" /\ own.code = "runner"
    BY DEF Result!OwnError, Result!Verdict
  <2> HIDE DEF own
  <2>3. line'.steps_ms = {}
    BY <2>1 DEF Result!Line
  <2>4. Tells(verdict)' /\ Agrees(verdict)'
    BY <2>1, <2>2, <2>3 DEF Tells, Agrees, Result!Renderable, Result!Line
  <2>5. Result!TypeOK'
    BY <2>1, <2>2 DEF Result!TypeOK, Result!steps, LineInv
  <2> QED
    BY <2>1, <2>4, <2>5 DEF LineInv
<1>11. CASE Result!Write
  <2>1. /\ run_pc = "rendered" /\ run_pc' = "done" /\ lines' = <<line>> /\ run_exit' = Result!ExitOf
        /\ UNCHANGED <<journey, due, step, last_status, timed, verdict, line>>
    BY <1>11 DEF Result!Write, LineInv
  <2>2. Tells(verdict)' /\ Agrees(verdict)'
    BY <2>1 DEF Tells, Agrees, LineInv, Result!Renderable, Result!Line
  <2>3. Result!TypeOK'
    BY <2>1 DEF Result!TypeOK, Result!steps, LineInv, Result!ExitOf
  <2> QED
    BY <2>1, <2>2, <2>3 DEF LineInv, Result!ExitOf
<1>12. CASE Result!Unwritten
  <2>1. /\ run_pc = "rendered" /\ run_pc' = "done" /\ run_exit' = 1 /\ lines = <<>>
        /\ UNCHANGED <<journey, due, step, last_status, timed, verdict, lines, line>>
    BY <1>12 DEF Result!Unwritten, LineInv
  <2>2. Tells(verdict)' /\ Agrees(verdict)'
    BY <2>1 DEF Tells, Agrees, LineInv, Result!Renderable, Result!Line
  <2>3. Result!TypeOK'
    BY <2>1 DEF Result!TypeOK, Result!steps, LineInv
  <2> QED
    BY <2>1, <2>2, <2>3 DEF LineInv
<1>13. CASE UNCHANGED line_vars
  <2>1. UNCHANGED <<run_pc, journey, due, step, last_status, timed, verdict, lines, line, run_exit>>
    BY <1>13 DEF line_vars
  <2> QED
    BY <2>1 DEF LineInv, Result!TypeOK, Result!steps, Agrees, Tells, Result!Renderable, Result!Line, Result!ExitOf
<1> QED
  BY <1>4, <1>5, <1>14, <1>6, <1>7, <1>8, <1>9, <1>10, <1>11, <1>12, <1>13 DEF Result!Next

\* The invariant has what a run's line promises.
LEMMA LineSafe == LineInv => Result!Safe
<1> SUFFICES ASSUME LineInv PROVE Result!Safe
  OBVIOUS
<1>1. ASSUME lines # <<>> PROVE
        /\ run_pc = "done" /\ lines = <<line>> /\ lines[1] = line /\ Len(lines) = 1
        /\ run_exit = Result!ExitOf /\ Agrees(verdict) /\ Tells(verdict)
        /\ line.outcome = verdict.outcome /\ line.code = verdict.code /\ line.step = verdict.step
        /\ line.status_class = Result!StatusClass(verdict.status)
  <2>1. run_pc = "done" /\ lines = <<line>> /\ run_exit = Result!ExitOf /\ Agrees(verdict) /\ Tells(verdict)
    BY <1>1 DEF LineInv
  <2>2. /\ line.outcome = verdict.outcome /\ line.code = verdict.code /\ line.step = verdict.step
        /\ line.status_class = Result!StatusClass(verdict.status)
    BY <2>1 DEF Tells, Result!Line
  <2> QED
    BY <2>1, <2>2
<1>2. Result!ToldAsItWas
  <2> SUFFICES ASSUME lines # <<>>, line.outcome = "fail"
        PROVE /\ line.code = "redirect" => line.status_class = "3xx"
              /\ line.code \in {"credentials", "locked", "rate_limited"} => line.status_class = "4xx"
              /\ line.code \in {"connect", "tls", "timeout"} => line.status_class = "none"
              /\ line.code = "shape" => line.status_class = "2xx"
              /\ line.code = "csrf" => line.status_class \in {"4xx", "none"} /\ line.step = "logout"
              /\ line.step \in line.steps_ms /\ line.step = step /\ line.step \notin Result!Preparations
    BY <1>1 DEF Result!ToldAsItWas
  <2>1. line.step = step /\ step \in timed /\ line.steps_ms = timed /\ step \notin Result!Preparations
    BY <1>1 DEF Agrees, Tells
  <2>0. Agrees(verdict) /\ verdict.outcome = "fail" /\ line.code = verdict.code
        /\ line.status_class = Result!StatusClass(verdict.status)
    BY <1>1
  <2>2. CASE line.code = "redirect"
    <3> DEFINE v == verdict.status
    <3>0. verdict.code = "redirect"
      BY <2>0, <2>2
    <3>1. v \in 300..399
      BY <2>0, <3>0, Zenon DEF Agrees
    <3>2. line.status_class = Result!StatusClass(v)
      BY <2>0, Zenon
    <3> HIDE DEF v
    <3>3. v \in Int
      BY <3>1
    <3>4. Result!StatusClass(v) = "3xx"
      BY <3>1, <3>3, StatusClasses
    <3> QED
      BY <2>1, <2>2, <3>2, <3>4
  <2>3. CASE line.code \in {"credentials", "locked", "rate_limited"}
    <3> DEFINE v == verdict.status
    <3>0. verdict.code \in {"credentials", "locked", "rate_limited"}
      BY <2>0, <2>3
    <3>1. v \in 400..499
      BY <2>0, <3>0, Zenon DEF Agrees
    <3>2. line.status_class = Result!StatusClass(v)
      BY <2>0, Zenon
    <3> HIDE DEF v
    <3>3. v \in Int
      BY <3>1
    <3>4. Result!StatusClass(v) = "4xx"
      BY <3>1, <3>3, StatusClasses
    <3> QED
      BY <2>1, <2>3, <3>2, <3>4
  <2>4. CASE line.code \in {"connect", "tls", "timeout"}
    BY <1>1, <2>1, <2>4, StatusClasses DEF Agrees, Result!Unset
  <2>5. CASE line.code = "shape"
    <3> DEFINE v == verdict.status
    <3>0. verdict.code = "shape"
      BY <2>0, <2>5
    <3>1. v \in 200..299
      BY <2>0, <3>0, Zenon DEF Agrees
    <3>2. line.status_class = Result!StatusClass(v)
      BY <2>0, Zenon
    <3> HIDE DEF v
    <3>3. v \in Int
      BY <3>1
    <3>4. Result!StatusClass(v) = "2xx"
      BY <3>1, <3>3, StatusClasses
    <3> QED
      BY <2>1, <2>5, <3>2, <3>4
  <2>6. CASE line.code = "csrf"
    <3> DEFINE v == verdict.status
    <3>0. verdict.code = "csrf"
      BY <2>0, <2>6
    <3>1. (v \in 400..499 \/ v = Result!Unset) /\ step = "logout"
      BY <2>0, <3>0, Zenon DEF Agrees
    <3>2. line.status_class = Result!StatusClass(v)
      BY <2>0, Zenon
    <3> HIDE DEF v
    <3>3. v \in Int
      <4>1. CASE v \in 400..499
        BY <4>1
      <4>2. CASE v = Result!Unset
        BY <4>2 DEF Result!Unset
      <4> QED
        BY <3>1, <4>1, <4>2, Zenon
    <3>4. Result!StatusClass(v) \in {"4xx", "none"}
      BY <3>1, <3>3, StatusClasses
    <3> QED
      BY <2>1, <2>6, <3>1, <3>2, <3>4
  <2>7. CASE line.code \notin {"redirect", "credentials", "locked", "rate_limited", "connect", "tls", "timeout", "shape", "csrf"}
    BY <2>1, <2>7
  <2> QED
    BY <2>2, <2>3, <2>4, <2>5, <2>6, <2>7
<1>3. Result!OwnCodes
  BY <1>1 DEF Result!OwnCodes, Agrees, NoneOfItsOwn
<1>4. Result!NothingUnlisted
  BY <1>1 DEF Result!NothingUnlisted, Tells, Result!Renderable, LineInv
<1>5. Result!PagesOnce
  BY <1>1 DEF Result!PagesOnce, LineInv, Result!ExitOf, Agrees
<1> QED
  BY <1>2, <1>3, <1>4, <1>5 DEF LineInv, Result!Safe

-----------------------------------------------------------------------------
(* The gate to Terraform *)

\* main() past parse_args, and past each of its checks.
PastEnv == {"command", "directory", "flags", "environment", "keys", "terraform"}
PastProgram == PastEnv \ {"command"}
PastDirectory == PastProgram \ {"directory"}
PastFlags == PastDirectory \ {"flags"}

\* Where the "--" is, how many words before it have been read, and where the
\* checks of the command are.
Dashes == Len(argv) - Len(command)
ReadTo == Dashes - 1 - Len(ours)
At == Len(command) - Len(rest)

\* What is left to read is the end of what was given: the command begins after
\* the first "--".
SplitInv ==
  gate_at \in PastEnv \cup {"options"} =>
    /\ Dashes \in 1..Len(argv) /\ Gate!Kind(argv[Dashes]) = "--"
    /\ \A i \in 1..(Dashes - 1) : Gate!Kind(argv[i]) # "--"

\* The environment is the last that was asked for.
EnvInv ==
  /\ gate_at = "split" => env = "beta"
  /\ gate_at = "options" =>
       /\ ReadTo \in 0..(Dashes - 1)
       /\ \A i \in 1..Len(ours) : ours[i] = argv[ReadTo + i]
       /\ IF ReadTo = 0 THEN env = "beta" ELSE env \in {Gate!Value(argv[ReadTo]), "-"}
  /\ gate_at \in PastEnv =>
       env \in Names /\ env = IF Dashes = 1 THEN "beta" ELSE Gate!Value(argv[Dashes - 1])

\* What was read of the command is terraform and directories, the last of which
\* is remembered.
CommandInv ==
  gate_at \in PastProgram =>
    /\ At \in 1..Len(command) /\ command[1] = Gate!Word("terraform")
    /\ \A i \in 1..Len(rest) : rest[i] = command[At + i]
    /\ \A i \in 2..At : Gate!Kind(command[i]) = "-chdir="
    /\ chdir = IF At = 1 THEN None ELSE Gate!Value(command[At])

\* The next word is the subcommand, and what follows it is flags; the directory
\* is the environment's.
FlagsInv ==
  /\ gate_at \in PastDirectory =>
       At < Len(command) /\ command[At + 1] \in {Gate!Word("plan"), Gate!Word("apply")}
  /\ gate_at \in PastFlags =>
       /\ \A i \in (At + 2)..Len(command) : Gate!Kind(command[i]) \notin {"word", "--", "out"}
       /\ Head(IF chdir = None THEN cwd ELSE chdir) = env

\* The key of a role.
KeyOf(role) == <<role, <<env, role>>, "key">>

\* With the log off, the keys are read one role after another.
KeysInv ==
  /\ gate_at \in {"keys", "terraform"} => log # "set"
  /\ gate_at \notin {"keys", "terraform", "refused", "raised"} => role_keys = <<>> /\ missing = <<>>
  /\ log = "set" => role_keys = <<>> /\ missing = <<>>
  /\ Len(role_keys) + Len(missing) <= 3
  /\ gate_at \in {"keys", "terraform"} /\ missing = <<>> =>
       \A i \in 1..Len(role_keys) : role_keys[i] = KeyOf(Gate!Roles[i])
  /\ IF gate_at = "terraform"
     THEN /\ child = [args |-> command, cwd |-> cwd, keys |-> {role_keys[i] : i \in DOMAIN role_keys}]
          /\ Len(role_keys) = 3 /\ missing = <<>>
     ELSE child = None

\* The type of every variable.
GateTypes ==
  /\ gate_at \in PastEnv \cup {"split", "options", "help", "refused", "raised"}
  /\ gate_at = "raised" => env \in Names
  /\ argv \in Argvs /\ argv \in Seq(Arguments) /\ cwd \in Directories /\ log \in {"unset", "blank", "set"}
  /\ ours \in Seq(Arguments) /\ command \in Seq(Arguments) /\ rest \in Seq(Arguments)
  /\ Len(ours) <= Len(argv) /\ Len(command) <= Len(argv) /\ Len(rest) <= Len(argv)
  /\ Len(role_keys) \in Nat /\ Len(missing) \in Nat
  /\ role_keys \in Seq(RoleKeys) /\ missing \in Seq({"app", "phi", "cc"})
  /\ gate_at \in {"split", "options", "command"} => chdir = None

GateInv == GateTypes /\ SplitInv /\ EnvInv /\ CommandInv /\ FlagsInv /\ KeysInv

\* A set of numbers that is not empty has a least.
LEMMA LeastOf ==
  ASSUME NEW A, A \subseteq Nat, A # {}
  PROVE  \E m \in A : \A k \in A : m <= k
<1> DEFINE T == {0..n : n \in A}
<1>1. T \subseteq FiniteSubsetsOf(Nat)
  <2> SUFFICES ASSUME NEW n \in A PROVE 0..n \in FiniteSubsetsOf(Nat)
    OBVIOUS
  <2>1. IsFiniteSet(0..n) /\ 0..n \in SUBSET Nat
    BY FS_Interval
  <2> QED
    BY <2>1, Zenon DEF FiniteSubsetsOf
<1>2. IsWellFoundedOn(StrictSubsetOrdering(Nat), FiniteSubsetsOf(Nat))
  BY FS_StrictSubsetOrderingWellFounded
<1>3. PICK x \in T : \A y \in T : ~(<<y, x>> \in StrictSubsetOrdering(Nat))
  <2>1. T # {}
    OBVIOUS
  <2> HIDE DEF T
  <2> QED
    BY <1>1, <1>2, <2>1, WFMin, Zenon
<1>4. PICK m \in A : x = 0..m
  BY <1>3
<1>5. ASSUME NEW k \in A, ~(m <= k) PROVE FALSE
  <2>1. 0..k \subseteq 0..m /\ 0..k # 0..m
    <3>1. m \in 0..m /\ m \notin 0..k
      BY <1>5
    <3> QED
      BY <1>5, <3>1
  <2>2. <<0..k, x>> \in StrictSubsetOrdering(Nat)
    <3>1. 0..k \in SUBSET Nat /\ 0..m \in SUBSET Nat
      OBVIOUS
    <3> QED
      BY <2>1, <1>4, <3>1 DEF StrictSubsetOrdering
  <2> QED
    BY <2>2, <1>3
<1> QED
  BY <1>5

\* It begins so.
LEMMA GateInit == Gate!Init => GateInv
<1> SUFFICES ASSUME Gate!Init PROVE GateInv
  OBVIOUS
<1>1. argv \in Seq(Arguments) /\ Len(argv) \in Nat
  BY CommandLines DEF Gate!Init
<1>2. GateTypes
  BY <1>1 DEF Gate!Init, GateTypes, PastEnv
<1>3. SplitInv /\ EnvInv /\ CommandInv /\ FlagsInv
  BY DEF Gate!Init, SplitInv, EnvInv, CommandInv, FlagsInv, PastEnv, PastProgram,
    PastDirectory, PastFlags
<1>4. KeysInv
  BY DEF Gate!Init, KeysInv
<1> QED
  BY <1>2, <1>3, <1>4 DEF GateInv

\* The end of a sequence, from one place on.
LEMMA EndOf ==
  ASSUME NEW S, NEW s \in Seq(S), NEW i \in 1..Len(s)
  PROVE  /\ SubSeq(s, i + 1, Len(s)) \in Seq(S) /\ Len(SubSeq(s, i + 1, Len(s))) = Len(s) - i
         /\ \A k \in 1..(Len(s) - i) : SubSeq(s, i + 1, Len(s))[k] = s[i + k]
         /\ SubSeq(s, 1, i - 1) \in Seq(S) /\ Len(SubSeq(s, 1, i - 1)) = i - 1
         /\ \A k \in 1..(i - 1) : SubSeq(s, 1, i - 1)[k] = s[k]
OBVIOUS

\* What is left after the first.
LEMMA TailOf ==
  ASSUME NEW S, NEW s \in Seq(S), s # <<>>
  PROVE  /\ Head(s) = s[1] /\ Tail(s) \in Seq(S) /\ Len(Tail(s)) = Len(s) - 1 /\ Len(s) > 0
         /\ \A k \in 1..(Len(s) - 1) : Tail(s)[k] = s[k + 1]
OBVIOUS

\* The command line is cut at its first "--".
LEMMA GateSplit == GateInv /\ Gate!Split => GateInv'
<1> SUFFICES ASSUME GateInv, Gate!Split PROVE GateInv'
  OBVIOUS
<1> DEFINE dashes == {i \in DOMAIN argv : Gate!Kind(argv[i]) = "--"}
<1>0. /\ gate_at = "split" /\ UNCHANGED <<argv, cwd, log, rest, chdir, env, role_keys, missing, child>>
      /\ argv \in Seq(Arguments) /\ Len(argv) \in Nat
  BY DEF Gate!Split, Gate!given, GateInv, GateTypes
<1>1. CASE dashes = {}
  <2>1. gate_at' = "refused" /\ UNCHANGED <<ours, command>>
    BY <1>1 DEF Gate!Split, Gate!Refuse
  <2> QED
    BY <1>0, <2>1 DEF GateInv, GateTypes, SplitInv, EnvInv, CommandInv, FlagsInv, KeysInv,
      PastEnv, PastProgram, PastDirectory, PastFlags, Dashes, At, KeyOf
<1>2. CASE dashes # {}
  <2> DEFINE first == CHOOSE i \in dashes : \A j \in dashes : i <= j
  <2>1. first \in dashes /\ \A j \in dashes : first <= j
    <3>1. dashes \subseteq Nat
      BY <1>0
    <3>2. \E i \in dashes : \A j \in dashes : i <= j
      BY <1>2, <3>1, LeastOf
    <3> QED
      BY <3>2
  <2>2. /\ gate_at' = "options" /\ ours' = SubSeq(argv, 1, first - 1)
        /\ command' = SubSeq(argv, first + 1, Len(argv))
    BY <1>2 DEF Gate!Split
  <2>3. /\ first \in 1..Len(argv) /\ Gate!Kind(argv[first]) = "--"
        /\ \A i \in 1..(first - 1) : Gate!Kind(argv[i]) # "--"
    BY <1>0, <2>1
  <2> HIDE DEF first, dashes
  <2>4. /\ command' \in Seq(Arguments) /\ Len(command') = Len(argv) - first
        /\ ours' \in Seq(Arguments) /\ Len(ours') = first - 1
        /\ \A k \in 1..(first - 1) : ours'[k] = argv[k]
    BY <1>0, <2>2, <2>3, EndOf
  <2>5. Dashes' = first /\ ReadTo' = 0
    BY <1>0, <2>3, <2>4 DEF Dashes, ReadTo
  <2>6. GateTypes'
    BY <1>0, <2>2, <2>3, <2>4 DEF GateInv, GateTypes, PastEnv
  <2>7. SplitInv'
    BY <1>0, <2>3, <2>5 DEF SplitInv
  <2>8. EnvInv'
    <3>1. env = "beta"
      BY <1>0 DEF GateInv, EnvInv
    <3> QED
      BY <1>0, <2>2, <2>3, <2>4, <2>5, <3>1 DEF EnvInv, PastEnv
  <2>9. CommandInv' /\ FlagsInv' /\ KeysInv'
    BY <1>0, <2>2 DEF GateInv, CommandInv, FlagsInv, KeysInv, PastEnv, PastProgram,
      PastDirectory, PastFlags
  <2> QED
    BY <2>6, <2>7, <2>8, <2>9 DEF GateInv
<1> QED
  BY <1>1, <1>2

\* The options are read to the last, one word or two at a time.
LEMMA GateOptions == GateInv /\ Gate!Options => GateInv'
<1> SUFFICES ASSUME GateInv, Gate!Options PROVE GateInv'
  OBVIOUS
<1>0. /\ gate_at = "options" /\ ours # <<>>
      /\ UNCHANGED <<argv, cwd, log, command, rest, chdir, role_keys, missing, child>>
  BY DEF Gate!Options, Gate!given
<1>1. /\ ours \in Seq(Arguments) /\ argv \in Seq(Arguments) /\ command \in Seq(Arguments)
      /\ Len(ours) \in Nat /\ Len(argv) \in Nat /\ Len(command) \in Nat
      /\ Dashes \in 1..Len(argv) /\ ReadTo \in 0..(Dashes - 1) /\ Len(ours) <= Len(argv)
      /\ \A i \in 1..Len(ours) : ours[i] = argv[ReadTo + i]
  BY <1>0 DEF GateInv, GateTypes, SplitInv, EnvInv
<1>2. /\ Head(ours) = ours[1] /\ Tail(ours) \in Seq(Arguments) /\ Len(Tail(ours)) = Len(ours) - 1
      /\ \A k \in 1..(Len(ours) - 1) : Tail(ours)[k] = ours[k + 1]
  BY <1>0, <1>1, TailOf
<1> DEFINE more == Tail(ours)
<1> HIDE DEF more
<1>3. ASSUME gate_at' \in {"help", "refused"}, UNCHANGED <<ours, env>> PROVE GateInv'
  BY <1>0, <1>3 DEF GateInv, GateTypes, SplitInv, EnvInv, CommandInv, FlagsInv, KeysInv,
    PastEnv, PastProgram, PastDirectory, PastFlags, KeyOf
<1>4. ASSUME NEW k \in 1..Len(ours), gate_at' = gate_at, ours' \in Seq(Arguments), Len(ours') = Len(ours) - k,
             \A i \in 1..Len(ours') : ours'[i] = ours[i + k],
             env' \in {Gate!Value(ours[k]), "-"}
      PROVE  GateInv'
  <2>1. Dashes' = Dashes /\ ReadTo' = ReadTo + k
    BY <1>0, <1>1, <1>4 DEF Dashes, ReadTo
  <2>2. /\ ReadTo' \in 1..(Dashes' - 1) /\ ours[k] = argv[ReadTo']
        /\ \A i \in 1..Len(ours') : ours'[i] = argv[ReadTo' + i]
    <3> DEFINE r == ReadTo
               d == Dashes
    <3>1. r + Len(ours) = d - 1 /\ r \in Nat /\ d \in Nat
      BY <1>1 DEF ReadTo
    <3>2. /\ Len(ours) \in Nat /\ ReadTo' = r + k /\ Dashes' = d
          /\ (\A i \in 1..Len(ours) : ours[i] = argv[r + i])
      BY <1>1, <2>1
    <3> HIDE DEF r, d
    <3>3. r + k \in 1..(d - 1) /\ ours[k] = argv[r + k]
      BY <3>1, <3>2
    <3>4. ASSUME NEW i \in 1..Len(ours') PROVE ours'[i] = argv[(r + k) + i]
      <4>1. i + k \in 1..Len(ours) /\ ours'[i] = ours[i + k] /\ (r + k) + i = r + (i + k)
        BY <1>4, <3>1, <3>2
      <4> QED
        BY <3>2, <4>1
    <3> QED
      BY <3>2, <3>3, <3>4
  <2>3. EnvInv'
    BY <1>0, <1>4, <2>2 DEF EnvInv, PastEnv
  <2>4. GateTypes'
    BY <1>0, <1>1, <1>4 DEF GateInv, GateTypes, PastEnv
  <2>5. SplitInv' /\ CommandInv' /\ FlagsInv' /\ KeysInv'
    BY <1>0, <1>4, <2>1 DEF GateInv, SplitInv, CommandInv, FlagsInv, KeysInv, PastEnv, PastProgram,
      PastDirectory, PastFlags
  <2> QED
    BY <2>3, <2>4, <2>5 DEF GateInv
<1>5. CASE /\ Gate!Kind(Head(ours)) = "--env" /\ Tail(ours) # <<>>
           /\ env' = Gate!Text(Head(Tail(ours))) /\ ours' = Tail(Tail(ours)) /\ UNCHANGED gate_at
  <2>1. /\ Head(Tail(ours)) = Tail(ours)[1] /\ Tail(Tail(ours)) \in Seq(Arguments)
        /\ Len(Tail(Tail(ours))) = Len(Tail(ours)) - 1 /\ Len(Tail(ours)) > 0
        /\ \A k \in 1..(Len(Tail(ours)) - 1) : Tail(Tail(ours))[k] = Tail(ours)[k + 1]
    BY <1>2, <1>5, TailOf
  <2>2. 2 \in 1..Len(ours) /\ Head(Tail(ours)) = ours[2] /\ ours' \in Seq(Arguments) /\ Len(ours') = Len(ours) - 2
    BY <1>1, <1>2, <1>5, <2>1
  <2>3. \A i \in 1..Len(ours') : ours'[i] = ours[i + 2]
    <3> SUFFICES ASSUME NEW i \in 1..Len(ours') PROVE ours'[i] = ours[i + 2]
      OBVIOUS
    <3>1. ours'[i] = Tail(ours)[i + 1] /\ i + 1 \in 1..(Len(ours) - 1)
      BY <1>1, <1>2, <1>5, <2>1, <2>2
    <3> QED
      BY <1>1, <1>2, <3>1
  <2>4. env' \in {Gate!Value(ours[2]), "-"}
    BY <1>5, <2>2 DEF Gate!Text
  <2> QED
    BY <1>4, <1>5, <2>2, <2>3, <2>4
<1>6. CASE /\ Gate!Kind(Head(ours)) = "--env="
           /\ env' = Gate!Value(Head(ours)) /\ ours' = Tail(ours) /\ UNCHANGED gate_at
  <2>1. 1 \in 1..Len(ours) /\ ours' \in Seq(Arguments) /\ Len(ours') = Len(ours) - 1
        /\ (\A i \in 1..Len(ours') : ours'[i] = ours[i + 1])
    BY <1>0, <1>1, <1>2, <1>6
  <2>2. env' \in {Gate!Value(ours[1]), "-"}
    BY <1>2, <1>6
  <2> QED
    BY <1>4, <1>6, <2>1, <2>2
<1>7. \/ gate_at' \in {"help", "refused"} /\ UNCHANGED <<ours, env>>
      \/ /\ Gate!Kind(Head(ours)) = "--env" /\ Tail(ours) # <<>>
         /\ env' = Gate!Text(Head(Tail(ours))) /\ ours' = Tail(Tail(ours)) /\ UNCHANGED gate_at
      \/ /\ Gate!Kind(Head(ours)) = "--env="
         /\ env' = Gate!Value(Head(ours)) /\ ours' = Tail(ours) /\ UNCHANGED gate_at
  BY DEF Gate!Options, Gate!Option, Gate!Refuse
<1> QED
  BY <1>3, <1>5, <1>6, <1>7

\* A refusal leaves everything as it is.
LEMMA GateRefuses ==
  ASSUME GateInv, gate_at # "terraform",
         gate_at' \in {"refused", "raised"}, gate_at' = "raised" => env \in Names,
         UNCHANGED <<argv, cwd, log, ours, command, rest, chdir, env, role_keys, missing, child>>
  PROVE  GateInv'
BY DEF GateInv, GateTypes, SplitInv, EnvInv, CommandInv, FlagsInv, KeysInv,
  PastEnv, PastProgram, PastDirectory, PastFlags, KeyOf

\* Past the options the environment is one.
LEMMA GateEnvNamed == GateInv /\ Gate!EnvNamed => GateInv'
<1> SUFFICES ASSUME GateInv, Gate!EnvNamed PROVE GateInv'
  OBVIOUS
<1>0. /\ gate_at = "options" /\ ours = <<>>
      /\ UNCHANGED <<argv, cwd, log, ours, command, rest, chdir, env, role_keys, missing, child>>
  BY DEF Gate!EnvNamed, Gate!given, Gate!read
<1>1. CASE ~(env \in Names)
  BY <1>0, <1>1, GateRefuses DEF Gate!EnvNamed, Gate!Name, Gate!Refuse
<1>2. CASE env \in Names
  <2>1. gate_at' = "command"
    BY <1>2 DEF Gate!EnvNamed, Gate!Name
  <2>2. /\ Dashes \in 1..Len(argv) /\ ReadTo = Dashes - 1
        /\ IF ReadTo = 0 THEN env = "beta" ELSE env \in {Gate!Value(argv[ReadTo]), "-"}
    BY <1>0 DEF GateInv, GateTypes, SplitInv, EnvInv, ReadTo
  <2>3. env = IF Dashes = 1 THEN "beta" ELSE Gate!Value(argv[Dashes - 1])
    BY <1>2, <2>2, BetaIsAName
  <2>4. EnvInv' /\ SplitInv'
    BY <1>0, <1>2, <2>1, <2>3 DEF GateInv, EnvInv, SplitInv, PastEnv, Dashes, ReadTo
  <2> QED
    BY <1>0, <2>1, <2>4 DEF GateInv, GateTypes, CommandInv, FlagsInv, KeysInv,
      PastEnv, PastProgram, PastDirectory, PastFlags
<1> QED
  BY <1>1, <1>2

\* The program is terraform.
LEMMA GateProgram == GateInv /\ Gate!Program => GateInv'
<1> SUFFICES ASSUME GateInv, Gate!Program PROVE GateInv'
  OBVIOUS
<1>0. /\ gate_at = "command"
      /\ UNCHANGED <<argv, cwd, log, ours, command, chdir, env, role_keys, missing, child>>
  BY DEF Gate!Program, Gate!given
<1>1. CASE ~(command # <<>> /\ Head(command) = Gate!Word("terraform"))
  BY <1>0, <1>1, GateRefuses DEF Gate!Program, Gate!Refuse
<1>2. CASE command # <<>> /\ Head(command) = Gate!Word("terraform")
  <2>1. gate_at' = "directory" /\ rest' = Tail(command)
    BY <1>2 DEF Gate!Program
  <2>2. command \in Seq(Arguments) /\ Len(command) <= Len(argv) /\ chdir = None /\ Len(command) \in Nat
        /\ Len(argv) \in Nat
    BY <1>0 DEF GateInv, GateTypes
  <2>3. /\ command[1] = Gate!Word("terraform") /\ rest' \in Seq(Arguments) /\ Len(rest') = Len(command) - 1
        /\ Len(command) > 0 /\ \A k \in 1..Len(rest') : rest'[k] = command[1 + k]
    BY <1>2, <2>1, <2>2, TailOf
  <2>4. At' = 1
    BY <1>0, <2>2, <2>3 DEF At
  <2>5. CommandInv'
    BY <1>0, <2>2, <2>3, <2>4 DEF CommandInv
  <2>6. GateTypes'
    BY <1>0, <2>1, <2>2, <2>3 DEF GateInv, GateTypes, PastEnv
  <2>7. SplitInv' /\ EnvInv' /\ FlagsInv' /\ KeysInv'
    BY <1>0, <2>1 DEF GateInv, SplitInv, EnvInv, FlagsInv, KeysInv, PastEnv, PastProgram,
      PastDirectory, PastFlags, Dashes, ReadTo
  <2> QED
    BY <2>5, <2>6, <2>7 DEF GateInv
<1> QED
  BY <1>1, <1>2

\* Directories go before the subcommand, and the last is remembered.
LEMMA GateDirectory == GateInv /\ Gate!Directory => GateInv'
<1> SUFFICES ASSUME GateInv, Gate!Directory PROVE GateInv'
  OBVIOUS
<1>0. /\ gate_at = "directory"
      /\ UNCHANGED <<argv, cwd, log, ours, command, env, role_keys, missing, child>>
  BY DEF Gate!Directory, Gate!given
<1>1. /\ rest \in Seq(Arguments) /\ Len(rest) \in Nat /\ Len(rest) <= Len(argv) /\ Len(argv) \in Nat
      /\ command \in Seq(Arguments) /\ Len(command) \in Nat
      /\ At \in 1..Len(command) /\ command[1] = Gate!Word("terraform")
      /\ \A i \in 1..Len(rest) : rest[i] = command[At + i]
      /\ \A i \in 2..At : Gate!Kind(command[i]) = "-chdir="
      /\ chdir = IF At = 1 THEN None ELSE Gate!Value(command[At])
  BY <1>0 DEF GateInv, GateTypes, CommandInv, PastEnv, PastProgram
<1>2. ASSUME rest # <<>>
      PROVE  /\ Head(rest) = command[At + 1] /\ Tail(rest) \in Seq(Arguments)
             /\ Len(Tail(rest)) = Len(rest) - 1 /\ At < Len(command)
             /\ \A k \in 1..Len(Tail(rest)) : Tail(rest)[k] = command[(At + 1) + k]
  <2>1. /\ Head(rest) = rest[1] /\ Tail(rest) \in Seq(Arguments) /\ Len(Tail(rest)) = Len(rest) - 1 /\ Len(rest) > 0
        /\ \A k \in 1..(Len(rest) - 1) : Tail(rest)[k] = rest[k + 1]
    BY <1>1, <1>2, TailOf
  <2>2. At < Len(command)
    BY <1>1, <2>1 DEF At
  <2>3. ASSUME NEW k \in 1..Len(Tail(rest)) PROVE Tail(rest)[k] = command[(At + 1) + k]
    <3>1. k + 1 \in 1..Len(rest) /\ Tail(rest)[k] = rest[k + 1] /\ At \in Int
      BY <1>1, <2>1
    <3>2. rest[k + 1] = command[At + (k + 1)] /\ At + (k + 1) = (At + 1) + k
      BY <1>1, <3>1
    <3> QED
      BY <3>1, <3>2
  <2> QED
    BY <1>1, <2>1, <2>2, <2>3
<1>3. CASE rest # <<>> /\ Gate!Kind(Head(rest)) = "-chdir="
  <2>1. chdir' = Gate!Value(Head(rest)) /\ rest' = Tail(rest) /\ gate_at' = gate_at
    BY <1>3 DEF Gate!Directory, Gate!ChangeDir
  <2>2. At' = At + 1 /\ Len(rest') = Len(rest) - 1 /\ Len(rest') \in Nat
    <3>1. Len(rest') = Len(rest) - 1 /\ Len(rest') = Len(Tail(rest)) /\ Tail(rest) \in Seq(Arguments)
      BY <1>2, <1>3, <2>1
    <3> QED
      BY <1>0, <1>1, <3>1 DEF At
  <2>3. CommandInv'
    <3>1. At + 1 \in 1..Len(command) /\ At + 1 # 1
      BY <1>1, <1>2, <1>3
    <3>2. \A i \in 2..(At + 1) : Gate!Kind(command[i]) = "-chdir="
      BY <1>1, <1>2, <1>3
    <3>3. chdir' = Gate!Value(command[At + 1])
      BY <1>2, <1>3, <2>1
    <3>4. \A i \in 1..Len(rest') : rest'[i] = command[(At + 1) + i]
      BY <1>2, <1>3, <2>1
    <3> QED
      BY <1>0, <1>1, <2>2, <3>1, <3>2, <3>3, <3>4 DEF CommandInv
  <2>4. GateTypes'
    BY <1>0, <1>1, <1>2, <1>3, <2>1, <2>2 DEF GateInv, GateTypes, PastEnv
  <2>5. SplitInv' /\ EnvInv' /\ FlagsInv' /\ KeysInv'
    BY <1>0, <2>1 DEF GateInv, SplitInv, EnvInv, FlagsInv, KeysInv, PastEnv, PastProgram,
      PastDirectory, PastFlags, Dashes, ReadTo
  <2> QED
    BY <2>3, <2>4, <2>5 DEF GateInv
<1>4. CASE /\ ~(rest # <<>> /\ Gate!Kind(Head(rest)) = "-chdir=")
           /\ rest # <<>> /\ Head(rest) \in {Gate!Word(s) : s \in Gate!Subcommands}
  <2>1. gate_at' = "flags" /\ UNCHANGED <<rest, chdir>>
    BY <1>4 DEF Gate!Directory
  <2>2. At < Len(command) /\ command[At + 1] \in {Gate!Word("plan"), Gate!Word("apply")}
    BY <1>2, <1>4 DEF Gate!Subcommands
  <2>3. FlagsInv'
    BY <1>0, <2>1, <2>2 DEF FlagsInv, PastFlags, PastDirectory, PastProgram, PastEnv, At
  <2> QED
    BY <1>0, <2>1, <2>3 DEF GateInv, GateTypes, SplitInv, EnvInv, CommandInv, KeysInv, PastEnv, PastProgram,
      PastDirectory, PastFlags, Dashes, ReadTo, At
<1>5. CASE /\ ~(rest # <<>> /\ Gate!Kind(Head(rest)) = "-chdir=")
           /\ ~(rest # <<>> /\ Head(rest) \in {Gate!Word(s) : s \in Gate!Subcommands})
  BY <1>0, <1>5, GateRefuses DEF Gate!Directory, Gate!Refuse
<1> QED
  BY <1>3, <1>4, <1>5

\* What follows the subcommand is flags, and the directory is the environment's.
LEMMA GateArguments == GateInv /\ Gate!Arguments => GateInv'
<1> SUFFICES ASSUME GateInv, Gate!Arguments PROVE GateInv'
  OBVIOUS
<1>0. /\ gate_at = "flags"
      /\ UNCHANGED <<argv, cwd, log, ours, command, rest, chdir, env, role_keys, missing, child>>
  BY DEF Gate!Arguments, Gate!given, Gate!read
<1>1. CASE Gate!Flags(Tail(rest)) /\ Gate!NamedFor(IF chdir = None THEN cwd ELSE chdir, env)
  <2>1. gate_at' = "environment"
    BY <1>1 DEF Gate!Arguments
  <2>2. /\ rest \in Seq(Arguments) /\ Len(rest) \in Nat /\ Len(command) \in Nat
        /\ At \in 1..Len(command) /\ At < Len(command)
        /\ \A i \in 1..Len(rest) : rest[i] = command[At + i]
    BY <1>0 DEF GateInv, GateTypes, CommandInv, FlagsInv, PastEnv, PastProgram, PastDirectory
  <2>3. rest # <<>> /\ Len(rest) = Len(command) - At
    BY <2>2 DEF At
  <2>4. /\ Tail(rest) \in Seq(Arguments) /\ Len(Tail(rest)) = Len(rest) - 1
        /\ \A k \in 1..(Len(rest) - 1) : Tail(rest)[k] = rest[k + 1]
    BY <2>2, <2>3, TailOf
  <2>5. ASSUME NEW i \in (At + 2)..Len(command)
        PROVE  Gate!Kind(command[i]) \notin {"word", "--", "out"}
    <3>1. i - At - 1 \in 1..(Len(rest) - 1) /\ i - At \in 1..Len(rest) /\ (i - At - 1) + 1 = i - At
          /\ At + (i - At) = i
      BY <2>2, <2>3
    <3>2. Tail(rest)[i - At - 1] = command[i]
      BY <2>2, <2>4, <3>1
    <3>3. i - At - 1 \in DOMAIN Tail(rest)
      BY <2>4, <3>1
    <3> QED
      BY <1>1, <3>2, <3>3 DEF Gate!Flags
  <2>6. Head(IF chdir = None THEN cwd ELSE chdir) = env
    BY <1>1 DEF Gate!NamedFor
  <2>7. FlagsInv'
    BY <1>0, <2>1, <2>5, <2>6 DEF GateInv, FlagsInv, PastFlags, PastDirectory, PastProgram, PastEnv, At
  <2> QED
    BY <1>0, <2>1, <2>7 DEF GateInv, GateTypes, SplitInv, EnvInv, CommandInv, KeysInv, PastEnv, PastProgram,
      PastDirectory, PastFlags, Dashes, ReadTo, At
<1>2. CASE ~(Gate!Flags(Tail(rest)) /\ Gate!NamedFor(IF chdir = None THEN cwd ELSE chdir, env))
  BY <1>0, <1>2, GateRefuses DEF Gate!Arguments, Gate!Refuse
<1> QED
  BY <1>1, <1>2

\* No key is read with Terraform's log on.
LEMMA GateCheckEnvironment == GateInv /\ Gate!CheckEnvironment => GateInv'
<1> SUFFICES ASSUME GateInv, Gate!CheckEnvironment PROVE GateInv'
  OBVIOUS
<1>0. /\ gate_at = "environment"
      /\ UNCHANGED <<argv, cwd, log, ours, command, rest, chdir, env, role_keys, missing, child>>
  BY DEF Gate!CheckEnvironment, Gate!given, Gate!read
<1>1. CASE log = "set"
  BY <1>0, <1>1, GateRefuses DEF Gate!CheckEnvironment, Gate!Logs, Gate!Refuse
<1>2. CASE log # "set"
  <2>1. gate_at' = "keys"
    BY <1>2 DEF Gate!CheckEnvironment, Gate!Logs
  <2>2. KeysInv'
    <3>1. role_keys = <<>> /\ missing = <<>> /\ child = None
      BY <1>0 DEF GateInv, KeysInv
    <3> QED
      BY <1>0, <1>2, <2>1, <3>1 DEF KeysInv
  <2> QED
    BY <1>0, <2>1, <2>2 DEF GateInv, GateTypes, SplitInv, EnvInv, CommandInv, FlagsInv, PastEnv, PastProgram,
      PastDirectory, PastFlags, Dashes, ReadTo, At
<1> QED
  BY <1>1, <1>2

\* A role's key has the shape of one.
LEMMA IsAKey ==
  ASSUME NEW role \in {"app", "phi", "cc"}, NEW e \in Names
  PROVE  <<role, <<e, role>>, "key">> \in RoleKeys
BY DEF RoleKeys

\* A role's key is read from the environment's own service.
LEMMA GateReadKey == GateInv /\ Gate!ReadKey => GateInv'
<1> SUFFICES ASSUME GateInv, Gate!ReadKey PROVE GateInv'
  OBVIOUS
<1>0. /\ gate_at = "keys" /\ Len(role_keys) + Len(missing) < 3
      /\ UNCHANGED <<gate_at, argv, cwd, log, ours, command, rest, chdir, env, child>>
  BY DEF Gate!ReadKey, Gate!given, Gate!read, Gate!Roles
<1>1. /\ role_keys \in Seq(RoleKeys) /\ missing \in Seq({"app", "phi", "cc"})
      /\ Len(role_keys) \in Nat /\ Len(missing) \in Nat /\ env \in Names /\ log # "set"
      /\ missing = <<>> => \A i \in 1..Len(role_keys) : role_keys[i] = KeyOf(Gate!Roles[i])
  BY <1>0 DEF GateInv, GateTypes, EnvInv, KeysInv, PastEnv
<1>2. Gate!Role \in {"app", "phi", "cc"}
  <2> DEFINE n == Len(role_keys) + Len(missing) + 1
  <2>1. n = 1 \/ n = 2 \/ n = 3
    BY <1>0, <1>1
  <2>2. Gate!Role = Gate!Roles[n]
    BY DEF Gate!Role
  <2> HIDE DEF n
  <2>3. Gate!Roles[1] = "app" /\ Gate!Roles[2] = "phi" /\ Gate!Roles[3] = "cc"
    BY DEF Gate!Roles
  <2> QED
    BY <2>1, <2>2, <2>3
<1>3. SplitInv' /\ EnvInv' /\ CommandInv' /\ FlagsInv'
  BY <1>0 DEF GateInv, SplitInv, EnvInv, CommandInv, FlagsInv, PastEnv, PastProgram,
      PastDirectory, PastFlags, Dashes, ReadTo, At
<1>4. PICK service \in Gate!Services :
         IF Gate!UsableBy(service)
         THEN role_keys' = Append(role_keys, <<Gate!Role, Gate!ServiceName(Gate!Role), service>>) /\ UNCHANGED missing
         ELSE missing' = Append(missing, Gate!Role) /\ UNCHANGED role_keys
  BY DEF Gate!ReadKey
<1>5. CASE service = "key"
  <2> DEFINE key == <<Gate!Role, <<env, Gate!Role>>, "key">>
  <2>1. role_keys' = Append(role_keys, key) /\ missing' = missing
    BY <1>4, <1>5 DEF Gate!UsableBy, Gate!ServiceName
  <2>2. key \in RoleKeys
    BY <1>1, <1>2, IsAKey
  <2>3. missing = <<>> => key = KeyOf(Gate!Roles[Len(role_keys) + 1])
    BY <1>1 DEF KeyOf, Gate!Role
  <2> HIDE DEF key
  <2>4. /\ role_keys' \in Seq(RoleKeys) /\ Len(role_keys') = Len(role_keys) + 1
        /\ role_keys'[Len(role_keys) + 1] = key /\ \A i \in 1..Len(role_keys) : role_keys'[i] = role_keys[i]
    BY <1>1, <2>1, <2>2
  <2>5. missing = <<>> => \A i \in 1..Len(role_keys') : role_keys'[i] = KeyOf(Gate!Roles[i])'
    BY <1>0, <1>1, <2>3, <2>4 DEF KeyOf, Gate!Roles
  <2>6. KeysInv'
    <3>1. Len(role_keys') + Len(missing') <= 3
      BY <1>0, <1>1, <2>1, <2>4
    <3>2. child = None
      BY <1>0 DEF GateInv, KeysInv
    <3>3. \A i : KeyOf(Gate!Roles[i])' = KeyOf(Gate!Roles[i])
      BY <1>0 DEF KeyOf, Gate!Roles
    <3> QED
      BY <1>0, <1>1, <2>1, <2>5, <3>1, <3>2, <3>3 DEF KeysInv
  <2>7. GateTypes'
    BY <1>0, <1>1, <2>1, <2>4 DEF GateInv, GateTypes, PastEnv
  <2> QED
    BY <1>3, <2>6, <2>7 DEF GateInv
<1>6. CASE service # "key"
  <2>1. missing' = Append(missing, Gate!Role) /\ role_keys' = role_keys
    BY <1>4, <1>6 DEF Gate!UsableBy
  <2>2. missing' \in Seq({"app", "phi", "cc"}) /\ Len(missing') = Len(missing) + 1 /\ missing' # <<>>
    BY <1>1, <1>2, <2>1
  <2>3. KeysInv'
    BY <1>0, <1>1, <2>1, <2>2 DEF GateInv, KeysInv
  <2>4. GateTypes'
    BY <1>0, <1>1, <2>1, <2>2 DEF GateInv, GateTypes, PastEnv
  <2> QED
    BY <1>3, <2>3, <2>4 DEF GateInv
<1> QED
  BY <1>5, <1>6

\* Terraform runs with every key, or not at all.
LEMMA GateExec == GateInv /\ Gate!Exec => GateInv'
<1> SUFFICES ASSUME GateInv, Gate!Exec PROVE GateInv'
  OBVIOUS
<1>0. /\ gate_at = "keys" /\ Len(role_keys) + Len(missing) = 3
      /\ UNCHANGED <<argv, cwd, log, ours, command, rest, chdir, env, role_keys, missing>>
  BY DEF Gate!Exec, Gate!given, Gate!read, Gate!Roles
<1>1. CASE missing # <<>>
  BY <1>0, <1>1, GateRefuses DEF Gate!Exec, Gate!Stops, Gate!Refuse
<1>2. CASE missing = <<>>
  <2>1. /\ gate_at' = "terraform"
        /\ child' = [args |-> command, cwd |-> cwd, keys |-> {role_keys[i] : i \in DOMAIN role_keys}]
    BY <1>2 DEF Gate!Exec, Gate!Stops
  <2>2. Len(role_keys) = 3
    BY <1>0, <1>2 DEF GateInv, GateTypes
  <2>3. KeysInv'
    BY <1>0, <1>2, <2>1, <2>2 DEF GateInv, KeysInv, KeyOf
  <2> QED
    BY <1>0, <2>1, <2>3 DEF GateInv, GateTypes, SplitInv, EnvInv, CommandInv, FlagsInv, PastEnv, PastProgram,
      PastDirectory, PastFlags, Dashes, ReadTo, At
<1> QED
  BY <1>1, <1>2

\* Every step of the gate keeps the invariant.
LEMMA GateStep == GateInv /\ [Gate!Next]_gate_vars => GateInv'
<1> SUFFICES ASSUME GateInv, [Gate!Next]_gate_vars PROVE GateInv'
  OBVIOUS
<1>1. CASE Gate!ReadFails
  <2>1. /\ gate_at \in {"environment", "keys"} /\ gate_at' = "raised"
        /\ UNCHANGED <<argv, cwd, log, ours, command, rest, chdir, env, role_keys, missing, child>>
    BY <1>1 DEF Gate!ReadFails, Gate!given, Gate!read
  <2>2. env \in Names
    BY <2>1 DEF GateInv, EnvInv, PastEnv
  <2> QED
    BY <2>1, <2>2, GateRefuses
<1>2. CASE UNCHANGED gate_vars
  <2>1. UNCHANGED <<gate_at, argv, cwd, log, ours, command, rest, chdir, env, role_keys, missing, child>>
    BY <1>2 DEF gate_vars
  <2>2. UNCHANGED <<Dashes, ReadTo, At>>
    BY <2>1 DEF Dashes, ReadTo, At
  <2>3. GateTypes'
    BY <2>1 DEF GateInv, GateTypes, PastEnv
  <2>4. SplitInv' /\ EnvInv'
    BY <2>1, <2>2 DEF GateInv, SplitInv, EnvInv, PastEnv
  <2>5. CommandInv' /\ FlagsInv'
    BY <2>1, <2>2 DEF GateInv, CommandInv, FlagsInv, PastEnv, PastProgram, PastDirectory, PastFlags
  <2>6. KeysInv'
    <3>1. \A i : KeyOf(Gate!Roles[i])' = KeyOf(Gate!Roles[i])
      BY <2>1 DEF KeyOf, Gate!Roles
    <3> QED
      BY <2>1, <3>1 DEF GateInv, KeysInv
  <2> QED
    BY <2>3, <2>4, <2>5, <2>6 DEF GateInv
<1> QED
  BY <1>1, <1>2, GateSplit, GateOptions, GateEnvNamed, GateProgram, GateDirectory, GateArguments,
    GateCheckEnvironment, GateReadKey, GateExec DEF Gate!Next, Gate!Works

\* Where Terraform runs, and what its command is.
LEMMA GateChild ==
  ASSUME GateInv, child # None
  PROVE  /\ gate_at = "terraform" /\ child.args = command /\ child.cwd = cwd
         /\ child.keys = {role_keys[i] : i \in DOMAIN role_keys}
         /\ child.keys = {<<Gate!Roles[i], <<env, Gate!Roles[i]>>, "key">> : i \in DOMAIN Gate!Roles}
         /\ At \in 1..Len(command) /\ At < Len(command) /\ command[1] = Gate!Word("terraform")
         /\ \A i \in 2..At : Gate!Kind(command[i]) = "-chdir="
         /\ command[At + 1] \in {Gate!Word("plan"), Gate!Word("apply")}
         /\ \A i \in (At + 2)..Len(command) : Gate!Kind(command[i]) \notin {"word", "--", "out"}
<1>1. gate_at = "terraform"
  BY DEF GateInv, KeysInv
<1>2. /\ child = [args |-> command, cwd |-> cwd, keys |-> {role_keys[i] : i \in DOMAIN role_keys}]
      /\ Len(role_keys) = 3 /\ \A i \in 1..3 : role_keys[i] = KeyOf(Gate!Roles[i])
      /\ role_keys \in Seq(RoleKeys)
  BY <1>1 DEF GateInv, GateTypes, KeysInv
<1>3. DOMAIN role_keys = 1..3 /\ DOMAIN Gate!Roles = 1..3
  BY <1>2 DEF Gate!Roles
<1>4. {role_keys[i] : i \in DOMAIN role_keys}
        = {<<Gate!Roles[i], <<env, Gate!Roles[i]>>, "key">> : i \in DOMAIN Gate!Roles}
  <2>1. \A i \in 1..3 : role_keys[i] = <<Gate!Roles[i], <<env, Gate!Roles[i]>>, "key">>
    BY <1>2, Zenon DEF KeyOf
  <2> QED
    BY <1>3, <2>1, Zenon
<1> QED
  BY <1>1, <1>2, <1>4 DEF GateInv, CommandInv, FlagsInv, PastFlags, PastDirectory, PastProgram, PastEnv

\* The invariant has what the gate promises.
LEMMA GateSafe == GateInv => Gate!Safe
<1> SUFFICES ASSUME GateInv PROVE Gate!Safe
  OBVIOUS
<1>0. Len(command) \in Nat /\ command \in Seq(Arguments) /\ argv \in Seq(Arguments)
  BY DEF GateInv, GateTypes
<1>1. Gate!TypeOK
  <2>1. gate_at = "terraform" <=> child # None
    <3>1. SUFFICES ASSUME gate_at = "terraform" PROVE child # None
      BY DEF GateInv, KeysInv
    <3>2. child = [args |-> command, cwd |-> cwd, keys |-> {role_keys[i] : i \in DOMAIN role_keys}]
      BY <3>1 DEF GateInv, KeysInv
    <3>3. /\ {role_keys[i] : i \in DOMAIN role_keys} \subseteq RoleKeys
          /\ command \in Seq(Arguments) /\ cwd \in Directories
      BY DEF GateInv, GateTypes
    <3> QED
      BY <3>2, <3>3, CommandLines
  <2> QED
    BY <2>1 DEF Gate!TypeOK, Gate!Ran, Gate!Roles, GateInv, GateTypes, EnvInv, KeysInv, PastEnv
<1>2. Gate!OnlyPlanOrApply
  <2> SUFFICES ASSUME child # None
        PROVE \E k \in 2..Len(child.args) :
                /\ child.args[1] = Gate!Word("terraform")
                /\ \A i \in 2..(k - 1) : Gate!Kind(child.args[i]) = "-chdir="
                /\ child.args[k] \in {Gate!Word("plan"), Gate!Word("apply")}
                /\ \A i \in (k + 1)..Len(child.args) : Gate!Kind(child.args[i]) \notin {"word", "--", "out"}
    BY DEF Gate!OnlyPlanOrApply, Gate!Ran
  <2> DEFINE k == At + 1
  <2>1. child.args = command /\ k \in 2..Len(command) /\ (k - 1) = At /\ k + 1 = At + 2
    BY <1>0, GateChild
  <2> QED
    BY <2>1, GateChild
<1>3. Gate!KeysOfItsDirectory
  <2> SUFFICES ASSUME child # None PROVE Head(Gate!RunsIn) = env
    BY GateChild DEF Gate!KeysOfItsDirectory, Gate!Ran
  <2> DEFINE before == {i \in DOMAIN command : /\ Gate!Kind(command[i]) = "-chdir="
                                               /\ \A j \in 2..i : Gate!Kind(command[j]) = "-chdir="}
  <2>1. /\ child.args = command /\ child.cwd = cwd /\ gate_at = "terraform"
        /\ At \in 1..Len(command) /\ At < Len(command) /\ command[1] = Gate!Word("terraform")
        /\ \A i \in 2..At : Gate!Kind(command[i]) = "-chdir="
        /\ command[At + 1] \in {Gate!Word("plan"), Gate!Word("apply")}
    BY GateChild
  <2>2. before = 2..At
    <3>1. DOMAIN command = 1..Len(command)
      BY <1>0
    <3>2. Gate!Kind(command[1]) = "word" /\ Gate!Kind(command[At + 1]) = "word"
      BY <2>1 DEF Gate!Kind, Gate!Word
    <3>3. ASSUME NEW i \in before PROVE i \in 2..At
      <4>1. i \in 1..Len(command) /\ i # 1 /\ i \in Int
        BY <3>1, <3>2, <3>3
      <4>2. ~(At + 1 \in 2..i)
        BY <3>2, <3>3
      <4> QED
        BY <2>1, <4>1, <4>2
    <3>4. ASSUME NEW i \in 2..At PROVE i \in before
      BY <1>0, <2>1, <3>1
    <3> QED
      BY <3>3, <3>4
  <2>3. Gate!RunsIn = IF before = {} THEN cwd
                      ELSE Gate!Value(command[CHOOSE i \in before : \A j \in before : j <= i])
    BY <2>1 DEF Gate!RunsIn
  <2> HIDE DEF before
  <2>4. Head(IF chdir = None THEN cwd ELSE chdir) = env
        /\ chdir = IF At = 1 THEN None ELSE Gate!Value(command[At])
    BY <2>1 DEF GateInv, CommandInv, FlagsInv, PastFlags, PastDirectory, PastProgram, PastEnv
  <2>5. CASE At = 1
    BY <2>2, <2>3, <2>4, <2>5
  <2>6. CASE At # 1
    <3>1. (CHOOSE i \in before : \A j \in before : j <= i) = At
      <4>1. At \in before /\ \A j \in before : j <= At
        BY <2>1, <2>2, <2>6
      <4>2. \A i \in before : (\A j \in before : j <= i) => i = At
        BY <2>1, <2>2, <4>1
      <4> QED
        BY <4>1, <4>2
    <3>2. before # {}
      <4>1. At \in before
        BY <2>1, <2>2, <2>6
      <4> QED
        BY <4>1
    <3>3. Gate!Value(command[At]) # None
      <4>1. command[At] \in Arguments
        BY <1>0, <2>1
      <4> QED
        BY <4>1, CommandLines DEF Gate!Value
    <3>4. Gate!RunsIn = Gate!Value(command[At])
      BY <2>3, <3>1, <3>2, Zenon
    <3>5. chdir = Gate!Value(command[At]) /\ Head(chdir) = env
      BY <2>4, <2>6, <3>3
    <3> QED
      BY <3>4, <3>5, Zenon
  <2> QED
    BY <2>5, <2>6
<1>4. Gate!AsAsked
  <2> SUFFICES ASSUME child # None
        PROVE LET i == CHOOSE i \in DOMAIN argv :
                    Gate!Kind(argv[i]) = "--" /\ \A j \in 1..(i - 1) : Gate!Kind(argv[j]) # "--"
              IN \A key \in child.keys : key[2][1] = IF i = 1 THEN "beta" ELSE Gate!Value(argv[i - 1])
    BY DEF Gate!AsAsked, Gate!Ran
  <2>1. gate_at = "terraform"
        /\ child.keys = {<<Gate!Roles[i], <<env, Gate!Roles[i]>>, "key">> : i \in DOMAIN Gate!Roles}
    BY GateChild
  <2>2. /\ Dashes \in 1..Len(argv) /\ Gate!Kind(argv[Dashes]) = "--"
        /\ \A i \in 1..(Dashes - 1) : Gate!Kind(argv[i]) # "--"
        /\ env = IF Dashes = 1 THEN "beta" ELSE Gate!Value(argv[Dashes - 1])
    BY <2>1 DEF GateInv, SplitInv, EnvInv, PastEnv
  <2>3. \A i \in DOMAIN argv :
          Gate!Kind(argv[i]) = "--" /\ (\A j \in 1..(i - 1) : Gate!Kind(argv[j]) # "--") => i = Dashes
    <3> SUFFICES ASSUME NEW i \in 1..Len(argv), Gate!Kind(argv[i]) = "--",
                        \A j \in 1..(i - 1) : Gate!Kind(argv[j]) # "--", i # Dashes
                 PROVE FALSE
      BY <1>0
    <3>1. ~(i \in 1..(Dashes - 1)) /\ ~(Dashes \in 1..(i - 1))
      BY <2>2
    <3>2. Dashes \in Nat /\ Dashes >= 1 /\ i \in Nat /\ i >= 1
      BY <1>0, <2>2
    <3> QED
      BY <3>1, <3>2
  <2>4. (CHOOSE i \in DOMAIN argv :
           Gate!Kind(argv[i]) = "--" /\ \A j \in 1..(i - 1) : Gate!Kind(argv[j]) # "--") = Dashes
    <3>1. Dashes \in DOMAIN argv
      BY <1>0, <2>2
    <3> QED
      BY <2>2, <2>3, <3>1
  <2>5. \A key \in child.keys : key[2][1] = env
    BY <2>1
  <2> QED
    BY <2>2, <2>4, <2>5
<1>5. Gate!NoKeysIntoALog
  BY DEF Gate!NoKeysIntoALog, Gate!Ran, GateInv, KeysInv
<1> QED
  BY <1>1, <1>2, <1>3, <1>4, <1>5 DEF Gate!Safe

-----------------------------------------------------------------------------
(* The pinned keys *)

\* A place of a list comes after as many as are before it: sorting gives each
\* place once, and keys by their ids.
LEMMA SortedTells ==
  ASSUME NEW list \in Seq(Pins!Kinds), NEW places, places \subseteq DOMAIN list
  PROVE  /\ Pins!Sorted(list, places) \in Seq(Pins!Kinds)
         /\ Len(Pins!Sorted(list, places)) = Cardinality(places) /\ Cardinality(places) \in Nat
         /\ \A key : key \in Pins!KeysOf(Pins!Sorted(list, places)) <=> \E n \in places : key = list[n]
         /\ \A p, q \in 1..Cardinality(places) : p < q =>
              Kid[Pins!Sorted(list, places)[p]] <= Kid[Pins!Sorted(list, places)[q]]
         /\ \E f \in [1..Cardinality(places) -> places] :
              /\ \A p, q \in 1..Cardinality(places) : p # q => f[p] # f[q]
              /\ \A p \in 1..Cardinality(places) : Pins!Sorted(list, places)[p] = list[f[p]]
<1> DEFINE Upto(n) == {m \in places : Pins!Before(list, m, n)}
           N == Cardinality(places)
           s == Pins!Sorted(list, places)
           at == [n \in places |-> Cardinality(Upto(n))]
<1>1. /\ DOMAIN list = 1..Len(list) /\ Len(list) \in Nat /\ places \subseteq Nat
      /\ \A n \in places : list[n] \in Pins!Kinds /\ Kid[list[n]] \in Nat
  BY KeysHaveIds DEF Pins!Kinds
<1>2. IsFiniteSet(places) /\ N \in Nat
  <2>1. IsFiniteSet(1..Len(list))
    BY <1>1, FS_Interval
  <2> QED
    BY <1>1, <2>1, FS_Subset, FS_CardinalityType
<1>3. ASSUME NEW n \in places PROVE Upto(n) \subseteq places /\ n \in Upto(n) /\ Cardinality(Upto(n)) \in 1..N
  <2>1. Upto(n) \subseteq places /\ n \in Upto(n)
    BY <1>1 DEF Pins!Before
  <2>2. IsFiniteSet(Upto(n)) /\ Cardinality(Upto(n)) \in Nat /\ Cardinality(Upto(n)) <= N
    BY <1>2, <2>1, FS_Subset, FS_CardinalityType
  <2>3. Cardinality(Upto(n)) # 0
    BY <2>1, <2>2, FS_EmptySet
  <2> QED
    BY <1>2, <2>1, <2>2, <2>3
<1>4. ASSUME NEW m \in places, NEW n \in places, Pins!Before(list, m, n), m # n
      PROVE  at[m] < at[n]
  <2>1. Upto(m) \subseteq Upto(n) /\ n \notin Upto(m) /\ n \in Upto(n)
    BY <1>1, <1>3, <1>4 DEF Pins!Before
  <2> DEFINE A == Upto(m)
             B == Upto(n)
  <2>2. IsFiniteSet(B) /\ A \subseteq B /\ A # B /\ at[m] = Cardinality(A) /\ at[n] = Cardinality(B)
    BY <1>2, <1>3, <2>1, FS_Subset
  <2>3. Cardinality(A) \in Nat /\ Cardinality(B) \in Nat
    BY <1>3
  <2> HIDE DEF A, B, at
  <2>4. Cardinality(A) <= Cardinality(B) /\ (Cardinality(A) = Cardinality(B) => A = B)
    BY <2>2, FS_Subset
  <2> QED
    BY <2>2, <2>3, <2>4
<1>5. \A m, n \in places : Pins!Before(list, m, n) \/ Pins!Before(list, n, m)
  BY <1>1 DEF Pins!Before
<1>6. at \in Injection(places, 1..N)
  <2>1. at \in [places -> 1..N]
    BY <1>3
  <2>2. \A m, n \in places : at[m] = at[n] => m = n
    <3> SUFFICES ASSUME NEW m \in places, NEW n \in places, at[m] = at[n], m # n PROVE FALSE
      OBVIOUS
    <3>1. at[m] \in Nat /\ at[n] \in Nat
      BY <1>3
    <3>2. at[m] < at[n] \/ at[n] < at[m]
      BY <1>4, <1>5
    <3> HIDE DEF at
    <3> QED
      BY <3>1, <3>2
  <2> QED
    BY <2>1, <2>2, Fun_IsInj
<1>7. at \in Surjection(places, 1..N)
  BY <1>2, <1>6, FS_Injection, FS_Interval
<1>8. \A p \in 1..N : \E n \in places : at[n] = p
  BY <1>7 DEF Surjection
<1> DEFINE place(p) == CHOOSE n \in places : Cardinality(Upto(n)) = p
<1>9. \A p \in 1..N : place(p) \in places /\ at[place(p)] = p
  BY <1>8
<1>10. s = [p \in 1..N |-> list[place(p)]]
  BY Zenon DEF Pins!Sorted, Cardinality, Pins!Cardinality
<1>11. \A n \in places : at[n] \in 1..N /\ place(at[n]) = n
  <2> SUFFICES ASSUME NEW n \in places PROVE at[n] \in 1..N /\ place(at[n]) = n
    OBVIOUS
  <2>1. at[n] \in 1..N
    BY <1>3
  <2>2. place(at[n]) \in places /\ at[place(at[n])] = at[n]
    BY <1>9, <2>1
  <2> QED
    BY <1>6, <2>1, <2>2 DEF Injection, IsInjective
<1>12. \A p, q \in 1..N : p < q => Pins!Before(list, place(p), place(q))
  <2> SUFFICES ASSUME NEW p \in 1..N, NEW q \in 1..N, p < q
               PROVE  Pins!Before(list, place(p), place(q))
    OBVIOUS
  <2> DEFINE m == place(p)
             n == place(q)
  <2>1. m \in places /\ n \in places /\ at[m] = p /\ at[n] = q
    BY <1>9
  <2> HIDE DEF m, n, at
  <2>2. m # n /\ ~(at[n] < at[m])
    BY <2>1
  <2>3. ASSUME Pins!Before(list, n, m) PROVE FALSE
    BY <1>4, <2>1, <2>2, <2>3, Zenon
  <2> QED
    BY <1>5, <2>1, <2>3, Zenon DEF m, n
<1> HIDE DEF place, at, s, N
<1>13. s \in Seq(Pins!Kinds) /\ Len(s) = N
  BY <1>1, <1>2, <1>9, <1>10
<1>14. \A key : key \in Pins!KeysOf(s) <=> \E n \in places : key = list[n]
  BY <1>2, <1>9, <1>10, <1>11, <1>13 DEF Pins!KeysOf
<1>15. \A p, q \in 1..N : p < q => Kid[s[p]] <= Kid[s[q]]
  BY <1>1, <1>2, <1>9, <1>10, <1>12 DEF Pins!Before
<1>16. \E f \in [1..N -> places] :
          (\A p, q \in 1..N : p # q => f[p] # f[q]) /\ \A p \in 1..N : s[p] = list[f[p]]
  <2> DEFINE f == [p \in 1..N |-> place(p)]
  <2>1. f \in [1..N -> places] /\ \A p, q \in 1..N : p # q => f[p] # f[q]
    BY <1>9
  <2>2. \A p \in 1..N : s[p] = list[f[p]]
    BY <1>10
  <2> HIDE DEF f
  <2> QED
    BY <2>1, <2>2
<1> QED
  BY <1>2, <1>13, <1>14, <1>15, <1>16 DEF s, N

\* A list of keys of rising ids.
Rising(s) == \A p, q \in 1..Len(s) : p < q => Kid[s[p]] < Kid[s[q]]

\* Of two such lists of the same keys, the one begins the other.
LEMMA Begins ==
  ASSUME NEW s \in Seq(Pins!Kinds), NEW t \in Seq(Pins!Kinds), Rising(s), Rising(t),
         Pins!KeysOf(s) = Pins!KeysOf(t)
  PROVE  \A i \in 1..Len(s) : i \in 1..Len(t) /\ s[i] = t[i]
<1> DEFINE A == {i \in 1..Len(s) : ~(i \in 1..Len(t) /\ s[i] = t[i])}
<1>1. /\ Len(s) \in Nat /\ Len(t) \in Nat
      /\ DOMAIN s = 1..Len(s) /\ DOMAIN t = 1..Len(t)
      /\ \A i \in 1..Len(s) : Kid[s[i]] \in Nat
      /\ \A i \in 1..Len(t) : Kid[t[i]] \in Nat
  BY KeysHaveIds DEF Pins!Kinds
<1>2. /\ \A i \in 1..Len(s) : \E j \in 1..Len(t) : s[i] = t[j]
      /\ \A i \in 1..Len(t) : \E j \in 1..Len(s) : t[i] = s[j]
  <2>1. \A i \in 1..Len(s) : s[i] \in Pins!KeysOf(s)
    BY <1>1 DEF Pins!KeysOf
  <2>2. \A i \in 1..Len(t) : t[i] \in Pins!KeysOf(t)
    BY <1>1 DEF Pins!KeysOf
  <2>3. /\ \A key \in Pins!KeysOf(t) : \E j \in 1..Len(t) : key = t[j]
        /\ \A key \in Pins!KeysOf(s) : \E j \in 1..Len(s) : key = s[j]
    BY <1>1 DEF Pins!KeysOf
  <2> QED
    BY <2>1, <2>2, <2>3
<1> SUFFICES ASSUME A # {} PROVE FALSE
  OBVIOUS
<1>3. PICK m \in A : \A k \in A : m <= k
  <2>1. A \subseteq Nat
    OBVIOUS
  <2> HIDE DEF A
  <2> QED
    BY <2>1, LeastOf
<1>4. m \in 1..Len(s) /\ ~(m \in 1..Len(t) /\ s[m] = t[m])
  BY <1>3
<1>5. \A k \in 1..Len(s) : k < m => k \in 1..Len(t) /\ s[k] = t[k]
  BY <1>1, <1>3, <1>4
<1> HIDE DEF A
<1>6. PICK j \in 1..Len(t) : s[m] = t[j]
  BY <1>2, <1>4
<1>7. ~(j < m)
  <2> SUFFICES ASSUME j < m PROVE FALSE
    OBVIOUS
  <2>1. j \in 1..Len(s) /\ s[j] = t[j]
    BY <1>1, <1>4, <1>5
  <2>2. Kid[s[j]] < Kid[s[m]]
    BY <1>4, <2>1 DEF Rising
  <2> QED
    BY <1>1, <1>4, <1>6, <2>1, <2>2
<1>8. m < j /\ m \in 1..Len(t)
  BY <1>1, <1>4, <1>6, <1>7
<1>9. Kid[t[m]] < Kid[s[m]]
  BY <1>6, <1>8 DEF Rising
<1>10. PICK i \in 1..Len(s) : t[m] = s[i]
  BY <1>2, <1>8
<1>11. CASE i < m
  <2>1. s[i] = t[i] /\ i \in 1..Len(t)
    BY <1>5, <1>11
  <2>2. Kid[t[i]] < Kid[t[m]]
    BY <1>8, <1>11, <2>1 DEF Rising
  <2> QED
    BY <1>1, <1>8, <1>10, <2>1, <2>2
<1>12. CASE m < i
  <2>1. Kid[s[m]] < Kid[s[i]]
    BY <1>4, <1>12 DEF Rising
  <2> QED
    BY <1>1, <1>4, <1>8, <1>9, <1>10, <2>1
<1> QED
  BY <1>1, <1>4, <1>8, <1>10, <1>11, <1>12

\* So two such lists are one.
LEMMA OneList ==
  ASSUME NEW s \in Seq(Pins!Kinds), NEW t \in Seq(Pins!Kinds), Rising(s), Rising(t),
         Pins!KeysOf(s) = Pins!KeysOf(t)
  PROVE  s = t
<1>1. /\ \A i \in 1..Len(s) : i \in 1..Len(t) /\ s[i] = t[i]
      /\ \A i \in 1..Len(t) : i \in 1..Len(s)
  BY Begins
<1>2. Len(s) = Len(t)
  BY <1>1
<1> QED
  BY <1>1, <1>2

\* Keys of one id each, in the order of their ids, rise.
LEMMA OneOfEachRises ==
  ASSUME NEW s \in Seq(Pins!Kinds), Pins!OneOfEachId(s),
         \A p, q \in 1..Len(s) : p < q => Kid[s[p]] <= Kid[s[q]]
  PROVE  Rising(s)
<1>1. /\ DOMAIN s = 1..Len(s) /\ Len(s) \in Nat
      /\ \A i \in 1..Len(s) : Kid[s[i]] \in Nat
  BY KeysHaveIds DEF Pins!Kinds
<1> SUFFICES ASSUME NEW p \in 1..Len(s), NEW q \in 1..Len(s), p < q
             PROVE  Kid[s[p]] < Kid[s[q]]
  BY DEF Rising
<1>2. Kid[s[p]] # Kid[s[q]] /\ Kid[s[p]] <= Kid[s[q]]
  BY <1>1 DEF Pins!OneOfEachId
<1> QED
  BY <1>1, <1>2

\* Sorting keeps what a list has, and one of each id.
LEMMA SortingKeeps ==
  ASSUME NEW list \in Seq(Pins!Kinds), NEW t, t = Pins!Sorted(list, DOMAIN list)
  PROVE  /\ t \in Seq(Pins!Kinds) /\ Pins!KeysOf(t) = Pins!KeysOf(list) /\ Len(t) = Len(list)
         /\ Pins!OneOfEachId(list) => Pins!OneOfEachId(t)
         /\ \A p, q \in 1..Len(t) : p < q => Kid[t[p]] <= Kid[t[q]]
<1>1. DOMAIN list = 1..Len(list) /\ Cardinality(DOMAIN list) = Len(list)
  <2>1. DOMAIN list = 1..Len(list) /\ Len(list) \in Nat
    OBVIOUS
  <2>2. Cardinality(1..Len(list)) = Len(list)
    BY <2>1, FS_Interval
  <2> QED
    BY <2>1, <2>2
<1>2. \A key : key \in Pins!KeysOf(t) <=> \E n \in DOMAIN list : key = list[n]
  BY SortedTells
<1>3. Pins!KeysOf(t) = Pins!KeysOf(list)
  BY <1>2 DEF Pins!KeysOf
<1>4. ASSUME Pins!OneOfEachId(list) PROVE Pins!OneOfEachId(t)
  <2>1. DOMAIN t = 1..Len(list)
    BY <1>1, SortedTells
  <2> SUFFICES ASSUME NEW p \in 1..Len(list), NEW q \in 1..Len(list), p # q
               PROVE  Kid[t[p]] # Kid[t[q]]
    BY <2>1 DEF Pins!OneOfEachId
  <2> DEFINE D == DOMAIN list
  <2>2. D \subseteq DOMAIN list /\ Cardinality(D) = Len(list) /\ t = Pins!Sorted(list, D)
    BY <1>1
  <2> HIDE DEF D
  <2>3. PICK f \in [1..Cardinality(D) -> D] :
            /\ \A i, j \in 1..Cardinality(D) : i # j => f[i] # f[j]
            /\ \A i \in 1..Cardinality(D) : Pins!Sorted(list, D)[i] = list[f[i]]
    BY <2>2, SortedTells
  <2>4. /\ f[p] \in DOMAIN list /\ f[q] \in DOMAIN list /\ f[p] # f[q]
        /\ t[p] = list[f[p]] /\ t[q] = list[f[q]]
    BY <2>2, <2>3
  <2> QED
    BY <1>4, <2>3, <2>4 DEF Pins!OneOfEachId
<1> QED
  BY <1>1, <1>3, <1>4, SortedTells

\* Both one of each id, the same keys sort alike.
LEMMA SameKeysSortAlike ==
  ASSUME NEW list \in Seq(Pins!Kinds), NEW k \in Seq(Pins!Kinds),
         Pins!OneOfEachId(list), Pins!OneOfEachId(k), Pins!KeysOf(list) = Pins!KeysOf(k),
         \A p, q \in 1..Len(k) : p < q => Kid[k[p]] <= Kid[k[q]]
  PROVE  Pins!Sorted(list, DOMAIN list) = k
<1> DEFINE t == Pins!Sorted(list, DOMAIN list)
<1>1. /\ t \in Seq(Pins!Kinds) /\ Pins!KeysOf(t) = Pins!KeysOf(k) /\ Len(t) = Len(list)
      /\ \A p, q \in 1..Len(t) : p < q => Kid[t[p]] <= Kid[t[q]]
  BY SortingKeeps
<1>2. Pins!OneOfEachId(t)
  BY SortingKeeps
<1> HIDE DEF t
<1>3. Rising(t) /\ Rising(k)
  BY <1>1, <1>2, OneOfEachRises
<1>4. t = k
  BY <1>1, <1>3, OneList
<1> QED
  BY <1>4 DEF t

\* What the script keeps of a list: usable keys, in order.
KeptWell(k) ==
  /\ k \in Seq(Pins!Kinds)
  /\ \A n \in 1..Len(k) : Usable[k[n]]
  /\ \A p, q \in 1..Len(k) : p < q => Kid[k[p]] <= Kid[k[q]]

\* Whatever the list was.
LEMMA KeepsWell ==
  ASSUME NEW list \in Seq(Pins!Kinds) PROVE KeptWell(Pins!Kept(list))
<1> DEFINE places == {n \in DOMAIN list : Usable[list[n]]}
           t == Pins!Sorted(list, places)
<1>1. /\ t \in Seq(Pins!Kinds) /\ Len(t) = Cardinality(places)
      /\ \A key : key \in Pins!KeysOf(t) <=> \E n \in places : key = list[n]
      /\ \A p, q \in 1..Cardinality(places) : p < q => Kid[t[p]] <= Kid[t[q]]
  <2>1. places \subseteq DOMAIN list
    OBVIOUS
  <2> HIDE DEF places
  <2> QED
    BY <2>1, SortedTells
<1>2. \A n \in 1..Len(t) : Usable[t[n]]
  <2> SUFFICES ASSUME NEW n \in 1..Len(t) PROVE Usable[t[n]]
    OBVIOUS
  <2>1. t[n] \in Pins!KeysOf(t)
    <3>1. DOMAIN t = 1..Len(t)
      BY <1>1
    <3> HIDE DEF t
    <3> QED
      BY <3>1 DEF Pins!KeysOf
  <2>2. PICK m \in places : t[n] = list[m]
    BY <1>1, <2>1
  <2> QED
    BY <2>2
<1>3. Pins!Kept(list) = t
  BY DEF Pins!Kept
<1> HIDE DEF t, places
<1> QED
  BY <1>1, <1>2, <1>3 DEF KeptWell

\* What a run of the script fetched is usable, and so is what is in the file; a
\* check that ended told whether the two are the same.
PinInv ==
  /\ published \in Seq(Pins!Kinds)
  /\ KeptWell(usable_keys)
  /\ pinned # NotJson => KeptWell(pinned) /\ pinned # <<>>
  /\ pin_step \in {"none", "fetched", "opened", "ended"}
  /\ pin_step \in {"fetched", "opened"} => usable_keys # <<>>
  /\ pin_step = "opened" => write
  /\ pin_step = "ended" /\ ~write /\ pinned # NotJson =>
       (pin_exit = 0 => Pins!Same(pinned)) /\ (pin_exit = 1 => ~Pins!Same(pinned))

\* Google's lists are lists of keys.
LEMMA ListsAreOfKeys == ASSUME NEW list \in Pins!Lists PROVE list \in Seq(Pins!Kinds)
<1>1. PICK n \in 0..MaxKeys : list \in [1..n -> Pins!Kinds]
  BY DEF Pins!Lists
<1> QED
  BY <1>1, KeysHaveIds

\* It begins so.
LEMMA PinInit == Pins!Init => PinInv
<1> SUFFICES ASSUME Pins!Init PROVE PinInv
  OBVIOUS
<1>1. published \in Seq(Pins!Kinds)
  BY ListsAreOfKeys DEF Pins!Init
<1>2. KeptWell(pinned) /\ pinned # <<>>
  BY <1>1, KeepsWell DEF Pins!Init
<1>3. KeptWell(<<>>)
  BY DEF KeptWell
<1> QED
  BY <1>1, <1>2, <1>3 DEF Pins!Init, PinInv

\* Every step keeps it.
LEMMA PinStep == PinInv /\ [Pins!Next]_pin_vars => PinInv'
<1> SUFFICES ASSUME PinInv, [Pins!Next]_pin_vars PROVE PinInv'
  OBVIOUS
<1>1. ASSUME NEW asked \in BOOLEAN, NEW could \in BOOLEAN, Pins!Fetch(asked, could) PROVE PinInv'
  <2>1. KeptWell(Pins!Kept(published)) /\ KeptWell(<<>>)
    BY KeepsWell DEF PinInv, KeptWell
  <2>2. /\ UNCHANGED <<published, pinned>>
        /\ \/ pin_step' = "fetched" /\ pin_exit' = 9 /\ usable_keys' = Pins!Kept(published)
              /\ Pins!Kept(published) # <<>>
           \/ pin_step' = "ended" /\ pin_exit' = 2 /\ usable_keys' = <<>>
    BY <1>1 DEF Pins!Fetch, Pins!Ends
  <2> DEFINE kept == Pins!Kept(published)
  <2>3. CASE /\ pin_step' = "fetched" /\ pin_exit' = 9 /\ usable_keys' = kept /\ kept # <<>>
    <3> HIDE DEF kept
    <3>1. KeptWell(usable_keys)' /\ usable_keys' # <<>>
      BY <2>1, <2>3 DEF KeptWell, kept
    <3> QED
      BY <2>2, <2>3, <3>1 DEF PinInv, KeptWell
  <2>4. CASE pin_step' = "ended" /\ pin_exit' = 2 /\ usable_keys' = <<>>
    <3>1. KeptWell(usable_keys)'
      BY <2>1, <2>4 DEF KeptWell
    <3> QED
      BY <2>2, <2>4, <3>1 DEF PinInv, KeptWell
  <2> QED
    BY <2>2, <2>3, <2>4
<1>2. CASE Pins!Compare
  <2>1. pin_step = "fetched" /\ UNCHANGED <<published, write, usable_keys>>
    BY <1>2 DEF Pins!Compare
  <2>2. CASE pinned = NotJson
    <3>1. pin_step' = "ended" /\ pinned' = pinned
      BY <1>2, <2>2 DEF Pins!Compare, Pins!Ends
    <3> QED
      BY <2>1, <2>2, <3>1 DEF PinInv, KeptWell
  <2>3. CASE pinned # NotJson /\ ~write
    <3>1. pin_step' = "ended" /\ pinned' = pinned /\ pin_exit' = (IF Pins!Same(pinned) THEN 0 ELSE 1)
      BY <1>2, <2>3 DEF Pins!Compare, Pins!Ends
    <3>2. Pins!Same(pinned)' = Pins!Same(pinned)
      BY <2>1, <3>1 DEF Pins!Same
    <3> QED
      BY <2>1, <2>3, <3>1, <3>2 DEF PinInv, KeptWell
  <2>4. CASE pinned # NotJson /\ write
    <3>1. pin_step' = "opened" /\ pinned' = NotJson
      BY <1>2, <2>4 DEF Pins!Compare
    <3> QED
      BY <2>1, <2>4, <3>1 DEF PinInv, KeptWell
  <2> QED
    BY <2>2, <2>3, <2>4
<1>3. CASE Pins!Write
  <2>1. pin_step = "opened" /\ pinned' = usable_keys /\ pin_step' = "ended" /\ UNCHANGED <<published, write, usable_keys>>
    BY <1>3 DEF Pins!Write, Pins!Ends
  <2> QED
    BY <2>1 DEF PinInv, KeptWell
<1>4. CASE Pins!Stop
  <2>1. pin_step' = "ended" /\ pin_exit' = 9 /\ UNCHANGED <<published, pinned, write, usable_keys>>
    BY <1>4 DEF Pins!Stop, Pins!Ends
  <2> QED
    BY <2>1 DEF PinInv, KeptWell
<1>5. CASE Pins!Change
  <2>1. published' \in Pins!Lists /\ UNCHANGED <<pinned, pin_step, write, usable_keys, pin_exit>>
    BY <1>5 DEF Pins!Change
  <2>2. published' \in Seq(Pins!Kinds)
    BY <2>1, ListsAreOfKeys
  <2>3. Pins!Same(pinned)' = Pins!Same(pinned)
    BY <2>1 DEF Pins!Same
  <2> QED
    BY <2>1, <2>2, <2>3 DEF PinInv, KeptWell
<1>6. CASE UNCHANGED pin_vars
  <2>1. UNCHANGED <<published, pinned, pin_step, write, usable_keys, pin_exit>>
    BY <1>6 DEF pin_vars
  <2>2. Pins!Same(pinned)' = Pins!Same(pinned)
    BY <2>1 DEF Pins!Same
  <2> QED
    BY <2>1, <2>2 DEF PinInv, KeptWell
<1> QED
  BY <1>1, <1>2, <1>3, <1>4, <1>5, <1>6 DEF Pins!Next

\* The invariant has what the script promises.
LEMMA PinSafe == PinInv => Pins!Safe
<1> SUFFICES ASSUME PinInv PROVE Pins!Safe
  OBVIOUS
<1>1. Pins!PinnedIsUsable
  <2> SUFFICES ASSUME pinned # NotJson
               PROVE  pinned # <<>> /\ \A key \in Pins!KeysOf(pinned) : Usable[key]
    BY DEF Pins!PinnedIsUsable, Pins!Readable
  <2>1. pinned # <<>> /\ KeptWell(pinned)
    BY DEF PinInv
  <2> QED
    BY <2>1 DEF KeptWell, Pins!KeysOf
<1>2. Pins!CheckTells
  <2> SUFFICES ASSUME pin_step = "ended", ~write, pinned # NotJson,
                      Pins!OneOfEachId(usable_keys), Pins!OneOfEachId(pinned)
               PROVE  /\ pin_exit = 0 => Pins!KeysOf(pinned) = Pins!KeysOf(usable_keys)
                      /\ pin_exit = 1 => Pins!KeysOf(pinned) # Pins!KeysOf(usable_keys)
    BY DEF Pins!CheckTells, Pins!Readable
  <2>1. pinned \in Seq(Pins!Kinds) /\ KeptWell(usable_keys)
    BY DEF PinInv, KeptWell
  <2>2. Pins!Same(pinned) => Pins!KeysOf(pinned) = Pins!KeysOf(usable_keys)
    BY <2>1, SortingKeeps DEF Pins!Same
  <2>3. Pins!KeysOf(pinned) = Pins!KeysOf(usable_keys) => Pins!Same(pinned)
    BY <2>1, SameKeysSortAlike DEF Pins!Same, KeptWell
  <2> QED
    BY <2>2, <2>3 DEF PinInv
<1> QED
  BY <1>1, <1>2 DEF Pins!Safe

-----------------------------------------------------------------------------
(* The image stripper *)

\* What only purged packages list.
Purged == Strip!PlacesOf(Strip!ToSet(Purge)) \ Strip!PlacesOf(Strip!Staying)

\* The alternatives of which every choice is gone.
Dropped == {name \in DOMAIN was.db : Strip!Orphaned(name)}

\* What is not there any more, or ever: nothing comes that was not there.
TreeInv ==
  /\ was \in Images /\ strip_at \in {"python", "review", "purge", "alternatives", "records", "tidy", "tidy logins", "bits", "check", "passed", "failed"}
  /\ Strip!TypeOK
  /\ files \subseteq was.files /\ DOMAIN links \subseteq DOMAIN was.links /\ dirs \subseteq was.dirs

\* Before the first package: the image as it was.
UntouchedInv ==
  strip_at \in {"python", "review"} =>
    /\ files = was.files /\ DOMAIN links = DOMAIN was.links /\ dirs = was.dirs
    /\ todo = Purge /\ gone_places = {} /\ folders = {}

Stages == {"purge", "alternatives", "records", "tidy", "tidy logins", "bits", "check", "passed"}

\* Once every list is read.
ReviewedInv ==
  strip_at \in Stages =>
    /\ Strip!ToSet(Purge) \subseteq was.status
    /\ keep = Strip!PlacesOf(Strip!Staying)
    /\ gone_places \subseteq Purged /\ folders \subseteq Purged
    /\ gone_places \cap Strip!Present = {}

\* While packages are purged: what is gone is what they list, to the last file.
PurgeInv ==
  strip_at = "purge" =>
    /\ files = was.files \ gone_places /\ DOMAIN links = DOMAIN was.links \ gone_places /\ dirs = was.dirs
    /\ folders \subseteq was.dirs
    /\ \A p \in Strip!ToSet(Purge) : p \in Strip!ToSet(todo) \/ Strip!PlacesOf({p}) \subseteq keep \cup gone_places \cup folders

\* Once they are: what they alone list is gone, or a folder that holds something;
\* all else stays but the links of what had no other choice, and the tools'.
LeftPlaces ==
  /\ Purged \subseteq gone_places \cup folders
  /\ folders \subseteq was.dirs
  /\ \A folder \in folders \cap dirs : \E place \in Strip!Present : Strip!Inside(folder, place)
  /\ \A place \in was.files : place \in gone_places \cup files \/ Strip!OfTools(place)
  /\ \A place \in DOMAIN was.links : \/ place \in gone_places \cup DOMAIN links \/ Strip!OfTools(place)
                                     \/ \E name \in Dropped : place \in Strip!LinksOf(was, name)
  /\ \A place \in was.dirs : place \in folders \cup dirs \/ Strip!OfTools(place)
LeftInv ==
  /\ strip_at \in Stages \ {"purge"} => LeftPlaces
  /\ strip_at \in Stages \ {"purge", "alternatives"} =>
       \A name \in Dropped : Strip!LinksOf(was, name) \cap DOMAIN links = {}

\* What dpkg still says, and what Python still has.
RecordsInv ==
  /\ strip_at \in {"python", "review", "purge", "alternatives", "records"} => status = was.status
  /\ strip_at \in {"tidy", "tidy logins", "bits", "check", "passed"} =>
       status = Strip!Staying /\ records \cap Strip!ToSet(Purge) = {}
  /\ strip_at \in {"review"} \cup Stages => python = {}
  /\ strip_at = "python" => python = was.python
  /\ strip_at \in {"python", "review", "purge", "alternatives"} => db = DOMAIN was.db

\* What the last steps have set right.
RightInv ==
  /\ strip_at \in {"bits", "check", "passed"} => \A a \in DOMAIN accounts : accounts[a] = None \/ Strip!Exists(accounts[a])
  /\ strip_at \in {"check", "passed"} => Strip!SetIdEntries = {}

\* The inductive invariant.
StripInv ==
  /\ TreeInv /\ UntouchedInv /\ ReviewedInv /\ PurgeInv /\ LeftInv /\ RecordsInv /\ RightInv
  /\ Strip!RefusesOnlySurprises

\* The names of a path. The provers do not know a name for a string.
Word == STRING \cup {"etc", "apt", "usr", "bin", "python"}

\* A place begins with another where its first names are the other's.
LEMMA PrefixByNames ==
  ASSUME NEW s \in Seq(Word), NEW t \in Seq(Word)
  PROVE  Strip!IsPrefix(s, t) <=> Len(s) <= Len(t) /\ \A i \in 1..Len(s) : s[i] = t[i]
<1> DEFINE m == Len(s)
           a == SubSeq(s, 1, m)
           b == SubSeq(t, 1, m)
<1>1. m \in Nat /\ Len(t) \in Nat
  OBVIOUS
<1>2. a \in Seq(Word) /\ Len(a) = m /\ \A i \in 1..m : a[i] = s[i]
  BY <1>1
<1>3. ASSUME m <= Len(t) PROVE b \in Seq(Word) /\ Len(b) = m /\ \A i \in 1..m : b[i] = t[i]
  BY <1>1, <1>3
<1>4. Strip!IsPrefix(s, t) <=> m <= Len(t) /\ a = b
  BY DEF Strip!IsPrefix
<1> HIDE DEF a, b
<1>5. ASSUME m <= Len(t), \A i \in 1..m : s[i] = t[i] PROVE a = b
  BY <1>1, <1>2, <1>3, <1>5, SeqEqual
<1>6. ASSUME m <= Len(t), a = b PROVE \A i \in 1..m : s[i] = t[i]
  BY <1>1, <1>2, <1>3, <1>6
<1> QED
  BY <1>4, <1>5, <1>6

\* What a place inside a folder has inside it is inside the folder.
LEMMA InsideOfInside ==
  ASSUME NEW r \in Seq(Word), NEW s \in Seq(Word), NEW t \in Seq(Word)
  PROVE  /\ Strip!IsPrefix(r, s) /\ Strip!IsPrefix(s, t) => Strip!IsPrefix(r, t)
         /\ Strip!Inside(r, s) /\ Strip!Inside(s, t) => Strip!Inside(r, t)
<1>1. ASSUME Strip!IsPrefix(r, s), Strip!IsPrefix(s, t) PROVE Strip!IsPrefix(r, t)
  BY <1>1, PrefixByNames
<1>2. ASSUME Strip!Inside(r, s), Strip!Inside(s, t) PROVE Strip!Inside(r, t)
  <2>1. Strip!IsPrefix(r, s) /\ Strip!IsPrefix(s, t) /\ r # s
    BY <1>2 DEF Strip!Inside, Strip!IsStrictPrefix
  <2>2. Strip!IsPrefix(r, t)
    BY <1>1, <2>1
  <2>3. ASSUME r = t PROVE FALSE
    <3>1. Len(r) = Len(s) /\ \A i \in 1..Len(r) : r[i] = s[i]
      BY <2>1, <2>3, PrefixByNames
    <3> QED
      BY <2>1, <3>1, SeqEqual
  <2> QED
    BY <2>2, <2>3 DEF Strip!Inside, Strip!IsStrictPrefix
<1> QED
  BY <1>1, <1>2

\* A place is inside the folder that it lies in.
LEMMA LiesInFront ==
  ASSUME NEW s \in Seq(Word), Len(s) > 1
  PROVE  /\ Strip!Front(s) \in Seq(Word) /\ Strip!Inside(Strip!Front(s), s)
<1> DEFINE f == SubSeq(s, 1, Len(s) - 1)
<1>1. f \in Seq(Word) /\ Len(f) = Len(s) - 1 /\ \A i \in 1..(Len(s) - 1) : f[i] = s[i]
  OBVIOUS
<1>2. Strip!Front(s) = f
  BY DEF Strip!Front
<1> HIDE DEF f
<1>3. Strip!IsPrefix(f, s)
  BY <1>1, PrefixByNames
<1>4. f # s
  BY <1>1
<1> QED
  BY <1>1, <1>2, <1>3, <1>4 DEF Strip!Inside, Strip!IsStrictPrefix

\* Of two beginnings of a place one is a beginning of the other.
LEMMA BeginningsCompare ==
  ASSUME NEW r \in Seq(Word), NEW s \in Seq(Word), NEW t \in Seq(Word),
         Strip!IsPrefix(r, t), Strip!IsPrefix(s, t)
  PROVE  Strip!IsPrefix(r, s) \/ Strip!Inside(s, r)
<1>1. CASE Len(r) <= Len(s)
  BY <1>1, PrefixByNames
<1>2. CASE Len(s) < Len(r)
  <2>1. Strip!IsPrefix(s, r)
    BY <1>2, PrefixByNames
  <2> QED
    BY <1>2, <2>1 DEF Strip!Inside, Strip!IsStrictPrefix
<1> QED
  BY <1>1, <1>2

\* The tools' own state is at a place.
LEMMA ToolsArePlaces == Strip!ToolState \subseteq Seq(Word)
<1>1. "etc" \in Word /\ "apt" \in Word
  BY DEF Word
<1>2. <<"etc", "apt">> \in Seq(Word)
  BY <1>1
<1> QED
  BY <1>2 DEF Strip!ToolState

\* What is inside the tools' is the tools'.
LEMMA InsideTools ==
  ASSUME NEW r \in Seq(Word), NEW s \in Seq(Word), Strip!Inside(r, s), Strip!OfTools(r)
  PROVE  Strip!OfTools(s)
BY ToolsArePlaces, InsideOfInside DEF Strip!OfTools, Strip!Inside, Strip!IsStrictPrefix

\* Python is not the tools', and a path that does not begin with a link is a place.
LEMMA PythonIsAPlace ==
  /\ Strip!Bin \o <<"python">> = <<"usr", "bin", "python">>
  /\ Strip!Where(<<"usr", "bin", "python">>) = <<"usr", "bin", "python">>
  /\ ~Strip!OfTools(<<"usr", "bin", "python">>)
<1> DEFINE u == <<"usr", "bin">>
           v == <<"python">>
           p == <<"usr", "bin", "python">>
           t == <<"etc", "apt">>
<1>1. /\ "usr" \in Word /\ "bin" \in Word /\ "python" \in Word /\ "etc" \in Word /\ "apt" \in Word
      /\ "usr" # "bin" /\ "usr" # "etc"
  BY DEF Word
<1>2. /\ u \in Seq(Word) /\ v \in Seq(Word) /\ p \in Seq(Word) /\ t \in Seq(Word)
      /\ Len(u) = 2 /\ Len(v) = 1 /\ Len(p) = 3 /\ Len(t) = 2
      /\ p[1] = "usr" /\ p[2] = "bin" /\ p[3] = "python" /\ t[1] = "etc"
      /\ u[1] = "usr" /\ u[2] = "bin" /\ v[1] = "python"
  BY <1>1
<1> HIDE DEF u, v, p, t
<1>3. u \o v \in Seq(Word) /\ Len(u \o v) = 3
  BY <1>2, ConcatProperties
<1>4. (u \o v)[1] = "usr" /\ (u \o v)[2] = "bin" /\ (u \o v)[3] = "python"
  BY <1>2, ConcatProperties
<1>5. \A i \in 1..3 : (u \o v)[i] = p[i]
  <2>1. ASSUME NEW i \in 1..3 PROVE i = 1 \/ i = 2 \/ i = 3
    OBVIOUS
  <2> QED
    BY <1>2, <1>4, <2>1
<1>6. u \o v = p
  BY <1>2, <1>3, <1>5, SeqEqual
<1>7. ~Strip!OfTools(p)
  <2>1. ~Strip!IsPrefix(t, p)
    BY <1>1, <1>2, PrefixByNames
  <2> QED
    BY <2>1 DEF Strip!OfTools, Strip!ToolState, t
<1>8. Strip!Where(p) = p
  <2>1. Head(p) = "usr"
    BY <1>2
  <2> QED
    BY <1>1, <2>1 DEF Strip!Where
<1> QED
  BY <1>6, <1>7, <1>8 DEF Strip!Bin, u, v, p

\* What an image is taken to be.
LEMMA ImageFacts ==
  ASSUME was \in Images
  PROVE  /\ Strip!IsTree(was) /\ Strip!HasAlternatives(was)
         /\ \A p \in was.status : IsFiniteSet(was.lists[p])
         /\ was.python \subseteq Strip!Installers \cup {"ensurepip"}
         /\ \A place \in Strip!PlacesOf(Strip!Staying) : ~Strip!OfTools(place)
         /\ \A folder \in Purged \cap was.dirs, t \in Strip!ToolState : ~Strip!Inside(folder, t)
<1>1. Strip!WellMade(was)
  BY ImagesAreWellMade
<1> DEFINE stay == Strip!PlacesIn(was, was.status \ Strip!ToSet(Purge))
<1>2. stay = Strip!PlacesOf(Strip!Staying) /\ Purged = Strip!PlacesIn(was, Strip!ToSet(Purge)) \ stay
  BY DEF Strip!PlacesOf, Strip!Staying, Purged
<1>3. /\ Strip!IsTree(was) /\ Strip!HasAlternatives(was)
      /\ \A p \in was.status : IsFiniteSet(was.lists[p])
      /\ was.python \subseteq Strip!Installers \cup {"ensurepip"}
      /\ \A place \in stay : ~Strip!OfTools(place)
      /\ \A folder \in (Strip!PlacesIn(was, Strip!ToSet(Purge)) \ stay) \cap was.dirs, t \in Strip!ToolState :
           ~Strip!Inside(folder, t)
  <2>1. \A S : Strip!IsFiniteSet(S) <=> IsFiniteSet(S)
    BY DEF Strip!IsFiniteSet, IsFiniteSet
  <2> QED
    BY <1>1, <2>1, Zenon DEF Strip!WellMade
<1> HIDE DEF stay
<1> QED
  BY <1>2, <1>3

\* What is taken of an alternative.
LEMMA AlternativeFacts ==
  ASSUME was \in Images, NEW name \in DOMAIN was.db
  PROVE  /\ was.db[name].choices # {}
         /\ \A choice \in was.db[name].choices : Strip!Where(choice) \in was.files /\ ~Strip!OfTools(Strip!Where(choice))
         /\ \A place \in Strip!LinksOf(was, name) :
              /\ place \notin was.files /\ place \notin Strip!PlacesOf(Strip!Staying) /\ place \notin Purged
              /\ ~Strip!OfTools(place)
              /\ \A other \in DOMAIN was.db : other # name => place \notin Strip!LinksOf(was, other)
              /\ \A folder \in Purged \cap was.dirs : ~Strip!Inside(folder, place)
<1>1. Strip!HasAlternatives(was)
  BY ImageFacts
<1> QED
  BY <1>1 DEF Strip!HasAlternatives, Strip!PlacesOf, Strip!Staying, Purged

\* The places there are.
LEMMA PlaceFacts ==
  ASSUME TreeInv
  PROVE  /\ was.files \cap DOMAIN was.links = {} /\ was.files \cap was.dirs = {} /\ was.dirs \cap DOMAIN was.links = {}
         /\ was.files \cup DOMAIN was.links \cup was.dirs \subseteq Seq(Word) \ {<<>>}
         /\ Strip!Present \subseteq Seq(Word) \ {<<>>}
         /\ Strip!Present \subseteq was.files \cup DOMAIN was.links \cup was.dirs
<1>1. Strip!IsTree(was)
  BY ImageFacts DEF TreeInv
<1>2. Seq(STRING) \subseteq Seq(Word)
  BY DEF Word
<1> QED
  BY <1>1, <1>2 DEF Strip!IsTree, TreeInv, Strip!Present

\* Why a build may be refused.
Excused ==
  \/ ~Strip!ToSet(Purge) \subseteq was.status \/ was.diverts \cap Strip!ToSet(Purge) # {}
  \/ \E p \in was.status : Strip!Cardinality(was.lists[p]) > 1
  \/ \E p \in Strip!ToSet(Purge) : was.lists[p] = {}
  \/ python \cap Strip!Installers # {}
  \/ ~\E i \in DOMAIN NoLogin : NoLogin[i] \in was.files \ Purged
  \/ \E place \in Strip!WasPresent : /\ Strip!Front(place) = Strip!Bin /\ Strip!Last(place) \in Forbidden
                                     /\ place \notin Purged
                                     /\ \A name \in DOMAIN was.db : place \notin Strip!LinksOf(was, name)
  \/ \E name \in DOMAIN was.db :
       /\ \E place \in Strip!LinksOf(was, name) : Strip!Last(place) \in Forbidden
       /\ \E choice \in was.db[name].choices : Strip!Where(choice) \notin Purged
  \/ Strip!Bin \o <<"python">> \notin was.files \ Purged

\* The property says no less.
LEMMA ExcusedIsRefused ==
  /\ (strip_at = "failed" => Excused) <=> Strip!RefusesOnlySurprises
  /\ Excused' => Strip!RefusesOnlySurprises'
BY Zenon DEF Excused, Strip!RefusesOnlySurprises, Purged

\* What is said of the image at the start stays so.
LEMMA WasStays ==
  ASSUME was' = was
  PROVE  /\ Purged' = Purged /\ Strip!WasPresent' = Strip!WasPresent
         /\ Strip!PlacesOf(Strip!Staying)' = Strip!PlacesOf(Strip!Staying)
         /\ Strip!Staying' = Strip!Staying
         /\ \A p : Strip!PlacesOf({p})' = Strip!PlacesOf({p})
         /\ \A name : Strip!LinksOf(was, name)' = Strip!LinksOf(was, name)
         /\ gone_places' = gone_places => Dropped' = Dropped
         /\ python' = python => Excused' = Excused
<1>1. /\ Strip!Staying' = Strip!Staying
      /\ \A p : Strip!PlacesOf({p})' = Strip!PlacesOf({p})
      /\ \A name : Strip!LinksOf(was, name)' = Strip!LinksOf(was, name)
      /\ Strip!PlacesOf(Strip!ToSet(Purge))' = Strip!PlacesOf(Strip!ToSet(Purge))
      /\ Strip!WasPresent' = Strip!WasPresent
  BY DEF Strip!Staying, Strip!PlacesOf, Strip!WasPresent
<1>2. Strip!PlacesOf(Strip!Staying)' = Strip!PlacesOf(Strip!Staying)
  BY <1>1 DEF Strip!PlacesOf
<1>3. Purged' = Purged
  BY <1>1, <1>2 DEF Purged
<1>4. gone_places' = gone_places => Dropped' = Dropped
  BY DEF Dropped, Strip!Orphaned
<1>5. python' = python => Excused' = Excused
  BY <1>1, <1>3 DEF Excused
<1> QED
  BY <1>1, <1>2, <1>3, <1>4, <1>5

\* An image that only loses what it has is still a tree, while no place loses
\* its folder or keeps a bit that is nowhere.
LEMMA TreeShrinks ==
  ASSUME TreeInv, was' = was,
         strip_at' \in {"review", "failed"} \cup Stages,
         files' \subseteq files, DOMAIN links' \subseteq DOMAIN links, dirs' \subseteq dirs,
         setid' \subseteq Strip!Present',
         \A place \in Strip!Present' : Len(place) > 1 => Strip!Front(place) \in dirs',
         status' \subseteq status, db' \subseteq db,
         todo' = <<>> \/ todo' \in Strip!Suffixes(Purge)
  PROVE  TreeInv'
<1>1. Strip!TypeOK
  BY DEF TreeInv
<1>2. strip_at' \in {"python", "review", "purge", "alternatives", "records", "tidy", "tidy logins", "bits", "check", "passed", "failed"}
  BY DEF Stages
<1>3. Strip!TypeOK'
  BY <1>1 DEF Strip!TypeOK
<1> QED
  BY <1>2, <1>3 DEF TreeInv

\* The same where no place is lost.
LEMMA TreeStays ==
  ASSUME TreeInv, was' = was,
         strip_at' \in {"review", "failed"} \cup Stages,
         files' = files, links' = links, dirs' = dirs, setid' \subseteq setid,
         status' \subseteq status, db' \subseteq db,
         todo' = <<>> \/ todo' \in Strip!Suffixes(Purge)
  PROVE  TreeInv' /\ Strip!Present' = Strip!Present
<1>1. Strip!Present' = Strip!Present
  BY DEF Strip!Present
<1>2. Strip!TypeOK
  BY DEF TreeInv
<1> QED
  BY <1>1, <1>2, TreeShrinks DEF Strip!TypeOK

\* A build that is refused leaves all as it was.
LEMMA Refusing ==
  ASSUME StripInv, strip_at' = "failed", Excused,
         UNCHANGED <<was, python, files, links, dirs, setid, status, db, todo>>
  PROVE  StripInv'
<1>1. TreeInv'
  <2>1. Strip!TypeOK
    BY DEF StripInv, TreeInv
  <2> QED
    BY <2>1, TreeStays DEF StripInv, Strip!TypeOK
<1>2. Strip!RefusesOnlySurprises'
  <2>1. Excused'
    BY WasStays
  <2> QED
    BY <2>1, ExcusedIsRefused
<1> QED
  BY <1>1, <1>2 DEF StripInv, UntouchedInv, ReviewedInv, PurgeInv, LeftInv, RecordsInv, RightInv, Stages

\* It begins so.
LEMMA StripInit == Strip!Init => StripInv
<1> SUFFICES ASSUME Strip!Init PROVE StripInv
  OBVIOUS
<1>1. was \in Images /\ strip_at = "python" /\ Strip!IsTree(was)
  BY ImageFacts DEF Strip!Init
<1>2. todo = <<>> \/ todo \in Strip!Suffixes(Purge)
  <2>1. todo = Purge /\ Purge \in Seq(STRING)
    BY ImagesAreWellMade DEF Strip!Init
  <2>2. ASSUME Purge # <<>> PROVE SubSeq(Purge, 1, Len(Purge)) = Purge /\ Len(Purge) >= 1
    BY <2>1, <2>2
  <2> QED
    BY <2>1, <2>2 DEF Strip!Suffixes
<1>3. Strip!TypeOK
  BY <1>1, <1>2 DEF Strip!Init, Strip!TypeOK, Strip!IsTree, Strip!Present
<1>4. TreeInv
  BY <1>1, <1>3 DEF TreeInv, Strip!Init
<1>5. Strip!RefusesOnlySurprises
  BY <1>1 DEF Strip!RefusesOnlySurprises
<1> QED
  BY <1>1, <1>4, <1>5 DEF StripInv, Strip!Init, UntouchedInv, ReviewedInv, PurgeInv, LeftInv, RecordsInv, RightInv, Stages

\* Python loses its installers, or the build is refused.
LEMMA PythonStep == StripInv /\ Strip!StripPythonInstallers => StripInv'
<1> SUFFICES ASSUME StripInv, Strip!StripPythonInstallers PROVE StripInv'
  OBVIOUS
<1>1. /\ strip_at = "python"
      /\ UNCHANGED <<was, files, links, dirs, setid, status, records, db, keep, gone_places, folders, todo, shells, accounts>>
  BY DEF Strip!StripPythonInstallers, Strip!tree, Strip!dpkg, Strip!sets, Strip!logins
<1>2. CASE python \cap Strip!Installers # {} /\ strip_at' = "failed" /\ python' = python
  BY <1>1, <1>2, Refusing DEF Excused
<1>3. CASE strip_at' = "review" /\ python' = python \ (Strip!Installers \cup {"ensurepip"})
  <2>1. TreeInv'
    BY <1>1, <1>3, TreeStays DEF StripInv, TreeInv, Strip!TypeOK
  <2>2. Strip!RefusesOnlySurprises'
    BY <1>3 DEF Strip!RefusesOnlySurprises
  <2>3. UntouchedInv'
    BY <1>1, <1>3 DEF StripInv, UntouchedInv
  <2>4. python' = {}
    BY <1>1, <1>3, ImageFacts DEF StripInv, RecordsInv, TreeInv
  <2> QED
    BY <1>1, <1>3, <2>1, <2>2, <2>3, <2>4 DEF StripInv, ReviewedInv, PurgeInv, LeftInv, RecordsInv, RightInv, Stages
<1> QED
  BY <1>1, <1>2, <1>3 DEF Strip!StripPythonInstallers, Strip!Fail, Strip!Installers

\* The libraries' cardinality is one.
LEMMA StripCounts == \A S : Strip!Cardinality(S) = Cardinality(S)
BY DEF Strip!Cardinality, Cardinality, Strip!IsFiniteSet, IsFiniteSet

\* A package that is there has a number of lists.
LEMMA ListsCount ==
  ASSUME was \in Images, NEW p \in was.status
  PROVE  Strip!Cardinality(was.lists[p]) \in Nat /\ (Strip!Cardinality(was.lists[p]) = 0 => was.lists[p] = {})
BY ImageFacts, StripCounts, FS_CardinalityType, FS_EmptySet

\* What is left to purge, less its first.
LEMMA LessItsFirst ==
  ASSUME todo \in Strip!Suffixes(Purge), todo # <<>>
  PROVE  /\ Tail(todo) \in Strip!Suffixes(Purge)
         /\ Head(todo) \in Strip!ToSet(Purge) /\ Head(todo) \in Strip!ToSet(todo)
         /\ Strip!ToSet(todo) \subseteq {Head(todo)} \cup Strip!ToSet(Tail(todo))
<1>1. Purge \in Seq(STRING)
  BY ImagesAreWellMade
<1> DEFINE n == Len(Purge)
<1>2. PICK l \in 1..n : todo = SubSeq(Purge, l, n)
  BY DEF Strip!Suffixes
<1>3. /\ todo \in Seq(STRING) /\ Len(todo) = n - l + 1
      /\ \A i \in 1..(n - l + 1) : todo[i] = Purge[l + i - 1]
  BY <1>1, <1>2
<1>4. /\ Head(todo) = todo[1] /\ Tail(todo) \in Seq(STRING) /\ Len(Tail(todo)) = n - l
      /\ \A i \in 1..(n - l) : Tail(todo)[i] = todo[i + 1]
  BY <1>1, <1>3
<1>5. Tail(todo) \in Strip!Suffixes(Purge)
  <2>1. CASE l = n
    <3>1. Len(Tail(todo)) = 0
      BY <1>1, <1>4, <2>1
    <3>2. Tail(todo) = <<>>
      BY <1>4, <3>1, EmptySeq
    <3> QED
      BY <3>2 DEF Strip!Suffixes
  <2>2. CASE l < n
    <3> DEFINE s == SubSeq(Purge, l + 1, n)
    <3>1. s \in Seq(STRING) /\ Len(s) = n - l /\ \A i \in 1..(n - l) : s[i] = Purge[l + i]
      BY <1>1, <2>2
    <3>2. \A i \in 1..(n - l) : Tail(todo)[i] = Purge[l + i]
      BY <1>1, <1>3, <1>4, <2>2
    <3> HIDE DEF s
    <3>3. Tail(todo) = s
      BY <1>4, <3>1, <3>2, SeqEqual
    <3>4. l + 1 \in 1..n
      BY <1>1, <2>2
    <3> QED
      BY <3>3, <3>4 DEF Strip!Suffixes, s
  <2> QED
    BY <1>1, <2>1, <2>2
<1>6. Head(todo) \in Strip!ToSet(Purge) /\ Head(todo) \in Strip!ToSet(todo)
  <2>1. Head(todo) = Purge[l] /\ 1 \in DOMAIN todo /\ l \in DOMAIN Purge
    BY <1>1, <1>3, <1>4
  <2> QED
    BY <1>4, <2>1 DEF Strip!ToSet
<1>7. ASSUME NEW i \in DOMAIN todo PROVE todo[i] = Head(todo) \/ \E j \in DOMAIN Tail(todo) : todo[i] = Tail(todo)[j]
  <2>1. CASE i = 1
    BY <1>4, <2>1
  <2>2. CASE i # 1
    <3>1. i - 1 \in 1..(n - l) /\ i - 1 \in DOMAIN Tail(todo) /\ todo[i] = Tail(todo)[i - 1]
      BY <1>1, <1>3, <1>4, <2>2
    <3> QED
      BY <3>1
  <2> QED
    BY <2>1, <2>2
<1> QED
  BY <1>5, <1>6, <1>7 DEF Strip!ToSet

\* Every list is read, or the build is refused.
LEMMA ReviewStep == StripInv /\ Strip!Review => StripInv'
<1> SUFFICES ASSUME StripInv, Strip!Review PROVE StripInv'
  OBVIOUS
<1>1. /\ strip_at = "review"
      /\ UNCHANGED <<was, python, files, links, dirs, setid, status, records, db, gone_places, folders, todo, shells, accounts>>
      /\ status = was.status /\ was \in Images
  BY DEF Strip!Review, Strip!tree, Strip!dpkg, Strip!logins, StripInv, RecordsInv, TreeInv
<1>2. CASE \/ ~Strip!ToSet(Purge) \subseteq status \/ was.diverts \cap Strip!ToSet(Purge) # {}
           \/ \E p \in status \ Strip!ToSet(Purge) : ~Strip!HasLists(p, 1) /\ ~Strip!HasLists(p, 0)
  <2>1. strip_at' = "failed"
    BY <1>2 DEF Strip!Review, Strip!Fail
  <2>2. Excused
    BY <1>1, <1>2, ListsCount DEF Excused, Strip!HasLists
  <2> QED
    BY <1>1, <2>1, <2>2, Refusing
<1>3. CASE ~ \/ ~Strip!ToSet(Purge) \subseteq status \/ was.diverts \cap Strip!ToSet(Purge) # {}
             \/ \E p \in status \ Strip!ToSet(Purge) : ~Strip!HasLists(p, 1) /\ ~Strip!HasLists(p, 0)
  <2>1. /\ strip_at' = "purge" /\ Strip!ToSet(Purge) \subseteq was.status
        /\ keep' = Strip!Kept(UNION {Strip!Listed(was, p) : p \in status \ Strip!ToSet(Purge)})
    BY <1>1, <1>3 DEF Strip!Review
  <2>2. keep' = Strip!PlacesOf(Strip!Staying)
    BY <1>1, <2>1 DEF Strip!Kept, Strip!PlacesOf, Strip!PlacesIn, Strip!Staying
  <2>3. TreeInv'
    BY <1>1, <2>1, TreeStays DEF StripInv, TreeInv, Strip!TypeOK, Stages
  <2>4. /\ files = was.files /\ DOMAIN links = DOMAIN was.links /\ dirs = was.dirs
        /\ todo = Purge /\ gone_places = {} /\ folders = {}
    BY <1>1 DEF StripInv, UntouchedInv
  <2>5. ReviewedInv'
    BY <1>1, <2>1, <2>2, <2>4, WasStays DEF ReviewedInv
  <2>6. PurgeInv'
    BY <1>1, <2>1, <2>4 DEF PurgeInv
  <2>7. RecordsInv'
    BY <1>1, <2>1 DEF StripInv, RecordsInv, Stages
  <2> QED
    BY <2>1, <2>3, <2>5, <2>6, <2>7 DEF StripInv, UntouchedInv, LeftInv, RightInv, Strip!RefusesOnlySurprises
<1> QED
  BY <1>2, <1>3

\* One package's files go, or the build is refused.
LEMMA PurgeStep == StripInv /\ Strip!PurgePackage => StripInv'
<1> SUFFICES ASSUME StripInv, Strip!PurgePackage PROVE StripInv'
  OBVIOUS
<1> DEFINE p == Head(todo)
<1>1. /\ strip_at = "purge" /\ todo # <<>> /\ todo \in Strip!Suffixes(Purge)
      /\ UNCHANGED <<was, python, dirs, status, records, db, keep, shells, accounts>>
      /\ was \in Images
  BY DEF Strip!PurgePackage, Strip!dpkg, Strip!logins, StripInv, TreeInv, Strip!TypeOK
<1>2. /\ Tail(todo) \in Strip!Suffixes(Purge) /\ p \in Strip!ToSet(Purge)
      /\ Strip!ToSet(todo) \subseteq {p} \cup Strip!ToSet(Tail(todo))
  BY <1>1, LessItsFirst
<1>3. /\ Strip!ToSet(Purge) \subseteq was.status /\ keep = Strip!PlacesOf(Strip!Staying)
      /\ gone_places \subseteq Purged /\ folders \subseteq Purged
      /\ gone_places \cap Strip!Present = {}
  BY <1>1 DEF StripInv, ReviewedInv, Stages
<1>4. /\ files = was.files \ gone_places /\ DOMAIN links = DOMAIN was.links \ gone_places /\ dirs = was.dirs
      /\ folders \subseteq was.dirs
      /\ \A q \in Strip!ToSet(Purge) : q \in Strip!ToSet(todo) \/ Strip!PlacesOf({q}) \subseteq keep \cup gone_places \cup folders
  BY <1>1 DEF StripInv, PurgeInv
<1>5. CASE ~Strip!HasLists(p, 1)
  <2>1. strip_at' = "failed" /\ UNCHANGED <<files, links, setid, todo>>
    BY <1>5 DEF Strip!PurgePackage, Strip!Fail
  <2>2. Excused
    <3>1. p \in was.status
      BY <1>2, <1>3
    <3>2. Strip!Cardinality(was.lists[p]) # 1
      BY <1>5 DEF Strip!HasLists
    <3>3. Strip!Cardinality(was.lists[p]) > 1 \/ was.lists[p] = {}
      BY <1>1, <3>1, <3>2, ListsCount
    <3> QED
      BY <1>2, <3>1, <3>3 DEF Excused
  <2> QED
    BY <1>1, <2>1, <2>2, Refusing
<1>6. CASE Strip!HasLists(p, 1)
  <2> DEFINE places == {Strip!Where(path) : path \in Strip!Listed(was, p)} \ keep
  <2>1. /\ strip_at' = "purge" /\ todo' = Tail(todo)
        /\ folders' = folders \cup (places \cap dirs) /\ gone_places' = gone_places \cup (places \ dirs)
        /\ Strip!Unlink(places \ dirs)
    BY <1>1, <1>6 DEF Strip!PurgePackage
  <2>2. Strip!PlacesOf({p}) = {Strip!Where(path) : path \in Strip!Listed(was, p)}
    BY DEF Strip!PlacesOf, Strip!PlacesIn
  <2>3. Strip!PlacesOf({p}) \subseteq Strip!PlacesOf(Strip!ToSet(Purge))
    BY <1>2 DEF Strip!PlacesOf, Strip!PlacesIn
  <2>4. places = Strip!PlacesOf({p}) \ keep /\ places \subseteq Purged
    BY <1>3, <2>2, <2>3 DEF Purged
  <2> HIDE DEF places, p
  <2>5. /\ files' = files \ (places \ dirs) /\ DOMAIN links' = DOMAIN links \ (places \ dirs)
        /\ setid' = setid \ (places \ dirs)
    BY <2>1 DEF Strip!Unlink, Strip!Restrict
  <2>6. Strip!Present' = Strip!Present \ (places \ dirs)
    BY <1>1, <2>5 DEF Strip!Present
  <2>7. Strip!TypeOK
    BY DEF StripInv, TreeInv
  <2>8. TreeInv'
    <3>1. files' \subseteq files /\ DOMAIN links' \subseteq DOMAIN links /\ dirs' \subseteq dirs
      BY <1>1, <2>5
    <3>2. setid' \subseteq Strip!Present'
      BY <2>5, <2>6, <2>7 DEF Strip!TypeOK
    <3>3. \A place \in Strip!Present' : Len(place) > 1 => Strip!Front(place) \in dirs'
      BY <1>1, <2>6, <2>7 DEF Strip!TypeOK
    <3>4. status' \subseteq status /\ db' \subseteq db /\ todo' \in Strip!Suffixes(Purge) /\ strip_at' \in Stages
      BY <1>1, <1>2, <2>1 DEF Stages
    <3>5. TreeInv
      BY DEF StripInv
    <3> QED
      BY <1>1, <3>1, <3>2, <3>3, <3>4, <3>5, TreeShrinks
  <2>9. ReviewedInv'
    <3>1. gone_places' \cap Strip!Present' = {}
      BY <1>3, <2>1, <2>6
    <3>2. gone_places' \subseteq Purged' /\ folders' \subseteq Purged'
      BY <1>1, <1>3, <2>1, <2>4, WasStays
    <3>3. keep' = Strip!PlacesOf(Strip!Staying)' /\ Strip!ToSet(Purge) \subseteq was'.status
      BY <1>1, <1>3, WasStays
    <3> QED
      BY <3>1, <3>2, <3>3 DEF ReviewedInv
  <2>10. PurgeInv'
    <3>1. files' = was.files \ gone_places' /\ DOMAIN links' = DOMAIN was.links \ gone_places' /\ dirs' = was.dirs
      BY <1>1, <1>4, <2>1, <2>5
    <3>2. folders' \subseteq was.dirs
      BY <1>4, <2>1
    <3>3. ASSUME NEW q \in Strip!ToSet(Purge), q \notin Strip!ToSet(todo')
          PROVE  Strip!PlacesOf({q}) \subseteq keep \cup gone_places' \cup folders'
      <4>1. CASE q = p
        BY <2>1, <2>4, <4>1
      <4>2. CASE q # p
        <5>1. q \notin Strip!ToSet(todo)
          BY <1>2, <2>1, <3>3, <4>2 DEF p
        <5> QED
          BY <1>4, <2>1, <5>1
      <4> QED
        BY <4>1, <4>2
    <3> QED
      BY <1>1, <3>1, <3>2, <3>3, WasStays DEF PurgeInv
  <2>11. RecordsInv'
    BY <1>1, <2>1 DEF StripInv, RecordsInv, Stages
  <2> QED
    BY <2>1, <2>8, <2>9, <2>10, <2>11 DEF StripInv, UntouchedInv, LeftInv, RightInv, Strip!RefusesOnlySurprises
<1> QED
  BY <1>5, <1>6

\* The folders left empty go.
LEMMA FoldersStep == StripInv /\ Strip!PurgeFolders => StripInv'
<1> SUFFICES ASSUME StripInv, Strip!PurgeFolders PROVE StripInv'
  OBVIOUS
<1>1. /\ strip_at = "purge" /\ todo = <<>> /\ strip_at' = "alternatives"
      /\ dirs' = dirs \ Strip!Emptied /\ setid' = setid \ Strip!Emptied
      /\ UNCHANGED <<was, python, files, links, status, records, db, keep, gone_places, folders, todo, shells, accounts>>
  BY DEF Strip!PurgeFolders, Strip!dpkg, Strip!sets, Strip!logins
<1>2. TreeInv /\ Strip!TypeOK
  BY DEF StripInv, TreeInv
<1>3. /\ Strip!ToSet(Purge) \subseteq was.status /\ keep = Strip!PlacesOf(Strip!Staying)
      /\ gone_places \subseteq Purged /\ folders \subseteq Purged
      /\ gone_places \cap Strip!Present = {}
  BY <1>1 DEF StripInv, ReviewedInv, Stages
<1>4. /\ files = was.files \ gone_places /\ DOMAIN links = DOMAIN was.links \ gone_places /\ dirs = was.dirs
      /\ folders \subseteq was.dirs
      /\ \A q \in Strip!ToSet(Purge) : q \in Strip!ToSet(todo) \/ Strip!PlacesOf({q}) \subseteq keep \cup gone_places \cup folders
  BY <1>1 DEF StripInv, PurgeInv
<1>5. /\ Strip!Emptied \subseteq folders
      /\ \A f \in folders : f \in Strip!Emptied <=> \A place \in Strip!Present : Strip!Inside(f, place) => place \in folders
  BY DEF Strip!Emptied
<1>6. Strip!Present' = Strip!Present \ Strip!Emptied
  <2>1. files \cap dirs = {} /\ dirs \cap DOMAIN links = {}
    BY <1>2 DEF Strip!TypeOK
  <2> QED
    BY <1>1, <1>4, <1>5, <2>1 DEF Strip!Present
<1>7. Strip!Present \subseteq Seq(Word)
  BY <1>2, PlaceFacts
<1>8. ASSUME NEW place \in Strip!Present', Len(place) > 1 PROVE Strip!Front(place) \in dirs'
  <2> DEFINE f == Strip!Front(place)
  <2>1. place \in Strip!Present /\ place \notin Strip!Emptied /\ place \in Seq(Word)
    BY <1>6, <1>7
  <2>2. f \in dirs /\ f \in Seq(Word) /\ Strip!Inside(f, place)
    BY <1>2, <1>8, <2>1, LiesInFront DEF Strip!TypeOK
  <2> HIDE DEF f
  <2>3. ASSUME f \in Strip!Emptied PROVE FALSE
    <3>1. place \in folders
      BY <1>5, <2>1, <2>2, <2>3
    <3>2. ASSUME NEW other \in Strip!Present, Strip!Inside(place, other) PROVE other \in folders
      <4>1. Strip!Inside(f, other)
        BY <1>7, <2>1, <2>2, <3>2, InsideOfInside
      <4> QED
        BY <1>5, <2>3, <4>1
    <3> QED
      BY <1>5, <2>1, <3>1, <3>2
  <2> QED
    BY <1>1, <2>2, <2>3 DEF f
<1>9. TreeInv'
  <2>1. setid' \subseteq Strip!Present'
    BY <1>1, <1>2, <1>6 DEF Strip!TypeOK
  <2>2. todo' = <<>> \/ todo' \in Strip!Suffixes(Purge)
    BY <1>1
  <2>3. strip_at' \in Stages
    BY <1>1 DEF Stages
  <2> QED
    BY <1>1, <1>2, <1>8, <2>1, <2>2, <2>3, TreeShrinks
<1>10. ReviewedInv'
  BY <1>1, <1>3, <1>6, WasStays DEF ReviewedInv
<1>11. LeftInv'
  <2>1. Purged \subseteq gone_places \cup folders
    <3>1. Strip!ToSet(todo) = {}
      BY <1>1 DEF Strip!ToSet
    <3>2. ASSUME NEW place \in Purged PROVE place \in gone_places \cup folders
      <4>1. PICK q \in Strip!ToSet(Purge) : place \in Strip!PlacesOf({q})
        BY <3>2 DEF Purged, Strip!PlacesOf, Strip!PlacesIn
      <4>2. place \notin keep
        BY <1>3 DEF Purged
      <4> QED
        BY <1>4, <3>1, <4>1, <4>2
    <3> QED
      BY <3>2
  <2>2. ASSUME NEW folder \in folders \cap dirs' PROVE \E place \in Strip!Present' : Strip!Inside(folder, place)
    <3>1. PICK place \in Strip!Present : Strip!Inside(folder, place) /\ place \notin folders
      BY <1>1, <1>5
    <3> QED
      BY <1>5, <1>6, <3>1
  <2>3. /\ \A place \in was.files : place \in gone_places \cup files
        /\ \A place \in DOMAIN was.links : place \in gone_places \cup DOMAIN links
        /\ \A place \in was.dirs : place \in folders \cup dirs'
    BY <1>1, <1>4, <1>5
  <2>4. Purged' = Purged /\ Dropped' = Dropped
    BY <1>1, WasStays
  <2> QED
    BY <1>1, <1>4, <2>1, <2>2, <2>3, <2>4 DEF LeftInv, LeftPlaces
<1> QED
  BY <1>1, <1>9, <1>10, <1>11
  DEF StripInv, UntouchedInv, PurgeInv, RecordsInv, RightInv, Strip!RefusesOnlySurprises, Stages

\* The links of what has no choice left go.
LEMMA AlternativesStep == StripInv /\ Strip!DropAlternatives => StripInv'
<1> SUFFICES ASSUME StripInv, Strip!DropAlternatives PROVE StripInv'
  OBVIOUS
<1> DEFINE dropped == {name \in db : Strip!Orphaned(name)}
           places == DOMAIN links \cap UNION {Strip!LinksOf(was, name) : name \in dropped}
<1>1. /\ strip_at = "alternatives" /\ strip_at' = "records"
      /\ db' = db \ dropped /\ Strip!Unlink(places)
      /\ UNCHANGED <<was, python, dirs, status, records, keep, gone_places, folders, todo, shells, accounts>>
  BY DEF Strip!DropAlternatives, Strip!sets, Strip!logins
<1>2. TreeInv /\ Strip!TypeOK
  BY DEF StripInv, TreeInv
<1>3. /\ Strip!ToSet(Purge) \subseteq was.status /\ keep = Strip!PlacesOf(Strip!Staying)
      /\ gone_places \subseteq Purged /\ folders \subseteq Purged
      /\ gone_places \cap Strip!Present = {}
  BY <1>1 DEF StripInv, ReviewedInv, Stages
<1>4. LeftPlaces
  BY <1>1 DEF StripInv, LeftInv, Stages
<1>5. db = DOMAIN was.db
  BY <1>1 DEF StripInv, RecordsInv
<1>6. dropped = Dropped
  BY <1>5 DEF Dropped
<1> HIDE DEF places, dropped
<1>7. places \cap files = {} /\ places \cap dirs = {}
  BY <1>2 DEF places, Strip!TypeOK
<1>8. /\ files' = files /\ DOMAIN links' = DOMAIN links \ places /\ setid' = setid \ places
  BY <1>1, <1>7 DEF Strip!Unlink, Strip!Restrict
<1>9. Strip!Present' = Strip!Present \ places
  BY <1>1, <1>7, <1>8 DEF Strip!Present
<1>10. TreeInv'
  <2>1. setid' \subseteq Strip!Present'
    BY <1>2, <1>8, <1>9 DEF Strip!TypeOK
  <2>2. \A place \in Strip!Present' : Len(place) > 1 => Strip!Front(place) \in dirs'
    BY <1>1, <1>2, <1>9 DEF Strip!TypeOK
  <2>3. (todo' = <<>> \/ todo' \in Strip!Suffixes(Purge)) /\ db' \subseteq db /\ strip_at' \in Stages
    BY <1>1, <1>2 DEF Strip!TypeOK, Stages
  <2> QED
    BY <1>1, <1>2, <1>8, <2>1, <2>2, <2>3, TreeShrinks
<1>11. ReviewedInv'
  BY <1>1, <1>3, <1>9, WasStays DEF ReviewedInv
<1>12. LeftInv'
  <2>1. Purged' = Purged /\ Dropped' = Dropped
    BY <1>1, WasStays
  <2>2. ASSUME NEW folder \in folders \cap dirs PROVE \E place \in Strip!Present' : Strip!Inside(folder, place)
    <3>1. PICK place \in Strip!Present : Strip!Inside(folder, place)
      BY <1>4 DEF LeftPlaces
    <3>2. ASSUME place \in places PROVE FALSE
      <4>1. PICK name \in Dropped : place \in Strip!LinksOf(was, name)
        BY <1>6, <3>2 DEF places
      <4>2. name \in DOMAIN was.db
        BY <4>1 DEF Dropped
      <4>3. folder \in Purged \cap was.dirs
        BY <1>3, <1>4 DEF LeftPlaces
      <4> QED
        BY <1>2, <3>1, <4>1, <4>2, <4>3, AlternativeFacts DEF TreeInv
    <3> QED
      BY <1>9, <3>1, <3>2
  <2>3. ASSUME NEW place \in DOMAIN was.links
        PROVE  \/ place \in gone_places \cup DOMAIN links' \/ Strip!OfTools(place)
               \/ \E name \in Dropped : place \in Strip!LinksOf(was, name)
    BY <1>4, <1>6, <1>8 DEF LeftPlaces, places
  <2>4. ASSUME NEW name \in Dropped PROVE Strip!LinksOf(was, name) \cap DOMAIN links' = {}
    BY <1>6, <1>8, <2>4 DEF places
  <2> QED
    BY <1>1, <1>4, <1>8, <2>1, <2>2, <2>3, <2>4, WasStays DEF LeftInv, LeftPlaces
<1> QED
  BY <1>1, <1>10, <1>11, <1>12
  DEF StripInv, UntouchedInv, PurgeInv, RecordsInv, RightInv, Strip!RefusesOnlySurprises, Stages

\* Steps that leave every place alone keep what is said of places.
LEMMA PlacesStay ==
  ASSUME StripInv, strip_at \in Stages \ {"purge", "alternatives"}, strip_at' \in Stages \ {"purge", "alternatives"},
         UNCHANGED <<was, files, links, dirs, db, keep, gone_places, folders, todo>>,
         setid' \subseteq setid, status' \subseteq status
  PROVE  TreeInv' /\ UntouchedInv' /\ ReviewedInv' /\ PurgeInv' /\ LeftInv'
<1>1. TreeInv /\ Strip!TypeOK
  BY DEF StripInv, TreeInv
<1>2. TreeInv' /\ Strip!Present' = Strip!Present
  BY <1>1, TreeStays DEF Strip!TypeOK
<1>3. ReviewedInv'
  <2>1. /\ Strip!ToSet(Purge) \subseteq was.status /\ keep = Strip!PlacesOf(Strip!Staying)
        /\ gone_places \subseteq Purged /\ folders \subseteq Purged
        /\ gone_places \cap Strip!Present = {}
    BY DEF StripInv, ReviewedInv
  <2> QED
    BY <1>2, <2>1, WasStays DEF ReviewedInv
<1>4. LeftInv'
  <2>1. LeftPlaces /\ \A name \in Dropped : Strip!LinksOf(was, name) \cap DOMAIN links = {}
    BY DEF StripInv, LeftInv
  <2>2. Purged' = Purged /\ Dropped' = Dropped
    BY WasStays
  <2>3. LeftPlaces'
    BY <1>2, <2>1, <2>2, WasStays DEF LeftPlaces
  <2> QED
    BY <2>1, <2>2, <2>3, WasStays DEF LeftInv
<1>5. UntouchedInv' /\ PurgeInv'
  BY DEF UntouchedInv, PurgeInv, Stages
<1> QED
  BY <1>2, <1>3, <1>4, <1>5

\* dpkg forgets what is purged.
LEMMA RecordsStep == StripInv /\ Strip!Records => StripInv'
<1> SUFFICES ASSUME StripInv, Strip!Records PROVE StripInv'
  OBVIOUS
<1>1. /\ strip_at = "records" /\ strip_at' = "tidy"
      /\ records' = records \ Strip!ToSet(Purge) /\ status' = Strip!Status
      /\ UNCHANGED <<was, python, files, links, dirs, setid, db, keep, gone_places, folders, todo, shells, accounts>>
  BY DEF Strip!Records, Strip!tree, Strip!sets, Strip!logins
<1>2. status = was.status
  BY <1>1 DEF StripInv, RecordsInv
<1>3. status' = Strip!Staying /\ status' \subseteq status
  BY <1>1, <1>2 DEF Strip!Status, Strip!Staying
<1>4. TreeInv' /\ UntouchedInv' /\ ReviewedInv' /\ PurgeInv' /\ LeftInv'
  BY <1>1, <1>3, PlacesStay DEF Stages
<1>5. RecordsInv'
  <2>1. records' \cap Strip!ToSet(Purge) = {} /\ python' = {}
    BY <1>1 DEF StripInv, RecordsInv, Stages
  <2>2. status' = Strip!Staying'
    BY <1>1, <1>3, WasStays
  <2> QED
    BY <1>1, <2>1, <2>2 DEF RecordsInv
<1> QED
  BY <1>1, <1>4, <1>5 DEF StripInv, RightInv, Strip!RefusesOnlySurprises

\* What only the tools read goes.
LEMMA ToolsStep == StripInv /\ Strip!TidyTools => StripInv'
<1> SUFFICES ASSUME StripInv, Strip!TidyTools PROVE StripInv'
  OBVIOUS
<1> DEFINE deleted == {place \in Strip!Present : Strip!OfTools(place)}
<1>1. /\ strip_at = "tidy" /\ strip_at' = "tidy logins"
      /\ Strip!Unlink(deleted) /\ dirs' = dirs \ deleted
      /\ UNCHANGED <<was, python, status, records, db, keep, gone_places, folders, todo, shells, accounts>>
  BY DEF Strip!TidyTools, Strip!dpkg, Strip!sets, Strip!logins
<1>2. TreeInv /\ Strip!TypeOK
  BY DEF StripInv, TreeInv
<1>3. /\ Strip!ToSet(Purge) \subseteq was.status /\ keep = Strip!PlacesOf(Strip!Staying)
      /\ gone_places \subseteq Purged /\ folders \subseteq Purged
      /\ gone_places \cap Strip!Present = {}
  BY <1>1 DEF StripInv, ReviewedInv, Stages
<1>4. LeftPlaces /\ \A name \in Dropped : Strip!LinksOf(was, name) \cap DOMAIN links = {}
  BY <1>1 DEF StripInv, LeftInv, Stages
<1>5. deleted \subseteq Strip!Present /\ \A place \in Strip!Present : place \in deleted <=> Strip!OfTools(place)
  OBVIOUS
<1> HIDE DEF deleted
<1>6. /\ files' = files \ deleted /\ DOMAIN links' = DOMAIN links \ deleted /\ setid' = setid \ deleted
  BY <1>1 DEF Strip!Unlink, Strip!Restrict
<1>7. Strip!Present' = Strip!Present \ deleted
  BY <1>1, <1>6 DEF Strip!Present
<1>8. Strip!Present \subseteq Seq(Word)
  BY <1>2, PlaceFacts
<1>9. ASSUME NEW place \in Strip!Present', Len(place) > 1 PROVE Strip!Front(place) \in dirs'
  <2>1. place \in Strip!Present /\ ~Strip!OfTools(place) /\ place \in Seq(Word)
    BY <1>5, <1>7, <1>8
  <2>2. /\ Strip!Front(place) \in dirs /\ Strip!Front(place) \in Seq(Word)
        /\ Strip!Inside(Strip!Front(place), place)
    BY <1>2, <1>9, <2>1, LiesInFront DEF Strip!TypeOK
  <2>3. ~Strip!OfTools(Strip!Front(place))
    BY <2>1, <2>2, InsideTools
  <2> QED
    BY <1>1, <1>5, <2>2, <2>3 DEF Strip!Present
<1>10. TreeInv'
  <2>1. setid' \subseteq Strip!Present'
    BY <1>2, <1>6, <1>7 DEF Strip!TypeOK
  <2>2. (todo' = <<>> \/ todo' \in Strip!Suffixes(Purge)) /\ strip_at' \in Stages
    BY <1>1, <1>2 DEF Strip!TypeOK, Stages
  <2> QED
    BY <1>1, <1>2, <1>6, <1>9, <2>1, <2>2, TreeShrinks
<1>11. ReviewedInv'
  BY <1>1, <1>3, <1>7, WasStays DEF ReviewedInv
<1>12. LeftInv'
  <2>1. Purged' = Purged /\ Dropped' = Dropped
    BY <1>1, WasStays
  <2>2. ASSUME NEW folder \in folders \cap dirs' PROVE \E place \in Strip!Present' : Strip!Inside(folder, place)
    <3>1. PICK place \in Strip!Present : Strip!Inside(folder, place)
      BY <1>1, <1>4 DEF LeftPlaces
    <3>2. folder \in Purged \cap was.dirs /\ folder \in Strip!Present /\ ~Strip!OfTools(folder)
      BY <1>1, <1>3, <1>4, <1>5 DEF LeftPlaces, Strip!Present
    <3>3. ASSUME Strip!OfTools(place) PROVE FALSE
      <4>1. PICK t \in Strip!ToolState : Strip!IsPrefix(t, place)
        BY <3>3 DEF Strip!OfTools
      <4>2. t \in Seq(Word) /\ folder \in Seq(Word) /\ place \in Seq(Word)
        BY <1>8, <3>1, <3>2, ToolsArePlaces
      <4>3. Strip!IsPrefix(folder, place)
        BY <3>1 DEF Strip!Inside, Strip!IsStrictPrefix
      <4>4. CASE Strip!IsPrefix(t, folder)
        BY <3>2, <4>4 DEF Strip!OfTools
      <4>5. CASE Strip!Inside(folder, t)
        BY <1>2, <3>2, <4>5, ImageFacts DEF TreeInv
      <4> QED
        BY <4>1, <4>2, <4>3, <4>4, <4>5, BeginningsCompare
    <3> QED
      BY <1>5, <1>7, <3>1, <3>3
  <2>3. /\ \A place \in was.files : place \in gone_places \cup files' \/ Strip!OfTools(place)
        /\ \A place \in DOMAIN was.links : \/ place \in gone_places \cup DOMAIN links' \/ Strip!OfTools(place)
                                           \/ \E name \in Dropped : place \in Strip!LinksOf(was, name)
        /\ \A place \in was.dirs : place \in folders \cup dirs' \/ Strip!OfTools(place)
    BY <1>1, <1>4, <1>5, <1>6 DEF LeftPlaces
  <2>4. \A name \in Dropped : Strip!LinksOf(was, name) \cap DOMAIN links' = {}
    BY <1>4, <1>6
  <2>5. LeftPlaces'
    BY <1>1, <1>4, <2>1, <2>2, <2>3, WasStays DEF LeftPlaces
  <2> QED
    BY <1>1, <2>1, <2>4, <2>5, WasStays DEF LeftInv
<1>13. RecordsInv'
  BY <1>1, WasStays DEF StripInv, RecordsInv, Stages
<1> QED
  BY <1>1, <1>10, <1>11, <1>12, <1>13
  DEF StripInv, UntouchedInv, PurgeInv, RightInv, Strip!RefusesOnlySurprises

\* A file that is neither purged nor the tools' is there from the purge on.
LEMMA FileStays ==
  ASSUME StripInv, strip_at \in Stages \ {"purge"}, NEW place \in was.files, place \notin gone_places, ~Strip!OfTools(place)
  PROVE  place \in files /\ (Strip!Where(place) = place => Strip!Exists(place))
<1>1. place \in files
  BY DEF StripInv, LeftInv, LeftPlaces
<1>2. place \notin DOMAIN links
  BY <1>1 DEF StripInv, TreeInv, Strip!TypeOK
<1> QED
  BY <1>1, <1>2 DEF Strip!Exists, Strip!Follow

\* An account whose shell is gone gets one that is there, or the build is
\* refused.
LEMMA LoginsStep == StripInv /\ Strip!TidyLogins => StripInv'
<1> SUFFICES ASSUME StripInv, Strip!TidyLogins PROVE StripInv'
  OBVIOUS
<1>1. /\ strip_at = "tidy logins"
      /\ UNCHANGED <<was, python, files, links, dirs, setid, status, records, db, keep, gone_places, folders, todo>>
  BY DEF Strip!TidyLogins, Strip!tree, Strip!dpkg, Strip!sets
<1>2. CASE Strip!Nologin = {}
  <2>1. strip_at' = "failed"
    BY <1>2 DEF Strip!TidyLogins, Strip!Fail
  <2>2. ASSUME NEW i \in DOMAIN NoLogin, NoLogin[i] \in was.files \ Purged PROVE FALSE
    <3>1. NoLogin[i] \notin gone_places
      BY <1>1, <2>2 DEF StripInv, ReviewedInv, Stages
    <3>2. Strip!Exists(NoLogin[i])
      BY <1>1, <2>2, <3>1, FileStays, ImagesAreWellMade DEF Stages
    <3> QED
      BY <1>2, <3>2 DEF Strip!Nologin
  <2>3. Excused
    BY <2>2 DEF Excused
  <2> QED
    BY <1>1, <2>1, <2>3, Refusing
<1>3. CASE Strip!Nologin # {}
  <2> DEFINE first == CHOOSE i \in Strip!Nologin : \A j \in Strip!Nologin : i <= j
  <2>1. /\ strip_at' = "bits"
        /\ accounts' = [a \in DOMAIN accounts |->
                          IF accounts[a] # None /\ ~Strip!Exists(accounts[a]) THEN NoLogin[first] ELSE accounts[a]]
    BY <1>3 DEF Strip!TidyLogins
  <2>2. first \in Strip!Nologin
    <3>1. Strip!Nologin \subseteq Nat
      BY ImagesAreWellMade DEF Strip!Nologin
    <3>2. \E i \in Strip!Nologin : \A j \in Strip!Nologin : i <= j
      BY <1>3, <3>1, LeastOf
    <3> QED
      BY <3>2
  <2>3. Strip!Exists(NoLogin[first])
    BY <2>2 DEF Strip!Nologin
  <2> HIDE DEF first
  <2>4. \A path : Strip!Exists(path)' = Strip!Exists(path)
    BY <1>1 DEF Strip!Exists, Strip!Follow
  <2>5. RightInv'
    BY <2>1, <2>3, <2>4 DEF RightInv
  <2>6. TreeInv' /\ UntouchedInv' /\ ReviewedInv' /\ PurgeInv' /\ LeftInv'
    BY <1>1, <2>1, PlacesStay DEF Stages
  <2>7. RecordsInv'
    BY <1>1, <2>1, WasStays DEF StripInv, RecordsInv, Stages
  <2> QED
    BY <2>1, <2>5, <2>6, <2>7 DEF StripInv, Strip!RefusesOnlySurprises
<1> QED
  BY <1>2, <1>3

\* The bits are cleared.
LEMMA BitsStep == StripInv /\ Strip!ClearSetIdBits => StripInv'
<1> SUFFICES ASSUME StripInv, Strip!ClearSetIdBits PROVE StripInv'
  OBVIOUS
<1>1. /\ strip_at = "bits" /\ strip_at' = "check" /\ setid' = setid \ Strip!SetIdEntries
      /\ UNCHANGED <<was, python, files, links, dirs, status, records, db, keep, gone_places, folders, todo, shells, accounts>>
  BY DEF Strip!ClearSetIdBits, Strip!dpkg, Strip!sets, Strip!logins
<1>2. TreeInv' /\ UntouchedInv' /\ ReviewedInv' /\ PurgeInv' /\ LeftInv'
  BY <1>1, PlacesStay DEF Stages
<1>3. RecordsInv'
  BY <1>1, WasStays DEF StripInv, RecordsInv, Stages
<1>4. RightInv'
  <2>1. Strip!SetIdEntries' = {}
    BY <1>1 DEF Strip!SetIdEntries
  <2>2. \A path : Strip!Exists(path)' = Strip!Exists(path)
    BY <1>1 DEF Strip!Exists, Strip!Follow
  <2>3. \A a \in DOMAIN accounts : accounts[a] = None \/ Strip!Exists(accounts[a])
    BY <1>1 DEF StripInv, RightInv
  <2> QED
    BY <1>1, <2>1, <2>2, <2>3 DEF RightInv
<1> QED
  BY <1>1, <1>2, <1>3, <1>4 DEF StripInv, Strip!RefusesOnlySurprises

\* What is on the PATH at the end is no purged package's alone, and where it is
\* an alternative's link, the alternative has a choice that is not.
LEMMA LeftOnThePath ==
  ASSUME StripInv, strip_at \in Stages \ {"purge", "alternatives"}, NEW place \in files \cup DOMAIN links
  PROVE  /\ place \in Strip!WasPresent /\ place \notin Purged
         /\ \A name \in DOMAIN was.db : place \in Strip!LinksOf(was, name) =>
              \E choice \in was.db[name].choices : Strip!Where(choice) \notin Purged
<1>1. /\ gone_places \cap Strip!Present = {} /\ LeftPlaces /\ TreeInv
      /\ \A name \in Dropped : Strip!LinksOf(was, name) \cap DOMAIN links = {}
  BY DEF StripInv, ReviewedInv, LeftInv
<1>2. place \in Strip!Present /\ place \in Strip!WasPresent /\ place \in was.files \cup DOMAIN was.links
  BY <1>1 DEF Strip!Present, Strip!WasPresent, TreeInv
<1>3. place \notin Purged
  <2>1. place \notin was.dirs
    BY <1>1, <1>2, PlaceFacts
  <2> QED
    BY <1>1, <1>2, <2>1 DEF LeftPlaces
<1>4. ASSUME NEW name \in DOMAIN was.db, place \in Strip!LinksOf(was, name)
      PROVE  \E choice \in was.db[name].choices : Strip!Where(choice) \notin Purged
  <2>1. was \in Images
    BY <1>1 DEF TreeInv
  <2>2. place \in DOMAIN links
    BY <1>1, <1>4, <2>1, AlternativeFacts DEF TreeInv
  <2>3. name \notin Dropped
    BY <1>1, <1>4, <2>2
  <2>4. PICK choice \in was.db[name].choices : Strip!Where(choice) \notin gone_places
    BY <2>1, <2>3, AlternativeFacts DEF Dropped, Strip!Orphaned
  <2>5. Strip!Where(choice) \in was.files /\ Strip!Where(choice) \notin was.dirs
    BY <1>1, <2>1, AlternativeFacts, PlaceFacts
  <2> QED
    BY <1>1, <2>4, <2>5 DEF LeftPlaces
<1> QED
  BY <1>2, <1>3, <1>4

\* The build passes, or is refused for a surprise.
LEMMA CheckStep == StripInv /\ Strip!Check => StripInv'
<1> SUFFICES ASSUME StripInv, Strip!Check PROVE StripInv'
  OBVIOUS
<1>1. /\ strip_at = "check"
      /\ UNCHANGED <<was, python, files, links, dirs, setid, status, records, db, keep, gone_places, folders, todo, shells, accounts>>
  BY DEF Strip!Check, Strip!tree, Strip!dpkg, Strip!sets, Strip!logins
<1>2. CASE Strip!Surprised
  <2>1. strip_at' = "failed"
    BY <1>2 DEF Strip!Check, Strip!Fail
  <2>2. /\ status = Strip!Staying /\ records \cap Strip!ToSet(Purge) = {} /\ python = {} /\ Strip!SetIdEntries = {}
        /\ gone_places \subseteq Purged
    BY <1>1 DEF StripInv, RecordsInv, RightInv, ReviewedInv, Stages
  <2>3. CASE Strip!OnThePath # {}
    <3>1. PICK place \in files \cup DOMAIN links : Strip!Front(place) = Strip!Bin /\ Strip!Last(place) \in Forbidden
      BY <2>3 DEF Strip!OnThePath
    <3>2. /\ place \in Strip!WasPresent /\ place \notin Purged
          /\ \A name \in DOMAIN was.db : place \in Strip!LinksOf(was, name) =>
               \E choice \in was.db[name].choices : Strip!Where(choice) \notin Purged
      BY <1>1, LeftOnThePath DEF Stages
    <3>3. CASE \A name \in DOMAIN was.db : place \notin Strip!LinksOf(was, name)
      <4>1. Excused
        BY <3>1, <3>2, <3>3 DEF Excused
      <4> QED
        BY <1>1, <2>1, <4>1, Refusing
    <3>4. CASE \E name \in DOMAIN was.db : place \in Strip!LinksOf(was, name)
      <4>1. Excused
        BY <3>1, <3>2, <3>4 DEF Excused
      <4> QED
        BY <1>1, <2>1, <4>1, Refusing
    <3> QED
      BY <3>3, <3>4
  <2>4. CASE ~Strip!Exists(Strip!Bin \o <<"python">>)
    <3> DEFINE p == Strip!Bin \o <<"python">>
    <3>1. Strip!Where(p) = p /\ ~Strip!OfTools(p)
      BY PythonIsAPlace
    <3> HIDE DEF p
    <3>2. p \notin was.files \ Purged
      BY <1>1, <2>2, <2>4, <3>1, FileStays DEF Stages, p
    <3>3. Excused
      BY <3>2 DEF Excused, p
    <3> QED
      BY <1>1, <2>1, <3>3, Refusing
  <2>5. status \cap Strip!ToSet(Purge) = {}
    BY <2>2 DEF Strip!Staying
  <2> QED
    BY <1>2, <2>2, <2>3, <2>4, <2>5 DEF Strip!Surprised
<1>3. CASE ~Strip!Surprised
  <2>1. strip_at' = "passed"
    BY <1>3 DEF Strip!Check
  <2>2. TreeInv' /\ UntouchedInv' /\ ReviewedInv' /\ PurgeInv' /\ LeftInv'
    BY <1>1, <2>1, PlacesStay DEF Stages
  <2>3. RecordsInv'
    BY <1>1, <2>1, WasStays DEF StripInv, RecordsInv, Stages
  <2>4. RightInv'
    <3>1. Strip!SetIdEntries' = Strip!SetIdEntries
      BY <1>1 DEF Strip!SetIdEntries
    <3>2. \A path : Strip!Exists(path)' = Strip!Exists(path)
      BY <1>1 DEF Strip!Exists, Strip!Follow
    <3> QED
      BY <1>1, <2>1, <3>1, <3>2 DEF StripInv, RightInv
  <2> QED
    BY <2>1, <2>2, <2>3, <2>4 DEF StripInv, Strip!RefusesOnlySurprises
<1> QED
  BY <1>2, <1>3

\* Every step keeps it.
LEMMA StripStep == StripInv /\ [Strip!Next]_strip_vars => StripInv'
<1>1. StripInv /\ Strip!Next => StripInv'
  BY PythonStep, ReviewStep, PurgeStep, FoldersStep, AlternativesStep, RecordsStep, ToolsStep, LoginsStep,
     BitsStep, CheckStep DEF Strip!Next
<1>2. StripInv /\ UNCHANGED strip_vars => StripInv'
  <2> SUFFICES ASSUME StripInv, UNCHANGED strip_vars PROVE StripInv'
    OBVIOUS
  <2>1. UNCHANGED <<strip_at, was, python, status, records, files, links, dirs, setid, db, shells, accounts,
                    keep, gone_places, folders, todo>>
    BY DEF strip_vars
  <2>2. Strip!Present' = Strip!Present /\ Strip!SetIdEntries' = Strip!SetIdEntries
        /\ Dropped' = Dropped /\ Purged' = Purged /\ Excused' = Excused
    BY <2>1, WasStays DEF Strip!Present, Strip!SetIdEntries
  <2>3. \A path : Strip!Exists(path)' = Strip!Exists(path)
    BY <2>1 DEF Strip!Exists, Strip!Follow
  <2>4. TreeInv' /\ UntouchedInv'
    BY <2>1, <2>2 DEF StripInv, TreeInv, UntouchedInv, Strip!TypeOK
  <2>5. ReviewedInv' /\ PurgeInv'
    BY <2>1, <2>2, WasStays DEF StripInv, ReviewedInv, PurgeInv
  <2>6. LeftInv'
    BY <2>1, <2>2, WasStays DEF StripInv, LeftInv, LeftPlaces
  <2>7. RecordsInv' /\ RightInv'
    BY <2>1, <2>2, <2>3, WasStays DEF StripInv, RecordsInv, RightInv
  <2>8. Strip!RefusesOnlySurprises'
    <3>1. CASE strip_at = "failed"
      BY <2>2, <3>1, ExcusedIsRefused DEF StripInv
    <3>2. CASE strip_at # "failed"
      BY <2>1, <3>2 DEF Strip!RefusesOnlySurprises
    <3> QED
      BY <3>1, <3>2
  <2> QED
    BY <2>4, <2>5, <2>6, <2>7, <2>8 DEF StripInv
<1> QED
  BY <1>1, <1>2

\* The invariant has what the script promises.
LEMMA StripSafe == StripInv => Strip!Safe
<1> SUFFICES ASSUME StripInv PROVE Strip!Safe
  OBVIOUS
<1>1. TreeInv /\ Strip!TypeOK /\ Strip!RefusesOnlySurprises
  BY DEF StripInv, TreeInv
<1>2. CASE strip_at # "passed"
  BY <1>1, <1>2 DEF Strip!Safe, Strip!StayingWhole, Strip!PurgedAway, Strip!AlternativesStand, Strip!LoginsStand,
     Strip!NoBitsLeft, Strip!StatusTrue, Strip!Passed
<1>3. CASE strip_at = "passed"
  <2>1. /\ status = Strip!Staying /\ Strip!SetIdEntries = {}
        /\ \A a \in DOMAIN accounts : accounts[a] = None \/ Strip!Exists(accounts[a])
        /\ gone_places \subseteq Purged /\ folders \subseteq Purged /\ gone_places \cap Strip!Present = {}
        /\ LeftPlaces /\ \A name \in Dropped : Strip!LinksOf(was, name) \cap DOMAIN links = {}
    BY <1>3 DEF StripInv, RecordsInv, RightInv, ReviewedInv, LeftInv, Stages
  <2>2. was \in Images
    BY <1>1 DEF TreeInv
  <2>3. Strip!StayingWhole
    <3>1. ASSUME NEW place \in Strip!PlacesOf(Strip!Staying), place \in Strip!WasPresent PROVE place \in Strip!Present
      <4>1. place \notin gone_places /\ place \notin folders
        BY <2>1, <3>1 DEF Purged
      <4>2. ~Strip!OfTools(place)
        BY <2>2, <3>1, ImageFacts
      <4>3. ASSUME NEW name \in Dropped PROVE place \notin Strip!LinksOf(was, name)
        <5>1. name \in DOMAIN was.db
          BY <4>3 DEF Dropped
        <5> QED
          BY <2>2, <3>1, <5>1, AlternativeFacts
      <4> QED
        BY <2>1, <3>1, <4>1, <4>2, <4>3 DEF LeftPlaces, Strip!Present, Strip!WasPresent
    <3> QED
      BY <3>1 DEF Strip!StayingWhole
  <2>4. Strip!PurgedAway
    <3>1. ASSUME NEW place \in Purged, place \in Strip!Present
          PROVE  \E other \in Strip!Present : Strip!Inside(place, other)
      <4>1. place \in folders /\ place \in was.dirs
        BY <2>1, <3>1 DEF LeftPlaces
      <4>2. place \in dirs
        BY <1>1, <3>1, <4>1, PlaceFacts DEF Strip!Present, TreeInv
      <4> QED
        BY <2>1, <4>1, <4>2 DEF LeftPlaces
    <3> QED
      BY <3>1 DEF Strip!PurgedAway, Purged
  <2>5. Strip!AlternativesStand
    <3> SUFFICES ASSUME NEW name \in DOMAIN was.db
                 PROVE  LET mine == Strip!LinksOf(was, name) \cap DOMAIN links IN
                          IF \E choice \in was.db[name].choices : Strip!Exists(choice)
                          THEN mine = Strip!LinksOf(was, name) \cap DOMAIN was.links
                          ELSE mine = {}
      BY DEF Strip!AlternativesStand
    <3>1. CASE name \in Dropped
      <4>1. ASSUME NEW choice \in was.db[name].choices PROVE ~Strip!Exists(choice)
        <5>1. Strip!Where(choice) \in gone_places
          BY <3>1 DEF Dropped, Strip!Orphaned
        <5>2. Strip!Where(choice) \notin Strip!Present
          BY <2>1, <5>1
        <5> QED
          BY <5>2 DEF Strip!Exists, Strip!Follow, Strip!Present
      <4> QED
        BY <2>1, <3>1, <4>1
    <3>2. CASE name \notin Dropped
      <4>1. PICK choice \in was.db[name].choices : Strip!Where(choice) \notin gone_places
        BY <2>2, <3>2, AlternativeFacts DEF Dropped, Strip!Orphaned
      <4>2. Strip!Where(choice) \in was.files /\ ~Strip!OfTools(Strip!Where(choice))
        BY <2>2, AlternativeFacts
      <4>3. Strip!Exists(choice)
        <5>1. Strip!Where(choice) \in files
          BY <1>3, <4>1, <4>2, FileStays DEF Stages
        <5>2. Strip!Where(choice) \notin DOMAIN links
          BY <1>1, <5>1 DEF Strip!TypeOK
        <5> QED
          BY <5>1, <5>2 DEF Strip!Exists, Strip!Follow
      <4>4. ASSUME NEW place \in Strip!LinksOf(was, name), place \in DOMAIN was.links PROVE place \in DOMAIN links
        <5>1. /\ place \notin Purged /\ ~Strip!OfTools(place)
              /\ \A other \in DOMAIN was.db : other # name => place \notin Strip!LinksOf(was, other)
          BY <2>2, <4>4, AlternativeFacts
        <5>2. \A other \in Dropped : place \notin Strip!LinksOf(was, other)
          BY <3>2, <5>1 DEF Dropped
        <5> QED
          BY <2>1, <4>4, <5>1, <5>2 DEF LeftPlaces
      <4>5. Strip!LinksOf(was, name) \cap DOMAIN links = Strip!LinksOf(was, name) \cap DOMAIN was.links
        BY <1>1, <4>4 DEF TreeInv
      <4> QED
        BY <4>3, <4>5
    <3> QED
      BY <3>1, <3>2
  <2>6. Strip!LoginsStand /\ Strip!StatusTrue
    BY <2>1 DEF Strip!LoginsStand, Strip!StatusTrue
  <2>7. Strip!NoBitsLeft
    BY <2>1 DEF Strip!NoBitsLeft, Strip!SetIdEntries
  <2> QED
    BY <1>1, <2>3, <2>4, <2>5, <2>6, <2>7 DEF Strip!Safe
<1> QED
  BY <1>2, <1>3

-----------------------------------------------------------------------------
(* The dashboards' entrypoint *)

\* Which of the rules at these places is the first that lists a part's name.
Hits(part, rules, s) == {j \in s : rules[j].name \in part.deps}
FirstHit(part, rules, s) == CHOOSE j \in Hits(part, rules, s) : \A k \in Hits(part, rules, s) : j <= k

\* A part that a rule may settle, told by the first that does.
Told(part, rules, s) ==
  IF part.kind \in {"R", "F"} /\ Hits(part, rules, s) # {}
  THEN Render!Plain(IF part.kind = "R" THEN rules[FirstHit(part, rules, s)].reason ELSE part.quiet)
  ELSE part

\* The first rule is one, and none is before it.
LEMMA FirstHitIs ==
  ASSUME NEW part, NEW rules, NEW s, s \subseteq Nat, Hits(part, rules, s) # {}
  PROVE  /\ FirstHit(part, rules, s) \in Hits(part, rules, s)
         /\ \A k \in Hits(part, rules, s) : FirstHit(part, rules, s) <= k
<1>1. Hits(part, rules, s) \subseteq Nat
  BY DEF Hits
<1>2. \E j \in Hits(part, rules, s) : \A k \in Hits(part, rules, s) : j <= k
  BY <1>1, LeastOf
<1> QED
  BY <1>2 DEF FirstHit

\* The largest of some numbers.
LEMMA LargestIs ==
  ASSUME NEW n \in Nat, NEW s \in SUBSET (1..n), s # {}
  PROVE  Render!Max(s) \in s /\ \A y \in s : y <= Render!Max(s)
<1> DEFINE A == {n - y : y \in s}
<1>0. s \subseteq 1..n
  OBVIOUS
<1>1. A \subseteq Nat /\ A # {}
  <2>1. \A y \in s : n - y \in Nat
    BY <1>0
  <2>2. PICK y \in s : TRUE
    OBVIOUS
  <2>3. n - y \in A
    OBVIOUS
  <2> QED
    BY <2>1, <2>3
<1>2. PICK m \in A : \A k \in A : m <= k
  BY <1>1, LeastOf
<1>3. PICK x \in s : m = n - x
  BY <1>2
<1>4. \A y \in s : x >= y
  <2> SUFFICES ASSUME NEW y \in s PROVE x >= y
    OBVIOUS
  <2>0. x \in 1..n /\ y \in 1..n
    BY <1>0
  <2>1. n - x <= n - y
    BY <1>2, <1>3
  <2> QED
    BY <2>0, <2>1
<1>5. \E z \in s : \A y \in s : z >= y
  BY <1>4
<1>6. Render!Max(s) \in s /\ \A y \in s : Render!Max(s) >= y
  BY <1>5 DEF Render!Max
<1> QED
  BY <1>6

\* The last rule settles what the rules before it have left.
LEMMA LastRule ==
  ASSUME NEW part, NEW rules, NEW n \in Nat, NEW s \in SUBSET (1..n), s # {}
  PROVE  Told(part, rules, s) =
           Render!Apply(Told(part, rules, s \ {Render!Max(s)}), rules[Render!Max(s)])
<1> DEFINE x == Render!Max(s)
           t == s \ {x}
           H == Hits(part, rules, s)
           G == Hits(part, rules, t)
<1>1. x \in s /\ \A y \in s : y <= x
  BY LargestIs
<1> HIDE DEF x
<1>2. s \subseteq Nat /\ t \subseteq Nat
  <2>1. s \subseteq 1..n /\ t \subseteq s
    OBVIOUS
  <2>2. 1..n \subseteq Nat
    OBVIOUS
  <2> HIDE DEF t
  <2> QED
    BY <2>1, <2>2
<1>3. /\ G = H \ {x} /\ G \subseteq H
      /\ x \in H <=> rules[x].name \in part.deps
  BY <1>1 DEF Hits
<1>4. CASE part.kind \notin {"R", "F"}
  BY <1>4 DEF Told, Render!Apply
<1>5. CASE part.kind \in {"R", "F"} /\ G # {}
  <2>1. H # {}
    BY <1>3, <1>5
  <2> DEFINE h == FirstHit(part, rules, s)
             g == FirstHit(part, rules, t)
  <2>2. /\ h \in H /\ (\A k \in H : h <= k)
        /\ g \in G /\ (\A k \in G : g <= k)
    BY <1>2, <1>5, <2>1, FirstHitIs
  <2>3. h \in s /\ g \in s
    BY <1>3, <2>2 DEF Hits
  <2> HIDE DEF h, g
  <2>4. h = g
    <3>1. h <= g
      BY <1>3, <2>2
    <3>2. CASE h = x
      BY <1>1, <1>2, <2>3, <3>1, <3>2
    <3>3. CASE h # x
      BY <1>2, <1>3, <2>2, <2>3, <3>1, <3>3
    <3> QED
      BY <3>2, <3>3
  <2>5. Told(part, rules, s) = Told(part, rules, t)
    BY <1>5, <2>1, <2>4 DEF Told, h, g
  <2>6. Told(part, rules, t).kind = "plain"
    BY <1>5 DEF Told, Render!Plain
  <2> QED
    BY <2>5, <2>6 DEF Render!Apply, x
<1>6. CASE part.kind \in {"R", "F"} /\ G = {}
  <2>1. Told(part, rules, t) = part
    BY <1>6 DEF Told
  <2>2. CASE x \in H
    <3>1. H = {x}
      BY <1>3, <1>6, <2>2
    <3>2. FirstHit(part, rules, s) = x
      BY <1>2, <3>1, FirstHitIs
    <3>3. Told(part, rules, s) = Render!Plain(IF part.kind = "R" THEN rules[x].reason ELSE part.quiet)
      BY <1>6, <3>1, <3>2 DEF Told
    <3>4. rules[x].name \in part.deps
      BY <1>3, <2>2
    <3>5. Render!Apply(part, rules[x]) = Render!Plain(IF part.kind = "R" THEN rules[x].reason ELSE part.quiet)
      BY <1>6, <3>4 DEF Render!Apply
    <3> QED
      BY <2>1, <3>3, <3>5 DEF x
  <2>3. CASE x \notin H
    <3>1. H = {}
      BY <1>3, <1>6, <2>3
    <3>2. Told(part, rules, s) = part
      BY <3>1 DEF Told
    <3>3. rules[x].name \notin part.deps
      BY <1>3, <2>3
    <3>4. Render!Apply(part, rules[x]) = part
      BY <3>3 DEF Render!Apply
    <3> QED
      BY <2>1, <3>2, <3>4 DEF x
  <2> QED
    BY <2>2, <2>3
<1> QED
  BY <1>4, <1>5, <1>6

\* What the rules make of a part, in their order, is what the first that lists
\* its name does.
LEMMA FoldOfRules ==
  ASSUME NEW part, NEW rules, NEW n \in Nat, DOMAIN rules = 1..n
  PROVE  Render!FoldLeft(Render!Apply, part, rules) = Told(part, rules, 1..n)
<1> DEFINE S == SUBSET (1..n)
           IsFold(f) == f = [s \in S |-> IF s = {} THEN part
                                         ELSE Render!Apply(f[s \ {Render!Max(s)}], rules[Render!Max(s)])]
           iter == CHOOSE f : IsFold(f)
           told == [s \in S |-> Told(part, rules, s)]
<1>1. Render!FoldLeft(Render!Apply, part, rules) = iter[1..n]
  BY DEF Render!FoldLeft, Render!MapThenFoldSet
<1>2. IsFold(told)
  <2> SUFFICES ASSUME NEW s \in S
               PROVE  told[s] = IF s = {} THEN part
                                ELSE Render!Apply(told[s \ {Render!Max(s)}], rules[Render!Max(s)])
    OBVIOUS
  <2>1. CASE s = {}
    BY <2>1 DEF Told, Hits
  <2>2. CASE s # {}
    <3>1. s \ {Render!Max(s)} \in S
      OBVIOUS
    <3> QED
      BY <2>2, <3>1, LastRule
  <2> QED
    BY <2>1, <2>2
<1>3. IsFold(iter)
  <2> HIDE DEF IsFold, told
  <2> QED
    BY <1>2
<1>4. \A s \in S : iter[s] = IF s = {} THEN part
                             ELSE Render!Apply(iter[s \ {Render!Max(s)}], rules[Render!Max(s)])
  <2> HIDE DEF iter
  <2> QED
    BY <1>3
<1> DEFINE Bad == {k \in 0..n : \E s \in SUBSET (1..k) : iter[s] # Told(part, rules, s)}
<1> HIDE DEF iter
<1>5. Bad = {}
  <2> SUFFICES ASSUME Bad # {} PROVE FALSE
    OBVIOUS
  <2>1. PICK k \in Bad : \A l \in Bad : k <= l
    <3>1. Bad \subseteq Nat
      OBVIOUS
    <3> HIDE DEF Bad
    <3> QED
      BY <3>1, LeastOf
  <2>2. PICK s \in SUBSET (1..k) : iter[s] # Told(part, rules, s)
    BY <2>1
  <2>3. k \in 0..n /\ s \in S
    BY <2>1
  <2>4. s # {}
    BY <1>4, <2>2, <2>3 DEF Told, Hits
  <2> DEFINE x == Render!Max(s)
             t == s \ {x}
  <2>5. x \in s /\ \A y \in s : y <= x
    BY <2>3, <2>4, LargestIs
  <2> HIDE DEF x
  <2>6. t \in SUBSET (1..(k - 1)) /\ k - 1 \in 0..n /\ t \in S
    BY <2>3, <2>5
  <2>7. k - 1 \notin Bad
    <3>1. k \in Nat /\ ~(k <= k - 1)
      BY <2>3
    <3> HIDE DEF Bad
    <3> QED
      BY <2>1, <3>1
  <2>8. iter[t] = Told(part, rules, t)
    BY <2>6, <2>7
  <2>9. iter[s] = Told(part, rules, s)
    <3>1. iter[s] = Render!Apply(iter[t], rules[x])
      BY <1>4, <2>3, <2>4 DEF x
    <3>2. Told(part, rules, s) = Render!Apply(Told(part, rules, t), rules[x])
      <4>1. s \in SUBSET (1..n) /\ s # {}
        BY <2>3, <2>4
      <4> QED
        BY <4>1, LastRule DEF x
    <3> QED
      BY <2>8, <3>1, <3>2
  <2> QED
    BY <2>2, <2>9
<1>6. iter[1..n] = Told(part, rules, 1..n)
  BY <1>5
<1> QED
  BY <1>1, <1>6

\* The rules made of some names.
RulesOf(names, reason) ==
  [k \in 1..Render!Cardinality(names) |-> [name |-> Render!SetToSeq(names)[k], reason |-> reason]]

\* One for each name, and each with the reason.
AreRules(r, names, reason) ==
  /\ r \in Seq([name : names, reason : {reason}]) /\ Len(r) \in Nat
  /\ \A k \in 1..Len(r) : r[k].reason = reason /\ r[k].name \in names
  /\ \A x \in names : \E k \in 1..Len(r) : r[k].name = x

\* The program's rules are such.
LEMMA RulesAre ==
  ASSUME NEW names, IsFiniteSet(names), NEW reason
  PROVE  AreRules(RulesOf(names, reason), names, reason)
<1> DEFINE n == Cardinality(names)
           f == Render!SetToSeq(names)
           r == RulesOf(names, reason)
<1>1. n \in Nat /\ ExistsBijection(1..n, names)
  BY FS_CardinalityType
<1>2. Render!Cardinality(names) = n
  BY DEF Render!Cardinality, Cardinality, Render!IsFiniteSet, IsFiniteSet
<1>3. f \in [1..n -> names] /\ \A i, j \in 1..n : f[i] = f[j] => i = j
  <2>1. PICK g \in Bijection(1..n, names) : TRUE
    BY <1>1 DEF ExistsBijection
  <2>2. g \in [1..n -> names] /\ \A i, j \in 1..n : g[i] = g[j] => i = j
    BY <2>1 DEF Bijection, Injection, IsInjective
  <2>3. Render!IsInjective(g)
    BY <2>2 DEF Render!IsInjective
  <2>4. f \in [1..n -> names] /\ Render!IsInjective(f)
    BY <1>2, <2>2, <2>3 DEF Render!SetToSeq
  <2> HIDE DEF f
  <2> QED
    BY <2>4 DEF Render!IsInjective
<1> HIDE DEF f
<1>4. f \in Injection(1..n, names)
  BY <1>3 DEF Injection, IsInjective
<1>5. IsFiniteSet(1..n) /\ Cardinality(1..n) = n
  BY <1>1, FS_Interval
<1>6. \A x \in names : \E k \in 1..n : f[k] = x
  <2>1. f \in Surjection(1..n, names)
    BY <1>4, <1>5, FS_Injection
  <2> QED
    BY <2>1 DEF Surjection
<1>7. r = [k \in 1..n |-> [name |-> f[k], reason |-> reason]]
  BY <1>2 DEF RulesOf, f
<1> HIDE DEF r, n
<1>8. r \in [1..n -> [name : names, reason : {reason}]]
  BY <1>3, <1>7
<1>9. r \in Seq([name : names, reason : {reason}]) /\ Len(r) = n
  <2> DEFINE S == [name : names, reason : {reason}]
  <2> HIDE DEF S
  <2>1. r \in [1..n -> S]
    BY <1>8 DEF S
  <2>2. r \in Seq(S)
    BY <1>1, <2>1, SeqDef
  <2> QED
    BY <1>1, <2>1, <2>2, LenProperties DEF S
<1>10. \A k \in 1..n : r[k].reason = reason /\ r[k].name = f[k]
  BY <1>7
<1>11. AreRules(r, names, reason)
  BY <1>1, <1>3, <1>6, <1>9, <1>10 DEF AreRules
<1> QED
  BY <1>11 DEF r

\* A sequence over some values is one over more.
LEMMA WiderSeq == ASSUME NEW S, NEW T, S \subseteq T, NEW s \in Seq(S) PROVE s \in Seq(T)
<1>1. s \in [1..Len(s) -> S] /\ Len(s) \in Nat
  BY LenProperties
<1>2. s \in [1..Len(s) -> T]
  BY <1>1
<1> QED
  BY <1>1, <1>2, SeqDef

\* A setting's names, when they are not refused, are finite sets.
NamesOfRules == IsFiniteSet(set.not_deployed) /\ IsFiniteSet(set.paused) /\ IsFiniteSet(set.stopped)

\* Where the three kinds of rule are in a program.
InThree(p, a, b, c) ==
  /\ DOMAIN p = 1..(a + b + c)
  /\ \A k \in 1..a : p[k].reason = "not deployed" /\ p[k].name \in set.not_deployed
  /\ \A k \in (a + 1)..(a + b) : p[k].reason = "paused" /\ p[k].name \in set.paused
  /\ \A k \in (a + b + 1)..(a + b + c) : p[k].reason = "database stopped" /\ p[k].name \in set.stopped
  /\ \A x \in set.not_deployed : \E k \in 1..a : p[k].name = x
  /\ \A x \in set.paused : \E k \in (a + 1)..(a + b) : p[k].name = x
  /\ \A x \in set.stopped : \E k \in (a + b + 1)..(a + b + c) : p[k].name = x

\* The rules of jobs not deployed come first, those of databases last.
LEMMA ProgramIs ==
  ASSUME NamesOfRules
  PROVE  \E a, b, c \in Nat : InThree(Render!Program, a, b, c)
<1> DEFINE u == RulesOf(set.not_deployed, "not deployed")
           v == RulesOf(set.paused, "paused")
           w == RulesOf(set.stopped, "database stopped")
           a == Len(u)
           b == Len(v)
           c == Len(w)
           p == Render!Program
           U == [name : set.not_deployed, reason : {"not deployed"}]
           V == [name : set.paused, reason : {"paused"}]
           W == [name : set.stopped, reason : {"database stopped"}]
           R == U \cup V \cup W
<1> DEFINE Us(r) == AreRules(r, set.not_deployed, "not deployed")
           Vs(r) == AreRules(r, set.paused, "paused")
           Ws(r) == AreRules(r, set.stopped, "database stopped")
<1>1. Us(u) /\ Vs(v) /\ Ws(w)
  BY RulesAre DEF NamesOfRules
<1>2. p = (u \o v) \o w
  BY DEF Render!Program, RulesOf
<1> HIDE DEF u, v, w, p, a, b, c
<1>3. /\ u \in Seq(U) /\ a \in Nat
      /\ \A k \in 1..a : u[k].reason = "not deployed" /\ u[k].name \in set.not_deployed
      /\ \A x \in set.not_deployed : \E k \in 1..a : u[k].name = x
  BY <1>1 DEF AreRules, a
<1>4. /\ v \in Seq(V) /\ b \in Nat
      /\ \A k \in 1..b : v[k].reason = "paused" /\ v[k].name \in set.paused
      /\ \A x \in set.paused : \E k \in 1..b : v[k].name = x
  BY <1>1 DEF AreRules, b
<1>5. /\ w \in Seq(W) /\ c \in Nat
      /\ \A k \in 1..c : w[k].reason = "database stopped" /\ w[k].name \in set.stopped
      /\ \A x \in set.stopped : \E k \in 1..c : w[k].name = x
  BY <1>1 DEF AreRules, c
<1> HIDE DEF Us, Vs, Ws
<1>6. u \in Seq(R) /\ v \in Seq(R) /\ w \in Seq(R)
  <2>1. U \subseteq R /\ V \subseteq R /\ W \subseteq R
    OBVIOUS
  <2> HIDE DEF U, V, W, R
  <2> QED
    BY <1>3, <1>4, <1>5, <2>1, WiderSeq
<1> HIDE DEF U, V, W, R
<1>7. /\ u \o v \in Seq(R) /\ Len(u \o v) = a + b
      /\ \A k \in 1..(a + b) : (u \o v)[k] = IF k <= a THEN u[k] ELSE v[k - a]
  BY <1>6, ConcatProperties DEF a, b
<1> DEFINE x == u \o v
<1> HIDE DEF x
<1>8. /\ p \in Seq(R) /\ Len(p) = a + b + c
      /\ \A k \in 1..(a + b + c) : p[k] = IF k <= a + b THEN x[k] ELSE w[k - (a + b)]
  BY <1>2, <1>6, <1>7, ConcatProperties DEF x, c
<1>9. DOMAIN p = 1..(a + b + c)
  BY <1>8
<1>10. a \in Nat /\ b \in Nat /\ c \in Nat
  BY <1>3, <1>4, <1>5
<1>11. \A k \in 1..(a + b) : x[k] = IF k <= a THEN u[k] ELSE v[k - a]
  BY <1>7 DEF x
<1>12. \A k \in 1..a : p[k] = u[k]
  <2> TAKE k \in 1..a
  <2>1. k \in 1..(a + b) /\ k \in 1..(a + b + c) /\ k <= a + b /\ k <= a
    BY <1>10
  <2> QED
    BY <1>8, <1>11, <2>1
<1>13. \A k \in (a + 1)..(a + b) : k - a \in 1..b /\ p[k] = v[k - a]
  <2> TAKE k \in (a + 1)..(a + b)
  <2>1. k \in 1..(a + b) /\ k \in 1..(a + b + c) /\ k <= a + b /\ ~(k <= a) /\ k - a \in 1..b
    BY <1>10
  <2> QED
    BY <1>8, <1>11, <2>1
<1>14. \A k \in (a + b + 1)..(a + b + c) : k - (a + b) \in 1..c /\ p[k] = w[k - (a + b)]
  <2> TAKE k \in (a + b + 1)..(a + b + c)
  <2>1. k \in 1..(a + b + c) /\ ~(k <= a + b) /\ k - (a + b) \in 1..c
    BY <1>10
  <2> QED
    BY <1>8, <2>1
<1>15. \A k \in 1..b : a + k \in (a + 1)..(a + b) /\ (a + k) - a = k
  BY <1>10
<1>16. \A k \in 1..c : a + b + k \in (a + b + 1)..(a + b + c) /\ (a + b + k) - (a + b) = k
  BY <1>10
<1>17. \A k \in (a + 1)..(a + b) : p[k].reason = "paused" /\ p[k].name \in set.paused
  BY <1>4, <1>13
<1>18. \A k \in (a + b + 1)..(a + b + c) : p[k].reason = "database stopped" /\ p[k].name \in set.stopped
  <2> TAKE k \in (a + b + 1)..(a + b + c)
  <2>1. k - (a + b) \in 1..c /\ p[k] = w[k - (a + b)]
    BY <1>14
  <2> QED
    BY <1>5, <2>1
<1>19. \A y \in set.not_deployed : \E k \in 1..a : p[k].name = y
  BY <1>3, <1>12
<1>20. \A y \in set.paused : \E k \in (a + 1)..(a + b) : p[k].name = y
  <2> TAKE y \in set.paused
  <2>1. PICK k \in 1..b : v[k].name = y
    BY <1>4
  <2>2. a + k \in (a + 1)..(a + b) /\ (a + k) - a = k
    BY <1>15
  <2>3. p[a + k] = v[k]
    BY <1>13, <2>2
  <2> QED
    BY <2>1, <2>2, <2>3
<1>21. \A y \in set.stopped : \E k \in (a + b + 1)..(a + b + c) : p[k].name = y
  <2> TAKE y \in set.stopped
  <2>1. PICK k \in 1..c : w[k].name = y
    BY <1>5
  <2>2. a + b + k \in (a + b + 1)..(a + b + c) /\ (a + b + k) - (a + b) = k
    BY <1>16
  <2>3. p[a + b + k] = w[k]
    BY <1>14, <2>2
  <2> QED
    BY <2>1, <2>2, <2>3
<1>22. \A k \in 1..a : p[k].reason = "not deployed" /\ p[k].name \in set.not_deployed
  BY <1>3, <1>12
<1>23. InThree(p, a, b, c)
  BY <1>9, <1>17, <1>18, <1>19, <1>20, <1>21, <1>22 DEF InThree
<1> QED
  BY <1>10, <1>23 DEF p

\* The first rule that lists a part's name says why it is quiet, and none does
\* where it is not.
LEMMA FirstRuleIsWhy ==
  ASSUME NamesOfRules, NEW part
  PROVE  \E n \in Nat :
           /\ DOMAIN Render!Program = 1..n
           /\ Hits(part, Render!Program, 1..n) = {} <=> Render!Reason(part.deps) = ""
           /\ Hits(part, Render!Program, 1..n) # {} =>
                Render!Program[FirstHit(part, Render!Program, 1..n)].reason = Render!Reason(part.deps)
<1>1. PICK a, b, c \in Nat : InThree(Render!Program, a, b, c)
  BY ProgramIs
<1> DEFINE p == Render!Program
           n == a + b + c
           H == Hits(part, p, 1..n)
           h == FirstHit(part, p, 1..n)
           why == Render!Reason(part.deps)
<1> HIDE DEF p
<1>2. InThree(p, a, b, c)
  BY <1>1 DEF p
<1>3. n \in Nat /\ DOMAIN p = 1..n /\ 1..n \subseteq Nat
  <2>1. DOMAIN p = 1..n
    BY <1>2 DEF InThree
  <2>2. n \in Nat /\ 1..n \subseteq Nat
    OBVIOUS
  <2> QED
    BY <2>1, <2>2
<1>4. \A k \in 1..n : k \in 1..a \/ k \in (a + 1)..(a + b) \/ k \in (a + b + 1)..(a + b + c)
  OBVIOUS
<1>5. 1..a \subseteq 1..n /\ (a + 1)..(a + b) \subseteq 1..n /\ (a + b + 1)..(a + b + c) \subseteq 1..n
  OBVIOUS
<1>6. H # {} => h \in H /\ \A k \in H : h <= k
  BY <1>3, FirstHitIs
<1>7. \A k : k \in H <=> k \in 1..n /\ p[k].name \in part.deps
  BY DEF Hits
<1>8. \A k \in 1..n : \A l \in 1..n : ~(k <= l) \/ ~(l < k)
  OBVIOUS
<1> HIDE DEF h, H
<1>9. CASE part.deps \cap set.not_deployed # {}
  <2>1. why = "not deployed"
    BY <1>9 DEF Render!Reason
  <2>2. PICK k \in 1..a : k \in H
    <3>1. PICK x \in set.not_deployed : x \in part.deps
      BY <1>9
    <3>2. PICK k \in 1..a : p[k].name = x
      BY <1>2 DEF InThree
    <3> QED
      BY <1>5, <1>7, <3>1, <3>2
  <2>3. h \in 1..n /\ h <= k
    BY <1>6, <1>7, <2>2
  <2>4. h \in 1..a
    BY <2>3
  <2>5. p[h].reason = "not deployed"
    BY <1>2, <2>4 DEF InThree
  <2> QED
    BY <1>3, <2>1, <2>2, <2>5 DEF p, h, H
<1>10. CASE part.deps \cap set.not_deployed = {} /\ part.deps \cap set.paused # {}
  <2>1. why = "paused"
    BY <1>10 DEF Render!Reason
  <2>2. PICK k \in (a + 1)..(a + b) : k \in H
    <3>1. PICK x \in set.paused : x \in part.deps
      BY <1>10
    <3>2. PICK k \in (a + 1)..(a + b) : p[k].name = x
      BY <1>2 DEF InThree
    <3> QED
      BY <1>5, <1>7, <3>1, <3>2
  <2>3. h \in 1..n /\ h <= k /\ p[h].name \in part.deps
    BY <1>6, <1>7, <2>2
  <2>4. h \notin 1..a
    BY <1>2, <1>10, <2>3 DEF InThree
  <2>5. h \in (a + 1)..(a + b)
    BY <2>3, <2>4
  <2>6. p[h].reason = "paused"
    BY <1>2, <2>5 DEF InThree
  <2> QED
    BY <1>3, <2>1, <2>2, <2>6 DEF p, h, H
<1>11. CASE /\ part.deps \cap set.not_deployed = {} /\ part.deps \cap set.paused = {}
            /\ part.deps \cap set.stopped # {}
  <2>1. why = "database stopped"
    BY <1>11 DEF Render!Reason
  <2>2. PICK k \in (a + b + 1)..(a + b + c) : k \in H
    <3>1. PICK x \in set.stopped : x \in part.deps
      BY <1>11
    <3>2. PICK k \in (a + b + 1)..(a + b + c) : p[k].name = x
      BY <1>2 DEF InThree
    <3> QED
      BY <1>5, <1>7, <3>1, <3>2
  <2>3. h \in 1..n /\ p[h].name \in part.deps
    BY <1>6, <1>7, <2>2
  <2>4. h \notin 1..a /\ h \notin (a + 1)..(a + b)
    BY <1>2, <1>11, <2>3 DEF InThree
  <2>5. h \in (a + b + 1)..(a + b + c)
    BY <1>4, <2>3, <2>4
  <2>6. p[h].reason = "database stopped"
    BY <1>2, <2>5 DEF InThree
  <2> QED
    BY <1>3, <2>1, <2>2, <2>6 DEF p, h, H
<1>12. CASE /\ part.deps \cap set.not_deployed = {} /\ part.deps \cap set.paused = {}
            /\ part.deps \cap set.stopped = {}
  <2>1. why = ""
    BY <1>12 DEF Render!Reason
  <2>2. H = {}
    <3> SUFFICES ASSUME NEW k \in H PROVE FALSE
      OBVIOUS
    <3>1. k \in 1..n /\ p[k].name \in part.deps
      BY <1>7
    <3>2. p[k].name \in set.not_deployed \cup set.paused \cup set.stopped
      <4>1. CASE k \in 1..a
        BY <1>2, <4>1 DEF InThree
      <4>2. CASE k \in (a + 1)..(a + b)
        BY <1>2, <4>2 DEF InThree
      <4>3. CASE k \in (a + b + 1)..(a + b + c)
        BY <1>2, <4>3 DEF InThree
      <4> QED
        BY <1>4, <3>1, <4>1, <4>2, <4>3
    <3> QED
      BY <1>12, <3>1, <3>2
  <2> QED
    BY <1>3, <2>1, <2>2 DEF p, h, H
<1> QED
  BY <1>9, <1>10, <1>11, <1>12

\* A part whose reason is known, settled: R reads why it is quiet, F what it
\* reads then, and neither does where nothing makes it quiet.
LEMMA PartTold ==
  ASSUME NamesOfRules, NEW part
  PROVE  LET why == Render!Reason(part.deps)
             sed == Render!Settle(Render!FoldLeft(Render!Apply, part, Render!Program))
         IN  /\ part.kind = "R" => sed = Render!Plain(IF why = "" THEN part.normal ELSE why)
             /\ part.kind = "F" => sed = Render!Plain(IF why = "" THEN part.normal ELSE part.quiet)
             /\ part.kind \notin {"R", "F"} => sed = Render!Settle(part)
<1>1. PICK n \in Nat :
        /\ DOMAIN Render!Program = 1..n
        /\ Hits(part, Render!Program, 1..n) = {} <=> Render!Reason(part.deps) = ""
        /\ Hits(part, Render!Program, 1..n) # {} =>
             Render!Program[FirstHit(part, Render!Program, 1..n)].reason = Render!Reason(part.deps)
  BY FirstRuleIsWhy
<1> DEFINE told == Told(part, Render!Program, 1..n)
<1>2. Render!FoldLeft(Render!Apply, part, Render!Program) = told
  BY <1>1, FoldOfRules
<1>3. part.kind \notin {"R", "F"} => told = part
  BY DEF Told
<1>4. /\ part.kind = "R" /\ Render!Reason(part.deps) # "" => told = Render!Plain(Render!Reason(part.deps))
      /\ part.kind = "F" /\ Render!Reason(part.deps) # "" => told = Render!Plain(part.quiet)
      /\ Render!Reason(part.deps) = "" => told = part
  BY <1>1 DEF Told
<1>5. \A text : Render!Settle(Render!Plain(text)) = Render!Plain(text)
  BY DEF Render!Settle, Render!Plain
<1>6. part.kind \in {"R", "F"} => Render!Settle(part) = Render!Plain(part.normal)
  BY DEF Render!Settle
<1> HIDE DEF told
<1> QED
  BY <1>2, <1>3, <1>4, <1>5, <1>6

\* A setting that is not refused, and why it makes a tile quiet.
Fine(s) ==
  /\ s.environment \in Render!Environments
  /\ s.environment = "production" => s.paused \cup s.not_deployed \cup s.stopped = {}
  /\ s.paused \subseteq KNOWN_PAUSED_JOBS /\ s.not_deployed \subseteq KNOWN_NOT_DEPLOYED_JOBS
  /\ s.stopped \subseteq KNOWN_DATABASES
Why(deps, s) ==
  IF deps \cap s.not_deployed # {} THEN "not deployed"
  ELSE IF deps \cap s.paused # {} THEN "paused"
  ELSE IF deps \cap s.stopped # {} THEN "database stopped" ELSE ""

\* What a start with some settings makes of a part, and of a page.
Fits(part, from, s) ==
  /\ from.kind = "R" => part = Render!Plain(IF Why(from.deps, s) = "" THEN from.normal ELSE Why(from.deps, s))
  /\ from.kind = "F" => part = Render!Plain(IF Why(from.deps, s) = "" THEN from.normal ELSE from.quiet)
  /\ from.kind = "E" => part.kind = "plain"
  /\ from.kind = "P" => part.kind = IF from.normal = "cloud-cc" /\ ~s.cc THEN "no project" ELSE "project"
  /\ from.kind \notin {"R", "F", "E", "P"} => part.kind = from.kind
Rendered(page, from, s) ==
  /\ DOMAIN page = DOMAIN from /\ Len(page) = Len(from)
  /\ \A k \in DOMAIN from : Fits(page[k], from[k], s)

\* The page of the image that one in Grafana's directory is made from, and a
\* part no script knows.
Of(name, im, s) == im[Render!Chosen(DOMAIN im, name, s.cc, s.environment)]
Strange(im) == \E f \in DOMAIN im : \E k \in DOMAIN im[f] : im[f][k].kind \notin {"plain", "R", "F", "E", "P"}

\* The pages there are while the script runs: of these settings' own set, each
\* from its file, in the scratch directory or, once the old ones are removed, in
\* Grafana's.
PagesInv ==
  /\ script_pc \in {"render", "move", "grafana"} => Fine(set)
  /\ script_pc = "check" => work = <<>>
  /\ script_pc \in {"render", "move"} =>
       /\ DOMAIN work \subseteq Render!Kept(DOMAIN image, set.cc)
       /\ \A name \in DOMAIN work : Rendered(work[name], Of(name, image, set), set)
  /\ script_pc = "move" =>
       /\ DOMAIN work \cup DOMAIN dst = Render!Kept(DOMAIN image, set.cc)
       /\ \A name \in DOMAIN work : Render!Settled(work[name])
  /\ script_pc \in {"move", "grafana"} => \A name \in DOMAIN dst : Rendered(dst[name], Of(name, image, set), set)
  /\ script_pc = "grafana" => DOMAIN dst = Render!Kept(DOMAIN image, set.cc)
  /\ script_pc = "refused" => ~Fine(set) \/ ~set.ids \/ set.paused \cap set.not_deployed # {}
                              \/ Render!Pages(DOMAIN image) = {} \/ Strange(image)

\* The inductive invariant.
RenderInv ==
  /\ image \in GrafanaImages /\ set \in ContainerSettings /\ starts \in 1..MaxStarts
  /\ script_pc \in {"check", "render", "move", "grafana", "refused"}
  /\ DOMAIN work \subseteq Render!Pages(DOMAIN image) /\ DOMAIN dst \subseteq Render!Pages(DOMAIN image)
  /\ \A name \in DOMAIN dst : Render!Settled(dst[name])
  /\ PagesInv

\* What is refused of a setting.
LEMMA RefusedIs == Render!Refused <=> ~Fine(set) \/ ~set.ids \/ set.paused \cap set.not_deployed # {}
BY DEF Render!Refused, Fine

\* The names of settings that are not refused are finite sets.
LEMMA FineNames == ASSUME Fine(set) PROVE NamesOfRules
<1>1. /\ IsFiniteSet(KNOWN_PAUSED_JOBS) /\ IsFiniteSet(KNOWN_NOT_DEPLOYED_JOBS)
      /\ IsFiniteSet(KNOWN_DATABASES)
  BY ContainersAreTyped
<1> QED
  BY <1>1, FS_Subset DEF Fine, NamesOfRules

\* What is written of a page is that page for these settings.
LEMMA SedRenders ==
  ASSUME Fine(set), NEW page \in Seq(Render!Parts)
  PROVE  Rendered(Render!Sed(page), page, set)
<1> DEFINE sed == Render!Sed(page)
<1>1. sed = [k \in DOMAIN page |-> Render!Settle(Render!FoldLeft(Render!Apply, page[k], Render!Program))]
  BY DEF Render!Sed
<1>2. Len(page) \in Nat /\ DOMAIN page = 1..Len(page)
  OBVIOUS
<1>3. DOMAIN sed = DOMAIN page /\ Len(sed) = Len(page)
  BY <1>1, <1>2
<1>4. ASSUME NEW k \in DOMAIN page PROVE Fits(sed[k], page[k], set)
  <2> DEFINE part == page[k]
  <2>1. sed[k] = Render!Settle(Render!FoldLeft(Render!Apply, part, Render!Program))
    BY <1>1
  <2>2. Render!Reason(part.deps) = Why(part.deps, set)
    BY DEF Render!Reason, Why
  <2> HIDE DEF part, sed
  <2>3. /\ part.kind = "R" => sed[k] = Render!Plain(IF Why(part.deps, set) = "" THEN part.normal ELSE Why(part.deps, set))
        /\ part.kind = "F" => sed[k] = Render!Plain(IF Why(part.deps, set) = "" THEN part.normal ELSE part.quiet)
        /\ part.kind \notin {"R", "F"} => sed[k] = Render!Settle(part)
    BY <2>1, <2>2, FineNames, PartTold
  <2>4. part.kind = "E" => Render!Settle(part).kind = "plain"
    BY DEF Render!Settle, Render!Plain
  <2>5. part.kind = "P" => Render!Settle(part).kind = IF part.normal = "cloud-cc" /\ ~set.cc THEN "no project" ELSE "project"
    <3>1. part \in Render!Parts
      BY DEF part
    <3> QED
      BY <3>1 DEF Render!Settle, Render!Parts
  <2>6. part.kind \notin {"R", "F", "E", "P"} => Render!Settle(part) = part
    BY DEF Render!Settle
  <2>7. Fits(sed[k], part, set)
    BY <2>3, <2>4, <2>5, <2>6 DEF Fits
  <2> QED
    BY <2>7 DEF part
<1> HIDE DEF sed
<1>5. Rendered(sed, page, set)
  BY <1>3, <1>4 DEF Rendered
<1> QED
  BY <1>5 DEF sed

\* A page is made from a file of the image.
LEMMA ChosenIsThere ==
  ASSUME NEW im \in GrafanaImages, NEW name \in Render!Pages(DOMAIN im), NEW s
  PROVE  /\ Render!Chosen(DOMAIN im, name, s.cc, s.environment) \in DOMAIN im
         /\ Of(name, im, s) \in Seq(Render!Parts)
<1>1. \A f \in DOMAIN im : f = <<f[1], f[2]>> /\ im[f] \in Seq(Render!Parts)
  BY ContainersAreTyped DEF Render!Written
<1>2. PICK f \in DOMAIN im : f[1] = "pages" /\ f[2] = name
  BY DEF Render!Pages
<1>3. <<"pages", name>> \in DOMAIN im
  BY <1>1, <1>2
<1>4. Render!Chosen(DOMAIN im, name, s.cc, s.environment) \in DOMAIN im
  BY <1>3 DEF Render!Chosen
<1> QED
  BY <1>1, <1>4 DEF Of

\* The pages used are pages.
LEMMA KeptArePages == ASSUME NEW files_there, NEW cc PROVE Render!Kept(files_there, cc) \subseteq Render!Pages(files_there)
BY DEF Render!Kept

\* What is not settled after these settings comes from a part no script knows.
LEMMA UnsettledIsStrange ==
  ASSUME NEW im \in GrafanaImages, NEW name \in Render!Pages(DOMAIN im), NEW s, NEW page,
         Rendered(page, Of(name, im, s), s), ~Render!Settled(page)
  PROVE  Strange(im)
<1> DEFINE from == Of(name, im, s)
<1>1. PICK k \in DOMAIN page : page[k].kind \notin {"plain", "project", "no project"}
  BY DEF Render!Settled
<1>2. k \in DOMAIN from /\ Fits(page[k], from[k], s)
  BY <1>1 DEF Rendered
<1>3. from[k].kind \notin {"plain", "R", "F", "E", "P"}
  <2> DEFINE part == page[k]
             was_part == from[k]
  <2> HIDE DEF part, was_part, from
  <2>1. Fits(part, was_part, s) /\ part.kind \notin {"plain", "project", "no project"}
    BY <1>1, <1>2 DEF part, was_part
  <2>2. \A text : Render!Plain(text).kind = "plain"
    BY DEF Render!Plain
  <2>3. was_part.kind \notin {"R", "F"}
    BY <2>1, <2>2 DEF Fits
  <2>4. was_part.kind \notin {"E", "P"}
    BY <2>1 DEF Fits
  <2>5. part.kind = was_part.kind
    BY <2>1, <2>3, <2>4 DEF Fits
  <2> QED
    BY <2>1, <2>3, <2>4, <2>5 DEF was_part
<1>4. Render!Chosen(DOMAIN im, name, s.cc, s.environment) \in DOMAIN im
  BY ChosenIsThere
<1> QED
  BY <1>2, <1>3, <1>4 DEF Strange, Of

\* Nothing is written as a container starts.
LEMMA RenderInit == Render!Init => RenderInv
<1> SUFFICES ASSUME Render!Init PROVE RenderInv
  OBVIOUS
<1>1. /\ image \in GrafanaImages /\ set \in ContainerSettings /\ starts = 1
      /\ script_pc = "check" /\ work = <<>> /\ dst = <<>>
  BY DEF Render!Init
<1>2. DOMAIN work = {} /\ DOMAIN dst = {}
  BY <1>1
<1>3. starts \in 1..MaxStarts
  BY <1>1, ContainersAreTyped
<1> QED
  BY <1>1, <1>2, <1>3 DEF RenderInv, PagesInv

\* Every step of the script, and every start of a container, keeps the invariant.
LEMMA RenderStep == RenderInv /\ [Render!Next]_render_vars => RenderInv'
<1> SUFFICES ASSUME RenderInv, [Render!Next]_render_vars PROVE RenderInv'
  OBVIOUS
<1> DEFINE kept == Render!Kept(DOMAIN image, set.cc)
           pages == Render!Pages(DOMAIN image)
<1>0. kept \subseteq pages
  BY KeptArePages
<1>1. CASE Render!Check
  <2>1. /\ script_pc = "check" /\ UNCHANGED <<image, set, starts, work, dst>>
        /\ script_pc' = IF Render!Refused \/ pages = {} THEN "refused" ELSE "render"
    BY <1>1 DEF Render!Check, Render!src
  <2>2. work = <<>> /\ DOMAIN work = {}
    BY <2>1 DEF RenderInv, PagesInv
  <2>3. CASE Render!Refused \/ pages = {}
    BY <2>1, <2>3, RefusedIs DEF RenderInv, PagesInv
  <2>4. CASE ~(Render!Refused \/ pages = {})
    <3>1. Fine(set)
      BY <2>4, RefusedIs
    <3> QED
      BY <2>1, <2>2, <2>4, <3>1 DEF RenderInv, PagesInv
  <2> QED
    BY <2>3, <2>4
<1>2. CASE Render!Render
  <2>1. PICK name \in kept \ DOMAIN work :
          work' = [n \in DOMAIN work \cup {name} |->
                     IF n = name THEN Render!Sed(Of(name, image, set)) ELSE work[n]]
    BY <1>2 DEF Render!Render, Render!src, Of
  <2>2. script_pc = "render" /\ UNCHANGED <<image, set, starts, script_pc, dst>>
    BY <1>2 DEF Render!Render
  <2>3. Fine(set) /\ DOMAIN work \subseteq kept /\ \A n \in DOMAIN work : Rendered(work[n], Of(n, image, set), set)
    BY <2>2 DEF RenderInv, PagesInv
  <2>4. DOMAIN work' = DOMAIN work \cup {name} /\ work'[name] = Render!Sed(Of(name, image, set))
    BY <2>1
  <2>5. \A n \in DOMAIN work : work'[n] = work[n]
    BY <2>1
  <2>6. Rendered(work'[name], Of(name, image, set), set)
    <3>1. Of(name, image, set) \in Seq(Render!Parts)
      BY <1>0, <2>1, ChosenIsThere DEF RenderInv
    <3> QED
      BY <2>3, <2>4, <3>1, SedRenders
  <2>7. DOMAIN work' \subseteq kept /\ \A n \in DOMAIN work' : Rendered(work'[n], Of(n, image, set), set)
    BY <2>1, <2>3, <2>4, <2>5, <2>6
  <2> QED
    BY <1>0, <2>2, <2>3, <2>7 DEF RenderInv, PagesInv
<1>3. CASE Render!RemoveOld
  <2>1. /\ script_pc = "render" /\ DOMAIN work = kept /\ UNCHANGED <<image, set, starts, work>>
        /\ IF \A name \in DOMAIN work : Render!Settled(work[name])
           THEN script_pc' = "move" /\ dst' = <<>>
           ELSE script_pc' = "refused" /\ UNCHANGED dst
    BY <1>3 DEF Render!RemoveOld, Render!src
  <2>2. Fine(set) /\ \A n \in DOMAIN work : Rendered(work[n], Of(n, image, set), set)
    BY <2>1 DEF RenderInv, PagesInv
  <2>3. CASE \A name \in DOMAIN work : Render!Settled(work[name])
    <3>1. script_pc' = "move" /\ dst' = <<>>
      BY <2>1, <2>3
    <3>2. DOMAIN dst' = {}
      BY <3>1
    <3> QED
      BY <2>1, <2>2, <2>3, <3>1, <3>2 DEF RenderInv, PagesInv
  <2>4. CASE \E name \in DOMAIN work : ~Render!Settled(work[name])
    <3>1. script_pc' = "refused" /\ UNCHANGED dst
      BY <2>1, <2>4
    <3>2. Strange(image)
      BY <1>0, <2>1, <2>2, <2>4, UnsettledIsStrange DEF RenderInv
    <3> QED
      BY <2>1, <3>1, <3>2 DEF RenderInv, PagesInv
  <2> QED
    BY <2>3, <2>4
<1>4. CASE Render!Move
  <2>1. PICK name \in DOMAIN work :
          /\ dst' = [n \in DOMAIN dst \cup {name} |-> IF n = name THEN work[n] ELSE dst[n]]
          /\ work' = [n \in DOMAIN work \ {name} |-> work[n]]
    BY <1>4 DEF Render!Move
  <2>2. script_pc = "move" /\ UNCHANGED <<image, set, starts, script_pc>>
    BY <1>4 DEF Render!Move
  <2>3. /\ Fine(set) /\ DOMAIN work \cup DOMAIN dst = kept
        /\ \A n \in DOMAIN work : Rendered(work[n], Of(n, image, set), set) /\ Render!Settled(work[n])
        /\ \A n \in DOMAIN dst : Rendered(dst[n], Of(n, image, set), set) /\ Render!Settled(dst[n])
    BY <2>2 DEF RenderInv, PagesInv
  <2>4. /\ DOMAIN dst' = DOMAIN dst \cup {name} /\ DOMAIN work' = DOMAIN work \ {name}
        /\ \A n \in DOMAIN dst' : dst'[n] = IF n = name THEN work[n] ELSE dst[n]
        /\ \A n \in DOMAIN work' : work'[n] = work[n]
    BY <2>1
  <2>5. DOMAIN work' \cup DOMAIN dst' = kept /\ DOMAIN work' \subseteq kept /\ DOMAIN dst' \subseteq kept
    BY <2>1, <2>3, <2>4
  <2>6. \A n \in DOMAIN work' : Rendered(work'[n], Of(n, image, set), set) /\ Render!Settled(work'[n])
    BY <2>3, <2>4
  <2>7. \A n \in DOMAIN dst' : Rendered(dst'[n], Of(n, image, set), set) /\ Render!Settled(dst'[n])
    BY <2>1, <2>3, <2>4
  <2> QED
    BY <1>0, <2>2, <2>3, <2>5, <2>6, <2>7 DEF RenderInv, PagesInv
<1>5. CASE Render!Exec
  <2>1. script_pc = "move" /\ work = <<>> /\ script_pc' = "grafana" /\ UNCHANGED <<image, set, starts, work, dst>>
    BY <1>5 DEF Render!Exec
  <2>2. DOMAIN work = {}
    BY <2>1
  <2>3. /\ Fine(set) /\ DOMAIN dst = kept
        /\ \A n \in DOMAIN dst : Rendered(dst[n], Of(n, image, set), set)
    BY <2>1, <2>2 DEF RenderInv, PagesInv
  <2> QED
    BY <2>1, <2>3 DEF RenderInv, PagesInv
<1>6. CASE Render!Restart
  <2>1. /\ starts < MaxStarts /\ starts' = starts + 1 /\ set' \in ContainerSettings /\ UNCHANGED image
        /\ script_pc' = "check" /\ work' = <<>> /\ dst' \in {dst, <<>>}
    BY <1>6 DEF Render!Restart
  <2>2. starts' \in 1..MaxStarts
    BY <2>1, ContainersAreTyped DEF RenderInv
  <2>3. DOMAIN work' = {}
    BY <2>1
  <2>4. DOMAIN dst' \subseteq pages /\ \A n \in DOMAIN dst' : Render!Settled(dst'[n])
    <3>1. CASE dst' = dst
      BY <3>1 DEF RenderInv
    <3>2. CASE dst' = <<>>
      <4>1. DOMAIN dst' = {}
        BY <3>2
      <4> QED
        BY <4>1
    <3> QED
      BY <2>1, <3>1, <3>2
  <2> QED
    BY <2>1, <2>2, <2>3, <2>4 DEF RenderInv, PagesInv
<1>7. CASE UNCHANGED render_vars
  BY <1>7 DEF RenderInv, PagesInv, render_vars
<1> QED
  BY <1>1, <1>2, <1>3, <1>4, <1>5, <1>6, <1>7 DEF Render!Next, Render!Script

\* What the invariant tells of Grafana's pages.
LEMMA RenderSafe == RenderInv => Render!Safe
<1> SUFFICES ASSUME RenderInv PROVE Render!Safe
  OBVIOUS
<1> DEFINE kept == Render!Kept(DOMAIN image, set.cc)
           pages == Render!Pages(DOMAIN image)
<1>1. Render!TypeOK
  BY DEF RenderInv, Render!TypeOK, Render!src
<1>2. script_pc = "grafana" => /\ Fine(set) /\ DOMAIN dst = kept
                               /\ \A n \in DOMAIN dst : Rendered(dst[n], Of(n, image, set), set)
  BY DEF RenderInv, PagesInv
<1>3. Render!WholeSet
  BY <1>2 DEF Render!WholeSet, Render!Grafana, Render!src, Rendered, Of
<1>4. Render!QuietOnPurpose
  <2> SUFFICES ASSUME script_pc = "grafana", NEW name \in DOMAIN dst, NEW k \in DOMAIN Of(name, image, set)
               PROVE  LET from == Of(name, image, set)
                          why == Render!Reason(from[k].deps) IN
                      /\ from[k].kind = "R" => dst[name][k].normal = (IF why = "" THEN from[k].normal ELSE why)
                      /\ from[k].kind = "F" => dst[name][k].normal = (IF why = "" THEN from[k].normal ELSE from[k].quiet)
                      /\ set.environment = "production" => why = ""
    BY DEF Render!QuietOnPurpose, Render!Grafana, Render!src, Of
  <2> DEFINE part == Of(name, image, set)[k]
             why == Render!Reason(part.deps)
  <2>1. Fine(set) /\ Fits(dst[name][k], part, set)
    BY <1>2 DEF Rendered
  <2>2. why = Why(part.deps, set)
    BY DEF Render!Reason, Why
  <2>3. set.environment = "production" => why = ""
    BY <2>1 DEF Fine, Render!Reason
  <2>4. \A text : Render!Plain(text).normal = text
    BY DEF Render!Plain
  <2> HIDE DEF part, why
  <2>5. /\ part.kind = "R" => dst[name][k].normal = (IF why = "" THEN part.normal ELSE why)
        /\ part.kind = "F" => dst[name][k].normal = (IF why = "" THEN part.normal ELSE part.quiet)
    BY <2>1, <2>2, <2>4 DEF Fits
  <2> QED
    BY <2>3, <2>5 DEF part, why
<1>5. Render!EveryQueryHasAProject
  <2> SUFFICES ASSUME script_pc = "grafana", NEW name \in DOMAIN dst, NEW k \in DOMAIN dst[name]
               PROVE  dst[name][k].kind # "no project"
    BY DEF Render!EveryQueryHasAProject, Render!Grafana
  <2> DEFINE from == Of(name, image, set)
             part == from[k]
             new == dst[name][k]
  <2>1. k \in DOMAIN from /\ Fits(new, part, set) /\ name \in kept /\ Fine(set)
    BY <1>2 DEF Rendered
  <2>2. name \in pages
    BY <2>1, KeptArePages
  <2>3. part.kind # "no project"
    <3>1. Render!Chosen(DOMAIN image, name, set.cc, set.environment) \in DOMAIN image
      BY <2>2, ChosenIsThere DEF RenderInv
    <3>2. \A f \in DOMAIN image : \A j \in DOMAIN image[f] : image[f][j].kind # "no project"
      BY ContainersAreTyped DEF RenderInv, Render!Written
    <3> QED
      BY <2>1, <3>1, <3>2 DEF Of
  <2>4. part.kind = "P" => set.cc \/ part.normal # "cloud-cc"
    <3> SUFFICES ASSUME ~set.cc, part.kind = "P" PROVE part.normal # "cloud-cc"
      OBVIOUS
    <3>1. set.cc = FALSE
      BY ContainersAreTyped DEF RenderInv
    <3>2. name \in pages \ CC_ONLY_PAGES
      BY <2>1, <3>1 DEF Render!Kept
    <3>3. set.environment \in Render!Environments
      BY <2>1 DEF Fine
    <3>4. from = image[Render!Chosen(DOMAIN image, name, FALSE, set.environment)]
      BY <3>1 DEF Of
    <3>5. \A n \in pages \ CC_ONLY_PAGES, environment \in Render!Environments :
            \A j \in DOMAIN image[Render!Chosen(DOMAIN image, n, FALSE, environment)] :
              image[Render!Chosen(DOMAIN image, n, FALSE, environment)][j].kind = "P" =>
                image[Render!Chosen(DOMAIN image, n, FALSE, environment)][j].normal # "cloud-cc"
      BY ContainersAreTyped DEF RenderInv, Render!Written
    <3> QED
      BY <2>1, <3>2, <3>3, <3>4, <3>5
  <2>5. \A text : Render!Plain(text).kind = "plain"
    BY DEF Render!Plain
  <2> HIDE DEF from, part, new
  <2>6. new.kind # "no project"
    <3>1. CASE part.kind \in {"R", "F"}
      BY <2>1, <2>5, <3>1 DEF Fits
    <3>2. CASE part.kind = "E"
      BY <2>1, <3>2 DEF Fits
    <3>3. CASE part.kind = "P"
      BY <2>1, <2>4, <3>3 DEF Fits
    <3>4. CASE part.kind \notin {"R", "F", "E", "P"}
      BY <2>1, <2>3, <3>4 DEF Fits
    <3> QED
      BY <3>1, <3>2, <3>3, <3>4
  <2> QED
    BY <2>6 DEF new
<1>6. Render!RefusedForCause
  <2>1. script_pc = "refused" => ~Fine(set) \/ ~set.ids \/ set.paused \cap set.not_deployed # {}
                                 \/ pages = {} \/ Strange(image)
    BY DEF RenderInv, PagesInv
  <2>2. Strange(image) => Render!Unknown
    BY DEF Strange, Render!Unknown, Render!src
  <2> QED
    BY <2>1, <2>2, RefusedIs DEF Render!RefusedForCause, Render!src
<1> QED
  BY <1>1, <1>3, <1>4, <1>5, <1>6 DEF Render!Safe

-----------------------------------------------------------------------------
(* The theorems *)

\* The programs begin as each of them does where it is the one that runs.
LEMMA StartsThem ==
  Start => /\ Init /\ Egr!Init
           /\ program = "line" => Result!Init
           /\ program = "event" => Event!Init
           /\ program = "request" => Request!Init
           /\ program = "gate" => Gate!Init
           /\ program = "strip" => Strip!Init
           /\ program = "render" => Render!Init
           /\ program = "pin" => Pins!Init
BY DEF Start

\* The program that runs stays the same, and every step is one of a program's
\* or leaves its variables alone.
LEMMA StepsAreTheirs ==
  [Step]_all => /\ program' = program
                /\ [Next]_vars /\ [Egr!Next]_egress_vars /\ [Result!Next]_line_vars
                /\ [Event!Next]_event_vars /\ [Request!Next]_request_vars
                /\ [Gate!Next]_gate_vars /\ [Strip!Next]_strip_vars
                /\ [Render!Next]_render_vars /\ [Pins!Next]_pin_vars
<1> SUFFICES ASSUME [Step]_all
    PROVE  /\ program' = program
           /\ [Next]_vars /\ [Egr!Next]_egress_vars /\ [Result!Next]_line_vars
           /\ [Event!Next]_event_vars /\ [Request!Next]_request_vars
           /\ [Gate!Next]_gate_vars /\ [Strip!Next]_strip_vars
           /\ [Render!Next]_render_vars /\ [Pins!Next]_pin_vars
  OBVIOUS
<1>1. CASE Connect
  BY <1>1 DEF Connect
<1>2. CASE KnockAtEgress
  BY <1>2 DEF KnockAtEgress
<1>3. CASE WriteResult
  BY <1>3 DEF WriteResult
<1>4. CASE TestPagerDuty
  BY <1>4 DEF TestPagerDuty, event_rest
<1>5. CASE CallPagerDuty
  BY <1>5 DEF CallPagerDuty, request_rest
<1>6. CASE RunTerraform
  BY <1>6 DEF RunTerraform
<1>7. CASE StripImage
  BY <1>7 DEF StripImage
<1>8. CASE StartGrafana
  BY <1>8 DEF StartGrafana, render_rest
<1>9. CASE PinKeys
  BY <1>9 DEF PinKeys
<1>10. CASE UNCHANGED all
  BY <1>10 DEF all
<1> QED
  BY <1>1, <1>2, <1>3, <1>4, <1>5, <1>6, <1>7, <1>8, <1>9, <1>10 DEF Step

\* What dial and the egress step tell is so, and the egress step implements
\* Connecting.
THEOREM ConnectionsTold == ProgramsSpec => ConnectionsAreTold
<1>1. Start => IInv /\ EgressInv /\ Egr!Promise!Init
  BY StartsThem, InitHolds, EgressInit, EgressPromiseInit
<1>2. IInv /\ EgressInv /\ [Step]_all => IInv' /\ EgressInv'
  BY StepsAreTheirs, StepHolds, EgressStep
<1>3. EgressInv /\ EgressInv' /\ [Step]_all => [Egr!Promise!Next]_(Egr!Promise!vars)
  BY StepsAreTheirs, EgressPromiseStep
<1>4. IInv /\ EgressInv => TypeOK /\ NoSocketLeft /\ ErrorStands /\ Egr!Safe
  BY EgressSafe DEF IInv, ErrorInv, ErrorStands
<1>5. ProgramsSpec => [](IInv /\ EgressInv)
  BY <1>1, <1>2, PTL DEF ProgramsSpec
<1>6. ProgramsSpec => Egr!Promise!Init /\ [][Egr!Promise!Next]_(Egr!Promise!vars)
  BY <1>1, <1>3, <1>5, PTL DEF ProgramsSpec
<1> QED
  BY <1>4, <1>5, <1>6, PTL DEF ConnectionsAreTold, Egr!IsConnecting, Egr!Promise!Spec

\* The line a run writes tells what it met, agrees with its exit, and pages once.
THEOREM LineTold == ProgramsSpec => []LineIsTrue
<1> DEFINE Inv == program = "line" => LineInv
<1>1. Start => Inv
  BY StartsThem, LineInit
<1>2. Inv /\ [Step]_all => Inv'
  BY StepsAreTheirs, LineStep
<1>3. Inv => LineIsTrue
  BY LineSafe DEF LineIsTrue
<1> HIDE DEF Inv
<1> QED
  BY <1>1, <1>2, <1>3, PTL DEF ProgramsSpec

\* An exit 0 of the test event means the design, a "not found" that nothing was
\* there in time; a write of the client is carried out once, and a listing of any
\* length misses no more than was deleted under it, however pages are cut.
THEOREM PagerDutyTold == ProgramsSpec => []PagerDutyIsTold
<1> DEFINE Inv == (program = "event" => EventInv) /\ (program = "request" => RequestInv)
<1>1. Start => Inv
  BY StartsThem, EventInit, RequestInit
<1>2. Inv /\ [Step]_all => Inv'
  BY StepsAreTheirs, EventStep, RequestStep
<1>3. Inv => PagerDutyIsTold
  BY EventSafe, RequestSafe DEF PagerDutyIsTold
<1> HIDE DEF Inv
<1> QED
  BY <1>1, <1>2, <1>3, PTL DEF ProgramsSpec

\* Keys go where they belong: Terraform runs with one environment's keys only
\* where its command line says a plan or an apply of that environment's
\* directory, and the file pins usable keys, which a check of it tells rightly.
THEOREM KeysTold == ProgramsSpec => []KeysAreTheirs
<1> DEFINE Inv == (program = "gate" => GateInv) /\ (program = "pin" => PinInv)
<1>1. Start => Inv
  BY StartsThem, GateInit, PinInit
<1>2. Inv /\ [Step]_all => Inv'
  BY StepsAreTheirs, GateStep, PinStep
<1>3. Inv => KeysAreTheirs
  BY GateSafe, PinSafe DEF KeysAreTheirs
<1> HIDE DEF Inv
<1> QED
  BY <1>1, <1>2, <1>3, PTL DEF ProgramsSpec

\* An image that is let through holds all that stays and nothing that goes, and
\* one is turned away only for what it is: for every image dpkg and Python's
\* tools may leave and every list of packages. Grafana reads its whole set of
\* pages and no other, each tile quiet for its own reason, whatever the pages,
\* the settings and the starts before.
THEOREM ImageTold == ProgramsSpec => []ImageIsWhole
<1> DEFINE Inv == (program = "strip" => StripInv) /\ (program = "render" => RenderInv)
<1>1. Start => Inv
  BY StartsThem, StripInit, RenderInit
<1>2. Inv /\ [Step]_all => Inv'
  BY StepsAreTheirs, StripStep, RenderStep
<1>3. Inv => ImageIsWhole
  BY StripSafe, RenderSafe DEF ImageIsWhole
<1> HIDE DEF Inv
<1> QED
  BY <1>1, <1>2, <1>3, PTL DEF ProgramsSpec
=============================================================================
