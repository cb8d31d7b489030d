-------------------------- MODULE MonitoringProofs --------------------------
(***************************************************************************)
(* For every limit, schedule and look-back: the state is well typed, no    *)
(* line is counted twice, the headline is never normal over a worker that  *)
(* has reported nothing for its red limit, and what the page and the alert *)
(* say of a worker is what was heard of it. For any checks: the probes'    *)
(* alerts and states agree. For any lines: nothing listed is left in what  *)
(* is shipped. For any windows: the tiles of the cloud pages and the       *)
(* alerts beside them agree.                                               *)
(***************************************************************************)
EXTENDS Monitoring, Sequences, FiniteSetTheorems, SequenceTheorems,
        WellFoundedInduction, TLAPS

\* A count of the odd line lies behind it by the turns since: at the ruler's
\* next turn it is too old to be counted again.
CountedBefore ==
  /\ "rules" \in due <=> phase = 2
  /\ times \in 0..1
  /\ times = 1 => odd >= phase + 1

IInv == TypeOK /\ CountedBefore

-----------------------------------------------------------------------------
(* The helpers *)

\* The limits are numbers, and a report the ruler looks for is in its range.
LEMMA Limits ==
  /\ Red \in Nat /\ Red > 0 /\ Amber \in Nat /\ Schedule \in Nat /\ Schedule > 0
  /\ ErrorsFor \in Nat /\ FreezeLook \in Nat /\ FreezeLook > 2 /\ FreezeShown \in Nat /\ MaxFaults \in Nat
  /\ Longest \in Nat /\ Longest > 2 /\ Long \in Nat /\ Long = Red + 8
  /\ Oldest \in Nat /\ Oldest >= FreezeLook /\ Oldest >= ErrorsFor
  /\ Amber < Red /\ Red >= 8 /\ Schedule + 5 <= Red /\ FreezeShown > 2
BY LimitsAssumption DEF Longest, Long, Oldest

-----------------------------------------------------------------------------
(* The invariant *)

\* It holds before the worker's first report.
LEMMA Starts == Init => IInv
BY Limits DEF Init, IInv, TypeOK, CountedBefore, Hold

\* The ruler's turn.
LEMMA EvaluateKeeps == IInv /\ Evaluate => IInv'
<1> SUFFICES ASSUME IInv, Evaluate PROVE IInv'
  OBVIOUS
<1> USE Limits DEF IInv, TypeOK, CountedBefore, Evaluate, worker, pipe
<1>1. phase = 2 /\ phase' = 0
  OBVIOUS
<1>2. beats' \in [1..4 -> {"none", "zero", "lines"}]
  <2>1. \A n \in 1..4 : beats[n] \in {"none", "zero", "lines"}
    OBVIOUS
  <2> QED BY <2>1
<1>3. told' \in 0..Red /\ (told' >= since' \/ told' = Red)
  <2>1. CASE ruling /\ Seen # {}
    <3>1. told' \in reports \cap ReportAges
      BY <2>1 DEF Newest, Seen
    <3> QED BY <3>1 DEF ReportAges
  <2>2. CASE ~(ruling /\ Seen # {})
    BY <2>2
  <2> QED BY <2>1, <2>2
<1>4. times' \in 0..1 /\ (times' = 1 => odd' >= phase' + 1)
  <2>1. CASE ruling /\ Counts(odd)
    BY <1>1, <2>1 DEF Counts, CountedAges
  <2>2. CASE ~(ruling /\ Counts(odd))
    BY <1>1, <2>2
  <2> QED BY <2>1, <2>2
<1>5. counted' \in 0..ErrorsFor /\ frozen' \in 0..FreezeShown
  OBVIOUS
<1>6. due' \in SUBSET {"rules", "alerts"} /\ "rules" \notin due'
  OBVIOUS
<1> QED BY <1>1, <1>2, <1>3, <1>4, <1>5, <1>6

\* The alert's turn.
LEMMA AlertKeeps == IInv /\ Alert => IInv'
<1> SUFFICES ASSUME IInv, Alert PROVE IInv'
  OBVIOUS
<1>1. pending' \in 0..Hold
  BY DEF IInv, TypeOK, Alert, Hold, UpTo
<1>2. due' \in SUBSET {"rules", "alerts"}
  BY DEF IInv, TypeOK, Alert
<1>3. UNCHANGED <<reports, odd, since, steady, lag, taking, ruling, faults, calm, phase, alertPhase,
                  beats, told, counted, times, frozen>>
  BY DEF Alert, worker, pipe, clock, recorded
<1>4. TypeOK'
  BY <1>1, <1>2, <1>3 DEF IInv, TypeOK
<1> QED BY <1>3, <1>4 DEF IInv, CountedBefore, Alert

\* An interval goes by.
LEMMA PassKeeps ==
  ASSUME IInv, NEW report \in BOOLEAN, NEW oddly \in BOOLEAN, Pass(report, oddly)
  PROVE  IInv'
<1> USE Limits
<1>1. due = {} /\ phase \in 0..1 /\ phase' = phase + 1
  BY DEF IInv, TypeOK, CountedBefore, Pass
<1>2. reports' \in SUBSET ReportAges /\ since' \in 0..Long /\ \A a \in reports' : a >= since'
  <2>1. reports' = {a + 1 : a \in reports \cap 0..(Red - 2)} \cup {a \in {0} : report}
    BY DEF Pass
  <2>2. reports' \in SUBSET ReportAges
    BY <2>1 DEF ReportAges
  <2>3. since' = IF report THEN 0 ELSE UpTo(Long, since + 1)
    BY DEF Pass
  <2>4. since \in 0..Long /\ \A a \in reports : a >= since
    BY DEF IInv, TypeOK
  <2>5. CASE report
    BY <2>1, <2>2, <2>3, <2>5 DEF ReportAges
  <2>6. CASE ~report
    <3>1. UpTo(Long, since + 1) \in 0..Long /\ UpTo(Long, since + 1) <= since + 1
      BY <2>4 DEF UpTo
    <3> QED BY <2>1, <2>2, <2>3, <2>4, <2>6, <3>1
  <2> QED BY <2>5, <2>6
<1>3. told' \in 0..Red /\ (told' >= since' \/ told' = Red)
  <2>1. told' = UpTo(Red, told + 1) /\ since' = IF report THEN 0 ELSE UpTo(Long, since + 1)
    BY DEF Pass
  <2>2. told \in 0..Red /\ since \in 0..Long /\ (told >= since \/ told = Red)
    BY DEF IInv, TypeOK
  <2> QED BY <2>1, <2>2 DEF UpTo
<1>4. steady' \in 0..Red /\ calm' \in 0..Long
  BY DEF IInv, TypeOK, Pass, UpTo
<1>5. lag' \in 0..Longest
  <2>1. lag \in 0..Longest /\ lag' \in Shipped(lag + 1)
    BY DEF IInv, TypeOK, Pass
  <2>2. Longest >= 1
    BY DEF Longest
  <2> QED BY <2>1, <2>2 DEF Shipped, UpTo
<1>6. odd' \in 0..Oldest /\ (times' = 1 => odd' >= phase' + 1) /\ times' \in 0..1
  <2>1. CASE oddly
    BY <1>1, <2>1 DEF IInv, TypeOK, CountedBefore, Pass
  <2>2. CASE ~oddly
    BY <1>1, <2>2 DEF IInv, TypeOK, CountedBefore, Pass, UpTo
  <2> QED BY <2>1, <2>2
<1>7. counted' \in 0..ErrorsFor /\ frozen' \in 0..FreezeShown
  BY DEF IInv, TypeOK, Pass, UpTo
<1>8. due' \in SUBSET {"rules", "alerts"} /\ ("rules" \in due' <=> phase' = 2)
  BY <1>1 DEF Pass
<1>9. UNCHANGED <<taking, ruling, faults, alertPhase, beats, times, pending>>
  BY DEF Pass
<1>10. TypeOK'
  BY <1>1, <1>2, <1>3, <1>4, <1>5, <1>6, <1>7, <1>8, <1>9 DEF IInv, TypeOK
<1> QED BY <1>6, <1>8, <1>10 DEF IInv, CountedBefore

\* What fails and comes back is none of the records'.
LEMMA FaultKeeps == IInv /\ (Refuse \/ TakeAgain \/ Stop \/ Start) => IInv'
<1> SUFFICES ASSUME IInv, Refuse \/ TakeAgain \/ Stop \/ Start PROVE IInv'
  OBVIOUS
<1>1. UNCHANGED <<reports, odd, since, steady, lag, due, phase, alertPhase, beats, told, counted, times,
                  frozen, pending>>
  BY DEF Refuse, TakeAgain, Stop, Start, worker, clock, recorded
<1>2. taking' \in BOOLEAN /\ ruling' \in BOOLEAN
  BY Zenon DEF IInv, TypeOK, Refuse, TakeAgain, Stop, Start
<1>3. faults' = faults \/ (faults < MaxFaults /\ faults' = faults + 1)
  BY DEF Refuse, TakeAgain, Stop, Start
<1>4. calm' = calm \/ calm' = 0
  BY DEF Refuse, TakeAgain, Stop, Start
<1>5. faults' \in 0..MaxFaults /\ calm' \in 0..Long
  BY <1>3, <1>4, Limits DEF IInv, TypeOK
<1>6. TypeOK'
  BY <1>1, <1>2, <1>5 DEF IInv, TypeOK
<1> QED BY <1>1, <1>6 DEF IInv, CountedBefore

\* Every step keeps the invariant.
LEMMA StepKeeps == IInv /\ [Next]_vars => IInv'
<1> SUFFICES ASSUME IInv, [Next]_vars PROVE IInv'
  OBVIOUS
<1>1. CASE \E report, oddly \in BOOLEAN : Pass(report, oddly)
  BY <1>1, PassKeeps
<1>2. CASE Evaluate
  BY <1>2, EvaluateKeeps
<1>3. CASE Alert
  BY <1>3, AlertKeeps
<1>4. CASE Refuse \/ TakeAgain \/ Stop \/ Start
  BY <1>4, FaultKeeps
<1>5. CASE UNCHANGED vars
  BY <1>5 DEF IInv, TypeOK, CountedBefore, vars, worker, pipe, clock, recorded
<1> QED BY <1>1, <1>2, <1>3, <1>4, <1>5 DEF Next

\* The invariant holds throughout.
LEMMA Invariance == Spec => []IInv
BY Starts, StepKeeps, PTL DEF Spec

-----------------------------------------------------------------------------
(* What follows *)

\* The state is typed, and Prometheus never knows of a report that was not made.
THEOREM WorkerTyped == Spec => []TypeOK
<1>1. IInv => TypeOK
  BY DEF IInv
<1> QED BY <1>1, Invariance, PTL

\* The windows of 30 s, 15 s behind, count no line twice, however late it is.
THEOREM LineCountedOnce == Spec => []CountedOnce
<1>1. IInv => CountedOnce
  BY DEF IInv, CountedBefore, CountedOnce
<1> QED BY <1>1, Invariance, PTL

\* "All running systems normal" is never said over a worker that has reported
\* nothing for its red limit, whatever Loki and its ruler did meanwhile.
THEOREM NormalNeedsAReport == Spec => []NormalIsReported
<1>1. IInv => NormalIsReported
  BY Limits DEF IInv, TypeOK, NormalIsReported, Normal, LOKI_PROBLEMS, OverRed
<1> QED BY <1>1, Invariance, PTL

-----------------------------------------------------------------------------
(* What the page says is what was heard of the worker *)

\* The ruler that runs with lines on time counts some at each turn; and where it
\* counted some, Loki has them since, later by what went by at most.
Ruled ==
  /\ calm > 0 => ruling /\ lag <= 1
  /\ calm > phase => beats[1] = "lines"
  /\ calm > phase + 2 => beats[2] = "lines"
  /\ beats[1] = "lines" => lag <= phase + 2
  /\ beats[2] = "lines" => lag <= phase + 4

\* Prometheus knows of a report that Loki has.
Knows == told < Red => told \in reports /\ told >= lag

\* A worker on time has a report in every stretch of its schedule, of those that
\* begin where lines on time may end.
OnSchedule ==
  /\ since < Red => since \in reports
  /\ steady > 0 => since < Schedule
  /\ \A a \in 0..2 : a < steady => \E r \in reports : a <= r /\ r < a + Schedule

\* What is known of a worker on time is no older than its schedule and what went
\* by since a turn that counted lines.
Heard ==
  /\ beats[1] = "lines" /\ steady > phase + 2 => told <= Schedule + phase + 1
  /\ beats[2] = "lines" /\ steady > phase + 4 => told <= Schedule + phase + 3
  /\ calm > phase /\ steady > phase + 1 => told <= Schedule + phase

\* A turn after the odd line, if nothing failed since, it is counted and seen.
OddHeard ==
  /\ odd < Oldest /\ odd > phase /\ calm > odd => times = 1 /\ counted < odd
  /\ odd < FreezeLook /\ odd > phase /\ calm > phase => frozen <= phase

\* Intervals since Prometheus last evaluated the alert.
SinceAlert == IF "alerts" \in due THEN 2 ELSE IF (phase = 1) <=> (alertPhase = 1) THEN 0 ELSE 1

\* Each turn of the alert over a silent worker counts, and none over one that
\* has been on time for long.
Alerted ==
  /\ "alerts" \in due => ((phase = 1) <=> (alertPhase = 1))
  /\ since >= Red + SinceAlert /\ calm >= SinceAlert + 3 => pending > 0
  /\ since >= Red + SinceAlert + 2 /\ calm >= SinceAlert + 5 => pending > 1
  /\ since >= Red + SinceAlert + 4 /\ calm >= SinceAlert + 7 => pending > 2
  /\ pending > 0 => steady <= SinceAlert + 5

Followed == Ruled /\ Knows /\ OnSchedule /\ Heard /\ OddHeard /\ Alerted

\* Lines count as fresh for a minute.
LEMMA FreshLines ==
  ASSUME phase \in 0..2
  PROVE  FRESH <=> (beats[1] = "lines" \/ (phase <= 1 /\ beats[2] = "lines"))
<1>1. {m \in 1..4 : phase + 2 * (m - 1) < 4} = {1} \cup {m \in {2} : phase <= 1}
  OBVIOUS
<1>2. FRESH <=> \E n \in {m \in 1..4 : phase + 2 * (m - 1) < 4} : beats[n] = "lines"
  BY DEF FRESH, Within
<1>3. FRESH <=> \E n \in {1} \cup {m \in {2} : phase <= 1} : beats[n] = "lines"
  BY <1>1, <1>2
<1> QED BY <1>3

\* While lines are fresh, no limit is over of a worker that has been on time.
LEMMA NotOver ==
  ASSUME IInv, Heard, FRESH, steady > 5
  PROVE  ~OverRed
<1>1. phase \in 0..2 /\ steady \in Nat /\ told \in Nat
  BY Limits DEF IInv, TypeOK
<1>2. told <= Schedule + 4
  <2>1. CASE beats[1] = "lines" BY <2>1, <1>1, Limits DEF Heard
  <2>2. CASE phase <= 1 /\ beats[2] = "lines" BY <2>2, <1>1, Limits DEF Heard
  <2> QED BY <2>1, <2>2, <1>1, FreshLines
<1> QED BY <1>1, <1>2, Limits DEF OverRed

\* Nothing heard, nothing claimed.
LEMMA FollowedAtFirst == Init => Followed
BY Limits DEF Init, Followed, Ruled, Knows, OnSchedule, Heard, OddHeard, Alerted, SinceAlert

\* The ruler's turn tells Prometheus of the newest report Loki has.
LEMMA EvaluateFollows == IInv /\ Followed /\ Evaluate => Followed'
<1> SUFFICES ASSUME IInv, Followed, Evaluate PROVE Followed'
  OBVIOUS
<1>1. phase = 2 /\ phase' = 0 /\ "rules" \in due /\ due' = due \ {"rules"}
  BY DEF IInv, TypeOK, CountedBefore, Evaluate
<1>2. UNCHANGED <<reports, odd, since, steady, lag, taking, ruling, faults, calm, alertPhase, pending>>
  BY DEF Evaluate, worker, pipe
<1>3. /\ reports \in SUBSET ReportAges /\ since \in Nat /\ steady \in Nat /\ lag \in Nat /\ calm \in Nat
      /\ told \in Nat /\ told <= Red /\ odd \in Nat /\ pending \in Nat /\ times \in 0..1 /\ (times = 1 => odd >= 3)
      /\ counted \in Nat /\ frozen \in Nat
  BY <1>1, Limits DEF IInv, TypeOK, CountedBefore, Hold
<1>4. \A a \in reports : a \in Nat /\ a < Red
  BY <1>3, Limits DEF ReportAges
<1>5. /\ beats'[1] = IF ~ruling THEN "none" ELSE IF \E a \in CountedAges : Has(a) THEN "lines" ELSE "zero"
      /\ beats'[2] = beats[1]
  BY DEF Evaluate
<1>6. beats'[1] = "lines" <=> ruling /\ lag <= 2
  <2>1. (\E a \in CountedAges : Has(a)) <=> lag <= 2
    BY <1>3 DEF CountedAges, Has
  <2> QED BY <1>5, <2>1
<1>7. calm > 0 => ruling /\ lag <= 1
  BY DEF Followed, Ruled
<1>8. Ruled'
  <2>1. calm' > phase' => beats'[1] = "lines" BY <1>1, <1>2, <1>3, <1>6, <1>7
  <2>2. calm' > phase' + 2 => beats'[2] = "lines" BY <1>1, <1>2, <1>3, <1>5 DEF Followed, Ruled
  <2>3. beats'[1] = "lines" => lag' <= phase' + 2 BY <1>1, <1>2, <1>3, <1>6
  <2>4. beats'[2] = "lines" => lag' <= phase' + 4 BY <1>1, <1>2, <1>3, <1>5 DEF Followed, Ruled
  <2> QED BY <2>1, <2>2, <2>3, <2>4, <1>2, <1>7 DEF Ruled
<1>9. \/ told' = told /\ (~ruling \/ Seen = {})
      \/ told' \in Seen /\ ruling /\ \A a \in Seen : told' <= a
  BY DEF Evaluate, Newest
<1>10. \A a : a \in Seen <=> a \in reports /\ a >= lag
  BY <1>3 DEF Seen, Has
<1>11. told' \in Nat /\ told' <= told
  <2>1. told < Red => told \in Seen BY <1>10 DEF Followed, Knows
  <2>2. \A a \in Seen : a \in Nat /\ a < Red BY <1>4, <1>10
  <2> QED BY <2>1, <2>2, <1>3, <1>9, Limits
<1>12. Knows'
  <2>1. CASE told' = told BY <2>1, <1>2 DEF Followed, Knows
  <2>2. CASE told' \in Seen BY <2>2, <1>2, <1>10 DEF Knows
  <2> QED BY <2>1, <2>2, <1>9
<1>13. OnSchedule' BY <1>2 DEF Followed, OnSchedule
<1>14. ASSUME ruling, NEW a \in 0..2, lag <= a, a < steady PROVE told' < a + Schedule
  <2>1. PICK r \in reports : a <= r /\ r < a + Schedule BY <1>14 DEF Followed, OnSchedule
  <2>2. r \in Seen BY <2>1, <1>3, <1>4, <1>10, <1>14
  <2>3. told' <= r BY <2>2, <1>9, <1>14
  <2> QED BY <2>1, <2>3, <1>4, <1>11, Limits
<1>15. Heard'
  <2>1. beats'[1] = "lines" /\ steady > 2 => told' < 2 + Schedule BY <1>3, <1>6, <1>14
  <2>2. beats[1] = "lines" /\ steady > 4 => told' <= Schedule + 3
    <3>1. beats[1] = "lines" /\ steady > 4 => told <= Schedule + 3 BY <1>1, Limits DEF Followed, Heard
    <3> QED BY <3>1, <1>3, <1>11, Limits
  <2>3. calm > 0 /\ steady > 1 => told' < 1 + Schedule BY <1>3, <1>7, <1>14
  <2> QED BY <2>1, <2>2, <2>3, <1>1, <1>2, <1>3, <1>5, <1>11, Limits DEF Heard
<1>16. OddHeard'
  <2>1. /\ counted' = IF ruling /\ Counts(odd) THEN 0 ELSE counted
        /\ times' = IF ruling /\ Counts(odd) THEN times + 1 ELSE times
        /\ frozen' = IF ruling /\ odd \in FreezeAges /\ Has(odd) THEN 0 ELSE frozen
    BY DEF Evaluate
  <2>2. ASSUME odd < Oldest, odd > 0, calm > odd PROVE times' = 1 /\ counted' < odd
    <3>1. ruling /\ lag <= 1 BY <2>2, <1>3, <1>7
    <3>2. CASE odd \in 1..2
      <4>1. Counts(odd) BY <3>1, <3>2, <1>3 DEF Counts, CountedAges, Has
      <4>2. times = 0 BY <3>2, <1>3
      <4> QED BY <4>1, <4>2, <3>1, <2>1, <2>2
    <3>3. CASE odd >= 3
      <4>1. ~Counts(odd) BY <3>3, <1>3 DEF Counts, CountedAges
      <4>2. times = 1 /\ counted < odd BY <3>3, <2>2, <1>1, <1>3 DEF Followed, OddHeard
      <4> QED BY <4>1, <4>2, <2>1
    <3> QED BY <3>2, <3>3, <2>2, <1>3
  <2>3. ASSUME odd < FreezeLook, odd > 0, calm > 0 PROVE frozen' = 0
    <3>1. ruling /\ Has(odd) /\ odd \in FreezeAges
      BY <2>3, <1>3, <1>7, Limits DEF Has, FreezeAges
    <3> QED BY <3>1, <2>1
  <2> QED BY <2>2, <2>3, <1>1, <1>2 DEF OddHeard
<1>17. Alerted'
  <2>1. ("alerts" \in due' <=> "alerts" \in due) /\ (phase' = 1 <=> phase = 1) /\ alertPhase' = alertPhase
    BY <1>1, <1>2
  <2>2. SinceAlert' = SinceAlert BY <2>1 DEF SinceAlert
  <2> QED BY <2>1, <2>2, <1>2 DEF Followed, Alerted
<1> QED BY <1>8, <1>12, <1>13, <1>15, <1>16, <1>17 DEF Followed

\* The alert's turn counts a silent worker, and no other.
LEMMA AlertFollows == IInv /\ Followed /\ Alert => Followed'
<1> SUFFICES ASSUME IInv, Followed, Alert PROVE Followed'
  OBVIOUS
<1>1. UNCHANGED <<reports, odd, since, steady, lag, taking, ruling, faults, calm, phase, alertPhase,
                  beats, told, counted, times, frozen>>
  BY DEF Alert, worker, pipe, clock, recorded
<1>2. "alerts" \in due /\ "alerts" \notin due' /\ pending' = IF OverRed /\ FRESH THEN UpTo(Hold, pending + 1) ELSE 0
  BY DEF Alert
<1>3. Ruled' /\ Knows' /\ OnSchedule' /\ Heard' /\ OddHeard'
  BY <1>1 DEF Followed, Ruled, Knows, OnSchedule, Heard, OddHeard
<1>4. SinceAlert = 2 /\ SinceAlert' = 0
  BY <1>1, <1>2 DEF SinceAlert, Followed, Alerted
<1>5. /\ phase \in 0..2 /\ since \in Nat /\ calm \in Nat /\ told \in Nat /\ (told >= since \/ told = Red)
      /\ pending \in 0..3 /\ steady \in Nat
  BY Limits DEF IInv, TypeOK, Hold
<1>6. ASSUME since >= Red, calm >= 3 PROVE pending' = IF pending = 3 THEN 3 ELSE pending + 1
  <2>1. OverRed BY <1>5, <1>6, Limits DEF OverRed
  <2>2. beats[1] = "lines" BY <1>5, <1>6 DEF Followed, Ruled
  <2>3. FRESH BY <2>2, <1>5, FreshLines
  <2> QED BY <2>1, <2>3, <1>2, <1>5 DEF UpTo, Hold
<1>7. pending' > 0 => steady <= 5
  <2>1. pending' > 0 => OverRed /\ FRESH BY <1>2
  <2> QED BY <2>1, <1>5, NotOver DEF Followed
<1>8. Alerted'
  <2>1. since >= Red + 2 /\ calm >= 5 => pending > 0 BY <1>4, <1>5, Limits DEF Followed, Alerted
  <2>2. since >= Red + 4 /\ calm >= 7 => pending > 1 BY <1>4, <1>5, Limits DEF Followed, Alerted
  <2>3. since >= Red /\ calm >= 3 => pending' > 0 BY <1>5, <1>6
  <2>4. since >= Red + 2 /\ calm >= 5 => pending' > 1 BY <2>1, <1>5, <1>6, Limits
  <2>5. since >= Red + 4 /\ calm >= 7 => pending' > 2 BY <2>2, <1>5, <1>6, Limits
  <2>6. since' = since /\ calm' = calm /\ steady' = steady BY <1>1
  <2> QED BY <2>3, <2>4, <2>5, <2>6, <1>2, <1>4, <1>5, <1>7, Limits DEF Alerted
<1> QED BY <1>3, <1>8 DEF Followed


\* An interval goes by: all that is known is as much older at most.
LEMMA PassFollows ==
  ASSUME IInv, Followed, NEW report \in BOOLEAN, NEW oddly \in BOOLEAN, Pass(report, oddly)
  PROVE  Followed'
<1>1. due = {} /\ phase \in 0..1 /\ phase' = phase + 1
  BY DEF IInv, TypeOK, CountedBefore, Pass
<1>2. UNCHANGED <<taking, ruling, faults, alertPhase, beats, times, pending>>
  BY DEF Pass
<1>3. /\ reports \in SUBSET ReportAges /\ since \in Nat /\ steady \in Nat /\ lag \in 0..Longest /\ calm \in Nat
      /\ told \in Nat /\ told <= Red /\ odd \in Nat /\ odd <= Oldest /\ pending \in Nat
      /\ counted \in Nat /\ frozen \in Nat /\ alertPhase \in 1..2
  BY Limits DEF IInv, TypeOK, Hold
<1>4. \A a \in reports : a \in Nat /\ a < Red
  BY <1>3, Limits DEF ReportAges
<1>5. lag' \in Nat /\ lag' <= lag + 1
  <2>1. lag' \in Shipped(lag + 1)
    BY DEF Pass
  <2> QED BY <2>1, <1>3, Limits DEF Shipped, UpTo
<1>6. /\ calm' \in Nat /\ calm' <= calm + 1 /\ (calm' > 0 => ruling /\ lag' <= 1)
      /\ told' \in Nat /\ told' <= told + 1 /\ (told' < Red => told' = told + 1)
      /\ counted' \in Nat /\ counted' <= counted + 1 /\ frozen' \in Nat /\ frozen' <= frozen + 1
  <2>1. calm' = IF ruling /\ lag' <= 1 THEN UpTo(Long, calm + 1) ELSE 0 BY DEF Pass
  <2>2. told' = UpTo(Red, told + 1) BY DEF Pass
  <2>3. counted' = UpTo(ErrorsFor, counted + 1) /\ frozen' = UpTo(FreezeShown, frozen + 1) BY DEF Pass
  <2>4. UpTo(Long, calm + 1) \in Nat /\ UpTo(Long, calm + 1) <= calm + 1 BY <1>3, Limits DEF UpTo
  <2>5. calm' \in Nat /\ calm' <= calm + 1 /\ (calm' > 0 => ruling /\ lag' <= 1) BY <2>1, <2>4, <1>3
  <2>6. told' \in Nat /\ told' <= told + 1 /\ (told' < Red => told' = told + 1) BY <2>2, <1>3, Limits DEF UpTo
  <2>7. counted' \in Nat /\ counted' <= counted + 1 /\ frozen' \in Nat /\ frozen' <= frozen + 1
    BY <2>3, <1>3, Limits DEF UpTo
  <2> QED BY <2>5, <2>6, <2>7
<1>7. /\ since' \in Nat /\ since' <= since + 1 /\ (~report => since' = UpTo(Long, since + 1)) /\ (report => since' = 0)
      /\ steady' \in Nat /\ steady' <= steady + 1 /\ (steady' > 0 => since' < Schedule)
  <2>1. since' = IF report THEN 0 ELSE UpTo(Long, since + 1) BY DEF Pass
  <2>2. steady' = IF since' < Schedule THEN UpTo(Red, steady + 1) ELSE 0 BY DEF Pass
  <2>3. UpTo(Long, since + 1) \in Nat /\ UpTo(Long, since + 1) <= since + 1 BY <1>3, Limits DEF UpTo
  <2>4. UpTo(Red, steady + 1) \in Nat /\ UpTo(Red, steady + 1) <= steady + 1 BY <1>3, Limits DEF UpTo
  <2>5. since' \in Nat /\ since' <= since + 1 BY <2>1, <2>3, <1>3
  <2>6. steady' \in Nat /\ steady' <= steady + 1 /\ (steady' > 0 => since' < Schedule) BY <2>2, <2>4, <1>3
  <2> QED BY <2>1, <2>5, <2>6
<1>8. \A a \in reports : a + 1 < Red => a + 1 \in reports'
  <2>1. reports' = {a + 1 : a \in reports \cap 0..(Red - 2)} \cup {a \in {0} : report} BY DEF Pass
  <2> SUFFICES ASSUME NEW a \in reports, a + 1 < Red PROVE a + 1 \in reports' OBVIOUS
  <2>2. a \in reports \cap 0..(Red - 2) BY <1>4, Limits
  <2> QED BY <2>1, <2>2
<1>9. report => 0 \in reports'
  <2>1. reports' = {a + 1 : a \in reports \cap 0..(Red - 2)} \cup {a \in {0} : report} BY DEF Pass
  <2> QED BY <2>1
<1>10. Ruled'
  <2>1. calm' > phase' => beats[1] = "lines" BY <1>1, <1>3, <1>6 DEF Followed, Ruled
  <2>2. calm' > phase' + 2 => beats[2] = "lines" BY <1>1, <1>3, <1>6 DEF Followed, Ruled
  <2>3. beats[1] = "lines" => lag' <= phase' + 2 BY <1>1, <1>3, <1>5 DEF Followed, Ruled
  <2>4. beats[2] = "lines" => lag' <= phase' + 4 BY <1>1, <1>3, <1>5 DEF Followed, Ruled
  <2> QED BY <2>1, <2>2, <2>3, <2>4, <1>2, <1>6 DEF Ruled
<1>11. Knows'
  <2> SUFFICES ASSUME told' < Red PROVE told' \in reports' /\ told' >= lag' BY DEF Knows
  <2>1. told' = told + 1 /\ told < Red BY <1>3, <1>6, Limits
  <2>2. told \in reports /\ told >= lag BY <2>1 DEF Followed, Knows
  <2> QED BY <2>1, <2>2, <1>3, <1>5, <1>8
<1>12. since' < Red => since' \in reports'
  <2>1. CASE report BY <2>1, <1>7, <1>9
  <2>2. CASE ~report
    <3>1. ASSUME since' < Red PROVE since' = since + 1 /\ since < Red
      BY <3>1, <2>2, <1>3, <1>7, Limits DEF UpTo
    <3> QED BY <3>1, <1>8 DEF Followed, OnSchedule
  <2> QED BY <2>1, <2>2
<1>13. OnSchedule'
  <2> SUFFICES ASSUME NEW a \in 0..2, a < steady' PROVE \E r \in reports' : a <= r /\ r < a + Schedule
    BY <1>7, <1>12 DEF OnSchedule
  <2>1. CASE a = 0
    <3>1. since' < Schedule BY <2>1, <1>7
    <3>2. since' \in reports' BY <3>1, <1>7, <1>12, Limits
    <3>3. a <= since' /\ since' < a + Schedule BY <3>1, <2>1, <1>7, Limits
    <3> QED BY <3>2, <3>3
  <2>2. CASE a > 0
    <3>1. a - 1 \in 0..2 /\ a - 1 < steady BY <2>2, <1>3, <1>7
    <3>2. PICK r \in reports : a - 1 <= r /\ r < a - 1 + Schedule BY <3>1 DEF Followed, OnSchedule
    <3>3. r \in Nat /\ r + 1 < Red /\ a <= r + 1 /\ r + 1 < a + Schedule BY <3>2, <1>4, Limits
    <3> QED BY <3>3, <1>8
  <2> QED BY <2>1, <2>2
<1>14. Heard'
  <2>1. beats[1] = "lines" /\ steady' > phase' + 2 => told' <= Schedule + phase' + 1
    BY <1>1, <1>3, <1>6, <1>7, Limits DEF Followed, Heard
  <2>2. beats[2] = "lines" /\ steady' > phase' + 4 => told' <= Schedule + phase' + 3
    BY <1>1, <1>3, <1>6, <1>7, Limits DEF Followed, Heard
  <2>3. calm' > phase' /\ steady' > phase' + 1 => told' <= Schedule + phase'
    BY <1>1, <1>3, <1>6, <1>7, Limits DEF Followed, Heard
  <2> QED BY <2>1, <2>2, <2>3, <1>2 DEF Heard
<1>15. OddHeard'
  <2>1. CASE oddly
    <3>1. odd' = 0 BY <2>1 DEF Pass
    <3> QED BY <3>1, <1>1 DEF OddHeard
  <2>2. CASE ~oddly
    <3>1. odd' = UpTo(Oldest, odd + 1) BY <2>2 DEF Pass
    <3>2. odd' < Oldest => odd' = odd + 1 BY <3>1, <1>3, Limits DEF UpTo
    <3>3. ASSUME odd' < Oldest, odd' > phase', calm' > odd' PROVE times = 1 /\ counted' < odd'
      <4>1. odd < Oldest /\ odd > phase /\ calm > odd BY <3>2, <3>3, <1>1, <1>3, <1>6, Limits
      <4>2. times = 1 /\ counted < odd BY <4>1 DEF Followed, OddHeard
      <4> QED BY <4>2, <3>2, <3>3, <1>3, <1>6
    <3>4. ASSUME odd' < FreezeLook, odd' > phase', calm' > phase' PROVE frozen' <= phase'
      <4>1. odd' \in Nat BY <3>1, <1>3, Limits DEF UpTo
      <4>2. odd' < Oldest BY <4>1, <3>4, Limits
      <4>3. odd < FreezeLook /\ odd > phase /\ calm > phase BY <4>2, <3>2, <3>4, <1>1, <1>3, <1>6, Limits
      <4>4. frozen <= phase BY <4>3 DEF Followed, OddHeard
      <4> QED BY <4>4, <1>1, <1>3, <1>6
    <3> QED BY <3>3, <3>4, <1>2 DEF OddHeard
  <2> QED BY <2>1, <2>2
<1>16. Alerted'
  <2>1. "alerts" \in due' <=> phase' = alertPhase BY <1>1 DEF Pass
  <2>2. "alerts" \notin due BY <1>1
  <2>3. SinceAlert' = SinceAlert + 1 /\ SinceAlert \in 0..1 BY <2>1, <2>2, <1>1, <1>2, <1>3 DEF SinceAlert
  <2>4. "alerts" \in due' => ((phase' = 1) <=> (alertPhase' = 1)) BY <2>1, <1>1, <1>2, <1>3
  <2>5. since' >= Red + SinceAlert' /\ calm' >= SinceAlert' + 3 => pending > 0
    BY <2>3, <1>3, <1>6, <1>7, Limits DEF Followed, Alerted
  <2>6. since' >= Red + SinceAlert' + 2 /\ calm' >= SinceAlert' + 5 => pending > 1
    BY <2>3, <1>3, <1>6, <1>7, Limits DEF Followed, Alerted
  <2>7. since' >= Red + SinceAlert' + 4 /\ calm' >= SinceAlert' + 7 => pending > 2
    BY <2>3, <1>3, <1>6, <1>7, Limits DEF Followed, Alerted
  <2>8. pending > 0 => steady' <= SinceAlert' + 5
    BY <2>3, <1>3, <1>7 DEF Followed, Alerted
  <2> QED BY <2>4, <2>5, <2>6, <2>7, <2>8, <1>2 DEF Alerted
<1> QED BY <1>10, <1>11, <1>13, <1>14, <1>15, <1>16 DEF Followed

\* What fails ends the calm, or leaves it.
LEMMA FaultFollows == IInv /\ Followed /\ (Refuse \/ TakeAgain \/ Stop \/ Start) => Followed'
<1> SUFFICES ASSUME IInv, Followed, Refuse \/ TakeAgain \/ Stop \/ Start PROVE Followed'
  OBVIOUS
<1>1. UNCHANGED <<reports, odd, since, steady, lag, due, phase, alertPhase, beats, told, counted, times,
                  frozen, pending>>
  BY DEF Refuse, TakeAgain, Stop, Start, worker, clock, recorded
<1>2. (calm' = calm /\ (ruling => ruling')) \/ calm' = 0
  BY Zenon DEF Refuse, TakeAgain, Stop, Start
<1>3. calm \in Nat /\ phase \in Nat /\ SinceAlert \in Nat /\ odd \in Nat
  BY Limits DEF IInv, TypeOK, SinceAlert
<1>4. SinceAlert' = SinceAlert BY <1>1 DEF SinceAlert
<1>5. Knows' /\ OnSchedule' BY <1>1 DEF Followed, Knows, OnSchedule
<1>6. CASE calm' = calm /\ (ruling => ruling')
  <2>1. Ruled' BY <1>1, <1>6 DEF Followed, Ruled
  <2>2. Heard' /\ OddHeard' BY <1>1, <1>6 DEF Followed, Heard, OddHeard
  <2>3. Alerted' BY <1>1, <1>4, <1>6 DEF Followed, Alerted
  <2> QED BY <2>1, <2>2, <2>3, <1>5 DEF Followed
<1>7. CASE calm' = 0
  <2>1. Ruled' BY <1>1, <1>3, <1>7 DEF Followed, Ruled
  <2>2. Heard' /\ OddHeard' BY <1>1, <1>3, <1>7 DEF Followed, Heard, OddHeard
  <2>3. Alerted' BY <1>1, <1>3, <1>4, <1>7 DEF Followed, Alerted
  <2> QED BY <2>1, <2>2, <2>3, <1>5 DEF Followed
<1> QED BY <1>2, <1>6, <1>7

\* Every step keeps it.
LEMMA StepFollows == IInv /\ Followed /\ [Next]_vars => Followed'
<1> SUFFICES ASSUME IInv, Followed, [Next]_vars PROVE Followed'
  OBVIOUS
<1>1. CASE \E report, oddly \in BOOLEAN : Pass(report, oddly)
  BY <1>1, PassFollows
<1>2. CASE Evaluate
  BY <1>2, EvaluateFollows
<1>3. CASE Alert
  BY <1>3, AlertFollows
<1>4. CASE Refuse \/ TakeAgain \/ Stop \/ Start
  BY <1>4, FaultFollows
<1>5. CASE UNCHANGED vars
  <2>1. UNCHANGED <<reports, odd, since, steady, lag, taking, ruling, faults, calm, due, phase, alertPhase,
                    beats, told, counted, times, frozen, pending>>
    BY <1>5 DEF vars, worker, pipe, clock, recorded
  <2> QED BY <2>1 DEF Followed, Ruled, Knows, OnSchedule, Heard, OddHeard, Alerted, SinceAlert
<1> QED BY <1>1, <1>2, <1>3, <1>4, <1>5 DEF Next

\* Lines on time are fresh.
LEMMA CalmIsFresh ==
  ASSUME IInv, Followed, calm > phase
  PROVE  FRESH
<1>1. phase \in 0..2 BY DEF IInv, TypeOK
<1>2. beats[1] = "lines" BY DEF Followed, Ruled
<1> QED BY <1>1, <1>2, FreshLines

\* What the page says follows.
LEMMA Told == IInv /\ Followed => WorkerIsTold
<1> SUFFICES ASSUME IInv, Followed PROVE WorkerIsTold
  OBVIOUS
<1>1. /\ phase \in 0..2 /\ since \in Nat /\ calm \in Nat /\ told \in Nat /\ told <= Red /\ (told >= since \/ told = Red)
      /\ pending \in 0..3 /\ steady \in Nat /\ odd \in Nat /\ lag \in Nat /\ frozen \in Nat /\ counted \in Nat
      /\ times \in Nat /\ ("rules" \in due <=> phase = 2)
  BY Limits DEF IInv, TypeOK, CountedBefore, Hold
<1>2. TypeOK BY DEF IInv
<1>3. SinceAlert \in 0..2 /\ (due = {} => SinceAlert <= 1) BY DEF SinceAlert
<1>4. NeverStaleUnheard
  <2> SUFFICES ASSUME steady = Red PROVE worker_state # "stale" /\ ~WorkerStale BY DEF NeverStaleUnheard
  <2>1. FRESH => ~OverRed BY Limits, NotOver DEF Followed
  <2>2. ~(pending > 0) BY <1>1, <1>3, Limits DEF Followed, Alerted
  <2> QED BY <2>1, <2>2, <1>1 DEF worker_state, WorkerStale, Hold
<1>5. SilentIsSeen
  <2>1. ASSUME since >= Red, calm >= 2, Settled PROVE worker_state = "stale"
    <3>1. OverRed BY <2>1, <1>1, Limits DEF OverRed
    <3>2. FRESH BY <2>1, <1>1, CalmIsFresh DEF Settled
    <3> QED BY <3>1, <3>2 DEF worker_state
  <2>2. ASSUME since >= Red + 5, calm >= 8, due = {} PROVE WorkerStale
    <3>1. pending > 2 BY <2>2, <1>1, <1>3, Limits DEF Followed, Alerted
    <3> QED BY <3>1, <1>1 DEF WorkerStale, Hold
  <2> QED BY <2>1, <2>2 DEF SilentIsSeen
<1>6. ErrorIsHeard
  <2> SUFFICES ASSUME odd \in 3..(ErrorsFor - 1), calm > odd PROVE times = 1 /\ worker_state \in {"erroring", "stale"}
    BY DEF ErrorIsHeard
  <2>1. odd < Oldest /\ odd > phase /\ odd < ErrorsFor BY <1>1, Limits
  <2>2. times = 1 /\ counted < odd BY <2>1 DEF Followed, OddHeard
  <2>3. erroring BY <2>1, <2>2, <1>1, Limits DEF erroring
  <2>4. FRESH BY <1>1, CalmIsFresh
  <2> QED BY <2>2, <2>3, <2>4 DEF worker_state
<1>7. FreezeIsShown
  <2> SUFFICES ASSUME odd \in 2..(FreezeLook - 1), calm >= 2, Settled PROVE StaffAccountFrozen
    BY DEF FreezeIsShown
  <2>1. odd < FreezeLook /\ phase < 2 BY <1>1, Limits DEF Settled
  <2>2. frozen <= phase BY <2>1, <1>1 DEF Followed, OddHeard
  <2> QED BY <2>1, <2>2, <1>1, Limits DEF StaffAccountFrozen
<1>8. NormalIsHeard
  <2> SUFFICES ASSUME FRESH PROVE lag < 6 BY DEF NormalIsHeard, Normal
  <2>1. CASE beats[1] = "lines" BY <2>1, <1>1 DEF Followed, Ruled
  <2>2. CASE phase <= 1 /\ beats[2] = "lines" BY <2>2, <1>1 DEF Followed, Ruled
  <2> QED BY <2>1, <2>2, <1>1, FreshLines
<1>9. AnswersAgain
  <2> SUFFICES ASSUME calm >= 3
               PROVE  /\ LOKI_BLIND = {} /\ worker_state # "can't tell"
                      /\ steady = Red /\ Schedule + phase < Amber => worker_state \in {"on time", "erroring"}
    BY DEF AnswersAgain
  <2>1. FRESH BY <1>1, CalmIsFresh
  <2>2. beats[1] = "lines" BY <1>1 DEF Followed, Ruled
  <2>3. ~RULES_ABSENT
    <3>1. 1 \in {m \in 1..4 : phase + 2 * (m - 1) < 8} BY <1>1
    <3> QED BY <3>1, <2>2 DEF RULES_ABSENT, Within
  <2>4. LOKI_BLIND = {} BY <2>1, <2>3 DEF LOKI_BLIND, NO_LINES
  <2>5. worker_state # "can't tell" BY <2>1 DEF worker_state
  <2>6. ASSUME steady = Red, Schedule + phase < Amber PROVE worker_state \in {"on time", "erroring"}
    <3>1. told <= Schedule + phase BY <2>6, <1>1, Limits DEF Followed, Heard
    <3>2. ~(told >= Amber) /\ ~OverRed BY <3>1, <2>6, <1>1, Limits DEF OverRed
    <3> QED BY <3>2, <2>1 DEF worker_state
  <2> QED BY <2>4, <2>5, <2>6
<1> QED BY <1>2, <1>4, <1>5, <1>6, <1>7, <1>8, <1>9 DEF WorkerIsTold

\* For every limit, schedule and look-back: a worker on time is never stale, a
\* silent one is and is alerted on, an error and a freeze are told, silence is
\* never normal, and the page answers again once lines do.
THEOREM WorkerTold == Spec => []WorkerIsTold
<1>1. Spec => []IInv BY Invariance
<1>2. Spec => []Followed BY Starts, StepKeeps, FollowedAtFirst, StepFollows, PTL DEF Spec
<1> QED BY <1>1, <1>2, Told, PTL

\* Beside the rest of the monitoring, the worker's page is what it is alone.
THEOREM WatchesAWorker == MonitoringSpec => Spec
<1>1. Begin => Init BY DEF Begin
<1>2. [Step]_all => [Next]_vars
  <2> SUFFICES ASSUME [Step]_all PROVE Next \/ UNCHANGED vars
    OBVIOUS
  <2>1. CASE WatchWorker BY <2>1 DEF WatchWorker
  <2>2. CASE ScrubLine BY <2>2 DEF ScrubLine
  <2>3. CASE WatchProbes BY <2>3 DEF WatchProbes
  <2>4. CASE ReadArea BY <2>4 DEF ReadArea
  <2>5. CASE ReadBackups BY <2>5 DEF ReadBackups
  <2>6. CASE ReadArchives BY <2>6 DEF ReadArchives
  <2>7. CASE ReadService BY <2>7 DEF ReadService
  <2>8. CASE UNCHANGED all BY <2>8 DEF all
  <2> QED BY <2>1, <2>2, <2>3, <2>4, <2>5, <2>6, <2>7, <2>8 DEF Step
<1> QED BY <1>1, <1>2, PTL DEF MonitoringSpec, Spec

-----------------------------------------------------------------------------
(* The probes *)

Bad == {"fail", "db down"}
Ills == {"down", "degraded"}

\* What is counted of a check's scrapes is what its last three were.
Scrapes ==
  \A c \in Checks :
    /\ failed[c] > 0 <=> last[c][1] \in Bad
    /\ failed[c] > 1 => last[c][2] \in Bad
    /\ failed[c] > 2 => last[c][3] \in Bad
    /\ passed[c] = 0 => last[c][1] = "pass"
    /\ passed[c] = 1 => last[c][2] = "pass"
    /\ passed[c] = 2 => last[c][3] = "pass"

\* The stack's hour, as recorded, is at most a scrape behind.
Recorded ==
  /\ running # "1" => \A d \in Checks : passed[d] \in {0, Hour}
  /\ running # "1" /\ "stack-state" \notin groups_due => \A d \in Checks : passed[d] = Hour

\* An alert's expression held at a turn, and the turn before if it is counted
\* twice: on scrapes that failed, of a stack that was known to have passed.
Turns(c) == {down[c], degraded[c]}
Twice(n) == n > 1 \/ "probes" \in groups_due

TurnsCount ==
  \A c \in Checks : \A n \in Turns(c) : n > 0 =>
    /\ Twice(n) /\ "stack-state" \in groups_due => running = "1"
    /\ "probes" \notin groups_due => Probe!StackSuccess = "1" /\ failed[c] >= n
    /\ "probes" \in groups_due => failed[c] = 0 \/ failed[c] > n \/ failed[c] = Probe!Hold

\* What the checks' states, once recorded, say.
States ==
  "probe-state" \notin groups_due => \A c \in Checks :
    /\ state[c] = "not running" => ~expected /\ \A d \in Checks : passed[d] \in {0, Hour}
    /\ passed[c] < 3 => state[c] = "up" \/ (state[c] = "not running" /\ passed[c] = 0)
    /\ failed[c] > 2 /\ (expected \/ \E d \in Checks : passed[d] \in 1..(Hour - 1)) => state[c] \in Ills
    /\ failed[c] > 2 /\ Probe!StackSuccess = "1" /\ (\E n \in Turns(c) : n > 0 /\ Twice(n)) => state[c] \in Ills

ProbeInv == Probe!TypeOK /\ Scrapes /\ Recorded /\ TurnsCount /\ States

\* The stack has passed within the hour if a check of it has.
LEMMA StackPassed ==
  Probe!StackSuccess = "1" <=> \E c \in Checks : passed[c] < Hour
BY DEF Probe!StackSuccess

\* What is counted is a number.
LEMMA ProbeTypes ==
  ASSUME Probe!TypeOK, NEW c \in Checks
  PROVE  /\ last[c] \in [1..3 -> Probe!Outcomes]
         /\ passed[c] \in Nat /\ passed[c] <= Hour /\ sampled[c] \in Nat /\ sampled[c] <= passed[c]
         /\ failed[c] \in 0..5 /\ down[c] \in 0..5 /\ degraded[c] \in 0..5
         /\ \A n \in Turns(c) : n \in 0..5
<1>1. last[c] \in [1..3 -> Probe!Outcomes] BY DEF Probe!TypeOK
<1>2. passed[c] \in 0..Hour /\ sampled[c] \in 0..passed[c] BY DEF Probe!TypeOK
<1>3. {failed[c], down[c], degraded[c]} \subseteq 0..5 BY DEF Probe!TypeOK, Probe!Hold
<1>4. passed[c] \in Nat /\ passed[c] <= Hour BY <1>2, ChecksAssumption
<1>5. sampled[c] \in Nat /\ sampled[c] <= passed[c] BY <1>2, <1>4
<1>6. failed[c] \in 0..5 /\ down[c] \in 0..5 /\ degraded[c] \in 0..5 BY <1>3
<1>7. \A n \in Turns(c) : n \in 0..5 BY <1>6 DEF Turns
<1> QED BY <1>1, <1>4, <1>5, <1>6, <1>7

\* Nothing is scraped as the probes begin.
LEMMA ProbesStart == Probe!Init => ProbeInv
<1> SUFFICES ASSUME Probe!Init PROVE ProbeInv
  OBVIOUS
<1>1. groups_due = {} /\ running = "absent"
  BY DEF Probe!Init
<1>2. \A c \in Checks :
        /\ last[c] = <<"missed", "missed", "missed">> /\ passed[c] = Hour /\ failed[c] = 0 /\ sampled[c] = Hour
        /\ state[c] = "absent" /\ down[c] = 0 /\ degraded[c] = 0
  BY DEF Probe!Init
<1>3. <<"missed", "missed", "missed">> \in [1..3 -> Probe!Outcomes]
  <2>1. "missed" \in Probe!Outcomes BY Zenon DEF Probe!Outcomes
  <2>2. \A S : \A a \in S : <<a, a, a>> \in [1..3 -> S] OBVIOUS
  <2> QED BY <2>1, <2>2, Zenon
<1>4. Probe!TypeOK
  <2>1. \A c \in Checks : last[c] \in [1..3 -> Probe!Outcomes] BY <1>2, <1>3
  <2>2. \A c \in Checks : passed[c] \in 0..Hour /\ sampled[c] \in 0..passed[c] BY <1>2, ChecksAssumption
  <2>3. groups_due \subseteq Probe!Groups /\ running \in {"1", "0", "absent"} BY <1>1
  <2>4. \A c \in Checks : state[c] \in {"absent", "not running", "up", "degraded", "down"} BY <1>2, Zenon
  <2>5. \A c \in Checks : {failed[c], down[c], degraded[c]} \subseteq 0..Probe!Hold BY <1>2 DEF Probe!Hold
  <2> QED BY <2>1, <2>2, <2>3, <2>4, <2>5, Zenon DEF Probe!TypeOK
<1>5. Scrapes
  <2> SUFFICES ASSUME NEW c \in Checks
               PROVE  /\ last[c][1] \notin Bad /\ ~(failed[c] > 0) /\ ~(failed[c] > 1) /\ ~(failed[c] > 2)
                      /\ passed[c] # 0 /\ passed[c] # 1 /\ passed[c] # 2
    BY Zenon DEF Scrapes
  <2>1. last[c][1] = "missed" BY <1>2
  <2>2. last[c][1] \notin Bad BY <2>1, Zenon DEF Bad
  <2>3. failed[c] = 0 /\ passed[c] = Hour BY <1>2
  <2> QED BY <2>2, <2>3, ChecksAssumption
<1>6. Recorded BY <1>2 DEF Recorded
<1>7. TurnsCount
  <2>1. \A c \in Checks : \A n \in Turns(c) : ~(n > 0) BY <1>2 DEF Turns
  <2> QED BY <2>1, Zenon DEF TurnsCount
<1>8. States
  <2>1. \A c \in Checks : ~(passed[c] < 3) /\ ~(failed[c] > 2) BY <1>2, ChecksAssumption
  <2>2. \A c \in Checks : state[c] # "not running" BY <1>2, Zenon
  <2> QED BY <2>1, <2>2, Zenon DEF States
<1> QED BY <1>4, <1>5, <1>6, <1>7, <1>8 DEF ProbeInv

\* A scrape: every check's counts go on, and every group is due.
LEMMA ScrapeKeeps ==
  ASSUME ProbeInv, NEW outcome \in [Checks -> Probe!Outcomes], Probe!Scrape(outcome)
  PROVE  ProbeInv'
<1>1. groups_due = {} /\ groups_due' = Probe!Groups /\ UNCHANGED <<expected, running, state, down, degraded>>
  BY DEF Probe!Scrape
<1>2. \A c \in Checks :
        /\ last'[c] = <<outcome[c], last[c][1], last[c][2]>>
        /\ passed'[c] = IF outcome[c] = "pass" THEN 0 ELSE Probe!Older(passed[c])
        /\ failed'[c] = Probe!Held(failed[c], outcome[c] \in Bad)
        /\ sampled'[c] = IF outcome[c] # "missed" THEN 0 ELSE Probe!Older(sampled[c])
  BY DEF Probe!Scrape, Bad
<1>3. "stack-state" \in groups_due' /\ "probe-state" \in groups_due' /\ "probes" \in groups_due'
  BY <1>1 DEF Probe!Groups
<1>4. ASSUME NEW c \in Checks
      PROVE  /\ last'[c] \in [1..3 -> Probe!Outcomes]
             /\ passed'[c] \in 0..Hour /\ sampled'[c] \in 0..passed'[c] /\ failed'[c] \in 0..5
             /\ failed'[c] > 0 <=> last'[c][1] \in Bad
             /\ failed'[c] > 1 => last'[c][2] \in Bad
             /\ failed'[c] > 2 => last'[c][3] \in Bad
             /\ passed'[c] = 0 => last'[c][1] = "pass"
             /\ passed'[c] = 1 => last'[c][2] = "pass"
             /\ passed'[c] = 2 => last'[c][3] = "pass"
             /\ passed[c] = Hour => passed'[c] \in {0, Hour}
             /\ failed'[c] = 0 \/ failed'[c] > failed[c] \/ failed'[c] = 5
  <2> DEFINE o == outcome[c]
  <2>1. o \in Probe!Outcomes OBVIOUS
  <2>2. /\ last[c] \in [1..3 -> Probe!Outcomes] /\ passed[c] \in Nat /\ passed[c] <= Hour
        /\ sampled[c] \in Nat /\ sampled[c] <= passed[c] /\ failed[c] \in 0..5
    BY ProbeTypes DEF ProbeInv
  <2>3. /\ last[c][1] \in Probe!Outcomes /\ last[c][2] \in Probe!Outcomes
    BY <2>2
  <2>4. last'[c] = <<o, last[c][1], last[c][2]>> BY <1>2
  <2>5. last'[c] \in [1..3 -> Probe!Outcomes] BY <2>1, <2>3, <2>4
  <2>6. last'[c][1] = o /\ last'[c][2] = last[c][1] /\ last'[c][3] = last[c][2] BY <2>4
  <2>7. passed'[c] = IF o = "pass" THEN 0 ELSE Probe!Older(passed[c]) BY <1>2
  <2>8. failed'[c] = IF o \notin Bad THEN 0 ELSE IF failed[c] < 5 THEN failed[c] + 1 ELSE 5
    BY <1>2 DEF Probe!Held, Probe!Hold
  <2>9. sampled'[c] = IF o # "missed" THEN 0 ELSE Probe!Older(sampled[c]) BY <1>2
  <2>10. Probe!Older(passed[c]) \in Nat /\ Probe!Older(passed[c]) > 0 /\ Probe!Older(passed[c]) <= Hour
    BY <2>2, ChecksAssumption DEF Probe!Older
  <2>11. Probe!Older(passed[c]) < 3 => Probe!Older(passed[c]) = passed[c] + 1
    BY <2>2, ChecksAssumption DEF Probe!Older
  <2>12. Probe!Older(sampled[c]) \in Nat /\ Probe!Older(sampled[c]) <= Probe!Older(passed[c])
    BY <2>2, ChecksAssumption DEF Probe!Older
  <2>13. /\ failed[c] > 0 <=> last[c][1] \in Bad
         /\ failed[c] > 1 => last[c][2] \in Bad
         /\ passed[c] = 0 => last[c][1] = "pass"
         /\ passed[c] = 1 => last[c][2] = "pass"
    BY DEF ProbeInv, Scrapes
  <2>14. passed[c] = Hour => Probe!Older(passed[c]) = Hour BY ChecksAssumption DEF Probe!Older
  <2> HIDE DEF o
  <2>15. passed'[c] \in 0..Hour /\ sampled'[c] \in 0..passed'[c]
    BY <2>7, <2>9, <2>10, <2>12, ChecksAssumption
  <2>16. /\ passed'[c] = 0 => o = "pass"
         /\ passed'[c] = 1 => last[c][1] = "pass"
         /\ passed'[c] = 2 => last[c][2] = "pass"
         /\ passed[c] = Hour => passed'[c] \in {0, Hour}
    BY <2>2, <2>7, <2>10, <2>11, <2>13, <2>14, ChecksAssumption
  <2>17. /\ failed'[c] \in 0..5 /\ (failed'[c] > 0 <=> o \in Bad)
         /\ failed'[c] > 1 => last[c][1] \in Bad
         /\ failed'[c] > 2 => last[c][2] \in Bad
         /\ failed'[c] = 0 \/ failed'[c] > failed[c] \/ failed'[c] = 5
    BY <2>2, <2>8, <2>13
  <2> QED BY <2>5, <2>6, <2>15, <2>16, <2>17
<1>5. Probe!TypeOK'
  <2>1. groups_due' \subseteq Probe!Groups BY <1>1
  <2> QED BY <2>1, <1>1, <1>4 DEF ProbeInv, Probe!TypeOK, Probe!Hold
<1>6. Scrapes' BY <1>4 DEF Scrapes
<1>7. running # "1" => \A d \in Checks : passed[d] = Hour BY <1>1 DEF ProbeInv, Recorded
<1>8. Recorded' BY <1>1, <1>3, <1>4, <1>7 DEF Recorded
<1>9. TurnsCount'
  <2> SUFFICES ASSUME NEW c \in Checks, NEW n \in Turns(c), n > 0
               PROVE  running = "1" /\ (failed'[c] = 0 \/ failed'[c] > n \/ failed'[c] = 5)
    BY <1>1, <1>3 DEF TurnsCount, Turns, Probe!Hold
  <2>1. Probe!StackSuccess = "1" /\ failed[c] >= n BY <1>1 DEF ProbeInv, TurnsCount
  <2>2. running = "1"
    <3>1. PICK d \in Checks : passed[d] < Hour BY <2>1, StackPassed
    <3> QED BY <3>1, <1>7, ChecksAssumption
  <2>3. n \in 0..5 /\ failed[c] \in 0..5 BY ProbeTypes DEF ProbeInv
  <2>4. failed'[c] \in 0..5 /\ (failed'[c] = 0 \/ failed'[c] > failed[c] \/ failed'[c] = 5) BY <1>4
  <2> QED BY <2>1, <2>2, <2>3, <2>4
<1>10. States' BY <1>3 DEF States
<1> QED BY <1>5, <1>6, <1>8, <1>9, <1>10 DEF ProbeInv

\* The stack's group records whether it passed within the hour.
LEMMA StackTurnKeeps == ProbeInv /\ Probe!StackTurn => ProbeInv'
<1> SUFFICES ASSUME ProbeInv, Probe!StackTurn PROVE ProbeInv'
  OBVIOUS
<1>1. groups_due' = groups_due \ {"stack-state"} /\ running' = Probe!StackSuccess
  BY DEF Probe!StackTurn, Probe!Turn
<1>2. UNCHANGED <<expected, last, passed, failed, sampled, state, down, degraded>>
  BY DEF Probe!StackTurn, Probe!scraped
<1>3. Probe!TypeOK' BY <1>1, <1>2 DEF ProbeInv, Probe!TypeOK, Probe!StackSuccess
<1>4. Scrapes' BY <1>2 DEF ProbeInv, Scrapes
<1>5. running' # "1" => \A d \in Checks : passed[d] = Hour
  <2> SUFFICES ASSUME running' # "1", NEW d \in Checks PROVE passed[d] = Hour OBVIOUS
  <2>1. ~(passed[d] < Hour) BY <1>1, StackPassed
  <2>2. passed[d] \in Nat /\ passed[d] <= Hour BY ProbeTypes DEF ProbeInv
  <2> QED BY <2>1, <2>2, ChecksAssumption
<1>6. Recorded' BY <1>2, <1>5 DEF Recorded
<1>7. "stack-state" \notin groups_due' /\ ("probes" \in groups_due' <=> "probes" \in groups_due)
      /\ ("probe-state" \in groups_due' <=> "probe-state" \in groups_due)
  BY <1>1
<1>8. Probe!StackSuccess' = Probe!StackSuccess BY <1>2 DEF Probe!StackSuccess
<1>9. TurnsCount' BY <1>2, <1>7, <1>8 DEF ProbeInv, TurnsCount, Turns
<1>10. States' BY <1>2, <1>7, <1>8 DEF ProbeInv, States, Turns, Twice
<1> QED BY <1>3, <1>4, <1>6, <1>9, <1>10 DEF ProbeInv

\* The states are computed from what is recorded of the stack then.
LEMMA StateTurnKeeps == ProbeInv /\ Probe!StateTurn => ProbeInv'
<1> SUFFICES ASSUME ProbeInv, Probe!StateTurn PROVE ProbeInv'
  OBVIOUS
<1>1. groups_due' = groups_due \ {"probe-state"}
  BY DEF Probe!StateTurn, Probe!Turn
<1>2. UNCHANGED <<expected, last, passed, failed, sampled, running, down, degraded>>
  BY DEF Probe!StateTurn, Probe!scraped
<1>3. \A c \in Checks : state'[c] = Probe!StateOf(c)
  BY DEF Probe!StateTurn
<1>4. Probe!TypeOK'
  <2>1. \A c \in Checks : state'[c] \in {"absent", "not running", "up", "degraded", "down"}
    BY <1>3, Zenon DEF Probe!StateOf
  <2> QED BY <2>1, <1>1, <1>2 DEF ProbeInv, Probe!TypeOK
<1>5. Scrapes' BY <1>2 DEF ProbeInv, Scrapes
<1>6. ("stack-state" \in groups_due' <=> "stack-state" \in groups_due)
      /\ ("probes" \in groups_due' <=> "probes" \in groups_due)
  BY <1>1
<1>7. Recorded' BY <1>2, <1>6 DEF ProbeInv, Recorded
<1>8. Probe!StackSuccess' = Probe!StackSuccess BY <1>2 DEF Probe!StackSuccess
<1>9. TurnsCount' BY <1>2, <1>6, <1>8 DEF ProbeInv, TurnsCount, Turns, Twice
<1>10. ASSUME NEW c \in Checks
       PROVE  /\ state'[c] = "not running" => ~expected /\ \A d \in Checks : passed[d] \in {0, Hour}
              /\ passed[c] < 3 => state'[c] = "up" \/ (state'[c] = "not running" /\ passed[c] = 0)
              /\ failed[c] > 2 /\ (expected \/ \E d \in Checks : passed[d] \in 1..(Hour - 1)) => state'[c] \in Ills
              /\ failed[c] > 2 /\ Probe!StackSuccess = "1" /\ (\E n \in Turns(c) : n > 0 /\ Twice(n)) => state'[c] \in Ills
  <2>1. state'[c] = Probe!StateOf(c) BY <1>3
  <2>2. last[c] \in [1..3 -> Probe!Outcomes] /\ passed[c] \in Nat /\ failed[c] \in 0..5 BY ProbeTypes DEF ProbeInv
  <2>3. Probe!NotRunning => ~expected /\ running # "1" BY DEF Probe!NotRunning
  <2>4. running # "1" => \A d \in Checks : passed[d] \in {0, Hour} BY DEF ProbeInv, Recorded
  <2>5. state'[c] = "not running" => Probe!NotRunning BY <2>1 DEF Probe!StateOf
  <2>6. ASSUME passed[c] < 3 PROVE state'[c] = "up" \/ (state'[c] = "not running" /\ passed[c] = 0)
    <3>1. last[c][1] = "pass" \/ last[c][2] = "pass" \/ last[c][3] = "pass" BY <2>2, <2>6 DEF ProbeInv, Scrapes
    <3>2. "pass" \in Probe!Seen(c) BY <3>1 DEF Probe!Seen, Probe!ProbesInWindow
    <3>3. state'[c] = IF Probe!NotRunning THEN "not running" ELSE "up" BY <2>1, <3>2 DEF Probe!StateOf
    <3>4. Probe!NotRunning => passed[c] = 0 BY <2>2, <2>3, <2>4, <2>6, ChecksAssumption
    <3> QED BY <3>3, <3>4
  <2>7. ASSUME failed[c] > 2, ~Probe!NotRunning PROVE state'[c] \in Ills
    <3>1. last[c][1] \in Bad /\ last[c][2] \in Bad /\ last[c][3] \in Bad BY <2>2, <2>7 DEF ProbeInv, Scrapes
    <3>2. "pass" \notin Probe!Seen(c) /\ Probe!Seen(c) # {}
      <4>1. \A o \in Bad : o # "pass" /\ o # "missed" BY Zenon DEF Bad
      <4>2. \A n \in 1..3 : last[c][n] \in Bad BY <3>1
      <4>3. Probe!Seen(c) = {last[c][n] : n \in 1..3} \ {"missed"} BY DEF Probe!Seen, Probe!ProbesInWindow
      <4>4. last[c][1] \in Probe!Seen(c) BY <4>1, <4>2, <4>3
      <4>5. "pass" \notin Probe!Seen(c) BY <4>1, <4>2, <4>3
      <4> QED BY <4>4, <4>5
    <3>3. state'[c] = IF Probe!Degraded(c) THEN "degraded" ELSE "down" BY <2>1, <2>7, <3>2 DEF Probe!StateOf
    <3> QED BY <3>3 DEF Ills
  <2>8. expected \/ (\E d \in Checks : passed[d] \in 1..(Hour - 1)) => ~Probe!NotRunning
    BY <2>3, <2>4, ChecksAssumption
  <2>9. ASSUME Probe!StackSuccess = "1", NEW n \in Turns(c), n > 0, Twice(n) PROVE running = "1"
    <3>1. CASE "stack-state" \in groups_due BY <3>1, <2>9 DEF ProbeInv, TurnsCount
    <3>2. CASE "stack-state" \notin groups_due
      <4>1. PICK d \in Checks : passed[d] < Hour BY <2>9, StackPassed
      <4>2. running # "1" => passed[d] = Hour BY <3>2 DEF ProbeInv, Recorded
      <4> QED BY <4>1, <4>2, ChecksAssumption
    <3> QED BY <3>1, <3>2
  <2>10. Probe!StackSuccess = "1" /\ (\E n \in Turns(c) : n > 0 /\ Twice(n)) => ~Probe!NotRunning BY <2>3, <2>9
  <2> QED BY <2>3, <2>4, <2>5, <2>6, <2>7, <2>8, <2>10
<1>11. States' BY <1>2, <1>6, <1>8, <1>10 DEF States, Turns, Twice
<1> QED BY <1>4, <1>5, <1>7, <1>9, <1>11 DEF ProbeInv

\* The alerts count the turns in a row their expressions hold.
LEMMA AlertTurnKeeps == ProbeInv /\ Probe!AlertTurn => ProbeInv'
<1> SUFFICES ASSUME ProbeInv, Probe!AlertTurn PROVE ProbeInv'
  OBVIOUS
<1>1. "probes" \in groups_due /\ groups_due' = groups_due \ {"probes"}
  BY DEF Probe!AlertTurn, Probe!Turn
<1>2. UNCHANGED <<expected, last, passed, failed, sampled, running, state>>
  BY DEF Probe!AlertTurn, Probe!scraped
<1>3. ASSUME NEW c \in Checks, NEW n \in {down'[c], degraded'[c]}
      PROVE  /\ n \in 0..5
             /\ n > 0 => Probe!Failing(c) /\ \E k \in Turns(c) : n = (IF k < 5 THEN k + 1 ELSE 5)
  <2>1. /\ down'[c] = Probe!Held(down[c], Probe!Failing(c) /\ ~Probe!Answers2xx(c))
        /\ degraded'[c] = Probe!Held(degraded[c], Probe!Failing(c) /\ Probe!Answers2xx(c))
    BY DEF Probe!AlertTurn
  <2>2. down[c] \in 0..5 /\ degraded[c] \in 0..5 BY ProbeTypes DEF ProbeInv
  <2>3. CASE n = down'[c] BY <2>1, <2>2, <2>3 DEF Probe!Held, Probe!Hold, Turns
  <2>4. CASE n = degraded'[c] BY <2>1, <2>2, <2>4 DEF Probe!Held, Probe!Hold, Turns
  <2> QED BY <2>3, <2>4
<1>4. Probe!TypeOK'
  <2>1. \A c \in Checks : down'[c] \in 0..5 /\ degraded'[c] \in 0..5 BY <1>3
  <2> QED BY <2>1, <1>1, <1>2 DEF ProbeInv, Probe!TypeOK, Probe!Hold
<1>5. Scrapes' BY <1>2 DEF ProbeInv, Scrapes
<1>6. "probes" \notin groups_due' /\ ("stack-state" \in groups_due' <=> "stack-state" \in groups_due)
      /\ ("probe-state" \in groups_due' <=> "probe-state" \in groups_due)
  BY <1>1
<1>7. Recorded' BY <1>2, <1>6 DEF ProbeInv, Recorded
<1>8. Probe!StackSuccess' = Probe!StackSuccess BY <1>2 DEF Probe!StackSuccess
<1>9. ASSUME NEW c \in Checks, NEW n \in {down'[c], degraded'[c]}, n > 0
      PROVE  /\ Probe!StackSuccess = "1" /\ failed[c] >= n
             /\ n > 1 => \E k \in Turns(c) : k > 0 /\ Twice(k)
  <2>1. PICK k \in Turns(c) : n = (IF k < 5 THEN k + 1 ELSE 5) BY <1>3, <1>9
  <2>2. Probe!StackSuccess = "1" /\ last[c][1] \in Bad BY <1>3, <1>9 DEF Probe!Failing, Bad
  <2>3. k \in 0..5 /\ failed[c] \in 0..5 BY ProbeTypes DEF ProbeInv
  <2>4. failed[c] > 0 BY <2>2 DEF ProbeInv, Scrapes
  <2>5. k > 0 => failed[c] = 0 \/ failed[c] > k \/ failed[c] = 5 BY <1>1 DEF ProbeInv, TurnsCount, Probe!Hold
  <2>6. failed[c] >= n BY <2>1, <2>3, <2>4, <2>5
  <2>7. n > 1 => k > 0 BY <2>1, <2>3
  <2> QED BY <2>2, <2>6, <2>7, <1>1 DEF Twice
<1>10. TurnsCount'
  <2> SUFFICES ASSUME NEW c \in Checks, NEW n \in {down'[c], degraded'[c]}, n > 0
               PROVE  /\ n > 1 /\ "stack-state" \in groups_due => running = "1"
                      /\ Probe!StackSuccess = "1" /\ failed[c] >= n
    BY <1>2, <1>6, <1>8 DEF TurnsCount, Turns, Twice
  <2>1. n > 1 /\ "stack-state" \in groups_due => running = "1" BY <1>9 DEF ProbeInv, TurnsCount
  <2> QED BY <2>1, <1>9
<1>11. States'
  <2> SUFFICES ASSUME "probe-state" \notin groups_due, NEW c \in Checks
               PROVE  /\ state[c] = "not running" => ~expected /\ \A d \in Checks : passed[d] \in {0, Hour}
                      /\ passed[c] < 3 => state[c] = "up" \/ (state[c] = "not running" /\ passed[c] = 0)
                      /\ failed[c] > 2 /\ (expected \/ \E d \in Checks : passed[d] \in 1..(Hour - 1)) => state[c] \in Ills
                      /\ failed[c] > 2 /\ Probe!StackSuccess = "1" /\ (\E n \in {down'[c], degraded'[c]} : n > 0 /\ n > 1)
                           => state[c] \in Ills
    BY <1>2, <1>6, <1>8 DEF States, Turns, Twice
  <2>1. (\E n \in {down'[c], degraded'[c]} : n > 0 /\ n > 1) => \E k \in Turns(c) : k > 0 /\ Twice(k) BY <1>9
  <2> QED BY <2>1 DEF ProbeInv, States
<1> QED BY <1>4, <1>5, <1>7, <1>10, <1>11 DEF ProbeInv

\* What the alerts and the states promise follows.
LEMMA ProbesSafe == ProbeInv => Probe!Safe
<1> SUFFICES ASSUME ProbeInv PROVE Probe!Safe
  OBVIOUS
<1>1. ASSUME groups_due = {}, NEW c \in Checks, Probe!Fires(c)
      PROVE  Probe!StackSuccess = "1" /\ state[c] \in Ills
  <2>1. PICK n \in Turns(c) : n = 5
    BY <1>1 DEF Probe!Fires, Probe!ProbeDown, Probe!DatabaseReportedDown, Probe!Hold, Turns
  <2>2. Probe!StackSuccess = "1" /\ failed[c] >= 5 BY <1>1, <2>1 DEF ProbeInv, TurnsCount
  <2>3. failed[c] > 2 /\ n > 0 /\ Twice(n) BY <2>1, <2>2, ProbeTypes DEF ProbeInv, Twice
  <2>4. state[c] \in Ills BY <1>1, <2>2, <2>3 DEF ProbeInv, States
  <2> QED BY <2>2, <2>4
<1>2. Probe!TypeOK BY DEF ProbeInv
<1>3. Probe!OffIsQuiet BY <1>1, StackPassed DEF Probe!OffIsQuiet, Probe!Settled
<1>4. Probe!AlertIsShown BY <1>1 DEF Probe!AlertIsShown, Probe!Settled, Ills
<1>5. Probe!NotRunningIsOff BY DEF ProbeInv, States, Probe!NotRunningIsOff, Probe!Settled
<1>6. Probe!LostProbeIsUp BY DEF ProbeInv, States, Probe!LostProbeIsUp, Probe!Settled
<1>7. Probe!FailureIsSeen
  <2> SUFFICES ASSUME groups_due = {}, NEW c \in Checks, failed[c] >= 3,
                      expected \/ \E d \in Checks : passed[d] \in 1..(Hour - 1)
               PROVE  state[c] \in Ills
    BY DEF Probe!FailureIsSeen, Probe!Settled, Ills
  <2>1. failed[c] > 2 BY ProbeTypes DEF ProbeInv
  <2> QED BY <2>1 DEF ProbeInv, States
<1> QED BY <1>2, <1>3, <1>4, <1>5, <1>6, <1>7 DEF Probe!Safe

\* Of any checks of a stack, scraped and judged in whatever order: a check an
\* alert fires for is shown as failing, one lost probe is not an outage, and a
\* stack that is off raises nothing.
THEOREM ProbesTold == MonitoringSpec => []ProbesAgree
<1> DEFINE Inv == part = "probe" => ProbeInv
<1>1. Begin => Inv BY ProbesStart DEF Begin
<1>2. Inv /\ [Step]_all => Inv'
  <2> SUFFICES ASSUME Inv, [Step]_all, part' = "probe" PROVE ProbeInv'
    OBVIOUS
  <2>1. CASE WatchProbes
    <3>1. ProbeInv BY <2>1 DEF WatchProbes
    <3>2. CASE \E outcome \in [Checks -> Probe!Outcomes] : Probe!Scrape(outcome) BY <3>1, <3>2, ScrapeKeeps
    <3>3. CASE Probe!StackTurn BY <3>1, <3>3, StackTurnKeeps
    <3>4. CASE Probe!StateTurn BY <3>1, <3>4, StateTurnKeeps
    <3>5. CASE Probe!AlertTurn BY <3>1, <3>5, AlertTurnKeeps
    <3> QED BY <2>1, <3>2, <3>3, <3>4, <3>5 DEF WatchProbes, Probe!Next
  <2>2. CASE part' = part /\ UNCHANGED probe_vars
    <3>1. ProbeInv BY <2>2
    <3>2. UNCHANGED <<expected, last, passed, failed, sampled, groups_due, running, state, down, degraded>>
      BY <2>2 DEF probe_vars
    <3> QED BY <3>1, <3>2
      DEF ProbeInv, Probe!TypeOK, Scrapes, Recorded, TurnsCount, States, Turns, Twice, Probe!StackSuccess
  <2>3. WatchProbes \/ (part' = part /\ UNCHANGED probe_vars)
    <3>1. CASE WatchWorker BY <3>1 DEF WatchWorker
    <3>2. CASE ScrubLine BY <3>2 DEF ScrubLine
    <3>3. CASE ReadArea BY <3>3 DEF ReadArea
    <3>4. CASE ReadBackups BY <3>4 DEF ReadBackups
    <3>5. CASE ReadArchives BY <3>5 DEF ReadArchives
    <3>6. CASE ReadService BY <3>6 DEF ReadService
    <3>7. CASE UNCHANGED all BY <3>7 DEF all
    <3> QED BY <3>1, <3>2, <3>3, <3>4, <3>5, <3>6, <3>7 DEF Step
  <2> QED BY <2>1, <2>2, <2>3
<1>3. Inv => ProbesAgree BY ProbesSafe DEF ProbesAgree
<1> QED BY <1>1, <1>2, <1>3, PTL DEF MonitoringSpec

-----------------------------------------------------------------------------
(* The scrub of a line: what holds of it at each stage *)

\* A line that says it is of DEBUG.
SaysDebug(l) ==
  \/ Scrub!Value(l, <<"level">>) = "debug"
  \/ Scrub!Value(l, <<"level">>) = "" /\ ~Scrub!IsRebuilt(l) /\ Scrub!Value(l, <<"severity">>) = "debug"

\* An error that gives its class.
GivesClass(l) ==
  /\ Scrub!IsJson(l) /\ ~Scrub!IsRebuilt(l)
  /\ Scrub!Value(l, <<"exc", "class">>) = "" /\ Scrub!Value(l, <<"error">>) = "classed"

\* Of a velocity line rebuilt: the contract's keys with words of the contract.
OfTheContract(l) ==
  /\ Scrub!Compact(l)
  /\ \A p \in DOMAIN l.tree : l.tree[p].is = "text" \/ l.tree[p].key = "exc"
  /\ Scrub!Words(l) \cap {"free", "id"} = {}
  /\ Scrub!Keys(l) \subseteq {"class", "code", "exc", "level", "message", "op", "request_id", "role"}

\* A line with nothing to drop it, whose listed fields hold none of their like.
NothingToDrop(l) == Scrub!Harmless(l) /\ \A p \in Scrub!Listed(l) : ~Scrub!HoldsItsLike(l, p)

\* It is a tree still, of its service, and the line that was written until a
\* stage rebuilds it or cuts it.
StaysALine ==
  /\ first \in Lines /\ Scrub!IsTree(line) /\ line.tear = first.tear /\ line.service = first.service
  /\ fate \in {"open", "shipped", "dropped"} /\ stage \in 1..14 /\ (fate = "shipped" => stage = 14)
  /\ stage > 1 => line.service \notin Scrub!NeverShipped
  /\ stage <= 4 => line = first
  /\ stage <= 9 /\ ~Scrub!IsRebuilt(first) => line = first
  /\ stage = 5 /\ first.service # "web" => line = first

\* What the stages so far have taken out or stopped.
CutSoFar ==
  /\ stage > 2 => "body" \notin Scrub!Words(line)
  /\ stage > 11 => "row" \notin Scrub!Words(line)
  /\ stage > 12 => "query" \notin Scrub!Words(line)
  /\ stage > 13 => ~Scrub!StillThere(line)

\* A velocity line is closed from where it is rebuilt.
VelocityIsShut == stage > 5 /\ Scrub!VelocityLine(first) => OfTheContract(line)

\* A line of DEBUG says so until it is read, and is dropped on what was read.
DebugIsSeen ==
  SaysDebug(first) =>
    /\ stage <= 6 => SaysDebug(line)
    /\ stage = 7 => read.level = "debug"
    /\ stage = 8 => meta.level = "debug"
    /\ stage > 8 => fate = "dropped"

\* The class is read before its error is cut, and the error's text is only there.
ClassIsRead ==
  /\ GivesClass(first) =>
       /\ stage = 7 => read.class = "" /\ read.error = "classed"
       /\ stage > 7 => meta.exc_class = "class"
  /\ ~Scrub!IsRebuilt(first) => \A p \in DOMAIN line.tree : line.tree[p].word = "classed" => line.tree[p].key = "error"

\* A line with nothing to drop it is not dropped, and loses its listed fields only.
RestStays ==
  NothingToDrop(first) =>
    /\ fate # "dropped"
    /\ "cookie" \notin Scrub!Words(line)
    /\ stage = 7 => read.level # "debug" /\ read.logger # "httpx" /\ read.msg # "request"
    /\ stage = 8 => meta.level # "debug" /\ read.logger # "httpx" /\ read.msg # "request"
    /\ stage = 10 => line = Scrub!Without(first, Scrub!LaterFields(first))
    /\ stage > 10 =>
         /\ DOMAIN line.tree = DOMAIN Scrub!Without(first, Scrub!Listed(first)).tree
         /\ \A p \in DOMAIN line.tree : line.tree[p].key = first.tree[p].key

\* What holds of a line at each stage.
ScrubInv == StaysALine /\ CutSoFar /\ VelocityIsShut /\ DebugIsSeen /\ ClassIsRead /\ RestStays

\* The stages in their order.
LEMMA StageOf ==
  ASSUME stage \in 1..14
  PROVE  /\ Scrub!At("services") => stage = 1
         /\ Scrub!At("bodies") => stage = 2
         /\ Scrub!At("not_json") => stage = 3
         /\ Scrub!At("caddy") => stage = 4
         /\ Scrub!At("velocity") => stage = 5
         /\ Scrub!At("read") => stage = 6
         /\ Scrub!At("metadata") => stage = 7
         /\ Scrub!At("drops") => stage = 8
         /\ Scrub!At("later_fields") => stage = 9
         /\ Scrub!At("first_fields") => stage = 10
         /\ Scrub!At("rows") => stage = 11
         /\ Scrub!At("queries") => stage = 12
         /\ Scrub!At("fail_closed") => stage = 13
         /\ Scrub!At("ship") => stage = 14
BY DEF Scrub!At, Scrub!Stages

\* A value is a word of the line, or a part of it read as text.
LEMMA ValueIsSaid ==
  ASSUME NEW l, NEW keys
  PROVE  Scrub!Value(l, keys) \in Scrub!Words(l) \cup {"", "free"}
<1> DEFINE found == {p \in DOMAIN l.tree : Scrub!KeysTo(l, p) = keys}
           it == CHOOSE p \in found : TRUE
<1>1. found # {} => it \in DOMAIN l.tree
  OBVIOUS
<1>2. Scrub!Value(l, keys) = IF ~Scrub!IsJson(l) \/ found = {} THEN ""
        ELSE IF l.tree[it].is = "text" THEN l.tree[it].word ELSE "free"
  BY DEF Scrub!Value
<1>3. found # {} => l.tree[it].word \in Scrub!Words(l)
  BY <1>1 DEF Scrub!Words
<1> HIDE DEF found, it
<1> QED BY <1>2, <1>3

\* A prefix of what a path is in is a prefix of the path.
LEMMA FrontPrefix ==
  ASSUME NEW p \in Seq(Nat), NEW q \in Seq(Nat), Len(q) > 1, Scrub!IsPrefix(p, Scrub!Front(q))
  PROVE  Scrub!IsPrefix(p, q)
BY DEF Scrub!IsPrefix, Scrub!Front

\* A tree less some of its fields, with all they hold, is a tree.
LEMMA CutIsTree ==
  ASSUME NEW l, Scrub!IsTree(l), NEW cut \in SUBSET DOMAIN l.tree
  PROVE  LET m == Scrub!Without(l, cut) IN
    /\ Scrub!IsTree(m) /\ m.service = l.service /\ m.form = l.form /\ m.tear = l.tear
    /\ DOMAIN m.tree = {q \in DOMAIN l.tree : \A p \in cut : ~Scrub!IsPrefix(p, q)}
    /\ \A q \in DOMAIN m.tree : m.tree[q] = l.tree[q]
    /\ Scrub!Words(m) \subseteq Scrub!Words(l) /\ Scrub!Keys(m) \subseteq Scrub!Keys(l)
<1> DEFINE m == Scrub!Without(l, cut)
           left == {q \in DOMAIN l.tree : \A p \in cut : ~Scrub!IsPrefix(p, q)}
<1>1. m = [l EXCEPT !.tree = [q \in left |-> l.tree[q]]]
  BY DEF Scrub!Without
<1>2. /\ DOMAIN m = DOMAIN l /\ m.service = l.service /\ m.form = l.form /\ m.tear = l.tear
      /\ m.tree = [q \in left |-> l.tree[q]]
  BY <1>1 DEF Scrub!IsTree
<1>3. DOMAIN m.tree = left /\ \A q \in left : m.tree[q] = l.tree[q]
  BY <1>2
<1>4. ASSUME NEW q \in left, Len(q) > 1 PROVE Scrub!Front(q) \in left
  <2>1. q \in Seq(Nat) /\ Scrub!Front(q) \in DOMAIN l.tree /\ Scrub!Front(q) \in Seq(Nat)
    BY <1>4 DEF Scrub!IsTree
  <2>2. \A p \in cut : p \in Seq(Nat)
    BY DEF Scrub!IsTree
  <2> QED BY <1>4, <2>1, <2>2, FrontPrefix
<1>5. Scrub!IsTree(m)
  BY <1>2, <1>3, <1>4 DEF Scrub!IsTree
<1>6. Scrub!Words(m) \subseteq Scrub!Words(l) /\ Scrub!Keys(m) \subseteq Scrub!Keys(l)
  BY <1>3 DEF Scrub!Words, Scrub!Keys
<1> QED BY <1>2, <1>3, <1>5, <1>6

\* A word put for another.
LEMMA PutIsTree ==
  ASSUME NEW l, Scrub!IsTree(l), NEW old, NEW new, old # new
  PROVE  LET m == Scrub!Replaced(l, old, new) IN
    /\ Scrub!IsTree(m) /\ m.service = l.service /\ m.form = l.form /\ m.tear = l.tear
    /\ DOMAIN m.tree = DOMAIN l.tree
    /\ \A q \in DOMAIN l.tree :
         /\ m.tree[q].key = l.tree[q].key /\ m.tree[q].is = l.tree[q].is
         /\ m.tree[q].word = IF l.tree[q].word = old THEN new ELSE l.tree[q].word
    /\ Scrub!Words(m) \subseteq (Scrub!Words(l) \ {old}) \cup {new} /\ Scrub!Keys(m) = Scrub!Keys(l)
<1> DEFINE m == Scrub!Replaced(l, old, new)
           Node(p) == IF l.tree[p].word = old THEN [l.tree[p] EXCEPT !.word = new] ELSE l.tree[p]
<1>1. m = [l EXCEPT !.tree = [p \in DOMAIN l.tree |-> Node(p)]]
  BY DEF Scrub!Replaced
<1>2. /\ DOMAIN m = DOMAIN l /\ m.service = l.service /\ m.form = l.form /\ m.tear = l.tear
      /\ m.tree = [p \in DOMAIN l.tree |-> Node(p)]
  BY <1>1 DEF Scrub!IsTree
<1>3. ASSUME NEW p \in DOMAIN l.tree
      PROVE  /\ DOMAIN Node(p) = {"key", "is", "word"} /\ Node(p).key = l.tree[p].key /\ Node(p).is = l.tree[p].is
             /\ Node(p).word = IF l.tree[p].word = old THEN new ELSE l.tree[p].word
  <2>1. DOMAIN l.tree[p] = {"key", "is", "word"} BY DEF Scrub!IsTree
  <2> QED BY <2>1
<1>4. DOMAIN m.tree = DOMAIN l.tree /\ \A q \in DOMAIN l.tree : m.tree[q] = Node(q)
  BY <1>2
<1>5. \A q \in DOMAIN l.tree :
         /\ m.tree[q].key = l.tree[q].key /\ m.tree[q].is = l.tree[q].is /\ DOMAIN m.tree[q] = {"key", "is", "word"}
         /\ m.tree[q].word = IF l.tree[q].word = old THEN new ELSE l.tree[q].word
  BY <1>3, <1>4
<1> HIDE DEF m, Node
<1>6. Scrub!IsTree(m)
  BY <1>2, <1>4, <1>5 DEF Scrub!IsTree
<1>7. Scrub!Words(m) \subseteq (Scrub!Words(l) \ {old}) \cup {new}
  BY <1>4, <1>5 DEF Scrub!Words
<1>8. Scrub!Keys(m) = Scrub!Keys(l)
  BY <1>4, <1>5 DEF Scrub!Keys
<1> QED BY <1>2, <1>4, <1>5, <1>6, <1>7, <1>8 DEF m

\* A path of one position.
LEMMA OneLong ==
  ASSUME NEW i \in Nat
  PROVE  /\ <<i>> \in Seq(Nat) /\ <<i>> # <<>> /\ ~(Len(<<i>>) > 1) /\ DOMAIN <<i>> = 1..1
         /\ SubSeq(<<i>>, 1, 1) = <<i>>
<1>1. <<i>> \in Seq(Nat) /\ <<i>> # <<>> /\ Len(<<i>>) = 1 /\ DOMAIN <<i>> = 1..1
  OBVIOUS
<1>2. SubSeq(<<i>>, 1, 1) \in Seq(Nat) /\ Len(SubSeq(<<i>>, 1, 1)) = 1 /\ SubSeq(<<i>>, 1, 1)[1] = <<i>>[1]
  BY <1>1, SubSeqProperties
<1>3. SubSeq(<<i>>, 1, 1) = <<i>>
  <2>1. \A k \in 1..Len(SubSeq(<<i>>, 1, 1)) : SubSeq(<<i>>, 1, 1)[k] = <<i>>[k]
    BY <1>2
  <2>2. Len(SubSeq(<<i>>, 1, 1)) = Len(<<i>>)
    BY <1>1, <1>2
  <2> QED BY <1>1, <1>2, <2>1, <2>2, SeqEqual
<1> QED BY <1>1, <1>3

\* A list of one.
LEMMA OneKey ==
  ASSUME NEW v
  PROVE  [j \in 1..1 |-> v] = <<v>>
OBVIOUS

\* A line rebuilt of fields holds those with a word, one beside the other.
LEMMA RebuiltIsTree ==
  ASSUME NEW l, Scrub!IsTree(l), NEW n \in Nat, NEW fields, DOMAIN fields = 1..n,
         \A i \in 1..n : fields[i] = Scrub!Text(fields[i].key, fields[i].word)
  PROVE  LET m == Scrub!Rebuilt(l, fields) IN
    /\ Scrub!IsTree(m) /\ m.service = l.service /\ m.form = "compact" /\ m.tear = l.tear
    /\ \A p \in DOMAIN m.tree : \E i \in 1..n : p = <<i>> /\ m.tree[p] = fields[i] /\ m.tree[p].is = "text"
    /\ Scrub!Words(m) \subseteq {fields[i].word : i \in 1..n}
    /\ Scrub!Keys(m) \subseteq {fields[i].key : i \in 1..n}
    /\ \A k \in 1..n : (\A i \in 1..n : fields[i].key = fields[k].key => i = k) /\ Scrub!IsJson(l)
         => Scrub!Value(m, <<fields[k].key>>) = fields[k].word
<1> DEFINE Key(i) == fields[i].key
           Word(i) == fields[i].word
           m == Scrub!Rebuilt(l, fields)
           kept == {<<i>> : i \in {j \in 1..n : Word(j) # ""}}
<1>0. (\A i \in 1..n : i \in Nat) /\ \A j \in 1..1 : j = 1
  OBVIOUS
<1>1. \A i \in 1..n : fields[i] = Scrub!Text(Key(i), Word(i)) /\ fields[i].word = Word(i) /\ fields[i].key = Key(i)
                        /\ fields[i].is = "text" /\ DOMAIN fields[i] = {"key", "is", "word"}
  BY DEF Scrub!Text
<1>2. DOMAIN fields = 1..n
  OBVIOUS
<1> HIDE DEF Key, Word
<1>3. {<<i>> : i \in {j \in DOMAIN fields : fields[j].word # ""}} = kept
  BY <1>1, <1>2
<1>4. m = [l EXCEPT !.form = "compact", !.tree = [p \in kept |-> fields[p[1]]]]
  BY <1>3 DEF Scrub!Rebuilt
<1>5. /\ DOMAIN m = DOMAIN l /\ m.service = l.service /\ m.form = "compact" /\ m.tear = l.tear
      /\ m.tree = [p \in kept |-> fields[p[1]]]
  BY <1>4 DEF Scrub!IsTree
<1>6. DOMAIN m.tree = kept
  BY <1>5
<1>7. \A i \in 1..n : Word(i) # "" => <<i>> \in kept /\ m.tree[<<i>>] = fields[i]
  BY <1>5
<1> HIDE DEF m
<1>8. Scrub!IsTree(m)
  <2>1. ASSUME NEW p \in kept
        PROVE  /\ p \in Seq(Nat) /\ p # <<>> /\ ~(Len(p) > 1)
               /\ DOMAIN m.tree[p] = {"key", "is", "word"} /\ m.tree[p].is \in {"text", "object", "list"}
    <3>1. PICK i \in 1..n : p = <<i>> /\ Word(i) # ""
      OBVIOUS
    <3>2. i \in Nat
      BY <1>0
    <3>3. p \in Seq(Nat) /\ p # <<>> /\ ~(Len(p) > 1)
      BY <3>1, <3>2, OneLong
    <3>4. m.tree[p] = fields[i]
      BY <3>1, <1>7
    <3>5. DOMAIN fields[i] = {"key", "is", "word"} /\ fields[i].is = "text"
      BY <1>1
    <3>6. DOMAIN m.tree[p] = {"key", "is", "word"} /\ m.tree[p].is = "text"
      BY <3>4, <3>5
    <3> QED BY <3>3, <3>6
  <2> HIDE DEF kept
  <2> QED BY <2>1, <1>5, <1>6 DEF Scrub!IsTree
<1>9. ASSUME NEW k \in 1..n, \A i \in 1..n : Key(i) = Key(k) => i = k, Scrub!IsJson(l)
      PROVE  Scrub!Value(m, <<Key(k)>>) = Word(k)
  <2> DEFINE found == {p \in DOMAIN m.tree : Scrub!KeysTo(m, p) = <<Key(k)>>}
  <2>1. \A i \in 1..n : Word(i) # "" => Scrub!KeysTo(m, <<i>>) = <<Key(i)>>
    <3> SUFFICES ASSUME NEW i \in 1..n, Word(i) # "" PROVE Scrub!KeysTo(m, <<i>>) = <<Key(i)>>
      OBVIOUS
    <3>0. i \in Nat
      BY <1>0
    <3>1. DOMAIN <<i>> = 1..1 /\ SubSeq(<<i>>, 1, 1) = <<i>>
      BY <3>0, OneLong
    <3>2. m.tree[<<i>>].key = Key(i)
      BY <1>7, <1>1
    <3>3. Scrub!KeysTo(m, <<i>>) = [j \in 1..1 |-> m.tree[SubSeq(<<i>>, 1, j)].key]
      BY <3>1 DEF Scrub!KeysTo
    <3>4. ASSUME NEW j \in 1..1 PROVE m.tree[SubSeq(<<i>>, 1, j)].key = Key(i)
      <4>1. j = 1 BY <1>0
      <4> QED BY <3>1, <3>2, <4>1
    <3>5. Scrub!KeysTo(m, <<i>>) = [j \in 1..1 |-> Key(i)]
      BY <3>3, <3>4
    <3> QED BY <3>5, OneKey
  <2>2. found = IF Word(k) = "" THEN {} ELSE {<<k>>}
    <3>1. \A p \in found : \E i \in 1..n : p = <<i>> /\ Word(i) # "" /\ Key(i) = Key(k)
      <4> SUFFICES ASSUME NEW p \in found PROVE \E i \in 1..n : p = <<i>> /\ Word(i) # "" /\ Key(i) = Key(k)
        OBVIOUS
      <4>1. PICK i \in 1..n : p = <<i>> /\ Word(i) # "" BY <1>6
      <4>2. <<Key(i)>> = <<Key(k)>> BY <4>1, <2>1
      <4>3. Key(i) = Key(k) BY <4>2
      <4> QED BY <4>1, <4>3
    <3>2. \A p \in found : p = <<k>> /\ Word(k) # "" BY <3>1, <1>9
    <3>3. Word(k) # "" => <<k>> \in found BY <1>6, <2>1
    <3> QED BY <3>2, <3>3
  <2>3. Scrub!IsJson(m) BY <1>5, <1>9 DEF Scrub!IsJson
  <2>4. CASE Word(k) = ""
    BY <2>2, <2>3, <2>4 DEF Scrub!Value
  <2>5. CASE Word(k) # ""
    <3>1. m.tree[<<k>>].is = "text" /\ m.tree[<<k>>].word = Word(k) BY <2>5, <1>1, <1>7
    <3>2. (CHOOSE p \in found : TRUE) = <<k>> BY <2>2, <2>5
    <3>3. found # {} BY <2>2, <2>5
    <3> QED BY <2>3, <3>1, <3>2, <3>3 DEF Scrub!Value
  <2> QED BY <2>4, <2>5
<1>10. \A p \in DOMAIN m.tree : \E i \in 1..n : p = <<i>> /\ m.tree[p] = fields[i] /\ m.tree[p].is = "text"
  <2> SUFFICES ASSUME NEW p \in kept PROVE \E i \in 1..n : p = <<i>> /\ m.tree[p] = fields[i] /\ m.tree[p].is = "text"
    BY <1>6
  <2>1. PICK i \in 1..n : p = <<i>> /\ Word(i) # ""
    OBVIOUS
  <2>2. m.tree[p] = fields[i]
    BY <1>7, <2>1
  <2>3. fields[i].is = "text"
    BY <1>1
  <2> QED BY <2>1, <2>2, <2>3
<1>11. /\ Scrub!Words(m) \subseteq {fields[i].word : i \in 1..n}
       /\ Scrub!Keys(m) \subseteq {fields[i].key : i \in 1..n}
  BY <1>10 DEF Scrub!Words, Scrub!Keys
<1>12. \A k \in 1..n : (\A i \in 1..n : fields[i].key = fields[k].key => i = k) /\ Scrub!IsJson(l)
         => Scrub!Value(m, <<fields[k].key>>) = fields[k].word
  BY <1>9 DEF Key, Word
<1> QED BY <1>5, <1>8, <1>10, <1>11, <1>12 DEF m

\* A line that is dropped stays as it was.
LEMMA DropKeeps ==
  ASSUME ScrubInv, Scrub!Drop, fate = "open", ~NothingToDrop(first)
  PROVE  ScrubInv'
<1> USE DEF Scrub!Drop
<1>1. StaysALine' BY DEF ScrubInv, StaysALine
<1>2. CutSoFar' BY DEF ScrubInv, CutSoFar
<1>3. VelocityIsShut' BY DEF ScrubInv, VelocityIsShut
<1>4. DebugIsSeen' BY DEF ScrubInv, DebugIsSeen
<1>5. ClassIsRead' BY DEF ScrubInv, ClassIsRead
<1>6. RestStays' BY DEF ScrubInv, RestStays
<1> QED BY <1>1, <1>2, <1>3, <1>4, <1>5, <1>6 DEF ScrubInv

\* What of the invariant a stage that leaves the line alone must see to.
LEMMA GoKeeps ==
  ASSUME ScrubInv, Scrub!Go, fate = "open", stage \in 1..13, UNCHANGED <<line, read, meta>>,
         stage \notin {6, 7, 9, 10, 11, 12},
         stage = 1 => line.service \notin Scrub!NeverShipped,
         stage = 2 => "body" \notin Scrub!Words(line),
         stage = 4 => first.service # "web",
         stage = 5 => ~Scrub!VelocityLine(first),
         stage = 8 => meta.level # "debug",
         stage = 13 => ~Scrub!StillThere(line)
  PROVE  ScrubInv'
<1> USE DEF Scrub!Go
<1>1. StaysALine'
  BY DEF ScrubInv, StaysALine
<1>2. CutSoFar'
  BY DEF ScrubInv, CutSoFar
<1>3. VelocityIsShut'
  BY DEF ScrubInv, VelocityIsShut
<1>4. DebugIsSeen'
  BY DEF ScrubInv, DebugIsSeen, StaysALine
<1>5. ClassIsRead'
  <2>1. stage' # 7 /\ (stage' > 7 => stage > 7)
    OBVIOUS
  <2>2. ClassIsRead
    BY DEF ScrubInv
  <2> QED BY <2>1, <2>2 DEF ClassIsRead
<1>6. RestStays'
  BY DEF ScrubInv, RestStays
<1> QED BY <1>1, <1>2, <1>3, <1>4, <1>5, <1>6 DEF ScrubInv

\* What a line that nothing drops has not.
LEMMA KeptHasNone ==
  ASSUME NothingToDrop(first)
  PROVE  /\ first.service \in {"auth", "records"} /\ ~Scrub!IsRebuilt(first)
         /\ first.form = "compact" /\ Scrub!IsJson(first) /\ ~Scrub!VelocityLine(first)
         /\ Scrub!Keys(first) \cap Scrub!Headers = {}
         /\ Scrub!Words(first) \cap {"body", "cookie", "debug", "httpx", "request"} = {}
BY DEF NothingToDrop, Scrub!Harmless, Scrub!Compact, Scrub!IsRebuilt

\* The stages, one by one.
LEMMA ServicesKeeps == ScrubInv /\ Scrub!NeverShipServices => ScrubInv'
<1> SUFFICES ASSUME ScrubInv, Scrub!NeverShipServices PROVE ScrubInv'
  OBVIOUS
<1>1. stage = 1 /\ fate = "open" /\ line = first
  BY StageOf DEF Scrub!NeverShipServices, Scrub!At, ScrubInv, StaysALine
<1>2. CASE Scrub!Drop /\ line.service \in Scrub!NeverShipped
  <2>1. ~NothingToDrop(first) BY <1>1, <1>2, KeptHasNone DEF Scrub!NeverShipped
  <2> QED BY <1>1, <1>2, <2>1, DropKeeps
<1>3. CASE line.service \notin Scrub!NeverShipped /\ Scrub!Go /\ UNCHANGED <<line, read, meta>>
  BY <1>1, <1>3, GoKeeps
<1> QED BY <1>2, <1>3 DEF Scrub!NeverShipServices, Scrub!DropIf

\* Dropping a line with a body keeps the invariant.
LEMMA BodiesKeeps == ScrubInv /\ Scrub!ModelBodies => ScrubInv'
<1> SUFFICES ASSUME ScrubInv, Scrub!ModelBodies PROVE ScrubInv'
  OBVIOUS
<1>1. stage = 2 /\ fate = "open" /\ line = first
  BY StageOf DEF Scrub!ModelBodies, Scrub!At, ScrubInv, StaysALine
<1>2. CASE Scrub!Drop /\ "body" \in Scrub!Words(line)
  <2>1. ~NothingToDrop(first) BY <1>1, <1>2, KeptHasNone
  <2> QED BY <1>1, <1>2, <2>1, DropKeeps
<1>3. CASE "body" \notin Scrub!Words(line) /\ Scrub!Go /\ UNCHANGED <<line, read, meta>>
  BY <1>1, <1>3, GoKeeps
<1> QED BY <1>2, <1>3 DEF Scrub!ModelBodies, Scrub!DropIf

\* So does dropping what is text,
LEMMA NotJsonKeeps == ScrubInv /\ Scrub!NotJson => ScrubInv'
<1> SUFFICES ASSUME ScrubInv, Scrub!NotJson PROVE ScrubInv'
  OBVIOUS
<1>1. stage = 3 /\ fate = "open" /\ line = first
  BY StageOf DEF Scrub!NotJson, Scrub!At, ScrubInv, StaysALine
<1>2. CASE Scrub!Drop /\ line.form = "text"
  <2>1. ~NothingToDrop(first) BY <1>1, <1>2, KeptHasNone
  <2> QED BY <1>1, <1>2, <2>1, DropKeeps
<1>3. CASE Scrub!Go /\ UNCHANGED <<line, read, meta>>
  BY <1>1, <1>3, GoKeeps
<1> QED BY <1>2, <1>3 DEF Scrub!NotJson, Scrub!DropIf

\* What a line rebuilt of fields with keys of their own has of them.
IsRebuiltOf(m, fields, n) ==
  /\ Scrub!IsTree(m) /\ m.service = line.service /\ m.form = "compact" /\ m.tear = line.tear
  /\ \A p \in DOMAIN m.tree : \E i \in 1..n : p = <<i>> /\ m.tree[p] = fields[i] /\ m.tree[p].is = "text"
  /\ Scrub!Words(m) \subseteq {fields[i].word : i \in 1..n}
  /\ Scrub!Keys(m) \subseteq {fields[i].key : i \in 1..n}
  /\ \A k \in 1..n : Scrub!Value(m, <<fields[k].key>>) = fields[k].word

LEMMA LineIsRebuilt ==
  ASSUME ScrubInv, Scrub!IsJson(line),
         NEW n \in Nat, NEW fields, DOMAIN fields = 1..n,
         \A i \in 1..n : fields[i] = Scrub!Text(fields[i].key, fields[i].word),
         \A i, j \in 1..n : fields[i].key = fields[j].key => i = j
  PROVE  IsRebuiltOf(Scrub!Rebuilt(line, fields), fields, n)
<1> DEFINE m == Scrub!Rebuilt(line, fields)
<1>1. Scrub!IsTree(line) BY DEF ScrubInv, StaysALine
<1>2. /\ Scrub!IsTree(m) /\ m.service = line.service /\ m.form = "compact" /\ m.tear = line.tear
      /\ \A p \in DOMAIN m.tree : \E i \in 1..n : p = <<i>> /\ m.tree[p] = fields[i] /\ m.tree[p].is = "text"
      /\ Scrub!Words(m) \subseteq {fields[i].word : i \in 1..n}
      /\ Scrub!Keys(m) \subseteq {fields[i].key : i \in 1..n}
      /\ \A k \in 1..n : Scrub!Value(m, <<fields[k].key>>) = fields[k].word
  BY <1>1, RebuiltIsTree
<1> HIDE DEF m
<1>3. IsRebuiltOf(m, fields, n)
  BY <1>2 DEF IsRebuiltOf
<1> QED BY <1>3 DEF m

\* An exception put after the fields of a flat line: the fields are as they were,
\* with an object that holds the class alone.
LEMMA ExceptionIsTree ==
  ASSUME NEW l, Scrub!IsTree(l), NEW place \in Nat, NEW class,
         \A p \in DOMAIN l.tree : \E i \in Nat : p = <<i>> /\ i # place /\ l.tree[p].is = "text"
  PROVE  LET m == Scrub!WithException(l, place, class) IN
    /\ Scrub!IsTree(m) /\ m.service = l.service /\ m.form = l.form /\ m.tear = l.tear
    /\ \A p \in DOMAIN m.tree : m.tree[p].is = "text" \/ m.tree[p].key = "exc"
    /\ Scrub!Words(m) \cap {"body", "free", "id"} \subseteq Scrub!Words(l)
    /\ Scrub!Keys(m) \subseteq Scrub!Keys(l) \cup {"exc", "class"}
    /\ Scrub!Value(m, <<"level">>) = Scrub!Value(l, <<"level">>)
<1> DEFINE m == Scrub!WithException(l, place, class)
           exc == <<place>>
           inner == <<place, 1>>
<1>1. CASE ~Scrub!Shaped(class)
  <2>1. m = l BY <1>1 DEF Scrub!WithException
  <2> QED BY <2>1
<1>2. CASE Scrub!Shaped(class)
  <2>1. /\ exc \in Seq(Nat) /\ exc # <<>> /\ ~(Len(exc) > 1)
        /\ inner \in Seq(Nat) /\ inner # <<>> /\ Len(inner) = 2
    OBVIOUS
  <2>2. Scrub!Front(inner) = exc
    <3>1. Scrub!Front(inner) = SubSeq(inner, 1, 1) BY <2>1 DEF Scrub!Front
    <3>2. SubSeq(inner, 1, 1) = exc
      <4>1. SubSeq(inner, 1, 1) \in Seq(Nat) /\ Len(SubSeq(inner, 1, 1)) = 1 /\ SubSeq(inner, 1, 1)[1] = inner[1]
        BY <2>1, SubSeqProperties
      <4>2. Len(SubSeq(inner, 1, 1)) = Len(exc) /\ \A k \in 1..Len(SubSeq(inner, 1, 1)) : SubSeq(inner, 1, 1)[k] = exc[k]
        BY <4>1
      <4> QED BY <2>1, <4>1, <4>2, SeqEqual
    <3> QED BY <3>1, <3>2
  <2>3. /\ DOMAIN m = DOMAIN l /\ m.service = l.service /\ m.form = l.form /\ m.tear = l.tear
        /\ m.tree = [p \in DOMAIN l.tree \cup {exc, inner} |->
                       IF p = exc THEN [key |-> "exc", is |-> "object", word |-> ""]
                       ELSE IF p = inner THEN Scrub!Text("class", class) ELSE l.tree[p]]
    BY <1>2 DEF Scrub!WithException, Scrub!IsTree
  <2>4. exc # inner /\ \A p \in DOMAIN l.tree : p # exc /\ p # inner
    <3>1. exc # inner BY <2>1
    <3>2. \A i \in Nat : i # place => <<i>> # exc /\ <<i>> # inner OBVIOUS
    <3> QED BY <3>1, <3>2
  <2> HIDE DEF m, exc, inner
  <2> DEFINE tree == m.tree
             leaves == DOMAIN l.tree
  <2>5. /\ DOMAIN tree = leaves \cup {exc, inner}
        /\ tree[exc].key = "exc" /\ tree[exc].is = "object" /\ DOMAIN tree[exc] = {"key", "is", "word"}
        /\ tree[exc].word \notin {"body", "free", "id"}
        /\ tree[inner].key = "class" /\ tree[inner].is = "text" /\ tree[inner].word = class
        /\ DOMAIN tree[inner] = {"key", "is", "word"}
        /\ \A p \in leaves : tree[p] = l.tree[p]
    <3>1. DOMAIN tree = leaves \cup {exc, inner} BY <2>3
    <3> DEFINE none == ""
    <3>0. none \notin {"body", "free", "id"} BY Zenon
    <3>2. tree[exc] = [key |-> "exc", is |-> "object", word |-> none] BY <2>3
    <3>3. tree[inner] = [key |-> "class", is |-> "text", word |-> class] BY <2>3, <2>4 DEF Scrub!Text
    <3>4. \A p \in leaves : tree[p] = l.tree[p] BY <2>3, <2>4
    <3> HIDE DEF tree, leaves, none
    <3> QED BY <3>0, <3>1, <3>2, <3>3, <3>4
  <2>6. \A p \in leaves : /\ p \in Seq(Nat) /\ p # <<>> /\ (Len(p) > 1 => Scrub!Front(p) \in leaves)
                             /\ DOMAIN l.tree[p] = {"key", "is", "word"} /\ l.tree[p].is = "text"
    BY DEF Scrub!IsTree
  <2> HIDE DEF tree, leaves
  <2>7. Scrub!IsTree(m)
    <3>1. ASSUME NEW p \in DOMAIN tree
          PROVE  /\ p \in Seq(Nat) /\ p # <<>> /\ (Len(p) > 1 => Scrub!Front(p) \in DOMAIN tree)
                 /\ DOMAIN tree[p] = {"key", "is", "word"} /\ tree[p].is \in {"text", "object", "list"}
      <4>1. CASE p = exc BY <2>1, <2>5, <4>1
      <4>2. CASE p = inner
        <5>1. Scrub!Front(p) \in DOMAIN tree BY <2>2, <2>5, <4>2
        <5> QED BY <2>1, <2>5, <4>2, <5>1
      <4>3. CASE p \in leaves BY <2>5, <2>6, <4>3
      <4> QED BY <2>5, <4>1, <4>2, <4>3
    <3> QED BY <2>3, <3>1 DEF Scrub!IsTree, tree
  <2>8. \A p \in DOMAIN tree : tree[p].is = "text" \/ tree[p].key = "exc"
    BY <2>5, <2>6
  <2>9. Scrub!Words(m) \cap {"body", "free", "id"} \subseteq Scrub!Words(l)
    <3>1. \A p \in DOMAIN tree : tree[p].word \in {"body", "free", "id"} => tree[p].word \in Scrub!Words(l)
      <4>1. class \notin {"body", "free", "id"} BY <1>2 DEF Scrub!Shaped
      <4>2. \A p \in leaves : l.tree[p].word \in Scrub!Words(l) BY DEF Scrub!Words, leaves
      <4> QED BY <2>5, <4>1, <4>2
    <3> QED BY <3>1 DEF Scrub!Words, tree
  <2>10. Scrub!Keys(m) \subseteq Scrub!Keys(l) \cup {"exc", "class"}
    <3>1. \A p \in DOMAIN tree : tree[p].key \in Scrub!Keys(l) \cup {"exc", "class"}
      <4>1. \A p \in leaves : l.tree[p].key \in Scrub!Keys(l) BY DEF Scrub!Keys, leaves
      <4> QED BY <2>5, <4>1
    <3> QED BY <3>1 DEF Scrub!Keys, tree
  <2>11. Scrub!Value(m, <<"level">>) = Scrub!Value(l, <<"level">>)
    <3>1. ASSUME NEW p \in leaves PROVE Scrub!KeysTo(m, p) = Scrub!KeysTo(l, p)
      <4>1. PICK i \in Nat : p = <<i>> BY DEF leaves
      <4>2. DOMAIN p = 1..1 /\ \A j \in 1..1 : SubSeq(p, 1, j) = p BY <4>1, OneLong
      <4>3. \A j \in DOMAIN p : m.tree[SubSeq(p, 1, j)].key = l.tree[SubSeq(p, 1, j)].key BY <2>5, <4>2 DEF tree
      <4> QED BY <4>3 DEF Scrub!KeysTo
    <3>2. Scrub!KeysTo(m, exc) # <<"level">> /\ Scrub!KeysTo(m, inner) # <<"level">>
      <4>1. DOMAIN exc = 1..1 /\ SubSeq(exc, 1, 1) = exc BY OneLong DEF exc
      <4>2. DOMAIN inner = 1..2 BY DEF inner
      <4>3. Scrub!KeysTo(m, exc)[1] = "exc"
        <5>1. m.tree[SubSeq(exc, 1, 1)].key = "exc" BY <2>5, <4>1 DEF tree
        <5>2. 1 \in DOMAIN exc BY <4>1
        <5> QED BY <5>1, <5>2 DEF Scrub!KeysTo
      <4>4. DOMAIN Scrub!KeysTo(m, inner) = 1..2 BY <4>2 DEF Scrub!KeysTo
      <4>5. <<"level">>[1] = "level" /\ DOMAIN <<"level">> = 1..1 OBVIOUS
      <4>6. 1..1 # 1..2 OBVIOUS
      <4> QED BY <4>3, <4>4, <4>5, <4>6
    <3> DEFINE here == {p \in DOMAIN m.tree : Scrub!KeysTo(m, p) = <<"level">>}
               there == {p \in DOMAIN l.tree : Scrub!KeysTo(l, p) = <<"level">>}
    <3>3. here = there
      BY <2>5, <3>1, <3>2 DEF tree, leaves
    <3>4. there # {} => (CHOOSE p \in there : TRUE) \in DOMAIN l.tree /\ (CHOOSE p \in here : TRUE) = (CHOOSE p \in there : TRUE)
      BY <3>3
    <3>5. Scrub!IsJson(m) <=> Scrub!IsJson(l) BY <2>3 DEF Scrub!IsJson
    <3>6. \A p \in DOMAIN l.tree : m.tree[p] = l.tree[p] BY <2>5 DEF tree, leaves
    <3> HIDE DEF here, there
    <3>7. Scrub!Value(m, <<"level">>) =
            (IF ~Scrub!IsJson(m) \/ here = {} THEN ""
             ELSE IF m.tree[CHOOSE p \in here : TRUE].is = "text" THEN m.tree[CHOOSE p \in here : TRUE].word ELSE "free")
      BY DEF Scrub!Value, here
    <3>8. Scrub!Value(l, <<"level">>) =
            (IF ~Scrub!IsJson(l) \/ there = {} THEN ""
             ELSE IF l.tree[CHOOSE p \in there : TRUE].is = "text" THEN l.tree[CHOOSE p \in there : TRUE].word ELSE "free")
      BY DEF Scrub!Value, there
    <3> QED BY <3>3, <3>4, <3>5, <3>6, <3>7, <3>8
  <2> QED BY <2>3, <2>7, <2>8, <2>9, <2>10, <2>11 DEF m, tree
<1> QED BY <1>1, <1>2

\* A line rebuilt, and what it has of the line it is rebuilt of.
LEMMA RewriteKeeps ==
  ASSUME ScrubInv, fate = "open", stage \in {4, 5}, Scrub!IsRebuilt(first), line = first,
         NEW m, Scrub!IsTree(m), m.service = line.service, m.form = "compact", m.tear = line.tear, Scrub!IsJson(line),
         "body" \notin Scrub!Words(m),
         Scrub!Value(line, <<"level">>) = "debug" => Scrub!Value(m, <<"level">>) = "debug",
         stage = 4 => first.service = "web",
         stage = 5 => OfTheContract(m),
         Scrub!Rewrite(m)
  PROVE  ScrubInv'
<1>1. line' = m /\ Scrub!Go /\ UNCHANGED <<read, meta>>
  BY DEF Scrub!Rewrite
<1>2. stage' = stage + 1 /\ first' = first /\ fate' = "open" /\ ~NothingToDrop(first)
  BY <1>1, KeptHasNone DEF Scrub!Go
<1>3. StaysALine'
  BY <1>1, <1>2 DEF ScrubInv, StaysALine
<1>4. CutSoFar'
  BY <1>1, <1>2 DEF CutSoFar
<1>5. VelocityIsShut'
  BY <1>1, <1>2 DEF VelocityIsShut
<1>6. DebugIsSeen'
  <2>1. SaysDebug(first) => Scrub!Value(first, <<"level">>) = "debug"
    BY DEF SaysDebug
  <2>2. SaysDebug(first) => SaysDebug(m)
    BY <2>1 DEF SaysDebug
  <2> QED BY <1>1, <1>2, <2>2 DEF DebugIsSeen
<1>7. ClassIsRead'
  BY <1>2 DEF ClassIsRead, GivesClass
<1>8. RestStays'
  BY <1>2 DEF RestStays
<1> QED BY <1>3, <1>4, <1>5, <1>6, <1>7, <1>8 DEF ScrubInv

\* rebuilding a line of Caddy's,
LEMMA CaddyKeeps == ScrubInv /\ Scrub!Caddy => ScrubInv'
<1> SUFFICES ASSUME ScrubInv, Scrub!Caddy PROVE ScrubInv'
  OBVIOUS
<1> DEFINE keys == <<"level", "logger", "msg", "path", "status">>
           fields == [i \in DOMAIN keys |-> Scrub!Text(keys[i], Scrub!CaddyKept(keys[i]))]
<1>1. stage = 4 /\ fate = "open" /\ line = first /\ "body" \notin Scrub!Words(line)
  BY StageOf DEF Scrub!Caddy, Scrub!At, ScrubInv, StaysALine, CutSoFar
<1>2. CASE line.service # "web" /\ Scrub!Go /\ UNCHANGED <<line, read, meta>>
  BY <1>1, <1>2, GoKeeps
<1>3. CASE line.service = "web" /\ Scrub!Drop
  <2>1. ~NothingToDrop(first) BY <1>1, <1>3, KeptHasNone
  <2> QED BY <1>1, <1>3, <2>1, DropKeeps
<1>4. CASE line.service = "web" /\ Scrub!IsJson(line) /\ Scrub!Rewrite(Scrub!Rebuilt(line, fields))
  <2>1. \A key : Scrub!CaddyKept(key) # "body" /\ (key # "path" => Scrub!CaddyKept(key) = Scrub!Value(line, <<key>>))
    BY <1>1, ValueIsSaid DEF Scrub!CaddyKept
  <2>2. /\ DOMAIN fields = 1..5
        /\ \A i \in 1..5 : fields[i].key = keys[i] /\ fields[i].word = Scrub!CaddyKept(keys[i])
                            /\ fields[i] = Scrub!Text(fields[i].key, fields[i].word)
    BY DEF Scrub!Text
  <2> HIDE DEF fields
  <2>3. \A i, j \in 1..5 : fields[i].key = fields[j].key => i = j
    BY <2>2
  <2>4. fields[1].key = "level" /\ fields[1].word = Scrub!Value(line, <<"level">>)
    BY <2>1, <2>2
  <2>5. \A i \in 1..5 : fields[i].word # "body"
    BY <2>1, <2>2
  <2>6. Scrub!IsRebuilt(first)
    BY <1>1, <1>4 DEF Scrub!IsRebuilt
  <2>7. \E k \in 1..5 : fields[k].key = "level" /\ (Scrub!Value(line, <<"level">>) = "debug" => fields[k].word = "debug")
    BY <2>4
  <2>8. 5 \in Nat /\ DOMAIN fields = 1..5 /\ \A i \in 1..5 : fields[i] = Scrub!Text(fields[i].key, fields[i].word)
    BY <2>2
  <2>9. stage \in {4, 5} /\ stage # 5 /\ first.service = "web" /\ Scrub!IsTree(line)
    BY <1>1, <1>4 DEF ScrubInv, StaysALine
  <2> DEFINE m == Scrub!Rebuilt(line, fields)
  <2>10. Scrub!Rewrite(m) /\ m = Scrub!Rebuilt(line, fields) BY <1>4
  <2>11. IsRebuiltOf(Scrub!Rebuilt(line, fields), fields, 5)
    BY <1>4, <2>3, <2>8, LineIsRebuilt
  <2>12. IsRebuiltOf(m, fields, 5)
    BY <2>11
  <2> HIDE DEF m
  <2>13. /\ Scrub!IsTree(m) /\ m.service = line.service /\ m.form = "compact" /\ m.tear = line.tear
         /\ Scrub!Words(m) \subseteq {fields[i].word : i \in 1..5}
         /\ \A k \in 1..5 : Scrub!Value(m, <<fields[k].key>>) = fields[k].word
    BY <2>12 DEF IsRebuiltOf
  <2>14. "body" \notin Scrub!Words(m) /\ (Scrub!Value(line, <<"level">>) = "debug" => Scrub!Value(m, <<"level">>) = "debug")
    BY <2>5, <2>7, <2>13
  <2> QED BY <1>1, <1>4, <2>6, <2>9, <2>13, <2>14, <2>10, RewriteKeeps
<1> QED BY <1>2, <1>3, <1>4 DEF Scrub!Caddy, Scrub!DropIf

\* rebuilding one of the velocity service's,
LEMMA VelocityKeeps == ScrubInv /\ Scrub!Velocity => ScrubInv'
<1> SUFFICES ASSUME ScrubInv, Scrub!Velocity PROVE ScrubInv'
  OBVIOUS
<1> DEFINE keys == <<"code", "level", "message", "op", "request_id", "role">>
           fields == [i \in DOMAIN keys |-> Scrub!Text(keys[i], Scrub!VelocityKept(keys[i]))]
<1>1. stage = 5 /\ fate = "open" /\ "body" \notin Scrub!Words(line) /\ line.service = first.service
  BY StageOf DEF Scrub!Velocity, Scrub!At, ScrubInv, StaysALine, CutSoFar
<1>2. Scrub!VelocityLine(line) <=> Scrub!VelocityLine(first)
  BY <1>1 DEF ScrubInv, StaysALine, Scrub!VelocityLine
<1>3. CASE ~Scrub!VelocityLine(line) /\ Scrub!Go /\ UNCHANGED <<line, read, meta>>
  BY <1>1, <1>2, <1>3, GoKeeps
<1>4. CASE Scrub!VelocityLine(line) /\ Scrub!Drop
  <2>1. ~NothingToDrop(first) BY <1>2, <1>4, KeptHasNone
  <2> QED BY <1>1, <1>4, <2>1, DropKeeps
<1>5. CASE /\ Scrub!VelocityLine(line) /\ Scrub!IsJson(line)
           /\ Scrub!Rewrite(Scrub!WithException(Scrub!Rebuilt(line, fields), 7, Scrub!Value(line, <<"exc", "class">>)))
  <2>1. \A key : /\ Scrub!VelocityKept(key) \notin {"body", "free", "id"}
                 /\ key = "level" /\ Scrub!Value(line, <<key>>) = "debug" => Scrub!VelocityKept(key) = "debug"
    BY DEF Scrub!VelocityKept, Scrub!Shaped
  <2>2. /\ DOMAIN fields = 1..6
        /\ \A i \in 1..6 : fields[i].key = keys[i] /\ fields[i].word = Scrub!VelocityKept(keys[i])
                            /\ fields[i] = Scrub!Text(fields[i].key, fields[i].word)
    BY DEF Scrub!Text
  <2> HIDE DEF fields
  <2>3. \A i, j \in 1..6 : fields[i].key = fields[j].key => i = j
    BY <2>2
  <2>4. fields[2].key = "level" /\ (Scrub!Value(line, <<"level">>) = "debug" => fields[2].word = "debug")
    BY <2>1, <2>2
  <2>5. \A i \in 1..6 : fields[i].word \notin {"body", "free", "id"} /\ fields[i].key \in {"code", "level", "message", "op", "request_id", "role"}
    <3>1. \A i \in 1..6 : keys[i] \in {"code", "level", "message", "op", "request_id", "role"}
      OBVIOUS
    <3> HIDE DEF keys
    <3> QED BY <2>1, <2>2, <3>1
  <2>6. Scrub!IsRebuilt(first) /\ line = first
    BY <1>1, <1>2, <1>5 DEF Scrub!IsRebuilt, Scrub!VelocityLine, ScrubInv, StaysALine
  <2>7. \E k \in 1..6 : fields[k].key = "level" /\ (Scrub!Value(line, <<"level">>) = "debug" => fields[k].word = "debug")
    BY <2>4
  <2>8. 6 \in Nat /\ DOMAIN fields = 1..6 /\ \A i \in 1..6 : fields[i] = Scrub!Text(fields[i].key, fields[i].word)
    BY <2>2
  <2>9. stage \in {4, 5} /\ stage # 4 /\ Scrub!IsTree(line)
    BY <1>1 DEF ScrubInv, StaysALine
  <2> DEFINE flat == Scrub!Rebuilt(line, fields)
  <2>10. IsRebuiltOf(Scrub!Rebuilt(line, fields), fields, 6)
    BY <1>5, <2>3, <2>8, LineIsRebuilt
  <2>11. IsRebuiltOf(flat, fields, 6)
    BY <2>10
  <2> DEFINE m == Scrub!WithException(flat, 7, Scrub!Value(line, <<"exc", "class">>))
  <2>12. Scrub!Rewrite(m) BY <1>5
  <2> HIDE DEF flat
  <2>13. /\ Scrub!IsTree(flat) /\ flat.service = line.service /\ flat.form = "compact" /\ flat.tear = line.tear
         /\ \A p \in DOMAIN flat.tree : \E i \in 1..6 : p = <<i>> /\ flat.tree[p] = fields[i] /\ flat.tree[p].is = "text"
         /\ Scrub!Words(flat) \subseteq {fields[i].word : i \in 1..6}
         /\ Scrub!Keys(flat) \subseteq {fields[i].key : i \in 1..6}
         /\ \A k \in 1..6 : Scrub!Value(flat, <<fields[k].key>>) = fields[k].word
    BY <2>11 DEF IsRebuiltOf
  <2>14. \A p \in DOMAIN flat.tree : \E i \in Nat : p = <<i>> /\ i # 7 /\ flat.tree[p].is = "text"
    BY <2>13
  <2>15. /\ Scrub!IsTree(m) /\ m.service = flat.service /\ m.form = flat.form /\ m.tear = flat.tear
         /\ \A p \in DOMAIN m.tree : m.tree[p].is = "text" \/ m.tree[p].key = "exc"
         /\ Scrub!Words(m) \cap {"body", "free", "id"} \subseteq Scrub!Words(flat)
         /\ Scrub!Keys(m) \subseteq Scrub!Keys(flat) \cup {"exc", "class"}
         /\ Scrub!Value(m, <<"level">>) = Scrub!Value(flat, <<"level">>)
    BY <2>13, <2>14, ExceptionIsTree
  <2> HIDE DEF m
  <2>16. /\ Scrub!Words(m) \cap {"body", "free", "id"} = {}
         /\ Scrub!Keys(m) \subseteq {"class", "code", "exc", "level", "message", "op", "request_id", "role"}
    BY <2>5, <2>13, <2>15
  <2>17. OfTheContract(m) /\ "body" \notin Scrub!Words(m)
    BY <1>5, <2>13, <2>15, <2>16 DEF OfTheContract, Scrub!Compact, Scrub!IsJson
  <2>18. Scrub!Value(line, <<"level">>) = "debug" => Scrub!Value(m, <<"level">>) = "debug"
    BY <2>7, <2>13, <2>15
  <2> QED BY <1>1, <1>5, <2>6, <2>9, <2>13, <2>12, <2>15, <2>17, <2>18, RewriteKeeps
<1> QED BY <1>3, <1>4, <1>5 DEF Scrub!Velocity, Scrub!DropIf

\* What is read of a line is what it says.
LEMMA ReadKeeps == ScrubInv /\ Scrub!Read => ScrubInv'
<1> SUFFICES ASSUME ScrubInv, Scrub!Read PROVE ScrubInv'
  OBVIOUS
<1>1. stage = 6 /\ fate = "open"
  BY StageOf DEF Scrub!Read, Scrub!At, ScrubInv, StaysALine
<1>2. stage' = 7 /\ first' = first /\ fate' = "open" /\ line' = line /\ meta' = meta
  BY <1>1 DEF Scrub!Read, Scrub!Go
<1>3. /\ read'.level = Scrub!Either(Scrub!Value(line, <<"level">>), Scrub!Value(line, <<"severity">>))
      /\ read'.logger = Scrub!Value(line, <<"logger">>)
      /\ read'.msg = Scrub!Either(Scrub!Value(line, <<"message">>), Scrub!Value(line, <<"msg">>))
      /\ read'.class = Scrub!Value(line, <<"exc", "class">>)
      /\ read'.error = Scrub!Value(line, <<"error">>)
  BY DEF Scrub!Read
<1>4. StaysALine' BY <1>1, <1>2 DEF ScrubInv, StaysALine
<1>5. CutSoFar' BY <1>1, <1>2 DEF ScrubInv, CutSoFar
<1>6. VelocityIsShut' BY <1>1, <1>2 DEF ScrubInv, VelocityIsShut
<1>7. DebugIsSeen'
  <2>1. SaysDebug(first) => read'.level = "debug"
    <3>1. SaysDebug(first) => SaysDebug(line)
      <4>1. DebugIsSeen BY DEF ScrubInv
      <4> QED BY <1>1, <4>1 DEF DebugIsSeen
    <3> QED BY <1>3, <3>1 DEF SaysDebug, Scrub!Either
  <2> QED BY <1>2, <2>1 DEF DebugIsSeen
<1>8. ClassIsRead'
  <2>1. GivesClass(first) => line = first
    <3>1. StaysALine BY DEF ScrubInv
    <3>2. GivesClass(first) => ~Scrub!IsRebuilt(first) BY DEF GivesClass
    <3> QED BY <1>1, <3>1, <3>2 DEF StaysALine
  <2>2. GivesClass(first) => read'.class = "" /\ read'.error = "classed"
    BY <2>1, <1>3 DEF GivesClass
  <2>3. ClassIsRead BY DEF ScrubInv
  <2>4. \A p \in DOMAIN line.tree : ~Scrub!IsRebuilt(first) => (line.tree[p].word = "classed" => line.tree[p].key = "error")
    BY <2>3 DEF ClassIsRead
  <2>5. stage' = 7 /\ ~(stage' > 7) /\ first' = first /\ line' = line
    BY <1>2
  <2> QED BY <2>2, <2>4, <2>5 DEF ClassIsRead
<1>9. RestStays'
  <2>1. NothingToDrop(first) => line = first
    BY <1>1, KeptHasNone DEF ScrubInv, StaysALine
  <2>2. NothingToDrop(first) => \A keys : Scrub!Value(line, keys) \notin {"body", "cookie", "debug", "httpx", "request"}
    BY <2>1, KeptHasNone, ValueIsSaid
  <2>3. NothingToDrop(first) => read'.level # "debug" /\ read'.logger # "httpx" /\ read'.msg # "request"
    BY <2>2, <1>3 DEF Scrub!Either
  <2>4. RestStays BY DEF ScrubInv
  <2> QED BY <1>2, <2>3, <2>4 DEF RestStays
<1> QED BY <1>4, <1>5, <1>6, <1>7, <1>8, <1>9 DEF ScrubInv

\* what is kept as metadata,
LEMMA MetadataKeeps == ScrubInv /\ Scrub!Metadata => ScrubInv'
<1> SUFFICES ASSUME ScrubInv, Scrub!Metadata PROVE ScrubInv'
  OBVIOUS
<1>1. stage = 7 /\ fate = "open"
  BY StageOf DEF Scrub!Metadata, Scrub!At, ScrubInv, StaysALine
<1>2. stage' = 8 /\ first' = first /\ fate' = "open" /\ line' = line /\ read' = read
  <2>1. Scrub!Go /\ UNCHANGED <<line, read>> BY DEF Scrub!Metadata
  <2> QED BY <1>1, <2>1 DEF Scrub!Go
<1>3. /\ meta'.level = IF read.level \in {"debug", "error"} THEN read.level ELSE ""
      /\ meta'.exc_class = Scrub!ExcClass
  BY DEF Scrub!Metadata
<1>4. StaysALine' BY <1>1, <1>2 DEF ScrubInv, StaysALine
<1>5. CutSoFar' BY <1>1, <1>2 DEF ScrubInv, CutSoFar
<1>6. VelocityIsShut' BY <1>1, <1>2 DEF ScrubInv, VelocityIsShut
<1>7. DebugIsSeen'
  <2>1. SaysDebug(first) => meta'.level = "debug"
    BY <1>1, <1>3 DEF ScrubInv, DebugIsSeen
  <2> QED BY <1>2, <2>1 DEF DebugIsSeen
<1>8. ClassIsRead'
  <2>1. GivesClass(first) => meta'.exc_class = "class"
    BY <1>1, <1>3 DEF ScrubInv, ClassIsRead, Scrub!ExcClass
  <2>2. ClassIsRead BY DEF ScrubInv
  <2>3. \A p \in DOMAIN line.tree : ~Scrub!IsRebuilt(first) => (line.tree[p].word = "classed" => line.tree[p].key = "error")
    BY <2>2 DEF ClassIsRead
  <2> QED BY <1>2, <2>1, <2>3 DEF ClassIsRead
<1>9. RestStays'
  <2>1. NothingToDrop(first) => meta'.level # "debug"
    BY <1>1, <1>3 DEF ScrubInv, RestStays
  <2> QED BY <1>1, <1>2, <2>1 DEF RestStays, ScrubInv
<1> QED BY <1>4, <1>5, <1>6, <1>7, <1>8, <1>9 DEF ScrubInv

\* and dropping what was read to be noise.
LEMMA DropsKeeps == ScrubInv /\ Scrub!Drops => ScrubInv'
<1> SUFFICES ASSUME ScrubInv, Scrub!Drops PROVE ScrubInv'
  OBVIOUS
<1>1. stage = 8 /\ fate = "open"
  BY StageOf DEF Scrub!Drops, Scrub!At, ScrubInv, StaysALine
<1>2. CASE Scrub!Drop /\ (meta.level = "debug" \/ read.logger = "httpx" \/ read.msg = "request")
  <2>1. ~NothingToDrop(first) BY <1>1, <1>2 DEF ScrubInv, RestStays
  <2> QED BY <1>1, <1>2, <2>1, DropKeeps
<1>3. CASE meta.level # "debug" /\ Scrub!Go /\ UNCHANGED <<line, read, meta>>
  BY <1>1, <1>3, GoKeeps
<1> QED BY <1>2, <1>3 DEF Scrub!Drops, Scrub!DropIf

\* A line that is shipped is as it was.
LEMMA ShipKeeps == ScrubInv /\ Scrub!Ship => ScrubInv'
<1> SUFFICES ASSUME ScrubInv, Scrub!Ship PROVE ScrubInv'
  OBVIOUS
<1>1. stage = 14 /\ fate = "open"
  BY StageOf DEF Scrub!Ship, Scrub!At, ScrubInv, StaysALine
<1>2. fate' = "shipped" /\ UNCHANGED <<stage, first, line, read, meta>>
  BY DEF Scrub!Ship
<1>3. StaysALine' BY <1>1, <1>2 DEF ScrubInv, StaysALine
<1>4. CutSoFar' BY <1>1, <1>2 DEF ScrubInv, CutSoFar
<1>5. VelocityIsShut' BY <1>1, <1>2 DEF ScrubInv, VelocityIsShut
<1>6. DebugIsSeen' BY <1>1, <1>2 DEF ScrubInv, DebugIsSeen
<1>7. ClassIsRead' BY <1>1, <1>2 DEF ScrubInv, ClassIsRead
<1>8. RestStays' BY <1>1, <1>2 DEF ScrubInv, RestStays
<1> QED BY <1>3, <1>4, <1>5, <1>6, <1>7, <1>8 DEF ScrubInv

\* The paths of a listed field's line: the cut ones and those in them are gone.
LEMMA CutKeeps ==
  ASSUME ScrubInv, fate = "open", stage \in {9, 10}, NEW cut \in SUBSET DOMAIN line.tree,
         Scrub!Rewrite(Scrub!Without(line, cut))
  PROVE  StaysALine' /\ CutSoFar' /\ VelocityIsShut' /\ DebugIsSeen' /\ ClassIsRead'
<1> DEFINE m == Scrub!Without(line, cut)
<1>1. /\ Scrub!IsTree(m) /\ m.service = line.service /\ m.form = line.form /\ m.tear = line.tear
      /\ DOMAIN m.tree \subseteq DOMAIN line.tree
      /\ \A q \in DOMAIN m.tree : m.tree[q] = line.tree[q]
      /\ Scrub!Words(m) \subseteq Scrub!Words(line) /\ Scrub!Keys(m) \subseteq Scrub!Keys(line)
  <2>1. Scrub!IsTree(line) BY DEF ScrubInv, StaysALine
  <2> QED BY <2>1, CutIsTree
<1>2. line' = m /\ Scrub!Go /\ UNCHANGED <<read, meta>>
  BY DEF Scrub!Rewrite
<1> HIDE DEF m
<1>3. stage' = stage + 1 /\ stage' \in {10, 11} /\ stage > 8 /\ first' = first /\ fate' = "open"
  BY <1>2 DEF Scrub!Go
<1>4. StaysALine'
  BY <1>1, <1>2, <1>3 DEF ScrubInv, StaysALine
<1>5. CutSoFar'
  BY <1>1, <1>2, <1>3 DEF ScrubInv, CutSoFar
<1>6. VelocityIsShut'
  <2>1. OfTheContract(line) => OfTheContract(m)
    BY <1>1 DEF OfTheContract, Scrub!Compact, Scrub!IsJson
  <2> QED BY <1>2, <1>3, <2>1 DEF ScrubInv, VelocityIsShut
<1>7. DebugIsSeen'
  BY <1>2, <1>3 DEF ScrubInv, DebugIsSeen
<1>8. ClassIsRead'
  <2>1. ClassIsRead BY DEF ScrubInv
  <2>2. \A p \in DOMAIN m.tree : ~Scrub!IsRebuilt(first) => (m.tree[p].word = "classed" => m.tree[p].key = "error")
    BY <1>1, <2>1 DEF ClassIsRead
  <2>3. GivesClass(first) => meta'.exc_class = "class"
    <3>1. stage > 7
      OBVIOUS
    <3> QED BY <1>2, <2>1, <3>1 DEF ClassIsRead
  <2>4. stage' # 7
    BY <1>3
  <2> QED BY <1>2, <1>3, <2>2, <2>3, <2>4 DEF ClassIsRead
<1> QED BY <1>4, <1>5, <1>6, <1>7, <1>8

\* A word put for another, everywhere.
LEMMA PutKeeps ==
  ASSUME ScrubInv, fate = "open", stage \in {11, 12}, NEW old, NEW new, old # new,
         stage = 11 => old = "row" /\ new = "row=:id", stage = 12 => old = "query" /\ new = "ok",
         Scrub!Rewrite(Scrub!Replaced(line, old, new))
  PROVE  ScrubInv'
<1> DEFINE m == Scrub!Replaced(line, old, new)
<1>1. /\ Scrub!IsTree(m) /\ m.service = line.service /\ m.form = line.form /\ m.tear = line.tear
      /\ DOMAIN m.tree = DOMAIN line.tree
      /\ \A q \in DOMAIN line.tree :
           /\ m.tree[q].key = line.tree[q].key /\ m.tree[q].is = line.tree[q].is
           /\ m.tree[q].word \in {line.tree[q].word, new}
      /\ Scrub!Words(m) \subseteq (Scrub!Words(line) \ {old}) \cup {new} /\ Scrub!Keys(m) = Scrub!Keys(line)
  <2>1. Scrub!IsTree(line) BY DEF ScrubInv, StaysALine
  <2> QED BY <2>1, PutIsTree
<1>2. line' = m /\ Scrub!Go /\ UNCHANGED <<read, meta>>
  BY DEF Scrub!Rewrite
<1> HIDE DEF m
<1>3. stage' = stage + 1 /\ stage' \in {12, 13} /\ first' = first /\ fate' = "open"
  BY <1>2 DEF Scrub!Go
<1>4. new \notin {"body", "row", "query", "cookie", "free", "id", "classed"}
  OBVIOUS
<1>5. StaysALine'
  BY <1>1, <1>2, <1>3 DEF ScrubInv, StaysALine
<1>6. CutSoFar'
  BY <1>1, <1>2, <1>3, <1>4 DEF ScrubInv, CutSoFar
<1>7. VelocityIsShut'
  <2>1. OfTheContract(line) => OfTheContract(m)
    BY <1>1, <1>4 DEF OfTheContract, Scrub!Compact, Scrub!IsJson
  <2> QED BY <1>2, <1>3, <2>1 DEF ScrubInv, VelocityIsShut
<1>8. DebugIsSeen'
  BY <1>2, <1>3 DEF ScrubInv, DebugIsSeen
<1>9. ClassIsRead'
  <2>1. ClassIsRead BY DEF ScrubInv
  <2>2. \A p \in DOMAIN m.tree : ~Scrub!IsRebuilt(first) => (m.tree[p].word = "classed" => m.tree[p].key = "error")
    BY <1>1, <1>4, <2>1 DEF ClassIsRead
  <2>3. GivesClass(first) => meta'.exc_class = "class"
    <3>1. stage > 7
      OBVIOUS
    <3> QED BY <1>2, <2>1, <3>1 DEF ClassIsRead
  <2>4. stage' # 7
    BY <1>3
  <2> QED BY <1>2, <1>3, <2>2, <2>3, <2>4 DEF ClassIsRead
<1>10. RestStays'
  <2>1. RestStays /\ stage' # 7 /\ stage' # 8 /\ stage' # 10 /\ stage > 10
    BY <1>3 DEF ScrubInv
  <2>2. NothingToDrop(first) => "cookie" \notin Scrub!Words(m)
    BY <1>1, <1>4, <2>1 DEF RestStays
  <2>3. NothingToDrop(first) => /\ DOMAIN m.tree = DOMAIN Scrub!Without(first, Scrub!Listed(first)).tree
                       /\ \A p \in DOMAIN m.tree : m.tree[p].key = first.tree[p].key
    BY <1>1, <2>1 DEF RestStays
  <2> QED BY <1>2, <1>3, <2>1, <2>2, <2>3 DEF RestStays
<1> QED BY <1>5, <1>6, <1>7, <1>8, <1>9, <1>10 DEF ScrubInv

\* Cutting rows keeps the invariant,
LEMMA RowsKeeps == ScrubInv /\ Scrub!CutRows => ScrubInv'
<1> SUFFICES ASSUME ScrubInv, Scrub!CutRows PROVE ScrubInv'
  OBVIOUS
<1>1. stage = 11 /\ fate = "open"
  BY StageOf DEF Scrub!CutRows, Scrub!At, ScrubInv, StaysALine
<1>2. Scrub!Rewrite(Scrub!Replaced(line, "row", "row=:id"))
  BY DEF Scrub!CutRows
<1> QED BY <1>1, <1>2, PutKeeps

\* and cutting queries.
LEMMA QueriesKeeps == ScrubInv /\ Scrub!CutQueries => ScrubInv'
<1> SUFFICES ASSUME ScrubInv, Scrub!CutQueries PROVE ScrubInv'
  OBVIOUS
<1>1. stage = 12 /\ fate = "open"
  BY StageOf DEF Scrub!CutQueries, Scrub!At, ScrubInv, StaysALine
<1>2. Scrub!Rewrite(Scrub!Replaced(line, "query", "ok"))
  BY DEF Scrub!CutQueries
<1> QED BY <1>1, <1>2, PutKeeps

\* A line whose listed fields are cut and whose queries are replaced is not stopped.
LEMMA FailClosedKeeps == ScrubInv /\ Scrub!FailClosed => ScrubInv'
<1> SUFFICES ASSUME ScrubInv, Scrub!FailClosed PROVE ScrubInv'
  OBVIOUS
<1>1. stage = 13 /\ fate = "open" /\ "query" \notin Scrub!Words(line)
  BY StageOf DEF Scrub!FailClosed, Scrub!At, ScrubInv, StaysALine, CutSoFar
<1>2. CASE Scrub!Drop /\ Scrub!StillThere(line)
  <2>1. ASSUME NothingToDrop(first) PROVE FALSE
    <3>1. /\ "cookie" \notin Scrub!Words(line)
          /\ DOMAIN line.tree = DOMAIN Scrub!Without(first, Scrub!Listed(first)).tree
          /\ \A p \in DOMAIN line.tree : line.tree[p].key = first.tree[p].key
      BY <1>1, <2>1 DEF ScrubInv, RestStays
    <3>2. Scrub!IsTree(first) /\ Scrub!Listed(first) \in SUBSET DOMAIN first.tree
      BY LinesAssumption DEF Scrub!IsLine, ScrubInv, StaysALine, Scrub!Listed
    <3>3. \A p \in DOMAIN line.tree : p \in DOMAIN first.tree /\ p \notin Scrub!Listed(first)
      <4>1. \A p \in DOMAIN line.tree : p \in DOMAIN first.tree /\ \A q \in Scrub!Listed(first) : ~Scrub!IsPrefix(q, p)
        BY <3>1, <3>2, CutIsTree
      <4>2. \A p \in DOMAIN first.tree : Scrub!IsPrefix(p, p)
        BY <3>2 DEF Scrub!IsTree, Scrub!IsPrefix
      <4> QED BY <4>1, <4>2
    <3>4. Scrub!Keys(line) \cap Scrub!Ids = {}
      BY <3>1, <3>3 DEF Scrub!Keys, Scrub!Listed
    <3>5. Scrub!Keys(line) \cap Scrub!Headers = {}
      BY <2>1, <3>1, <3>3, KeptHasNone DEF Scrub!Keys
    <3> QED BY <1>1, <1>2, <3>1, <3>4, <3>5 DEF Scrub!StillThere
  <2> QED BY <1>1, <1>2, <2>1, DropKeeps
<1>3. CASE ~Scrub!StillThere(line) /\ Scrub!Go /\ UNCHANGED <<line, read, meta>>
  BY <1>1, <1>3, GoKeeps
<1> QED BY <1>2, <1>3 DEF Scrub!FailClosed, Scrub!DropIf

\* A prefix of a prefix is one.
LEMMA PrefixOfPrefix ==
  ASSUME NEW p \in Seq(Nat), NEW q \in Seq(Nat), NEW r \in Seq(Nat), Scrub!IsPrefix(p, q), Scrub!IsPrefix(q, r)
  PROVE  Scrub!IsPrefix(p, r)
BY DEF Scrub!IsPrefix

\* The first cut leaves of a line what the second is to find.
LEMMA LaterKeeps == ScrubInv /\ Scrub!CutLaterFields => ScrubInv'
<1> SUFFICES ASSUME ScrubInv, Scrub!CutLaterFields PROVE ScrubInv'
  OBVIOUS
<1> DEFINE cut == Scrub!LaterFields(line)
<1>1. stage = 9 /\ fate = "open"
  BY StageOf DEF Scrub!CutLaterFields, Scrub!At, ScrubInv, StaysALine
<1>2. cut \in SUBSET DOMAIN line.tree
  BY DEF Scrub!LaterFields
<1>3. Scrub!Rewrite(Scrub!Without(line, cut))
  BY DEF Scrub!CutLaterFields
<1>4. StaysALine' /\ CutSoFar' /\ VelocityIsShut' /\ DebugIsSeen' /\ ClassIsRead'
  BY <1>1, <1>2, <1>3, CutKeeps
<1>5. RestStays'
  <2>1. stage' = 10 /\ first' = first /\ fate' = "open" /\ line' = Scrub!Without(line, cut)
    BY <1>1, <1>3 DEF Scrub!Rewrite, Scrub!Go
  <2>2. NothingToDrop(first) => line = first
    BY <1>1, KeptHasNone DEF ScrubInv, StaysALine
  <2>3. Scrub!Words(line') \subseteq Scrub!Words(line)
    <3>1. Scrub!IsTree(line) BY DEF ScrubInv, StaysALine
    <3> QED BY <1>2, <2>1, <3>1, CutIsTree
  <2>4. NothingToDrop(first) => "cookie" \notin Scrub!Words(line)
    BY DEF ScrubInv, RestStays
  <2> QED BY <2>1, <2>2, <2>3, <2>4 DEF RestStays
<1> QED BY <1>4, <1>5 DEF ScrubInv

\* Where no listed field holds its like, the two cuts take all of them: what the
\* first leaves opens an object still and is matched by the second.
LEMMA TwoCuts ==
  ASSUME NEW l, Scrub!IsTree(l), l.form = "compact", Scrub!IsJson(l),
         \A p \in Scrub!Listed(l) : ~Scrub!HoldsItsLike(l, p)
  PROVE  LET m == Scrub!Without(l, Scrub!LaterFields(l)) IN
           DOMAIN Scrub!Without(m, Scrub!FirstFields(m)).tree = DOMAIN Scrub!Without(l, Scrub!Listed(l)).tree
<1> DEFINE listed == Scrub!Listed(l)
           later == Scrub!LaterFields(l)
           m == Scrub!Without(l, later)
           firsts == Scrub!FirstFields(m)
<1>1. listed \in SUBSET DOMAIN l.tree /\ later \in SUBSET listed /\ firsts \in SUBSET DOMAIN m.tree
  BY DEF Scrub!Listed, Scrub!LaterFields, Scrub!FirstFields
<1>2. /\ Scrub!IsTree(m) /\ m.form = "compact" /\ m.tear = <<>>
      /\ DOMAIN m.tree = {q \in DOMAIN l.tree : \A p \in later : ~Scrub!IsPrefix(p, q)}
      /\ \A q \in DOMAIN m.tree : m.tree[q] = l.tree[q]
  BY <1>1, CutIsTree DEF Scrub!IsJson
<1>3. \A p \in DOMAIN l.tree : p \in Seq(Nat) /\ Scrub!IsPrefix(p, p)
  BY DEF Scrub!IsTree, Scrub!IsPrefix
<1>4. ASSUME NEW p \in listed, ~Scrub!Opens(l, p) PROVE p \in later
  <2>1. Scrub!Matched(l, p)
    BY DEF Scrub!Matched, Scrub!HoldsItsLike, Scrub!IsJson
  <2> QED BY <1>4, <2>1 DEF Scrub!LaterFields, Scrub!Listed
<1>5. ASSUME NEW p \in DOMAIN m.tree PROVE p \in firsts <=> p \in listed
  <2>1. p \in DOMAIN l.tree /\ m.tree[p] = l.tree[p] /\ p \notin later
    BY <1>2, <1>3
  <2>2. p \in firsts => p \in listed
    BY <2>1 DEF Scrub!FirstFields, Scrub!Listed
  <2>3. ASSUME p \in listed PROVE Scrub!Opens(m, p)
    <3>1. Scrub!Opens(l, p)
      BY <1>4, <2>1, <2>3
    <3> QED BY <1>2, <3>1 DEF Scrub!Opens
  <2>4. ASSUME p \in listed PROVE Scrub!Matched(m, p)
    <3>1. \A q \in Scrub!Under(m, p) : q \in Scrub!Under(l, p) /\ m.tree[q].is = l.tree[q].is
      BY <1>2 DEF Scrub!Under
    <3>2. \A q \in Scrub!Under(l, p) : l.tree[q].is # l.tree[p].is
      BY <2>4 DEF Scrub!HoldsItsLike
    <3> QED BY <1>2, <2>1, <3>1, <3>2 DEF Scrub!Matched
  <2>5. p \in listed => m.tree[p].key \in Scrub!Ids
    BY <2>1 DEF Scrub!Listed
  <2> QED BY <2>2, <2>3, <2>4, <2>5 DEF Scrub!FirstFields
<1>6. DOMAIN Scrub!Without(m, firsts).tree = {q \in DOMAIN m.tree : \A p \in firsts : ~Scrub!IsPrefix(p, q)}
  BY <1>1, <1>2, CutIsTree
<1>7. DOMAIN Scrub!Without(l, listed).tree = {q \in DOMAIN l.tree : \A p \in listed : ~Scrub!IsPrefix(p, q)}
  BY <1>1, CutIsTree
<1> HIDE DEF listed, later, m, firsts
<1>8. ASSUME NEW q \in DOMAIN m.tree, \A p \in firsts : ~Scrub!IsPrefix(p, q), NEW p \in listed
      PROVE  ~Scrub!IsPrefix(p, q)
  <2>1. CASE p \in DOMAIN m.tree
    BY <1>5, <1>8, <2>1
  <2>2. CASE p \notin DOMAIN m.tree
    <3>1. PICK r \in later : Scrub!IsPrefix(r, p)
      BY <1>1, <1>2, <2>2
    <3>2. p \in Seq(Nat) /\ q \in Seq(Nat) /\ r \in Seq(Nat) /\ ~Scrub!IsPrefix(r, q)
      BY <1>1, <1>2, <1>3
    <3> QED BY <3>1, <3>2, PrefixOfPrefix
  <2> QED BY <2>1, <2>2
<1>9. {q \in DOMAIN m.tree : \A p \in firsts : ~Scrub!IsPrefix(p, q)}
        = {q \in DOMAIN l.tree : \A p \in listed : ~Scrub!IsPrefix(p, q)}
  BY <1>1, <1>2, <1>5, <1>8
<1> QED BY <1>6, <1>7, <1>9 DEF listed, later, m, firsts

\* After the second no listed field is left of such a line.
LEMMA FirstKeeps == ScrubInv /\ Scrub!CutFirstFields => ScrubInv'
<1> SUFFICES ASSUME ScrubInv, Scrub!CutFirstFields PROVE ScrubInv'
  OBVIOUS
<1> DEFINE cut == Scrub!FirstFields(line)
<1>1. stage = 10 /\ fate = "open"
  BY StageOf DEF Scrub!CutFirstFields, Scrub!At, ScrubInv, StaysALine
<1>2. cut \in SUBSET DOMAIN line.tree
  BY DEF Scrub!FirstFields
<1>3. Scrub!Rewrite(Scrub!Without(line, cut))
  BY DEF Scrub!CutFirstFields
<1>4. StaysALine' /\ CutSoFar' /\ VelocityIsShut' /\ DebugIsSeen' /\ ClassIsRead'
  BY <1>1, <1>2, <1>3, CutKeeps
<1>5. RestStays'
  <2>1. stage' = 11 /\ first' = first /\ fate' = "open" /\ line' = Scrub!Without(line, cut)
    BY <1>1, <1>3 DEF Scrub!Rewrite, Scrub!Go
  <2>2. /\ Scrub!Words(line') \subseteq Scrub!Words(line) /\ DOMAIN line'.tree \subseteq DOMAIN line.tree
        /\ \A q \in DOMAIN line'.tree : line'.tree[q] = line.tree[q]
    <3>1. Scrub!IsTree(line) BY DEF ScrubInv, StaysALine
    <3> QED BY <1>2, <2>1, <3>1, CutIsTree
  <2>3. ASSUME NothingToDrop(first)
        PROVE  /\ "cookie" \notin Scrub!Words(line)
               /\ DOMAIN line'.tree = DOMAIN Scrub!Without(first, Scrub!Listed(first)).tree
               /\ \A p \in DOMAIN line'.tree : line'.tree[p].key = first.tree[p].key
    <3>1. Scrub!IsTree(first)
      BY LinesAssumption DEF Scrub!IsLine, ScrubInv, StaysALine
    <3>2. line = Scrub!Without(first, Scrub!LaterFields(first)) /\ "cookie" \notin Scrub!Words(line)
      BY <1>1, <2>3 DEF ScrubInv, RestStays
    <3>3. \A p \in Scrub!Listed(first) : ~Scrub!HoldsItsLike(first, p)
      BY <2>3 DEF NothingToDrop
    <3>4. DOMAIN line'.tree = DOMAIN Scrub!Without(first, Scrub!Listed(first)).tree
      BY <2>1, <2>3, <3>1, <3>2, <3>3, KeptHasNone, TwoCuts
    <3>5. Scrub!LaterFields(first) \in SUBSET DOMAIN first.tree
      BY DEF Scrub!LaterFields
    <3>6. \A q \in DOMAIN line.tree : line.tree[q] = first.tree[q]
      BY <3>1, <3>2, <3>5, CutIsTree
    <3> QED BY <2>2, <3>2, <3>4, <3>6
  <2>4. RestStays BY DEF ScrubInv
  <2> QED BY <2>1, <2>2, <2>3 DEF RestStays
<1> QED BY <1>4, <1>5 DEF ScrubInv

\* Nothing is done yet to a line that comes in.
LEMMA ScrubStarts == Scrub!Init => ScrubInv
<1> SUFFICES ASSUME Scrub!Init PROVE ScrubInv
  OBVIOUS
<1>1. fate = "open" /\ stage = 1 /\ first \in Lines /\ line = first
  BY DEF Scrub!Init
<1>2. Scrub!IsLine(first)
  BY <1>1, LinesAssumption
<1>3. StaysALine
  BY <1>1, <1>2 DEF StaysALine, Scrub!IsLine
<1>4. CutSoFar /\ VelocityIsShut /\ DebugIsSeen
  BY <1>1 DEF CutSoFar, VelocityIsShut, DebugIsSeen
<1>5. ClassIsRead
  BY <1>1, <1>2 DEF ClassIsRead, Scrub!IsLine
<1>6. RestStays
  BY <1>1, KeptHasNone DEF RestStays
<1> QED BY <1>3, <1>4, <1>5, <1>6 DEF ScrubInv

\* What is known of a line at each stage is what the scrub promises.
LEMMA ScrubSafe == ScrubInv => Scrub!Safe
<1> SUFFICES ASSUME ScrubInv PROVE Scrub!Safe
  OBVIOUS
<1>1. StaysALine /\ CutSoFar /\ VelocityIsShut /\ DebugIsSeen /\ ClassIsRead /\ RestStays
  BY DEF ScrubInv
<1>2. Scrub!TypeOK
  <2>1. DOMAIN Scrub!Stages = 1..14
    BY DEF Scrub!Stages
  <2> QED BY <1>1, <2>1 DEF Scrub!TypeOK, StaysALine
<1>3. fate = "shipped" => stage = 14 /\ ~Scrub!StillThere(line)
  BY <1>1 DEF StaysALine, CutSoFar
<1>4. Scrub!NothingListedShips
  BY <1>1, <1>3 DEF Scrub!NothingListedShips, Scrub!Shipped, StaysALine, CutSoFar, Scrub!StillThere
<1>5. Scrub!RestIsKept
  <2> SUFFICES ASSUME fate # "open", NothingToDrop(first)
               PROVE  /\ fate = "shipped"
                      /\ DOMAIN line.tree = DOMAIN Scrub!Without(first, Scrub!Listed(first)).tree
                      /\ \A p \in DOMAIN line.tree : line.tree[p].key = first.tree[p].key
    BY DEF Scrub!RestIsKept, NothingToDrop, Scrub!Shipped
  <2>1. fate = "shipped"
    BY <1>1 DEF StaysALine, RestStays
  <2> QED BY <1>1, <1>3, <2>1 DEF RestStays
<1>6. Scrub!VelocityIsClosed
  BY <1>1, <1>3 DEF Scrub!VelocityIsClosed, Scrub!Shipped, VelocityIsShut, OfTheContract
<1>7. Scrub!ClassOutlivesError
  <2> SUFFICES ASSUME fate = "shipped", GivesClass(first)
               PROVE  meta.exc_class = "class" /\ "classed" \notin Scrub!Words(line)
    BY DEF Scrub!ClassOutlivesError, GivesClass, Scrub!Shipped
  <2>1. meta.exc_class = "class"
    BY <1>1, <1>3 DEF ClassIsRead
  <2>2. ~Scrub!IsRebuilt(first) BY DEF GivesClass
  <2>3. ~ "error" \in Scrub!Keys(line)
    BY <1>3 DEF Scrub!StillThere, Scrub!Ids
  <2>4. \A p \in DOMAIN line.tree : line.tree[p].word # "classed"
    BY <1>1, <2>2, <2>3 DEF ClassIsRead, Scrub!Keys
  <2> QED BY <2>1, <2>4 DEF Scrub!Words
<1>8. Scrub!DebugNeverShips
  <2>1. fate = "shipped" => ~SaysDebug(first)
    BY <1>1, <1>3 DEF DebugIsSeen
  <2> QED BY <2>1 DEF Scrub!DebugNeverShips, SaysDebug, Scrub!Shipped
<1> QED BY <1>2, <1>4, <1>5, <1>6, <1>7, <1>8 DEF Scrub!Safe

\* Of any lines, whole or torn, in any spacing and of any depth: of a line that
\* Alloy ships nothing listed is left, and what is not listed is where it was.
THEOREM LinesScrubbed == MonitoringSpec => []ScrubIsComplete
<1> DEFINE Inv == part = "scrub" => ScrubInv
<1>1. Begin => Inv BY ScrubStarts DEF Begin
<1>2. Inv /\ [Step]_all => Inv'
  <2> SUFFICES ASSUME Inv, [Step]_all, part' = "scrub" PROVE ScrubInv'
    OBVIOUS
  <2>1. CASE ScrubLine
    <3>1. ScrubInv BY <2>1 DEF ScrubLine
    <3> QED
      BY <2>1, <3>1, ServicesKeeps, BodiesKeeps, NotJsonKeeps, CaddyKeeps, VelocityKeeps, ReadKeeps, MetadataKeeps,
         DropsKeeps, LaterKeeps, FirstKeeps, RowsKeeps, QueriesKeeps, FailClosedKeeps, ShipKeeps
      DEF ScrubLine, Scrub!Next
  <2>2. CASE part' = part /\ UNCHANGED scrub_vars
    <3>1. ScrubInv BY <2>2
    <3>2. UNCHANGED <<fate, stage, first, line, read, meta>>
      BY <2>2 DEF scrub_vars
    <3>3. StaysALine' BY <3>1, <3>2 DEF ScrubInv, StaysALine
    <3>4. CutSoFar' BY <3>1, <3>2 DEF ScrubInv, CutSoFar
    <3>5. VelocityIsShut' BY <3>1, <3>2 DEF ScrubInv, VelocityIsShut
    <3>6. DebugIsSeen' BY <3>1, <3>2 DEF ScrubInv, DebugIsSeen
    <3>7. ClassIsRead' BY <3>1, <3>2 DEF ScrubInv, ClassIsRead
    <3>8. RestStays' BY <3>1, <3>2 DEF ScrubInv, RestStays
    <3> QED BY <3>3, <3>4, <3>5, <3>6, <3>7, <3>8 DEF ScrubInv
  <2>3. ScrubLine \/ (part' = part /\ UNCHANGED scrub_vars)
    <3>1. CASE WatchWorker BY <3>1 DEF WatchWorker
    <3>2. CASE WatchProbes BY <3>2 DEF WatchProbes
    <3>3. CASE ReadArea BY <3>3 DEF ReadArea
    <3>4. CASE ReadBackups BY <3>4 DEF ReadBackups
    <3>5. CASE ReadArchives BY <3>5 DEF ReadArchives
    <3>6. CASE ReadService BY <3>6 DEF ReadService
    <3>7. CASE UNCHANGED all BY <3>7 DEF all
    <3> QED BY <3>1, <3>2, <3>3, <3>4, <3>5, <3>6, <3>7 DEF Step
  <2> QED BY <2>1, <2>2, <2>3
<1>3. Inv => ScrubIsComplete BY ScrubSafe DEF ScrubIsComplete
<1> QED BY <1>1, <1>2, <1>3, PTL DEF MonitoringSpec

-----------------------------------------------------------------------------
(* The tiles of the cloud pages: how their fields are calculated *)

\* The calculated fields, as each of the tiles has them.
Fields == INSTANCE DashboardFields

\* What is yet to be shown of one number after another is false of a least one.
LEMMA FirstOf ==
  ASSUME NEW S, S \subseteq Nat, S # {}
  PROVE  \E m \in S : \A s \in S : m <= s
<1>1. PICK m \in S : \A s \in S : ~(<<s, m>> \in OpToRel(<, Nat))
  BY NatLessThanWellFounded, WFMin, Zenon
<1>2. \A s \in S : s \in Nat /\ m \in Nat /\ ~(s < m) BY <1>1 DEF OpToRel
<1>3. \A s \in S : m <= s BY <1>2
<1> QED BY <1>3

\* A set of numbers that is bounded has a greatest.
LEMMA LastOf ==
  ASSUME NEW S, NEW N \in Nat, S \subseteq 0..N, S # {}
  PROVE  \E m \in S : \A s \in S : s <= m
<1> DEFINE T == {N - s : s \in S}
<1>0. \A s \in S : N - s \in Nat OBVIOUS
<1>1. T \subseteq Nat /\ T # {} BY <1>0
<1>2. PICK k \in T : \A t \in T : k <= t BY <1>1, FirstOf
<1>3. PICK m \in S : k = N - m OBVIOUS
<1>4. \A s \in S : N - m <= N - s BY <1>2, <1>3
<1>5. \A s \in S : s \in 0..N OBVIOUS
<1>6. \A s \in S : s <= m BY <1>4, <1>5
<1> QED BY <1>6

\* The sums of what arrived of the first points, one after another.
Adds(points, sum) ==
  /\ sum \in [0..Len(points) -> Int]
  /\ sum[0] = 0
  /\ \A n \in 1..Len(points) : sum[n] = sum[n - 1] + IF points[n] # Nothing THEN points[n] ELSE 0

\* Points of which each is a number or no value.
Readable(points) == Len(points) \in Nat /\ \A n \in 1..Len(points) : points[n] = Nothing \/ points[n] \in Int

\* Such points have these sums.
LEMMA AddsUp ==
  ASSUME NEW points, Readable(points)
  PROVE  \E sum : Adds(points, sum)
<1> DEFINE L == Len(points)
<1> DEFINE v(n) == IF points[n] # Nothing THEN points[n] ELSE 0
<1> DEFINE Good(k, s) == s \in [0..k -> Int] /\ s[0] = 0 /\ \A n \in 1..k : s[n] = s[n - 1] + v(n)
<1> DEFINE Failing == {k \in 0..L : ~\E s : Good(k, s)}
<1>1. L \in Nat /\ \A n \in 1..L : v(n) \in Int BY DEF Readable
<1>2. Failing = {}
  <2> SUFFICES ASSUME Failing # {} PROVE FALSE OBVIOUS
  <2>0. Failing \subseteq Nat BY <1>1
  <2>1. PICK k \in Failing : \A j \in Failing : k <= j
    <3> HIDE DEF Failing
    <3> QED BY <2>0, FirstOf
  <2>2. k # 0
    <3> SUFFICES ASSUME k = 0 PROVE FALSE OBVIOUS
    <3>1. Good(0, [n \in 0..0 |-> 0]) OBVIOUS
    <3> QED BY <3>1, <2>1
  <2>3. k \in 1..L BY <2>1, <2>2, <1>1
  <2>4. k - 1 \in 0..L /\ ~(k <= k - 1) BY <2>3, <1>1
  <2>5. k - 1 \notin Failing BY <2>1, <2>4
  <2>6. PICK s : Good(k - 1, s) BY <2>4, <2>5
  <2> DEFINE t == [n \in 0..k |-> IF n = k THEN s[k - 1] + v(k) ELSE s[n]]
  <2>7. v(k) \in Int BY <2>3, <1>1
  <2> HIDE DEF v
  <2>8. s[k - 1] \in Int /\ \A n \in 0..(k - 1) : s[n] \in Int BY <2>6, <2>3, <1>1
  <2>9. t \in [0..k -> Int] BY <2>3, <2>7, <2>8, <1>1
  <2>10. t[0] = 0 BY <2>3, <2>6, <1>1
  <2>11. \A n \in 1..k : t[n] = t[n - 1] + v(n) BY <2>3, <2>6, <1>1
  <2>12. Good(k, t) BY <2>9, <2>10, <2>11
  <2> QED BY <2>12, <2>1
<1>3. L \in 0..L BY <1>1
<1>4. \E s : Good(L, s) BY <1>2, <1>3
<1> QED BY <1>4, <1>1 DEF Adds

\* What is summed is the last of them.
LEMMA SumIs ==
  ASSUME NEW points, Readable(points), NEW sum, Adds(points, sum)
  PROVE  Fields!SumArrived(points) = sum[Len(points)]
<1> DEFINE L == Len(points)
<1> DEFINE F(g) == [n \in 0..L |-> IF n = 0 THEN 0 ELSE g[n - 1] + IF Fields!Arrived(points[n]) THEN points[n] ELSE 0]
<1>1. L \in Nat BY DEF Readable
<1>2. sum = F(sum)
  <2>1. \A n \in 0..L : sum[n] = IF n = 0 THEN 0 ELSE sum[n - 1] + IF Fields!Arrived(points[n]) THEN points[n] ELSE 0
    BY <1>1 DEF Adds, Fields!Arrived
  <2> QED BY <2>1 DEF Adds
<1> DEFINE C == CHOOSE g : g = F(g)
<1>3. C = F(C) BY <1>2, Zenon
<1>4. Fields!SumArrived(points) = C[L] BY DEF Fields!SumArrived
<1> DEFINE Failing == {k \in 0..L : C[k] # sum[k]}
<1>5. \A n \in 0..L : C[n] = IF n = 0 THEN 0 ELSE C[n - 1] + IF Fields!Arrived(points[n]) THEN points[n] ELSE 0
  <2> HIDE DEF C
  <2> QED BY <1>3
<1> HIDE DEF C
<1>6. Failing = {}
  <2> SUFFICES ASSUME Failing # {} PROVE FALSE OBVIOUS
  <2>0. Failing \subseteq Nat BY <1>1
  <2>1. PICK k \in Failing : \A j \in Failing : k <= j
    <3> HIDE DEF Failing
    <3> QED BY <2>0, FirstOf
  <2>2. k # 0 BY <1>5, <2>1 DEF Adds
  <2>3. k \in 1..L /\ k - 1 \in 0..L /\ ~(k <= k - 1) BY <2>1, <2>2, <1>1
  <2>4. C[k - 1] = sum[k - 1] BY <2>1, <2>3
  <2>5. C[k] = C[k - 1] + IF points[k] # Nothing THEN points[k] ELSE 0 BY <1>5, <2>3 DEF Fields!Arrived
  <2>6. sum[k] = sum[k - 1] + IF points[k] # Nothing THEN points[k] ELSE 0 BY <2>3 DEF Adds
  <2> QED BY <2>1, <2>4, <2>5, <2>6
<1>7. L \in 0..L BY <1>1
<1> QED BY <1>4, <1>6, <1>7

\* A quotient is the number of times that the divisor fits.
LEMMA Quotient ==
  ASSUME NEW v \in Int, NEW n \in Nat, n > 0
  PROVE  /\ v \div n \in Int
         /\ n * (v \div n) <= v /\ v < n * (v \div n) + n
OBVIOUS

\* And there is only one such number.
LEMMA QuotientIs ==
  ASSUME NEW v \in Int, NEW n \in Nat, n > 0, NEW q \in Int, n * q <= v, v < n * q + n
  PROVE  v \div n = q
OBVIOUS

\* Nothing is left of none.
LEMMA NothingLeft == \A f \in Nat \ {0} : 0 % f = 0
OBVIOUS

\* at_least_one of a count: 0 of none, 1 of any.
LEMMA AtLeastOneIs ==
  ASSUME NEW v \in Nat
  PROVE  Fields!AtLeastOne(v) = IF v = 0 THEN 0 ELSE 1
<1>1. Fields!AtLeastOne(v) = (v + (v + 1) - 1) \div (v + 1)
  BY NothingAssumption DEF Fields!AtLeastOne, Fields!CeilOf, Fields!Plus, Fields!Arrived
<1>2. CASE v = 0 BY <1>1, <1>2
<1>3. CASE v # 0
  <2>1. (v + 1) * 1 <= v + (v + 1) - 1 /\ v + (v + 1) - 1 < (v + 1) * 1 + (v + 1) BY <1>3
  <2>2. (v + (v + 1) - 1) \div (v + 1) = 1 BY <2>1, QuotientIs
  <2> QED BY <1>1, <1>3, <2>2
<1> QED BY <1>2, <1>3

\* How many of the first numbers are of a set.
LEMMA CountGoesOn ==
  ASSUME NEW L \in Nat, NEW A \in SUBSET (1..L), NEW n \in 1..L
  PROVE  /\ Cardinality(A \cap (1..n)) \in Nat /\ Cardinality(A \cap (1..(n - 1))) \in Nat
         /\ Cardinality(A \cap (1..n)) = Cardinality(A \cap (1..(n - 1))) + IF n \in A THEN 1 ELSE 0
<1>1. IsFiniteSet(1..(n - 1)) BY FS_Interval
<1>2. IsFiniteSet(A \cap (1..(n - 1))) BY <1>1, FS_Subset
<1>3. Cardinality(A \cap (1..(n - 1))) \in Nat BY <1>2, FS_CardinalityType
<1>4. CASE n \in A
  <2>1. A \cap (1..n) = (A \cap (1..(n - 1))) \cup {n} BY <1>4
  <2>2. n \notin A \cap (1..(n - 1)) OBVIOUS
  <2> QED BY <1>2, <1>3, <1>4, <2>1, <2>2, FS_AddElement
<1>5. CASE n \notin A
  <2>1. A \cap (1..n) = A \cap (1..(n - 1)) BY <1>5
  <2>2. Cardinality(A \cap (1..n)) = Cardinality(A \cap (1..(n - 1))) BY <2>1, Zenon
  <2> QED BY <1>3, <1>5, <2>2
<1> QED BY <1>4, <1>5

\* There are none among no numbers.
LEMMA CountOfNone == ASSUME NEW A PROVE Cardinality(A \cap (1..0)) = 0
<1>1. A \cap (1..0) = {} OBVIOUS
<1> QED BY <1>1, FS_EmptySet

\* A sum is at most what its largest points make, and at least what they do.
LEMMA SumBetween ==
  ASSUME NEW points, Readable(points), NEW A \in SUBSET (1..Len(points)), NEW b \in Nat
  PROVE  /\ Fields!SumArrived(points) \in Int
         /\ (\A n \in 1..Len(points) : points[n] # Nothing => points[n] <= IF n \in A THEN b ELSE 0)
              => Fields!SumArrived(points) <= b * Cardinality(A)
         /\ (\A n \in 1..Len(points) : IF n \in A THEN points[n] # Nothing /\ points[n] >= b
                                                   ELSE points[n] # Nothing => points[n] >= 0)
              => Fields!SumArrived(points) >= b * Cardinality(A)
<1> DEFINE L == Len(points)
<1> DEFINE c(n) == Cardinality(A \cap (1..n))
<1>1. L \in Nat BY DEF Readable
<1>2. PICK sum : Adds(points, sum) BY AddsUp
<1>3. Fields!SumArrived(points) = sum[L] BY <1>2, SumIs
<1>4. \A n \in 0..L : sum[n] \in Int BY <1>2 DEF Adds
<1>5. c(0) = 0 BY CountOfNone
<1>6. \A n \in 1..L : c(n) \in Nat /\ c(n - 1) \in Nat /\ c(n) = c(n - 1) + IF n \in A THEN 1 ELSE 0
  BY <1>1, CountGoesOn
<1>7. A \cap (1..L) = A OBVIOUS
<1>8. c(L) = Cardinality(A) BY <1>7
<1>9. \A n \in 1..L : sum[n] = sum[n - 1] + IF points[n] # Nothing THEN points[n] ELSE 0 BY <1>2 DEF Adds
<1>10. sum[0] = 0 BY <1>2 DEF Adds
<1>11. \A n \in 1..L : points[n] = Nothing \/ points[n] \in Int BY DEF Readable
<1>12. \A m \in Nat : b * (m + 1) = b * m + b OBVIOUS
<1> HIDE DEF c
<1>13. \A n \in 0..L : c(n) \in Nat BY <1>5, <1>6, <1>1
<1>14. ASSUME \A n \in 1..L : points[n] # Nothing => points[n] <= IF n \in A THEN b ELSE 0
       PROVE  sum[L] <= b * c(L)
  <2> DEFINE Failing == {k \in 0..L : ~(sum[k] <= b * c(k))}
  <2>0. Failing \subseteq Nat BY <1>1
  <2>1. Failing = {}
    <3> SUFFICES ASSUME Failing # {} PROVE FALSE OBVIOUS
    <3>1. PICK k \in Failing : \A j \in Failing : k <= j
      <4> HIDE DEF Failing
      <4> QED BY <2>0, FirstOf
    <3>2. k # 0 BY <3>1, <1>5, <1>10
    <3>3. k \in 1..L /\ k - 1 \in 0..L /\ ~(k <= k - 1) BY <3>1, <3>2, <1>1
    <3>4. sum[k - 1] <= b * c(k - 1) BY <3>1, <3>3
    <3>5. b * c(k) = b * c(k - 1) + IF k \in A THEN b ELSE 0
      <4>1. CASE k \in A BY <4>1, <3>3, <1>6, <1>12
      <4>2. CASE k \notin A BY <4>2, <3>3, <1>6
      <4> QED BY <4>1, <4>2
    <3>6. sum[k] <= sum[k - 1] + IF k \in A THEN b ELSE 0
      <4>1. sum[k - 1] \in Int BY <3>3, <1>4
      <4>2. CASE points[k] = Nothing BY <4>1, <4>2, <3>3, <1>9
      <4>3. CASE points[k] # Nothing BY <4>1, <4>3, <3>3, <1>9, <1>11, <1>14
      <4> QED BY <4>2, <4>3
    <3>7. sum[k] \in Int /\ sum[k - 1] \in Int /\ b * c(k - 1) \in Int BY <3>3, <1>4, <1>13
    <3> QED BY <3>1, <3>4, <3>5, <3>6, <3>7
  <2> QED BY <2>1, <1>1
<1>15. ASSUME \A n \in 1..L : IF n \in A THEN points[n] # Nothing /\ points[n] >= b
                                        ELSE points[n] # Nothing => points[n] >= 0
       PROVE  sum[L] >= b * c(L)
  <2> DEFINE Failing == {k \in 0..L : ~(sum[k] >= b * c(k))}
  <2>0. Failing \subseteq Nat BY <1>1
  <2>1. Failing = {}
    <3> SUFFICES ASSUME Failing # {} PROVE FALSE OBVIOUS
    <3>1. PICK k \in Failing : \A j \in Failing : k <= j
      <4> HIDE DEF Failing
      <4> QED BY <2>0, FirstOf
    <3>2. k # 0 BY <3>1, <1>5, <1>10
    <3>3. k \in 1..L /\ k - 1 \in 0..L /\ ~(k <= k - 1) BY <3>1, <3>2, <1>1
    <3>4. sum[k - 1] >= b * c(k - 1) BY <3>1, <3>3
    <3>5. b * c(k) = b * c(k - 1) + IF k \in A THEN b ELSE 0
      <4>1. CASE k \in A BY <4>1, <3>3, <1>6, <1>12
      <4>2. CASE k \notin A BY <4>2, <3>3, <1>6
      <4> QED BY <4>1, <4>2
    <3>6. sum[k] >= sum[k - 1] + IF k \in A THEN b ELSE 0
      <4>1. sum[k - 1] \in Int BY <3>3, <1>4
      <4>2. CASE points[k] = Nothing BY <4>1, <4>2, <3>3, <1>9, <1>15
      <4>3. CASE points[k] # Nothing BY <4>1, <4>3, <3>3, <1>9, <1>11, <1>15
      <4> QED BY <4>2, <4>3
    <3>7. sum[k] \in Int /\ sum[k - 1] \in Int /\ b * c(k - 1) \in Int BY <3>3, <1>4, <1>13
    <3> QED BY <3>1, <3>4, <3>5, <3>6, <3>7
  <2> QED BY <2>1, <1>1
<1>16. sum[L] \in Int BY <1>1, <1>4
<1> QED BY <1>3, <1>8, <1>14, <1>15, <1>16

\* The sum of what counts something is above 0 where something was counted.
LEMMA SumOfCounts ==
  ASSUME NEW points, Readable(points), \A n \in 1..Len(points) : points[n] # Nothing => points[n] >= 0
  PROVE  /\ Fields!SumArrived(points) \in Nat
         /\ Fields!SumArrived(points) > 0 <=> \E n \in 1..Len(points) : points[n] # Nothing /\ points[n] > 0
<1> DEFINE A == {n \in 1..Len(points) : points[n] # Nothing /\ points[n] > 0}
<1>0. Len(points) \in Nat /\ \A n \in 1..Len(points) : points[n] = Nothing \/ points[n] \in Int BY DEF Readable
<1>1. A \in SUBSET (1..Len(points)) OBVIOUS
<1>2. Fields!SumArrived(points) \in Int BY <1>1, SumBetween, Zenon
<1>3. \A n \in 1..Len(points) : IF n \in A THEN points[n] # Nothing /\ points[n] >= 1
                                          ELSE points[n] # Nothing => points[n] >= 0
  BY <1>0
<1>4. 1 \in Nat /\ 0 \in Nat OBVIOUS
<1>5. Fields!SumArrived(points) >= 1 * Cardinality(A)
  <2> HIDE DEF A
  <2> QED BY <1>1, <1>3, <1>4, SumBetween
<1>6. IsFiniteSet(A)
  <2>1. IsFiniteSet(1..Len(points)) BY <1>0, FS_Interval
  <2> HIDE DEF A
  <2> QED BY <1>1, <2>1, FS_Subset
<1>7. Cardinality(A) \in Nat /\ (A # {} => Cardinality(A) > 0)
  <2>1. Cardinality(A) \in Nat /\ (Cardinality(A) = 0 <=> A = {}) BY <1>6, FS_CardinalityType, FS_EmptySet
  <2> QED BY <2>1
<1>8. A = {} => Fields!SumArrived(points) <= 0
  <2> SUFFICES ASSUME A = {} PROVE Fields!SumArrived(points) <= 0 OBVIOUS
  <2>1. \A n \in 1..Len(points) : points[n] # Nothing => points[n] <= IF n \in A THEN 0 ELSE 0 BY <1>0
  <2>2. Fields!SumArrived(points) <= 0 * Cardinality(A)
    <3> HIDE DEF A
    <3> QED BY <1>1, <1>4, <2>1, SumBetween
  <2> QED BY <2>2, <1>7
<1>9. A # {} <=> \E n \in 1..Len(points) : points[n] # Nothing /\ points[n] > 0 OBVIOUS
<1> HIDE DEF A
<1>10. Fields!SumArrived(points) >= Cardinality(A) BY <1>5, <1>7
<1> QED BY <1>2, <1>7, <1>8, <1>9, <1>10

\* The greatest of a bounded set is one of it, and none of it is greater.
LEMMA MaxOf ==
  ASSUME NEW S, NEW N \in Nat, S \subseteq 0..N, S # {}
  PROVE  Fields!Max(S) \in S /\ \A s \in S : s <= Fields!Max(S)
<1>1. PICK m \in S : \A s \in S : s <= m BY LastOf
<1>2. \A s \in S : s \in Int OBVIOUS
<1>3. \A s \in S : m >= s BY <1>1, <1>2
<1>4. Fields!Max(S) \in S /\ \A s \in S : Fields!Max(S) >= s BY <1>3 DEF Fields!Max
<1> QED BY <1>2, <1>4

\* The greatest of the fields that arrived.
LEMMA MaxArrivedIs ==
  ASSUME NEW fields, Len(fields) \in Nat, NEW N \in Nat,
         \A n \in 1..Len(fields) : fields[n] = Nothing \/ fields[n] \in 0..N
  PROVE  /\ (\A n \in 1..Len(fields) : fields[n] = Nothing) => Fields!MaxArrived(fields) = Nothing
         /\ \A n \in 1..Len(fields) : fields[n] # Nothing =>
              /\ Fields!MaxArrived(fields) \in 0..N
              /\ fields[n] <= Fields!MaxArrived(fields)
              /\ \E k \in 1..Len(fields) : fields[k] # Nothing /\ Fields!MaxArrived(fields) = fields[k]
<1> DEFINE there == {fields[n] : n \in {k \in 1..Len(fields) : fields[k] # Nothing}}
<1>1. Fields!MaxArrived(fields) = IF there = {} THEN Nothing ELSE Fields!Max(there)
  BY DEF Fields!MaxArrived, Fields!Arrived
<1>2. there \subseteq 0..N OBVIOUS
<1>3. there # {} => Fields!Max(there) \in there /\ \A s \in there : s <= Fields!Max(there)
  <2> HIDE DEF there
  <2> QED BY <1>2, MaxOf
<1>4. ASSUME \A n \in 1..Len(fields) : fields[n] = Nothing PROVE there = {} BY <1>4
<1>5. ASSUME NEW n \in 1..Len(fields), fields[n] # Nothing
      PROVE  /\ Fields!MaxArrived(fields) \in 0..N
             /\ fields[n] <= Fields!MaxArrived(fields)
             /\ \E k \in 1..Len(fields) : fields[k] # Nothing /\ Fields!MaxArrived(fields) = fields[k]
  <2>1. fields[n] \in there BY <1>5
  <2>2. Fields!MaxArrived(fields) \in there /\ fields[n] <= Fields!MaxArrived(fields)
    <3> HIDE DEF there
    <3> QED BY <2>1, <1>1, <1>3
  <2> QED BY <2>2, <1>2
<1> HIDE DEF there
<1> QED BY <1>1, <1>4, <1>5

\* The latest point that arrived.
LEMMA LastNotNullIs ==
  ASSUME NEW points, Len(points) \in Nat
  PROVE  \/ Fields!LastNotNull(points) = Nothing /\ \A n \in 1..Len(points) : points[n] = Nothing
         \/ \E n \in 1..Len(points) :
              /\ points[n] # Nothing /\ Fields!LastNotNull(points) = points[n]
              /\ \A k \in 1..Len(points) : k > n => points[k] = Nothing
<1> DEFINE there == {n \in 1..Len(points) : points[n] # Nothing}
<1>1. Fields!LastNotNull(points) = IF there = {} THEN Nothing ELSE points[Fields!Max(there)]
  BY DEF Fields!LastNotNull, Fields!Arrived
<1>2. there \subseteq 0..Len(points) OBVIOUS
<1>3. there # {} => Fields!Max(there) \in there /\ \A s \in there : s <= Fields!Max(there)
  <2> HIDE DEF there
  <2> QED BY <1>2, MaxOf
<1>4. CASE there = {} BY <1>1, <1>4
<1>5. CASE there # {}
  <2>1. \A k \in 1..Len(points) : k > Fields!Max(there) => k \notin there
    <3>1. Fields!Max(there) \in 1..Len(points) BY <1>3, <1>5
    <3> HIDE DEF there
    <3> QED BY <1>3, <1>5, <3>1
  <2>2. Fields!Max(there) \in 1..Len(points) /\ points[Fields!Max(there)] # Nothing BY <1>3, <1>5
  <2>3. \A k \in 1..Len(points) : k > Fields!Max(there) => points[k] = Nothing BY <2>1
  <2>4. Fields!LastNotNull(points) = points[Fields!Max(there)] BY <1>1, <1>5
  <2> HIDE DEF there
  <2> QED BY <2>2, <2>3, <2>4
<1> QED BY <1>4, <1>5

\* The tiles calculate alike.
LEMMA ServiceFields ==
  /\ \A p : Service!SumArrived(p) = Fields!SumArrived(p)
  /\ \A p : Service!MaxArrived(p) = Fields!MaxArrived(p)
  /\ \A p : Service!SumOfPoints(p) = Fields!SumOfPoints(p)
  /\ \A p : Service!LastNotNull(p) = Fields!LastNotNull(p)
  /\ \A p : Service!AtLeastOne(p) = Fields!AtLeastOne(p)
<1>1. \A p : Service!Arrived(p) <=> Fields!Arrived(p) BY DEF Service!Arrived, Fields!Arrived
<1>2. \A p : Service!SumArrived(p) = Fields!SumArrived(p) BY DEF Service!SumArrived, Fields!SumArrived, Service!Arrived, Fields!Arrived
<1>3. \A p : Service!Max(p) = Fields!Max(p) BY DEF Service!Max, Fields!Max
<1>4. \A p : Service!MaxArrived(p) = Fields!MaxArrived(p)
  BY <1>3 DEF Service!MaxArrived, Fields!MaxArrived, Service!Arrived, Fields!Arrived
<1>5. \A p : Service!SumOfPoints(p) = Fields!SumOfPoints(p)
  BY <1>1, <1>2 DEF Service!SumOfPoints, Fields!SumOfPoints
<1>6. \A p : Service!LastNotNull(p) = Fields!LastNotNull(p)
  BY <1>3 DEF Service!LastNotNull, Fields!LastNotNull, Service!Arrived, Fields!Arrived
<1>7. \A p : Service!AtLeastOne(p) = Fields!AtLeastOne(p)
  BY DEF Service!AtLeastOne, Fields!AtLeastOne, Service!CeilOf, Fields!CeilOf, Service!Plus, Fields!Plus,
         Service!Arrived, Fields!Arrived
<1> QED BY <1>2, <1>4, <1>5, <1>6, <1>7

-----------------------------------------------------------------------------
(* A service's tile *)

\* What is kept of a slot.
ServiceSlots ==
  {Service!Slot(instances, passing, event) :
     instances \in {Nothing, 0, 1}, passing \in (IF inside THEN {Nothing, 0, 1} ELSE {Nothing}),
     event \in {"none", "5xx", "exit", "kill"}}

\* No more of them than the tile reads.
ServiceTyped == warm \in BOOLEAN /\ inside \in BOOLEAN /\ slots \in Seq(ServiceSlots) /\ Len(slots) <= Quarter

\* The latest point of a series that arrived.
LastIs(name, v) ==
  \E n \in 1..Len(slots) :
    slots[n][name] = v /\ \A k \in 1..Len(slots) : k > n => slots[k][name] = Nothing

\* The latest answer had no region passing, or a warm service counted none last.
ServiceDown == (inside /\ LastIs("inside", 0)) \/ (warm /\ ~LastIs("instances", 1))

\* What a slot holds: of the check nothing, where the service has none, and one event at most.
LEMMA ServiceSlotIs ==
  ASSUME ServiceTyped, NEW n \in 1..Len(slots)
  PROVE  /\ slots[n].instances \in {Nothing, 0, 1}
         /\ slots[n].inside \in (IF inside THEN {Nothing, 0, 1} ELSE {Nothing})
         /\ slots[n].errors \in {Nothing, 1} /\ slots[n].crashed \in {Nothing, 1} /\ slots[n].killed \in {Nothing, 1}
         /\ slots[n] = Service!Slot(Nothing, Nothing, "none") =>
              \A name \in {"instances", "inside", "errors", "crashed", "killed"} : slots[n][name] = Nothing
<1>1. slots[n] \in ServiceSlots BY DEF ServiceTyped
<1>2. PICK instances \in {Nothing, 0, 1}, passing \in (IF inside THEN {Nothing, 0, 1} ELSE {Nothing}),
           event \in {"none", "5xx", "exit", "kill"} : slots[n] = Service!Slot(instances, passing, event)
  BY <1>1 DEF ServiceSlots
<1>3. slots[n].instances = instances /\ slots[n].inside = IF inside THEN passing ELSE Nothing
  BY <1>2 DEF Service!Slot
<1>4. slots[n].errors \in {Nothing, 1} /\ slots[n].crashed \in {Nothing, 1} /\ slots[n].killed \in {Nothing, 1}
  BY <1>2 DEF Service!Slot
<1>5. ASSUME slots[n] = Service!Slot(Nothing, Nothing, "none"),
             NEW name \in {"instances", "inside", "errors", "crashed", "killed"}
      PROVE  slots[n][name] = Nothing
  BY <1>5 DEF Service!Slot
<1> QED BY <1>3, <1>4, <1>5

\* A series as the tile reads it.
LEMMA FieldIs ==
  ASSUME ServiceTyped, NEW name \in {"instances", "inside", "errors", "crashed", "killed"}
  PROVE  /\ Len(Service!Field(name)) = Len(slots) /\ Len(slots) \in Nat
         /\ \A n \in 1..Len(slots) : Service!Field(name)[n] = slots[n][name]
         /\ Readable(Service!Field(name))
<1>1. Len(slots) \in Nat BY DEF ServiceTyped
<1>2. Len(Service!Field(name)) = Len(slots) BY <1>1 DEF Service!Field
<1>3. \A n \in 1..Len(slots) : Service!Field(name)[n] = slots[n][name] BY DEF Service!Field
<1>4. \A n \in 1..Len(slots) : slots[n][name] \in {Nothing, 0, 1} BY ServiceSlotIs
<1> QED BY <1>1, <1>2, <1>3, <1>4 DEF Readable

\* The latest of a series is what the tile has of it.
LEMMA LatestOf ==
  ASSUME ServiceTyped, NEW name \in {"instances", "inside"}
  PROVE  LET end == Service!LastNotNull(Service!Field(name))
         IN /\ end \in {Nothing, 0, 1}
            /\ \A v \in {0, 1} : end = v <=> LastIs(name, v)
<1> DEFINE end == Service!LastNotNull(Service!Field(name))
<1>1. Len(Service!Field(name)) = Len(slots) /\ Len(slots) \in Nat
      /\ \A n \in 1..Len(slots) : Service!Field(name)[n] = slots[n][name]
  BY FieldIs
<1>2. \/ end = Nothing /\ \A n \in 1..Len(slots) : slots[n][name] = Nothing
      \/ \E n \in 1..Len(slots) :
           /\ slots[n][name] # Nothing /\ end = slots[n][name]
           /\ \A k \in 1..Len(slots) : k > n => slots[k][name] = Nothing
  <2>1. end = Fields!LastNotNull(Service!Field(name)) BY ServiceFields
  <2> HIDE DEF end
  <2> QED BY <1>1, <2>1, LastNotNullIs
<1>3. \A n \in 1..Len(slots) : slots[n][name] \in {Nothing, 0, 1} BY ServiceSlotIs
<1>4. Nothing # 0 /\ Nothing # 1 BY NothingAssumption
<1> HIDE DEF end
<1>5. CASE end = Nothing /\ \A n \in 1..Len(slots) : slots[n][name] = Nothing BY <1>4, <1>5 DEF LastIs, end
<1>6. CASE \E n \in 1..Len(slots) :
           /\ slots[n][name] # Nothing /\ end = slots[n][name]
           /\ \A k \in 1..Len(slots) : k > n => slots[k][name] = Nothing
  <2>1. PICK n \in 1..Len(slots) :
           /\ slots[n][name] # Nothing /\ end = slots[n][name]
           /\ \A k \in 1..Len(slots) : k > n => slots[k][name] = Nothing
    BY <1>6
  <2>2. end \in {0, 1} BY <1>3, <2>1
  <2>3. ASSUME NEW v \in {0, 1}, LastIs(name, v) PROVE end = v
    <3>1. PICK m \in 1..Len(slots) :
            slots[m][name] = v /\ \A k \in 1..Len(slots) : k > m => slots[k][name] = Nothing
      BY <2>3 DEF LastIs
    <3>2. m = n BY <1>1, <1>4, <2>1, <3>1
    <3> QED BY <2>1, <3>1, <3>2
  <2>4. LastIs(name, end) BY <2>1 DEF LastIs
  <2> QED BY <2>2, <2>3, <2>4 DEF end
<1> QED BY <1>2, <1>5, <1>6

\* Of what counts, the tile has whether any was counted.
LEMMA AnyOf ==
  ASSUME ServiceTyped, NEW name \in {"errors", "crashed", "killed"}
  PROVE  LET sum == Service!SumOfPoints(Service!Field(name))
         IN /\ Service!Had(name) => sum \in Nat /\ sum > 0
            /\ ~Service!Had(name) => sum = Nothing
<1> DEFINE points == Service!Field(name)
<1>1. /\ Len(points) = Len(slots) /\ Len(slots) \in Nat
      /\ \A n \in 1..Len(slots) : points[n] = slots[n][name]
      /\ Readable(points)
  BY FieldIs
<1>2. \A n \in 1..Len(slots) : slots[n][name] \in {Nothing, 1} BY ServiceSlotIs
<1>3. Service!SumOfPoints(points) =
        IF \E n \in 1..Len(points) : points[n] # Nothing THEN Fields!SumArrived(points) ELSE Nothing
  BY ServiceFields DEF Service!SumOfPoints, Service!Arrived
<1>4. Service!Had(name) <=> \E n \in 1..Len(slots) : slots[n][name] # Nothing BY DEF Service!Had, Service!Arrived
<1> HIDE DEF points
<1>5. \A n \in 1..Len(points) : points[n] # Nothing => points[n] = 1 BY <1>1, <1>2
<1>6. Fields!SumArrived(points) \in Nat
      /\ (Fields!SumArrived(points) > 0 <=> \E n \in 1..Len(points) : points[n] # Nothing /\ points[n] > 0)
  <2>1. \A n \in 1..Len(points) : points[n] # Nothing => points[n] >= 0 BY <1>5
  <2> QED BY <1>1, <2>1, SumOfCounts
<1>7. (\E n \in 1..Len(points) : points[n] # Nothing) <=> Service!Had(name) BY <1>1, <1>4
<1>8. (\E n \in 1..Len(points) : points[n] # Nothing) => Fields!SumArrived(points) > 0 BY <1>5, <1>6
<1> QED BY <1>3, <1>6, <1>7, <1>8 DEF points

\* One or none of them, by the number that is calculated.
LEMMA RunningIs ==
  ASSUME NEW v \in {Nothing, 0, 1}
  PROVE  Fields!AtLeastOne(Fields!SumArrived(<<v>>)) = IF v = 1 THEN 1 ELSE 0
<1> DEFINE one == <<v>>
<1>1. Len(one) = 1 /\ one[1] = v OBVIOUS
<1>2. Readable(one) /\ \A n \in 1..Len(one) : one[n] # Nothing => one[n] >= 0 BY <1>1 DEF Readable
<1> HIDE DEF one
<1>3. /\ Fields!SumArrived(one) \in Nat
      /\ Fields!SumArrived(one) > 0 <=> \E n \in 1..Len(one) : one[n] # Nothing /\ one[n] > 0
  BY <1>2, SumOfCounts
<1>4. Fields!SumArrived(one) > 0 <=> v = 1 BY <1>1, <1>3, NothingAssumption
<1>5. Fields!AtLeastOne(Fields!SumArrived(one)) = IF v = 1 THEN 1 ELSE 0 BY <1>3, <1>4, AtLeastOneIs
<1> QED BY <1>5 DEF one

\* What each of the tile's fields says.
LEMMA ServiceFieldsSay ==
  ASSUME ServiceTyped
  PROVE  /\ Service!Running = IF LastIs("instances", 1) THEN 1 ELSE 0
         /\ Service!Erroring = IF Service!Had("errors") THEN 1 ELSE Nothing
         /\ Service!Crashing = IF Service!Had("crashed") \/ Service!Had("killed") THEN 1 ELSE 0
         /\ Service!InsideDown \in {Nothing, 0, 1}
         /\ Service!InsideDown = 1 <=> inside /\ LastIs("inside", 0)
         /\ Service!NoInstance = IF warm THEN (IF LastIs("instances", 1) THEN 0 ELSE 1) ELSE Nothing
<1>1. Service!Instances \in {Nothing, 0, 1} /\ (Service!Instances = 1 <=> LastIs("instances", 1))
  BY LatestOf DEF Service!Instances
<1>2. Service!Running = IF LastIs("instances", 1) THEN 1 ELSE 0
  <2>1. Service!Running = Fields!AtLeastOne(Fields!SumArrived(<<Service!Instances>>))
    BY ServiceFields DEF Service!Running
  <2> QED BY <1>1, <2>1, RunningIs
<1>3. Nothing # 1 /\ Nothing # 0 BY NothingAssumption
<1>4. \A v \in Nat : Service!AtLeastOne(v) = IF v = 0 THEN 0 ELSE 1 BY ServiceFields, AtLeastOneIs
<1>5. Service!AtLeastOne(Nothing) = Nothing BY DEF Service!AtLeastOne, Service!CeilOf, Service!Arrived
<1>6. Service!Erroring = IF Service!Had("errors") THEN 1 ELSE Nothing
  <2>1. /\ Service!Had("errors") => Service!Answered5xx \in Nat /\ Service!Answered5xx > 0
        /\ ~Service!Had("errors") => Service!Answered5xx = Nothing
    BY AnyOf DEF Service!Answered5xx
  <2>2. Service!Erroring = Service!AtLeastOne(Service!Answered5xx) BY DEF Service!Erroring
  <2> QED BY <2>1, <2>2, <1>4, <1>5
<1>7. Service!Crashing = IF Service!Had("crashed") \/ Service!Had("killed") THEN 1 ELSE 0
  <2> DEFINE a == Service!SumOfPoints(Service!Field("crashed"))
  <2> DEFINE b == Service!SumOfPoints(Service!Field("killed"))
  <2> DEFINE two == <<a, b>>
  <2>1. /\ Service!Had("crashed") => a \in Nat /\ a > 0
        /\ ~Service!Had("crashed") => a = Nothing
    BY AnyOf
  <2>2. /\ Service!Had("killed") => b \in Nat /\ b > 0
        /\ ~Service!Had("killed") => b = Nothing
    BY AnyOf
  <2>3. Service!Crashing = Service!AtLeastOne(Fields!SumArrived(two))
    BY ServiceFields DEF Service!Crashing, Service!Exits
  <2>4. Len(two) = 2 /\ two[1] = a /\ two[2] = b OBVIOUS
  <2> HIDE DEF a, b
  <2>5. Readable(two) /\ \A n \in 1..Len(two) : two[n] # Nothing => two[n] >= 0 BY <2>1, <2>2, <2>4 DEF Readable
  <2> HIDE DEF two
  <2>6. /\ Fields!SumArrived(two) \in Nat
        /\ Fields!SumArrived(two) > 0 <=> \E n \in 1..Len(two) : two[n] # Nothing /\ two[n] > 0
    BY <2>5, SumOfCounts
  <2>7. Fields!SumArrived(two) > 0 <=> Service!Had("crashed") \/ Service!Had("killed")
    <3>1. \A v \in Nat : v # Nothing BY NothingAssumption
    <3>2. Fields!SumArrived(two) > 0 <=> (a # Nothing /\ a > 0) \/ (b # Nothing /\ b > 0) BY <2>4, <2>6
    <3> QED BY <2>1, <2>2, <3>1, <3>2
  <2> QED BY <2>3, <2>6, <2>7, <1>4
<1>8. Service!InsideDown \in {Nothing, 0, 1} /\ (Service!InsideDown = 1 <=> inside /\ LastIs("inside", 0))
  <2>1. Service!Passing \in {Nothing, 0, 1} /\ (Service!Passing = 0 <=> LastIs("inside", 0))
    BY LatestOf DEF Service!Passing
  <2>2. Service!AtLeastOne(Service!Passing) = Service!Passing BY <2>1, <1>4, <1>5
  <2>3. Service!InsideDown = IF inside THEN (IF Service!Passing # Nothing THEN 1 - Service!Passing ELSE Nothing) ELSE Nothing
    BY <2>2, <1>3 DEF Service!InsideDown, Service!Minus, Service!Arrived
  <2> QED BY <2>1, <2>3, <1>3
<1>9. Service!NoInstance = IF warm THEN (IF LastIs("instances", 1) THEN 0 ELSE 1) ELSE Nothing
  BY <1>2, <1>3 DEF Service!NoInstance, Service!Minus, Service!Arrived
<1> QED BY <1>2, <1>6, <1>7, <1>8, <1>9

\* The tile says the worst of what it has.
ServiceWords ==
  /\ Service!Says = "down" <=> ServiceDown
  /\ Service!Had("crashed") \/ Service!Had("killed") => Service!Says \in {"crashing", "down"}
  /\ Service!Had("errors") => Service!Says \notin {"up", "idle"}

\* The tile says so.
LEMMA ServiceSays == ServiceTyped => ServiceWords
<1> SUFFICES ASSUME ServiceTyped
             PROVE  /\ Service!Says = "down" <=> ServiceDown
                    /\ Service!Had("crashed") \/ Service!Had("killed") => Service!Says \in {"crashing", "down"}
                    /\ Service!Had("errors") => Service!Says \notin {"up", "idle"}
  BY DEF ServiceWords
<1> DEFINE empty == \A n \in 1..Len(slots) : slots[n] = Service!Slot(Nothing, Nothing, "none")
<1>0. Nothing # 0 /\ Nothing # 1 BY NothingAssumption
<1>1. CASE empty
  <2>1. Service!Says = IF warm THEN "down" ELSE "idle" BY <1>1 DEF Service!Says
  <2>2. \A n \in 1..Len(slots) : \A name \in {"instances", "inside", "errors", "crashed", "killed"} :
          slots[n][name] = Nothing
    BY <1>1, ServiceSlotIs
  <2>3. ~LastIs("inside", 0) /\ ~LastIs("instances", 1) BY <2>2, <1>0 DEF LastIs
  <2>4. ~Service!Had("crashed") /\ ~Service!Had("killed") /\ ~Service!Had("errors")
    BY <2>2 DEF Service!Had, Service!Arrived
  <2>5. ServiceDown <=> warm BY <2>3 DEF ServiceDown
  <2> QED BY <2>1, <2>4, <2>5
<1>2. CASE ~empty
  <2>1. Service!Says = Service!STATUS[Service!Status] BY <1>2 DEF Service!Says
  <2> DEFINE up == Service!Running
  <2> DEFINE erred == Service!Times(Service!Erroring, 2)
  <2> DEFINE crashing == Service!Times(Service!Crashing, 3)
  <2> DEFINE insideDown == Service!Times(Service!InsideDown, 4)
  <2> DEFINE noInstance == Service!Times(Service!NoInstance, 4)
  <2> DEFINE all5 == <<up, erred, crashing, insideDown, noInstance>>
  <2>2. Service!Status = Fields!MaxArrived(all5) BY ServiceFields DEF Service!Status
  <2>3. \A v : Service!Times(v, 2) = (IF v # Nothing /\ 2 # Nothing THEN v * 2 ELSE Nothing)
          /\ Service!Times(v, 3) = (IF v # Nothing /\ 3 # Nothing THEN v * 3 ELSE Nothing)
          /\ Service!Times(v, 4) = (IF v # Nothing /\ 4 # Nothing THEN v * 4 ELSE Nothing)
    BY DEF Service!Times, Service!Arrived
  <2>4. Nothing # 2 /\ Nothing # 3 /\ Nothing # 4 /\ \A v \in 0..4 : v # Nothing BY NothingAssumption
  <2>5. up \in {0, 1} BY ServiceFieldsSay
  <2>6. erred = IF Service!Had("errors") THEN 2 ELSE Nothing BY <2>3, <2>4, <1>0, ServiceFieldsSay
  <2>7. crashing = IF Service!Had("crashed") \/ Service!Had("killed") THEN 3 ELSE 0
    BY <2>3, <2>4, <1>0, ServiceFieldsSay
  <2>8. insideDown \in {Nothing, 0, 4} /\ (insideDown = 4 <=> inside /\ LastIs("inside", 0))
    BY <2>3, <2>4, <1>0, ServiceFieldsSay
  <2>9. noInstance \in {Nothing, 0, 4} /\ (noInstance = 4 <=> warm /\ ~LastIs("instances", 1))
    BY <2>3, <2>4, <1>0, ServiceFieldsSay
  <2>10. /\ Len(all5) = 5 /\ all5[1] = up /\ all5[2] = erred /\ all5[3] = crashing
         /\ all5[4] = insideDown /\ all5[5] = noInstance
    OBVIOUS
  <2> HIDE DEF up, erred, crashing, insideDown, noInstance
  <2> HIDE DEF all5
  <2>11. \A n \in 1..5 : all5[n] = Nothing \/ all5[n] \in 0..4
    <3>1. \A n \in 1..5 : n = 1 \/ n = 2 \/ n = 3 \/ n = 4 \/ n = 5 OBVIOUS
    <3> QED BY <3>1, <2>5, <2>6, <2>7, <2>8, <2>9, <2>10
  <2>12. /\ Service!Status \in 0..4
         /\ \A n \in 1..5 : all5[n] # Nothing => all5[n] <= Service!Status
         /\ \E n \in 1..5 : all5[n] # Nothing /\ Service!Status = all5[n]
    <3>1. 1 \in 1..Len(all5) /\ all5[1] # Nothing BY <2>5, <2>10, <1>0
    <3>2. 4 \in Nat /\ Len(all5) \in Nat BY <2>10
    <3>3. \A n \in 1..Len(all5) : all5[n] = Nothing \/ all5[n] \in 0..4 BY <2>10, <2>11
    <3>4. \A n \in 1..Len(all5) : all5[n] # Nothing =>
              /\ Fields!MaxArrived(all5) \in 0..4
              /\ all5[n] <= Fields!MaxArrived(all5)
              /\ \E k \in 1..Len(all5) : all5[k] # Nothing /\ Fields!MaxArrived(all5) = all5[k]
      BY <3>2, <3>3, MaxArrivedIs
    <3> QED BY <3>1, <3>4, <2>2, <2>10
  <2>13. Service!Status = 4 <=> ServiceDown
    <3>1. ServiceDown <=> insideDown = 4 \/ noInstance = 4 BY <2>8, <2>9 DEF ServiceDown
    <3>2. ASSUME insideDown = 4 \/ noInstance = 4 PROVE Service!Status = 4
      <4>1. all5[4] = 4 \/ all5[5] = 4 BY <3>2, <2>10
      <4> QED BY <4>1, <2>4, <2>12
    <3>3. ASSUME Service!Status = 4 PROVE insideDown = 4 \/ noInstance = 4
      <4>1. PICK n \in 1..5 : all5[n] = 4 BY <3>3, <2>12
      <4>2. n = 1 \/ n = 2 \/ n = 3 \/ n = 4 \/ n = 5 OBVIOUS
      <4>3. up # 4 /\ erred # 4 /\ crashing # 4 BY <2>4, <2>5, <2>6, <2>7
      <4> QED BY <4>1, <4>2, <4>3, <2>10
    <3> QED BY <3>1, <3>2, <3>3
  <2>14. Service!Had("crashed") \/ Service!Had("killed") => Service!Status \in {3, 4}
    <3> SUFFICES ASSUME Service!Had("crashed") \/ Service!Had("killed") PROVE Service!Status \in {3, 4} OBVIOUS
    <3>1. all5[3] = 3 BY <2>7, <2>10
    <3>2. 3 <= Service!Status BY <3>1, <2>4, <2>12
    <3> QED BY <3>2, <2>12
  <2>15. Service!Had("errors") => Service!Status \in {2, 3, 4}
    <3> SUFFICES ASSUME Service!Had("errors") PROVE Service!Status \in {2, 3, 4} OBVIOUS
    <3>1. all5[2] = 2 BY <2>6, <2>10
    <3>2. 2 <= Service!Status BY <3>1, <2>4, <2>12
    <3> QED BY <3>2, <2>12
  <2>16. /\ Service!STATUS[4] = "down" /\ Service!STATUS[3] = "crashing" /\ Service!STATUS[2] = "errors"
         /\ \A code \in {0, 1, 2, 3} : Service!STATUS[code] # "down"
    BY DEF Service!STATUS
  <2>17. Service!Says = "down" <=> Service!Status = 4
    <3>1. Service!Status = 4 \/ Service!Status \in {0, 1, 2, 3} BY <2>12
    <3> QED BY <2>1, <2>16, <3>1
  <2> QED BY <2>1, <2>13, <2>14, <2>15, <2>16, <2>17
<1> QED BY <1>1, <1>2

\* What holds of the service all along.
ServiceInv == ServiceTyped /\ Service!RecoversOnACount

\* Before the first slot.
LEMMA ServiceStarts == Service!Init => ServiceInv
<1> SUFFICES ASSUME Service!Init PROVE ServiceInv
  OBVIOUS
<1>1. ServiceTyped
  <2>1. Len(<<>>) = 0 /\ 0 <= Quarter BY ServiceAssumption
  <2> QED BY <2>1 DEF Service!Init, ServiceTyped
<1>2. slots = <<>> BY DEF Service!Init
<1>3. Service!RecoversOnACount BY <1>2 DEF Service!RecoversOnACount
<1> QED BY <1>1, <1>3 DEF ServiceInv

\* A window that moves on: what it drops, and where the rest is then.
LEMMA WindowMoves ==
  ASSUME NEW S, NEW w \in Seq(S), NEW x \in S, NEW most \in Nat, most > 0, Len(w) <= most,
         NEW next, next = IF Len(w) < most THEN Append(w, x) ELSE Append(Tail(w), x)
  PROVE  LET off == IF Len(w) < most THEN 0 ELSE 1
         IN /\ next \in Seq(S) /\ Len(next) = Len(w) + 1 - off /\ Len(next) <= most /\ Len(next) > 0
            /\ next[Len(next)] = x
            /\ \A n \in 1..(Len(next) - 1) : n + off \in 1..Len(w) /\ next[n] = w[n + off]
<1>1. CASE Len(w) < most BY <1>1
<1>2. CASE ~(Len(w) < most)
  <2>1. Len(w) = most /\ w # <<>> BY <1>2
  <2>2. Tail(w) \in Seq(S) /\ Len(Tail(w)) = Len(w) - 1 /\ \A n \in 1..(Len(w) - 1) : Tail(w)[n] = w[n + 1]
    BY <2>1
  <2> QED BY <1>2, <2>1, <2>2
<1> QED BY <1>1, <1>2

\* A slot later: a service that was down for want of an instance is up on a count.
LEMMA ServiceKeeps == ServiceInv /\ Service!Next => ServiceInv'
<1> SUFFICES ASSUME ServiceInv, Service!Next PROVE ServiceInv'
  OBVIOUS
<1>1. ServiceTyped /\ UNCHANGED <<warm, inside>> /\ service_said' = Service!Says
  BY DEF ServiceInv, Service!Next
<1>2. PICK slot \in ServiceSlots :
        slots' = IF Len(slots) < Quarter THEN Append(slots, slot) ELSE Append(Tail(slots), slot)
  <2>1. PICK instances \in {Nothing, 0, 1}, passing \in (IF inside THEN {Nothing, 0, 1} ELSE {Nothing}),
             event \in {"none", "5xx", "exit", "kill"} :
          slots' = IF Len(slots) < Quarter THEN Append(slots, Service!Slot(instances, passing, event))
                   ELSE Append(Tail(slots), Service!Slot(instances, passing, event))
    BY DEF Service!Next
  <2>2. Service!Slot(instances, passing, event) \in ServiceSlots BY DEF ServiceSlots
  <2> QED BY <2>1, <2>2
<1> DEFINE off == IF Len(slots) < Quarter THEN 0 ELSE 1
<1>3. /\ slots' \in Seq(ServiceSlots) /\ Len(slots') = Len(slots) + 1 - off /\ Len(slots') <= Quarter /\ Len(slots') > 0
      /\ slots'[Len(slots')] = slot
      /\ \A n \in 1..(Len(slots') - 1) : n + off \in 1..Len(slots) /\ slots'[n] = slots[n + off]
  <2>1. slots \in Seq(ServiceSlots) /\ Len(slots) <= Quarter BY <1>1 DEF ServiceTyped
  <2>2. Quarter \in Nat /\ Quarter > 0 BY ServiceAssumption
  <2> QED BY <1>2, <2>1, <2>2, WindowMoves
<1>4. ServiceSlots' = ServiceSlots BY <1>1 DEF ServiceSlots, Service!Slot
<1>5. ServiceTyped' BY <1>1, <1>3, <1>4 DEF ServiceTyped
<1>6. Service!RecoversOnACount'
  <2> SUFFICES ASSUME warm', ~inside', service_said' = "down", (Service!Says # "down")'
               PROVE  slots'[Len(slots')].instances = 1
    BY DEF Service!RecoversOnACount
  <2>1. (Service!Says = "down" <=> ServiceDown)'
    <3>1. (ServiceTyped => ServiceWords)' BY ServiceSays, PTL
    <3> QED BY <3>1, <1>5 DEF ServiceWords
  <2>2. LastIs("instances", 1)' BY <2>1 DEF ServiceDown
  <2>3. PICK n \in 1..Len(slots') : slots'[n].instances = 1
               /\ \A k \in 1..Len(slots') : k > n => slots'[k].instances = Nothing
    BY <2>2 DEF LastIs
  <2>4. Len(slots) \in Nat /\ Len(slots') \in Nat BY <1>1, <1>3 DEF ServiceTyped
  <2>5. CASE n = Len(slots') BY <2>3, <2>5
  <2>6. CASE n # Len(slots')
    <3>1. n \in 1..(Len(slots') - 1) BY <2>4, <2>6
    <3>2. n + off \in 1..Len(slots) /\ slots[n + off].instances = 1 BY <1>3, <2>3, <3>1
    <3>3. ASSUME NEW k \in 1..Len(slots), k > n + off PROVE slots[k].instances = Nothing
      <4>1. k - off \in 1..(Len(slots') - 1) /\ k - off > n BY <1>3, <2>4, <3>1, <3>3
      <4>2. slots'[k - off] = slots[k - off + off] BY <1>3, <4>1
      <4>3. k - off + off = k OBVIOUS
      <4> QED BY <2>3, <2>4, <4>1, <4>2, <4>3
    <3>4. LastIs("instances", 1) BY <3>2, <3>3 DEF LastIs
    <3>5. ~ServiceDown BY <1>1, <3>4 DEF ServiceDown
    <3>6. Service!Says # "down" BY <1>1, <3>5, ServiceSays DEF ServiceWords
    <3> QED BY <1>1, <3>6
  <2> QED BY <2>5, <2>6
<1> QED BY <1>5, <1>6 DEF ServiceInv

\* What the service tile promises follows from what it has.
LEMMA ServiceSafe == ServiceInv => Service!Safe
<1> SUFFICES ASSUME ServiceInv PROVE Service!Safe
  OBVIOUS
<1>1. ServiceTyped BY DEF ServiceInv
<1>2. /\ Service!Says = "down" <=> ServiceDown
      /\ Service!Had("crashed") \/ Service!Had("killed") => Service!Says \in {"crashing", "down"}
      /\ Service!Had("errors") => Service!Says \notin {"up", "idle"}
  BY <1>1, ServiceSays DEF ServiceWords
<1>3. Len(slots) \in Nat /\ Nothing # 0 /\ Nothing # 1 BY <1>1, NothingAssumption DEF ServiceTyped
<1>4. \A n \in 1..Len(slots) :
        /\ slots[n].instances \in {Nothing, 0, 1}
        /\ slots[n].inside \in {Nothing, 0, 1} /\ (~inside => slots[n].inside = Nothing)
  BY <1>1, ServiceSlotIs
<1>5. Service!DecidedIsDown
  <2>1. ASSUME warm, Service!BelowOne PROVE ServiceDown
    <3>1. Len(slots) >= BelowFor /\ \A k \in Service!Latest(BelowFor) : slots[k].instances = 0
      BY <2>1 DEF Service!BelowOne
    <3>2. Len(slots) \in Service!Latest(BelowFor) BY <1>3, <3>1, ServiceAssumption DEF Service!Latest
    <3>3. slots[Len(slots)].instances = 0 /\ Len(slots) \in 1..Len(slots) BY <3>1, <3>2 DEF Service!Latest
    <3>4. ~LastIs("instances", 1)
      <4> SUFFICES ASSUME NEW n \in 1..Len(slots), slots[n].instances = 1,
                          \A k \in 1..Len(slots) : k > n => slots[k].instances = Nothing
                   PROVE  FALSE
        BY DEF LastIs
      <4>1. n # Len(slots) BY <3>3
      <4> QED BY <4>1, <3>3, <1>3
    <3> QED BY <2>1, <3>4 DEF ServiceDown
  <2>2. ASSUME Service!RegionsDown PROVE ServiceDown
    <3>1. Len(slots) \in 1..Len(slots) /\ slots[Len(slots)].inside = 0
      BY <2>2, <1>3 DEF Service!RegionsDown
    <3>2. inside BY <3>1, <1>3, <1>4
    <3>3. LastIs("inside", 0) BY <3>1, <1>3 DEF LastIs
    <3> QED BY <3>2, <3>3 DEF ServiceDown
  <2> QED BY <2>1, <2>2, <1>2 DEF Service!DecidedIsDown
<1>6. \A S : S \subseteq 1..Len(slots) /\ S # {} => Service!Max(S) \in S /\ \A s \in S : s <= Service!Max(S)
  <2> SUFFICES ASSUME NEW S, S \subseteq 1..Len(slots), S # {}
               PROVE  Service!Max(S) \in S /\ \A s \in S : s <= Service!Max(S)
    OBVIOUS
  <2>1. Service!Max(S) = Fields!Max(S) BY DEF Service!Max, Fields!Max
  <2>2. S \subseteq 0..Len(slots) OBVIOUS
  <2> QED BY <1>3, <2>1, <2>2, MaxOf
<1>7. Service!DownForCause
  <2> SUFFICES ASSUME ServiceDown
               PROVE  \/ Service!Checked # {} /\ slots[Service!Max(Service!Checked)].inside = 0
                      \/ warm /\ (Service!Counted = {} \/ slots[Service!Max(Service!Counted)].instances = 0)
    BY <1>2 DEF Service!DownForCause
  <2>1. CASE inside /\ LastIs("inside", 0)
    <3>1. PICK n \in 1..Len(slots) : slots[n].inside = 0
                 /\ \A k \in 1..Len(slots) : k > n => slots[k].inside = Nothing
      BY <2>1 DEF LastIs
    <3>2. n \in Service!Checked /\ Service!Checked \subseteq 1..Len(slots)
      BY <3>1, <1>3 DEF Service!Checked, Service!Arrived
    <3>3. Service!Max(Service!Checked) \in Service!Checked /\ n <= Service!Max(Service!Checked) BY <3>2, <1>6
    <3>4. ~(Service!Max(Service!Checked) > n) BY <3>1, <3>3 DEF Service!Checked, Service!Arrived
    <3>5. Service!Max(Service!Checked) \in 1..Len(slots) BY <3>2, <3>3
    <3>6. Service!Max(Service!Checked) = n BY <3>3, <3>4, <3>5, <1>3
    <3> QED BY <3>1, <3>2, <3>6
  <2>2. CASE warm /\ ~LastIs("instances", 1)
    <3>1. CASE Service!Counted = {} BY <2>2, <3>1
    <3>2. CASE Service!Counted # {}
      <4> DEFINE m == Service!Max(Service!Counted)
      <4>1. Service!Counted \subseteq 1..Len(slots) BY DEF Service!Counted
      <4>2. m \in Service!Counted /\ \A s \in Service!Counted : s <= m BY <3>2, <4>1, <1>6
      <4>3. m \in 1..Len(slots) /\ slots[m].instances # Nothing BY <4>2 DEF Service!Counted, Service!Arrived
      <4> HIDE DEF m
      <4>4. ASSUME NEW k \in 1..Len(slots), k > m PROVE slots[k].instances = Nothing
        <5>1. k \notin Service!Counted BY <4>2, <4>3, <4>4, <1>3
        <5> QED BY <5>1 DEF Service!Counted, Service!Arrived
      <4>5. slots[m].instances # 1 BY <2>2, <4>3, <4>4 DEF LastIs
      <4>6. slots[m].instances = 0 BY <4>3, <4>5, <1>4
      <4> QED BY <2>2, <4>6 DEF m
    <3> QED BY <3>1, <3>2
  <2> QED BY <2>1, <2>2 DEF ServiceDown
<1>8. Service!WrongIsShown BY <1>2 DEF Service!WrongIsShown
<1>9. Service!RecoversOnACount BY DEF ServiceInv
<1>10. Service!AbsentIsDown
  <2> SUFFICES ASSUME warm
               PROVE  /\ Service!Absent /\ ~ServiceDown =>
                           \E k \in 1..Len(slots) \ Service!Latest(AbsentFor) : slots[k].instances = 1
                      /\ Service!Counted = {} => ServiceDown
    BY <1>2 DEF Service!AbsentIsDown
  <2>1. ASSUME Service!Absent, ~ServiceDown
        PROVE  \E k \in 1..Len(slots) \ Service!Latest(AbsentFor) : slots[k].instances = 1
    <3>1. PICK k \in 1..Len(slots) : slots[k].instances = 1
      BY <2>1 DEF ServiceDown, LastIs
    <3>2. k \notin Service!Latest(AbsentFor)
      BY <2>1, <3>1, <1>3 DEF Service!Absent, Service!Arrived
    <3> QED BY <3>1, <3>2
  <2>2. ASSUME Service!Counted = {} PROVE ServiceDown
    <3>1. \A k \in 1..Len(slots) : slots[k].instances = Nothing
      BY <2>2 DEF Service!Counted, Service!Arrived
    <3>2. ~LastIs("instances", 1) BY <3>1, <1>3 DEF LastIs
    <3> QED BY <3>2 DEF ServiceDown
  <2> QED BY <2>1, <2>2
<1> QED BY <1>5, <1>7, <1>8, <1>9, <1>10 DEF Service!Safe

-----------------------------------------------------------------------------
(* The point-in-time logs tile *)

\* What is kept of a slot.
LogsSlots ==
  {Logs!Slot(1, shipped, bad) : shipped \in {Nothing, 0, 1}, bad \in {0, 1}} \cup {Logs!NoPoint}

\* No more of them than the tile reads.
LogsTyped == archive_slots \in Seq(LogsSlots) /\ Len(archive_slots) <= PITR_MINUTES

\* It reported long enough to judge.
Enough == Cardinality(Logs!Reported) >= PITR_RAN_MINUTES

\* It counted no log shipped.
NoneShipped == \A n \in 1..Len(archive_slots) : archive_slots[n].shipped # 1

\* Its fields are calculated like the others.
LEMMA LogsFields ==
  /\ \A p : Logs!SumArrived(p) = Fields!SumArrived(p)
  /\ \A p : Logs!MaxArrived(p) = Fields!MaxArrived(p)
  /\ \A p : Logs!SumOfPoints(p) = Fields!SumOfPoints(p)
  /\ \A p : Logs!Max(p) = Fields!Max(p)
  /\ \A p : Logs!AtLeastOne(p) = Fields!AtLeastOne(p)
  /\ \A p : Logs!Cardinality(p) = Cardinality(p)
<1>1. \A p : Logs!Arrived(p) <=> Fields!Arrived(p) BY DEF Logs!Arrived, Fields!Arrived
<1>2. \A p : Logs!SumArrived(p) = Fields!SumArrived(p) BY DEF Logs!SumArrived, Fields!SumArrived, Logs!Arrived, Fields!Arrived
<1>3. \A p : Logs!Max(p) = Fields!Max(p) BY DEF Logs!Max, Fields!Max
<1>4. \A p : Logs!MaxArrived(p) = Fields!MaxArrived(p)
  BY <1>3 DEF Logs!MaxArrived, Fields!MaxArrived, Logs!Arrived, Fields!Arrived
<1>5. \A p : Logs!SumOfPoints(p) = Fields!SumOfPoints(p)
  BY <1>1, <1>2 DEF Logs!SumOfPoints, Fields!SumOfPoints
<1>6. \A p : Logs!AtLeastOne(p) = Fields!AtLeastOne(p)
  BY DEF Logs!AtLeastOne, Fields!AtLeastOne, Logs!CeilOf, Fields!CeilOf, Logs!Plus, Fields!Plus,
         Logs!Arrived, Fields!Arrived
<1>7. \A p : Logs!Cardinality(p) = Cardinality(p) BY DEF Logs!Cardinality, Cardinality
<1> QED BY <1>2, <1>3, <1>4, <1>5, <1>6, <1>7

\* What a slot holds: nothing at all where the instance did not report.
LEMMA LogsSlotIs ==
  ASSUME LogsTyped, NEW n \in 1..Len(archive_slots)
  PROVE  /\ archive_slots[n].shipped \in {Nothing, 0, 1} /\ archive_slots[n].failed \in {Nothing, 0, 1}
         /\ archive_slots[n].ran = IF archive_slots[n] = Logs!NoPoint THEN Nothing ELSE 1
         /\ archive_slots[n] = Logs!NoPoint <=> archive_slots[n].failed = Nothing
         /\ archive_slots[n] = Logs!NoPoint => archive_slots[n].shipped = Nothing
<1>1. archive_slots[n] \in LogsSlots BY DEF LogsTyped
<1>2. CASE archive_slots[n] = Logs!NoPoint BY <1>2 DEF Logs!NoPoint, Logs!Slot
<1>3. CASE \E shipped \in {Nothing, 0, 1}, bad \in {0, 1} : archive_slots[n] = Logs!Slot(1, shipped, bad)
  BY <1>3, NothingAssumption DEF Logs!NoPoint, Logs!Slot
<1> QED BY <1>1, <1>2, <1>3 DEF LogsSlots

\* The points of what is counted, summed.
LEMMA PointsSum ==
  ASSUME NEW points, Len(points) \in Nat, \A n \in 1..Len(points) : points[n] \in {Nothing, 0, 1}
  PROVE  /\ (\A n \in 1..Len(points) : points[n] = Nothing) => Fields!SumOfPoints(points) = Nothing
         /\ (\E n \in 1..Len(points) : points[n] # Nothing) =>
              /\ Fields!SumOfPoints(points) \in Nat
              /\ Fields!SumOfPoints(points) > 0 <=> \E n \in 1..Len(points) : points[n] = 1
<1>1. Readable(points) BY DEF Readable
<1>2. \A n \in 1..Len(points) : points[n] # Nothing => points[n] >= 0 OBVIOUS
<1>3. /\ Fields!SumArrived(points) \in Nat
      /\ Fields!SumArrived(points) > 0 <=> \E n \in 1..Len(points) : points[n] # Nothing /\ points[n] > 0
  BY <1>1, <1>2, SumOfCounts
<1>4. (\E n \in 1..Len(points) : points[n] # Nothing /\ points[n] > 0) <=> \E n \in 1..Len(points) : points[n] = 1
  BY NothingAssumption
<1> QED BY <1>3, <1>4 DEF Fields!SumOfPoints, Fields!Arrived

\* Those of a stretch.
LEMMA StretchSum ==
  ASSUME NEW field, NEW end \in Nat, NEW start \in Nat, 0 < start, start <= end,
         \A n \in start..end : field[n] \in {Nothing, 0, 1},
         NEW sum, sum = Fields!SumOfPoints([n \in 1..(end - start + 1) |-> field[start + n - 1]])
  PROVE  /\ (\A n \in start..end : field[n] = Nothing) => sum = Nothing
         /\ (\E n \in start..end : field[n] # Nothing) =>
              sum \in Nat /\ (sum > 0 <=> \E n \in start..end : field[n] = 1)
<1> DEFINE m == end - start + 1
<1> DEFINE points == [n \in 1..m |-> field[start + n - 1]]
<1>1. m \in Nat /\ points \in [1..m -> {Nothing, 0, 1}]
  <2>1. \A n \in 1..m : start + n - 1 \in start..end OBVIOUS
  <2> QED BY <2>1
<1>2. Len(points) = m BY <1>1
<1>3. \A n \in 1..m : points[n] = field[start + n - 1] OBVIOUS
<1>4. \A n \in start..end : n - start + 1 \in 1..m /\ points[n - start + 1] = field[n]
  <2> SUFFICES ASSUME NEW n \in start..end PROVE n - start + 1 \in 1..m /\ points[n - start + 1] = field[n]
    OBVIOUS
  <2>1. n - start + 1 \in 1..m OBVIOUS
  <2>2. start + (n - start + 1) - 1 = n OBVIOUS
  <2>3. points[n - start + 1] = field[start + (n - start + 1) - 1] BY <2>1, <1>3
  <2> QED BY <2>1, <2>2, <2>3
<1>5. \A n \in 1..m : start + n - 1 \in start..end OBVIOUS
<1>6. sum = Fields!SumOfPoints(points) OBVIOUS
<1>7. \A n \in 1..m : points[n] \in {Nothing, 0, 1} BY <1>1
<1> HIDE DEF points
<1>8. /\ (\A n \in 1..m : points[n] = Nothing) => sum = Nothing
      /\ (\E n \in 1..m : points[n] # Nothing) =>
              sum \in Nat /\ (sum > 0 <=> \E n \in 1..m : points[n] = 1)
  BY <1>1, <1>2, <1>6, <1>7, PointsSum
<1> HIDE DEF m
<1>9. (\A n \in 1..m : points[n] = Nothing) <=> \A n \in start..end : field[n] = Nothing BY <1>3, <1>4, <1>5
<1>10. (\E n \in 1..m : points[n] = 1) <=> \E n \in start..end : field[n] = 1 BY <1>3, <1>4, <1>5
<1> QED BY <1>8, <1>9, <1>10

\* Where a stretch begins is never before the first slot.
LEMMA MaxOfTwo == ASSUME NEW x \in Int PROVE Fields!Max({1, x}) = IF x >= 1 THEN x ELSE 1
<1>1. \E m \in {1, x} : \A y \in {1, x} : m >= y
  <2>1. CASE x >= 1 BY <2>1
  <2>2. CASE ~(x >= 1) BY <2>2
  <2> QED BY <2>1, <2>2
<1>2. Fields!Max({1, x}) \in {1, x} /\ \A y \in {1, x} : Fields!Max({1, x}) >= y BY <1>1, Zenon DEF Fields!Max
<1> QED BY <1>2

\* Where the stretch up to a slot begins.
FirstOfStretch(end, n) == Logs!Max({1, end - n + 1})

\* The slots from there on are those of the stretch.
LEMMA StretchBegins ==
  ASSUME NEW end \in Nat, end > 0, NEW n \in Nat, n > 0
  PROVE  /\ FirstOfStretch(end, n) \in 1..end
         /\ \A k \in 1..end : k >= FirstOfStretch(end, n) <=> k > end - n
<1>1. end - n + 1 \in Int OBVIOUS
<1>2. FirstOfStretch(end, n) = IF end - n + 1 >= 1 THEN end - n + 1 ELSE 1
  BY <1>1, MaxOfTwo, LogsFields DEF FirstOfStretch
<1> QED BY <1>2

\* What failed in the stretch up to a slot.
LEMMA FailedInIs ==
  ASSUME LogsTyped, NEW end \in 1..Len(archive_slots)
  PROVE  LET stretch == {k \in 1..end : k > end - PITR_FAILED_MINUTES}
         IN /\ stretch \cap Logs!Reported = {} => Logs!FailedIn(end) = Nothing
            /\ stretch \cap Logs!Reported # {} => Logs!FailedIn(end) \in Nat
<1> DEFINE start == FirstOfStretch(end, PITR_FAILED_MINUTES)
<1> DEFINE field == [n \in 1..Len(archive_slots) |-> archive_slots[n].failed]
<1> DEFINE stretch == {k \in 1..end : k > end - PITR_FAILED_MINUTES}
<1>1. Len(archive_slots) \in Nat /\ end \in Nat /\ end > 0 BY DEF LogsTyped
<1>2. start \in 1..end /\ \A k \in 1..end : k >= start <=> k > end - PITR_FAILED_MINUTES
  <2>1. PITR_FAILED_MINUTES \in Nat /\ PITR_FAILED_MINUTES > 0 BY LogsAssumption
  <2> QED BY <1>1, <2>1, StretchBegins
<1> HIDE DEF start
<1>3. \A n \in start..end : n \in 1..Len(archive_slots) /\ n \in stretch BY <1>1, <1>2
<1>4. \A n \in stretch : n \in start..end BY <1>1, <1>2
<1>5. Logs!FailedIn(end) = Fields!SumOfPoints([n \in 1..(end - start + 1) |-> field[start + n - 1]])
  <2>1. \A n \in 1..(end - start + 1) : start + n - 1 \in 1..Len(archive_slots) BY <1>1, <1>2
  <2>2. \A n \in 1..(end - start + 1) : field[start + n - 1] = archive_slots[start + n - 1].failed BY <2>1
  <2>3. [n \in 1..(end - start + 1) |-> field[start + n - 1]]
          = [n \in 1..(end - start + 1) |-> archive_slots[start + n - 1].failed]
    <3> HIDE DEF field
    <3> QED BY <2>2
  <2>4. Logs!FailedIn(end) = Logs!SumOfPoints([n \in 1..(end - start + 1) |-> archive_slots[start + n - 1].failed])
    BY DEF Logs!FailedIn, start, FirstOfStretch
  <2> QED BY <2>3, <2>4, LogsFields
<1>6. \A n \in start..end : field[n] = archive_slots[n].failed BY <1>3
<1>7. \A n \in start..end : field[n] \in {Nothing, 0, 1} BY <1>3, <1>6, LogsSlotIs
<1> HIDE DEF field
<1>8. /\ (\A n \in start..end : field[n] = Nothing) => Logs!FailedIn(end) = Nothing
      /\ (\E n \in start..end : field[n] # Nothing) => Logs!FailedIn(end) \in Nat
  <2>1. start \in Nat /\ 0 < start /\ start <= end BY <1>2
  <2> QED BY <1>1, <1>5, <1>7, <2>1, StretchSum
<1>9. \A n \in start..end : n \in Logs!Reported <=> field[n] # Nothing
  BY <1>3, <1>6, LogsSlotIs DEF Logs!Reported
<1> HIDE DEF stretch
<1>10. stretch \cap Logs!Reported = {} <=> \A n \in start..end : field[n] = Nothing BY <1>3, <1>4, <1>9
<1> QED BY <1>8, <1>10 DEF stretch

\* What the tile has of the failures: those of the latest stretch, if it reported.
LEMMA FailedOrNoneIs ==
  ASSUME LogsTyped
  PROVE  /\ Logs!FailedOrNone \in Nat
         /\ Logs!Latest(PITR_FAILED_MINUTES) \cap Logs!Reported # {} =>
              /\ Len(archive_slots) > 0 /\ Logs!FailedIn(Len(archive_slots)) \in Nat
              /\ Logs!FailedOrNone = Logs!FailedIn(Len(archive_slots))
         /\ Logs!Latest(PITR_FAILED_MINUTES) \cap Logs!Reported = {} /\ Len(archive_slots) > 0 =>
              Logs!FailedIn(Len(archive_slots)) = Nothing
<1> DEFINE L == Len(archive_slots)
<1> DEFINE ends == {n \in 1..L : (L - n) % PITR_FAILED_MINUTES = 0 /\ Logs!Arrived(Logs!FailedIn(n))}
<1>1. L \in Nat BY DEF LogsTyped
<1>2. \A n \in 1..L : Logs!FailedIn(n) = Nothing \/ Logs!FailedIn(n) \in Nat
  <2> SUFFICES ASSUME NEW n \in 1..L PROVE Logs!FailedIn(n) = Nothing \/ Logs!FailedIn(n) \in Nat OBVIOUS
  <2> DEFINE stretch == {k \in 1..n : k > n - PITR_FAILED_MINUTES}
  <2>1. CASE stretch \cap Logs!Reported = {} BY <2>1, FailedInIs
  <2>2. CASE stretch \cap Logs!Reported # {} BY <2>2, FailedInIs
  <2> QED BY <2>1, <2>2
<1>3. Logs!FailedOrNone = IF ends = {} THEN 0 ELSE Logs!FailedIn(Fields!Max(ends))
  BY LogsFields DEF Logs!FailedOrNone
<1>4. ends \subseteq 0..L /\ \A n \in ends : n \in 1..L /\ Logs!FailedIn(n) \in Nat BY <1>2 DEF Logs!Arrived
<1>5. ends # {} => Fields!Max(ends) \in ends /\ \A n \in ends : n <= Fields!Max(ends)
  <2> HIDE DEF ends
  <2> QED BY <1>1, <1>4, MaxOf
<1>6. L > 0 => Logs!Latest(PITR_FAILED_MINUTES) = {k \in 1..L : k > L - PITR_FAILED_MINUTES} BY DEF Logs!Latest
<1>7. L = 0 => Logs!Latest(PITR_FAILED_MINUTES) = {} BY DEF Logs!Latest
<1>8. ASSUME Logs!Latest(PITR_FAILED_MINUTES) \cap Logs!Reported # {}
      PROVE  L > 0 /\ Logs!FailedIn(L) \in Nat /\ Logs!FailedOrNone = Logs!FailedIn(L)
  <2>1. L > 0 BY <1>1, <1>7, <1>8
  <2>2. L \in 1..L BY <1>1, <2>1
  <2>3. Logs!FailedIn(L) \in Nat BY <1>6, <1>8, <2>1, <2>2, FailedInIs
  <2>4. (L - L) % PITR_FAILED_MINUTES = 0
    <3>1. L - L = 0 BY <1>1
    <3>2. 0 % PITR_FAILED_MINUTES = 0 BY LogsAssumption, NothingLeft
    <3> QED BY <3>1, <3>2
  <2>5. L \in ends BY <2>2, <2>3, <2>4, NothingAssumption DEF Logs!Arrived
  <2> HIDE DEF ends
  <2>6. Fields!Max(ends) \in 0..L /\ L <= Fields!Max(ends) BY <1>4, <1>5, <2>5
  <2>7. Fields!Max(ends) = L BY <1>1, <2>6
  <2> QED BY <2>1, <2>3, <2>5, <2>7, <1>3
<1>9. ASSUME Logs!Latest(PITR_FAILED_MINUTES) \cap Logs!Reported = {}, L > 0
      PROVE  Logs!FailedIn(L) = Nothing
  <2>1. L \in 1..L BY <1>1, <1>9
  <2> QED BY <1>6, <1>9, <2>1, FailedInIs
<1>10. Logs!FailedOrNone \in Nat
  <2> HIDE DEF ends
  <2> QED BY <1>3, <1>4, <1>5
<1> QED BY <1>8, <1>9, <1>10

\* The instance is judged on the slots it reported in.
LEMMA RanEnoughIs ==
  ASSUME LogsTyped
  PROVE  /\ Enough => Logs!RanEnough = 1
         /\ ~Enough => Logs!RanEnough \in {Nothing, 0}
         /\ IsFiniteSet(Logs!Reported) /\ Cardinality(Logs!Reported) \in Nat
<1> DEFINE L == Len(archive_slots)
<1> DEFINE c == Cardinality(Logs!Reported)
<1>1. L \in Nat /\ L <= PITR_MINUTES BY DEF LogsTyped
<1>2. Logs!Reported \in SUBSET (1..L) BY DEF Logs!Reported
<1>3. IsFiniteSet(1..L) /\ Cardinality(1..L) = L BY <1>1, FS_Interval
<1>4. IsFiniteSet(Logs!Reported) /\ c \in Nat /\ c <= L
  BY <1>2, <1>3, FS_Subset, FS_CardinalityType
<1> DEFINE points == Logs!Ran
<1>5. Len(points) = L /\ \A n \in 1..L : points[n] = archive_slots[n].ran BY <1>1 DEF Logs!Ran
<1>6. \A n \in 1..L : points[n] = IF n \in Logs!Reported THEN 1 ELSE Nothing
  BY <1>5, LogsSlotIs DEF Logs!Reported
<1> HIDE DEF points
<1>7. Fields!SumArrived(points) = c
  <2>1. Readable(points) BY <1>1, <1>5, <1>6 DEF Readable
  <2>2. \A n \in 1..Len(points) : points[n] # Nothing => points[n] <= IF n \in Logs!Reported THEN 1 ELSE 0
    BY <1>5, <1>6
  <2>3. \A n \in 1..Len(points) : IF n \in Logs!Reported THEN points[n] # Nothing /\ points[n] >= 1
                                                           ELSE points[n] # Nothing => points[n] >= 0
    BY <1>5, <1>6, NothingAssumption
  <2>4. Logs!Reported \in SUBSET (1..Len(points)) /\ 1 \in Nat BY <1>2, <1>5
  <2>5. /\ Fields!SumArrived(points) \in Int
        /\ Fields!SumArrived(points) <= 1 * c
        /\ Fields!SumArrived(points) >= 1 * c
    BY <2>1, <2>2, <2>3, <2>4, SumBetween
  <2> QED BY <1>4, <2>5
<1>8. Logs!SumOfPoints(points) = IF Logs!Reported = {} THEN Nothing ELSE c
  <2>1. (\E n \in 1..Len(points) : points[n] # Nothing) <=> Logs!Reported # {}
    BY <1>2, <1>5, <1>6, NothingAssumption
  <2>2. Logs!SumOfPoints(points) =
          IF \E n \in 1..Len(points) : points[n] # Nothing THEN Fields!SumArrived(points) ELSE Nothing
    BY LogsFields DEF Logs!SumOfPoints, Logs!Arrived
  <2> QED BY <2>1, <2>2, <1>7
<1>9. Logs!RanEnough = IF Logs!Reported = {} THEN Nothing ELSE c \div PITR_RAN_MINUTES
  <2>1. c # Nothing BY <1>4, NothingAssumption
  <2> QED BY <1>8, <2>1 DEF Logs!RanEnough, Logs!FloorOf, Logs!Arrived, points
<1>10. PITR_RAN_MINUTES \in Nat /\ PITR_RAN_MINUTES > 0 /\ PITR_MINUTES \in Nat /\ PITR_MINUTES < 2 * PITR_RAN_MINUTES
  BY LogsAssumption
<1>11. ASSUME Enough PROVE Logs!RanEnough = 1
  <2>1. c >= PITR_RAN_MINUTES BY <1>11 DEF Enough
  <2>2. Logs!Reported # {} BY <1>10, <2>1, FS_EmptySet
  <2>3. PITR_RAN_MINUTES * 1 <= c /\ c < PITR_RAN_MINUTES * 1 + PITR_RAN_MINUTES
    BY <1>1, <1>4, <1>10, <2>1
  <2>4. c \div PITR_RAN_MINUTES = 1 BY <1>4, <1>10, <2>3, QuotientIs
  <2> QED BY <1>9, <2>2, <2>4
<1>12. ASSUME ~Enough PROVE Logs!RanEnough \in {Nothing, 0}
  <2>1. c < PITR_RAN_MINUTES BY <1>4, <1>10, <1>12 DEF Enough
  <2>2. PITR_RAN_MINUTES * 0 <= c /\ c < PITR_RAN_MINUTES * 0 + PITR_RAN_MINUTES BY <1>4, <1>10, <2>1
  <2>3. c \div PITR_RAN_MINUTES = 0 BY <1>4, <1>10, <2>2, QuotientIs
  <2> QED BY <1>9, <2>3
<1> QED BY <1>4, <1>11, <1>12

\* The tile has 1 for a log shipped, and 0 for none.
LEMMA ShippingIs == LogsTyped => Logs!Shipping = IF NoneShipped THEN 0 ELSE 1
<1> SUFFICES ASSUME LogsTyped PROVE Logs!Shipping = IF NoneShipped THEN 0 ELSE 1
  OBVIOUS
<1> DEFINE L == Len(archive_slots)
<1> DEFINE points == Logs!Shipped
<1> DEFINE s == Fields!SumOfPoints(points)
<1>1. L \in Nat BY DEF LogsTyped
<1>2. Len(points) = L /\ \A n \in 1..L : points[n] = archive_slots[n].shipped BY <1>1 DEF Logs!Shipped
<1>3. \A n \in 1..L : points[n] \in {Nothing, 0, 1} BY <1>2, LogsSlotIs
<1>4. NoneShipped <=> ~\E n \in 1..L : points[n] = 1 BY <1>2 DEF NoneShipped
<1>5. Logs!Shipping = Fields!AtLeastOne(Fields!SumArrived(<<s>>)) BY LogsFields DEF Logs!Shipping
<1> HIDE DEF points
<1>6. /\ (\A n \in 1..Len(points) : points[n] = Nothing) => s = Nothing
      /\ (\E n \in 1..Len(points) : points[n] # Nothing) =>
              s \in Nat /\ (s > 0 <=> \E n \in 1..Len(points) : points[n] = 1)
  BY <1>1, <1>2, <1>3, PointsSum
<1> HIDE DEF s
<1>7. s = Nothing \/ s \in Nat BY <1>6
<1>8. s # Nothing /\ s > 0 <=> ~NoneShipped
  <2>1. Nothing \notin Nat /\ Nothing # 1 BY NothingAssumption
  <2> QED BY <1>2, <1>4, <1>6, <2>1
<1> DEFINE one == <<s>>
<1>9. Len(one) = 1 /\ one[1] = s OBVIOUS
<1>10. Readable(one) /\ \A n \in 1..Len(one) : one[n] # Nothing => one[n] >= 0 BY <1>7, <1>9 DEF Readable
<1> HIDE DEF one
<1>11. /\ Fields!SumArrived(one) \in Nat
       /\ Fields!SumArrived(one) > 0 <=> \E n \in 1..Len(one) : one[n] # Nothing /\ one[n] > 0
  BY <1>10, SumOfCounts
<1>12. Fields!SumArrived(one) > 0 <=> ~NoneShipped BY <1>8, <1>9, <1>11
<1>13. Fields!AtLeastOne(Fields!SumArrived(one)) = IF NoneShipped THEN 0 ELSE 1 BY <1>11, <1>12, AtLeastOneIs
<1> QED BY <1>5, <1>13 DEF one

\* What the tile says, by what it has.
LogsWords ==
  /\ Logs!Says = "stalled" <=> Enough /\ NoneShipped
  /\ Logs!Reported # {} /\ Logs!FailedOrNone > 0 => Logs!Says \in {"archive failed", "stalled"}
  /\ Logs!Says = "archive failed" => Logs!FailedOrNone > 0

\* The tile says so.
LEMMA LogsSay == LogsTyped => LogsWords
<1> SUFFICES ASSUME LogsTyped PROVE LogsWords
  OBVIOUS
<1> DEFINE L == Len(archive_slots)
<1> DEFINE empty == \A n \in 1..L : archive_slots[n] = Logs!NoPoint
<1>0. \A v \in Int : v # Nothing BY NothingAssumption
<1>1. empty <=> Logs!Reported = {} BY DEF Logs!Reported
<1>2. /\ Enough => Logs!RanEnough = 1
      /\ ~Enough => Logs!RanEnough \in {Nothing, 0}
      /\ IsFiniteSet(Logs!Reported) /\ Cardinality(Logs!Reported) \in Nat
  BY RanEnoughIs
<1>3. CASE empty
  <2>1. Logs!Status = Nothing BY <1>3 DEF Logs!Status
  <2>2. Logs!Says = "not reporting" BY <2>1 DEF Logs!Says
  <2>3. Cardinality(Logs!Reported) = 0 BY <1>1, <1>3, FS_EmptySet
  <2>4. ~Enough BY <2>3, LogsAssumption DEF Enough
  <2>5. Logs!Reported = {} BY <1>1, <1>3
  <2>6. "not reporting" # "stalled" /\ "not reporting" # "archive failed" OBVIOUS
  <2> QED BY <2>2, <2>4, <2>5, <2>6 DEF LogsWords
<1>4. CASE ~empty
  <2> DEFINE shipping == Logs!Shipping
  <2> DEFINE bad == Logs!Times(Logs!AtLeastOne(Logs!FailedOrNone), 2)
  <2> DEFINE stalled == Logs!Times(Logs!Stalled, 4)
  <2> DEFINE all3 == <<shipping, bad, stalled>>
  <2>1. Logs!Status = Fields!MaxArrived(all3) BY <1>4, LogsFields DEF Logs!Status
  <2>2. shipping = IF NoneShipped THEN 0 ELSE 1 BY ShippingIs
  <2>3. \A v, w : Logs!Times(v, w) = IF v # Nothing /\ w # Nothing THEN v * w ELSE Nothing
    BY DEF Logs!Times, Logs!Arrived
  <2>4. Logs!FailedOrNone \in Nat BY FailedOrNoneIs
  <2>5. bad = IF Logs!FailedOrNone > 0 THEN 2 ELSE 0
    <3>1. Logs!AtLeastOne(Logs!FailedOrNone) = IF Logs!FailedOrNone = 0 THEN 0 ELSE 1
      BY <2>4, LogsFields, AtLeastOneIs
    <3> QED BY <3>1, <2>3, <2>4, <1>0
  <2>6. stalled \in {Nothing, 0, 4} /\ (stalled = 4 <=> Enough /\ NoneShipped)
    <3>1. Logs!Minus(1, Logs!Shipping) = IF NoneShipped THEN 1 ELSE 0
      <4>1. Logs!Shipping \in {0, 1} /\ (Logs!Shipping = 0 <=> NoneShipped) BY <2>2
      <4>2. 1 # Nothing /\ Logs!Shipping # Nothing BY <4>1, <1>0
      <4>3. Logs!Minus(1, Logs!Shipping) = 1 - Logs!Shipping BY <4>2 DEF Logs!Minus, Logs!Arrived
      <4> QED BY <4>1, <4>3
    <3>2. Logs!Stalled = Logs!Times(Logs!RanEnough, IF NoneShipped THEN 1 ELSE 0) BY <3>1 DEF Logs!Stalled
    <3>3. Logs!Stalled \in {Nothing, 0, 1} /\ (Logs!Stalled = 1 <=> Enough /\ NoneShipped)
      BY <3>2, <2>3, <1>0, <1>2
    <3> QED BY <3>3, <2>3, <1>0
  <2>7. Len(all3) = 3 /\ all3[1] = shipping /\ all3[2] = bad /\ all3[3] = stalled OBVIOUS
  <2> HIDE DEF shipping, bad, stalled
  <2> HIDE DEF all3
  <2>8. \A n \in 1..3 : all3[n] = Nothing \/ all3[n] \in {0, 1, 2, 4}
    <3>1. \A n \in 1..3 : n = 1 \/ n = 2 \/ n = 3 OBVIOUS
    <3> QED BY <3>1, <2>2, <2>5, <2>6, <2>7
  <2>9. /\ Logs!Status \in {0, 1, 2, 4}
        /\ \A n \in 1..3 : all3[n] # Nothing => all3[n] <= Logs!Status
        /\ \E n \in 1..3 : all3[n] # Nothing /\ Logs!Status = all3[n]
    <3>1. 1 \in 1..Len(all3) /\ all3[1] # Nothing BY <2>2, <2>7, <1>0
    <3>2. 4 \in Nat /\ Len(all3) \in Nat BY <2>7
    <3>3. \A n \in 1..Len(all3) : all3[n] = Nothing \/ all3[n] \in 0..4 BY <2>7, <2>8
    <3>4. \A n \in 1..Len(all3) : all3[n] # Nothing =>
              /\ Fields!MaxArrived(all3) \in 0..4
              /\ all3[n] <= Fields!MaxArrived(all3)
              /\ \E k \in 1..Len(all3) : all3[k] # Nothing /\ Fields!MaxArrived(all3) = all3[k]
      BY <3>2, <3>3, MaxArrivedIs
    <3>5. /\ \A n \in 1..3 : all3[n] # Nothing => all3[n] <= Logs!Status
          /\ \E n \in 1..3 : all3[n] # Nothing /\ Logs!Status = all3[n]
      BY <3>1, <3>4, <2>1, <2>7
    <3> QED BY <3>5, <2>8
  <2>10. Logs!Says = Logs!PITR_STATUS[Logs!Status] BY <2>9, <1>0 DEF Logs!Says
  <2>11. /\ Logs!PITR_STATUS[4] = "stalled" /\ Logs!PITR_STATUS[2] = "archive failed"
         /\ Logs!PITR_STATUS[0] = "no logs yet" /\ Logs!PITR_STATUS[1] = "shipping"
    BY DEF Logs!PITR_STATUS
  <2>12. Logs!Status = 4 <=> stalled = 4
    <3>1. ASSUME stalled = 4 PROVE Logs!Status = 4
      <4>1. all3[3] = 4 BY <3>1, <2>7
      <4>2. 4 <= Logs!Status BY <4>1, <1>0, <2>9
      <4> QED BY <4>2, <2>9
    <3>2. ASSUME Logs!Status = 4 PROVE stalled = 4
      <4>1. PICK n \in 1..3 : all3[n] = 4 BY <3>2, <2>9
      <4>2. n = 1 \/ n = 2 \/ n = 3 OBVIOUS
      <4> QED BY <4>1, <4>2, <2>2, <2>5, <2>7
    <3> QED BY <3>1, <3>2
  <2>13. Logs!Status = 2 => bad = 2
    <3> SUFFICES ASSUME Logs!Status = 2 PROVE bad = 2 OBVIOUS
    <3>1. PICK n \in 1..3 : all3[n] = 2 BY <2>9
    <3>2. n = 1 \/ n = 2 \/ n = 3 OBVIOUS
    <3>3. stalled # 2 /\ shipping # 2 BY <2>2, <2>6, <1>0
    <3> QED BY <3>1, <3>2, <3>3, <2>7
  <2>14. bad = 2 => Logs!Status \in {2, 4}
    <3> SUFFICES ASSUME bad = 2 PROVE Logs!Status \in {2, 4} OBVIOUS
    <3>1. all3[2] = 2 BY <2>7
    <3>2. 2 <= Logs!Status BY <3>1, <1>0, <2>9
    <3> QED BY <3>2, <2>9
  <2>15. Logs!Says = "stalled" <=> Logs!Status = 4 BY <2>9, <2>10, <2>11
  <2>16. Logs!Says = "archive failed" <=> Logs!Status = 2 BY <2>9, <2>10, <2>11
  <2> QED BY <2>5, <2>6, <2>12, <2>13, <2>14, <2>15, <2>16 DEF LogsWords
<1> QED BY <1>3, <1>4

\* What holds of the logs all along.
LogsInv == LogsTyped /\ Logs!StallStays

\* Before the first slot.
LEMMA LogsStarts == Logs!Init => LogsInv
<1> SUFFICES ASSUME Logs!Init PROVE LogsInv
  OBVIOUS
<1>1. LogsTyped
  <2>1. Len(<<>>) = 0 /\ 0 <= PITR_MINUTES BY LogsAssumption
  <2> QED BY <2>1 DEF Logs!Init, LogsTyped
<1>2. archive_said = Logs!Says BY DEF Logs!Init
<1>3. Logs!StallStays BY <1>2 DEF Logs!StallStays
<1> QED BY <1>1, <1>3 DEF LogsInv

\* The slots reported in can be counted.
LEMMA ReportedCounts == LogsTyped => Cardinality(Logs!Reported) \in Nat
BY RanEnoughIs

\* A slot later: a stall is over when a log is shipped.
LEMMA LogsKeeps == LogsInv /\ Logs!Next => LogsInv'
<1> SUFFICES ASSUME LogsInv, Logs!Next PROVE LogsInv'
  OBVIOUS
<1>1. LogsTyped /\ archive_said' = Logs!Says BY DEF LogsInv, Logs!Next
<1>2. PICK slot \in LogsSlots :
        archive_slots' = IF Len(archive_slots) < PITR_MINUTES THEN Append(archive_slots, slot)
                         ELSE Append(Tail(archive_slots), slot)
  <2>1. CASE Logs!Runs
    <3>1. PICK shipped \in {Nothing, 0, 1}, bad \in {0, 1} : Logs!Read(Logs!Slot(1, shipped, bad))
      BY <2>1 DEF Logs!Runs
    <3>2. Logs!Slot(1, shipped, bad) \in LogsSlots BY DEF LogsSlots
    <3> QED BY <3>1, <3>2 DEF Logs!Read
  <2>2. CASE Logs!Stopped
    <3>1. Logs!NoPoint \in LogsSlots BY DEF LogsSlots
    <3> QED BY <2>2, <3>1 DEF Logs!Stopped, Logs!Read
  <2> QED BY <2>1, <2>2 DEF Logs!Next
<1> DEFINE off == IF Len(archive_slots) < PITR_MINUTES THEN 0 ELSE 1
<1>3. /\ archive_slots' \in Seq(LogsSlots) /\ Len(archive_slots') <= PITR_MINUTES /\ Len(archive_slots') > 0
      /\ archive_slots'[Len(archive_slots')] = slot
      /\ \A n \in 1..(Len(archive_slots') - 1) :
           n + off \in 1..Len(archive_slots) /\ archive_slots'[n] = archive_slots[n + off]
  <2>1. archive_slots \in Seq(LogsSlots) /\ Len(archive_slots) <= PITR_MINUTES BY <1>1 DEF LogsTyped
  <2>2. PITR_MINUTES \in Nat /\ PITR_MINUTES > 0 BY LogsAssumption
  <2> QED BY <1>2, <2>1, <2>2, WindowMoves
<1>4. LogsTyped' BY <1>3 DEF LogsTyped, LogsSlots
<1>5. Logs!StallStays'
  <2> SUFFICES ASSUME archive_said' = "stalled", (Logs!Says # "stalled")',
                      (~(Cardinality(Logs!Reported) < PITR_RAN_MINUTES))'
               PROVE  archive_slots'[Len(archive_slots')].shipped = 1
    BY LogsFields DEF Logs!StallStays
  <2>1. LogsWords'
    <3>1. (LogsTyped => LogsWords)' BY LogsSay, PTL
    <3> QED BY <3>1, <1>4
  <2>2. Enough'
    <3>1. (LogsTyped => Cardinality(Logs!Reported) \in Nat)' BY ReportedCounts, PTL
    <3> QED BY <3>1, <1>4, LogsAssumption DEF Enough
  <2>3. ~NoneShipped' BY <2>1, <2>2 DEF LogsWords
  <2>4. PICK n \in 1..Len(archive_slots') : archive_slots'[n].shipped = 1 BY <2>3 DEF NoneShipped
  <2>5. NoneShipped BY <1>1, LogsSay DEF LogsWords
  <2>6. Len(archive_slots') \in Nat BY <1>3
  <2>7. CASE n = Len(archive_slots') BY <2>4, <2>7
  <2>8. CASE n # Len(archive_slots')
    <3>1. n \in 1..(Len(archive_slots') - 1) BY <2>6, <2>8
    <3>2. n + off \in 1..Len(archive_slots) /\ archive_slots[n + off].shipped = 1 BY <1>3, <2>4, <3>1
    <3> QED BY <3>2, <2>5 DEF NoneShipped
  <2> QED BY <2>7, <2>8
<1> QED BY <1>4, <1>5 DEF LogsInv

\* The counts of the policy's period up to a slot.
LEMMA SumAtIs ==
  ASSUME LogsTyped, NEW end \in 1..Len(archive_slots)
  PROVE  LET stretch == {k \in 1..end : k > end - Period}
         IN /\ (\A k \in stretch : archive_slots[k].shipped # Nothing) => Logs!SumAt(end) \in Nat
            /\ Logs!SumAt(end) # Nothing =>
                 Logs!SumAt(end) < 1 <=> \A k \in stretch : archive_slots[k].shipped # 1
<1> DEFINE start == FirstOfStretch(end, Period)
<1> DEFINE field == [n \in 1..Len(archive_slots) |-> archive_slots[n].shipped]
<1> DEFINE stretch == {k \in 1..end : k > end - Period}
<1>1. Len(archive_slots) \in Nat /\ end \in Nat /\ end > 0 BY DEF LogsTyped
<1>2. start \in 1..end /\ \A k \in 1..end : k >= start <=> k > end - Period
  <2>1. Period \in Nat /\ Period > 0 BY LogsAssumption
  <2> QED BY <1>1, <2>1, StretchBegins
<1> HIDE DEF start
<1>3. \A n \in start..end : n \in 1..Len(archive_slots) /\ n \in stretch BY <1>1, <1>2
<1>4. \A n \in stretch : n \in start..end BY <1>1, <1>2
<1>5. Logs!SumAt(end) = Fields!SumOfPoints([n \in 1..(end - start + 1) |-> field[start + n - 1]])
  <2>1. \A n \in 1..(end - start + 1) : start + n - 1 \in 1..Len(archive_slots) BY <1>1, <1>2
  <2>2. \A n \in 1..(end - start + 1) : field[start + n - 1] = archive_slots[start + n - 1].shipped BY <2>1
  <2>3. [n \in 1..(end - start + 1) |-> field[start + n - 1]]
          = [n \in 1..(end - start + 1) |-> archive_slots[start + n - 1].shipped]
    <3> HIDE DEF field
    <3> QED BY <2>2
  <2>4. Logs!SumAt(end) = Logs!SumOfPoints([n \in 1..(end - start + 1) |-> archive_slots[start + n - 1].shipped])
    BY DEF Logs!SumAt, start, FirstOfStretch
  <2> QED BY <2>3, <2>4, LogsFields
<1>6. \A n \in start..end : field[n] = archive_slots[n].shipped BY <1>3
<1>7. \A n \in start..end : field[n] \in {Nothing, 0, 1} BY <1>3, <1>6, LogsSlotIs
<1> HIDE DEF field
<1>8. /\ (\A n \in start..end : field[n] = Nothing) => Logs!SumAt(end) = Nothing
      /\ (\E n \in start..end : field[n] # Nothing) =>
           /\ Logs!SumAt(end) \in Nat
           /\ Logs!SumAt(end) > 0 <=> \E n \in start..end : field[n] = 1
  <2>1. start \in Nat /\ 0 < start /\ start <= end BY <1>2
  <2> QED BY <1>1, <1>5, <1>7, <2>1, StretchSum
<1> HIDE DEF stretch
<1>9. start \in start..end BY <1>2
<1>10. (\A k \in stretch : archive_slots[k].shipped # Nothing) => Logs!SumAt(end) \in Nat
  <2> SUFFICES ASSUME \A k \in stretch : archive_slots[k].shipped # Nothing PROVE Logs!SumAt(end) \in Nat
    OBVIOUS
  <2>1. field[start] # Nothing BY <1>3, <1>6, <1>9
  <2> QED BY <1>8, <1>9, <2>1
<1>11. (\E n \in start..end : field[n] = 1) <=> ~\A k \in stretch : archive_slots[k].shipped # 1
  BY <1>3, <1>4, <1>6
<1>12. Logs!SumAt(end) # Nothing =>
         Logs!SumAt(end) < 1 <=> \A k \in stretch : archive_slots[k].shipped # 1
  BY <1>8, <1>11
<1> QED BY <1>10, <1>12 DEF stretch

\* What the logs tile and its alerts have makes them agree.
LEMMA LogsSafe == LogsInv => Logs!Safe
<1> SUFFICES ASSUME LogsInv PROVE Logs!Safe
  OBVIOUS
<1> DEFINE L == Len(archive_slots)
<1>1. LogsTyped /\ L \in Nat BY DEF LogsInv, LogsTyped
<1>2. LogsWords BY <1>1, LogsSay
<1>3. /\ PITR_MINUTES \in Nat /\ PITR_RAN_MINUTES \in Nat /\ PITR_RAN_MINUTES > 0
      /\ PITR_FAILED_MINUTES \in Nat /\ PITR_FAILED_MINUTES > 0 /\ Period \in Nat /\ Period > 0
      /\ PITR_RAN_MINUTES < PITR_MINUTES /\ PITR_MINUTES <= PITR_RAN_MINUTES + Period
  BY LogsAssumption
<1>4. Nothing # 1 BY NothingAssumption
<1>5. Logs!PagedIsStalled
  <2> SUFFICES ASSUME Logs!LogsStalled, Cardinality(Logs!Reported) >= PITR_RAN_MINUTES PROVE NoneShipped
    BY <1>2, LogsFields DEF Logs!PagedIsStalled, LogsWords, Enough
  <2>1. CASE Logs!BelowOneHeld
    <3>1. L = PITR_MINUTES BY <2>1 DEF Logs!BelowOneHeld
    <3>2. \A end \in (PITR_MINUTES - PITR_RAN_MINUTES)..PITR_MINUTES :
            Logs!SumAt(end) # Nothing /\ Logs!SumAt(end) < 1
      BY <2>1 DEF Logs!BelowOneHeld, Logs!Arrived
    <3>3. ASSUME NEW k \in 1..L PROVE archive_slots[k].shipped # 1
      <4> DEFINE end == IF k >= PITR_MINUTES - PITR_RAN_MINUTES THEN k ELSE PITR_MINUTES - PITR_RAN_MINUTES
      <4>1. end \in (PITR_MINUTES - PITR_RAN_MINUTES)..PITR_MINUTES /\ end \in 1..L BY <1>3, <3>1
      <4>2. k \in 1..end /\ k > end - Period BY <1>3, <3>1
      <4> HIDE DEF end
      <4>3. Logs!SumAt(end) # Nothing /\ Logs!SumAt(end) < 1 BY <3>2, <4>1
      <4>4. k \in {j \in 1..end : j > end - Period} BY <4>2
      <4> QED BY <1>1, <4>1, <4>3, <4>4, SumAtIs
    <3> QED BY <3>3 DEF NoneShipped
  <2>2. CASE Logs!Absent
    <3>1. \A n \in 1..L : archive_slots[n].shipped = Nothing BY <2>2 DEF Logs!Absent, Logs!Arrived
    <3> QED BY <3>1, <1>4 DEF NoneShipped
  <2> QED BY <2>1, <2>2 DEF Logs!LogsStalled
<1>6. Logs!StalledIsPaged
  <2> SUFFICES ASSUME NoneShipped, L = PITR_MINUTES, \A n \in 1..L : archive_slots[n].shipped # Nothing
               PROVE  Logs!BelowOneHeld
    BY <1>2 DEF Logs!StalledIsPaged, LogsWords, Logs!LogsStalled, Logs!Arrived
  <2> SUFFICES ASSUME NEW end \in (PITR_MINUTES - PITR_RAN_MINUTES)..PITR_MINUTES
               PROVE  Logs!SumAt(end) # Nothing /\ Logs!SumAt(end) < 1
    BY DEF Logs!BelowOneHeld, Logs!Arrived
  <2>1. end \in 1..L BY <1>3
  <2> DEFINE stretch == {k \in 1..end : k > end - Period}
  <2>2. \A k \in stretch : k \in 1..L BY <2>1
  <2>3. \A k \in stretch : archive_slots[k].shipped # Nothing /\ archive_slots[k].shipped # 1
    <3> HIDE DEF stretch
    <3> QED BY <2>2 DEF NoneShipped
  <2>4. Logs!SumAt(end) \in Nat BY <1>1, <2>1, <2>3, SumAtIs
  <2>5. Logs!SumAt(end) # Nothing BY <2>4, NothingAssumption
  <2>6. Logs!SumAt(end) < 1 BY <1>1, <2>1, <2>3, <2>5, SumAtIs
  <2> QED BY <2>5, <2>6
<1>7. Logs!FailureAsPaged
  <2>1. ASSUME Logs!ArchiveFailed PROVE Logs!Says \in {"archive failed", "stalled"}
    <3>1. L > 0 /\ Logs!FailedIn(L) # Nothing /\ Logs!FailedIn(L) > 0
      BY <2>1 DEF Logs!ArchiveFailed, Logs!Arrived
    <3>2. Logs!Latest(PITR_FAILED_MINUTES) \cap Logs!Reported # {} BY <1>1, <3>1, FailedOrNoneIs
    <3>3. Logs!FailedOrNone = Logs!FailedIn(L) BY <1>1, <3>2, FailedOrNoneIs
    <3>4. Logs!Reported # {} BY <3>2
    <3> QED BY <3>1, <3>3, <3>4, <1>2 DEF LogsWords
  <2>2. ASSUME Logs!Says = "archive failed", Logs!Latest(PITR_FAILED_MINUTES) \cap Logs!Reported # {}
        PROVE  Logs!ArchiveFailed
    <3>1. L > 0 /\ Logs!FailedIn(L) \in Nat /\ Logs!FailedOrNone = Logs!FailedIn(L)
      BY <1>1, <2>2, FailedOrNoneIs
    <3>2. Logs!FailedOrNone > 0 BY <1>2, <2>2 DEF LogsWords
    <3>3. Logs!FailedIn(L) # Nothing BY <3>1, NothingAssumption
    <3> QED BY <3>1, <3>2, <3>3 DEF Logs!ArchiveFailed, Logs!Arrived
  <2> QED BY <2>1, <2>2 DEF Logs!FailureAsPaged
<1>8. Logs!StallStays BY DEF LogsInv
<1> QED BY <1>5, <1>6, <1>7, <1>8 DEF Logs!Safe

-----------------------------------------------------------------------------
(* An area's tile *)

\* A minute as it is read, or with a point that has not arrived.
Partial == {m \in [Area!Series -> {Nothing, 0, 1}] : m.others # 0}

\* A minute as the tile reads it: of the checks nothing, where the area has none.
Whole == {m \in Partial : ~checks => m.passing = Nothing /\ m.uptime = Nothing}

\* What holds of the area all along.
AreaInv == checks \in BOOLEAN /\ window \in Seq(Whole) /\ Len(window) <= Minutes

\* Its fields are calculated like the others.
LEMMA AreaFields ==
  /\ \A p : Area!SumArrived(p) = Fields!SumArrived(p)
  /\ \A p : Area!SumOfPoints(p) = Fields!SumOfPoints(p)
  /\ \A p : Area!AtLeastOne(p) = Fields!AtLeastOne(p)
  /\ \A p : Area!Cardinality(p) = Cardinality(p)
<1>1. \A p : Area!Arrived(p) <=> Fields!Arrived(p) BY DEF Area!Arrived, Fields!Arrived
<1>2. \A p : Area!SumArrived(p) = Fields!SumArrived(p) BY DEF Area!SumArrived, Fields!SumArrived, Area!Arrived, Fields!Arrived
<1>5. \A p : Area!SumOfPoints(p) = Fields!SumOfPoints(p)
  BY <1>1, <1>2 DEF Area!SumOfPoints, Fields!SumOfPoints
<1>6. \A p : Area!AtLeastOne(p) = Fields!AtLeastOne(p)
  BY DEF Area!AtLeastOne, Fields!AtLeastOne, Area!CeilOf, Fields!CeilOf, Area!Plus, Fields!Plus,
         Area!Arrived, Fields!Arrived
<1>7. \A p : Area!Cardinality(p) = Cardinality(p) BY DEF Area!Cardinality, Cardinality
<1> QED BY <1>2, <1>5, <1>6, <1>7

\* The series of a minute.
LEMMA SeriesAre ==
  Area!Series = {"errors", "db", "own", "others", "passing", "uptime"}
BY DEF Area!Series, Area!Values

\* What is read of a minute that is seen.
LEMMA ReadIsWhole ==
  ASSUME checks \in BOOLEAN, NEW m \in Area!AMinuteSeen
  PROVE  Area!Read(m) \in Whole
<1>1. m \in Area!AMinute BY DEF Area!AMinuteSeen
<1>2. m \in [Area!Series -> {Nothing, 0, 1}]
      /\ \A s \in Area!Series : m[s] \in {Area!Values[s][n] : n \in DOMAIN Area!Values[s]}
  BY <1>1 DEF Area!AMinute
<1>3. m.others # 0
  <2>1. "others" \in Area!Series BY SeriesAre
  <2>2. Area!Values["others"] = <<1, Nothing>> BY DEF Area!Values
  <2>3. m["others"] \in {<<1, Nothing>>[n] : n \in DOMAIN <<1, Nothing>>} BY <1>2, <2>1, <2>2
  <2>4. m["others"] \in {1, Nothing} BY <2>3
  <2> QED BY <2>4, NothingAssumption
<1>4. Area!Read(m) \in [Area!Series -> {Nothing, 0, 1}] BY <1>2 DEF Area!Read
<1>5. "others" \in Area!Series /\ "others" \notin Area!Checked BY SeriesAre DEF Area!Checked
<1>6. Area!Read(m).others = m.others BY <1>5 DEF Area!Read
<1>7. ~checks => Area!Read(m).passing = Nothing /\ Area!Read(m).uptime = Nothing
  BY SeriesAre DEF Area!Read, Area!Checked
<1> QED BY <1>3, <1>4, <1>6, <1>7 DEF Partial, Whole

\* Before the first minute.
LEMMA AreaStarts == Area!Init => AreaInv
<1>1. Len(<<>>) = 0 /\ 0 <= Minutes BY AreaAssumption
<1> QED BY <1>1 DEF Area!Init, AreaInv

\* A minute later.
LEMMA AreaKeeps == AreaInv /\ Area!Next => AreaInv'
<1> SUFFICES ASSUME AreaInv, Area!Next PROVE AreaInv'
  OBVIOUS
<1>1. PICK m \in Area!AMinuteSeen :
        /\ window' = IF Len(window) < Minutes THEN Append(window, Area!Read(m)) ELSE Append(Tail(window), Area!Read(m))
        /\ checks' = checks
  BY DEF Area!Next
<1>2. checks \in BOOLEAN /\ window \in Seq(Whole) /\ Len(window) <= Minutes BY DEF AreaInv
<1>3. Area!Read(m) \in Whole BY <1>2, ReadIsWhole
<1>4. Minutes \in Nat /\ Minutes > 0 BY AreaAssumption
<1>5. window' \in Seq(Whole) /\ Len(window') <= Minutes BY <1>1, <1>2, <1>3, <1>4, WindowMoves
<1>6. Whole' = Whole BY <1>1 DEF Whole, Partial, Area!Series, Area!Values
<1> QED BY <1>1, <1>2, <1>5, <1>6 DEF AreaInv

\* What each row of a minute says.
LEMMA RowsSay ==
  ASSUME NEW m \in Partial
  PROVE  /\ Area!Rows(m).errors = m.errors /\ m.errors \in {Nothing, 0, 1}
         /\ Area!Rows(m).down = IF m.db = Nothing THEN Nothing ELSE 1 - m.db
         /\ m.db \in {Nothing, 0, 1}
         /\ Area!Rows(m).none =
              IF m.own = 0 \/ (m.own = Nothing /\ m.others = 1) THEN 1 ELSE IF m.own = 1 THEN 0 ELSE Nothing
         /\ m.own \in {Nothing, 0, 1} /\ m.others \in {Nothing, 1}
         /\ Area!Rows(m).failing = IF m.passing = Nothing THEN Nothing ELSE 1 - m.passing
         /\ m.passing \in {Nothing, 0, 1}
         /\ Area!Rows(m).reporting \in {Nothing, 0, -1} /\ m.uptime \in {Nothing, 0, 1}
         /\ Area!Rows(m).reporting = Nothing <=> IF checks THEN m.uptime = Nothing ELSE m.db = Nothing
<1>0. Nothing # 0 /\ Nothing # 1 /\ Nothing # -1 BY NothingAssumption
<1>1. /\ m.errors \in {Nothing, 0, 1} /\ m.db \in {Nothing, 0, 1} /\ m.own \in {Nothing, 0, 1}
      /\ m.others \in {Nothing, 1} /\ m.passing \in {Nothing, 0, 1} /\ m.uptime \in {Nothing, 0, 1}
  BY SeriesAre DEF Partial
<1>2. /\ Area!Rows(m).errors = m.errors /\ Area!Rows(m).down = Area!DbDown(m)
      /\ Area!Rows(m).none = Area!NoInstance(m) /\ Area!Rows(m).failing = Area!InsideFailing(m)
      /\ Area!Rows(m).reporting = Area!Reporting(m)
  BY DEF Area!Rows
<1>3. Area!AtLeastOne(Nothing) = Nothing /\ Area!AtLeastOne(0) = 0 /\ Area!AtLeastOne(1) = 1
  <2>1. Fields!AtLeastOne(0) = 0 /\ Fields!AtLeastOne(1) = 1 BY AtLeastOneIs
  <2>2. Area!AtLeastOne(Nothing) = Nothing BY DEF Area!AtLeastOne, Area!CeilOf, Area!Arrived
  <2> QED BY <2>1, <2>2, AreaFields
<1>4. \A v : Area!PointsOf(v) = IF v = Nothing THEN Nothing ELSE 1 BY DEF Area!PointsOf, Area!Arrived
<1>5. \A v, w : Area!Minus(v, w) = IF v # Nothing /\ w # Nothing THEN v - w ELSE Nothing
  BY DEF Area!Minus, Area!Arrived
<1>6. Area!DbDown(m) = IF m.db = Nothing THEN Nothing ELSE 1 - m.db
  BY <1>0, <1>3, <1>4, <1>5 DEF Area!DbDown
<1>7. Area!InsideFailing(m) = IF m.passing = Nothing THEN Nothing ELSE 1 - m.passing
  BY <1>0, <1>1, <1>3, <1>4, <1>5 DEF Area!InsideFailing
<1>8. Area!Reporting(m) \in {Nothing, 0, -1} /\ (Area!Reporting(m) = Nothing <=> IF checks THEN m.uptime = Nothing ELSE m.db = Nothing)
  BY <1>0, <1>1, <1>4 DEF Area!Reporting, Area!Times, Area!Arrived
<1>9. Area!ProjectRan(m) = IF m.own = Nothing /\ m.others = Nothing THEN Nothing ELSE 1
  <2> DEFINE two == <<Area!PointsOf(m.own), Area!PointsOf(m.others)>>
  <2>1. Len(two) = 2 /\ two[1] = Area!PointsOf(m.own) /\ two[2] = Area!PointsOf(m.others) OBVIOUS
  <2>2. Area!ProjectRan(m) = Fields!AtLeastOne(Fields!SumOfPoints(two)) BY AreaFields DEF Area!ProjectRan
  <2> HIDE DEF two
  <2>3. \A n \in 1..Len(two) : two[n] \in {Nothing, 0, 1}
    <3>1. \A n \in 1..2 : n = 1 \/ n = 2 OBVIOUS
    <3> QED BY <3>1, <2>1, <1>4
  <2>4. /\ (\A n \in 1..Len(two) : two[n] = Nothing) => Fields!SumOfPoints(two) = Nothing
        /\ (\E n \in 1..Len(two) : two[n] # Nothing) =>
             /\ Fields!SumOfPoints(two) \in Nat
             /\ Fields!SumOfPoints(two) > 0 <=> \E n \in 1..Len(two) : two[n] = 1
    BY <2>1, <2>3, PointsSum
  <2>5. CASE m.own = Nothing /\ m.others = Nothing
    <3>1. two[1] = Nothing /\ two[2] = Nothing BY <2>1, <2>5, <1>4
    <3>2. \A n \in 1..Len(two) : n = 1 \/ n = 2 BY <2>1
    <3>3. Fields!SumOfPoints(two) = Nothing BY <3>1, <3>2, <2>4
    <3>4. Fields!AtLeastOne(Nothing) = Nothing BY <1>3, AreaFields
    <3> QED BY <2>2, <2>5, <3>3, <3>4
  <2>6. CASE ~(m.own = Nothing /\ m.others = Nothing)
    <3>1. two[1] = 1 \/ two[2] = 1 BY <2>1, <2>6, <1>4
    <3>2. Fields!SumOfPoints(two) \in Nat /\ Fields!SumOfPoints(two) > 0 BY <2>1, <2>4, <3>1, <1>0
    <3>3. Fields!AtLeastOne(Fields!SumOfPoints(two)) = 1 BY <3>2, AtLeastOneIs
    <3> QED BY <2>2, <2>6, <3>3
  <2> QED BY <2>5, <2>6
<1>10. Area!AtLeastOne(Area!SumArrived(<<m.own>>)) = IF m.own = 1 THEN 1 ELSE 0
  BY <1>1, AreaFields, RunningIs
<1>11. Area!NoInstance(m) =
         IF m.own = 0 \/ (m.own = Nothing /\ m.others = 1) THEN 1 ELSE IF m.own = 1 THEN 0 ELSE Nothing
  BY <1>0, <1>1, <1>5, <1>9, <1>10 DEF Area!NoInstance
<1> QED BY <1>1, <1>2, <1>6, <1>7, <1>8, <1>11

\* In how many of the minutes a row says that something is wrong.
Wrong(w, name) == {n \in 1..Len(w) : Area!Rows(w[n])[name] = 1}

\* The rows hold a number or no value.
LEMMA RowValues ==
  ASSUME NEW m \in Partial, NEW name \in Area!Names
  PROVE  /\ Area!Rows(m)[name] \in {Nothing, 0, 1, -1}
         /\ name # "reporting" => Area!Rows(m)[name] # -1
         /\ name = "reporting" => Area!Rows(m)[name] # 1
<1>0. Nothing # 0 /\ Nothing # 1 /\ Nothing # -1 BY NothingAssumption
<1>1. CASE name = "errors" BY <1>0, <1>1, RowsSay
<1>2. CASE name = "down" BY <1>0, <1>2, RowsSay
<1>3. CASE name = "none" BY <1>0, <1>3, RowsSay
<1>4. CASE name = "failing" BY <1>0, <1>4, RowsSay
<1>5. CASE name = "reporting" BY <1>0, <1>5, RowsSay
<1> QED BY <1>1, <1>2, <1>3, <1>4, <1>5 DEF Area!Names

\* A row's total counts those minutes.
LEMMA TotalIs ==
  ASSUME NEW w \in Seq(Partial), NEW name \in Area!Names
  PROVE  LET total == Area!Totals(w)[name]
         IN /\ total = Nothing <=> \A n \in 1..Len(w) : Area!Rows(w[n])[name] = Nothing
            /\ total # Nothing => total \in Int
            /\ IsFiniteSet(Wrong(w, name)) /\ Cardinality(Wrong(w, name)) \in Nat
            /\ total # Nothing =>
                 IF name = "reporting" THEN total <= 0 ELSE total = Cardinality(Wrong(w, name))
<1> DEFINE points == [n \in DOMAIN w |-> Area!Rows(w[n])[name]]
<1> DEFINE sum == Fields!SumArrived(points)
<1>0. Nothing # 0 /\ Nothing # 1 /\ Nothing # -1 /\ \A v \in Int : v # Nothing BY NothingAssumption
<1>1. Len(w) \in Nat /\ DOMAIN w = 1..Len(w) /\ \A n \in 1..Len(w) : w[n] \in Partial OBVIOUS
<1>2. Len(points) = Len(w) /\ \A n \in 1..Len(w) : points[n] = Area!Rows(w[n])[name] BY <1>1
<1>3. Area!Totals(w)[name] = Area!SumOfPoints(points)
  <2>1. Area!Totals(w)[name] =
          Area!SumOfPoints([n \in DOMAIN w |-> [k \in DOMAIN w |-> Area!Rows(w[k])][n][name]])
    BY DEF Area!Totals
  <2>2. [n \in DOMAIN w |-> [k \in DOMAIN w |-> Area!Rows(w[k])][n][name]] = points OBVIOUS
  <2> QED BY <2>1, <2>2
<1> HIDE DEF points
<1>4. Area!Totals(w)[name] = IF \E n \in 1..Len(w) : points[n] # Nothing THEN sum ELSE Nothing
  BY <1>2, <1>3, AreaFields DEF Area!SumOfPoints, Area!Arrived
<1>5. \A n \in 1..Len(w) : /\ points[n] \in {Nothing, 0, 1, -1}
                           /\ name # "reporting" => points[n] # -1
                           /\ name = "reporting" => points[n] # 1
  BY <1>1, <1>2, RowValues
<1>6. Readable(points) BY <1>1, <1>2, <1>5 DEF Readable
<1>7. Wrong(w, name) \in SUBSET (1..Len(w)) BY DEF Wrong
<1>8. \A n \in 1..Len(w) : n \in Wrong(w, name) <=> points[n] = 1 BY <1>2 DEF Wrong
<1>9. IsFiniteSet(Wrong(w, name)) /\ Cardinality(Wrong(w, name)) \in Nat
  <2>1. IsFiniteSet(1..Len(w)) BY <1>1, FS_Interval
  <2> QED BY <1>7, <2>1, FS_Subset, FS_CardinalityType
<1>10. sum \in Int BY <1>2, <1>6, <1>7, SumBetween
<1>11. CASE name = "reporting"
  <2>1. {} \in SUBSET (1..Len(points)) /\ 0 \in Nat OBVIOUS
  <2>2. \A n \in 1..Len(points) : points[n] # Nothing => points[n] <= IF n \in {} THEN 0 ELSE 0
    BY <1>2, <1>5, <1>11
  <2>3. sum <= 0 * Cardinality({}) BY <1>6, <2>1, <2>2, SumBetween
  <2>4. Cardinality({}) = 0 BY FS_EmptySet
  <2>5. sum <= 0 BY <2>3, <2>4
  <2> QED BY <1>0, <1>2, <1>4, <1>9, <1>10, <1>11, <2>5
<1>12. CASE name # "reporting"
  <2>1. Wrong(w, name) \in SUBSET (1..Len(points)) /\ 1 \in Nat BY <1>2, <1>7
  <2>2. \A n \in 1..Len(points) : points[n] # Nothing => points[n] <= IF n \in Wrong(w, name) THEN 1 ELSE 0
    BY <1>2, <1>5, <1>8, <1>12
  <2>3. \A n \in 1..Len(points) : IF n \in Wrong(w, name) THEN points[n] # Nothing /\ points[n] >= 1
                                                            ELSE points[n] # Nothing => points[n] >= 0
    BY <1>0, <1>2, <1>5, <1>8, <1>12
  <2>4. sum <= 1 * Cardinality(Wrong(w, name)) /\ sum >= 1 * Cardinality(Wrong(w, name))
    BY <1>6, <2>1, <2>2, <2>3, SumBetween
  <2>5. sum = Cardinality(Wrong(w, name)) BY <1>9, <1>10, <2>4
  <2> QED BY <1>0, <1>2, <1>4, <1>9, <1>10, <1>12, <2>5
<1> QED BY <1>11, <1>12

\* A row is a problem where it counts something, or a spell's minutes.
LEMMA ProblemIs ==
  ASSUME NEW name \in Area!Names, NEW v, v = Nothing \/ v \in Int
  PROVE  Area!Problem(name, v) = 1 <=> v # Nothing /\ IF name = "none" THEN v >= Spell ELSE v > 0
<1>0. Nothing # 1 /\ \A k \in Int : k # Nothing BY NothingAssumption
<1>1. Spell \in Nat /\ Spell > 0 BY AreaAssumption
<1> DEFINE u == Area!Whole(name, v)
<1>2. u = IF name = "none" THEN (IF v = Nothing THEN Nothing ELSE v \div Spell) ELSE v
  BY DEF Area!Whole, Area!FloorOf, Area!Arrived
<1>3. CASE v = Nothing
  <2>1. u = Nothing BY <1>2, <1>3
  <2>2. Area!AboveZero(Nothing) = Nothing BY DEF Area!AboveZero, Area!FloorOf, Area!Plus, Area!Arrived
  <2>3. Area!AtLeastOne(Nothing) = Nothing BY DEF Area!AtLeastOne, Area!CeilOf, Area!Arrived
  <2>4. Area!Problem(name, v) = Nothing BY <2>1, <2>2, <2>3 DEF Area!Problem
  <2> QED BY <1>0, <1>3, <2>4
<1>4. CASE v # Nothing
  <2>1. v \in Int BY <1>4
  <2>2. u \in Int /\ (u > 0 <=> IF name = "none" THEN v >= Spell ELSE v > 0)
    <3>1. CASE name = "none"
      <4>1. u = v \div Spell BY <1>2, <1>4, <3>1
      <4>2. u \in Int /\ Spell * u <= v /\ v < Spell * u + Spell BY <1>1, <2>1, <4>1, Quotient
      <4> HIDE DEF u
      <4>3. u > 0 => v >= Spell
        <5> SUFFICES ASSUME u > 0 PROVE v >= Spell OBVIOUS
        <5>1. Spell * u >= Spell * 1 BY <1>1, <4>2
        <5> QED BY <1>1, <2>1, <4>2, <5>1
      <4>4. u <= 0 => v < Spell
        <5> SUFFICES ASSUME u <= 0 PROVE v < Spell OBVIOUS
        <5>1. Spell * u <= 0 BY <1>1, <4>2
        <5> QED BY <1>1, <2>1, <4>2, <5>1
      <4> QED BY <1>1, <2>1, <3>1, <4>2, <4>3, <4>4
    <3>2. CASE name # "none" BY <1>2, <2>1, <3>2
    <3> QED BY <3>1, <3>2
  <2> HIDE DEF u
  <2>3. Area!AboveZero(u) = IF u > 0 THEN u ELSE 0
    <3>1. Area!Abs(u) = IF u < 0 THEN -u ELSE u BY <1>0, <2>2 DEF Area!Abs, Area!Arrived
    <3>2. Area!Plus(u, Area!Abs(u)) = u + (IF u < 0 THEN -u ELSE u)
      <4>1. Area!Abs(u) \in Int BY <2>2, <3>1
      <4>2. u # Nothing /\ Area!Abs(u) # Nothing BY <1>0, <2>2, <4>1
      <4>3. Area!Plus(u, Area!Abs(u)) = u + Area!Abs(u) BY <4>2 DEF Area!Plus, Area!Arrived
      <4> QED BY <3>1, <4>3
    <3>3. u + (IF u < 0 THEN -u ELSE u) \in Int BY <2>2
    <3>4. Area!AboveZero(u) = (u + (IF u < 0 THEN -u ELSE u)) \div 2
      BY <1>0, <3>2, <3>3 DEF Area!AboveZero, Area!FloorOf, Area!Arrived
    <3> QED BY <2>2, <3>4
  <2>4. Area!AtLeastOne(Area!AboveZero(u)) = IF u > 0 THEN 1 ELSE 0
    <3>1. Area!AboveZero(u) \in Nat /\ (Area!AboveZero(u) = 0 <=> ~(u > 0)) BY <2>2, <2>3
    <3> QED BY <3>1, AreaFields, AtLeastOneIs
  <2>5. Area!Problem(name, v) = IF u > 0 THEN 1 ELSE 0 BY <2>4 DEF Area!Problem, u
  <2> QED BY <1>4, <2>2, <2>5
<1> QED BY <1>3, <1>4

\* What the points of some minutes tell.
ToldOf(w) ==
  {p \in {"errors"} : \E n \in 1..Len(w) : w[n].errors = 1}
    \cup {p \in {"down"} : \E n \in 1..Len(w) : w[n].db = 0}
    \cup {p \in {"failing"} : \E n \in 1..Len(w) : w[n].passing = 0}
    \cup {p \in {"none"} :
           Cardinality({n \in 1..Len(w) : w[n].own = 0 \/ (w[n].own = Nothing /\ w[n].others = 1)}) >= Spell}

\* The rows the tile counts are those the points tell of.
LEMMA ProblemsAreTold ==
  ASSUME NEW w \in Seq(Partial)
  PROVE  Area!Problems(w) = ToldOf(w)
<1>0. Nothing # 0 /\ Nothing # 1 BY NothingAssumption
<1>1. Len(w) \in Nat /\ \A n \in 1..Len(w) : w[n] \in Partial OBVIOUS
<1>2. \A name \in Area!Names :
        name \in Area!Problems(w) <=>
          /\ name # "reporting"
          /\ IF name = "none" THEN Cardinality(Wrong(w, name)) >= Spell ELSE Wrong(w, name) # {}
  <2> SUFFICES ASSUME NEW name \in Area!Names
               PROVE  name \in Area!Problems(w) <=>
                        /\ name # "reporting"
                        /\ IF name = "none" THEN Cardinality(Wrong(w, name)) >= Spell ELSE Wrong(w, name) # {}
    OBVIOUS
  <2> DEFINE total == Area!Totals(w)[name]
  <2>1. /\ total = Nothing <=> \A n \in 1..Len(w) : Area!Rows(w[n])[name] = Nothing
        /\ total # Nothing => total \in Int
        /\ IsFiniteSet(Wrong(w, name)) /\ Cardinality(Wrong(w, name)) \in Nat
        /\ total # Nothing => IF name = "reporting" THEN total <= 0 ELSE total = Cardinality(Wrong(w, name))
    BY TotalIs
  <2>2. name \in Area!Problems(w) <=> Area!Problem(name, total) = 1 BY DEF Area!Problems
  <2> HIDE DEF total
  <2>3. Area!Problem(name, total) = 1 <=> total # Nothing /\ IF name = "none" THEN total >= Spell ELSE total > 0
    BY <2>1, ProblemIs
  <2>4. total = Nothing => Wrong(w, name) = {} BY <1>0, <2>1 DEF Wrong
  <2>5. Cardinality(Wrong(w, name)) = 0 <=> Wrong(w, name) = {} BY <2>1, FS_EmptySet
  <2>6. Spell > 0 /\ Spell \in Nat BY AreaAssumption
  <2>7. CASE total = Nothing BY <2>2, <2>3, <2>4, <2>5, <2>6, <2>7
  <2>8. CASE total # Nothing /\ name = "reporting" BY <2>1, <2>2, <2>3, <2>8
  <2>9. CASE total # Nothing /\ name # "reporting" BY <2>1, <2>2, <2>3, <2>5, <2>9
  <2> QED BY <2>7, <2>8, <2>9
<1>3. Wrong(w, "errors") = {n \in 1..Len(w) : w[n].errors = 1} BY <1>1, RowsSay DEF Wrong
<1>4. Wrong(w, "down") = {n \in 1..Len(w) : w[n].db = 0}
  <2>1. \A n \in 1..Len(w) : Area!Rows(w[n]).down = 1 <=> w[n].db = 0 BY <1>0, <1>1, RowsSay
  <2> QED BY <2>1 DEF Wrong
<1>5. Wrong(w, "failing") = {n \in 1..Len(w) : w[n].passing = 0}
  <2>1. \A n \in 1..Len(w) : Area!Rows(w[n]).failing = 1 <=> w[n].passing = 0 BY <1>0, <1>1, RowsSay
  <2> QED BY <2>1 DEF Wrong
<1>6. Wrong(w, "none") = {n \in 1..Len(w) : w[n].own = 0 \/ (w[n].own = Nothing /\ w[n].others = 1)}
  <2>1. \A n \in 1..Len(w) : Area!Rows(w[n]).none = 1 <=> w[n].own = 0 \/ (w[n].own = Nothing /\ w[n].others = 1)
    BY <1>0, <1>1, RowsSay
  <2> QED BY <2>1 DEF Wrong
<1>7. Area!Names = {"errors", "down", "none", "failing", "reporting"} BY DEF Area!Names
<1>8. Area!Problems(w) \subseteq Area!Names BY DEF Area!Problems
<1>9. ToldOf(w) \subseteq Area!Names BY DEF ToldOf, Area!Names
<1>10. \A name \in Area!Names : name \in Area!Problems(w) <=> name \in ToldOf(w)
  <2>1. "errors" \in Area!Problems(w) <=> "errors" \in ToldOf(w)
    <3>1. "errors" \in Area!Problems(w) <=> \E n \in 1..Len(w) : w[n].errors = 1 BY <1>2, <1>3, <1>7
    <3> QED BY <3>1 DEF ToldOf
  <2>2. "down" \in Area!Problems(w) <=> "down" \in ToldOf(w)
    <3>1. "down" \in Area!Problems(w) <=> \E n \in 1..Len(w) : w[n].db = 0 BY <1>2, <1>4, <1>7
    <3> QED BY <3>1 DEF ToldOf
  <2>3. "failing" \in Area!Problems(w) <=> "failing" \in ToldOf(w)
    <3>1. "failing" \in Area!Problems(w) <=> \E n \in 1..Len(w) : w[n].passing = 0 BY <1>2, <1>5, <1>7
    <3> QED BY <3>1 DEF ToldOf
  <2>4. "none" \in Area!Problems(w) <=> "none" \in ToldOf(w)
    <3>1. "none" \in Area!Problems(w) <=> Cardinality(Wrong(w, "none")) >= Spell BY <1>2, <1>7
    <3> QED BY <3>1, <1>6 DEF ToldOf
  <2>5. "reporting" \notin Area!Problems(w) /\ "reporting" \notin ToldOf(w) BY <1>2, <1>7 DEF ToldOf
  <2> QED BY <1>7, <2>1, <2>2, <2>3, <2>4, <2>5
<1> QED BY <1>8, <1>9, <1>10

\* What the area's tile and its table promise.
LEMMA AreaSafe == AreaInv => Area!Safe
<1> SUFFICES ASSUME AreaInv PROVE Area!Safe
  OBVIOUS
<1>0. Nothing # 0 /\ Nothing # 1 /\ \A k \in Int : k # Nothing BY NothingAssumption
<1>1. checks \in BOOLEAN /\ window \in Seq(Whole) /\ Whole \subseteq Partial BY DEF AreaInv, Whole
<1>2. window \in Seq(Partial) /\ Len(window) \in Nat /\ DOMAIN window = 1..Len(window)
      /\ \A n \in 1..Len(window) : window[n] \in Whole
  <2>1. Len(window) \in Nat /\ DOMAIN window = 1..Len(window) /\ \A n \in 1..Len(window) : window[n] \in Whole BY <1>1
  <2>2. \A n \in 1..Len(window) : window[n] \in Partial BY <1>1, <2>1
  <2>3. window \in [1..Len(window) -> Partial] BY <1>1, <2>1, <2>2
  <2> QED BY <2>1, <2>3
<1>3. Area!Problems(window) = ToldOf(window) BY <1>2, ProblemsAreTold
<1>4. Area!Told = ToldOf(window)
  <2>1. \A s, v : Area!Has(s, v) = {n \in 1..Len(window) : window[n][s] = v} BY <1>2 DEF Area!Has
  <2>2. Area!Has("own", 0) \cup (Area!Has("own", Nothing) \cap Area!Has("others", 1))
          = {n \in 1..Len(window) : window[n].own = 0 \/ (window[n].own = Nothing /\ window[n].others = 1)}
    BY <2>1
  <2>3. /\ Area!Has("errors", 1) # {} <=> \E n \in 1..Len(window) : window[n].errors = 1
        /\ Area!Has("db", 0) # {} <=> \E n \in 1..Len(window) : window[n].db = 0
        /\ Area!Has("passing", 0) # {} <=> \E n \in 1..Len(window) : window[n].passing = 0
    BY <2>1
  <2>4. Area!Cardinality(Area!Has("own", 0) \cup (Area!Has("own", Nothing) \cap Area!Has("others", 1)))
          = Cardinality({n \in 1..Len(window) : window[n].own = 0 \/ (window[n].own = Nothing /\ window[n].others = 1)})
    BY <2>2, AreaFields
  <2> QED BY <2>3, <2>4 DEF Area!Told, ToldOf
<1>5. Area!CountsWhatIsTold BY <1>3, <1>4 DEF Area!CountsWhatIsTold
<1>6. Area!LatePointsAddNothing
  <2> SUFFICES ASSUME NEW s \in Area!Series \ {"own"}, window # <<>>
               PROVE  Area!Problems([window EXCEPT ![Len(window)][s] = Nothing]) \subseteq ToldOf(window)
    BY <1>3 DEF Area!LatePointsAddNothing
  <2> DEFINE late == [window EXCEPT ![Len(window)][s] = Nothing]
  <2>1. Len(window) \in 1..Len(window) BY <1>2
  <2>2. window[Len(window)] \in Partial BY <1>1, <1>2, <2>1
  <2> DEFINE m == [window[Len(window)] EXCEPT ![s] = Nothing]
  <2>3. m \in Partial BY <1>0, <2>2, SeriesAre DEF Partial
  <2>4. late = [window EXCEPT ![Len(window)] = m] OBVIOUS
  <2>5. late \in Seq(Partial) /\ Len(late) = Len(window)
    <3> HIDE DEF m, late
    <3> QED BY <1>2, <2>1, <2>3, <2>4
  <2>6. \A n \in 1..Len(window) :
          /\ late[n].errors = 1 => window[n].errors = 1
          /\ late[n].db = 0 => window[n].db = 0
          /\ late[n].passing = 0 => window[n].passing = 0
          /\ late[n].own = window[n].own
          /\ late[n].others = 1 => window[n].others = 1
    <3> SUFFICES ASSUME NEW n \in 1..Len(window)
                 PROVE  /\ late[n].errors = 1 => window[n].errors = 1
                        /\ late[n].db = 0 => window[n].db = 0
                        /\ late[n].passing = 0 => window[n].passing = 0
                        /\ late[n].own = window[n].own
                        /\ late[n].others = 1 => window[n].others = 1
      OBVIOUS
    <3>1. late[n] = IF n = Len(window) THEN m ELSE window[n]
      <4> HIDE DEF m
      <4> QED BY <1>2, <2>1, <2>4
    <3>2. CASE n # Len(window) BY <3>1, <3>2
    <3>3. CASE n = Len(window)
      <4>1. \A t \in Area!Series : m[t] = IF t = s THEN Nothing ELSE window[n][t] BY <2>2, <3>3 DEF Partial
      <4>2. late[n] = m BY <3>1, <3>3
      <4> HIDE DEF m, late
      <4>3. \A t \in Area!Series : late[n][t] = IF t = s THEN Nothing ELSE window[n][t] BY <4>1, <4>2
      <4>4. s # "own" OBVIOUS
      <4> QED BY <1>0, <4>3, <4>4, SeriesAre
    <3> QED BY <3>2, <3>3
  <2>7. Area!Problems(late) = ToldOf(late) BY <2>5, ProblemsAreTold
  <2> HIDE DEF late
  <2>8. ToldOf(late) \subseteq ToldOf(window)
    <3> DEFINE N(w) == {n \in 1..Len(w) : w[n].own = 0 \/ (w[n].own = Nothing /\ w[n].others = 1)}
    <3>1. N(late) \subseteq N(window) BY <2>5, <2>6
    <3>2. IsFiniteSet(N(window))
      <4>1. IsFiniteSet(1..Len(window)) BY <1>2, FS_Interval
      <4>2. N(window) \subseteq 1..Len(window) OBVIOUS
      <4> HIDE DEF N
      <4> QED BY <4>1, <4>2, FS_Subset
    <3> HIDE DEF N
    <3>3. Cardinality(N(late)) \in Nat /\ Cardinality(N(window)) \in Nat /\ Cardinality(N(late)) <= Cardinality(N(window))
      BY <3>1, <3>2, FS_Subset, FS_CardinalityType
    <3>4. Cardinality(N(late)) >= Spell => Cardinality(N(window)) >= Spell BY <3>3, AreaAssumption
    <3>5. /\ (\E n \in 1..Len(late) : late[n].errors = 1) => \E n \in 1..Len(window) : window[n].errors = 1
          /\ (\E n \in 1..Len(late) : late[n].db = 0) => \E n \in 1..Len(window) : window[n].db = 0
          /\ (\E n \in 1..Len(late) : late[n].passing = 0) => \E n \in 1..Len(window) : window[n].passing = 0
      BY <2>5, <2>6
    <3> QED BY <3>4, <3>5 DEF ToldOf, N
  <2> QED BY <2>7, <2>8 DEF late
<1>7. \A name \in Area!Names :
        LET total == Area!Totals(window)[name]
        IN /\ total = Nothing \/ total \in Int
           /\ total = Nothing <=> \A n \in 1..Len(window) : Area!Rows(window[n])[name] = Nothing
           /\ name \in Area!Problems(window) <=>
                total # Nothing /\ IF name = "none" THEN total >= Spell ELSE total > 0
  <2> SUFFICES ASSUME NEW name \in Area!Names
               PROVE  LET total == Area!Totals(window)[name]
                      IN /\ total = Nothing \/ total \in Int
                         /\ total = Nothing <=> \A n \in 1..Len(window) : Area!Rows(window[n])[name] = Nothing
                         /\ name \in Area!Problems(window) <=>
                              total # Nothing /\ IF name = "none" THEN total >= Spell ELSE total > 0
    OBVIOUS
  <2> DEFINE total == Area!Totals(window)[name]
  <2>1. /\ total = Nothing <=> \A n \in 1..Len(window) : Area!Rows(window[n])[name] = Nothing
        /\ total # Nothing => total \in Int
    BY <1>2, TotalIs
  <2>2. name \in Area!Problems(window) <=> Area!Problem(name, total) = 1 BY DEF Area!Problems
  <2> HIDE DEF total
  <2>3. Area!Problem(name, total) = 1 <=> total # Nothing /\ IF name = "none" THEN total >= Spell ELSE total > 0
    BY <2>1, ProblemIs
  <2> QED BY <2>1, <2>2, <2>3 DEF total
<1>8. Area!TileAsTable
  <2> DEFINE above == {name \in Area!Listed(window) : Area!Totals(window)[name] > 0}
  <2>1. \A name : name \in above <=>
          /\ name \in Area!Names /\ Area!Totals(window)[name] # Nothing
          /\ Area!Totals(window)[name] # 0 /\ Area!Totals(window)[name] > 0
    BY DEF Area!Listed, Area!Arrived
  <2>2. Area!Problems(window) \subseteq above
    <3> SUFFICES ASSUME NEW name \in Area!Problems(window) PROVE name \in above OBVIOUS
    <3>1. name \in Area!Names BY DEF Area!Problems
    <3>2. Area!Totals(window)[name] \in Int /\ Area!Totals(window)[name] > 0 BY <1>7, <3>1, AreaAssumption
    <3> QED BY <1>0, <2>1, <3>1, <3>2
  <2>3. above \ Area!Problems(window) \subseteq {"none"}
    <3> SUFFICES ASSUME NEW name \in above, name \notin Area!Problems(window) PROVE name = "none" OBVIOUS
    <3>1. name \in Area!Names /\ Area!Totals(window)[name] # Nothing /\ Area!Totals(window)[name] > 0 BY <2>1
    <3> QED BY <1>7, <3>1
  <2> QED BY <2>2, <2>3 DEF Area!TileAsTable
<1>9. Area!BlindIsNotGood
  <2>1. (\A n \in 1..Len(window), s \in Area!Series : window[n][s] = Nothing)
          <=> \A n \in 1..Len(window), name \in Area!Names : Area!Rows(window[n])[name] = Nothing
    <3>1. ASSUME NEW n \in 1..Len(window)
          PROVE  (\A s \in Area!Series : window[n][s] = Nothing)
                   <=> \A name \in Area!Names : Area!Rows(window[n])[name] = Nothing
      <4> DEFINE m == window[n]
      <4>1. m \in Partial /\ m \in Whole BY <1>1, <1>2
      <4> HIDE DEF m
      <4>2. /\ Area!Rows(m).errors = m.errors
            /\ Area!Rows(m).down = IF m.db = Nothing THEN Nothing ELSE 1 - m.db
            /\ m.db \in {Nothing, 0, 1}
            /\ Area!Rows(m).none =
                 IF m.own = 0 \/ (m.own = Nothing /\ m.others = 1) THEN 1 ELSE IF m.own = 1 THEN 0 ELSE Nothing
            /\ m.own \in {Nothing, 0, 1} /\ m.others \in {Nothing, 1}
            /\ Area!Rows(m).failing = IF m.passing = Nothing THEN Nothing ELSE 1 - m.passing
            /\ m.passing \in {Nothing, 0, 1}
            /\ Area!Rows(m).reporting = Nothing <=> IF checks THEN m.uptime = Nothing ELSE m.db = Nothing
        BY <4>1, RowsSay
      <4>3. ~checks => m.uptime = Nothing BY <4>1 DEF Whole
      <4>4. (\A s \in Area!Series : m[s] = Nothing) <=>
              m.errors = Nothing /\ m.db = Nothing /\ m.own = Nothing /\ m.others = Nothing
                /\ m.passing = Nothing /\ m.uptime = Nothing
        BY SeriesAre
      <4>5. (\A name \in Area!Names : Area!Rows(m)[name] = Nothing) <=>
              /\ Area!Rows(m).errors = Nothing /\ Area!Rows(m).down = Nothing /\ Area!Rows(m).none = Nothing
              /\ Area!Rows(m).failing = Nothing /\ Area!Rows(m).reporting = Nothing
        BY DEF Area!Names
      <4>6. Area!Rows(m).down = Nothing <=> m.db = Nothing BY <1>0, <4>2
      <4>7. Area!Rows(m).failing = Nothing <=> m.passing = Nothing BY <1>0, <4>2
      <4>8. Area!Rows(m).none = Nothing <=> m.own = Nothing /\ m.others = Nothing BY <1>0, <4>2
      <4> QED BY <4>2, <4>3, <4>4, <4>5, <4>6, <4>7, <4>8 DEF m
    <3> QED BY <3>1
  <2>2. Area!Says(window) = "can't tell"
          <=> \A n \in 1..Len(window), name \in Area!Names : Area!Rows(window[n])[name] = Nothing
    BY <1>2 DEF Area!Says, Area!Arrived
  <2>3. Area!Says(window) = "can't tell" => Area!Listed(window) = {}
    <3> SUFFICES ASSUME Area!Says(window) = "can't tell" PROVE Area!Listed(window) = {} OBVIOUS
    <3>1. \A name \in Area!Names : Area!Totals(window)[name] = Nothing BY <1>7, <2>2
    <3> QED BY <3>1 DEF Area!Listed, Area!Arrived
  <2>4. Area!Says(window) = "all good" => Area!Told = {}
    <3>1. Area!Says(window) = "all good" => Area!Problems(window) = {} BY DEF Area!Says
    <3> QED BY <3>1, <1>3, <1>4
  <2> QED BY <1>2, <2>1, <2>2, <2>3, <2>4 DEF Area!BlindIsNotGood, Area!Arrived
<1> QED BY <1>5, <1>6, <1>8, <1>9 DEF Area!Safe

-----------------------------------------------------------------------------
(* The backups tile *)

\* What is left out of a sum is no more than its points may make.
LEMMA PartSum ==
  ASSUME NEW points, Readable(points), NEW b \in Nat,
         \A n \in 1..Len(points) : points[n] # Nothing => points[n] <= b,
         NEW off \in Nat, NEW part_, Readable(part_), off + Len(part_) <= Len(points),
         \A n \in 1..Len(part_) : part_[n] = points[off + n]
  PROVE  Fields!SumArrived(part_) >= Fields!SumArrived(points) - b * (Len(points) - Len(part_))
<1> DEFINE L == Len(points)
<1> DEFINE D == Len(part_)
<1>1. L \in Nat /\ D \in Nat BY DEF Readable
<1>2. PICK s : Adds(points, s) BY AddsUp
<1>3. PICK t : Adds(part_, t) BY AddsUp
<1>4. Fields!SumArrived(points) = s[L] /\ Fields!SumArrived(part_) = t[D] BY <1>2, <1>3, SumIs
<1>5. /\ \A n \in 0..L : s[n] \in Int
      /\ s[0] = 0
      /\ \A n \in 1..L : s[n] = s[n - 1] + IF points[n] # Nothing THEN points[n] ELSE 0
  BY <1>2 DEF Adds
<1>6. /\ \A n \in 0..D : t[n] \in Int
      /\ t[0] = 0
      /\ \A n \in 1..D : t[n] = t[n - 1] + IF part_[n] # Nothing THEN part_[n] ELSE 0
  BY <1>3 DEF Adds
<1>7. \A n \in 1..L : points[n] = Nothing \/ points[n] \in Int BY DEF Readable
<1>8. t[D] = s[off + D] - s[off]
  <2> DEFINE Failing == {k \in 0..D : t[k] # s[off + k] - s[off]}
  <2>0. Failing \subseteq Nat BY <1>1
  <2>1. Failing = {}
    <3> SUFFICES ASSUME Failing # {} PROVE FALSE OBVIOUS
    <3>1. PICK k \in Failing : \A j \in Failing : k <= j
      <4> HIDE DEF Failing
      <4> QED BY <2>0, FirstOf
    <3>2. off \in 0..L /\ s[off] \in Int BY <1>1, <1>5
    <3>3. k # 0 BY <3>1, <3>2, <1>5, <1>6
    <3>4. k \in 1..D /\ k - 1 \in 0..D /\ ~(k <= k - 1) BY <3>1, <3>3, <1>1
    <3>5. t[k - 1] = s[off + (k - 1)] - s[off] BY <3>1, <3>4
    <3>6. off + k \in 1..L /\ off + k - 1 = off + (k - 1) /\ off + (k - 1) \in 0..L BY <3>4, <1>1
    <3>7. s[off + k] = s[off + (k - 1)] + IF points[off + k] # Nothing THEN points[off + k] ELSE 0 BY <3>6, <1>5
    <3>8. part_[k] = points[off + k] BY <3>4
    <3>9. t[k] = t[k - 1] + IF points[off + k] # Nothing THEN points[off + k] ELSE 0 BY <3>4, <3>8, <1>6
    <3>10. s[off + (k - 1)] \in Int /\ (points[off + k] # Nothing => points[off + k] \in Int) BY <3>6, <1>5, <1>7
    <3>11. t[k] = s[off + k] - s[off] BY <3>2, <3>5, <3>7, <3>9, <3>10
    <3> QED BY <3>1, <3>11
  <2>2. D \in 0..D BY <1>1
  <2> QED BY <2>1, <2>2
<1>9. \A m, n \in 0..L : m <= n => s[n] - s[m] <= b * (n - m)
  <2> SUFFICES ASSUME NEW m \in 0..L PROVE \A n \in 0..L : m <= n => s[n] - s[m] <= b * (n - m)
    OBVIOUS
  <2> DEFINE Failing == {n \in 0..L : m <= n /\ ~(s[n] - s[m] <= b * (n - m))}
  <2>0. Failing \subseteq Nat BY <1>1
  <2>1. Failing = {}
    <3> SUFFICES ASSUME Failing # {} PROVE FALSE OBVIOUS
    <3>1. PICK k \in Failing : \A j \in Failing : k <= j
      <4> HIDE DEF Failing
      <4> QED BY <2>0, FirstOf
    <3>2. s[m] \in Int /\ k \in 0..L /\ m <= k BY <3>1, <1>5
    <3>3. k # m
      <4>1. b * (m - m) = 0 OBVIOUS
      <4> QED BY <3>1, <3>2, <4>1
    <3>4. k \in 1..L /\ k - 1 \in 0..L /\ m <= k - 1 /\ ~(k <= k - 1) BY <3>2, <3>3, <1>1
    <3>5. s[k - 1] - s[m] <= b * (k - 1 - m) BY <3>1, <3>4
    <3>6. s[k] <= s[k - 1] + b
      <4>1. s[k - 1] \in Int BY <3>4, <1>5
      <4>2. s[k] = s[k - 1] + IF points[k] # Nothing THEN points[k] ELSE 0 BY <3>4, <1>5
      <4>3. CASE points[k] = Nothing BY <4>1, <4>2, <4>3
      <4>4. CASE points[k] # Nothing
        <5>1. points[k] \in Int /\ points[k] <= b BY <4>4, <3>4, <1>7
        <5> QED BY <4>1, <4>2, <4>4, <5>1
      <4> QED BY <4>3, <4>4
    <3>7. b * (k - m) = b * (k - 1 - m) + b
      <4>1. k - 1 - m \in Int /\ k - m = (k - 1 - m) + 1 BY <3>4
      <4> DEFINE d == k - 1 - m
      <4>2. b * (d + 1) = b * d + b
        <5>1. d \in Int BY <4>1
        <5> HIDE DEF d
        <5> QED BY <5>1
      <4> QED BY <4>1, <4>2
    <3>8. b * (k - 1 - m) \in Int /\ s[k] \in Int /\ s[k - 1] \in Int BY <3>4, <1>5
    <3>9. s[k] - s[m] <= b * (k - m) BY <3>2, <3>5, <3>6, <3>7, <3>8
    <3> QED BY <3>1, <3>9
  <2> QED BY <2>1
<1>10. off \in 0..L /\ off + D \in 0..L /\ L \in 0..L /\ 0 \in 0..L BY <1>1
<1>11. s[off] - s[0] <= b * (off - 0) BY <1>9, <1>10
<1>12. s[L] - s[off + D] <= b * (L - (off + D)) BY <1>9, <1>10
<1>13. b * (L - D) = b * (off - 0) + b * (L - (off + D))
  <2>1. \A x, y \in Int : b * (x + y) = b * x + b * y OBVIOUS
  <2>2. off - 0 \in Int /\ L - (off + D) \in Int /\ L - D = (off - 0) + (L - (off + D)) BY <1>1
  <2>3. b * ((off - 0) + (L - (off + D))) = b * (off - 0) + b * (L - (off + D)) BY <2>1, <2>2
  <2> QED BY <2>2, <2>3
<1>14. s[L] \in Int /\ s[off] \in Int /\ s[off + D] \in Int BY <1>5, <1>10
<1>15. b * (off - 0) \in Int /\ b * (L - (off + D)) \in Int BY <1>1
<1>16. t[D] >= s[L] - b * (L - D) BY <1>5, <1>8, <1>11, <1>12, <1>13, <1>14, <1>15
<1> QED BY <1>4, <1>16

\* What is kept of an hour.
BackupHours ==
  {Backup!HourOf(minutes, backups, failures) : minutes \in 1..POINTS, backups \in {Nothing, 1},
                                              failures \in {Nothing} \cup (1..MaxFailures)}
    \cup {Backup!HourOf(Nothing, Nothing, Nothing)}

\* No more of them than the tile reads; the hour is one of the day.
BackupTyped ==
  /\ hours \in Seq(BackupHours) /\ Len(hours) <= BACKUP_HOURS
  /\ hour \in 0..(Day - 1) /\ backed \in BOOLEAN /\ missed \in BOOLEAN

\* The minutes the tile reads, and whether a failure is later than every backup.
MinutesRead == Fields!SumArrived(Backup!Points("minutes"))

\* A failure is later than every backup.
FailedSince == \E f \in Backup!HadFailure : \A s \in Backup!Succeeded : s < f

\* Its fields are calculated like the others.
LEMMA BackupFields ==
  /\ \A p : Backup!SumArrived(p) = Fields!SumArrived(p)
  /\ \A p : Backup!MaxArrived(p) = Fields!MaxArrived(p)
  /\ \A p : Backup!SumOfPoints(p) = Fields!SumOfPoints(p)
  /\ \A p : Backup!Max(p) = Fields!Max(p)
  /\ \A p : Backup!AtLeastOne(p) = Fields!AtLeastOne(p)
  /\ \A p : Backup!Cardinality(p) = Cardinality(p)
<1>1. \A p : Backup!Arrived(p) <=> Fields!Arrived(p) BY DEF Backup!Arrived, Fields!Arrived
<1>2. \A p : Backup!SumArrived(p) = Fields!SumArrived(p)
  BY DEF Backup!SumArrived, Fields!SumArrived, Backup!Arrived, Fields!Arrived
<1>3. \A p : Backup!Max(p) = Fields!Max(p) BY DEF Backup!Max, Fields!Max
<1>4. \A p : Backup!MaxArrived(p) = Fields!MaxArrived(p)
  BY <1>3 DEF Backup!MaxArrived, Fields!MaxArrived, Backup!Arrived, Fields!Arrived
<1>5. \A p : Backup!SumOfPoints(p) = Fields!SumOfPoints(p)
  BY <1>1, <1>2 DEF Backup!SumOfPoints, Fields!SumOfPoints
<1>6. \A p : Backup!AtLeastOne(p) = Fields!AtLeastOne(p)
  BY DEF Backup!AtLeastOne, Fields!AtLeastOne, Backup!CeilOf, Fields!CeilOf, Backup!Plus, Fields!Plus,
         Backup!Arrived, Fields!Arrived
<1>7. \A p : Backup!Cardinality(p) = Cardinality(p) BY DEF Backup!Cardinality, Cardinality
<1> QED BY <1>2, <1>3, <1>4, <1>5, <1>6, <1>7

\* What an hour holds: nothing at all where the instance was stopped.
LEMMA HourIs ==
  ASSUME BackupTyped, NEW n \in 1..Len(hours)
  PROVE  /\ hours[n].minutes \in {Nothing} \cup (1..POINTS)
         /\ hours[n].backups \in {Nothing, 1}
         /\ hours[n].failed \in {Nothing} \cup (1..MaxFailures)
         /\ hours[n] = Backup!HourOf(Nothing, Nothing, Nothing) <=> hours[n].minutes = Nothing
         /\ hours[n].minutes = Nothing => hours[n].backups = Nothing /\ hours[n].failed = Nothing
<1>1. hours[n] \in BackupHours BY DEF BackupTyped
<1>2. CASE hours[n] = Backup!HourOf(Nothing, Nothing, Nothing) BY <1>2 DEF Backup!HourOf
<1>3. CASE \E minutes \in 1..POINTS, backups \in {Nothing, 1}, failures \in {Nothing} \cup (1..MaxFailures) :
             hours[n] = Backup!HourOf(minutes, backups, failures)
  <2>1. PICK minutes \in 1..POINTS, backups \in {Nothing, 1}, failures \in {Nothing} \cup (1..MaxFailures) :
             hours[n] = Backup!HourOf(minutes, backups, failures) BY <1>3
  <2>2. /\ hours[n].minutes = minutes /\ hours[n].backups = backups /\ hours[n].failed = failures
    BY <2>1 DEF Backup!HourOf
  <2>3. minutes \in Int BY BackupAssumption
  <2>4. minutes # Nothing BY <2>3, NothingAssumption
  <2>5. Backup!HourOf(Nothing, Nothing, Nothing).minutes = Nothing BY DEF Backup!HourOf
  <2> QED BY <2>2, <2>4, <2>5
<1> QED BY <1>1, <1>2, <1>3 DEF BackupHours

\* A field's points over the hours.
LEMMA BackupPoints ==
  ASSUME BackupTyped
  PROVE  /\ Len(hours) \in Nat
         /\ \A field \in {"minutes", "backups", "failed"} :
              /\ Len(Backup!Points(field)) = Len(hours)
              /\ \A n \in 1..Len(hours) : Backup!Points(field)[n] = hours[n][field]
         /\ \A n \in 1..Len(hours) :
              /\ Backup!Points("minutes")[n] = hours[n].minutes
              /\ Backup!Points("backups")[n] = hours[n].backups
              /\ Backup!Points("failed")[n] = hours[n].failed
         /\ Readable(Backup!Points("minutes")) /\ Readable(Backup!Points("backups"))
<1>1. Len(hours) \in Nat BY DEF BackupTyped
<1>2. \A field \in {"minutes", "backups", "failed"} :
        /\ Len(Backup!Points(field)) = Len(hours)
        /\ \A n \in 1..Len(hours) : Backup!Points(field)[n] = hours[n][field]
  BY <1>1 DEF Backup!Points
<1>3. \A n \in 1..Len(hours) :
        /\ Backup!Points("minutes")[n] = hours[n].minutes
        /\ Backup!Points("backups")[n] = hours[n].backups
        /\ Backup!Points("failed")[n] = hours[n].failed
  BY <1>2
<1>4. \A n \in 1..Len(hours) : /\ hours[n].minutes = Nothing \/ hours[n].minutes \in Int
                               /\ hours[n].backups = Nothing \/ hours[n].backups \in Int
  BY HourIs, BackupAssumption
<1>5. Readable(Backup!Points("minutes")) /\ Readable(Backup!Points("backups"))
  BY <1>1, <1>2, <1>3, <1>4 DEF Readable
<1> QED BY <1>1, <1>2, <1>3, <1>5

\* One of two products by a number is the greater where its factor is.
LEMMA Factor == ASSUME NEW p \in Nat \ {0}, NEW x \in Int, NEW y \in Int, p * x >= p * y PROVE x >= y
<1> SUFFICES ASSUME x < y PROVE FALSE OBVIOUS
<1>1. x + 1 <= y /\ y - x - 1 \in Nat OBVIOUS
<1>2. p * (y - x - 1) >= 0
  <2> DEFINE d == y - x - 1
  <2>1. d \in Nat BY <1>1
  <2> HIDE DEF d
  <2>2. p * d >= 0 BY <2>1
  <2> QED BY <2>2 DEF d
<1>3. p * (y - x - 1) = p * y - p * x - p OBVIOUS
<1>4. p * x \in Int /\ p * y \in Int /\ p > 0 OBVIOUS
<1> QED BY <1>2, <1>3, <1>4

\* The minutes add up to what the hours reported at most, and to the whole hours at least.
LEMMA MinutesAre ==
  ASSUME BackupTyped
  PROVE  /\ MinutesRead \in Int
         /\ Cardinality(Backup!Reported) \in Nat /\ Cardinality(Backup!RanWhole) \in Nat
         /\ MinutesRead <= POINTS * Cardinality(Backup!Reported)
         /\ MinutesRead >= POINTS * Cardinality(Backup!RanWhole)
         /\ Cardinality(Backup!Reported) <= Len(hours)
<1> DEFINE L == Len(hours)
<1> DEFINE points == Backup!Points("minutes")
<1>1. L \in Nat /\ Len(points) = L /\ Readable(points) /\ \A n \in 1..L : points[n] = hours[n].minutes
  BY BackupPoints
<1>2. \A n \in 1..L : points[n] = Nothing \/ points[n] \in 1..POINTS BY <1>1, HourIs
<1>3. POINTS \in Nat /\ POINTS > 0 BY BackupAssumption
<1>4. Backup!Reported \in SUBSET (1..L) /\ Backup!RanWhole \in SUBSET (1..L)
  BY DEF Backup!Reported, Backup!RanWhole
<1>5. IsFiniteSet(1..L) /\ Cardinality(1..L) = L
  <2>1. L \in Nat BY <1>1
  <2> HIDE DEF L
  <2> QED BY <2>1, FS_Interval
<1>6. /\ Cardinality(Backup!Reported) \in Nat /\ Cardinality(Backup!Reported) <= L
      /\ Cardinality(Backup!RanWhole) \in Nat
  BY <1>4, <1>5, FS_Subset, FS_CardinalityType
<1>7. \A n \in 1..Len(points) : points[n] # Nothing => points[n] <= IF n \in Backup!Reported THEN POINTS ELSE 0
  BY <1>1, <1>2 DEF Backup!Reported, Backup!Arrived
<1>8. \A n \in 1..Len(points) : IF n \in Backup!RanWhole THEN points[n] # Nothing /\ points[n] >= POINTS
                                                           ELSE points[n] # Nothing => points[n] >= 0
  BY <1>1, <1>2, <1>3 DEF Backup!RanWhole, Backup!Reported, Backup!Arrived
<1> HIDE DEF points
<1>9. /\ Fields!SumArrived(points) \in Int
      /\ Fields!SumArrived(points) <= POINTS * Cardinality(Backup!Reported)
  BY <1>1, <1>3, <1>4, <1>7, SumBetween
<1>10. Fields!SumArrived(points) >= POINTS * Cardinality(Backup!RanWhole)
  BY <1>1, <1>3, <1>4, <1>8, SumBetween
<1> QED BY <1>6, <1>9, <1>10 DEF MinutesRead, points

\* All but an hour of the window's minutes.
AllButAnHour == (BACKUP_HOURS - 1) * POINTS

\* The tile judges what reported all of the window but an hour.
LEMMA RanTheWindowIs ==
  ASSUME BackupTyped, \E n \in 1..Len(hours) : hours[n].minutes # Nothing
  PROVE  /\ Backup!RanTheWindow \in {0, 1}
         /\ Backup!RanTheWindow = 1 <=> MinutesRead >= AllButAnHour
<1> DEFINE points == Backup!Points("minutes")
<1>1. Len(hours) \in Nat /\ Len(points) = Len(hours) /\ \A n \in 1..Len(hours) : points[n] = hours[n].minutes
  BY BackupPoints
<1>2. MinutesRead \in Int /\ MinutesRead <= POINTS * Cardinality(Backup!Reported)
      /\ Cardinality(Backup!Reported) \in Nat /\ Cardinality(Backup!Reported) <= Len(hours)
      /\ Cardinality(Backup!RanWhole) \in Nat
      /\ MinutesRead >= POINTS * Cardinality(Backup!RanWhole)
  BY MinutesAre
<1>3. Backup!SumOfPoints(points) = MinutesRead BY <1>1, BackupFields DEF Backup!SumOfPoints, Backup!Arrived, MinutesRead
<1>4. Backup!RanTheWindow = MinutesRead \div AllButAnHour
  <2>1. MinutesRead # Nothing BY <1>2, NothingAssumption
  <2> HIDE DEF points
  <2>2. Backup!RanTheWindow = Backup!FloorOf(MinutesRead, AllButAnHour)
    BY <1>3 DEF Backup!RanTheWindow, Backup!MinutesKept, AllButAnHour, points
  <2> QED BY <2>1, <2>2 DEF Backup!FloorOf, Backup!Arrived
<1>5. POINTS \in Nat /\ POINTS > 0 /\ BACKUP_HOURS \in Nat /\ BACKUP_HOURS >= 3 /\ Len(hours) <= BACKUP_HOURS
  BY BackupAssumption DEF BackupTyped
<1>6. AllButAnHour \in Nat /\ AllButAnHour > 0 /\ POINTS * BACKUP_HOURS < 2 * AllButAnHour
  <2> DEFINE h == BACKUP_HOURS - 3
  <2>1. h \in Nat /\ BACKUP_HOURS = h + 3 BY <1>5
  <2>2. AllButAnHour = (h + 2) * POINTS
    <3>1. BACKUP_HOURS - 1 = h + 2 BY <2>1
    <3> QED BY <3>1 DEF AllButAnHour
  <2> HIDE DEF h
  <2>3. (h + 2) * POINTS = h * POINTS + 2 * POINTS /\ POINTS * (h + 3) = h * POINTS + 3 * POINTS BY <2>1, <1>5
  <2>4. h * POINTS \in Nat BY <2>1, <1>5
  <2> QED BY <2>1, <2>2, <2>3, <2>4, <1>5
<1>7. MinutesRead <= POINTS * BACKUP_HOURS /\ MinutesRead >= 0
  <2> DEFINE c == Cardinality(Backup!Reported)
  <2> DEFINE w == Cardinality(Backup!RanWhole)
  <2>1. c \in Nat /\ c <= BACKUP_HOURS /\ w \in Nat BY <1>1, <1>2, <1>5
  <2>2. MinutesRead <= POINTS * c /\ MinutesRead >= POINTS * w BY <1>2
  <2> HIDE DEF c, w
  <2>3. POINTS * c <= POINTS * BACKUP_HOURS
    <3> DEFINE d == BACKUP_HOURS - c
    <3>1. d \in Nat /\ BACKUP_HOURS = c + d BY <2>1, <1>5
    <3> HIDE DEF d
    <3>2. POINTS * (c + d) = POINTS * c + POINTS * d /\ POINTS * d >= 0 BY <3>1, <2>1, <1>5
    <3>3. POINTS * c \in Int /\ POINTS * d \in Int BY <3>1, <2>1, <1>5
    <3> QED BY <3>1, <3>2, <3>3
  <2>4. POINTS * w >= 0 BY <2>1, <1>5
  <2>5. POINTS * c \in Int /\ POINTS * w \in Int /\ POINTS * BACKUP_HOURS \in Int BY <2>1, <1>5
  <2> QED BY <2>2, <2>3, <2>4, <2>5, <1>2
<1>8. POINTS * BACKUP_HOURS \in Int BY <1>5
<1>9. CASE MinutesRead >= AllButAnHour
  <2>1. AllButAnHour * 1 <= MinutesRead /\ MinutesRead < AllButAnHour * 1 + AllButAnHour
    BY <1>2, <1>6, <1>7, <1>8, <1>9
  <2>2. MinutesRead \div AllButAnHour = 1 BY <1>2, <1>6, <2>1, QuotientIs
  <2> QED BY <1>4, <1>9, <2>2
<1>10. CASE ~(MinutesRead >= AllButAnHour)
  <2>1. AllButAnHour * 0 <= MinutesRead /\ MinutesRead < AllButAnHour * 0 + AllButAnHour
    BY <1>2, <1>6, <1>7, <1>10
  <2>2. MinutesRead \div AllButAnHour = 0 BY <1>2, <1>6, <2>1, QuotientIs
  <2> QED BY <1>4, <1>10, <2>2
<1> QED BY <1>9, <1>10

\* The sum of a single field.
LEMMA SumOfOne ==
  ASSUME NEW v, v = Nothing \/ v \in Nat
  PROVE  Fields!SumArrived(<<v>>) = IF v = Nothing THEN 0 ELSE v
<1> DEFINE one == <<v>>
<1>1. Len(one) = 1 /\ one[1] = v OBVIOUS
<1>2. Readable(one) BY <1>1 DEF Readable
<1> HIDE DEF one
<1>3. PICK s : Adds(one, s) BY <1>2, AddsUp
<1>4. Fields!SumArrived(one) = s[1] BY <1>1, <1>2, <1>3, SumIs
<1>5. s[0] = 0 /\ s[1] = s[1 - 1] + IF one[1] # Nothing THEN one[1] ELSE 0
  <2>1. 1 \in 1..Len(one) BY <1>1
  <2> QED BY <1>3, <2>1 DEF Adds
<1>6. s[1] = 0 + IF v # Nothing THEN v ELSE 0 BY <1>1, <1>5
<1>7. Fields!SumArrived(one) = IF v = Nothing THEN 0 ELSE v BY <1>4, <1>6
<1> QED BY <1>7 DEF one

\* The tile has 1 for a backup, and 0 for none.
LEMMA BackedUpIs ==
  ASSUME BackupTyped
  PROVE  Backup!BackedUp = IF Backup!Succeeded = {} THEN 0 ELSE 1
<1> DEFINE points == Backup!Points("backups")
<1> DEFINE b == Fields!SumOfPoints(points)
<1>1. Len(hours) \in Nat /\ Len(points) = Len(hours) /\ \A n \in 1..Len(hours) : points[n] = hours[n].backups
  BY BackupPoints
<1>2. \A n \in 1..Len(points) : points[n] \in {Nothing, 0, 1} BY <1>1, HourIs
<1>3. Backup!Succeeded = {n \in 1..Len(points) : points[n] # Nothing}
  BY <1>1 DEF Backup!Succeeded, Backup!Arrived
<1>4. \A n \in 1..Len(points) : points[n] # Nothing => points[n] = 1 BY <1>1, HourIs
<1>5. Backup!BackedUp = Fields!AtLeastOne(Fields!SumArrived(<<b>>))
  BY BackupFields DEF Backup!BackedUp, Backup!Backups
<1> HIDE DEF points
<1>6. /\ (\A n \in 1..Len(points) : points[n] = Nothing) => b = Nothing
      /\ (\E n \in 1..Len(points) : points[n] # Nothing) =>
              b \in Nat /\ (b > 0 <=> \E n \in 1..Len(points) : points[n] = 1)
  BY <1>1, <1>2, PointsSum
<1> HIDE DEF b
<1>7. CASE Backup!Succeeded = {}
  <2>1. b = Nothing BY <1>3, <1>6, <1>7
  <2>2. Fields!SumArrived(<<b>>) = 0 BY <2>1, SumOfOne
  <2> QED BY <1>5, <1>7, <2>2, AtLeastOneIs
<1>8. CASE Backup!Succeeded # {}
  <2>1. PICK n \in 1..Len(points) : points[n] # Nothing BY <1>3, <1>8
  <2>2. b \in Nat /\ b > 0 BY <1>4, <1>6, <2>1
  <2>3. b # Nothing BY <2>2, NothingAssumption
  <2>4. Fields!SumArrived(<<b>>) = b BY <2>2, <2>3, SumOfOne
  <2> QED BY <1>5, <1>8, <2>2, <2>4, AtLeastOneIs
<1> QED BY <1>7, <1>8

\* The newest count is that of a set's last hour.
LEMMA NewestIs ==
  ASSUME NEW points, Len(points) \in Nat,
         \A n \in 1..Len(points) : points[n] = Nothing \/ points[n] \in Nat \ {0},
         NEW N, N = Fields!SumArrived(<<Backup!Newest(points)>>),
         NEW there, there = {n \in 1..Len(points) : points[n] # Nothing}
  PROVE  /\ N \in Nat
         /\ there = {} => N = 0
         /\ there # {} => N \in there /\ \A n \in there : n <= N
<1>1. there = {n \in 1..Len(points) : Backup!Arrived(points[n]) /\ points[n] > 0} BY DEF Backup!Arrived
<1>2. Backup!Newest(points) = IF there = {} THEN Nothing ELSE Fields!Max(there)
  BY <1>1, BackupFields DEF Backup!Newest
<1>3. there \subseteq 0..Len(points) /\ there \subseteq 1..Len(points) OBVIOUS
<1>4. CASE there = {}
  <2>1. N = 0 BY <1>2, <1>4, SumOfOne
  <2> QED BY <1>4, <2>1
<1>5. CASE there # {}
  <2>1. Fields!Max(there) \in there /\ \A n \in there : n <= Fields!Max(there) BY <1>3, <1>5, MaxOf
  <2>2. Fields!Max(there) \in Nat BY <1>3, <2>1
  <2>3. Fields!Max(there) # Nothing BY <2>2, NothingAssumption
  <2>4. Backup!Newest(points) = Fields!Max(there) BY <1>2, <1>5
  <2>5. N = Fields!Max(there) BY <2>2, <2>3, <2>4, SumOfOne
  <2> QED BY <1>5, <2>1, <2>2, <2>5
<1> QED BY <1>4, <1>5

\* The tile has 1 for a failure later than the newest backup.
LEMMA AFailureSinceIs ==
  ASSUME BackupTyped
  PROVE  Backup!AFailureSince = IF FailedSince THEN 1 ELSE 0
<1> DEFINE bad == Backup!Points("failed")
<1> DEFINE good == Backup!Points("backups")
<1> DEFINE f == Fields!SumArrived(<<Backup!Newest(bad)>>)
<1> DEFINE s == Fields!SumArrived(<<Backup!Newest(good)>>)
<1>1. /\ Len(hours) \in Nat /\ Len(bad) = Len(hours) /\ Len(good) = Len(hours)
      /\ \A n \in 1..Len(hours) : bad[n] = hours[n].failed /\ good[n] = hours[n].backups
  BY BackupPoints
<1>2. /\ \A n \in 1..Len(bad) : bad[n] = Nothing \/ bad[n] \in Nat \ {0}
      /\ \A n \in 1..Len(good) : good[n] = Nothing \/ good[n] \in Nat \ {0}
  BY <1>1, HourIs, BackupAssumption
<1>3. /\ Backup!HadFailure = {n \in 1..Len(bad) : bad[n] # Nothing}
      /\ Backup!Succeeded = {n \in 1..Len(good) : good[n] # Nothing}
  BY <1>1 DEF Backup!HadFailure, Backup!Succeeded, Backup!Arrived
<1>4. Backup!AFailureSince = Fields!AtLeastOne(Backup!AboveZero(Backup!Minus(f, s)))
  BY BackupFields DEF Backup!AFailureSince
<1> HIDE DEF bad, good
<1>5. /\ f \in Nat
      /\ Backup!HadFailure = {} => f = 0
      /\ Backup!HadFailure # {} => f \in Backup!HadFailure /\ \A n \in Backup!HadFailure : n <= f
  BY <1>1, <1>2, <1>3, NewestIs
<1>6. /\ s \in Nat
      /\ Backup!Succeeded = {} => s = 0
      /\ Backup!Succeeded # {} => s \in Backup!Succeeded /\ \A n \in Backup!Succeeded : n <= s
  BY <1>1, <1>2, <1>3, NewestIs
<1>7. Backup!HadFailure \subseteq 1..Len(hours) /\ Backup!Succeeded \subseteq 1..Len(hours)
  BY DEF Backup!HadFailure, Backup!Succeeded
<1> HIDE DEF f, s
<1>8. f > s <=> FailedSince
  <2>1. ASSUME f > s PROVE FailedSince
    <3>1. f \in Backup!HadFailure BY <1>5, <1>6, <2>1
    <3>2. ASSUME NEW n \in Backup!Succeeded PROVE n < f
      <4>1. n <= s /\ n \in Nat BY <3>2, <1>6, <1>7
      <4> QED BY <4>1, <2>1, <1>5, <1>6
    <3> QED BY <3>1, <3>2 DEF FailedSince
  <2>2. ASSUME FailedSince PROVE f > s
    <3>1. PICK g \in Backup!HadFailure : \A n \in Backup!Succeeded : n < g BY <2>2 DEF FailedSince
    <3>2. g <= f /\ g \in Nat /\ g > 0 BY <3>1, <1>5, <1>7
    <3>3. s < g
      <4>1. CASE Backup!Succeeded = {} BY <4>1, <1>6, <3>2
      <4>2. CASE Backup!Succeeded # {} BY <4>2, <1>6, <3>1
      <4> QED BY <4>1, <4>2
    <3> QED BY <3>2, <3>3, <1>5, <1>6
  <2> QED BY <2>1, <2>2
<1>9. \A v \in Int : v # Nothing BY NothingAssumption
<1>10. Backup!Minus(f, s) = f - s /\ f - s \in Int
  <2>1. f \in Int /\ s \in Int BY <1>5, <1>6
  <2>2. f # Nothing /\ s # Nothing BY <1>9, <2>1
  <2>3. Backup!Minus(f, s) = f - s BY <2>2 DEF Backup!Minus, Backup!Arrived
  <2> QED BY <2>1, <2>3
<1>11. \A d \in Int : Backup!AboveZero(d) = IF d > 0 THEN d ELSE 0
  <2> SUFFICES ASSUME NEW d \in Int PROVE Backup!AboveZero(d) = IF d > 0 THEN d ELSE 0 OBVIOUS
  <2> DEFINE a == IF d < 0 THEN -d ELSE d
  <2>1. Backup!Abs(d) = a BY <1>9 DEF Backup!Abs, Backup!Arrived
  <2>2. a \in Int /\ d + a \in Int OBVIOUS
  <2>3. Backup!Plus(d, a) = d + a
    <3> HIDE DEF a
    <3> QED BY <1>9, <2>2 DEF Backup!Plus, Backup!Arrived
  <2>4. Backup!AboveZero(d) = (d + a) \div 2
    <3> HIDE DEF a
    <3> QED BY <1>9, <2>1, <2>2, <2>3 DEF Backup!AboveZero, Backup!FloorOf, Backup!Arrived
  <2>5. (d + a) \div 2 = IF d > 0 THEN d ELSE 0 OBVIOUS
  <2> QED BY <2>4, <2>5
<1>12. Backup!AboveZero(Backup!Minus(f, s)) = IF FailedSince THEN f - s ELSE 0
  BY <1>5, <1>6, <1>8, <1>10, <1>11
<1>13. CASE FailedSince
  <2>1. f - s \in Nat /\ f - s # 0 BY <1>5, <1>6, <1>8, <1>13
  <2> QED BY <1>4, <1>12, <1>13, <2>1, AtLeastOneIs
<1>14. CASE ~FailedSince BY <1>4, <1>12, <1>14, AtLeastOneIs
<1> QED BY <1>13, <1>14

\* What the tile says, by what it has.
BackupWords ==
  /\ Backup!Says = "none" <=> Backup!Succeeded = {} /\ MinutesRead >= AllButAnHour
  /\ Backup!Says = "a backup failed" => FailedSince
  /\ Backup!Says = "backed up" <=> Backup!Succeeded # {} /\ ~FailedSince

\* The tile says so.
LEMMA BackupSays == BackupTyped => BackupWords
<1> SUFFICES ASSUME BackupTyped PROVE BackupWords
  OBVIOUS
<1> DEFINE L == Len(hours)
<1> DEFINE empty == \A n \in 1..L : hours[n] = Backup!HourOf(Nothing, Nothing, Nothing)
<1>0. \A v \in Int : v # Nothing BY NothingAssumption
<1>1. empty <=> \A n \in 1..L : hours[n].minutes = Nothing BY HourIs
<1>2. CASE empty
  <2>1. Backup!Status = Nothing BY <1>2 DEF Backup!Status
  <2>2. Backup!Says = "not reporting" BY <2>1 DEF Backup!Says
  <2>3. Backup!Reported = {} BY <1>1, <1>2 DEF Backup!Reported, Backup!Arrived
  <2>4. MinutesRead < AllButAnHour
    <3>1. Cardinality(Backup!Reported) = 0 BY <2>3, FS_EmptySet
    <3>2. MinutesRead \in Int /\ MinutesRead <= POINTS * 0 BY <3>1, MinutesAre
    <3>3. POINTS * 0 = 0 /\ AllButAnHour > 0 /\ AllButAnHour \in Int
      <4>1. POINTS \in Nat \ {0} /\ BACKUP_HOURS - 1 \in Nat \ {0} BY BackupAssumption
      <4>2. \A p, q \in Nat \ {0} : q * p \in Int /\ q * p > 0 OBVIOUS
      <4>3. AllButAnHour \in Int /\ AllButAnHour > 0 BY <4>1, <4>2 DEF AllButAnHour
      <4> QED BY <4>1, <4>3
    <3> QED BY <3>2, <3>3
  <2>5. ~(MinutesRead >= AllButAnHour)
    <3>1. MinutesRead \in Int /\ AllButAnHour \in Int BY MinutesAre, BackupAssumption DEF AllButAnHour
    <3> QED BY <2>4, <3>1
  <2>6. Backup!Succeeded = {} BY <1>1, <1>2, HourIs DEF Backup!Succeeded, Backup!Arrived
  <2>7. "not reporting" # "none" /\ "not reporting" # "a backup failed" /\ "not reporting" # "backed up" OBVIOUS
  <2> QED BY <2>2, <2>5, <2>6, <2>7 DEF BackupWords
<1>3. CASE ~empty
  <2> DEFINE good == Backup!BackedUp
  <2> DEFINE bad == Backup!Times(Backup!AFailureSince, 2)
  <2> DEFINE gone == Backup!Times(Backup!Missing, 4)
  <2> DEFINE all3 == <<good, bad, gone>>
  <2> DEFINE missing == Backup!Succeeded = {} /\ MinutesRead >= AllButAnHour
  <2>1. Backup!Status = Fields!MaxArrived(all3) BY <1>3, BackupFields DEF Backup!Status
  <2>2. good = IF Backup!Succeeded = {} THEN 0 ELSE 1 BY BackedUpIs
  <2>3. \A v, w : Backup!Times(v, w) = IF v # Nothing /\ w # Nothing THEN v * w ELSE Nothing
    BY DEF Backup!Times, Backup!Arrived
  <2>4. bad = IF FailedSince THEN 2 ELSE 0
    <3>1. Backup!AFailureSince = IF FailedSince THEN 1 ELSE 0 BY AFailureSinceIs
    <3> QED BY <3>1, <2>3, <1>0
  <2>5. gone = IF missing THEN 4 ELSE 0
    <3>1. Backup!Minus(1, Backup!BackedUp) = IF Backup!Succeeded = {} THEN 1 ELSE 0
      <4>1. Backup!BackedUp \in {0, 1} /\ (Backup!BackedUp = 0 <=> Backup!Succeeded = {}) BY <2>2
      <4>2. 1 # Nothing /\ Backup!BackedUp # Nothing BY <4>1, <1>0
      <4>3. Backup!Minus(1, Backup!BackedUp) = 1 - Backup!BackedUp BY <4>2 DEF Backup!Minus, Backup!Arrived
      <4> QED BY <4>1, <4>3
    <3>2. Backup!RanTheWindow \in {0, 1} /\ (Backup!RanTheWindow = 1 <=> MinutesRead >= AllButAnHour)
      BY <1>1, <1>3, RanTheWindowIs
    <3>3. Backup!Missing = Backup!Times(Backup!RanTheWindow, IF Backup!Succeeded = {} THEN 1 ELSE 0)
      BY <3>1 DEF Backup!Missing
    <3>4. Backup!Missing = IF missing THEN 1 ELSE 0
      <4>1. Backup!RanTheWindow # Nothing /\ 0 # Nothing /\ 1 # Nothing BY <3>2, <1>0
      <4>2. CASE Backup!Succeeded = {}
        <5>1. Backup!Missing = Backup!RanTheWindow * 1 BY <4>1, <4>2, <3>3, <2>3
        <5> QED BY <4>2, <5>1, <3>2
      <4>3. CASE Backup!Succeeded # {}
        <5>1. Backup!Missing = Backup!RanTheWindow * 0 BY <4>1, <4>3, <3>3, <2>3
        <5> QED BY <4>3, <5>1, <3>2
      <4> QED BY <4>2, <4>3
    <3> QED BY <3>4, <2>3, <1>0
  <2>6. Len(all3) = 3 /\ all3[1] = good /\ all3[2] = bad /\ all3[3] = gone OBVIOUS
  <2> HIDE DEF good, bad, gone, missing
  <2> HIDE DEF all3
  <2>7. \A n \in 1..3 : n = 1 \/ n = 2 \/ n = 3 OBVIOUS
  <2>8. \A n \in 1..3 : all3[n] \in {0, 1, 2, 4} /\ all3[n] # Nothing BY <2>2, <2>4, <2>5, <2>6, <2>7, <1>0
  <2>9. /\ Backup!Status \in {0, 1, 2, 4}
        /\ \A n \in 1..3 : all3[n] <= Backup!Status
        /\ \E n \in 1..3 : Backup!Status = all3[n]
    <3>1. 4 \in Nat /\ Len(all3) \in Nat BY <2>6
    <3>2. \A n \in 1..Len(all3) : all3[n] = Nothing \/ all3[n] \in 0..4 BY <2>6, <2>8
    <3>3. \A n \in 1..Len(all3) : all3[n] # Nothing =>
              /\ Fields!MaxArrived(all3) \in 0..4
              /\ all3[n] <= Fields!MaxArrived(all3)
              /\ \E k \in 1..Len(all3) : all3[k] # Nothing /\ Fields!MaxArrived(all3) = all3[k]
      BY <3>1, <3>2, MaxArrivedIs
    <3>4. 1 \in 1..3 OBVIOUS
    <3>5. /\ \A n \in 1..3 : all3[n] <= Backup!Status
          /\ \E n \in 1..3 : Backup!Status = all3[n]
      BY <2>1, <2>6, <2>8, <3>3, <3>4
    <3> QED BY <3>5, <2>8
  <2>10. Backup!Says = Backup!BACKUP_STATUS[Backup!Status]
    <3>1. Backup!Status \in Int BY <2>9
    <3>2. Backup!Status # Nothing BY <3>1, <1>0
    <3> QED BY <3>2 DEF Backup!Says
  <2>11. /\ Backup!BACKUP_STATUS[4] = "none" /\ Backup!BACKUP_STATUS[2] = "a backup failed"
         /\ Backup!BACKUP_STATUS[0] = "no backup yet" /\ Backup!BACKUP_STATUS[1] = "backed up"
    BY DEF Backup!BACKUP_STATUS
  <2>12. /\ Backup!Says = "none" <=> Backup!Status = 4
         /\ Backup!Says = "a backup failed" <=> Backup!Status = 2
         /\ Backup!Says = "backed up" <=> Backup!Status = 1
    BY <2>9, <2>10, <2>11
  <2>13. good <= Backup!Status /\ bad <= Backup!Status /\ gone <= Backup!Status BY <2>6, <2>9
  <2>14. Backup!Status = good \/ Backup!Status = bad \/ Backup!Status = gone BY <2>6, <2>7, <2>9
  <2>15. Backup!Status = 4 <=> missing BY <2>2, <2>4, <2>5, <2>9, <2>13, <2>14
  <2>16. Backup!Status = 2 => FailedSince BY <2>2, <2>4, <2>5, <2>9, <2>13, <2>14
  <2>17. Backup!Status = 1 <=> Backup!Succeeded # {} /\ ~FailedSince
    <3>1. ASSUME Backup!Status = 1 PROVE Backup!Succeeded # {} /\ ~FailedSince
      <4>1. ~FailedSince BY <3>1, <2>4, <2>13
      <4>2. good = 1 BY <3>1, <4>1, <2>4, <2>5, <2>14
      <4> QED BY <4>1, <4>2, <2>2
    <3>2. ASSUME Backup!Succeeded # {}, ~FailedSince PROVE Backup!Status = 1
      <4>1. good = 1 /\ bad = 0 /\ gone = 0 BY <3>2, <2>2, <2>4, <2>5 DEF missing
      <4> QED BY <4>1, <2>9, <2>13, <2>14
    <3> QED BY <3>1, <3>2
  <2> QED BY <2>12, <2>15, <2>16, <2>17 DEF BackupWords, missing
<1> QED BY <1>2, <1>3

\* For how many hours there can have been no backup of an instance none was missed of.
SinceABackup(n) ==
  IF backed THEN n < hour
  ELSE IF hour < NightHours THEN n <= hour + Day - 1
  ELSE n <= hour - NightHours

\* No backup in the last hours.
NoneForHours(n) == \A k \in 1..Len(hours) : k > Len(hours) - n => hours[k].backups = Nothing

\* What holds of the backups all along.
BackupInv ==
  /\ BackupTyped
  /\ backed => hour > 0
  /\ ~missed => \A n \in 0..Len(hours) : NoneForHours(n) => SinceABackup(n)
  /\ Backup!FailureStays

\* Before the first hour, at any time of the day.
LEMMA BackupStarts == Backup!Init => BackupInv
<1> SUFFICES ASSUME Backup!Init PROVE BackupInv
  OBVIOUS
<1>1. hours = <<>> /\ Len(hours) = 0 /\ hour \in 0..(Day - 1) /\ backed = FALSE /\ missed = FALSE
  BY DEF Backup!Init
<1>2. BackupTyped
  <2>1. <<>> \in Seq(BackupHours) OBVIOUS
  <2>2. hours \in Seq(BackupHours) BY <1>1, <2>1
  <2>3. Len(hours) <= BACKUP_HOURS BY <1>1, BackupAssumption
  <2> QED BY <1>1, <2>2, <2>3 DEF BackupTyped
<1>3. \A n \in 0..Len(hours) : SinceABackup(n) BY <1>1, BackupAssumption DEF SinceABackup
<1>4. backup_said = Backup!Says BY DEF Backup!Init
<1>5. Backup!FailureStays
  <2>1. "a backup failed" # "backed up" OBVIOUS
  <2> QED BY <1>4, <2>1 DEF Backup!FailureStays
<1> QED BY <1>1, <1>2, <1>3, <1>5 DEF BackupInv

\* An hour later: the clock goes on, and a failure told is over with a backup.
LEMMA BackupKeeps == BackupInv /\ Backup!Next => BackupInv'
<1> SUFFICES ASSUME BackupInv, Backup!Next PROVE BackupInv'
  OBVIOUS
<1>1. BackupTyped /\ backup_said' = Backup!Says BY DEF BackupInv, Backup!Next
<1>2. PICK h \in BackupHours, success \in BOOLEAN :
        /\ hours' = IF Len(hours) < BACKUP_HOURS THEN Append(hours, h) ELSE Append(Tail(hours), h)
        /\ Backup!Pass(success)
        /\ success <=> h.backups # Nothing
        /\ success => hour < NightHours /\ ~backed
  <2>1. CASE Backup!Runs
    <3>1. PICK minutes \in 1..POINTS, success \in {0, 1}, failures \in 0..MaxFailures :
            /\ success = 1 => Backup!InNight /\ ~backed
            /\ Backup!Read(Backup!HourOf(minutes, IF success = 0 THEN Nothing ELSE success, IF failures = 0 THEN Nothing ELSE failures))
            /\ Backup!Pass(success = 1)
      BY <2>1 DEF Backup!Runs
    <3> DEFINE backups == IF success = 0 THEN Nothing ELSE success
    <3> DEFINE failures_ == IF failures = 0 THEN Nothing ELSE failures
    <3> DEFINE h == Backup!HourOf(minutes, backups, failures_)
    <3>2. backups \in {Nothing, 1} OBVIOUS
    <3>3. failures_ \in {Nothing} \cup (1..MaxFailures) BY BackupAssumption
    <3>4. h \in BackupHours
      <4> HIDE DEF backups, failures_
      <4> QED BY <3>2, <3>3 DEF BackupHours
    <3>5. h.backups = backups BY DEF Backup!HourOf
    <3>6. (success = 1) <=> h.backups # Nothing BY <3>5, NothingAssumption
    <3>7. hours' = IF Len(hours) < BACKUP_HOURS THEN Append(hours, h) ELSE Append(Tail(hours), h)
      BY <3>1 DEF Backup!Read
    <3>8. success = 1 => hour < NightHours /\ ~backed BY <3>1 DEF Backup!InNight
    <3>9. (success = 1) \in BOOLEAN OBVIOUS
    <3> HIDE DEF h
    <3> QED BY <3>1, <3>4, <3>6, <3>7, <3>8, <3>9
  <2>2. CASE Backup!Stopped
    <3> DEFINE h == Backup!HourOf(Nothing, Nothing, Nothing)
    <3>1. h \in BackupHours BY DEF BackupHours
    <3>2. h.backups = Nothing BY DEF Backup!HourOf
    <3>3. hours' = IF Len(hours) < BACKUP_HOURS THEN Append(hours, h) ELSE Append(Tail(hours), h)
      BY <2>2 DEF Backup!Stopped, Backup!Read
    <3>4. Backup!Pass(FALSE) BY <2>2 DEF Backup!Stopped
    <3> HIDE DEF h
    <3> QED BY <3>1, <3>2, <3>3, <3>4
  <2> QED BY <2>1, <2>2 DEF Backup!Next
<1> DEFINE off == IF Len(hours) < BACKUP_HOURS THEN 0 ELSE 1
<1> DEFINE L == Len(hours)
<1> DEFINE M == Len(hours')
<1>3. /\ hours' \in Seq(BackupHours) /\ M = L + 1 - off
      /\ M <= BACKUP_HOURS /\ M > 0
      /\ hours'[M] = h
      /\ \A n \in 1..(M - 1) : n + off \in 1..L /\ hours'[n] = hours[n + off]
  <2>1. hours \in Seq(BackupHours) /\ Len(hours) <= BACKUP_HOURS BY <1>1 DEF BackupTyped
  <2>2. BACKUP_HOURS \in Nat /\ BACKUP_HOURS > 0 BY BackupAssumption
  <2> QED BY <1>2, <2>1, <2>2, WindowMoves
<1>4. L \in Nat /\ M \in Nat /\ off \in {0, 1} BY <1>1, <1>3 DEF BackupTyped
<1> HIDE DEF off, L, M
<1>5. /\ hour' = (hour + 1) % Day
      /\ backed' = (hour' # 0 /\ (backed \/ success))
      /\ missed' = IF success THEN FALSE ELSE missed \/ (hour = NightHours - 1 /\ ~backed)
  BY <1>2 DEF Backup!Pass
<1>5a. /\ backed' \in BOOLEAN /\ (backed' <=> hour' # 0 /\ (backed \/ success))
       /\ missed' \in BOOLEAN /\ (~missed' <=> success \/ (~missed /\ ~(hour = NightHours - 1 /\ ~backed)))
  <2>1. missed \in BOOLEAN BY <1>1 DEF BackupTyped
  <2> QED BY <1>5, <2>1, Zenon
<1>6. hour' = IF hour = Day - 1 THEN 0 ELSE hour + 1
  <2>1. hour \in 0..(Day - 1) /\ Day \in Nat /\ Day > 0 BY <1>1, BackupAssumption DEF BackupTyped
  <2>2. CASE hour = Day - 1
    <3>1. hour + 1 = Day BY <2>1, <2>2
    <3>2. Day % Day = 0 BY <2>1
    <3> QED BY <2>2, <3>1, <3>2, <1>5
  <2>3. CASE hour # Day - 1
    <3>1. hour + 1 \in 0..(Day - 1) BY <2>1, <2>3
    <3>2. \A d \in Nat \ {0} : \A v \in 0..(d - 1) : v % d = v OBVIOUS
    <3>3. (hour + 1) % Day = hour + 1 BY <2>1, <3>1, <3>2
    <3> QED BY <2>3, <3>3, <1>5
  <2> QED BY <2>2, <2>3
<1>7. hour \in 0..(Day - 1) /\ backed \in BOOLEAN /\ missed \in BOOLEAN /\ Day \in Nat /\ Day > 1
      /\ NightHours \in Nat /\ NightHours > 0 /\ NightHours < Day
  BY <1>1, BackupAssumption DEF BackupTyped
<1>8. BackupTyped'
  <2>1. hour' \in 0..(Day - 1) /\ backed' \in BOOLEAN /\ missed' \in BOOLEAN BY <1>5a, <1>6, <1>7
  <2> QED BY <1>3, <2>1 DEF BackupTyped, BackupHours, M
<1>9. backed' => hour' > 0 BY <1>5a, <1>6, <1>7
<1>10. (~missed => \A n \in 0..Len(hours) : NoneForHours(n) => SinceABackup(n))'
  <2> SUFFICES ASSUME ~missed', NEW n \in 0..M,
                      \A k \in 1..M : k > M - n => hours'[k].backups = Nothing
               PROVE  IF backed' THEN n < hour'
                      ELSE IF hour' < NightHours THEN n <= hour' + Day - 1
                      ELSE n <= hour' - NightHours
    BY DEF NoneForHours, SinceABackup, M
  <2>1. CASE n = 0 BY <2>1, <1>6, <1>7, <1>9
  <2>2. CASE n # 0
    <3>1. M \in 1..M /\ M > M - n BY <1>3, <1>4, <2>2
    <3>2. ~success BY <3>1, <1>2, <1>3
    <3>3. ~missed /\ ~(hour = NightHours - 1 /\ ~backed) BY <3>2, <1>5a
    <3>4. n - 1 \in 0..L
      BY <1>3, <1>4, <2>2
    <3>5. NoneForHours(n - 1)
      <4> SUFFICES ASSUME NEW k \in 1..L, k > L - (n - 1) PROVE hours[k].backups = Nothing
        BY DEF NoneForHours, L
      <4>1. k - off \in 1..(M - 1) BY <1>3, <1>4, <3>4
      <4>2. (k - off) + off = k BY <1>4
      <4>3. hours'[k - off] = hours[k] BY <1>3, <4>1, <4>2
      <4>4. k - off \in 1..M /\ k - off > M - n BY <1>3, <1>4, <4>1
      <4> QED BY <4>3, <4>4
    <3>6. SinceABackup(n - 1) BY <3>3, <3>4, <3>5 DEF BackupInv, L
    <3>7. backed' <=> hour' # 0 /\ backed BY <3>2, <1>5a
    <3>8. CASE backed BY <3>6, <3>7, <3>8, <1>6, <1>7 DEF SinceABackup
    <3>9. CASE ~backed BY <3>3, <3>6, <3>7, <3>9, <1>6, <1>7 DEF SinceABackup
    <3> QED BY <3>8, <3>9, <1>7
  <2> QED BY <2>1, <2>2
<1>11. Backup!FailureStays'
  <2>0. SUFFICES ASSUME backup_said' = "a backup failed", (Backup!Says = "backed up")',
                      hours'[M].backups = Nothing
               PROVE  FALSE
    BY DEF Backup!FailureStays, Backup!Arrived, M
  <2>1. FailedSince BY <2>0, <1>1, BackupSays DEF BackupWords
  <2>2. Backup!Succeeded' # {} /\ ~FailedSince'
    <3>1. (BackupTyped => BackupWords)' BY BackupSays, PTL
    <3> QED BY <2>0, <3>1, <1>8 DEF BackupWords
  <2>3. Backup!Succeeded = {k \in 1..L : hours[k].backups # Nothing}
        /\ Backup!HadFailure = {k \in 1..L : hours[k].failed # Nothing}
    BY DEF Backup!Succeeded, Backup!HadFailure, Backup!Arrived, L
  <2> DEFINE Good == {k \in 1..M : hours'[k].backups # Nothing}
  <2> DEFINE Failing == {k \in 1..M : hours'[k].failed # Nothing}
  <2>4. Good # {} /\ ~\E f \in Failing : \A s \in Good : s < f
    <3>1. Backup!Succeeded' = Good /\ Backup!HadFailure' = Failing
      BY DEF Backup!Succeeded, Backup!HadFailure, Backup!Arrived, M
    <3>2. Good # {} /\ ~(\E f \in Backup!HadFailure' : \A s \in Backup!Succeeded' : s < f)
      BY <2>2, <3>1 DEF FailedSince
    <3> HIDE DEF Good, Failing
    <3> QED BY <3>1, <3>2
  <2>5. PICK f \in 1..L : hours[f].failed # Nothing /\ \A s \in Backup!Succeeded : s < f
    BY <2>1, <2>3 DEF FailedSince
  <2>6. \A s \in Good : s \in 1..(M - 1) /\ s + off \in Backup!Succeeded
    <3> SUFFICES ASSUME NEW s \in Good
                 PROVE  s \in 1..(M - 1) /\ s + off \in Backup!Succeeded
      OBVIOUS
    <3>1. s \in 1..M /\ hours'[s].backups # Nothing OBVIOUS
    <3>2. s # M BY <2>0, <3>1
    <3>3. s \in 1..(M - 1)
      <4>1. M \in Nat BY <1>4
      <4>2. s \in 1..M BY <3>1
      <4> HIDE DEF Good, Failing
      <4> QED BY <4>1, <4>2, <3>2
    <3>4. s + off \in 1..L /\ hours'[s] = hours[s + off] BY <3>3, <1>3
    <3> QED BY <3>1, <3>3, <3>4, <2>3
  <2>7. PICK s \in Good : TRUE BY <2>4
  <2>8. s \in 1..(M - 1) /\ s + off < f BY <2>5, <2>6
  <2>9. f - off \in 1..(M - 1) /\ (f - off) + off = f BY <2>8, <1>3, <1>4
  <2>10. hours'[f - off] = hours[f] /\ f - off \in 1..M BY <2>9, <1>3, <1>4
  <2>11. f - off \in Failing BY <2>5, <2>10
  <2>12. \A t \in Good : t < f - off
    <3> SUFFICES ASSUME NEW t \in Good PROVE t < f - off OBVIOUS
    <3>1. t \in 1..(M - 1) /\ t + off < f BY <2>5, <2>6
    <3> QED BY <3>1, <1>4
  <2> QED BY <2>4, <2>11, <2>12
<1> QED BY <1>8, <1>9, <1>10, <1>11 DEF BackupInv

\* A day in which the instance reported all but an hour of what it reports has
\* the minutes the alert asks for.
LEMMA DayReported ==
  ASSUME BackupTyped, MinutesRead >= AllButAnHour, NEW end \in Day..Len(hours)
  PROVE  Fields!SumArrived([n \in 1..Day |-> SubSeq(hours, end - Day + 1, end)[n].minutes]) >= (Day - 1) * POINTS
<1> DEFINE L == Len(hours)
<1> DEFINE whole == Backup!Points("minutes")
<1> DEFINE day == SubSeq(hours, end - Day + 1, end)
<1> DEFINE some == [n \in 1..Day |-> day[n].minutes]
<1>1. L \in Nat /\ Len(whole) = L /\ Readable(whole) /\ \A n \in 1..L : whole[n] = hours[n].minutes
  BY BackupPoints
<1>2. Day \in Nat /\ Day > 0 /\ end \in Nat /\ end - Day \in Nat /\ (end - Day) + Day <= L
  BY <1>1, BackupAssumption
<1>3. Len(some) = Day /\ \A n \in 1..Day : some[n] = day[n].minutes BY <1>2
<1>4. \A n \in 1..Day : day[n] = hours[(end - Day) + n]
  <2> SUFFICES ASSUME NEW n \in 1..Day PROVE day[n] = hours[(end - Day) + n] OBVIOUS
  <2>1. hours \in Seq(BackupHours) BY DEF BackupTyped
  <2>2. end - Day + 1 \in 1..(L + 1) /\ end \in 0..L /\ end - (end - Day + 1) + 1 = Day BY <1>1, <1>2
  <2>3. end - Day + 1 + n - 1 = (end - Day) + n BY <1>2
  <2>4. n \in 1..(end - (end - Day + 1) + 1) BY <2>2
  <2>5. day = [k \in 1..(end - (end - Day + 1) + 1) |-> hours[end - Day + 1 + k - 1]]
    BY <2>1, <2>2
  <2>6. day[n] = hours[end - Day + 1 + n - 1]
    <3> HIDE DEF day
    <3> QED BY <2>4, <2>5
  <2> QED BY <2>3, <2>6
<1>5. \A n \in 1..Day : (end - Day) + n \in 1..L BY <1>1, <1>2
<1> HIDE DEF day, some, whole
<1>6. \A n \in 1..Day : some[n] = whole[(end - Day) + n] BY <1>1, <1>3, <1>4, <1>5
<1>7. POINTS \in Nat /\ BACKUP_HOURS \in Nat /\ L <= BACKUP_HOURS BY BackupAssumption DEF BackupTyped
<1>8. \A n \in 1..L : whole[n] # Nothing => whole[n] \in Int /\ whole[n] <= POINTS BY <1>1, <1>7, HourIs
<1>9. Readable(some)
  <2>1. \A n \in 1..Day : some[n] = Nothing \/ some[n] \in Int BY <1>5, <1>6, <1>8
  <2> QED BY <1>2, <1>3, <2>1 DEF Readable
<1>10. Fields!SumArrived(some) >= Fields!SumArrived(whole) - POINTS * (L - Day)
  <2>1. \A n \in 1..Len(whole) : whole[n] # Nothing => whole[n] <= POINTS BY <1>1, <1>8
  <2>2. end - Day \in Nat /\ (end - Day) + Len(some) <= Len(whole) BY <1>1, <1>2, <1>3
  <2>3. \A n \in 1..Len(some) : some[n] = whole[(end - Day) + n] BY <1>3, <1>6
  <2>4. Fields!SumArrived(some) >= Fields!SumArrived(whole) - POINTS * (Len(whole) - Len(some))
    BY <1>1, <1>7, <1>9, <2>1, <2>2, <2>3, PartSum
  <2> QED BY <1>1, <1>3, <2>4
<1>11. Fields!SumArrived(whole) = MinutesRead /\ MinutesRead \in Int
  BY MinutesAre DEF MinutesRead, whole
<1>12. Fields!SumArrived(some) \in Int
  <2>1. {} \in SUBSET (1..Len(some)) /\ 0 \in Nat OBVIOUS
  <2> QED BY <1>9, <2>1, SumBetween
<1>13. AllButAnHour - POINTS * (L - Day) >= (Day - 1) * POINTS
  <2> DEFINE d == BACKUP_HOURS - L
  <2>1. d \in Nat /\ BACKUP_HOURS = L + d BY <1>1, <1>7
  <2>2. AllButAnHour = (L + d - 1) * POINTS BY <2>1 DEF AllButAnHour
  <2> HIDE DEF d, L
  <2>3. (L + d - 1) * POINTS = L * POINTS + d * POINTS - POINTS BY <2>1, <1>1, <1>7
  <2>4. POINTS * (L - Day) = L * POINTS - Day * POINTS /\ (Day - 1) * POINTS = Day * POINTS - POINTS
    BY <1>1, <1>2, <1>7
  <2>5. d * POINTS >= 0 /\ d * POINTS \in Int /\ L * POINTS \in Int /\ Day * POINTS \in Int
    BY <2>1, <1>1, <1>2, <1>7
  <2> QED BY <2>2, <2>3, <2>4, <2>5, <1>7
<1>14. AllButAnHour \in Int /\ POINTS * (L - Day) \in Int /\ (Day - 1) * POINTS \in Int
  BY <1>1, <1>2, <1>7 DEF AllButAnHour
<1>15. Fields!SumArrived(some) >= (Day - 1) * POINTS BY <1>10, <1>11, <1>12, <1>13, <1>14
<1> QED BY <1>15 DEF some, day

\* What the backups tile promises follows from what it has, and from when the nights are.
LEMMA BackupSafe == BackupInv => Backup!Safe
<1> SUFFICES ASSUME BackupInv PROVE Backup!Safe
  OBVIOUS
<1> DEFINE L == Len(hours)
<1>1. BackupTyped /\ L \in Nat /\ L <= BACKUP_HOURS BY DEF BackupInv, BackupTyped
<1>2. BackupWords BY <1>1, BackupSays
<1>3. /\ MinutesRead \in Int
      /\ Cardinality(Backup!Reported) \in Nat /\ Cardinality(Backup!RanWhole) \in Nat
      /\ MinutesRead <= POINTS * Cardinality(Backup!Reported)
      /\ MinutesRead >= POINTS * Cardinality(Backup!RanWhole)
      /\ Cardinality(Backup!Reported) <= L
  BY <1>1, MinutesAre
<1>4. /\ Day \in Nat /\ NightHours \in Nat /\ NightHours > 0 /\ MarginHours \in Nat /\ POINTS \in Nat \ {0}
      /\ BACKUP_HOURS \in Nat /\ NightHours + MarginHours < Day
      /\ BACKUP_HOURS >= Day + NightHours /\ BACKUP_HOURS - Day > NightHours + MarginHours
      /\ hour \in 0..(Day - 1)
  BY <1>1, BackupAssumption DEF BackupTyped
<1>5. AllButAnHour = POINTS * (BACKUP_HOURS - 1) /\ AllButAnHour \in Int BY <1>4 DEF AllButAnHour
<1>6. MinutesRead >= AllButAnHour => Cardinality(Backup!Reported) >= BACKUP_HOURS - 1
  <2> SUFFICES ASSUME MinutesRead >= AllButAnHour PROVE Cardinality(Backup!Reported) >= BACKUP_HOURS - 1
    OBVIOUS
  <2> DEFINE c == Cardinality(Backup!Reported)
  <2> DEFINE b == BACKUP_HOURS - 1
  <2>1. c \in Int /\ b \in Int /\ MinutesRead <= POINTS * c /\ MinutesRead >= POINTS * b BY <1>3, <1>4, <1>5
  <2> HIDE DEF c, b
  <2>2. POINTS * c \in Int /\ POINTS * b \in Int BY <1>4, <2>1
  <2>3. POINTS * c >= POINTS * b BY <1>3, <2>1, <2>2
  <2>4. c >= b BY <1>4, <2>1, <2>3, Factor
  <2> QED BY <2>4 DEF c, b
<1>7. Cardinality(Backup!RanWhole) >= BACKUP_HOURS - 1 => MinutesRead >= AllButAnHour
  <2> SUFFICES ASSUME Cardinality(Backup!RanWhole) >= BACKUP_HOURS - 1 PROVE MinutesRead >= AllButAnHour
    OBVIOUS
  <2> DEFINE b == BACKUP_HOURS - 1
  <2> DEFINE d == Cardinality(Backup!RanWhole) - b
  <2>1. d \in Nat /\ b \in Int /\ Cardinality(Backup!RanWhole) = b + d BY <1>3, <1>4
  <2>2. MinutesRead >= POINTS * (b + d) BY <1>3, <2>1
  <2>3. AllButAnHour = POINTS * b BY <1>5
  <2> HIDE DEF b, d
  <2>4. POINTS * (b + d) = POINTS * b + POINTS * d /\ POINTS * d >= 0 BY <1>4, <2>1
  <2>5. POINTS * b \in Int /\ POINTS * d \in Int BY <1>4, <2>1
  <2> QED BY <1>3, <2>2, <2>3, <2>4, <2>5
<1>8. ASSUME Backup!Says = "none"
      PROVE  /\ Backup!Succeeded = {} /\ MinutesRead >= AllButAnHour /\ L >= BACKUP_HOURS - 1
             /\ \A n \in 1..L : hours[n].backups = Nothing
  <2>1. Backup!Succeeded = {} /\ MinutesRead >= AllButAnHour BY <1>2, <1>8 DEF BackupWords
  <2>2. L >= BACKUP_HOURS - 1
    <3> HIDE DEF L
    <3> QED BY <1>1, <1>3, <1>4, <1>6, <2>1
  <2>3. \A n \in 1..L : hours[n].backups = Nothing BY <2>1 DEF Backup!Succeeded, Backup!Arrived
  <2> QED BY <2>1, <2>2, <2>3
<1>9. Backup!NoneAsSaid
  <2>1. ASSUME Backup!Says = "none"
        PROVE  Backup!Succeeded = {} /\ Cardinality(Backup!Reported) >= BACKUP_HOURS - 1
    BY <2>1, <1>6, <1>8
  <2>2. ASSUME Cardinality(Backup!RanWhole) >= BACKUP_HOURS - 1, Backup!Succeeded = {}
        PROVE  Backup!Says = "none"
    BY <2>2, <1>2, <1>7 DEF BackupWords
  <2> QED BY <2>1, <2>2, BackupFields DEF Backup!NoneAsSaid
<1>10. Backup!NoneMeansMissed
  <2> SUFFICES ASSUME Backup!Says = "none", ~missed PROVE FALSE BY DEF Backup!NoneMeansMissed
  <2>1. NoneForHours(L) BY <1>8 DEF NoneForHours
  <2>2. L \in 0..L BY <1>1
  <2>3. SinceABackup(L) BY <2>1, <2>2 DEF BackupInv
  <2>4. L >= BACKUP_HOURS - 1 BY <1>8
  <2> HIDE DEF L
  <2>5. CASE backed BY <2>3, <2>4, <2>5, <1>1, <1>4 DEF SinceABackup
  <2>6. CASE ~backed BY <2>3, <2>4, <2>6, <1>1, <1>4 DEF SinceABackup
  <2> QED BY <2>5, <2>6
<1>11. Backup!NoneIsPaged
  <2> SUFFICES ASSUME Backup!Says = "none"
               PROVE  \E ago \in 0..(BACKUP_HOURS - Day) : Backup!BackupMissing(ago)
    BY DEF Backup!NoneIsPaged
  <2> DEFINE ago == IF hour >= NightHours + MarginHours THEN 0 ELSE hour + 1
  <2> DEFINE end == L - ago
  <2> DEFINE day == SubSeq(hours, end - Day + 1, end)
  <2>1. ago \in 0..(BACKUP_HOURS - Day) BY <1>4
  <2>2. (hour - ago) % Day >= NightHours + MarginHours
    <3>1. \A d \in Nat \ {0} : (\A v \in 0..(d - 1) : v % d = v) /\ (-1) % d = d - 1 OBVIOUS
    <3>2. Day \in Nat \ {0} BY <1>4
    <3>3. CASE hour >= NightHours + MarginHours
      <4>1. hour - ago = hour BY <3>3, <1>4
      <4>2. hour % Day = hour BY <3>1, <3>2, <1>4
      <4> QED BY <3>3, <4>1, <4>2
    <3>4. CASE ~(hour >= NightHours + MarginHours)
      <4>1. hour - ago = -1 BY <3>4, <1>4
      <4>2. (hour - ago) % Day = Day - 1 BY <4>1, <3>1, <3>2
      <4> QED BY <4>2, <1>4
    <3> QED BY <3>3, <3>4
  <2>3. end \in Day..L
    <3>1. L >= BACKUP_HOURS - 1 /\ L \in Nat BY <1>1, <1>8
    <3> HIDE DEF L
    <3>2. ago \in Nat /\ ago <= NightHours + MarginHours /\ (ago = 0 \/ ago <= NightHours + MarginHours) BY <1>4
    <3> HIDE DEF ago
    <3> QED BY <3>1, <3>2, <1>4
  <2> HIDE DEF ago
  <2>4. \A n \in 1..Day : ~Backup!Arrived(day[n].backups)
    <3> SUFFICES ASSUME NEW n \in 1..Day PROVE ~Backup!Arrived(day[n].backups) OBVIOUS
    <3>1. hours \in Seq(BackupHours) BY <1>1 DEF BackupTyped
    <3>2. /\ end - Day + 1 \in 1..(L + 1) /\ end \in 0..L /\ n \in 1..(end - (end - Day + 1) + 1)
          /\ end - Day + 1 + n - 1 \in 1..L
      <4> HIDE DEF end, L
      <4> QED BY <2>3, <1>1, <1>4
    <3> HIDE DEF end
    <3>3. day = [k \in 1..(end - (end - Day + 1) + 1) |-> hours[end - Day + 1 + k - 1]]
      BY <3>1, <3>2
    <3>4. day[n] = hours[end - Day + 1 + n - 1]
      <4> HIDE DEF day
      <4> QED BY <3>2, <3>3
    <3> QED BY <3>2, <3>4, <1>8 DEF Backup!Arrived
  <2>5. Backup!SumArrived([n \in 1..Day |-> day[n].minutes]) >= (Day - 1) * POINTS
    <3> HIDE DEF end
    <3> QED BY <1>1, <1>8, <2>3, DayReported, BackupFields
  <2>6. end >= Day BY <2>3, <1>1, <1>4
  <2>7. Backup!BackupMissing(ago) BY <2>2, <2>4, <2>5, <2>6 DEF Backup!BackupMissing
  <2> QED BY <2>1, <2>7
<1>12. Backup!FailedAsSaid
  <2>1. Backup!Says = "a backup failed" => \E f \in Backup!HadFailure : \A s \in Backup!Succeeded : s < f
    BY <1>2 DEF BackupWords, FailedSince
  <2>2. ASSUME Backup!Says = "backed up"
        PROVE  Backup!Succeeded # {} /\ \A f \in Backup!HadFailure : \E s \in Backup!Succeeded : s >= f
    <3>1. Backup!Succeeded # {} /\ ~FailedSince BY <2>2, <1>2 DEF BackupWords
    <3>2. \A f \in Backup!HadFailure : \E s \in Backup!Succeeded : ~(s < f) BY <3>1 DEF FailedSince
    <3>3. Backup!HadFailure \subseteq Int /\ Backup!Succeeded \subseteq Int
      BY DEF Backup!HadFailure, Backup!Succeeded
    <3> QED BY <3>1, <3>2, <3>3
  <2> QED BY <2>1, <2>2 DEF Backup!FailedAsSaid
<1>13. Backup!FailureStays BY DEF BackupInv
<1> QED BY <1>9, <1>10, <1>11, <1>12, <1>13 DEF Backup!Safe

-----------------------------------------------------------------------------
(* What the tiles say *)

\* While another part runs, what a tile says stays as it is.
LEMMA BackupStays == BackupInv /\ UNCHANGED backup_vars => BackupInv'
<1> SUFFICES ASSUME BackupInv, UNCHANGED backup_vars PROVE BackupInv'
  OBVIOUS
<1>1. UNCHANGED hours /\ UNCHANGED <<hour, backed, missed, backup_said>> BY DEF backup_vars
<1>2. Backup!Says' = Backup!Says
  BY <1>1 DEF Backup!Says, Backup!Status, Backup!BACKUP_STATUS, Backup!BackedUp, Backup!Backups, Backup!AFailureSince,
         Backup!Missing, Backup!RanTheWindow, Backup!MinutesKept, Backup!Points
<1>3. Backup!FailureStays' BY <1>1, <1>2 DEF BackupInv, Backup!FailureStays
<1>4. BackupTyped' BY <1>1 DEF BackupInv, BackupTyped, BackupHours
<1>5. (backed => hour > 0)' BY <1>1 DEF BackupInv
<1>6. (~missed => \A n \in 0..Len(hours) : NoneForHours(n) => SinceABackup(n))'
  BY <1>1 DEF BackupInv, NoneForHours, SinceABackup
<1> QED BY <1>3, <1>4, <1>5, <1>6 DEF BackupInv

\* So do the logs.
LEMMA LogsStay == LogsInv /\ UNCHANGED logs_vars => LogsInv'
<1> SUFFICES ASSUME LogsInv, UNCHANGED logs_vars PROVE LogsInv'
  OBVIOUS
<1>1. UNCHANGED archive_slots /\ UNCHANGED archive_said BY DEF logs_vars
<1>2. \A n : Logs!FailedIn(n)' = Logs!FailedIn(n) BY <1>1 DEF Logs!FailedIn
<1>3. Logs!FailedOrNone' = Logs!FailedOrNone BY <1>1 DEF Logs!FailedOrNone, Logs!FailedIn
<1>4. Logs!Says' = Logs!Says
  BY <1>1, <1>3 DEF Logs!Says, Logs!Status, Logs!PITR_STATUS, Logs!Shipping, Logs!Shipped, Logs!Stalled,
         Logs!RanEnough, Logs!Ran
<1>5. Logs!StallStays' BY <1>1, <1>4 DEF LogsInv, Logs!StallStays, Logs!Reported
<1>6. LogsTyped' BY <1>1 DEF LogsInv, LogsTyped, LogsSlots
<1> QED BY <1>5, <1>6 DEF LogsInv

\* So does a service.
LEMMA ServiceStays == ServiceInv /\ UNCHANGED service_vars => ServiceInv'
<1> SUFFICES ASSUME ServiceInv, UNCHANGED service_vars PROVE ServiceInv'
  OBVIOUS
<1>1. UNCHANGED slots /\ UNCHANGED <<warm, inside, service_said>> BY DEF service_vars
<1>2. Service!Says' = Service!Says
  BY <1>1 DEF Service!Says, Service!Status, Service!STATUS, Service!Slot, Service!Running, Service!Instances,
         Service!Field, Service!Erroring, Service!Answered5xx, Service!Crashing, Service!Exits, Service!InsideDown,
         Service!Passing, Service!NoInstance
<1>3. Service!RecoversOnACount' BY <1>1, <1>2 DEF ServiceInv, Service!RecoversOnACount
<1>4. ServiceTyped' BY <1>1 DEF ServiceInv, ServiceTyped, ServiceSlots, Service!Slot
<1> QED BY <1>3, <1>4 DEF ServiceInv

\* So does an area.
LEMMA AreaStays == AreaInv /\ UNCHANGED area_vars => AreaInv'
BY DEF AreaInv, Whole, Partial, Area!Series, Area!Values, area_vars

\* For any length of the windows, any reading of an hour or a slot and any
\* order of stops and starts: each tile of the cloud pages and the alerts
\* beside it tell the same, but for a service whose counts stopped: beside its
\* page the last count may stand for as long as the tile's range has it, and no
\* longer (AbsentIsDown). The backups tile's "none" comes of a night without a
\* backup, by how long ago the last one can be at each hour of the day.
THEOREM TilesTold == MonitoringSpec => []TilesAgree
<1> DEFINE Inv == /\ part = "area" => AreaInv
                  /\ part = "backup" => BackupInv
                  /\ part = "logs" => LogsInv
                  /\ part = "service" => ServiceInv
<1>1. Begin => Inv BY AreaStarts, BackupStarts, LogsStarts, ServiceStarts DEF Begin
<1>2. Inv /\ [Step]_all => Inv'
  <2> SUFFICES ASSUME Inv, [Step]_all PROVE Inv'
    OBVIOUS
  <2>1. part' = part
    <3>1. CASE WatchWorker \/ ScrubLine \/ WatchProbes BY <3>1 DEF WatchWorker, ScrubLine, WatchProbes
    <3>2. CASE ReadArea \/ ReadBackups BY <3>2 DEF ReadArea, ReadBackups
    <3>3. CASE ReadArchives \/ ReadService BY <3>3 DEF ReadArchives, ReadService
    <3>4. CASE UNCHANGED all BY <3>4 DEF all
    <3> QED BY <3>1, <3>2, <3>3, <3>4 DEF Step
  <2>2. ASSUME part = "area" PROVE AreaInv'
    <3>1. CASE ReadArea BY <2>2, <3>1, AreaKeeps DEF ReadArea
    <3>2. CASE UNCHANGED all BY <2>2, <3>2, AreaStays DEF all
    <3> QED BY <2>2, <3>1, <3>2
      DEF Step, WatchWorker, ScrubLine, WatchProbes, ReadBackups, ReadArchives, ReadService
  <2>3. ASSUME part = "backup" PROVE BackupInv'
    <3>1. CASE ReadBackups BY <2>3, <3>1, BackupKeeps DEF ReadBackups
    <3>2. CASE UNCHANGED all BY <2>3, <3>2, BackupStays DEF all
    <3> QED BY <2>3, <3>1, <3>2
      DEF Step, WatchWorker, ScrubLine, WatchProbes, ReadArea, ReadArchives, ReadService
  <2>4. ASSUME part = "logs" PROVE LogsInv'
    <3>1. CASE ReadArchives BY <2>4, <3>1, LogsKeeps DEF ReadArchives
    <3>2. CASE UNCHANGED all BY <2>4, <3>2, LogsStay DEF all
    <3> QED BY <2>4, <3>1, <3>2
      DEF Step, WatchWorker, ScrubLine, WatchProbes, ReadArea, ReadBackups, ReadService
  <2>5. ASSUME part = "service" PROVE ServiceInv'
    <3>1. CASE ReadService BY <2>5, <3>1, ServiceKeeps DEF ReadService
    <3>2. CASE UNCHANGED all BY <2>5, <3>2, ServiceStays DEF all
    <3> QED BY <2>5, <3>1, <3>2
      DEF Step, WatchWorker, ScrubLine, WatchProbes, ReadArea, ReadBackups, ReadArchives
  <2> QED BY <2>1, <2>2, <2>3, <2>4, <2>5
<1>3. Inv => TilesAgree BY AreaSafe, BackupSafe, LogsSafe, ServiceSafe DEF TilesAgree
<1> QED BY <1>1, <1>2, <1>3, PTL DEF MonitoringSpec
=============================================================================
