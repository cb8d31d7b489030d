-------------------------------- MODULE Egress --------------------------------
(***************************************************************************)
(* synthetics/journeys.py, _egress and _reach: the rounds of bare          *)
(* connections to every host and port of a journey, until each of them has *)
(* connected EGRESS_READY times in a row or the budget is spent. Time is   *)
(* in ticks, as in Dial. Left out: egress_wait 0, which skips the step.    *)
(***************************************************************************)
EXTENDS Integers, Sequences

CONSTANTS
  Targets,             \* how many hosts and ports there are
  Budget,              \* egress_wait
  EGRESS_ATTEMPT_S, EGRESS_PAUSE_S, EGRESS_READY,
  MaxAddresses, MaxResolve, Overrun    \* as in Dial

VARIABLES
  now,
  pc,          \* "target", "resolve", "address", "passed", "failed"
  target,      \* the one of this round that is due; past the last at the round's end
  addresses,   \* of each target, Unknown until it is resolved
  in_a_row,    \* of each target
  left,        \* addresses still to be tried
  knocks,      \* connections begun
  tried,       \* of each target, whether its last attempts connected: no variable of the code
  seen         \* targets tried in this round: no variable of the code

vars == <<now, pc, target, addresses, in_a_row, left, knocks, tried, seen>>

\* Not a key of addresses.
Unknown == -1

Init ==
  /\ now = 0 /\ pc = "target" /\ target = 1 /\ left = 0 /\ knocks = 0 /\ seen = {}
  /\ addresses = [t \in 1..Targets |-> Unknown]
  /\ in_a_row = [t \in 1..Targets |-> 0]
  /\ tried = [t \in 1..Targets |-> <<>>]

-----------------------------------------------------------------------------
(* _reach *)

\* The last EGRESS_READY attempts are remembered, each "connected" or "lost".
Seen(outcome) ==
  /\ tried' = [tried EXCEPT ![target] =
                 IF Len(@) < EGRESS_READY THEN Append(@, outcome) ELSE Append(Tail(@), outcome)]
  /\ seen' = seen \cup {target}

\* Mutant: a lost connection takes nothing from the count.
AnswerKeeps(outcome) ==
  /\ Seen(outcome)
  /\ in_a_row' = [in_a_row EXCEPT ![target] = IF outcome = "connected" THEN @ + 1 ELSE @]
  /\ pc' = "target" /\ target' = target + 1

\* What _reach found: a connection lost starts the target's count again.
Answer(outcome) ==
  /\ Seen(outcome)
  /\ in_a_row' = [in_a_row EXCEPT ![target] = IF outcome = "connected" THEN @ + 1 ELSE 0]
  /\ pc' = "target" /\ target' = target + 1

\* A target of the round that has not connected often enough.
Due == pc = "target" /\ target <= Targets /\ in_a_row[target] < EGRESS_READY

NoTime ==
  /\ Due /\ now >= Budget
  /\ Answer("lost")
  /\ UNCHANGED <<now, addresses, left, knocks>>

Reach ==
  /\ Due /\ now < Budget
  /\ IF addresses[target] = Unknown THEN pc' = "resolve" /\ UNCHANGED left
                                    ELSE pc' = "address" /\ left' = addresses[target]
  /\ UNCHANGED <<now, target, addresses, in_a_row, knocks, tried, seen>>

Resolve ==
  /\ pc = "resolve"
  /\ \E d \in 0..MaxResolve : now' = now + d
  /\ \/ /\ left' \in 0..MaxAddresses /\ addresses' = [addresses EXCEPT ![target] = left']
        /\ pc' = "address" /\ UNCHANGED <<target, in_a_row, tried, seen>>
     \/ Answer("lost") /\ UNCHANGED <<addresses, left>>
  /\ UNCHANGED knocks

\* An address is tried for an attempt's time, never past the budget.
AttemptEnd == IF EGRESS_ATTEMPT_S <= Budget - now THEN now + EGRESS_ATTEMPT_S ELSE Budget

Knocks ==
  /\ pc = "address" /\ left > 0 /\ now < Budget
  /\ now' \in now..AttemptEnd /\ knocks' = knocks + 1

Connects == Knocks /\ Answer("connected") /\ UNCHANGED <<addresses, left>>

\* Refused, or silent until the attempt's end: the next address.
Refused ==
  /\ Knocks /\ left' = left - 1
  /\ UNCHANGED <<pc, target, addresses, in_a_row, tried, seen>>

Lost ==
  /\ pc = "address" /\ (left = 0 \/ now >= Budget)
  /\ Answer("lost")
  /\ UNCHANGED <<now, addresses, left, knocks>>

-----------------------------------------------------------------------------
(* _egress *)

\* A target that has connected often enough is not tried again.
Ready ==
  /\ pc = "target" /\ target <= Targets /\ in_a_row[target] >= EGRESS_READY
  /\ target' = target + 1
  /\ UNCHANGED <<now, pc, addresses, in_a_row, left, knocks, tried, seen>>

RoundOver == pc = "target" /\ target > Targets

AllReady == \A t \in 1..Targets : in_a_row[t] >= EGRESS_READY

Pass ==
  /\ RoundOver /\ AllReady
  /\ pc' = "passed"
  /\ UNCHANGED <<now, target, addresses, in_a_row, left, knocks, tried, seen>>

\* Mutant: no round begins with less than a pause left.
SpentSoon == now + EGRESS_PAUSE_S >= Budget

\* The budget is spent.
Spent == now >= Budget

GiveUp ==
  /\ RoundOver /\ ~AllReady /\ Spent
  /\ pc' = "failed"
  /\ UNCHANGED <<now, target, addresses, in_a_row, left, knocks, tried, seen>>

\* A pause never goes past the budget.
PauseTime == IF EGRESS_PAUSE_S <= Budget - now THEN EGRESS_PAUSE_S ELSE Budget - now

Pause ==
  /\ RoundOver /\ ~AllReady /\ ~Spent
  /\ \E late \in 0..Overrun : now' = now + PauseTime + late
  /\ target' = 1 /\ seen' = {}
  /\ UNCHANGED <<pc, addresses, in_a_row, left, knocks, tried>>

-----------------------------------------------------------------------------

Next == \/ NoTime \/ Reach \/ Resolve \/ Connects \/ Refused \/ Lost
        \/ Ready \/ Pass \/ GiveUp \/ Pause

Spec == Init /\ [][Next]_vars /\ WF_vars(Next)

-----------------------------------------------------------------------------
(***************************************************************************)
(* What the egress step promises, and that it is a Connecting.             *)
(***************************************************************************)

\* The type of every variable.
TypeOK ==
  /\ now \in Nat /\ pc \in {"target", "resolve", "address", "passed", "failed"}
  /\ target \in 1..(Targets + 1) /\ left \in 0..MaxAddresses /\ knocks \in Nat
  /\ addresses \in [1..Targets -> {Unknown} \cup 0..MaxAddresses]
  /\ in_a_row \in [1..Targets -> 0..EGRESS_READY]

-----------------------------------------------------------------------------

\* The step passes once the last EGRESS_READY attempts of every target have all
\* connected, whatever was lost before: no journey starts on a path that comes
\* and goes.
PassedInARow == pc = "passed" =>
  \A t \in 1..Targets : tried[t] = [k \in 1..EGRESS_READY |-> "connected"]

\* At the end of a round every target that is not ready was tried in it: none
\* starves behind another that is lost.
NoneStarves == RoundOver => \A t \in 1..Targets : in_a_row[t] < EGRESS_READY => t \in seen

\* The step is back within its budget, but for one name's lookup or the time
\* one pause ran over.
WithinBudget == now <= Budget + (IF MaxResolve > Overrun THEN MaxResolve ELSE Overrun)

\* The egress step is a Connecting that gives up at nothing less than its whole
\* budget: no connection is begun once it is spent, none made late passes.
Promise == INSTANCE Connecting WITH
  Grace <- 0, tries <- knocks,
  state <- CASE pc = "passed" -> "connected" [] pc = "failed" -> "failed" [] OTHER -> "trying"
IsConnecting == Promise!Spec

\* What the step promises at any moment.
Safe ==
  /\ TypeOK /\ PassedInARow /\ NoneStarves /\ WithinBudget

\* Where it ends.
Over == pc \in {"passed", "failed"}
=============================================================================
