------------------------------ MODULE ServiceTile ------------------------------
(***************************************************************************)
(* scripts/cloud_dashboards.py, service_status: one service's tile over    *)
(* the last fifteen minutes, as the minutes pass, beside the alerts its    *)
(* "down" stands for. A slot is five minutes. Left out: the tile while     *)
(* what it depends on is stopped on purpose (quieten).                     *)
(***************************************************************************)
EXTENDS DashboardFields

CONSTANTS
  Quarter,      \* slots the tile reads
  BelowFor,     \* slots the policy's threshold is held for
  AbsentFor     \* slots without a count after which its absence condition pages

VARIABLES
  warm,         \* whether the environment keeps it warm (KEPT_WARM)
  inside,       \* whether a private check watches it (INSIDE_CHECKED)
  slots,        \* the slots the tile reads, oldest first
  said          \* what the tile said a slot ago: no variable of the code

vars == <<warm, inside, slots, said>>

\* What arrived of a slot: the instances, the checker regions passing, and the
\* 5xx, exits and kills counted.
Slot(instances, passing, event) ==
  [instances |-> instances, inside |-> IF inside THEN passing ELSE Nothing,
   errors |-> IF event = "5xx" THEN 1 ELSE Nothing, crashed |-> IF event = "exit" THEN 1 ELSE Nothing,
   killed |-> IF event = "kill" THEN 1 ELSE Nothing]

-----------------------------------------------------------------------------
(* The tile *)

Field(name) == [n \in 1..Len(slots) |-> slots[n][name]]

\* Mutant: the most of them.
InstancesMost == MaxArrived(Field("instances"))

\* The latest count.
Instances == LastNotNull(Field("instances"))

\* The latest answer of the check, and the events of the range summed.
Passing == LastNotNull(Field("inside"))
Answered5xx == SumOfPoints(Field("errors"))
Exits == SumArrived(<<SumOfPoints(Field("crashed")), SumOfPoints(Field("killed"))>>)

Running == AtLeastOne(SumArrived(<<Instances>>))
Erroring == AtLeastOne(Answered5xx)
Crashing == AtLeastOne(Exits)

\* No region passes, where the check answered.
InsideDown == IF inside THEN Minus(1, AtLeastOne(Passing)) ELSE Nothing

NoInstance == IF warm THEN Minus(1, Running) ELSE Nothing

\* The worst of them.
Status ==
  MaxArrived(<<Running, Times(Erroring, 2), Times(Crashing, 3), Times(InsideDown, 4), Times(NoInstance, 4)>>)

STATUS == [code \in 0..4 |->
  CASE code = 0 -> "idle" [] code = 1 -> "up" [] code = 2 -> "errors" [] code = 3 -> "crashing" [] OTHER -> "down"]

\* What the tile says; where nothing arrived, its words for no value.
Says ==
  IF \A n \in 1..Len(slots) : slots[n] = Slot(Nothing, Nothing, "none")
  THEN (IF warm THEN "down" ELSE "idle") ELSE STATUS[Status]

-----------------------------------------------------------------------------
(* The alerts *)

Latest(n) == {k \in 1..Len(slots) : k > Len(slots) - n}

\* <service> has no instance, of one kept warm: counted below one for BelowFor,
\* or not counted at all for AbsentFor.
BelowOne == Len(slots) >= BelowFor /\ \A k \in Latest(BelowFor) : slots[k].instances = 0
Absent == Len(slots) >= AbsentFor /\ \A k \in Latest(AbsentFor) : ~Arrived(slots[k].instances)

\* inside-down: the latest result has no region passing.
RegionsDown == Len(slots) > 0 /\ slots[Len(slots)].inside = 0

-----------------------------------------------------------------------------
(* The service *)

Init == warm \in BOOLEAN /\ inside \in BOOLEAN /\ slots = <<>> /\ said = Says

\* A slot: the counts may arrive or not, and something may go wrong in it.
Next ==
  /\ said' = Says /\ UNCHANGED <<warm, inside>>
  /\ \E instances \in {Nothing, 0, 1}, passing \in (IF inside THEN {Nothing, 0, 1} ELSE {Nothing}),
        event \in {"none", "5xx", "exit", "kill"} :
       LET slot == Slot(instances, passing, event)
       IN slots' = IF Len(slots) < Quarter THEN Append(slots, slot) ELSE Append(Tail(slots), slot)

Spec == Init /\ [][Next]_vars

-----------------------------------------------------------------------------
(***************************************************************************)
(* What a service's tile promises beside its alerts, in the words of its   *)
(* description.                                                            *)
(***************************************************************************)

Counted == {k \in 1..Len(slots) : Arrived(slots[k].instances)}
Checked == {k \in 1..Len(slots) : Arrived(slots[k].inside)}
Had(name) == \E k \in 1..Len(slots) : Arrived(slots[k][name])

-----------------------------------------------------------------------------

\* What an alert decides from a point is down at once, whatever else the
\* quarter hour held: errors and crashes never hide it.
DecidedIsDown == (warm /\ BelowOne) \/ RegionsDown => Says = "down"

\* What it decides from absence is down too, at once or, where a count of one
\* from before the absence is still in the range (lastNotNull reads it), when
\* that count is out of it: for so long, and no longer, the tile is not down
\* beside its page. Nothing counted in the whole range is down.
AbsentIsDown ==
  warm =>
    /\ Absent => \/ Says = "down"
                 \/ \E k \in 1..Len(slots) \ Latest(AbsentFor) : slots[k].instances = 1
    /\ Counted = {} => Says = "down"

\* Down is never said for want of a point that is merely late: the latest check
\* answer had no region passing, or a service kept warm counted none last, or
\* counted nothing in the whole range. A service that may rest is never down
\* for having no instance.
DownForCause ==
  Says = "down" =>
    \/ Checked # {} /\ slots[Max(Checked)].inside = 0
    \/ warm /\ (Counted = {} \/ slots[Max(Counted)].instances = 0)

\* Nothing that went wrong in the range is read as fine: after an exit or a
\* kill the tile is crashing or down, after a 5xx it is neither up nor idle.
WrongIsShown ==
  /\ Had("crashed") \/ Had("killed") => Says \in {"crashing", "down"}
  /\ Had("errors") => Says \notin {"up", "idle"}

\* A service kept warm that was down for want of an instance is up again only on
\* a count of one: neither a late count nor the last one's age revives it.
RecoversOnACount ==
  warm /\ ~inside /\ said = "down" /\ Says # "down" /\ slots # <<>> => slots[Len(slots)].instances = 1

\* What the tile promises, all of it.
Safe ==
  /\ DecidedIsDown /\ AbsentIsDown /\ DownForCause /\ WrongIsShown /\ RecoversOnACount
=============================================================================
