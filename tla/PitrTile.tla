------------------------------- MODULE PitrTile -------------------------------
(***************************************************************************)
(* scripts/cloud_dashboards.py, pitr_status: an instance's point-in-time   *)
(* logs tile over the last PITR_MINUTES, as the minutes pass, beside the   *)
(* alerts it stands for. A slot is five minutes, about what an archive     *)
(* takes. Left out: the tile while its database is stopped on purpose      *)
(* (quieten).                                                              *)
(***************************************************************************)
EXTENDS DashboardFields

CONSTANTS
  PITR_MINUTES,         \* slots the tile reads, and the absence that pages
  PITR_RAN_MINUTES,     \* slots reported before it judges, and the hold that pages
  PITR_FAILED_MINUTES,  \* slots a failure is told for
  Period                \* slots of the stalled policy's sums

VARIABLES
  slots,                \* the slots the tile reads, oldest first
  said                  \* what the tile said a slot ago: no variable of the code

vars == <<slots, said>>

\* What arrived of a slot: whether the instance reported, the archives it
\* shipped and those that failed.
Slot(ran, shipped, failed) == [ran |-> ran, shipped |-> shipped, failed |-> failed]
NoPoint == Slot(Nothing, Nothing, Nothing)

-----------------------------------------------------------------------------
(* The tile *)

Ran == [n \in 1..Len(slots) |-> slots[n].ran]
Shipped == [n \in 1..Len(slots) |-> slots[n].shipped]

\* The failures of the stretch of PITR_FAILED_MINUTES up to a slot.
FailedIn(last) ==
  LET first == Max({1, last - PITR_FAILED_MINUTES + 1})
  IN SumOfPoints([n \in 1..(last - first + 1) |-> slots[first + n - 1].failed])

\* Those of the latest stretch with a point; the stretches end with the range.
FailedOrNone ==
  LET ends == {n \in 1..Len(slots) : (Len(slots) - n) % PITR_FAILED_MINUTES = 0 /\ Arrived(FailedIn(n))}
  IN IF ends = {} THEN 0 ELSE FailedIn(Max(ends))

\* Mutant: judges only what reported in every slot.
RanWhole == FloorOf(SumOfPoints(Ran), PITR_MINUTES)

\* Reported for long enough to judge.
RanEnough == FloorOf(SumOfPoints(Ran), PITR_RAN_MINUTES)

Shipping == AtLeastOne(SumArrived(<<SumOfPoints(Shipped)>>))

Stalled == Times(RanEnough, Minus(1, Shipping))

\* The worst of the three; a tile with nothing to read has none.
Status ==
  IF \A n \in 1..Len(slots) : slots[n] = NoPoint THEN Nothing
  ELSE MaxArrived(<<Shipping, Times(AtLeastOne(FailedOrNone), 2), Times(Stalled, 4)>>)

PITR_STATUS == [code \in {0, 1, 2, 4} |->
  CASE code = 0 -> "no logs yet" [] code = 1 -> "shipping" [] code = 2 -> "archive failed" [] OTHER -> "stalled"]

\* What the tile says.
Says == LET status == Status IN IF status = Nothing THEN "not reporting" ELSE PITR_STATUS[status]

-----------------------------------------------------------------------------
(* The alerts *)

SumAt(last) == LET first == Max({1, last - Period + 1})
               IN SumOfPoints([n \in 1..(last - first + 1) |-> slots[first + n - 1].shipped])

\* <db>-pitr-logs-stalled: its sums below one and held, or no count at all.
BelowOneHeld == Len(slots) = PITR_MINUTES /\
  \A last \in (PITR_MINUTES - PITR_RAN_MINUTES)..PITR_MINUTES : Arrived(SumAt(last)) /\ SumAt(last) < 1
Absent == Len(slots) = PITR_MINUTES /\ \A n \in 1..PITR_MINUTES : ~Arrived(slots[n].shipped)
LogsStalled == BelowOneHeld \/ Absent

\* <db>-pitr-log-archive-failed: any in its latest period.
ArchiveFailed == Len(slots) > 0 /\ Arrived(FailedIn(Len(slots))) /\ FailedIn(Len(slots)) > 0

-----------------------------------------------------------------------------
(* The instance *)

Init == slots = <<>> /\ said = Says

\* The slot is read for PITR_MINUTES.
Read(slot) ==
  slots' = IF Len(slots) < PITR_MINUTES THEN Append(slots, slot) ELSE Append(Tail(slots), slot)

\* A slot in which the instance runs; the archives it shipped may be reported
\* as none, or not be reported.
Runs == \E shipped \in {Nothing, 0, 1}, failed \in {0, 1} : Read(Slot(1, shipped, failed))

Stopped == Read(NoPoint)

Next == said' = Says /\ (Runs \/ Stopped)

Spec == Init /\ [][Next]_vars

-----------------------------------------------------------------------------
(***************************************************************************)
(* What the point-in-time logs tile promises beside its alerts, in the     *)
(* words of its description.                                               *)
(***************************************************************************)

Latest(n) == {k \in 1..Len(slots) : k > Len(slots) - n}
Reported == {k \in 1..Len(slots) : slots[k] # NoPoint}

-----------------------------------------------------------------------------

\* Whatever opens the urgent alert turns the tile red, where the instance ran
\* long enough to be judged: no page beside a tile that reads well.
PagedIsStalled == LogsStalled /\ Cardinality(Reported) >= PITR_RAN_MINUTES => Says = "stalled"

\* And over half an hour in which every count the instance wrote arrived, no
\* red tile without a page: the sums held for twenty minutes cover its thirty.
StalledIsPaged ==
  Says = "stalled" /\ Len(slots) = PITR_MINUTES /\ (\A n \in 1..Len(slots) : Arrived(slots[n].shipped)) => LogsStalled

\* A failed archive is told while its own alert is open, unless the logs stall
\* as well; once the instance goes on without one it is told no longer, though
\* it is still in the half hour the tile reads.
FailureAsPaged ==
  /\ ArchiveFailed => Says \in {"archive failed", "stalled"}
  /\ Says = "archive failed" /\ Latest(PITR_FAILED_MINUTES) \cap Reported # {} => ArchiveFailed

\* A stall once told stays told until a log is shipped or too little of the
\* half hour is left that the instance ran in.
StallStays ==
  said = "stalled" /\ Says # "stalled" =>
    slots[Len(slots)].shipped = 1 \/ Cardinality(Reported) < PITR_RAN_MINUTES

\* What the tile promises, all of it.
Safe ==
  /\ PagedIsStalled /\ StalledIsPaged /\ FailureAsPaged /\ StallStays
=============================================================================
