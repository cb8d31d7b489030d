--------------------------- MODULE DashboardFields ---------------------------
(***************************************************************************)
(* The calculated fields of scripts/cloud_dashboards.py (calc, unary,      *)
(* at_least_one, reduce_row), as Grafana evaluates them: a field has a     *)
(* whole number or, where nothing arrived, no value; what is calculated    *)
(* from no value has none.                                                 *)
(***************************************************************************)
EXTENDS Integers, Sequences, FiniteSetsExt

CONSTANT Nothing    \* no value

Arrived(v) == v # Nothing

\* calc: two fields, or a field and a number.
Plus(v, w) == IF Arrived(v) /\ Arrived(w) THEN v + w ELSE Nothing
Minus(v, w) == IF Arrived(v) /\ Arrived(w) THEN v - w ELSE Nothing
Times(v, w) == IF Arrived(v) /\ Arrived(w) THEN v * w ELSE Nothing

\* calc and unary, a quotient to the next lower and to the next higher number.
FloorOf(v, n) == IF Arrived(v) THEN v \div n ELSE Nothing
CeilOf(v, n) == IF Arrived(v) /\ Arrived(n) THEN (v + n - 1) \div n ELSE Nothing

\* unary: abs.
Abs(v) == IF Arrived(v) THEN (IF v < 0 THEN -v ELSE v) ELSE Nothing

\* at_least_one: ceil(x / (x + 1)).
AtLeastOne(v) == CeilOf(v, Plus(v, 1))

\* max(v, 0), as the tiles write it.
AboveZero(v) == FloorOf(Plus(v, Abs(v)), 2)

\* reduce_row, and the panels' reduce: over what arrived, and the sum of
\* nothing is 0.
SumArrived(fields) ==
  LET sum[n \in 0..Len(fields)] ==
        IF n = 0 THEN 0 ELSE sum[n - 1] + IF Arrived(fields[n]) THEN fields[n] ELSE 0
  IN sum[Len(fields)]
MaxArrived(fields) ==
  LET there == {fields[n] : n \in {k \in 1..Len(fields) : Arrived(fields[k])}}
  IN IF there = {} THEN Nothing ELSE Max(there)

\* The panels' reduce of a field's points: no field where none arrived.
SumOfPoints(points) == IF \E n \in 1..Len(points) : Arrived(points[n]) THEN SumArrived(points) ELSE Nothing

\* lastNotNull: the latest point that arrived.
LastNotNull(points) ==
  LET there == {n \in 1..Len(points) : Arrived(points[n])}
  IN IF there = {} THEN Nothing ELSE points[Max(there)]
=============================================================================
