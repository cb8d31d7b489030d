------------------------------ MODULE PanelLayout ------------------------------
(***************************************************************************)
(* scripts/cloud_dashboards.py, layout with collapsed, row and panel:      *)
(* where each panel of a page goes, one placed after another. A page is    *)
(* any sequence of panels, open rows and shut rows holding panels. Left    *)
(* out: a panel's contents.                                                *)
(***************************************************************************)
EXTENDS Integers, Sequences, FiniteSetsExt

CONSTANTS
  Columns,      \* of a page: 24
  Widths,       \* of panels
  Heights,
  MaxPanels     \* of a page, rows included

ASSUME PanelsFit == Columns \in Nat /\ Widths \subseteq 1..Columns /\ Heights \subseteq Nat \ {0}

VARIABLES
  placed,       \* the panels in order, each with its place and the id of the shut row that holds it, or 0
  x, y,         \* where the next one goes
  line_h,       \* the height of the line so far
  shut          \* the id of the shut row whose panels are being placed, or 0

vars == <<placed, x, y, line_h, shut>>

Init == placed = <<>> /\ x = 0 /\ y = 0 /\ line_h = 0 /\ shut = 0

\* Mutant: the line's height is its last panel's.
LineLast(h) == h

\* The line is as high as its highest panel.
Line(h) == Max({line_h, h})

\* A panel that does not fit the line starts a new one.
Wraps(w) == x + w > Columns

\* place: a panel's id is its number on the page.
Put(kind, w, h, left, top) ==
  placed' = Append(placed, [kind |-> kind, x |-> left, y |-> top, w |-> w, h |-> h, in |-> shut])

\* Where a new line starts.
NewLine == y + line_h

\* The next panel, on the line if it fits and on a new one if not.
Panel == \E w \in Widths, h \in Heights :
  /\ Len(placed) < MaxPanels
  /\ IF Wraps(w)
     THEN Put("panel", w, h, 0, NewLine) /\ y' = NewLine /\ x' = w /\ line_h' = h
     ELSE Put("panel", w, h, x, y) /\ x' = x + w /\ line_h' = Line(h) /\ UNCHANGED y
  /\ UNCHANGED shut

\* A row starts a new line and takes one.
StartRow(kind) ==
  /\ shut = 0 /\ Len(placed) < MaxPanels
  /\ Put(kind, Columns, 1, 0, NewLine)
  /\ y' = NewLine + 1 /\ x' = 0 /\ line_h' = 0

Row == StartRow("row") /\ UNCHANGED shut

\* A shut row; its panels are placed as they will be when it opens.
Shut == StartRow("shut") /\ shut' = Len(placed) + 1

\* Mutant: the page goes on where the row is.
AfterTheSame(row) == row.y

\* The page goes on one line below the row.
After(row) == row.y + 1

\* The last of a shut row's panels is placed.
EndShut ==
  /\ shut # 0
  /\ y' = After(placed[shut]) /\ x' = 0 /\ line_h' = 0 /\ shut' = 0
  /\ UNCHANGED placed

Next == Panel \/ Row \/ Shut \/ EndShut

Spec == Init /\ [][Next]_vars

-----------------------------------------------------------------------------
(***************************************************************************)
(* What a page's places must be for Grafana to draw it as it was written.  *)
(***************************************************************************)

Panels == 1..Len(placed)
On(page) == {k \in Panels : placed[k].in \in page}

\* A shut row's panels need this much more of the page when it is opened.
Height(row) ==
  LET inside == {k \in Panels : placed[k].in = row}
  IN IF inside = {} THEN 0 ELSE Max({placed[k].y + placed[k].h : k \in inside}) - (placed[row].y + 1)

\* Where a panel is once Grafana has opened a row: what is below goes down.
Opened(row, k) ==
  IF placed[k].in # row /\ k > row THEN [placed[k] EXCEPT !.y = @ + Height(row)] ELSE placed[k]

Apart(p, q) == p.x + p.w <= q.x \/ q.x + q.w <= p.x \/ p.y + p.h <= q.y \/ q.y + q.h <= p.y

-----------------------------------------------------------------------------

\* No panel lies over another that is on the page beside it, as the page loads
\* or inside a shut row, and none leaves the page's columns: Grafana would move
\* what overlaps, and the page would not be the one written.
NothingOverlaps ==
  /\ \A p, q \in Panels : p # q /\ placed[p].in = placed[q].in => Apart(placed[p], placed[q])
  /\ \A p \in Panels : placed[p].x + placed[p].w <= Columns

\* Nor with any one of its shut rows opened: what the row holds comes below
\* what is above the row, and above what is below it.
OpensInPlace ==
  \A row \in On({0}) : placed[row].kind = "shut" =>
    \A p, q \in On({0, row}) : p < q => Apart(Opened(row, p), Opened(row, q))

\* Panels read in the order they are written, left to right and line by line,
\* a row alone on its line: Grafana gives a row whatever lies below it up to the
\* next, so a panel is under the row it was written under.
OrderIsKept ==
  \A p, q \in Panels : p < q /\ placed[p].in = placed[q].in =>
    \/ placed[p].y < placed[q].y
    \/ placed[p].y = placed[q].y /\ placed[p].x < placed[q].x /\ "panel" = placed[p].kind /\ "panel" = placed[q].kind

\* A shut row takes one line of the page, however much it holds: what follows a
\* row, or a panel that ends a line, starts without a gap.
NoGaps ==
  \A q \in On({0}) : q > 1 =>
    LET above == {p \in On({0}) : p < q /\ placed[p].y < placed[q].y}
    IN above # {} => placed[q].y = Max({placed[p].y + placed[p].h : p \in above})

\* cloud_dashboards.py's pages are drawn as they were written: with a shut row
\* opened too, in the order of the generator's calls, and without a gap.
LaidOutAsWritten == OpensInPlace /\ OrderIsKept /\ NoGaps
=============================================================================
