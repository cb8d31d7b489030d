------------------------ MODULE DashboardToolsProofs ------------------------
(***************************************************************************)
(* Proofs about DashboardTools. PanelLayout: on a page of any length, of   *)
(* panels of any size that fits its columns, no two panels overlap, with   *)
(* one of its shut rows opened either, and the page reads as it was        *)
(* written. LintFiles: whatever files pass, each page the entrypoint can   *)
(* choose has one uid of its own. CatalogueTree: whatever catalogue is     *)
(* written, it is the one that is read.                                    *)
(***************************************************************************)
EXTENDS DashboardTools, TLAPS, WellFoundedInduction, FiniteSetTheorems, SequenceTheorems

-----------------------------------------------------------------------------
(* PanelLayout *)

\* A panel with its place.
Place == [kind : {"panel", "row", "shut"}, x : Nat, y : Nat, w : Nat, h : Nat, in : Nat]

Typed == placed \in Seq(Place) /\ x \in Nat /\ y \in Nat /\ line_h \in Nat /\ shut \in 0..Len(placed)

\* A shut row's panels come after it.
Held == \A k \in Panels : placed[k].in < k

\* What is on the page being placed lies above the line, or on it and to the left.
AboveTheLine ==
  \A k \in Panels : placed[k].in = shut =>
    \/ placed[k].y + placed[k].h <= y
    \/ placed[k].y + placed[k].h <= y + line_h /\ placed[k].x + placed[k].w <= x

\* While a shut row's panels are placed, all else of the page lies above where
\* it goes on.
AboveTheRow ==
  shut # 0 => /\ placed[shut].in = 0
              /\ \A k \in Panels : placed[k].in = 0 => placed[k].y + placed[k].h <= placed[shut].y + 1

IInv == Typed /\ Held /\ AboveTheLine /\ AboveTheRow /\ NothingOverlaps

-----------------------------------------------------------------------------

\* The higher of two.
LEMMA HigherOfTwo ==
  ASSUME NEW a \in Nat, NEW b \in Nat
  PROVE  Max({a, b}) \in Nat /\ Max({a, b}) >= a /\ Max({a, b}) >= b
<1>1. \E m \in {a, b} : \A n \in {a, b} : m >= n
  <2>1. CASE a >= b BY <2>1
  <2>2. CASE ~(a >= b) BY <2>2
  <2>. QED BY <2>1, <2>2
<1>. QED BY <1>1 DEF Max

\* A panel put on the page: the others stay where they are.
LEMMA PutOne ==
  ASSUME Typed, NEW kind \in {"panel", "row", "shut"}, NEW w \in Nat, NEW h \in Nat, NEW left \in Nat, NEW top \in Nat,
         Put(kind, w, h, left, top)
  PROVE  /\ placed' \in Seq(Place) /\ Len(placed') = Len(placed) + 1
         /\ Panels' = Panels \cup {Len(placed) + 1} /\ Len(placed) + 1 \notin Panels
         /\ \A k \in Panels : placed'[k] = placed[k]
         /\ placed'[Len(placed) + 1] = [kind |-> kind, x |-> left, y |-> top, w |-> w, h |-> h, in |-> shut]
<1> DEFINE new == [kind |-> kind, x |-> left, y |-> top, w |-> w, h |-> h, in |-> shut]
<1>1. new \in Place BY DEF Typed, Place
<1>2. placed' = Append(placed, new) BY DEF Put
<1>. HIDE DEF new
<1>3. placed' \in Seq(Place) /\ Len(placed') = Len(placed) + 1 BY <1>1, <1>2 DEF Typed
<1>4. \A k \in 1..Len(placed) : placed'[k] = placed[k] BY <1>1, <1>2 DEF Typed
<1>5. placed'[Len(placed) + 1] = new BY <1>1, <1>2 DEF Typed
<1>6. Len(placed) \in Nat BY DEF Typed
<1>. QED BY <1>3, <1>4, <1>5, <1>6 DEF Panels, new

-----------------------------------------------------------------------------

\* An empty page has the invariant.
LEMMA Initially == Init => IInv
<1>. SUFFICES ASSUME Init PROVE IInv OBVIOUS
<1>1. placed = <<>> /\ Len(placed) = 0 BY DEF Init
<1>2. Panels = {} BY <1>1 DEF Panels
<1>3. Typed BY <1>1 DEF Init, Typed
<1>. QED BY <1>2, <1>3 DEF Init, IInv, Held, AboveTheLine, AboveTheRow, NothingOverlaps

\* A panel placed where it overlaps nothing that shares its page, and fits the
\* columns, keeps what is on the page apart.
LEMMA OneMore ==
  ASSUME IInv, NEW kind \in {"panel", "row", "shut"}, NEW w \in Nat, NEW h \in Nat, NEW left \in Nat, NEW top \in Nat,
         Put(kind, w, h, left, top), left + w <= Columns,
         top >= y + line_h \/ (top = y /\ left = x)
  PROVE  NothingOverlaps' /\ Held'
<1> DEFINE n == Len(placed) + 1
<1>1. /\ Panels' = Panels \cup {n} /\ n \notin Panels
      /\ \A k \in Panels : placed'[k] = placed[k]
      /\ placed'[n] = [kind |-> kind, x |-> left, y |-> top, w |-> w, h |-> h, in |-> shut]
  BY PutOne DEF IInv
<1>2. \A k \in Panels : placed[k] \in Place BY DEF IInv, Typed, Panels
<1>3. Typed BY DEF IInv
<1>4. ASSUME NEW k \in Panels, placed[k].in = shut
      PROVE  Apart(placed'[k], placed'[n]) /\ Apart(placed'[n], placed'[k])
  <2>1. /\ placed[k].x \in Nat /\ placed[k].y \in Nat /\ placed[k].w \in Nat /\ placed[k].h \in Nat
    BY <1>2, <1>4 DEF Place
  <2>2. \/ placed[k].y + placed[k].h <= y
        \/ placed[k].y + placed[k].h <= y + line_h /\ placed[k].x + placed[k].w <= x
    BY <1>4 DEF IInv, AboveTheLine
  <2>3. x \in Nat /\ y \in Nat /\ line_h \in Nat BY <1>3 DEF Typed
  <2>4. placed[k].y + placed[k].h <= top \/ placed[k].x + placed[k].w <= left
    BY <2>1, <2>2, <2>3
  <2>5. placed'[k] = placed[k] /\ placed'[n].x = left /\ placed'[n].y = top /\ placed'[n].w = w /\ placed'[n].h = h
    BY <1>1, <1>4
  <2>. HIDE DEF n
  <2>. QED BY <2>4, <2>5 DEF Apart
<1>5. \A p, q \in Panels' : p # q /\ placed'[p].in = placed'[q].in => Apart(placed'[p], placed'[q])
  <2>. HIDE DEF n
  <2>1. placed'[n].in = shut BY <1>1
  <2>2. \A p, q \in Panels : p # q /\ placed[p].in = placed[q].in => Apart(placed[p], placed[q])
    BY DEF IInv, NothingOverlaps
  <2>. QED BY <1>1, <1>4, <2>1, <2>2
<1>6. \A p \in Panels' : placed'[p].x + placed'[p].w <= Columns
  <2>. HIDE DEF n
  <2>1. placed'[n].x + placed'[n].w <= Columns BY <1>1
  <2>. QED BY <1>1, <2>1 DEF IInv, NothingOverlaps
<1>7. Held'
  <2>1. shut < n BY <1>3 DEF Typed
  <2>2. placed'[n].in = shut BY <1>1
  <2>. HIDE DEF n
  <2>. QED BY <1>1, <2>1, <2>2 DEF IInv, Held
<1>. QED BY <1>5, <1>6, <1>7 DEF NothingOverlaps, Apart

\* A panel keeps it, on its line or on the next.
LEMMA PanelKeeps == IInv /\ Panel => IInv'
<1>. SUFFICES ASSUME IInv, Panel PROVE IInv' OBVIOUS
<1> DEFINE n == Len(placed) + 1
<1>1. PICK w \in Widths, h \in Heights :
        /\ IF Wraps(w)
           THEN Put("panel", w, h, 0, NewLine) /\ y' = NewLine /\ x' = w /\ line_h' = h
           ELSE Put("panel", w, h, x, y) /\ x' = x + w /\ line_h' = Line(h) /\ UNCHANGED y
        /\ UNCHANGED shut
  BY DEF Panel
<1>2. Typed /\ x \in Nat /\ y \in Nat /\ line_h \in Nat BY DEF IInv, Typed
<1>3. w \in Nat /\ h \in Nat /\ w <= Columns /\ Columns \in Nat BY PanelsFit
<1>4. \A k \in Panels : placed[k] \in Place BY DEF IInv, Typed, Panels
<1>5. CASE Wraps(w)
  <2>1. Put("panel", w, h, 0, y + line_h) /\ y' = y + line_h /\ x' = w /\ line_h' = h /\ shut' = shut
    BY <1>1, <1>5 DEF NewLine
  <2>2. NothingOverlaps' /\ Held' BY <2>1, <1>2, <1>3, OneMore
  <2>3. /\ placed' \in Seq(Place) /\ Len(placed') = n
        /\ Panels' = Panels \cup {n} /\ n \notin Panels
        /\ \A k \in Panels : placed'[k] = placed[k]
        /\ placed'[n] = [kind |-> "panel", x |-> 0, y |-> y + line_h, w |-> w, h |-> h, in |-> shut]
    <3> DEFINE top == y + line_h
    <3>1. top \in Nat BY <1>2
    <3>2. Put("panel", w, h, 0, top) BY <2>1
    <3>. HIDE DEF top, n
    <3>3. /\ placed' \in Seq(Place) /\ Len(placed') = Len(placed) + 1
          /\ Panels' = Panels \cup {Len(placed) + 1} /\ Len(placed) + 1 \notin Panels
          /\ \A k \in Panels : placed'[k] = placed[k]
          /\ placed'[Len(placed) + 1] = [kind |-> "panel", x |-> 0, y |-> top, w |-> w, h |-> h, in |-> shut]
      BY <3>1, <3>2, <1>2, <1>3, PutOne
    <3>. QED BY <3>3 DEF top, n
  <2>4. Typed' BY <2>1, <2>3, <1>2, <1>3 DEF Typed
  <2>5. AboveTheLine'
    <3>1. ASSUME NEW k \in Panels, placed[k].in = shut PROVE placed[k].y + placed[k].h <= y + line_h
      BY <3>1, <1>2, <1>4 DEF IInv, AboveTheLine, Place
    <3>2. placed'[n].y + placed'[n].h <= y' + line_h' /\ placed'[n].x + placed'[n].w <= x' BY <2>1, <2>3, <1>2, <1>3
    <3>. HIDE DEF n
    <3>. QED BY <2>1, <2>3, <3>1, <3>2 DEF AboveTheLine
  <2>6. AboveTheRow'
    <3>1. shut # 0 => shut \in Panels BY <1>2 DEF Typed, Panels
    <3>. HIDE DEF n
    <3>. QED BY <2>1, <2>3, <3>1 DEF IInv, AboveTheRow
  <2>. QED BY <2>2, <2>4, <2>5, <2>6 DEF IInv
<1>6. CASE ~Wraps(w)
  <2>1. Put("panel", w, h, x, y) /\ y' = y /\ x' = x + w /\ line_h' = Line(h) /\ shut' = shut BY <1>1, <1>6
  <2>2. x + w <= Columns BY <1>6, <1>2, <1>3 DEF Wraps
  <2>3. NothingOverlaps' /\ Held' BY <2>1, <2>2, <1>2, <1>3, OneMore
  <2>4. /\ placed' \in Seq(Place) /\ Len(placed') = n
        /\ Panels' = Panels \cup {n} /\ n \notin Panels
        /\ \A k \in Panels : placed'[k] = placed[k]
        /\ placed'[n] = [kind |-> "panel", x |-> x, y |-> y, w |-> w, h |-> h, in |-> shut]
    BY <2>1, <1>2, <1>3, PutOne
  <2>5. line_h' \in Nat /\ line_h' >= line_h /\ line_h' >= h BY <2>1, <1>2, <1>3, HigherOfTwo DEF Line
  <2>6. Typed' BY <2>1, <2>4, <2>5, <1>2, <1>3 DEF Typed
  <2>7. AboveTheLine'
    <3>1. ASSUME NEW k \in Panels, placed[k].in = shut
          PROVE  \/ placed[k].y + placed[k].h <= y'
                 \/ placed[k].y + placed[k].h <= y' + line_h' /\ placed[k].x + placed[k].w <= x'
      <4>1. placed[k].x \in Nat /\ placed[k].y \in Nat /\ placed[k].w \in Nat /\ placed[k].h \in Nat
        BY <1>4, <3>1 DEF Place
      <4>2. \/ placed[k].y + placed[k].h <= y
            \/ placed[k].y + placed[k].h <= y + line_h /\ placed[k].x + placed[k].w <= x
        BY <3>1 DEF IInv, AboveTheLine
      <4>. QED BY <4>1, <4>2, <2>1, <2>5, <1>2, <1>3
    <3>2. placed'[n].y + placed'[n].h <= y' + line_h' /\ placed'[n].x + placed'[n].w <= x'
      BY <2>1, <2>4, <2>5, <1>2, <1>3
    <3>. HIDE DEF n
    <3>. QED BY <2>1, <2>4, <3>1, <3>2 DEF AboveTheLine
  <2>8. AboveTheRow'
    <3>1. shut # 0 => shut \in Panels BY <1>2 DEF Typed, Panels
    <3>. HIDE DEF n
    <3>. QED BY <2>1, <2>4, <3>1 DEF IInv, AboveTheRow
  <2>. QED BY <2>3, <2>6, <2>7, <2>8 DEF IInv
<1>. QED BY <1>5, <1>6

\* A row starts a line below all that is on the page.
LEMMA RowKeeps ==
  ASSUME IInv, NEW kind \in {"row", "shut"}, StartRow(kind), shut' \in {0, Len(placed) + 1}
  PROVE  IInv'
<1> DEFINE n == Len(placed) + 1
<1>1. /\ shut = 0 /\ Put(kind, Columns, 1, 0, y + line_h)
      /\ y' = y + line_h + 1 /\ x' = 0 /\ line_h' = 0
  BY DEF StartRow, NewLine
<1>2. Typed /\ x \in Nat /\ y \in Nat /\ line_h \in Nat /\ Len(placed) \in Nat BY DEF IInv, Typed
<1>3. \A k \in Panels : placed[k] \in Place BY DEF IInv, Typed, Panels
<1>4. NothingOverlaps' /\ Held' BY <1>1, <1>2, PanelsFit, OneMore
<1>5. /\ placed' \in Seq(Place) /\ Len(placed') = n
      /\ Panels' = Panels \cup {n} /\ n \notin Panels
      /\ \A k \in Panels : placed'[k] = placed[k]
      /\ placed'[n] = [kind |-> kind, x |-> 0, y |-> y + line_h, w |-> Columns, h |-> 1, in |-> shut]
  BY <1>1, <1>2, PanelsFit, PutOne
<1>6. Typed' BY <1>1, <1>2, <1>5 DEF Typed
<1>7. \A k \in Panels : placed[k].in = 0 => placed[k].y + placed[k].h <= y'
  BY <1>1, <1>2, <1>3 DEF IInv, AboveTheLine, Place
<1>8. placed'[n].y + placed'[n].h <= y' /\ placed'[n].in = 0 /\ placed'[n].y + 1 = y' BY <1>1, <1>2, <1>5
<1>9. \A k \in Panels' : placed'[k].in = 0 => placed'[k].y + placed'[k].h <= y'
  <2>. HIDE DEF n
  <2>. QED BY <1>5, <1>7, <1>8
<1>10. AboveTheLine'
  <2>1. CASE shut' = 0 BY <2>1, <1>9 DEF AboveTheLine
  <2>2. CASE shut' = n
    <3>1. \A k \in Panels : k < n BY <1>2 DEF Panels
    <3>2. \A k \in Panels' : placed'[k].in # n
      <4>1. n # 0 BY <1>2
      <4>2. \A k \in Panels : placed[k].in \in Nat BY <1>3 DEF Place
      <4>3. \A k \in Panels : k \in Nat /\ n \in Nat BY <1>2 DEF Panels
      <4>4. \A k \in Panels : placed[k].in # n
        <5>. HIDE DEF n
        <5>. QED BY <3>1, <4>2, <4>3 DEF IInv, Held
      <4>. HIDE DEF n
      <4>. QED BY <1>5, <1>8, <4>1, <4>4
    <3>. QED BY <3>2, <2>2 DEF AboveTheLine
  <2>. QED BY <2>1, <2>2
<1>11. AboveTheRow'
  <2>. HIDE DEF n
  <2>1. shut' = 0 \/ shut' = n BY DEF n
  <2>. QED BY <2>1, <1>5, <1>8, <1>9 DEF AboveTheRow
<1>. QED BY <1>4, <1>6, <1>10, <1>11 DEF IInv

\* So does the end of a shut row.
LEMMA EndShutKeeps == IInv /\ EndShut => IInv'
<1>. SUFFICES ASSUME IInv, EndShut PROVE IInv' OBVIOUS
<1>1. /\ shut # 0 /\ y' = placed[shut].y + 1 /\ x' = 0 /\ line_h' = 0 /\ shut' = 0 /\ placed' = placed
  BY DEF EndShut, After
<1>2. Typed /\ shut \in Panels BY <1>1 DEF IInv, Typed, Panels
<1>3. placed[shut] \in Place BY <1>2 DEF Typed, Panels
<1>4. Typed'
  <2>1. placed[shut].y \in Nat BY <1>3 DEF Place
  <2>. QED BY <1>1, <1>2, <2>1 DEF Typed
<1>5. Panels' = Panels BY <1>1 DEF Panels
<1>6. AboveTheLine' BY <1>1, <1>5 DEF IInv, AboveTheRow, AboveTheLine
<1>7. AboveTheRow' BY <1>1 DEF AboveTheRow
<1>8. Held' BY <1>1, <1>5 DEF IInv, Held
<1>9. NothingOverlaps' BY <1>1, <1>5 DEF IInv, NothingOverlaps, Apart
<1>. QED BY <1>4, <1>6, <1>7, <1>8, <1>9 DEF IInv

\* Every step of the layout keeps the page's panels apart.
LEMMA StepKeeps == IInv /\ [Next]_vars => IInv'
<1>. SUFFICES ASSUME IInv, [Next]_vars PROVE IInv' OBVIOUS
<1>1. CASE Panel BY <1>1, PanelKeeps
<1>2. CASE Row BY <1>2, RowKeeps DEF Row, StartRow
<1>3. CASE Shut BY <1>3, RowKeeps DEF Shut
<1>4. CASE EndShut BY <1>4, EndShutKeeps
<1>5. CASE UNCHANGED vars
  BY <1>5 DEF vars, IInv, Typed, Held, AboveTheLine, AboveTheRow, NothingOverlaps, Panels, Apart
<1>. QED BY <1>1, <1>2, <1>3, <1>4, <1>5 DEF Next

\* No page that layout can make has a panel over another or out of its columns.
THEOREM PanelsStayApart == Spec => []NothingOverlaps
<1>1. IInv => NothingOverlaps BY DEF IInv
<1>. QED BY Initially, StepKeeps, <1>1, PTL DEF Spec

-----------------------------------------------------------------------------
(* A page is drawn as it was written: what must be known of the page so far *)

\* Every panel takes a line at least, and a line begun has a height.
Sized == (\A k \in Panels : placed[k].h >= 1) /\ (x > 0 => line_h > 0)

\* A page ends somewhere.
Ends == \E m \in Nat : \A k \in Panels : placed[k].y + placed[k].h <= m

\* A shut row lies below what comes before it, and above what comes after it
\* and what it holds, which is placed before the page goes on.
RowsInPlace ==
  /\ shut # 0 => placed[shut].kind = "shut" /\ (\A k \in Panels : placed[k].in = 0 => k <= shut)
  /\ \A r \in Panels : placed[r].kind = "shut" =>
       /\ placed[r].in = 0 /\ placed[r].h = 1 /\ y >= placed[r].y + 1
       /\ \A k \in Panels :
            /\ placed[k].in = 0 /\ k < r => placed[k].y + placed[k].h <= placed[r].y
            /\ placed[k].in = 0 /\ k > r => placed[k].y >= placed[r].y + 1
            /\ placed[k].in = r => placed[k].y >= placed[r].y + 1
            /\ placed[k].in = r => \A q \in Panels : placed[q].in = 0 /\ q > r => k < q

\* The next panel comes after all on the page being placed.
NextInOrder ==
  \A k \in Panels : placed[k].in = shut =>
    placed[k].y < y \/ (placed[k].y = y /\ placed[k].x < x /\ placed[k].kind = "panel")

\* Of the page's first n, those above line top reach it, and none goes below.
ReachesTo(n, top) ==
  LET above == {k \in 1..n : placed[k].in = 0 /\ placed[k].y < top}
  IN above # {} => /\ \A k \in above : placed[k].y + placed[k].h <= top
                   /\ \E k \in above : placed[k].y + placed[k].h = top

\* The page reaches to the line being filled, and one of the line's panels to
\* where the next starts.
Filled ==
  shut = 0 =>
    /\ ReachesTo(Len(placed), y)
    /\ \A k \in Panels : placed[k].in = 0 /\ placed[k].y = y => placed[k].h <= line_h
    /\ line_h > 0 => \E k \in Panels : placed[k].in = 0 /\ placed[k].y = y /\ placed[k].h = line_h

\* The same of each panel and what comes before it.
NoneBelowAGap == \A q \in Panels : placed[q].in = 0 => ReachesTo(q - 1, placed[q].y)

Written == Sized /\ Ends /\ RowsInPlace /\ NextInOrder /\ OrderIsKept /\ Filled /\ NoneBelowAGap


-----------------------------------------------------------------------------
(* What follows from it *)

\* A set of numbers that is bounded has a highest.
LEMMA HighestOf ==
  ASSUME NEW S, S \subseteq Nat, S # {}, NEW m \in Nat, \A s \in S : s <= m
  PROVE  Max(S) \in S /\ \A s \in S : s <= Max(S)
<1> DEFINE Above == {u \in Nat : \A s \in S : s <= u}
<1>1. Above \subseteq Nat /\ Above # {} OBVIOUS
<1>2. PICK u \in Above : \A v \in Above : ~(<<v, u>> \in OpToRel(<, Nat))
  <2>. HIDE DEF Above
  <2>. QED BY <1>1, NatLessThanWellFounded, WFMin, Zenon
<1>3. u \in Nat /\ \A s \in S : s <= u OBVIOUS
<1>4. \A v \in Above : ~(v < u)
  <2>1. \A v \in Above : v \in Nat OBVIOUS
  <2>. HIDE DEF Above
  <2>. QED BY <1>2, <1>3, <2>1 DEF OpToRel
<1>5. u \in S
  <2>. SUFFICES ASSUME u \notin S PROVE FALSE OBVIOUS
  <2>1. \A s \in S : s < u
    <3>1. \A s \in S : s # u OBVIOUS
    <3>2. \A s \in S : s \in Nat OBVIOUS
    <3>. HIDE DEF Above
    <3>. QED BY <1>3, <3>1, <3>2
  <2>2. PICK s \in S : TRUE OBVIOUS
  <2>3. u > 0 BY <2>1, <2>2, <1>3
  <2>4. u - 1 \in Nat BY <2>3, <1>3
  <2>5. \A t \in S : t <= u - 1
    <3>1. \A t \in S : t \in Nat OBVIOUS
    <3>. HIDE DEF Above
    <3>. QED BY <2>1, <3>1, <1>3
  <2>6. u - 1 \in Above BY <2>4, <2>5
  <2>7. u - 1 < u BY <1>3
  <2>. HIDE DEF Above
  <2>. QED BY <1>4, <2>6, <2>7
<1>6. \E n \in S : \A s \in S : n >= s
  <2>1. \A s \in S : s \in Nat OBVIOUS
  <2>. HIDE DEF Above
  <2>. QED BY <1>3, <1>5, <2>1
<1>. HIDE DEF Above
<1>7. Max(S) \in S /\ \A s \in S : Max(S) >= s BY <1>6 DEF Max
<1>8. \A s \in S : s \in Nat OBVIOUS
<1>. QED BY <1>7, <1>8

\* How far down the panels of a set reach, of a page that ends.
LEMMA HighestEnd ==
  ASSUME Typed, Ends, NEW ks \in SUBSET Panels, ks # {}
  PROVE  LET bottoms == {placed[k].y + placed[k].h : k \in ks}
         IN Max(bottoms) \in bottoms /\ \A k \in ks : placed[k].y + placed[k].h <= Max(bottoms)
<1> DEFINE bottoms == {placed[k].y + placed[k].h : k \in ks}
<1>0. \A k \in Panels : placed[k] \in Place BY DEF Typed, Panels
<1>1. \A k \in Panels : placed[k].y \in Nat /\ placed[k].h \in Nat BY <1>0 DEF Place
<1>2. \A k \in ks : placed[k].y + placed[k].h \in Nat BY <1>1
<1>3. PICK m \in Nat : \A k \in Panels : placed[k].y + placed[k].h <= m BY DEF Ends
<1>4. bottoms \subseteq Nat /\ bottoms # {} BY <1>2
<1>5. \A s \in bottoms : s <= m BY <1>3
<1>6. \A k \in ks : placed[k].y + placed[k].h \in bottoms OBVIOUS
<1>. HIDE DEF bottoms
<1>7. Max(bottoms) \in bottoms /\ \A s \in bottoms : s <= Max(bottoms) BY <1>4, <1>5, HighestOf
<1>8. Max(bottoms) \in bottoms /\ \A k \in ks : placed[k].y + placed[k].h <= Max(bottoms) BY <1>6, <1>7
<1>. QED BY <1>8 DEF bottoms

\* A panel on the page starts where what is above it ends.
LEMMA GapsNone == IInv /\ Written => NoGaps
<1>. SUFFICES ASSUME IInv, Written, NEW q \in On({0}), q > 1,
                     NEW above, above = {p \in On({0}) : p < q /\ placed[p].y < placed[q].y}, above # {}
              PROVE  placed[q].y = Max({placed[p].y + placed[p].h : p \in above})
  BY DEF NoGaps
<1>1. q \in Panels /\ placed[q].in = 0 /\ Typed /\ Len(placed) \in Nat BY DEF On, IInv, Typed
<1>2. above = {k \in 1..(q - 1) : placed[k].in = 0 /\ placed[k].y < placed[q].y} BY <1>1 DEF On, Panels
<1>3. ReachesTo(q - 1, placed[q].y) BY <1>1 DEF Written, NoneBelowAGap
<1>4. /\ \A k \in above : placed[k].y + placed[k].h <= placed[q].y
      /\ \E k \in above : placed[k].y + placed[k].h = placed[q].y
  BY <1>2, <1>3 DEF ReachesTo
<1>5. above \in SUBSET Panels BY DEF On
<1> DEFINE bottoms == {placed[k].y + placed[k].h : k \in above}
<1>6. Max(bottoms) \in bottoms /\ \A k \in above : placed[k].y + placed[k].h <= Max(bottoms)
  BY <1>1, <1>5, HighestEnd DEF Written
<1>7. \A k \in Panels : placed[k] \in Place BY <1>1 DEF Typed, Panels
<1>8. \A k \in Panels : placed[k].y \in Nat /\ placed[k].h \in Nat BY <1>7 DEF Place
<1>9. PICK k \in above : Max(bottoms) = placed[k].y + placed[k].h BY <1>6
<1>10. PICK j \in above : placed[j].y + placed[j].h = placed[q].y BY <1>4
<1>. HIDE DEF bottoms
<1>11. Max(bottoms) <= placed[q].y BY <1>4, <1>9
<1>12. placed[q].y <= Max(bottoms) BY <1>6, <1>10
<1>13. placed[k].y + placed[k].h \in Nat BY <1>5, <1>8
<1>14. Max(bottoms) = placed[q].y BY <1>1, <1>8, <1>9, <1>11, <1>12, <1>13
<1>. QED BY <1>14 DEF bottoms

\* With one of its rows opened nothing overlaps.
LEMMA RowsOpenInPlace == IInv /\ Written => OpensInPlace
<1>. SUFFICES ASSUME IInv, Written, NEW row \in On({0}), placed[row].kind = "shut",
                     NEW p \in On({0, row}), NEW q \in On({0, row}), p < q
              PROVE  Apart(Opened(row, p), Opened(row, q))
  BY DEF OpensInPlace
<1>1. row \in Panels /\ p \in Panels /\ q \in Panels /\ placed[row].in = 0 /\ Typed /\ Len(placed) \in Nat
  BY DEF On, IInv, Typed
<1>2. row \in Nat /\ p \in Nat /\ q \in Nat /\ row # 0 BY <1>1 DEF Panels
<1>3. placed[p].in \in {0, row} /\ placed[q].in \in {0, row} BY DEF On
<1>4. \A k \in Panels : placed[k] \in Place BY <1>1 DEF Typed, Panels
<1>5. /\ placed[row].h = 1
      /\ \A k \in Panels :
            /\ placed[k].in = 0 /\ k < row => placed[k].y + placed[k].h <= placed[row].y
            /\ placed[k].in = 0 /\ k > row => placed[k].y >= placed[row].y + 1
            /\ placed[k].in = row => placed[k].y >= placed[row].y + 1
            /\ placed[k].in = row => \A l \in Panels : placed[l].in = 0 /\ l > row => k < l
  BY <1>1 DEF Written, RowsInPlace
<1>6. \A k \in Panels : placed[k].in < k BY DEF IInv, Held
<1> DEFINE H == Height(row)
<1>7. H \in Nat /\ \A k \in Panels : placed[k].in = row => placed[k].y + placed[k].h <= placed[row].y + 1 + H
  <2> DEFINE inside == {k \in Panels : placed[k].in = row}
  <2> DEFINE bottoms == {placed[k].y + placed[k].h : k \in inside}
  <2>1. CASE inside = {} BY <2>1 DEF Height
  <2>2. CASE inside # {}
    <3>1. H = Max(bottoms) - (placed[row].y + 1) BY <2>2 DEF Height
    <3>2. Max(bottoms) \in bottoms /\ \A k \in inside : placed[k].y + placed[k].h <= Max(bottoms)
      BY <1>1, <2>2, HighestEnd DEF Written
    <3>3. PICK k \in inside : Max(bottoms) = placed[k].y + placed[k].h BY <3>2
    <3>4. placed[k].y \in Nat /\ placed[k].h \in Nat /\ placed[k].y >= placed[row].y + 1 BY <1>4, <1>5 DEF Place
    <3>5. \A l \in inside : placed[l].y \in Nat /\ placed[l].h \in Nat BY <1>4 DEF Place
    <3>6. placed[row].y \in Nat BY <1>1, <1>4 DEF Place
    <3>. HIDE DEF H, bottoms
    <3>7. Max(bottoms) \in Nat /\ Max(bottoms) >= placed[row].y + 1 BY <3>3, <3>4, <3>6
    <3>8. H \in Nat /\ \A l \in inside : placed[l].y + placed[l].h <= placed[row].y + 1 + H
      BY <3>1, <3>2, <3>5, <3>6, <3>7
    <3>. QED BY <3>8
  <2>. QED BY <2>1, <2>2
<1>. HIDE DEF H
<1>8. placed[row] \in Place /\ placed[p] \in Place /\ placed[q] \in Place BY <1>1, <1>4
<1>9. /\ placed[p].y \in Nat /\ placed[p].h \in Nat /\ placed[p].x \in Nat /\ placed[p].w \in Nat
      /\ placed[q].y \in Nat /\ placed[q].h \in Nat /\ placed[q].x \in Nat /\ placed[q].w \in Nat
      /\ placed[row].y \in Nat /\ placed[p].in \in Nat /\ placed[q].in \in Nat
  BY <1>8 DEF Place
<1>10. \A k \in Panels : placed[k] \in Place /\ placed[k].in # row /\ k > row =>
          /\ Opened(row, k).y = placed[k].y + H /\ Opened(row, k).h = placed[k].h
          /\ Opened(row, k).x = placed[k].x /\ Opened(row, k).w = placed[k].w
  BY DEF Opened, H, Place
<1>11. \A k \in Panels : ~(placed[k].in # row /\ k > row) => Opened(row, k) = placed[k] BY DEF Opened
<1>12. placed[p].in = placed[q].in => Apart(placed[p], placed[q]) BY <1>1, <1>2 DEF IInv, NothingOverlaps
<1>13. CASE placed[p].in = row /\ placed[q].in = row BY <1>1, <1>11, <1>12, <1>13
<1>14. CASE placed[p].in = row /\ placed[q].in = 0
  <2>1. q > row BY <1>6, <1>1, <1>2, <1>14
  <2>2. placed[p].y + placed[p].h <= placed[row].y + 1 + H BY <1>7, <1>1, <1>14
  <2>3. placed[q].y >= placed[row].y + 1 BY <1>5, <1>1, <1>14, <2>1
  <2>4. Opened(row, p) = placed[p] BY <1>1, <1>11, <1>14
  <2>5. Opened(row, q).y = placed[q].y + H BY <1>1, <1>2, <1>4, <1>10, <1>14, <2>1
  <2>6. Opened(row, p).y + Opened(row, p).h <= Opened(row, q).y BY <2>2, <2>3, <2>4, <2>5, <1>7, <1>9
  <2>. QED BY <2>6 DEF Apart
<1>15. CASE placed[p].in = 0 /\ placed[q].in = row
  <2>1. ~(p > row) BY <1>5, <1>1, <1>2, <1>15
  <2>2. placed[p].y + placed[p].h <= placed[row].y + 1
    <3>1. CASE p = row BY <3>1, <1>5, <1>9
    <3>2. CASE p < row BY <3>2, <1>5, <1>1, <1>9, <1>15
    <3>. QED BY <2>1, <3>1, <3>2, <1>2
  <2>3. placed[q].y >= placed[row].y + 1 BY <1>5, <1>1, <1>15
  <2>4. Opened(row, p) = placed[p] /\ Opened(row, q) = placed[q] BY <1>1, <1>11, <1>15, <2>1
  <2>5. Opened(row, p).y + Opened(row, p).h <= Opened(row, q).y BY <2>2, <2>3, <2>4, <1>9
  <2>. QED BY <2>5 DEF Apart
<1>16. CASE placed[p].in = 0 /\ placed[q].in = 0
  <2>1. CASE q <= row
    <3>1. ~(p > row) /\ ~(q > row) BY <2>1, <1>2
    <3>2. Opened(row, p) = placed[p] /\ Opened(row, q) = placed[q] BY <1>1, <1>11, <3>1
    <3>. QED BY <3>2, <1>12, <1>16
  <2>2. CASE p > row
    <3>1. q > row BY <2>2, <1>2
    <3>2. /\ Opened(row, p).y = placed[p].y + H /\ Opened(row, p).h = placed[p].h
          /\ Opened(row, p).x = placed[p].x /\ Opened(row, p).w = placed[p].w
      BY <1>1, <1>2, <1>4, <1>10, <1>16, <2>2
    <3>3. /\ Opened(row, q).y = placed[q].y + H /\ Opened(row, q).h = placed[q].h
          /\ Opened(row, q).x = placed[q].x /\ Opened(row, q).w = placed[q].w
      BY <1>1, <1>2, <1>4, <1>10, <1>16, <3>1
    <3>4. Apart(placed[p], placed[q]) BY <1>12, <1>16
    <3>. QED BY <3>2, <3>3, <3>4, <1>7, <1>9 DEF Apart
  <2>3. CASE p <= row /\ q > row
    <3>1. placed[p].y + placed[p].h <= placed[row].y + 1
      <4>1. CASE p = row BY <4>1, <1>5, <1>9
      <4>2. CASE p < row BY <4>2, <1>5, <1>1, <1>9, <1>16
      <4>. QED BY <2>3, <4>1, <4>2, <1>2
    <3>2. placed[q].y >= placed[row].y + 1 BY <1>5, <1>1, <1>16, <2>3
    <3>3. Opened(row, p) = placed[p] BY <1>1, <1>2, <1>11, <2>3
    <3>4. Opened(row, q).y = placed[q].y + H BY <1>1, <1>2, <1>4, <1>10, <1>16, <2>3
    <3>5. Opened(row, p).y + Opened(row, p).h <= Opened(row, q).y BY <3>1, <3>2, <3>3, <3>4, <1>7, <1>9
    <3>. QED BY <3>5 DEF Apart
  <2>. QED BY <2>1, <2>2, <2>3, <1>2
<1>. QED BY <1>3, <1>13, <1>14, <1>15, <1>16


-----------------------------------------------------------------------------
(* Every step keeps it *)

\* An empty page.
LEMMA WrittenAtFirst == Init => Written
<1>. SUFFICES ASSUME Init PROVE Written OBVIOUS
<1>1. Len(placed) = 0 /\ x = 0 /\ y = 0 /\ line_h = 0 /\ shut = 0 BY DEF Init
<1>2. Panels = {} BY <1>1 DEF Panels
<1>3. Ends BY <1>2 DEF Ends
<1>4. ReachesTo(Len(placed), y) BY <1>1 DEF ReachesTo
<1>5. Filled BY <1>1, <1>2, <1>4 DEF Filled
<1>. QED BY <1>1, <1>2, <1>3, <1>5 DEF Written, Sized, RowsInPlace, NextInOrder, OrderIsKept, NoneBelowAGap

\* Where the next panel goes: on the line, or where the next line starts.
Goes(kind, left, top) ==
  \/ top = y /\ left = x /\ kind = "panel"
  \/ top = y + line_h /\ left = 0 /\ (line_h > 0 \/ x = 0)

\* It comes after all on its page, and the page reaches to it.
LEMMA GoesAfter ==
  ASSUME IInv, Written, NEW kind, NEW left \in Nat, NEW top \in Nat, Goes(kind, left, top)
  PROVE  /\ top >= y
         /\ \A k \in Panels : placed[k].in = shut =>
              placed[k].y < top \/ (placed[k].y = top /\ placed[k].x < left /\ placed[k].kind = "panel" /\ kind = "panel")
         /\ shut = 0 => ReachesTo(Len(placed), top)
<1>1. Typed /\ x \in Nat /\ y \in Nat /\ line_h \in Nat BY DEF IInv, Typed
<1>2. \A k \in Panels : placed[k] \in Place BY <1>1 DEF Typed, Panels
<1>3. \A k \in Panels : placed[k].x \in Nat /\ placed[k].y \in Nat /\ placed[k].h \in Nat BY <1>2 DEF Place
<1>4. \A k \in Panels : placed[k].h >= 1 BY DEF Written, Sized
<1>5. \A k \in Panels : placed[k].in = shut =>
        placed[k].y < y \/ (placed[k].y = y /\ placed[k].x < x /\ placed[k].kind = "panel")
  BY DEF Written, NextInOrder
<1>6. top >= y BY <1>1 DEF Goes
<1>7. ASSUME NEW k \in Panels, placed[k].in = shut
      PROVE  placed[k].y < top \/ (placed[k].y = top /\ placed[k].x < left /\ placed[k].kind = "panel" /\ kind = "panel")
  BY <1>1, <1>3, <1>5, <1>7 DEF Goes
<1>8. ASSUME shut = 0 PROVE ReachesTo(Len(placed), top)
  <2>1. /\ ReachesTo(Len(placed), y)
        /\ \A k \in Panels : placed[k].in = 0 /\ placed[k].y = y => placed[k].h <= line_h
        /\ line_h > 0 => \E k \in Panels : placed[k].in = 0 /\ placed[k].y = y /\ placed[k].h = line_h
    BY <1>8 DEF Written, Filled
  <2>2. CASE top = y BY <2>1, <2>2
  <2>3. CASE top = y + line_h /\ line_h > 0
    <3>1. \A k \in Panels : placed[k].in = 0 => placed[k].y + placed[k].h <= top
      <4>. SUFFICES ASSUME NEW k \in Panels, placed[k].in = 0 PROVE placed[k].y + placed[k].h <= top OBVIOUS
      <4>1. CASE placed[k].y = y BY <4>1, <2>1, <2>3, <1>1, <1>3
      <4>2. CASE placed[k].y < y
        <5>1. placed[k].y + placed[k].h <= y BY <4>2, <2>1 DEF ReachesTo, Panels
        <5>. QED BY <5>1, <2>3, <1>1, <1>3
      <4>. QED BY <4>1, <4>2, <1>1, <1>3, <1>5, <1>8
    <3>2. PICK k \in Panels : placed[k].in = 0 /\ placed[k].y = y /\ placed[k].h = line_h BY <2>1, <2>3
    <3>3. placed[k].y < top /\ placed[k].y + placed[k].h = top BY <3>2, <2>3, <1>1
    <3>. QED BY <3>1, <3>2, <3>3 DEF ReachesTo, Panels
  <2>. QED BY <2>2, <2>3, <1>1 DEF Goes
<1>. QED BY <1>6, <1>7, <1>8

\* A panel put there: all that is known of where the page's panels are.
LEMMA WrittenOneMore ==
  ASSUME IInv, Written, NEW kind \in {"panel", "row", "shut"}, NEW w \in Nat, NEW h \in Nat, NEW left \in Nat, NEW top \in Nat,
         Put(kind, w, h, left, top), h >= 1, Goes(kind, left, top), y' \in Nat, y' >= top,
         kind = "panel" => shut' = shut,
         kind # "panel" => shut = 0 /\ h = 1 /\ top = y + line_h /\ y' = top + 1,
         kind = "row" => shut' = 0,
         kind = "shut" => shut' = Len(placed) + 1
  PROVE  /\ (\A k \in Panels : placed[k].h >= 1)'
         /\ Ends' /\ RowsInPlace' /\ OrderIsKept' /\ NoneBelowAGap'
<1> DEFINE n == Len(placed) + 1
<1> DEFINE new == [kind |-> kind, x |-> left, y |-> top, w |-> w, h |-> h, in |-> shut]
<1>1. Typed /\ x \in Nat /\ y \in Nat /\ line_h \in Nat /\ shut \in Nat /\ shut <= Len(placed) /\ Len(placed) \in Nat
  BY DEF IInv, Typed
<1>2. /\ Len(placed') = n /\ Panels' = Panels \cup {n} /\ n \notin Panels
      /\ \A k \in Panels : placed'[k] = placed[k]
      /\ placed'[n] = new
  BY <1>1, PutOne
<1>3. \A k \in Panels : placed[k] \in Place BY <1>1 DEF Typed, Panels
<1>4. \A k \in Panels : placed[k].x \in Nat /\ placed[k].y \in Nat /\ placed[k].h \in Nat /\ placed[k].in \in Nat
  BY <1>3 DEF Place
<1>5. \A k \in Panels : k \in Nat /\ k < n /\ k # 0 BY <1>1 DEF Panels
<1>6. n \in Nat /\ shut < n /\ n # 0 BY <1>1
<1>7. \A k \in Panels : placed[k].in # n BY <1>4, <1>5, <1>6 DEF IInv, Held
<1>8. /\ placed'[n].kind = kind /\ placed'[n].x = left /\ placed'[n].y = top /\ placed'[n].h = h /\ placed'[n].in = shut
  BY <1>2
<1>9. /\ top >= y
      /\ \A k \in Panels : placed[k].in = shut =>
           placed[k].y < top \/ (placed[k].y = top /\ placed[k].x < left /\ placed[k].kind = "panel" /\ kind = "panel")
      /\ shut = 0 => ReachesTo(Len(placed), top)
  BY GoesAfter
<1>. HIDE DEF n, new
<1>10. \A k \in Panels' : placed'[k].h >= 1 BY <1>2, <1>8 DEF Written, Sized
<1>11. Ends'
  <2>1. PICK m \in Nat : \A k \in Panels : placed[k].y + placed[k].h <= m BY DEF Written, Ends
  <2>2. m + (top + h) \in Nat BY <2>1
  <2>3. \A k \in Panels : placed[k].y + placed[k].h <= m + (top + h) BY <2>1, <1>4
  <2>4. top + h <= m + (top + h) BY <2>1
  <2>5. \A k \in Panels' : placed'[k].y + placed'[k].h <= m + (top + h) BY <1>2, <1>8, <2>3, <2>4
  <2>. QED BY <2>2, <2>5 DEF Ends
<1>12. OrderIsKept'
  <2>. SUFFICES ASSUME NEW p \in Panels', NEW q \in Panels', p < q, placed'[p].in = placed'[q].in
                PROVE  \/ placed'[p].y < placed'[q].y
                       \/ /\ placed'[p].y = placed'[q].y /\ placed'[p].x < placed'[q].x
                          /\ "panel" = placed'[p].kind /\ "panel" = placed'[q].kind
    BY DEF OrderIsKept
  <2>1. p \in Panels BY <1>2, <1>5, <1>6
  <2>2. CASE q \in Panels BY <2>1, <2>2, <1>2 DEF Written, OrderIsKept
  <2>3. CASE q = n BY <2>1, <2>3, <1>2, <1>8, <1>9
  <2>. QED BY <2>2, <2>3, <1>2
<1>13. NoneBelowAGap'
  <2>. SUFFICES ASSUME NEW q \in Panels', placed'[q].in = 0 PROVE ReachesTo(q - 1, placed[q].y)' BY DEF NoneBelowAGap
  <2>1. CASE q \in Panels
    <3>1. ReachesTo(q - 1, placed[q].y) BY <2>1, <1>2 DEF Written, NoneBelowAGap
    <3>2. \A k \in 1..(q - 1) : k \in Panels BY <2>1, <1>1 DEF Panels
    <3>3. {k \in 1..(q - 1) : placed'[k].in = 0 /\ placed'[k].y < placed'[q].y}
            = {k \in 1..(q - 1) : placed[k].in = 0 /\ placed[k].y < placed[q].y}
      BY <3>2, <2>1, <1>2
    <3>. QED BY <3>1, <3>2, <3>3, <2>1, <1>2 DEF ReachesTo
  <2>2. CASE q = n
    <3>1. shut = 0 /\ n - 1 = Len(placed) BY <2>2, <1>1, <1>8 DEF n
    <3>2. ReachesTo(n - 1, top) BY <3>1, <1>9
    <3>3. \A k \in 1..(n - 1) : k \in Panels BY <3>1, <1>1 DEF Panels
    <3>4. {k \in 1..(n - 1) : placed'[k].in = 0 /\ placed'[k].y < top}
            = {k \in 1..(n - 1) : placed[k].in = 0 /\ placed[k].y < top}
      BY <3>3, <1>2
    <3>. QED BY <3>2, <3>3, <3>4, <2>2, <1>2, <1>8 DEF ReachesTo
  <2>. QED BY <2>1, <2>2, <1>2
<1>14. RowsInPlace'
  <2>0. /\ shut # 0 => placed[shut].kind = "shut" /\ (\A k \in Panels : placed[k].in = 0 => k <= shut)
        /\ \A r \in Panels : placed[r].kind = "shut" =>
             /\ placed[r].in = 0 /\ placed[r].h = 1 /\ y >= placed[r].y + 1
             /\ \A k \in Panels :
                  /\ placed[k].in = 0 /\ k < r => placed[k].y + placed[k].h <= placed[r].y
                  /\ placed[k].in = 0 /\ k > r => placed[k].y >= placed[r].y + 1
                  /\ placed[k].in = r => placed[k].y >= placed[r].y + 1
                  /\ placed[k].in = r => \A q \in Panels : placed[q].in = 0 /\ q > r => k < q
    BY DEF Written, RowsInPlace
  <2>1. shut' # 0 => placed'[shut'].kind = "shut" /\ (\A k \in Panels' : placed'[k].in = 0 => k <= shut')
    <3>1. CASE kind = "panel"
      <4>. SUFFICES ASSUME shut # 0
                    PROVE  placed'[shut].kind = "shut" /\ (\A k \in Panels' : placed'[k].in = 0 => k <= shut)
        BY <3>1
      <4>1. shut \in Panels BY <1>1 DEF Panels
      <4>. QED BY <4>1, <2>0, <1>2, <1>8
    <3>2. CASE kind = "row" BY <3>2
    <3>3. CASE kind = "shut"
      <4>1. shut' = n BY <3>3 DEF n
      <4>2. \A k \in Panels' : k <= n BY <1>2, <1>5, <1>6
      <4>. QED BY <4>1, <4>2, <3>3, <1>8
    <3>. QED BY <3>1, <3>2, <3>3
  <2>2. ASSUME NEW r \in Panels, placed[r].kind = "shut"
        PROVE  /\ placed'[r].in = 0 /\ placed'[r].h = 1 /\ y' >= placed'[r].y + 1
               /\ \A k \in Panels' :
                    /\ placed'[k].in = 0 /\ k < r => placed'[k].y + placed'[k].h <= placed'[r].y
                    /\ placed'[k].in = 0 /\ k > r => placed'[k].y >= placed'[r].y + 1
                    /\ placed'[k].in = r => placed'[k].y >= placed'[r].y + 1
                    /\ placed'[k].in = r => \A q \in Panels' : placed'[q].in = 0 /\ q > r => k < q
    <3>1. placed'[r] = placed[r] /\ r \in Nat /\ r < n /\ r # 0 /\ placed[r].y \in Nat BY <2>2, <1>2, <1>4, <1>5
    <3>2. placed[r].in = 0 /\ placed[r].h = 1 /\ y >= placed[r].y + 1 BY <2>0, <2>2
    <3>3. top >= placed[r].y + 1 /\ y' >= placed[r].y + 1 BY <3>1, <3>2, <1>1, <1>9
    <3>4. ASSUME NEW k \in Panels'
          PROVE  /\ placed'[k].in = 0 /\ k < r => placed'[k].y + placed'[k].h <= placed[r].y
                 /\ placed'[k].in = 0 /\ k > r => placed'[k].y >= placed[r].y + 1
                 /\ placed'[k].in = r => placed'[k].y >= placed[r].y + 1
      <4>1. CASE k \in Panels BY <4>1, <2>0, <2>2, <1>2
      <4>2. CASE k = n
        <5>1. ~(n < r) BY <3>1, <1>6
        <5>. QED BY <4>2, <5>1, <3>3, <1>8
      <4>. QED BY <4>1, <4>2, <1>2
    <3>5. ASSUME NEW k \in Panels', placed'[k].in = r, NEW q \in Panels', placed'[q].in = 0, q > r
          PROVE  k < q
      <4>1. CASE k \in Panels /\ q \in Panels BY <4>1, <3>5, <2>0, <2>2, <1>2
      <4>2. CASE k \in Panels /\ q = n BY <4>2, <1>5
      <4>3. CASE k = n /\ q \in Panels
        <5>1. shut = r /\ placed[q].in = 0 BY <4>3, <3>5, <1>2, <1>8
        <5>2. q <= shut BY <5>1, <4>3, <2>0, <3>1
        <5>3. q \in Nat /\ shut \in Nat BY <4>3, <1>1, <1>5
        <5>4. q > shut BY <3>5, <5>1
        <5>5. ~(q > shut) BY <5>2, <5>3
        <5>. QED BY <5>4, <5>5
      <4>4. CASE k = n /\ q = n BY <4>4, <3>5, <3>1, <1>8
      <4>. QED BY <4>1, <4>2, <4>3, <4>4, <1>2
    <3>. QED BY <3>1, <3>2, <3>3, <3>4, <3>5
  <2>3. ASSUME kind = "shut"
        PROVE  /\ placed'[n].in = 0 /\ placed'[n].h = 1 /\ y' >= placed'[n].y + 1
               /\ \A k \in Panels' :
                    /\ placed'[k].in = 0 /\ k < n => placed'[k].y + placed'[k].h <= placed'[n].y
                    /\ ~(k > n)
                    /\ placed'[k].in # n
    <3>1. shut = 0 /\ h = 1 /\ top = y + line_h /\ y' = top + 1 BY <2>3
    <3>2. \A k \in Panels : placed[k].in = 0 => placed[k].y + placed[k].h <= top
      <4>. SUFFICES ASSUME NEW k \in Panels, placed[k].in = 0 PROVE placed[k].y + placed[k].h <= top OBVIOUS
      <4>1. placed[k].y + placed[k].h <= y \/ placed[k].y + placed[k].h <= y + line_h
        BY <3>1 DEF IInv, AboveTheLine
      <4>2. placed[k].y \in Nat /\ placed[k].h \in Nat BY <1>4
      <4>. QED BY <4>1, <4>2, <3>1, <1>1
    <3>3. placed'[n].in = 0 /\ placed'[n].h = 1 /\ y' >= placed'[n].y + 1 BY <3>1, <1>8
    <3>4. ASSUME NEW k \in Panels'
          PROVE  /\ placed'[k].in = 0 /\ k < n => placed'[k].y + placed'[k].h <= placed'[n].y
                 /\ ~(k > n)
                 /\ placed'[k].in # n
      <4>1. CASE k \in Panels BY <4>1, <3>2, <1>2, <1>5, <1>6, <1>7, <1>8
      <4>2. CASE k = n BY <4>2, <3>1, <1>6, <1>8
      <4>. QED BY <4>1, <4>2, <1>2
    <3>. QED BY <3>3, <3>4
  <2>4. ASSUME NEW r \in Panels', placed'[r].kind = "shut"
        PROVE  /\ placed'[r].in = 0 /\ placed'[r].h = 1 /\ y' >= placed'[r].y + 1
               /\ \A k \in Panels' :
                    /\ placed'[k].in = 0 /\ k < r => placed'[k].y + placed'[k].h <= placed'[r].y
                    /\ placed'[k].in = 0 /\ k > r => placed'[k].y >= placed'[r].y + 1
                    /\ placed'[k].in = r => placed'[k].y >= placed'[r].y + 1
                    /\ placed'[k].in = r => \A q \in Panels' : placed'[q].in = 0 /\ q > r => k < q
    <3>1. CASE r \in Panels
      <4>1. placed[r].kind = "shut" BY <3>1, <2>4, <1>2
      <4>. QED BY <4>1, <3>1, <2>2
    <3>2. CASE r = n
      <4>1. kind = "shut" BY <3>2, <2>4, <1>8
      <4>. QED BY <4>1, <3>2, <2>3
    <3>. QED BY <3>1, <3>2, <1>2
  <2>. QED BY <2>1, <2>4 DEF RowsInPlace
<1>. QED BY <1>10, <1>11, <1>12, <1>13, <1>14


\* A panel on the line is as high as the line or makes it higher; one that wraps
\* starts a line that it fills.
LEMMA PanelWritten == IInv /\ Written /\ Panel => Written'
<1>. SUFFICES ASSUME IInv, Written, Panel PROVE Written' OBVIOUS
<1> DEFINE n == Len(placed) + 1
<1>1. PICK w \in Widths, h \in Heights :
        /\ IF Wraps(w)
           THEN Put("panel", w, h, 0, NewLine) /\ y' = NewLine /\ x' = w /\ line_h' = h
           ELSE Put("panel", w, h, x, y) /\ x' = x + w /\ line_h' = Line(h) /\ UNCHANGED y
        /\ UNCHANGED shut
  BY DEF Panel
<1>2. Typed /\ x \in Nat /\ y \in Nat /\ line_h \in Nat /\ Len(placed) \in Nat BY DEF IInv, Typed
<1>3. w \in Nat /\ h \in Nat /\ w >= 1 /\ h >= 1 /\ w <= Columns /\ Columns \in Nat BY PanelsFit
<1>4. x > 0 => line_h > 0 BY DEF Written, Sized
<1>5. PICK left \in Nat, top \in Nat :
        /\ Put("panel", w, h, left, top) /\ y' = top /\ x' = left + w /\ line_h' \in Nat /\ line_h' >= h
        /\ \/ top = y /\ left = x /\ line_h' >= line_h /\ line_h' \in {line_h, h}
           \/ top = y + line_h /\ left = 0 /\ line_h > 0 /\ line_h' = h
  <2>1. CASE Wraps(w)
    <3>1. x > 0 BY <2>1, <1>2, <1>3 DEF Wraps
    <3> DEFINE start == y + line_h
    <3>2. start \in Nat /\ 0 + w = w BY <1>2, <1>3
    <3>3. Put("panel", w, h, 0, start) /\ y' = start /\ x' = 0 + w /\ line_h' = h BY <1>1, <2>1, <3>2 DEF NewLine
    <3>. QED BY <3>1, <3>2, <3>3, <1>3, <1>4
  <2>2. CASE ~Wraps(w)
    <3>1. Put("panel", w, h, x, y) /\ x' = x + w /\ line_h' = Line(h) /\ y' = y BY <1>1, <2>2
    <3>2. Line(h) \in Nat /\ Line(h) >= line_h /\ Line(h) >= h BY <1>2, <1>3, HigherOfTwo DEF Line
    <3>3. Line(h) \in {line_h, h}
      <4>1. \E m \in {line_h, h} : \A k \in {line_h, h} : m >= k
        <5>1. CASE line_h >= h BY <5>1, <1>2, <1>3
        <5>2. CASE ~(line_h >= h) BY <5>2, <1>2, <1>3
        <5>. QED BY <5>1, <5>2
      <4>. QED BY <4>1 DEF Line, Max
    <3>. QED BY <3>1, <3>2, <3>3, <1>2
  <2>. QED BY <2>1, <2>2
<1>6. shut' = shut BY <1>1
<1>7. Goes("panel", left, top) BY <1>5 DEF Goes
<1>8. /\ (\A k \in Panels : placed[k].h >= 1)'
      /\ Ends' /\ RowsInPlace' /\ OrderIsKept' /\ NoneBelowAGap'
  <2>1. y' \in Nat /\ y' >= top BY <1>5
  <2>. QED BY <2>1, <1>3, <1>5, <1>6, <1>7, WrittenOneMore
<1>9. /\ Len(placed') = n /\ Panels' = Panels \cup {n} /\ n \notin Panels
      /\ \A k \in Panels : placed'[k] = placed[k]
      /\ placed'[n] = [kind |-> "panel", x |-> left, y |-> top, w |-> w, h |-> h, in |-> shut]
  BY <1>2, <1>3, <1>5, PutOne
<1>10. /\ placed'[n].kind = "panel" /\ placed'[n].x = left /\ placed'[n].y = top /\ placed'[n].h = h
       /\ placed'[n].in = shut
  BY <1>9
<1>11. /\ top >= y
       /\ \A k \in Panels : placed[k].in = shut =>
            placed[k].y < top \/ (placed[k].y = top /\ placed[k].x < left /\ placed[k].kind = "panel")
       /\ shut = 0 => ReachesTo(Len(placed), top)
  BY <1>7, GoesAfter
<1>12. \A k \in Panels : placed[k] \in Place BY <1>2 DEF Typed, Panels
<1>13. \A k \in Panels : placed[k].x \in Nat /\ placed[k].y \in Nat /\ placed[k].h \in Nat BY <1>12 DEF Place
<1>14. n \in Nat /\ n = Len(placed) + 1 BY <1>2
<1>. HIDE DEF n
<1>15. Sized' BY <1>8, <1>3, <1>5 DEF Sized
<1>16. NextInOrder'
  <2>1. x' > left BY <1>3, <1>5
  <2>2. \A k \in Panels : placed[k].in = shut =>
          placed[k].y < y' \/ (placed[k].y = y' /\ placed[k].x < x' /\ placed[k].kind = "panel")
    BY <2>1, <1>3, <1>5, <1>11, <1>13
  <2>3. placed'[n].y = y' /\ placed'[n].x < x' /\ placed'[n].kind = "panel" BY <2>1, <1>5, <1>10
  <2>. SUFFICES ASSUME NEW k \in Panels', placed'[k].in = shut
                PROVE  placed'[k].y < y' \/ (placed'[k].y = y' /\ placed'[k].x < x' /\ placed'[k].kind = "panel")
    BY <1>6 DEF NextInOrder
  <2>4. CASE k \in Panels BY <2>2, <2>4, <1>9
  <2>5. CASE k = n BY <2>3, <2>5
  <2>. QED BY <2>4, <2>5, <1>9
<1>17. Filled'
  <2>. SUFFICES ASSUME shut = 0
                PROVE  /\ ReachesTo(Len(placed), y)'
                       /\ \A k \in Panels' : placed'[k].in = 0 /\ placed'[k].y = top => placed'[k].h <= line_h'
                       /\ line_h' > 0 => \E k \in Panels' : placed'[k].in = 0 /\ placed'[k].y = top /\ placed'[k].h = line_h'
    BY <1>5, <1>6 DEF Filled
  <2>1. /\ \A k \in Panels : placed[k].in = 0 /\ placed[k].y = y => placed[k].h <= line_h
        /\ line_h > 0 => \E k \in Panels : placed[k].in = 0 /\ placed[k].y = y /\ placed[k].h = line_h
    BY DEF Written, Filled
  <2>2. ReachesTo(Len(placed), y)'
    <3>1. ReachesTo(Len(placed), top) BY <1>11
    <3>2. {k \in 1..Len(placed') : placed'[k].in = 0 /\ placed'[k].y < top}
            = {k \in 1..Len(placed) : placed[k].in = 0 /\ placed[k].y < top}
      <4>1. 1..Len(placed') = 1..Len(placed) \cup {n} BY <1>9 DEF Panels
      <4>2. ~(placed'[n].y < top) BY <1>10
      <4>. QED BY <4>1, <4>2, <1>9 DEF Panels
    <3>3. \A k \in 1..Len(placed) : placed'[k] = placed[k] BY <1>9 DEF Panels
    <3>. QED BY <3>1, <3>2, <3>3, <1>5 DEF ReachesTo
  <2>3. CASE top = y /\ left = x /\ line_h' >= line_h /\ line_h' \in {line_h, h}
    <3>1. \A k \in Panels : placed[k].in = 0 /\ placed[k].y = top => placed[k].h <= line_h'
      BY <2>1, <2>3, <1>2, <1>5, <1>13
    <3>2. \A k \in Panels' : placed'[k].in = 0 /\ placed'[k].y = top => placed'[k].h <= line_h'
      BY <3>1, <1>5, <1>9, <1>10
    <3>3. \E k \in Panels' : placed'[k].in = 0 /\ placed'[k].y = top /\ placed'[k].h = line_h'
      <4>1. CASE line_h' = h BY <4>1, <1>9, <1>10
      <4>2. CASE line_h' = line_h
        <5>1. line_h > 0 BY <4>2, <1>2, <1>3, <1>5
        <5>2. PICK k \in Panels : placed[k].in = 0 /\ placed[k].y = y /\ placed[k].h = line_h BY <5>1, <2>1
        <5>. QED BY <5>2, <4>2, <2>3, <1>9
      <4>. QED BY <4>1, <4>2, <2>3
    <3>. QED BY <2>2, <3>2, <3>3
  <2>4. CASE top = y + line_h /\ left = 0 /\ line_h > 0 /\ line_h' = h
    <3>1. \A k \in Panels : placed[k].in = 0 => placed[k].y # top
      BY <2>4, <1>11, <1>13
    <3>2. \A k \in Panels' : placed'[k].in = 0 /\ placed'[k].y = top => placed'[k].h <= line_h'
      BY <3>1, <2>4, <1>3, <1>9, <1>10
    <3>3. \E k \in Panels' : placed'[k].in = 0 /\ placed'[k].y = top /\ placed'[k].h = line_h'
      BY <2>4, <1>9, <1>10
    <3>. QED BY <2>2, <3>2, <3>3
  <2>. QED BY <2>3, <2>4, <1>5
<1>. QED BY <1>8, <1>15, <1>16, <1>17 DEF Written

\* A row ends the line, and is its own.
LEMMA RowWritten ==
  ASSUME IInv, Written, NEW kind \in {"row", "shut"}, StartRow(kind),
         shut' = IF kind = "shut" THEN Len(placed) + 1 ELSE 0
  PROVE  Written'
<1> DEFINE n == Len(placed) + 1
<1> DEFINE top == y + line_h
<1>1. /\ shut = 0 /\ Put(kind, Columns, 1, 0, top)
      /\ y' = top + 1 /\ x' = 0 /\ line_h' = 0
  BY DEF StartRow, NewLine
<1>2. Typed /\ x \in Nat /\ y \in Nat /\ line_h \in Nat /\ Len(placed) \in Nat /\ top \in Nat BY DEF IInv, Typed
<1>3. top = y + line_h /\ n = Len(placed) + 1 /\ n # 0 BY <1>2
<1>4. x > 0 => line_h > 0 BY DEF Written, Sized
<1>. HIDE DEF top
<1>5. Goes(kind, 0, top) BY <1>2, <1>3, <1>4 DEF Goes
<1>6. /\ (\A k \in Panels : placed[k].h >= 1)'
      /\ Ends' /\ RowsInPlace' /\ OrderIsKept' /\ NoneBelowAGap'
  <2>1. y' \in Nat /\ y' >= top BY <1>1, <1>2
  <2>2. Columns \in Nat /\ 1 \in Nat /\ 0 \in Nat /\ 1 >= 1 /\ kind \in {"panel", "row", "shut"} /\ kind # "panel"
    BY PanelsFit
  <2>3. /\ kind = "row" => shut' = 0
        /\ kind = "shut" => shut' = Len(placed) + 1
    OBVIOUS
  <2>. QED BY <2>1, <2>2, <2>3, <1>1, <1>2, <1>3, <1>5, WrittenOneMore
<1>7. /\ Len(placed') = n /\ Panels' = Panels \cup {n} /\ n \notin Panels
      /\ \A k \in Panels : placed'[k] = placed[k]
      /\ placed'[n] = [kind |-> kind, x |-> 0, y |-> top, w |-> Columns, h |-> 1, in |-> shut]
  <2>1. Columns \in Nat /\ 1 \in Nat /\ 0 \in Nat /\ top \in Nat /\ kind \in {"panel", "row", "shut"}
    BY <1>2, PanelsFit
  <2>. QED BY <2>1, <1>1, <1>2, PutOne
<1>8. placed'[n].y = top /\ placed'[n].h = 1 /\ placed'[n].in = 0 BY <1>1, <1>7
<1>9. /\ \A k \in Panels : placed[k].in = 0 => placed[k].y < top \/ (placed[k].y = top /\ placed[k].x < 0)
      /\ ReachesTo(Len(placed), top)
  BY <1>1, <1>2, <1>5, GoesAfter
<1>10. \A k \in Panels : placed[k] \in Place BY <1>2 DEF Typed, Panels
<1>11. \A k \in Panels : placed[k].x \in Nat /\ placed[k].y \in Nat /\ placed[k].h \in Nat /\ placed[k].in \in Nat
  BY <1>10 DEF Place
<1>12. \A k \in Panels : placed[k].in = 0 => placed[k].y < top BY <1>9, <1>11
<1>13. \A k \in Panels : placed[k].in # n
  <2>1. \A k \in Panels : k \in Nat /\ k < n BY <1>2 DEF Panels
  <2>2. \A k \in Panels : placed[k].in < k BY DEF IInv, Held
  <2>3. n \in Nat BY <1>2
  <2>. HIDE DEF n
  <2>. QED BY <2>1, <2>2, <2>3, <1>11
<1>14. shut' = 0 \/ shut' = n BY <1>3
<1>. HIDE DEF n
<1>15. Sized' BY <1>6, <1>1 DEF Sized
<1>16. NextInOrder'
  <2>1. \A k \in Panels' : placed'[k].in = 0 => placed'[k].y < y' BY <1>1, <1>2, <1>7, <1>8, <1>11, <1>12
  <2>2. \A k \in Panels' : placed'[k].in # n BY <1>3, <1>7, <1>8, <1>13
  <2>. QED BY <2>1, <2>2, <1>14 DEF NextInOrder
<1>17. Filled'
  <2>1. \A k \in Panels : placed[k].in = 0 => placed[k].y + placed[k].h <= top
    BY <1>9, <1>12 DEF ReachesTo, Panels
  <2>2. \A k \in Panels' : placed'[k].in = 0 => placed'[k].y < y' /\ placed'[k].y + placed'[k].h <= y'
    BY <2>1, <1>1, <1>2, <1>7, <1>8, <1>11, <1>12
  <2>3. n \in Panels' /\ placed'[n].in = 0 /\ placed'[n].y < y' /\ placed'[n].y + placed'[n].h = y'
    BY <1>1, <1>2, <1>7, <1>8
  <2>4. Panels' = 1..Len(placed') BY DEF Panels
  <2>5. ReachesTo(Len(placed), y)' BY <2>2, <2>3, <2>4 DEF ReachesTo
  <2>6. \A k \in Panels' : placed'[k].in = 0 => placed'[k].y # y'
    <3>1. y' \in Nat BY <1>1, <1>2
    <3>2. \A k \in Panels' : placed'[k].in = 0 => placed'[k].y \in Nat BY <1>2, <1>7, <1>8, <1>11
    <3>. QED BY <3>1, <3>2, <2>2
  <2>. QED BY <2>5, <2>6, <1>1 DEF Filled
<1>. QED BY <1>6, <1>15, <1>16, <1>17 DEF Written

\* The page goes on below the row, which is its lowest.
LEMMA EndShutWritten == IInv /\ Written /\ EndShut => Written'
<1>. SUFFICES ASSUME IInv, Written, EndShut PROVE Written' OBVIOUS
<1>1. /\ shut # 0 /\ y' = placed[shut].y + 1 /\ x' = 0 /\ line_h' = 0 /\ shut' = 0 /\ placed' = placed
  BY DEF EndShut, After
<1>2. Typed /\ shut \in Panels BY <1>1 DEF IInv, Typed, Panels
<1>3. \A k \in Panels : placed[k] \in Place BY <1>2 DEF Typed, Panels
<1>4. \A k \in Panels : placed[k].y \in Nat /\ placed[k].h \in Nat BY <1>3 DEF Place
<1>5. Panels' = Panels BY <1>1 DEF Panels
<1>6. placed[shut].in = 0 /\ \A k \in Panels : placed[k].in = 0 => placed[k].y + placed[k].h <= y'
  BY <1>1 DEF IInv, AboveTheRow
<1>7. /\ placed[shut].kind = "shut" /\ (\A k \in Panels : placed[k].in = 0 => k <= shut)
      /\ \A r \in Panels : placed[r].kind = "shut" =>
           /\ placed[r].in = 0 /\ placed[r].h = 1
           /\ \A k \in Panels : placed[k].in = 0 /\ k > r => placed[k].y >= placed[r].y + 1
  BY <1>1 DEF Written, RowsInPlace
<1>8. \A k \in Panels : placed[k].h >= 1 BY DEF Written, Sized
<1>9. \A k \in Panels : placed[k].in = 0 => placed[k].y < y'
  <2>1. y' \in Nat BY <1>1, <1>2, <1>4
  <2>. QED BY <2>1, <1>4, <1>6, <1>8
<1>10. Sized' BY <1>1, <1>5, <1>8 DEF Sized
<1>11. Ends' BY <1>1, <1>5 DEF Written, Ends
<1>12. RowsInPlace'
  <2>1. \A r \in Panels : placed[r].kind = "shut" => y' >= placed[r].y + 1
    <3>. SUFFICES ASSUME NEW r \in Panels, placed[r].kind = "shut" PROVE y' >= placed[r].y + 1 OBVIOUS
    <3>1. r <= shut /\ r \in Nat /\ shut \in Nat BY <1>2, <1>7 DEF Panels
    <3>2. CASE r = shut BY <3>2, <1>1, <1>2, <1>4
    <3>3. CASE r < shut
      <4>1. placed[shut].y >= placed[r].y + 1 BY <3>1, <3>3, <1>2, <1>6, <1>7
      <4>. QED BY <4>1, <1>1, <1>2, <1>4
    <3>. QED BY <3>1, <3>2, <3>3
  <2>. QED BY <2>1, <1>1, <1>5 DEF Written, RowsInPlace
<1>13. NextInOrder' BY <1>1, <1>5, <1>9 DEF NextInOrder
<1>14. OrderIsKept' BY <1>1, <1>5 DEF Written, OrderIsKept
<1>15. NoneBelowAGap' BY <1>1, <1>5 DEF Written, NoneBelowAGap, ReachesTo
<1>16. Filled'
  <2>1. placed[shut].y < y' /\ placed[shut].y + placed[shut].h = y'
    BY <1>1, <1>2, <1>4, <1>7
  <2>2. ReachesTo(Len(placed), y)' BY <2>1, <1>1, <1>2, <1>6 DEF ReachesTo, Panels
  <2>3. \A k \in Panels : placed[k].in = 0 => placed[k].y # y' BY <1>1, <1>2, <1>4, <1>9
  <2>. QED BY <2>2, <2>3, <1>1, <1>5 DEF Filled
<1>. QED BY <1>10, <1>11, <1>12, <1>13, <1>14, <1>15, <1>16 DEF Written

\* Whatever the page, it is drawn as it was written: with one of its shut rows
\* opened, in order, and without a gap.
THEOREM LaidOut == Spec => []LaidOutAsWritten
<1>1. Init => IInv /\ Written BY Initially, WrittenAtFirst
<1>2. IInv /\ [Next]_vars => IInv' BY StepKeeps
<1>3. IInv /\ Written /\ [Next]_vars => Written'
  <2>. SUFFICES ASSUME IInv, Written, [Next]_vars PROVE Written' OBVIOUS
  <2>1. CASE Panel BY <2>1, PanelWritten
  <2>2. CASE Row BY <2>2, RowWritten DEF Row, StartRow
  <2>3. CASE Shut BY <2>3, RowWritten DEF Shut
  <2>4. CASE EndShut BY <2>4, EndShutWritten
  <2>5. CASE UNCHANGED vars
    <3>1. UNCHANGED <<placed, x, y, line_h, shut>> BY <2>5 DEF vars
    <3>2. Sized' /\ Ends' BY <3>1 DEF Written, Sized, Ends, Panels
    <3>3. RowsInPlace' BY <3>1 DEF Written, RowsInPlace, Panels
    <3>4. NextInOrder' /\ OrderIsKept' BY <3>1 DEF Written, NextInOrder, OrderIsKept, Panels
    <3>5. Filled' /\ NoneBelowAGap' BY <3>1 DEF Written, Filled, NoneBelowAGap, ReachesTo, Panels
    <3>. QED BY <3>2, <3>3, <3>4, <3>5 DEF Written
  <2>. QED BY <2>1, <2>2, <2>3, <2>4, <2>5 DEF Next
<1>4. IInv /\ Written => LaidOutAsWritten
  BY RowsOpenInPlace, GapsNone DEF LaidOutAsWritten, Written
<1>. QED BY <1>1, <1>2, <1>3, <1>4, PTL DEF Spec

-----------------------------------------------------------------------------
(* LintFiles *)

\* A file the lint has nothing against: a variant has its page's uid, and any
\* other dashboard one that was noted with it.
FileFine(k) ==
  LET f == files[k] IN
  /\ f.body = "object" /\ f.clean
  /\ f.dir \in CLOUD_VARIANTS => \E j \in Files!Page(f) : files[j].uid = f.uid
  /\ f.dir \in {"local", "pages"} => f.uid \in DOMAIN seen_uids /\ seen_uids[f.uid] = k

\* The inductive invariant: every file read so far is fine or among the errors,
\* and a clean lint has read them all.
FilesInv ==
  /\ files \in Trees /\ Files!TypeOK
  /\ \A u \in DOMAIN seen_uids : seen_uids[u] \in 1..(file_at - 1)
  /\ \A k \in 1..(file_at - 1) : k \in file_errors \/ FileFine(k)
  /\ exit = 0 => file_errors = {} /\ file_at = Len(files) + 1

\* What the trees are.
LEMMA TreeFacts ==
  ASSUME files \in Trees
  PROVE  /\ Len(files) \in Nat /\ DOMAIN files = 1..Len(files)
         /\ \A k \in DOMAIN files : files[k].dir \in {"local", "pages", "rules"} \cup CLOUD_VARIANTS
         /\ \A j, k \in DOMAIN files : files[j].dir = files[k].dir /\ files[j].name = files[k].name => j = k
<1> DEFINE File == [dir : {"local", "pages", "rules"} \cup CLOUD_VARIANTS, name : STRING,
                    body : STRING, uid : STRING, clean : BOOLEAN]
<1>1. files \in Seq(File)
  BY FilesAreCollected
<1>2. Len(files) \in Nat /\ DOMAIN files = 1..Len(files) /\ \A k \in DOMAIN files : files[k] \in File
  <2> HIDE DEF File
  <2> QED
    BY <1>1
<1>3. \A j, k \in DOMAIN files : files[j].dir = files[k].dir /\ files[j].name = files[k].name => j = k
  BY FilesAreCollected
<1> QED
  BY <1>2, <1>3

\* Nothing is read as the lint begins.
LEMMA FilesInit == Files!Init => FilesInv
<1> SUFFICES ASSUME Files!Init PROVE FilesInv
  OBVIOUS
<1>1. files \in Trees /\ file_at = 1 /\ seen_uids = <<>> /\ file_errors = {} /\ exit = 2
  BY DEF Files!Init
<1>2. DOMAIN seen_uids = {}
  BY <1>1
<1>3. 1 \in 1..(Len(files) + 1)
  BY <1>1, TreeFacts
<1> QED
  BY <1>1, <1>2, <1>3 DEF FilesInv, Files!TypeOK

\* A step that notes whether something is wrong with a file keeps the invariant,
\* if the file is fine where nothing is, and what was noted stays.
LEMMA FileRead ==
  ASSUME FilesInv, NEW found \in BOOLEAN, Files!Running, Files!On(found),
         \A u \in DOMAIN seen_uids : u \in DOMAIN seen_uids' /\ seen_uids'[u] = seen_uids[u],
         \A u \in DOMAIN seen_uids' \ DOMAIN seen_uids : seen_uids'[u] = file_at /\ files[file_at].uid = u,
         NEW k, k = file_at, ~found => FileFine(k)'
  PROVE  FilesInv'
<1>1. /\ exit = 2 /\ file_at \in 1..Len(files) /\ file_at' = file_at + 1 /\ UNCHANGED <<files, exit>>
      /\ file_errors' = IF found THEN file_errors \cup {file_at} ELSE file_errors
  BY TreeFacts DEF FilesInv, Files!Running, Files!On
<1>2. files \in Trees /\ Len(files) \in Nat /\ DOMAIN files = 1..Len(files)
  BY TreeFacts DEF FilesInv
<1>3. /\ file_errors \subseteq 1..(file_at - 1)
      /\ \A u \in DOMAIN seen_uids : seen_uids[u] \in 1..(file_at - 1) /\ files[seen_uids[u]].uid = u
  BY DEF FilesInv, Files!TypeOK
<1>4. /\ file_at' \in 1..(Len(files) + 1) /\ file_errors' \subseteq 1..(file_at' - 1)
  <2>1. file_at' = file_at + 1 /\ file_at' \in 1..(Len(files) + 1) /\ 1..(file_at - 1) \subseteq 1..(file_at' - 1)
    BY <1>1, <1>2
  <2>2. file_at \in 1..(file_at' - 1)
    BY <1>1, <1>2, <2>1
  <2> QED
    BY <1>1, <1>3, <2>1, <2>2
<1>5. \A u \in DOMAIN seen_uids' :
        seen_uids'[u] \in 1..(file_at' - 1) /\ seen_uids'[u] < file_at' /\ files[seen_uids'[u]].uid = u
  <2> SUFFICES ASSUME NEW u \in DOMAIN seen_uids'
               PROVE seen_uids'[u] \in 1..(file_at' - 1) /\ seen_uids'[u] < file_at' /\ files[seen_uids'[u]].uid = u
    OBVIOUS
  <2>1. CASE u \in DOMAIN seen_uids
    <3>1. seen_uids'[u] = seen_uids[u] /\ seen_uids[u] \in 1..(file_at - 1) /\ files[seen_uids[u]].uid = u
      BY <1>3, <2>1
    <3> HIDE <1>3
    <3> QED
      BY <1>1, <1>2, <3>1
  <2>2. CASE u \notin DOMAIN seen_uids
    BY <1>1, <2>2
  <2> QED
    BY <2>1, <2>2
<1>6. \A n \in 1..(file_at' - 1) : n \in file_errors' \/ FileFine(n)'
  <2> SUFFICES ASSUME NEW l \in 1..(file_at' - 1), l \notin file_errors' PROVE FileFine(l)'
    OBVIOUS
  <2>1. CASE l = k
    BY <1>1, <2>1
  <2>2. CASE l # k
    <3>1. l \in 1..(file_at - 1) /\ l \notin file_errors
      BY <1>1, <2>2
    <3>2. FileFine(l)
      BY <3>1 DEF FilesInv
    <3> QED
      BY <1>1, <3>2 DEF FileFine, Files!Page
  <2> QED
    BY <2>1, <2>2
<1> QED
  BY <1>1, <1>2, <1>4, <1>5, <1>6 DEF FilesInv, Files!TypeOK

\* Every step of the lint keeps the invariant.
LEMMA FilesStep == FilesInv /\ [Files!Next]_files_vars => FilesInv'
<1> SUFFICES ASSUME FilesInv, [Files!Next]_files_vars PROVE FilesInv'
  OBVIOUS
<1> DEFINE f == files[file_at]
<1>0. /\ files \in Trees /\ Len(files) \in Nat /\ DOMAIN files = 1..Len(files)
      /\ Files!Running => f.dir \in {"local", "pages", "rules"} \cup CLOUD_VARIANTS
  BY TreeFacts DEF FilesInv, Files!Running
<1>1. CASE Files!Unreadable
  <2>1. Files!Running /\ Files!On(TRUE) /\ UNCHANGED seen_uids
    BY <1>1 DEF Files!Unreadable
  <2> QED
    BY <2>1, FileRead
<1>2. CASE Files!LintRules
  <2>1. /\ Files!Running /\ f.dir = "rules" /\ f.body = "object" /\ Files!On(~f.clean) /\ UNCHANGED seen_uids
        /\ UNCHANGED files
    BY <1>2 DEF Files!LintRules, Files!file, Files!On
  <2>2. ~(~f.clean) => FileFine(file_at) /\ f.dir \notin CLOUD_VARIANTS
    BY <2>1, FilesAreCollected DEF FileFine
  <2>3. ASSUME NEW k, k = file_at, ~(~f.clean) PROVE FileFine(k)'
    BY <2>1, <2>2, <2>3 DEF FileFine
  <2> QED
    BY <2>1, <2>3, FileRead
<1>3. CASE Files!WithoutUid
  <2>1. Files!Running /\ Files!On(TRUE) /\ UNCHANGED seen_uids
    BY <1>3 DEF Files!WithoutUid
  <2> QED
    BY <2>1, FileRead
<1>4. CASE Files!Variant
  <2> DEFINE wrong == Files!VariantWrong(f) \/ ~f.clean
  <2>1. /\ Files!Running /\ f.dir \in CLOUD_VARIANTS /\ f.body = "object" /\ Files!On(wrong)
        /\ UNCHANGED <<files, seen_uids>>
    BY <1>4 DEF Files!Variant, Files!file, Files!On
  <2>2. ~wrong => \E j \in Files!Page(f) : files[j].uid = f.uid
    BY DEF Files!VariantWrong
  <2>3. ASSUME NEW k, k = file_at, ~wrong PROVE FileFine(k)'
    <3>1. f.dir \notin {"local", "pages"}
      BY <2>1, FilesAreCollected
    <3> QED
      BY <2>1, <2>2, <2>3, <3>1 DEF FileFine, Files!Page
  <2> QED
    BY <2>1, <2>3, FileRead
<1>5. CASE Files!Crash
  <2>1. exit' = 1 /\ UNCHANGED <<files, file_at, seen_uids, file_errors>>
    BY <1>5 DEF Files!Crash
  <2> QED
    BY <2>1 DEF FilesInv, Files!TypeOK, FileFine, Files!Page
<1>6. CASE Files!Dashboard
  <2> DEFINE wrong == Files!Used(f) \/ ~f.clean
  <2>1. /\ Files!Running /\ f.dir \in {"local", "pages"} /\ f.body = "object" /\ Files!On(wrong)
        /\ seen_uids' = IF Files!Used(f) THEN seen_uids
                        ELSE [u \in DOMAIN seen_uids \cup {f.uid} |->
                                IF u = f.uid THEN file_at ELSE seen_uids[u]]
        /\ UNCHANGED files
    BY <1>6 DEF Files!Dashboard, Files!file, Files!On
  <2>2. CASE Files!Used(f)
    <3>1. wrong /\ UNCHANGED seen_uids
      BY <2>1, <2>2
    <3> QED
      BY <2>1, <3>1, FileRead
  <2>3. CASE ~Files!Used(f)
    <3>1. f.uid \notin DOMAIN seen_uids
      BY <2>3 DEF Files!Used
    <3>2. /\ DOMAIN seen_uids' = DOMAIN seen_uids \cup {f.uid} /\ seen_uids'[f.uid] = file_at
          /\ \A u \in DOMAIN seen_uids : seen_uids'[u] = seen_uids[u]
      BY <2>1, <2>3, <3>1
    <3>3. ASSUME NEW k, k = file_at, ~wrong PROVE FileFine(k)'
      <4>1. f.dir \notin CLOUD_VARIANTS
        BY <2>1, FilesAreCollected
      <4> QED
        BY <2>1, <3>2, <3>3, <4>1 DEF FileFine
    <3> QED
      BY <2>1, <3>2, <3>3, FileRead
  <2> QED
    BY <2>2, <2>3
<1>7. CASE Files!Exit
  <2>1. /\ exit = 2 /\ file_at \notin DOMAIN files /\ exit' = IF file_errors = {} THEN 0 ELSE 1
        /\ UNCHANGED <<files, file_at, seen_uids, file_errors>>
    BY <1>7 DEF Files!Exit
  <2>2. file_at = Len(files) + 1
    BY <1>0, <2>1 DEF FilesInv, Files!TypeOK
  <2> QED
    BY <2>1, <2>2 DEF FilesInv, Files!TypeOK, FileFine, Files!Page
<1>8. CASE UNCHANGED files_vars
  BY <1>8 DEF FilesInv, Files!TypeOK, FileFine, Files!Page, files_vars
<1> QED
  BY <1>1, <1>2, <1>3, <1>4, <1>5, <1>6, <1>7, <1>8 DEF Files!Next

\* The file of a dashboard is the one there is.
LEMMA FileIs ==
  ASSUME FilesInv, NEW k \in DOMAIN files, files[k].dir # "rules", NEW f, f = <<files[k].dir, files[k].name>>
  PROVE  f \in Files!src /\ Files!FileOf(f) = k
<1>1. f \in Files!src
  BY DEF Files!src
<1>2. \A j \in DOMAIN files : <<files[j].dir, files[j].name>> = f => j = k
  BY TreeFacts DEF FilesInv
<1>3. \E j \in DOMAIN files : <<files[j].dir, files[j].name>> = f
  OBVIOUS
<1> QED
  BY <1>1, <1>2, <1>3 DEF Files!FileOf

\* Each dashboard has a file.
LEMMA SourceIs ==
  ASSUME FilesInv, NEW f \in Files!src
  PROVE  /\ Files!FileOf(f) \in DOMAIN files /\ files[Files!FileOf(f)].dir # "rules"
         /\ f = <<files[Files!FileOf(f)].dir, files[Files!FileOf(f)].name>>
<1>1. PICK k \in DOMAIN files : files[k].dir # "rules" /\ f = <<files[k].dir, files[k].name>>
  BY DEF Files!src
<1> QED
  BY <1>1, FileIs

\* After a clean lint a page is reached by its own uid whichever file it is
\* written from, and no other dashboard of Grafana's has it.
LEMMA FilesSafe == FilesInv => Files!Safe
<1> SUFFICES ASSUME FilesInv PROVE Files!Safe
  OBVIOUS
<1> DEFINE uid(f) == files[Files!FileOf(f)].uid
<1>0. Len(files) \in Nat /\ DOMAIN files = 1..Len(files)
  BY TreeFacts DEF FilesInv
<1>1. exit = 0 => \A k \in DOMAIN files : FileFine(k)
  BY <1>0 DEF FilesInv
<1>2. ASSUME exit = 0, NEW f \in Files!src, NEW g \in Files!src,
             f[1] \in {"local", "pages"}, g[1] \in {"local", "pages"}, uid(f) = uid(g)
      PROVE  f = g
  <2>1. /\ Files!FileOf(f) \in DOMAIN files /\ f = <<files[Files!FileOf(f)].dir, files[Files!FileOf(f)].name>>
        /\ Files!FileOf(g) \in DOMAIN files /\ g = <<files[Files!FileOf(g)].dir, files[Files!FileOf(g)].name>>
    BY SourceIs
  <2>2. FileFine(Files!FileOf(f)) /\ FileFine(Files!FileOf(g))
    BY <1>1, <1>2, <2>1
  <2>3. files[Files!FileOf(f)].dir \in {"local", "pages"} /\ files[Files!FileOf(g)].dir \in {"local", "pages"}
    BY <1>2, <2>1
  <2>4. Files!FileOf(f) = seen_uids[uid(f)] /\ Files!FileOf(g) = seen_uids[uid(g)]
    BY <2>2, <2>3 DEF FileFine
  <2>5. Files!FileOf(f) = Files!FileOf(g)
    BY <1>2, <2>4
  <2> QED
    BY <2>1, <2>5
<1>3. ASSUME exit = 0, NEW cc \in BOOLEAN, NEW e \in Files!Image!Environments, NEW name \in Files!Image!Kept(Files!src, cc)
      PROVE  /\ <<"pages", name>> \in Files!src
             /\ Files!Image!Chosen(Files!src, name, cc, e) \in Files!src
             /\ Files!Image!Chosen(Files!src, name, cc, e)[2] = name
             /\ uid(Files!Image!Chosen(Files!src, name, cc, e)) = uid(<<"pages", name>>)
  <2> DEFINE page == <<"pages", name>>
             c == Files!Image!Chosen(Files!src, name, cc, e)
  <2>1. page \in Files!src
    <3>1. name \in Files!Image!Pages(Files!src)
      BY <1>3 DEF Files!Image!Kept
    <3>2. PICK h \in Files!src : h[1] = "pages" /\ h[2] = name
      BY <3>1 DEF Files!Image!Pages
    <3>3. h = <<files[Files!FileOf(h)].dir, files[Files!FileOf(h)].name>>
      BY SourceIs
    <3> QED
      BY <3>2, <3>3
  <2>2. c = page \/ (c \in Files!src /\ c[1] \in {"beta", "production", "no-cc"} /\ c[2] = name)
    BY <1>3 DEF Files!Image!Chosen, Files!Image!Environments
  <2>3. CASE c = page
    BY <2>1, <2>3
  <2>4. CASE c \in Files!src /\ c[1] \in {"beta", "production", "no-cc"} /\ c[2] = name
    <3> DEFINE k == Files!FileOf(c)
    <3>1. k \in DOMAIN files /\ c = <<files[k].dir, files[k].name>> /\ files[k].dir # "rules"
      BY <2>4, SourceIs
    <3>2. files[k].dir \in {"beta", "production", "no-cc"} /\ files[k].name = name
      BY <2>4, <3>1
    <3>3. files[k].dir \in CLOUD_VARIANTS
      <4>1. files[k].dir \in {"local", "pages", "rules"} \cup CLOUD_VARIANTS
        BY <3>1, TreeFacts DEF FilesInv
      <4> QED
        BY <3>2, <4>1
    <3>4. FileFine(k)
      BY <1>1, <1>3, <3>1
    <3>5. PICK j \in Files!Page(files[k]) : files[j].uid = files[k].uid
      BY <3>3, <3>4 DEF FileFine
    <3>6. j \in DOMAIN files /\ files[j].dir = "pages" /\ files[j].name = name
      BY <3>2, <3>5 DEF Files!Page
    <3>7. Files!FileOf(page) = j
      BY <3>6, FileIs
    <3> QED
      BY <2>1, <2>4, <3>5, <3>7
  <2> QED
    BY <2>2, <2>3, <2>4
<1>4. Files!LinksHold
  BY <1>3 DEF Files!LinksHold
<1>5. Files!NothingUnread
  BY <1>1 DEF Files!NothingUnread, FileFine
<1>6. Files!UidsUnique
  <2> SUFFICES ASSUME exit = 0, NEW together \in Files!Given, NEW f \in together, NEW g \in together, uid(f) = uid(g)
               PROVE  f = g
    BY DEF Files!UidsUnique
  <2>1. CASE together = {h \in Files!src : h[1] = "local"}
    BY <1>2, <2>1
  <2>2. ASSUME NEW cc \in BOOLEAN, NEW e \in Files!Image!Environments,
               together = {Files!Image!Chosen(Files!src, name, cc, e) : name \in Files!Image!Kept(Files!src, cc)}
        PROVE  f = g
    <3>1. PICK m \in Files!Image!Kept(Files!src, cc) : f = Files!Image!Chosen(Files!src, m, cc, e)
      BY <2>2
    <3>2. PICK n \in Files!Image!Kept(Files!src, cc) : g = Files!Image!Chosen(Files!src, n, cc, e)
      BY <2>2
    <3>3. <<"pages", m>> \in Files!src /\ <<"pages", n>> \in Files!src /\ uid(<<"pages", m>>) = uid(<<"pages", n>>)
      BY <1>3, <3>1, <3>2
    <3>4. <<"pages", m>> = <<"pages", n>>
      BY <1>2, <3>3
    <3> QED
      BY <3>1, <3>2, <3>4
  <2> QED
    BY <2>1, <2>2 DEF Files!Given
<1>7. Files!TypeOK
  BY DEF FilesInv
<1> QED
  BY <1>4, <1>5, <1>6, <1>7 DEF Files!Safe

\* Whatever files are linted: once the lint is clean, what the entrypoint opens
\* is one page, of the uid it was chosen by.
THEOREM FilesTold == ToolsSpec => []FilesFitTogether
<1> DEFINE Inv == tool = "files" => FilesInv
<1>1. Start => Inv
  BY FilesInit DEF Start
<1>2. Inv /\ [Step]_all => Inv'
  <2> SUFFICES ASSUME Inv, [Step]_all, tool' = "files" PROVE FilesInv'
    OBVIOUS
  <2>1. tool' = tool /\ [Files!Next]_files_vars
    <3>1. CASE LayOut BY <3>1 DEF LayOut
    <3>2. CASE WalkQuery BY <3>2 DEF WalkQuery
    <3>3. CASE ReadPipelines BY <3>3 DEF ReadPipelines
    <3>4. CASE LintCloud BY <3>4 DEF LintCloud
    <3>5. CASE LintLocal BY <3>5 DEF LintLocal
    <3>6. CASE LintRules BY <3>6 DEF LintRules
    <3>7. CASE LintTheFiles BY <3>7 DEF LintTheFiles
    <3>8. CASE ReadCatalogue BY <3>8 DEF ReadCatalogue
    <3>9. CASE UNCHANGED all BY <3>9 DEF all
    <3> QED BY <3>1, <3>2, <3>3, <3>4, <3>5, <3>6, <3>7, <3>8, <3>9 DEF Step
  <2> QED BY <2>1, FilesStep
<1>3. Inv => FilesFitTogether BY FilesSafe DEF FilesFitTogether
<1> QED BY <1>1, <1>2, <1>3, PTL DEF ToolsSpec

-----------------------------------------------------------------------------
(* CatalogueTree *)

Key == Keys \cup Nat
Path == Seq(Key)

\* A key below a path.
Under(path, key) == Append(path, key)

\* The entries right below a path.
Children(entries_, path) ==
  {e \in entries_ : e.path # <<>> /\ Len(e.path) = Len(path) + 1 /\ SubSeq(e.path, 1, Len(e.path) - 1) = path}

\* Entries of a tree: what an entry is below is an entry too.
TreeFits(entries_) ==
  /\ entries_ \subseteq [path : Path, value : Catalogue!Values]
  /\ \A e \in entries_ : e.path # <<>>
  /\ \A e \in entries_ : \A n \in 1..Len(e.path) : \E f \in entries_ : f.path = SubSeq(e.path, 1, n)

\* A path that holds entries: the root, or one that was written.
Holds(entries_, path) == path = <<>> \/ \E e \in entries_ : e.path = path

\* The items a list has once n of them were written.
Items(path, n) == {Catalogue!Entry(Under(path, i), "open") : i \in 0..(n - 1)}

\* A path and one key more.
LEMMA OneKeyOn ==
  ASSUME NEW path \in Path, NEW key \in Key, NEW at, at = Under(path, key)
  PROVE  /\ at \in Path /\ at # <<>> /\ Len(path) \in Nat /\ Len(at) = Len(path) + 1 /\ at[Len(at)] = key
         /\ SubSeq(at, 1, Len(path)) = path /\ SubSeq(at, 1, Len(at)) = at
         /\ \A n \in 1..Len(path) : SubSeq(at, 1, n) = SubSeq(path, 1, n)
<1>1. /\ at \in Path /\ at # <<>> /\ Len(path) \in Nat /\ Len(at) = Len(path) + 1 /\ at[Len(at)] = key
      /\ \A n \in 1..Len(path) : at[n] = path[n]
  BY DEF Path, Under
<1>2. SubSeq(at, 1, Len(path)) = path
  BY <1>1 DEF Path
<1>3. SubSeq(at, 1, Len(at)) = at
  BY <1>1 DEF Path
<1>4. ASSUME NEW n \in 1..Len(path) PROVE SubSeq(at, 1, n) = SubSeq(path, 1, n)
  BY <1>1, <1>4 DEF Path
<1> QED
  BY <1>1, <1>2, <1>3, <1>4

\* Nothing is below a path that was not written: an entry put there takes the
\* place of none.
LEMMA PutAdds ==
  ASSUME NEW entries_, TreeFits(entries_), NEW at \in Path, Len(at) # 0, \A e \in entries_ : e.path # at, NEW value
  PROVE  Catalogue!Put(entries_, at, value) = entries_ \cup {Catalogue!Entry(at, value)}
<1>1. ASSUME NEW e \in entries_ PROVE Len(e.path) < Len(at) \/ SubSeq(e.path, 1, Len(at)) # at
  <2>1. SUFFICES ASSUME ~(Len(e.path) < Len(at)), SubSeq(e.path, 1, Len(at)) = at PROVE FALSE
    OBVIOUS
  <2>2. e.path \in Path
    BY <1>1 DEF TreeFits
  <2>3. Len(at) \in 1..Len(e.path)
    <3>1. Len(at) \in Nat /\ Len(at) # 0 /\ Len(e.path) \in Nat
      BY <2>2 DEF Path
    <3> QED
      BY <2>1, <3>1
  <2>4. \E f \in entries_ : f.path = SubSeq(e.path, 1, Len(at))
    BY <1>1, <2>3 DEF TreeFits
  <2> QED
    BY <2>1, <2>4
<1> QED
  BY <1>1 DEF Catalogue!Put

\* An entry right below one keeps the tree one.
LEMMA TreeGrows ==
  ASSUME NEW entries_, TreeFits(entries_), NEW path \in Path, Holds(entries_, path),
         NEW key \in Key, NEW value \in Catalogue!Values, NEW at, at = Under(path, key)
  PROVE  TreeFits(entries_ \cup {Catalogue!Entry(at, value)})
<1> DEFINE new == Catalogue!Entry(at, value)
           grown == entries_ \cup {new}
<1>0. /\ at \in Path /\ at # <<>> /\ Len(path) \in Nat /\ Len(at) = Len(path) + 1 /\ SubSeq(at, 1, Len(at)) = at
  <2>1. at \in Path /\ at # <<>> /\ Len(path) \in Nat /\ Len(at) = Len(path) + 1
    BY OneKeyOn
  <2>2. SubSeq(at, 1, Len(at)) = at
    BY <2>1 DEF Path
  <2> QED
    BY <2>1, <2>2
<1>1. ASSUME NEW n \in 1..Len(path) PROVE SubSeq(at, 1, n) = SubSeq(path, 1, n)
  BY <1>1, OneKeyOn
<1>2. new \in [path : Path, value : Catalogue!Values] /\ new.path = at
  BY <1>0, <1>1 DEF Catalogue!Entry
<1> HIDE DEF new
<1>3. ASSUME NEW n \in 1..Len(at) PROVE \E f \in grown : f.path = SubSeq(at, 1, n)
  <2>1. CASE n = Len(at)
    BY <1>0, <1>1, <1>2, <2>1
  <2>2. CASE n # Len(at)
    <3>1. n \in 1..Len(path)
      BY <1>0, <1>1, <1>3, <2>2
    <3>2. PICK e \in entries_ : e.path = path
      BY <1>0, <3>1 DEF Holds
    <3>3. \E f \in entries_ : f.path = SubSeq(path, 1, n)
      BY <3>1, <3>2 DEF TreeFits
    <3> QED
      BY <1>0, <1>1, <3>1, <3>3
  <2> QED
    BY <2>1, <2>2
<1>4. TreeFits(grown)
  BY <1>0, <1>1, <1>2, <1>3 DEF TreeFits
<1> QED
  BY <1>4 DEF new

\* What was not written has nothing below it.
LEMMA NothingBelow ==
  ASSUME NEW entries_, TreeFits(entries_), NEW at \in Path, at # <<>>, \A e \in entries_ : e.path # at
  PROVE  Children(entries_, at) = {}
<1>1. ASSUME NEW e \in Children(entries_, at) PROVE FALSE
  <2>1. e \in entries_ /\ Len(e.path) = Len(at) + 1 /\ SubSeq(e.path, 1, Len(e.path) - 1) = at
    BY <1>1 DEF Children
  <2>2. Len(at) \in Nat /\ Len(at) # 0
    BY DEF Path
  <2>3. Len(at) \in 1..Len(e.path) /\ Len(e.path) - 1 = Len(at)
    BY <2>1, <2>2
  <2>4. \E f \in entries_ : f.path = SubSeq(e.path, 1, Len(at))
    BY <2>1, <2>3 DEF TreeFits
  <2> QED
    BY <2>1, <2>3, <2>4
<1> QED
  BY <1>1

\* An entry is right below the one path it is below.
LEMMA ChildrenGrow ==
  ASSUME NEW entries_, NEW path \in Path, NEW key \in Key, NEW value, NEW other \in Path
  PROVE  /\ other = path => Children(entries_ \cup {Catalogue!Entry(Under(path, key), value)}, other)
                            = Children(entries_, other) \cup {Catalogue!Entry(Under(path, key), value)}
         /\ other # path => Children(entries_ \cup {Catalogue!Entry(Under(path, key), value)}, other)
                            = Children(entries_, other)
<1> DEFINE at == Under(path, key)
           new == Catalogue!Entry(at, value)
<1>1. /\ at # <<>> /\ Len(path) \in Nat /\ Len(at) = Len(path) + 1 /\ SubSeq(at, 1, Len(path)) = path
  BY OneKeyOn
<1>2. new.path = at
  BY DEF Catalogue!Entry
<1> HIDE DEF at, new
<1>3. Len(at) - 1 = Len(path)
  BY <1>1
<1>4. Len(new.path) = Len(path) + 1 /\ SubSeq(new.path, 1, Len(new.path) - 1) = path /\ new.path # <<>>
  BY <1>1, <1>2, <1>3
<1>5. other = path => Children(entries_ \cup {new}, other) = Children(entries_, other) \cup {new}
  BY <1>4 DEF Children
<1>6. other # path => Children(entries_ \cup {new}, other) = Children(entries_, other)
  BY <1>4 DEF Children
<1> QED
  BY <1>5, <1>6 DEF at, new

\* n items are n entries.
LEMMA CountItems ==
  ASSUME NEW path \in Path, NEW n \in Nat
  PROVE  Cardinality(Items(path, n)) = n
<1> DEFINE f == [i \in 0..(n - 1) |-> Catalogue!Entry(Under(path, i), "open")]
<1>1. \A i \in 0..(n - 1) : f[i].path = Append(path, i) /\ Append(path, i)[Len(path) + 1] = i
  BY DEF Catalogue!Entry, Path, Key, Under
<1>2. \A i, j \in 0..(n - 1) : f[i] = f[j] => i = j
  BY <1>1
<1>3. \A e \in Items(path, n) : \E i \in 0..(n - 1) : f[i] = e
  BY DEF Items
<1>4. \A i \in 0..(n - 1) : f[i] \in Items(path, n)
  BY DEF Items
<1>5. f \in [0..(n - 1) -> Items(path, n)]
  BY <1>4
<1>6. f \in Bijection(0..(n - 1), Items(path, n))
  <2> HIDE DEF f
  <2> QED
    BY <1>2, <1>3, <1>5 DEF Bijection, Injection, Surjection, IsInjective
<1>7. ExistsBijection(0..(n - 1), Items(path, n))
  BY <1>6 DEF ExistsBijection
<1>8. IsFiniteSet(0..(n - 1)) /\ Cardinality(0..(n - 1)) = n
  BY FS_Interval
<1> QED
  BY <1>7, <1>8, FS_Bijection

\* The levels a line leaves open are those down to the one it stands below.
LEMMA OpenDownTo ==
  ASSUME NEW d \in 1..Len(levels), levels \in Seq([indent : Int, path : Path]), NEW c \in Int,
         \A a, b \in 1..Len(levels) : a < b => levels[a].indent < levels[b].indent,
         levels[d].indent < c, d < Len(levels) => c <= levels[d + 1].indent
  PROVE  Catalogue!OpenAt(c) = SubSeq(levels, 1, d)
<1> DEFINE below == {e \in 1..Len(levels) : levels[e].indent < c}
<1>0. Len(levels) \in Nat /\ \A e \in 1..Len(levels) : levels[e].indent \in Int
  <2> DEFINE Level == [indent : Int, path : Path]
  <2>1. levels \in Seq(Level)
    OBVIOUS
  <2>2. Len(levels) \in Nat /\ \A e \in 1..Len(levels) : levels[e] \in Level
    <3> HIDE DEF Level
    <3> QED
      BY <2>1
  <2> QED
    BY <2>2
<1>1. d \in below
  OBVIOUS
<1>2. ASSUME NEW e \in below PROVE e <= d
  <2>1. SUFFICES ASSUME e > d PROVE FALSE
    BY <1>0, <1>2
  <2>2. d < Len(levels) /\ d + 1 \in 1..Len(levels) /\ d + 1 <= e
    BY <1>0, <1>2, <2>1
  <2>3. levels[d + 1].indent <= levels[e].indent
    <3>1. CASE d + 1 = e
      BY <1>0, <2>2, <3>1
    <3>2. CASE d + 1 # e
      <4>1. d + 1 < e /\ e \in 1..Len(levels)
        BY <1>0, <1>2, <2>2, <3>2
      <4>2. levels[d + 1].indent < levels[e].indent
        BY <2>2, <4>1
      <4> QED
        BY <1>0, <2>2, <4>1, <4>2
    <3> QED
      BY <3>1, <3>2
  <2>4. c <= levels[d + 1].indent /\ levels[e].indent < c /\ levels[d + 1].indent \in Int /\ levels[e].indent \in Int
    BY <1>0, <1>2, <2>2
  <2> HIDE DEF below
  <2> QED
    BY <2>3, <2>4
<1>3. Catalogue!Max2(below) = d
  <2>1. \A m \in below : (\A z \in below : z <= m) => m = d
    BY <1>0, <1>1, <1>2
  <2> QED
    BY <1>1, <1>2, <2>1 DEF Catalogue!Max2
<1> QED
  BY <1>3 DEF Catalogue!OpenAt

\* A container the writer has open, and its level of the reader's stack: where
\* its entries stand is where the next level is. What the reader counted of a
\* list's items are the items there are.
LevelFits(cs, ls, entries_, counted, d) ==
  /\ cs[d].path = ls[d].path /\ ls[d].path \in Path /\ Len(ls[d].path) = d - 1
  /\ ls[d].indent \in Int /\ cs[d].column \in Int /\ cs[d].kind \in {"map", "list", "new"}
  /\ d = 1 => ls[d] = Catalogue!Level(-1, <<>>)
  /\ d # 1 => Catalogue!Entry(ls[d].path, "open") \in entries_
  /\ IF cs[d].kind = "new" THEN d = Len(cs) /\ cs[d].column = ls[d].indent ELSE ls[d].indent < cs[d].column
  /\ d < Len(cs) => ls[d + 1].indent = cs[d].column
  /\ cs[d].kind \in {"list", "new"} =>
       \E n \in Nat : /\ n = IF ls[d].path \in DOMAIN counted THEN counted[ls[d].path] ELSE 0
                      /\ Children(entries_, ls[d].path) = Items(ls[d].path, n)
                      /\ cs[d].kind = "new" => n = 0

\* The containers and the levels fit each other, and those that hold them.
Fits(cs, ls, entries_, counted) ==
  /\ TreeFits(entries_)
  /\ \A path \in DOMAIN counted : \E e \in entries_ : e.path = path
  /\ DOMAIN cs = 1..Len(cs) /\ DOMAIN ls = 1..Len(ls)
  /\ Len(cs) \in Nat /\ Len(cs) >= 1 /\ Len(ls) = Len(cs)
  /\ \A a, b \in 1..Len(ls) : a < b => ls[a].indent < ls[b].indent
  /\ \A d \in 1..Len(cs) : LevelFits(cs, ls, entries_, counted, d)

\* The inductive invariant: the reader is where the writer is.
CatalogueInv ==
  /\ containers \in Seq([path : Path, column : Int, kind : {"map", "list", "new"}])
  /\ levels \in Seq([indent : Int, path : Path])
  /\ Fits(containers, levels, written, items) /\ \A path \in DOMAIN items : items[path] \in Nat
  /\ tree = written /\ skip_deeper_than = block /\ block \in Int
  /\ block # -1 => containers[Len(containers)].kind = "map" /\ containers[Len(containers)].column = block

\* The reader begins where the writer does, at the root.
LEMMA CatalogueInit == Catalogue!Init => CatalogueInv
<1> SUFFICES ASSUME Catalogue!Init PROVE CatalogueInv
  OBVIOUS
<1> DEFINE c == [path |-> <<>>, column |-> 0, kind |-> "map"]
           l == [indent |-> -1, path |-> <<>>]
<1>1. /\ containers = <<c>> /\ levels = <<l>> /\ written = {} /\ block = -1 /\ tree = {}
      /\ skip_deeper_than = -1 /\ DOMAIN items = {}
  BY DEF Catalogue!Init, Catalogue!Container, Catalogue!Level, Catalogue!None
<1>2. c \in [path : Path, column : Int, kind : {"map", "list", "new"}] /\ l \in [indent : Int, path : Path]
  BY DEF Path
<1>3. /\ c.path = <<>> /\ c.column = 0 /\ c.kind = "map" /\ l.indent = -1 /\ l.path = <<>>
      /\ l = Catalogue!Level(-1, <<>>)
  BY DEF Catalogue!Level
<1> HIDE DEF c, l
<1>4. /\ containers \in Seq([path : Path, column : Int, kind : {"map", "list", "new"}])
      /\ levels \in Seq([indent : Int, path : Path])
      /\ Len(containers) = 1 /\ Len(levels) = 1 /\ containers[1] = c /\ levels[1] = l
      /\ DOMAIN containers = 1..1 /\ DOMAIN levels = 1..1
  BY <1>1, <1>2
<1>5. <<>> \in Path /\ Len(<<>>) = 0
  BY DEF Path
<1>6. LevelFits(containers, levels, written, items, 1)
  BY <1>3, <1>4, <1>5 DEF LevelFits
<1>7. \A a, b \in 1..1 : ~(a < b)
  OBVIOUS
<1>8. Fits(containers, levels, written, items)
  BY <1>1, <1>4, <1>6, <1>7 DEF Fits, TreeFits
<1> QED
  BY <1>1, <1>4, <1>8 DEF CatalogueInv

\* A line of the catalogue: where it stands, below container d.
Stands(d, c) ==
  /\ d \in 1..Len(containers)
  /\ c \in Int /\ levels[d].indent < c
  /\ d < Len(containers) => c = levels[d + 1].indent
  /\ containers[d].kind # "new" => c = containers[d].column

\* Where the writer puts a line is deeper than what it is in, and where the
\* reader's stack has what is in that.
LEMMA ColumnStands ==
  ASSUME CatalogueInv, NEW d \in 1..Len(containers), NEW c \in Catalogue!ColumnsOf(d)
  PROVE  Stands(d, c)
<1>1. LevelFits(containers, levels, written, items, d)
  BY DEF CatalogueInv, Fits
<1>2. Len(containers) \in Nat
  BY DEF CatalogueInv
<1>3. CASE containers[d].kind # "new"
  <2>1. c = containers[d].column
    BY <1>3 DEF Catalogue!ColumnsOf
  <2> QED
    BY <1>1, <1>3, <2>1 DEF LevelFits, Stands
<1>4. CASE containers[d].kind = "new"
  <2>1. PICK i \in Indents : c = containers[d].column + i
    BY <1>4 DEF Catalogue!ColumnsOf
  <2>2. i \in Nat /\ i > 0
    BY MappingsAreDeeper
  <2>3. d = Len(containers) /\ containers[d].column = levels[d].indent /\ containers[d].column \in Int
    BY <1>1, <1>4 DEF LevelFits
  <2> QED
    BY <1>2, <1>4, <2>1, <2>2, <2>3 DEF Stands
<1> QED
  BY <1>3, <1>4

\* No line that is written is taken for one of a block scalar.
LEMMA NotInBlock ==
  ASSUME CatalogueInv, NEW d, NEW c, Stands(d, c)
  PROVE  ~(skip_deeper_than # -1 /\ c > skip_deeper_than)
<1> SUFFICES ASSUME block # -1, c > block PROVE FALSE
  BY DEF CatalogueInv
<1> DEFINE last == Len(containers)
<1>1. /\ last \in Nat /\ last >= 1 /\ d \in 1..last /\ c \in Int /\ block \in Int
      /\ containers[last].kind = "map" /\ containers[last].column = block
      /\ Len(levels) = last
  BY DEF CatalogueInv, Fits, Stands
<1>2. LevelFits(containers, levels, written, items, last)
  BY <1>1 DEF CatalogueInv, Fits
<1>3. levels[last].indent < block /\ levels[last].indent \in Int
  BY <1>1, <1>2 DEF LevelFits
<1>4. CASE d = last
  BY <1>1, <1>4 DEF Stands
<1>5. CASE d # last
  <2>1. d < last /\ d + 1 \in 1..last
    BY <1>1, <1>5
  <2>2. c = levels[d + 1].indent
    BY <2>1 DEF Stands
  <2>3. d + 1 = last \/ (d + 1 < last)
    BY <1>1, <2>1
  <2>4. d + 1 < last => levels[d + 1].indent < levels[last].indent
    BY <1>1, <2>1 DEF CatalogueInv, Fits
  <2> QED
    BY <1>1, <1>3, <2>2, <2>3, <2>4
<1> QED
  BY <1>4, <1>5

\* The reader goes down to the container the line stands in.
LEMMA DownToIt ==
  ASSUME CatalogueInv, NEW d, NEW c, Stands(d, c)
  PROVE  Catalogue!OpenAt(c) = SubSeq(levels, 1, d)
<1>1. d \in 1..Len(levels) /\ levels \in Seq([indent : Int, path : Path]) /\ c \in Int /\ levels[d].indent < c
  BY DEF Stands, CatalogueInv, Fits
<1>2. \A a, b \in 1..Len(levels) : a < b => levels[a].indent < levels[b].indent
  BY DEF CatalogueInv, Fits
<1>3. d < Len(levels) => c <= levels[d + 1].indent
  <2>1. d < Len(levels) => c = levels[d + 1].indent
    BY DEF Stands, CatalogueInv, Fits
  <2> QED
    BY <1>1, <2>1
<1> QED
  BY <1>1, <1>2, <1>3, OpenDownTo

\* What was counted of every list but one is what it was.
SameElsewhere(counted, counted2, path) ==
  \A p \in (DOMAIN counted \cup DOMAIN counted2) \ {path} :
    p \in DOMAIN counted /\ p \in DOMAIN counted2 /\ counted2[p] = counted[p]

\* What is below a path shorter than n is what it was.
SameShorter(entries_, entries2, n) ==
  \A path \in Path : Len(path) < n => Children(entries2, path) = Children(entries_, path)

\* What is written below a path is below no other.
LEMMA BesideIt ==
  ASSUME NEW entries_, NEW path \in Path, NEW key \in Key, NEW value
  PROVE  \A other \in Path : other # path =>
           Children(entries_ \cup {Catalogue!Entry(Under(path, key), value)}, other) = Children(entries_, other)
BY ChildrenGrow

\* It is below no shorter one, and has nothing below.
LEMMA BelowNoShorter ==
  ASSUME NEW entries_, TreeFits(entries_), NEW path \in Path, NEW key \in Key, NEW value,
         \A e \in entries_ : e.path # Under(path, key)
  PROVE  /\ SameShorter(entries_, entries_ \cup {Catalogue!Entry(Under(path, key), value)}, Len(path))
         /\ Children(entries_ \cup {Catalogue!Entry(Under(path, key), value)}, Under(path, key)) = {}
<1> DEFINE at == Under(path, key)
           entries2 == entries_ \cup {Catalogue!Entry(at, value)}
<1>1. \A other \in Path : other # path => Children(entries2, other) = Children(entries_, other)
  BY BesideIt
<1>2. at \in Path /\ at # <<>> /\ Len(at) = Len(path) + 1 /\ Len(path) \in Nat
  BY OneKeyOn
<1>3. \A e \in entries_ : e.path # at
  OBVIOUS
<1> HIDE DEF at, entries2
<1>4. Children(entries_, at) = {}
  BY <1>2, <1>3, NothingBelow
<1>5. at # path
  BY <1>2
<1>6. Children(entries2, at) = {}
  BY <1>1, <1>2, <1>4, <1>5
<1>7. ASSUME NEW other \in Path, Len(other) < Len(path) PROVE Children(entries2, other) = Children(entries_, other)
  <2>1. other # path
    BY <1>2, <1>7
  <2> QED
    BY <1>1, <2>1
<1>8. SameShorter(entries_, entries2, Len(path))
  BY <1>7 DEF SameShorter
<1> QED
  BY <1>6, <1>8 DEF at, entries2

\* A container above the one a line is put in fits as it did: what is written is
\* below none of those.
LEMMA OuterFits ==
  ASSUME NEW cs, NEW ls, NEW entries_, NEW counted, Fits(cs, ls, entries_, counted),
         NEW d \in 1..Len(cs), NEW a \in 1..(d - 1),
         NEW cs2, NEW ls2, NEW entries2, NEW counted2, Len(cs2) \in Nat, Len(cs2) >= d,
         cs2[a] = cs[a], ls2[a] = ls[a], ls2[a + 1] = ls[a + 1],
         entries_ \subseteq entries2, SameShorter(entries_, entries2, d - 1),
         SameElsewhere(counted, counted2, ls[d].path)
  PROVE  LevelFits(cs2, ls2, entries2, counted2, a)
<1>1. LevelFits(cs, ls, entries_, counted, a) /\ LevelFits(cs, ls, entries_, counted, d)
  BY DEF Fits
<1>2. /\ d \in Nat /\ a \in Nat /\ a < d /\ d <= Len(cs) /\ Len(cs) \in Nat /\ a < Len(cs2) /\ a < Len(cs) /\ a # Len(cs)
      /\ a - 1 < d - 1
  <2>1. Len(cs) \in Nat
    BY DEF Fits
  <2> QED
    BY <2>1
<1>3. ls[a].path \in Path /\ Len(ls[a].path) = a - 1 /\ Len(ls[d].path) = d - 1 /\ cs[a].kind # "new"
  BY <1>1, <1>2 DEF LevelFits
<1>4. ls[a].path # ls[d].path
  BY <1>2, <1>3
<1>5. Children(entries2, ls[a].path) = Children(entries_, ls[a].path)
  BY <1>2, <1>3 DEF SameShorter
<1>6. \A n : n = (IF ls[a].path \in DOMAIN counted THEN counted[ls[a].path] ELSE 0)
               => n = IF ls[a].path \in DOMAIN counted2 THEN counted2[ls[a].path] ELSE 0
  BY <1>4 DEF SameElsewhere
<1>7. cs2[a].kind \in {"list", "new"} =>
        \E n \in Nat : /\ n = IF ls2[a].path \in DOMAIN counted2 THEN counted2[ls2[a].path] ELSE 0
                       /\ Children(entries2, ls2[a].path) = Items(ls2[a].path, n)
                       /\ cs2[a].kind = "new" => n = 0
  BY <1>1, <1>5, <1>6 DEF LevelFits
<1>8. a < Len(cs2) => ls2[a + 1].indent = cs2[a].column
  BY <1>1, <1>2 DEF LevelFits
<1> QED
  BY <1>1, <1>3, <1>7, <1>8 DEF LevelFits

\* Where an entry goes that is put below a container.
LEMMA BelowIt ==
  ASSUME CatalogueInv, NEW d \in 1..Len(containers), NEW key \in Key
  PROVE  /\ Under(levels[d].path, key) \in Path /\ Len(Under(levels[d].path, key)) = d
         /\ Len(Under(levels[d].path, key)) # 0 /\ levels[d].path \in Path /\ Len(levels[d].path) = d - 1
<1>1. LevelFits(containers, levels, written, items, d)
  BY DEF CatalogueInv, Fits
<1>2. levels[d].path \in Path /\ Len(levels[d].path) = d - 1 /\ Len(containers) \in Nat
  BY <1>1 DEF LevelFits, CatalogueInv, Fits
<1> DEFINE path == levels[d].path
<1> HIDE DEF path
<1>3. path \in Path /\ Len(path) = d - 1
  BY <1>2 DEF path
<1>4. Under(path, key) \in Path /\ Len(Under(path, key)) = Len(path) + 1
  BY <1>3, OneKeyOn
<1>5. d \in Nat /\ d >= 1
  BY <1>2
<1> QED
  BY <1>3, <1>4, <1>5 DEF path

\* An entry put where nothing was written takes the place of none.
LEMMA PutBelow ==
  ASSUME CatalogueInv, NEW at \in Path, Len(at) # 0, \A e \in written : e.path # at, NEW value
  PROVE  Catalogue!Put(tree, at, value) = written \cup {Catalogue!Entry(at, value)}
<1>1. tree = written /\ TreeFits(written)
  BY DEF CatalogueInv, Fits
<1>2. Catalogue!Put(written, at, value) = written \cup {Catalogue!Entry(at, value)}
  BY <1>1, PutAdds
<1> QED
  BY <1>1, <1>2

\* A line with a key, and one with an item's first key.
KeyLine(c, key, value) == Catalogue!Text(c, FALSE, key, value)
ItemLine(c, key, value) == Catalogue!Text(c, TRUE, key, value)

\* What the reader is left with by a key it takes.
LEMMA KeyTaken ==
  ASSUME CatalogueInv, NEW d, NEW c, Stands(d, c), NEW key \in Keys, NEW value \in Catalogue!Values,
         NEW at, at = Under(levels[d].path, key), \A e \in written : e.path # at,
         Catalogue!Read(KeyLine(c, key, value))
  PROVE  /\ tree' = written \cup {Catalogue!Entry(at, value)} /\ items' = items
         /\ levels' = IF value = "open" THEN Append(SubSeq(levels, 1, d), Catalogue!Level(c, at)) ELSE SubSeq(levels, 1, d)
         /\ skip_deeper_than' = IF value = "block" THEN c ELSE -1
<1> DEFINE line == KeyLine(c, key, value)
           ls == SubSeq(levels, 1, d)
<1>1. line.indent = c /\ line.item = FALSE /\ line.key = key /\ line.value = value
  BY DEF KeyLine, Catalogue!Text
<1>2. ~Catalogue!InBlock(line)
  BY <1>1, NotInBlock DEF Catalogue!InBlock, Catalogue!None
<1> HIDE DEF line
<1>3. Catalogue!OpenAt(c) = ls
  BY DownToIt
<1>4. Catalogue!TakeKey(line, ls[Len(ls)].path, c, ls, tree) /\ UNCHANGED items
  BY <1>1, <1>2, <1>3 DEF Catalogue!Read, line
<1>5. Len(ls) = d /\ ls[d] = levels[d]
  <2>1. d \in 1..Len(levels) /\ levels \in Seq([indent : Int, path : Path])
    BY DEF Stands, CatalogueInv, Fits
  <2> QED
    BY <2>1
<1>6. ls[Len(ls)].path = levels[d].path
  BY <1>5
<1>7. Catalogue!Put(tree, at, value) = written \cup {Catalogue!Entry(at, value)}
  <2>1. d \in 1..Len(containers) /\ key \in Key
    BY DEF Stands, Key
  <2>2. at \in Path /\ Len(at) # 0
    BY <2>1, BelowIt
  <2> QED
    BY <2>2, PutBelow
<1> HIDE DEF ls
<1> QED
  BY <1>1, <1>4, <1>6, <1>7 DEF Catalogue!TakeKey, Catalogue!None, ls, Under

\* The sequences with what is deeper than d cut off, and an entry's own there
\* instead if it is open.
CutTo(cs, ls, cs2, ls2, d, c, kind, at, value) ==
  /\ DOMAIN cs2 = 1..Len(cs2) /\ DOMAIN ls2 = 1..Len(ls2) /\ Len(ls2) = Len(cs2)
  /\ Len(cs2) = IF value = "open" THEN d + 1 ELSE d
  /\ \A a \in 1..(d - 1) : cs2[a] = cs[a]
  /\ \A a \in 1..d : ls2[a] = ls[a]
  /\ cs2[d] = Catalogue!Container(cs[d].path, c, kind)
  /\ value = "open" => cs2[d + 1] = Catalogue!Container(at, c, "new") /\ ls2[d + 1] = Catalogue!Level(c, at)

\* As many items are in a list as were counted.
Counted(counted, entries_, path) ==
  \E n \in Nat : /\ n = IF path \in DOMAIN counted THEN counted[path] ELSE 0
                 /\ Children(entries_, path) = Items(path, n)

ContainerSet == [path : Path, column : Int, kind : {"map", "list", "new"}]
LevelSet == [indent : Int, path : Path]

\* An entry can be put in container d, which then holds keys or items.
CanPut(cs, ls, entries_, counted, d, c, key, value, kind, counted2) ==
  /\ cs \in Seq(ContainerSet) /\ ls \in Seq(LevelSet) /\ Fits(cs, ls, entries_, counted)
  /\ d \in 1..Len(cs) /\ c \in Int /\ ls[d].indent < c /\ key \in Key /\ value \in Catalogue!Values
  /\ \A e \in entries_ : e.path # Under(ls[d].path, key)
  /\ kind \in {"map", "list"}
  /\ SameElsewhere(counted, counted2, ls[d].path)
  /\ \A path \in DOMAIN counted2 : \E e \in entries_ : e.path = path
  /\ kind = "list" =>
       Counted(counted2, entries_ \cup {Catalogue!Entry(Under(ls[d].path, key), value)}, ls[d].path)

\* An entry written in container d, which holds keys or items: the containers
\* fit with those below it closed, and with the new one if it is open.
LEMMA PutFits ==
  ASSUME NEW cs, NEW ls, NEW entries_, NEW counted, NEW d, NEW c, NEW key, NEW value, NEW kind, NEW counted2,
         CanPut(cs, ls, entries_, counted, d, c, key, value, kind, counted2),
         NEW at, at = Under(ls[d].path, key), NEW entries2, entries2 = entries_ \cup {Catalogue!Entry(at, value)},
         NEW cs2, NEW ls2, CutTo(cs, ls, cs2, ls2, d, c, kind, at, value)
  PROVE  Fits(cs2, ls2, entries2, counted2)
<1> DEFINE new == Catalogue!Entry(at, value)
<1>00. /\ Fits(cs, ls, entries_, counted)
       /\ d \in 1..Len(cs) /\ c \in Int /\ ls[d].indent < c /\ key \in Key /\ value \in Catalogue!Values
       /\ \A e \in entries_ : e.path # at
       /\ kind \in {"map", "list"} /\ SameElsewhere(counted, counted2, ls[d].path)
       /\ \A path \in DOMAIN counted2 : \E e \in entries_ : e.path = path
       /\ kind = "list" => Counted(counted2, entries2, ls[d].path)
  BY DEF CanPut
<1>0. /\ DOMAIN cs2 = 1..Len(cs2) /\ DOMAIN ls2 = 1..Len(ls2) /\ Len(ls2) = Len(cs2)
      /\ Len(cs2) = IF value = "open" THEN d + 1 ELSE d
      /\ \A a \in 1..(d - 1) : cs2[a] = cs[a]
      /\ \A a \in 1..d : ls2[a] = ls[a]
      /\ cs2[d] = Catalogue!Container(cs[d].path, c, kind)
      /\ value = "open" => cs2[d + 1] = Catalogue!Container(at, c, "new") /\ ls2[d + 1] = Catalogue!Level(c, at)
  BY DEF CutTo
<1>1. /\ Len(cs) \in Nat /\ TreeFits(entries_) /\ LevelFits(cs, ls, entries_, counted, d)
      /\ Len(ls) = Len(cs) /\ \A a, b \in 1..Len(ls) : a < b => ls[a].indent < ls[b].indent
  BY <1>00 DEF Fits
<1>2. d \in Nat /\ d >= 1 /\ d \in 1..Len(cs2) /\ Len(cs2) \in Nat /\ Len(cs2) >= d /\ Len(cs2) <= d + 1 /\ Len(cs2) >= 1
  BY <1>00, <1>0, <1>1
<1>3. /\ ls[d].path \in Path /\ Len(ls[d].path) = d - 1 /\ cs[d].path = ls[d].path /\ ls[d].indent \in Int
      /\ d = 1 => ls[d] = Catalogue!Level(-1, <<>>)
      /\ d # 1 => Catalogue!Entry(ls[d].path, "open") \in entries_
  BY <1>00, <1>1 DEF LevelFits
<1>4. at \in Path /\ Len(at) = d /\ Len(at) # 0
  <2> DEFINE path == ls[d].path
  <2> HIDE DEF path
  <2>1. path \in Path /\ Len(path) = d - 1 /\ at = Under(path, key)
    BY <1>00, <1>3 DEF path
  <2>2. at \in Path /\ Len(at) = Len(path) + 1
    BY <1>00, <2>1, OneKeyOn
  <2> QED
    BY <1>00, <1>2, <2>1, <2>2
<1>5. TreeFits(entries2)
  <2> DEFINE path == ls[d].path
  <2> HIDE DEF path
  <2>1. path \in Path /\ at = Under(path, key)
    BY <1>00, <1>3 DEF path
  <2>2. Holds(entries_, path)
    <3>1. CASE d = 1
      <4>1. path = <<>>
        BY <1>00, <1>3, <3>1 DEF Catalogue!Level, path
      <4> QED
        BY <4>1 DEF Holds
    <3>2. CASE d # 1
      <4>1. Catalogue!Entry(path, "open") \in entries_ /\ Catalogue!Entry(path, "open").path = path
        BY <1>00, <1>3, <3>2 DEF Catalogue!Entry, path
      <4> QED
        BY <4>1 DEF Holds
    <3> QED
      BY <1>00, <3>1, <3>2
  <2> QED
    BY <1>00, <1>1, <2>1, <2>2, TreeGrows
<1>6. SameShorter(entries_, entries2, d - 1) /\ Children(entries2, at) = {}
  <2> DEFINE path == ls[d].path
  <2> HIDE DEF path
  <2>1. path \in Path /\ Len(path) = d - 1 /\ at = Under(path, key)
    BY <1>00, <1>3 DEF path
  <2>2. \A e \in entries_ : e.path # Under(path, key)
    BY <1>00, <2>1
  <2>3. /\ SameShorter(entries_, entries_ \cup {Catalogue!Entry(Under(path, key), value)}, Len(path))
        /\ Children(entries_ \cup {Catalogue!Entry(Under(path, key), value)}, Under(path, key)) = {}
    BY <1>00, <1>1, <2>1, <2>2, BelowNoShorter
  <2> QED
    BY <1>00, <2>1, <2>3
<1>8. entries_ \subseteq entries2 /\ Catalogue!Entry(at, value) \in entries2
  BY <1>00
<1>9. \A path \in DOMAIN counted2 : \E e \in entries2 : e.path = path
  BY <1>00, <1>8
<1>10. ls2[d] = ls[d] /\ cs2[d].path = cs[d].path /\ cs2[d].column = c /\ cs2[d].kind = kind
  BY <1>00, <1>0, <1>2 DEF Catalogue!Container
<1>11. value = "open" => /\ cs2[d + 1].path = at /\ cs2[d + 1].column = c /\ cs2[d + 1].kind = "new"
                         /\ ls2[d + 1].indent = c /\ ls2[d + 1].path = at
  BY <1>00, <1>0 DEF Catalogue!Container, Catalogue!Level
<1>12. ASSUME NEW a \in 1..(d - 1) PROVE LevelFits(cs2, ls2, entries2, counted2, a)
  <2>1. a \in 1..d /\ a + 1 \in 1..d
    BY <1>00, <1>2
  <2>2. cs2[a] = cs[a] /\ ls2[a] = ls[a] /\ ls2[a + 1] = ls[a + 1]
    BY <1>00, <1>0, <2>1
  <2> QED
    BY <1>00, <1>2, <1>6, <1>8, <2>2, OuterFits
<1>13. LevelFits(cs2, ls2, entries2, counted2, d)
  <2>1. d < Len(cs2) => ls2[d + 1].indent = cs2[d].column
    <3>1. d < Len(cs2) => value = "open"
      BY <1>00, <1>0, <1>2
    <3> QED
      BY <1>00, <1>10, <1>11, <3>1
  <2>2. d # 1 => Catalogue!Entry(ls2[d].path, "open") \in entries2
    BY <1>00, <1>3, <1>8, <1>10
  <2>3. cs2[d].kind \in {"list", "new"} =>
         \E n \in Nat : /\ n = IF ls2[d].path \in DOMAIN counted2 THEN counted2[ls2[d].path] ELSE 0
                        /\ Children(entries2, ls2[d].path) = Items(ls2[d].path, n)
                        /\ cs2[d].kind = "new" => n = 0
    BY <1>00, <1>10 DEF Counted
  <2> QED
    BY <1>00, <1>3, <1>10, <2>1, <2>2, <2>3 DEF LevelFits
<1>14. ASSUME value = "open" PROVE LevelFits(cs2, ls2, entries2, counted2, d + 1)
  <2>1. at \notin DOMAIN counted2
    BY <1>00
  <2>3. Items(at, 0) = {}
    BY DEF Items
  <2>4. 0 \in Nat /\ 0 = (IF ls2[d + 1].path \in DOMAIN counted2 THEN counted2[ls2[d + 1].path] ELSE 0)
        /\ Children(entries2, ls2[d + 1].path) = Items(ls2[d + 1].path, 0)
    BY <1>00, <1>6, <1>11, <1>14, <2>1, <2>3
  <2>5. d + 1 # 1 /\ d + 1 = Len(cs2) /\ (d + 1) - 1 = d
    BY <1>00, <1>0, <1>2, <1>14
  <2>6. Catalogue!Entry(ls2[d + 1].path, "open") \in entries2
    BY <1>00, <1>8, <1>11, <1>14
  <2> QED
    BY <1>00, <1>4, <1>11, <1>14, <2>4, <2>5, <2>6 DEF LevelFits
<1>15. \A a \in 1..Len(cs2) : LevelFits(cs2, ls2, entries2, counted2, a)
  <2>1. \A a \in 1..Len(cs2) : a \in 1..(d - 1) \/ a = d \/ (a = d + 1 /\ value = "open")
    BY <1>00, <1>0, <1>2
  <2> QED
    BY <1>00, <1>12, <1>13, <1>14, <2>1
<1>16. \A a, b \in 1..Len(ls2) : a < b => ls2[a].indent < ls2[b].indent
  <2> SUFFICES ASSUME NEW a \in 1..Len(ls2), NEW b \in 1..Len(ls2), a < b PROVE ls2[a].indent < ls2[b].indent
    BY <1>00
  <2>1. a \in 1..d /\ a \in Nat /\ b \in Nat /\ a <= d
    BY <1>00, <1>0, <1>2
  <2>2. \A e \in 1..d : e \in 1..Len(ls)
    BY <1>00, <1>1, <1>2
  <2>3. CASE b \in 1..d
    BY <1>00, <1>0, <1>1, <2>1, <2>2, <2>3
  <2>4. CASE b \notin 1..d
    <3>1. b = d + 1 /\ value = "open"
      BY <1>00, <1>0, <1>2, <2>1, <2>4
    <3>2. ls2[b].indent = c /\ ls2[a] = ls[a]
      BY <1>00, <1>0, <1>11, <2>1, <3>1
    <3>3. a = d \/ ls[a].indent < ls[d].indent
      BY <1>00, <1>1, <1>2, <2>1, <2>2
    <3>4. ls[a].indent \in Int
      <4>1. LevelFits(cs, ls, entries_, counted, a)
        BY <1>00, <1>1, <2>1, <2>2 DEF Fits
      <4> QED
        BY <4>1 DEF LevelFits
    <3> QED
      BY <1>00, <1>3, <3>2, <3>3, <3>4
  <2> QED
    BY <1>00, <2>3, <2>4
<1> QED
  BY <1>00, <1>0, <1>2, <1>5, <1>9, <1>15, <1>16 DEF Fits

\* A sequence cut before d, and one element put there.
LEMMA CutAndPut ==
  ASSUME NEW S, NEW s \in Seq(S), NEW d \in 1..Len(s), NEW one \in S
  PROVE  /\ Append(SubSeq(s, 1, d - 1), one) \in Seq(S)
         /\ Len(Append(SubSeq(s, 1, d - 1), one)) = d
         /\ Append(SubSeq(s, 1, d - 1), one)[d] = one
         /\ \A a \in 1..(d - 1) : Append(SubSeq(s, 1, d - 1), one)[a] = s[a]
<1> DEFINE t == SubSeq(s, 1, d - 1)
<1>1. t \in Seq(S) /\ Len(t) = d - 1 /\ \A a \in 1..(d - 1) : t[a] = s[a]
  OBVIOUS
<1> HIDE DEF t
<1>2. Append(t, one) \in Seq(S) /\ Len(Append(t, one)) = d /\ Append(t, one)[d] = one
      /\ \A a \in 1..(d - 1) : Append(t, one)[a] = t[a]
  BY <1>1
<1> QED
  BY <1>1, <1>2 DEF t

\* A sequence cut after d.
LEMMA CutAfter ==
  ASSUME NEW S, NEW s \in Seq(S), NEW d \in 1..Len(s)
  PROVE  SubSeq(s, 1, d) \in Seq(S) /\ Len(SubSeq(s, 1, d)) = d /\ \A a \in 1..d : SubSeq(s, 1, d)[a] = s[a]
OBVIOUS

\* A sequence and one element more.
LEMMA OneMoreOf ==
  ASSUME NEW S, NEW s \in Seq(S), NEW one \in S
  PROVE  /\ Append(s, one) \in Seq(S) /\ Len(Append(s, one)) = Len(s) + 1 /\ Append(s, one)[Len(s) + 1] = one
         /\ \A a \in 1..Len(s) : Append(s, one)[a] = s[a]
OBVIOUS

\* What is left open of the containers, and of the levels, by an entry in
\* container d, which is then of that kind.
LeftOpen(cs, d, c, kind, at, value) ==
  Catalogue!Within(Append(SubSeq(cs, 1, d - 1), Catalogue!Container(cs[d].path, c, kind)), at, c, value)
LevelsAfter(ls, d, c, at, value) ==
  IF value = "open" THEN Append(SubSeq(ls, 1, d), Catalogue!Level(c, at)) ELSE SubSeq(ls, 1, d)

\* Those are what PutFits asks for.
LEMMA AfterIs ==
  ASSUME NEW cs \in Seq(ContainerSet), NEW ls \in Seq(LevelSet), Len(ls) = Len(cs), NEW d \in 1..Len(cs),
         NEW c \in Int, NEW kind \in {"map", "list"}, NEW at \in Path, NEW value,
         NEW cs2, cs2 = LeftOpen(cs, d, c, kind, at, value), NEW ls2, ls2 = LevelsAfter(ls, d, c, at, value)
  PROVE  /\ cs2 \in Seq(ContainerSet) /\ ls2 \in Seq(LevelSet)
         /\ CutTo(cs, ls, cs2, ls2, d, c, kind, at, value)
<1> DEFINE one == Catalogue!Container(cs[d].path, c, kind)
           new == Catalogue!Container(at, c, "new")
           level == Catalogue!Level(c, at)
           t == Append(SubSeq(cs, 1, d - 1), one)
           u == SubSeq(ls, 1, d)
<1>1. one \in ContainerSet /\ new \in ContainerSet /\ level \in LevelSet
  <2>1. cs[d] \in ContainerSet
    OBVIOUS
  <2>2. cs[d].path \in Path
    BY <2>1 DEF ContainerSet
  <2> QED
    BY <2>2 DEF ContainerSet, LevelSet, Catalogue!Container, Catalogue!Level
<1> HIDE DEF one, new, level
<1>2. t \in Seq(ContainerSet) /\ Len(t) = d /\ t[d] = one /\ \A a \in 1..(d - 1) : t[a] = cs[a]
  BY <1>1, CutAndPut
<1>3. u \in Seq(LevelSet) /\ Len(u) = d /\ \A a \in 1..d : u[a] = ls[a]
  BY CutAfter
<1> HIDE DEF t, u
<1>4. /\ cs2 = IF value = "open" THEN Append(t, new) ELSE t
      /\ ls2 = IF value = "open" THEN Append(u, level) ELSE u
  BY DEF LeftOpen, LevelsAfter, Catalogue!Within, t, u, one, new, level
<1>5. CASE value = "open"
  <2>1. cs2 = Append(t, new) /\ ls2 = Append(u, level)
    BY <1>4, <1>5
  <2>2. cs2 \in Seq(ContainerSet) /\ Len(cs2) = d + 1 /\ cs2[d + 1] = new /\ \A a \in 1..d : cs2[a] = t[a]
    BY <1>1, <1>2, <2>1, OneMoreOf
  <2>3. ls2 \in Seq(LevelSet) /\ Len(ls2) = d + 1 /\ ls2[d + 1] = level /\ \A a \in 1..d : ls2[a] = u[a]
    BY <1>1, <1>3, <2>1, OneMoreOf
  <2>4. d \in Nat /\ d \in 1..d /\ \A a \in 1..(d - 1) : a \in 1..d
    OBVIOUS
  <2>5. DOMAIN cs2 = 1..Len(cs2) /\ DOMAIN ls2 = 1..Len(ls2) /\ Len(ls2) = Len(cs2)
    BY <2>2, <2>3
  <2>6. \A a \in 1..(d - 1) : cs2[a] = cs[a]
    BY <1>2, <2>2, <2>4
  <2>7. \A a \in 1..d : ls2[a] = ls[a]
    BY <1>3, <2>3
  <2>8. cs2[d] = one
    BY <1>2, <2>2, <2>4
  <2> QED
    BY <1>5, <2>2, <2>3, <2>5, <2>6, <2>7, <2>8 DEF CutTo, one, new, level
<1>6. CASE value # "open"
  <2>1. cs2 = t /\ ls2 = u
    BY <1>4, <1>6
  <2> QED
    BY <1>2, <1>3, <1>6, <2>1 DEF CutTo, one
<1> QED
  BY <1>5, <1>6

\* What fits has its columns and levels where PutFits asks.
LEMMA FitsAfter ==
  ASSUME NEW cs, NEW ls, NEW entries_, NEW counted, NEW d, NEW c, NEW key, NEW value, NEW kind, NEW counted2,
         CanPut(cs, ls, entries_, counted, d, c, key, value, kind, counted2)
  PROVE  /\ LeftOpen(cs, d, c, kind, Under(ls[d].path, key), value) \in Seq(ContainerSet)
         /\ LevelsAfter(ls, d, c, Under(ls[d].path, key), value) \in Seq(LevelSet)
         /\ CutTo(cs, ls, LeftOpen(cs, d, c, kind, Under(ls[d].path, key), value),
                  LevelsAfter(ls, d, c, Under(ls[d].path, key), value), d, c, kind, Under(ls[d].path, key), value)
         /\ Fits(LeftOpen(cs, d, c, kind, Under(ls[d].path, key), value),
                 LevelsAfter(ls, d, c, Under(ls[d].path, key), value),
                 entries_ \cup {Catalogue!Entry(Under(ls[d].path, key), value)}, counted2)
<1> DEFINE at == Under(ls[d].path, key)
           entries2 == entries_ \cup {Catalogue!Entry(at, value)}
           cs2 == LeftOpen(cs, d, c, kind, at, value)
           ls2 == LevelsAfter(ls, d, c, at, value)
<1>0. /\ cs \in Seq(ContainerSet) /\ ls \in Seq(LevelSet) /\ Fits(cs, ls, entries_, counted)
      /\ d \in 1..Len(cs) /\ c \in Int /\ ls[d].indent < c /\ key \in Key /\ value \in Catalogue!Values
      /\ kind \in {"map", "list"}
      /\ SameElsewhere(counted, counted2, ls[d].path)
      /\ \A path \in DOMAIN counted2 : \E e \in entries_ : e.path = path
  BY DEF CanPut
<1>1. at \in Path /\ Len(ls) = Len(cs)
  <2> DEFINE path == ls[d].path
  <2> HIDE DEF path
  <2>1. LevelFits(cs, ls, entries_, counted, d) /\ Len(ls) = Len(cs)
    BY <1>0 DEF Fits
  <2>2. path \in Path
    BY <2>1 DEF LevelFits, path
  <2>3. Under(path, key) \in Path
    BY <1>0, <2>2, OneKeyOn
  <2> QED
    BY <2>1, <2>3 DEF path
<1>3. at = Under(ls[d].path, key) /\ entries2 = entries_ \cup {Catalogue!Entry(at, value)}
  OBVIOUS
<1>4. cs2 = LeftOpen(cs, d, c, kind, at, value) /\ ls2 = LevelsAfter(ls, d, c, at, value)
  OBVIOUS
<1> HIDE DEF at, entries2, cs2, ls2
<1>5. /\ cs2 \in Seq(ContainerSet) /\ ls2 \in Seq(LevelSet)
      /\ CutTo(cs, ls, cs2, ls2, d, c, kind, at, value)
  BY <1>0, <1>1, <1>4, AfterIs
<1>7. Fits(cs2, ls2, entries2, counted2)
  BY <1>3, <1>5, PutFits
<1> QED
  BY <1>5, <1>7 DEF at, entries2, cs2, ls2

\* What of a list is written when its next item is.
LEMMA NextItem ==
  ASSUME NEW entries_, TreeFits(entries_), NEW path \in Path, NEW n \in Nat, Children(entries_, path) = Items(path, n)
  PROVE  /\ Cardinality(Children(entries_, path)) = n
         /\ \A e \in entries_ : e.path # Under(path, n)
         /\ \A key \in Key : \A e \in entries_ \cup {Catalogue!Entry(Under(path, n), "open")} :
              e.path # Under(Under(path, n), key)
         /\ Children(entries_ \cup {Catalogue!Entry(Under(path, n), "open")}, path) = Items(path, n + 1)
<1>0. n \in Key
  BY DEF Key
<1>1. Cardinality(Children(entries_, path)) = n
  BY CountItems
<1> DEFINE thing == Under(path, n)
<1>2. thing \in Path /\ thing # <<>> /\ Len(path) \in Nat /\ Len(thing) = Len(path) + 1 /\ thing[Len(thing)] = n
  BY <1>0, OneKeyOn
<1>2a. SubSeq(thing, 1, Len(path)) = path
  BY <1>0, OneKeyOn
<1>2b. \A i \in 0..(n - 1) : Under(path, i)[Len(path) + 1] = i
  BY DEF Under, Path, Key
<1> HIDE DEF thing
<1>3. ASSUME NEW e \in entries_, e.path = thing PROVE FALSE
  <2>1. Len(e.path) - 1 = Len(path) /\ Len(e.path) = Len(path) + 1
    BY <1>2, <1>3
  <2>2. e \in Children(entries_, path)
    BY <1>2, <1>2a, <1>3, <2>1 DEF Children
  <2>3. PICK i \in 0..(n - 1) : e = Catalogue!Entry(Under(path, i), "open")
    BY <2>2 DEF Items
  <2>4. e.path = Under(path, i)
    BY <2>3 DEF Catalogue!Entry
  <2>5. thing[Len(path) + 1] = i
    BY <1>2b, <1>3, <2>4
  <2> QED
    BY <1>2, <2>5
<1>4. ASSUME NEW key \in Key, NEW e \in entries_ \cup {Catalogue!Entry(thing, "open")}, e.path = Under(thing, key)
      PROVE  FALSE
  <2>1. Len(Under(thing, key)) = Len(thing) + 1 /\ SubSeq(Under(thing, key), 1, Len(thing)) = thing /\ Len(thing) \in Nat
    BY <1>2, OneKeyOn
  <2>2. CASE e \in entries_
    <3>1. Len(thing) \in 1..Len(e.path)
      BY <1>2, <1>4, <2>1
    <3>2. PICK f \in entries_ : f.path = SubSeq(e.path, 1, Len(thing))
      BY <2>2, <3>1 DEF TreeFits
    <3>3. f.path = thing
      BY <1>4, <2>1, <3>2
    <3> QED
      BY <1>3, <3>3
  <2>3. CASE e = Catalogue!Entry(thing, "open")
    <3>1. e.path = thing
      BY <2>3 DEF Catalogue!Entry
    <3> QED
      BY <1>2, <1>4, <2>1, <3>1
  <2> QED
    BY <1>4, <2>2, <2>3
<1>5. Children(entries_ \cup {Catalogue!Entry(Under(path, n), "open")}, path)
        = Children(entries_, path) \cup {Catalogue!Entry(Under(path, n), "open")}
  BY <1>0, ChildrenGrow
<1>6. Items(path, n + 1) = Items(path, n) \cup {Catalogue!Entry(Under(path, n), "open")}
  <2>1. 0..((n + 1) - 1) = (0..(n - 1)) \cup {n}
    OBVIOUS
  <2> QED
    BY <2>1 DEF Items
<1> QED
  BY <1>1, <1>3, <1>4, <1>5, <1>6 DEF thing

\* A key of a mapping, written and read.
LEMMA KeyWritten == CatalogueInv /\ Catalogue!WriteKey => CatalogueInv'
<1> SUFFICES ASSUME CatalogueInv, Catalogue!WriteKey PROVE CatalogueInv'
  OBVIOUS
<1>1. PICK d \in 1..Len(containers) : \E key \in Keys, value \in Catalogue!Values, c \in Catalogue!ColumnsOf(d) :
        /\ \A e \in written : e.path # Under(containers[d].path, key)
        /\ containers' = LeftOpen(containers, d, c, "map", Under(containers[d].path, key), value)
        /\ written' = written \cup {Catalogue!Entry(Under(containers[d].path, key), value)}
        /\ block' = IF value = "block" THEN c ELSE -1
        /\ Catalogue!Read(KeyLine(c, key, value))
  BY DEF Catalogue!WriteKey, Catalogue!None, LeftOpen, Under, KeyLine
<1>1a. PICK key \in Keys, value \in Catalogue!Values, c \in Catalogue!ColumnsOf(d) :
        /\ \A e \in written : e.path # Under(containers[d].path, key)
        /\ containers' = LeftOpen(containers, d, c, "map", Under(containers[d].path, key), value)
        /\ written' = written \cup {Catalogue!Entry(Under(containers[d].path, key), value)}
        /\ block' = IF value = "block" THEN c ELSE -1
        /\ Catalogue!Read(KeyLine(c, key, value))
  BY <1>1
<1> DEFINE at == Under(levels[d].path, key)
<1>2. Stands(d, c)
  BY ColumnStands
<1>3. containers[d].path = levels[d].path /\ c \in Int /\ levels[d].indent < c /\ key \in Key
  BY <1>2 DEF CatalogueInv, Fits, LevelFits, Stands, Key
<1>4. /\ \A e \in written : e.path # at
      /\ containers' = LeftOpen(containers, d, c, "map", at, value)
      /\ written' = written \cup {Catalogue!Entry(at, value)}
  BY <1>1a, <1>3
<1>5. /\ tree' = written \cup {Catalogue!Entry(at, value)} /\ items' = items
      /\ levels' = LevelsAfter(levels, d, c, at, value)
      /\ skip_deeper_than' = IF value = "block" THEN c ELSE -1
  BY <1>1a, <1>2, <1>4, KeyTaken DEF LevelsAfter
<1>6. SameElsewhere(items, items, levels[d].path)
  BY DEF SameElsewhere
<1>7. /\ containers \in Seq(ContainerSet) /\ levels \in Seq(LevelSet) /\ Fits(containers, levels, written, items)
      /\ \A path \in DOMAIN items : \E e \in written : e.path = path
  BY DEF CatalogueInv, ContainerSet, LevelSet, Fits
<1>7a. LET cs2 == LeftOpen(containers, d, c, "map", at, value)
           ls2 == LevelsAfter(levels, d, c, at, value)
       IN /\ cs2 \in Seq(ContainerSet) /\ ls2 \in Seq(LevelSet)
          /\ CutTo(containers, levels, cs2, ls2, d, c, "map", at, value)
          /\ Fits(cs2, ls2, written \cup {Catalogue!Entry(at, value)}, items)
  <2>1. \A e \in written : e.path # Under(levels[d].path, key)
    BY <1>4
  <2>2. CanPut(containers, levels, written, items, d, c, key, value, "map", items)
    BY <1>3, <1>6, <1>7, <2>1 DEF CanPut
  <2> QED
    BY <2>2, FitsAfter
<1>8. /\ containers' \in Seq(ContainerSet) /\ levels' \in Seq(LevelSet)
      /\ CutTo(containers, levels, containers', levels', d, c, "map", at, value)
      /\ Fits(containers', levels', written \cup {Catalogue!Entry(at, value)}, items)
  BY <1>4, <1>5, <1>7a
<1>9. Fits(containers', levels', written', items')
  BY <1>4, <1>5, <1>8
<1>10. block' # -1 => /\ containers'[Len(containers')].kind = "map"
                      /\ containers'[Len(containers')].column = block'
  <2> SUFFICES ASSUME value = "block" PROVE containers'[Len(containers')].kind = "map" /\ containers'[Len(containers')].column = c
    BY <1>1a
  <2>1. Len(containers') = d /\ containers'[d] = Catalogue!Container(containers[d].path, c, "map")
    BY <1>8 DEF CutTo
  <2> QED
    BY <2>1 DEF Catalogue!Container
<1>11. tree' = written' /\ skip_deeper_than' = block' /\ block' \in Int
  BY <1>1a, <1>3, <1>4, <1>5
<1> HIDE DEF at
<1> QED
  BY <1>5, <1>8, <1>9, <1>10, <1>11 DEF CatalogueInv, ContainerSet, LevelSet

\* A sequence cut where it ends.
LEMMA CutAtEnd ==
  ASSUME NEW S, NEW s \in Seq(S), NEW one \in S
  PROVE  SubSeq(Append(s, one), 1, Len(s)) = s /\ SubSeq(Append(s, one), 1, Len(s) + 1) = Append(s, one)
OBVIOUS

\* The containers and the levels with an item's own, which is open and new, and
\* those with its first key as well.
ItemFirst(cs, ls, d, c, thing) == LeftOpen(cs, d, c, "list", thing, "open")
ItemLevels(ls, d, c, thing) == LevelsAfter(ls, d, c, thing, "open")

\* They are what is open once the item is written and read.
LEMMA ItemAfter ==
  ASSUME NEW cs \in Seq(ContainerSet), NEW ls \in Seq(LevelSet), Len(ls) = Len(cs), NEW d \in 1..Len(cs),
         NEW c \in Int, NEW thing \in Path, NEW at, NEW value
  PROVE  /\ LeftOpen(ItemFirst(cs, ls, d, c, thing), d + 1, c + 2, "map", at, value)
              = Catalogue!Within(Append(Append(SubSeq(cs, 1, d - 1), Catalogue!Container(cs[d].path, c, "list")),
                                        Catalogue!Container(thing, c + 2, "map")), at, c + 2, value)
         /\ LevelsAfter(ItemLevels(ls, d, c, thing), d + 1, c + 2, at, value)
              = IF value = "open" THEN Append(ItemLevels(ls, d, c, thing), Catalogue!Level(c + 2, at))
                ELSE ItemLevels(ls, d, c, thing)
         /\ ItemLevels(ls, d, c, thing) = Append(SubSeq(ls, 1, d), Catalogue!Level(c, thing))
         /\ ItemFirst(cs, ls, d, c, thing)[d + 1].path = thing /\ ItemFirst(cs, ls, d, c, thing)[d + 1].kind = "new"
         /\ ItemLevels(ls, d, c, thing)[d + 1] = Catalogue!Level(c, thing)
         /\ Len(ItemFirst(cs, ls, d, c, thing)) = d + 1 /\ Len(ItemLevels(ls, d, c, thing)) = d + 1
<1> DEFINE one == Catalogue!Container(cs[d].path, c, "list")
           new == Catalogue!Container(thing, c, "new")
           level == Catalogue!Level(c, thing)
           t == Append(SubSeq(cs, 1, d - 1), one)
           u == SubSeq(ls, 1, d)
<1>1. one \in ContainerSet /\ new \in ContainerSet /\ level \in LevelSet /\ new.path = thing /\ new.kind = "new"
  <2>1. cs[d] \in ContainerSet
    OBVIOUS
  <2>2. cs[d].path \in Path
    BY <2>1 DEF ContainerSet
  <2> QED
    BY <2>2 DEF ContainerSet, LevelSet, Catalogue!Container, Catalogue!Level
<1> HIDE DEF one, new, level
<1>2. t \in Seq(ContainerSet) /\ Len(t) = d
  BY <1>1, CutAndPut
<1>3. u \in Seq(LevelSet) /\ Len(u) = d
  BY CutAfter
<1> HIDE DEF t, u
<1>4. ItemFirst(cs, ls, d, c, thing) = Append(t, new) /\ ItemLevels(ls, d, c, thing) = Append(u, level)
  BY DEF ItemFirst, ItemLevels, LeftOpen, LevelsAfter, Catalogue!Within, t, u, one, new, level
<1>5. /\ SubSeq(Append(t, new), 1, d) = t
      /\ Len(Append(t, new)) = d + 1 /\ Append(t, new)[d + 1] = new
  BY <1>1, <1>2, CutAtEnd, OneMoreOf
<1>6. /\ SubSeq(Append(u, level), 1, d + 1) = Append(u, level)
      /\ Len(Append(u, level)) = d + 1 /\ Append(u, level)[d + 1] = level
  BY <1>1, <1>3, CutAtEnd, OneMoreOf
<1>7. (d + 1) - 1 = d
  OBVIOUS
<1>8. LeftOpen(Append(t, new), d + 1, c + 2, "map", at, value)
        = Catalogue!Within(Append(t, Catalogue!Container(thing, c + 2, "map")), at, c + 2, value)
  BY <1>1, <1>5, <1>7 DEF LeftOpen
<1>9. LevelsAfter(Append(u, level), d + 1, c + 2, at, value)
        = IF value = "open" THEN Append(Append(u, level), Catalogue!Level(c + 2, at)) ELSE Append(u, level)
  BY <1>6 DEF LevelsAfter
<1> QED
  BY <1>1, <1>4, <1>5, <1>6, <1>8, <1>9 DEF t, u, one, level

\* What was counted of a list once it has another item.
Recounted(counted, path) ==
  [p \in DOMAIN counted \cup {path} |->
     (IF p \in DOMAIN counted THEN counted[p] ELSE 0) + IF p = path THEN 1 ELSE 0]

\* n items were counted of a list.
IsCount(counted, path, n) == n = IF path \in DOMAIN counted THEN counted[path] ELSE 0

\* An item can be written in container d, and is the list's n-th.
CanHold(cs, ls, entries_, counted, d, c, n) ==
  /\ cs \in Seq(ContainerSet) /\ ls \in Seq(LevelSet) /\ Fits(cs, ls, entries_, counted)
  /\ d \in 2..Len(cs) /\ c \in Int /\ ls[d].indent < c /\ cs[d].kind \in {"list", "new"}
  /\ \A p \in DOMAIN counted : counted[p] \in Nat
  /\ IsCount(counted, ls[d].path, n)

\* An item's own container and level fit, and its first key's with them.
LEMMA ItemFits ==
  ASSUME NEW cs, NEW ls, NEW entries_, NEW counted, NEW d, NEW c, NEW n,
         CanHold(cs, ls, entries_, counted, d, c, n)
  PROVE  /\ n \in Nat /\ Cardinality(Children(entries_, ls[d].path)) = n
         /\ ls[d].path \in Path /\ Under(ls[d].path, n) \in Path
         /\ \A e \in entries_ : e.path # Under(ls[d].path, n)
         /\ \A key \in Key : \A e \in entries_ \cup {Catalogue!Entry(Under(ls[d].path, n), "open")} :
              e.path # Under(Under(ls[d].path, n), key)
         /\ ItemFirst(cs, ls, d, c, Under(ls[d].path, n)) \in Seq(ContainerSet)
         /\ ItemLevels(ls, d, c, Under(ls[d].path, n)) \in Seq(LevelSet)
         /\ Fits(ItemFirst(cs, ls, d, c, Under(ls[d].path, n)), ItemLevels(ls, d, c, Under(ls[d].path, n)),
                 entries_ \cup {Catalogue!Entry(Under(ls[d].path, n), "open")}, Recounted(counted, ls[d].path))
<1> DEFINE path == ls[d].path
           counted2 == Recounted(counted, path)
           entries2 == entries_ \cup {Catalogue!Entry(Under(path, n), "open")}
<1>0. /\ cs \in Seq(ContainerSet) /\ ls \in Seq(LevelSet) /\ Fits(cs, ls, entries_, counted)
      /\ d \in 2..Len(cs) /\ c \in Int /\ ls[d].indent < c /\ cs[d].kind \in {"list", "new"}
      /\ \A p \in DOMAIN counted : counted[p] \in Nat
      /\ IsCount(counted, path, n)
  BY DEF CanHold
<1>1. Len(cs) \in Nat /\ d \in 1..Len(cs) /\ d # 1
  BY <1>0
<1>2. LevelFits(cs, ls, entries_, counted, d) /\ TreeFits(entries_)
  BY <1>0, <1>1 DEF Fits
<1>3. path \in Path /\ Catalogue!Entry(path, "open") \in entries_
  BY <1>1, <1>2 DEF LevelFits
<1>4. n \in Nat /\ Children(entries_, path) = Items(path, n)
  BY <1>0, <1>2 DEF LevelFits, IsCount
<1>5. n \in Key /\ "open" \in Catalogue!Values
  BY <1>4 DEF Key, Catalogue!Values
<1>6. IsCount(counted, path, n)
  BY <1>0
<1>6a. ls[d].path = path
  OBVIOUS
<1> HIDE DEF path
<1>7. /\ Cardinality(Children(entries_, path)) = n
      /\ \A e \in entries_ : e.path # Under(path, n)
      /\ \A key \in Key : \A e \in entries2 : e.path # Under(Under(path, n), key)
      /\ Children(entries2, path) = Items(path, n + 1)
  BY <1>2, <1>3, <1>4, NextItem
<1>8. Under(path, n) \in Path
  BY <1>3, <1>5, OneKeyOn
<1>9. /\ SameElsewhere(counted, counted2, path)
      /\ path \in DOMAIN counted2 /\ counted2[path] = n + 1
  <2>1. DOMAIN counted2 = DOMAIN counted \cup {path}
    BY DEF Recounted
  <2>2. \A p \in DOMAIN counted : p # path => counted2[p] = counted[p] + 0
    BY <1>0 DEF Recounted
  <2>3. \A p \in DOMAIN counted : p # path => counted2[p] = counted[p]
    BY <1>0, <2>2
  <2>4. counted2[path] = n + 1
    BY <1>6 DEF Recounted, IsCount
  <2> QED
    BY <2>1, <2>3, <2>4 DEF SameElsewhere
<1>10. Counted(counted2, entries2, path)
  BY <1>4, <1>7, <1>9 DEF Counted
<1>11. \A p \in DOMAIN counted2 : \E e \in entries_ : e.path = p
  <2>1. Catalogue!Entry(path, "open").path = path
    BY DEF Catalogue!Entry
  <2>2. \A p \in DOMAIN counted : \E e \in entries_ : e.path = p
    BY <1>0 DEF Fits
  <2> QED
    BY <1>3, <2>1, <2>2 DEF Recounted
<1>12. /\ LeftOpen(cs, d, c, "list", Under(path, n), "open") \in Seq(ContainerSet)
       /\ LevelsAfter(ls, d, c, Under(path, n), "open") \in Seq(LevelSet)
       /\ Fits(LeftOpen(cs, d, c, "list", Under(path, n), "open"), LevelsAfter(ls, d, c, Under(path, n), "open"),
               entries2, counted2)
  <2>1. entries2 = entries_ \cup {Catalogue!Entry(Under(ls[d].path, n), "open")}
    BY <1>6a
  <2> HIDE DEF counted2, entries2
  <2>2. CanPut(cs, ls, entries_, counted, d, c, n, "open", "list", counted2)
    <3>1. Counted(counted2, entries_ \cup {Catalogue!Entry(Under(ls[d].path, n), "open")}, ls[d].path)
      BY <1>6a, <1>10, <2>1
    <3>2. SameElsewhere(counted, counted2, ls[d].path) /\ \A e \in entries_ : e.path # Under(ls[d].path, n)
      BY <1>6a, <1>7, <1>9
    <3> QED
      BY <1>0, <1>1, <1>5, <1>11, <3>1, <3>2 DEF CanPut
  <2>3. LET cs2 == LeftOpen(cs, d, c, "list", Under(ls[d].path, n), "open")
            ls2 == LevelsAfter(ls, d, c, Under(ls[d].path, n), "open")
        IN /\ cs2 \in Seq(ContainerSet) /\ ls2 \in Seq(LevelSet)
           /\ Fits(cs2, ls2, entries_ \cup {Catalogue!Entry(Under(ls[d].path, n), "open")}, counted2)
    BY <2>2, FitsAfter
  <2> QED
    BY <1>6a, <2>1, <2>3
<1> QED
  BY <1>3, <1>4, <1>7, <1>8, <1>12 DEF ItemFirst, ItemLevels, path

\* Where a line stands.
LEMMA Standing ==
  ASSUME CatalogueInv, NEW d, NEW c, Stands(d, c)
  PROVE  /\ d \in 1..Len(containers) /\ Len(containers) \in Nat /\ c \in Int /\ levels[d].indent < c
         /\ containers \in Seq(ContainerSet) /\ levels \in Seq(LevelSet) /\ Fits(containers, levels, written, items)
         /\ Len(levels) = Len(containers) /\ \A p \in DOMAIN items : items[p] \in Nat
         /\ tree = written /\ containers[d].path = levels[d].path /\ levels[d].path \in Path
<1>1. d \in 1..Len(containers) /\ c \in Int /\ levels[d].indent < c
  BY DEF Stands
<1>2. /\ containers \in Seq(ContainerSet) /\ levels \in Seq(LevelSet) /\ Fits(containers, levels, written, items)
      /\ \A p \in DOMAIN items : items[p] \in Nat
      /\ tree = written
  BY DEF CatalogueInv, ContainerSet, LevelSet
<1>3. Len(levels) = Len(containers) /\ Len(containers) \in Nat /\ LevelFits(containers, levels, written, items, d)
  BY <1>1, <1>2 DEF Fits
<1>4. containers[d].path = levels[d].path /\ levels[d].path \in Path
  BY <1>3 DEF LevelFits
<1> QED
  BY <1>1, <1>2, <1>3, <1>4

\* What the reader is left with by an item it takes, whose place is after those
\* it counted.
LEMMA ItemTaken ==
  ASSUME CatalogueInv, NEW d, NEW c, Stands(d, c), d # 1, containers[d].kind \in {"list", "new"},
         NEW key \in Keys, NEW value \in Catalogue!Values, NEW n, IsCount(items, levels[d].path, n),
         Catalogue!Read(ItemLine(c, key, value))
  PROVE  /\ tree' = (written \cup {Catalogue!Entry(Under(levels[d].path, n), "open")})
                      \cup {Catalogue!Entry(Under(Under(levels[d].path, n), key), value)}
         /\ items' = Recounted(items, levels[d].path)
         /\ levels' = LevelsAfter(ItemLevels(levels, d, c, Under(levels[d].path, n)), d + 1, c + 2,
                                  Under(Under(levels[d].path, n), key), value)
         /\ skip_deeper_than' = IF value = "block" THEN c + 2 ELSE -1
<1> DEFINE line == ItemLine(c, key, value)
           ls == SubSeq(levels, 1, d)
           path == levels[d].path
           thing == Under(path, n)
           at == Under(thing, key)
           first == written \cup {Catalogue!Entry(thing, "open")}
           deeper == ItemLevels(levels, d, c, thing)
<1>0. /\ d \in 1..Len(containers) /\ d \in 2..Len(containers) /\ c \in Int /\ levels[d].indent < c
      /\ containers \in Seq(ContainerSet) /\ levels \in Seq(LevelSet)
      /\ Fits(containers, levels, written, items) /\ Len(levels) = Len(containers)
      /\ tree = written /\ key \in Key /\ \A p \in DOMAIN items : items[p] \in Nat
  <2>1. /\ d \in 1..Len(containers) /\ c \in Int /\ levels[d].indent < c
        /\ containers \in Seq(ContainerSet) /\ levels \in Seq(LevelSet)
        /\ Fits(containers, levels, written, items) /\ Len(levels) = Len(containers)
        /\ tree = written /\ \A p \in DOMAIN items : items[p] \in Nat
    BY Standing
  <2>2. Len(containers) \in Nat
    BY Standing
  <2>3. d \in 2..Len(containers)
    BY <2>1, <2>2
  <2> QED
    BY <2>1, <2>3 DEF Key
<1>0a. CanHold(containers, levels, written, items, d, c, n)
  BY <1>0 DEF CanHold
<1>1. line.indent = c /\ line.item = TRUE /\ line.key = key /\ line.value = value
  BY DEF ItemLine, Catalogue!Text
<1>2. ~Catalogue!InBlock(line)
  BY <1>1, NotInBlock DEF Catalogue!InBlock, Catalogue!None
<1>3. Catalogue!OpenAt(c) = ls
  BY DownToIt
<1>4. Catalogue!TakeItem(line, ls)
  <2> HIDE DEF line, ls
  <2>1. Catalogue!Read(line)
    BY DEF line
  <2> QED
    BY <1>1, <1>2, <1>3, <2>1 DEF Catalogue!Read
<1>5. ls[Len(ls)].path = path
  BY <1>0
<1>6. /\ n \in Nat /\ path \in Path /\ thing \in Path
      /\ \A e \in written : e.path # thing
      /\ \A k \in Key : \A e \in first : e.path # Under(thing, k)
      /\ Fits(ItemFirst(containers, levels, d, c, thing), deeper, first, Recounted(items, path))
  BY <1>0a, ItemFits
<1>7. Catalogue!Count(path) = n
  BY DEF Catalogue!Count, IsCount
<1> HIDE DEF line, path
<1>8. thing = Append(path, n) /\ at = Append(thing, key)
  BY DEF Under
<1>9. items' = Recounted(items, path)
  BY <1>4, <1>5 DEF Catalogue!TakeItem, Catalogue!Count, Recounted
<1>10. Catalogue!Put(tree, thing, "open") = first
  <2>1. Len(thing) # 0
    <3>1. Len(thing) = Len(path) + 1 /\ Len(path) \in Nat
      BY <1>6, OneKeyOn DEF Key
    <3> QED
      BY <3>1
  <2> QED
    BY <1>6, <2>1, PutBelow
<1>11. Catalogue!Put(first, at, value) = first \cup {Catalogue!Entry(at, value)}
  <2>1. at \in Path /\ Len(at) # 0
    <3> HIDE DEF thing
    <3>1. at \in Path /\ Len(at) = Len(thing) + 1 /\ Len(thing) \in Nat
      BY <1>0, <1>6, OneKeyOn
    <3> QED
      BY <3>1
  <2>2. TreeFits(first) /\ \A e \in first : e.path # at
    BY <1>0, <1>6 DEF Fits
  <2> HIDE DEF first, at
  <2> QED
    BY <2>1, <2>2, PutAdds
<1>12. deeper = Append(ls, Catalogue!Level(c, thing))
  BY DEF ItemLevels, LevelsAfter
<1>13. Catalogue!TakeKey(line, thing, c + 2, deeper, first)
  <2> HIDE DEF thing, ls, first, deeper
  <2>1. Append(path, Catalogue!Count(path)) = thing
    BY <1>7, <1>8
  <2> QED
    BY <1>1, <1>4, <1>5, <1>10, <1>12, <2>1 DEF Catalogue!TakeItem
<1>14. /\ tree' = first \cup {Catalogue!Entry(at, value)}
       /\ levels' = IF value = "open" THEN Append(deeper, Catalogue!Level(c + 2, at)) ELSE deeper
       /\ skip_deeper_than' = IF value = "block" THEN c + 2 ELSE -1
  <2> HIDE DEF thing, first, deeper, ls
  <2> QED
    BY <1>1, <1>8, <1>11, <1>13 DEF Catalogue!TakeKey, Catalogue!None
<1>15. LevelsAfter(deeper, d + 1, c + 2, at, value)
         = IF value = "open" THEN Append(deeper, Catalogue!Level(c + 2, at)) ELSE deeper
  <2> HIDE DEF thing, at
  <2> QED
    BY <1>0, <1>6, ItemAfter
<1> QED
  BY <1>9, <1>14, <1>15 DEF path

\* The instance counts as the module does.
LEMMA SameCount == ASSUME NEW S PROVE Catalogue!Cardinality(S) = Cardinality(S)
BY DEF Catalogue!Cardinality, Cardinality

\* An item of a list with its first key, written and read.
LEMMA ItemWritten == CatalogueInv /\ Catalogue!WriteItem => CatalogueInv'
<1> SUFFICES ASSUME CatalogueInv, Catalogue!WriteItem PROVE CatalogueInv'
  OBVIOUS
<1> DEFINE n(d) == Cardinality(Children(written, containers[d].path))
           thing(d) == Under(containers[d].path, n(d))
<1>0. PICK d \in 2..Len(containers) : \E key \in Keys, value \in Catalogue!Values, c \in Catalogue!ColumnsOf(d) :
        LET k   == Catalogue!Cardinality({e \in written : e.path # <<>> /\ Len(e.path) = Len(containers[d].path) + 1
                                                         /\ SubSeq(e.path, 1, Len(e.path) - 1)
                                                              = containers[d].path})
            one == Append(containers[d].path, k)
            at  == Append(one, key)
        IN /\ containers[d].kind \in {"list", "new"} /\ c + 2 <= MaxColumn
           /\ containers' = Catalogue!Within(Append(Append(SubSeq(containers, 1, d - 1),
                                                           Catalogue!Container(containers[d].path, c, "list")),
                                                    Catalogue!Container(one, c + 2, "map")), at, c + 2, value)
           /\ written' = written \cup {Catalogue!Entry(one, "open"), Catalogue!Entry(at, value)}
           /\ block' = IF value = "block" THEN c + 2 ELSE Catalogue!None
           /\ Catalogue!Read(Catalogue!Text(c, TRUE, key, value))
  BY Zenon DEF Catalogue!WriteItem
<1>1. PICK key \in Keys, value \in Catalogue!Values, c \in Catalogue!ColumnsOf(d) :
        LET k   == Catalogue!Cardinality({e \in written : e.path # <<>> /\ Len(e.path) = Len(containers[d].path) + 1
                                                         /\ SubSeq(e.path, 1, Len(e.path) - 1)
                                                              = containers[d].path})
            one == Append(containers[d].path, k)
            at  == Append(one, key)
        IN /\ containers[d].kind \in {"list", "new"} /\ c + 2 <= MaxColumn
           /\ containers' = Catalogue!Within(Append(Append(SubSeq(containers, 1, d - 1),
                                                           Catalogue!Container(containers[d].path, c, "list")),
                                                    Catalogue!Container(one, c + 2, "map")), at, c + 2, value)
           /\ written' = written \cup {Catalogue!Entry(one, "open"), Catalogue!Entry(at, value)}
           /\ block' = IF value = "block" THEN c + 2 ELSE Catalogue!None
           /\ Catalogue!Read(Catalogue!Text(c, TRUE, key, value))
  BY <1>0
<1>2. /\ containers[d].kind \in {"list", "new"}
      /\ containers' = Catalogue!Within(Append(Append(SubSeq(containers, 1, d - 1),
                                                      Catalogue!Container(containers[d].path, c, "list")),
                                               Catalogue!Container(thing(d), c + 2, "map")),
                                        Under(thing(d), key), c + 2, value)
      /\ written' = written \cup {Catalogue!Entry(thing(d), "open"), Catalogue!Entry(Under(thing(d), key), value)}
      /\ block' = IF value = "block" THEN c + 2 ELSE -1
      /\ Catalogue!Read(ItemLine(c, key, value))
  BY <1>1, SameCount, Zenon DEF Catalogue!None, Under, ItemLine, Children
<1>3. Len(containers) \in Nat /\ d \in 1..Len(containers) /\ d # 1
  BY DEF CatalogueInv, Fits
<1>4. Stands(d, c)
  BY <1>3, ColumnStands
<1>5. /\ containers[d].path = levels[d].path /\ c \in Int /\ levels[d].indent < c /\ key \in Key
      /\ containers \in Seq(ContainerSet) /\ levels \in Seq(LevelSet) /\ Fits(containers, levels, written, items)
      /\ Len(levels) = Len(containers) /\ \A p \in DOMAIN items : items[p] \in Nat
  BY <1>4, Standing DEF Key
<1>6. PICK m : IsCount(items, levels[d].path, m)
  BY DEF IsCount
<1>6a. CanHold(containers, levels, written, items, d, c, m)
  BY <1>2, <1>5, <1>6 DEF CanHold
<1> DEFINE path == levels[d].path
           under == Under(path, m)
           at == Under(under, key)
           first == written \cup {Catalogue!Entry(under, "open")}
           cs == ItemFirst(containers, levels, d, c, under)
           ls == ItemLevels(levels, d, c, under)
<1>7. /\ m \in Nat /\ Cardinality(Children(written, path)) = m /\ path \in Path /\ under \in Path
      /\ \A k \in Key : \A e \in first : e.path # Under(under, k)
      /\ cs \in Seq(ContainerSet) /\ ls \in Seq(LevelSet)
      /\ Fits(cs, ls, first, Recounted(items, path))
  BY <1>6a, ItemFits
<1>8. thing(d) = under
  BY <1>5, <1>7
<1>9. /\ LeftOpen(cs, d + 1, c + 2, "map", at, value)
           = Catalogue!Within(Append(Append(SubSeq(containers, 1, d - 1),
                                            Catalogue!Container(containers[d].path, c, "list")),
                                     Catalogue!Container(under, c + 2, "map")), at, c + 2, value)
      /\ ls[d + 1] = Catalogue!Level(c, under) /\ Len(cs) = d + 1
  <2>1. under \in Path /\ Len(levels) = Len(containers) /\ c \in Int
    BY <1>5, <1>7
  <2> HIDE DEF under, at
  <2>2. /\ LeftOpen(ItemFirst(containers, levels, d, c, under), d + 1, c + 2, "map", at, value)
           = Catalogue!Within(Append(Append(SubSeq(containers, 1, d - 1),
                                            Catalogue!Container(containers[d].path, c, "list")),
                                     Catalogue!Container(under, c + 2, "map")), at, c + 2, value)
        /\ ItemLevels(levels, d, c, under)[d + 1] = Catalogue!Level(c, under)
        /\ Len(ItemFirst(containers, levels, d, c, under)) = d + 1
    BY <1>3, <1>5, <2>1, ItemAfter
  <2> QED
    BY <2>2
<1>10. /\ tree' = first \cup {Catalogue!Entry(at, value)}
       /\ items' = Recounted(items, path)
       /\ levels' = LevelsAfter(ls, d + 1, c + 2, at, value)
       /\ skip_deeper_than' = IF value = "block" THEN c + 2 ELSE -1
  BY <1>2, <1>3, <1>4, <1>6, ItemTaken
<1>11. /\ containers' = LeftOpen(cs, d + 1, c + 2, "map", at, value)
       /\ written' = first \cup {Catalogue!Entry(at, value)}
  <2> HIDE DEF under, cs
  <2> QED
    BY <1>2, <1>8, <1>9
<1>12. /\ LeftOpen(cs, d + 1, c + 2, "map", at, value) \in Seq(ContainerSet)
       /\ LevelsAfter(ls, d + 1, c + 2, at, value) \in Seq(LevelSet)
       /\ CutTo(cs, ls, LeftOpen(cs, d + 1, c + 2, "map", at, value), LevelsAfter(ls, d + 1, c + 2, at, value),
                d + 1, c + 2, "map", at, value)
       /\ Fits(LeftOpen(cs, d + 1, c + 2, "map", at, value), LevelsAfter(ls, d + 1, c + 2, at, value),
               first \cup {Catalogue!Entry(at, value)}, Recounted(items, path))
  <2>1. ls[d + 1].path = under /\ ls[d + 1].indent < c + 2 /\ c + 2 \in Int /\ d + 1 \in 1..Len(cs)
    <3> HIDE DEF ls, under, cs
    <3>1. ls[d + 1].path = under /\ ls[d + 1].indent = c
      BY <1>9 DEF Catalogue!Level
    <3> QED
      BY <1>3, <1>5, <1>9, <3>1
  <2>2. /\ SameElsewhere(Recounted(items, path), Recounted(items, path), under)
        /\ \A p \in DOMAIN Recounted(items, path) : \E e \in first : e.path = p
    <3> HIDE DEF first
    <3> QED
      BY <1>7 DEF SameElsewhere, Fits
  <2> DEFINE counted == Recounted(items, path)
  <2> HIDE DEF cs, ls, under, first, counted
  <2>3. at = Under(ls[d + 1].path, key) /\ \A e \in first : e.path # Under(ls[d + 1].path, key)
    BY <1>5, <1>7, <2>1
  <2>4. LET cs2 == LeftOpen(cs, d + 1, c + 2, "map", Under(ls[d + 1].path, key), value)
            ls2 == LevelsAfter(ls, d + 1, c + 2, Under(ls[d + 1].path, key), value)
        IN /\ cs2 \in Seq(ContainerSet) /\ ls2 \in Seq(LevelSet)
           /\ CutTo(cs, ls, cs2, ls2, d + 1, c + 2, "map", Under(ls[d + 1].path, key), value)
           /\ Fits(cs2, ls2, first \cup {Catalogue!Entry(Under(ls[d + 1].path, key), value)}, counted)
    <3>1. cs \in Seq(ContainerSet) /\ ls \in Seq(LevelSet) /\ Fits(cs, ls, first, counted)
      BY <1>7 DEF counted
    <3>2. /\ SameElsewhere(counted, counted, ls[d + 1].path)
          /\ \A p \in DOMAIN counted : \E e \in first : e.path = p
      BY <2>1, <2>2 DEF counted
    <3>3. CanPut(cs, ls, first, counted, d + 1, c + 2, key, value, "map", counted)
      BY <1>5, <2>1, <2>3, <3>1, <3>2 DEF CanPut
    <3> QED
      BY <3>3, FitsAfter
  <2> QED
    BY <2>3, <2>4 DEF counted
<1> DEFINE cs2 == LeftOpen(cs, d + 1, c + 2, "map", at, value)
           ls2 == LevelsAfter(ls, d + 1, c + 2, at, value)
           tree2 == first \cup {Catalogue!Entry(at, value)}
           counted2 == Recounted(items, path)
<1>13. /\ containers' = cs2 /\ levels' = ls2 /\ written' = tree2 /\ items' = counted2 /\ tree' = tree2
       /\ cs2 \in Seq(ContainerSet) /\ ls2 \in Seq(LevelSet) /\ Fits(cs2, ls2, tree2, counted2)
  BY <1>10, <1>11, <1>12
<1>14. block' # -1 => /\ containers'[Len(containers')].kind = "map"
                      /\ containers'[Len(containers')].column = block'
  <2> SUFFICES ASSUME value = "block" PROVE cs2[Len(cs2)].kind = "map" /\ cs2[Len(cs2)].column = c + 2
    BY <1>2, <1>13
  <2>1. Len(cs2) = d + 1 /\ cs2[d + 1] = Catalogue!Container(cs[d + 1].path, c + 2, "map")
    <3> HIDE DEF cs2, cs, ls, at
    <3> QED
      BY <1>12 DEF CutTo, cs2
  <2> HIDE DEF cs2, cs
  <2> QED
    BY <2>1 DEF Catalogue!Container
<1>15. \A p \in DOMAIN items' : items'[p] \in Nat
  <2>1. \A p \in DOMAIN items \cup {path} :
          (IF p \in DOMAIN items THEN items[p] ELSE 0) + (IF p = path THEN 1 ELSE 0) \in Nat
    BY <1>5
  <2> QED
    BY <1>10, <2>1 DEF Recounted
<1>16. skip_deeper_than' = block' /\ block' \in Int
  BY <1>2, <1>5, <1>10
<1> HIDE DEF cs2, ls2, tree2, counted2
<1> QED
  BY <1>13, <1>14, <1>15, <1>16 DEF CatalogueInv, ContainerSet, LevelSet

\* A line of a block scalar, written and passed over.
LEMMA BlockWritten == CatalogueInv /\ Catalogue!WriteBlock => CatalogueInv'
<1> SUFFICES ASSUME CatalogueInv, Catalogue!WriteBlock PROVE CatalogueInv'
  OBVIOUS
<1>1. /\ block # -1 /\ UNCHANGED <<containers, written, block>>
      /\ \E indent \in (block + 1)..MaxColumn, one \in BOOLEAN, key \in Keys, value \in Catalogue!Values :
           Catalogue!Read(Catalogue!Text(indent, one, key, value))
  BY DEF Catalogue!WriteBlock, Catalogue!None
<1>2. PICK indent \in (block + 1)..MaxColumn, one \in BOOLEAN, key \in Keys, value \in Catalogue!Values :
        Catalogue!Read(Catalogue!Text(indent, one, key, value))
  BY <1>1
<1> DEFINE line == Catalogue!Text(indent, one, key, value)
<1>3. line.indent = indent
  BY DEF Catalogue!Text
<1>4. indent > block /\ skip_deeper_than = block
  BY MappingsAreDeeper DEF CatalogueInv
<1> HIDE DEF line
<1>5. Catalogue!InBlock(line)
  BY <1>1, <1>3, <1>4 DEF Catalogue!InBlock, Catalogue!None
<1>6. UNCHANGED <<levels, tree, skip_deeper_than, items>>
  BY <1>2, <1>5 DEF Catalogue!Read, Catalogue!reader, line
<1> QED
  BY <1>1, <1>6 DEF CatalogueInv

\* Every line keeps the invariant.
LEMMA CatalogueStep == CatalogueInv /\ [Catalogue!Next]_catalogue_vars => CatalogueInv'
<1>1. CatalogueInv /\ UNCHANGED catalogue_vars => CatalogueInv'
  BY DEF catalogue_vars, CatalogueInv
<1> QED
  BY <1>1, KeyWritten, ItemWritten, BlockWritten DEF Catalogue!Next

\* The tree is what was written, and the stack is in it.
LEMMA CatalogueSafe == CatalogueInv => Catalogue!Safe
<1> SUFFICES ASSUME CatalogueInv PROVE Catalogue!Safe
  OBVIOUS
<1>1. /\ Len(levels) \in Nat /\ Len(levels) >= 1 /\ Len(levels) = Len(containers) /\ tree = written
      /\ \A a, b \in 1..Len(levels) : a < b => levels[a].indent < levels[b].indent
      /\ \A d \in 1..Len(levels) : LevelFits(containers, levels, written, items, d)
  BY DEF CatalogueInv, Fits
<1>2. levels[1] = Catalogue!Level(-1, <<>>)
  BY <1>1 DEF LevelFits
<1>3. ASSUME NEW d \in 2..Len(levels)
      PROVE  levels[d - 1].indent < levels[d].indent /\ Catalogue!Entry(levels[d].path, "open") \in tree
  <2>1. d \in 1..Len(levels) /\ d - 1 \in 1..Len(levels) /\ d - 1 < d /\ d # 1
    BY <1>1
  <2> QED
    BY <1>1, <2>1 DEF LevelFits
<1> QED
  BY <1>1, <1>2, <1>3 DEF Catalogue!Safe, Catalogue!TypeOK, Catalogue!ReadsAsWritten

\* Whatever catalogue is written, of any lines as deep and as many as they may
\* be: what is read of it is what was written, line by line.
THEOREM CatalogueTold == ToolsSpec => []CatalogueReadAsWritten
<1>1. Start => CatalogueInv
  BY CatalogueInit DEF Start
<1>2. CatalogueInv /\ [Step]_all => CatalogueInv'
  <2> SUFFICES ASSUME CatalogueInv, [Step]_all PROVE CatalogueInv'
    OBVIOUS
  <2>1. [Catalogue!Next]_catalogue_vars
    <3>1. CASE LayOut BY <3>1 DEF LayOut
    <3>2. CASE WalkQuery BY <3>2 DEF WalkQuery
    <3>3. CASE ReadPipelines BY <3>3 DEF ReadPipelines
    <3>4. CASE LintCloud BY <3>4 DEF LintCloud
    <3>5. CASE LintLocal BY <3>5 DEF LintLocal
    <3>6. CASE LintRules BY <3>6 DEF LintRules
    <3>7. CASE LintTheFiles BY <3>7 DEF LintTheFiles
    <3>8. CASE ReadCatalogue BY <3>8 DEF ReadCatalogue
    <3>9. CASE UNCHANGED all BY <3>9 DEF all
    <3> QED BY <3>1, <3>2, <3>3, <3>4, <3>5, <3>6, <3>7, <3>8, <3>9 DEF Step
  <2> QED BY <2>1, CatalogueStep
<1>3. CatalogueInv => CatalogueReadAsWritten BY CatalogueSafe DEF CatalogueReadAsWritten
<1> QED BY <1>1, <1>2, <1>3, PTL DEF ToolsSpec

-----------------------------------------------------------------------------
(* The panels of a dashboard *)

\* A set of numbers has a least.
LEMMA LeastIn ==
  ASSUME NEW S, S \subseteq Nat, S # {}
  PROVE  \E m \in S : \A s \in S : m <= s
<1>1. PICK m \in S : \A s \in S : ~(<<s, m>> \in OpToRel(<, Nat))
  BY NatLessThanWellFounded, WFMin, Zenon
<1>2. \A s \in S : s \in Nat /\ m \in Nat /\ ~(s < m)
  BY <1>1 DEF OpToRel
<1>3. \A s \in S : m <= s
  BY <1>2
<1> QED
  BY <1>3

\* The first k of some sequences, joined one by one.
Joined(seqs, g, k) ==
  /\ DOMAIN g = 1..k
  /\ \A i \in 1..k : g[i] = IF i = 1 THEN seqs[i] ELSE g[i - 1] \o seqs[i]

\* They can be joined.
LEMMA JoinedExists ==
  ASSUME NEW seqs, Len(seqs) \in Nat
  PROVE  \E g : Joined(seqs, g, Len(seqs))
<1> DEFINE L == Len(seqs)
           Failing == {k \in 0..L : ~\E g : Joined(seqs, g, k)}
<1>1. Failing = {}
  <2> SUFFICES ASSUME Failing # {} PROVE FALSE
    OBVIOUS
  <2>1. PICK k \in Failing : \A j \in Failing : k <= j
    <3>1. Failing \subseteq Nat
      OBVIOUS
    <3> HIDE DEF Failing
    <3> QED
      BY <3>1, LeastIn
  <2>2. k # 0
    <3> SUFFICES ASSUME k = 0 PROVE FALSE
      OBVIOUS
    <3>1. Joined(seqs, [n \in 1..0 |-> 0], 0)
      BY DEF Joined
    <3> QED
      BY <3>1, <2>1
  <2>3. k \in 1..L /\ k - 1 \in 0..L /\ ~(k <= k - 1)
    BY <2>1, <2>2
  <2>4. PICK g : Joined(seqs, g, k - 1)
    BY <2>1, <2>3
  <2> DEFINE h == [n \in 1..k |-> IF n # k THEN g[n] ELSE IF k = 1 THEN seqs[k] ELSE g[k - 1] \o seqs[k]]
  <2>5. DOMAIN h = 1..k
    OBVIOUS
  <2>6. \A i \in 1..k : h[i] = IF i = 1 THEN seqs[i] ELSE h[i - 1] \o seqs[i]
    <3> SUFFICES ASSUME NEW i \in 1..k PROVE h[i] = IF i = 1 THEN seqs[i] ELSE h[i - 1] \o seqs[i]
      OBVIOUS
    <3>1. CASE i = k
      BY <2>3, <3>1
    <3>2. CASE i # k
      <4>1. i \in 1..(k - 1) /\ h[i] = g[i] /\ (i # 1 => i - 1 \in 1..k /\ i - 1 # k /\ h[i - 1] = g[i - 1])
        BY <2>3, <3>2
      <4>2. g[i] = IF i = 1 THEN seqs[i] ELSE g[i - 1] \o seqs[i]
        BY <4>1, <2>4 DEF Joined
      <4> HIDE DEF h
      <4> QED
        BY <4>1, <4>2
    <3> QED
      BY <3>1, <3>2
  <2>7. Joined(seqs, h, k)
    <3> HIDE DEF h
    <3> QED
      BY <2>5, <2>6 DEF Joined
  <2> QED
    BY <2>7, <2>1
<1>2. L \in 0..L
  OBVIOUS
<1> QED
  BY <1>1, <1>2

\* Sequences of a set joined make one.
LEMMA JoinedIs ==
  ASSUME NEW S, NEW seqs \in Seq(Seq(S)), NEW g, Joined(seqs, g, Len(seqs))
  PROVE  \A k \in 1..Len(seqs) : g[k] \in Seq(S)
<1> DEFINE L == Len(seqs)
           Failing == {k \in 1..L : g[k] \notin Seq(S)}
<1>0. L \in Nat /\ \A k \in 1..L : seqs[k] \in Seq(S)
  OBVIOUS
<1>1. Failing = {}
  <2> SUFFICES ASSUME Failing # {} PROVE FALSE
    OBVIOUS
  <2>1. PICK k \in Failing : \A j \in Failing : k <= j
    <3>1. Failing \subseteq Nat
      BY <1>0
    <3> HIDE DEF Failing
    <3> QED
      BY <3>1, LeastIn
  <2>2. k \in 1..L /\ g[k] = (IF k = 1 THEN seqs[k] ELSE g[k - 1] \o seqs[k]) /\ seqs[k] \in Seq(S)
    BY <1>0, <2>1 DEF Joined
  <2>3. k # 1 => g[k - 1] \in Seq(S)
    <3>1. k # 1 => k - 1 \in 1..L /\ ~(k <= k - 1)
      BY <1>0, <2>2
    <3> QED
      BY <2>1, <3>1
  <2>4. g[k] \in Seq(S)
    BY <2>2, <2>3
  <2> QED
    BY <2>1, <2>4
<1> QED
  BY <1>1

\* What FlattenSeq makes of them.
Flat(seqs) ==
  IF Len(seqs) = 0 THEN seqs
  ELSE (CHOOSE g : g = [i \in 1..Len(seqs) |-> IF i = 1 THEN seqs[i] ELSE g[i - 1] \o seqs[i]])[Len(seqs)]

\* Sequences of some elements, joined, are a sequence of them.
LEMMA FlatIs ==
  ASSUME NEW S, NEW seqs \in Seq(Seq(S))
  PROVE  Flat(seqs) \in Seq(S)
<1>0. Len(seqs) \in Nat
  OBVIOUS
<1>1. CASE Len(seqs) = 0
  BY <1>1 DEF Flat
<1>2. CASE Len(seqs) # 0
  <2> DEFINE F(g) == [i \in 1..Len(seqs) |-> IF i = 1 THEN seqs[i] ELSE g[i - 1] \o seqs[i]]
             C == CHOOSE g : g = F(g)
  <2>0. PICK g : Joined(seqs, g, Len(seqs))
    BY <1>0, JoinedExists
  <2>00. PICK f : f = [n \in 1..Len(seqs) |-> g[n]]
    OBVIOUS
  <2>1. f = F(f)
    <3>1. \A i \in 1..Len(seqs) : f[i] = IF i = 1 THEN seqs[i] ELSE f[i - 1] \o seqs[i]
      <4> SUFFICES ASSUME NEW i \in 1..Len(seqs) PROVE f[i] = IF i = 1 THEN seqs[i] ELSE f[i - 1] \o seqs[i]
        OBVIOUS
      <4>1. i # 1 => i - 1 \in 1..Len(seqs)
        BY <1>0
      <4>2. g[i] = IF i = 1 THEN seqs[i] ELSE g[i - 1] \o seqs[i]
        BY <2>0 DEF Joined
      <4> QED
        BY <2>00, <4>1, <4>2
    <3> QED
      BY <2>00, <3>1
  <2>2. C = F(C)
    BY <2>1, Zenon
  <2>3. Joined(seqs, C, Len(seqs))
    <3> HIDE DEF C
    <3> QED
      BY <2>2 DEF Joined
  <2>4. Flat(seqs) = C[Len(seqs)]
    BY <1>2 DEF Flat
  <2> HIDE DEF C
  <2>5. Len(seqs) \in 1..Len(seqs)
    BY <1>0, <1>2
  <2> QED
    BY <2>3, <2>4, <2>5, JoinedIs
<1> QED
  BY <1>1, <1>2

\* The panels of a dashboard, in order.
LEMMA PanelsAre ==
  ASSUME NEW page, IsPage(page)
  PROVE  Flat([k \in DOMAIN page.panels |-> <<page.panels[k]>> \o page.panels[k].panels]) \in Seq(PanelsOf(page))
<1> DEFINE list == page.panels
           seqs == [k \in DOMAIN list |-> <<list[k]>> \o list[k].panels]
<1>0. list \in Seq({list[k] : k \in DOMAIN list})
  BY DEF IsPage, IsList
<1>1. Len(list) \in Nat /\ DOMAIN list = 1..Len(list)
  BY <1>0
<1>2. ASSUME NEW k \in DOMAIN list PROVE <<list[k]>> \o list[k].panels \in Seq(PanelsOf(page))
  <2> DEFINE inner == list[k].panels
  <2>1. inner \in Seq({inner[j] : j \in DOMAIN inner})
    BY <1>2 DEF IsPage, IsList
  <2>2. {inner[j] : j \in DOMAIN inner} \subseteq PanelsOf(page) /\ list[k] \in PanelsOf(page)
    BY <1>2 DEF PanelsOf
  <2>3. inner \in Seq(PanelsOf(page))
    <3> HIDE DEF inner
    <3>1. \A i \in 1..Len(inner) : inner[i] \in PanelsOf(page)
      BY <2>1, <2>2
    <3> QED
      BY <2>1, <3>1
  <2> QED
    BY <2>2, <2>3
<1>3. seqs \in Seq(Seq(PanelsOf(page)))
  BY <1>1, <1>2
<1> QED
  BY <1>3, FlatIs

\* And a greatest, if it is bounded.
LEMMA LastIn ==
  ASSUME NEW S, S \subseteq Nat, S # {}, NEW N \in Nat, \A s \in S : s <= N
  PROVE  \E m \in S : \A s \in S : s <= m
<1>1. Max(S) \in S /\ \A s \in S : s <= Max(S)
  BY HighestOf
<1> QED
  BY <1>1

-----------------------------------------------------------------------------
(* LocalLint *)

\* The panels that are read are the dashboard's.
LEMMA LocalPanels ==
  ASSUME local \in LocalDashboards
  PROVE  /\ Local!panels \in Seq(PanelsOf(local))
         /\ Len(Local!panels) \in Nat /\ DOMAIN Local!panels = 1..Len(Local!panels)
         /\ \A k \in DOMAIN Local!panels : Local!panels[k] \in PanelsOf(local)
<1> DEFINE seqs == [k \in DOMAIN local.panels |-> <<local.panels[k]>> \o local.panels[k].panels]
<1>1. Local!panels = Flat(seqs)
  BY DEF Local!panels, Local!FlattenSeq, Flat
<1>2. Flat(seqs) \in Seq(PanelsOf(local))
  BY LocalPagesAreWhole, PanelsAre
<1> HIDE DEF seqs
<1> QED
  BY <1>1, <1>2

\* What an annotation that was let through may be.
AnnotationFine(ann) ==
  /\ ann.names \subseteq LOCAL_LABELS \ FORBIDDEN
  /\ ~Local!Fails(Local!ds_type(ann.ds, Local!None), ann.expr)
  /\ ~Local!Fails(Local!ds_type(ann.target.ds, Local!ds_type(ann.ds, Local!None)), ann.target.expr)

\* The inductive invariant: while nothing is wrong, what was read so far is fine.
LocalInv ==
  /\ local \in LocalDashboards /\ Local!TypeOK
  /\ local_errors = {} =>
       /\ \A k \in 1..(annotation - 1) : AnnotationFine(local.annotations[k])
       /\ \A k \in 1..(local_panel - 1) : Local!PanelErrors(Local!panels[k]) = {}

\* How many annotations there are.
LEMMA AnnotationsAre ==
  ASSUME local \in LocalDashboards
  PROVE  Len(local.annotations) \in Nat /\ DOMAIN local.annotations = 1..Len(local.annotations)
<1>1. IsList(local.annotations)
  BY LocalPagesAreWhole
<1> QED
  BY <1>1 DEF IsList

\* No annotation or panel is read at first.
LEMMA LocalInit == Local!Init => LocalInv
<1> SUFFICES ASSUME Local!Init PROVE LocalInv
  OBVIOUS
<1>1. local \in LocalDashboards /\ annotation = 1 /\ local_panel = 1
  BY DEF Local!Init
<1> QED
  BY <1>1, LocalPanels, AnnotationsAre DEF LocalInv, Local!TypeOK

\* Reading one more keeps the invariant.
LEMMA LocalStep == LocalInv /\ [Local!Next]_local_vars => LocalInv'
<1> SUFFICES ASSUME LocalInv, [Local!Next]_local_vars PROVE LocalInv'
  OBVIOUS
<1>0. /\ local \in LocalDashboards
      /\ Len(local.annotations) \in Nat /\ DOMAIN local.annotations = 1..Len(local.annotations)
      /\ Len(Local!panels) \in Nat /\ DOMAIN Local!panels = 1..Len(Local!panels)
  BY LocalPanels, AnnotationsAre DEF LocalInv
<1>1. CASE Local!Annotation
  <2> DEFINE ann == local.annotations[annotation]
             rules == [forbidden |-> ann.names \cap FORBIDDEN # {},
                       query     |-> \/ Local!Fails(Local!ds_type(ann.ds, Local!None), ann.expr)
                                     \/ Local!Fails(Local!ds_type(ann.target.ds, Local!ds_type(ann.ds, Local!None)),
                                                    ann.target.expr),
                       label     |-> Local!Unlisted(ann.names)]
  <2>1. /\ annotation \in DOMAIN local.annotations /\ local_errors' = local_errors \cup Local!Broken(rules)
        /\ annotation' = annotation + 1 /\ UNCHANGED <<local, local_panel>>
    BY <1>1 DEF Local!Annotation
  <2>2. Local!panels' = Local!panels
    BY <2>1 DEF Local!panels
  <2>3. Local!Broken(rules) = {} => AnnotationFine(ann)
    <3> SUFFICES ASSUME Local!Broken(rules) = {} PROVE AnnotationFine(ann)
      OBVIOUS
    <3>1. ~rules["forbidden"] /\ ~rules["query"] /\ ~rules["label"]
      BY DEF Local!Broken
    <3>2. ann.names \cap FORBIDDEN = {} /\ ~Local!Unlisted(ann.names)
      BY <3>1
    <3>3. /\ ~Local!Fails(Local!ds_type(ann.ds, Local!None), ann.expr)
          /\ ~Local!Fails(Local!ds_type(ann.target.ds, Local!ds_type(ann.ds, Local!None)), ann.target.expr)
      BY <3>1
    <3> QED
      BY <3>2, <3>3 DEF AnnotationFine, Local!Unlisted
  <2>4. Local!TypeOK'
    BY <1>0, <2>1, <2>2 DEF LocalInv, Local!TypeOK
  <2>5. ASSUME local_errors' = {}, NEW k \in 1..(annotation' - 1) PROVE AnnotationFine(local.annotations[k])
    <3>1. local_errors = {} /\ Local!Broken(rules) = {}
      BY <2>1, <2>5
    <3>2. CASE k = annotation
      BY <2>3, <3>1, <3>2
    <3>3. CASE k # annotation
      <4>1. k \in 1..(annotation - 1)
        BY <1>0, <2>1, <2>5, <3>3
      <4> QED
        BY <3>1, <4>1 DEF LocalInv
    <3> QED
      BY <3>2, <3>3
  <2>6. ASSUME local_errors' = {}, NEW k \in 1..(local_panel' - 1) PROVE Local!PanelErrors(Local!panels[k]) = {}
    BY <2>1, <2>6 DEF LocalInv
  <2>7. ASSUME NEW k PROVE AnnotationFine(local.annotations[k])' <=> AnnotationFine(local.annotations[k])
    BY <2>1 DEF AnnotationFine
  <2>8. ASSUME NEW k, k' = k PROVE Local!PanelErrors(Local!panels[k])' = Local!PanelErrors(Local!panels[k])
    BY <2>2, <2>8
  <2> QED
    BY <1>0, <2>1, <2>2, <2>4, <2>5, <2>6 DEF LocalInv
<1>2. CASE Local!Panel
  <2>1. /\ annotation \notin DOMAIN local.annotations /\ local_panel \in DOMAIN Local!panels
        /\ local_errors' = local_errors \cup Local!PanelErrors(Local!panels[local_panel])
        /\ local_panel' = local_panel + 1 /\ UNCHANGED <<local, annotation>>
    BY <1>2 DEF Local!Panel
  <2>2. Local!panels' = Local!panels
    BY <2>1 DEF Local!panels
  <2>3. Local!TypeOK'
    BY <1>0, <2>1, <2>2 DEF LocalInv, Local!TypeOK
  <2>4. ASSUME local_errors' = {}, NEW k \in 1..(local_panel' - 1) PROVE Local!PanelErrors(Local!panels[k]) = {}
    <3>1. local_errors = {} /\ Local!PanelErrors(Local!panels[local_panel]) = {}
      BY <2>1, <2>4
    <3>2. CASE k # local_panel
      <4>1. k \in 1..(local_panel - 1)
        BY <1>0, <2>1, <2>4, <3>2
      <4> QED
        BY <3>1, <4>1 DEF LocalInv
    <3> QED
      BY <3>1, <3>2
  <2>5. local_errors' = {} => \A k \in 1..(annotation' - 1) : AnnotationFine(local.annotations[k])
    BY <2>1 DEF LocalInv
  <2> QED
    BY <1>0, <2>1, <2>2, <2>3, <2>4, <2>5 DEF LocalInv
<1>3. CASE UNCHANGED local_vars
  <2>1. UNCHANGED <<local, annotation, local_panel, local_errors>>
    BY <1>3 DEF local_vars
  <2>2. Local!panels' = Local!panels
    BY <2>1 DEF Local!panels
  <2> QED
    BY <2>1, <2>2 DEF LocalInv, Local!TypeOK
<1> QED
  BY <1>1, <1>2, <1>3 DEF Local!Next

\* A query that names its datasource, or leaves it to one that its panel names,
\* is taken for what that is.
LEMMA KindIsSent ==
  ASSUME NEW ref, NEW outer, Local!Own(ref) \/ Local!Own(outer)
  PROVE  LET kind == Local!ds_type(ref, Local!ds_type(outer, Local!None))
             sent == Local!Sent(ref, outer)
         IN  sent \in LOCAL_UIDS \cup {"__expr__"} => kind = sent
<1> DEFINE None == Local!None
<1>0. LOCAL_UIDS \subseteq {"prometheus", "loki"} /\ None = "None"
  BY LocalPagesAreWhole DEF Local!None
<1>1. ASSUME NEW r, NEW fallback, Local!Own(r), Local!Goes(r) \in LOCAL_UIDS \cup {"__expr__"}
      PROVE  Local!ds_type(r, fallback) = Local!Goes(r)
  <2>1. CASE r.uid # None
    BY <1>0, <1>1, <2>1 DEF Local!ds_type, Local!Goes, Local!None, Local!NO_QUERY_UIDS
  <2>2. CASE r.uid = None
    BY <1>0, <1>1, <2>2
    DEF Local!ds_type, Local!Goes, Local!Own, Local!Names, Local!None, Local!NO_QUERY_UIDS, Local!BUILTIN_UIDS
  <2> QED
    BY <2>1, <2>2
<1>2. ASSUME NEW fallback, ~Local!Own(ref) PROVE Local!ds_type(ref, fallback) = fallback
  BY <1>0, <1>2
  DEF Local!ds_type, Local!Own, Local!Names, Local!None, Local!NO_QUERY_UIDS, Local!BUILTIN_UIDS
<1>3. CASE Local!Own(ref)
  BY <1>1, <1>3 DEF Local!Sent
<1>4. CASE ~Local!Own(ref)
  BY <1>1, <1>2, <1>4 DEF Local!Sent
<1> QED
  BY <1>3, <1>4

\* What a panel with no errors is.
LEMMA PanelWithout ==
  ASSUME NEW panel, Local!PanelErrors(panel) = {}
  PROVE  /\ panel.names \cap FORBIDDEN = {} /\ panel.labels \subseteq LOCAL_LABELS
         /\ ~panel.library /\ panel.type # "logs"
         /\ \A j \in DOMAIN panel.targets :
              LET t    == panel.targets[j]
                  kind == Local!ds_type(t.ds, Local!ds_type(panel.ds, Local!None))
              IN  /\ kind = "__expr__" => t.type \in Local!EXPRESSION_TYPES
                  /\ ~Local!Fails(kind, t.expr)
                  /\ kind \in {"prometheus", "loki"} => t.legend \subseteq LOCAL_LABELS
<1> DEFINE rules == [forbidden |-> panel.names \cap FORBIDDEN # {}, library |-> panel.library,
                     logs |-> panel.type = "logs", label |-> Local!Unlisted(panel.labels)]
<1>1. Local!Broken(rules) = {} /\ \A j \in DOMAIN panel.targets : Local!TargetErrors(panel.targets[j], panel) = {}
  <2> DEFINE each == {Local!TargetErrors(panel.targets[j], panel) : j \in DOMAIN panel.targets}
  <2>1. Local!PanelErrors(panel) = (UNION each) \cup Local!Broken(rules)
    BY Zenon DEF Local!PanelErrors
  <2>2. \A j \in DOMAIN panel.targets : Local!TargetErrors(panel.targets[j], panel) \in each
    OBVIOUS
  <2> HIDE DEF each, rules
  <2>3. ASSUME NEW T \in each PROVE T = {}
    BY <2>1, <2>3
  <2> QED
    BY <2>1, <2>2, <2>3
<1>2. ~rules["forbidden"] /\ ~rules["library"] /\ ~rules["logs"] /\ ~rules["label"]
  BY <1>1, Zenon DEF Local!Broken
<1>3. ASSUME NEW j \in DOMAIN panel.targets
      PROVE  LET t    == panel.targets[j]
                 kind == Local!ds_type(t.ds, Local!ds_type(panel.ds, Local!None))
             IN  /\ kind = "__expr__" => t.type \in Local!EXPRESSION_TYPES
                 /\ ~Local!Fails(kind, t.expr)
                 /\ kind \in {"prometheus", "loki"} => t.legend \subseteq LOCAL_LABELS
  <2> DEFINE t    == panel.targets[j]
             kind == Local!ds_type(t.ds, Local!ds_type(panel.ds, Local!None))
             asked == [expression |-> kind = "__expr__" /\ t.type \notin Local!EXPRESSION_TYPES,
                       query      |-> Local!Fails(kind, t.expr),
                       legend     |-> kind \in {"prometheus", "loki"} /\ Local!Unlisted(t.legend)]
  <2>1. Local!Broken(asked) = {}
    BY <1>1 DEF Local!TargetErrors
  <2> HIDE DEF kind
  <2>2. ~asked["expression"] /\ ~asked["query"] /\ ~asked["legend"]
    BY <2>1 DEF Local!Broken
  <2>3. ~(kind = "__expr__" /\ t.type \notin Local!EXPRESSION_TYPES) /\ ~Local!Fails(kind, t.expr)
    BY <2>2
  <2>4. ~(kind \in {"prometheus", "loki"} /\ Local!Unlisted(t.legend))
    BY <2>2
  <2>5. kind \in {"prometheus", "loki"} => t.legend \subseteq LOCAL_LABELS
    BY <2>4 DEF Local!Unlisted
  <2> USE DEF kind
  <2> QED
    BY <2>3, <2>5
<1>4. panel.names \cap FORBIDDEN = {} /\ panel.type # "logs" /\ ~Local!Unlisted(panel.labels)
  BY <1>2
<1>5. ~panel.library
  BY <1>2, Zenon
<1>6. panel.labels \subseteq LOCAL_LABELS
  BY <1>4 DEF Local!Unlisted
<1> QED
  BY <1>3, <1>4, <1>5, <1>6

\* What an accepted local dashboard asks and shows.
LEMMA LocalSafe == LocalInv => Local!Safe
<1> SUFFICES ASSUME LocalInv, Local!Accepted PROVE Local!EveryQueryJudged /\ Local!NothingUnlisted
  BY DEF Local!Safe, LocalInv, Local!EveryQueryJudged, Local!NothingUnlisted
<1>0. /\ local \in LocalDashboards
      /\ Len(local.annotations) \in Nat /\ DOMAIN local.annotations = 1..Len(local.annotations)
      /\ Len(Local!panels) \in Nat /\ DOMAIN Local!panels = 1..Len(Local!panels)
  BY LocalPanels, AnnotationsAre DEF LocalInv
<1>1. /\ \A k \in DOMAIN local.annotations : AnnotationFine(local.annotations[k])
      /\ \A k \in DOMAIN Local!panels : Local!PanelErrors(Local!panels[k]) = {}
  <2>1. annotation \notin DOMAIN local.annotations /\ local_panel \notin DOMAIN Local!panels /\ local_errors = {}
    BY DEF Local!Accepted, Local!Done
  <2>2. annotation \in 1..(Len(local.annotations) + 1) /\ local_panel \in 1..(Len(Local!panels) + 1)
    BY DEF LocalInv, Local!TypeOK
  <2>3. annotation - 1 = Len(local.annotations) /\ local_panel - 1 = Len(Local!panels)
    BY <1>0, <2>1, <2>2
  <2> QED
    BY <1>0, <2>1, <2>3 DEF LocalInv
<1>2. LOCAL_UIDS \subseteq {"prometheus", "loki"}
  BY LocalPagesAreWhole
<1>4. ASSUME NEW k \in DOMAIN Local!panels, NEW j \in DOMAIN Local!panels[k].targets
      PROVE  LET t    == Local!panels[k].targets[j]
                 sent == Local!Sent(t.ds, Local!panels[k].ds)
             IN  /\ sent \in LOCAL_UIDS /\ Local!Addressed(t.ds, Local!panels[k].ds) =>
                      t.expr # "bad" /\ t.legend \subseteq LOCAL_LABELS
                 /\ sent = "__expr__" => t.type \in Local!EXPRESSION_TYPES
  <2> DEFINE panel == Local!panels[k]
             t    == panel.targets[j]
             kind == Local!ds_type(t.ds, Local!ds_type(panel.ds, Local!None))
             sent == Local!Sent(t.ds, panel.ds)
             addressed == Local!Addressed(t.ds, panel.ds)
  <2>1. /\ addressed /\ sent \in LOCAL_UIDS \cup {"__expr__"} => kind = sent
        /\ sent = "__expr__" => addressed
    <3>1. addressed => (sent \in LOCAL_UIDS \cup {"__expr__"} => kind = sent)
      BY KindIsSent DEF Local!Addressed
    <3>2. ~addressed => sent = Default
      BY DEF Local!Addressed, Local!Sent
    <3>3. Default # "__expr__"
      BY <1>2, LocalPagesAreWhole
    <3> QED
      BY <3>1, <3>2, <3>3
  <2>2. Local!PanelErrors(panel) = {}
    BY <1>1, <1>4
  <2> HIDE DEF panel
  <2>2a. j \in DOMAIN panel.targets
    BY <1>4 DEF panel
  <2>3. /\ kind = "__expr__" => t.type \in Local!EXPRESSION_TYPES
        /\ ~Local!Fails(kind, t.expr)
        /\ kind \in {"prometheus", "loki"} => t.legend \subseteq LOCAL_LABELS
    BY <2>2, <2>2a, PanelWithout
  <2> HIDE DEF kind, sent, t, addressed
  <2>4. /\ sent \in LOCAL_UIDS /\ addressed => t.expr # "bad" /\ t.legend \subseteq LOCAL_LABELS
        /\ sent = "__expr__" => t.type \in Local!EXPRESSION_TYPES
    BY <1>2, <2>1, <2>3 DEF Local!Fails
  <2> USE DEF kind, sent, t, panel, addressed
  <2> QED
    BY <2>4
<1>5. ASSUME NEW k \in DOMAIN local.annotations
      PROVE  LET ann == local.annotations[k] IN
             /\ Local!Sent(ann.ds, ann.ds) \in LOCAL_UIDS /\ Local!Own(ann.ds) => ann.expr # "bad"
             /\ Local!Sent(ann.target.ds, ann.ds) \in LOCAL_UIDS /\ Local!Addressed(ann.target.ds, ann.ds) =>
                  ann.target.expr # "bad"
             /\ ann.names \subseteq LOCAL_LABELS \ FORBIDDEN
  <2> DEFINE ann == local.annotations[k]
             kind == Local!ds_type(ann.ds, Local!None)
             below == Local!ds_type(ann.target.ds, kind)
  <2>2. AnnotationFine(ann)
    BY <1>1, <1>5
  <2>3. Local!Addressed(ann.target.ds, ann.ds) /\ Local!Sent(ann.target.ds, ann.ds) \in LOCAL_UIDS =>
          below = Local!Sent(ann.target.ds, ann.ds)
    BY KindIsSent DEF Local!Addressed
  <2>4. Local!Own(ann.ds) /\ Local!Sent(ann.ds, ann.ds) \in LOCAL_UIDS => kind = Local!Sent(ann.ds, ann.ds)
    <3>1. Local!ds_type(ann.ds, kind) = kind
      BY DEF Local!ds_type
    <3> QED
      BY <3>1, KindIsSent
  <2> QED
    BY <1>2, <2>2, <2>3, <2>4 DEF AnnotationFine, Local!Fails
<1>6. Local!EveryQueryJudged
  BY <1>4, <1>5 DEF Local!EveryQueryJudged, Local!ToSet
<1>7. Local!NothingUnlisted
  <2>1. \A k \in DOMAIN Local!panels :
          /\ Local!panels[k].names \cap FORBIDDEN = {} /\ Local!panels[k].labels \subseteq LOCAL_LABELS
          /\ ~Local!panels[k].library /\ Local!panels[k].type # "logs"
    BY <1>1, PanelWithout
  <2> QED
    BY <2>1, <1>4, <1>5 DEF Local!NothingUnlisted, Local!ToSet, Local!Unlisted
<1> QED
  BY <1>6, <1>7

-----------------------------------------------------------------------------
(* CloudLint *)

\* The instance's sets, sizes and sequences are those of the modules it takes.
LEMMA CloudSame ==
  /\ \A S : Cloud!IsFiniteSet(S) <=> IsFiniteSet(S)
  /\ \A S : Cloud!Cardinality(S) = Cardinality(S)
<1>1. ASSUME NEW S PROVE Cloud!IsFiniteSet(S) <=> IsFiniteSet(S)
  BY DEF Cloud!IsFiniteSet, IsFiniteSet
<1>2. ASSUME NEW S PROVE Cloud!Cardinality(S) = Cardinality(S)
  BY DEF Cloud!Cardinality, Cardinality, Cloud!IsFiniteSet, IsFiniteSet
<1> QED
  BY <1>1, <1>2

\* The panels that are read are the dashboard's, and each has a list of queries.
LEMMA CloudPanels ==
  ASSUME cloud \in CloudDashboards
  PROVE  /\ Len(Cloud!panels) \in Nat /\ DOMAIN Cloud!panels = 1..Len(Cloud!panels)
         /\ \A k \in DOMAIN Cloud!panels :
              LET targets == Cloud!panels[k].targets
              IN  /\ Len(targets) \in Nat /\ DOMAIN targets = 1..Len(targets)
                  /\ (targets = <<>> <=> Len(targets) = 0)
<1> DEFINE seqs == [k \in DOMAIN cloud.panels |-> <<cloud.panels[k]>> \o cloud.panels[k].panels]
<1>1. Cloud!panels = Flat(seqs)
  BY DEF Cloud!panels, Cloud!FlattenSeq, Flat
<1>2. Flat(seqs) \in Seq(PanelsOf(cloud))
  BY CloudPagesAreWhole, PanelsAre
<1> HIDE DEF seqs
<1>3. /\ Len(Cloud!panels) \in Nat /\ DOMAIN Cloud!panels = 1..Len(Cloud!panels)
      /\ \A k \in DOMAIN Cloud!panels : Cloud!panels[k] \in PanelsOf(cloud)
  BY <1>1, <1>2
<1>4. ASSUME NEW k \in DOMAIN Cloud!panels
      PROVE  LET targets == Cloud!panels[k].targets
             IN  /\ Len(targets) \in Nat /\ DOMAIN targets = 1..Len(targets)
                 /\ (targets = <<>> <=> Len(targets) = 0)
  <2> DEFINE targets == Cloud!panels[k].targets
  <2>1. IsList(targets)
    BY <1>3, <1>4, CloudPagesAreWhole
  <2> HIDE DEF targets
  <2>2. targets \in Seq({targets[j] : j \in DOMAIN targets})
    BY <2>1 DEF IsList
  <2>3. /\ Len(targets) \in Nat /\ DOMAIN targets = 1..Len(targets)
        /\ (targets = <<>> <=> Len(targets) = 0)
    BY <2>2
  <2> USE DEF targets
  <2> QED
    BY <2>3
<1> QED
  BY <1>3, <1>4

\* What a panel that was let through may be.
CloudPanelFine(panel) ==
  /\ panel.type \in {"row", "text"} => panel.targets = <<>>
  /\ panel.type \notin {"row", "text"} =>
       panel.uid \in DOMAIN datasources /\ \A j \in DOMAIN panel.targets : panel.targets[j].uid = panel.uid

\* The inductive invariant: while nothing is wrong, every panel and query read
\* so far is fine.
CloudInv ==
  /\ cloud \in CloudDashboards /\ Cloud!TypeOK
  /\ cloud_errors = {} =>
       /\ \A k \in 1..(cloud_panel - 1) : /\ CloudPanelFine(Cloud!panels[k])
                                          /\ \A j \in DOMAIN Cloud!panels[k].targets :
                                               Cloud!QueryErrors(Cloud!panels[k].targets[j]) = {}
       /\ cloud_query > 0 => CloudPanelFine(Cloud!panels[cloud_panel])
       /\ \A j \in 1..(cloud_query - 1) : Cloud!QueryErrors(Cloud!panels[cloud_panel].targets[j]) = {}

\* The rules a panel, a query's form and its filters can break are finitely many.
LEMMA BrokenAreFinite ==
  /\ IsFiniteSet(Cloud!PanelErrors)
  /\ \A t : IsFiniteSet(Cloud!QueryErrors(t))
<1>1. ASSUME NEW S, NEW el, IsFiniteSet(S) PROVE IsFiniteSet(S \cup {el})
  BY <1>1, FS_AddElement
<1>2. \A a, b, c, d, e, f : IsFiniteSet({a, b, c, d, e, f})
  <2> SUFFICES ASSUME NEW a, NEW b, NEW c, NEW d, NEW e, NEW f PROVE IsFiniteSet({a, b, c, d, e, f})
    OBVIOUS
  <2>1. IsFiniteSet({} \cup {a})
    BY <1>1, FS_EmptySet
  <2>2. IsFiniteSet({} \cup {a} \cup {b})
    BY <1>1, <2>1
  <2>3. IsFiniteSet({} \cup {a} \cup {b} \cup {c})
    BY <1>1, <2>2
  <2>4. IsFiniteSet({} \cup {a} \cup {b} \cup {c} \cup {d})
    BY <1>1, <2>3
  <2>5. IsFiniteSet({} \cup {a} \cup {b} \cup {c} \cup {d} \cup {e})
    BY <1>1, <2>4
  <2>6. IsFiniteSet({} \cup {a} \cup {b} \cup {c} \cup {d} \cup {e} \cup {f})
    BY <1>1, <2>5
  <2>7. {} \cup {a} \cup {b} \cup {c} \cup {d} \cup {e} \cup {f} = {a, b, c, d, e, f}
    OBVIOUS
  <2> QED
    BY <2>6, <2>7
<1>3. ASSUME NEW rules, IsFiniteSet(DOMAIN rules) PROVE IsFiniteSet(Cloud!Broken(rules))
  <2>1. Cloud!Broken(rules) \in SUBSET DOMAIN rules
    BY DEF Cloud!Broken
  <2> QED
    BY <1>3, <2>1, FS_Subset
<1>4. IsFiniteSet(Cloud!PanelErrors)
  <2> DEFINE rules == [type      |-> Cloud!panel.type \notin CLOUD_PANEL_TYPES,
                       title     |-> /\ Cloud!panel.type # "row"
                                     /\ Cloud!panel.title > Cloud!title_room(Cloud!panel.w, Cloud!panel.links),
                       legend    |-> Cloud!Legends(Cloud!panel.legends),
                       no_query  |-> IF Cloud!Silent THEN Cloud!panel.targets # <<>> ELSE Cloud!panel.targets = <<>>,
                       unknown   |-> ~Cloud!Silent /\ Cloud!panel.uid \notin DOMAIN datasources,
                       mixes     |-> ~Cloud!Silent /\ Cloud!OwnDatasource]
  <2>1. Cloud!PanelErrors = Cloud!Broken(rules)
    BY Zenon DEF Cloud!PanelErrors
  <2>2. DOMAIN rules = {"type", "title", "legend", "no_query", "unknown", "mixes"}
    OBVIOUS
  <2> HIDE DEF rules
  <2>3. IsFiniteSet(DOMAIN rules)
    <3>1. IsFiniteSet({"type", "title", "legend", "no_query", "unknown", "mixes"})
      BY <1>2
    <3> QED
      BY <2>2, <3>1, Zenon
  <2>4. IsFiniteSet(Cloud!Broken(rules))
    BY <1>3, <2>3
  <2> QED
    BY <2>1, <2>4
<1>5. ASSUME NEW t PROVE IsFiniteSet(Cloud!Broken(Cloud!Form(t))) /\ IsFiniteSet(Cloud!Broken(Cloud!Facts(t)))
  <2>1. DOMAIN Cloud!Form(t) \subseteq {"form", "block", "project", "headers", "variable", "variable"}
    BY DEF Cloud!Form
  <2>2. IsFiniteSet(DOMAIN Cloud!Form(t))
    BY <1>2, <2>1, FS_Subset
  <2>3. DOMAIN Cloud!Facts(t) \subseteq {"metric", "resource", "operator", "label", "elsewhere", "unfiltered"}
                                         \cup {"aligner"} \cup {"reducer"}
    BY DEF Cloud!Facts
  <2>4. IsFiniteSet({"metric", "resource", "operator", "label", "elsewhere", "unfiltered"} \cup {"aligner"}
                    \cup {"reducer"})
    BY <1>1, <1>2
  <2>5. IsFiniteSet(DOMAIN Cloud!Facts(t))
    BY <2>3, <2>4, FS_Subset
  <2> QED
    BY <1>3, <2>2, <2>5
<1>6. ASSUME NEW t PROVE IsFiniteSet(Cloud!QueryErrors(t))
  <2>1. IsFiniteSet({"not_cloud"}) /\ IsFiniteSet({"filters"})
    BY FS_Singleton
  <2>2. IsFiniteSet(Cloud!Broken(Cloud!Form(t)) \cup {"filters"})
    BY <1>5, <2>1, FS_Union
  <2>3. IsFiniteSet(Cloud!Broken(Cloud!Form(t)) \cup Cloud!Broken(Cloud!Facts(t)))
    BY <1>5, FS_Union
  <2> QED
    BY <2>1, <2>2, <2>3 DEF Cloud!QueryErrors
<1> QED
  BY <1>4, <1>6

\* What a panel with no errors is.
LEMMA CloudPanelWithout ==
  ASSUME Cloud!PanelErrors = {}
  PROVE  CloudPanelFine(Cloud!panel)
<1> DEFINE rules == [type      |-> Cloud!panel.type \notin CLOUD_PANEL_TYPES,
                     title     |-> /\ Cloud!panel.type # "row"
                                   /\ Cloud!panel.title > Cloud!title_room(Cloud!panel.w, Cloud!panel.links),
                     legend    |-> Cloud!Legends(Cloud!panel.legends),
                     no_query  |-> IF Cloud!Silent THEN Cloud!panel.targets # <<>> ELSE Cloud!panel.targets = <<>>,
                     unknown   |-> ~Cloud!Silent /\ Cloud!panel.uid \notin DOMAIN datasources,
                     mixes     |-> ~Cloud!Silent /\ Cloud!OwnDatasource]
<1>1. Cloud!Broken(rules) = {}
  BY Zenon DEF Cloud!PanelErrors
<1>2. ~rules["no_query"] /\ ~rules["unknown"] /\ ~rules["mixes"]
  BY <1>1 DEF Cloud!Broken
<1>3. /\ Cloud!Silent => Cloud!panel.targets = <<>>
      /\ ~Cloud!Silent => Cloud!panel.uid \in DOMAIN datasources /\ ~Cloud!OwnDatasource
  BY <1>2
<1>4. ASSUME ~Cloud!OwnDatasource, NEW j \in DOMAIN Cloud!panel.targets
      PROVE  Cloud!panel.targets[j].uid = Cloud!panel.uid
  BY <1>4 DEF Cloud!OwnDatasource, Cloud!uids
<1> QED
  BY <1>3, <1>4 DEF CloudPanelFine, Cloud!Silent

\* Nothing is read at first.
LEMMA CloudInit == Cloud!Init => CloudInv
<1> SUFFICES ASSUME Cloud!Init PROVE CloudInv
  OBVIOUS
<1>1. /\ cloud \in CloudDashboards /\ cloud_panel = 1 /\ cloud_query = 0
      /\ cloud_errors = IF cloud.variables THEN {"variables"} ELSE {}
  BY DEF Cloud!Init
<1>2. IsFiniteSet({"variables"}) /\ IsFiniteSet({})
  BY FS_Singleton, FS_EmptySet
<1>3. Cloud!IsFiniteSet(cloud_errors)
  <2>1. cloud_errors = {"variables"} \/ cloud_errors = {}
    BY <1>1
  <2> QED
    BY <1>2, <2>1, CloudSame
<1>4. Len(Cloud!panels) \in Nat /\ \A k \in DOMAIN Cloud!panels : Len(Cloud!panels[k].targets) \in Nat
  BY <1>1, CloudPanels
<1>5. Cloud!TypeOK
  BY <1>1, <1>3, <1>4 DEF Cloud!TypeOK, Cloud!Done, Cloud!panel
<1> QED
  BY <1>1, <1>5 DEF CloudInv

\* Reading one more keeps the invariant.
LEMMA CloudStep == CloudInv /\ [Cloud!Next]_cloud_vars => CloudInv'
<1> SUFFICES ASSUME CloudInv, [Cloud!Next]_cloud_vars PROVE CloudInv'
  OBVIOUS
<1> DEFINE P == Cloud!panels
           targets == P[cloud_panel].targets
<1>0. /\ cloud \in CloudDashboards /\ Len(P) \in Nat /\ DOMAIN P = 1..Len(P)
      /\ \A k \in DOMAIN P : /\ Len(P[k].targets) \in Nat /\ DOMAIN P[k].targets = 1..Len(P[k].targets)
                             /\ (P[k].targets = <<>> <=> Len(P[k].targets) = 0)
  BY CloudPanels DEF CloudInv
<1>1. /\ cloud_panel \in 1..(Len(P) + 1) /\ IsFiniteSet(cloud_errors)
      /\ cloud_query \in 0..(IF cloud_panel \notin DOMAIN P THEN 0 ELSE Len(targets))
  BY CloudSame DEF CloudInv, Cloud!TypeOK, Cloud!Done, Cloud!panel
<1>2. /\ IsFiniteSet(Cloud!PanelErrors) /\ \A t : IsFiniteSet(Cloud!QueryErrors(t))
  BY BrokenAreFinite
<1>3. CASE Cloud!LintPanel
  <2>1. /\ cloud_panel \in DOMAIN P /\ cloud_query = 0
        /\ cloud_errors' = cloud_errors \cup Cloud!PanelErrors
        /\ IF Cloud!Silent \/ targets = <<>>
           THEN cloud_panel' = cloud_panel + 1 /\ UNCHANGED cloud_query
           ELSE cloud_query' = 1 /\ UNCHANGED cloud_panel
        /\ UNCHANGED cloud
    BY <1>3 DEF Cloud!LintPanel, Cloud!panel
  <2>2. P' = P
    BY <2>1 DEF Cloud!panels
  <2>3. IsFiniteSet(cloud_errors')
    BY <1>1, <1>2, <2>1, FS_Union
  <2>4. Cloud!TypeOK'
    <3>1. cloud_panel' \in 1..(Len(P) + 1)
          /\ cloud_query' \in 0..(IF cloud_panel' \notin DOMAIN P THEN 0 ELSE Len(P[cloud_panel'].targets))
      BY <1>0, <1>1, <2>1
    <3>2. Cloud!IsFiniteSet(cloud_errors)'
      BY <2>3, CloudSame
    <3> QED
      BY <2>2, <3>1, <3>2 DEF Cloud!TypeOK, Cloud!Done, Cloud!panel
  <2>5. ASSUME cloud_errors' = {}
        PROVE  /\ CloudPanelFine(P[cloud_panel])
               /\ Cloud!Silent => targets = <<>>
               /\ \A k \in 1..(cloud_panel - 1) :
                    CloudPanelFine(P[k]) /\ \A j \in DOMAIN P[k].targets : Cloud!QueryErrors(P[k].targets[j]) = {}
    <3>1. cloud_errors = {} /\ Cloud!PanelErrors = {}
      BY <2>1, <2>5
    <3>2. CloudPanelFine(P[cloud_panel])
      BY <3>1, CloudPanelWithout DEF Cloud!panel
    <3>3. Cloud!Silent => targets = <<>>
      BY <3>2 DEF CloudPanelFine, Cloud!Silent, Cloud!panel
    <3> QED
      BY <3>1, <3>2, <3>3 DEF CloudInv
  <2>6. ASSUME cloud_errors' = {}, NEW k \in 1..(cloud_panel' - 1)
        PROVE  CloudPanelFine(P[k]) /\ \A j \in DOMAIN P[k].targets : Cloud!QueryErrors(P[k].targets[j]) = {}
    <3>1. CASE k \in 1..(cloud_panel - 1)
      BY <2>5, <2>6, <3>1
    <3>2. CASE k \notin 1..(cloud_panel - 1)
      <4>1. k = cloud_panel /\ targets = <<>>
        BY <1>1, <2>1, <2>5, <2>6, <3>2
      <4>2. DOMAIN targets = {}
        BY <4>1
      <4> QED
        BY <2>5, <2>6, <4>1, <4>2
    <3> QED
      BY <3>1, <3>2
  <2>7. ASSUME cloud_errors' = {}
        PROVE  /\ cloud_query' > 0 => CloudPanelFine(P[cloud_panel'])
               /\ \A j \in 1..(cloud_query' - 1) : Cloud!QueryErrors(P[cloud_panel'].targets[j]) = {}
    <3>1. \/ cloud_query' = 0
          \/ cloud_query' = 1 /\ cloud_panel' = cloud_panel
      BY <2>1
    <3>2. 1..(cloud_query' - 1) = {}
      BY <3>1
    <3> QED
      BY <2>5, <2>7, <3>1, <3>2
  <2> QED
    BY <1>0, <2>1, <2>2, <2>4, <2>6, <2>7 DEF CloudInv
<1>4. CASE Cloud!LintQuery
  <2>1. /\ cloud_panel \in DOMAIN P /\ cloud_query > 0
        /\ cloud_errors' = cloud_errors \cup Cloud!QueryErrors(targets[cloud_query])
        /\ IF cloud_query = Len(targets) THEN cloud_panel' = cloud_panel + 1 /\ cloud_query' = 0
           ELSE cloud_query' = cloud_query + 1 /\ UNCHANGED cloud_panel
        /\ UNCHANGED cloud
    BY <1>4 DEF Cloud!LintQuery, Cloud!panel
  <2>2. P' = P
    BY <2>1 DEF Cloud!panels
  <2>3. IsFiniteSet(cloud_errors')
    BY <1>1, <1>2, <2>1, FS_Union
  <2>4. Cloud!TypeOK'
    <3>1. cloud_panel' \in 1..(Len(P) + 1)
          /\ cloud_query' \in 0..(IF cloud_panel' \notin DOMAIN P THEN 0 ELSE Len(P[cloud_panel'].targets))
      BY <1>0, <1>1, <2>1
    <3>2. Cloud!IsFiniteSet(cloud_errors)'
      BY <2>3, CloudSame
    <3> QED
      BY <2>2, <3>1, <3>2 DEF Cloud!TypeOK, Cloud!Done, Cloud!panel
  <2>5. ASSUME cloud_errors' = {}
        PROVE  /\ CloudPanelFine(P[cloud_panel])
               /\ \A j \in 1..cloud_query : Cloud!QueryErrors(targets[j]) = {}
               /\ \A k \in 1..(cloud_panel - 1) :
                    CloudPanelFine(P[k]) /\ \A j \in DOMAIN P[k].targets : Cloud!QueryErrors(P[k].targets[j]) = {}
    <3>1. cloud_errors = {} /\ Cloud!QueryErrors(targets[cloud_query]) = {}
      BY <2>1, <2>5
    <3>2. \A j \in 1..cloud_query : j \in 1..(cloud_query - 1) \/ j = cloud_query
      BY <1>1, <2>1
    <3> QED
      BY <2>1, <3>1, <3>2 DEF CloudInv
  <2>6. ASSUME cloud_errors' = {}, NEW k \in 1..(cloud_panel' - 1)
        PROVE  CloudPanelFine(P[k]) /\ \A j \in DOMAIN P[k].targets : Cloud!QueryErrors(P[k].targets[j]) = {}
    <3>1. CASE k \in 1..(cloud_panel - 1)
      BY <2>5, <2>6, <3>1
    <3>2. CASE k \notin 1..(cloud_panel - 1)
      <4>1. k = cloud_panel /\ cloud_query = Len(targets)
        BY <1>1, <2>1, <2>6, <3>2
      <4>2. DOMAIN targets = 1..cloud_query
        BY <1>0, <2>1, <4>1
      <4> QED
        BY <2>5, <2>6, <4>1, <4>2
    <3> QED
      BY <3>1, <3>2
  <2>7. ASSUME cloud_errors' = {}
        PROVE  /\ cloud_query' > 0 => CloudPanelFine(P[cloud_panel'])
               /\ \A j \in 1..(cloud_query' - 1) : Cloud!QueryErrors(P[cloud_panel'].targets[j]) = {}
    <3>1. \/ cloud_query' = 0 /\ 1..(cloud_query' - 1) = {}
          \/ cloud_query' - 1 = cloud_query /\ cloud_panel' = cloud_panel
      BY <1>0, <1>1, <2>1
    <3> QED
      BY <2>5, <2>7, <3>1
  <2> QED
    BY <1>0, <2>1, <2>2, <2>4, <2>6, <2>7 DEF CloudInv
<1>5. CASE UNCHANGED cloud_vars
  <2>1. UNCHANGED <<cloud, cloud_panel, cloud_query, cloud_errors>>
    BY <1>5 DEF cloud_vars
  <2>2. P' = P
    BY <2>1 DEF Cloud!panels
  <2>3. Cloud!TypeOK'
    <3>1. Cloud!IsFiniteSet(cloud_errors)'
      BY <1>1, <2>1, CloudSame
    <3> QED
      BY <1>1, <2>1, <2>2, <3>1 DEF Cloud!TypeOK, Cloud!Done, Cloud!panel
  <2> QED
    BY <2>1, <2>2, <2>3 DEF CloudInv
<1> QED
  BY <1>3, <1>4, <1>5 DEF Cloud!Next

\* What a query with no errors asks: one metric of the list, of the project of
\* its datasource, and no label but listed ones.
LEMMA QueryWithout ==
  ASSUME NEW t, Cloud!QueryErrors(t) = {}
  PROVE  LET metric == Cloud!Only(t, "metric.type") IN
         /\ t.projectName = datasources[t.uid]
         /\ metric \in METRIC_TYPE_RE
         /\ t.groupBys \cup t.secondaryGroupBys \subseteq ALLOWED_LABELS
         /\ \A label \in t.groupBys \cup t.secondaryGroupBys : ~Cloud!Elsewhere(label, metric)
         /\ t.reducer \notin {Cloud!None, "REDUCE_NONE"}
         /\ Cloud!Secondary(t) => t.secondaryReducer \notin {Cloud!None, "REDUCE_NONE"}
<1> DEFINE metric == Cloud!Only(t, "metric.type")
           resource == Cloud!Only(t, "resource.type")
           labels == Cloud!Labels(t) \cup t.aliasBy
           form == [form |-> t.queryType # "timeSeriesList", block |-> t.blocks # {},
                    project |-> Cloud!Project(t), headers |-> t.view # "FULL", variable |-> t.variable]
           facts == [metric     |-> metric \notin METRIC_TYPE_RE,
                     resource   |-> resource # Cloud!None /\ resource \notin MONITORED_RESOURCES,
                     operator   |-> \E k \in DOMAIN t.filters : t.filters[k].op \notin Cloud!FILTER_OPERATORS,
                     label      |-> labels \ ALLOWED_LABELS # {},
                     elsewhere  |-> \E label \in labels : Cloud!Elsewhere(label, metric),
                     unfiltered |-> resource = Cloud!None /\ labels \cap RESOURCE_LABELS # {},
                     aligner    |-> ~t.aligned,
                     reducer    |-> \/ ~Cloud!Groups(t.reducer)
                                    \/ Cloud!Secondary(t) /\ ~Cloud!Groups(t.secondaryReducer)]
<1>1. Cloud!Form(t) = form /\ Cloud!Facts(t) = facts
  BY Zenon DEF Cloud!Form, Cloud!Facts
<1>2. Cloud!Broken(form) = {} /\ Cloud!Broken(facts) = {}
  <2> HIDE DEF form, facts
  <2>1. t.joined /\ Cloud!Broken(form) \cup Cloud!Broken(facts) = {}
    BY <1>1 DEF Cloud!QueryErrors
  <2> QED
    BY <2>1
<1>3. ~Cloud!Project(t)
  <2>1. ~form["project"]
    <3>1. "project" \in DOMAIN form
      OBVIOUS
    <3> HIDE DEF form
    <3> QED
      BY <1>2, <3>1 DEF Cloud!Broken
  <2> QED
    BY <2>1
<1>4. ~facts["metric"] /\ ~facts["label"] /\ ~facts["elsewhere"] /\ ~facts["reducer"]
  <2>1. {"metric", "label", "elsewhere", "reducer"} \subseteq DOMAIN facts
    OBVIOUS
  <2> HIDE DEF facts
  <2> QED
    BY <1>2, <2>1 DEF Cloud!Broken
<1> HIDE DEF metric, resource, labels
<1>5. /\ metric \in METRIC_TYPE_RE /\ labels \subseteq ALLOWED_LABELS
      /\ \A label \in labels : ~Cloud!Elsewhere(label, metric)
      /\ Cloud!Groups(t.reducer) /\ (Cloud!Secondary(t) => Cloud!Groups(t.secondaryReducer))
  BY <1>4
<1>6. t.groupBys \cup t.secondaryGroupBys \subseteq labels
  BY DEF labels, Cloud!Labels
<1>7. /\ metric \in METRIC_TYPE_RE /\ t.groupBys \cup t.secondaryGroupBys \subseteq ALLOWED_LABELS
      /\ \A label \in t.groupBys \cup t.secondaryGroupBys : ~Cloud!Elsewhere(label, metric)
  BY <1>5, <1>6
<1>8. t.projectName = datasources[t.uid]
  BY <1>3 DEF Cloud!Project
<1>9. /\ t.reducer \notin {Cloud!None, "REDUCE_NONE"}
      /\ Cloud!Secondary(t) => t.secondaryReducer \notin {Cloud!None, "REDUCE_NONE"}
  BY <1>5 DEF Cloud!Groups
<1> USE DEF metric
<1> QED
  BY <1>7, <1>8, <1>9

\* A query whose filters name one metric of the list asks for no other.
LEMMA OneMetricAsked ==
  ASSUME NEW t, Cloud!Only(t, "metric.type") \in METRIC_TYPE_RE
  PROVE  Cloud!Metrics(t) = {Cloud!Only(t, "metric.type")}
<1> DEFINE metric == Cloud!Only(t, "metric.type")
           having == {k \in DOMAIN t.filters : t.filters[k].key = "metric.type" /\ t.filters[k].op = "="}
<1>1. metric # Cloud!None /\ metric \in DOMAIN Carries
  BY CloudPagesAreWhole
<1>2. metric = IF \E k \in having : having = {k} THEN t.filters[CHOOSE k \in having : TRUE].value ELSE Cloud!None
  BY Zenon DEF Cloud!Only
<1>3. PICK k \in having : having = {k}
  BY <1>1, <1>2
<1> DEFINE one == CHOOSE l \in having : TRUE
<1>4. one = k
  <2>1. one \in having
    BY <1>3
  <2> HIDE DEF one, having
  <2> QED
    BY <1>3, <2>1
<1>5. metric = t.filters[k].value
  BY <1>2, <1>3, <1>4
<1> HIDE DEF metric, one
<1>6. \A m : m \in Cloud!Metrics(t) <=> m \in DOMAIN Carries /\ \A l \in having : t.filters[l].value = m
  BY DEF Cloud!Metrics
<1> HIDE DEF having
<1>7. \A m : m \in Cloud!Metrics(t) <=> m = metric
  BY <1>1, <1>3, <1>5, <1>6
<1> USE DEF metric
<1> QED
  BY <1>7

\* What an accepted cloud dashboard can show.
LEMMA CloudSafe == CloudInv => Cloud!Safe
<1> SUFFICES ASSUME CloudInv, Cloud!Accepted
             PROVE  Cloud!OnlyListedLabels /\ Cloud!OneProjectPerPanel /\ Cloud!OneMetric
  BY DEF Cloud!Safe, CloudInv, Cloud!OnlyListedLabels, Cloud!OneProjectPerPanel, Cloud!OneMetric
<1> DEFINE P == Cloud!panels
<1>0. /\ cloud \in CloudDashboards /\ Len(P) \in Nat /\ DOMAIN P = 1..Len(P)
      /\ \A k \in DOMAIN P : DOMAIN P[k].targets = 1..Len(P[k].targets) /\ Len(P[k].targets) \in Nat
  BY CloudPanels DEF CloudInv
<1>1. \A k \in DOMAIN P : CloudPanelFine(P[k]) /\ \A j \in DOMAIN P[k].targets : Cloud!QueryErrors(P[k].targets[j]) = {}
  <2>1. cloud_panel \notin DOMAIN P /\ cloud_errors = {} /\ cloud_panel \in 1..(Len(P) + 1)
    BY DEF Cloud!Accepted, Cloud!Done, CloudInv, Cloud!TypeOK
  <2>2. cloud_panel - 1 = Len(P)
    BY <1>0, <2>1
  <2> QED
    BY <1>0, <2>1, <2>2 DEF CloudInv
<1>2. \A t \in Cloud!Asked : Cloud!QueryErrors(t) = {}
  BY <1>1 DEF Cloud!Asked
<1> HIDE DEF P
<1>3. Cloud!OnlyListedLabels
  <2> SUFFICES ASSUME NEW t \in Cloud!Asked, NEW m \in Cloud!Metrics(t), NEW label \in Cloud!Answer(t, m)
               PROVE  label \in ALLOWED_LABELS /\ ~Cloud!Elsewhere(label, m)
    BY DEF Cloud!OnlyListedLabels
  <2> DEFINE metric == Cloud!Only(t, "metric.type")
  <2>1. /\ metric \in METRIC_TYPE_RE
        /\ t.groupBys \cup t.secondaryGroupBys \subseteq ALLOWED_LABELS
        /\ \A l \in t.groupBys \cup t.secondaryGroupBys : ~Cloud!Elsewhere(l, metric)
        /\ t.reducer \notin {Cloud!None, "REDUCE_NONE"}
        /\ Cloud!Secondary(t) => t.secondaryReducer \notin {Cloud!None, "REDUCE_NONE"}
    BY <1>2, QueryWithout
  <2>2. m = metric
    BY <2>1, OneMetricAsked
  <2> HIDE DEF metric
  <2>3. label \in t.groupBys \cup t.secondaryGroupBys
    <3>1. Cloud!Kept(Carries[m], t.reducer, t.groupBys) \subseteq t.groupBys
      BY <2>1 DEF Cloud!Kept
    <3> QED
      BY <2>1, <3>1 DEF Cloud!Answer, Cloud!Kept
  <2> QED
    BY <2>1, <2>2, <2>3
<1>4. Cloud!OneMetric
  <2> SUFFICES ASSUME NEW t \in Cloud!Asked PROVE Cloud!Cardinality(Cloud!Metrics(t)) = 1
    BY DEF Cloud!OneMetric
  <2>1. Cloud!Metrics(t) = {Cloud!Only(t, "metric.type")}
    BY <1>2, QueryWithout, OneMetricAsked
  <2> QED
    BY <2>1, CloudSame, FS_Singleton
<1>5. ASSUME NEW k \in DOMAIN P, NEW t \in Cloud!ToSet(P[k].targets)
      PROVE  /\ P[k].uid \in DOMAIN datasources /\ t.uid = P[k].uid
             /\ t.projectName = datasources[P[k].uid]
  <2>1. PICK j \in DOMAIN P[k].targets : t = P[k].targets[j]
    BY <1>5 DEF Cloud!ToSet
  <2>2. Cloud!QueryErrors(t) = {} /\ CloudPanelFine(P[k])
    BY <1>1, <1>5, <2>1
  <2>3. P[k].targets # <<>>
    <3>1. DOMAIN P[k].targets # {}
      BY <2>1
    <3> QED
      BY <3>1
  <2>4. P[k].uid \in DOMAIN datasources /\ t.uid = P[k].uid
    BY <2>1, <2>2, <2>3 DEF CloudPanelFine
  <2>5. t.projectName = datasources[t.uid]
    BY <2>2, QueryWithout
  <2> QED
    BY <2>4, <2>5
<1>6. Cloud!OneProjectPerPanel
  <2> SUFFICES ASSUME NEW k \in DOMAIN P
               PROVE  /\ Cloud!Cardinality({t.projectName : t \in Cloud!ToSet(P[k].targets)}) <= 1
                      /\ \A t \in Cloud!ToSet(P[k].targets) : /\ Cloud!Sent(k, t) \in DOMAIN datasources
                                                              /\ t.projectName = datasources[Cloud!Sent(k, t)]
    BY DEF Cloud!OneProjectPerPanel, P
  <2> DEFINE projects == {t.projectName : t \in Cloud!ToSet(P[k].targets)}
  <2>1. projects = {} \/ projects = {datasources[P[k].uid]}
    BY <1>5
  <2>2. Cloud!Cardinality(projects) <= 1
    <3> HIDE DEF projects
    <3>1. Cardinality(projects) = 0 \/ Cardinality(projects) = 1
      BY <2>1, FS_EmptySet, FS_Singleton
    <3> QED
      BY <3>1, CloudSame
  <2>3. \A t \in Cloud!ToSet(P[k].targets) : /\ Cloud!Sent(k, t) \in DOMAIN datasources
                                             /\ t.projectName = datasources[Cloud!Sent(k, t)]
    BY <1>5 DEF Cloud!Sent, P
  <2> QED
    BY <2>2, <2>3
<1> QED
  BY <1>3, <1>4, <1>6

-----------------------------------------------------------------------------
(* LokiRules *)

\* Since line j every line was deeper, up to line n.
DeeperSince(j, n) ==
  \A i \in 1..(n - 1) : j < i /\ rule_lines[i].key # "#" => ColumnOf(rule_lines[j]) < ColumnOf(rule_lines[i])

\* A labels key that opens a block, and one that line k is below.
OpensBlock(j) == rule_lines[j].key = "labels" /\ rule_lines[j].value = ""
LabelsAbove(j, k) == j < k /\ OpensBlock(j) /\ DeeperSince(j, k + 1)

\* The inductive invariant: while nothing is wrong, the lint is in the labels
\* block that its line is in, and what it has read is fine.
RulesInv ==
  /\ rule_lines \in Rules /\ RuleFile!TypeOK /\ labels_indent \in Int
  /\ rule_errors = {} =>
       /\ \A j \in 1..(number - 1) : OpensBlock(j) /\ DeeperSince(j, number) =>
            labels_indent = rule_lines[j].indent
       /\ \A k \in 1..(number - 1) : rule_lines[k].key = "expr" => rule_lines[k].value = "good"
       /\ \A j, k \in 1..(number - 1) : rule_lines[k].key # "#" /\ LabelsAbove(j, k) =>
            rule_lines[k].key \in LOCAL_LABELS

\* What the files are.
LEMMA RuleLines ==
  ASSUME rule_lines \in Rules
  PROVE  /\ Len(rule_lines) \in Nat /\ DOMAIN rule_lines = 1..Len(rule_lines)
         /\ \A k \in DOMAIN rule_lines : rule_lines[k].indent \in Nat /\ rule_lines[k].dash \in BOOLEAN
<1> DEFINE Read == [indent : Nat, dash : BOOLEAN, key : STRING, value : STRING]
<1>1. rule_lines \in Seq(Read)
  BY LabelsAreMappings
<1>2. Len(rule_lines) \in Nat /\ DOMAIN rule_lines = 1..Len(rule_lines) /\ \A k \in DOMAIN rule_lines : rule_lines[k] \in Read
  <2> HIDE DEF Read
  <2> QED
    BY <1>1
<1> QED
  BY <1>2

\* What is below a labels key is indented more than it.
LEMMA BelowIsIndented ==
  ASSUME rule_lines \in Rules, NEW j \in DOMAIN rule_lines, NEW k \in DOMAIN rule_lines, LabelsAbove(j, k),
         rule_lines[k].key # "#"
  PROVE  rule_lines[j].indent < rule_lines[k].indent
<1>1. /\ Len(rule_lines) \in Nat /\ DOMAIN rule_lines = 1..Len(rule_lines)
      /\ \A i \in DOMAIN rule_lines : rule_lines[i].indent \in Nat /\ rule_lines[i].dash \in BOOLEAN
  BY RuleLines
<1>2. j < k /\ rule_lines[j].key = "labels"
      /\ \A i \in 1..k : j < i /\ rule_lines[i].key # "#" => ColumnOf(rule_lines[j]) < ColumnOf(rule_lines[i])
  <2>1. j < k /\ OpensBlock(j) /\ DeeperSince(j, k + 1)
    BY Zenon DEF LabelsAbove
  <2>2. \A i \in 1..k : i \in 1..((k + 1) - 1)
    BY <1>1
  <2> QED
    BY <2>1, <2>2, Zenon DEF OpensBlock, DeeperSince
<1>3. \A i \in DOMAIN rule_lines : ColumnOf(rule_lines[i]) = rule_lines[i].indent + (IF rule_lines[i].dash THEN 2 ELSE 0)
  BY DEF ColumnOf
<1>4. CASE rule_lines[k].dash
  <2>1. PICK i \in (j + 1)..k : rule_lines[i].key # "#" /\ ColumnOf(rule_lines[i]) <= ColumnOf(rule_lines[j])
    BY <1>2, <1>4, LabelsAreMappings
  <2>2. i \in 1..k /\ j < i /\ i \in DOMAIN rule_lines
    BY <1>1, <2>1
  <2>3. ColumnOf(rule_lines[j]) < ColumnOf(rule_lines[i]) /\ ColumnOf(rule_lines[j]) \in Int /\ ColumnOf(rule_lines[i]) \in Int
    BY <1>1, <1>2, <1>3, <2>1, <2>2
  <2> QED
    BY <2>1, <2>3
<1>5. CASE ~rule_lines[k].dash
  <2>1. k \in 1..k
    BY <1>1
  <2>2. ColumnOf(rule_lines[j]) < ColumnOf(rule_lines[k])
    BY <1>2, <2>1
  <2>3. ColumnOf(rule_lines[k]) = rule_lines[k].indent /\ ColumnOf(rule_lines[j]) >= rule_lines[j].indent
    BY <1>1, <1>3, <1>5
  <2>4. ColumnOf(rule_lines[j]) \in Int /\ rule_lines[j].indent \in Nat /\ rule_lines[k].indent \in Nat
    BY <1>1, <1>3
  <2> QED
    BY <2>2, <2>3, <2>4
<1> QED
  BY <1>4, <1>5

\* Where the lint is in its file.
LEMMA RuleRanges ==
  ASSUME RulesInv
  PROVE  /\ rule_lines \in Rules /\ Len(rule_lines) \in Nat /\ DOMAIN rule_lines = 1..Len(rule_lines)
         /\ number \in 1..(Len(rule_lines) + 1) /\ number \in Nat /\ labels_indent \in Int
         /\ \A j \in 1..number : j = number \/ j \in 1..(number - 1)
<1>1. rule_lines \in Rules /\ number \in 1..(Len(rule_lines) + 1) /\ labels_indent \in Int
  BY Zenon DEF RulesInv, RuleFile!TypeOK
<1>2. Len(rule_lines) \in Nat /\ DOMAIN rule_lines = 1..Len(rule_lines)
  BY <1>1, RuleLines
<1> QED
  BY <1>1, <1>2

\* Nothing is read at first.
LEMMA RulesInit == RuleFile!Init => RulesInv
<1> SUFFICES ASSUME RuleFile!Init PROVE RulesInv
  OBVIOUS
<1>1. rule_lines \in Rules /\ number = 1 /\ labels_indent = -1 /\ rule_errors = {}
  BY DEF RuleFile!Init
<1>2. Len(rule_lines) \in Nat
  BY <1>1, RuleLines
<1>3. number \in 1..(Len(rule_lines) + 1) /\ labels_indent \in Int /\ ~(labels_indent >= 0)
  BY <1>1, <1>2
<1>4. 1..(number - 1) = {}
  BY <1>1
<1>5. RuleFile!TypeOK
  BY <1>1, <1>3, Zenon DEF RuleFile!TypeOK
<1> QED
  BY <1>1, <1>3, <1>4, <1>5, Zenon DEF RulesInv

\* A line read: the invariant holds if what the lint then takes for the labels
\* block is the one that was opened last and is still open.
LEMMA LineRead ==
  ASSUME RulesInv, number \in DOMAIN rule_lines, number' = number + 1, rule_lines' = rule_lines,
         NEW wrong \in BOOLEAN, RuleFile!Note(wrong),
         labels_indent' \in Int,
         labels_indent' >= 0 => \/ labels_indent' = labels_indent
                                \/ rule_lines[number].key = "labels" /\ labels_indent' = rule_lines[number].indent,
         rule_errors' = {} =>
           /\ \A j \in 1..number : OpensBlock(j) /\ DeeperSince(j, number + 1) =>
                labels_indent' = rule_lines[j].indent
           /\ rule_lines[number].key = "expr" => rule_lines[number].value = "good"
           /\ \A j \in 1..(number - 1) : rule_lines[number].key # "#" /\ LabelsAbove(j, number) =>
                rule_lines[number].key \in LOCAL_LABELS
  PROVE  RulesInv'
<1>1. /\ rule_lines \in Rules /\ Len(rule_lines) \in Nat /\ DOMAIN rule_lines = 1..Len(rule_lines)
      /\ number \in 1..Len(rule_lines) /\ rule_errors \subseteq 1..(number - 1) /\ labels_indent \in Int
  BY RuleLines DEF RulesInv, RuleFile!TypeOK
<1>2. rule_errors' = IF wrong THEN rule_errors \cup {number} ELSE rule_errors
  BY DEF RuleFile!Note
<1>3. RuleFile!TypeOK'
  <2>1. number' \in 1..(Len(rule_lines) + 1) /\ rule_errors' \subseteq 1..(number' - 1)
    <3>1. number' \in 1..(Len(rule_lines) + 1) /\ number' - 1 = number
      BY <1>1
    <3>2. 1..(number - 1) \subseteq 1..number /\ number \in 1..number
      BY <1>1
    <3>3. rule_errors' \subseteq 1..number
      BY <1>1, <1>2, <3>2, Zenon
    <3> QED
      BY <3>1, <3>3
  <2>2. ASSUME labels_indent' >= 0
        PROVE  \E k \in 1..(number' - 1) : rule_lines[k].key = "labels" /\ rule_lines[k].indent = labels_indent'
    <3>1. CASE labels_indent' = labels_indent
      <4>1. PICK k \in 1..(number - 1) : rule_lines[k].key = "labels" /\ rule_lines[k].indent = labels_indent
        BY <2>2, <3>1 DEF RulesInv, RuleFile!TypeOK
      <4>2. k \in 1..(number' - 1)
        BY <1>1
      <4> QED
        BY <3>1, <4>1, <4>2
    <3>2. CASE rule_lines[number].key = "labels" /\ labels_indent' = rule_lines[number].indent
      <4>1. number \in 1..(number' - 1)
        BY <1>1
      <4> QED
        BY <3>2, <4>1
    <3> QED
      BY <2>2, <3>1, <3>2
  <2> QED
    BY <2>1, <2>2 DEF RuleFile!TypeOK
<1>4. \A j, n : DeeperSince(j, n)' <=> DeeperSince(j, n)
  BY DEF DeeperSince
<1>5. \A j, k : /\ OpensBlock(j)' <=> OpensBlock(j)
                /\ LabelsAbove(j, k)' <=> LabelsAbove(j, k)
  BY DEF LabelsAbove, OpensBlock, DeeperSince
<1>6. ASSUME rule_errors' = {}
      PROVE  /\ \A j \in 1..(number' - 1) : OpensBlock(j) /\ DeeperSince(j, number + 1) =>
                  labels_indent' = rule_lines[j].indent
             /\ \A k \in 1..(number' - 1) : rule_lines[k].key = "expr" => rule_lines[k].value = "good"
             /\ \A j, k \in 1..(number' - 1) : rule_lines[k].key # "#" /\ LabelsAbove(j, k) =>
                  rule_lines[k].key \in LOCAL_LABELS
  <2>1. rule_errors = {} /\ number' - 1 = number /\ \A k \in 1..number : k = number \/ k \in 1..(number - 1)
    BY <1>1, <1>2, <1>6
  <2>2. ASSUME NEW k \in 1..number, rule_lines[k].key = "expr" PROVE rule_lines[k].value = "good"
    BY <1>6, <2>1, <2>2 DEF RulesInv
  <2>3. ASSUME NEW j \in 1..number, NEW k \in 1..number, rule_lines[k].key # "#", LabelsAbove(j, k)
        PROVE  rule_lines[k].key \in LOCAL_LABELS
    <3>1. j < k
      BY <2>3 DEF LabelsAbove
    <3>2. j \in 1..(number - 1)
      BY <1>1, <2>3, <3>1
    <3> QED
      BY <1>6, <2>1, <2>3, <3>2 DEF RulesInv
  <2> QED
    BY <1>6, <2>1, <2>2, <2>3
<1> QED
  BY <1>1, <1>3, <1>4, <1>5, <1>6 DEF RulesInv

\* Reading one more line keeps the invariant.
LEMMA RulesStep == RulesInv /\ [RuleFile!Next]_rules_vars => RulesInv'
<1> SUFFICES ASSUME RulesInv, [RuleFile!Next]_rules_vars PROVE RulesInv'
  OBVIOUS
<1> DEFINE line == rule_lines[number]
<1>r. /\ rule_lines \in Rules /\ Len(rule_lines) \in Nat /\ DOMAIN rule_lines = 1..Len(rule_lines)
      /\ number \in 1..(Len(rule_lines) + 1) /\ number \in Nat /\ labels_indent \in Int
      /\ \A j \in 1..number : j = number \/ j \in 1..(number - 1)
  BY RuleRanges
<1>i. \A k \in DOMAIN rule_lines : rule_lines[k].indent \in Nat
  BY <1>r, RuleLines
<1>n. "expr" \notin LOCAL_LABELS /\ "labels" \notin LOCAL_LABELS
  BY LabelsAreMappings
<1>1. ASSUME NEW j, DeeperSince(j, number + 1) PROVE DeeperSince(j, number)
  <2>1. \A i \in 1..(number - 1) : i \in 1..((number + 1) - 1)
    BY <1>r
  <2> QED
    BY <1>1, <2>1, Zenon DEF DeeperSince
<1>2. ASSUME rule_errors = {}, number \in DOMAIN rule_lines, line.key # "#", NEW j \in 1..(number - 1),
             OpensBlock(j), DeeperSince(j, number + 1)
      PROVE  LabelsAbove(j, number) /\ labels_indent = rule_lines[j].indent /\ RuleFile!Opened
  <2>1. LabelsAbove(j, number)
    <3>1. j < number
      BY <1>r
    <3> QED
      BY <1>2, <3>1 DEF LabelsAbove
  <2>2. labels_indent = rule_lines[j].indent
    BY <1>1, <1>2 DEF RulesInv
  <2>3. j \in DOMAIN rule_lines
    BY <1>r
  <2>4. rule_lines[j].indent < line.indent /\ rule_lines[j].indent \in Nat
    BY <1>r, <1>i, <1>2, <2>1, <2>3, BelowIsIndented
  <2> QED
    BY <2>1, <2>2, <2>4 DEF RuleFile!Opened, RuleFile!line
<1>3. ASSUME number \in DOMAIN rule_lines, NEW j \in 1..number PROVE j = number \/ j \in 1..(number - 1)
  BY <1>r
<1>4. CASE RuleFile!Skip
  <2>1. /\ number \in DOMAIN rule_lines /\ line.key = "#" /\ number' = number + 1
        /\ UNCHANGED <<rule_lines, labels_indent, rule_errors>>
    BY <1>4 DEF RuleFile!Skip, RuleFile!Skipped, RuleFile!line, RuleFile!Advance
  <2>2. RuleFile!Note(FALSE)
    BY <2>1 DEF RuleFile!Note
  <2>3. ASSUME rule_errors' = {}, NEW j \in 1..number, OpensBlock(j), DeeperSince(j, number + 1)
        PROVE  labels_indent' = rule_lines[j].indent
    <3>1. j # number /\ DeeperSince(j, number)
      BY <1>1, <2>1, <2>3 DEF OpensBlock
    <3>2. j \in 1..(number - 1) /\ rule_errors = {} /\ labels_indent' = labels_indent
      BY <1>3, <2>1, <2>3, <3>1
    <3> QED
      BY <2>3, <3>1, <3>2 DEF RulesInv
  <2> QED
    BY <1>r, <1>i, <1>n, <2>1, <2>2, <2>3, LineRead
<1>5. CASE RuleFile!Label
  <2> DEFINE wrong == line.key \notin LOCAL_LABELS
  <2>1. /\ number \in DOMAIN rule_lines /\ line.key # "#" /\ number' = number + 1
        /\ UNCHANGED <<rule_lines, labels_indent>> /\ RuleFile!Note(wrong)
    BY <1>5 DEF RuleFile!Label, RuleFile!Within, RuleFile!Skipped, RuleFile!line, RuleFile!Advance
  <2>2. rule_errors' = {} => rule_errors = {} /\ line.key \in LOCAL_LABELS
    BY <2>1 DEF RuleFile!Note
  <2>3. ASSUME rule_errors' = {}, NEW j \in 1..number, OpensBlock(j), DeeperSince(j, number + 1)
        PROVE  labels_indent' = rule_lines[j].indent
    <3>1. j # number
      BY <1>n, <2>2, <2>3 DEF OpensBlock
    <3>2. j \in 1..(number - 1)
      BY <1>3, <2>1, <3>1
    <3> QED
      BY <1>2, <2>1, <2>2, <2>3, <3>2
  <2>4. rule_errors' = {} => line.key # "expr"
    BY <1>r, <1>i, <1>n, <2>2
  <2> QED
    BY <1>r, <1>i, <1>n, <2>1, <2>2, <2>3, <2>4, LineRead
<1>6. CASE RuleFile!Labels
  <2>1. /\ number \in DOMAIN rule_lines /\ line.key # "#" /\ ~RuleFile!Opened /\ OpensBlock(number)
        /\ labels_indent' = line.indent /\ number' = number + 1 /\ UNCHANGED <<rule_lines, rule_errors>>
    BY <1>6 DEF RuleFile!Labels, RuleFile!Within, RuleFile!Skipped, RuleFile!line, RuleFile!Advance, OpensBlock
  <2>2. RuleFile!Note(FALSE)
    BY <2>1 DEF RuleFile!Note
  <2>3. ASSUME rule_errors' = {}, NEW j \in 1..number, OpensBlock(j), DeeperSince(j, number + 1)
        PROVE  labels_indent' = rule_lines[j].indent
    <3>1. CASE j = number
      BY <2>1, <3>1
    <3>2. CASE j # number
      <4>1. j \in 1..(number - 1) /\ rule_errors = {}
        BY <1>3, <2>1, <2>3, <3>2
      <4> QED
        BY <1>2, <2>1, <2>3, <4>1
    <3> QED
      BY <3>1, <3>2
  <2>4. ASSUME rule_errors' = {}, NEW j \in 1..(number - 1), LabelsAbove(j, number) PROVE FALSE
    BY <1>2, <2>1, <2>4 DEF LabelsAbove
  <2>5. labels_indent' \in Int
    BY <1>i, <2>1
  <2>6. line.key = "labels"
    BY <2>1 DEF OpensBlock
  <2> QED
    BY <1>r, <1>i, <1>n, <2>1, <2>2, <2>3, <2>4, <2>5, <2>6, LineRead
<1>7. ASSUME NEW wrong \in BOOLEAN, number \in DOMAIN rule_lines, line.key # "#", ~RuleFile!Opened,
             ~OpensBlock(number), labels_indent' = -1, number' = number + 1, rule_lines' = rule_lines,
             RuleFile!Note(wrong), rule_errors' = {} /\ line.key = "expr" => line.value = "good"
      PROVE  RulesInv'
  <2>1. rule_errors' = {} => rule_errors = {}
    BY <1>7 DEF RuleFile!Note
  <2>2. ASSUME rule_errors' = {}, NEW j \in 1..number, OpensBlock(j), DeeperSince(j, number + 1)
        PROVE  FALSE
    BY <1>2, <1>3, <1>7, <2>1, <2>2
  <2>3. ASSUME rule_errors' = {}, NEW j \in 1..(number - 1), LabelsAbove(j, number) PROVE FALSE
    BY <1>2, <1>7, <2>1, <2>3 DEF LabelsAbove
  <2>4. labels_indent' \in Int /\ ~(labels_indent' >= 0)
    <3>1. labels_indent' = -1
      BY <1>7
    <3> QED
      BY <3>1
  <2>5. rule_errors' = {} =>
          /\ \A j \in 1..number : OpensBlock(j) /\ DeeperSince(j, number + 1) =>
               labels_indent' = rule_lines[j].indent
          /\ \A j \in 1..(number - 1) : rule_lines[number].key # "#" /\ LabelsAbove(j, number) =>
               rule_lines[number].key \in LOCAL_LABELS
    BY <2>2, <2>3, Zenon
  <2> QED
    BY <1>7, <2>4, <2>5, LineRead, Zenon
<1>8. CASE RuleFile!Expr
  <2> DEFINE wrong == RuleFile!Unread(line) \/ line.value = "bad"
  <2>1. /\ number \in DOMAIN rule_lines /\ line.key # "#" /\ ~RuleFile!Opened /\ line.key = "expr"
        /\ labels_indent' = -1 /\ number' = number + 1 /\ rule_lines' = rule_lines /\ RuleFile!Note(wrong)
    BY <1>8 DEF RuleFile!Expr, RuleFile!Within, RuleFile!Skipped, RuleFile!line, RuleFile!Advance
  <2>2. rule_errors' = {} => line.value = "good"
    BY <2>1 DEF RuleFile!Note, RuleFile!Unread
  <2>3. ~OpensBlock(number) /\ wrong \in BOOLEAN
    BY <2>1 DEF RuleFile!Unread, OpensBlock
  <2> QED
    BY <1>7, <2>1, <2>2, <2>3
<1>9. CASE RuleFile!Other
  <2>1. /\ number \in DOMAIN rule_lines /\ line.key # "#" /\ ~RuleFile!Opened /\ line.key # "expr"
        /\ ~(line.key = "labels" /\ line.value = "")
        /\ labels_indent' = -1 /\ number' = number + 1 /\ UNCHANGED <<rule_lines, rule_errors>>
    BY <1>9 DEF RuleFile!Other, RuleFile!Within, RuleFile!Skipped, RuleFile!line, RuleFile!Advance
  <2>2. RuleFile!Note(FALSE) /\ ~OpensBlock(number)
    BY <2>1 DEF RuleFile!Note, OpensBlock
  <2> QED
    BY <1>7, <2>1, <2>2
<1>10. CASE UNCHANGED rules_vars
  <2>1. UNCHANGED <<rule_lines, number, labels_indent, rule_errors>>
    BY <1>10 DEF rules_vars
  <2> QED
    BY <2>1 DEF RulesInv, RuleFile!TypeOK, DeeperSince, LabelsAbove, OpensBlock
<1> QED
  BY <1>4, <1>5, <1>6, <1>8, <1>9, <1>10 DEF RuleFile!Next

\* What a clean rule file holds.
LEMMA RulesSafe == RulesInv => RuleFile!Safe
<1> SUFFICES ASSUME RulesInv, RuleFile!Clean PROVE RuleFile!EveryExprRead /\ RuleFile!EveryLabelListed
  BY DEF RuleFile!Safe, RulesInv, RuleFile!EveryExprRead, RuleFile!EveryLabelListed
<1>0. /\ rule_lines \in Rules /\ Len(rule_lines) \in Nat /\ DOMAIN rule_lines = 1..Len(rule_lines)
      /\ number \in 1..(Len(rule_lines) + 1)
  BY RuleRanges
<1>d. \A k \in DOMAIN rule_lines : rule_lines[k].indent \in Nat /\ rule_lines[k].dash \in BOOLEAN
  BY <1>0, RuleLines
<1>1. number - 1 = Len(rule_lines) /\ rule_errors = {}
  <2>1. number > Len(rule_lines) /\ rule_errors = {}
    BY Zenon DEF RuleFile!Clean
  <2> QED
    BY <1>0, <2>1
<1>2. RuleFile!EveryExprRead
  BY <1>0, <1>1 DEF RuleFile!EveryExprRead, RuleFile!Entries, RulesInv
<1>3. ASSUME NEW k \in RuleFile!Entries, RuleFile!InBlock(k) PROVE rule_lines[k].key \in LOCAL_LABELS
  <2> DEFINE above == RuleFile!Above(k)
             last == CHOOSE j \in above : \A i \in above : i <= j
             p == RuleFile!Parent(k)
  <2>1. k \in DOMAIN rule_lines /\ rule_lines[k].key # "#" /\ p # 0 /\ OpensBlock(p)
    BY <1>3 DEF RuleFile!Entries, RuleFile!InBlock, OpensBlock
  <2>2. above # {} /\ p = last /\ ~\E i \in (last + 1)..(k - 1) : rule_lines[i].key # "#" /\ RuleFile!Depth(i) < RuleFile!Depth(k)
    <3>1. p = IF above = {} THEN 0
              ELSE IF \E i \in (last + 1)..(k - 1) : rule_lines[i].key # "#" /\ RuleFile!Depth(i) < RuleFile!Depth(k)
                   THEN 0 ELSE last
      BY Zenon DEF RuleFile!Parent
    <3> HIDE DEF above, last, p
    <3> QED
      BY <2>1, <3>1
  <2>3. above \subseteq 1..(k - 1)
    BY DEF RuleFile!Above
  <2>4. last \in above
    <3>1. \E m \in above : \A i \in above : i <= m
      <4> HIDE DEF above
      <4>0. k \in Nat
        BY <1>0, <2>1
      <4>1. above \subseteq Nat /\ \A i \in above : i <= k
        BY <2>3, <4>0
      <4>2. above # {}
        BY <2>2
      <4> QED
        BY <4>0, <4>1, <4>2, LastIn
    <3> HIDE DEF above
    <3> QED
      BY <3>1
  <2> HIDE DEF last, p
  <2>5. last \in 1..(k - 1) /\ RuleFile!Depth(last) < RuleFile!Depth(k)
    BY <2>3, <2>4 DEF RuleFile!Above
  <2>6. \A i \in DOMAIN rule_lines : RuleFile!Depth(i) = ColumnOf(rule_lines[i]) /\ ColumnOf(rule_lines[i]) \in Int
    <3> SUFFICES ASSUME NEW i \in DOMAIN rule_lines
                 PROVE  RuleFile!Depth(i) = ColumnOf(rule_lines[i]) /\ ColumnOf(rule_lines[i]) \in Int
      OBVIOUS
    <3>1. RuleFile!Depth(i) = rule_lines[i].indent + (IF rule_lines[i].dash THEN 2 ELSE 0)
      BY Zenon DEF RuleFile!Depth
    <3>2. ColumnOf(rule_lines[i]) = rule_lines[i].indent + (IF rule_lines[i].dash THEN 2 ELSE 0)
      BY Zenon DEF ColumnOf
    <3>3. rule_lines[i].indent \in Nat /\ rule_lines[i].dash \in BOOLEAN
      BY <1>d
    <3> QED
      BY <3>1, <3>2, <3>3
  <2>x. k \in 1..Len(rule_lines) /\ k \in Nat
    BY <1>0, <2>1
  <2>l. last \in 1..(k - 1)
    BY <2>5
  <2>7. ASSUME NEW i \in 1..k, last < i, rule_lines[i].key # "#"
        PROVE  ColumnOf(rule_lines[last]) < ColumnOf(rule_lines[i])
    <3>1. i \in DOMAIN rule_lines /\ last \in DOMAIN rule_lines
      BY <1>0, <2>x, <2>l
    <3>2. CASE i = k
      BY <2>1, <2>5, <2>6, <3>1, <3>2
    <3>3. CASE i # k
      <4>1. i \in (last + 1)..(k - 1)
        BY <2>x, <2>l, <2>7, <3>3
      <4>2. ~(RuleFile!Depth(i) < RuleFile!Depth(k))
        BY <2>2, <2>7, <4>1
      <4> QED
        BY <2>1, <2>5, <2>6, <3>1, <4>2
    <3> QED
      BY <3>2, <3>3
  <2>8. LabelsAbove(last, k)
    <3>1. last < k /\ OpensBlock(last)
      BY <2>x, <2>l, <2>1, <2>2
    <3>2. \A i \in 1..((k + 1) - 1) : i \in 1..k
      BY <2>x
    <3>3. DeeperSince(last, k + 1)
      BY <2>7, <3>2, Zenon DEF DeeperSince
    <3> QED
      BY <3>1, <3>3, Zenon DEF LabelsAbove
  <2>9. last \in 1..(number - 1) /\ k \in 1..(number - 1)
    BY <1>0, <1>1, <2>x, <2>l
  <2> QED
    BY <1>1, <2>1, <2>8, <2>9 DEF RulesInv
<1> QED
  BY <1>2, <1>3 DEF RuleFile!EveryLabelListed

-----------------------------------------------------------------------------
(* The lint, of each kind *)

\* Whatever dashboards and rule files pass dashboard_lint.py, each cloud query was
\* judged and goes to the project and the datasource its panel names, each local
\* one was judged that it or its panel addresses, each rule's expr was read, and
\* each label in a block of a rule's labels is listed. A local query that nothing
\* addresses, and labels on the line of their key, are let through unread.
THEOREM PanelsTold == ToolsSpec => []PanelsShowListedLabels
<1> DEFINE Inv ==
      /\ tool = "cloud" => CloudInv
      /\ tool = "local" => LocalInv
      /\ tool = "rules" => RulesInv
<1>1. Start => Inv
  <2>1. Start => (tool = "cloud" => CloudInv)
    BY CloudInit DEF Start
  <2>2. Start => (tool = "local" => LocalInv)
    BY LocalInit DEF Start
  <2>3. Start => (tool = "rules" => RulesInv)
    BY RulesInit DEF Start
  <2> QED
    BY <2>1, <2>2, <2>3
<1>2. Inv /\ [Step]_all => Inv'
  <2> SUFFICES ASSUME Inv, [Step]_all PROVE Inv'
    OBVIOUS
  <2>1. /\ tool' = tool
        /\ tool = "cloud" => [Cloud!Next]_cloud_vars
        /\ tool = "local" => [Local!Next]_local_vars
        /\ tool = "rules" => [RuleFile!Next]_rules_vars
    <3>1. CASE LayOut BY <3>1 DEF LayOut
    <3>2. CASE WalkQuery BY <3>2 DEF WalkQuery
    <3>3. CASE ReadPipelines BY <3>3 DEF ReadPipelines
    <3>4. CASE LintCloud BY <3>4 DEF LintCloud
    <3>5. CASE LintLocal BY <3>5 DEF LintLocal
    <3>6. CASE LintRules BY <3>6 DEF LintRules
    <3>7. CASE LintTheFiles BY <3>7 DEF LintTheFiles
    <3>8. CASE ReadCatalogue BY <3>8 DEF ReadCatalogue
    <3>9. CASE UNCHANGED all BY <3>9 DEF all
    <3> QED BY <3>1, <3>2, <3>3, <3>4, <3>5, <3>6, <3>7, <3>8, <3>9 DEF Step
  <2>2. tool = "cloud" => CloudInv'
    BY <2>1, CloudStep
  <2>3. tool = "local" => LocalInv'
    BY <2>1, LocalStep
  <2>4. tool = "rules" => RulesInv'
    BY <2>1, RulesStep
  <2> QED
    BY <2>1, <2>2, <2>3, <2>4
<1>3. Inv => PanelsShowListedLabels
  BY CloudSafe, LocalSafe, RulesSafe DEF PanelsShowListedLabels
<1> QED
  BY <1>1, <1>2, <1>3, PTL DEF ToolsSpec
=============================================================================
