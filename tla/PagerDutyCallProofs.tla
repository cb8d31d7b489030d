------------------------- MODULE PagerDutyCallProofs -------------------------
(***************************************************************************)
(* What a call of PagerDuty's API and a test event promise, for every      *)
(* choice of their constants: for each the inductive invariant, that its   *)
(* first states have it, that its steps keep it and what it says.          *)
(***************************************************************************)
EXTENDS Programs, Integers, Sequences, FiniteSets, SequenceTheorems, FiniteSetTheorems,
  FunctionTheorems, TLAPS

-----------------------------------------------------------------------------
(* A call of PagerDuty's API *)

\* The place of an object among the first of a set, and the first k of them.
Rank(objects, o) == Cardinality({x \in objects : x <= o})
First(objects, k) == {o \in objects : Rank(objects, o) <= k}

\* A set's objects are ranked from one to how many they are, each with a rank of
\* its own, rising with them.
LEMMA Ranks ==
  ASSUME NEW S, S \subseteq Nat, IsFiniteSet(S)
  PROVE  /\ Cardinality(S) \in Nat
         /\ \A o \in S : Rank(S, o) \in Nat /\ 1 <= Rank(S, o) /\ Rank(S, o) <= Cardinality(S)
         /\ \A o, p \in S : o < p => Rank(S, o) < Rank(S, p)
         /\ \A o, p \in S : Rank(S, o) = Rank(S, p) => o = p
         /\ \A k \in 1..Cardinality(S) : \E o \in S : Rank(S, o) = k
<1> DEFINE N == Cardinality(S)
           Upto(o) == {x \in S : x <= o}
           at == [o \in S |-> Cardinality(Upto(o))]
<1>1. N \in Nat
  BY FS_CardinalityType
<1>2. ASSUME NEW o \in S
      PROVE  IsFiniteSet(Upto(o)) /\ Cardinality(Upto(o)) \in 1..N
  <2>1. Upto(o) \subseteq S /\ o \in Upto(o)
    BY <1>2
  <2>2. IsFiniteSet(Upto(o)) /\ Cardinality(Upto(o)) \in Nat /\ Cardinality(Upto(o)) <= N
    BY <2>1, FS_Subset, FS_CardinalityType
  <2>3. Cardinality(Upto(o)) # 0
    BY <2>1, <2>2, FS_EmptySet
  <2> QED
    BY <1>1, <2>2, <2>3
<1>3. ASSUME NEW o \in S, NEW p \in S, o < p
      PROVE  at[o] < at[p]
  <2> DEFINE A == Upto(o)
             B == Upto(p)
  <2>1. A \subseteq B /\ p \notin A /\ p \in B
    <3>1. o \in Nat /\ p \in Nat
      OBVIOUS
    <3>2. \A x \in S : x <= o => x <= p
      BY <1>3, <3>1
    <3>3. ~(p <= o) /\ p <= p
      BY <1>3, <3>1
    <3> QED
      BY <3>2, <3>3
  <2>2. IsFiniteSet(B) /\ A \subseteq B /\ A # B /\ at[o] = Cardinality(A) /\ at[p] = Cardinality(B)
    BY <1>2, <2>1
  <2>3. Cardinality(A) \in Nat /\ Cardinality(B) \in Nat
    BY <1>2
  <2> HIDE DEF A, B, at
  <2>4. Cardinality(A) <= Cardinality(B) /\ (Cardinality(A) = Cardinality(B) => A = B)
    BY <2>2, FS_Subset
  <2> QED
    BY <2>2, <2>3, <2>4
<1>4. at \in Injection(S, 1..N)
  <2>1. at \in [S -> 1..N]
    BY <1>2
  <2>2. \A o, p \in S : at[o] = at[p] => o = p
    <3> SUFFICES ASSUME NEW o \in S, NEW p \in S, at[o] = at[p], o # p PROVE FALSE
      OBVIOUS
    <3>1. at[o] \in Nat /\ at[p] \in Nat
      BY <1>2
    <3>2. at[o] < at[p] \/ at[p] < at[o]
      BY <1>3
    <3> HIDE DEF at
    <3> QED
      BY <3>1, <3>2
  <2> QED
    BY <2>1, <2>2, Fun_IsInj
<1>5. at \in Surjection(S, 1..N)
  BY <1>1, <1>4, FS_Injection, FS_Interval
<1>6. \A k \in 1..N : \E o \in S : at[o] = k
  BY <1>5 DEF Surjection
<1>7. \A o \in S : at[o] = Rank(S, o)
  BY DEF Rank
<1>8. \A o \in S : at[o] \in Nat /\ 1 <= at[o] /\ at[o] <= N
  BY <1>1, <1>2
<1> HIDE DEF at
<1> QED
  BY <1>1, <1>3, <1>4, <1>6, <1>7, <1>8 DEF Injection, IsInjective

\* The API counts as anyone does.
LEMMA SameCount == \A S : Request!Cardinality(S) = Cardinality(S)
BY Zenon DEF Cardinality, Request!Cardinality

\* It lists a set's objects by their ranks.
LEMMA InOrder ==
  ASSUME NEW S, S \subseteq Nat, IsFiniteSet(S)
  PROVE  /\ Request!Ordered(S) \in Seq(S) /\ Len(Request!Ordered(S)) = Cardinality(S)
         /\ \A n \in 1..Cardinality(S) :
              Request!Ordered(S)[n] \in S /\ Rank(S, Request!Ordered(S)[n]) = n
<1> DEFINE place(n) == CHOOSE o \in S : Rank(S, o) = n
<1>1. Request!Ordered(S) = [n \in 1..Cardinality(S) |-> place(n)]
  BY Zenon DEF Request!Ordered, Rank, Cardinality, Request!Cardinality
<1>2. \A n \in 1..Cardinality(S) : place(n) \in S /\ Rank(S, place(n)) = n
  BY Ranks
<1> HIDE DEF place
<1>3. Cardinality(S) \in Nat
  BY Ranks
<1> QED
  BY <1>1, <1>2, <1>3

\* The first of a set: none, or all of it.
LEMMA FirstEnds ==
  ASSUME NEW S, S \subseteq Nat, IsFiniteSet(S)
  PROVE  /\ First(S, 0) = {}
         /\ \A k \in Nat : k >= Cardinality(S) => First(S, k) = S
<1> DEFINE N == Cardinality(S)
<1>1. N \in Nat /\ \A o \in S : Rank(S, o) \in Nat /\ 1 <= Rank(S, o) /\ Rank(S, o) <= N
  BY Ranks
<1> HIDE DEF N
<1>2. \A k \in Nat : k >= N => \A o \in S : Rank(S, o) <= k
  BY <1>1
<1>3. \A o \in S : ~(Rank(S, o) <= 0)
  BY <1>1
<1> QED
  BY <1>2, <1>3 DEF First, N

\* Where an object is deleted, at most one more comes to be among the first.
LEMMA FirstWithout ==
  ASSUME NEW S, S \subseteq Nat, IsFiniteSet(S), NEW d, NEW k \in Nat
  PROVE  /\ \A o \in S \ {d} : Rank(S \ {d}, o) <= Rank(S, o)
         /\ \E e : First(S \ {d}, k) \subseteq First(S, k) \cup {e}
<1>1. ASSUME NEW o \in S \ {d}
      PROVE  /\ Rank(S, o) \in Nat /\ Rank(S \ {d}, o) \in Nat
             /\ Rank(S \ {d}, o) <= Rank(S, o) /\ Rank(S, o) <= Rank(S \ {d}, o) + 1
  <2> DEFINE A == {x \in S \ {d} : x <= o}
             B == {x \in S : x <= o}
  <2>1. IsFiniteSet(B) /\ IsFiniteSet(A) /\ A \subseteq B /\ d \notin A /\ B \subseteq A \cup {d}
    <3>1. IsFiniteSet(B)
      BY FS_Subset
    <3> QED
      BY <3>1, FS_Subset
  <2>2. IsFiniteSet(A \cup {d}) /\ Cardinality(A \cup {d}) = Cardinality(A) + 1
    BY <2>1, FS_AddElement
  <2>3. /\ Cardinality(A) \in Nat /\ Cardinality(B) \in Nat
        /\ Cardinality(A) <= Cardinality(B) /\ Cardinality(B) <= Cardinality(A \cup {d})
    BY <2>1, <2>2, FS_Subset, FS_CardinalityType
  <2> HIDE DEF A, B
  <2> QED
    BY <2>2, <2>3 DEF Rank, A, B
<1>2. ASSUME k + 1 \in 1..Cardinality(S)
      PROVE  \E e : First(S \ {d}, k) \subseteq First(S, k) \cup {e}
  <2>1. PICK e \in S : Rank(S, e) = k + 1
    BY <1>2, Ranks
  <2>2. ASSUME NEW o \in First(S \ {d}, k), o # e
        PROVE  o \in First(S, k)
    <3>1. o \in S \ {d} /\ Rank(S \ {d}, o) <= k
      BY <2>2 DEF First
    <3>2. Rank(S, o) # k + 1
      BY <2>1, <2>2, <3>1, Ranks
    <3>3. Rank(S, o) <= k
      BY <1>1, <3>1, <3>2
    <3> QED
      BY <3>1, <3>3 DEF First
  <2> QED
    BY <2>2
<1>3. ASSUME k + 1 \notin 1..Cardinality(S)
      PROVE  First(S \ {d}, k) \subseteq First(S, k)
  <2>1. Cardinality(S) \in Nat
    BY Ranks
  <2>2. k >= Cardinality(S)
    BY <1>3, <2>1
  <2>3. First(S, k) = S
    BY <2>2, FirstEnds
  <2> QED
    BY <2>3 DEF First
<1> QED
  BY <1>1, <1>2, <1>3

\* Where an object is added, none but it does.
LEMMA FirstWith ==
  ASSUME NEW S, S \subseteq Nat, IsFiniteSet(S), NEW d \in Nat, NEW k \in Nat
  PROVE  First(S \cup {d}, k) \subseteq First(S, k) \cup {d}
<1> SUFFICES ASSUME NEW o \in S, Rank(S \cup {d}, o) <= k PROVE Rank(S, o) <= k
  BY DEF First
<1> DEFINE A == {x \in S : x <= o}
           B == {x \in S \cup {d} : x <= o}
<1>1. IsFiniteSet(S \cup {d})
  BY FS_AddElement
<1>2. IsFiniteSet(B) /\ A \subseteq B
  BY <1>1, FS_Subset
<1>3. Cardinality(A) \in Nat /\ Cardinality(B) \in Nat /\ Cardinality(A) <= Cardinality(B)
  BY <1>2, FS_Subset, FS_CardinalityType
<1>4. Cardinality(B) <= k
  BY DEF Rank
<1> HIDE DEF A, B
<1>5. Cardinality(A) <= k
  BY <1>3, <1>4
<1> QED
  BY <1>5 DEF A, Rank

\* What a call lists is made of numbers.
LEMMA ObjectsAreNumbers ==
  /\ Objects \subseteq Nat /\ IsFiniteSet(Objects) /\ \A o \in Objects : o > 0
  /\ \A S \in SUBSET Objects : S \subseteq Nat /\ IsFiniteSet(S)
<1>1. Objects \subseteq Nat /\ IsFiniteSet(Objects) /\ \A o \in Objects : o > 0
  BY PagesAreOfObjects
<1> QED
  BY <1>1, FS_Subset

\* Later on the list means later in order.
ItemsRise == \A i, j \in DOMAIN items : i < j => items[i][2] < items[j][2]

\* What stayed and was not listed, of a workspace; and where a listing by offset
\* is past it.
MissedOf(w) == stayed[w] \ Request!Listed(w)
Passed ==
  {p \in Request!Workspaces \X Objects :
     /\ p[2] \in MissedOf(p[1])
     /\ p[1] < ws \/ (p[1] = ws /\ p[2] \in First(account[ws], offset))}

\* Types, and that a call that ended has promised what it promises. Sleep is by
\* the attempt; nothing is listed for a write.
RequestTypes ==
  /\ Request!TypeOK /\ slept <= 30 * attempt
  /\ job = "write" => stayed = [w \in Request!Workspaces |-> {}]

\* While it asks, no more is passed over than was deleted; find_by_name's list
\* rises, ahead of all that is still to come, unless an object was added; and a
\* cursor lists in order all that stayed up to it.
AskingInv ==
  /\ job = "write" => carried = 0
  /\ job \in {"list", "find", "slack"} => Cardinality(Passed) <= gone.deleted
  /\ job = "find" /\ gone.added = 0 =>
       /\ ItemsRise
       /\ \A o \in account[1] : Rank(account[1], o) > offset =>
            \A i \in DOMAIN items : items[i][2] < o
  /\ job = "cursor" =>
       /\ ItemsRise /\ \A i \in DOMAIN items : items[i][2] <= after
       /\ \A o \in stayed[1] : o <= after => o \in Request!Listed(1)

RequestInv ==
  /\ RequestTypes
  /\ call_at = "asking" => AskingInv
  /\ call_at # "asking" => Request!Safe

\* The workspaces of a job are numbers, and finitely many.
LEMMA WorkspacesAreNumbers ==
  /\ Request!Workspaces \subseteq Nat /\ IsFiniteSet(Request!Workspaces) /\ 1 \in Request!Workspaces
  /\ \A w \in Request!Workspaces : w >= 1 /\ w <= 2
  /\ job # "slack" => Request!Workspaces = {1}
<1>1. Request!Workspaces = {1} \/ Request!Workspaces = {1, 2}
  BY DEF Request!Workspaces
<1>2. IsFiniteSet({1}) /\ IsFiniteSet({1, 2})
  BY FS_EmptySet, FS_AddElement, FS_Singleton
<1>3. job # "slack" => Request!Workspaces = {1}
  BY DEF Request!Workspaces
<1> QED
  BY <1>1, <1>2, <1>3

\* What is missed is finite.
LEMMA FiniteMissed ==
  ASSUME Request!TypeOK, NEW A, A \subseteq Request!Workspaces \X Objects
  PROVE  IsFiniteSet(A) /\ Cardinality(A) \in Nat
<1>1. IsFiniteSet(Request!Workspaces \X Objects)
  BY WorkspacesAreNumbers, ObjectsAreNumbers, FS_Product
<1> QED
  BY <1>1, FS_Subset, FS_CardinalityType

\* What is missed of every workspace.
LEMMA MissedIs ==
  ASSUME Request!TypeOK
  PROVE  Request!Missed = {p \in Request!Workspaces \X Objects : p[2] \in MissedOf(p[1])}
BY DEF Request!Missed, MissedOf, Request!TypeOK

\* A part of a sequence.
LEMMA PartOf ==
  ASSUME NEW S, NEW s \in Seq(S), NEW m \in Nat, m >= 1, NEW n \in Nat, n <= Len(s)
  PROVE  /\ SubSeq(s, m, n) \in Seq(S)
         /\ Len(SubSeq(s, m, n)) = (IF m <= n THEN n - m + 1 ELSE 0)
         /\ \A i \in 1..Len(SubSeq(s, m, n)) : SubSeq(s, m, n)[i] = s[m + i - 1]
OBVIOUS

\* A page by offset: the objects ranked next, one at least unless all is listed.
LEMMA OffsetPage ==
  ASSUME RequestTypes, job # "cursor", NEW page \in Request!Pages
  PROVE  /\ page \in Seq(account[ws]) /\ page \in Seq(Objects) /\ Len(page) \in Nat
         /\ \A i \in 1..Len(page) : page[i] \in account[ws] /\ Rank(account[ws], page[i]) = offset + i
         /\ \A i, j \in 1..Len(page) : i < j => page[i] < page[j]
         /\ \A o \in First(account[ws], offset + Len(page)) :
              o \in First(account[ws], offset) \/ \E i \in 1..Len(page) : o = page[i]
         /\ ~(Len(page) < Len(Request!Left) /\ page # <<>>) =>
              First(account[ws], offset + Len(page)) = account[ws]
<1> DEFINE S == account[ws]
           E == Request!Ordered(S)
           C == Cardinality(S)
           L == Request!Left
<1>1. S \in SUBSET Objects /\ S \subseteq Nat /\ IsFiniteSet(S) /\ C \in Nat /\ offset \in Nat
  BY ObjectsAreNumbers, Ranks DEF RequestTypes, Request!TypeOK
<1>2. E \in Seq(S) /\ Len(E) = C /\ \A n \in 1..C : E[n] \in S /\ Rank(S, E[n]) = n
  BY <1>1, InOrder
<1>3. L = SubSeq(E, offset + 1, C)
  BY SameCount DEF Request!Left
<1> HIDE DEF E, C, L
<1>4. /\ L \in Seq(S)
      /\ Len(L) = (IF offset + 1 <= C THEN C - offset ELSE 0)
      /\ \A i \in 1..Len(L) : L[i] = E[offset + i]
  <2>1. offset + 1 \in Nat /\ offset + 1 >= 1 /\ C \in Nat /\ C <= Len(E)
    BY <1>1, <1>2
  <2>2. /\ L \in Seq(S)
        /\ Len(L) = (IF offset + 1 <= C THEN C - (offset + 1) + 1 ELSE 0)
        /\ \A i \in 1..Len(L) : L[i] = E[(offset + 1) + i - 1]
    <3>1. E \in Seq(S)
      BY <1>2
    <3> HIDE DEF S
    <3> DEFINE m == offset + 1
    <3>2. m \in Nat /\ m >= 1 /\ C \in Nat /\ C <= Len(E) /\ L = SubSeq(E, m, C)
      BY <1>3, <2>1
    <3> HIDE DEF m
    <3>3. /\ L \in Seq(S)
          /\ Len(L) = (IF m <= C THEN C - m + 1 ELSE 0)
          /\ \A i \in 1..Len(L) : L[i] = E[m + i - 1]
      BY <3>1, <3>2, PartOf
    <3> QED
      BY <3>3 DEF m
  <2>3. Len(L) = (IF offset + 1 <= C THEN C - offset ELSE 0)
    BY <1>1, <2>2
  <2>4. \A i \in 1..Len(L) : (offset + 1) + i - 1 = offset + i
    BY <1>1
  <2> QED
    BY <2>2, <2>3, <2>4
<1>5. PICK n \in 0..Page : n <= Len(L) /\ page = SubSeq(L, 1, n) /\ (n = 0 => L = <<>>)
  BY DEF Request!Pages, L
<1>6. n \in Nat /\ Len(L) \in Nat
  BY <1>4, PagesAreOfObjects
<1>7. page \in Seq(S) /\ Len(page) = n /\ \A i \in 1..n : page[i] = E[offset + i]
  <2>1. /\ page \in Seq(S) /\ Len(page) = (IF 1 <= n THEN n - 1 + 1 ELSE 0)
        /\ \A i \in 1..Len(page) : page[i] = L[1 + i - 1]
    <3>1. L \in Seq(S) /\ n \in Nat /\ n <= Len(L) /\ page = SubSeq(L, 1, n) /\ 1 \in Nat /\ 1 >= 1
      BY <1>4, <1>5, <1>6
    <3> HIDE DEF S
    <3> QED
      BY <3>1, PartOf
  <2>2. Len(page) = n /\ \A i \in 1..n : page[i] = L[i] /\ i \in 1..Len(L)
    BY <1>5, <1>6, <2>1
  <2> QED
    BY <1>4, <2>1, <2>2
<1>8. offset + n <= C \/ (n = 0 /\ offset >= C)
  BY <1>1, <1>4, <1>5, <1>6
<1>9. \A i \in 1..n : offset + i \in 1..C
  BY <1>1, <1>6, <1>8
<1>10. \A i \in 1..n : Rank(S, page[i]) = offset + i
  BY <1>2, <1>7, <1>9
<1>11. ASSUME NEW o \in First(S, offset + n), o \notin First(S, offset)
       PROVE  \E i \in 1..n : o = page[i]
  <2>1. o \in S /\ Rank(S, o) <= offset + n /\ ~(Rank(S, o) <= offset) /\ Rank(S, o) \in Nat
    BY <1>1, <1>11, Ranks DEF First
  <2>2. Rank(S, o) - offset \in 1..n
    BY <1>1, <1>6, <2>1
  <2>3. PICK i \in 1..n : i = Rank(S, o) - offset
    BY <2>2
  <2>4. Rank(S, page[i]) = Rank(S, o) /\ page[i] \in S
    BY <1>1, <1>2, <1>7, <1>9, <1>10, <2>1, <2>3
  <2> QED
    BY <1>1, <2>1, <2>4, Ranks
<1>12. ASSUME ~(n < Len(L) /\ page # <<>>)
       PROVE  First(S, offset + n) = S
  <2>1. n = Len(L)
    <3>1. n = 0 => Len(L) = 0
      BY <1>5
    <3>2. n # 0 => page # <<>>
      BY <1>7
    <3> QED
      BY <1>5, <1>6, <1>12, <3>1, <3>2
  <2>2. offset + n >= C /\ offset + n \in Nat
    BY <1>1, <1>4, <1>6, <2>1
  <2> QED
    BY <1>1, <2>2, FirstEnds DEF C
<1>13. page \in Seq(Objects)
  BY <1>1, <1>7
<1>14. \A i, j \in 1..n : i < j => page[i] < page[j]
  <2> SUFFICES ASSUME NEW i \in 1..n, NEW j \in 1..n, i < j, ~(page[i] < page[j]) PROVE FALSE
    OBVIOUS
  <2>1. page[i] \in S /\ page[j] \in S
    BY <1>2, <1>7, <1>9
  <2>2. \A x, y \in S : x < y => Rank(S, x) < Rank(S, y)
    BY <1>1, Ranks
  <2>3. page[i] = page[j] \/ page[j] < page[i]
    <3>1. page[i] \in Nat /\ page[j] \in Nat
      BY <1>1, <2>1
    <3> QED
      BY <3>1
  <2>4. Rank(S, page[i]) = offset + i /\ Rank(S, page[j]) = offset + j
    BY <1>10
  <2>5. ~(offset + j = offset + i) /\ ~(offset + j < offset + i)
    BY <1>1, <1>6
  <2> QED
    BY <2>1, <2>2, <2>3, <2>4, <2>5
<1>15. \A i \in 1..n : page[i] \in S
  BY <1>2, <1>7, <1>9
<1> QED
  BY <1>6, <1>7, <1>10, <1>11, <1>12, <1>13, <1>14, <1>15 DEF L

\* A page by cursor: in order, all that is left up to its last object, or all.
LEMMA CursorPage ==
  ASSUME RequestTypes, job = "cursor", NEW page \in Request!Pages
  PROVE  /\ page \in Seq(account[ws]) /\ page \in Seq(Objects) /\ Len(page) \in Nat
         /\ \A i \in 1..Len(page) : page[i] > after
         /\ \A i, j \in 1..Len(page) : i < j => page[i] < page[j]
         /\ Len(page) < Len(Request!Left) =>
              /\ Len(page) > 0
              /\ \A o \in account[ws] : o > after /\ o <= page[Len(page)] =>
                   \E i \in 1..Len(page) : o = page[i]
         /\ ~(Len(page) < Len(Request!Left)) =>
              \A o \in account[ws] : o > after => \E i \in 1..Len(page) : o = page[i]
<1> DEFINE S == {o \in account[ws] : o > after}
           E == Request!Ordered(S)
           C == Cardinality(S)
<1>1. /\ account[ws] \in SUBSET Objects /\ S \in SUBSET Objects
      /\ S \subseteq Nat /\ IsFiniteSet(S) /\ C \in Nat
  <2>1. account[ws] \in SUBSET Objects
    BY DEF RequestTypes, Request!TypeOK
  <2>2. S \in SUBSET Objects
    BY <2>1
  <2> HIDE DEF S
  <2> QED
    BY <2>1, <2>2, ObjectsAreNumbers, Ranks
<1>2. E \in Seq(S) /\ Len(E) = C /\ \A n \in 1..C : E[n] \in S /\ Rank(S, E[n]) = n
  <2> HIDE DEF S
  <2> QED
    BY <1>1, InOrder
<1>3. Request!Left = E
  BY DEF Request!Left
<1>0. /\ \A o \in S : o \in Nat /\ Rank(S, o) \in Nat /\ 1 <= Rank(S, o) /\ Rank(S, o) <= C
      /\ \A o, p \in S : o < p => Rank(S, o) < Rank(S, p)
      /\ \A o, p \in S : Rank(S, o) = Rank(S, p) => o = p
  <2> HIDE DEF S
  <2> QED
    BY <1>1, Ranks
<1> HIDE DEF E, S, C
<1>4. PICK n \in 0..Page : n <= C /\ page = SubSeq(E, 1, n) /\ (n = 0 => E = <<>>)
  BY <1>2, <1>3 DEF Request!Pages
<1>5. n \in Nat
  BY <1>4, PagesAreOfObjects
<1>6. page \in Seq(S) /\ Len(page) = n /\ \A i \in 1..n : page[i] = E[i]
  BY <1>1, <1>2, <1>4, <1>5
<1>7. \A i \in 1..n : i \in 1..C /\ page[i] \in S /\ Rank(S, page[i]) = i
  BY <1>1, <1>2, <1>4, <1>5, <1>6
<1>8. \A i, j \in 1..n : i < j => page[i] < page[j]
  <2> SUFFICES ASSUME NEW i \in 1..n, NEW j \in 1..n, i < j, ~(page[i] < page[j]) PROVE FALSE
    OBVIOUS
  <2>1. page[i] \in S /\ page[j] \in S /\ Rank(S, page[i]) = i /\ Rank(S, page[j]) = j
    BY <1>7
  <2>2. page[i] = page[j] \/ page[j] < page[i]
    BY <1>0, <2>1
  <2>3. Rank(S, page[j]) <= Rank(S, page[i])
    BY <1>0, <2>1, <2>2
  <2> QED
    BY <2>1, <2>3
<1>9. ASSUME NEW o \in S, Rank(S, o) <= n
      PROVE  \E i \in 1..n : o = page[i]
  <2>1. Rank(S, o) \in 1..n
    BY <1>0, <1>5, <1>9
  <2>2. Rank(S, page[Rank(S, o)]) = Rank(S, o) /\ page[Rank(S, o)] \in S
    BY <1>7, <2>1
  <2> QED
    BY <1>0, <2>1, <2>2
<1>10. ASSUME n < C
       PROVE  /\ n > 0
              /\ \A o \in S : o <= page[n] => \E i \in 1..n : o = page[i]
  <2>1. n > 0
    BY <1>2, <1>4, <1>5, <1>10
  <2>2. ASSUME NEW o \in S, o <= page[n]
        PROVE  Rank(S, o) <= n
    <3>1. page[n] \in S /\ Rank(S, page[n]) = n
      BY <1>5, <1>7, <2>1
    <3>2. o = page[n] \/ o < page[n]
      BY <1>0, <2>2, <3>1
    <3>3. Rank(S, o) = n \/ Rank(S, o) < n
      BY <1>0, <3>1, <3>2
    <3> QED
      BY <1>0, <1>5, <2>2, <3>3
  <2> QED
    BY <1>9, <2>1, <2>2
<1>11. ASSUME ~(n < C), NEW o \in S
       PROVE  \E i \in 1..n : o = page[i]
  <2>1. Rank(S, o) <= n
    BY <1>0, <1>1, <1>4, <1>5, <1>11
  <2> QED
    BY <1>9, <2>1
<1>12. page \in Seq(account[ws]) /\ page \in Seq(Objects) /\ \A i \in 1..n : page[i] > after
  <2>1. \A x \in S : x \in account[ws] /\ x \in Objects /\ x > after
    BY <1>1 DEF S
  <2> QED
    BY <1>6, <1>7, <2>1
<1>13. Len(Request!Left) = C
  BY <1>2, <1>3
<1>14. \A o \in account[ws] : o > after => o \in S
  BY DEF S
<1> QED
  BY <1>5, <1>6, <1>8, <1>10, <1>11, <1>12, <1>13, <1>14

\* The places of a sequence.
LEMMA PlacesOf ==
  ASSUME NEW S, NEW s \in Seq(S)
  PROVE  DOMAIN s = 1..Len(s) /\ Len(s) \in Nat /\ \A i \in 1..Len(s) : s[i] \in S
OBVIOUS

\* A pair is made of its two.
LEMMA PairsOf ==
  ASSUME NEW S, NEW T, NEW p \in S \X T
  PROVE  p = <<p[1], p[2]>> /\ p[1] \in S /\ p[2] \in T
OBVIOUS

\* One sequence after another.
LEMMA JoinOf ==
  ASSUME NEW S, NEW s \in Seq(S), NEW t \in Seq(S)
  PROVE  /\ s \o t \in Seq(S) /\ Len(s \o t) = Len(s) + Len(t) /\ Len(s) \in Nat /\ Len(t) \in Nat
         /\ \A i \in 1..Len(s) : (s \o t)[i] = s[i]
         /\ \A i \in 1..Len(t) : (s \o t)[Len(s) + i] = t[i]
OBVIOUS

\* What is listed of a workspace.
LEMMA ListedIs ==
  ASSUME NEW w, NEW o, DOMAIN items = 1..Len(items)
  PROVE  o \in Request!Listed(w) <=>
           \E i \in 1..Len(items) : items[i][1] = w /\ items[i][2] = o
BY Zenon DEF Request!Listed

\* A page is listed after what was, under its workspace.
LEMMA TakenPage ==
  ASSUME RequestTypes, NEW page \in Seq(Objects), Request!Take(page), job' = job
  PROVE  /\ items' \in Seq(Request!Workspaces \X Objects)
         /\ DOMAIN items = 1..Len(items) /\ DOMAIN items' = 1..Len(items')
         /\ Len(items') = Len(items) + Len(page) /\ Len(items) \in Nat /\ Len(page) \in Nat
         /\ \A i \in 1..Len(items) : items'[i] = items[i]
         /\ \A i \in 1..Len(page) : items'[Len(items) + i] = <<ws, page[i]>>
         /\ \A i \in 1..Len(items') :
              i \in 1..Len(items) \/ \E k \in 1..Len(page) : i = Len(items) + k
         /\ \A i \in 1..Len(items') : items'[i][1] \in Request!Workspaces /\ items'[i][2] \in Objects
<1> DEFINE more == [i \in 1..Len(page) |-> <<ws, page[i]>>]
           T == Request!Workspaces \X Objects
<1>1. /\ items \in Seq(T) /\ ws \in Request!Workspaces
      /\ DOMAIN page = 1..Len(page) /\ Len(page) \in Nat /\ \A i \in 1..Len(page) : page[i] \in Objects
  BY PlacesOf DEF RequestTypes, Request!TypeOK
<1>2. /\ more \in Seq(T) /\ Len(more) = Len(page)
      /\ \A i \in 1..Len(page) : more[i] = <<ws, page[i]>>
  BY <1>1
<1>3. items' = items \o more
  BY <1>1 DEF Request!Take
<1>4. \A p \in T : p[1] \in Request!Workspaces /\ p[2] \in Objects
  BY PairsOf
<1> HIDE DEF more, T
<1>5. /\ items' \in Seq(T) /\ Len(items') = Len(items) + Len(page) /\ Len(items) \in Nat
      /\ \A i \in 1..Len(items) : items'[i] = items[i]
      /\ \A i \in 1..Len(page) : items'[Len(items) + i] = <<ws, page[i]>>
  <2> DEFINE joined == items \o more
  <2>1. /\ joined \in Seq(T) /\ Len(joined) = Len(items) + Len(more) /\ Len(items) \in Nat
        /\ \A i \in 1..Len(items) : joined[i] = items[i]
        /\ \A i \in 1..Len(more) : joined[Len(items) + i] = more[i]
    <3>1. items \in Seq(T) /\ more \in Seq(T)
      BY <1>1, <1>2
    <3> QED
      BY <3>1
  <2> HIDE DEF joined
  <2>2. items' = joined
    BY <1>3 DEF joined
  <2> QED
    BY <1>2, <2>1, <2>2
<1>6. /\ DOMAIN items = 1..Len(items) /\ DOMAIN items' = 1..Len(items')
      /\ \A i \in 1..Len(items') : items'[i] \in T
  BY <1>1, <1>5, PlacesOf
<1>7. ASSUME NEW i \in 1..Len(items'), i \notin 1..Len(items)
      PROVE  \E k \in 1..Len(page) : i = Len(items) + k
  <2>1. i - Len(items) \in 1..Len(page) /\ i = Len(items) + (i - Len(items))
    BY <1>1, <1>5, <1>7
  <2> QED
    BY <2>1
<1> QED
  BY <1>1, <1>4, <1>5, <1>6, <1>7 DEF T

\* So what was listed stays so, the page is listed, and nothing else.
LEMMA TakenListed ==
  ASSUME RequestTypes, NEW page \in Seq(Objects), Request!Take(page), job' = job
  PROVE  /\ \A w : Request!Listed(w) \subseteq Request!Listed(w)'
         /\ \A w : w # ws => Request!Listed(w)' \subseteq Request!Listed(w)
         /\ \A w : w = ws => \A i \in 1..Len(page) : page[i] \in Request!Listed(w)'
<1> DEFINE In(w, o) == \E i \in 1..Len(items) : items[i][1] = w /\ items[i][2] = o
           Out(w, o) == \E i \in 1..Len(items') : items'[i][1] = w /\ items'[i][2] = o
<1>1. /\ Len(items') = Len(items) + Len(page) /\ Len(items) \in Nat /\ Len(page) \in Nat
      /\ \A i \in 1..Len(items) : items'[i] = items[i]
      /\ \A i \in 1..Len(page) : items'[Len(items) + i] = <<ws, page[i]>>
      /\ \A i \in 1..Len(items') :
           i \in 1..Len(items) \/ \E k \in 1..Len(page) : i = Len(items) + k
  BY TakenPage
<1>2. \A w, o : /\ o \in Request!Listed(w) <=> In(w, o)
                /\ o \in Request!Listed(w)' <=> Out(w, o)
  <2>1. DOMAIN items = 1..Len(items) /\ DOMAIN items' = 1..Len(items')
    BY TakenPage
  <2>2. \A w, o : o \in Request!Listed(w) <=> In(w, o)
    BY <2>1, ListedIs
  <2>3. \A w, o : o \in Request!Listed(w)' <=> Out(w, o)
    BY <2>1, Zenon DEF Request!Listed
  <2> QED
    BY <2>2, <2>3
<1>3. \A i \in 1..Len(items) : i \in 1..Len(items')
  BY <1>1
<1>4. \A i \in 1..Len(page) : Len(items) + i \in 1..Len(items')
  BY <1>1
<1>5. \A w, o : In(w, o) => Out(w, o)
  BY <1>1, <1>3
<1>6. \A w, o : w # ws /\ Out(w, o) => In(w, o)
  <2> SUFFICES ASSUME NEW w, NEW o, w # ws, NEW i \in 1..Len(items'), items'[i][1] = w, items'[i][2] = o
               PROVE  In(w, o)
    OBVIOUS
  <2>1. i \in 1..Len(items)
    <3>1. ASSUME NEW k \in 1..Len(page), i = Len(items) + k PROVE FALSE
      BY <1>1, <3>1
    <3> QED
      BY <1>1, <3>1
  <2> QED
    BY <1>1, <2>1
<1>7. ASSUME NEW i \in 1..Len(page) PROVE Out(ws, page[i])
  <2>1. PICK k \in 1..Len(items') : items'[k] = <<ws, page[i]>>
    BY <1>1, <1>4
  <2>2. items'[k][1] = ws /\ items'[k][2] = page[i]
    BY <2>1
  <2> QED
    BY <2>2
<1> HIDE DEF In, Out
<1>8. \A w : Request!Listed(w) \subseteq Request!Listed(w)'
  BY <1>2, <1>5, Zenon
<1>9. \A w : w # ws => Request!Listed(w)' \subseteq Request!Listed(w)
  BY <1>2, <1>6, Zenon
<1>10. \A w : w = ws => \A i \in 1..Len(page) : page[i] \in Request!Listed(w)'
  BY <1>2, <1>7, Zenon
<1> QED
  BY <1>8, <1>9, <1>10, Zenon

\* If the page rises, ahead of all that was listed, the list still rises.
LEMMA StillRises ==
  ASSUME RequestTypes, NEW page \in Seq(Objects), Request!Take(page), job' = job, ItemsRise,
         \A i, j \in 1..Len(page) : i < j => page[i] < page[j],
         \A i \in DOMAIN items : \A j \in 1..Len(page) : items[i][2] < page[j]
  PROVE  ItemsRise'
<1>1. /\ Len(items') = Len(items) + Len(page) /\ Len(items) \in Nat /\ Len(page) \in Nat
      /\ \A i \in 1..Len(items) : items'[i] = items[i]
      /\ \A i \in 1..Len(page) : items'[Len(items) + i][2] = page[i]
      /\ \A i \in 1..Len(items') :
           i \in 1..Len(items) \/ \E k \in 1..Len(page) : i = Len(items) + k
  <2>1. \A i \in 1..Len(page) : items'[Len(items) + i] = <<ws, page[i]>>
    BY TakenPage
  <2>2. \A i \in 1..Len(page) : items'[Len(items) + i][2] = page[i]
    BY <2>1
  <2> QED
    BY <2>2, TakenPage
<1>5. DOMAIN items' = 1..Len(items') /\ DOMAIN items = 1..Len(items)
  BY TakenPage
<1> SUFFICES ASSUME NEW i \in 1..Len(items'), NEW j \in 1..Len(items'), i < j
             PROVE  items'[i][2] < items'[j][2]
  BY <1>5 DEF ItemsRise
<1>2. CASE j \in 1..Len(items)
  <2>1. i \in 1..Len(items)
    BY <1>1, <1>2
  <2> QED
    BY <1>1, <1>2, <1>5, <2>1 DEF ItemsRise
<1>3. CASE i \in 1..Len(items) /\ j \notin 1..Len(items)
  <2>1. PICK k \in 1..Len(page) : j = Len(items) + k
    BY <1>1, <1>3
  <2> QED
    BY <1>1, <1>3, <1>5, <2>1
<1>4. CASE i \notin 1..Len(items)
  <2>1. PICK k \in 1..Len(page) : j = Len(items) + k
    <3>1. j \notin 1..Len(items)
      BY <1>1, <1>4
    <3> QED
      BY <1>1, <3>1
  <2>2. PICK m \in 1..Len(page) : i = Len(items) + m
    BY <1>1, <1>4
  <2>3. m < k
    BY <1>1, <2>1, <2>2
  <2> QED
    BY <1>1, <2>1, <2>2, <2>3
<1> QED
  BY <1>2, <1>3, <1>4

\* A call begins with nothing listed and nothing missed.
LEMMA RequestInit == Request!Init => RequestInv
<1> SUFFICES ASSUME Request!Init PROVE RequestInv
  OBVIOUS
<1>1. /\ job \in Jobs /\ call_at = "asking" /\ ws = 1 /\ offset = 0 /\ after = 0 /\ items = <<>>
      /\ attempt = 0 /\ slept = 0 /\ carried = 0
      /\ account \in [Request!Workspaces -> SUBSET Objects]
      /\ job = "write" => account = [w \in Request!Workspaces |-> {}]
      /\ stayed = account /\ gone = [deleted |-> 0, added |-> 0]
  BY DEF Request!Init
<1>2. RequestTypes
  <2>1. gone \in [deleted : 0..MaxChanges, added : 0..MaxChanges]
    BY <1>1, PagesAreOfObjects
  <2>2. Request!TypeOK
    BY <1>1, <2>1, WorkspacesAreNumbers DEF Request!TypeOK
  <2> QED
    BY <1>1, <2>2 DEF RequestTypes
<1>3. Passed = {}
  <2> SUFFICES ASSUME NEW p \in Passed PROVE FALSE
    OBVIOUS
  <2>1. /\ p[1] \in Request!Workspaces /\ p[2] \in MissedOf(p[1])
        /\ p[1] < ws \/ (p[1] = ws /\ p[2] \in First(account[ws], offset))
    BY PairsOf DEF Passed
  <2>2. p[1] \in Nat /\ p[1] >= 1
    BY <2>1, WorkspacesAreNumbers
  <2>3. p[2] \in First(account[1], 0)
    BY <1>1, <2>1, <2>2
  <2>4. account[1] \subseteq Nat /\ IsFiniteSet(account[1])
    BY <1>1, ObjectsAreNumbers, WorkspacesAreNumbers
  <2> QED
    BY <2>3, <2>4, FirstEnds
<1>4. DOMAIN items = {}
  BY <1>1
<1>5. job = "cursor" => \A o \in stayed[1] : ~(o <= after)
  <2>1. stayed[1] \subseteq Objects
    BY <1>1, WorkspacesAreNumbers
  <2> QED
    BY <1>1, <2>1, ObjectsAreNumbers
<1>6. Cardinality(Passed) = 0
  BY <1>3, FS_EmptySet
<1>7. AskingInv
  BY <1>1, <1>4, <1>5, <1>6 DEF AskingInv, ItemsRise
<1> QED
  BY <1>1, <1>2, <1>7 DEF RequestInv

\* A call that raised promises what its types do.
LEMMA RaisedPromises ==
  ASSUME RequestTypes', call_at' = "raised"
  PROVE  RequestInv'
<1>1. Request!TypeOK' /\ Request!WrittenOnce'
  BY DEF RequestTypes, Request!TypeOK, Request!WrittenOnce
<1>2. /\ Request!CursorIsWhole' /\ Request!OffsetMissesWhatWasDeleted' /\ Request!NeverGuesses'
      /\ Request!RefusesOnlyTwins'
  BY Zenon DEF Request!CursorIsWhole, Request!OffsetMissesWhatWasDeleted, Request!NeverGuesses,
       Request!RefusesOnlyTwins
<1> QED
  BY <1>1, <1>2 DEF RequestInv, Request!Safe

\* A request that failed changes nothing of the listing.
LEMMA SameListing ==
  ASSUME job' = job, UNCHANGED <<ws, offset, after, items, account, stayed, gone>>,
         job = "write" => carried' = carried, AskingInv
  PROVE  AskingInv'
<1>1. Passed' = Passed
  BY DEF Passed, MissedOf, Request!Listed, Request!Workspaces
<1>2. Request!Listed(1)' = Request!Listed(1)
  BY DEF Request!Listed
<1>3. ItemsRise' = ItemsRise
  BY DEF ItemsRise
<1> QED
  BY <1>1, <1>2, <1>3 DEF AskingInv

\* A 429's pauses stay within what its attempts allow; it changes no listing.
LEMMA RequestLimited == RequestInv /\ Request!Limited => RequestInv'
<1> SUFFICES ASSUME RequestInv, Request!Limited PROVE RequestInv'
  OBVIOUS
<1>1. /\ call_at = "asking" /\ job' = job /\ carried' = carried
      /\ UNCHANGED <<ws, offset, after, items, account, stayed, gone>>
  BY DEF Request!Limited, Request!listing, Request!others
<1>2. Request!Workspaces' = Request!Workspaces
  BY <1>1 DEF Request!Workspaces
<1>3. /\ RequestTypes /\ attempt \in 0..3 /\ slept \in 0..90 /\ slept <= 30 * attempt
  BY DEF RequestInv, RequestTypes, Request!TypeOK
<1>4. PICK r \in Request!RetryAfter :
        IF attempt < 3 /\ r # Request!Date
        THEN attempt' = attempt + 1 /\ slept' = slept + Request!Pause(r) /\ UNCHANGED call_at
        ELSE Request!Raise
  BY DEF Request!Limited
<1>5. CASE attempt < 3 /\ r # Request!Date
  <2>1. Request!Pause(r) \in Nat /\ Request!Pause(r) <= 30
    BY <1>5 DEF Request!RetryAfter, Request!Pause, Request!NoHeader, Request!Date
  <2>2. attempt' = attempt + 1 /\ slept' = slept + Request!Pause(r) /\ UNCHANGED call_at
    BY <1>4, <1>5
  <2> HIDE DEF Request!Pause
  <2>3. attempt' \in 0..3 /\ slept' \in 0..90 /\ slept' <= 30 * attempt'
    BY <1>3, <1>5, <2>1, <2>2
  <2>4. RequestTypes'
    BY <1>1, <1>2, <1>3, <2>2, <2>3 DEF RequestTypes, Request!TypeOK
  <2>5. AskingInv'
    BY <1>1, SameListing DEF RequestInv
  <2> QED
    BY <1>1, <2>2, <2>4, <2>5 DEF RequestInv
<1>6. CASE ~(attempt < 3 /\ r # Request!Date)
  <2>1. call_at' = "raised" /\ UNCHANGED <<attempt, slept>>
    BY <1>4, <1>6 DEF Request!Raise
  <2>2. RequestTypes'
    BY <1>1, <1>2, <1>3, <2>1 DEF RequestTypes, Request!TypeOK
  <2> QED
    BY <2>1, <2>2, RaisedPromises
<1> QED
  BY <1>5, <1>6

\* A failed request ends the call, and may have been carried out.
LEMMA RequestFailed == RequestInv /\ Request!Failed => RequestInv'
<1> SUFFICES ASSUME RequestInv, Request!Failed PROVE RequestInv'
  OBVIOUS
<1>1. /\ call_at = "asking" /\ call_at' = "raised" /\ job' = job /\ UNCHANGED <<attempt, slept>>
      /\ UNCHANGED <<ws, offset, after, items, account, stayed, gone>>
      /\ carried' \in IF job = "write" THEN {carried, carried + 1} ELSE {carried}
  BY DEF Request!Failed, Request!Raise, Request!listing, Request!others
<1>2. Request!Workspaces' = Request!Workspaces
  BY <1>1 DEF Request!Workspaces
<1>3. carried' \in 0..1
  BY <1>1 DEF RequestInv, AskingInv, RequestTypes, Request!TypeOK
<1>4. RequestTypes'
  BY <1>1, <1>2, <1>3 DEF RequestInv, RequestTypes, Request!TypeOK
<1> QED
  BY <1>1, <1>4, RaisedPromises

\* Nothing was there for a write to miss.
LEMMA RequestWrite == RequestInv /\ Request!Write => RequestInv'
<1> SUFFICES ASSUME RequestInv, Request!Write PROVE RequestInv'
  OBVIOUS
<1>1. /\ call_at = "asking" /\ job = "write" /\ call_at' = "returned" /\ carried' = carried + 1
      /\ job' = job /\ UNCHANGED <<attempt, slept>>
      /\ UNCHANGED <<ws, offset, after, items, account, stayed, gone>>
  BY DEF Request!Write, Request!listing, Request!others
<1>2. Request!Workspaces' = Request!Workspaces
  BY <1>1 DEF Request!Workspaces
<1>3. carried' = 1
  BY <1>1 DEF RequestInv, AskingInv
<1>4. RequestTypes'
  BY <1>1, <1>2, <1>3 DEF RequestInv, RequestTypes, Request!TypeOK
<1>5. Request!Missed' = {}
  <2>1. stayed' = [w \in Request!Workspaces |-> {}]
    BY <1>1 DEF RequestInv, RequestTypes
  <2> SUFFICES ASSUME NEW w \in Request!Workspaces PROVE stayed'[w] = {}
    BY <1>2, Zenon DEF Request!Missed
  <2> QED
    BY <2>1
<1>6. Request!Cardinality(Request!Missed') = 0 /\ gone'.deleted >= 0
  BY <1>1, <1>5, SameCount, FS_EmptySet DEF RequestInv, RequestTypes, Request!TypeOK
<1>7. Request!OffsetMissesWhatWasDeleted'
  BY <1>6 DEF Request!OffsetMissesWhatWasDeleted
<1> QED
  BY <1>1, <1>3, <1>4, <1>7 DEF RequestInv, RequestTypes, Request!Safe, Request!WrittenOnce,
       Request!CursorIsWhole, Request!NeverGuesses, Request!RefusesOnlyTwins

\* What was passed over, one by one.
LEMMA PassedIs ==
  ASSUME NEW p
  PROVE  p \in Passed <=>
           /\ p \in Request!Workspaces \X Objects
           /\ p[2] \in MissedOf(p[1])
           /\ p[1] < ws \/ (p[1] = ws /\ p[2] \in First(account[ws], offset))
BY DEF Passed

\* An object deleted brings at most one more among those passed over.
LEMMA RequestDelete == RequestInv /\ Request!Delete => RequestInv'
<1> SUFFICES ASSUME RequestInv, Request!Delete PROVE RequestInv'
  OBVIOUS
<1>1. /\ call_at = "asking" /\ call_at' = "asking" /\ job' = job
      /\ UNCHANGED <<ws, offset, after, items, attempt, slept, carried>>
      /\ gone.deleted + gone.added < MaxChanges
      /\ gone' = [gone EXCEPT !.deleted = @ + 1]
  BY DEF Request!Delete, Request!listing, Request!request
<1>0. PICK w \in Request!Workspaces : \E o \in account[w] :
        /\ account' = [account EXCEPT ![w] = @ \ {o}]
        /\ stayed' = [stayed EXCEPT ![w] = @ \ {o}]
  BY DEF Request!Delete
<1>2. PICK o \in account[w] :
        /\ account' = [account EXCEPT ![w] = @ \ {o}]
        /\ stayed' = [stayed EXCEPT ![w] = @ \ {o}]
  BY <1>0
<1>3. Request!Workspaces' = Request!Workspaces
  BY <1>1 DEF Request!Workspaces
<1>4. /\ RequestTypes /\ AskingInv /\ Request!TypeOK
      /\ account \in [Request!Workspaces -> SUBSET Objects]
      /\ stayed \in [Request!Workspaces -> SUBSET Objects]
      /\ \A v \in Request!Workspaces : stayed[v] \subseteq account[v]
      /\ ws \in Request!Workspaces /\ offset \in Nat
  BY <1>1 DEF RequestInv, RequestTypes, Request!TypeOK
<1>5. /\ gone' \in [deleted : 0..MaxChanges, added : 0..MaxChanges]
      /\ gone'.deleted = gone.deleted + 1 /\ gone'.added = gone.added
      /\ gone.deleted \in Nat
  BY <1>1, <1>4, PagesAreOfObjects DEF Request!TypeOK
<1>6. \A v \in Request!Workspaces :
        /\ account'[v] = (IF v = w THEN account[v] \ {o} ELSE account[v])
        /\ stayed'[v] = (IF v = w THEN stayed[v] \ {o} ELSE stayed[v])
  BY <1>2, <1>4
<1>7. RequestTypes'
  <2>1. /\ account' \in [Request!Workspaces -> SUBSET Objects]
        /\ stayed' \in [Request!Workspaces -> SUBSET Objects]
        /\ \A v \in Request!Workspaces : stayed'[v] \subseteq account'[v]
    BY <1>2, <1>4, <1>6
  <2>2. job = "write" => stayed' = [v \in Request!Workspaces |-> {}]
    BY <1>2, <1>4 DEF RequestTypes
  <2> QED
    BY <1>1, <1>3, <1>4, <1>5, <2>1, <2>2 DEF RequestTypes, Request!TypeOK
<1>8. \E e : First(account'[ws], offset) \subseteq First(account[ws], offset) \cup {e}
  <2>1. account[ws] \subseteq Nat /\ IsFiniteSet(account[ws])
    BY <1>4, ObjectsAreNumbers
  <2>2. CASE w = ws
    BY <1>4, <1>6, <2>1, <2>2, FirstWithout
  <2>3. CASE w # ws
    BY <1>4, <1>6, <2>3
  <2> QED
    BY <2>2, <2>3
<1>9. PICK e : First(account'[ws], offset) \subseteq First(account[ws], offset) \cup {e}
  BY <1>8
<1>10. Passed' \subseteq Passed \cup {<<ws, e>>}
  <2> SUFFICES ASSUME NEW p \in Passed', p # <<ws, e>> PROVE p \in Passed
    OBVIOUS
  <2>1. /\ p \in Request!Workspaces \X Objects
        /\ p[2] \in MissedOf(p[1])'
        /\ p[1] < ws \/ (p[1] = ws /\ p[2] \in First(account'[ws], offset))
    BY <1>1, <1>3 DEF Passed
  <2>2. p = <<p[1], p[2]>> /\ p[1] \in Request!Workspaces
    BY <2>1, PairsOf
  <2>3. \A v \in Request!Workspaces : MissedOf(v)' \subseteq MissedOf(v)
    BY <1>1, <1>6 DEF MissedOf, Request!Listed
  <2>4. p[2] \in MissedOf(p[1])
    BY <2>1, <2>2, <2>3
  <2>5. p[1] = ws => p[2] # e
    BY <2>2
  <2>6. p[1] = ws /\ p[2] \in First(account'[ws], offset) => p[2] \in First(account[ws], offset)
    BY <1>9, <2>5
  <2>7. p[1] < ws \/ (p[1] = ws /\ p[2] \in First(account[ws], offset))
    BY <2>1, <2>6
  <2> QED
    BY <2>1, <2>4, <2>7, PassedIs
<1>11. job \in {"list", "find", "slack"} => Cardinality(Passed') <= gone'.deleted
  <2>1. IsFiniteSet(Passed) /\ Cardinality(Passed) \in Nat
    BY <1>4, FiniteMissed DEF Passed
  <2> DEFINE B == Passed \cup {<<ws, e>>}
  <2>2. IsFiniteSet(B) /\ Cardinality(B) <= Cardinality(Passed) + 1 /\ Cardinality(B) \in Nat
    <3>1. /\ IsFiniteSet(B)
          /\ Cardinality(B) = Cardinality(Passed) \/ Cardinality(B) = Cardinality(Passed) + 1
      BY <2>1, FS_AddElement
    <3> QED
      BY <2>1, <3>1
  <2>3. Cardinality(Passed') <= Cardinality(B) /\ Cardinality(Passed') \in Nat
    BY <1>10, <2>2, FS_Subset, FS_CardinalityType
  <2> HIDE DEF B
  <2> QED
    BY <1>4, <1>5, <2>1, <2>2, <2>3 DEF AskingInv
<1>12. ASSUME job = "find", NEW v \in account'[1], Rank(account'[1], v) > offset
       PROVE  v \in account[1] /\ Rank(account[1], v) > offset
  <2>1. 1 \in Request!Workspaces /\ account[1] \subseteq Nat /\ IsFiniteSet(account[1])
    BY <1>4, ObjectsAreNumbers, WorkspacesAreNumbers
  <2>2. CASE w = 1
    <3> DEFINE S == account[1]
               T == account[1] \ {o}
    <3>1. account'[1] = T /\ v \in T
      BY <1>6, <1>12, <2>1, <2>2
    <3>2. T \subseteq Nat /\ IsFiniteSet(T)
      BY <2>1, FS_Subset
    <3>3. Rank(T, v) <= Rank(S, v) /\ Rank(T, v) > offset
      BY <1>4, <1>12, <2>1, <3>1, FirstWithout
    <3>4. Rank(T, v) \in Nat /\ Rank(S, v) \in Nat
      BY <2>1, <3>1, <3>2, Ranks
    <3> HIDE DEF T
    <3>5. Rank(S, v) > offset
      BY <1>4, <3>3, <3>4
    <3> QED
      BY <3>1, <3>5 DEF T
  <2>3. CASE w # 1
    BY <1>6, <1>12, <2>1, <2>3
  <2> QED
    BY <2>2, <2>3
<1>13. AskingInv'
  <2>1. ItemsRise' = ItemsRise /\ Request!Listed(1)' = Request!Listed(1)
    BY <1>1 DEF ItemsRise, Request!Listed
  <2>2. stayed'[1] \subseteq stayed[1]
    BY <1>6, WorkspacesAreNumbers
  <2> QED
    BY <1>1, <1>4, <1>5, <1>11, <1>12, <2>1, <2>2 DEF AskingInv
<1> QED
  BY <1>1, <1>7, <1>13 DEF RequestInv

\* An object added is no one's to miss.
LEMMA RequestAdd == RequestInv /\ Request!Add => RequestInv'
<1> SUFFICES ASSUME RequestInv, Request!Add PROVE RequestInv'
  OBVIOUS
<1>1. /\ call_at = "asking" /\ call_at' = "asking" /\ job' = job
      /\ UNCHANGED <<ws, offset, after, items, attempt, slept, carried, stayed>>
      /\ gone.deleted + gone.added < MaxChanges
      /\ gone' = [gone EXCEPT !.added = @ + 1]
  BY DEF Request!Add, Request!listing, Request!request
<1>0. PICK w \in Request!Workspaces : \E o \in Objects \ account[w] :
        account' = [account EXCEPT ![w] = @ \cup {o}]
  BY DEF Request!Add
<1>2. PICK o \in Objects \ account[w] : account' = [account EXCEPT ![w] = @ \cup {o}]
  BY <1>0
<1>3. Request!Workspaces' = Request!Workspaces
  BY <1>1 DEF Request!Workspaces
<1>4. /\ RequestTypes /\ AskingInv /\ Request!TypeOK
      /\ account \in [Request!Workspaces -> SUBSET Objects]
      /\ stayed \in [Request!Workspaces -> SUBSET Objects]
      /\ \A v \in Request!Workspaces : stayed[v] \subseteq account[v]
      /\ ws \in Request!Workspaces /\ offset \in Nat
  BY <1>1 DEF RequestInv, RequestTypes, Request!TypeOK
<1>5. /\ gone' \in [deleted : 0..MaxChanges, added : 0..MaxChanges]
      /\ gone'.deleted = gone.deleted /\ gone'.added # 0
      /\ gone.deleted \in Nat
  BY <1>1, <1>4, PagesAreOfObjects DEF Request!TypeOK
<1>6. \A v \in Request!Workspaces :
        account'[v] = (IF v = w THEN account[v] \cup {o} ELSE account[v])
  BY <1>2, <1>4
<1>7. RequestTypes'
  <2>1. /\ account' \in [Request!Workspaces -> SUBSET Objects]
        /\ \A v \in Request!Workspaces : stayed[v] \subseteq account'[v]
    BY <1>2, <1>4, <1>6
  <2> QED
    BY <1>1, <1>3, <1>4, <1>5, <2>1 DEF RequestTypes, Request!TypeOK
<1>8. \A x \in stayed[ws] :
        x \in First(account'[ws], offset) => x \in First(account[ws], offset)
  <2>1. account[ws] \subseteq Nat /\ IsFiniteSet(account[ws]) /\ o \in Nat
    BY <1>4, ObjectsAreNumbers
  <2>2. CASE w = ws
    <3>1. First(account'[ws], offset) \subseteq First(account[ws], offset) \cup {o}
      BY <1>4, <1>6, <2>1, <2>2, FirstWith
    <3>2. o \notin stayed[ws]
      BY <1>4, <2>2
    <3> QED
      BY <3>1, <3>2
  <2>3. CASE w # ws
    BY <1>4, <1>6, <2>3
  <2> QED
    BY <2>2, <2>3
<1>9. Passed' \subseteq Passed
  <2> SUFFICES ASSUME NEW p \in Passed' PROVE p \in Passed
    OBVIOUS
  <2>1. /\ p \in Request!Workspaces \X Objects
        /\ p[2] \in MissedOf(p[1])'
        /\ p[1] < ws \/ (p[1] = ws /\ p[2] \in First(account'[ws], offset))
    BY <1>1, <1>3 DEF Passed
  <2>2. p[1] \in Request!Workspaces
    BY <2>1, PairsOf
  <2>3. \A v \in Request!Workspaces : MissedOf(v)' \subseteq MissedOf(v)
    BY <1>1 DEF MissedOf, Request!Listed
  <2>4. p[2] \in MissedOf(p[1])
    BY <2>1, <2>2, <2>3
  <2>5. p[2] \in stayed[p[1]]
    BY <2>4 DEF MissedOf
  <2> QED
    BY <1>8, <2>1, <2>4, <2>5, PassedIs
<1>10. job \in {"list", "find", "slack"} => Cardinality(Passed') <= gone'.deleted
  <2>1. IsFiniteSet(Passed) /\ Cardinality(Passed) \in Nat
    BY <1>4, FiniteMissed DEF Passed
  <2>2. Cardinality(Passed') <= Cardinality(Passed) /\ Cardinality(Passed') \in Nat
    BY <1>9, <2>1, FS_Subset, FS_CardinalityType
  <2> QED
    BY <1>4, <1>5, <2>1, <2>2 DEF AskingInv
<1>11. AskingInv'
  <2>1. ItemsRise' = ItemsRise /\ Request!Listed(1)' = Request!Listed(1)
    BY <1>1 DEF ItemsRise, Request!Listed
  <2> QED
    BY <1>1, <1>4, <1>5, <1>10, <2>1 DEF AskingInv
<1> QED
  BY <1>1, <1>7, <1>11 DEF RequestInv

\* More than one means two that differ.
LEMMA TwoOf ==
  ASSUME NEW S, IsFiniteSet(S)
  PROVE  Cardinality(S) > 1 <=> \E x, y \in S : x # y
<1>1. ASSUME NEW x \in S, NEW y \in S, x # y
      PROVE  Cardinality(S) > 1
  <2>1. IsFiniteSet({x}) /\ Cardinality({x}) = 1
    BY FS_Singleton
  <2>2. Cardinality({x}) <= Cardinality(S) /\ (Cardinality({x}) = Cardinality(S) => {x} = S)
    BY FS_Subset
  <2>3. {x} # S /\ Cardinality(S) \in Nat
    BY <1>1, FS_CardinalityType
  <2> QED
    BY <2>1, <2>2, <2>3
<1>2. ASSUME \A x, y \in S : x = y
      PROVE  ~(Cardinality(S) > 1)
  <2>1. CASE S = {}
    BY <2>1, FS_EmptySet
  <2>2. CASE S # {}
    <3>1. PICK x : x \in S
      BY <2>2
    <3>2. S = {x}
      BY <1>2, <3>1
    <3>3. Cardinality(S) = 1
      BY <3>2, FS_Singleton
    <3> QED
      BY <3>3
  <2> QED
    BY <2>1, <2>2
<1> QED
  BY <1>1, <1>2

\* The types, after a page was taken.
LEMMA TakenTypes ==
  ASSUME RequestTypes, NEW page \in Seq(Objects), Request!Take(page), job' = job,
         Request!NewRequest, UNCHANGED Request!others,
         ws' \in Request!Workspaces, offset' \in Nat, after' \in Objects \cup {0},
         call_at' \in {"asking", "returned", "refused", "raised"}
  PROVE  RequestTypes'
<1>1. items' \in Seq(Request!Workspaces \X Objects)
  BY TakenPage
<1>2. /\ UNCHANGED <<carried, account, stayed, gone>> /\ attempt' = 0 /\ slept' = 0
  BY DEF Request!NewRequest, Request!others
<1>3. Request!Workspaces' = Request!Workspaces
  BY DEF Request!Workspaces
<1> QED
  BY <1>1, <1>2, <1>3 DEF RequestTypes, Request!TypeOK

\* What is missed behind the page taken had been passed over before it.
LEMMA TakenPassed ==
  ASSUME RequestTypes, job # "cursor", NEW page \in Request!Pages, Request!Take(page),
         job' = job, stayed' = stayed,
         NEW w \in Request!Workspaces, NEW o \in Objects, o \in MissedOf(w)',
         w < ws \/ (w = ws /\ o \in First(account[ws], offset + Len(page)))
  PROVE  <<w, o>> \in Passed
<1>1. page \in Seq(Objects)
  BY OffsetPage
<1>2. o \in stayed[w] /\ o \notin Request!Listed(w)'
  BY DEF MissedOf
<1>3. o \in MissedOf(w)
  BY <1>1, <1>2, TakenListed DEF MissedOf
<1>4. ASSUME w = ws
      PROVE  \A i \in 1..Len(page) : o # page[i]
  <2>1. \A v : v = ws => \A i \in 1..Len(page) : page[i] \in Request!Listed(v)'
    BY <1>1, TakenListed
  <2>2. \A i \in 1..Len(page) : page[i] \in Request!Listed(w)'
    BY <1>4, <2>1
  <2> QED
    BY <1>2, <2>2
<1>5. \A x \in First(account[ws], offset + Len(page)) :
        x \in First(account[ws], offset) \/ \E i \in 1..Len(page) : x = page[i]
  BY OffsetPage
<1>6. w < ws \/ (w = ws /\ o \in First(account[ws], offset))
  BY <1>4, <1>5
<1> QED
  BY <1>3, <1>6, PassedIs

\* find_by_name's list still rises after a page, ahead of all that comes later.
LEMMA TakenRises ==
  ASSUME RequestTypes, AskingInv, job = "find", gone.added = 0,
         NEW page \in Request!Pages, Request!Take(page), job' = job
  PROVE  /\ ItemsRise'
         /\ \A o \in account[1] : Rank(account[1], o) > offset + Len(page) =>
              \A i \in DOMAIN items' : items'[i][2] < o
<1>1. /\ page \in Seq(Objects) /\ Len(page) \in Nat
      /\ \A i \in 1..Len(page) : page[i] \in account[ws] /\ Rank(account[ws], page[i]) = offset + i
      /\ \A i, j \in 1..Len(page) : i < j => page[i] < page[j]
  BY OffsetPage
<1>2. ws = 1
  BY WorkspacesAreNumbers DEF RequestTypes, Request!TypeOK
<1>3. /\ account[1] \subseteq Nat /\ IsFiniteSet(account[1]) /\ offset \in Nat
      /\ \A o \in account[1] : o \in Nat
  BY <1>2, ObjectsAreNumbers DEF RequestTypes, Request!TypeOK
<1>4. /\ ItemsRise
      /\ \A o \in account[1] : Rank(account[1], o) > offset =>
           \A i \in DOMAIN items : items[i][2] < o
  BY DEF AskingInv
<1>5. \A o \in account[1] : Rank(account[1], o) \in Nat
  BY <1>3, Ranks
<1>6. \A j \in 1..Len(page) : offset + j > offset
  BY <1>1, <1>3
<1>7. \A i \in DOMAIN items : \A j \in 1..Len(page) : items[i][2] < page[j]
  BY <1>1, <1>2, <1>4, <1>6
<1>8. ItemsRise'
  BY <1>1, <1>4, <1>7, StillRises
<1>9. /\ DOMAIN items = 1..Len(items) /\ DOMAIN items' = 1..Len(items')
      /\ \A i \in 1..Len(items) : items'[i] = items[i]
      /\ \A i \in 1..Len(page) : items'[Len(items) + i] = <<ws, page[i]>>
      /\ \A i \in 1..Len(items') :
           i \in 1..Len(items) \/ \E k \in 1..Len(page) : i = Len(items) + k
  BY <1>1, TakenPage
<1>10. ASSUME NEW o \in account[1], Rank(account[1], o) > offset + Len(page), NEW i \in 1..Len(items')
       PROVE  items'[i][2] < o
  <2>1. CASE i \in 1..Len(items)
    <3>1. Rank(account[1], o) > offset
      BY <1>1, <1>3, <1>5, <1>10
    <3>2. items[i][2] < o
      BY <1>4, <1>9, <2>1, <3>1
    <3> QED
      BY <1>9, <2>1, <3>2
  <2>2. ASSUME NEW k \in 1..Len(page), i = Len(items) + k
        PROVE  items'[i][2] < o
    <3>1. items'[i][2] = page[k]
      BY <1>9, <2>2
    <3>2. page[k] \in account[1] /\ Rank(account[1], page[k]) = offset + k
      BY <1>1, <1>2
    <3>3. Rank(account[1], page[k]) < Rank(account[1], o)
      BY <1>1, <1>3, <1>5, <1>10, <3>2
    <3>4. ~(page[k] = o) /\ ~(o < page[k])
      <4>1. o < page[k] => Rank(account[1], o) < Rank(account[1], page[k])
        BY <1>3, <3>2, Ranks
      <4> QED
        BY <1>5, <3>2, <3>3, <4>1
    <3> QED
      BY <1>3, <3>1, <3>2, <3>4
  <2> QED
    BY <1>9, <2>1, <2>2
<1> QED
  BY <1>8, <1>9, <1>10

\* The last page of a listing by offset: what is missed had been passed over, and
\* find_by_name has counted what it listed.
LEMMA OffsetEnds ==
  ASSUME RequestTypes, AskingInv, job \in {"list", "find", "slack"},
         NEW page \in Request!Pages, Request!Take(page), job' = job, RequestTypes',
         UNCHANGED Request!others, carried' = carried,
         ~(Len(page) < Len(Request!Left) /\ page # <<>>),
         ws + 1 \notin Request!Workspaces, call_at' = Request!Finds(items')
  PROVE  Request!Safe'
<1>1. Request!TypeOK /\ Request!TypeOK' /\ job # "cursor" /\ UNCHANGED <<account, stayed, gone>>
  BY DEF RequestTypes, Request!others
<1>2. page \in Seq(Objects) /\ First(account[ws], offset + Len(page)) = account[ws]
  BY <1>1, OffsetPage
<1>3. Request!Workspaces' = Request!Workspaces
  BY DEF Request!Workspaces
<1>4. \A w \in Request!Workspaces : w < ws \/ w = ws
  <2> SUFFICES ASSUME NEW w \in Request!Workspaces, ~(w < ws), w # ws PROVE FALSE
    OBVIOUS
  <2>1. w \in Nat /\ ws \in Nat /\ w <= 2 /\ ws >= 1
    BY <1>1, WorkspacesAreNumbers DEF Request!TypeOK
  <2>2. ws + 1 = w
    BY <2>1
  <2> QED
    BY <2>2
<1>5. Request!Missed' \subseteq Passed
  <2> SUFFICES ASSUME NEW p \in Request!Missed' PROVE p \in Passed
    OBVIOUS
  <2>1. PICK w \in Request!Workspaces : p \in {<<w, o>> : o \in stayed'[w] \ Request!Listed(w)'}
    BY <1>3 DEF Request!Missed
  <2>2. PICK o \in stayed'[w] \ Request!Listed(w)' : p = <<w, o>>
    BY <2>1
  <2>3. o \in MissedOf(w)' /\ o \in account[w] /\ o \in Objects
    BY <1>1, <2>2 DEF MissedOf, Request!TypeOK
  <2>4. w < ws \/ (w = ws /\ o \in First(account[ws], offset + Len(page)))
    BY <1>2, <1>4, <2>3
  <2> QED
    BY <1>1, <2>2, <2>3, <2>4, TakenPassed
<1>6. IsFiniteSet(Passed) /\ Cardinality(Passed) \in Nat /\ Cardinality(Passed) <= gone.deleted
  BY <1>1, FiniteMissed DEF Passed, AskingInv
<1>7. /\ IsFiniteSet(Request!Missed') /\ Cardinality(Request!Missed') \in Nat
      /\ Cardinality(Request!Missed') <= gone'.deleted /\ gone'.deleted \in Nat
  <2>1. gone.deleted \in Nat
    BY <1>1, PagesAreOfObjects DEF Request!TypeOK
  <2>2. IsFiniteSet(Request!Missed') /\ Cardinality(Request!Missed') <= Cardinality(Passed)
    BY <1>5, <1>6, FS_Subset
  <2>3. Cardinality(Request!Missed') \in Nat
    BY <2>2, FS_CardinalityType
  <2> QED
    BY <1>1, <1>6, <2>1, <2>2, <2>3
<1> DEFINE D == {i \in DOMAIN items' : items'[i][2] \in Named}
<1>8. /\ DOMAIN items' = 1..Len(items') /\ IsFiniteSet(D)
      /\ \A i \in 1..Len(items') : items'[i][1] \in Request!Workspaces /\ items'[i][2] \in Objects
  <2>1. DOMAIN items' = 1..Len(items') /\ Len(items') \in Nat
    BY <1>2, TakenPage
  <2>2. IsFiniteSet(1..Len(items'))
    BY <2>1, FS_Interval
  <2>3. IsFiniteSet(D)
    <3>1. D \subseteq 1..Len(items')
      BY <2>1
    <3> HIDE DEF D
    <3> QED
      BY <2>2, <3>1, FS_Subset
  <2>4. \A i \in 1..Len(items') : items'[i][1] \in Request!Workspaces /\ items'[i][2] \in Objects
    BY <1>2, TakenPage
  <2> QED
    BY <2>1, <2>3, <2>4
<1>9. call_at' = (IF job = "find" /\ Cardinality(D) > 1 THEN "refused" ELSE "returned")
  BY SameCount DEF Request!Finds
<1>10. \A o : o \in Request!Listed(1)' <=>
               \E i \in DOMAIN items' : items'[i][1] = 1 /\ items'[i][2] = o
  BY Zenon DEF Request!Listed
<1> HIDE DEF D
<1>11. ASSUME job = "find", call_at' = "returned", gone'.deleted = 0
       PROVE  Cardinality(Named \cap stayed'[1]) <= 1
  <2>1. IsFiniteSet(stayed'[1]) /\ 1 \in Request!Workspaces
    BY <1>1, <1>3, ObjectsAreNumbers, WorkspacesAreNumbers DEF Request!TypeOK
  <2>2. IsFiniteSet(Named \cap stayed'[1]) /\ Cardinality(Named \cap stayed'[1]) \in Nat
    BY <2>1, FS_Subset, FS_CardinalityType
  <2>3. Request!Missed' = {}
    BY <1>7, <1>11, FS_EmptySet
  <2>4. stayed'[1] \subseteq Request!Listed(1)'
    <3> SUFFICES ASSUME NEW o \in stayed'[1], o \notin Request!Listed(1)' PROVE FALSE
      OBVIOUS
    <3>1. <<1, o>> \in {<<1, x>> : x \in stayed'[1] \ Request!Listed(1)'}
      OBVIOUS
    <3>2. <<1, o>> \in Request!Missed'
      BY <1>3, <2>1, <3>1, Zenon DEF Request!Missed
    <3> QED
      BY <2>3, <3>2
  <2>5. ASSUME NEW x \in Named \cap stayed'[1], NEW y \in Named \cap stayed'[1], x # y
        PROVE  FALSE
    <3>1. PICK i \in DOMAIN items' : items'[i][2] = x
      BY <1>10, <2>4, Zenon
    <3>2. PICK j \in DOMAIN items' : items'[j][2] = y
      BY <1>10, <2>4, Zenon
    <3>3. i \in D /\ j \in D /\ i # j
      BY <2>5, <3>1, <3>2 DEF D
    <3>4. Cardinality(D) > 1
      BY <1>8, <3>3, TwoOf
    <3> QED
      BY <1>9, <1>11, <3>4
  <2>6. ~(Cardinality(Named \cap stayed'[1]) > 1)
    BY <2>2, <2>5, TwoOf
  <2> QED
    BY <2>2, <2>6
<1>12. ASSUME call_at' = "refused", gone'.added = 0
       PROVE  Cardinality(Named \cap Request!Listed(1)') > 1
  <2>1. job = "find" /\ Cardinality(D) > 1 /\ gone.added = 0
    BY <1>1, <1>9, <1>12
  <2>2. ItemsRise'
    BY <2>1, TakenRises
  <2>3. PICK x \in D, y \in D : x # y
    BY <1>8, <2>1, TwoOf
  <2>4. /\ x \in 1..Len(items') /\ y \in 1..Len(items')
        /\ items'[x][2] \in Named /\ items'[y][2] \in Named
    BY <1>8, <2>3 DEF D
  <2>5. items'[x][2] # items'[y][2]
    <3>1. items'[x][2] \in Nat /\ items'[y][2] \in Nat
      BY <1>8, <2>4, ObjectsAreNumbers
    <3>2. x < y \/ y < x
      BY <2>3, <2>4
    <3>3. items'[x][2] < items'[y][2] \/ items'[y][2] < items'[x][2]
      BY <1>8, <2>2, <2>4, <3>2 DEF ItemsRise
    <3> QED
      BY <3>1, <3>3
  <2>6. Request!Workspaces = {1}
    BY <2>1, WorkspacesAreNumbers
  <2>7. items'[x][2] \in Request!Listed(1)' /\ items'[y][2] \in Request!Listed(1)'
    BY <1>8, <1>10, <2>4, <2>6
  <2>8. IsFiniteSet(Named \cap Request!Listed(1)')
    <3>1. Request!Listed(1)' \subseteq Objects
      BY <1>8, <1>10
    <3> QED
      BY <3>1, ObjectsAreNumbers, FS_Subset
  <2> QED
    BY <2>4, <2>5, <2>7, <2>8, TwoOf
<1>13. Request!WrittenOnce' /\ Request!CursorIsWhole'
  BY DEF Request!WrittenOnce, Request!CursorIsWhole
<1>14. Request!OffsetMissesWhatWasDeleted'
  BY <1>7, SameCount DEF Request!OffsetMissesWhatWasDeleted
<1>15. Request!NeverGuesses'
  BY <1>11, SameCount DEF Request!NeverGuesses
<1>16. Request!RefusesOnlyTwins'
  BY <1>12, SameCount DEF Request!RefusesOnlyTwins
<1> QED
  BY <1>1, <1>13, <1>14, <1>15, <1>16 DEF Request!Safe

\* What is passed over at the next page was passed over at this one.
LEMMA PassedOn ==
  ASSUME RequestTypes, AskingInv, job \in {"list", "find", "slack"},
         job' = job, UNCHANGED gone, Passed' \subseteq Passed
  PROVE  Cardinality(Passed') <= gone'.deleted
<1>1. /\ IsFiniteSet(Passed) /\ Cardinality(Passed) \in Nat /\ Cardinality(Passed) <= gone.deleted
      /\ gone.deleted \in Nat
  BY FiniteMissed, PagesAreOfObjects DEF Passed, AskingInv, RequestTypes, Request!TypeOK
<1>2. IsFiniteSet(Passed') /\ Cardinality(Passed') <= Cardinality(Passed)
  BY <1>1, FS_Subset
<1>3. Cardinality(Passed') \in Nat
  BY <1>2, FS_CardinalityType
<1> QED
  BY <1>1, <1>2, <1>3

\* A page by offset passes over nothing new, and the last one ends the call.
LEMMA RequestPageByOffset == RequestInv /\ Request!PageByOffset => RequestInv'
<1> SUFFICES ASSUME RequestInv, Request!PageByOffset PROVE RequestInv'
  OBVIOUS
<1>1. /\ call_at = "asking" /\ job \in {"list", "find", "slack"} /\ job' = job
      /\ Request!NewRequest /\ UNCHANGED Request!others
      /\ carried' = carried /\ UNCHANGED <<account, stayed, gone>>
  BY DEF Request!PageByOffset, Request!NewRequest, Request!others
<1>2. PICK page \in Request!Pages :
        /\ Request!Take(page)
        /\ IF Len(page) < Len(Request!Left) /\ page # <<>>
           THEN offset' = Request!NextOffset(page) /\ UNCHANGED <<call_at, ws, after>>
           ELSE IF ws + 1 \in Request!Workspaces THEN Request!NextWorkspace
           ELSE call_at' = Request!Finds(items') /\ UNCHANGED <<ws, offset, after>>
  BY DEF Request!PageByOffset
<1>3. /\ RequestTypes /\ AskingInv /\ Request!TypeOK /\ job # "cursor"
      /\ ws \in Request!Workspaces /\ ws \in Nat /\ offset \in Nat /\ after \in Objects \cup {0}
      /\ account[ws] \subseteq Nat /\ IsFiniteSet(account[ws])
  BY <1>1, WorkspacesAreNumbers, ObjectsAreNumbers DEF RequestInv, RequestTypes, Request!TypeOK
<1>4. page \in Seq(Objects) /\ Len(page) \in Nat
  BY <1>2, <1>3, OffsetPage
<1>5. Request!Workspaces' = Request!Workspaces
  BY <1>1 DEF Request!Workspaces
<1>6. CASE Len(page) < Len(Request!Left) /\ page # <<>>
  <2>1. offset' = offset + Len(page) /\ UNCHANGED <<call_at, ws, after>>
    BY <1>2, <1>6 DEF Request!NextOffset
  <2>2. RequestTypes'
    BY <1>1, <1>2, <1>3, <1>4, <2>1, TakenTypes
  <2>3. Passed' \subseteq Passed
    <3> SUFFICES ASSUME NEW p \in Passed' PROVE p \in Passed
      OBVIOUS
    <3>1. /\ p \in Request!Workspaces \X Objects
          /\ p[2] \in MissedOf(p[1])'
          /\ p[1] < ws \/ (p[1] = ws /\ p[2] \in First(account[ws], offset + Len(page)))
      BY <1>1, <1>5, <2>1 DEF Passed
    <3>2. p = <<p[1], p[2]>> /\ p[1] \in Request!Workspaces /\ p[2] \in Objects
      BY <3>1, PairsOf
    <3>3. <<p[1], p[2]>> \in Passed
      BY <1>1, <1>2, <1>3, <3>1, <3>2, TakenPassed
    <3> QED
      BY <3>2, <3>3
  <2>4. Cardinality(Passed') <= gone'.deleted
    BY <1>1, <1>3, <2>3, PassedOn
  <2>5. ASSUME job = "find", gone.added = 0
        PROVE  /\ ItemsRise'
               /\ \A o \in account'[1] : Rank(account'[1], o) > offset' =>
                    \A i \in DOMAIN items' : items'[i][2] < o
    BY <1>1, <1>2, <1>3, <2>1, <2>5, TakenRises
  <2>6. AskingInv'
    BY <1>1, <2>4, <2>5 DEF AskingInv
  <2> QED
    BY <1>1, <2>1, <2>2, <2>6 DEF RequestInv
<1>7. CASE ~(Len(page) < Len(Request!Left) /\ page # <<>>) /\ ws + 1 \in Request!Workspaces
  <2>1. ws' = ws + 1 /\ offset' = 0 /\ UNCHANGED <<call_at, after>>
    BY <1>2, <1>7 DEF Request!NextWorkspace
  <2>2. RequestTypes'
    BY <1>1, <1>2, <1>3, <1>4, <1>7, <2>1, TakenTypes
  <2>3. job # "find"
    <3>1. ws + 1 # 1
      BY <1>3, WorkspacesAreNumbers
    <3> QED
      BY <1>7, <3>1, WorkspacesAreNumbers
  <2>4. Passed' \subseteq Passed
    <3> SUFFICES ASSUME NEW p \in Passed' PROVE p \in Passed
      OBVIOUS
    <3>1. /\ p \in Request!Workspaces \X Objects
          /\ p[2] \in MissedOf(p[1])'
          /\ p[1] < ws + 1 \/ (p[1] = ws + 1 /\ p[2] \in First(account[ws + 1], 0))
      BY <1>1, <1>5, <2>1 DEF Passed
    <3>2. p = <<p[1], p[2]>> /\ p[1] \in Request!Workspaces /\ p[2] \in Objects /\ p[1] \in Nat
      BY <3>1, PairsOf, WorkspacesAreNumbers
    <3>3. First(account[ws + 1], 0) = {}
      <4>1. account[ws + 1] \subseteq Nat /\ IsFiniteSet(account[ws + 1])
        BY <1>3, <1>7, ObjectsAreNumbers DEF Request!TypeOK
      <4> QED
        BY <4>1, FirstEnds
    <3>4. p[1] < ws \/ p[1] = ws
      BY <1>3, <3>1, <3>2, <3>3
    <3>5. p[2] \in stayed'[p[1]]
      BY <3>1 DEF MissedOf
    <3>6. p[2] \in account[p[1]]
      BY <1>1, <1>3, <3>2, <3>5 DEF Request!TypeOK
    <3>7. First(account[ws], offset + Len(page)) = account[ws]
      BY <1>3, <1>7, OffsetPage
    <3>8. p[1] < ws \/ (p[1] = ws /\ p[2] \in First(account[ws], offset + Len(page)))
      BY <3>4, <3>6, <3>7
    <3>9. <<p[1], p[2]>> \in Passed
      BY <1>1, <1>2, <1>3, <3>1, <3>2, <3>8, TakenPassed
    <3> QED
      BY <3>2, <3>9
  <2>5. Cardinality(Passed') <= gone'.deleted
    BY <1>1, <1>3, <2>4, PassedOn
  <2>6. AskingInv'
    BY <1>1, <2>3, <2>5 DEF AskingInv
  <2> QED
    BY <1>1, <2>1, <2>2, <2>6 DEF RequestInv
<1>8. CASE ~(Len(page) < Len(Request!Left) /\ page # <<>>) /\ ws + 1 \notin Request!Workspaces
  <2>1. call_at' = Request!Finds(items') /\ UNCHANGED <<ws, offset, after>>
    BY <1>2, <1>8
  <2>2. call_at' \in {"refused", "returned"}
    BY <2>1 DEF Request!Finds
  <2>3. RequestTypes'
    BY <1>1, <1>2, <1>3, <1>4, <2>1, <2>2, TakenTypes
  <2>4. Request!Safe'
    BY <1>1, <1>2, <1>3, <1>8, <2>1, <2>3, OffsetEnds
  <2> QED
    BY <2>2, <2>3, <2>4 DEF RequestInv
<1> QED
  BY <1>6, <1>7, <1>8

\* A page by cursor rises past all that was listed, and lists all up to its end.
LEMMA TakenByCursor ==
  ASSUME RequestTypes, AskingInv, job = "cursor",
         NEW page \in Request!Pages, Request!Take(page), job' = job, stayed' = stayed
  PROVE  /\ ItemsRise'
         /\ \A o \in stayed[1] : o <= after => o \in Request!Listed(1)'
         /\ \A o \in stayed[1] :
              (\E i \in 1..Len(page) : o = page[i]) => o \in Request!Listed(1)'
<1>1. /\ page \in Seq(Objects) /\ Len(page) \in Nat
      /\ \A i \in 1..Len(page) : page[i] > after
      /\ \A i, j \in 1..Len(page) : i < j => page[i] < page[j]
  BY CursorPage
<1>2. ws = 1 /\ after \in Nat
  BY WorkspacesAreNumbers, ObjectsAreNumbers DEF RequestTypes, Request!TypeOK
<1>3. /\ ItemsRise /\ \A i \in DOMAIN items : items[i][2] <= after
      /\ \A o \in stayed[1] : o <= after => o \in Request!Listed(1)
  BY DEF AskingInv
<1>4. /\ DOMAIN items = 1..Len(items)
      /\ \A i \in 1..Len(items) : items[i][2] \in Nat
      /\ \A j \in 1..Len(page) : page[j] \in Nat
  <2>1. /\ items \in Seq(Request!Workspaces \X Objects)
        /\ \A i \in 1..Len(items) : items[i] \in Request!Workspaces \X Objects
        /\ DOMAIN items = 1..Len(items)
    BY PlacesOf DEF RequestTypes, Request!TypeOK
  <2>2. \A p \in Request!Workspaces \X Objects : p[2] \in Nat
    BY PairsOf, ObjectsAreNumbers
  <2>3. \A j \in 1..Len(page) : page[j] \in Objects
    BY <1>1, PlacesOf
  <2> QED
    BY <2>1, <2>2, <2>3, ObjectsAreNumbers
<1>5. \A i \in DOMAIN items : \A j \in 1..Len(page) : items[i][2] < page[j]
  BY <1>1, <1>2, <1>3, <1>4
<1>6. ItemsRise'
  BY <1>1, <1>3, <1>5, StillRises
<1>7. /\ \A v : Request!Listed(v) \subseteq Request!Listed(v)'
      /\ \A v : v = ws => \A i \in 1..Len(page) : page[i] \in Request!Listed(v)'
  BY <1>1, TakenListed
<1>8. \A i \in 1..Len(page) : page[i] \in Request!Listed(1)'
  BY <1>2, <1>7
<1> QED
  BY <1>3, <1>6, <1>7, <1>8

\* A page by cursor misses nothing up to its end.
LEMMA RequestPageByCursor == RequestInv /\ Request!PageByCursor => RequestInv'
<1> SUFFICES ASSUME RequestInv, Request!PageByCursor PROVE RequestInv'
  OBVIOUS
<1>1. /\ call_at = "asking" /\ job = "cursor" /\ UNCHANGED <<job, ws, offset>>
      /\ Request!NewRequest /\ UNCHANGED Request!others
      /\ carried' = carried /\ UNCHANGED <<account, stayed, gone>>
  BY DEF Request!PageByCursor, Request!NewRequest, Request!others
<1>2. PICK page \in Request!Pages :
        /\ Request!Take(page)
        /\ IF Len(page) < Len(Request!Left)
           THEN after' = Request!Cursor(page) /\ UNCHANGED call_at
           ELSE call_at' = "returned" /\ UNCHANGED after
  BY DEF Request!PageByCursor
<1>3. /\ RequestTypes /\ AskingInv /\ Request!TypeOK
      /\ ws = 1 /\ ws \in Request!Workspaces /\ offset \in Nat /\ after \in Objects \cup {0} /\ after \in Nat
      /\ stayed[1] \subseteq account[1] /\ account[1] \subseteq Nat
  <2>1. RequestTypes /\ AskingInv /\ Request!TypeOK
    BY <1>1 DEF RequestInv, RequestTypes
  <2>2. Request!Workspaces = {1}
    BY <1>1, WorkspacesAreNumbers
  <2>3. ws \in Request!Workspaces /\ offset \in Nat /\ after \in Objects \cup {0}
    BY <2>1 DEF Request!TypeOK
  <2>4. stayed[1] \subseteq account[1] /\ account[1] \in SUBSET Objects
    BY <2>1, <2>2 DEF Request!TypeOK
  <2> QED
    <3>1. account[1] \subseteq Nat
      BY <2>4, ObjectsAreNumbers
    <3>2. after \in Nat
      BY <2>3, ObjectsAreNumbers
    <3> QED
      BY <2>1, <2>2, <2>3, <2>4, <3>1, <3>2
<1>4. /\ page \in Seq(Objects) /\ Len(page) \in Nat /\ \A i \in 1..Len(page) : page[i] \in Objects
      /\ \A i \in 1..Len(page) : page[i] > after
      /\ \A i, j \in 1..Len(page) : i < j => page[i] < page[j]
  <2>1. page \in Seq(Objects)
    BY <1>1, <1>2, <1>3, CursorPage
  <2> QED
    BY <1>1, <1>2, <1>3, <2>1, CursorPage, PlacesOf
<1>5. /\ ItemsRise'
      /\ \A o \in stayed[1] : o <= after => o \in Request!Listed(1)'
      /\ \A o \in stayed[1] :
           (\E i \in 1..Len(page) : o = page[i]) => o \in Request!Listed(1)'
  BY <1>1, <1>2, <1>3, TakenByCursor
<1>6. /\ DOMAIN items = 1..Len(items) /\ DOMAIN items' = 1..Len(items')
      /\ \A i \in 1..Len(items) : items'[i] = items[i]
      /\ \A i \in 1..Len(page) : items'[Len(items) + i] = <<ws, page[i]>>
      /\ \A i \in 1..Len(items') :
           i \in 1..Len(items) \/ \E k \in 1..Len(page) : i = Len(items) + k
      /\ \A i \in 1..Len(items') : items'[i][1] \in Request!Workspaces /\ items'[i][2] \in Objects
  BY <1>1, <1>2, <1>3, <1>4, TakenPage
<1>7. CASE Len(page) < Len(Request!Left)
  <2>1. /\ Len(page) > 0 /\ Len(page) \in 1..Len(page)
        /\ \A o \in account[ws] : o > after /\ o <= page[Len(page)] =>
             \E i \in 1..Len(page) : o = page[i]
    BY <1>1, <1>2, <1>3, <1>4, <1>7, CursorPage
  <2>2. after' = page[Len(page)] /\ UNCHANGED call_at
    BY <1>2, <1>7 DEF Request!Cursor, Request!Last
  <2>3. after' \in Objects /\ after' \in Nat /\ after' > after
    BY <1>4, <2>1, <2>2, ObjectsAreNumbers
  <2>4. RequestTypes'
    BY <1>1, <1>2, <1>3, <1>4, <2>2, <2>3, TakenTypes
  <2>5. \A i \in DOMAIN items' : items'[i][2] <= after'
    <3> SUFFICES ASSUME NEW i \in 1..Len(items') PROVE items'[i][2] <= after'
      BY <1>6
    <3>1. CASE i \in 1..Len(items)
      <4>1. items[i][2] <= after
        BY <1>1, <1>3, <1>6, <3>1 DEF AskingInv
      <4>2. items'[i][2] \in Nat
        BY <1>6, ObjectsAreNumbers
      <4> QED
        BY <1>3, <1>6, <2>3, <3>1, <4>1, <4>2
    <3>2. ASSUME NEW k \in 1..Len(page), i = Len(items) + k
          PROVE  items'[i][2] <= after'
      <4>1. items'[i][2] = page[k]
        BY <1>6, <3>2
      <4>2. page[k] \in Nat /\ page[Len(page)] \in Nat
        BY <1>4, <2>1, ObjectsAreNumbers
      <4>3. k = Len(page) \/ k < Len(page)
        BY <1>4
      <4>4. page[k] = page[Len(page)] \/ page[k] < page[Len(page)]
        BY <1>4, <2>1, <4>3
      <4> QED
        BY <2>2, <4>1, <4>2, <4>4
    <3> QED
      BY <1>6, <3>1, <3>2
  <2>6. ASSUME NEW o \in stayed[1], o <= after'
        PROVE  o \in Request!Listed(1)'
    <3>1. o <= after \/ o > after
      BY <1>3
    <3>2. o > after => \E i \in 1..Len(page) : o = page[i]
      BY <1>3, <2>1, <2>2, <2>6
    <3> QED
      BY <1>5, <3>1, <3>2
  <2>7. \A o \in stayed'[1] : o <= after' => o \in Request!Listed(1)'
    BY <1>1, <2>6
  <2>8. AskingInv'
    BY <1>1, <1>5, <2>5, <2>7 DEF AskingInv
  <2> QED
    BY <1>1, <2>2, <2>4, <2>8 DEF RequestInv
<1>8. CASE ~(Len(page) < Len(Request!Left))
  <2>1. call_at' = "returned" /\ after' = after
    BY <1>2, <1>8
  <2>2. RequestTypes'
    BY <1>1, <1>2, <1>3, <1>4, <2>1, TakenTypes
  <2>3. \A o \in account[ws] : o > after => \E i \in 1..Len(page) : o = page[i]
    BY <1>1, <1>2, <1>3, <1>8, CursorPage
  <2>4. stayed'[1] \subseteq Request!Listed(1)'
    <3> SUFFICES ASSUME NEW o \in stayed[1] PROVE o \in Request!Listed(1)'
      BY <1>1
    <3>1. o <= after \/ o > after
      BY <1>3
    <3> QED
      BY <1>3, <1>5, <2>3, <3>1
  <2>5. Request!Missed' = {}
    <3>1. Request!Workspaces' = {1}
      BY <1>1, WorkspacesAreNumbers DEF Request!Workspaces
    <3> SUFFICES ASSUME NEW p \in Request!Missed' PROVE FALSE
      OBVIOUS
    <3>2. PICK w \in {1} : p \in {<<w, o>> : o \in stayed'[w] \ Request!Listed(w)'}
      BY <3>1, Zenon DEF Request!Missed
    <3> QED
      BY <2>4, <3>2
  <2>6. \A i, j \in DOMAIN items' : items'[i] = items'[j] => i = j
    <3> SUFFICES ASSUME NEW i \in 1..Len(items'), NEW j \in 1..Len(items'), items'[i] = items'[j], i # j
                 PROVE  FALSE
      BY <1>6
    <3>1. i < j \/ j < i
      OBVIOUS
    <3>2. items'[i][2] < items'[j][2] \/ items'[j][2] < items'[i][2]
      BY <1>5, <1>6, <3>1 DEF ItemsRise
    <3>3. items'[i][2] \in Nat /\ items'[i][2] = items'[j][2]
      BY <1>6, ObjectsAreNumbers
    <3> QED
      BY <3>2, <3>3
  <2>7. Request!Cardinality(Request!Missed') = 0 /\ gone'.deleted >= 0
    BY <1>1, <1>3, <2>5, SameCount, FS_EmptySet DEF Request!TypeOK
  <2>8. Request!CursorIsWhole' /\ Request!OffsetMissesWhatWasDeleted'
    BY <2>5, <2>6, <2>7 DEF Request!CursorIsWhole, Request!OffsetMissesWhatWasDeleted
  <2> QED
    BY <1>1, <2>1, <2>2, <2>8 DEF RequestInv, RequestTypes, Request!Safe, Request!WrittenOnce,
         Request!NeverGuesses, Request!RefusesOnlyTwins
<1> QED
  BY <1>7, <1>8

\* Every step of a call, and none but stuttering after its end, keeps it.
LEMMA RequestStep == RequestInv /\ [Request!Next]_request_vars => RequestInv'
<1> SUFFICES ASSUME RequestInv, [Request!Next]_request_vars PROVE RequestInv'
  OBVIOUS
<1>1. CASE UNCHANGED request_vars
  <2>1. /\ UNCHANGED <<job, call_at, ws, offset, after, items, attempt, slept, carried>>
        /\ UNCHANGED <<account, stayed, gone>>
    BY <1>1 DEF request_vars
  <2>2. RequestTypes' = RequestTypes
    BY <2>1 DEF RequestTypes, Request!TypeOK, Request!Workspaces
  <2>3. call_at = "asking" => AskingInv'
    BY <2>1, SameListing DEF RequestInv
  <2>4. Request!Missed' = Request!Missed /\ Request!Listed(1)' = Request!Listed(1)
    <3>1. Request!Workspaces' = Request!Workspaces /\ \A w : Request!Listed(w)' = Request!Listed(w)
      BY <2>1 DEF Request!Listed, Request!Workspaces
    <3>2. Request!Missed' = Request!Missed
      BY <2>1, <3>1 DEF Request!Missed
    <3> QED
      BY <3>1, <3>2
  <2>5. Request!Safe' = Request!Safe
    BY <2>1, <2>2, <2>4 DEF Request!Safe, Request!TypeOK, Request!Workspaces, Request!WrittenOnce,
       Request!CursorIsWhole, Request!OffsetMissesWhatWasDeleted, Request!NeverGuesses,
       Request!RefusesOnlyTwins
  <2> QED
    BY <2>1, <2>2, <2>3, <2>5 DEF RequestInv
<1>2. CASE Request!Next
  BY <1>2, RequestLimited, RequestFailed, RequestWrite, RequestPageByOffset, RequestPageByCursor,
     RequestDelete, RequestAdd DEF Request!Next, Request!Answer
<1> QED
  BY <1>1, <1>2

\* It promises what a call promises.
LEMMA RequestSafe == RequestInv => Request!Safe
<1> SUFFICES ASSUME RequestInv, call_at = "asking" PROVE Request!Safe
  BY DEF RequestInv
<1>1. Request!TypeOK /\ Request!WrittenOnce
  BY DEF RequestInv, RequestTypes, Request!TypeOK, Request!WrittenOnce
<1>2. /\ Request!CursorIsWhole /\ Request!OffsetMissesWhatWasDeleted /\ Request!NeverGuesses
      /\ Request!RefusesOnlyTwins
  BY Zenon DEF Request!CursorIsWhole, Request!OffsetMissesWhatWasDeleted, Request!NeverGuesses,
     Request!RefusesOnlyTwins
<1> QED
  BY <1>1, <1>2 DEF Request!Safe

-----------------------------------------------------------------------------
(* A test event *)

\* What PagerDuty holds of it: the trigger waits first in its queue or was
\* worked off once; from then on an incident holds the alert, and the test's own
\* is what the service's rules made of the event; one that was seen is listed.
EventAccount ==
  /\ \A i \in 1..Len(queue) : queue[i].type = "trigger" => i = 1 /\ alert = "none"
  /\ alert = "none" => holder = "none" /\ shape = None /\ seen = None
  /\ alert # "none" =>
       /\ shape \in Event!Shapes
       /\ shape.of.severity = Event!Outcome(svc.rules, args.severity).of.severity
       /\ holder = "own" => shape = Event!Outcome(svc.rules, args.severity)
  /\ seen # None => Event!Listed

\* main() gave up: without a failed call, an interruption or an incident read.
GaveUp ==
  event_at = "give_up" \/ (event_at = "done" /\ event_exit = 1 /\ ~raised /\ got = None)

\* Where main() stands: what it read is the incident as it is, it gave up on
\* nothing that was listed before the deadline, and its 0 is for the design.
EventScript ==
  /\ event_at \in {"look_up", "trigger"} => queue = <<>> /\ alert = "none"
  /\ event_at = "read" => Event!Listed
  /\ got # None => alert # "none" /\ got = shape
  /\ GaveUp => event_now > deadline /\ (seen # None => seen > deadline)
  /\ event_exit = 0 /\ args.send =>
       /\ got = Event!Designed(args.severity)
       /\ ~args.keep => alert = "resolved"

EventInv == Event!TypeOK /\ EventAccount /\ EventScript

\* A sequence with one more.
LEMMA LongerBy ==
  ASSUME NEW S, NEW s \in Seq(S), NEW x \in S
  PROVE  /\ Append(s, x) \in Seq(S) /\ Len(Append(s, x)) = Len(s) + 1 /\ Len(s) \in Nat
         /\ \A i \in 1..Len(s) : Append(s, x)[i] = s[i]
         /\ Append(s, x)[Len(s) + 1] = x
OBVIOUS

\* A sequence without its first.
LEMMA WithoutFirst ==
  ASSUME NEW S, NEW s \in Seq(S), s # <<>>
  PROVE  /\ Tail(s) \in Seq(S) /\ Head(s) \in S /\ Head(s) = s[1] /\ Len(s) \in Nat /\ Len(s) >= 1
         /\ Len(Tail(s)) = Len(s) - 1
         /\ \A i \in 1..Len(Tail(s)) : Tail(s)[i] = s[i + 1] /\ i + 1 \in 1..Len(s) /\ i + 1 # 1
OBVIOUS

\* What the rules make of an event, and the design, look like an incident; and
\* only what is designed is the design.
LEMMA OutcomeIs ==
  /\ \A rules : \A severity \in Event!Severities :
       Event!Outcome(rules, severity) \in Event!Shapes
  /\ \A severity : Event!Designed(severity) \in Event!Shapes /\ Event!Designed(severity) # None
  /\ \A rules : \A severity \in Event!Severities :
       Event!Outcome(rules, severity) = Event!Designed(severity) => rules = "design"
  /\ \A rules : \A severity \in {"Error", "Warning"} :
       Event!Outcome(rules, severity).of.severity = Event!Designed(severity).of.severity =>
         rules # "none"
<1>1. \A severity : Event!Expected(severity) \in
        [urgency : {"high", "low"}, priority : {"P1", "P2", "P3", "none"},
         severity : {"critical", "error", "warning"}]
  BY DEF Event!Expected
<1>2. Event!Expected("other").severity = "critical" /\ Event!Expected("Error").severity = "error"
      /\ Event!Expected("Warning").severity = "warning"
  BY DEF Event!Expected
<1>3. \A rules : \A severity \in Event!Severities :
        Event!Outcome(rules, severity) \in Event!Shapes
  BY <1>1 DEF Event!Outcome, Event!Shapes, Event!Titles
<1>4. \A rules : \A severity \in Event!Severities :
        Event!Outcome(rules, severity) = Event!Designed(severity) => rules = "design"
  BY DEF Event!Outcome, Event!Designed
<1>5. \A rules : \A severity \in {"Error", "Warning"} :
        Event!Outcome(rules, severity).of.severity = Event!Designed(severity).of.severity =>
          rules # "none"
  BY <1>2 DEF Event!Outcome, Event!Designed
<1>6. \A severity : Event!Designed(severity) \in Event!Shapes
  BY <1>1 DEF Event!Designed, Event!Shapes, Event!Titles
<1> QED
  BY <1>3, <1>4, <1>5, <1>6, EventsAreTyped

\* Time passes and stays within its bound.
LEMMA TimePasses ==
  ASSUME Event!TypeOK, Event!Takes \/ Event!Passes(1)
  PROVE  event_now' \in 0..MaxNow /\ event_now' \in Nat /\ event_now' >= event_now
<1>1. event_now \in 0..MaxNow /\ MaxNow \in Nat /\ MaxCall \in Nat
  BY EventsAreTyped DEF Event!TypeOK
<1>2. PICK d \in Nat : event_now + d <= MaxNow /\ event_now' = event_now + d
  <2>1. CASE Event!Takes
    <3>1. PICK d \in 0..MaxCall : Event!Passes(d)
      BY <2>1 DEF Event!Takes
    <3> QED
      BY <1>1, <3>1 DEF Event!Passes
  <2>2. CASE Event!Passes(1)
    BY <2>2 DEF Event!Passes
  <2> QED
    BY <2>1, <2>2
<1> QED
  BY <1>1, <1>2

\* PagerDuty's side of it, while nothing of it changes.
LEMMA AccountSame ==
  ASSUME EventAccount, UNCHANGED <<args, svc, queue, alert, holder, shape, seen>>
  PROVE  EventAccount'
<1>1. Event!Listed' = Event!Listed
  BY DEF Event!Listed
<1> QED
  BY <1>1 DEF EventAccount

\* A resolve is sent behind what waits.
LEMMA AccountSent ==
  ASSUME Event!TypeOK, EventAccount, UNCHANGED <<args, svc, alert, holder, shape, seen>>,
         event_now' \in 0..MaxNow, Event!Sent("resolve")
  PROVE  /\ EventAccount'
         /\ queue' \in Seq([type : {"trigger", "resolve"}, sent : 0..MaxNow])
<1> DEFINE E == [type : {"trigger", "resolve"}, sent : 0..MaxNow]
           e == [type |-> "resolve", sent |-> event_now']
<1>1. queue \in Seq(E) /\ e \in E /\ e.type # "trigger"
  BY DEF Event!TypeOK
<1>2. queue' = Append(queue, e)
  BY DEF Event!Sent
<1> HIDE DEF E, e
<1>3. /\ queue' \in Seq(E) /\ Len(queue') = Len(queue) + 1 /\ Len(queue) \in Nat
      /\ \A i \in 1..Len(queue) : queue'[i] = queue[i]
      /\ queue'[Len(queue) + 1] = e
  BY <1>1, <1>2, LongerBy
<1>4. \A i \in 1..Len(queue') : queue'[i].type = "trigger" => i = 1 /\ alert = "none"
  <2> SUFFICES ASSUME NEW i \in 1..Len(queue'), queue'[i].type = "trigger"
               PROVE  i = 1 /\ alert = "none"
    OBVIOUS
  <2>1. i # Len(queue) + 1
    BY <1>1, <1>3
  <2>2. i \in 1..Len(queue)
    BY <1>3, <2>1
  <2> QED
    BY <1>3, <2>2 DEF EventAccount
<1>5. Event!Listed' = Event!Listed
  BY DEF Event!Listed
<1> QED
  BY <1>3, <1>4, <1>5 DEF EventAccount, E

\* The trigger is sent to an empty queue.
LEMMA AccountTriggered ==
  ASSUME Event!TypeOK, EventAccount, UNCHANGED <<args, svc, alert, holder, shape, seen>>,
         event_now' \in 0..MaxNow, Event!Sent("trigger"), queue = <<>>, alert = "none"
  PROVE  /\ EventAccount'
         /\ queue' \in Seq([type : {"trigger", "resolve"}, sent : 0..MaxNow])
<1> DEFINE E == [type : {"trigger", "resolve"}, sent : 0..MaxNow]
           e == [type |-> "trigger", sent |-> event_now']
<1>1. queue \in Seq(E) /\ e \in E /\ Len(queue) = 0
  BY DEF Event!TypeOK
<1>2. queue' = Append(queue, e)
  BY DEF Event!Sent
<1> HIDE DEF E, e
<1>3. queue' \in Seq(E) /\ Len(queue') = 1
  BY <1>1, <1>2, LongerBy
<1>4. Event!Listed' = Event!Listed
  BY DEF Event!Listed
<1> QED
  BY <1>3, <1>4 DEF EventAccount, E

\* A test begins with nothing sent.
LEMMA EventInit == Event!Init => EventInv
<1> SUFFICES ASSUME Event!Init PROVE EventInv
  OBVIOUS
<1>1. /\ args \in Runs /\ event_at = "look_up" /\ event_now = 0 /\ deadline = 0
      /\ got = None /\ event_exit = None /\ raised = FALSE /\ queue = <<>> /\ alert = "none"
      /\ holder = "none" /\ shape = None /\ company = FALSE /\ acked = FALSE /\ seen = None
  BY DEF Event!Init
<1>2. Event!TypeOK
  <2>1. /\ args \in Event!Args /\ event_now \in 0..MaxNow /\ deadline \in 0..(MaxNow + Wait)
        /\ None \notin Nat
    BY <1>1, EventsAreTyped
  <2>2. queue \in Seq([type : {"trigger", "resolve"}, sent : 0..MaxNow])
    BY <1>1
  <2> QED
    BY <1>1, <2>1, <2>2 DEF Event!TypeOK, Event!Calls
<1>3. EventAccount
  BY <1>1 DEF EventAccount
<1>4. EventScript
  BY <1>1, EventsAreTyped DEF EventScript, GaveUp
<1> QED
  BY <1>2, <1>3, <1>4 DEF EventInv

\* Without a service and a key, or without --send, nothing is sent.
LEMMA EventLookUp == EventInv /\ Event!LookUp => EventInv'
<1> SUFFICES ASSUME EventInv, Event!LookUp PROVE EventInv'
  OBVIOUS
<1>1. /\ event_at = "look_up" /\ Event!Takes
      /\ UNCHANGED <<args, deadline, got, raised, svc, queue, alert, holder, shape, company, acked, seen>>
  BY DEF Event!LookUp, Event!account
<1>2. \/ event_at' = "done" /\ event_exit' = 2
      \/ event_at' = "done" /\ event_exit' = 0 /\ ~args.send
      \/ event_at' = "trigger" /\ event_exit' = event_exit
  BY DEF Event!LookUp, Event!Return
<1>3. Event!TypeOK /\ EventAccount /\ EventScript /\ event_now' \in 0..MaxNow
  BY <1>1, TimePasses DEF EventInv
<1>4. got = None /\ event_exit = None
  BY <1>1, <1>3, EventsAreTyped DEF Event!TypeOK, EventScript
<1>5. EventAccount'
  BY <1>1, <1>3, AccountSame
<1>6. Event!TypeOK'
  BY <1>1, <1>2, <1>3, <1>4, EventsAreTyped DEF Event!TypeOK, Event!Calls
<1>7. EventScript'
  BY <1>1, <1>2, <1>3, <1>4, EventsAreTyped DEF EventScript, GaveUp
<1> QED
  BY <1>5, <1>6, <1>7 DEF EventInv

\* The one trigger is sent.
LEMMA EventTrigger == EventInv /\ Event!Trigger => EventInv'
<1> SUFFICES ASSUME EventInv, Event!Trigger PROVE EventInv'
  OBVIOUS
<1>1. /\ event_at = "trigger" /\ Event!Takes /\ Event!Sent("trigger")
      /\ event_at' = "poll" /\ deadline' = event_now' + Wait
      /\ UNCHANGED <<args, got, event_exit, raised, svc, alert, holder, shape, company, acked, seen>>
  BY DEF Event!Trigger
<1>2. /\ Event!TypeOK /\ EventAccount /\ EventScript /\ event_now' \in 0..MaxNow
      /\ queue = <<>> /\ alert = "none"
  BY <1>1, TimePasses DEF EventInv, EventScript
<1>3. got = None /\ event_exit = None
  BY <1>1, <1>2 DEF Event!TypeOK, EventScript
<1>4. /\ EventAccount'
      /\ queue' \in Seq([type : {"trigger", "resolve"}, sent : 0..MaxNow])
  BY <1>1, <1>2, AccountTriggered
<1>5. deadline' \in 0..(MaxNow + Wait)
  <2>1. MaxNow \in Nat /\ Wait \in Nat
    BY EventsAreTyped
  <2>2. deadline' = event_now' + Wait /\ event_now' \in Nat /\ event_now' <= MaxNow
    BY <1>1, <1>2, <2>1
  <2>3. \A a, b, c \in Nat : a <= c => a + b \in 0..(c + b)
    OBVIOUS
  <2>4. event_now' + Wait \in 0..(MaxNow + Wait)
    BY <2>1, <2>2, <2>3
  <2> QED
    BY <2>2, <2>4
<1>6. Event!TypeOK'
  BY <1>1, <1>2, <1>3, <1>4, <1>5 DEF Event!TypeOK, Event!Calls
<1>7. EventScript'
  BY <1>1, <1>2, <1>3, EventsAreTyped DEF EventScript, GaveUp
<1> QED
  BY <1>4, <1>6, <1>7 DEF EventInv

\* What the listing shows later than the deadline was not there before it.
LEMMA EventPoll == EventInv /\ Event!Poll => EventInv'
<1> SUFFICES ASSUME EventInv, Event!Poll PROVE EventInv'
  OBVIOUS
<1>1. /\ event_at = "poll" /\ Event!Takes
      /\ event_at' = IF Event!Listed THEN "read" ELSE IF event_now' > deadline THEN "give_up" ELSE "sleep"
      /\ UNCHANGED <<args, deadline, got, event_exit, raised, svc, queue, alert, holder, shape, company, acked, seen>>
  BY DEF Event!Poll, Event!account, Event!Past
<1>2. Event!TypeOK /\ EventAccount /\ EventScript /\ event_now' \in 0..MaxNow
  BY <1>1, TimePasses DEF EventInv
<1>3. event_exit = None
  BY <1>1, <1>2 DEF Event!TypeOK
<1>4. EventAccount'
  BY <1>1, <1>2, AccountSame
<1>5. Event!TypeOK'
  BY <1>1, <1>2, <1>3 DEF Event!TypeOK, Event!Calls
<1>6. Event!Listed' = Event!Listed
  BY <1>1 DEF Event!Listed
<1>7. EventScript'
  <2>1. event_at' = "read" => Event!Listed'
    BY <1>1, <1>6
  <2>2. GaveUp' => event_now' > deadline' /\ (seen' # None => seen' > deadline')
    BY <1>1, <1>2, <1>3 DEF GaveUp, EventAccount
  <2> QED
    BY <1>1, <1>2, <1>3, <2>1, <2>2, EventsAreTyped DEF EventScript
<1> QED
  BY <1>4, <1>5, <1>7 DEF EventInv

\* A sleep only takes time.
LEMMA EventSleep == EventInv /\ Event!Sleep => EventInv'
<1> SUFFICES ASSUME EventInv, Event!Sleep PROVE EventInv'
  OBVIOUS
<1>1. /\ event_at \in {"sleep", "sleep_on"} /\ Event!Passes(1)
      /\ event_at' = IF event_at = "sleep" THEN "poll" ELSE "await"
      /\ UNCHANGED <<args, deadline, got, event_exit, raised, svc, queue, alert, holder, shape, company, acked, seen>>
  BY DEF Event!Sleep, Event!account
<1>2. Event!TypeOK /\ EventAccount /\ EventScript /\ event_now' \in 0..MaxNow
  BY <1>1, TimePasses DEF EventInv
<1>3. event_exit = None
  BY <1>1, <1>2 DEF Event!TypeOK
<1>4. EventAccount'
  BY <1>1, <1>2, AccountSame
<1>5. Event!TypeOK'
  BY <1>1, <1>2, <1>3 DEF Event!TypeOK, Event!Calls
<1>6. EventScript'
  BY <1>1, <1>2, <1>3, EventsAreTyped DEF EventScript, GaveUp
<1> QED
  BY <1>4, <1>5, <1>6 DEF EventInv

\* main() gives up after the deadline, and resolves what may come.
LEMMA EventGiveUp == EventInv /\ Event!GiveUp => EventInv'
<1> SUFFICES ASSUME EventInv, Event!GiveUp PROVE EventInv'
  OBVIOUS
<1>1. /\ event_at = "give_up" /\ Event!Takes /\ Event!Sent("resolve")
      /\ event_at' = "done" /\ event_exit' = 1
      /\ UNCHANGED <<args, deadline, got, raised, svc, alert, holder, shape, company, acked, seen>>
  BY DEF Event!GiveUp, Event!Return
<1>2. /\ Event!TypeOK /\ EventAccount /\ EventScript /\ event_now' \in 0..MaxNow
      /\ event_now' >= event_now /\ event_now \in Nat /\ deadline \in Nat
  BY <1>1, TimePasses, EventsAreTyped DEF EventInv, Event!TypeOK
<1>3. /\ EventAccount'
      /\ queue' \in Seq([type : {"trigger", "resolve"}, sent : 0..MaxNow])
  BY <1>1, <1>2, AccountSent
<1>4. Event!TypeOK'
  BY <1>1, <1>2, <1>3, EventsAreTyped DEF Event!TypeOK, Event!Calls
<1>5. event_now' > deadline /\ (seen # None => seen > deadline)
  BY <1>1, <1>2 DEF EventScript, GaveUp
<1>6. EventScript'
  BY <1>1, <1>2, <1>5, EventsAreTyped DEF EventScript, GaveUp
<1> QED
  BY <1>3, <1>4, <1>6 DEF EventInv

\* What is read is the incident as it is.
LEMMA EventRead == EventInv /\ Event!Read => EventInv'
<1> SUFFICES ASSUME EventInv, Event!Read PROVE EventInv'
  OBVIOUS
<1>1. /\ event_at = "read" /\ Event!Takes /\ got' = shape
      /\ UNCHANGED <<args, deadline, raised, svc, queue, alert, holder, shape, company, acked, seen>>
  BY DEF Event!Read, Event!account
<1>2. \/ args.keep /\ event_at' = "done" /\ event_exit' = 0 /\ shape = Event!Designed(args.severity)
      \/ args.keep /\ event_at' = "done" /\ event_exit' = 1
      \/ event_at' = "resolve" /\ event_exit' = event_exit
  BY DEF Event!Read, Event!Return, Event!AsDesigned
<1>3. Event!TypeOK /\ EventAccount /\ EventScript /\ event_now' \in 0..MaxNow
  BY <1>1, TimePasses DEF EventInv
<1>4. event_exit = None
  BY <1>1, <1>3 DEF Event!TypeOK
<1>5. alert # "none" /\ shape \in Event!Shapes /\ shape # None
  BY <1>1, <1>3, EventsAreTyped DEF EventScript, EventAccount, Event!Listed
<1>6. EventAccount'
  BY <1>1, <1>3, AccountSame
<1>7. Event!TypeOK'
  BY <1>1, <1>2, <1>3, <1>4, <1>5, EventsAreTyped DEF Event!TypeOK, Event!Calls
<1>8. EventScript'
  BY <1>1, <1>2, <1>3, <1>4, <1>5, EventsAreTyped DEF EventScript, GaveUp
<1> QED
  BY <1>6, <1>7, <1>8 DEF EventInv

\* A resolve is sent for what was read.
LEMMA EventResolve == EventInv /\ Event!Resolve => EventInv'
<1> SUFFICES ASSUME EventInv, Event!Resolve PROVE EventInv'
  OBVIOUS
<1>1. /\ event_at = "resolve" /\ Event!Takes /\ Event!Sent("resolve")
      /\ event_at' = "await" /\ deadline' = event_now' + Wait
      /\ UNCHANGED <<args, got, event_exit, raised, svc, alert, holder, shape, company, acked, seen>>
  BY DEF Event!Resolve
<1>2. Event!TypeOK /\ EventAccount /\ EventScript /\ event_now' \in 0..MaxNow
  BY <1>1, TimePasses DEF EventInv
<1>3. event_exit = None /\ got # None
  BY <1>1, <1>2 DEF Event!TypeOK
<1>4. /\ EventAccount'
      /\ queue' \in Seq([type : {"trigger", "resolve"}, sent : 0..MaxNow])
  BY <1>1, <1>2, AccountSent
<1>5. deadline' \in 0..(MaxNow + Wait)
  <2>1. MaxNow \in Nat /\ Wait \in Nat
    BY EventsAreTyped
  <2>2. deadline' = event_now' + Wait /\ event_now' \in Nat /\ event_now' <= MaxNow
    BY <1>1, <1>2, <2>1
  <2>3. \A a, b, c \in Nat : a <= c => a + b \in 0..(c + b)
    OBVIOUS
  <2>4. event_now' + Wait \in 0..(MaxNow + Wait)
    BY <2>1, <2>2, <2>3
  <2> QED
    BY <2>2, <2>4
<1>6. Event!TypeOK'
  BY <1>1, <1>2, <1>3, <1>4, <1>5 DEF Event!TypeOK, Event!Calls
<1>7. EventScript'
  BY <1>1, <1>2, <1>3, EventsAreTyped DEF EventScript, GaveUp
<1> QED
  BY <1>4, <1>6, <1>7 DEF EventInv

\* An exit 0 needs the design and an end.
LEMMA EventAwait == EventInv /\ Event!Await => EventInv'
<1> SUFFICES ASSUME EventInv, Event!Await PROVE EventInv'
  OBVIOUS
<1>1. /\ event_at = "await" /\ Event!Takes
      /\ UNCHANGED <<args, deadline, got, raised, svc, queue, alert, holder, shape, company, acked, seen>>
  BY DEF Event!Await, Event!account
<1>2. \/ /\ event_at' = "done" /\ event_exit' = 0
         /\ got = Event!Designed(args.severity) /\ Event!Status = "resolved"
      \/ event_at' = "done" /\ event_exit' = 1
      \/ event_at' = "sleep_on" /\ event_exit' = event_exit
  BY DEF Event!Await, Event!Return, Event!AsDesigned
<1>3. Event!TypeOK /\ EventAccount /\ EventScript /\ event_now' \in 0..MaxNow
  BY <1>1, TimePasses DEF EventInv
<1>4. event_exit = None /\ got # None /\ alert # "none"
  BY <1>1, <1>3 DEF Event!TypeOK, EventScript
<1>5. Event!Status = "resolved" => alert = "resolved"
  BY <1>3, <1>4 DEF Event!Status, Event!TypeOK
<1>6. EventAccount'
  BY <1>1, <1>3, AccountSame
<1>7. Event!TypeOK'
  BY <1>1, <1>2, <1>3, <1>4, EventsAreTyped DEF Event!TypeOK, Event!Calls
<1>8. EventScript'
  BY <1>1, <1>2, <1>3, <1>4, <1>5, EventsAreTyped DEF EventScript, GaveUp
<1> QED
  BY <1>6, <1>7, <1>8 DEF EventInv

\* A run that raised gave up on nothing and passed nothing.
LEMMA RaisedScript ==
  ASSUME EventInv, event_at # "done", event_at' = "done", event_exit' \in {1, 130}, raised' = TRUE,
         UNCHANGED <<args, got, alert, shape>>
  PROVE  EventScript'
<1>1. event_exit' # 0
  OBVIOUS
<1> QED
  BY <1>1 DEF EventInv, EventScript, GaveUp

\* A call that failed may have sent its event all the same.
LEMMA EventCallFails == EventInv /\ Event!CallFails => EventInv'
<1> SUFFICES ASSUME EventInv, Event!CallFails PROVE EventInv'
  OBVIOUS
<1>1. /\ event_at \in Event!Calls /\ Event!Takes
      /\ raised' = TRUE /\ event_at' = "done" /\ event_exit' = 1
      /\ UNCHANGED <<args, deadline, got, svc, alert, holder, shape, company, acked, seen>>
  BY DEF Event!CallFails, Event!Return
<1>2. /\ Event!TypeOK /\ EventAccount /\ EventScript /\ event_now' \in 0..MaxNow
      /\ event_at # "done"
  BY <1>1, TimePasses DEF EventInv, Event!Calls
<1>3. /\ EventAccount'
      /\ queue' \in Seq([type : {"trigger", "resolve"}, sent : 0..MaxNow])
  <2>1. CASE UNCHANGED queue
    BY <1>1, <1>2, <2>1, AccountSame DEF Event!TypeOK
  <2>2. CASE event_at = "trigger" /\ Event!Sent("trigger")
    <3>1. queue = <<>> /\ alert = "none"
      BY <1>2, <2>2 DEF EventScript
    <3> QED
      BY <1>1, <1>2, <2>2, <3>1, AccountTriggered
  <2>3. CASE Event!Sent("resolve")
    BY <1>1, <1>2, <2>3, AccountSent
  <2> QED
    BY <2>1, <2>2, <2>3 DEF Event!CallFails
<1>4. Event!TypeOK'
  BY <1>1, <1>2, <1>3, EventsAreTyped DEF Event!TypeOK, Event!Calls
<1>5. EventScript'
  BY <1>1, <1>2, RaisedScript
<1> QED
  BY <1>3, <1>4, <1>5 DEF EventInv

\* A person's stop is no exit that says anything.
LEMMA EventInterrupt == EventInv /\ Event!Interrupt => EventInv'
<1> SUFFICES ASSUME EventInv, Event!Interrupt PROVE EventInv'
  OBVIOUS
<1>1. /\ event_at # "done" /\ raised' = TRUE /\ event_at' = "done" /\ event_exit' = 130
      /\ UNCHANGED <<args, event_now, deadline, got, svc, queue, alert, holder, shape, company, acked, seen>>
  BY DEF Event!Interrupt, Event!Return, Event!account
<1>2. Event!TypeOK /\ EventAccount /\ EventScript
  BY DEF EventInv
<1>3. EventAccount'
  BY <1>1, <1>2, AccountSame
<1>4. Event!TypeOK'
  BY <1>1, <1>2, EventsAreTyped DEF Event!TypeOK, Event!Calls
<1>5. EventScript'
  BY <1>1, RaisedScript
<1> QED
  BY <1>3, <1>4, <1>5 DEF EventInv

\* The trigger is worked off once, before anything was read.
LEMMA EventProcess == EventInv /\ Event!Process => EventInv'
<1> SUFFICES ASSUME EventInv, Event!Process PROVE EventInv'
  OBVIOUS
<1> DEFINE E == [type : {"trigger", "resolve"}, sent : 0..MaxNow]
           mine == Event!Outcome(svc.rules, args.severity)
<1>1. /\ queue # <<>> /\ queue' = Tail(queue)
      /\ UNCHANGED <<args, event_at, deadline, got, event_exit, raised, event_now, svc>>
  BY DEF Event!Process, Event!script
<1>2. /\ Event!TypeOK /\ EventAccount /\ EventScript
      /\ queue \in Seq(E) /\ event_now \in 0..MaxNow /\ event_now \in Nat
  BY EventsAreTyped DEF EventInv, Event!TypeOK
<1>3. /\ queue' \in Seq(E) /\ Head(queue) \in E /\ Head(queue) = queue[1] /\ 1 \in 1..Len(queue)
      /\ \A i \in 1..Len(queue') : queue'[i] = queue[i + 1] /\ i + 1 \in 1..Len(queue) /\ i + 1 # 1
  <2> HIDE DEF E
  <2>1. /\ queue' \in Seq(E) /\ Head(queue) \in E /\ Head(queue) = queue[1]
        /\ Len(queue) \in Nat /\ Len(queue) >= 1
        /\ \A i \in 1..Len(queue') : queue'[i] = queue[i + 1] /\ i + 1 \in 1..Len(queue) /\ i + 1 # 1
    BY <1>1, <1>2, WithoutFirst
  <2> QED
    BY <2>1
<1>4. \A i \in 1..Len(queue') : queue'[i].type # "trigger"
  BY <1>2, <1>3 DEF EventAccount
<1>5. ~(event_at \in {"look_up", "trigger"})
  BY <1>1, <1>2 DEF EventScript
<1>6. CASE Head(queue).type = "trigger"
  <2>1. alert = "none" /\ seen = None /\ got = None
    BY <1>2, <1>3, <1>6 DEF EventAccount, EventScript
  <2>2. /\ alert' = "open" /\ acked' = acked
        /\ holder' \in {"own", "recent", "older"}
        /\ seen' = (IF holder' = "older" THEN None ELSE event_now)
    BY <1>6 DEF Event!Process
  <2>3. IF holder' = "own" THEN shape' = mine /\ company' = FALSE
        ELSE /\ \E s \in {mine.of, Event!Expected("Critical")}, t \in {"expected", "other"} :
                  shape' = [of |-> [s EXCEPT !.severity = mine.of.severity], title |-> t]
             /\ company' = TRUE
    BY <1>6, Zenon DEF Event!Process
  <2>4. mine \in Event!Shapes
    BY <1>2, OutcomeIs DEF Event!TypeOK, Event!Args
  <2>5. /\ shape' \in Event!Shapes /\ shape'.of.severity = mine.of.severity
        /\ holder' = "own" => shape' = mine
        /\ company' \in BOOLEAN
    <3> HIDE DEF mine
    <3>1. CASE holder' = "own"
      BY <2>3, <2>4, <3>1
    <3>2. CASE holder' # "own"
      <4>1. PICK s \in {mine.of, Event!Expected("Critical")}, t \in {"expected", "other"} :
              shape' = [of |-> [s EXCEPT !.severity = mine.of.severity], title |-> t]
        BY <2>3, <3>2
      <4>2. s \in [urgency : {"high", "low"}, priority : {"P1", "P2", "P3", "none"},
                   severity : {"critical", "error", "warning"}]
        BY <2>4 DEF Event!Shapes, Event!Expected
      <4>3. mine.of.severity \in {"critical", "error", "warning"}
        BY <2>4 DEF Event!Shapes
      <4> QED
        BY <2>3, <3>2, <4>1, <4>2, <4>3 DEF Event!Shapes, Event!Titles
    <3> QED
      BY <3>1, <3>2
  <2>6. seen' # None => Event!Listed'
    BY <2>2 DEF Event!Listed
  <2>7. EventAccount'
    BY <1>1, <1>4, <2>2, <2>5, <2>6 DEF EventAccount
  <2>8. Event!TypeOK'
    BY <1>1, <1>2, <1>3, <2>2, <2>5 DEF Event!TypeOK
  <2>9. GaveUp' => event_now' > deadline' /\ (seen' # None => seen' > deadline')
    BY <1>1, <1>2, <2>2 DEF EventScript, GaveUp
  <2>10. event_exit' = 0 /\ args'.send => FALSE
    <3>1. got # Event!Designed(args.severity)
      BY <2>1, OutcomeIs
    <3> QED
      BY <1>1, <1>2, <3>1 DEF EventScript
  <2>11. EventScript'
    BY <1>1, <1>2, <1>5, <2>1, <2>9, <2>10 DEF EventScript, Event!Listed
  <2> QED
    BY <2>7, <2>8, <2>11 DEF EventInv
<1>7. CASE Head(queue).type = "resolve"
  <2>1. /\ alert' = (IF alert = "open" THEN "resolved" ELSE alert)
        /\ UNCHANGED <<holder, shape, company, acked, seen>>
    BY <1>7 DEF Event!Process
  <2>2. Event!Listed' = Event!Listed
    BY <2>1 DEF Event!Listed
  <2>3. EventAccount'
    BY <1>1, <1>2, <1>4, <2>1, <2>2 DEF EventAccount
  <2>4. Event!TypeOK'
    BY <1>1, <1>2, <1>3, <2>1 DEF Event!TypeOK
  <2>5. EventScript'
    BY <1>1, <1>2, <1>5, <2>1, <2>2 DEF EventScript, GaveUp
  <2> QED
    BY <2>3, <2>4, <2>5 DEF EventInv
<1> QED
  BY <1>3, <1>6, <1>7

\* What others do to the incident keeps what it looks like.
LEMMA EventOthers ==
  EventInv /\ (Event!Joined \/ Event!Acknowledge \/ Event!ResolveByHand) => EventInv'
<1> SUFFICES ASSUME EventInv, Event!Joined \/ Event!Acknowledge \/ Event!ResolveByHand
             PROVE  EventInv'
  OBVIOUS
<1>1. /\ UNCHANGED <<args, event_at, deadline, got, event_exit, raised, event_now, svc, queue, holder,
                     shape, seen>>
      /\ alert' = alert \/ (alert # "none" /\ alert' = "resolved")
      /\ company' \in {company, TRUE, FALSE} /\ acked' \in {acked, TRUE}
  BY DEF Event!Joined, Event!Acknowledge, Event!ResolveByHand, Event!script
<1>2. Event!TypeOK /\ EventAccount /\ EventScript
  BY DEF EventInv
<1>3. Event!Listed' = Event!Listed
  BY <1>1 DEF Event!Listed
<1>4. EventAccount'
  BY <1>1, <1>2, <1>3 DEF EventAccount
<1>5. Event!TypeOK'
  <2>1. company \in BOOLEAN /\ acked \in BOOLEAN /\ alert \in {"none", "open", "resolved"}
    BY <1>2 DEF Event!TypeOK
  <2>2. company' \in BOOLEAN /\ acked' \in BOOLEAN
    BY <1>1, <2>1, Zenon
  <2>3. alert' \in {"none", "open", "resolved"}
    BY <1>1, <2>1
  <2> QED
    BY <1>1, <1>2, <2>2, <2>3 DEF Event!TypeOK
<1>6. EventScript'
  BY <1>1, <1>2, <1>3 DEF EventScript, GaveUp
<1> QED
  BY <1>4, <1>5, <1>6 DEF EventInv

\* Every step of a test event keeps it.
LEMMA EventStep == EventInv /\ [Event!Next]_event_vars => EventInv'
<1> SUFFICES ASSUME EventInv, [Event!Next]_event_vars PROVE EventInv'
  OBVIOUS
<1>1. CASE UNCHANGED event_vars
  <2>1. /\ UNCHANGED <<args, event_at, event_now, deadline, got, event_exit, raised>>
        /\ UNCHANGED <<svc, queue, alert, holder, shape, company, acked, seen>>
    BY <1>1 DEF event_vars
  <2>2. Event!TypeOK /\ EventAccount /\ EventScript /\ Event!Listed' = Event!Listed
    BY <2>1 DEF EventInv, Event!Listed
  <2>3. EventAccount'
    BY <2>1, <2>2, AccountSame
  <2>4. Event!TypeOK'
    BY <2>1, <2>2 DEF Event!TypeOK
  <2>5. EventScript'
    BY <2>1, <2>2 DEF EventScript, GaveUp
  <2> QED
    BY <2>3, <2>4, <2>5 DEF EventInv
<1>2. CASE Event!Next
  BY <1>2, EventLookUp, EventTrigger, EventPoll, EventSleep, EventGiveUp, EventRead, EventResolve,
     EventAwait, EventCallFails, EventInterrupt, EventProcess, EventOthers
     DEF Event!Next, Event!Works, Event!PagerDuty
<1> QED
  BY <1>1, <1>2

\* The incident it passed is as designed, so the rules that made it are.
LEMMA EventSafe == EventInv => Event!Safe
<1> SUFFICES ASSUME EventInv PROVE Event!Safe
  OBVIOUS
<1>1. Event!TypeOK /\ EventAccount /\ EventScript /\ args.severity \in Event!Severities
  BY DEF EventInv, Event!TypeOK, Event!Args
<1>2. Event!ZeroIsDesigned
  <2> SUFFICES ASSUME event_exit = 0, args.send
               PROVE  /\ holder = "own" => svc.rules = "design"
                      /\ args.severity \in {"Error", "Warning"} => svc.rules # "none"
                      /\ ~args.keep => alert = "resolved"
    BY DEF Event!ZeroIsDesigned
  <2>1. /\ got = Event!Designed(args.severity) /\ got # None
        /\ ~args.keep => alert = "resolved"
    BY <1>1, OutcomeIs DEF EventScript
  <2>2. alert # "none" /\ shape = Event!Designed(args.severity)
    BY <1>1, <2>1 DEF EventScript
  <2>3. /\ shape.of.severity = Event!Outcome(svc.rules, args.severity).of.severity
        /\ holder = "own" => shape = Event!Outcome(svc.rules, args.severity)
    BY <1>1, <2>2 DEF EventAccount
  <2> QED
    BY <1>1, <2>1, <2>2, <2>3, OutcomeIs
<1>3. Event!FoundIfInTime
  <2> SUFFICES ASSUME ~raised, event_at = "done", event_exit = 1, got = None, seen # None
               PROVE  seen > deadline - MaxCall
    BY DEF Event!FoundIfInTime
  <2>1. seen > deadline
    BY <1>1 DEF EventScript, GaveUp
  <2>2. seen \in Nat /\ deadline \in Nat /\ MaxCall \in Nat
    BY <1>1, EventsAreTyped DEF Event!TypeOK
  <2> QED
    BY <2>1, <2>2
<1> QED
  BY <1>1, <1>2, <1>3 DEF Event!Safe
=============================================================================
