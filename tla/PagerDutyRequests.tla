-------------------------- MODULE PagerDutyRequests --------------------------
(***************************************************************************)
(* scripts/pagerduty/pdlib.py, class PagerDuty over http_json(): one call  *)
(* of list, list_cursor, slack_connections, find_by_name or write, request *)
(* by request, while other people add and delete objects.                  *)
(*                                                                         *)
(* Objects are numbers and the API lists them in that order. A page may be *)
(* shorter than asked for. Left out: which objects, bodies and the         *)
(* scrubbing of what is raised.                                            *)
(***************************************************************************)
EXTENDS Integers, Sequences, FiniteSets, SequencesExt

CONSTANTS
  Jobs,        \* the calls tried: list, cursor, slack, find, write
  Objects,     \* the numbers an object can have
  Named,       \* those that carry the wanted name
  Page,        \* the page size
  MaxChanges   \* bound on what others add and delete meanwhile

VARIABLES
  job,
  at,        \* asking, returned, refused or raised
  ws,        \* the workspace being listed: only slack has a second
  offset,    \* of the next page
  after,     \* the cursor, 0 for none
  items,     \* listed so far, each with its workspace
  attempt,   \* of the request under way
  slept,     \* seconds slept for it
  carried,   \* how often the write was carried out
  account,   \* the objects of each workspace
  stayed,    \* those there all along
  gone       \* how many others deleted, and added

listing == <<ws, offset, after, items>>
request == <<attempt, slept, carried>>
others == <<account, stayed, gone>>
vars == <<job, at, listing, request, others>>

Workspaces == IF job = "slack" THEN 1..2 ELSE {1}

-----------------------------------------------------------------------------
(* The API *)

\* The objects of a set in order: each comes after as many as are no greater.
Ordered(objects) ==
  [n \in 1..Cardinality(objects) |->
     CHOOSE o \in objects : Cardinality({x \in objects : x <= o}) = n]

\* What is left to list, in order, after the offset or after the cursor.
Left ==
  IF job = "cursor" THEN Ordered({o \in account[ws] : o > after})
  ELSE SubSeq(Ordered(account[ws]), offset + 1, Cardinality(account[ws]))

\* A page holds some of what is left, and nothing only when nothing is left.
Pages == {SubSeq(Left, 1, n) : n \in {k \in 0..Page : k <= Len(Left) /\ (k = 0 => Left = <<>>)}}

\* Others add and delete objects while the call is under way.
Delete ==
  /\ at = "asking" /\ gone.deleted + gone.added < MaxChanges
  /\ \E w \in Workspaces : \E o \in account[w] :
       /\ account' = [account EXCEPT ![w] = @ \ {o}]
       /\ stayed' = [stayed EXCEPT ![w] = @ \ {o}]
  /\ gone' = [gone EXCEPT !.deleted = @ + 1]
  /\ UNCHANGED <<job, at, listing, request>>

Add ==
  /\ at = "asking" /\ gone.deleted + gone.added < MaxChanges
  /\ \E w \in Workspaces : \E o \in Objects \ account[w] :
       account' = [account EXCEPT ![w] = @ \cup {o}]
  /\ gone' = [gone EXCEPT !.added = @ + 1]
  /\ UNCHANGED <<job, at, listing, request, stayed>>

-----------------------------------------------------------------------------
(* http_json *)

\* The 429's Retry-After: none, seconds, or a date, which int() refuses.
NoHeader == 0
Date == -1
RetryAfter == {NoHeader, Date, 60}
Pause(r) == IF r = NoHeader THEN 2 ELSE IF r > 30 THEN 30 ELSE r

Raise == at' = "raised" /\ UNCHANGED <<attempt, slept>>

\* A 429 was not carried out. It is tried again after a pause, three times.
Limited ==
  /\ at = "asking"
  /\ \E r \in RetryAfter :
       IF attempt < 3 /\ r # Date
       THEN attempt' = attempt + 1 /\ slept' = slept + Pause(r) /\ UNCHANGED at
       ELSE Raise
  /\ UNCHANGED <<job, carried, listing, others>>

\* Mutant: whatever fails is tried again.
FailedRetried ==
  /\ at = "asking"
  /\ IF attempt < 3 THEN attempt' = attempt + 1 /\ UNCHANGED <<at, slept>> ELSE Raise
  /\ carried' \in IF job = "write" THEN {carried, carried + 1} ELSE {carried}
  /\ UNCHANGED <<job, listing, others>>

\* Any other failure is final: the request may have been carried out.
Failed ==
  /\ at = "asking" /\ Raise
  /\ carried' \in IF job = "write" THEN {carried, carried + 1} ELSE {carried}
  /\ UNCHANGED <<job, listing, others>>

-----------------------------------------------------------------------------
(* class PagerDuty *)

\* Each page is a request of its own.
NewRequest == attempt' = 0 /\ slept' = 0 /\ UNCHANGED carried
Take(page) == items' = items \o [i \in DOMAIN page |-> <<ws, page[i]>>]

Write ==
  /\ at = "asking" /\ job = "write"
  /\ at' = "returned" /\ carried' = carried + 1
  /\ UNCHANGED <<job, listing, attempt, slept, others>>

\* Mutant: the offset moves on by the page size.
NextByPage(page) == offset + Page

\* offset += len(got)
NextOffset(page) == offset + Len(page)

\* slack_connections lists the next workspace from its start.
NextWorkspace == ws' = ws + 1 /\ offset' = 0 /\ UNCHANGED <<at, after>>

\* find_by_name: two objects of that name are refused.
Finds(all) ==
  IF job = "find" /\ Cardinality({i \in DOMAIN all : all[i][2] \in Named}) > 1
  THEN "refused" ELSE "returned"

\* list, slack_connections and find_by_name: until no more is said to follow.
PageByOffset ==
  /\ at = "asking" /\ job \in {"list", "find", "slack"}
  /\ \E page \in Pages :
       /\ Take(page)
       /\ IF Len(page) < Len(Left) /\ page # <<>>
          THEN offset' = NextOffset(page) /\ UNCHANGED <<at, ws, after>>
          ELSE IF ws + 1 \in Workspaces THEN NextWorkspace
          ELSE at' = Finds(items') /\ UNCHANGED <<ws, offset, after>>
  /\ NewRequest /\ UNCHANGED <<job, others>>

\* The API's cursor is the last object it gave.
Cursor(page) == Last(page)

\* list_cursor: until no cursor comes back.
PageByCursor ==
  /\ at = "asking" /\ job = "cursor"
  /\ \E page \in Pages :
       /\ Take(page)
       /\ IF Len(page) < Len(Left)
          THEN after' = Cursor(page) /\ UNCHANGED at
          ELSE at' = "returned" /\ UNCHANGED after
  /\ NewRequest /\ UNCHANGED <<job, ws, offset, others>>

-----------------------------------------------------------------------------

Init ==
  /\ job \in Jobs /\ at = "asking"
  /\ ws = 1 /\ offset = 0 /\ after = 0 /\ items = <<>>
  /\ attempt = 0 /\ slept = 0 /\ carried = 0
  /\ account \in [Workspaces -> SUBSET Objects]
  /\ job = "write" => account = [w \in Workspaces |-> {}]
  /\ stayed = account /\ gone = [deleted |-> 0, added |-> 0]

Answer == Write \/ PageByOffset \/ PageByCursor \/ Limited \/ Failed

Next == Answer \/ Delete \/ Add

Spec == Init /\ [][Next]_vars /\ WF_vars(Answer)

-----------------------------------------------------------------------------
(***************************************************************************)
(* What one call of pdlib's client promises, as properties of              *)
(* PagerDutyRequests.                                                      *)
(***************************************************************************)

\* The objects listed of a workspace, and those it missed though they stayed.
Listed(w) == {items[i][2] : i \in {j \in DOMAIN items : items[j][1] = w}}
Missed == UNION {{<<w, o>> : o \in stayed[w] \ Listed(w)} : w \in Workspaces}

\* The type of every variable. One request sleeps three times 30 seconds at
\* most.
TypeOK ==
  /\ job \in Jobs /\ at \in {"asking", "returned", "refused", "raised"}
  /\ ws \in Workspaces /\ offset \in Nat /\ after \in Objects \cup {0}
  /\ items \in Seq(Workspaces \X Objects)
  /\ attempt \in 0..3 /\ slept \in 0..90 /\ carried \in 0..1
  /\ account \in [Workspaces -> SUBSET Objects]
  /\ stayed \in [Workspaces -> SUBSET Objects]
  /\ \A w \in Workspaces : stayed[w] \subseteq account[w]
  /\ gone \in [deleted : 0..MaxChanges, added : 0..MaxChanges]

\* However a write's answers are lost or refused, http_json carries it out at
\* most once, and exactly once when it returns.
WrittenOnce ==
  job = "write" => carried <= 1 /\ (at = "returned" => carried = 1)

\* list_cursor misses nothing that was there all along, whatever is added and
\* deleted between two pages, and lists nothing twice.
CursorIsWhole ==
  job = "cursor" /\ at = "returned" =>
    Missed = {} /\ \A i, j \in DOMAIN items : items[i] = items[j] => i = j

\* A listing by offset misses at most one object for every object deleted
\* between two of its pages: undisturbed it is whole.
OffsetMissesWhatWasDeleted ==
  at \in {"returned", "refused"} => Cardinality(Missed) <= gone.deleted

\* find_by_name never picks one of two: with two objects of the name there all
\* along and nothing deleted meanwhile, it refuses.
NeverGuesses ==
  job = "find" /\ at = "returned" /\ gone.deleted = 0 =>
    Cardinality(Named \cap stayed[1]) <= 1

\* find_by_name refuses only when two objects of the name are in the way.
\* An object added on an earlier page pushes the last of it onto the next, and
\* find_by_name then counts the same object twice.
RefusesOnlyTwins ==
  at = "refused" /\ gone.added = 0 => Cardinality(Named \cap Listed(1)) > 1

\* What a call promises at any moment.
Safe ==
  /\ TypeOK /\ WrittenOnce /\ CursorIsWhole /\ OffsetMissesWhatWasDeleted
  /\ NeverGuesses /\ RefusesOnlyTwins

\* Where it ends.
Over == at # "asking"
=============================================================================
