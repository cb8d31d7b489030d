------------------------------- MODULE IapKeys -------------------------------
(***************************************************************************)
(* scripts/refresh_iap_keys.sh: re-pinning the keys that the cloud image   *)
(* carries. Google publishes its list of keys in any order and changes it; *)
(* a run fetches it, keeps the usable keys, compares them with the pinned  *)
(* file and, when asked, writes the file in place, where it may be         *)
(* stopped. Left out: what makes a key usable (its fields, a point on the  *)
(* curve), which members of a key are kept, and the date of the pin.       *)
(***************************************************************************)
EXTENDS Naturals, Sequences, FiniteSets

CONSTANTS
  Usable,         \* whether a key of each kind is an ES256 P-256 signing key
  Kid,            \* each kind's key id, a number
  MaxKeys,        \* keys Google publishes at once
  MaxChanges,     \* times Google changes its list in a run of the model
  NotJson         \* what a stopped write leaves in the file

Kinds == DOMAIN Kid

VARIABLES
  published,      \* Google's list
  pinned,         \* the keys of the file, or NotJson
  changes,
  step,           \* of the run: "none", "fetched", "opened" or "ended"
  write,          \* whether the run was asked to write
  keys,           \* the usable keys the run fetched, as it compares them
  exit            \* the run's exit code, or 9 for a run that was stopped

vars == <<published, pinned, changes, step, write, keys, exit>>

Lists == UNION {[1..n -> Kinds] : n \in 0..MaxKeys}

-----------------------------------------------------------------------------
(* The run *)

\* Mutant: the order Google has them in.
BeforeAsIs(list, m, n) == m <= n

\* By key id; keys of one id stay in their order.
Before(list, m, n) ==
  \/ Kid[list[m]] < Kid[list[n]]
  \/ Kid[list[m]] = Kid[list[n]] /\ m <= n

\* The keys at these places of a list, sorted: each comes after as many as are
\* before it.
Sorted(list, places) ==
  [p \in 1..Cardinality(places) |->
     list[CHOOSE n \in places : Cardinality({m \in places : Before(list, m, n)}) = p]]

\* Mutant: every key is kept.
KeptAll(list) == Sorted(list, DOMAIN list)

Kept(list) == Sorted(list, {n \in DOMAIN list : Usable[list[n]]})

Ends(code) == step' = "ended" /\ exit' = code

\* A run starts and fetches the list: it ends where it cannot read it, where it
\* is no list of keys, and where none is usable.
Fetch(asked, read) ==
  /\ step \in {"none", "ended"}
  /\ write' = asked
  /\ IF read /\ Kept(published) # <<>>
     THEN step' = "fetched" /\ exit' = 9 /\ keys' = Kept(published)
     ELSE Ends(2) /\ keys' = <<>>
  /\ UNCHANGED <<published, pinned, changes>>

\* The file's keys, in the same order, are those fetched.
Same(list) == Sorted(list, DOMAIN list) = keys

\* The file is read, and the run ends by an error where it is not JSON. A check
\* ends with what it found; a write opens the file, which empties it.
Compare ==
  /\ step = "fetched"
  /\ IF pinned = NotJson THEN Ends(1) /\ UNCHANGED pinned
     ELSE IF ~write THEN Ends(IF Same(pinned) THEN 0 ELSE 1) /\ UNCHANGED pinned
     ELSE step' = "opened" /\ pinned' = NotJson /\ UNCHANGED exit
  /\ UNCHANGED <<published, changes, write, keys>>

Write ==
  /\ step = "opened"
  /\ pinned' = keys
  /\ Ends(0)
  /\ UNCHANGED <<published, changes, write, keys>>

\* The run is stopped.
Stop ==
  /\ step \in {"fetched", "opened"}
  /\ Ends(9)
  /\ UNCHANGED <<published, pinned, changes, write, keys>>

-----------------------------------------------------------------------------

\* Google rotates its keys, or publishes them in another order.
Change ==
  /\ changes < MaxChanges
  /\ published' \in Lists \ {published}
  /\ changes' = changes + 1
  /\ UNCHANGED <<pinned, step, write, keys, exit>>

\* The file was pinned from a list of Google's, by a run that ended well.
Init ==
  /\ published \in Lists
  /\ Kept(published) # <<>>
  /\ pinned = Kept(published)
  /\ changes = 0 /\ step = "none" /\ write = FALSE /\ keys = <<>> /\ exit = 9

Next ==
  \/ \E asked, read \in BOOLEAN : Fetch(asked, read)
  \/ Compare \/ Write \/ Stop \/ Change

Spec == Init /\ [][Next]_vars

-----------------------------------------------------------------------------
(***************************************************************************)
(* What a run says, and what it leaves in the file, in the words of the    *)
(* script's head.                                                          *)
(***************************************************************************)

KeysOf(list) == {list[n] : n \in DOMAIN list}
OneOfEachId(list) == \A m, n \in DOMAIN list : m # n => Kid[list[m]] # Kid[list[n]]
Readable == pinned # NotJson

-----------------------------------------------------------------------------

\* "Exit 0: the pinned keys are Google's; 1: they differ", whatever order
\* Google lists them in, and whatever it did since the run fetched them.
CheckTells ==
  step = "ended" /\ ~write /\ keys # <<>> /\ Readable /\ OneOfEachId(keys) /\ OneOfEachId(pinned) =>
    (exit = 0 => KeysOf(pinned) = KeysOf(keys)) /\ (exit = 1 => KeysOf(pinned) # KeysOf(keys))

\* "a set with none is refused": the file never pins a key that cannot sign,
\* nor a list without one, so a bad answer never locks everyone out.
PinnedIsUsable == Readable => pinned # <<>> /\ \A key \in KeysOf(pinned) : Usable[key]

\* What a run of the script promises.
Safe ==
  /\ CheckTells /\ PinnedIsUsable
=============================================================================
