----------------------------- MODULE CatalogueTree -----------------------------
(***************************************************************************)
(* scripts/catalogue.py, mapping_tree: the vendored catalogue's YAML read  *)
(* line by line with a stack of indents, while it is written as YAML means *)
(* it. A dictionary is the path of keys to it, so the tree is a set of     *)
(* paths with a value each: "open" (a mapping or nothing), "scalar" or     *)
(* "block". A list's item is the key "-N". Left out: what a scalar says;   *)
(* text that is in no block and no key (KEY_RE fails, the line is passed   *)
(* over).                                                                  *)
(***************************************************************************)
EXTENDS Integers, Sequences, FiniteSets

CONSTANTS
  Keys,
  Indents,     \* how much deeper than its key a mapping may start
  MaxLines, MaxColumn

VARIABLES
  \* of the writer
  open,        \* the containers that are open, outermost first
  written,     \* the paths and values that were written
  block,       \* the column of the key whose block scalar is being written, or None
  lines,       \* how many were written
  \* of mapping_tree
  stack, tree, skip_deeper_than, items

writer == <<open, written, block, lines>>
reader == <<stack, tree, skip_deeper_than, items>>
vars == <<writer, reader>>

\* None of Python, and the root's indent.
None == -1

Entry(path, value) == [path |-> path, value |-> value]
Level(indent, path) == [indent |-> indent, path |-> path]
Container(path, column, kind) == [path |-> path, column |-> column, kind |-> kind]

Init ==
  /\ open = <<Container(<<>>, 0, "map")>> /\ written = {} /\ block = None /\ lines = 0
  /\ stack = <<Level(-1, <<>>)>> /\ tree = {} /\ skip_deeper_than = None
  /\ items = [path \in {} |-> 0]

Max2(S) == CHOOSE x \in S : \A y \in S : y <= x

-----------------------------------------------------------------------------
(* mapping_tree, for one line that says something *)

\* The levels that a line at this indent does not close.
OpenAt(indent) == SubSeq(stack, 1, Max2({d \in 1..Len(stack) : stack[d].indent < indent}))

\* A dictionary's entry, in the place of all that was under it.
Put(entries, path, value) ==
  {e \in entries : Len(e.path) < Len(path) \/ SubSeq(e.path, 1, Len(path)) # path} \cup {Entry(path, value)}

\* The line's key, in the dictionary at `path`, at `indent`, with `levels` open.
TakeKey(line, path, indent, levels, entries) ==
  LET at == Append(path, line.key)
  IN /\ tree' = Put(entries, at, line.value)
     /\ stack' = IF line.value = "open" THEN Append(levels, Level(indent, at)) ELSE levels
     /\ skip_deeper_than' = IF line.value = "block" THEN indent ELSE None

\* How many items the list at this path has.
Count(path) == IF path \in DOMAIN items THEN items[path] ELSE 0

\* Mutant: an item of a list takes the place of the one before.
TakeItemOver(line, levels) ==
  LET parent == levels[Len(levels)].path
      item   == Append(parent, 0)
  IN /\ UNCHANGED items
     /\ TakeKey(line, item, line.indent + 2, Append(levels, Level(line.indent, item)), Put(tree, item, "open"))

\* An item is a dictionary at its dash, and its own key is two columns on.
TakeItem(line, levels) ==
  LET parent == levels[Len(levels)].path
      item   == Append(parent, Count(parent))
  IN /\ items' = [path \in DOMAIN items \cup {parent} |-> Count(path) + IF path = parent THEN 1 ELSE 0]
     /\ TakeKey(line, item, line.indent + 2, Append(levels, Level(line.indent, item)), Put(tree, item, "open"))

\* Mutant: a block lasts until a line that is less deep than its key.
InBlockLonger(line) == skip_deeper_than # None /\ line.indent >= skip_deeper_than

\* The line is of the block scalar that is skipped.
InBlock(line) == skip_deeper_than # None /\ line.indent > skip_deeper_than

Read(line) ==
  IF InBlock(line) THEN UNCHANGED reader
  ELSE LET levels == OpenAt(line.indent)
       IN IF line.item THEN TakeItem(line, levels)
          ELSE TakeKey(line, levels[Len(levels)].path, line.indent, levels, tree) /\ UNCHANGED items

-----------------------------------------------------------------------------
(* The catalogue as YAML has it: nested mappings, lists deeper than their key. *)

Text(indent, item, key, value) == [indent |-> indent, item |-> item, key |-> key, value |-> value]

\* Where the entries of a container stand: chosen by its first one.
ColumnsOf(d) ==
  IF open[d].kind # "new" THEN {open[d].column}
  ELSE {c \in {open[d].column + i : i \in Indents} : c <= MaxColumn}

\* What a key of a mapping leaves open.
Within(outer, path, column, value) ==
  IF value = "open" THEN Append(outer, Container(path, column, "new")) ELSE outer

Values == {"open", "scalar", "block"}

\* A key of a mapping that is open.
WriteKey == \E d \in 1..Len(open) : \E key \in Keys, value \in Values, column \in ColumnsOf(d) :
  LET path == Append(open[d].path, key)
  IN /\ open[d].kind \in {"map", "new"} /\ \A e \in written : e.path # path
     /\ open' = Within(Append(SubSeq(open, 1, d - 1), Container(open[d].path, column, "map")), path, column, value)
     /\ written' = written \cup {Entry(path, value)}
     /\ block' = IF value = "block" THEN column ELSE None
     /\ Read(Text(column, FALSE, key, value))

\* An item of a list that is open, with its first key.
WriteItem == \E d \in 2..Len(open) : \E key \in Keys, value \in Values, column \in ColumnsOf(d) :
  LET n    == Cardinality({e \in written : e.path # <<>> /\ Len(e.path) = Len(open[d].path) + 1
                                           /\ SubSeq(e.path, 1, Len(e.path) - 1) = open[d].path})
      item == Append(open[d].path, n)
      path == Append(item, key)
  IN /\ open[d].kind \in {"list", "new"} /\ column + 2 <= MaxColumn
     /\ open' = Within(Append(Append(SubSeq(open, 1, d - 1), Container(open[d].path, column, "list")),
                              Container(item, column + 2, "map")), path, column + 2, value)
     /\ written' = written \cup {Entry(item, "open"), Entry(path, value)}
     /\ block' = IF value = "block" THEN column + 2 ELSE None
     /\ Read(Text(column, TRUE, key, value))

\* A line of a block scalar, which may look like any other.
WriteBlock ==
  /\ block # None
  /\ \E indent \in (block + 1)..MaxColumn, item \in BOOLEAN, key \in Keys, value \in Values :
       Read(Text(indent, item, key, value))
  /\ UNCHANGED <<open, written, block>>

-----------------------------------------------------------------------------

Next == lines < MaxLines /\ lines' = lines + 1 /\ (WriteKey \/ WriteItem \/ WriteBlock)

Spec == Init /\ [][Next]_vars

-----------------------------------------------------------------------------
(***************************************************************************)
(* What mapping_tree makes of a catalogue.                                 *)
(***************************************************************************)

\* The stack is of ever deeper levels, each open in the tree, below the root.
TypeOK ==
  /\ Len(stack) >= 1 /\ stack[1] = Level(-1, <<>>)
  /\ \A d \in 2..Len(stack) :
       stack[d - 1].indent < stack[d].indent /\ Entry(stack[d].path, "open") \in tree

\* After any line the tree is what was written so far: a key is under the key
\* that holds it, an item under its list, and nothing of a block scalar is a
\* key, however much it looks like one.
ReadsAsWritten == tree = written

\* What the reader promises.
Safe ==
  /\ TypeOK /\ ReadsAsWritten
=============================================================================
