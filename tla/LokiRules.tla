------------------------------ MODULE LokiRules ------------------------------
(***************************************************************************)
(* scripts/dashboard_lint.py, lint_loki_rules: a file of Loki recording    *)
(* rules, read line by line without a YAML parser.                         *)
(*                                                                         *)
(* A line is its indent, whether a dash is after it, its key and its       *)
(* value. Whether an expr passes the query rules is given with it (see     *)
(* QueryLabels and Pipelines). Left out: the line an error names.          *)
(***************************************************************************)
EXTENDS Integers, Sequences, FiniteSets

CONSTANTS
  Rules,          \* the files tried, sequences of lines
  LOCAL_LABELS

VARIABLES
  lines,
  number,         \* the line looked at
  labels_indent,  \* of the labels block it is in, -1 outside one
  errors          \* the lines something is wrong with

vars == <<lines, number, labels_indent, errors>>

line == lines[number]

\* Blank, or a comment.
Skipped == line.key = "#"

\* A block goes on while lines are deeper than its labels key.
Opened == labels_indent >= 0 /\ line.indent > labels_indent

\* Mutant: an expr that is continued on the next line is let through.
UnreadNever(l) == FALSE

\* An expr that is not one double-quoted line.
Unread(l) == l.value \notin {"good", "bad"}

\* The line is in the report.
Note(wrong) == errors' = IF wrong THEN errors \cup {number} ELSE errors

-----------------------------------------------------------------------------

Init == lines \in Rules /\ number = 1 /\ labels_indent = -1 /\ errors = {}

Advance == number' = number + 1 /\ UNCHANGED lines
Within == number \in DOMAIN lines /\ ~Skipped

Skip == number \in DOMAIN lines /\ Skipped /\ Advance /\ UNCHANGED <<labels_indent, errors>>

Label ==
  /\ Within /\ Opened
  /\ Note(line.key \notin LOCAL_LABELS)
  /\ Advance /\ UNCHANGED labels_indent

Labels ==
  /\ Within /\ ~Opened /\ line.key = "labels" /\ line.value = ""
  /\ labels_indent' = line.indent
  /\ Advance /\ UNCHANGED errors

Expr ==
  /\ Within /\ ~Opened /\ line.key = "expr"
  /\ Note(Unread(line) \/ line.value = "bad")
  /\ labels_indent' = -1 /\ Advance

Other ==
  /\ Within /\ ~Opened /\ line.key # "expr" /\ ~(line.key = "labels" /\ line.value = "")
  /\ labels_indent' = -1 /\ Advance /\ UNCHANGED errors

Next == Skip \/ Label \/ Labels \/ Expr \/ Other

Spec == Init /\ [][Next]_vars /\ WF_vars(Next)

-----------------------------------------------------------------------------
(***************************************************************************)
(* What an accepted rule file holds, read as YAML.                         *)
(***************************************************************************)

\* The type of every variable; a labels block is one that was opened above.
TypeOK ==
  /\ number \in 1..(Len(lines) + 1)
  /\ errors \subseteq 1..(number - 1)
  /\ labels_indent >= 0 =>
       \E k \in 1..(number - 1) : lines[k].key = "labels" /\ lines[k].indent = labels_indent

-----------------------------------------------------------------------------

\* A key after a dash belongs to the item the dash opens: it is two deeper.
Depth(k) == lines[k].indent + (IF lines[k].dash THEN 2 ELSE 0)

\* The key a line is below: the last one above it that is less deep, if no
\* item of a list begins between them at a lesser depth.
Above(k) == {j \in 1..(k - 1) : lines[j].key # "#" /\ Depth(j) < Depth(k)}
Parent(k) == IF Above(k) = {} THEN 0
             ELSE LET j == CHOOSE j \in Above(k) : \A i \in Above(k) : i <= j
                  IN IF \E i \in (j + 1)..(k - 1) : lines[i].key # "#" /\ Depth(i) < Depth(k) THEN 0 ELSE j

Clean == number > Len(lines) /\ errors = {}
Entries == {k \in DOMAIN lines : lines[k].key # "#"}

\* In a block of labels: below a labels key with nothing after it. What is after
\* the key on its line ("inline", a mapping or a comment) is not read, nor is
\* then what is below it (lint_loki_rules, `not key.group(3)`).
InBlock(k) == Parent(k) # 0 /\ lines[Parent(k)].key = "labels" /\ lines[Parent(k)].value = ""

\* Every expr of a clean file was read whole and passes the query rules,
\* whatever block is above it.
EveryExprRead == Clean => \A k \in Entries : lines[k].key = "expr" /\ ~InBlock(k) => lines[k].value = "good"

\* Every label that a block of a clean file records is a listed one, wherever in
\* the rule the block stands and whatever ends it.
EveryLabelListed == Clean => \A k \in Entries : InBlock(k) => lines[k].key \in LOCAL_LABELS

\* What a clean rule file promises.
Safe ==
  /\ TypeOK /\ EveryExprRead /\ EveryLabelListed
=============================================================================
