------------------------------ MODULE Pipelines ------------------------------
(***************************************************************************)
(* scripts/dashboard_lint.py, pipelines and pipeline_problems: what a      *)
(* LogQL query's stages may lift out of a log line.                        *)
(*                                                                         *)
(* A query is a sequence of items: brackets, and stages with what they     *)
(* assign. A stage that assigns a list is as many stages. A template is    *)
(* known by name; of the vetted ones, one of each sort. Left out: quoting  *)
(* and spaces, and the stages _assignments cannot read.                    *)
(***************************************************************************)
EXTENDS Integers, Sequences, SequencesExt

CONSTANTS
  Texts,        \* the queries tried: [items, pipes, cuts]: pipes as written,
                \* cuts where each of them stands
  LOCAL_LABELS

\* A label's vetted templates, the fields each reads and from where, and what
\* may be unwrapped: by label, the stages that may set it.
VETTED_LABEL_FORMATS == {<<"n", "add">>, <<"where", "or">>, <<"reason_code", "name">>, <<"ts", "time">>}
VETTED_SOURCES == [n |-> {<<"f", "tenants_failed">>, <<"k", "tenants_skipped">>},
                   reason_code |-> {<<"rc", "reason">>}]
VETTED_EXTRACTIONS == {<<"release", "revision">>}
VETTED_REGEXPS == {"connectors"}
VETTED_UNWRAPS == [n |-> {<<"label_format", "n">>, <<"json", "tenants_failed">>, <<"regexp", "n">>},
                   ts |-> {<<"label_format", "ts">>}, d |-> {<<"json", "duration_ms">>}]

Of(table, label) == IF label \in DOMAIN table THEN table[label] ELSE {}

VARIABLES
  text,
  i,        \* the item looked at
  depth,    \* of brackets open inside the pipeline being read, -1 outside one
  pipe,     \* its stages so far
  pipes,    \* pipelines found
  problems,
  judged    \* how many have been judged

vars == <<text, i, depth, pipe, pipes, problems, judged>>

items == text.items
Mark(item) == item.op = "mark"
At(mark) == Mark(items[i]) /\ items[i].name = mark

-----------------------------------------------------------------------------
(* pipelines: from a selector to its range, or to the end of its call *)

Outside ==
  /\ i \in DOMAIN items /\ depth = -1
  /\ IF At("{") THEN depth' = 0 ELSE UNCHANGED depth
  /\ i' = i + 1
  /\ UNCHANGED <<text, pipe, pipes, problems, judged>>

\* Its own range, or the end of the call it sits in.
Ends == depth = 0 /\ (At("[") \/ At(")"))

Take == pipes' = Append(pipes, pipe) /\ pipe' = <<>> /\ depth' = -1

Inside ==
  /\ i \in DOMAIN items /\ depth >= 0
  /\ IF Ends THEN Take /\ UNCHANGED i
     ELSE /\ i' = i + 1
          /\ depth' = IF At("(") THEN depth + 1 ELSE IF At(")") THEN depth - 1 ELSE depth
          /\ pipe' = IF Mark(items[i]) THEN pipe ELSE Append(pipe, items[i])
          /\ UNCHANGED pipes
  /\ UNCHANGED <<text, problems, judged>>

\* A query may end inside a pipeline.
EndInside ==
  /\ i \notin DOMAIN items /\ depth >= 0
  /\ Take /\ UNCHANGED <<text, i, problems, judged>>

-----------------------------------------------------------------------------
(* pipeline_problems *)

\* _sets: the stages that set the label, and how each does.
Sets(p, label) ==
  {k \in DOMAIN p : p[k].op \in {"json", "logfmt", "label_format", "regexp"} /\ p[k].name = label}
How(s) == <<s.op, IF s.op \in {"json", "logfmt"} THEN s.from ELSE s.name>>

\* Mutant: the last stage that sets a label is the one that counts.
SetByLast(p, label, hows) ==
  \E k \in Sets(p, label) : (\A j \in Sets(p, label) : j <= k) /\ How(p[k]) \in hows

\* Set once, and so.
SetOnce(p, label, hows) == \E k \in Sets(p, label) : Sets(p, label) = {k} /\ How(p[k]) \in hows

\* Mutant: a template is vetted and what it reads is not.
TemplateAlone(p, s) == s.quoted /\ <<s.name, s.from>> \in VETTED_LABEL_FORMATS

\* A template fed as it is vetted to be.
Template(p, s) ==
  /\ s.quoted /\ <<s.name, s.from>> \in VETTED_LABEL_FORMATS
  /\ \A helper \in Of(VETTED_SOURCES, s.name) : SetOnce(p, helper[1], {<<"json", helper[2]>>})

\* What a stage may do.
Allowed(p, s) ==
  CASE s.op \in {"line_format", "pattern"} -> FALSE
    [] s.op = "regexp" -> s.from \in VETTED_REGEXPS
    [] s.op = "label_format" -> Template(p, s)
    [] s.op \in {"json", "logfmt"} ->
         s.name \in LOCAL_LABELS => s.from = s.name \/ <<s.name, s.from>> \in VETTED_EXTRACTIONS
    [] s.op = "unwrap" -> SetOnce(p, s.name, Of(VETTED_UNWRAPS, s.name))

\* Each pipeline is judged alone.
Judge ==
  /\ i \notin DOMAIN items /\ depth = -1 /\ judged < Len(pipes)
  /\ LET p == pipes[judged + 1] IN
       problems' = problems \cup {s \in ToSet(p) : ~Allowed(p, s)}
  /\ judged' = judged + 1
  /\ UNCHANGED <<text, i, depth, pipe, pipes>>

-----------------------------------------------------------------------------

Init ==
  /\ text \in Texts /\ i = 1 /\ depth = -1 /\ pipe = <<>> /\ pipes = <<>>
  /\ problems = {} /\ judged = 0

Next == Outside \/ Inside \/ EndInside \/ Judge

Spec == Init /\ [][Next]_vars /\ WF_vars(Next)

Done == i \notin DOMAIN items /\ depth = -1 /\ judged = Len(pipes)

-----------------------------------------------------------------------------
(***************************************************************************)
(* What an accepted LogQL query can show, told by running its stages over  *)
(* a line as Loki does.                                                    *)
(***************************************************************************)

\* The type of every variable; pipelines are found in order.
TypeOK ==
  /\ i \in 1..(Len(items) + 1) /\ depth \in -1..Len(items)
  /\ judged \in 0..Len(pipes) /\ Len(pipe) < i
  /\ IsPrefix(pipes, text.pipes)

-----------------------------------------------------------------------------

\* The fields of a line whose value a label may show, by label. Until a stage
\* sets it, a listed label is the stream's own and any other is empty. A parser
\* leaves a value an earlier stage set; label_format puts its own in place of it.
Flows(from, label) ==
  IF label \in DOMAIN from THEN from[label] ELSE {label} \cap LOCAL_LABELS

Put(from, label, fields) == [l \in DOMAIN from \cup {label} |->
                               IF l = label THEN fields ELSE from[l]]

\* A template's value is made of the labels it reads, any other's of a field.
Reads(s) ==
  CASE s.from = "add" -> {"f", "k"}
    [] s.from = "or" -> {"operation"}
    [] s.from = "name" -> {"rc"}
    [] s.from = "time" -> {}
    [] OTHER -> {s.from}

After(from, s) ==
  CASE s.op \in {"json", "logfmt"} ->
         IF s.name \in DOMAIN from THEN from ELSE Put(from, s.name, {s.from})
    [] s.op = "regexp" ->
         IF s.name \in DOMAIN from THEN from
         ELSE Put(from, s.name, {IF s.from = "connectors" THEN "a counter" ELSE "the line"})
    [] s.op = "label_format" ->
         Put(from, s.name, UNION {Flows(from, label) : label \in Reads(s)})
    [] s.op \in {"line_format", "pattern"} -> Put(from, "where", {"the line"})
    [] OTHER -> from

Run(p) ==
  LET ran[k \in 0..Len(p)] == IF k = 0 THEN <<>> ELSE After(ran[k - 1], p[k])
  IN  ran[Len(p)]

\* The fields a listed label may show, and those that are numbers to chart.
Showable(label) == {label} \cup
  CASE label = "release" -> {"revision"}
    [] label = "reason_code" -> {"reason"}
    [] label = "where" -> {"operation"}
    [] OTHER -> {}
Numbers == {"tenants_failed", "tenants_skipped", "duration_ms", "a counter"}

\* Rule 5c: nothing of a line gets into a listed label of an accepted query
\* but the field of that name or a vetted one, whatever order its stages are
\* in and however often they set the same label.
NothingCopied ==
  Done /\ problems = {} =>
    \A k \in DOMAIN text.pipes : \A label \in LOCAL_LABELS :
      Flows(Run(text.pipes[k]), label) \subseteq Showable(label)

\* And nothing but a vetted number is unwrapped.
OnlyNumbersCharted ==
  Done /\ problems = {} =>
    \A k \in DOMAIN text.pipes : LET p == text.pipes[k] IN
      \A s \in DOMAIN p : p[s].op = "unwrap" =>
        Flows(Run(SubSeq(p, 1, s - 1)), p[s].name) \subseteq Numbers

\* The query is cut into the pipelines it was written with, so that no stage
\* is judged with another pipeline's.
CutAsWritten == Done => pipes = text.pipes

\* What an accepted pipeline promises.
Safe ==
  /\ TypeOK /\ NothingCopied /\ OnlyNumbersCharted /\ CutAsWritten
=============================================================================
