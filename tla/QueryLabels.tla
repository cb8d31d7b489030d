------------------------------ MODULE QueryLabels ------------------------------
(***************************************************************************)
(* scripts/dashboard_lint.py, query_problems and query_label_problems: the *)
(* walk over a query's tokens that finds labels it could return.           *)
(*                                                                         *)
(* A query is a sequence of tokens, already cut by TOKEN_RE; a quoted one  *)
(* is the pair of "string" and its text, any other a pair of its class and *)
(* itself. The entries the walk keeps are shared: a call may become an     *)
(* aggregation after its selectors were noted, so the stack holds their    *)
(* numbers. Left out: pipeline_problems (module Pipelines) and wording.    *)
(***************************************************************************)
EXTENDS Integers, Sequences, SequencesExt

CONSTANTS
  Queries,            \* the queries tried: [tokens, kind, and what they are]
  LOCAL_LABELS,
  LOCAL_BARE_SERIES,
  AGGREGATIONS,
  RANGE_AGGREGATIONS

GROUPING == {"by", "without", "on", "ignoring", "group_left", "group_right"}
KEYWORDS == GROUPING \cup
  {"bool", "and", "or", "unless", "offset", "inf", "nan", "atan2", "start", "end"}

VARIABLES
  query,      \* the query under the lint
  i,          \* the token looked at, 0 before the walk
  stack,      \* open brackets: numbers of entries
  entries,    \* what each opened: kind, name, agg, args
  awaiting,   \* aggregations whose argument list comes after their grouping
  selectors,  \* each selector: its name and the entries around it
  problems

vars == <<query, i, stack, entries, awaiting, selectors, problems>>

tokens == query.tokens
Text(t) == t[2]
IsName(t) == t[1] = "name"
Tok == tokens[i]
Next1 == IF i < Len(tokens) THEN tokens[i + 1] ELSE <<"end", "">>
Prev == IF i > 1 THEN tokens[i - 1] ELSE <<"end", "">>
Is(t, text) == t = <<"mark", text>>

Top == IF stack = <<>> THEN [kind |-> "none", name |-> "", agg |-> FALSE, args |-> 0]
       ELSE entries[Last(stack)]
InBraces == \E k \in DOMAIN stack : entries[stack[k]].kind = "brace"
InGroup == Top.kind = "group"

Entry(kind, name, agg) == [kind |-> kind, name |-> name, agg |-> agg, args |-> 0]
Push(entry) == entries' = Append(entries, entry) /\ stack' = Append(stack, Len(entries) + 1)
Pop == stack' = IF stack = <<>> THEN stack ELSE Front(stack)
Problem(found) == problems' = problems \cup found
Step == i' = i + 1 /\ UNCHANGED query

-----------------------------------------------------------------------------

WordAt(q, k) == k \in DOMAIN q.tokens /\ IsName(q.tokens[k])
MarkAt(q, k, mark) == k \in DOMAIN q.tokens /\ Is(q.tokens[k], mark)
TextAt(q, k) == IF k \in DOMAIN q.tokens THEN Text(q.tokens[k]) ELSE ""

\* A parser that names no field makes every field of a line a label.
BareParser(q) ==
  /\ q.kind = "loki"
  /\ \E k \in DOMAIN q.tokens :
       MarkAt(q, k, "|") /\ WordAt(q, k + 1) /\ ~WordAt(q, k + 2)
         /\ TextAt(q, k + 1) \in {"json", "logfmt", "unpack"}

\* What is looked for in the text before the walk: a log query is not walked.
Start ==
  /\ i = 0
  /\ IF query.kind = "loki" /\ tokens # <<>> /\ Is(Head(tokens), "{")
     THEN Problem({"log query"}) /\ i' = Len(tokens) + 1
     ELSE /\ Problem({p \in {"instance", "bare parser"} :
                     \/ p = "instance" /\ \E t \in ToSet(tokens) : Text(t) = "instance"
                     \/ p = "bare parser" /\ BareParser(query)})
          /\ i' = 1
  /\ UNCHANGED <<query, stack, entries, awaiting, selectors>>

\* "(": a grouping list, a call's arguments, or a plain pair, which after a
\* grouping list is the argument list of the aggregation before it.
OpenParen ==
  /\ Is(Tok, "(")
  /\ IF Text(Prev) \in GROUPING THEN Push(Entry("group", "", FALSE)) /\ UNCHANGED awaiting
     ELSE IF IsName(Prev) /\ Text(Prev) \notin KEYWORDS
     THEN Push(Entry("call", Text(Prev), Text(Prev) \in AGGREGATIONS)) /\ UNCHANGED awaiting
     ELSE IF awaiting # <<>>
     THEN Push(Entry("call", Last(awaiting), TRUE)) /\ awaiting' = Front(awaiting)
     ELSE Push(Entry("paren", "", FALSE)) /\ UNCHANGED awaiting
  /\ UNCHANGED <<selectors, problems>>

\* Mutant: the grouping after a range aggregation is not seen.
AggregatesNever(name) == FALSE

\* A range aggregation aggregates when its own grouping follows it.
Aggregates(name) == Text(Next1) \in {"by", "without"} /\ name \in RANGE_AGGREGATIONS

CloseParen ==
  /\ Is(Tok, ")")
  /\ Pop
  /\ entries' = IF Top.kind = "call" /\ Aggregates(Top.name)
                THEN [entries EXCEPT ![Last(stack)].agg = TRUE] ELSE entries
  /\ UNCHANGED <<awaiting, selectors, problems>>

\* A stream selector, or a metric's: it is noted with what is around it.
OpenBrace ==
  /\ Is(Tok, "{")
  /\ selectors' = IF InBraces THEN selectors
                  ELSE Append(selectors, [name |-> "{", around |-> ToSet(stack)])
  /\ Push(Entry("brace", "", FALSE))
  /\ UNCHANGED <<awaiting, problems>>

OpenRange ==
  /\ Is(Tok, "[")
  /\ Push(Entry("range", "", FALSE))
  /\ UNCHANGED <<awaiting, selectors, problems>>

\* Each closes what it opened and nothing else.
Closes == Top.kind = IF Is(Tok, "}") THEN "brace" ELSE "range"

CloseOther ==
  /\ Is(Tok, "}") \/ Is(Tok, "]")
  /\ IF Closes THEN Pop ELSE UNCHANGED stack
  /\ UNCHANGED <<entries, awaiting, selectors, problems>>

Bracket == Tok[1] = "mark" /\ Text(Tok) \in {"(", ")", "{", "}", "[", "]"}

\* A grouping list names a label that is not listed.
Grouped(label) == label \notin LOCAL_LABELS

\* A metric by its name alone, in PromQL: not a label, a function, a keyword,
\* an offset's or a range's, and not one whose braces follow.
BareMetric ==
  /\ query.kind = "prometheus" /\ IsName(Tok) /\ ~InBraces
  /\ Text(Tok) \notin KEYWORDS \cup AGGREGATIONS
  /\ ~Is(Next1, "(") /\ Text(Prev) # "offset" /\ Top.kind # "range" /\ ~Is(Next1, "{")

Word ==
  /\ IsName(Tok)
  /\ CASE InGroup ->
            /\ Problem(IF Grouped(Text(Tok)) THEN {"names a label"} ELSE {})
            /\ UNCHANGED <<awaiting, selectors>>
       [] ~InGroup /\ Text(Tok) = "without" ->
            Problem({"without"}) /\ UNCHANGED <<awaiting, selectors>>
       [] ~InGroup /\ Text(Tok) \in AGGREGATIONS /\ Text(Next1) \in {"by", "without"} ->
            /\ awaiting' = Append(awaiting, Text(Tok))
            /\ UNCHANGED <<selectors, problems>>
       [] OTHER ->
            /\ selectors' = IF BareMetric
                            THEN Append(selectors, [name |-> Text(Tok), around |-> ToSet(stack)])
                            ELSE selectors
            /\ UNCHANGED <<awaiting, problems>>
  /\ UNCHANGED <<stack, entries>>

\* The argument a string is: the label a call creates, or one it reads.
Creates == \/ Top.name \in {"label_replace", "label_join"} /\ Top.args = 1
           \/ Top.name = "count_values" /\ Top.args = 0
Reads == \/ Top.name = "label_replace" /\ Top.args = 3
         \/ Top.name = "label_join" /\ Top.args >= 3

Quoted ==
  /\ Tok[1] = "string"
  /\ Problem(IF Top.kind # "call" \/ Text(Tok) \in LOCAL_LABELS THEN {}
             ELSE {p \in {"creates a label", "reads a label"} :
                     \/ p = "creates a label" /\ Creates
                     \/ p = "reads a label" /\ Reads /\ Text(Tok) # ""})
  /\ UNCHANGED <<stack, entries, awaiting, selectors>>

Comma ==
  /\ Is(Tok, ",")
  /\ entries' = IF Top.kind = "call" THEN [entries EXCEPT ![Last(stack)].args = @ + 1] ELSE entries
  /\ UNCHANGED <<stack, awaiting, selectors, problems>>

Other ==
  /\ ~IsName(Tok) /\ Tok[1] # "string" /\ ~Bracket /\ ~Is(Tok, ",")
  /\ UNCHANGED <<stack, entries, awaiting, selectors, problems>>

Walk ==
  /\ i \in DOMAIN tokens
  /\ \/ OpenParen \/ CloseParen \/ OpenBrace \/ OpenRange \/ CloseOther
     \/ Word \/ Quoted \/ Comma \/ Other
  /\ Step

\* A selector is inside an aggregation.
Covered(sel) == \E id \in sel.around : entries[id].kind = "call" /\ entries[id].agg

\* After the walk: every selector is inside one, or is a vetted series.
Finish ==
  /\ i = Len(tokens) + 1
  /\ i' = i + 1
  /\ Problem(IF \E s \in ToSet(selectors) : s.name \notin LOCAL_BARE_SERIES /\ ~Covered(s)
             THEN {"bare selector"} ELSE {})
  /\ UNCHANGED <<query, stack, entries, awaiting, selectors>>

Init ==
  /\ query \in Queries /\ i = 0 /\ stack = <<>> /\ entries = <<>>
  /\ awaiting = <<>> /\ selectors = <<>> /\ problems = {}

Next == Start \/ Walk \/ Finish

Spec == Init /\ [][Next]_vars /\ WF_vars(Next)

Done == i = Len(tokens) + 2

-----------------------------------------------------------------------------
(***************************************************************************)
(* What the walk must find, told from the tree each query was written      *)
(* from: q.closes pairs its brackets; q.covered, every series it reads is  *)
(* inside an aggregation or is a vetted one, with nothing grouped by what  *)
(* it leaves out and no parser bare; q.named, the labels it groups by,     *)
(* creates or reads; q.returned, the labels its answer can have. Where a   *)
(* token stands among the brackets says what it is.                        *)
(***************************************************************************)

\* The brackets around a token, or that it closes, and the innermost of them.
Around(q, k) == {o \in DOMAIN q.closes : o < k /\ k <= q.closes[o]}
DirectlyIn(q, k, o) == o \in Around(q, k) /\ \A p \in Around(q, k) : p <= o
InMark(q, k, mark) == \E o \in Around(q, k) : DirectlyIn(q, k, o) /\ MarkAt(q, o, mark)
InBracesAt(q, k) == \E o \in Around(q, k) : MarkAt(q, o, "{")

\* A grouping list: "by (...)".
List(q, o) == MarkAt(q, o, "(") /\ TextAt(q, o - 1) \in GROUPING
InList(q, k) == \E o \in Around(q, k) : DirectlyIn(q, k, o) /\ List(q, o)

\* An aggregation whose grouping list comes before its arguments, and where
\* these open; the arguments of any call, and whose they are.
GroupedFirst(q, a) ==
  /\ WordAt(q, a) /\ TextAt(q, a) \in AGGREGATIONS
  /\ TextAt(q, a + 1) \in {"by", "without"} /\ ~InList(q, a)
Arguments(q, a) == q.closes[a + 2] + 1
Function(q, o) ==
  MarkAt(q, o, "(") /\ ~List(q, o) /\ WordAt(q, o - 1) /\ TextAt(q, o - 1) \notin KEYWORDS
Applied(q, o) == {a \in DOMAIN q.tokens : GroupedFirst(q, a) /\ Arguments(q, a) = o}
IsCall(q, o) == Function(q, o) \/ Applied(q, o) # {}
Callee(q, o) == IF Function(q, o) THEN TextAt(q, o - 1)
                ELSE TextAt(q, CHOOSE a \in Applied(q, o) : TRUE)
Aggregating(q, o) ==
  /\ IsCall(q, o)
  /\ \/ Callee(q, o) \in AGGREGATIONS
     \/ Callee(q, o) \in RANGE_AGGREGATIONS /\ TextAt(q, q.closes[o] + 1) \in {"by", "without"}

\* How many arguments of a call end before a token.
Arg(q, o, k) == Cardinality({c \in 1..(k - 1) : MarkAt(q, c, ",") /\ DirectlyIn(q, c, o)})

\* A label in a grouping list, or the string a call creates or reads one by.
StringOf(q, k, o) ==
  k \in DOMAIN q.tokens /\ q.tokens[k][1] = "string" /\ DirectlyIn(q, k, o) /\ IsCall(q, o)
CreatedAt(q, k) ==
  \E o \in Around(q, k) : StringOf(q, k, o) /\
     \/ Callee(q, o) \in {"label_replace", "label_join"} /\ Arg(q, o, k) = 1
     \/ Callee(q, o) = "count_values" /\ Arg(q, o, k) = 0
ReadAt(q, k) ==
  \E o \in Around(q, k) : StringOf(q, k, o) /\ TextAt(q, k) # "" /\
     \/ Callee(q, o) = "label_replace" /\ Arg(q, o, k) = 3
     \/ Callee(q, o) = "label_join" /\ Arg(q, o, k) >= 3
NamedAt(q, k) == (WordAt(q, k) /\ InList(q, k)) \/ CreatedAt(q, k) \/ ReadAt(q, k)

\* A series is read: by a selector, or in PromQL by its name alone.
NameAlone(q, k) ==
  /\ q.kind = "prometheus" /\ WordAt(q, k) /\ ~InBracesAt(q, k) /\ ~InList(q, k)
  /\ TextAt(q, k) \notin KEYWORDS \cup AGGREGATIONS
  /\ ~MarkAt(q, k + 1, "(") /\ TextAt(q, k - 1) # "offset" /\ ~InMark(q, k, "[") /\ ~MarkAt(q, k + 1, "{")
SeriesAt(q, k) == (MarkAt(q, k, "{") /\ ~InBracesAt(q, k)) \/ NameAlone(q, k)
CoveredAt(q, k) ==
  \/ WordAt(q, k) /\ TextAt(q, k) \in LOCAL_BARE_SERIES
  \/ \E o \in Around(q, k) : Aggregating(q, o)

\* What is refused wherever it stands.
LogQuery(q) == q.kind = "loki" /\ MarkAt(q, 1, "{")
NamesInstance(q) == \E k \in DOMAIN q.tokens : TextAt(q, k) = "instance"
LeavesOut(q, k) == WordAt(q, k) /\ TextAt(q, k) = "without" /\ ~InList(q, k)

\* Brackets come out even, one inside the other.
Balanced(q) ==
  LET Closing(k) == \E m \in {")", "}", "]"} : MarkAt(q, k, m)
      Pair(o, k) == \/ MarkAt(q, o, "(") /\ MarkAt(q, k, ")")
                    \/ MarkAt(q, o, "{") /\ MarkAt(q, k, "}")
                    \/ MarkAt(q, o, "[") /\ MarkAt(q, k, "]")
  IN /\ DOMAIN q.closes = {k \in DOMAIN q.tokens : \E m \in {"(", "{", "["} : MarkAt(q, k, m)}
     /\ \A o \in DOMAIN q.closes : o < q.closes[o] /\ Pair(o, q.closes[o])
     /\ \A o, p \in DOMAIN q.closes : q.closes[o] = q.closes[p] => o = p
     /\ \A o, p \in DOMAIN q.closes : o < p /\ p < q.closes[o] => q.closes[p] < q.closes[o]
     /\ \A k \in DOMAIN q.tokens : Closing(k) => \E o \in DOMAIN q.closes : q.closes[o] = k

\* A grouping list holds labels, and an aggregation's arguments come after it.
Grouping(q) ==
  /\ \A o \in DOMAIN q.closes : List(q, o) =>
       \A k \in (o + 1)..(q.closes[o] - 1) : WordAt(q, k) \/ MarkAt(q, k, ",")
  /\ \A a \in DOMAIN q.tokens : GroupedFirst(q, a) =>
       WordAt(q, a + 1) /\ MarkAt(q, a + 2, "(") /\ MarkAt(q, Arguments(q, a), "(")

\* What the tree says of the query.
Said(q) ==
  /\ q.covered <=> /\ ~LogQuery(q) /\ ~NamesInstance(q) /\ ~BareParser(q)
                   /\ \A k \in DOMAIN q.tokens : ~LeavesOut(q, k) /\ (SeriesAt(q, k) => CoveredAt(q, k))
  /\ q.named = {TextAt(q, k) : k \in {n \in DOMAIN q.tokens : NamedAt(q, n)}}

-----------------------------------------------------------------------------
(***************************************************************************)
(* What the answer to a query has, by the rules of PromQL and LogQL.       *)
(***************************************************************************)

\* These pick, order or stand for the series they are given and keep their
\* labels, though AGGREGATIONS has them.
KEEPING == {"topk", "bottomk", "limitk", "limit_ratio", "sort", "sort_desc",
            "absent", "absent_over_time"}
Reduces(q, o) == Aggregating(q, o) /\ Callee(q, o) \notin KEEPING

\* A reduction keeps of a series the labels on its list, which is after its
\* arguments or before them.
ListOf(q, o, g) == g = q.closes[o] + 2 \/ \E a \in Applied(q, o) : g = a + 2
Keeps(q, o, label) ==
  \E k \in DOMAIN q.tokens : WordAt(q, k) /\ TextAt(q, k) = label /\
    \E g \in Around(q, k) : ListOf(q, o, g) /\ List(q, g) /\ DirectlyIn(q, k, g)

\* A label of an answer is named in the query, or is one of a series it reads
\* that every reduction around it keeps. A vetted series has listed ones only.
Vetted(q, k) == WordAt(q, k) /\ TextAt(q, k) \in LOCAL_BARE_SERIES
Survives(q, k, label) ==
  /\ SeriesAt(q, k) /\ (Vetted(q, k) => label \in LOCAL_LABELS)
  /\ \A o \in Around(q, k) : Reduces(q, o) => Keeps(q, o, label)
Answered(q) ==
  q.covered => \A label \in q.returned \ q.named :
                 \E k \in DOMAIN q.tokens : Survives(q, k, label)

\* Each series it reads is reduced somewhere, not only picked or ordered.
Reduced(q) ==
  \A k \in DOMAIN q.tokens : SeriesAt(q, k) /\ ~Vetted(q, k) => \E o \in Around(q, k) : Reduces(q, o)

-----------------------------------------------------------------------------

\* The walk keeps a stack of entries, and a query's brackets come out even.
TypeOK ==
  /\ \A k \in DOMAIN stack : stack[k] \in DOMAIN entries
  /\ \A k \in DOMAIN entries : entries[k].kind \in {"group", "call", "paren", "brace", "range"}
  /\ \A s \in ToSet(selectors) : s.around \subseteq DOMAIN entries
  /\ Len(awaiting) <= 1
  /\ problems \subseteq {"log query", "instance", "names a label", "without",
                         "creates a label", "reads a label", "bare selector", "bare parser"}
  /\ i > Len(tokens) /\ "log query" \notin problems => stack = <<>> /\ awaiting = <<>>

\* The walk over the tokens judges as the tree does: a query is accepted
\* exactly when all it reads is aggregated and every label it names is listed.
JudgedAsTheTree ==
  Done => (problems = {} <=> query.covered /\ query.named \subseteq LOCAL_LABELS)

\* Rule 5b: no label of an accepted query's answer is unlisted, where each
\* series it reads is reduced. What is only picked or ordered (topk, sort) is
\* accepted too and keeps every label: see EveryAnswerListed.
AnswersListed ==
  Done /\ problems = {} /\ Reduced(query) => query.returned \subseteq LOCAL_LABELS

\* What an accepted query promises.
Safe ==
  /\ TypeOK /\ JudgedAsTheTree /\ AnswersListed
=============================================================================
