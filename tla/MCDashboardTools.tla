-------------------------- MODULE MCDashboardTools --------------------------
(***************************************************************************)
(* What TLC gives each tool: queries built together with what they are,    *)
(* pipelines, dashboards changed in one thing or two, rule files, trees of *)
(* files.                                                                  *)
(***************************************************************************)
EXTENDS DashboardTools, SequencesExt, TLC

\* Python's None and a file without a uid, as the linters' modules write them.
NoValue == "None"
NoUid == ""

-----------------------------------------------------------------------------
(* Queries *)

N(name) == <<<<"name", name>>>>
M(mark) == <<<<"mark", mark>>>>
S(written_as) == <<<<"string", written_as>>>>
Five == <<<<"number", "5m">>>>

Labels == {"job", "tid"}

\* Each bracket with the one that closes it, the last opened the first closed.
Pairs(written_as) ==
  LET Mark(k, marks) == written_as[k][1] = "mark" /\ written_as[k][2] \in marks
      Read(read, k) ==
        CASE Mark(k, {"(", "{", "["}) -> [read EXCEPT !.open = Append(@, k)]
          [] Mark(k, {")", "}", "]"}) -> [open |-> Front(read.open), closes |-> (Last(read.open) :> k) @@ read.closes]
          [] OTHER -> read
  IN FoldLeftDomain(Read, [open |-> <<>>, closes |-> <<>>], written_as).closes

\* A keyword, or a parser no field is named for, that is refused anywhere.
Refused(written_as, k) ==
  \/ written_as[k] = <<"name", "without">>
  \/ written_as[k] = <<"mark", "|">> /\ written_as[k + 2][1] # "name"

Made(kind, written_as, covered, named, returned) ==
  [kind |-> kind, tokens |-> written_as, closes |-> Pairs(written_as),
   covered |-> covered /\ \A k \in DOMAIN written_as : ~Refused(written_as, k),
   named |-> named, returned |-> returned]

\* A series carries a listed label and one that is not.
Matcher == M("{") \o N("job") \o M("=") \o S("x") \o M("}")
Series ==
  {Made("prometheus", N("m"), FALSE, {}, Labels),
   Made("prometheus", N("m") \o Matcher \o N("offset") \o Five, FALSE, {}, Labels),
   Made("prometheus", N("rate") \o M("(") \o N("m") \o M("[") \o Five \o M("]") \o M(")"),
         FALSE, {}, Labels),
   Made("prometheus", N("stack:m"), TRUE, {}, {"job"})}

\* Loki's: a range aggregation, with a grouping of its own or none.
OverTime == M("(") \o Matcher \o M("[") \o Five \o M("]") \o M(")")
Logs ==
  {Made("loki", N("count_over_time") \o OverTime, FALSE, {}, Labels)}
  \cup {Made("loki", N("max_over_time") \o OverTime \o N("by") \o M("(") \o N(l) \o M(")"),
              TRUE, {l}, {l}) : l \in Labels}

Parsed ==
  {Made("loki", N("max_over_time") \o M("(") \o Matcher \o M("|") \o N(parser) \o fields \o M("[")
                       \o Five \o M("]") \o M(")") \o N("by") \o M("(") \o N("job") \o M(")"),
              fields # <<>>, {"job"}, {"job"}) :
          parser \in {"json", "unpack"}, fields \in {<<>>, N("n") \o M("=") \o S("connectors")}}
Grouping(word, l) == N(word) \o M("(") \o N(l) \o M(")")
Call(name, args) == N(name) \o M("(") \o args \o M(")")

Sum(q) == Made(q.kind, Call("sum", q.tokens), TRUE, q.named, {})
SumBy(q, l) == Made(q.kind, N("sum") \o Grouping("by", l) \o M("(") \o q.tokens \o M(")"),
                     TRUE, q.named \cup {l}, {l})
\* Refused whatever it leaves out, as it keeps every label it does not name.
SumWithout(q) == Made(q.kind, N("sum") \o Grouping("without", "tid") \o M("(") \o q.tokens \o M(")"),
                      FALSE, q.named \cup {"tid"}, {"job"})
SumThenBy(q, l) == Made(q.kind, Call("sum", q.tokens) \o Grouping("by", l),
                         TRUE, q.named \cup {l}, {l})
Clamp(q) == Made(q.kind, Call("clamp_max", q.tokens \o M(",") \o <<<<"number", "1">>>>),
                  q.covered, q.named, q.returned)
\* These take a series as it is, with every label it has.
TopK(q) == Made(q.kind, Call("topk", <<<<"number", "1">>>> \o M(",") \o q.tokens), TRUE, q.named, q.returned)
TopKBy(q, l) == Made(q.kind, N("topk") \o Grouping("by", l) \o M("(") \o <<<<"number", "1">>>> \o M(",")
                              \o q.tokens \o M(")"), TRUE, q.named \cup {l}, q.returned)
Sort(q) == Made(q.kind, Call("sort", q.tokens), TRUE, q.named, q.returned)
Plain(q) == Made(q.kind, M("(") \o q.tokens \o M(")"), q.covered, q.named, q.returned)
Replace(q, to, from) ==
  Made(q.kind, Call("label_replace", q.tokens \o M(",") \o S(to) \o M(",") \o S("$1") \o M(",")
                                      \o S(from) \o M(",") \o S(".*")),
        q.covered, q.named \cup {to} \cup ({from} \ {""}), q.returned \cup {to})
CountValues(q, l) == Made(q.kind, N("count_values") \o Grouping("by", "job") \o M("(") \o S(l)
                                   \o M(",") \o q.tokens \o M(")"),
                           TRUE, q.named \cup {l, "job"}, {"job", l})
Both(q, r, l) == Made(q.kind, q.tokens \o M("*") \o Grouping("on", l) \o r.tokens,
                       q.covered /\ r.covered, q.named \cup r.named \cup {l},
                       q.returned \cup r.returned)
Around(qs) ==
  UNION {{Sum(q), SumWithout(q), Clamp(q), Plain(q), Replace(q, "job", "tid"), Replace(q, "job", "")}
                    \cup UNION {{SumBy(q, l), SumThenBy(q, l), CountValues(q, l),
                                 Replace(q, l, "job")} : l \in Labels} : q \in qs}

Picked(qs) == UNION {{TopK(q), TopKBy(q, "job"), Sort(q)} : q \in qs}

Leaves == Series \cup Logs
Once == Leaves \cup Around(Leaves)
Pair(qs, rs) == {Both(p[1], p[2], "job") : p \in {o \in qs \X rs : o[1].kind = o[2].kind}}
MCQueries ==
  Around(Once \cup Picked(Leaves)) \cup Pair(Once, Once)
  \cup Picked(Once) \cup Pair(Picked(Leaves), Leaves) \cup Around(Parsed)
  \cup {Made("loki", Matcher, FALSE, {}, Labels),
        Made("prometheus", Call("sum", N("m") \o M("{") \o N("instance") \o M("}")), FALSE, {}, {})}

-----------------------------------------------------------------------------
(* Pipelines *)

Stage(op, name, from) == [op |-> op, name |-> name, from |-> from, quoted |-> TRUE]
Bracket(mark) == Stage("mark", mark, "")

Stages ==
  {Stage("json", "n", "tenants_failed"), Stage("json", "n", "tid"), Stage("json", "rc", "reason"),
   Stage("logfmt", "rc", "tid"), Stage("json", "f", "tenants_failed"),
   Stage("json", "k", "tenants_skipped"), Stage("json", "release", "revision"),
   Stage("json", "operation", "tid"), Stage("json", "d", "duration_ms"),
   Stage("regexp", "n", "connectors"), Stage("regexp", "n", "digits"),
   Stage("label_format", "n", "add"), Stage("label_format", "reason_code", "name"),
   Stage("label_format", "where", "or"),
   [Stage("label_format", "where", "tid") EXCEPT !.quoted = FALSE],
   Stage("pattern", "", ""), Stage("unwrap", "n", ""), Stage("unwrap", "d", "")}

\* sum(count_over_time({...} | stages [5m])), and with the selector in brackets
\* of its own and a stage's brackets inside it.
Written(p) == <<Bracket("("), Bracket("("), Bracket("{")>> \o p \o <<Bracket("["), Bracket(")"), Bracket(")")>>
Bracketed(p) ==
  <<Bracket("("), Bracket("{"), Bracket("("), Bracket(")")>> \o p \o <<Bracket(")"), Bracket("["), Bracket(")")>>

\* A pipeline that stands behind some items, the first few of them its own
\* brackets, which stand before its stages.
Cut(before, own, p) ==
  [from |-> before + 1, to |-> before + own + Len(p) + 1,
   at |-> [k \in DOMAIN p |-> before + own + k],
   closes |-> [k \in {before + n : n \in 1..(own \div 2)} |-> before + own]]

Text(list, written_as, cuts) == [items |-> list, pipes |-> written_as, cuts |-> cuts]
One(p) == Text(Written(p), <<p>>, <<Cut(3, 0, p)>>)

MCTexts ==
  {One(p) : p \in SeqOf(Stages, 3)}
  \cup {Text(Written(p[1]) \o Bracketed(p[2]), p, <<Cut(3, 0, p[1]), Cut(Len(p[1]) + 8, 2, p[2])>>) :
          p \in SeqOf(Stages, 1) \X SeqOf(Stages, 2)}
  \cup {Text(<<Bracket("{")>> \o p, <<p>>, <<Cut(1, 0, p)>>) : p \in SeqOf(Stages, 1)}
  \cup {One(<<a, b, Stage("label_format", "n", "add"), Stage("unwrap", "n", "")>>) : a \in Stages, b \in Stages}

-----------------------------------------------------------------------------
(* Cloud dashboards *)

is(key, value) == [key |-> key, op |-> "=", value |-> value]
nat == "nat/dropped"
runs == "run/requests"

MCdatasources == [uid \in {"cloud-app", "cloud-phi", "cloud-none"} |->
  CASE uid = "cloud-app" -> "APP" [] uid = "cloud-phi" -> "PHI" [] OTHER -> ""]
MCLABEL_ONLY_ON == [label \in {"reason"} |-> {nat}]
MCCarries == [m \in {nat, runs, "custom"} |->
  {"reason", "host", "service", "tid"} \cup IF m = nat THEN {"gateway"} ELSE {}]

Good ==
  [type |-> "stackdriver", uid |-> "cloud-app", queryType |-> "timeSeriesList", blocks |-> {},
   projectName |-> "APP", view |-> "FULL", variable |-> FALSE, joined |-> TRUE,
   filters |-> <<is("metric.type", runs)>>, groupBys |-> {"service"},
   secondaryGroupBys |-> {}, aliasBy |-> {}, aligned |-> TRUE, reducer |-> "REDUCE_SUM",
   secondary |-> FALSE, secondaryReducer |-> NoValue]

\* What each field may hold instead.
Other ==
  [type |-> {"prometheus"}, uid |-> {"cloud-phi", "cloud-none", "prometheus"},
   queryType |-> {"promQL"}, blocks |-> {{"promQLQuery"}}, projectName |-> {"PHI", "", "$p"},
   view |-> {"HEADERS"}, variable |-> {TRUE}, joined |-> {FALSE},
   filters |-> {<<>>, <<is("metric.type", nat)>>, <<is("metric.type", "custom")>>,
                <<is("metric.type", runs), is("metric.type", nat)>>,
                <<is("metric.type", runs), is("resource.type", "host")>>,
                <<is("metric.type", runs), is("resource.type", "vm")>>,
                <<[is("metric.type", runs) EXCEPT !.op = "=~"]>>,
                <<is("metric.type", runs), [is("service", "a") EXCEPT !.op = "!="]>>,
                <<is("metric.type", runs), is("tid", "a")>>},
   groupBys |-> {{}, {"reason"}, {"host"}, {"tid"}}, secondaryGroupBys |-> {{"service"}, {"tid"}},
   aliasBy |-> {{"tid"}, {"reason"}}, aligned |-> {FALSE}, reducer |-> {NoValue, "REDUCE_NONE"},
   secondary |-> {TRUE}, secondaryReducer |-> {"REDUCE_MAX", "REDUCE_NONE"}]

Change(t) == UNION {{[t EXCEPT ![f] = v] : v \in Other[f]} : f \in DOMAIN Other}
CloudQueries == {Good} \cup Change(Good)

CloudPanel(targets) == [type |-> "stat", title |-> 12, w |-> 4, links |-> FALSE, legends |-> {"service"},
                   uid |-> "cloud-app", targets |-> targets, panels |-> <<>>]
CloudPage(list) == [variables |-> FALSE, panels |-> list]
CloudRow(inner) == [CloudPanel(<<>>) EXCEPT !.type = "row", !.panels = inner]

MCCloudDashboards ==
  {CloudPage(<<CloudPanel(<<t>>)>>) : t \in UNION {Change(t) : t \in CloudQueries}}
  \cup {CloudPage(<<CloudRow(<<CloudPanel(<<s, t>>)>>)>>) :
          s \in CloudQueries, t \in {Good, [Good EXCEPT !.uid = "cloud-phi", !.projectName = "PHI"]}}
  \cup {CloudPage(<<[CloudPanel(<<[Good EXCEPT !.uid = u, !.projectName = j]>>) EXCEPT !.uid = v]>>) :
          u \in {"cloud-app", "cloud-phi"}, v \in {"cloud-app", "cloud-phi", "-- Mixed --"}, j \in {"APP", "PHI"}}
  \cup {CloudPage(<<[CloudPanel(<<Good>>) EXCEPT !.type = ty, !.legends = le, !.links = li, !.title = ti]>>) :
          ty \in {"stat", "row", "text", "logs"}, le \in {{"tid"}, {}, {"the map"}}, li \in BOOLEAN, ti \in {24, 26}}
  \cup {CloudPage(<<CloudPanel(<<>>)>>), [CloudPage(<<CloudPanel(<<Good>>)>>) EXCEPT !.variables = TRUE],
        CloudPage(<<[CloudPanel(<<>>) EXCEPT !.type = "text"], CloudPanel(<<Good>>)>>)}

-----------------------------------------------------------------------------
(* Local dashboards *)

Ref(uid, type) == [uid |-> uid, type |-> type]
Nobody == Ref(NoValue, NoValue)
Loki == Ref("loki", "loki")
Named == {Loki, Ref("loki", "datasource"), Ref("prometheus", NoValue), Ref("mystery", "loki"), Ref(NoValue, "loki")}
Own0 == {Ref("-- Mixed --", "datasource"), Ref("grafana", "datasource"), Ref("__expr__", "__expr__"), Nobody}

Asking(ds, expr, type, legend) == [ds |-> ds, expr |-> expr, type |-> type, legend |-> legend]
PanelOf(ds, targets) == [type |-> "stat", ds |-> ds, targets |-> targets, names |-> {}, labels |-> {"stack"},
                         library |-> FALSE, panels |-> <<>>]
LocalRow(inner) == [PanelOf(Nobody, <<>>) EXCEPT !.type = "row", !.panels = inner]
Ann(ds, expr, tds, texpr, names) ==
  [ds |-> ds, expr |-> expr, target |-> [ds |-> tds, expr |-> texpr], names |-> names]
LocalPage(anns, list) == [annotations |-> anns, panels |-> list]

Fine == PanelOf(Loki, <<Asking(Nobody, "good", NoValue, {"stack"})>>)
Targets(refs) == {Asking(r, e, t, {l}) : r \in refs, e \in {"good", "bad"}, t \in {"math", "sql"}, l \in {"stack", "tid"}}
Odd == {[Fine EXCEPT !.type = "logs"], [Fine EXCEPT !.names = {"tid"}], [Fine EXCEPT !.library = TRUE],
        [Fine EXCEPT !.labels = {"the map"}]}
Anns == {Ann(d, e, t, f, {n}) : d \in Named \cup {Nobody}, t \in Named \cup Own0, e \in {"good", "bad"}, f \in {"good", "bad"},
                                n \in {"stack", "tid"}}

\* A panel that names a datasource or none, with a query that does or does not.
Inner(refs) == {PanelOf(d, <<t>>) : d \in Named \cup Own0, t \in Targets(Named \cup refs)}
MCLocalDashboards ==
  {LocalPage(<<>>, <<Fine, LocalRow(<<panel>>)>>) : panel \in Inner(Own0) \cup Odd}
  \cup {LocalPage(<<ann>>, <<Fine>>) : ann \in Anns}

-----------------------------------------------------------------------------
(* Rule files *)

L(indent, dash, key, value) == [indent |-> indent, dash |-> dash, key |-> key, value |-> value]
Comment == L(0, FALSE, "#", "")

\* A rule's entries, each a sequence of lines below its key; the first has the dash.
Entries(value, label) ==
  {<<L(4, FALSE, "record", "r")>>, <<L(4, FALSE, "expr", value)>>,
   <<L(4, FALSE, "labels", ""), L(6, FALSE, label, "x")>>}
WithDash(entry) == [entry EXCEPT ![1].indent = 2, ![1].dash = TRUE]
RuleOf(o) == WithDash(o[1]) \o o[2] \o o[3]
Orders(E) == {o \in [1..3 -> E] : {o[k] : k \in 1..3} = E}
RulesOf(values, labels) ==
  UNION {{RuleOf(o) : o \in Orders(Entries(v, l))} : v \in values, l \in labels}

Values == {"good", "bad", "", "|"}
Top == <<L(0, FALSE, "groups", ""), L(0, TRUE, "rules", "")>>

\* Labels written as a block, or after their key on its line.
MCRules ==
  {Top \o r \o s : r \in RulesOf(Values, {"stack", "tid", "expr"}), s \in RulesOf({"good", "bad"}, {"stack", "tid"})}
  \cup {Top \o <<Comment>> \o SubSeq(r, 1, k) \o <<Comment>> \o SubSeq(r, k + 1, Len(r)) :
          k \in 1..3, r \in RulesOf(Values, {"stack", "tid"})}
  \cup {Top \o [r EXCEPT ![k].value = IF @ = "" /\ r[k].key = "labels" THEN "inline" ELSE @] \o s :
          k \in 1..4, r \in RulesOf({"good", "bad"}, {"stack", "tid"}), s \in RulesOf({"good"}, {"stack", "tid"})}

-----------------------------------------------------------------------------
(* Files *)

Uids == {NoUid, "a", "b", "c"}
File(dir, name, uid) == [dir |-> dir, name |-> name, body |-> "object", uid |-> uid, clean |-> TRUE]
Variants(uid) == {<<>>} \cup {<<File("no-cc", "x", u)>> : u \in Uids}
  \cup {<<File("no-cc", "x", u), File("production", n, uid)>> : u \in Uids, n \in {"x", "z"}}
Tree(l, u, v, w) == <<File("local", "x", l), File("pages", "x", u), File("pages", "y", v)>>
                      \o w \o <<File("rules", "r", NoUid)>>
Some == UNION {Variants(uid) : uid \in {"a", "b"}}
Unread(t, k) == {[t EXCEPT ![k].body = "text"], [t EXCEPT ![k].body = "list"]}

MCTrees ==
  {Tree(l, u, v, w) : l \in {"a", "c"}, u \in Uids, v \in Uids, w \in Some}
  \cup UNION {UNION {Unread(Tree("c", "a", "b", w), k) : k \in 1..(3 + Len(w))} : w \in Some}
  \cup UNION {{[Tree("c", "a", "b", w) EXCEPT ![k].clean = FALSE] : k \in 1..(4 + Len(w))} : w \in Some}
=============================================================================
