---------------------------- MODULE MCMonitoring ----------------------------
(***************************************************************************)
(* What TLC gives Alloy: every small shape of line with a listed field     *)
(* anywhere in it, and lines of up to three fields with every word the     *)
(* stages look for (three when the first is of a velocity line, an error   *)
(* or a request).                                                          *)
(***************************************************************************)
EXTENDS Monitoring, Sequences, SequencesExt, FiniteSets, TLC

\* The operators the lines are written with.
Parts == INSTANCE LogScrub WITH Lines <- {}, at <- stage

Line(service, form, tear, tree) == [service |-> service, form |-> form, tear |-> tear, tree |-> tree]

\* Shapes: up to MaxNodes paths of ones and twos, each after its elder and in its parent.
MaxNodes == 5
Paths == UNION {[1..n -> 1..2] : n \in 1..3}
Elder(p) == [p EXCEPT ![Len(p)] = 1]
Shapes == {s \in SUBSET Paths : Cardinality(s) \in 1..MaxNodes /\
             \A p \in s : Elder(p) \in s /\ (Len(p) > 1 => Front(p) \in s)}
Inner(s) == {p \in s : Append(p, 1) \in s}
Item(kinds, p) == Len(p) > 1 /\ kinds[Front(p)] = "list"

\* The trees of a shape: inner nodes are objects or lists, fields are plain or listed.
Trees(s) ==
  UNION {{[p \in s |-> IF p \in Inner(s) THEN [key |-> keys[p], is |-> kinds[p], word |-> ""]
                                         ELSE Parts!Text(keys[p], "ok")]
           : keys \in {k \in [s -> {"a", "tid", "-"}] : \A p \in s : (k[p] = "-") <=> Item(kinds, p)}}
         : kinds \in [Inner(s) -> {"object", "list"}]}

\* The last thing written: where a torn line ends.
End(tree) == CHOOSE p \in DOMAIN tree :
  Append(p, 1) \notin DOMAIN tree
    /\ \A i \in DOMAIN p : Append(SubSeq(p, 1, i - 1), p[i] + 1) \notin DOMAIN tree

InEveryForm(service, tree) ==
  {Line(service, "compact", <<>>, tree), Line(service, "spaced", <<>>, tree),
   Line(service, "compact", End(tree), tree)}
ShapeLines == UNION {InEveryForm("auth", tree) : tree \in UNION {Trees(s) : s \in Shapes}}

\* Fields: a key with a text, or with an object of one field.
Field(key, words) == {<<Parts!Text(key, w)>> : w \in words}
Object(key, inner, words) == {<<[key |-> key, is |-> "object", word |-> ""], Parts!Text(inner, w)>> : w \in words}
Of(service) ==
  Field("level", {"debug", "error"}) \cup Field("logger", {"httpx", "ok"}) \cup Field("tid", {"id"})
    \cup Field("headers", {"ok"})
    \cup (IF service = "web"
          THEN Object("request", "uri", {"id", "query", "ok"}) \cup Field("msg", {"request", "cookie", "ok"})
          ELSE Field("message", {"velocity", "request", "lane", "row", "query", "free", "body"})
                 \cup Field("operation", {"ok", "free"}) \cup Object("exc", "class", {"ok", "free"}))
    \cup (IF service = "records"
          THEN Field("code", {"velocity", "ok"}) \cup Field("role", {"ok", "free"})
                 \cup Field("request_id", {"ok", "free"}) \cup Object("detail", "code", {"velocity"})
          ELSE {})
    \cup (IF service = "auth"
          THEN Field("msg", {"free", "cookie"}) \cup Field("error", {"classed", "free"})
                 \cup Field("severity", {"debug", "ok"})
          ELSE {})

TreeOf(fields) ==
  LET paths == {<<i>> : i \in DOMAIN fields} \cup {<<i, 1>> : i \in {j \in DOMAIN fields : Len(fields[j]) = 2}}
  IN [p \in paths |-> fields[p[1]][Len(p)]]
Fields(service, n) ==
  {f \in [1..n -> Of(service)] : \A i, j \in 1..n : i # j => f[i][1].key # f[j][1].key}
Threes(service) ==
  {f \in Fields(service, 3) : f[1][1] \in {Parts!Text("message", "velocity"), Parts!Text("error", "classed")}
                                \/ f[1][1].key = "request"}
WordLines ==
  UNION {UNION {InEveryForm(service, TreeOf(f)) : f \in Fields(service, 1) \cup Fields(service, 2)}
           \cup {Line(service, "compact", <<>>, TreeOf(f)) : f \in Threes(service)}
         : service \in {"web", "records", "auth"}}

PlainLine(service, form, word) == Line(service, form, <<>>, <<1>> :> Parts!Text("-", word))
OtherLines ==
  {PlainLine(service, form, word) : service \in {"auth-publisher", "web", "records"}, form \in {"print", "text"},
                                word \in {"ok", "query", "row", "cookie", "body"}}
    \cup {Line(service, "compact", <<>>, <<1>> :> Parts!Text("message", "ok")) : service \in Parts!NeverShipped}

\* A line that begins with a brace is JSON, whole or torn.
MCLines == ShapeLines \cup WordLines \cup OtherLines
=============================================================================
