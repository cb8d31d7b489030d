------------------------------- MODULE LogScrub -------------------------------
(***************************************************************************)
(* alloy/config.alloy, loki.process "scrub": the stages a log line goes    *)
(* through, in order, before Loki has it.                                  *)
(*                                                                         *)
(* A line's JSON is a tree: a path of positions -> a field's key (an item  *)
(* of a list has none), whether it is a text, an object or a list, and the *)
(* word a text holds. Fields are taken out of the text by expressions that *)
(* know only compact JSON and a value without an object in its object or a *)
(* list in its list; the last drop knows the keys alone. A stage with an   *)
(* expression replaces every match, left to right.                         *)
(*                                                                         *)
(* Keys stand for those treated alike: role for decision, reason, role;    *)
(* request_id for ts, op, rows, status, gate of a velocity line; status    *)
(* for ts, method, host, duration, size of Caddy's; operation for every    *)
(* shape-checked key of the metadata; exc.class for exc.sqlstate. Left     *)
(* out: braces, brackets and keys inside a text; the wording of values;    *)
(* labels, which are kept by name.                                         *)
(***************************************************************************)
EXTENDS Naturals, Sequences, SequencesExt, FiniteSets

CONSTANTS Lines   \* the lines tried: [service, form, tear, tree]

VARIABLES
  fate,    \* open, shipped or dropped
  at,      \* the place in Stages of the next stage
  first,   \* the line as it was written
  line,    \* the line as it is now
  read,    \* what stage 5 extracted from it
  meta     \* the metadata of stage 6

vars == <<fate, at, first, line, read, meta>>

NeverShipped == {"model-gateway", "dev-vendor-sink", "db", "x-db"}
Ids == {"tid", "sub", "detail", "error"}
Headers == {"headers", "resp_headers"}

Stages == <<"services", "bodies", "not_json", "caddy", "velocity", "read", "metadata", "drops",
            "later_fields", "first_fields", "rows", "queries", "fail_closed", "ship">>

At(stage) == fate = "open" /\ Stages[at] = stage
Go == at' = at + 1 /\ UNCHANGED <<fate, first>>
Drop == fate' = "dropped" /\ UNCHANGED <<at, first, line, read, meta>>
DropIf(condition) == (condition /\ Drop) \/ (~condition /\ Go /\ UNCHANGED <<line, read, meta>>)
Rewrite(new) == line' = new /\ Go /\ UNCHANGED <<read, meta>>

\* A line's fields, each in the one it is part of.
IsTree(l) ==
  /\ DOMAIN l = {"service", "form", "tear", "tree"} /\ l.tear \in Seq(Nat)
  /\ \A p \in DOMAIN l.tree :
       /\ p \in Seq(Nat) /\ p # <<>> /\ (Len(p) > 1 => Front(p) \in DOMAIN l.tree)
       /\ DOMAIN l.tree[p] = {"key", "is", "word"} /\ l.tree[p].is \in {"text", "object", "list"}

\* A line as it is written. An error's text that begins with its class is the
\* word classed, which no other field holds.
IsLine(l) ==
  IsTree(l) /\ \A p \in DOMAIN l.tree : l.tree[p].word = "classed" => l.tree[p].key = "error"

\* What a line says anywhere in its text.
Words(l) == {l.tree[p].word : p \in DOMAIN l.tree}
Keys(l) == {l.tree[p].key : p \in DOMAIN l.tree}
IsJson(l) == l.form \in {"compact", "spaced"} /\ l.tear = <<>>

\* A stage.json expression: the value under these keys, one in the other; an
\* object or a list is read as its text, which is free text.
KeysTo(l, p) == [i \in DOMAIN p |-> l.tree[SubSeq(p, 1, i)].key]
Value(l, keys) ==
  LET found == {p \in DOMAIN l.tree : KeysTo(l, p) = keys} IN
    IF ~IsJson(l) \/ found = {} THEN ""
    ELSE LET node == l.tree[CHOOSE p \in found : TRUE] IN
           IF node.is = "text" THEN node.word ELSE "free"
Either(a, b) == IF a # "" THEN a ELSE b

\* A word that fits ^[A-Za-z0-9_.:-]{1,80}$.
Shaped(word) == word \in {"ok", "velocity", "debug", "error", "httpx"}

-------------------------------------------------------------------------------
\* 1, 2, 3. Services, bodies, and what does not begin as JSON does. A line of
\* "print" begins "publisher: ", one of "text" with anything else.
NeverShipServices == At("services") /\ DropIf(line.service \in NeverShipped)
ModelBodies == At("bodies") /\ DropIf("body" \in Words(line))
NotJson == At("not_json") /\ DropIf(line.form = "text")

\* A line rebuilt of these fields, less those without a value, in compact JSON.
Text(key, word) == [key |-> key, is |-> "text", word |-> word]
Rebuilt(l, fields) ==
  LET kept == {<<i>> : i \in {k \in DOMAIN fields : fields[k].word # ""}} IN
    [l EXCEPT !.form = "compact", !.tree = [p \in kept |-> fields[p[1]]]]

\* 4. Caddy. A path loses its query and its ids.
CaddyKept(key) ==
  LET word == Value(line, <<key>>)
      path == Value(line, <<"request", "uri">>) IN
    IF key # "path" THEN word
    ELSE IF path = "id" THEN ":id" ELSE IF path = "query" THEN "ok" ELSE path
Caddy ==
  /\ At("caddy")
  /\ IF line.service # "web" THEN DropIf(FALSE)
     ELSE IF ~IsJson(line) THEN Drop
     ELSE LET keys == <<"level", "logger", "msg", "path", "status">> IN
            Rewrite(Rebuilt(line, [i \in DOMAIN keys |-> Text(keys[i], CaddyKept(keys[i]))]))

\* 4b. records' velocity lines. A word off its list reads other, a value
\* without its shape goes.
VelocityLine(l) ==
  l.service = "records"
    /\ \E p \in DOMAIN l.tree : l.tree[p].key \in {"message", "code"} /\ l.tree[p].word = "velocity"

\* Mutant: the words are copied unread.
VelocityKeptUnread(key) == Value(line, <<key>>)

VelocityKept(key) ==
  LET word == Value(line, <<key>>) IN
    IF word = "" THEN ""
    ELSE CASE key \in {"message", "code"} -> IF word = "velocity" THEN word ELSE "other"
           [] key = "role" -> IF word = "ok" THEN word ELSE "other"
           [] key = "level" -> IF word \in {"debug", "error", "ok"} THEN word ELSE ""
           [] OTHER -> IF Shaped(word) THEN word ELSE ""

\* The exception's class, in an object after the other fields; none without its
\* shape, and no object without one.
WithException(l, place, class) ==
  IF ~Shaped(class) THEN l
  ELSE LET exc == <<place>>
           inner == <<place, 1>> IN
         [l EXCEPT !.tree = [p \in DOMAIN l.tree \cup {exc, inner} |->
            IF p = exc THEN [key |-> "exc", is |-> "object", word |-> ""]
            ELSE IF p = inner THEN Text("class", class)
            ELSE l.tree[p]]]

Velocity ==
  /\ At("velocity")
  /\ IF ~VelocityLine(line) THEN DropIf(FALSE)
     ELSE IF ~IsJson(line) THEN Drop
     ELSE LET keys == <<"code", "level", "message", "op", "request_id", "role">>
              flat == Rebuilt(line, [i \in DOMAIN keys |-> Text(keys[i], VelocityKept(keys[i]))]) IN
            Rewrite(WithException(flat, 7, Value(line, <<"exc", "class">>)))

-------------------------------------------------------------------------------
\* 5. The fields the metadata and the drops need; nothing of what is not JSON.
Read ==
  /\ At("read")
  /\ read' = [level |-> Either(Value(line, <<"level">>), Value(line, <<"severity">>)),
              logger |-> Value(line, <<"logger">>),
              msg |-> Either(Value(line, <<"message">>), Value(line, <<"msg">>)),
              class |-> Value(line, <<"exc", "class">>),
              error |-> Value(line, <<"error">>),
              operation |-> Either(Value(line, <<"operation">>), Value(line, <<"op">>))]
  /\ Go /\ UNCHANGED <<line, meta>>

\* 6. exc.class, or the class that error gives before its first colon.
ExcClass ==
  IF read.class # "" THEN IF Shaped(read.class) THEN read.class ELSE ""
  ELSE IF read.error = "classed" THEN "class" ELSE ""
Metadata ==
  /\ At("metadata")
  /\ meta' = [level |-> IF read.level \in {"debug", "error"} THEN read.level ELSE "",
              exc_class |-> ExcClass,
              operation |-> IF Shaped(read.operation) THEN read.operation ELSE "",
              lane |-> IF read.msg = "lane" THEN "sms" ELSE ""]
  /\ Go /\ UNCHANGED <<line, read>>

\* 7.
Drops == At("drops") /\ DropIf(meta.level = "debug" \/ read.logger = "httpx" \/ read.msg = "request")

-------------------------------------------------------------------------------
\* 8. What the expression of a field's value matches: a text to its end, an
\* object that holds no object, a list that holds no list.
Under(l, p) == {q \in DOMAIN l.tree : IsStrictPrefix(p, q)}
Matched(l, p) ==
  /\ l.form = "compact"
  /\ ~(l.tear # <<>> /\ IsPrefix(p, l.tear))
  /\ l.tree[p].is # "text" => \A q \in Under(l, p) : l.tree[q].is # l.tree[p].is

\* A field goes with all it holds.
Without(l, cut) ==
  LET left == {q \in DOMAIN l.tree : \A p \in cut : ~IsPrefix(p, q)} IN
    [l EXCEPT !.tree = [q \in left |-> l.tree[q]]]

\* A field after a comma, then a field that opens an object.
Opens(l, p) == \A i \in 1..(Last(p) - 1) : Append(Front(p), i) \notin DOMAIN l.tree
LaterFields(l) == {p \in DOMAIN l.tree : l.tree[p].key \in Ids /\ ~Opens(l, p) /\ Matched(l, p)}
FirstFields(l) == {p \in DOMAIN l.tree : l.tree[p].key \in Ids /\ Opens(l, p) /\ Matched(l, p)}

CutLaterFields == At("later_fields") /\ Rewrite(Without(line, LaterFields(line)))
CutFirstFields == At("first_fields") /\ Rewrite(Without(line, FirstFields(line)))

\* A word put for a word wherever it stands.
Replaced(l, old, new) ==
  [l EXCEPT !.tree = [p \in DOMAIN l.tree |->
     IF l.tree[p].word = old THEN [l.tree[p] EXCEPT !.word = new] ELSE l.tree[p]]]

CutRows == At("rows") /\ Rewrite(Replaced(line, "row", "row=:id"))
CutQueries == At("queries") /\ Rewrite(Replaced(line, "query", "ok"))

\* Mutant: the fields that were to be cut are taken for cut.
StillThereButIds(l) == (Keys(l) \cap Headers # {}) \/ (Words(l) \cap {"query", "cookie"} # {})

\* 9. The line is dropped whole rather than shipped.
StillThere(l) == (Keys(l) \cap (Ids \cup Headers) # {}) \/ (Words(l) \cap {"query", "cookie"} # {})

FailClosed == At("fail_closed") /\ DropIf(StillThere(line))

\* 10.
Ship == At("ship") /\ fate' = "shipped" /\ UNCHANGED <<at, first, line, read, meta>>

-------------------------------------------------------------------------------
Init ==
  /\ fate = "open" /\ at = 1
  /\ first \in Lines /\ line = first
  /\ read = <<>> /\ meta = <<>>

Next ==
  \/ NeverShipServices \/ ModelBodies \/ NotJson
  \/ Caddy \/ Velocity \/ Read \/ Metadata \/ Drops
  \/ CutLaterFields \/ CutFirstFields \/ CutRows \/ CutQueries
  \/ FailClosed \/ Ship

Spec == Init /\ [][Next]_vars

-----------------------------------------------------------------------------
(***************************************************************************)
(* What of a line reaches Loki, as properties of LogScrub.                 *)
(***************************************************************************)

Shipped == fate = "shipped"
IsRebuilt(l) == l.service = "web" \/ VelocityLine(l)
Compact(l) == IsJson(l) /\ l.form = "compact"

\* A line stays a tree through every stage, and stays its service's.
TypeOK ==
  /\ fate \in {"open", "shipped", "dropped"} /\ at \in DOMAIN Stages
  /\ IsTree(line) /\ line.service = first.service

\* No listed field, header, query or cookie reaches Loki, at whatever depth, in
\* whatever spacing, of a line whole or torn.
NothingListedShips ==
  Shipped =>
    /\ Keys(line) \cap (Ids \cup Headers) = {}
    /\ Words(line) \cap {"query", "cookie", "body", "row"} = {}
    /\ line.service \notin NeverShipped

\* The two replacements are enough for compact JSON: a line ships with every
\* other field where it was, as long as no listed field holds its like (an
\* object an object, a list a list) and nothing else is there to drop it.
HoldsItsLike(l, p) == \E q \in Under(l, p) : l.tree[q].is = l.tree[p].is
Listed(l) == {p \in DOMAIN l.tree : l.tree[p].key \in Ids}
Harmless(l) ==
  /\ l.service \in {"auth", "records"} /\ Compact(l) /\ ~VelocityLine(l)
  /\ Keys(l) \cap Headers = {} /\ Words(l) \cap {"body", "cookie", "debug", "httpx", "request"} = {}
RestIsKept ==
  (fate # "open" /\ Harmless(first) /\ \A p \in Listed(first) : ~HoldsItsLike(first, p))
    => /\ Shipped
       /\ DOMAIN line.tree = DOMAIN Without(first, Listed(first)).tree
       /\ \A p \in DOMAIN line.tree : line.tree[p].key = first.tree[p].key

\* "Each kept value is closed": of a velocity line nothing ships but the
\* contract's keys with words of the contract, and no object but exc.
VelocityIsClosed ==
  (Shipped /\ VelocityLine(first)) =>
    /\ Compact(line)
    /\ \A p \in DOMAIN line.tree : line.tree[p].is = "text" \/ line.tree[p].key = "exc"
    /\ Words(line) \cap {"free", "id"} = {}
    /\ Keys(line) \subseteq {"class", "code", "exc", "level", "message", "op", "request_id", "role"}

\* The class of an error outlives the error: it is read before error is cut,
\* and it is all that is left of it.
ClassOutlivesError ==
  (Shipped /\ IsJson(first) /\ ~IsRebuilt(first)
     /\ Value(first, <<"exc", "class">>) = "" /\ Value(first, <<"error">>) = "classed")
    => meta.exc_class = "class" /\ "classed" \notin Words(line)

\* No line of DEBUG reaches Loki, whichever key says so, rebuilt or not.
DebugNeverShips ==
  (Shipped /\ IsJson(first)) =>
    /\ Value(first, <<"level">>) # "debug"
    /\ (Value(first, <<"level">>) = "" /\ ~IsRebuilt(first)) => Value(first, <<"severity">>) # "debug"

\* What of a line reaches Loki, all of it.
Safe ==
  /\ TypeOK /\ NothingListedShips /\ RestIsKept /\ VelocityIsClosed
  /\ ClassOutlivesError /\ DebugNeverShips
=============================================================================
