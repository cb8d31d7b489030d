------------------------ MODULE DashboardQueryProofs ------------------------
(***************************************************************************)
(* What dashboard_lint.py promises of a query, proved for every query that *)
(* is written from a tree and every pipeline that stands in its text: the  *)
(* walk over its tokens judges it as the tree does, and its pipelines are  *)
(* cut as written and leave nothing of a line in a listed label but what   *)
(* belongs there.                                                          *)
(***************************************************************************)
EXTENDS DashboardTools, TLAPS, WellFoundedInduction, FiniteSetTheorems, SequenceTheorems

-----------------------------------------------------------------------------

\* A set of numbers has a least.
LEMMA LeastIn ==
  ASSUME NEW S, S \subseteq Nat, S # {}
  PROVE  \E m \in S : \A s \in S : m <= s
<1>1. PICK m \in S : \A s \in S : ~(<<s, m>> \in OpToRel(<, Nat))
  BY NatLessThanWellFounded, WFMin, Zenon
<1>2. \A s \in S : s \in Nat /\ m \in Nat /\ ~(s < m)
  BY <1>1 DEF OpToRel
<1>3. \A s \in S : m <= s
  BY <1>2
<1> QED
  BY <1>3

-----------------------------------------------------------------------------
(* Pipelines: what a pipeline does to a line *)

\* What a line's labels hold after each of the first n stages.
Ran(p, f, n) ==
  /\ DOMAIN f = 0..n /\ f[0] = <<>>
  /\ \A k \in 1..n : f[k] = Pipeline!After(f[k - 1], p[k])

\* Stages can be run, and Run is what is left after the last.
LEMMA RunIs ==
  ASSUME NEW p, Len(p) \in Nat
  PROVE  \E f : Ran(p, f, Len(p)) /\ Pipeline!Run(p) = f[Len(p)]
<1> DEFINE L == Len(p)
           F(g) == [k \in 0..L |-> IF k = 0 THEN <<>> ELSE Pipeline!After(g[k - 1], p[k])]
           C == CHOOSE g : g = F(g)
           Failing == {k \in 0..L : ~\E g : Ran(p, g, k)}
<1>1. Failing = {}
  <2> SUFFICES ASSUME Failing # {} PROVE FALSE
    OBVIOUS
  <2>1. PICK k \in Failing : \A j \in Failing : k <= j
    <3>1. Failing \subseteq Nat
      OBVIOUS
    <3> HIDE DEF Failing
    <3> QED
      BY <3>1, LeastIn
  <2>2. k # 0
    <3> SUFFICES ASSUME k = 0 PROVE FALSE
      OBVIOUS
    <3>1. Ran(p, [n \in 0..0 |-> <<>>], 0)
      BY DEF Ran
    <3> QED
      BY <3>1, <2>1
  <2>3. k \in 1..L /\ k - 1 \in 0..L /\ ~(k <= k - 1) /\ k - 1 # k
    BY <2>1, <2>2
  <2>4. PICK g : Ran(p, g, k - 1)
    BY <2>1, <2>3
  <2> DEFINE h == [n \in 0..k |-> IF n # k THEN g[n] ELSE Pipeline!After(g[k - 1], p[k])]
  <2>5. DOMAIN h = 0..k /\ h[0] = <<>>
    BY <2>2, <2>3, <2>4 DEF Ran
  <2>6. ASSUME NEW i \in 1..k PROVE h[i] = Pipeline!After(h[i - 1], p[i])
    <3>0. i - 1 \in 0..k /\ i - 1 # k /\ i \in 0..k
      BY <2>3
    <3>1. CASE i = k
      BY <2>3, <3>0, <3>1
    <3>2. CASE i # k
      <4>1. i \in 1..(k - 1) /\ h[i] = g[i] /\ h[i - 1] = g[i - 1]
        BY <2>3, <3>0, <3>2
      <4>2. g[i] = Pipeline!After(g[i - 1], p[i])
        BY <4>1, <2>4 DEF Ran
      <4> HIDE DEF h
      <4> QED
        BY <4>1, <4>2
    <3> QED
      BY <3>1, <3>2
  <2>7. Ran(p, h, k)
    <3> HIDE DEF h
    <3> QED
      BY <2>5, <2>6 DEF Ran
  <2> QED
    BY <2>7, <2>1
<1>2. L \in 0..L
  OBVIOUS
<1>3. PICK g : Ran(p, g, L)
  BY <1>1, <1>2
<1>4. \E f : f = F(f)
  <2>1. PICK f : f = [k \in 0..L |-> g[k]]
    OBVIOUS
  <2>2. ASSUME NEW k \in 0..L PROVE g[k] = IF k = 0 THEN <<>> ELSE Pipeline!After(f[k - 1], p[k])
    <3>1. k # 0 => k \in 1..L /\ k - 1 \in 0..L
      OBVIOUS
    <3> QED
      BY <1>3, <2>1, <3>1 DEF Ran
  <2>3. f = F(f)
    BY <2>1, <2>2
  <2> QED
    BY <2>3
<1>5. C = F(C)
  BY <1>4, Zenon
<1>6. Pipeline!Run(p) = C[L]
  BY DEF Pipeline!Run
<1>7. Ran(p, C, L)
  <2>1. DOMAIN C = 0..L /\ \A k \in 0..L : C[k] = IF k = 0 THEN <<>> ELSE Pipeline!After(C[k - 1], p[k])
    <3> HIDE DEF C
    <3> QED
      BY <1>5
  <2> HIDE DEF C
  <2> QED
    BY <2>1 DEF Ran
<1> QED
  BY <1>6, <1>7

\* What Put makes of a label.
LEMMA PutIs ==
  ASSUME NEW from, NEW set_one, NEW fields, NEW label
  PROVE  LET put == Pipeline!Put(from, set_one, fields) IN
         /\ label \in DOMAIN put <=> label = set_one \/ label \in DOMAIN from
         /\ Pipeline!Flows(put, label) = IF label = set_one THEN fields ELSE Pipeline!Flows(from, label)
  BY DEF Pipeline!Put, Pipeline!Flows

\* Stages that pass.
Passed(p) ==
  \A k \in DOMAIN p :
    /\ Pipeline!Allowed(p, p[k])
    /\ p[k].op \in {"json", "logfmt", "regexp", "label_format", "unwrap"}
    /\ p[k].op = "regexp" => p[k].name = "n" /\ p[k].from = "connectors"

\* What one of them does to a label.
LEMMA StageDoes ==
  ASSUME NEW p, Passed(p), NEW k \in DOMAIN p, NEW from, NEW label
  PROVE  LET s == p[k]
             after == Pipeline!After(from, s)
         IN /\ k \notin Pipeline!Sets(p, label) =>
                 /\ label \in DOMAIN after <=> label \in DOMAIN from
                 /\ Pipeline!Flows(after, label) = Pipeline!Flows(from, label)
            /\ k \in Pipeline!Sets(p, label) =>
                 /\ s.name = label
                 /\ s.op = "label_format" =>
                      Pipeline!Flows(after, label) = UNION {Pipeline!Flows(from, l) : l \in Pipeline!Reads(s)}
                 /\ s.op \in {"json", "logfmt", "regexp"} /\ label \in DOMAIN from =>
                      Pipeline!Flows(after, label) = Pipeline!Flows(from, label)
                 /\ s.op \in {"json", "logfmt"} /\ label \notin DOMAIN from => Pipeline!Flows(after, label) = {s.from}
                 /\ s.op = "regexp" /\ label \notin DOMAIN from => Pipeline!Flows(after, label) = {"a counter"}
<1> DEFINE s == p[k]
           after == Pipeline!After(from, s)
           made == UNION {Pipeline!Flows(from, l) : l \in Pipeline!Reads(s)}
<1>0. s.op \in {"json", "logfmt", "regexp", "label_format", "unwrap"} /\ (s.op = "regexp" => s.from = "connectors")
  BY DEF Passed
<1>1. k \in Pipeline!Sets(p, label) <=> s.op \in {"json", "logfmt", "label_format", "regexp"} /\ s.name = label
  BY DEF Pipeline!Sets
<1>2. ASSUME s.op \in {"json", "logfmt"}
      PROVE after = IF s.name \in DOMAIN from THEN from ELSE Pipeline!Put(from, s.name, {s.from})
  BY <1>2 DEF Pipeline!After
<1>3. ASSUME s.op = "regexp"
      PROVE after = IF s.name \in DOMAIN from THEN from ELSE Pipeline!Put(from, s.name, {"a counter"})
  BY <1>0, <1>3 DEF Pipeline!After
<1>4. ASSUME s.op = "label_format" PROVE after = Pipeline!Put(from, s.name, made)
  BY <1>4 DEF Pipeline!After
<1>5. ASSUME s.op = "unwrap" PROVE after = from
  BY <1>5 DEF Pipeline!After
<1> HIDE DEF s, after, made
<1>6. ASSUME NEW fields PROVE LET put == Pipeline!Put(from, s.name, fields) IN
                              /\ label \in DOMAIN put <=> label = s.name \/ label \in DOMAIN from
                              /\ Pipeline!Flows(put, label) = IF label = s.name THEN fields ELSE Pipeline!Flows(from, label)
  BY PutIs
<1>7. CASE s.op \in {"json", "logfmt"}
  BY <1>1, <1>2, <1>6, <1>7 DEF s, after, made
<1>8. CASE s.op = "regexp"
  BY <1>1, <1>3, <1>6, <1>8 DEF s, after, made
<1>9. CASE s.op = "label_format"
  BY <1>1, <1>4, <1>6, <1>9 DEF s, after, made
<1>10. CASE s.op = "unwrap"
  BY <1>1, <1>5, <1>10 DEF s, after, made
<1> QED
  BY <1>0, <1>7, <1>8, <1>9, <1>10

\* What a label holds in one line is what it holds in another.
SameFlow(a, b, label) ==
  (label \in DOMAIN b <=> label \in DOMAIN a) /\ Pipeline!Flows(b, label) = Pipeline!Flows(a, label)

\* What a stage that sets a label makes of it, of the line before it.
MadeOf(from, s, label, flows) ==
  /\ s.op = "label_format" => flows = UNION {Pipeline!Flows(from, l) : l \in Pipeline!Reads(s)}
  /\ s.op \in {"json", "logfmt"} => flows = {s.from}
  /\ s.op = "regexp" => flows = {"a counter"}

\* A stage leaves alone what it does not set, and sets what is not set yet.
LEMMA StageLeaves ==
  ASSUME NEW p, Passed(p), NEW k \in DOMAIN p, NEW from, NEW label, k \notin Pipeline!Sets(p, label)
  PROVE  SameFlow(from, Pipeline!After(from, p[k]), label)
  BY StageDoes DEF SameFlow

LEMMA StageMakes ==
  ASSUME NEW p, Passed(p), NEW k \in DOMAIN p, NEW from, NEW label, k \in Pipeline!Sets(p, label),
         p[k].op = "label_format" \/ label \notin DOMAIN from
  PROVE  MadeOf(from, p[k], label, Pipeline!Flows(Pipeline!After(from, p[k]), label))
  BY StageDoes DEF MadeOf

LEMMA StageKeeps ==
  ASSUME NEW p, Passed(p), NEW k \in DOMAIN p, NEW from, NEW label, k \in Pipeline!Sets(p, label), label \in DOMAIN from,
         p[k].op \in {"json", "logfmt", "regexp"}
  PROVE  Pipeline!Flows(Pipeline!After(from, p[k]), label) = Pipeline!Flows(from, label)
  BY StageDoes

\* A pipeline that passes, run up to its stage m.
Running(p, m, f) == Passed(p) /\ m \in Nat /\ 1..m \subseteq DOMAIN p /\ DOMAIN p \subseteq Nat \ {0} /\ Ran(p, f, m)

\* No stage of j..k sets a label.
Quiet(p, label, j, k) == \A h \in j..k : h \notin Pipeline!Sets(p, label)

\* While no stage sets a label, what it holds stays.
LEMMA HoldsSince ==
  ASSUME NEW p, NEW m, NEW f, Running(p, m, f), NEW label, NEW j \in 0..m, NEW k \in j..m, NEW g, g = j + 1,
         Quiet(p, label, g, k)
  PROVE  SameFlow(f[j], f[k], label)
<1> DEFINE Failing == {h \in j..k : ~SameFlow(f[j], f[h], label)}
<1>0. Passed(p) /\ m \in Nat /\ \A h \in 1..m : h \in DOMAIN p
  BY DEF Running
<1>1. Failing = {}
  <2> SUFFICES ASSUME Failing # {} PROVE FALSE
    OBVIOUS
  <2>1. PICK h \in Failing : \A i \in Failing : h <= i
    <3>1. Failing \subseteq Nat
      BY <1>0
    <3> HIDE DEF Failing
    <3> QED
      BY <3>1, LeastIn
  <2>2. h # j
    BY <2>1 DEF SameFlow
  <2>3. PICK b \in j..k : b = h - 1 /\ h \in g..k /\ h \in 1..m /\ ~(h <= b)
    BY <1>0, <2>1, <2>2
  <2>4. SameFlow(f[j], f[b], label)
    <3>1. b \notin Failing
      <4> HIDE DEF Failing
      <4> QED
        BY <2>1, <2>3
    <3> QED
      BY <2>3, <3>1
  <2>5. f[h] = Pipeline!After(f[b], p[h])
    BY <2>3 DEF Ran, Running
  <2>6. h \in DOMAIN p /\ h \notin Pipeline!Sets(p, label)
    BY <1>0, <2>3 DEF Quiet
  <2>7. SameFlow(f[b], Pipeline!After(f[b], p[h]), label)
    <3> HIDE DEF Failing
    <3> QED
      BY <1>0, <2>6, StageLeaves
  <2>8. SameFlow(f[j], f[h], label)
    BY <2>4, <2>5, <2>7 DEF SameFlow
  <2> QED
    BY <2>1, <2>8
<1>2. k \in j..k
  BY <1>0
<1> QED
  BY <1>1, <1>2

\* A label of the stream.
Own(from, label) == label \notin DOMAIN from /\ Pipeline!Flows(from, label) = {label} \cap LOCAL_LABELS

\* Before any stage sets it, a label is the stream's own.
LEMMA StreamsOwn ==
  ASSUME NEW p, NEW m, NEW f, Running(p, m, f), NEW label, NEW k \in 0..m, Quiet(p, label, 1, k)
  PROVE  Own(f[k], label)
<1>1. Own(f[0], label)
  <2>1. f[0] = <<>> /\ DOMAIN <<>> = {}
    BY DEF Ran, Running
  <2> QED
    BY <2>1 DEF Pipeline!Flows, Own
<1>2. PICK z \in 0..m : z = 0 /\ k \in z..m /\ 1 = z + 1
  BY DEF Running
<1>3. SameFlow(f[z], f[k], label)
  BY <1>2, HoldsSince
<1> QED
  BY <1>1, <1>2, <1>3 DEF SameFlow, Own

\* A label that one stage sets is the stream's own before it, and after it what
\* that stage made of it.
LEMMA OneSets ==
  ASSUME NEW p, NEW m, NEW f, Running(p, m, f), NEW label, NEW j \in DOMAIN p, Pipeline!Sets(p, label) = {j},
         NEW k \in 0..m
  PROVE  \/ Own(f[k], label)
         \/ \E b \in 0..m : b = j - 1 /\ j <= k /\ MadeOf(f[b], p[j], label, Pipeline!Flows(f[k], label))
<1>0. Passed(p) /\ m \in Nat /\ j \in Nat /\ j > 0
  BY DEF Running
<1>1. CASE k < j
  <2>1. Quiet(p, label, 1, k)
    BY <1>0, <1>1 DEF Quiet
  <2> QED
    BY <2>1, StreamsOwn
<1>2. CASE j <= k
  <2>1. PICK b \in 0..m : b = j - 1 /\ j \in 0..m /\ k \in j..m /\ j \in 1..m
    BY <1>0, <1>2
  <2>2. PICK g : g = j + 1
    OBVIOUS
  <2>3. Quiet(p, label, g, k) /\ Quiet(p, label, 1, b)
    BY <1>0, <2>1, <2>2 DEF Quiet
  <2>4. SameFlow(f[j], f[k], label)
    BY <2>1, <2>2, <2>3, HoldsSince
  <2>5. Own(f[b], label)
    BY <2>1, <2>3, StreamsOwn
  <2>6. f[j] = Pipeline!After(f[b], p[j])
    BY <2>1 DEF Ran, Running
  <2>7. j \in Pipeline!Sets(p, label) /\ label \notin DOMAIN f[b]
    BY <2>5 DEF Own
  <2>8. MadeOf(f[b], p[j], label, Pipeline!Flows(Pipeline!After(f[b], p[j]), label))
    BY <1>0, <2>7, StageMakes
  <2>9. Pipeline!Flows(Pipeline!After(f[b], p[j]), label) = Pipeline!Flows(f[k], label)
    BY <2>4, <2>6 DEF SameFlow
  <2> QED
    BY <1>2, <2>1, <2>8, <2>9
<1>3. k < j \/ j <= k
  BY <1>0
<1> QED
  BY <1>1, <1>2, <1>3

\* A template that passes is a vetted one, and fed as it must be.
LEMMA Templates ==
  ASSUME NEW p, Passed(p), NEW k \in DOMAIN p, p[k].op = "label_format"
  PROVE  \/ /\ p[k].name = "n" /\ p[k].from = "add"
            /\ Pipeline!SetOnce(p, "f", {<<"json", "tenants_failed">>})
            /\ Pipeline!SetOnce(p, "k", {<<"json", "tenants_skipped">>})
         \/ p[k].name = "where" /\ p[k].from = "or"
         \/ /\ p[k].name = "reason_code" /\ p[k].from = "name"
            /\ Pipeline!SetOnce(p, "rc", {<<"json", "reason">>})
         \/ p[k].name = "ts" /\ p[k].from = "time"
<1> DEFINE s == p[k]
           fed == Pipeline!Of(Pipeline!VETTED_SOURCES, s.name)
<1>1. Pipeline!Template(p, s)
  <2>1. Pipeline!Allowed(p, s) /\ s.op = "label_format"
    BY DEF Passed
  <2> HIDE DEF s
  <2> QED
    BY <2>1 DEF Pipeline!Allowed
<1>2. <<s.name, s.from>> \in {<<"n", "add">>, <<"where", "or">>, <<"reason_code", "name">>, <<"ts", "time">>}
  BY <1>1 DEF Pipeline!Template, Pipeline!VETTED_LABEL_FORMATS
<1>3. \A helper \in fed : Pipeline!SetOnce(p, helper[1], {<<"json", helper[2]>>})
  BY <1>1 DEF Pipeline!Template
<1> HIDE DEF s
<1>4. CASE s.name = "n" /\ s.from = "add"
  <2>1. <<"f", "tenants_failed">> \in fed /\ <<"k", "tenants_skipped">> \in fed
    BY <1>4 DEF Pipeline!Of, Pipeline!VETTED_SOURCES
  <2> HIDE DEF fed
  <2> QED
    BY <1>3, <1>4, <2>1 DEF s
<1>5. CASE s.name = "where" /\ s.from = "or"
  BY <1>5 DEF s
<1>6. CASE s.name = "reason_code" /\ s.from = "name"
  <2>1. <<"rc", "reason">> \in fed
    BY <1>6 DEF Pipeline!Of, Pipeline!VETTED_SOURCES
  <2> HIDE DEF fed
  <2> QED
    BY <1>3, <1>6, <2>1 DEF s
<1>7. CASE s.name = "ts" /\ s.from = "time"
  BY <1>7 DEF s
<1> QED
  BY <1>2, <1>4, <1>5, <1>6, <1>7

\* A helper set once holds the field it was extracted from, or nothing yet.
LEMMA FedBy ==
  ASSUME NEW p, NEW m, NEW f, Running(p, m, f), NEW label, label \notin LOCAL_LABELS, NEW field,
         Pipeline!SetOnce(p, label, {<<"json", field>>}), NEW k \in 0..m
  PROVE  Pipeline!Flows(f[k], label) \subseteq {field}
<1>1. PICK j \in Pipeline!Sets(p, label) : Pipeline!Sets(p, label) = {j} /\ Pipeline!How(p[j]) = <<"json", field>>
  BY DEF Pipeline!SetOnce
<1>2. j \in DOMAIN p /\ p[j].op = "json" /\ p[j].from = field
  BY <1>1 DEF Pipeline!Sets, Pipeline!How
<1>3. \/ Own(f[k], label)
      \/ \E b \in 0..m : b = j - 1 /\ j <= k /\ MadeOf(f[b], p[j], label, Pipeline!Flows(f[k], label))
  BY <1>1, <1>2, OneSets
<1> QED
  BY <1>2, <1>3 DEF Own, MadeOf

\* A listed label shows its own field or a vetted one after every stage.
LEMMA ShowsItsOwn ==
  ASSUME NEW p, NEW m, NEW f, Running(p, m, f), NEW n \in 0..m
  PROVE  \A label \in LOCAL_LABELS : Pipeline!Flows(f[n], label) \subseteq Pipeline!Showable(label)
<1> DEFINE Fine(k) == \A label \in LOCAL_LABELS : Pipeline!Flows(f[k], label) \subseteq Pipeline!Showable(label)
           Failing == {k \in 0..m : ~Fine(k)}
<1>0. Passed(p) /\ m \in Nat /\ \A k \in 1..m : k \in DOMAIN p
  BY DEF Running
<1>1. Failing = {}
  <2> SUFFICES ASSUME Failing # {} PROVE FALSE
    OBVIOUS
  <2>1. PICK k \in Failing : \A i \in Failing : k <= i
    <3>1. Failing \subseteq Nat
      BY <1>0
    <3> HIDE DEF Failing
    <3> QED
      BY <3>1, LeastIn
  <2>2. k # 0
    <3>1. \A label : Pipeline!Flows(f[0], label) = {label} \cap LOCAL_LABELS
      <4>1. f[0] = <<>> /\ DOMAIN <<>> = {}
        BY DEF Ran, Running
      <4> QED
        BY <4>1 DEF Pipeline!Flows
    <3>2. Fine(0)
      BY <3>1 DEF Pipeline!Showable
    <3> QED
      BY <2>1, <3>2
  <2>3. PICK b \in 0..m : b = k - 1 /\ k \in 1..m /\ ~(k <= b)
    BY <1>0, <2>1, <2>2
  <2>4. Fine(b)
    <3> HIDE DEF Fine
    <3> QED
      BY <2>1, <2>3
  <2>5. f[k] = Pipeline!After(f[b], p[k]) /\ k \in DOMAIN p
    BY <1>0, <2>3 DEF Ran, Running
  <2> DEFINE s == p[k]
  <2> HIDE DEF Failing
  <2>6. ASSUME NEW label \in LOCAL_LABELS PROVE Pipeline!Flows(f[k], label) \subseteq Pipeline!Showable(label)
    <3>0. Pipeline!Flows(f[b], label) \subseteq Pipeline!Showable(label)
      BY <2>4
    <3>1. CASE \/ k \notin Pipeline!Sets(p, label)
               \/ label \in DOMAIN f[b] /\ s.op \in {"json", "logfmt", "regexp"}
      <4>1. Pipeline!Flows(Pipeline!After(f[b], p[k]), label) = Pipeline!Flows(f[b], label)
        <5>1. CASE k \notin Pipeline!Sets(p, label)
          <6>1. SameFlow(f[b], Pipeline!After(f[b], p[k]), label)
            BY <1>0, <2>5, <5>1, StageLeaves
          <6> QED
            BY <6>1 DEF SameFlow
        <5>2. CASE k \in Pipeline!Sets(p, label) /\ label \in DOMAIN f[b] /\ p[k].op \in {"json", "logfmt", "regexp"}
          BY <1>0, <2>5, <5>2, StageKeeps
        <5> QED
          BY <3>1, <5>1, <5>2
      <4> QED
        BY <2>5, <3>0, <4>1
    <3>2. CASE k \in Pipeline!Sets(p, label) /\ label \notin DOMAIN f[b] /\ s.op \in {"json", "logfmt", "regexp"}
      <4>1. MadeOf(f[b], p[k], label, Pipeline!Flows(Pipeline!After(f[b], p[k]), label))
        BY <1>0, <2>5, <3>2, StageMakes
      <4>2. s.name = label
        BY <3>2 DEF Pipeline!Sets
      <4>3. s.op # "regexp"
        BY <1>0, <2>5, <4>2, StagesAreNamed DEF Passed
      <4>4. Pipeline!Flows(f[k], label) = {s.from}
        BY <2>5, <3>2, <4>1, <4>3 DEF MadeOf
      <4>5. Pipeline!Allowed(p, s)
        BY <1>0, <2>5 DEF Passed
      <4>6. s.from = label \/ <<label, s.from>> = <<"release", "revision">>
        BY <3>2, <4>2, <4>3, <4>5 DEF Pipeline!Allowed, Pipeline!VETTED_EXTRACTIONS
      <4> QED
        BY <4>4, <4>6 DEF Pipeline!Showable
    <3>3. CASE k \in Pipeline!Sets(p, label) /\ s.op = "label_format"
      <4>1. s.name = label /\ Pipeline!Flows(f[k], label) = UNION {Pipeline!Flows(f[b], l) : l \in Pipeline!Reads(s)}
        <5>1. p[k].name = label
          BY <3>3 DEF Pipeline!Sets
        <5>2. MadeOf(f[b], p[k], label, Pipeline!Flows(Pipeline!After(f[b], p[k]), label))
          BY <1>0, <2>5, <3>3, StageMakes
        <5> QED
          BY <2>5, <3>3, <5>1, <5>2 DEF MadeOf
      <4>2. CASE s.name = "where" /\ s.from = "or"
        <5>1. Pipeline!Reads(s) = {"operation"}
          BY <4>2 DEF Pipeline!Reads
        <5>2. Pipeline!Flows(f[b], "operation") \subseteq Pipeline!Showable("operation")
          BY <2>4, StagesAreNamed
        <5> QED
          BY <4>1, <4>2, <5>1, <5>2 DEF Pipeline!Showable
      <4>3. CASE s.name = "reason_code" /\ s.from = "name" /\ Pipeline!SetOnce(p, "rc", {<<"json", "reason">>})
        <5>1. Pipeline!Reads(s) = {"rc"}
          BY <4>3 DEF Pipeline!Reads
        <5>2. Pipeline!Flows(f[b], "rc") \subseteq {"reason"}
          <6>1. "rc" \notin LOCAL_LABELS
            BY StagesAreNamed
          <6> HIDE DEF Fine
          <6> QED
            BY <4>3, <6>1, FedBy
        <5> QED
          BY <4>1, <4>3, <5>1, <5>2 DEF Pipeline!Showable
      <4>4. s.name # "n" /\ s.name # "ts"
        BY <4>1, StagesAreNamed
      <4>5. \/ s.name = "n" \/ s.name = "ts"
            \/ s.name = "where" /\ s.from = "or"
            \/ s.name = "reason_code" /\ s.from = "name" /\ Pipeline!SetOnce(p, "rc", {<<"json", "reason">>})
        <5> HIDE DEF Fine
        <5> QED
          BY <1>0, <2>5, <3>3, Templates
      <4> HIDE DEF s
      <4> QED
        BY <4>2, <4>3, <4>4, <4>5, Zenon
    <3>4. \/ s.op = "label_format"
          \/ s.op \in {"json", "logfmt", "regexp"}
          \/ k \notin Pipeline!Sets(p, label)
      BY DEF Pipeline!Sets
    <3> HIDE DEF s
    <3> QED
      BY <3>1, <3>2, <3>3, <3>4, Zenon
  <2> QED
    BY <2>1, <2>6 DEF Failing
<1>2. Fine(n)
  <2> HIDE DEF Fine
  <2> QED
    BY <1>1
<1> QED
  BY <1>2

\* What may be unwrapped is a vetted number, or nothing yet.
LEMMA OnlyNumbers ==
  ASSUME NEW p, NEW m, NEW f, Running(p, m, f), NEW label,
         Pipeline!SetOnce(p, label, Pipeline!Of(Pipeline!VETTED_UNWRAPS, label)), NEW k \in 0..m
  PROVE  Pipeline!Flows(f[k], label) \subseteq Pipeline!Numbers
<1> DEFINE hows == Pipeline!Of(Pipeline!VETTED_UNWRAPS, label)
<1>1. PICK j \in Pipeline!Sets(p, label) : Pipeline!Sets(p, label) = {j} /\ Pipeline!How(p[j]) \in hows
  BY DEF Pipeline!SetOnce
<1>2. j \in DOMAIN p /\ p[j].name = label /\ p[j].op \in {"json", "logfmt", "label_format", "regexp"}
  BY <1>1 DEF Pipeline!Sets
<1>3. Passed(p)
  BY DEF Running
<1>4. \/ label = "n" /\ Pipeline!How(p[j]) \in {<<"label_format", "n">>, <<"json", "tenants_failed">>, <<"regexp", "n">>}
      \/ label = "ts" /\ Pipeline!How(p[j]) \in {<<"label_format", "ts">>}
      \/ label = "d" /\ Pipeline!How(p[j]) \in {<<"json", "duration_ms">>}
  BY <1>1 DEF Pipeline!Of, Pipeline!VETTED_UNWRAPS
<1>5. label \notin LOCAL_LABELS /\ "f" \notin LOCAL_LABELS /\ "k" \notin LOCAL_LABELS
  BY <1>4, StagesAreNamed
<1>6. \/ Own(f[k], label)
      \/ \E b \in 0..m : b = j - 1 /\ j <= k /\ MadeOf(f[b], p[j], label, Pipeline!Flows(f[k], label))
  BY <1>1, <1>2, OneSets
<1>7. CASE Own(f[k], label)
  BY <1>5, <1>7 DEF Own
<1>8. ASSUME NEW b \in 0..m, MadeOf(f[b], p[j], label, Pipeline!Flows(f[k], label))
      PROVE  Pipeline!Flows(f[k], label) \subseteq Pipeline!Numbers
  <2>1. CASE p[j].op = "label_format"
    <3>0. Pipeline!Flows(f[k], label) = UNION {Pipeline!Flows(f[b], l) : l \in Pipeline!Reads(p[j])}
      BY <1>8, <2>1 DEF MadeOf
    <3>1. \/ p[j].from = "time"
          \/ /\ p[j].from = "add"
             /\ Pipeline!SetOnce(p, "f", {<<"json", "tenants_failed">>})
             /\ Pipeline!SetOnce(p, "k", {<<"json", "tenants_skipped">>})
      <4>1. label \in {"n", "ts", "d"}
        BY <1>4
      <4> HIDE DEF hows
      <4> QED
        BY <1>2, <1>3, <2>1, <4>1, Templates
    <3>2. CASE p[j].from = "time"
      <4>1. Pipeline!Reads(p[j]) = {}
        BY <3>2 DEF Pipeline!Reads
      <4> QED
        BY <3>0, <4>1
    <3>3. CASE p[j].from = "add" /\ Pipeline!SetOnce(p, "f", {<<"json", "tenants_failed">>})
               /\ Pipeline!SetOnce(p, "k", {<<"json", "tenants_skipped">>})
      <4>1. Pipeline!Reads(p[j]) = {"f", "k"}
        BY <3>3 DEF Pipeline!Reads
      <4>2. Pipeline!Flows(f[b], "f") \subseteq {"tenants_failed"}
        BY <1>5, <3>3, FedBy
      <4>3. Pipeline!Flows(f[b], "k") \subseteq {"tenants_skipped"}
        BY <1>5, <3>3, FedBy
      <4> QED
        BY <3>0, <4>1, <4>2, <4>3 DEF Pipeline!Numbers
    <3> QED
      BY <3>1, <3>2, <3>3
  <2>2. CASE p[j].op \in {"json", "logfmt"}
    <3>1. Pipeline!Flows(f[k], label) = {p[j].from}
      BY <1>8, <2>2 DEF MadeOf
    <3>2. p[j].from \in {"tenants_failed", "duration_ms"}
      BY <1>4, <2>2 DEF Pipeline!How
    <3> QED
      BY <3>1, <3>2 DEF Pipeline!Numbers
  <2>3. CASE p[j].op = "regexp"
    <3>1. Pipeline!Flows(f[k], label) = {"a counter"}
      BY <1>8, <2>3 DEF MadeOf
    <3> QED
      BY <3>1 DEF Pipeline!Numbers
  <2> QED
    BY <1>2, <2>1, <2>2, <2>3
<1> QED
  BY <1>6, <1>7, <1>8

-----------------------------------------------------------------------------
(* Pipelines: the walk over a query *)

\* An item that is this mark.
MarkAt(list, k, name) == Pipeline!Mark(list[k]) /\ list[k].name = name

\* The brackets of a pipeline that are open before an item is read.
OpenAt(cut, k) == {o \in DOMAIN cut.closes : o < k /\ k <= cut.closes[o]}

\* How many brackets are open, from one item of a pipeline to the next.
LEMMA OpenIs ==
  ASSUME NEW list, NEW written_as, NEW cut, IsCut(list, written_as, cut),
         NEW k \in cut.from..(cut.to - 1), NEW g, g = k + 1
  PROVE  LET here == Cardinality(OpenAt(cut, k)) IN
         /\ here \in Nat
         /\ Cardinality(OpenAt(cut, g)) =
              IF MarkAt(list, k, "(") THEN here + 1 ELSE IF MarkAt(list, k, ")") THEN here - 1 ELSE here
         /\ MarkAt(list, k, ")") \/ MarkAt(list, k, "[") => here > 0
<1> DEFINE inner == cut.from..(cut.to - 1)
           here == OpenAt(cut, k)
           next == OpenAt(cut, g)
<1>0. /\ cut.from \in Nat /\ cut.to \in Nat /\ k \in inner
      /\ DOMAIN cut.closes = {j \in inner : MarkAt(list, j, "(")}
      /\ \A o \in DOMAIN cut.closes : cut.closes[o] \in inner /\ o < cut.closes[o] /\ MarkAt(list, cut.closes[o], ")")
      /\ \A j, o \in DOMAIN cut.closes : cut.closes[j] = cut.closes[o] => j = o
      /\ MarkAt(list, k, ")") => \E j \in DOMAIN cut.closes : cut.closes[j] = k
      /\ MarkAt(list, k, "[") => \E j \in DOMAIN cut.closes : j < k /\ k < cut.closes[j]
  BY DEF IsCut, MarkAt
<1>1. IsFiniteSet(here) /\ Cardinality(here) \in Nat
  <2>1. here \subseteq inner
    BY <1>0 DEF OpenAt
  <2>2. IsFiniteSet(inner)
    <3>1. cut.from \in Int /\ cut.to - 1 \in Int
      BY <1>0
    <3> QED
      BY <3>1, FS_Interval
  <2>3. IsFiniteSet(here)
    BY <2>1, <2>2, FS_Subset
  <2> QED
    BY <2>3, FS_CardinalityType
<1>2. CASE MarkAt(list, k, "(")
  <2>1. ~MarkAt(list, k, ")") /\ ~MarkAt(list, k, "[")
    BY <1>2 DEF MarkAt
  <2>2. k \in DOMAIN cut.closes /\ k \notin here
    BY <1>0, <1>2 DEF OpenAt
  <2>3. next = here \cup {k}
    <3>1. ASSUME NEW o \in DOMAIN cut.closes PROVE o \in next <=> o \in here \/ o = k
      <4>1. cut.closes[o] # k /\ cut.closes[o] \in Nat /\ o \in Nat /\ o < cut.closes[o] /\ k \in Nat
        BY <1>0, <2>1
      <4> QED
        BY <4>1 DEF OpenAt
    <3> QED
      BY <2>2, <3>1 DEF OpenAt
  <2>4. Cardinality(next) = Cardinality(here) + 1
    BY <1>1, <2>2, <2>3, FS_AddElement
  <2> QED
    BY <1>1, <1>2, <2>1, <2>4
<1>3. CASE MarkAt(list, k, ")")
  <2>1. ~MarkAt(list, k, "(") /\ ~MarkAt(list, k, "[")
    BY <1>3 DEF MarkAt
  <2>2. PICK j \in DOMAIN cut.closes : cut.closes[j] = k
    BY <1>0, <1>3
  <2>3. j \in here
    BY <1>0, <2>2 DEF OpenAt
  <2>4. next = here \ {j}
    <3>1. ASSUME NEW o \in DOMAIN cut.closes PROVE o \in next <=> o \in here /\ o # j
      <4>1. cut.closes[o] \in Nat /\ o \in Nat /\ k \in Nat /\ o # k /\ (cut.closes[o] = k <=> o = j)
        BY <1>0, <2>1, <2>2
      <4> QED
        BY <4>1 DEF OpenAt
    <3> QED
      BY <3>1 DEF OpenAt
  <2>5. Cardinality(next) = Cardinality(here) - 1 /\ Cardinality(here) # 0
    <3>1. Cardinality(here \ {j}) = Cardinality(here) - 1
      BY <1>1, <2>3, FS_RemoveElement
    <3>2. Cardinality(here) # 0
      BY <1>1, <2>3, FS_EmptySet
    <3> QED
      BY <2>4, <3>1, <3>2
  <2> QED
    BY <1>1, <1>3, <2>1, <2>5
<1>4. CASE ~MarkAt(list, k, "(") /\ ~MarkAt(list, k, ")")
  <2>1. next = here
    <3>1. ASSUME NEW o \in DOMAIN cut.closes PROVE o \in next <=> o \in here
      <4>1. cut.closes[o] \in Nat /\ o \in Nat /\ k \in Nat /\ o # k /\ cut.closes[o] # k
        BY <1>0, <1>4
      <4> QED
        BY <4>1 DEF OpenAt
    <3> QED
      BY <3>1 DEF OpenAt
  <2>2. MarkAt(list, k, "[") => Cardinality(here) # 0
    <3>1. MarkAt(list, k, "[") => here # {}
      BY <1>0 DEF OpenAt
    <3> QED
      BY <1>1, <3>1, FS_EmptySet
  <2> QED
    BY <1>1, <1>4, <2>1, <2>2
<1> QED
  BY <1>2, <1>3, <1>4

\* None is before the first item and none behind the last.
LEMMA OpenAtEnds ==
  ASSUME NEW list, NEW written_as, NEW cut, IsCut(list, written_as, cut)
  PROVE  Cardinality(OpenAt(cut, cut.from)) = 0 /\ Cardinality(OpenAt(cut, cut.to)) = 0
<1> DEFINE inner == cut.from..(cut.to - 1)
<1>0. /\ cut.from \in Nat /\ cut.to \in Nat
      /\ DOMAIN cut.closes \subseteq inner
      /\ \A o \in DOMAIN cut.closes : cut.closes[o] \in inner
  BY DEF IsCut
<1>1. OpenAt(cut, cut.from) = {} /\ OpenAt(cut, cut.to) = {}
  BY <1>0 DEF OpenAt
<1> QED
  BY <1>1, FS_EmptySet

\* A query's pipelines, where they stand.
LEMMA TextIs ==
  ASSUME NEW t \in Texts
  PROVE  /\ Len(t.items) \in Nat /\ DOMAIN t.items = 1..Len(t.items)
         /\ Len(t.pipes) \in Nat /\ DOMAIN t.pipes = 1..Len(t.pipes) /\ IsList(t.pipes)
         /\ DOMAIN t.cuts = 1..Len(t.pipes)
         /\ \A k \in 1..Len(t.pipes) :
              /\ IsCut(t.items, t.pipes[k], t.cuts[k])
              /\ IsList(t.pipes[k]) /\ Len(t.pipes[k]) \in Nat /\ DOMAIN t.pipes[k] = 1..Len(t.pipes[k])
              /\ t.cuts[k].from \in Nat /\ t.cuts[k].to \in Nat /\ 1 < t.cuts[k].from
              /\ t.cuts[k].from <= t.cuts[k].to /\ t.cuts[k].to <= Len(t.items) + 1
         /\ \A j, k \in 1..Len(t.pipes) : j < k => t.cuts[j].to < t.cuts[k].from
         /\ \A k \in DOMAIN t.items : MarkAt(t.items, k, "{") =>
              \E j \in 1..Len(t.pipes) : t.cuts[j].from - 1 <= k /\ k < t.cuts[j].to
         /\ \A k \in 1..Len(t.pipes) : MarkAt(t.items, t.cuts[k].from - 1, "{")
<1> DEFINE cuts == t.cuts
<1>1. /\ IsList(t.items) /\ IsList(t.pipes) /\ IsList(cuts) /\ Len(cuts) = Len(t.pipes)
      /\ \A k \in DOMAIN cuts : IsList(t.pipes[k]) /\ IsCut(t.items, t.pipes[k], cuts[k])
      /\ \A j, k \in DOMAIN cuts : j < k => cuts[j].to < cuts[k].from
      /\ \A k \in DOMAIN t.items : MarkAt(t.items, k, "{") =>
           \E j \in DOMAIN cuts : cuts[j].from - 1 <= k /\ k < cuts[j].to
  BY TextsAreWritten DEF MarkAt
<1>2. ASSUME NEW s, IsList(s) PROVE Len(s) \in Nat /\ DOMAIN s = 1..Len(s)
  <2>1. PICK S : s \in Seq(S)
    BY <1>2 DEF IsList
  <2> QED
    BY <2>1
<1>3. DOMAIN cuts = 1..Len(t.pipes)
  BY <1>1, <1>2
<1>4. ASSUME NEW k \in DOMAIN cuts
      PROVE  /\ Len(t.pipes[k]) \in Nat /\ DOMAIN t.pipes[k] = 1..Len(t.pipes[k])
             /\ cuts[k].from \in Nat /\ cuts[k].to \in Nat /\ 1 < cuts[k].from
             /\ cuts[k].from <= cuts[k].to /\ cuts[k].to <= Len(t.items) + 1
             /\ MarkAt(t.items, cuts[k].from - 1, "{")
  <2>1. IsList(t.pipes[k]) /\ IsCut(t.items, t.pipes[k], cuts[k])
    BY <1>1
  <2> QED
    BY <1>2, <2>1 DEF IsCut, MarkAt
<1> HIDE DEF cuts
<1>5. Len(t.items) \in Nat /\ DOMAIN t.items = 1..Len(t.items) /\ Len(t.pipes) \in Nat /\ DOMAIN t.pipes = 1..Len(t.pipes)
  BY <1>1, <1>2
<1> QED
  BY <1>1, <1>3, <1>4, <1>5 DEF cuts

\* Outside a pipeline: those found lie behind, the others ahead.
Between(t, at, n) ==
  \A k \in 1..Len(t.pipes) : IF k <= n THEN t.cuts[k].to <= at ELSE at < t.cuts[k].from

\* Inside one: as many brackets are open as stand open there, and the stages
\* behind are the ones taken.
Reading(t, j, at, open, taken) ==
  LET cut == t.cuts[j]
      p == t.pipes[j]
  IN /\ at \in cut.from..cut.to /\ open = Cardinality(OpenAt(cut, at))
     /\ Len(taken) \in 0..Len(p) /\ taken = SubSeq(p, 1, Len(taken))
     /\ \A k \in DOMAIN p : cut.at[k] < at <=> k <= Len(taken)

\* Every stage of a pipeline may do what it does.
Judged(p) == \A k \in DOMAIN p : Pipeline!Allowed(p, p[k])

\* The walk, at any moment.
PipelineInv ==
  /\ text \in Texts /\ item \in 1..(Len(text.items) + 1)
  /\ depth \in -1..(item - 1) /\ Len(pipe) \in 0..(item - 1)
  /\ Len(pipes) \in 0..Len(text.pipes) /\ pipes = SubSeq(text.pipes, 1, Len(pipes))
  /\ depth = -1 => pipe = <<>> /\ Between(text, item, Len(pipes))
  /\ depth # -1 => \E j \in 1..Len(text.pipes) : j = Len(pipes) + 1 /\ Reading(text, j, item, depth, pipe)
  /\ judged \in 0..Len(pipes)
  /\ pipe_problems = {} => \A k \in 1..judged : Judged(text.pipes[k])

\* It holds before the first item.
LEMMA PipelineInit == Pipeline!Init => PipelineInv
<1> SUFFICES ASSUME Pipeline!Init PROVE PipelineInv
  OBVIOUS
<1>1. /\ text \in Texts /\ item = 1 /\ depth = -1 /\ pipe = <<>> /\ pipes = <<>>
      /\ pipe_problems = {} /\ judged = 0
  BY DEF Pipeline!Init
<1>2. Len(text.items) \in Nat /\ Len(text.pipes) \in Nat
  BY <1>1, TextIs
<1>3. Between(text, item, Len(pipes))
  <2>1. ASSUME NEW k \in 1..Len(text.pipes) PROVE 1 < text.cuts[k].from /\ ~(k <= 0)
    <3>1. 1 < text.cuts[k].from
      BY <1>1, TextIs
    <3> QED
      BY <1>2, <3>1
  <2> QED
    BY <1>1, <2>1 DEF Between
<1>4. pipes = SubSeq(text.pipes, 1, Len(pipes))
  <2>1. SubSeq(text.pipes, 1, 0) = <<>>
    BY SubSeqEmpty
  <2> QED
    BY <1>1, <2>1
<1> QED
  BY <1>1, <1>2, <1>3, <1>4 DEF PipelineInv

\* One more of a list.
LEMMA OnePipeMore ==
  ASSUME NEW s, IsList(s), NEW n \in 0..Len(s), NEW g \in 1..Len(s), g = n + 1
  PROVE  Append(SubSeq(s, 1, n), s[g]) = SubSeq(s, 1, g) /\ Len(SubSeq(s, 1, n)) = n
<1>1. PICK S : s \in Seq(S)
  BY DEF IsList
<1>2. Len(s) \in Nat /\ n = g - 1
  BY <1>1
<1>3. SubSeq(s, 1, g) = SubSeq(s, 1, g - 1) \o <<s[g]>>
  BY <1>1, <1>2, SubSeqRecursiveSecond
<1>4. SubSeq(s, 1, n) \in Seq(S) /\ Len(SubSeq(s, 1, n)) = n /\ s[g] \in S
  BY <1>1, <1>2
<1>5. SubSeq(s, 1, n) \o <<s[g]>> = Append(SubSeq(s, 1, n), s[g])
  BY <1>4
<1> QED
  BY <1>2, <1>3, <1>4, <1>5

\* Before its end a pipeline is read on, and no mark there ends it.
LEMMA ReadsOn ==
  ASSUME NEW t \in Texts, NEW j \in 1..Len(t.pipes), NEW at, NEW open, NEW taken,
         Reading(t, j, at, open, taken), at # t.cuts[j].to, NEW g, g = at + 1
  PROVE  /\ at \in DOMAIN t.items /\ open \in Nat
         /\ MarkAt(t.items, at, "[") \/ MarkAt(t.items, at, ")") => open # 0
         /\ Reading(t, j, g,
              IF MarkAt(t.items, at, "(") THEN open + 1 ELSE IF MarkAt(t.items, at, ")") THEN open - 1 ELSE open,
              IF Pipeline!Mark(t.items[at]) THEN taken ELSE Append(taken, t.items[at]))
<1> DEFINE cut == t.cuts[j]
           p == t.pipes[j]
           n == Len(taken)
           moved == IF Pipeline!Mark(t.items[at]) THEN taken ELSE Append(taken, t.items[at])
           left == IF MarkAt(t.items, at, "(") THEN open + 1 ELSE IF MarkAt(t.items, at, ")") THEN open - 1 ELSE open
<1>1. /\ IsCut(t.items, p, cut) /\ IsList(p) /\ Len(p) \in Nat /\ DOMAIN p = 1..Len(p)
      /\ cut.from \in Nat /\ cut.to \in Nat /\ 1 < cut.from /\ cut.to <= Len(t.items) + 1
      /\ Len(t.items) \in Nat /\ DOMAIN t.items = 1..Len(t.items)
  BY TextIs
<1>2. /\ at \in cut.from..cut.to /\ open = Cardinality(OpenAt(cut, at)) /\ n \in 0..Len(p)
      /\ taken = SubSeq(p, 1, n) /\ \A k \in DOMAIN p : cut.at[k] < at <=> k <= n
  BY DEF Reading
<1>3. at \in cut.from..(cut.to - 1) /\ at \in DOMAIN t.items /\ g \in cut.from..cut.to /\ at \in Nat
  BY <1>1, <1>2
<1>4. /\ open \in Nat /\ Cardinality(OpenAt(cut, g)) = left
      /\ MarkAt(t.items, at, "[") \/ MarkAt(t.items, at, ")") => open # 0
  BY <1>1, <1>2, <1>3, OpenIs
<1>5. /\ \A k \in DOMAIN p : cut.at[k] \in Nat
      /\ \A i, k \in DOMAIN p : i < k => cut.at[i] < cut.at[k]
      /\ \A k \in DOMAIN p : t.items[cut.at[k]] = p[k]
      /\ Pipeline!Mark(t.items[at]) <=> \A k \in DOMAIN p : cut.at[k] # at
  <2>1. /\ cut.at \in [DOMAIN p -> cut.from..(cut.to - 1)]
        /\ \A i, k \in DOMAIN p : i < k => cut.at[i] < cut.at[k]
        /\ \A k \in DOMAIN p : t.items[cut.at[k]] = p[k]
        /\ \A k \in cut.from..(cut.to - 1) : Pipeline!Mark(t.items[k]) <=> \A i \in DOMAIN p : cut.at[i] # k
    BY <1>1 DEF IsCut
  <2>2. \A k \in DOMAIN p : cut.at[k] \in Nat
    BY <1>1, <2>1
  <2> QED
    BY <1>3, <2>1, <2>2
<1>6. CASE Pipeline!Mark(t.items[at])
  <2>1. \A k \in DOMAIN p : cut.at[k] < g <=> cut.at[k] < at
    <3>1. ASSUME NEW k \in DOMAIN p PROVE cut.at[k] < g <=> cut.at[k] < at
      <4>1. cut.at[k] \in Nat /\ cut.at[k] # at
        BY <1>5, <1>6
      <4> QED
        BY <1>3, <4>1
    <3> QED
      BY <3>1
  <2> QED
    BY <1>2, <1>3, <1>4, <1>6, <2>1 DEF Reading
<1>7. CASE ~Pipeline!Mark(t.items[at])
  <2>1. PICK k \in DOMAIN p : cut.at[k] = at
    BY <1>5, <1>7
  <2>2. k \in 1..Len(p) /\ ~(k <= n)
    BY <1>1, <1>2, <1>3, <2>1
  <2>3. PICK h : h = n + 1
    OBVIOUS
  <2>4. h \in 1..Len(p) /\ h <= k /\ h \in DOMAIN p
    BY <1>1, <1>2, <2>2, <2>3
  <2>5. h = k
    <3>1. SUFFICES ASSUME h # k PROVE FALSE
      OBVIOUS
    <3>2. h < k
      BY <2>2, <2>4, <3>1
    <3>3. cut.at[h] < at
      BY <1>5, <2>1, <2>4, <3>2
    <3>4. h <= n
      BY <1>2, <2>4, <3>3
    <3> QED
      BY <1>2, <2>3, <3>4
  <2>6. t.items[at] = p[h]
    BY <1>5, <2>1, <2>5
  <2>7. Append(taken, t.items[at]) = SubSeq(p, 1, h) /\ n = Len(SubSeq(p, 1, n))
    <3> HIDE DEF p, n
    <3> QED
      BY <1>1, <1>2, <2>3, <2>4, <2>6, OnePipeMore
  <2>8. Len(SubSeq(p, 1, h)) = h
    BY <1>1, <2>4 DEF IsList
  <2>9. ASSUME NEW i \in DOMAIN p PROVE cut.at[i] < g <=> i <= h
    <3>1. cut.at[i] \in Nat /\ cut.at[h] = at /\ (cut.at[i] < at <=> i <= n)
      BY <1>2, <1>5, <2>1, <2>5
    <3>2. i > h => cut.at[h] < cut.at[i]
      BY <1>5, <2>4
    <3>3. i \in Nat /\ h \in Nat /\ n \in Nat
      BY <1>1, <1>2, <2>4
    <3> QED
      BY <1>3, <2>3, <3>1, <3>2, <3>3
  <2>10. moved = SubSeq(p, 1, h)
    BY <1>7, <2>7
  <2>11. Reading(t, j, g, left, moved)
    <3> HIDE DEF moved, left
    <3> QED
      BY <1>3, <1>4, <2>4, <2>8, <2>9, <2>10 DEF Reading
  <2> QED
    BY <1>3, <1>4, <2>11
<1> QED
  BY <1>6, <1>7

\* At its end all of it was taken, no bracket is open, and the next is ahead.
LEMMA ReadAll ==
  ASSUME NEW t \in Texts, NEW j \in 1..Len(t.pipes), NEW at, NEW open, NEW taken,
         Reading(t, j, at, open, taken), at = t.cuts[j].to
  PROVE  /\ open \in {0} /\ taken = t.pipes[j] /\ Between(t, at, j)
         /\ at \in DOMAIN t.items => MarkAt(t.items, at, "[") \/ MarkAt(t.items, at, ")")
<1> DEFINE cut == t.cuts[j]
           p == t.pipes[j]
           n == Len(taken)
<1>1. /\ IsCut(t.items, p, cut) /\ IsList(p) /\ Len(p) \in Nat /\ DOMAIN p = 1..Len(p)
      /\ cut.from \in Nat /\ cut.to \in Nat /\ Len(t.pipes) \in Nat
  BY TextIs
<1>2. /\ open = Cardinality(OpenAt(cut, at)) /\ n \in 0..Len(p)
      /\ taken = SubSeq(p, 1, n) /\ \A k \in DOMAIN p : cut.at[k] < at <=> k <= n
  BY DEF Reading
<1>3. open = 0
  BY <1>1, <1>2, OpenAtEnds
<1>4. n = Len(p)
  <2>1. CASE Len(p) = 0
    BY <1>2, <2>1
  <2>2. CASE Len(p) # 0
    <3>1. PICK k \in DOMAIN p : k = Len(p)
      BY <1>1, <2>2
    <3>2. cut.at[k] \in cut.from..(cut.to - 1)
      BY <1>1 DEF IsCut
    <3>3. cut.at[k] < at
      BY <1>1, <3>2
    <3> QED
      BY <1>1, <1>2, <3>1, <3>3
  <2> QED
    BY <2>1, <2>2
<1>5. taken = p
  <2>1. SubSeq(p, 1, Len(p)) = p
    BY <1>1, SubSeqFull DEF IsList
  <2> QED
    BY <1>2, <1>4, <2>1
<1>6. ASSUME NEW k \in 1..Len(t.pipes) PROVE IF k <= j THEN t.cuts[k].to <= at ELSE at < t.cuts[k].from
  <2>1. k < j => t.cuts[k].to < t.cuts[j].from
    BY TextIs
  <2>2. j < k => t.cuts[j].to < t.cuts[k].from
    BY TextIs
  <2>3. t.cuts[k].to \in Nat /\ t.cuts[j].from \in Nat /\ t.cuts[j].from <= t.cuts[j].to /\ t.cuts[k].from \in Nat
    BY TextIs
  <2> QED
    BY <1>1, <2>1, <2>2, <2>3
<1>7. at \in DOMAIN t.items => MarkAt(t.items, at, "[") \/ MarkAt(t.items, at, ")")
  BY <1>1 DEF IsCut, MarkAt
<1> QED
  BY <1>3, <1>5, <1>6, <1>7 DEF Between

\* Between two pipelines only a selector starts one, the next.
LEMMA ReadsBetween ==
  ASSUME NEW t \in Texts, NEW n \in 0..Len(t.pipes), NEW at \in DOMAIN t.items, Between(t, at, n),
         NEW g, g = at + 1
  PROVE  IF MarkAt(t.items, at, "{")
         THEN \E j \in 1..Len(t.pipes) : j = n + 1 /\ Reading(t, j, g, 0, <<>>)
         ELSE Between(t, g, n)
<1>1. Len(t.pipes) \in Nat /\ at \in Nat
  <2>1. Len(t.pipes) \in Nat /\ DOMAIN t.items = 1..Len(t.items)
    BY TextIs
  <2> QED
    BY <2>1
<1>2. \A k \in 1..Len(t.pipes) :
        /\ t.cuts[k].from \in Nat /\ t.cuts[k].to \in Nat /\ t.cuts[k].from <= t.cuts[k].to
        /\ IF k <= n THEN t.cuts[k].to <= at ELSE at < t.cuts[k].from
  <2>1. \A k \in 1..Len(t.pipes) : t.cuts[k].from \in Nat /\ t.cuts[k].to \in Nat /\ t.cuts[k].from <= t.cuts[k].to
    BY TextIs
  <2> QED
    BY <2>1 DEF Between
<1>3. CASE MarkAt(t.items, at, "{")
  <2>1. PICK j \in 1..Len(t.pipes) : t.cuts[j].from - 1 <= at /\ at < t.cuts[j].to
    BY <1>3, TextIs
  <2>2. ~(j <= n) /\ t.cuts[j].from = g
    BY <1>1, <1>2, <2>1
  <2>3. PICK h \in 1..Len(t.pipes) : h = n + 1
    BY <1>1, <2>1, <2>2
  <2>4. j = h
    <3>1. SUFFICES ASSUME h < j PROVE FALSE
      BY <2>1, <2>2, <2>3
    <3>2. t.cuts[h].to < t.cuts[j].from
      BY <3>1, TextIs
    <3>3. ~(h <= n)
      BY <2>3
    <3> QED
      BY <1>1, <1>2, <2>2, <3>2, <3>3
  <2>5. IsCut(t.items, t.pipes[j], t.cuts[j]) /\ DOMAIN t.pipes[j] = 1..Len(t.pipes[j]) /\ Len(t.pipes[j]) \in Nat
    BY TextIs
  <2>6. Cardinality(OpenAt(t.cuts[j], g)) = 0
    BY <2>2, <2>5, OpenAtEnds
  <2>7. ASSUME NEW k \in DOMAIN t.pipes[j] PROVE ~(t.cuts[j].at[k] < g) /\ ~(k <= 0)
    <3>1. t.cuts[j].at[k] \in t.cuts[j].from..(t.cuts[j].to - 1)
      BY <2>5 DEF IsCut
    <3> QED
      BY <1>2, <2>2, <2>5, <3>1
  <2>8. SubSeq(t.pipes[j], 1, 0) = <<>> /\ Len(<<>>) = 0
    BY SubSeqEmpty
  <2>9. g \in t.cuts[j].from..t.cuts[j].to
    BY <1>2, <2>2
  <2>10. Reading(t, j, g, 0, <<>>)
    BY <2>5, <2>6, <2>7, <2>8, <2>9 DEF Reading
  <2> QED
    BY <1>3, <2>3, <2>4, <2>10
<1>4. CASE ~MarkAt(t.items, at, "{")
  <2>1. ASSUME NEW k \in 1..Len(t.pipes) PROVE IF k <= n THEN t.cuts[k].to <= g ELSE g < t.cuts[k].from
    <3>1. CASE k <= n
      BY <1>1, <1>2, <3>1
    <3>2. CASE ~(k <= n)
      <4>1. t.cuts[k].from # g
        <5>1. SUFFICES ASSUME t.cuts[k].from = g PROVE FALSE
          OBVIOUS
        <5>2. t.cuts[k].from - 1 = at
          BY <1>1, <5>1
        <5>3. MarkAt(t.items, t.cuts[k].from - 1, "{")
          BY TextIs
        <5> QED
          BY <1>4, <5>2, <5>3
      <4> QED
        BY <1>1, <1>2, <3>2, <4>1
    <3> QED
      BY <3>1, <3>2
  <2> QED
    BY <1>4, <2>1 DEF Between
<1> QED
  BY <1>3, <1>4

\* What the walk's mark is.
LEMMA AtIs == ASSUME NEW name PROVE Pipeline!At(name) <=> MarkAt(text.items, item, name)
  BY DEF Pipeline!At, Pipeline!items, MarkAt

\* Every step of the walk and of the judging keeps it.
LEMMA PipelineOutside == PipelineInv /\ Pipeline!Outside => PipelineInv'
<1> SUFFICES ASSUME PipelineInv, Pipeline!Outside PROVE PipelineInv'
  OBVIOUS
<1>1. /\ item \in DOMAIN text.items /\ depth = -1 /\ item' = item + 1
      /\ depth' = IF MarkAt(text.items, item, "{") THEN 0 ELSE depth
      /\ text' = text /\ pipe' = pipe /\ pipes' = pipes /\ pipe_problems' = pipe_problems /\ judged' = judged
  BY AtIs DEF Pipeline!Outside, Pipeline!items
<1>2. /\ text \in Texts /\ Len(pipes) \in 0..Len(text.pipes) /\ pipe = <<>> /\ Between(text, item, Len(pipes))
      /\ item \in 1..(Len(text.items) + 1) /\ judged \in 0..Len(pipes) /\ pipes = SubSeq(text.pipes, 1, Len(pipes))
      /\ pipe_problems = {} => \A k \in 1..judged : Judged(text.pipes[k])
  BY <1>1 DEF PipelineInv
<1>3. Len(text.items) \in Nat /\ DOMAIN text.items = 1..Len(text.items) /\ Len(<<>>) = 0
  BY <1>2, TextIs
<1>4. IF MarkAt(text.items, item, "{")
      THEN \E j \in 1..Len(text.pipes) : j = Len(pipes) + 1 /\ Reading(text, j, item', 0, <<>>)
      ELSE Between(text, item', Len(pipes))
  BY <1>1, <1>2, ReadsBetween
<1>5. item' \in 1..(Len(text.items) + 1) /\ 0 \in 0..(item' - 1) /\ {-1, 0} \subseteq -1..(item' - 1) /\ Len(pipe') = 0
  <2>1. PICK g : g = item'
    OBVIOUS
  <2>2. item \in 1..Len(text.items) /\ g = item + 1
    BY <1>1, <1>3, <2>1
  <2>3. g \in 1..(Len(text.items) + 1) /\ 0 \in 0..(g - 1) /\ {-1, 0} \subseteq -1..(g - 1)
    BY <1>3, <2>2
  <2>4. Len(pipe') = 0
    BY <1>1, <1>2, <1>3
  <2> QED
    BY <2>1, <2>3, <2>4
<1>6. CASE MarkAt(text.items, item, "{")
  <2>1. depth' = 0
    BY <1>1, <1>6, Zenon
  <2>2. 0 # -1
    OBVIOUS
  <2> QED
    BY <1>1, <1>2, <1>4, <1>5, <1>6, <2>1, <2>2 DEF PipelineInv
<1>7. CASE ~MarkAt(text.items, item, "{")
  <2>1. depth' = -1
    BY <1>1, <1>7
  <2> QED
    BY <1>1, <1>2, <1>4, <1>5, <1>7, <2>1 DEF PipelineInv
<1> QED
  BY <1>6, <1>7

\* A pipeline is taken when all of it was read.
LEMMA PipelineTaken ==
  ASSUME PipelineInv, NEW j \in 1..Len(text.pipes), j = Len(pipes) + 1, Reading(text, j, item, depth, pipe),
         item = text.cuts[j].to, Pipeline!Take, UNCHANGED <<text, item, pipe_problems, judged>>
  PROVE  PipelineInv'
<1>1. /\ pipes' = Append(pipes, pipe) /\ pipe' = <<>> /\ depth' = -1
      /\ text' = text /\ item' = item /\ pipe_problems' = pipe_problems /\ judged' = judged
  BY DEF Pipeline!Take
<1>2. /\ text \in Texts /\ Len(pipes) \in 0..Len(text.pipes)
      /\ item \in 1..(Len(text.items) + 1) /\ judged \in 0..Len(pipes) /\ pipes = SubSeq(text.pipes, 1, Len(pipes))
      /\ pipe_problems = {} => \A k \in 1..judged : Judged(text.pipes[k])
  BY DEF PipelineInv
<1>3. pipe = text.pipes[j] /\ Between(text, item, j)
  BY <1>2, ReadAll
<1>4. IsList(text.pipes) /\ Len(text.pipes) \in Nat
  BY <1>2, TextIs
<1>5. pipes' = SubSeq(text.pipes, 1, j)
  BY <1>1, <1>2, <1>3, <1>4, OnePipeMore
<1>6. Len(pipes') = j
  BY <1>4, <1>5 DEF IsList
<1>7. j \in 0..Len(text.pipes) /\ judged' \in 0..j /\ Len(pipe') = 0 /\ depth' \in -1..(item' - 1) /\ 0 \in 0..(item' - 1)
  BY <1>1, <1>2, <1>4
<1> QED
  BY <1>1, <1>2, <1>3, <1>5, <1>6, <1>7 DEF PipelineInv

\* Inside a pipeline an item is read, or the pipeline is taken.
LEMMA PipelineInside == PipelineInv /\ Pipeline!Inside => PipelineInv'
<1> SUFFICES ASSUME PipelineInv, Pipeline!Inside PROVE PipelineInv'
  OBVIOUS
<1> DEFINE ends == depth = 0 /\ (MarkAt(text.items, item, "[") \/ MarkAt(text.items, item, ")"))
           left == IF MarkAt(text.items, item, "(") THEN depth + 1
                   ELSE IF MarkAt(text.items, item, ")") THEN depth - 1 ELSE depth
           moved == IF Pipeline!Mark(text.items[item]) THEN pipe ELSE Append(pipe, text.items[item])
<1>1. /\ item \in DOMAIN text.items /\ depth >= 0
      /\ text' = text /\ pipe_problems' = pipe_problems /\ judged' = judged
      /\ IF ends THEN Pipeline!Take /\ item' = item
         ELSE item' = item + 1 /\ depth' = left /\ pipe' = moved /\ pipes' = pipes
  BY AtIs DEF Pipeline!Inside, Pipeline!items, Pipeline!Ends
<1>2. /\ text \in Texts /\ Len(pipes) \in 0..Len(text.pipes) /\ Len(pipe) \in 0..(item - 1) /\ depth \in -1..(item - 1)
      /\ item \in 1..(Len(text.items) + 1) /\ judged \in 0..Len(pipes) /\ pipes = SubSeq(text.pipes, 1, Len(pipes))
      /\ pipe_problems = {} => \A k \in 1..judged : Judged(text.pipes[k])
  BY DEF PipelineInv
<1>3. depth # -1
  BY <1>1
<1>4. PICK j \in 1..Len(text.pipes) : j = Len(pipes) + 1 /\ Reading(text, j, item, depth, pipe)
  BY <1>3 DEF PipelineInv
<1>5. CASE item = text.cuts[j].to
  <2>1. ends
    <3>1. text \in Texts
      BY <1>2
    <3>2. depth \in {0} /\ (item \in DOMAIN text.items => MarkAt(text.items, item, "[") \/ MarkAt(text.items, item, ")"))
      BY <1>4, <1>5, <3>1, ReadAll
    <3> QED
      BY <1>1, <3>2
  <2> HIDE DEF ends
  <2> QED
    BY <1>1, <1>4, <1>5, <2>1, PipelineTaken
<1>6. CASE item # text.cuts[j].to
  <2>1. PICK g : g = item + 1
    OBVIOUS
  <2>2. /\ depth \in Nat /\ (MarkAt(text.items, item, "[") \/ MarkAt(text.items, item, ")") => depth # 0)
        /\ Reading(text, j, g, left, moved)
    BY <1>2, <1>4, <1>6, <2>1, ReadsOn
  <2>3. ~ends /\ item' = g /\ depth' = left /\ pipe' = moved /\ pipes' = pipes
    BY <1>1, <2>1, <2>2
  <2>4. left \in Nat /\ left <= depth + 1
    BY <2>2
  <2>5. Len(moved) \in 0..(g - 1)
    <3>1. CASE Pipeline!Mark(text.items[item])
      BY <1>2, <2>1, <3>1
    <3>2. CASE ~Pipeline!Mark(text.items[item])
      <4>1. IsList(text.pipes[j]) /\ pipe = SubSeq(text.pipes[j], 1, Len(pipe)) /\ Len(pipe) \in 0..Len(text.pipes[j])
        BY <1>2, <1>4, TextIs DEF Reading
      <4>2. PICK S : text.pipes[j] \in Seq(S)
        BY <4>1 DEF IsList
      <4>3. SubSeq(text.pipes[j], 1, Len(pipe)) \in Seq(S)
        BY <4>1, <4>2
      <4>4. pipe \in Seq(S)
        BY <4>1, <4>3
      <4>5. Len(Append(pipe, text.items[item])) = Len(pipe) + 1
        BY <4>4
      <4> QED
        BY <1>2, <2>1, <3>2, <4>5
    <3> QED
      BY <3>1, <3>2
  <2>6. Len(text.items) \in Nat /\ DOMAIN text.items = 1..Len(text.items)
    BY <1>2, TextIs
  <2> HIDE DEF ends, left, moved
  <2>7. g \in 1..(Len(text.items) + 1) /\ left \in -1..(g - 1) /\ left # -1
    BY <1>1, <1>2, <2>1, <2>2, <2>4, <2>6
  <2> QED
    BY <1>1, <1>2, <1>4, <2>2, <2>3, <2>5, <2>7 DEF PipelineInv
<1> QED
  BY <1>5, <1>6

\* The text's end takes the last one.
LEMMA PipelineEnd == PipelineInv /\ Pipeline!EndInside => PipelineInv'
<1> SUFFICES ASSUME PipelineInv, Pipeline!EndInside PROVE PipelineInv'
  OBVIOUS
<1>1. item \notin DOMAIN text.items /\ depth >= 0 /\ Pipeline!Take /\ UNCHANGED <<text, item, pipe_problems, judged>>
  BY DEF Pipeline!EndInside, Pipeline!items
<1>2. text \in Texts /\ depth # -1
  BY <1>1 DEF PipelineInv
<1>3. PICK j \in 1..Len(text.pipes) : j = Len(pipes) + 1 /\ Reading(text, j, item, depth, pipe)
  BY <1>2 DEF PipelineInv
<1>4. item = text.cuts[j].to
  BY <1>1, <1>2, <1>3, ReadsOn
<1> QED
  BY <1>1, <1>3, <1>4, PipelineTaken

\* The pipelines are judged one by one.
LEMMA PipelineJudge == PipelineInv /\ Pipeline!Judge => PipelineInv'
<1> SUFFICES ASSUME PipelineInv, Pipeline!Judge PROVE PipelineInv'
  OBVIOUS
<1>1. /\ judged < Len(pipes) /\ judged' = judged + 1
      /\ text' = text /\ item' = item /\ depth' = depth /\ pipe' = pipe /\ pipes' = pipes
      /\ LET p == pipes[judged + 1] IN
           pipe_problems' = pipe_problems \cup {s \in Pipeline!ToSet(p) : ~Pipeline!Allowed(p, s)}
  BY DEF Pipeline!Judge
<1>2. /\ text \in Texts /\ Len(pipes) \in 0..Len(text.pipes) /\ judged \in 0..Len(pipes)
      /\ pipes = SubSeq(text.pipes, 1, Len(pipes))
      /\ pipe_problems = {} => \A k \in 1..judged : Judged(text.pipes[k])
  BY DEF PipelineInv
<1>3. PICK g : g = judged + 1
  OBVIOUS
<1>4. IsList(text.pipes) /\ Len(text.pipes) \in Nat
  BY <1>2, TextIs
<1>5. g \in 1..Len(pipes) /\ judged' = g /\ g \in 0..Len(pipes)
  BY <1>1, <1>2, <1>3
<1>6. pipes[g] = text.pipes[g]
  BY <1>2, <1>4, <1>5 DEF IsList
<1>7. ASSUME pipe_problems' = {} PROVE \A k \in 1..g : Judged(text.pipes[k])
  <2>1. pipe_problems = {} /\ \A s \in Pipeline!ToSet(text.pipes[g]) : Pipeline!Allowed(text.pipes[g], s)
    BY <1>1, <1>3, <1>6, <1>7
  <2>2. Judged(text.pipes[g])
    BY <2>1 DEF Judged, Pipeline!ToSet
  <2>3. \A k \in 1..g : k \in 1..judged \/ k = g
    BY <1>2, <1>3
  <2> QED
    BY <1>2, <2>1, <2>2, <2>3
<1> QED
  BY <1>1, <1>2, <1>5, <1>7 DEF PipelineInv

\* No step leaves the invariant.
LEMMA PipelineStep == PipelineInv /\ [Pipeline!Next]_pipeline_vars => PipelineInv'
<1> SUFFICES ASSUME PipelineInv, [Pipeline!Next]_pipeline_vars PROVE PipelineInv'
  OBVIOUS
<1>1. CASE UNCHANGED pipeline_vars
  BY <1>1 DEF PipelineInv, pipeline_vars
<1> QED
  BY <1>1, PipelineOutside, PipelineInside, PipelineEnd, PipelineJudge DEF Pipeline!Next

\* A pipeline all of whose stages may do what they do passes.
LEMMA JudgedPasses ==
  ASSUME NEW t \in Texts, NEW j \in 1..Len(t.pipes), Judged(t.pipes[j])
  PROVE  Passed(t.pipes[j])
<1> DEFINE p == t.pipes[j]
<1>1. ASSUME NEW k \in DOMAIN p
      PROVE  /\ Pipeline!Allowed(p, p[k])
             /\ p[k].op \in {"json", "logfmt", "regexp", "label_format", "unwrap"}
             /\ p[k].op = "regexp" => p[k].name = "n" /\ p[k].from = "connectors"
  <2>1. Pipeline!Allowed(p, p[k])
    BY DEF Judged
  <2>2. j \in DOMAIN t.pipes
    BY TextIs
  <2>3. /\ p[k].op \in {"json", "logfmt", "regexp", "label_format", "line_format", "pattern", "unwrap"}
        /\ p[k].op = "regexp" /\ p[k].from \in Pipeline!VETTED_REGEXPS => p[k].name = "n"
    BY <2>2, StagesAreNamed
  <2> DEFINE s == p[k]
  <2>4. ASSUME Pipeline!Allowed(p, s)
        PROVE  s.op \notin {"line_format", "pattern"} /\ (s.op = "regexp" => s.from \in Pipeline!VETTED_REGEXPS)
    <3> HIDE DEF s
    <3> QED
      BY <2>4 DEF Pipeline!Allowed
  <2> QED
    BY <2>1, <2>3, <2>4 DEF Pipeline!VETTED_REGEXPS
<1> QED
  BY <1>1 DEF Passed

\* Run over a line, nothing but its own or a vetted field gets into a label,
\* nor anything but a number is unwrapped.
LEMMA PassedIsSafe ==
  ASSUME NEW t \in Texts, NEW j \in 1..Len(t.pipes), Passed(t.pipes[j])
  PROVE  LET p == t.pipes[j] IN
         /\ \A label \in LOCAL_LABELS : Pipeline!Flows(Pipeline!Run(p), label) \subseteq Pipeline!Showable(label)
         /\ \A s \in DOMAIN p : p[s].op = "unwrap" =>
              Pipeline!Flows(Pipeline!Run(SubSeq(p, 1, s - 1)), p[s].name) \subseteq Pipeline!Numbers
<1> DEFINE p == t.pipes[j]
<1>0. IsList(p) /\ Len(p) \in Nat /\ DOMAIN p = 1..Len(p)
  BY TextIs
<1>1. ASSUME NEW label \in LOCAL_LABELS
      PROVE  Pipeline!Flows(Pipeline!Run(p), label) \subseteq Pipeline!Showable(label)
  <2> HIDE DEF p
  <2>1. PICK f : Ran(p, f, Len(p)) /\ Pipeline!Run(p) = f[Len(p)]
    BY <1>0, RunIs
  <2>2. PICK m \in 0..Len(p) : m = Len(p)
    BY <1>0
  <2>3. Running(p, m, f)
    BY <1>0, <2>1, <2>2 DEF Running, p
  <2>4. m \in 0..m
    BY <1>0, <2>2
  <2>5. Pipeline!Flows(f[m], label) \subseteq Pipeline!Showable(label)
    BY <2>3, <2>4, ShowsItsOwn
  <2> QED
    BY <2>1, <2>2, <2>5
<1>2. ASSUME NEW s \in DOMAIN p, p[s].op = "unwrap"
      PROVE  Pipeline!Flows(Pipeline!Run(SubSeq(p, 1, s - 1)), p[s].name) \subseteq Pipeline!Numbers
  <2>0. Passed(p)
    OBVIOUS
  <2> HIDE DEF p
  <2>1. PICK m \in 0..Len(p) : m = s - 1
    BY <1>0
  <2> DEFINE q == SubSeq(p, 1, m)
  <2>2. Len(q) = m /\ \A k \in 1..m : q[k] = p[k]
    BY <1>0, <2>1 DEF IsList
  <2>3. m \in Nat /\ 1..m \subseteq DOMAIN p
    BY <1>0, <2>1
  <2> HIDE DEF q
  <2>4. PICK f : Ran(q, f, Len(q)) /\ Pipeline!Run(q) = f[Len(q)]
    BY <2>2, <2>3, RunIs
  <2>5. Ran(p, f, m)
    BY <2>2, <2>4 DEF Ran
  <2>6. Running(p, m, f)
    BY <1>0, <2>0, <2>3, <2>5 DEF Running
  <2>7. Pipeline!SetOnce(p, p[s].name, Pipeline!Of(Pipeline!VETTED_UNWRAPS, p[s].name))
    <3>1. Pipeline!Allowed(p, p[s])
      BY <2>0 DEF Passed
    <3> DEFINE t1 == p[s]
    <3>2. ASSUME Pipeline!Allowed(p, t1), t1.op = "unwrap"
          PROVE  Pipeline!SetOnce(p, t1.name, Pipeline!Of(Pipeline!VETTED_UNWRAPS, t1.name))
      <4> HIDE DEF t1
      <4> QED
        BY <3>2 DEF Pipeline!Allowed
    <3> QED
      BY <1>2, <3>1, <3>2
  <2>8. m \in 0..m
    BY <2>3
  <2>9. Pipeline!Flows(f[m], p[s].name) \subseteq Pipeline!Numbers
    BY <2>6, <2>7, <2>8, OnlyNumbers
  <2> QED
    BY <2>1, <2>2, <2>4, <2>9 DEF q
<1> QED
  BY <1>1, <1>2

\* What it promises holds all along.
LEMMA PipelineSafe == PipelineInv => Pipeline!Safe
<1> SUFFICES ASSUME PipelineInv PROVE Pipeline!Safe
  OBVIOUS
<1>1. /\ text \in Texts /\ item \in 1..(Len(text.items) + 1)
      /\ depth \in -1..(item - 1) /\ Len(pipe) \in 0..(item - 1)
      /\ Len(pipes) \in 0..Len(text.pipes) /\ pipes = SubSeq(text.pipes, 1, Len(pipes))
      /\ depth = -1 => Between(text, item, Len(pipes))
      /\ judged \in 0..Len(pipes)
      /\ pipe_problems = {} => \A k \in 1..judged : Judged(text.pipes[k])
  BY DEF PipelineInv
<1>2. /\ Len(text.items) \in Nat /\ DOMAIN text.items = 1..Len(text.items) /\ Len(text.pipes) \in Nat
      /\ DOMAIN text.pipes = 1..Len(text.pipes) /\ IsList(text.pipes)
      /\ \A k \in 1..Len(text.pipes) : /\ text.cuts[k].from \in Nat /\ text.cuts[k].from <= text.cuts[k].to
                                       /\ text.cuts[k].to \in Nat /\ text.cuts[k].to <= Len(text.items) + 1
  BY <1>1, TextIs
<1>3. ASSUME Pipeline!Done PROVE pipes = text.pipes /\ judged = Len(text.pipes)
  <2>1. item = Len(text.items) + 1 /\ depth = -1 /\ judged = Len(pipes)
    BY <1>1, <1>2, <1>3 DEF Pipeline!Done, Pipeline!items
  <2>2. Len(pipes) = Len(text.pipes)
    <3> SUFFICES ASSUME Len(pipes) # Len(text.pipes) PROVE FALSE
      OBVIOUS
    <3>1. PICK k \in 1..Len(text.pipes) : k = Len(pipes) + 1
      BY <1>1, <1>2
    <3>2. item < text.cuts[k].from
      BY <1>1, <1>2, <2>1, <3>1 DEF Between
    <3>3. /\ text.cuts[k].from \in Nat /\ text.cuts[k].to \in Nat
          /\ text.cuts[k].from <= text.cuts[k].to /\ text.cuts[k].to <= Len(text.items) + 1
      BY <1>2
    <3> QED
      BY <1>2, <2>1, <3>2, <3>3
  <2>3. SubSeq(text.pipes, 1, Len(text.pipes)) = text.pipes
    BY <1>2, SubSeqFull DEF IsList
  <2> QED
    BY <1>1, <2>1, <2>2, <2>3
<1>4. Pipeline!TypeOK
  <2>1. Pipeline!IsPrefix(pipes, text.pipes)
    BY <1>1, <1>2 DEF Pipeline!IsPrefix, IsList
  <2>2. depth \in -1..Len(text.items) /\ Len(pipe) < item
    BY <1>1, <1>2
  <2> QED
    BY <1>1, <2>1, <2>2 DEF Pipeline!TypeOK, Pipeline!items
<1>5. ASSUME Pipeline!Done, pipe_problems = {}, NEW k \in DOMAIN text.pipes PROVE k \in 1..Len(text.pipes) /\ Passed(text.pipes[k])
  BY <1>1, <1>2, <1>3, <1>5, JudgedPasses
<1>6. Pipeline!NothingCopied
  BY <1>1, <1>5, PassedIsSafe DEF Pipeline!NothingCopied
<1>7. Pipeline!OnlyNumbersCharted
  BY <1>1, <1>5, PassedIsSafe DEF Pipeline!OnlyNumbersCharted
<1> QED
  BY <1>3, <1>4, <1>6, <1>7 DEF Pipeline!Safe, Pipeline!CutAsWritten

-----------------------------------------------------------------------------
(* Queries: brackets *)

\* A list and one element more.
LEMMA AppendIs ==
  ASSUME NEW s, IsList(s), NEW one
  PROVE  /\ IsList(Append(s, one)) /\ Len(s) \in Nat /\ DOMAIN s = 1..Len(s)
         /\ Len(Append(s, one)) = Len(s) + 1 /\ DOMAIN Append(s, one) = 1..(Len(s) + 1)
         /\ Append(s, one)[Len(s) + 1] = one
         /\ \A a \in DOMAIN s : Append(s, one)[a] = s[a]
<1> DEFINE S == {s[k] : k \in DOMAIN s} \cup {one}
           t == Append(s, one)
<1>1. s \in Seq(S) /\ one \in S
  <2>1. s \in Seq({s[k] : k \in DOMAIN s})
    BY DEF IsList
  <2> QED
    BY <2>1
<1> HIDE DEF S
<1>2. t \in Seq(S) /\ Len(t) = Len(s) + 1 /\ Len(s) \in Nat /\ DOMAIN s = 1..Len(s) /\ DOMAIN t = 1..(Len(s) + 1)
      /\ t[Len(s) + 1] = one /\ \A a \in DOMAIN s : t[a] = s[a]
  BY <1>1
<1>3. t \in Seq({t[k] : k \in DOMAIN t})
  BY <1>2
<1> QED
  BY <1>2, <1>3 DEF IsList

\* A list but its last.
LEMMA FrontIs ==
  ASSUME NEW s, IsList(s), s # <<>>
  PROVE  /\ IsList(Query!Front(s)) /\ Len(s) \in Nat \ {0} /\ DOMAIN s = 1..Len(s)
         /\ Len(Query!Front(s)) = Len(s) - 1 /\ DOMAIN Query!Front(s) = 1..(Len(s) - 1)
         /\ \A a \in 1..(Len(s) - 1) : Query!Front(s)[a] = s[a]
         /\ Query!Last(s) = s[Len(s)]
<1> DEFINE S == {s[k] : k \in DOMAIN s}
           t == SubSeq(s, 1, Len(s) - 1)
<1>1. s \in Seq(S)
  BY DEF IsList
<1> HIDE DEF S
<1>2. Len(s) \in Nat \ {0} /\ DOMAIN s = 1..Len(s)
  BY <1>1
<1>3. t \in Seq(S) /\ Len(t) = Len(s) - 1 /\ DOMAIN t = 1..(Len(s) - 1) /\ \A a \in 1..(Len(s) - 1) : t[a] = s[a]
  BY <1>1, <1>2
<1>4. t \in Seq({t[k] : k \in DOMAIN t})
  <2> HIDE DEF t
  <2> QED
    BY <1>2, <1>3
<1>5. Query!Front(s) = t /\ Query!Last(s) = s[Len(s)]
  BY DEF Query!Front, Query!Last
<1> HIDE DEF t
<1> QED
  BY <1>2, <1>3, <1>4, <1>5 DEF IsList

\* What a list's length and domain are.
LEMMA ListIs == ASSUME NEW s, IsList(s) PROVE Len(s) \in Nat /\ DOMAIN s = 1..Len(s)
<1>1. PICK S : s \in Seq(S)
  BY DEF IsList
<1> QED
  BY <1>1

\* A mark is that token and no other.
LEMMA MarkIs ==
  ASSUME NEW q, NEW k, NEW mark, Query!MarkAt(q, k, mark)
  PROVE  /\ k \in DOMAIN q.tokens /\ q.tokens[k] = <<"mark", mark>> /\ q.tokens[k][1] = "mark"
         /\ q.tokens[k][2] = mark /\ ~Query!WordAt(q, k) /\ Query!TextAt(q, k) = mark
         /\ \A other : Query!MarkAt(q, k, other) => other = mark
<1>1. k \in DOMAIN q.tokens /\ q.tokens[k] = <<"mark", mark>>
  BY DEF Query!MarkAt, Query!Is
<1>2. q.tokens[k][1] = "mark" /\ q.tokens[k][2] = mark
  BY <1>1
<1>3. ~Query!WordAt(q, k) /\ Query!TextAt(q, k) = mark
  BY <1>1, <1>2 DEF Query!WordAt, Query!IsName, Query!TextAt, Query!Text
<1>4. ASSUME NEW other, Query!MarkAt(q, k, other) PROVE other = mark
  <2>1. q.tokens[k] = <<"mark", other>>
    BY <1>4 DEF Query!MarkAt, Query!Is
  <2>2. q.tokens[k][2] = other
    BY <2>1
  <2> QED
    BY <1>2, <2>2
<1> QED
  BY <1>1, <1>2, <1>3, <1>4

\* Which marks open and which close, and what a closing one closes.
Opening(q, k) == \E m \in {"(", "{", "["} : Query!MarkAt(q, k, m)
Closing(q, k) == \E m \in {")", "}", "]"} : Query!MarkAt(q, k, m)
Pair(q, o, k) == \/ Query!MarkAt(q, o, "(") /\ Query!MarkAt(q, k, ")")
                 \/ Query!MarkAt(q, o, "{") /\ Query!MarkAt(q, k, "}")
                 \/ Query!MarkAt(q, o, "[") /\ Query!MarkAt(q, k, "]")

\* Brackets come out even, one inside the other.
LEMMA BracketsAre ==
  ASSUME NEW q \in Queries
  PROVE  /\ Len(q.tokens) \in Nat /\ DOMAIN q.tokens = 1..Len(q.tokens) /\ IsList(q.tokens)
         /\ \A k : k \in DOMAIN q.closes <=> Opening(q, k)
         /\ \A o \in DOMAIN q.closes : /\ o \in 1..Len(q.tokens) /\ q.closes[o] \in 1..Len(q.tokens)
                                       /\ o < q.closes[o] /\ Pair(q, o, q.closes[o])
         /\ \A o, p \in DOMAIN q.closes : q.closes[o] = q.closes[p] => o = p
         /\ \A o, p \in DOMAIN q.closes : o < p /\ p < q.closes[o] => q.closes[p] < q.closes[o]
         /\ \A k : Closing(q, k) => \E o \in DOMAIN q.closes : q.closes[o] = k
         /\ \A k : Closing(q, k) => k \notin DOMAIN q.closes
<1>1. IsList(q.tokens) /\ Query!Balanced(q)
  BY QueriesAreTrees
<1>2. Len(q.tokens) \in Nat /\ DOMAIN q.tokens = 1..Len(q.tokens)
  BY <1>1, ListIs
<1>3. ASSUME NEW k PROVE Opening(q, k) => k \in DOMAIN q.tokens
  BY DEF Opening, Query!MarkAt
<1>4. ASSUME NEW k PROVE Closing(q, k) => k \in DOMAIN q.tokens
  BY DEF Closing, Query!MarkAt
<1>5. /\ DOMAIN q.closes = {k \in DOMAIN q.tokens : Opening(q, k)}
      /\ \A o \in DOMAIN q.closes : o < q.closes[o] /\ Pair(q, o, q.closes[o])
      /\ \A o, p \in DOMAIN q.closes : q.closes[o] = q.closes[p] => o = p
      /\ \A o, p \in DOMAIN q.closes : o < p /\ p < q.closes[o] => q.closes[p] < q.closes[o]
      /\ \A k \in DOMAIN q.tokens : Closing(q, k) => \E o \in DOMAIN q.closes : q.closes[o] = k
  BY <1>1 DEF Query!Balanced, Opening, Closing, Pair
<1>6. ASSUME NEW o \in DOMAIN q.closes PROVE o \in 1..Len(q.tokens) /\ q.closes[o] \in 1..Len(q.tokens)
  <2>1. Pair(q, o, q.closes[o])
    BY <1>5
  <2>2. o \in DOMAIN q.tokens /\ q.closes[o] \in DOMAIN q.tokens
    BY <2>1, MarkIs DEF Pair
  <2> QED
    BY <1>2, <2>2
<1>7. ASSUME NEW k, Closing(q, k), Opening(q, k) PROVE FALSE
  <2>1. PICK m \in {")", "}", "]"} : Query!MarkAt(q, k, m)
    BY <1>7 DEF Closing
  <2>2. PICK n \in {"(", "{", "["} : Query!MarkAt(q, k, n)
    BY <1>7 DEF Opening
  <2>3. m = n
    BY <2>1, <2>2, MarkIs
  <2> QED
    BY <2>3
<1>8. \A k : k \in DOMAIN q.closes <=> Opening(q, k)
  BY <1>3, <1>5
<1>9. \A k : Closing(q, k) => \E o \in DOMAIN q.closes : q.closes[o] = k
  BY <1>4, <1>5
<1>10. \A k : Closing(q, k) => k \notin DOMAIN q.closes
  BY <1>7, <1>8
<1> QED
  BY <1>1, <1>2, <1>5, <1>6, <1>8, <1>9, <1>10

\* What is around a token, from each to the next.
LEMMA OpensHere ==
  ASSUME NEW q \in Queries, NEW k \in DOMAIN q.closes, NEW g, g = k + 1
  PROVE  Query!Around(q, g) = Query!Around(q, k) \cup {k} /\ k \notin Query!Around(q, k)
<1>1. ASSUME NEW o \in DOMAIN q.closes PROVE o \in Query!Around(q, g) <=> o \in Query!Around(q, k) \/ o = k
  <2>1. o \in Nat /\ q.closes[o] \in Nat /\ k \in Nat /\ q.closes[o] # k /\ o < q.closes[o]
    <3>1. o \in 1..Len(q.tokens) /\ q.closes[o] \in 1..Len(q.tokens) /\ k \in 1..Len(q.tokens) /\ o < q.closes[o]
      BY BracketsAre
    <3>2. Closing(q, q.closes[o])
      BY BracketsAre DEF Pair, Closing
    <3> QED
      BY <3>1, <3>2, BracketsAre
  <2> QED
    BY <2>1 DEF Query!Around
<1>2. k \notin Query!Around(q, k)
  <2>1. k \in 1..Len(q.tokens)
    BY BracketsAre
  <2> QED
    BY <2>1 DEF Query!Around
<1>3. Query!Around(q, g) \subseteq DOMAIN q.closes /\ Query!Around(q, k) \subseteq DOMAIN q.closes
  BY DEF Query!Around
<1> QED
  BY <1>1, <1>2, <1>3

\* A closing bracket ends the innermost.
LEMMA ClosesHere ==
  ASSUME NEW q \in Queries, NEW o \in DOMAIN q.closes, NEW k, q.closes[o] = k, NEW g, g = k + 1
  PROVE  /\ Query!Around(q, g) = Query!Around(q, k) \ {o} /\ Query!DirectlyIn(q, k, o)
         /\ k \notin DOMAIN q.closes
<1>0. o \in Nat /\ k \in Nat /\ o < k
  BY BracketsAre
<1>1. ASSUME NEW p \in DOMAIN q.closes PROVE p \in Query!Around(q, g) <=> p \in Query!Around(q, k) /\ p # o
  <2>1. p \in Nat /\ q.closes[p] \in Nat /\ (q.closes[p] = k <=> p = o) /\ p < q.closes[p]
    BY BracketsAre
  <2>2. p # k
    <3>1. Closing(q, k)
      BY BracketsAre DEF Pair, Closing
    <3> QED
      BY <3>1, BracketsAre
  <2> QED
    BY <1>0, <2>1, <2>2 DEF Query!Around
<1>2. o \in Query!Around(q, k)
  BY <1>0 DEF Query!Around
<1>3. ASSUME NEW p \in Query!Around(q, k) PROVE p <= o
  <2>1. p \in DOMAIN q.closes /\ p < k /\ k <= q.closes[p]
    BY DEF Query!Around
  <2>2. p \in Nat /\ q.closes[p] \in Nat
    BY <2>1, BracketsAre
  <2>3. o < p /\ p < q.closes[o] => q.closes[p] < q.closes[o]
    BY <2>1, BracketsAre
  <2> QED
    BY <1>0, <2>1, <2>2, <2>3
<1>4. Query!Around(q, g) \subseteq DOMAIN q.closes /\ Query!Around(q, k) \subseteq DOMAIN q.closes
  BY DEF Query!Around
<1>5. k \notin DOMAIN q.closes
  <2>1. Closing(q, k)
    BY BracketsAre DEF Pair, Closing
  <2> QED
    BY <2>1, BracketsAre
<1> QED
  BY <1>1, <1>2, <1>3, <1>4, <1>5 DEF Query!DirectlyIn

\* Any other token leaves what is around the next one as it is.
LEMMA NoBracketHere ==
  ASSUME NEW q \in Queries, NEW k \in 1..Len(q.tokens), k \notin DOMAIN q.closes, ~Closing(q, k), NEW g, g = k + 1
  PROVE  Query!Around(q, g) = Query!Around(q, k)
<1>0. k \in Nat
  BY BracketsAre
<1>1. ASSUME NEW p \in DOMAIN q.closes PROVE p \in Query!Around(q, g) <=> p \in Query!Around(q, k)
  <2>1. p \in Nat /\ q.closes[p] \in Nat /\ q.closes[p] # k /\ p # k
    <3>1. Closing(q, q.closes[p])
      BY BracketsAre DEF Pair, Closing
    <3>2. p \in 1..Len(q.tokens) /\ q.closes[p] \in 1..Len(q.tokens)
      BY BracketsAre
    <3> QED
      BY <3>1, <3>2
  <2> QED
    BY <1>0, <2>1 DEF Query!Around
<1>2. Query!Around(q, g) \subseteq DOMAIN q.closes /\ Query!Around(q, k) \subseteq DOMAIN q.closes
  BY DEF Query!Around
<1> QED
  BY <1>1, <1>2

\* Nothing is around the first token, nor what comes behind the last.
LEMMA NoneAtEnds ==
  ASSUME NEW q \in Queries, NEW g, g = Len(q.tokens) + 1
  PROVE  Query!Around(q, 1) = {} /\ Query!Around(q, g) = {}
<1>1. ASSUME NEW p \in DOMAIN q.closes PROVE ~(p < 1) /\ ~(g <= q.closes[p])
  <2>1. p \in 1..Len(q.tokens) /\ q.closes[p] \in 1..Len(q.tokens) /\ Len(q.tokens) \in Nat
    BY BracketsAre
  <2> QED
    BY <2>1
<1> QED
  BY <1>1 DEF Query!Around

-----------------------------------------------------------------------------
(* Queries: what opened what *)

\* A grouping list is a round bracket, and a call's arguments are another.
LEMMA ListIsMark == ASSUME NEW q, NEW o, Query!List(q, o) PROVE Query!MarkAt(q, o, "(")
BY DEF Query!List

\* An aggregation with its grouping first: the word, the list and the arguments.
LEMMA GroupedIs ==
  ASSUME NEW q \in Queries, NEW a, Query!GroupedFirst(q, a)
  PROVE  LET list == a + 2
             args == Query!Arguments(q, a)
         IN /\ a \in 1..Len(q.tokens) /\ Query!WordAt(q, a) /\ Query!WordAt(q, a + 1) /\ Query!List(q, list)
            /\ Query!TextAt(q, a) \in AGGREGATIONS /\ Query!TextAt(q, a + 1) \notin AGGREGATIONS
            /\ list \in DOMAIN q.closes /\ q.closes[list] \in Nat /\ args = q.closes[list] + 1
            /\ args \in DOMAIN q.closes /\ args \in Nat /\ list < q.closes[list]
            /\ Query!MarkAt(q, q.closes[list], ")") /\ Query!MarkAt(q, args, "(")
<1> DEFINE list == a + 2
           args == Query!Arguments(q, a)
<1>1. /\ Query!WordAt(q, a) /\ Query!TextAt(q, a) \in AGGREGATIONS
      /\ Query!TextAt(q, a + 1) \in {"by", "without"} /\ a \in DOMAIN q.tokens
  BY DEF Query!GroupedFirst, Query!WordAt
<1>2. Query!WordAt(q, a + 1) /\ Query!MarkAt(q, list, "(") /\ Query!MarkAt(q, args, "(")
  BY <1>1, QueriesAreTrees DEF Query!Grouping
<1>3. a \in 1..Len(q.tokens) /\ a \in Nat
  BY <1>1, BracketsAre
<1>4. Query!List(q, list)
  <2>1. list - 1 = a + 1
    BY <1>3
  <2>2. Query!TextAt(q, list - 1) \in {"by", "without"}
    BY <1>1, <2>1
  <2> QED
    BY <1>2, <2>2 DEF Query!List, Query!GROUPING
<1>5. list \in DOMAIN q.closes /\ args \in DOMAIN q.closes
  BY <1>2, BracketsAre DEF Opening
<1>6. q.closes[list] \in Nat /\ args \in Nat /\ list < q.closes[list] /\ Pair(q, list, q.closes[list])
  <2>1. args \in 1..Len(q.tokens) /\ q.closes[list] \in 1..Len(q.tokens) /\ list < q.closes[list]
        /\ Pair(q, list, q.closes[list])
    BY <1>5, BracketsAre
  <2> QED
    BY <2>1
<1>7. Query!MarkAt(q, q.closes[list], ")")
  BY <1>2, <1>6, MarkIs DEF Pair
<1>8. args = q.closes[list] + 1
  BY DEF Query!Arguments
<1>9. Query!TextAt(q, a + 1) \notin AGGREGATIONS
  BY <1>1, QueriesAreTrees DEF Query!KEYWORDS, Query!GROUPING
<1> QED
  BY <1>1, <1>2, <1>3, <1>4, <1>5, <1>6, <1>7, <1>8, <1>9

\* The arguments of an aggregation whose grouping came first are of it alone,
\* and are neither a list nor a function's.
LEMMA AppliedIs ==
  ASSUME NEW q \in Queries, NEW o, NEW a \in Query!Applied(q, o)
  PROVE  /\ Query!Applied(q, o) = {a} /\ o \in DOMAIN q.closes /\ Query!MarkAt(q, o, "(")
         /\ ~Query!List(q, o) /\ ~Query!Function(q, o)
<1>1. ASSUME NEW b \in Query!Applied(q, o)
      PROVE  /\ Query!GroupedFirst(q, b) /\ Query!Arguments(q, b) = o
             /\ b \in Nat /\ b + 2 \in DOMAIN q.closes /\ q.closes[b + 2] + 1 = o
             /\ q.closes[b + 2] \in Nat
  <2>1. Query!GroupedFirst(q, b) /\ Query!Arguments(q, b) = o
    BY DEF Query!Applied
  <2>2. b \in 1..Len(q.tokens) /\ b + 2 \in DOMAIN q.closes /\ q.closes[b + 2] \in Nat
        /\ Query!Arguments(q, b) = q.closes[b + 2] + 1
    BY <2>1, GroupedIs
  <2> QED
    BY <2>1, <2>2
<1>2. ASSUME NEW b \in Query!Applied(q, o) PROVE b = a
  <2>1. q.closes[b + 2] = q.closes[a + 2]
    BY <1>1
  <2>2. b + 2 = a + 2
    <3>1. PICK m \in DOMAIN q.closes, n \in DOMAIN q.closes : m = b + 2 /\ n = a + 2
      BY <1>1
    <3>2. q.closes[m] = q.closes[n]
      BY <2>1, <3>1
    <3>3. m = n
      BY <3>2, BracketsAre
    <3> QED
      BY <3>1, <3>3
  <2> QED
    BY <1>1, <2>2
<1>3. Query!GroupedFirst(q, a) /\ Query!Arguments(q, a) = o
  BY <1>1
<1>4. o \in DOMAIN q.closes /\ Query!MarkAt(q, o, "(") /\ Query!MarkAt(q, q.closes[a + 2], ")")
  BY <1>3, GroupedIs
<1>5. o - 1 = q.closes[a + 2]
  BY <1>1
<1>6. Query!MarkAt(q, o - 1, ")")
  BY <1>4, <1>5
<1>7. Query!TextAt(q, o - 1) = ")" /\ ~Query!WordAt(q, o - 1)
  BY <1>6, MarkIs
<1>8. ~Query!List(q, o) /\ ~Query!Function(q, o)
  BY <1>7 DEF Query!List, Query!Function, Query!GROUPING
<1> QED
  BY <1>2, <1>4, <1>8

\* What an opening bracket opens.
Kind(q, o) ==
  IF Query!MarkAt(q, o, "{") THEN "brace" ELSE IF Query!MarkAt(q, o, "[") THEN "range"
  ELSE IF Query!List(q, o) THEN "group" ELSE IF Query!IsCall(q, o) THEN "call" ELSE "paren"

\* A call's bracket is a round one and no list.
LEMMA CallIs ==
  ASSUME NEW q \in Queries, NEW o, Query!IsCall(q, o)
  PROVE  Query!MarkAt(q, o, "(") /\ ~Query!List(q, o) /\ Kind(q, o) = "call"
<1>1. Query!MarkAt(q, o, "(") /\ ~Query!List(q, o)
  <2>1. CASE Query!Function(q, o)
    BY <2>1 DEF Query!Function
  <2>2. CASE Query!Applied(q, o) # {}
    BY <2>2, AppliedIs
  <2> QED
    BY <2>1, <2>2 DEF Query!IsCall
<1>2. ~Query!MarkAt(q, o, "{") /\ ~Query!MarkAt(q, o, "[")
  BY <1>1, MarkIs
<1> QED
  BY <1>1, <1>2 DEF Kind

\* Which kind is which.
LEMMA KindIs ==
  ASSUME NEW q \in Queries, NEW o
  PROVE  /\ Kind(q, o) \in {"brace", "range", "group", "call", "paren"}
         /\ Kind(q, o) = "brace" <=> Query!MarkAt(q, o, "{")
         /\ Kind(q, o) = "range" <=> Query!MarkAt(q, o, "[")
         /\ Kind(q, o) = "group" <=> Query!List(q, o)
         /\ Kind(q, o) = "call" <=> Query!IsCall(q, o)
<1>1. Query!MarkAt(q, o, "{") => ~Query!MarkAt(q, o, "[") /\ ~Query!MarkAt(q, o, "(")
  BY MarkIs
<1>2. Query!MarkAt(q, o, "[") => ~Query!MarkAt(q, o, "(")
  BY MarkIs
<1>3. Query!List(q, o) => Query!MarkAt(q, o, "(")
  BY ListIsMark
<1>4. Query!IsCall(q, o) => Query!MarkAt(q, o, "(") /\ ~Query!List(q, o)
  BY CallIs
<1> QED
  BY <1>1, <1>2, <1>3, <1>4 DEF Kind

\* The entry the walk keeps of a bracket, once it has come to token k.
Late(q, o, k) ==
  /\ q.closes[o] < k /\ Query!Callee(q, o) \in RANGE_AGGREGATIONS
  /\ Query!TextAt(q, q.closes[o] + 1) \in {"by", "without"}
EntryAt(q, o, k) ==
  [kind |-> Kind(q, o),
   name |-> IF Query!IsCall(q, o) THEN Query!Callee(q, o) ELSE "",
   agg |-> Query!IsCall(q, o) /\ (Query!Callee(q, o) \in AGGREGATIONS \/ Late(q, o, k)),
   args |-> IF Query!IsCall(q, o) THEN Query!Arg(q, o, k) ELSE 0]

\* The instance counts as the module does.
LEMMA QueryCount == ASSUME NEW S PROVE Query!Cardinality(S) = Cardinality(S)
BY DEF Query!Cardinality, Cardinality

\* Arguments are counted by the commas between them.
CommasOf(q, o, k) == {c \in 1..(k - 1) : Query!MarkAt(q, c, ",") /\ Query!DirectlyIn(q, c, o)}

\* The commas are finitely many.
LEMMA ArgIs ==
  ASSUME NEW q, NEW o, NEW k \in Nat
  PROVE  /\ Query!Arg(q, o, k) = Cardinality(CommasOf(q, o, k))
         /\ IsFiniteSet(CommasOf(q, o, k)) /\ Query!Arg(q, o, k) \in Nat
<1>1. Query!Arg(q, o, k) = Cardinality(CommasOf(q, o, k))
  BY QueryCount DEF Query!Arg, CommasOf
<1>2. IsFiniteSet(CommasOf(q, o, k))
  <2>1. IsFiniteSet(1..(k - 1))
    <3>1. 1 \in Int /\ k - 1 \in Int
      OBVIOUS
    <3> QED
      BY <3>1, FS_Interval
  <2>2. CommasOf(q, o, k) \subseteq 1..(k - 1)
    BY DEF CommasOf
  <2> QED
    BY <2>1, <2>2, FS_Subset
<1> QED
  BY <1>1, <1>2, FS_CardinalityType

\* A comma directly in a call adds one.
LEMMA ArgGrows ==
  ASSUME NEW q, NEW o, NEW k \in Nat \ {0}, NEW g, g = k + 1
  PROVE  Query!Arg(q, o, g) = IF Query!MarkAt(q, k, ",") /\ Query!DirectlyIn(q, k, o)
                              THEN Query!Arg(q, o, k) + 1 ELSE Query!Arg(q, o, k)
<1> DEFINE comma == Query!MarkAt(q, k, ",") /\ Query!DirectlyIn(q, k, o)
<1>1. 1..(g - 1) = 1..(k - 1) \cup {k} /\ k \notin 1..(k - 1) /\ g \in Nat
  OBVIOUS
<1>2. CommasOf(q, o, g) = IF comma THEN CommasOf(q, o, k) \cup {k} ELSE CommasOf(q, o, k)
  BY <1>1 DEF CommasOf
<1>3. k \notin CommasOf(q, o, k)
  BY <1>1 DEF CommasOf
<1>4. Cardinality(CommasOf(q, o, k) \cup {k}) = Cardinality(CommasOf(q, o, k)) + 1
  BY <1>3, ArgIs, FS_AddElement
<1>5. Query!Arg(q, o, g) = Cardinality(CommasOf(q, o, g)) /\ Query!Arg(q, o, k) = Cardinality(CommasOf(q, o, k))
  BY <1>1, ArgIs
<1> HIDE DEF comma
<1>6. Query!Arg(q, o, g) = IF comma THEN Query!Arg(q, o, k) + 1 ELSE Query!Arg(q, o, k)
  BY <1>2, <1>4, <1>5
<1> QED
  BY <1>6 DEF comma

\* A bracket's entry when it opens.
LEMMA EntryOpens ==
  ASSUME NEW q \in Queries, NEW o \in DOMAIN q.closes, NEW g, g = o + 1
  PROVE  EntryAt(q, o, g) =
           [kind |-> Kind(q, o), name |-> IF Query!IsCall(q, o) THEN Query!Callee(q, o) ELSE "",
            agg |-> Query!IsCall(q, o) /\ Query!Callee(q, o) \in AGGREGATIONS, args |-> 0]
<1>0. o \in Nat /\ g \in Nat /\ q.closes[o] \in Nat /\ o < q.closes[o]
  BY BracketsAre
<1>1. ~Late(q, o, g)
  BY <1>0 DEF Late
<1>2. Query!Arg(q, o, g) = 0
  <2>1. ASSUME NEW c \in 1..(g - 1) PROVE ~Query!DirectlyIn(q, c, o)
    <3>1. ~(o < c)
      BY <1>0
    <3> QED
      BY <3>1 DEF Query!DirectlyIn, Query!Around
  <2>2. CommasOf(q, o, g) = {}
    BY <2>1 DEF CommasOf
  <2> QED
    BY <1>0, <2>2, ArgIs, FS_EmptySet
<1> QED
  BY <1>1, <1>2 DEF EntryAt

\* One argument more, and a range aggregation that aggregates.
OneArgMore(entry) == [entry EXCEPT !.args = @ + 1]
Settled(entry) == [entry EXCEPT !.agg = TRUE]

\* And when the walk goes on: a comma counts for the call it is directly in, a
\* grouping after a call makes a range aggregation of it.
LEMMA EntryGoesOn ==
  ASSUME NEW q \in Queries, NEW k \in 1..Len(q.tokens), NEW o \in DOMAIN q.closes, NEW g, g = k + 1
  PROVE  /\ ~(Query!MarkAt(q, k, ",") /\ Query!DirectlyIn(q, k, o)) /\ q.closes[o] # k
              => EntryAt(q, o, g) = EntryAt(q, o, k)
         /\ Query!MarkAt(q, k, ",") /\ Query!DirectlyIn(q, k, o) /\ Query!IsCall(q, o)
              => EntryAt(q, o, g) = OneArgMore(EntryAt(q, o, k))
         /\ ~Query!IsCall(q, o) => EntryAt(q, o, g) = EntryAt(q, o, k)
         /\ q.closes[o] = k =>
              EntryAt(q, o, g) = IF /\ Query!IsCall(q, o) /\ Query!Callee(q, o) \in RANGE_AGGREGATIONS
                                    /\ Query!TextAt(q, g) \in {"by", "without"}
                                 THEN Settled(EntryAt(q, o, k)) ELSE EntryAt(q, o, k)
<1>0. k \in Nat \ {0} /\ o \in Nat /\ q.closes[o] \in Nat
  BY BracketsAre
<1>1. Query!Arg(q, o, g) = IF Query!MarkAt(q, k, ",") /\ Query!DirectlyIn(q, k, o)
                           THEN Query!Arg(q, o, k) + 1 ELSE Query!Arg(q, o, k)
  BY <1>0, ArgGrows
<1>2. q.closes[o] # k => (Late(q, o, g) <=> Late(q, o, k))
  <2>1. q.closes[o] # k => (q.closes[o] < g <=> q.closes[o] < k)
    BY <1>0
  <2> QED
    BY <2>1 DEF Late
<1>3. Query!MarkAt(q, k, ",") => q.closes[o] # k
  <2>1. Pair(q, o, q.closes[o])
    BY BracketsAre
  <2>2. Query!MarkAt(q, q.closes[o], ",") => FALSE
    BY <2>1, MarkIs DEF Pair
  <2> QED
    BY <2>2
<1>4. ASSUME q.closes[o] = k
      PROVE  /\ Late(q, o, g) <=> /\ Query!Callee(q, o) \in RANGE_AGGREGATIONS
                                  /\ Query!TextAt(q, g) \in {"by", "without"}
             /\ ~Late(q, o, k) /\ ~Query!MarkAt(q, k, ",")
  <2>1. q.closes[o] < g /\ ~(q.closes[o] < k) /\ q.closes[o] + 1 = g
    BY <1>0, <1>4
  <2> QED
    BY <1>3, <1>4, <2>1 DEF Late
<1> DEFINE comma == Query!MarkAt(q, k, ",") /\ Query!DirectlyIn(q, k, o)
           call == Query!IsCall(q, o)
           follows == Query!Callee(q, o) \in RANGE_AGGREGATIONS /\ Query!TextAt(q, g) \in {"by", "without"}
<1>5. ASSUME ~call PROVE EntryAt(q, o, g) = EntryAt(q, o, k)
  BY <1>5 DEF EntryAt
<1>6. ASSUME ~comma, q.closes[o] # k PROVE EntryAt(q, o, g) = EntryAt(q, o, k)
  BY <1>1, <1>2, <1>6 DEF EntryAt
<1>7. ASSUME comma, call PROVE EntryAt(q, o, g) = OneArgMore(EntryAt(q, o, k))
  <2>1. Query!Arg(q, o, g) = Query!Arg(q, o, k) + 1 /\ (Late(q, o, g) <=> Late(q, o, k))
    BY <1>1, <1>2, <1>3, <1>7
  <2> DEFINE agg == Query!IsCall(q, o) /\ (Query!Callee(q, o) \in AGGREGATIONS \/ Late(q, o, k))
             was == [kind |-> Kind(q, o), name |-> Query!Callee(q, o), agg |-> agg, args |-> Query!Arg(q, o, k)]
             is == [kind |-> Kind(q, o), name |-> Query!Callee(q, o), agg |-> agg, args |-> Query!Arg(q, o, g)]
  <2>2. EntryAt(q, o, k) = was
    BY <1>7 DEF EntryAt
  <2>3. EntryAt(q, o, g) = is
    BY <1>7, <2>1 DEF EntryAt
  <2> HIDE DEF agg
  <2>4. is = OneArgMore(was)
    BY <2>1 DEF OneArgMore
  <2> QED
    BY <2>2, <2>3, <2>4
<1>8. ASSUME q.closes[o] = k
      PROVE  EntryAt(q, o, g) = IF call /\ follows THEN Settled(EntryAt(q, o, k)) ELSE EntryAt(q, o, k)
  <2>1. (Late(q, o, g) <=> follows) /\ ~Late(q, o, k) /\ ~comma
    BY <1>4, <1>8
  <2>2. Query!Arg(q, o, g) = Query!Arg(q, o, k)
    BY <1>1, <2>1
  <2>3. CASE call /\ follows
    BY <2>1, <2>2, <2>3 DEF EntryAt, Settled
  <2>4. CASE ~(call /\ follows)
    BY <2>1, <2>2, <2>4 DEF EntryAt
  <2> QED
    BY <2>3, <2>4
<1> HIDE DEF comma, call, follows
<1>9. /\ ~comma /\ q.closes[o] # k => EntryAt(q, o, g) = EntryAt(q, o, k)
      /\ comma /\ call => EntryAt(q, o, g) = OneArgMore(EntryAt(q, o, k))
      /\ ~call => EntryAt(q, o, g) = EntryAt(q, o, k)
      /\ q.closes[o] = k =>
           EntryAt(q, o, g) = IF call /\ follows THEN Settled(EntryAt(q, o, k)) ELSE EntryAt(q, o, k)
  BY <1>5, <1>6, <1>7, <1>8
<1> QED
  BY <1>9 DEF comma, call, follows

-----------------------------------------------------------------------------
(* Queries: the aggregations awaited *)

\* The aggregations whose arguments are still to come, when a token is looked at.
AwaitedAt(q, k) == {a \in DOMAIN q.tokens : Query!GroupedFirst(q, a) /\ a < k /\ k <= Query!Arguments(q, a)}

\* Between an aggregation and its arguments stand its grouping word and its
\* list, and nothing in that list is a word of the query.
LEMMA BetweenIs ==
  ASSUME NEW q \in Queries, NEW k \in 1..Len(q.tokens), NEW a \in AwaitedAt(q, k)
  PROVE  \/ Query!WordAt(q, k) /\ Query!TextAt(q, k) \notin AGGREGATIONS
         \/ Query!WordAt(q, k) /\ Query!InList(q, k)
         \/ Query!MarkAt(q, k, "(") /\ Query!List(q, k)
         \/ Query!MarkAt(q, k, ",") \/ Query!MarkAt(q, k, ")")
         \/ k = Query!Arguments(q, a)
<1> DEFINE list == a + 2
<1>1. /\ Query!GroupedFirst(q, a) /\ a < k /\ k <= Query!Arguments(q, a)
  BY DEF AwaitedAt
<1>2. /\ a \in 1..Len(q.tokens) /\ Query!WordAt(q, a + 1) /\ Query!List(q, list) /\ Query!MarkAt(q, list, "(")
      /\ Query!TextAt(q, a + 1) \notin AGGREGATIONS /\ list \in DOMAIN q.closes /\ q.closes[list] \in Nat
      /\ Query!Arguments(q, a) = q.closes[list] + 1 /\ Query!MarkAt(q, q.closes[list], ")") /\ list < q.closes[list]
  BY <1>1, GroupedIs, ListIsMark
<1>3. k \in Nat /\ a \in Nat
  BY <1>2, BracketsAre
<1>4. \/ k = a + 1 \/ k = list \/ k = q.closes[list] \/ k = Query!Arguments(q, a)
      \/ k \in (list + 1)..(q.closes[list] - 1)
  BY <1>1, <1>2, <1>3
<1>5. ASSUME k \in (list + 1)..(q.closes[list] - 1)
      PROVE  Query!MarkAt(q, k, ",") \/ (Query!WordAt(q, k) /\ Query!InList(q, k))
  <2>1. \A n \in (list + 1)..(q.closes[list] - 1) : Query!WordAt(q, n) \/ Query!MarkAt(q, n, ",")
    BY <1>2, QueriesAreTrees DEF Query!Grouping
  <2>2. list \in Query!Around(q, k) /\ list \in Nat
    BY <1>2, <1>3, <1>5 DEF Query!Around
  <2>3. ASSUME NEW p \in Query!Around(q, k) PROVE p <= list
    <3>1. p \in DOMAIN q.closes /\ p < k
      BY DEF Query!Around
    <3>2. p \in Nat /\ Opening(q, p)
      BY <3>1, BracketsAre
    <3>3. ~Query!WordAt(q, p) /\ ~Query!MarkAt(q, p, ",")
      BY <3>2, MarkIs DEF Opening
    <3>4. p \notin (list + 1)..(q.closes[list] - 1)
      BY <2>1, <3>3
    <3> QED
      BY <1>2, <1>3, <1>5, <2>2, <3>1, <3>2, <3>4
  <2>4. Query!InList(q, k)
    BY <1>2, <2>2, <2>3 DEF Query!InList, Query!DirectlyIn
  <2> QED
    BY <1>5, <2>1, <2>4
<1> QED
  BY <1>2, <1>4, <1>5

\* None of those words is an aggregation with its grouping first.
LEMMA NoneBetween ==
  ASSUME NEW q \in Queries, NEW k \in 1..Len(q.tokens), NEW a \in AwaitedAt(q, k)
  PROVE  ~Query!GroupedFirst(q, k)
<1> SUFFICES ASSUME Query!GroupedFirst(q, k) PROVE FALSE
  OBVIOUS
<1>1. Query!WordAt(q, k) /\ Query!TextAt(q, k) \in AGGREGATIONS /\ ~Query!InList(q, k)
  BY DEF Query!GroupedFirst
<1>2. ~Query!MarkAt(q, k, "(") /\ ~Query!MarkAt(q, k, ",") /\ ~Query!MarkAt(q, k, ")")
  BY <1>1, MarkIs
<1>3. k # Query!Arguments(q, a)
  <2>1. Query!MarkAt(q, Query!Arguments(q, a), "(")
    BY GroupedIs DEF AwaitedAt
  <2> QED
    BY <1>2, <2>1
<1> QED
  BY <1>1, <1>2, <1>3, BetweenIs

\* One aggregation at most is awaited.
LEMMA OneAwaited ==
  ASSUME NEW q \in Queries, NEW k \in Nat, NEW a \in AwaitedAt(q, k), NEW b \in AwaitedAt(q, k)
  PROVE  a = b
<1>1. ASSUME NEW m \in AwaitedAt(q, k), NEW n \in AwaitedAt(q, k), m < n PROVE FALSE
  <2>1. /\ Query!GroupedFirst(q, m) /\ Query!GroupedFirst(q, n) /\ n < k /\ k <= Query!Arguments(q, m)
    BY DEF AwaitedAt
  <2>2. n \in 1..Len(q.tokens) /\ n \in DOMAIN q.tokens /\ Query!Arguments(q, m) \in Nat /\ m \in DOMAIN q.tokens
    <3>1. n \in 1..Len(q.tokens) /\ m \in 1..Len(q.tokens) /\ Query!Arguments(q, m) \in Nat
      BY <2>1, GroupedIs
    <3> QED
      BY <3>1, BracketsAre
  <2>3. n <= Query!Arguments(q, m)
    BY <2>1, <2>2
  <2>4. m \in AwaitedAt(q, n)
    BY <1>1, <2>1, <2>2, <2>3 DEF AwaitedAt
  <2> QED
    BY <2>1, <2>2, <2>4, NoneBetween
<1>2. a \in Nat /\ b \in Nat
  <2>1. a \in DOMAIN q.tokens /\ b \in DOMAIN q.tokens
    BY DEF AwaitedAt
  <2> QED
    BY <2>1, BracketsAre
<1>3. ~(a < b) /\ ~(b < a)
  BY <1>1
<1> QED
  BY <1>2, <1>3

\* What is awaited, from each token to the next.
LEMMA AwaitedNext ==
  ASSUME NEW q \in Queries, NEW k \in 1..Len(q.tokens), NEW g, g = k + 1
  PROVE  /\ Query!GroupedFirst(q, k) => AwaitedAt(q, k) = {} /\ AwaitedAt(q, g) = {k}
         /\ ~Query!GroupedFirst(q, k) /\ Query!Applied(q, k) = {} => AwaitedAt(q, g) = AwaitedAt(q, k)
         /\ ~Query!GroupedFirst(q, k) /\ Query!Applied(q, k) # {} =>
              AwaitedAt(q, k) = Query!Applied(q, k) /\ AwaitedAt(q, g) = {}
<1>0. k \in Nat /\ g \in Nat /\ DOMAIN q.tokens = 1..Len(q.tokens) /\ k \in DOMAIN q.tokens
  BY BracketsAre
<1>1. ASSUME NEW a \in DOMAIN q.tokens, Query!GroupedFirst(q, a)
      PROVE  /\ a \in Nat /\ Query!Arguments(q, a) \in Nat /\ a < Query!Arguments(q, a)
             /\ a \in AwaitedAt(q, g) <=> (a \in AwaitedAt(q, k) /\ Query!Arguments(q, a) # k) \/ a = k
             /\ Query!Arguments(q, a) = k => a \in AwaitedAt(q, k)
  <2>1. /\ a \in Nat /\ Query!Arguments(q, a) \in Nat /\ q.closes[a + 2] \in Nat /\ a + 2 < q.closes[a + 2]
        /\ Query!Arguments(q, a) = q.closes[a + 2] + 1
    <3>1. a \in 1..Len(q.tokens) /\ Query!Arguments(q, a) \in Nat /\ q.closes[a + 2] \in Nat /\ a + 2 < q.closes[a + 2]
          /\ Query!Arguments(q, a) = q.closes[a + 2] + 1
      BY <1>1, GroupedIs
    <3> QED
      BY <3>1
  <2>2. a < Query!Arguments(q, a) /\ a + 1 <= Query!Arguments(q, a)
    BY <2>1
  <2>3. a < g /\ g <= Query!Arguments(q, a) <=> (a < k /\ k <= Query!Arguments(q, a) /\ Query!Arguments(q, a) # k) \/ a = k
    BY <1>0, <2>1, <2>2
  <2>4. a \in AwaitedAt(q, g) <=> (a \in AwaitedAt(q, k) /\ Query!Arguments(q, a) # k) \/ a = k
    BY <1>1, <2>3 DEF AwaitedAt
  <2>5. Query!Arguments(q, a) = k => a \in AwaitedAt(q, k)
    BY <1>0, <1>1, <2>2 DEF AwaitedAt
  <2> QED
    BY <2>1, <2>2, <2>4, <2>5
<1>2. ASSUME NEW n PROVE \A a \in AwaitedAt(q, n) : a \in DOMAIN q.tokens /\ Query!GroupedFirst(q, a)
  BY DEF AwaitedAt
<1>3. ASSUME Query!GroupedFirst(q, k) PROVE AwaitedAt(q, k) = {} /\ AwaitedAt(q, g) = {k}
  <2>1. AwaitedAt(q, k) = {}
    BY <1>3, NoneBetween
  <2> QED
    BY <1>0, <1>1, <1>2, <1>3, <2>1
<1>4. \A a : a \in Query!Applied(q, k) <=> a \in DOMAIN q.tokens /\ Query!GroupedFirst(q, a) /\ Query!Arguments(q, a) = k
  BY DEF Query!Applied
<1>5. ASSUME ~Query!GroupedFirst(q, k), Query!Applied(q, k) = {} PROVE AwaitedAt(q, g) = AwaitedAt(q, k)
  <2>1. ASSUME NEW a \in DOMAIN q.tokens, Query!GroupedFirst(q, a) PROVE a \in AwaitedAt(q, g) <=> a \in AwaitedAt(q, k)
    <3>1. Query!Arguments(q, a) # k
      BY <1>4, <1>5, <2>1
    <3>2. a # k
      BY <1>5, <2>1
    <3> QED
      BY <1>1, <2>1, <3>1, <3>2
  <2>2. \A a : a \in AwaitedAt(q, g) => a \in AwaitedAt(q, k)
    BY <1>2, <2>1
  <2>3. \A a : a \in AwaitedAt(q, k) => a \in AwaitedAt(q, g)
    BY <1>2, <2>1
  <2> QED
    BY <2>2, <2>3
<1>6. ASSUME ~Query!GroupedFirst(q, k), NEW b \in Query!Applied(q, k)
      PROVE  AwaitedAt(q, k) = Query!Applied(q, k) /\ AwaitedAt(q, g) = {}
  <2>1. Query!Applied(q, k) = {b} /\ b \in AwaitedAt(q, k) /\ Query!Arguments(q, b) = k
    BY <1>1, <1>4, <1>6, AppliedIs
  <2>2. AwaitedAt(q, k) = {b}
    BY <1>0, <2>1, OneAwaited
  <2>3. AwaitedAt(q, g) = {}
    BY <1>1, <1>2, <1>6, <2>1, <2>2
  <2> QED
    BY <2>1, <2>2, <2>3
<1> QED
  BY <1>3, <1>5, <1>6

\* None is before the first token or behind the last.
LEMMA NoneAwaitedAtEnds ==
  ASSUME NEW q \in Queries, NEW g, g = Len(q.tokens) + 1
  PROVE  AwaitedAt(q, 1) = {} /\ AwaitedAt(q, g) = {}
<1>1. ASSUME NEW a \in DOMAIN q.tokens, Query!GroupedFirst(q, a) PROVE ~(a < 1) /\ ~(g <= Query!Arguments(q, a))
  <2>1. Query!Arguments(q, a) \in DOMAIN q.closes
    BY <1>1, GroupedIs
  <2>2. Query!Arguments(q, a) \in 1..Len(q.tokens) /\ a \in 1..Len(q.tokens) /\ Len(q.tokens) \in Nat
    BY <2>1, BracketsAre
  <2> QED
    BY <2>2
<1> QED
  BY <1>1 DEF AwaitedAt

-----------------------------------------------------------------------------
(* Queries: what the walk keeps *)

\* The brackets opened before token k, in their order: entry e is of pos[e].
Numbered(q, k, pos) ==
  /\ IsList(pos)
  /\ \A e \in DOMAIN pos : pos[e] \in DOMAIN q.closes /\ pos[e] < k
  /\ \A d, e \in DOMAIN pos : d < e => pos[d] < pos[e]
  /\ \A o \in DOMAIN q.closes : o < k => \E e \in DOMAIN pos : pos[e] = o

\* The stack holds the entries of those still open, the innermost last.
Stacked(q, k, pos, st) ==
  /\ IsList(st)
  /\ \A n \in DOMAIN st : st[n] \in DOMAIN pos /\ pos[st[n]] \in Query!Around(q, k)
  /\ \A m, n \in DOMAIN st : m < n => st[m] < st[n]
  /\ \A e \in DOMAIN pos : pos[e] \in Query!Around(q, k) => \E n \in DOMAIN st : st[n] = e

\* Each entry is of its bracket.
Entered(q, k, pos, en) ==
  /\ IsList(en) /\ Len(en) = Len(pos)
  /\ \A e \in DOMAIN pos : en[e] = EntryAt(q, pos[e], k)

\* The top of the stack is the innermost bracket.
LEMMA TopIs ==
  ASSUME NEW q \in Queries, NEW k \in Nat, NEW pos, Numbered(q, k, pos), NEW st, Stacked(q, k, pos, st)
  PROVE  /\ st = <<>> => Query!Around(q, k) = {}
         /\ st # <<>> => /\ Query!Last(st) \in DOMAIN pos
                         /\ Query!DirectlyIn(q, k, pos[Query!Last(st)])
<1>0. IsList(pos) /\ IsList(st)
  BY DEF Numbered, Stacked
<1>1. Len(pos) \in Nat /\ DOMAIN pos = 1..Len(pos) /\ Len(st) \in Nat /\ DOMAIN st = 1..Len(st)
  BY <1>0, ListIs
<1>2. ASSUME NEW o \in Query!Around(q, k) PROVE \E n \in DOMAIN st : pos[st[n]] = o
  <2>1. o \in DOMAIN q.closes /\ o < k
    BY DEF Query!Around
  <2>2. PICK e \in DOMAIN pos : pos[e] = o
    BY <2>1 DEF Numbered
  <2> QED
    BY <2>2 DEF Stacked
<1>3. ASSUME st = <<>> PROVE Query!Around(q, k) = {}
  <2>1. DOMAIN st = {}
    BY <1>3
  <2> QED
    BY <1>2, <2>1
<1>4. ASSUME st # <<>>
      PROVE  Query!Last(st) \in DOMAIN pos /\ Query!DirectlyIn(q, k, pos[Query!Last(st)])
  <2>1. PICK l \in DOMAIN st : l = Len(st) /\ Query!Last(st) = st[l]
    BY <1>0, <1>4, FrontIs
  <2>2. st[l] \in DOMAIN pos /\ pos[st[l]] \in Query!Around(q, k)
    BY DEF Stacked
  <2>3. ASSUME NEW o \in Query!Around(q, k) PROVE o <= pos[st[l]]
    <3>1. PICK n \in DOMAIN st : pos[st[n]] = o
      BY <1>2
    <3>2. n < l => st[n] < st[l] /\ st[n] \in DOMAIN pos
      BY DEF Stacked
    <3>3. n < l => pos[st[n]] < pos[st[l]]
      BY <2>2, <3>2 DEF Numbered
    <3>4. n = l \/ n < l
      BY <1>1, <2>1
    <3>5. o \in DOMAIN q.closes /\ pos[st[l]] \in DOMAIN q.closes
      BY <2>2 DEF Query!Around
    <3>6. o \in Nat /\ pos[st[l]] \in Nat
      BY <3>5, BracketsAre
    <3> QED
      BY <3>1, <3>3, <3>4, <3>6
  <2> QED
    BY <2>1, <2>2, <2>3 DEF Query!DirectlyIn
<1> QED
  BY <1>3, <1>4

\* Only one bracket is the innermost.
LEMMA OneInnermost ==
  ASSUME NEW q \in Queries, NEW k, NEW o, NEW p, Query!DirectlyIn(q, k, o), Query!DirectlyIn(q, k, p)
  PROVE  o = p
<1>1. o \in DOMAIN q.closes /\ p \in DOMAIN q.closes /\ o <= p /\ p <= o
  BY DEF Query!DirectlyIn, Query!Around
<1>2. o \in Nat /\ p \in Nat
  BY <1>1, BracketsAre
<1> QED
  BY <1>1, <1>2

\* An opening bracket is numbered next and stacked.
LEMMA Pushed ==
  ASSUME NEW q \in Queries, NEW k \in DOMAIN q.closes, NEW g, g = k + 1,
         NEW pos, Numbered(q, k, pos), NEW st, Stacked(q, k, pos, st), NEW n, n = Len(pos) + 1
  PROVE  Numbered(q, g, Append(pos, k)) /\ Stacked(q, g, Append(pos, k), Append(st, n))
<1> DEFINE p2 == Append(pos, k)
           s2 == Append(st, n)
<1>0. IsList(pos) /\ IsList(st) /\ k \in Nat
  BY BracketsAre DEF Numbered, Stacked
<1>1. /\ IsList(p2) /\ Len(pos) \in Nat /\ DOMAIN pos = 1..Len(pos) /\ DOMAIN p2 = 1..n /\ p2[n] = k
      /\ n \in Nat /\ \A e \in DOMAIN pos : p2[e] = pos[e]
  BY <1>0, AppendIs
<1>2. /\ IsList(s2) /\ Len(st) \in Nat /\ DOMAIN st = 1..Len(st) /\ DOMAIN s2 = 1..(Len(st) + 1)
      /\ s2[Len(st) + 1] = n /\ \A m \in DOMAIN st : s2[m] = st[m]
  BY <1>0, AppendIs
<1>3. \A e : e \in DOMAIN p2 <=> e \in DOMAIN pos \/ e = n
  BY <1>1
<1>4. \A m : m \in DOMAIN s2 <=> m \in DOMAIN st \/ m = Len(st) + 1
  BY <1>2
<1>5. /\ \A e \in DOMAIN pos : pos[e] \in DOMAIN q.closes /\ pos[e] < k /\ e < n /\ e \in Nat
      /\ \A o \in DOMAIN q.closes : o \in Nat
      /\ \A m \in DOMAIN st : st[m] \in DOMAIN pos /\ pos[st[m]] \in Query!Around(q, k) /\ m < Len(st) + 1 /\ m \in Nat
  <2>1. \A e \in DOMAIN pos : pos[e] \in DOMAIN q.closes /\ pos[e] < k
    BY DEF Numbered
  <2>2. \A o \in DOMAIN q.closes : o \in Nat
    BY BracketsAre
  <2>3. \A m \in DOMAIN st : st[m] \in DOMAIN pos /\ pos[st[m]] \in Query!Around(q, k)
    BY DEF Stacked
  <2> QED
    BY <1>1, <1>2, <2>1, <2>2, <2>3
<1>6. Query!Around(q, g) = Query!Around(q, k) \cup {k} /\ k \notin Query!Around(q, k)
  BY OpensHere
<1> HIDE DEF p2, s2
<1>7. Numbered(q, g, p2)
  <2>1. ASSUME NEW e \in DOMAIN p2 PROVE p2[e] \in DOMAIN q.closes /\ p2[e] < g
    <3>1. CASE e = n
      BY <1>0, <1>1, <3>1
    <3>2. CASE e \in DOMAIN pos
      <4>1. p2[e] \in DOMAIN q.closes /\ p2[e] < k /\ p2[e] \in Nat
        BY <1>1, <1>5, <3>2
      <4> QED
        BY <1>0, <4>1
    <3> QED
      BY <1>3, <3>1, <3>2
  <2>2. ASSUME NEW d \in DOMAIN p2, NEW e \in DOMAIN p2, d < e PROVE p2[d] < p2[e]
    <3>1. d \in DOMAIN pos
      BY <1>1, <2>2
    <3>2. CASE e = n
      BY <1>1, <1>5, <3>1, <3>2
    <3>3. CASE e \in DOMAIN pos
      <4>1. pos[d] < pos[e]
        BY <2>2, <3>1, <3>3 DEF Numbered
      <4> QED
        BY <1>1, <3>1, <3>3, <4>1
    <3> QED
      BY <1>3, <3>2, <3>3
  <2>3. ASSUME NEW o \in DOMAIN q.closes, o < g PROVE \E e \in DOMAIN p2 : p2[e] = o
    <3>1. o \in Nat
      BY <1>5
    <3>2. CASE o = k
      BY <1>1, <1>3, <3>2
    <3>3. CASE o # k
      <4>1. o < k
        BY <1>0, <2>3, <3>1, <3>3
      <4>2. PICK e \in DOMAIN pos : pos[e] = o
        BY <4>1 DEF Numbered
      <4> QED
        BY <1>1, <1>3, <4>2
    <3> QED
      BY <3>2, <3>3
  <2> QED
    BY <1>1, <2>1, <2>2, <2>3 DEF Numbered
<1>8. Stacked(q, g, p2, s2)
  <2>1. ASSUME NEW m \in DOMAIN s2 PROVE s2[m] \in DOMAIN p2 /\ p2[s2[m]] \in Query!Around(q, g)
    <3>1. CASE m = Len(st) + 1
      BY <1>1, <1>2, <1>3, <1>6, <3>1
    <3>2. CASE m \in DOMAIN st
      <4>1. s2[m] = st[m] /\ st[m] \in DOMAIN pos /\ p2[st[m]] = pos[st[m]] /\ pos[st[m]] \in Query!Around(q, k)
        BY <1>1, <1>2, <1>5, <3>2
      <4> QED
        BY <1>3, <1>6, <4>1
    <3> QED
      BY <1>4, <3>1, <3>2
  <2>2. ASSUME NEW l \in DOMAIN s2, NEW m \in DOMAIN s2, l < m PROVE s2[l] < s2[m]
    <3>1. l \in DOMAIN st
      BY <1>2, <2>2
    <3>2. CASE m = Len(st) + 1
      <4>1. s2[l] = st[l] /\ st[l] < n /\ s2[m] = n
        BY <1>2, <1>5, <3>1, <3>2
      <4> QED
        BY <4>1
    <3>3. CASE m \in DOMAIN st
      <4>1. st[l] < st[m]
        BY <2>2, <3>1, <3>3 DEF Stacked
      <4> QED
        BY <1>2, <3>1, <3>3, <4>1
    <3> QED
      BY <1>4, <3>2, <3>3
  <2>3. ASSUME NEW e \in DOMAIN p2, p2[e] \in Query!Around(q, g) PROVE \E m \in DOMAIN s2 : s2[m] = e
    <3>1. CASE e = n
      BY <1>2, <1>4, <3>1
    <3>2. CASE e \in DOMAIN pos
      <4>1. pos[e] \in Query!Around(q, k)
        <5>1. p2[e] = pos[e] /\ pos[e] < k /\ pos[e] \in Nat
          BY <1>1, <1>5, <3>2
        <5>2. pos[e] # k
          BY <1>0, <5>1
        <5> QED
          BY <1>6, <2>3, <5>1, <5>2
      <4>2. PICK m \in DOMAIN st : st[m] = e
        BY <3>2, <4>1 DEF Stacked
      <4> QED
        BY <1>2, <1>4, <4>2
    <3> QED
      BY <1>3, <3>1, <3>2
  <2> QED
    BY <1>2, <2>1, <2>2, <2>3 DEF Stacked
<1> QED
  BY <1>7, <1>8 DEF p2, s2

\* What is numbered stays when none opens.
LEMMA NumbersStay ==
  ASSUME NEW q \in Queries, NEW k \in Nat, k \notin DOMAIN q.closes, NEW g, g = k + 1, NEW pos, Numbered(q, k, pos)
  PROVE  Numbered(q, g, pos)
<1>1. \A o \in DOMAIN q.closes : o \in Nat
  BY BracketsAre
<1>2. \A o \in DOMAIN q.closes : o < g <=> o < k
  BY <1>1
<1> QED
  BY <1>2 DEF Numbered

\* The last opened is the one a closing bracket closes.
LEMMA Popped ==
  ASSUME NEW q \in Queries, NEW o \in DOMAIN q.closes, NEW k \in Nat, q.closes[o] = k, NEW g, g = k + 1,
         NEW pos, Numbered(q, k, pos), NEW st, Stacked(q, k, pos, st)
  PROVE  /\ st # <<>> /\ pos[Query!Last(st)] = o /\ Query!Last(st) \in DOMAIN pos
         /\ Numbered(q, g, pos) /\ Stacked(q, g, pos, Query!Front(st))
<1>1. Query!Around(q, g) = Query!Around(q, k) \ {o} /\ Query!DirectlyIn(q, k, o) /\ k \notin DOMAIN q.closes
  BY ClosesHere
<1>2. Numbered(q, g, pos)
  BY <1>1, NumbersStay
<1>3. o \in Query!Around(q, k)
  BY <1>1 DEF Query!DirectlyIn
<1>4. st # <<>>
  BY <1>3, TopIs
<1>5. Query!Last(st) \in DOMAIN pos /\ pos[Query!Last(st)] = o
  BY <1>1, <1>4, TopIs, OneInnermost
<1>6. IsList(st) /\ IsList(pos)
  BY DEF Stacked, Numbered
<1> DEFINE s2 == Query!Front(st)
           l == Len(st)
<1>7. /\ IsList(s2) /\ l \in Nat \ {0} /\ DOMAIN st = 1..l /\ DOMAIN s2 = 1..(l - 1)
      /\ \A a \in 1..(l - 1) : s2[a] = st[a]
      /\ Query!Last(st) = st[l]
  BY <1>4, <1>6, FrontIs
<1>8. \A m : m \in DOMAIN st <=> m \in DOMAIN s2 \/ m = l
  BY <1>7
<1>9. DOMAIN pos = 1..Len(pos) /\ Len(pos) \in Nat
  BY <1>6, ListIs
<1> HIDE DEF s2, l
<1>10. ASSUME NEW m \in DOMAIN s2 PROVE /\ s2[m] = st[m] /\ m \in DOMAIN st /\ st[m] \in DOMAIN pos
                                        /\ pos[st[m]] \in Query!Around(q, g)
  <2>1. s2[m] = st[m] /\ m \in DOMAIN st /\ m < l /\ l \in DOMAIN st
    BY <1>7
  <2>2. st[m] \in DOMAIN pos /\ pos[st[m]] \in Query!Around(q, k) /\ st[m] < st[l]
    BY <2>1 DEF Stacked
  <2>3. pos[st[m]] < pos[st[l]]
    BY <1>5, <1>7, <2>2 DEF Numbered
  <2>4. pos[st[m]] # o
    <3>1. pos[st[m]] \in DOMAIN q.closes
      BY <2>2 DEF Query!Around
    <3>2. pos[st[m]] \in Nat
      BY <3>1, BracketsAre
    <3> QED
      BY <1>5, <1>7, <2>3, <3>2
  <2> QED
    BY <1>1, <2>1, <2>2, <2>4
<1>11. ASSUME NEW i \in DOMAIN s2, NEW j \in DOMAIN s2, i < j PROVE s2[i] < s2[j]
  BY <1>10, <1>11 DEF Stacked
<1>12. ASSUME NEW e \in DOMAIN pos, pos[e] \in Query!Around(q, g) PROVE \E m \in DOMAIN s2 : s2[m] = e
  <2>1. pos[e] \in Query!Around(q, k) /\ pos[e] # o
    BY <1>1, <1>12
  <2>2. PICK m \in DOMAIN st : st[m] = e
    BY <2>1 DEF Stacked
  <2>3. m # l
    BY <1>5, <1>7, <2>1, <2>2
  <2> QED
    BY <1>8, <1>10, <2>2, <2>3
<1>13. Stacked(q, g, pos, s2)
  BY <1>7, <1>10, <1>11, <1>12 DEF Stacked
<1> QED
  BY <1>2, <1>4, <1>5, <1>13 DEF s2

\* Where no bracket stands the stack stays.
LEMMA StackStays ==
  ASSUME NEW q \in Queries, NEW k \in 1..Len(q.tokens), k \notin DOMAIN q.closes, ~Closing(q, k), NEW g, g = k + 1,
         NEW pos, Numbered(q, k, pos), NEW st, Stacked(q, k, pos, st)
  PROVE  Numbered(q, g, pos) /\ Stacked(q, g, pos, st)
<1>1. Query!Around(q, g) = Query!Around(q, k)
  BY NoBracketHere
<1>2. k \in Nat
  BY BracketsAre
<1> QED
  BY <1>1, <1>2, NumbersStay DEF Stacked

-----------------------------------------------------------------------------
(* Queries: entries, selectors and what is awaited *)

\* A list with one element changed.
LEMMA ChangedIs ==
  ASSUME NEW s, IsList(s), NEW e \in DOMAIN s, NEW one
  PROVE  /\ IsList([s EXCEPT ![e] = one]) /\ Len([s EXCEPT ![e] = one]) = Len(s) /\ [s EXCEPT ![e] = one][e] = one
         /\ \A d \in DOMAIN s : d # e => [s EXCEPT ![e] = one][d] = s[d]
<1> DEFINE S == {s[k] : k \in DOMAIN s} \cup {one}
           t == [s EXCEPT ![e] = one]
<1>1. s \in Seq(S) /\ one \in S
  <2>1. s \in Seq({s[k] : k \in DOMAIN s})
    BY DEF IsList
  <2> QED
    BY <2>1
<1> HIDE DEF S
<1>2. Len(s) \in Nat /\ DOMAIN s = 1..Len(s) /\ e \in 1..Len(s)
  BY <1>1
<1>3. t \in Seq(S) /\ Len(t) = Len(s)
  BY <1>1, <1>2, ExceptSeq
<1>4. t[e] = one /\ \A d \in DOMAIN s : d # e => t[d] = s[d]
  BY <1>2
<1> HIDE DEF t
<1>5. t \in Seq({t[k] : k \in DOMAIN t})
  BY <1>3
<1>6. IsList(t)
  BY <1>5 DEF IsList
<1> QED
  BY <1>3, <1>4, <1>6 DEF t

\* No bracket is numbered twice.
LEMMA NumberedOnce ==
  ASSUME NEW q \in Queries, NEW k, NEW pos, Numbered(q, k, pos), NEW a \in DOMAIN pos, NEW e \in DOMAIN pos, a # e
  PROVE  pos[a] # pos[e]
<1>1. a < e \/ e < a
  <2>1. IsList(pos)
    BY DEF Numbered
  <2>2. Len(pos) \in Nat /\ DOMAIN pos = 1..Len(pos)
    BY <2>1, ListIs
  <2> QED
    BY <2>2
<1>2. PICK o \in DOMAIN q.closes : pos[a] = o
  BY DEF Numbered
<1>3. PICK p \in DOMAIN q.closes : pos[e] = p
  BY DEF Numbered
<1>4. o < p \/ p < o
  BY <1>1, <1>2, <1>3 DEF Numbered
<1>5. o \in Nat /\ p \in Nat
  BY BracketsAre
<1> QED
  BY <1>2, <1>3, <1>4, <1>5

\* An opening bracket's entry comes last.
LEMMA EntryPushed ==
  ASSUME NEW q \in Queries, NEW k \in DOMAIN q.closes, NEW g, g = k + 1, NEW pos, Numbered(q, k, pos),
         NEW en, Entered(q, k, pos, en), NEW one, one = EntryAt(q, k, g)
  PROVE  Entered(q, g, Append(pos, k), Append(en, one))
<1>1. IsList(pos) /\ IsList(en) /\ Len(en) = Len(pos) /\ k \in 1..Len(q.tokens)
  BY BracketsAre DEF Numbered, Entered
<1> DEFINE p2 == Append(pos, k)
           e2 == Append(en, one)
<1>2. /\ Len(pos) \in Nat /\ DOMAIN pos = 1..Len(pos) /\ DOMAIN p2 = 1..(Len(pos) + 1)
      /\ Len(p2) = Len(pos) + 1 /\ p2[Len(pos) + 1] = k /\ \A a \in DOMAIN pos : p2[a] = pos[a]
  BY <1>1, AppendIs
<1>3. /\ IsList(e2) /\ DOMAIN en = 1..Len(pos) /\ Len(e2) = Len(pos) + 1
      /\ e2[Len(pos) + 1] = one /\ \A a \in DOMAIN en : e2[a] = en[a]
  BY <1>1, AppendIs
<1> HIDE DEF p2, e2
<1>4. ASSUME NEW a \in DOMAIN pos PROVE e2[a] = EntryAt(q, p2[a], g)
  <2>1. pos[a] \in DOMAIN q.closes /\ en[a] = EntryAt(q, pos[a], k)
    BY DEF Numbered, Entered
  <2>2. ~Query!MarkAt(q, k, ",")
    <3>1. Opening(q, k)
      BY BracketsAre
    <3> QED
      BY <3>1, MarkIs DEF Opening
  <2>3. q.closes[pos[a]] # k
    <3> SUFFICES ASSUME q.closes[pos[a]] = k PROVE FALSE
      OBVIOUS
    <3>1. Pair(q, pos[a], k)
      BY <2>1, BracketsAre
    <3> QED
      BY <3>1, BracketsAre DEF Pair, Closing
  <2>4. EntryAt(q, pos[a], g) = EntryAt(q, pos[a], k)
    BY <1>1, <2>1, <2>2, <2>3, EntryGoesOn
  <2> QED
    BY <1>2, <1>3, <2>1, <2>4
<1>5. \A a \in DOMAIN p2 : a \in DOMAIN pos \/ a = Len(pos) + 1
  BY <1>2
<1>6. \A a \in DOMAIN p2 : e2[a] = EntryAt(q, p2[a], g)
  BY <1>2, <1>3, <1>4, <1>5
<1>7. Entered(q, g, p2, e2)
  BY <1>2, <1>3, <1>6 DEF Entered
<1> QED
  BY <1>7 DEF p2, e2

\* A token that neither closes nor counts leaves the entries as they are.
LEMMA EntriesStay ==
  ASSUME NEW q \in Queries, NEW k \in 1..Len(q.tokens), NEW g, g = k + 1, NEW pos, Numbered(q, k, pos),
         NEW en, Entered(q, k, pos, en), ~Closing(q, k),
         \A o \in DOMAIN q.closes : ~(Query!MarkAt(q, k, ",") /\ Query!DirectlyIn(q, k, o) /\ Query!IsCall(q, o))
  PROVE  Entered(q, g, pos, en)
<1>1. ASSUME NEW a \in DOMAIN pos PROVE en[a] = EntryAt(q, pos[a], g)
  <2>1. pos[a] \in DOMAIN q.closes /\ en[a] = EntryAt(q, pos[a], k)
    BY DEF Numbered, Entered
  <2>3. q.closes[pos[a]] # k
    <3> SUFFICES ASSUME q.closes[pos[a]] = k PROVE FALSE
      OBVIOUS
    <3>1. Pair(q, pos[a], k)
      BY <2>1, BracketsAre
    <3> QED
      BY <3>1 DEF Pair, Closing
  <2>4. EntryAt(q, pos[a], g) = EntryAt(q, pos[a], k)
    BY <2>1, <2>3, EntryGoesOn
  <2> QED
    BY <2>1, <2>4
<1> QED
  BY <1>1 DEF Entered

\* A comma counts for the call it is directly in.
LEMMA EntryCounts ==
  ASSUME NEW q \in Queries, NEW k \in 1..Len(q.tokens), NEW g, g = k + 1, NEW pos, Numbered(q, k, pos),
         NEW en, Entered(q, k, pos, en), NEW e \in DOMAIN pos, NEW o \in DOMAIN q.closes, pos[e] = o,
         Query!MarkAt(q, k, ","), Query!DirectlyIn(q, k, o), Query!IsCall(q, o)
  PROVE  Entered(q, g, pos, [en EXCEPT ![e].args = @ + 1])
<1> DEFINE one == OneArgMore(en[e])
           e2 == [en EXCEPT ![e] = one]
<1>1. IsList(pos) /\ IsList(en) /\ Len(en) = Len(pos) /\ en[e] = EntryAt(q, o, k) /\ o \in DOMAIN q.closes
  BY DEF Numbered, Entered
<1>2. DOMAIN pos = 1..Len(pos) /\ DOMAIN en = 1..Len(pos)
  BY <1>1, ListIs
<1>3. [en EXCEPT ![e].args = @ + 1] = e2
  BY <1>2 DEF OneArgMore
<1>4. IsList(e2) /\ Len(e2) = Len(en) /\ e2[e] = one /\ \A d \in DOMAIN en : d # e => e2[d] = en[d]
  <2> HIDE DEF one
  <2>1. e \in DOMAIN en
    BY <1>2
  <2> QED
    BY <1>1, <2>1, ChangedIs
<1>5. one = EntryAt(q, o, g)
  <2>1. EntryAt(q, o, g) = OneArgMore(EntryAt(q, o, k))
    BY EntryGoesOn
  <2> QED
    BY <1>1, <2>1
<1> HIDE DEF one, e2
<1>6. ASSUME NEW a \in DOMAIN pos, a # e PROVE e2[a] = EntryAt(q, pos[a], g)
  <2>1. pos[a] \in DOMAIN q.closes /\ en[a] = EntryAt(q, pos[a], k)
    BY DEF Numbered, Entered
  <2>2. pos[a] # o
    BY <1>6, NumberedOnce
  <2>3. ~Query!DirectlyIn(q, k, pos[a])
    BY <2>2, OneInnermost
  <2>4. q.closes[pos[a]] # k
    <3> SUFFICES ASSUME q.closes[pos[a]] = k PROVE FALSE
      OBVIOUS
    <3>1. Pair(q, pos[a], k)
      BY <2>1, BracketsAre
    <3> QED
      BY <3>1, MarkIs DEF Pair
  <2>5. EntryAt(q, pos[a], g) = EntryAt(q, pos[a], k)
    BY <2>1, <2>3, <2>4, EntryGoesOn
  <2> QED
    BY <1>2, <1>4, <1>6, <2>1, <2>5
<1>7. Entered(q, g, pos, e2)
  BY <1>1, <1>4, <1>5, <1>6 DEF Entered
<1> QED
  BY <1>3, <1>7

\* A closing bracket settles whether a range aggregation aggregates.
LEMMA EntryCloses ==
  ASSUME NEW q \in Queries, NEW k \in 1..Len(q.tokens), NEW g, g = k + 1, NEW pos, Numbered(q, k, pos),
         NEW en, Entered(q, k, pos, en), NEW e \in DOMAIN pos, NEW o \in DOMAIN q.closes, pos[e] = o, q.closes[o] = k
  PROVE  Entered(q, g, pos, IF /\ Query!IsCall(q, o) /\ Query!Callee(q, o) \in RANGE_AGGREGATIONS
                               /\ Query!TextAt(q, g) \in {"by", "without"}
                            THEN [en EXCEPT ![e].agg = TRUE] ELSE en)
<1> DEFINE cond == /\ Query!IsCall(q, o) /\ Query!Callee(q, o) \in RANGE_AGGREGATIONS
                   /\ Query!TextAt(q, g) \in {"by", "without"}
           one == Settled(en[e])
           e2 == [en EXCEPT ![e] = one]
<1>1. IsList(pos) /\ IsList(en) /\ Len(en) = Len(pos) /\ en[e] = EntryAt(q, o, k)
  BY DEF Numbered, Entered
<1>2. DOMAIN pos = 1..Len(pos) /\ DOMAIN en = 1..Len(pos)
  BY <1>1, ListIs
<1>3. [en EXCEPT ![e].agg = TRUE] = e2
  BY <1>2 DEF Settled
<1>4. IsList(e2) /\ Len(e2) = Len(en) /\ e2[e] = one /\ \A d \in DOMAIN en : d # e => e2[d] = en[d]
  <2> HIDE DEF one
  <2>1. e \in DOMAIN en
    BY <1>2
  <2> QED
    BY <1>1, <2>1, ChangedIs
<1>5. EntryAt(q, o, g) = IF cond THEN one ELSE en[e]
  <2>1. EntryAt(q, o, g) = IF cond THEN Settled(EntryAt(q, o, k)) ELSE EntryAt(q, o, k)
    BY EntryGoesOn
  <2> HIDE DEF cond
  <2> QED
    BY <1>1, <2>1
<1> HIDE DEF one, e2, cond
<1>6. ASSUME NEW a \in DOMAIN pos, a # e PROVE en[a] = EntryAt(q, pos[a], g)
  <2>1. pos[a] \in DOMAIN q.closes /\ en[a] = EntryAt(q, pos[a], k)
    BY DEF Numbered, Entered
  <2>2. pos[a] # o
    BY <1>6, NumberedOnce
  <2>3. ~Query!MarkAt(q, k, ",")
    <3>1. Pair(q, o, k)
      BY BracketsAre
    <3> QED
      BY <3>1, MarkIs DEF Pair
  <2>4. q.closes[pos[a]] # k
    BY <2>1, <2>2, BracketsAre
  <2>5. EntryAt(q, pos[a], g) = EntryAt(q, pos[a], k)
    BY <2>1, <2>3, <2>4, EntryGoesOn
  <2> QED
    BY <2>1, <2>5
<1>7. Entered(q, g, pos, IF cond THEN e2 ELSE en)
  <2>1. CASE cond
    <3>1. \A a \in DOMAIN pos : e2[a] = EntryAt(q, pos[a], g)
      BY <1>2, <1>4, <1>5, <1>6, <2>1
    <3> QED
      BY <1>1, <1>4, <2>1, <3>1 DEF Entered
  <2>2. CASE ~cond
    <3>1. \A a \in DOMAIN pos : en[a] = EntryAt(q, pos[a], g)
      BY <1>5, <1>6, <2>2
    <3> QED
      BY <1>1, <2>2, <3>1 DEF Entered
  <2> QED
    BY <2>1, <2>2
<1> QED
  BY <1>3, <1>7 DEF cond

\* Awaited is the aggregation whose arguments are still to come.
Awaits(q, k, aw) ==
  \/ aw = <<>> /\ AwaitedAt(q, k) = {}
  \/ \E a \in AwaitedAt(q, k) : aw = <<Query!TextAt(q, a)>>

\* It stays awaited until its arguments open.
LEMMA AwaitStays ==
  ASSUME NEW q \in Queries, NEW k \in 1..Len(q.tokens), NEW g, g = k + 1, NEW aw, Awaits(q, k, aw),
         ~Query!GroupedFirst(q, k), Query!Applied(q, k) = {}
  PROVE  Awaits(q, g, aw)
<1>1. AwaitedAt(q, g) = AwaitedAt(q, k)
  BY AwaitedNext
<1> QED
  BY <1>1 DEF Awaits

\* It is awaited from its name on.
LEMMA AwaitBegins ==
  ASSUME NEW q \in Queries, NEW k \in 1..Len(q.tokens), NEW g, g = k + 1, NEW aw, Awaits(q, k, aw),
         Query!GroupedFirst(q, k)
  PROVE  Awaits(q, g, Append(aw, Query!TextAt(q, k)))
<1>1. AwaitedAt(q, k) = {} /\ AwaitedAt(q, g) = {k}
  BY AwaitedNext
<1>2. aw = <<>>
  BY <1>1 DEF Awaits
<1>3. Append(aw, Query!TextAt(q, k)) = <<Query!TextAt(q, k)>>
  BY <1>2
<1> QED
  BY <1>1, <1>3 DEF Awaits

\* Its arguments are the next round bracket that is no list.
LEMMA AwaitEnds ==
  ASSUME NEW q \in Queries, NEW k \in 1..Len(q.tokens), NEW g, g = k + 1, NEW aw, Awaits(q, k, aw),
         Query!Applied(q, k) # {}
  PROVE  /\ aw # <<>> /\ Query!Last(aw) = Query!Callee(q, k) /\ Awaits(q, g, Query!Front(aw))
         /\ Query!Callee(q, k) \in AGGREGATIONS
<1>1. PICK a : a \in Query!Applied(q, k)
  OBVIOUS
<1>2. Query!Applied(q, k) = {a} /\ Query!MarkAt(q, k, "(") /\ ~Query!Function(q, k)
  BY <1>1, AppliedIs
<1>3. ~Query!GroupedFirst(q, k)
  BY <1>2, MarkIs DEF Query!GroupedFirst
<1>4. AwaitedAt(q, k) = {a} /\ AwaitedAt(q, g) = {}
  BY <1>2, <1>3, AwaitedNext
<1>5. aw = <<Query!TextAt(q, a)>>
  BY <1>4 DEF Awaits
<1>6. Query!Callee(q, k) = Query!TextAt(q, a)
  BY <1>2 DEF Query!Callee
<1>7. Query!TextAt(q, a) \in AGGREGATIONS
  BY <1>1 DEF Query!Applied, Query!GroupedFirst
<1>8. aw # <<>> /\ Query!Last(aw) = Query!TextAt(q, a) /\ Query!Front(aw) = <<>>
  BY <1>5 DEF Query!Last, Query!Front
<1> QED
  BY <1>4, <1>6, <1>7, <1>8 DEF Awaits

\* A round bracket of nothing else opens while none is awaited.
LEMMA AwaitsNone ==
  ASSUME NEW q \in Queries, NEW k \in 1..Len(q.tokens), NEW aw, Awaits(q, k, aw),
         Query!MarkAt(q, k, "("), ~Query!List(q, k), Query!Applied(q, k) = {}
  PROVE  aw = <<>>
<1> SUFFICES ASSUME aw # <<>> PROVE FALSE
  OBVIOUS
<1>1. PICK a : a \in AwaitedAt(q, k)
  BY DEF Awaits
<1>2. k = Query!Arguments(q, a)
  BY <1>1, BetweenIs, MarkIs
<1>3. a \in Query!Applied(q, k)
  BY <1>1, <1>2 DEF AwaitedAt, Query!Applied
<1> QED
  BY <1>3

\* A selector as it is noted: its name and the entries around it.
NotedAs(q, n, pos, sel) ==
  sel = [name |-> Query!TextAt(q, n), around |-> {e \in DOMAIN pos : pos[e] \in Query!Around(q, n)}]

\* The selectors noted are the series read before token k.
Selected(q, k, pos, se) ==
  /\ IsList(se)
  /\ \A s \in DOMAIN se : \E n \in 1..(k - 1) : Query!SeriesAt(q, n) /\ NotedAs(q, n, pos, se[s])
  /\ \A n \in 1..(k - 1) : Query!SeriesAt(q, n) => \E s \in DOMAIN se : NotedAs(q, n, pos, se[s])

\* The stack holds the entries around the token.
LEMMA StackIsAround ==
  ASSUME NEW q, NEW k, NEW pos, NEW st, Stacked(q, k, pos, st)
  PROVE  Query!ToSet(st) = {e \in DOMAIN pos : pos[e] \in Query!Around(q, k)}
<1>1. \A n \in DOMAIN st : st[n] \in DOMAIN pos /\ pos[st[n]] \in Query!Around(q, k)
  BY DEF Stacked
<1>2. \A e \in DOMAIN pos : pos[e] \in Query!Around(q, k) => \E n \in DOMAIN st : st[n] = e
  BY DEF Stacked
<1>3. Query!ToSet(st) = {st[n] : n \in DOMAIN st}
  BY DEF Query!ToSet
<1> QED
  BY <1>1, <1>2, <1>3

\* What is noted stays noted, when nothing is read.
LEMMA SelectedStays ==
  ASSUME NEW q \in Queries, NEW k \in 1..Len(q.tokens), NEW g, g = k + 1, NEW pos,
         NEW se, Selected(q, k, pos, se), ~Query!SeriesAt(q, k)
  PROVE  Selected(q, g, pos, se)
<1>1. \A n : n \in 1..(g - 1) <=> n \in 1..(k - 1) \/ n = k
  BY BracketsAre
<1> QED
  BY <1>1 DEF Selected

\* And when a series is, it is noted last.
LEMMA SelectedAdds ==
  ASSUME NEW q \in Queries, NEW k \in 1..Len(q.tokens), NEW g, g = k + 1, NEW pos,
         NEW se, Selected(q, k, pos, se), Query!SeriesAt(q, k), NEW sel, NotedAs(q, k, pos, sel)
  PROVE  Selected(q, g, pos, Append(se, sel))
<1>1. \A n : n \in 1..(g - 1) <=> n \in 1..(k - 1) \/ n = k
  BY BracketsAre
<1> DEFINE s2 == Append(se, sel)
<1>2. IsList(se)
  BY DEF Selected
<1>3. PICK l : l = Len(se) + 1
  OBVIOUS
<1>4. /\ IsList(s2) /\ Len(se) \in Nat /\ DOMAIN se = 1..Len(se) /\ DOMAIN s2 = 1..l
      /\ s2[l] = sel /\ \A s \in DOMAIN se : s2[s] = se[s]
  BY <1>2, <1>3, AppendIs
<1>5. \A s : s \in DOMAIN s2 <=> s \in DOMAIN se \/ s = l
  BY <1>3, <1>4
<1> HIDE DEF s2
<1>6. ASSUME NEW s \in DOMAIN s2 PROVE \E n \in 1..(g - 1) : Query!SeriesAt(q, n) /\ NotedAs(q, n, pos, s2[s])
  <2>1. CASE s = l
    BY <1>1, <1>4, <2>1
  <2>2. CASE s \in DOMAIN se
    <3>1. PICK n \in 1..(k - 1) : Query!SeriesAt(q, n) /\ NotedAs(q, n, pos, se[s])
      BY <2>2 DEF Selected
    <3> QED
      BY <1>1, <1>4, <2>2, <3>1
  <2> QED
    BY <1>5, <2>1, <2>2
<1>7. ASSUME NEW n \in 1..(g - 1), Query!SeriesAt(q, n) PROVE \E s \in DOMAIN s2 : NotedAs(q, n, pos, s2[s])
  <2>1. CASE n = k
    BY <1>4, <1>5, <2>1
  <2>2. CASE n \in 1..(k - 1)
    <3>1. PICK s \in DOMAIN se : NotedAs(q, n, pos, se[s])
      BY <1>7, <2>2 DEF Selected
    <3> QED
      BY <1>4, <1>5, <3>1
  <2> QED
    BY <1>1, <1>7, <2>1, <2>2
<1>8. Selected(q, g, pos, s2)
  BY <1>4, <1>6, <1>7 DEF Selected
<1> QED
  BY <1>8 DEF s2

\* An opening bracket is around nothing read before it.
LEMMA SelectedPushed ==
  ASSUME NEW q \in Queries, NEW k \in DOMAIN q.closes, NEW g, g = k + 1, NEW pos, Numbered(q, k, pos),
         NEW se, Selected(q, g, pos, se)
  PROVE  Selected(q, g, Append(pos, k), se)
<1>0. IsList(pos) /\ k \in 1..Len(q.tokens) /\ Len(q.tokens) \in Nat
  BY BracketsAre DEF Numbered
<1> DEFINE p2 == Append(pos, k)
<1>1. PICK l : l = Len(pos) + 1
  OBVIOUS
<1>2. /\ Len(pos) \in Nat /\ DOMAIN pos = 1..Len(pos) /\ DOMAIN p2 = 1..l
      /\ p2[l] = k /\ \A a \in DOMAIN pos : p2[a] = pos[a]
  BY <1>0, <1>1, AppendIs
<1>3. \A e : e \in DOMAIN p2 <=> e \in DOMAIN pos \/ e = l
  BY <1>1, <1>2
<1> HIDE DEF p2
<1>4. ASSUME NEW n \in 1..(g - 1), NEW sel, NotedAs(q, n, pos, sel) PROVE NotedAs(q, n, p2, sel)
  <2>1. k \notin Query!Around(q, n)
    BY <1>0, <1>4 DEF Query!Around
  <2>2. {e \in DOMAIN p2 : p2[e] \in Query!Around(q, n)} = {e \in DOMAIN pos : pos[e] \in Query!Around(q, n)}
    BY <1>2, <1>3, <2>1
  <2> QED
    BY <1>4, <2>2 DEF NotedAs
<1>5. Selected(q, g, p2, se)
  BY <1>4 DEF Selected
<1> QED
  BY <1>5 DEF p2

-----------------------------------------------------------------------------
(* Queries: the walk at a token *)

\* The entry a bracket opens with.
LEMMA OpensList ==
  ASSUME NEW q \in Queries, NEW k \in DOMAIN q.closes, NEW g, g = k + 1, Query!List(q, k)
  PROVE  EntryAt(q, k, g) = Query!Entry("group", "", FALSE)
<1>1. Kind(q, k) = "group" /\ ~Query!IsCall(q, k)
  BY KindIs, CallIs
<1>2. EntryAt(q, k, g) =
        [kind |-> Kind(q, k), name |-> IF Query!IsCall(q, k) THEN Query!Callee(q, k) ELSE "",
         agg |-> Query!IsCall(q, k) /\ Query!Callee(q, k) \in AGGREGATIONS, args |-> 0]
  BY EntryOpens
<1> QED
  BY <1>1, <1>2 DEF Query!Entry

\* And one of a call, or of neither.
LEMMA OpensCall ==
  ASSUME NEW q \in Queries, NEW k \in DOMAIN q.closes, NEW g, g = k + 1, Query!IsCall(q, k)
  PROVE  EntryAt(q, k, g) = Query!Entry("call", Query!Callee(q, k), Query!Callee(q, k) \in AGGREGATIONS)
<1>1. Kind(q, k) = "call"
  BY CallIs
<1>2. EntryAt(q, k, g) =
        [kind |-> Kind(q, k), name |-> IF Query!IsCall(q, k) THEN Query!Callee(q, k) ELSE "",
         agg |-> Query!IsCall(q, k) /\ Query!Callee(q, k) \in AGGREGATIONS, args |-> 0]
  BY EntryOpens
<1> QED
  BY <1>1, <1>2 DEF Query!Entry

\* One of no call has no name and does not aggregate.
LEMMA OpensNoCall ==
  ASSUME NEW q \in Queries, NEW k \in DOMAIN q.closes, NEW g, g = k + 1, ~Query!IsCall(q, k)
  PROVE  EntryAt(q, k, g) = Query!Entry(Kind(q, k), "", FALSE)
<1>2. EntryAt(q, k, g) =
        [kind |-> Kind(q, k), name |-> IF Query!IsCall(q, k) THEN Query!Callee(q, k) ELSE "",
         agg |-> Query!IsCall(q, k) /\ Query!Callee(q, k) \in AGGREGATIONS, args |-> 0]
  BY EntryOpens
<1> QED
  BY <1>2 DEF Query!Entry

\* What the walk keeps, when it has come to token k.
Walked(q, k, pos, st, en, se, aw) ==
  /\ Numbered(q, k, pos) /\ Stacked(q, k, pos, st) /\ Entered(q, k, pos, en)
  /\ Selected(q, k, pos, se) /\ Awaits(q, k, aw)

\* A token that leaves nothing out and names nothing unlisted.
Clean(q, k) ==
  /\ ~Query!LeavesOut(q, k)
  /\ Query!NamedAt(q, k) => Query!TextAt(q, k) \in LOCAL_LABELS

\* A token that is neither a word nor a string names nothing.
LEMMA MarksAreClean ==
  ASSUME NEW q, NEW k, ~Query!WordAt(q, k), k \in DOMAIN q.tokens => q.tokens[k][1] # "string"
  PROVE  /\ Clean(q, k) /\ ~Query!GroupedFirst(q, k)
         /\ Query!SeriesAt(q, k) <=> Query!MarkAt(q, k, "{") /\ ~Query!InBracesAt(q, k)
<1>1. \A o : ~Query!StringOf(q, k, o)
  BY DEF Query!StringOf
<1>2. ~Query!CreatedAt(q, k) /\ ~Query!ReadAt(q, k)
  BY <1>1 DEF Query!CreatedAt, Query!ReadAt
<1>3. ~Query!NamedAt(q, k) /\ ~Query!LeavesOut(q, k)
  BY <1>2 DEF Query!NamedAt, Query!LeavesOut
<1>4. ~Query!NameAlone(q, k) /\ ~Query!GroupedFirst(q, k)
  BY DEF Query!NameAlone, Query!GroupedFirst
<1> QED
  BY <1>3, <1>4 DEF Clean, Query!SeriesAt

\* The token looked at, and those next to it.
LEMMA TokenIs ==
  ASSUME query \in Queries, token \in 1..Len(query.tokens)
  PROVE  /\ token \in DOMAIN query.tokens /\ Query!Tok = query.tokens[token]
         /\ Query!Text(Query!Tok) = Query!TextAt(query, token)
         /\ Query!IsName(Query!Tok) <=> Query!WordAt(query, token)
         /\ \A m : Query!Is(Query!Tok, m) <=> Query!MarkAt(query, token, m)
<1>1. token \in DOMAIN query.tokens
  BY BracketsAre
<1> QED
  BY <1>1 DEF Query!Tok, Query!tokens, Query!TextAt, Query!WordAt, Query!MarkAt

\* The token before it.
LEMMA PrevIs ==
  ASSUME query \in Queries, token \in 1..Len(query.tokens), NEW h, h = token - 1
  PROVE  /\ Query!Text(Query!Prev) = Query!TextAt(query, h)
         /\ Query!IsName(Query!Prev) <=> Query!WordAt(query, h)
<1>0. DOMAIN query.tokens = 1..Len(query.tokens) /\ Len(query.tokens) \in Nat
  BY BracketsAre
<1>1. CASE token > 1
  <2>1. h \in DOMAIN query.tokens /\ Query!Prev = query.tokens[h]
    BY <1>0, <1>1 DEF Query!Prev, Query!tokens
  <2> QED
    BY <2>1 DEF Query!TextAt, Query!WordAt
<1>2. CASE ~(token > 1)
  <2>1. h \notin DOMAIN query.tokens
    BY <1>0, <1>2
  <2>2. Query!Prev = <<"end", "">>
    BY <1>2 DEF Query!Prev
  <2> QED
    BY <2>1, <2>2 DEF Query!TextAt, Query!WordAt, Query!Text, Query!IsName
<1> QED
  BY <1>1, <1>2

\* The token behind it.
LEMMA NextIs ==
  ASSUME query \in Queries, token \in 1..Len(query.tokens), NEW g, g = token + 1
  PROVE  /\ Query!Text(Query!Next1) = Query!TextAt(query, g)
         /\ \A m : Query!Is(Query!Next1, m) <=> Query!MarkAt(query, g, m)
<1>0. DOMAIN query.tokens = 1..Len(query.tokens) /\ Len(query.tokens) \in Nat
  BY BracketsAre
<1>1. CASE token < Len(query.tokens)
  <2>1. g \in DOMAIN query.tokens /\ Query!Next1 = query.tokens[g]
    BY <1>0, <1>1 DEF Query!Next1, Query!tokens
  <2> QED
    BY <2>1 DEF Query!TextAt, Query!MarkAt
<1>2. CASE ~(token < Len(query.tokens))
  <2>1. g \notin DOMAIN query.tokens
    BY <1>0, <1>2
  <2>2. Query!Next1 = <<"end", "">>
    BY <1>2 DEF Query!Next1, Query!tokens
  <2> QED
    BY <2>1, <2>2 DEF Query!TextAt, Query!MarkAt, Query!Text, Query!Is
<1> QED
  BY <1>1, <1>2

\* A round bracket: a list's, a function's, or of neither.
LEMMA RoundIs ==
  ASSUME query \in Queries, token \in 1..Len(query.tokens), Query!MarkAt(query, token, "(")
  PROVE  /\ Query!List(query, token) <=> Query!Text(Query!Prev) \in Query!GROUPING
         /\ Query!Function(query, token) <=>
              /\ Query!Text(Query!Prev) \notin Query!GROUPING /\ Query!IsName(Query!Prev)
              /\ Query!Text(Query!Prev) \notin Query!KEYWORDS
         /\ Query!Function(query, token) => Query!Callee(query, token) = Query!Text(Query!Prev)
<1>1. PICK h : h = token - 1
  OBVIOUS
<1>2. /\ Query!Text(Query!Prev) = Query!TextAt(query, h)
      /\ Query!IsName(Query!Prev) <=> Query!WordAt(query, h)
  BY <1>1, PrevIs
<1>3. Query!List(query, token) <=> Query!TextAt(query, h) \in Query!GROUPING
  BY <1>1 DEF Query!List
<1>4. Query!Function(query, token) <=>
        ~Query!List(query, token) /\ Query!WordAt(query, h) /\ Query!TextAt(query, h) \notin Query!KEYWORDS
  BY <1>1 DEF Query!Function
<1>5. Query!Function(query, token) => Query!Callee(query, token) = Query!TextAt(query, h)
  BY <1>1 DEF Query!Callee
<1> QED
  BY <1>2, <1>3, <1>4, <1>5

\* The top of the stack is the entry of the innermost bracket.
LEMMA TopOf ==
  ASSUME query \in Queries, token \in 1..Len(query.tokens), NEW pos,
         Walked(query, token, pos, stack, entries, selectors, awaiting)
  PROVE  /\ stack = <<>> => Query!Around(query, token) = {} /\ Query!Top.kind = "none"
         /\ stack # <<>> => \E o \in Query!Around(query, token) :
              /\ Query!Last(stack) \in DOMAIN pos /\ pos[Query!Last(stack)] = o
              /\ Query!DirectlyIn(query, token, o) /\ Query!Top = EntryAt(query, o, token)
<1>0. /\ Numbered(query, token, pos) /\ Stacked(query, token, pos, stack)
      /\ Entered(query, token, pos, entries) /\ token \in Nat
  BY BracketsAre DEF Walked
<1>1. CASE stack = <<>>
  <2>1. Query!Around(query, token) = {}
    BY <1>0, <1>1, TopIs
  <2>2. Query!Top = [kind |-> "none", name |-> "", agg |-> FALSE, args |-> 0]
    BY <1>1 DEF Query!Top
  <2> QED
    BY <1>1, <2>1, <2>2
<1>2. CASE stack # <<>>
  <2>1. PICK l : l = Query!Last(stack)
    OBVIOUS
  <2>2. l \in DOMAIN pos /\ Query!DirectlyIn(query, token, pos[l])
    BY <1>0, <1>2, <2>1, TopIs
  <2>3. Query!Top = entries[l]
    BY <1>2, <2>1 DEF Query!Top
  <2>4. entries[l] = EntryAt(query, pos[l], token)
    BY <1>0, <2>2 DEF Entered
  <2>5. pos[l] \in Query!Around(query, token)
    BY <2>2 DEF Query!DirectlyIn
  <2> QED
    BY <1>2, <2>1, <2>2, <2>3, <2>4, <2>5
<1> QED
  BY <1>1, <1>2

\* What is asked of it: in a list, in a range, and anywhere inside braces.
LEMMA InsideIs ==
  ASSUME query \in Queries, token \in 1..Len(query.tokens), NEW pos,
         Walked(query, token, pos, stack, entries, selectors, awaiting)
  PROVE  /\ Query!InGroup <=> Query!InList(query, token)
         /\ Query!Top.kind = "range" <=> Query!InMark(query, token, "[")
         /\ Query!InBraces <=> Query!InBracesAt(query, token)
<1>1. CASE stack = <<>>
  <2>1. Query!Around(query, token) = {} /\ Query!Top.kind = "none"
    BY <1>1, TopOf
  <2>2. DOMAIN stack = {}
    BY <1>1
  <2> QED
    BY <2>1, <2>2 DEF Query!InGroup, Query!InList, Query!InMark, Query!InBraces, Query!InBracesAt
<1>2. CASE stack # <<>>
  <2>1. PICK o \in Query!Around(query, token) :
           Query!DirectlyIn(query, token, o) /\ Query!Top = EntryAt(query, o, token)
    BY <1>2, TopOf
  <2>2. Query!Top.kind = Kind(query, o)
    BY <2>1 DEF EntryAt
  <2>3. \A p : Query!DirectlyIn(query, token, p) => p = o
    BY <2>1, OneInnermost
  <2>4. Query!InList(query, token) <=> Query!List(query, o)
    BY <2>1, <2>3 DEF Query!InList
  <2>5. Query!InMark(query, token, "[") <=> Query!MarkAt(query, o, "[")
    BY <2>1, <2>3 DEF Query!InMark
  <2>6. Kind(query, o) = "group" <=> Query!List(query, o)
    BY KindIs
  <2>7. Kind(query, o) = "range" <=> Query!MarkAt(query, o, "[")
    BY KindIs
  <2>8. Query!InBraces <=> Query!InBracesAt(query, token)
    <3>1. /\ Numbered(query, token, pos) /\ Stacked(query, token, pos, stack)
          /\ Entered(query, token, pos, entries)
      BY DEF Walked
    <3>2. \A e \in DOMAIN pos : entries[e].kind = "brace" <=> Query!MarkAt(query, pos[e], "{")
      <4>1. ASSUME NEW e \in DOMAIN pos PROVE entries[e].kind = Kind(query, pos[e])
        <5>1. entries[e] = EntryAt(query, pos[e], token)
          BY <3>1 DEF Entered
        <5>2. EntryAt(query, pos[e], token).kind = Kind(query, pos[e])
          BY DEF EntryAt
        <5> QED
          BY <5>1, <5>2
      <4> QED
        BY <4>1, KindIs
    <3>3. ASSUME Query!InBraces PROVE Query!InBracesAt(query, token)
      <4>1. PICK n \in DOMAIN stack : entries[stack[n]].kind = "brace"
        BY <3>3 DEF Query!InBraces
      <4>2. stack[n] \in DOMAIN pos /\ pos[stack[n]] \in Query!Around(query, token)
        BY <3>1 DEF Stacked
      <4> QED
        BY <3>2, <4>1, <4>2 DEF Query!InBracesAt
    <3>4. ASSUME Query!InBracesAt(query, token) PROVE Query!InBraces
      <4>1. PICK p \in Query!Around(query, token) : Query!MarkAt(query, p, "{")
        BY <3>4 DEF Query!InBracesAt
      <4>2. p \in DOMAIN query.closes /\ p < token
        BY DEF Query!Around
      <4>3. PICK e \in DOMAIN pos : pos[e] = p
        BY <3>1, <4>2 DEF Numbered
      <4>4. PICK n \in DOMAIN stack : stack[n] = e
        BY <3>1, <4>3 DEF Stacked
      <4> QED
        BY <3>2, <4>1, <4>3, <4>4 DEF Query!InBraces
    <3> QED
      BY <3>3, <3>4
  <2> QED
    BY <2>2, <2>4, <2>5, <2>6, <2>7, <2>8 DEF Query!InGroup
<1> QED
  BY <1>1, <1>2

-----------------------------------------------------------------------------
(* Queries: one token further *)

\* What may be found, and what a token's step leaves behind.
Found == {"log query", "instance", "bare parser", "names a label", "without", "creates a label",
          "reads a label", "bare selector"}

Further(q, k, g) ==
  /\ \E pos : Walked(q, g, pos, stack', entries', selectors', awaiting')
  /\ \E found \in SUBSET Found : query_problems' = query_problems \cup found /\ (found = {} <=> Clean(q, k))

\* A mark is clean: what it leaves behind is what was found before it.
LEMMA MarkGoes ==
  ASSUME NEW q, NEW k, NEW g, Clean(q, k), query_problems' = query_problems,
         NEW pos, Walked(q, g, pos, stack', entries', selectors', awaiting')
  PROVE  Further(q, k, g)
<1>1. query_problems' = query_problems \cup {} /\ {} \in SUBSET Found
  OBVIOUS
<1> QED
  BY <1>1 DEF Further

\* A bracket opens.
LEMMA OpensAt ==
  ASSUME query \in Queries, token \in DOMAIN query.closes, NEW g, g = token + 1, NEW pos,
         Walked(query, token, pos, stack, entries, selectors, awaiting),
         NEW one, one = EntryAt(query, token, g), Query!Push(one),
         Selected(query, g, pos, selectors'), Awaits(query, g, awaiting'), query_problems' = query_problems
  PROVE  Further(query, token, g)
<1>0. /\ Numbered(query, token, pos) /\ Stacked(query, token, pos, stack)
      /\ Entered(query, token, pos, entries)
  BY DEF Walked
<1>1. entries' = Append(entries, one) /\ stack' = Append(stack, Len(entries) + 1) /\ Len(entries) = Len(pos)
  BY <1>0 DEF Query!Push, Entered
<1>2. PICK n : n = Len(pos) + 1
  OBVIOUS
<1>3. Numbered(query, g, Append(pos, token)) /\ Stacked(query, g, Append(pos, token), Append(stack, n))
  BY <1>0, <1>2, Pushed
<1>4. Entered(query, g, Append(pos, token), Append(entries, one))
  BY <1>0, EntryPushed
<1>5. Selected(query, g, Append(pos, token), selectors')
  BY <1>0, SelectedPushed
<1>6. stack' = Append(stack, n)
  BY <1>1, <1>2
<1>7. Walked(query, g, Append(pos, token), stack', entries', selectors', awaiting')
  BY <1>1, <1>3, <1>4, <1>5, <1>6 DEF Walked
<1>8. Clean(query, token)
  <2>1. Opening(query, token)
    BY BracketsAre
  <2>2. ~Query!WordAt(query, token) /\ query.tokens[token][1] # "string"
    BY <2>1, MarkIs DEF Opening
  <2> QED
    BY <2>2, MarksAreClean
<1> QED
  BY <1>7, <1>8, MarkGoes

\* "(".
LEMMA OpensRound ==
  ASSUME query \in Queries, token \in 1..Len(query.tokens), NEW g, g = token + 1, NEW pos,
         Walked(query, token, pos, stack, entries, selectors, awaiting), Query!OpenParen
  PROVE  Further(query, token, g)
<1>0. Selected(query, token, pos, selectors) /\ Awaits(query, token, awaiting)
  BY DEF Walked
<1>1. Query!MarkAt(query, token, "(") /\ selectors' = selectors /\ query_problems' = query_problems
  BY TokenIs DEF Query!OpenParen
<1>2. token \in DOMAIN query.closes
  <2>1. Opening(query, token)
    BY <1>1 DEF Opening
  <2> QED
    BY <2>1, BracketsAre
<1>3. Selected(query, g, pos, selectors')
  <2>1. ~Query!WordAt(query, token) /\ query.tokens[token][1] # "string" /\ ~Query!MarkAt(query, token, "{")
    BY <1>1, MarkIs
  <2>2. ~Query!SeriesAt(query, token)
    BY <2>1, MarksAreClean
  <2> QED
    BY <1>0, <1>1, <2>2, SelectedStays
<1>4. ~Query!GroupedFirst(query, token)
  BY <1>1, MarkIs DEF Query!GroupedFirst
<1>5. ~Query!MarkAt(query, token, "{") /\ ~Query!MarkAt(query, token, "[")
  BY <1>1, MarkIs
<1>6. CASE Query!List(query, token)
  <2>1. Query!Push(Query!Entry("group", "", FALSE)) /\ awaiting' = awaiting
    BY <1>1, <1>6, RoundIs DEF Query!OpenParen
  <2>2. Query!Applied(query, token) = {}
    BY <1>6, AppliedIs
  <2>3. Awaits(query, g, awaiting')
    BY <1>0, <1>4, <2>1, <2>2, AwaitStays
  <2>4. EntryAt(query, token, g) = Query!Entry("group", "", FALSE)
    BY <1>2, <1>6, OpensList
  <2> QED
    BY <1>1, <1>2, <1>3, <2>1, <2>3, <2>4, OpensAt
<1>7. CASE Query!Function(query, token)
  <2>1. /\ Query!Push(Query!Entry("call", Query!Text(Query!Prev), Query!Text(Query!Prev) \in AGGREGATIONS))
        /\ awaiting' = awaiting /\ Query!Callee(query, token) = Query!Text(Query!Prev)
    BY <1>1, <1>7, RoundIs DEF Query!OpenParen
  <2>2. Query!Applied(query, token) = {}
    BY <1>7, AppliedIs
  <2>3. Awaits(query, g, awaiting')
    BY <1>0, <1>4, <2>1, <2>2, AwaitStays
  <2>4. Query!IsCall(query, token)
    BY <1>7 DEF Query!IsCall
  <2>5. EntryAt(query, token, g) =
          Query!Entry("call", Query!Text(Query!Prev), Query!Text(Query!Prev) \in AGGREGATIONS)
    BY <1>2, <2>1, <2>4, OpensCall
  <2> QED
    BY <1>1, <1>2, <1>3, <2>1, <2>3, <2>5, OpensAt
<1>8. CASE ~Query!List(query, token) /\ ~Query!Function(query, token) /\ Query!Applied(query, token) # {}
  <2>1. /\ awaiting # <<>> /\ Query!Last(awaiting) = Query!Callee(query, token)
        /\ Awaits(query, g, Query!Front(awaiting)) /\ Query!Callee(query, token) \in AGGREGATIONS
    BY <1>0, <1>8, AwaitEnds
  <2>2. Query!Push(Query!Entry("call", Query!Last(awaiting), TRUE)) /\ awaiting' = Query!Front(awaiting)
    BY <1>1, <1>8, <2>1, RoundIs DEF Query!OpenParen
  <2>3. Query!IsCall(query, token)
    BY <1>8 DEF Query!IsCall
  <2>4. EntryAt(query, token, g) =
          Query!Entry("call", Query!Callee(query, token), Query!Callee(query, token) \in AGGREGATIONS)
    BY <1>2, <2>3, OpensCall
  <2>5. Query!Entry("call", Query!Callee(query, token), Query!Callee(query, token) \in AGGREGATIONS) =
          Query!Entry("call", Query!Last(awaiting), TRUE)
    BY <2>1 DEF Query!Entry
  <2> QED
    BY <1>1, <1>2, <1>3, <2>1, <2>2, <2>4, <2>5, OpensAt
<1>9. CASE ~Query!List(query, token) /\ ~Query!Function(query, token) /\ Query!Applied(query, token) = {}
  <2>1. awaiting = <<>>
    BY <1>0, <1>1, <1>9, AwaitsNone
  <2>2. Query!Push(Query!Entry("paren", "", FALSE)) /\ awaiting' = awaiting
    BY <1>1, <1>9, <2>1, RoundIs DEF Query!OpenParen
  <2>3. Awaits(query, g, awaiting')
    BY <1>0, <1>4, <1>9, <2>2, AwaitStays
  <2>4. ~Query!IsCall(query, token)
    BY <1>9 DEF Query!IsCall
  <2>5. Kind(query, token) = "paren"
    BY <1>5, <1>9, <2>4 DEF Kind
  <2>6. EntryAt(query, token, g) = Query!Entry("paren", "", FALSE)
    BY <1>2, <2>4, <2>5, OpensNoCall
  <2> QED
    BY <1>1, <1>2, <1>3, <2>2, <2>3, <2>6, OpensAt
<1> QED
  BY <1>6, <1>7, <1>8, <1>9

\* "{".
LEMMA OpensCurly ==
  ASSUME query \in Queries, token \in 1..Len(query.tokens), NEW g, g = token + 1, NEW pos,
         Walked(query, token, pos, stack, entries, selectors, awaiting), Query!OpenBrace
  PROVE  Further(query, token, g)
<1>0. /\ Selected(query, token, pos, selectors) /\ Awaits(query, token, awaiting)
      /\ Stacked(query, token, pos, stack)
  BY DEF Walked
<1>1. /\ Query!MarkAt(query, token, "{") /\ awaiting' = awaiting /\ query_problems' = query_problems
      /\ Query!Push(Query!Entry("brace", "", FALSE))
      /\ selectors' = IF Query!InBraces THEN selectors
                      ELSE Append(selectors, [name |-> "{", around |-> Query!ToSet(stack)])
  BY TokenIs DEF Query!OpenBrace
<1>2. token \in DOMAIN query.closes
  <2>1. Opening(query, token)
    BY <1>1 DEF Opening
  <2> QED
    BY <2>1, BracketsAre
<1>3. /\ ~Query!WordAt(query, token) /\ query.tokens[token][1] # "string" /\ ~Query!MarkAt(query, token, "(")
      /\ Query!TextAt(query, token) = "{"
  BY <1>1, MarkIs
<1>4. Query!SeriesAt(query, token) <=> ~Query!InBraces
  BY <1>1, <1>3, MarksAreClean, InsideIs
<1>5. Selected(query, g, pos, selectors')
  <2>1. CASE Query!InBraces
    BY <1>0, <1>1, <1>4, <2>1, SelectedStays
  <2>2. CASE ~Query!InBraces
    <3> DEFINE sel == [name |-> "{", around |-> Query!ToSet(stack)]
    <3>1. NotedAs(query, token, pos, sel)
      BY <1>0, <1>3, StackIsAround DEF NotedAs
    <3>2. selectors' = Append(selectors, sel)
      BY <1>1, <2>2
    <3> HIDE DEF sel
    <3> QED
      BY <1>0, <1>4, <2>2, <3>1, <3>2, SelectedAdds
  <2> QED
    BY <2>1, <2>2
<1>6. ~Query!GroupedFirst(query, token) /\ Query!Applied(query, token) = {}
  BY <1>3, AppliedIs DEF Query!GroupedFirst
<1>7. Awaits(query, g, awaiting')
  BY <1>0, <1>1, <1>6, AwaitStays
<1>8. ~Query!IsCall(query, token) /\ Kind(query, token) = "brace"
  BY <1>1, <1>3, CallIs DEF Kind
<1>9. EntryAt(query, token, g) = Query!Entry("brace", "", FALSE)
  BY <1>2, <1>8, OpensNoCall
<1> QED
  BY <1>1, <1>2, <1>5, <1>7, <1>9, OpensAt

\* "[".
LEMMA OpensSquare ==
  ASSUME query \in Queries, token \in 1..Len(query.tokens), NEW g, g = token + 1, NEW pos,
         Walked(query, token, pos, stack, entries, selectors, awaiting), Query!OpenRange
  PROVE  Further(query, token, g)
<1>0. Selected(query, token, pos, selectors) /\ Awaits(query, token, awaiting)
  BY DEF Walked
<1>1. /\ Query!MarkAt(query, token, "[") /\ awaiting' = awaiting /\ query_problems' = query_problems
      /\ Query!Push(Query!Entry("range", "", FALSE)) /\ selectors' = selectors
  BY TokenIs DEF Query!OpenRange
<1>2. token \in DOMAIN query.closes
  <2>1. Opening(query, token)
    BY <1>1 DEF Opening
  <2> QED
    BY <2>1, BracketsAre
<1>3. /\ ~Query!WordAt(query, token) /\ query.tokens[token][1] # "string" /\ ~Query!MarkAt(query, token, "(")
      /\ ~Query!MarkAt(query, token, "{")
  BY <1>1, MarkIs
<1>4. ~Query!SeriesAt(query, token)
  BY <1>3, MarksAreClean
<1>5. Selected(query, g, pos, selectors')
  BY <1>0, <1>1, <1>4, SelectedStays
<1>6. ~Query!GroupedFirst(query, token) /\ Query!Applied(query, token) = {}
  BY <1>3, AppliedIs DEF Query!GroupedFirst
<1>7. Awaits(query, g, awaiting')
  BY <1>0, <1>1, <1>6, AwaitStays
<1>8. ~Query!IsCall(query, token) /\ Kind(query, token) = "range"
  BY <1>1, <1>3, CallIs DEF Kind
<1>9. EntryAt(query, token, g) = Query!Entry("range", "", FALSE)
  BY <1>2, <1>8, OpensNoCall
<1> QED
  BY <1>1, <1>2, <1>5, <1>7, <1>9, OpensAt

\* A token that opens and closes nothing moves the walk on.
LEMMA StaysAt ==
  ASSUME query \in Queries, token \in 1..Len(query.tokens), NEW g, g = token + 1, NEW pos,
         Walked(query, token, pos, stack, entries, selectors, awaiting),
         token \notin DOMAIN query.closes, ~Closing(query, token), stack' = stack,
         Entered(query, g, pos, entries'), Selected(query, g, pos, selectors'), Awaits(query, g, awaiting')
  PROVE  Walked(query, g, pos, stack', entries', selectors', awaiting')
<1>1. Numbered(query, token, pos) /\ Stacked(query, token, pos, stack)
  BY DEF Walked
<1>2. Numbered(query, g, pos) /\ Stacked(query, g, pos, stack)
  BY <1>1, StackStays
<1> QED
  BY <1>2 DEF Walked

\* A bracket closes.
LEMMA ClosesAt ==
  ASSUME query \in Queries, token \in 1..Len(query.tokens), NEW g, g = token + 1, NEW pos,
         Walked(query, token, pos, stack, entries, selectors, awaiting),
         NEW o \in DOMAIN query.closes, query.closes[o] = token,
         stack' = Query!Front(stack),
         entries' = IF /\ Query!IsCall(query, o) /\ Query!Callee(query, o) \in RANGE_AGGREGATIONS
                       /\ Query!TextAt(query, g) \in {"by", "without"}
                    THEN [entries EXCEPT ![Query!Last(stack)].agg = TRUE] ELSE entries,
         selectors' = selectors, awaiting' = awaiting, query_problems' = query_problems
  PROVE  Further(query, token, g)
<1>0. /\ Numbered(query, token, pos) /\ Stacked(query, token, pos, stack) /\ Entered(query, token, pos, entries)
      /\ Selected(query, token, pos, selectors) /\ Awaits(query, token, awaiting) /\ token \in Nat
  BY BracketsAre DEF Walked
<1>1. /\ stack # <<>> /\ pos[Query!Last(stack)] = o /\ Query!Last(stack) \in DOMAIN pos
      /\ Numbered(query, g, pos) /\ Stacked(query, g, pos, Query!Front(stack))
  BY <1>0, Popped
<1>3. PICK e \in DOMAIN pos : e = Query!Last(stack) /\ pos[e] = o
  BY <1>1
<1>4. Entered(query, g, pos, IF /\ Query!IsCall(query, o) /\ Query!Callee(query, o) \in RANGE_AGGREGATIONS
                               /\ Query!TextAt(query, g) \in {"by", "without"}
                            THEN [entries EXCEPT ![e].agg = TRUE] ELSE entries)
  BY <1>0, <1>3, EntryCloses
<1>5. Entered(query, g, pos, entries')
  BY <1>3, <1>4
<1>6. Closing(query, token)
  <2>1. Pair(query, o, token)
    BY BracketsAre
  <2> QED
    BY <2>1 DEF Pair, Closing
<1>7. /\ ~Query!WordAt(query, token) /\ query.tokens[token][1] # "string"
      /\ ~Query!MarkAt(query, token, "{") /\ ~Query!MarkAt(query, token, "(")
  BY <1>6, MarkIs DEF Closing
<1>8. Clean(query, token) /\ ~Query!GroupedFirst(query, token) /\ ~Query!SeriesAt(query, token)
  BY <1>7, MarksAreClean
<1>9. Query!Applied(query, token) = {}
  BY <1>7, AppliedIs
<1>10. Selected(query, g, pos, selectors') /\ Awaits(query, g, awaiting')
  BY <1>0, <1>8, <1>9, SelectedStays, AwaitStays
<1>11. Walked(query, g, pos, stack', entries', selectors', awaiting')
  BY <1>1, <1>5, <1>10 DEF Walked
<1> QED
  BY <1>8, <1>11, MarkGoes

\* What the top of the stack is of, when its bracket closes.
LEMMA TopAt ==
  ASSUME query \in Queries, token \in 1..Len(query.tokens), NEW pos,
         Walked(query, token, pos, stack, entries, selectors, awaiting),
         NEW o, Query!DirectlyIn(query, token, o)
  PROVE  /\ stack # <<>> /\ Query!Last(stack) \in DOMAIN pos /\ pos[Query!Last(stack)] = o
         /\ Query!Top = EntryAt(query, o, token) /\ Query!Top.kind = Kind(query, o)
         /\ Query!IsCall(query, o) =>
              Query!Top.name = Query!Callee(query, o) /\ Query!Top.args = Query!Arg(query, o, token)
<1>1. stack # <<>>
  <2>1. o \in Query!Around(query, token)
    BY DEF Query!DirectlyIn
  <2> QED
    BY <2>1, TopOf
<1>2. PICK p \in Query!Around(query, token) :
        /\ Query!Last(stack) \in DOMAIN pos /\ pos[Query!Last(stack)] = p
        /\ Query!DirectlyIn(query, token, p) /\ Query!Top = EntryAt(query, p, token)
  BY <1>1, TopOf
<1>3. p = o
  BY <1>2, OneInnermost
<1>4. /\ EntryAt(query, o, token).kind = Kind(query, o)
      /\ Query!IsCall(query, o) => /\ EntryAt(query, o, token).name = Query!Callee(query, o)
                                   /\ EntryAt(query, o, token).args = Query!Arg(query, o, token)
  BY DEF EntryAt
<1> QED
  BY <1>1, <1>2, <1>3, <1>4

\* ")".
LEMMA ClosesRound ==
  ASSUME query \in Queries, token \in 1..Len(query.tokens), NEW g, g = token + 1, NEW pos,
         Walked(query, token, pos, stack, entries, selectors, awaiting), Query!CloseParen
  PROVE  Further(query, token, g)
<1>1. /\ Query!MarkAt(query, token, ")") /\ Query!Pop
      /\ entries' = IF Query!Top.kind = "call" /\ Query!Aggregates(Query!Top.name)
                    THEN [entries EXCEPT ![Query!Last(stack)].agg = TRUE] ELSE entries
      /\ awaiting' = awaiting /\ selectors' = selectors /\ query_problems' = query_problems
  BY TokenIs DEF Query!CloseParen
<1>2. PICK o \in DOMAIN query.closes : query.closes[o] = token
  <2>1. Closing(query, token)
    BY <1>1 DEF Closing
  <2> QED
    BY <2>1, BracketsAre
<1>3. Query!DirectlyIn(query, token, o)
  BY <1>2, ClosesHere
<1>4. /\ stack # <<>> /\ Query!Top.kind = Kind(query, o)
      /\ Query!IsCall(query, o) => Query!Top.name = Query!Callee(query, o)
  BY <1>3, TopAt
<1>5. Kind(query, o) = "call" <=> Query!IsCall(query, o)
  BY KindIs
<1>6. Query!Aggregates(Query!Top.name) <=>
        Query!TextAt(query, g) \in {"by", "without"} /\ Query!Top.name \in RANGE_AGGREGATIONS
  BY NextIs DEF Query!Aggregates
<1>7. Query!Top.kind = "call" /\ Query!Aggregates(Query!Top.name) <=>
        /\ Query!IsCall(query, o) /\ Query!Callee(query, o) \in RANGE_AGGREGATIONS
        /\ Query!TextAt(query, g) \in {"by", "without"}
  BY <1>4, <1>5, <1>6
<1>8. stack' = Query!Front(stack)
  BY <1>1, <1>4 DEF Query!Pop
<1>9. entries' = IF /\ Query!IsCall(query, o) /\ Query!Callee(query, o) \in RANGE_AGGREGATIONS
                    /\ Query!TextAt(query, g) \in {"by", "without"}
                 THEN [entries EXCEPT ![Query!Last(stack)].agg = TRUE] ELSE entries
  BY <1>1, <1>7
<1> QED
  BY <1>1, <1>2, <1>8, <1>9, ClosesAt

\* "}" and "]".
LEMMA ClosesOther ==
  ASSUME query \in Queries, token \in 1..Len(query.tokens), NEW g, g = token + 1, NEW pos,
         Walked(query, token, pos, stack, entries, selectors, awaiting), Query!CloseOther
  PROVE  Further(query, token, g)
<1>1. /\ Query!MarkAt(query, token, "}") \/ Query!MarkAt(query, token, "]")
      /\ IF Query!Closes THEN Query!Pop ELSE UNCHANGED stack
      /\ entries' = entries
      /\ awaiting' = awaiting /\ selectors' = selectors /\ query_problems' = query_problems
      /\ Query!Is(Query!Tok, "}") <=> Query!MarkAt(query, token, "}")
  BY TokenIs DEF Query!CloseOther
<1>2. PICK o \in DOMAIN query.closes : query.closes[o] = token
  <2>1. Closing(query, token)
    BY <1>1 DEF Closing
  <2> QED
    BY <2>1, BracketsAre
<1>3. Query!DirectlyIn(query, token, o)
  BY <1>2, ClosesHere
<1>4. stack # <<>> /\ Query!Top.kind = Kind(query, o)
  BY <1>3, TopAt
<1>5. Pair(query, o, token)
  BY <1>2, BracketsAre
<1>6. /\ Query!MarkAt(query, token, "}") => Query!MarkAt(query, o, "{")
      /\ Query!MarkAt(query, token, "]") => Query!MarkAt(query, o, "[")
  BY <1>5, MarkIs DEF Pair
<1>7. ~(Query!MarkAt(query, token, "}") /\ Query!MarkAt(query, token, "]"))
  BY MarkIs
<1>8. /\ Kind(query, o) = "brace" <=> Query!MarkAt(query, o, "{")
      /\ Kind(query, o) = "range" <=> Query!MarkAt(query, o, "[")
      /\ Kind(query, o) = "call" <=> Query!IsCall(query, o)
  BY KindIs
<1>9. Query!Closes
  BY <1>1, <1>4, <1>6, <1>7, <1>8 DEF Query!Closes
<1>10. ~Query!IsCall(query, o)
  BY <1>1, <1>6, <1>8
<1>11. stack' = Query!Front(stack)
  BY <1>1, <1>4, <1>9 DEF Query!Pop
<1> QED
  BY <1>1, <1>2, <1>10, <1>11, ClosesAt

\* ",".
LEMMA CommaAt ==
  ASSUME query \in Queries, token \in 1..Len(query.tokens), NEW g, g = token + 1, NEW pos,
         Walked(query, token, pos, stack, entries, selectors, awaiting), Query!Comma
  PROVE  Further(query, token, g)
<1>0. /\ Numbered(query, token, pos) /\ Stacked(query, token, pos, stack) /\ Entered(query, token, pos, entries)
      /\ Selected(query, token, pos, selectors) /\ Awaits(query, token, awaiting) /\ token \in Nat
  BY BracketsAre DEF Walked
<1>1. /\ Query!MarkAt(query, token, ",") /\ stack' = stack
      /\ entries' = IF Query!Top.kind = "call" THEN [entries EXCEPT ![Query!Last(stack)].args = @ + 1] ELSE entries
      /\ awaiting' = awaiting /\ selectors' = selectors /\ query_problems' = query_problems
  BY TokenIs DEF Query!Comma
<1>2. /\ ~Query!WordAt(query, token) /\ query.tokens[token][1] # "string"
      /\ ~Query!MarkAt(query, token, "{") /\ ~Query!MarkAt(query, token, "(")
      /\ ~Closing(query, token) /\ ~Opening(query, token)
  BY <1>1, MarkIs DEF Closing, Opening
<1>3. Clean(query, token) /\ ~Query!GroupedFirst(query, token) /\ ~Query!SeriesAt(query, token)
  BY <1>2, MarksAreClean
<1>4. Query!Applied(query, token) = {} /\ token \notin DOMAIN query.closes
  BY <1>2, AppliedIs, BracketsAre
<1>5. Selected(query, g, pos, selectors') /\ Awaits(query, g, awaiting')
  BY <1>0, <1>1, <1>3, <1>4, SelectedStays, AwaitStays
<1>6. Entered(query, g, pos, entries')
  <2>1. CASE Query!Top.kind = "call"
    <3>1. stack # <<>>
      BY <2>1, TopOf
    <3>2. PICK o \in Query!Around(query, token) :
            /\ Query!Last(stack) \in DOMAIN pos /\ pos[Query!Last(stack)] = o
            /\ Query!DirectlyIn(query, token, o)
      BY <3>1, TopOf
    <3>3. PICK e \in DOMAIN pos : e = Query!Last(stack) /\ pos[e] = o
      BY <3>2
    <3>4. Query!IsCall(query, o) /\ o \in DOMAIN query.closes
      <4>1. Kind(query, o) = "call"
        BY <2>1, <3>2, TopAt
      <4> QED
        BY <4>1, KindIs DEF Query!Around
    <3>5. Entered(query, g, pos, [entries EXCEPT ![e].args = @ + 1])
      BY <1>0, <1>1, <3>2, <3>3, <3>4, EntryCounts
    <3> QED
      BY <1>1, <2>1, <3>3, <3>5
  <2>2. CASE Query!Top.kind # "call"
    <3>1. ASSUME NEW o, Query!DirectlyIn(query, token, o) PROVE ~Query!IsCall(query, o)
      <4>1. Query!Top.kind = Kind(query, o)
        BY <3>1, TopAt
      <4> QED
        BY <2>2, <4>1, KindIs
    <3>2. Entered(query, g, pos, entries)
      BY <1>0, <1>2, <3>1, EntriesStay
    <3> QED
      BY <1>1, <2>2, <3>2
  <2> QED
    BY <2>1, <2>2
<1>7. Walked(query, g, pos, stack', entries', selectors', awaiting')
  BY <1>1, <1>2, <1>4, <1>5, <1>6, StaysAt
<1> QED
  BY <1>1, <1>3, <1>7, MarkGoes

\* A word in no list that is looked at for its name alone.
LEMMA MetricIs ==
  ASSUME query \in Queries, token \in 1..Len(query.tokens), NEW pos,
         Walked(query, token, pos, stack, entries, selectors, awaiting),
         Query!WordAt(query, token), ~Query!InList(query, token)
  PROVE  Query!BareMetric <=> Query!SeriesAt(query, token)
<1>1. PICK g : g = token + 1
  OBVIOUS
<1>2. PICK h : h = token - 1
  OBVIOUS
<1>3. /\ Query!Is(Query!Next1, "(") <=> Query!MarkAt(query, g, "(")
      /\ Query!Is(Query!Next1, "{") <=> Query!MarkAt(query, g, "{")
      /\ Query!Text(Query!Prev) = Query!TextAt(query, h)
      /\ Query!Text(Query!Tok) = Query!TextAt(query, token) /\ Query!IsName(Query!Tok)
  BY <1>1, <1>2, NextIs, PrevIs, TokenIs
<1>4. /\ Query!Top.kind = "range" <=> Query!InMark(query, token, "[")
      /\ Query!InBraces <=> Query!InBracesAt(query, token)
  BY InsideIs
<1>5. ~Query!MarkAt(query, token, "{")
  BY MarkIs
<1>6. Query!NameAlone(query, token) <=>
        /\ query.kind = "prometheus" /\ ~Query!InBracesAt(query, token)
        /\ Query!TextAt(query, token) \notin Query!KEYWORDS \cup AGGREGATIONS
        /\ ~Query!MarkAt(query, g, "(") /\ Query!TextAt(query, h) # "offset"
        /\ ~Query!InMark(query, token, "[") /\ ~Query!MarkAt(query, g, "{")
  BY <1>1, <1>2 DEF Query!NameAlone
<1>7. Query!BareMetric <=>
        /\ query.kind = "prometheus" /\ ~Query!InBraces
        /\ Query!TextAt(query, token) \notin Query!KEYWORDS \cup AGGREGATIONS
        /\ ~Query!Is(Query!Next1, "(") /\ Query!TextAt(query, h) # "offset"
        /\ Query!Top.kind # "range" /\ ~Query!Is(Query!Next1, "{")
  BY <1>3 DEF Query!BareMetric
<1> QED
  BY <1>3, <1>4, <1>5, <1>6, <1>7 DEF Query!SeriesAt

\* A word.
LEMMA WordGoes ==
  ASSUME query \in Queries, token \in 1..Len(query.tokens), NEW g, g = token + 1, NEW pos,
         Walked(query, token, pos, stack, entries, selectors, awaiting), Query!Word
  PROVE  Further(query, token, g)
<1> DEFINE word == Query!TextAt(query, token)
           listed == Query!InList(query, token)
           first == word \in AGGREGATIONS /\ Query!Text(Query!Next1) \in {"by", "without"}
<1>0. /\ Numbered(query, token, pos) /\ Stacked(query, token, pos, stack) /\ Entered(query, token, pos, entries)
      /\ Selected(query, token, pos, selectors) /\ Awaits(query, token, awaiting)
  BY DEF Walked
<1>1. /\ Query!WordAt(query, token) /\ Query!Text(Query!Tok) = word /\ (Query!InGroup <=> listed)
      /\ stack' = stack /\ entries' = entries
  BY TokenIs, InsideIs DEF Query!Word
<1>2. \A m : ~Query!MarkAt(query, token, m)
  BY <1>1, MarkIs
<1>3. ~Closing(query, token) /\ ~Opening(query, token)
  BY <1>2 DEF Closing, Opening
<1>4. token \notin DOMAIN query.closes /\ Query!Applied(query, token) = {}
  BY <1>2, <1>3, AppliedIs, BracketsAre
<1>5. Entered(query, g, pos, entries')
  BY <1>0, <1>1, <1>2, <1>3, EntriesStay
<1>6. Query!GroupedFirst(query, token) <=> ~listed /\ first
  <2>1. Query!Text(Query!Next1) = Query!TextAt(query, g)
    BY NextIs
  <2> QED
    BY <1>1, <2>1 DEF Query!GroupedFirst
<1>7. Clean(query, token) <=> /\ word = "without" => listed
                              /\ listed => word \in LOCAL_LABELS
  <2>1. query.tokens[token][1] # "string"
    BY <1>1 DEF Query!WordAt, Query!IsName
  <2>2. \A o : ~Query!StringOf(query, token, o)
    BY <2>1 DEF Query!StringOf
  <2>3. ~Query!CreatedAt(query, token) /\ ~Query!ReadAt(query, token)
    BY <2>2 DEF Query!CreatedAt, Query!ReadAt
  <2>4. Query!NamedAt(query, token) <=> listed
    BY <1>1, <2>3 DEF Query!NamedAt
  <2>5. Query!LeavesOut(query, token) <=> word = "without" /\ ~listed
    BY <1>1 DEF Query!LeavesOut
  <2> QED
    BY <2>4, <2>5 DEF Clean
<1>8. /\ listed => ~Query!SeriesAt(query, token)
      /\ word \in Query!KEYWORDS \cup AGGREGATIONS => ~Query!SeriesAt(query, token)
  BY <1>2 DEF Query!SeriesAt, Query!NameAlone
<1>9. "without" \in Query!KEYWORDS /\ "without" \notin AGGREGATIONS
  <2>1. "without" \in Query!KEYWORDS
    BY DEF Query!KEYWORDS, Query!GROUPING
  <2> QED
    BY <2>1, QueriesAreTrees
<1>10. ASSUME Selected(query, g, pos, selectors'), Awaits(query, g, awaiting')
       PROVE  Walked(query, g, pos, stack', entries', selectors', awaiting')
  BY <1>1, <1>3, <1>4, <1>5, <1>10, StaysAt
<1> HIDE DEF word, listed, first
<1>11. CASE listed
  <2>1. /\ query_problems' = query_problems \cup (IF Query!Grouped(word) THEN {"names a label"} ELSE {})
        /\ awaiting' = awaiting /\ selectors' = selectors
    BY <1>1, <1>11 DEF Query!Word, Query!Problem
  <2>2. Selected(query, g, pos, selectors')
    BY <1>0, <1>8, <1>11, <2>1, SelectedStays
  <2>3. Awaits(query, g, awaiting')
    BY <1>0, <1>4, <1>6, <1>11, <2>1, AwaitStays
  <2>4. PICK found : found = IF Query!Grouped(word) THEN {"names a label"} ELSE {}
    OBVIOUS
  <2>5. found \in SUBSET Found /\ (found = {} <=> Clean(query, token))
    BY <1>7, <1>11, <2>4 DEF Found, Query!Grouped
  <2> QED
    BY <1>10, <2>1, <2>2, <2>3, <2>4, <2>5 DEF Further
<1>12. CASE ~listed /\ word = "without"
  <2>1. query_problems' = query_problems \cup {"without"} /\ awaiting' = awaiting /\ selectors' = selectors
    BY <1>1, <1>9, <1>12 DEF Query!Word, Query!Problem
  <2>2. Selected(query, g, pos, selectors')
    BY <1>0, <1>8, <1>9, <1>12, <2>1, SelectedStays
  <2>3. ~first
    BY <1>9, <1>12 DEF first
  <2>4. Awaits(query, g, awaiting')
    BY <1>0, <1>4, <1>6, <2>1, <2>3, AwaitStays
  <2>5. {"without"} \in SUBSET Found /\ {"without"} # {} /\ ~Clean(query, token)
    BY <1>7, <1>12 DEF Found
  <2> QED
    BY <1>10, <2>1, <2>2, <2>4, <2>5 DEF Further
<1>13. CASE ~listed /\ word # "without" /\ first
  <2>1. query_problems' = query_problems /\ awaiting' = Append(awaiting, word) /\ selectors' = selectors
    BY <1>1, <1>13 DEF Query!Word, first
  <2>2. word \in AGGREGATIONS
    BY <1>13 DEF first
  <2>3. Selected(query, g, pos, selectors')
    BY <1>0, <1>8, <2>1, <2>2, SelectedStays
  <2>4. Awaits(query, g, awaiting')
    BY <1>0, <1>6, <1>13, <2>1, AwaitBegins DEF word
  <2>5. Clean(query, token)
    BY <1>7, <1>13
  <2> QED
    BY <1>10, <2>1, <2>3, <2>4, <2>5, MarkGoes
<1>14. CASE ~listed /\ word # "without" /\ ~first
  <2> DEFINE sel == [name |-> word, around |-> Query!ToSet(stack)]
  <2>1. /\ query_problems' = query_problems /\ awaiting' = awaiting
        /\ selectors' = IF Query!BareMetric THEN Append(selectors, sel) ELSE selectors
    BY <1>1, <1>14 DEF Query!Word, first
  <2>2. Query!BareMetric <=> Query!SeriesAt(query, token)
    BY <1>1, <1>14, MetricIs DEF listed
  <2>3. NotedAs(query, token, pos, sel)
    BY <1>0, StackIsAround DEF NotedAs, word
  <2> HIDE DEF sel
  <2>4. Selected(query, g, pos, selectors')
    <3>1. CASE Query!BareMetric
      BY <1>0, <2>1, <2>2, <2>3, <3>1, SelectedAdds
    <3>2. CASE ~Query!BareMetric
      BY <1>0, <2>1, <2>2, <3>2, SelectedStays
    <3> QED
      BY <3>1, <3>2
  <2>5. Awaits(query, g, awaiting')
    BY <1>0, <1>4, <1>6, <1>14, <2>1, AwaitStays
  <2>6. Clean(query, token)
    BY <1>7, <1>14
  <2> QED
    BY <1>10, <2>1, <2>4, <2>5, <2>6, MarkGoes
<1> QED
  BY <1>11, <1>12, <1>13, <1>14

\* The label a string creates or reads.
LEMMA StringIs ==
  ASSUME query \in Queries, token \in 1..Len(query.tokens), NEW pos,
         Walked(query, token, pos, stack, entries, selectors, awaiting), query.tokens[token][1] = "string"
  PROVE  /\ Query!CreatedAt(query, token) <=> Query!Top.kind = "call" /\ Query!Creates
         /\ Query!ReadAt(query, token) <=>
              Query!Top.kind = "call" /\ Query!Reads /\ Query!TextAt(query, token) # ""
<1>0. token \in DOMAIN query.tokens
  BY BracketsAre
<1>1. CASE Query!Top.kind # "call"
  <2>1. ASSUME NEW o PROVE ~Query!StringOf(query, token, o)
    <3>1. SUFFICES ASSUME Query!StringOf(query, token, o) PROVE FALSE
      OBVIOUS
    <3>2. Query!DirectlyIn(query, token, o) /\ Query!IsCall(query, o)
      BY <3>1 DEF Query!StringOf
    <3>3. Query!Top.kind = Kind(query, o)
      BY <3>2, TopAt
    <3> QED
      BY <1>1, <3>2, <3>3, KindIs
  <2> QED
    BY <1>1, <2>1 DEF Query!CreatedAt, Query!ReadAt
<1>2. CASE Query!Top.kind = "call"
  <2>1. stack # <<>>
    BY <1>2, TopOf
  <2>2. PICK o \in Query!Around(query, token) : Query!DirectlyIn(query, token, o)
    BY <2>1, TopOf
  <2>3. Query!IsCall(query, o)
    BY <1>2, <2>2, TopAt, KindIs
  <2>4. Query!Top.name = Query!Callee(query, o) /\ Query!Top.args = Query!Arg(query, o, token)
    BY <2>2, <2>3, TopAt
  <2>5. \A p : Query!StringOf(query, token, p) <=> p = o
    <3>1. ASSUME NEW p, Query!StringOf(query, token, p) PROVE p = o
      <4>1. Query!DirectlyIn(query, token, p)
        BY <3>1 DEF Query!StringOf
      <4> QED
        BY <2>2, <4>1, OneInnermost
    <3>2. Query!StringOf(query, token, o)
      BY <1>0, <2>2, <2>3 DEF Query!StringOf
    <3> QED
      BY <3>1, <3>2
  <2>6. Query!CreatedAt(query, token) <=> Query!Creates
    BY <2>2, <2>4, <2>5 DEF Query!CreatedAt, Query!Creates
  <2>7. Query!ReadAt(query, token) <=> Query!Reads /\ Query!TextAt(query, token) # ""
    BY <2>2, <2>4, <2>5 DEF Query!ReadAt, Query!Reads
  <2> QED
    BY <1>2, <2>6, <2>7
<1> QED
  BY <1>1, <1>2

\* A string.
LEMMA QuotedGoes ==
  ASSUME query \in Queries, token \in 1..Len(query.tokens), NEW g, g = token + 1, NEW pos,
         Walked(query, token, pos, stack, entries, selectors, awaiting), Query!Quoted
  PROVE  Further(query, token, g)
<1> DEFINE word == Query!TextAt(query, token)
           found == IF Query!Top.kind # "call" \/ word \in LOCAL_LABELS THEN {}
                    ELSE {p \in {"creates a label", "reads a label"} :
                            \/ p = "creates a label" /\ Query!Creates
                            \/ p = "reads a label" /\ Query!Reads /\ word # ""}
<1>0. /\ Numbered(query, token, pos) /\ Stacked(query, token, pos, stack) /\ Entered(query, token, pos, entries)
      /\ Selected(query, token, pos, selectors) /\ Awaits(query, token, awaiting)
  BY DEF Walked
<1>1. /\ query.tokens[token][1] = "string" /\ query_problems' = query_problems \cup found
      /\ stack' = stack /\ entries' = entries /\ awaiting' = awaiting /\ selectors' = selectors
  BY TokenIs DEF Query!Quoted, Query!Problem
<1>2. \A m : ~Query!MarkAt(query, token, m)
  BY <1>1, MarkIs
<1>3. ~Query!WordAt(query, token)
  BY <1>1 DEF Query!WordAt, Query!IsName
<1>4. ~Closing(query, token) /\ ~Opening(query, token)
  BY <1>2 DEF Closing, Opening
<1>5. token \notin DOMAIN query.closes /\ Query!Applied(query, token) = {}
  BY <1>2, <1>4, AppliedIs, BracketsAre
<1>6. ~Query!GroupedFirst(query, token) /\ ~Query!SeriesAt(query, token)
  BY <1>2, <1>3 DEF Query!GroupedFirst, Query!SeriesAt, Query!NameAlone
<1>7. Entered(query, g, pos, entries')
  BY <1>0, <1>1, <1>2, <1>4, EntriesStay
<1>8. Selected(query, g, pos, selectors') /\ Awaits(query, g, awaiting')
  BY <1>0, <1>1, <1>5, <1>6, SelectedStays, AwaitStays
<1>9. Walked(query, g, pos, stack', entries', selectors', awaiting')
  BY <1>1, <1>4, <1>5, <1>7, <1>8, StaysAt
<1>10. Clean(query, token) <=>
         \/ word \in LOCAL_LABELS
         \/ /\ ~(Query!Top.kind = "call" /\ Query!Creates)
            /\ ~(Query!Top.kind = "call" /\ Query!Reads /\ word # "")
  <2>1. ~Query!LeavesOut(query, token)
    BY <1>3 DEF Query!LeavesOut
  <2>2. Query!NamedAt(query, token) <=> Query!CreatedAt(query, token) \/ Query!ReadAt(query, token)
    BY <1>3 DEF Query!NamedAt
  <2> QED
    BY <1>1, <2>1, <2>2, StringIs DEF Clean
<1>11. found \in SUBSET Found
  BY DEF Found
<1>12. found = {} <=> Clean(query, token)
  <2> HIDE DEF word
  <2> QED
    BY <1>10
<1> HIDE DEF found
<1> QED
  BY <1>1, <1>9, <1>11, <1>12 DEF Further

\* Any other token.
LEMMA OtherGoes ==
  ASSUME query \in Queries, token \in 1..Len(query.tokens), NEW g, g = token + 1, NEW pos,
         Walked(query, token, pos, stack, entries, selectors, awaiting), Query!Other
  PROVE  Further(query, token, g)
<1>0. /\ Numbered(query, token, pos) /\ Stacked(query, token, pos, stack) /\ Entered(query, token, pos, entries)
      /\ Selected(query, token, pos, selectors) /\ Awaits(query, token, awaiting)
  BY DEF Walked
<1>1. /\ ~Query!WordAt(query, token) /\ query.tokens[token][1] # "string" /\ ~Query!MarkAt(query, token, ",")
      /\ stack' = stack /\ entries' = entries /\ awaiting' = awaiting /\ selectors' = selectors
      /\ query_problems' = query_problems
  BY TokenIs DEF Query!Other
<1>2. ASSUME NEW m \in {"(", ")", "{", "}", "[", "]"} PROVE ~Query!MarkAt(query, token, m)
  <2>1. SUFFICES ASSUME Query!MarkAt(query, token, m) PROVE FALSE
    OBVIOUS
  <2>2. query.tokens[token][1] = "mark" /\ query.tokens[token][2] = m
    BY <2>1, MarkIs
  <2>3. Query!Bracket
    BY <2>2, TokenIs DEF Query!Bracket, Query!Text
  <2> QED
    BY <2>3 DEF Query!Other
<1>3. ~Closing(query, token) /\ ~Opening(query, token)
  BY <1>2 DEF Closing, Opening
<1>4. token \notin DOMAIN query.closes /\ Query!Applied(query, token) = {}
  BY <1>2, <1>3, AppliedIs, BracketsAre
<1>5. Clean(query, token) /\ ~Query!GroupedFirst(query, token) /\ ~Query!SeriesAt(query, token)
  BY <1>1, <1>2, MarksAreClean
<1>6. Entered(query, g, pos, entries')
  BY <1>0, <1>1, <1>3, EntriesStay
<1>7. Selected(query, g, pos, selectors') /\ Awaits(query, g, awaiting')
  BY <1>0, <1>1, <1>4, <1>5, SelectedStays, AwaitStays
<1>8. Walked(query, g, pos, stack', entries', selectors', awaiting')
  BY <1>1, <1>3, <1>4, <1>6, <1>7, StaysAt
<1> QED
  BY <1>1, <1>5, <1>8, MarkGoes

-----------------------------------------------------------------------------
(* Queries: the walk *)

\* Before the first token nothing is kept.
LEMMA WalkBegins ==
  ASSUME NEW q \in Queries
  PROVE  Walked(q, 1, <<>>, <<>>, <<>>, <<>>, <<>>)
<1>1. IsList(<<>>) /\ DOMAIN <<>> = {} /\ Len(<<>>) = 0
  BY DEF IsList
<1>2. ASSUME NEW o \in DOMAIN q.closes PROVE ~(o < 1)
  <2>1. o \in 1..Len(q.tokens) /\ Len(q.tokens) \in Nat
    BY BracketsAre
  <2> QED
    BY <2>1
<1>3. Numbered(q, 1, <<>>) /\ Stacked(q, 1, <<>>, <<>>) /\ Entered(q, 1, <<>>, <<>>)
  BY <1>1, <1>2 DEF Numbered, Stacked, Entered
<1>4. Selected(q, 1, <<>>, <<>>)
  <2>1. 1..(1 - 1) = {}
    OBVIOUS
  <2> QED
    BY <1>1, <2>1 DEF Selected
<1>5. Awaits(q, 1, <<>>)
  <2>1. PICK g : g = Len(q.tokens) + 1
    OBVIOUS
  <2>2. AwaitedAt(q, 1) = {}
    BY <2>1, NoneAwaitedAtEnds
  <2> QED
    BY <2>2 DEF Awaits
<1> QED
  BY <1>3, <1>4, <1>5 DEF Walked

\* The tokens before k name nothing unlisted and leave nothing out.
CleanUpTo(q, k) == ~Query!NamesInstance(q) /\ ~Query!BareParser(q) /\ \A n \in 1..(k - 1) : Clean(q, n)

\* All of them, and what they read is covered.
Clear(q) ==
  /\ ~Query!NamesInstance(q) /\ ~Query!BareParser(q)
  /\ \A n \in DOMAIN q.tokens : Clean(q, n) /\ (Query!SeriesAt(q, n) => Query!CoveredAt(q, n))

\* Before the walk, past a log query, at a token, and judged.
Fresh == stack = <<>> /\ entries = <<>> /\ awaiting = <<>> /\ selectors = <<>>
Unwalked == token = 0 /\ Fresh /\ query_problems = {}
Refused ==
  /\ Query!LogQuery(query) /\ Fresh /\ "log query" \in query_problems
  /\ token \in (Len(query.tokens) + 1)..(Len(query.tokens) + 2)
WalkedAt(k) == \E pos : Walked(query, k, pos, stack, entries, selectors, awaiting)
OnTheWay ==
  /\ ~Query!LogQuery(query) /\ token \in 1..(Len(query.tokens) + 1) /\ WalkedAt(token)
  /\ query_problems = {} <=> CleanUpTo(query, token)
Ended ==
  /\ ~Query!LogQuery(query) /\ token = Len(query.tokens) + 2 /\ WalkedAt(Len(query.tokens) + 1)
  /\ query_problems = {} <=> Clear(query)

\* The query under the lint is at one of the four.
QueryInv ==
  /\ query \in Queries /\ query_problems \subseteq Found
  /\ Unwalked \/ Refused \/ OnTheWay \/ Ended

\* It holds before the first token,
LEMMA QueryInit == Query!Init => QueryInv
BY DEF Query!Init, QueryInv, Unwalked, Fresh, Found

\* when the text is looked at as a whole,
LEMMA QueryStarts == QueryInv /\ Query!Start => QueryInv'
<1> SUFFICES ASSUME QueryInv, Query!Start PROVE QueryInv'
  OBVIOUS
<1> DEFINE refused == query.kind = "loki" /\ query.tokens # <<>> /\ Query!Is(Head(query.tokens), "{")
           instance == \E t \in Query!ToSet(query.tokens) : Query!Text(t) = "instance"
           seen == {p \in {"instance", "bare parser"} :
                      \/ p = "instance" /\ instance
                      \/ p = "bare parser" /\ Query!BareParser(query)}
<1>0. query \in Queries /\ query_problems \subseteq Found /\ Len(query.tokens) \in Nat
      /\ DOMAIN query.tokens = 1..Len(query.tokens) /\ IsList(query.tokens)
  BY BracketsAre DEF QueryInv
<1>1. /\ token = 0 /\ query' = query /\ stack' = stack /\ entries' = entries
      /\ awaiting' = awaiting /\ selectors' = selectors
      /\ IF refused THEN query_problems' = query_problems \cup {"log query"} /\ token' = Len(query.tokens) + 1
         ELSE /\ query_problems' = query_problems \cup seen
              /\ token' = 1
  BY DEF Query!Start, Query!Problem, Query!tokens
<1>2. Fresh /\ query_problems = {}
  <2>1. PICK l \in Nat : l = Len(query.tokens)
    BY <1>0
  <2>2. 0 \notin (l + 1)..(l + 2) /\ 0 \notin 1..(l + 1) /\ 0 # l + 2
    OBVIOUS
  <2>3. ~Refused /\ ~OnTheWay /\ ~Ended
    BY <1>1, <2>1, <2>2 DEF Refused, OnTheWay, Ended
  <2> QED
    BY <2>3 DEF QueryInv, Unwalked
<1>3. Fresh'
  BY <1>1, <1>2 DEF Fresh
<1>4. refused <=> Query!LogQuery(query)
  <2>1. query.tokens # <<>> <=> 1 \in DOMAIN query.tokens
    BY <1>0 DEF IsList
  <2>2. query.tokens # <<>> => Head(query.tokens) = query.tokens[1]
    BY <1>0 DEF IsList
  <2> QED
    BY <2>1, <2>2 DEF Query!LogQuery, Query!MarkAt
<1>5. instance <=> Query!NamesInstance(query)
  <2>1. Query!ToSet(query.tokens) = {query.tokens[k] : k \in DOMAIN query.tokens}
    BY DEF Query!ToSet
  <2>2. instance <=> \E k \in DOMAIN query.tokens : Query!Text(query.tokens[k]) = "instance"
    BY <2>1
  <2>3. \A k \in DOMAIN query.tokens : Query!TextAt(query, k) = Query!Text(query.tokens[k])
    BY DEF Query!TextAt
  <2> QED
    BY <2>2, <2>3 DEF Query!NamesInstance
<1>8. seen \subseteq Found /\ (seen = {} <=> ~instance /\ ~Query!BareParser(query))
  <2>1. "instance" \in seen <=> instance
    OBVIOUS
  <2>2. "bare parser" \in seen <=> Query!BareParser(query)
    OBVIOUS
  <2>3. seen \subseteq {"instance", "bare parser"}
    OBVIOUS
  <2> QED
    BY <2>1, <2>2, <2>3 DEF Found
<1> HIDE DEF refused, instance, seen
<1>6. CASE refused
  <2>1. token' \in (Len(query.tokens) + 1)..(Len(query.tokens) + 2) /\ query_problems' = {"log query"}
    <3>1. query_problems' = {"log query"} /\ token' = Len(query.tokens) + 1
      BY <1>1, <1>2, <1>6
    <3>2. PICK l \in Nat : l = Len(query.tokens)
      BY <1>0
    <3>3. l + 1 \in (l + 1)..(l + 2)
      OBVIOUS
    <3> QED
      BY <3>1, <3>2, <3>3
  <2>2. Refused'
    BY <1>1, <1>3, <1>4, <1>6, <2>1 DEF Refused
  <2> QED
    BY <1>0, <1>1, <2>1, <2>2 DEF QueryInv, Found
<1>7. CASE ~refused
  <2>1. token' = 1 /\ query_problems' = seen
    BY <1>1, <1>2, <1>7
  <2>2. Walked(query, 1, <<>>, stack', entries', selectors', awaiting')
    BY <1>0, <1>3, WalkBegins DEF Fresh
  <2>3. CleanUpTo(query, 1) <=> ~instance /\ ~Query!BareParser(query)
    <3>1. 1..(1 - 1) = {}
      OBVIOUS
    <3> QED
      BY <1>5, <3>1 DEF CleanUpTo
  <2>4. query_problems' = {} <=> CleanUpTo(query, 1)
    BY <1>8, <2>1, <2>3
  <2>5. 1 \in 1..(Len(query.tokens) + 1)
    BY <1>0
  <2>6. OnTheWay'
    BY <1>1, <1>4, <1>7, <2>1, <2>2, <2>4, <2>5 DEF OnTheWay, WalkedAt
  <2> QED
    BY <1>0, <1>1, <1>8, <2>1, <2>6 DEF QueryInv
<1> QED
  BY <1>6, <1>7

\* at each token,
LEMMA QueryWalks == QueryInv /\ Query!Walk => QueryInv'
<1> SUFFICES ASSUME QueryInv, Query!Walk PROVE QueryInv'
  OBVIOUS
<1>0. query \in Queries /\ query_problems \subseteq Found /\ Len(query.tokens) \in Nat
      /\ DOMAIN query.tokens = 1..Len(query.tokens)
  BY BracketsAre DEF QueryInv
<1>1. token \in 1..Len(query.tokens) /\ query' = query /\ token' = token + 1
  BY <1>0 DEF Query!Walk, Query!Step, Query!tokens
<1>2. PICK g : g = token + 1
  OBVIOUS
<1>3. OnTheWay
  <2>1. token # 0 /\ token # Len(query.tokens) + 2
        /\ token \notin (Len(query.tokens) + 1)..(Len(query.tokens) + 2)
    BY <1>0, <1>1
  <2> QED
    BY <2>1 DEF QueryInv, Unwalked, Refused, Ended
<1>4. ~Query!LogQuery(query) /\ (query_problems = {} <=> CleanUpTo(query, token))
  BY <1>3 DEF OnTheWay
<1>5. PICK pos : Walked(query, token, pos, stack, entries, selectors, awaiting)
  BY <1>3 DEF OnTheWay, WalkedAt
<1>6. Further(query, token, g)
  BY <1>0, <1>1, <1>2, <1>5, OpensRound, OpensCurly, OpensSquare, ClosesRound, ClosesOther, CommaAt,
     WordGoes, QuotedGoes, OtherGoes DEF Query!Walk
<1>7. PICK next : Walked(query, g, next, stack', entries', selectors', awaiting')
  BY <1>6 DEF Further
<1>8. PICK found \in SUBSET Found :
        query_problems' = query_problems \cup found /\ (found = {} <=> Clean(query, token))
  BY <1>6 DEF Further
<1>9. CleanUpTo(query, g) <=> CleanUpTo(query, token) /\ Clean(query, token)
  <2>1. \A n : n \in 1..(g - 1) <=> n \in 1..(token - 1) \/ n = token
    BY <1>1, <1>2
  <2> QED
    BY <2>1 DEF CleanUpTo
<1>10. query_problems' = {} <=> CleanUpTo(query, g)
  BY <1>4, <1>8, <1>9
<1>11. g \in 1..(Len(query.tokens) + 1)
  BY <1>0, <1>1, <1>2
<1>12. OnTheWay'
  BY <1>1, <1>2, <1>4, <1>7, <1>10, <1>11 DEF OnTheWay, WalkedAt
<1> QED
  BY <1>0, <1>1, <1>8, <1>12 DEF QueryInv

\* At the end an entry says whether its bracket is an aggregation's.
LEMMA EntryAtEnd ==
  ASSUME NEW q \in Queries, NEW o \in DOMAIN q.closes, NEW k, k = Len(q.tokens) + 1
  PROVE  EntryAt(q, o, k).kind = "call" /\ EntryAt(q, o, k).agg <=> Query!Aggregating(q, o)
<1>1. q.closes[o] < k
  BY BracketsAre
<1>2. Late(q, o, k) <=> /\ Query!Callee(q, o) \in RANGE_AGGREGATIONS
                        /\ Query!TextAt(q, q.closes[o] + 1) \in {"by", "without"}
  BY <1>1 DEF Late
<1>3. /\ EntryAt(q, o, k).kind = Kind(q, o)
      /\ EntryAt(q, o, k).agg <=> Query!IsCall(q, o) /\ (Query!Callee(q, o) \in AGGREGATIONS \/ Late(q, o, k))
  BY DEF EntryAt
<1>4. Kind(q, o) = "call" <=> Query!IsCall(q, o)
  BY KindIs
<1> QED
  BY <1>2, <1>3, <1>4 DEF Query!Aggregating

\* And a selector is covered as its series is.
LEMMA CoveredIs ==
  ASSUME query \in Queries, NEW k, k = Len(query.tokens) + 1, NEW pos,
         Walked(query, k, pos, stack, entries, selectors, awaiting),
         NEW n \in 1..Len(query.tokens), Query!SeriesAt(query, n), NEW sel, NotedAs(query, n, pos, sel)
  PROVE  sel.name \notin LOCAL_BARE_SERIES /\ ~Query!Covered(sel) <=> ~Query!CoveredAt(query, n)
<1>0. Numbered(query, k, pos) /\ Entered(query, k, pos, entries) /\ Len(query.tokens) \in Nat
  BY BracketsAre DEF Walked
<1>1. sel.name = Query!TextAt(query, n) /\ sel.around = {e \in DOMAIN pos : pos[e] \in Query!Around(query, n)}
  BY DEF NotedAs
<1>2. sel.name \in LOCAL_BARE_SERIES <=> Query!WordAt(query, n) /\ Query!TextAt(query, n) \in LOCAL_BARE_SERIES
  <2>1. CASE Query!MarkAt(query, n, "{")
    <3>1. Query!TextAt(query, n) = "{" /\ ~Query!WordAt(query, n)
      BY <2>1, MarkIs
    <3>2. "{" \notin LOCAL_BARE_SERIES
      BY QueriesAreTrees
    <3> QED
      BY <1>1, <3>1, <3>2
  <2>2. CASE Query!NameAlone(query, n)
    BY <1>1, <2>2 DEF Query!NameAlone
  <2> QED
    BY <2>1, <2>2 DEF Query!SeriesAt
<1>3. ASSUME NEW e \in DOMAIN pos
      PROVE  entries[e].kind = "call" /\ entries[e].agg <=> Query!Aggregating(query, pos[e])
  <2>1. entries[e] = EntryAt(query, pos[e], k) /\ pos[e] \in DOMAIN query.closes
    BY <1>0 DEF Entered, Numbered
  <2>2. EntryAt(query, pos[e], k).kind = "call" /\ EntryAt(query, pos[e], k).agg <=> Query!Aggregating(query, pos[e])
    BY <2>1, EntryAtEnd
  <2> QED
    BY <2>1, <2>2
<1>4. ASSUME NEW o \in Query!Around(query, n) PROVE \E e \in DOMAIN pos : pos[e] = o
  <2>1. o \in DOMAIN query.closes /\ o < n
    BY DEF Query!Around
  <2>2. o \in Nat
    BY <2>1, BracketsAre
  <2>3. o < k
    BY <1>0, <2>1, <2>2
  <2> QED
    BY <1>0, <2>1, <2>3 DEF Numbered
<1>5. Query!Covered(sel) <=> \E o \in Query!Around(query, n) : Query!Aggregating(query, o)
  BY <1>1, <1>3, <1>4 DEF Query!Covered
<1> QED
  BY <1>2, <1>5 DEF Query!CoveredAt

\* and when the selectors are judged.
LEMMA QueryEnds == QueryInv /\ Query!Finish => QueryInv'
<1> SUFFICES ASSUME QueryInv, Query!Finish PROVE QueryInv'
  OBVIOUS
<1>0. query \in Queries /\ query_problems \subseteq Found /\ Len(query.tokens) \in Nat
      /\ DOMAIN query.tokens = 1..Len(query.tokens)
  BY BracketsAre DEF QueryInv
<1> DEFINE bare == \E s \in Query!ToSet(selectors) : s.name \notin LOCAL_BARE_SERIES /\ ~Query!Covered(s)
<1>1. /\ token = Len(query.tokens) + 1 /\ token' = token + 1 /\ query' = query /\ stack' = stack
      /\ entries' = entries /\ awaiting' = awaiting /\ selectors' = selectors
      /\ query_problems' = query_problems \cup (IF bare THEN {"bare selector"} ELSE {})
  BY DEF Query!Finish, Query!Problem, Query!tokens
<1>2. query_problems' \subseteq Found /\ query_problems \subseteq query_problems'
  BY <1>0, <1>1 DEF Found
<1>3. token' = Len(query.tokens) + 2
  <2>1. PICK l \in Nat : l = Len(query.tokens)
    BY <1>0
  <2>2. (l + 1) + 1 = l + 2
    OBVIOUS
  <2> QED
    BY <1>1, <2>1, <2>2
<1>4. CASE Refused
  <2>1. Refused'
    <3>1. token' \in (Len(query.tokens) + 1)..(Len(query.tokens) + 2)
      BY <1>0, <1>3
    <3> QED
      BY <1>1, <1>2, <1>4, <3>1 DEF Refused, Fresh
  <2> QED
    BY <1>0, <1>1, <1>2, <2>1 DEF QueryInv
<1>5. CASE OnTheWay
  <2>1. PICK k : k = Len(query.tokens) + 1
    OBVIOUS
  <2>2. /\ ~Query!LogQuery(query) /\ WalkedAt(k) /\ (query_problems = {} <=> CleanUpTo(query, k))
    BY <1>1, <1>5, <2>1 DEF OnTheWay
  <2>3. PICK pos : Walked(query, k, pos, stack, entries, selectors, awaiting)
    BY <2>2 DEF WalkedAt
  <2>4. Selected(query, k, pos, selectors)
    BY <2>3 DEF Walked
  <2>5. 1..(k - 1) = 1..Len(query.tokens)
    BY <1>0, <2>1
  <2>6. bare <=> \E n \in 1..Len(query.tokens) : Query!SeriesAt(query, n) /\ ~Query!CoveredAt(query, n)
    <3>1. ASSUME bare
          PROVE  \E n \in 1..Len(query.tokens) : Query!SeriesAt(query, n) /\ ~Query!CoveredAt(query, n)
      <4>1. PICK s \in DOMAIN selectors : selectors[s].name \notin LOCAL_BARE_SERIES /\ ~Query!Covered(selectors[s])
        BY <3>1 DEF Query!ToSet
      <4>2. PICK n \in 1..Len(query.tokens) : Query!SeriesAt(query, n) /\ NotedAs(query, n, pos, selectors[s])
        BY <2>4, <2>5 DEF Selected
      <4> QED
        BY <1>0, <2>1, <2>3, <4>1, <4>2, CoveredIs
    <3>2. ASSUME NEW n \in 1..Len(query.tokens), Query!SeriesAt(query, n), ~Query!CoveredAt(query, n)
          PROVE  bare
      <4>1. PICK s \in DOMAIN selectors : NotedAs(query, n, pos, selectors[s])
        BY <2>4, <2>5, <3>2 DEF Selected
      <4>2. selectors[s].name \notin LOCAL_BARE_SERIES /\ ~Query!Covered(selectors[s])
        BY <1>0, <2>1, <2>3, <3>2, <4>1, CoveredIs
      <4> QED
        BY <4>2 DEF Query!ToSet
    <3> QED
      BY <3>1, <3>2
  <2> HIDE DEF bare
  <2>7. Clear(query) <=> CleanUpTo(query, k) /\ ~bare
    BY <1>0, <2>5, <2>6 DEF Clear, CleanUpTo
  <2>8. query_problems' = {} <=> Clear(query)
    BY <1>1, <2>2, <2>7
  <2>9. WalkedAt(k)'
    BY <1>1, <2>3 DEF WalkedAt
  <2>10. Ended'
    BY <1>1, <1>3, <2>1, <2>2, <2>8, <2>9 DEF Ended
  <2> QED
    BY <1>0, <1>1, <1>2, <2>10 DEF QueryInv
<1> QED
  <2>1. token # 0 /\ token # Len(query.tokens) + 2
    <3>1. PICK l \in Nat : l = Len(query.tokens)
      BY <1>0
    <3>2. l + 1 # 0 /\ l + 1 # l + 2
      OBVIOUS
    <3> QED
      BY <1>1, <3>1, <3>2
  <2> QED
    BY <1>4, <1>5, <2>1 DEF QueryInv, Unwalked, Ended

\* No step leaves the invariant.
LEMMA QueryStep == QueryInv /\ [Query!Next]_query_vars => QueryInv'
<1> SUFFICES ASSUME QueryInv, [Query!Next]_query_vars PROVE QueryInv'
  OBVIOUS
<1>1. CASE UNCHANGED query_vars
  BY <1>1 DEF QueryInv, query_vars, Unwalked, Refused, OnTheWay, Ended, WalkedAt, Fresh
<1> QED
  BY <1>1, QueryStarts, QueryWalks, QueryEnds DEF Query!Next

\* What the walk keeps is of its kind.
LEMMA WalkedIsTyped ==
  ASSUME query \in Queries, NEW k, WalkedAt(k)
  PROVE  /\ \A n \in DOMAIN stack : stack[n] \in DOMAIN entries
         /\ \A e \in DOMAIN entries : entries[e].kind \in {"group", "call", "paren", "brace", "range"}
         /\ \A s \in Query!ToSet(selectors) : s.around \subseteq DOMAIN entries
         /\ Len(awaiting) <= 1
         /\ k = Len(query.tokens) + 1 => stack = <<>> /\ awaiting = <<>>
<1>1. PICK pos : Walked(query, k, pos, stack, entries, selectors, awaiting)
  BY DEF WalkedAt
<1>2. /\ Numbered(query, k, pos) /\ Stacked(query, k, pos, stack) /\ Entered(query, k, pos, entries)
      /\ Selected(query, k, pos, selectors) /\ Awaits(query, k, awaiting)
  BY <1>1 DEF Walked
<1>3. IsList(pos) /\ IsList(entries) /\ Len(entries) = Len(pos)
  BY <1>2 DEF Numbered, Entered
<1>4. DOMAIN pos = DOMAIN entries
  BY <1>3, ListIs
<1>5. \A n \in DOMAIN stack : stack[n] \in DOMAIN entries
  BY <1>2, <1>4 DEF Stacked
<1>6. ASSUME NEW e \in DOMAIN entries PROVE entries[e].kind \in {"group", "call", "paren", "brace", "range"}
  <2>1. entries[e] = EntryAt(query, pos[e], k)
    BY <1>2, <1>4 DEF Entered
  <2>2. EntryAt(query, pos[e], k).kind = Kind(query, pos[e])
    BY DEF EntryAt
  <2> QED
    BY <2>1, <2>2, KindIs
<1>7. ASSUME NEW s \in Query!ToSet(selectors) PROVE s.around \subseteq DOMAIN entries
  <2>1. PICK n \in DOMAIN selectors : selectors[n] = s
    BY DEF Query!ToSet
  <2>2. PICK m : NotedAs(query, m, pos, selectors[n])
    BY <1>2 DEF Selected
  <2> QED
    BY <1>4, <2>1, <2>2 DEF NotedAs
<1>8. Len(awaiting) <= 1
  <2>1. awaiting = <<>> \/ \E word : awaiting = <<word>>
    BY <1>2 DEF Awaits
  <2>2. \A word : Len(<<word>>) = 1
    OBVIOUS
  <2>3. Len(awaiting) = 0 \/ Len(awaiting) = 1
    BY <2>1, <2>2
  <2> QED
    BY <2>3
<1>9. ASSUME k = Len(query.tokens) + 1 PROVE stack = <<>> /\ awaiting = <<>>
  <2>1. Query!Around(query, k) = {} /\ AwaitedAt(query, k) = {}
    BY <1>9, NoneAtEnds, NoneAwaitedAtEnds
  <2>2. k \in Nat
    BY <1>9, BracketsAre
  <2>3. stack = <<>>
    <3>1. SUFFICES ASSUME stack # <<>> PROVE FALSE
      OBVIOUS
    <3>2. Query!DirectlyIn(query, k, pos[Query!Last(stack)])
      BY <1>2, <2>2, <3>1, TopIs
    <3> QED
      BY <2>1, <3>2 DEF Query!DirectlyIn
  <2> QED
    BY <1>2, <2>1, <2>3 DEF Awaits
<1> QED
  BY <1>5, <1>6, <1>7, <1>8, <1>9

\* The tree says of a query what its tokens do.
LEMMA ClearIsSaid ==
  ASSUME NEW q \in Queries, ~Query!LogQuery(q)
  PROVE  Clear(q) <=> q.covered /\ q.named \subseteq LOCAL_LABELS
<1>1. Query!Said(q)
  BY QueriesAreTrees
<1>2. q.named \subseteq LOCAL_LABELS <=>
        \A n \in DOMAIN q.tokens : Query!NamedAt(q, n) => Query!TextAt(q, n) \in LOCAL_LABELS
  BY <1>1 DEF Query!Said
<1>3. q.covered <=> /\ ~Query!NamesInstance(q) /\ ~Query!BareParser(q)
                    /\ \A n \in DOMAIN q.tokens :
                         ~Query!LeavesOut(q, n) /\ (Query!SeriesAt(q, n) => Query!CoveredAt(q, n))
  BY <1>1 DEF Query!Said
<1> QED
  BY <1>2, <1>3 DEF Clear, Clean

\* A label that no reduction around a series drops is one the query names, if
\* the series is reduced at all: a reduction's list is a grouping list.
LEMMA ReducedIsNamed ==
  ASSUME NEW q \in Queries, q.covered, Query!Reduced(q)
  PROVE  q.returned \subseteq q.named \cup LOCAL_LABELS
<1> SUFFICES ASSUME NEW label \in q.returned, label \notin q.named
             PROVE  label \in LOCAL_LABELS
  OBVIOUS
<1>1. PICK k \in DOMAIN q.tokens : Query!Survives(q, k, label)
  BY AnswersAreOfTheQuery DEF Query!Answered
<1>2. Query!SeriesAt(q, k)
  BY <1>1 DEF Query!Survives
<1>3. CASE Query!Vetted(q, k)
  BY <1>1, <1>3 DEF Query!Survives
<1>4. ASSUME ~Query!Vetted(q, k) PROVE FALSE
  <2>1. PICK o \in Query!Around(q, k) : Query!Reduces(q, o)
    BY <1>2, <1>4 DEF Query!Reduced
  <2>2. Query!Keeps(q, o, label)
    BY <1>1, <2>1 DEF Query!Survives
  <2>3. PICK n \in DOMAIN q.tokens :
          /\ Query!WordAt(q, n) /\ Query!TextAt(q, n) = label
          /\ \E g \in Query!Around(q, n) : Query!List(q, g) /\ Query!DirectlyIn(q, n, g)
    BY <2>2 DEF Query!Keeps
  <2>4. Query!NamedAt(q, n)
    BY <2>3 DEF Query!NamedAt, Query!InList
  <2>5. Query!Said(q)
    BY QueriesAreTrees
  <2>6. label \in q.named
    BY <2>3, <2>4, <2>5 DEF Query!Said
  <2> QED
    BY <2>6
<1> QED
  BY <1>3, <1>4

\* What the walk promises holds all along.
LEMMA QuerySafe == QueryInv => Query!Safe
<1> SUFFICES ASSUME QueryInv PROVE Query!Safe
  OBVIOUS
<1>0. /\ query \in Queries /\ query_problems \subseteq Found /\ Len(query.tokens) \in Nat
      /\ Unwalked \/ Refused \/ OnTheWay \/ Ended
  BY BracketsAre DEF QueryInv
<1>1. Query!TypeOK
  <2>1. /\ \A k \in DOMAIN stack : stack[k] \in DOMAIN entries
        /\ \A k \in DOMAIN entries : entries[k].kind \in {"group", "call", "paren", "brace", "range"}
        /\ \A s \in Query!ToSet(selectors) : s.around \subseteq DOMAIN entries
        /\ Len(awaiting) <= 1
        /\ token > Len(query.tokens) /\ "log query" \notin query_problems => stack = <<>> /\ awaiting = <<>>
    <3>1. CASE Fresh
      <4>1. DOMAIN stack = {} /\ DOMAIN entries = {} /\ Query!ToSet(selectors) = {} /\ Len(awaiting) = 0
        BY <3>1 DEF Fresh, Query!ToSet
      <4> QED
        BY <3>1, <4>1 DEF Fresh
    <3>2. CASE OnTheWay
      <4>1. token \in 1..(Len(query.tokens) + 1) /\ WalkedAt(token)
        BY <3>2 DEF OnTheWay
      <4>2. token > Len(query.tokens) => token = Len(query.tokens) + 1
        BY <1>0, <4>1
      <4> QED
        BY <1>0, <4>1, <4>2, WalkedIsTyped
    <3>3. CASE Ended
      <4>1. PICK k : k = Len(query.tokens) + 1 /\ WalkedAt(k)
        BY <3>3 DEF Ended
      <4> QED
        BY <1>0, <4>1, WalkedIsTyped
    <3> QED
      BY <1>0, <3>1, <3>2, <3>3 DEF Unwalked, Refused
  <2> QED
    BY <1>0, <2>1 DEF Query!TypeOK, Query!tokens, Found
<1>2. ASSUME Query!Done PROVE query_problems = {} <=> query.covered /\ query.named \subseteq LOCAL_LABELS
  <2>1. token = Len(query.tokens) + 2
    BY <1>2 DEF Query!Done, Query!tokens
  <2>2. Refused \/ Ended
    <3>1. token # 0 /\ token \notin 1..(Len(query.tokens) + 1)
      BY <1>0, <2>1
    <3> QED
      BY <1>0, <3>1 DEF Unwalked, OnTheWay
  <2>3. CASE Refused
    <3>1. Query!LogQuery(query) /\ query_problems # {}
      BY <2>3 DEF Refused
    <3>2. ~query.covered
      BY <1>0, <3>1, QueriesAreTrees DEF Query!Said
    <3> QED
      BY <3>1, <3>2
  <2>4. CASE Ended
    BY <1>0, <2>4, ClearIsSaid DEF Ended
  <2> QED
    BY <2>2, <2>3, <2>4
<1>3. query.covered /\ Query!Reduced(query) => query.returned \subseteq query.named \cup LOCAL_LABELS
  BY <1>0, ReducedIsNamed
<1>4. Query!JudgedAsTheTree
  BY <1>2 DEF Query!JudgedAsTheTree
<1>5. Query!AnswersListed
  BY <1>2, <1>3 DEF Query!AnswersListed
<1> QED
  BY <1>1, <1>4, <1>5 DEF Query!Safe

-----------------------------------------------------------------------------
(* Queries and pipelines together *)

\* A query passes dashboard_lint.py exactly when every series it reads is inside
\* an aggregation or is a vetted one, every label it groups by, creates or reads
\* is listed and no parser is bare, as the tree it was written from has it; no
\* answer to one that passes has an unlisted label if its series are reduced and
\* not only picked or ordered (topk, sort, absent); and whatever line a
\* pipeline that passes is run over, no listed label shows a field but its own,
\* and nothing but a number is charted.
THEOREM QueriesTold == ToolsSpec => []QueriesShowListedLabels
<1> DEFINE Inv ==
      /\ tool = "query" => QueryInv
      /\ tool = "pipeline" => PipelineInv
<1>1. Start => Inv
  <2>1. Start => (tool = "query" => QueryInv)
    BY QueryInit DEF Start
  <2>2. Start => (tool = "pipeline" => PipelineInv)
    BY PipelineInit DEF Start
  <2> QED
    BY <2>1, <2>2
<1>2. Inv /\ [Step]_all => Inv'
  <2> SUFFICES ASSUME Inv, [Step]_all PROVE Inv'
    OBVIOUS
  <2>1. /\ tool' = tool
        /\ tool = "query" => [Query!Next]_query_vars
        /\ tool = "pipeline" => [Pipeline!Next]_pipeline_vars
    <3>1. CASE LayOut BY <3>1 DEF LayOut
    <3>2. CASE WalkQuery BY <3>2 DEF WalkQuery
    <3>3. CASE ReadPipelines BY <3>3 DEF ReadPipelines
    <3>4. CASE LintCloud BY <3>4 DEF LintCloud
    <3>5. CASE LintLocal BY <3>5 DEF LintLocal
    <3>6. CASE LintRules BY <3>6 DEF LintRules
    <3>7. CASE LintTheFiles BY <3>7 DEF LintTheFiles
    <3>8. CASE ReadCatalogue BY <3>8 DEF ReadCatalogue
    <3>9. CASE UNCHANGED all BY <3>9 DEF all
    <3> QED BY <3>1, <3>2, <3>3, <3>4, <3>5, <3>6, <3>7, <3>8, <3>9 DEF Step
  <2>2. tool = "query" => QueryInv'
    BY <2>1, QueryStep
  <2>3. tool = "pipeline" => PipelineInv'
    BY <2>1, PipelineStep
  <2> QED
    BY <2>1, <2>2, <2>3
<1>3. Inv => QueriesShowListedLabels
  BY QuerySafe, PipelineSafe DEF QueriesShowListedLabels
<1> QED
  BY <1>1, <1>2, <1>3, PTL DEF ToolsSpec
=============================================================================
