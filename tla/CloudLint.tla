------------------------------ MODULE CloudLint ------------------------------
(***************************************************************************)
(* scripts/dashboard_lint.py, lint_cloud and query_facts: rules 6 to 10,   *)
(* for a dashboard baked into the production image.                        *)
(*                                                                         *)
(* One panel, then one query of it, a step. A name is a string compared    *)
(* whole, a pattern the set of names it matches, and an error the rule     *)
(* that was broken. Left out: the wording, and which panel an error names. *)
(***************************************************************************)
EXTENDS Integers, Sequences, FiniteSets, SequencesExt

CONSTANTS
  Dashboards,          \* the dashboards tried: [variables, panels]
  datasources,         \* uid -> the placeholder of its project, "" if it has none
  METRIC_TYPE_RE, MONITORED_RESOURCES, CLOUD_PANEL_TYPES,
  ALLOWED_LABELS,
  LABEL_ONLY_ON,       \* label -> the metrics it is allowed on
  RESOURCE_LABELS      \* the labels that come with a resource

None == "None"
FILTER_OPERATORS == {"=", "=~"}

VARIABLES
  dashboard,
  p,        \* the panel looked at
  q,        \* its query looked at, 0 for the panel itself
  errors    \* the rules broken so far

vars == <<dashboard, p, q, errors>>

-----------------------------------------------------------------------------

\* Every panel, a row's own after it.
panels == FlattenSeq([k \in DOMAIN dashboard.panels |->
                        <<dashboard.panels[k]>> \o dashboard.panels[k].panels])
panel == panels[p]

\* The characters a title of a panel w columns wide can show.
title_room(w, links) == (((w * 1440) \div 24) - 32 - (IF links THEN 16 ELSE 0)) \div 8

\* The broken rules of a record of rules.
Broken(rules) == {rule \in DOMAIN rules : rules[rule]}

\* Rule 7: a legend names one allowed label, never the map of them.
Legends(named) == named \ ALLOWED_LABELS # {}

Silent == panel.type \in {"row", "text"}
uids == {panel.targets[k].uid : k \in DOMAIN panel.targets}

\* Rule 8: the queries of a panel go to the panel's datasource.
OwnDatasource == uids # {} /\ uids # {panel.uid}

PanelErrors == Broken(
  [type      |-> panel.type \notin CLOUD_PANEL_TYPES,
   title     |-> panel.type # "row" /\ panel.title > title_room(panel.w, panel.links),
   legend    |-> Legends(panel.legends),
   no_query  |-> IF Silent THEN panel.targets # <<>> ELSE panel.targets = <<>>,
   unknown   |-> ~Silent /\ panel.uid \notin DOMAIN datasources,
   mixes     |-> ~Silent /\ OwnDatasource])

-----------------------------------------------------------------------------
(* query_facts *)

\* Mutant: the first of several filters is the query's.
OnlyFirst(t, key) ==
  LET having == SelectSeq(t.filters, LAMBDA f : f.key = key /\ f.op = "=")
  IN IF having # <<>> THEN having[1].value ELSE None

\* The one value a query is filtered to, if one filter names it.
Only(t, key) ==
  LET having == {k \in DOMAIN t.filters : t.filters[k].key = key /\ t.filters[k].op = "="}
  IN IF \E k \in having : having = {k} THEN t.filters[CHOOSE k \in having : TRUE].value ELSE None

\* Every label the query filters, groups or aggregates on.
Labels(t) ==
  ({t.filters[k].key : k \in DOMAIN t.filters} \ {"metric.type", "resource.type"})
    \cup t.groupBys \cup t.secondaryGroupBys

\* Mutant: any reducer will do.
GroupsAny(reducer) == reducer # None

\* A reducer that groups: REDUCE_NONE keeps every label of every series.
Groups(reducer) == reducer \notin {None, "REDUCE_NONE"}

\* Mutant: a query may name any project.
ProjectAny(t) == t.projectName = None

\* A second stage, if any of its settings is there.
Secondary(t) == t.secondary \/ t.secondaryGroupBys # {} \/ t.secondaryReducer # None

\* A query names its datasource's project.
Project(t) == datasources[t.uid] = "" \/ t.projectName # datasources[t.uid]

\* A label allowed on some metrics alone, on another.
Elsewhere(label, metric) ==
  label \in DOMAIN LABEL_ONLY_ON /\ metric \notin LABEL_ONLY_ON[label]

Form(t) ==
  [form |-> t.queryType # "timeSeriesList", block |-> t.blocks # {},
   project |-> Project(t), headers |-> t.view # "FULL", variable |-> t.variable]

Facts(t) ==
  LET metric == Only(t, "metric.type")
      resource == Only(t, "resource.type")
      labels == Labels(t) \cup t.aliasBy
  IN [metric     |-> metric \notin METRIC_TYPE_RE,
      resource   |-> resource # None /\ resource \notin MONITORED_RESOURCES,
      operator   |-> \E k \in DOMAIN t.filters : t.filters[k].op \notin FILTER_OPERATORS,
      label      |-> labels \ ALLOWED_LABELS # {},
      elsewhere  |-> \E label \in labels : Elsewhere(label, metric),
      unfiltered |-> resource = None /\ labels \cap RESOURCE_LABELS # {},
      aligner    |-> ~t.aligned,
      reducer    |-> ~Groups(t.reducer) \/ (Secondary(t) /\ ~Groups(t.secondaryReducer))]

\* Rules 6 and 7. A query elsewhere is only said to be, and one whose filters
\* cannot be read is judged no further than that.
QueryErrors(t) ==
  IF t.type # "stackdriver" \/ t.uid \notin DOMAIN datasources THEN {"not_cloud"}
  ELSE Broken(Form(t)) \cup IF t.joined THEN Broken(Facts(t)) ELSE {"filters"}

-----------------------------------------------------------------------------

Init ==
  /\ dashboard \in Dashboards /\ p = 1 /\ q = 0
  /\ errors = IF dashboard.variables THEN {"variables"} ELSE {}

\* A row or a text runs no query and is done with.
LintPanel ==
  /\ p \in DOMAIN panels /\ q = 0
  /\ errors' = errors \cup PanelErrors
  /\ IF Silent \/ panel.targets = <<>> THEN p' = p + 1 /\ UNCHANGED q ELSE q' = 1 /\ UNCHANGED p
  /\ UNCHANGED dashboard

LintQuery ==
  /\ p \in DOMAIN panels /\ q > 0
  /\ errors' = errors \cup QueryErrors(panel.targets[q])
  /\ IF q = Len(panel.targets) THEN p' = p + 1 /\ q' = 0 ELSE q' = q + 1 /\ UNCHANGED p
  /\ UNCHANGED dashboard

Next == LintPanel \/ LintQuery

Spec == Init /\ [][Next]_vars /\ WF_vars(Next)

Done == p \notin DOMAIN panels

-----------------------------------------------------------------------------
(***************************************************************************)
(* What an accepted cloud dashboard can show, told from what Cloud         *)
(* Monitoring answers to its queries.                                      *)
(***************************************************************************)

CONSTANT
  Carries    \* metric -> the labels its series carry

\* The type of every variable.
TypeOK ==
  /\ p \in 1..(Len(panels) + 1)
  /\ q \in 0..(IF Done THEN 0 ELSE Len(panel.targets))
  /\ IsFiniteSet(errors)

-----------------------------------------------------------------------------

Accepted == Done /\ errors = {}
Asked == UNION {{panels[k].targets[j] : j \in DOMAIN panels[k].targets} : k \in DOMAIN panels}

\* The metrics a filter list lets through, and the labels their series keep
\* after each reduction: grouped ones, or all of them where nothing reduces.
Metrics(t) == {m \in DOMAIN Carries :
  \A k \in DOMAIN t.filters : t.filters[k].key = "metric.type" /\ t.filters[k].op = "="
                                => t.filters[k].value = m}
Kept(carried, reducer, groups) ==
  IF reducer \in {None, "REDUCE_NONE"} THEN carried ELSE carried \cap groups
Answer(t, metric) ==
  LET first == Kept(Carries[metric], t.reducer, t.groupBys)
  IN IF Secondary(t) THEN Kept(first, t.secondaryReducer, t.secondaryGroupBys) ELSE first

\* Rule 7: no series an accepted dashboard reads comes back with a label off
\* the allowlist, nor with one the allowlist admits on other metrics alone.
OnlyListedLabels ==
  Accepted => \A t \in Asked : \A m \in Metrics(t) :
    \A label \in Answer(t, m) : label \in ALLOWED_LABELS /\ ~Elsewhere(label, m)

\* Rules 6 and 8: Grafana sends a panel's queries where the panel says, unless
\* the panel leaves it to them. Every project an accepted panel reads is that
\* of its one datasource, so a PHI-project panel shows nothing else.
Sent(k, t) == IF panels[k].uid = "-- Mixed --" THEN t.uid ELSE panels[k].uid
OneProjectPerPanel ==
  Accepted => \A k \in DOMAIN panels :
    Cardinality({t.projectName : t \in ToSet(panels[k].targets)}) <= 1
    /\ \A t \in ToSet(panels[k].targets) :
         Sent(k, t) \in DOMAIN datasources /\ t.projectName = datasources[Sent(k, t)]

\* A query whose metric is pinned to one is about one: two filters on the type
\* that both pass would read a metric no rule looked at, or none.
OneMetric == Accepted => \A t \in Asked : Cardinality(Metrics(t)) = 1

\* What an accepted cloud dashboard promises.
Safe ==
  /\ TypeOK /\ OnlyListedLabels /\ OneProjectPerPanel /\ OneMetric
=============================================================================
