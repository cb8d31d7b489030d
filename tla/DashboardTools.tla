--------------------------- MODULE DashboardTools ---------------------------
(***************************************************************************)
(* The tools a dashboard passes through before Grafana draws it: the       *)
(* layout of a generator's page, the catalogue reader, and the linter's    *)
(* rules on a query, a pipeline, a dashboard, a rule file and the files    *)
(* together. They share no state, so one of them runs in each behaviour.   *)
(***************************************************************************)
EXTENDS PanelLayout

CONSTANTS
  \* the linter's lists
  LOCAL_LABELS, LOCAL_BARE_SERIES, AGGREGATIONS, RANGE_AGGREGATIONS,
  METRIC_TYPE_RE, MONITORED_RESOURCES, CLOUD_PANEL_TYPES, ALLOWED_LABELS, LABEL_ONLY_ON,
  RESOURCE_LABELS, LOCAL_UIDS, FORBIDDEN, CLOUD_VARIANTS, CC_ONLY_PAGES,
  \* what surrounds them
  datasources, Carries, Default,
  \* the inputs tried
  Queries, Texts, CloudDashboards, LocalDashboards, Rules, Trees,
  Keys, Indents, MaxLines, MaxColumn

ASSUME LabelsAreAllowed == DOMAIN LABEL_ONLY_ON \cup RESOURCE_LABELS \subseteq ALLOWED_LABELS

\* The files as collect finds them: of the directories it goes through, each once.
ASSUME FilesAreCollected ==
  /\ {"local", "pages", "rules"} \cap CLOUD_VARIANTS = {}
  /\ Trees \subseteq Seq([dir : {"local", "pages", "rules"} \cup CLOUD_VARIANTS, name : STRING,
                          body : STRING, uid : STRING, clean : BOOLEAN])
  /\ \A listed \in Trees : \A j, k \in DOMAIN listed :
       listed[j].dir = listed[k].dir /\ listed[j].name = listed[k].name => j = k

\* What a key holds stands deeper than the key.
ASSUME MappingsAreDeeper == Indents \subseteq Nat \ {0} /\ MaxColumn \in Nat

VARIABLES
  tool,    \* the one that runs
  \* QueryLabels
  query, token, stack, entries, awaiting, selectors, query_problems,
  \* Pipelines
  text, item, depth, pipe, pipes, pipe_problems, judged,
  \* CloudLint
  cloud, cloud_panel, cloud_query, cloud_errors,
  \* LocalLint
  local, annotation, local_panel, local_errors,
  \* LokiRules
  rule_lines, number, labels_indent, rule_errors,
  \* LintFiles
  files, file_at, seen_uids, file_errors, exit,
  \* CatalogueTree
  containers, written, block, catalogue_lines, levels, tree,
  skip_deeper_than, items

Query == INSTANCE QueryLabels WITH
  i <- token, problems <- query_problems
Pipeline == INSTANCE Pipelines WITH
  i <- item, problems <- pipe_problems
Cloud == INSTANCE CloudLint WITH
  Dashboards <- CloudDashboards, dashboard <- cloud, p <- cloud_panel,
  q <- cloud_query, errors <- cloud_errors
Local == INSTANCE LocalLint WITH
  Dashboards <- LocalDashboards, dashboard <- local, a <- annotation,
  p <- local_panel, errors <- local_errors
RuleFile == INSTANCE LokiRules WITH
  lines <- rule_lines, errors <- rule_errors
Files == INSTANCE LintFiles WITH
  at <- file_at, errors <- file_errors
Catalogue == INSTANCE CatalogueTree WITH
  stack <- levels, lines <- catalogue_lines, open <- containers

\* A list, of whatever it holds.
IsList(s) == s \in Seq({s[k] : k \in DOMAIN s})

\* The panels of a dashboard, a row's own among them.
PanelsOf(page) ==
  {page.panels[k] : k \in DOMAIN page.panels}
    \cup UNION {{page.panels[k].panels[j] : j \in DOMAIN page.panels[k].panels} : k \in DOMAIN page.panels}

\* A dashboard's JSON: its panels are a list, and so is what a row holds.
IsPage(page) ==
  IsList(page.panels) /\ \A k \in DOMAIN page.panels : IsList(page.panels[k].panels)

\* A panel's queries are a list. The metrics the rule lists are there to ask for.
ASSUME CloudPagesAreWhole ==
  /\ \A page \in CloudDashboards : IsPage(page) /\ \A panel \in PanelsOf(page) : IsList(panel.targets)
  /\ METRIC_TYPE_RE \subseteq DOMAIN Carries /\ Cloud!None \notin METRIC_TYPE_RE

\* Lists, and a default that Grafana has (datasources.yml).
ASSUME LocalPagesAreWhole ==
  /\ LOCAL_UIDS \subseteq {"prometheus", "loki"} /\ Default \in LOCAL_UIDS
  /\ \A page \in LocalDashboards : IsPage(page) /\ IsList(page.annotations)

\* The column a line's key stands in.
ColumnOf(line) == line.indent + (IF line.dash THEN 2 ELSE 0)

\* Labels are a mapping: a dash comes after their key only once a line has come
\* that is no deeper.
ASSUME LabelsAreMappings ==
  /\ {"expr", "labels"} \cap LOCAL_LABELS = {}
  /\ Rules \subseteq Seq([indent : Nat, dash : BOOLEAN, key : STRING, value : STRING])
  /\ \A file \in Rules : \A j \in DOMAIN file : file[j].key = "labels" =>
       \A k \in DOMAIN file : j < k /\ file[k].dash =>
         \E i \in (j + 1)..k : file[i].key # "#" /\ ColumnOf(file[i]) <= ColumnOf(file[j])

\* A pipeline stands from behind its selector to the range or the bracket that
\* ends it: its stages, in their order, among brackets that come out even.
IsCut(list, written_as, cut) ==
  LET inner == cut.from..(cut.to - 1)
      Mark(k, name) == Pipeline!Mark(list[k]) /\ list[k].name = name
  IN /\ cut.from \in Nat /\ cut.to \in Nat /\ 1 < cut.from /\ cut.from <= cut.to /\ cut.to <= Len(list) + 1
     /\ Mark(cut.from - 1, "{")
     /\ cut.to \in DOMAIN list => Mark(cut.to, "[") \/ Mark(cut.to, ")")
     /\ cut.at \in [DOMAIN written_as -> inner]
     /\ \A j, k \in DOMAIN written_as : j < k => cut.at[j] < cut.at[k]
     /\ \A k \in DOMAIN written_as : list[cut.at[k]] = written_as[k]
     /\ \A k \in inner : Pipeline!Mark(list[k]) <=> \A j \in DOMAIN written_as : cut.at[j] # k
     /\ DOMAIN cut.closes = {k \in inner : Mark(k, "(")}
     /\ \A k \in DOMAIN cut.closes : cut.closes[k] \in inner /\ k < cut.closes[k] /\ Mark(cut.closes[k], ")")
     /\ \A j, k \in DOMAIN cut.closes : cut.closes[j] = cut.closes[k] => j = k
     /\ \A k \in inner : Mark(k, ")") => \E j \in DOMAIN cut.closes : cut.closes[j] = k
     /\ \A k \in inner : Mark(k, "[") => \E j \in DOMAIN cut.closes : j < k /\ k < cut.closes[j]

\* A LogQL query: every selector's pipeline stands somewhere, one after the other.
ASSUME TextsAreWritten ==
  \A text_of \in Texts :
    LET list == text_of.items
        cuts == text_of.cuts
    IN /\ IsList(list) /\ IsList(text_of.pipes) /\ IsList(cuts) /\ Len(cuts) = Len(text_of.pipes)
       /\ \A k \in DOMAIN cuts : IsList(text_of.pipes[k]) /\ IsCut(list, text_of.pipes[k], cuts[k])
       /\ \A j, k \in DOMAIN cuts : j < k => cuts[j].to < cuts[k].from
       /\ \A k \in DOMAIN list : Pipeline!Mark(list[k]) /\ list[k].name = "{" =>
            \E j \in DOMAIN cuts : cuts[j].from - 1 <= k /\ k < cuts[j].to

\* The stages there are. What the vetted templates and numbers are made of are
\* labels of their own, and a vetted regexp names one of them.
ASSUME StagesAreNamed ==
  /\ "operation" \in LOCAL_LABELS /\ {"n", "f", "k", "rc", "ts", "d"} \cap LOCAL_LABELS = {}
  /\ \A text_of \in Texts : \A k \in DOMAIN text_of.pipes : \A j \in DOMAIN text_of.pipes[k] :
       LET s == text_of.pipes[k][j] IN
       /\ s.op \in {"json", "logfmt", "regexp", "label_format", "line_format", "pattern", "unwrap"}
       /\ s.op = "regexp" /\ s.from \in Pipeline!VETTED_REGEXPS => s.name = "n"

\* Queries are lists of tokens, written from a tree. No keyword is an aggregation,
\* and no bracket a series.
ASSUME QueriesAreTrees ==
  /\ Query!KEYWORDS \cap AGGREGATIONS = {} /\ "{" \notin LOCAL_BARE_SERIES
  /\ \A tree_of \in Queries :
       IsList(tree_of.tokens) /\ Query!Balanced(tree_of) /\ Query!Grouping(tree_of) /\ Query!Said(tree_of)

\* What Prometheus and Loki answer, with no experimental function (info) on.
ASSUME AnswersAreOfTheQuery == \A tree_of \in Queries : Query!Answered(tree_of)

query_vars == <<query, token, stack, entries, awaiting, selectors,
      query_problems>>
pipeline_vars == <<text, item, depth, pipe, pipes, pipe_problems, judged>>
cloud_vars == <<cloud, cloud_panel, cloud_query, cloud_errors>>
local_vars == <<local, annotation, local_panel, local_errors>>
rules_vars == <<rule_lines, number, labels_indent, rule_errors>>
files_vars == <<files, file_at, seen_uids, file_errors, exit>>
catalogue_vars == <<containers, written, block, catalogue_lines, levels,
      tree, skip_deeper_than, items>>
all == <<tool, vars, query_vars, pipeline_vars, cloud_vars, local_vars,
      rules_vars, files_vars, catalogue_vars>>

-----------------------------------------------------------------------------

\* One runs, from any of its starts; the variables of the others stay as they are.
Start ==
  /\ tool \in {"layout", "query", "pipeline", "cloud", "local", "rules", "files", "catalogue"}
  /\ Init
  /\ IF tool = "query" THEN Query!Init
     ELSE query = "none" /\ token = 0 /\ stack = <<>> /\ entries = <<>>
          /\ awaiting = <<>> /\ selectors = <<>> /\ query_problems = {}
  /\ IF tool = "pipeline" THEN Pipeline!Init
     ELSE text = "none" /\ item = 1 /\ depth = -1 /\ pipe = <<>> /\ pipes = <<>>
          /\ pipe_problems = {} /\ judged = 0
  /\ IF tool = "cloud" THEN Cloud!Init
     ELSE cloud = "none" /\ cloud_panel = 1 /\ cloud_query = 0 /\ cloud_errors = {}
  /\ IF tool = "local" THEN Local!Init
     ELSE local = "none" /\ annotation = 1 /\ local_panel = 1 /\ local_errors = {}
  /\ IF tool = "rules" THEN RuleFile!Init
     ELSE rule_lines = <<>> /\ number = 1 /\ labels_indent = -1 /\ rule_errors = {}
  /\ IF tool = "files" THEN Files!Init
     ELSE files = <<>> /\ file_at = 1 /\ seen_uids = <<>> /\ file_errors = {} /\ exit = 2
  /\ Catalogue!Init

LayOut == tool = "layout" /\ Next
  /\ UNCHANGED <<tool, query_vars, pipeline_vars, cloud_vars, local_vars,
       rules_vars, files_vars, catalogue_vars>>
WalkQuery == tool = "query" /\ Query!Next
  /\ UNCHANGED <<tool, vars, pipeline_vars, cloud_vars, local_vars,
       rules_vars, files_vars, catalogue_vars>>
ReadPipelines == tool = "pipeline" /\ Pipeline!Next
  /\ UNCHANGED <<tool, vars, query_vars, cloud_vars, local_vars, rules_vars,
       files_vars, catalogue_vars>>
LintCloud == tool = "cloud" /\ Cloud!Next
  /\ UNCHANGED <<tool, vars, query_vars, pipeline_vars, local_vars,
       rules_vars, files_vars, catalogue_vars>>
LintLocal == tool = "local" /\ Local!Next
  /\ UNCHANGED <<tool, vars, query_vars, pipeline_vars, cloud_vars,
       rules_vars, files_vars, catalogue_vars>>
LintRules == tool = "rules" /\ RuleFile!Next
  /\ UNCHANGED <<tool, vars, query_vars, pipeline_vars, cloud_vars,
       local_vars, files_vars, catalogue_vars>>
LintTheFiles == tool = "files" /\ Files!Next
  /\ UNCHANGED <<tool, vars, query_vars, pipeline_vars, cloud_vars,
       local_vars, rules_vars, catalogue_vars>>
ReadCatalogue == tool = "catalogue" /\ Catalogue!Next
  /\ UNCHANGED <<tool, vars, query_vars, pipeline_vars, cloud_vars,
       local_vars, rules_vars, files_vars>>

Step ==
  \/ LayOut \/ WalkQuery \/ ReadPipelines \/ LintCloud \/ LintLocal
  \/ LintRules \/ LintTheFiles \/ ReadCatalogue

ToolsSpec == Start /\ [][Step]_all

-----------------------------------------------------------------------------
(* What they promise *)

\* A query passes dashboard_lint.py exactly when the tree it was written from
\* says it may. No answer to one that passes has an unlisted label, where every
\* series it reads is reduced and not only picked or ordered, and nothing of a
\* log line but its vetted fields.
QueriesShowListedLabels ==
  /\ tool = "query" => Query!Safe
  /\ tool = "pipeline" => Pipeline!Safe

\* Rule 5b as the linter's documentation has it: "every label it can return is
\* on LOCAL_LABELS". It is not so: topk, sort and their like count as
\* aggregations (AGGREGATIONS) and keep every label of what they are given.
EveryAnswerListed ==
  tool = "query" /\ Query!Done /\ query_problems = {} => query.returned \subseteq LOCAL_LABELS

\* Nor is anything unlisted in a dashboard that passes, on the cloud's side or the
\* local stack's, or in a block of labels of a rule file that passes. Each cloud
\* query was judged, and asks the project and datasource its panel names; so was
\* each local one that it or its panel addresses, and each rule's expr. Let
\* through unread are a local query that nothing addresses (lint_local) and
\* labels on the line of their key (lint_loki_rules).
PanelsShowListedLabels ==
  /\ tool = "cloud" => Cloud!Safe
  /\ tool = "local" => Local!Safe
  /\ tool = "rules" => RuleFile!Safe

\* After a clean lint every page the entrypoint can choose has one uid, its
\* own, and is reached by it in every environment.
FilesFitTogether == tool = "files" => Files!Safe

\* The catalogue the generators read is the one that was written, line by line.
CatalogueReadAsWritten == tool = "catalogue" => Catalogue!Safe
=============================================================================
