------------------------------ MODULE LocalLint ------------------------------
(***************************************************************************)
(* scripts/dashboard_lint.py, lint_dashboard and lint_local: rules 1, 2,   *)
(* 4b and 5 to 5d for a local dashboard, an annotation or a panel a step.  *)
(*                                                                         *)
(* A query is whether it passes query_problems (QueryLabels, Pipelines), a *)
(* text the labels and the forbidden fields it names, a datasource a uid   *)
(* and a type, None where it names none. Left out: a template variable     *)
(* (its texts are searched as a panel's are), a datasource written as one  *)
(* string, and the wording.                                                *)
(***************************************************************************)
EXTENDS Integers, Sequences, FiniteSets, SequencesExt

CONSTANTS Dashboards, LOCAL_UIDS, LOCAL_LABELS, FORBIDDEN

None == "None"
BUILTIN_UIDS == {"-- Grafana --", "grafana", "-- Mixed --", "-- Dashboard --", "__expr__"}
NO_QUERY_UIDS == {"__expr__", "-- Dashboard --"}
EXPRESSION_TYPES == {"math", "reduce", "resample", "threshold"}

VARIABLES
  dashboard,
  a,        \* the annotation looked at
  p,        \* the panel looked at, once the annotations are done
  errors

vars == <<dashboard, a, p, errors>>

-----------------------------------------------------------------------------

\* Every panel, a row's own after it.
panels == FlattenSeq([k \in DOMAIN dashboard.panels |->
                        <<dashboard.panels[k]>> \o dashboard.panels[k].panels])

\* Mutant: by type first.
by_type(ref, fallback) ==
  IF ref.type # None /\ ref.uid \notin BUILTIN_UIDS THEN ref.type
  ELSE IF ref.uid \in LOCAL_UIDS \cup NO_QUERY_UIDS THEN ref.uid ELSE fallback

\* A reference's type, by uid first; one of Grafana's own leaves it to the panel.
ds_type(ref, fallback) ==
  IF ref.uid \in LOCAL_UIDS \cup NO_QUERY_UIDS THEN ref.uid
  ELSE IF ref.type # None /\ ref.uid \notin BUILTIN_UIDS THEN ref.type ELSE fallback

Broken(rules) == {rule \in DOMAIN rules : rules[rule]}
Unlisted(named) == ~(named \subseteq LOCAL_LABELS)

\* A query of one of the two kinds that are judged, and fails.
Fails(kind, expr) == kind \in {"prometheus", "loki"} /\ expr = "bad"

-----------------------------------------------------------------------------

\* datasource_uids: wherever one stands.
AllUids ==
  LET refs == {panels[k].ds : k \in DOMAIN panels}
        \cup (UNION {{panels[k].targets[j].ds : j \in DOMAIN panels[k].targets} : k \in DOMAIN panels})
        \cup UNION {{ann.ds, ann.target.ds} : ann \in ToSet(dashboard.annotations)}
  IN {ref.uid : ref \in refs} \ {None}

\* The rules on the whole dashboard come first.
Init ==
  /\ dashboard \in Dashboards /\ a = 1 /\ p = 1
  /\ errors = IF AllUids \subseteq LOCAL_UIDS \cup BUILTIN_UIDS THEN {} ELSE {"uid"}

\* An annotation is a query twice over: its own, or below target.
Annotation ==
  /\ a \in DOMAIN dashboard.annotations
  /\ LET ann == dashboard.annotations[a]
         kind == ds_type(ann.ds, None)
     IN errors' = errors \cup Broken(
          [forbidden |-> ann.names \cap FORBIDDEN # {},
           query     |-> Fails(kind, ann.expr) \/ Fails(ds_type(ann.target.ds, kind), ann.target.expr),
           label     |-> Unlisted(ann.names)])
  /\ a' = a + 1 /\ UNCHANGED <<dashboard, p>>

\* One query of a panel.
TargetErrors(t, panel) ==
  LET kind == ds_type(t.ds, ds_type(panel.ds, None))
  IN Broken([expression |-> kind = "__expr__" /\ t.type \notin EXPRESSION_TYPES,
             query      |-> Fails(kind, t.expr),
             legend     |-> kind \in {"prometheus", "loki"} /\ Unlisted(t.legend)])

\* A panel's prose (title, description) is not read; all else it names is.
PanelErrors(panel) ==
  (UNION {TargetErrors(panel.targets[k], panel) : k \in DOMAIN panel.targets})
    \cup Broken([forbidden |-> panel.names \cap FORBIDDEN # {}, library |-> panel.library,
                 logs |-> panel.type = "logs", label |-> Unlisted(panel.labels)])

\* Every panel, its row open or not.
Panel ==
  /\ a \notin DOMAIN dashboard.annotations /\ p \in DOMAIN panels
  /\ errors' = errors \cup PanelErrors(panels[p])
  /\ p' = p + 1 /\ UNCHANGED <<dashboard, a>>

Next == Annotation \/ Panel

Spec == Init /\ [][Next]_vars /\ WF_vars(Next)

Done == a \notin DOMAIN dashboard.annotations /\ p \notin DOMAIN panels

-----------------------------------------------------------------------------
(***************************************************************************)
(* What an accepted local dashboard asks and shows.                        *)
(***************************************************************************)

CONSTANT Default    \* the datasource Grafana asks where none is named

\* The type of every variable; the annotations are read first.
TypeOK ==
  /\ a \in 1..(Len(dashboard.annotations) + 1) /\ p \in 1..(Len(panels) + 1)
  /\ p > 1 => a > Len(dashboard.annotations)

-----------------------------------------------------------------------------

Accepted == Done /\ errors = {}

\* Where Grafana sends a query: to its own datasource, to the panel's when it
\* names none of its own, else to the default.
Names(ref) == ref.uid # None \/ ref.type # None
Own(ref) == Names(ref) /\ ref.uid \notin BUILTIN_UIDS \ NO_QUERY_UIDS
Goes(ref) == IF ref.uid # None THEN ref.uid ELSE ref.type
Sent(ref, outer) == IF Own(ref) THEN Goes(ref) ELSE IF Own(outer) THEN Goes(outer) ELSE Default

\* A query names its datasource, or what it stands in does. One that neither
\* names goes to the default and is let through, whatever it asks.
Addressed(ref, outer) == Own(ref) \/ Own(outer)

\* Rules 2 and 5: a query that an accepted dashboard sends Prometheus or Loki,
\* from an annotation or a panel, inside a row or not, passes the query rules,
\* whether it names the datasource itself or leaves it to the panel; what fails
\* them is one that nothing addresses, which lint_local does not judge.
EveryQueryJudged ==
  Accepted =>
    /\ \A k \in DOMAIN panels : \A t \in ToSet(panels[k].targets) :
         Sent(t.ds, panels[k].ds) \in LOCAL_UIDS /\ t.expr = "bad" => ~Addressed(t.ds, panels[k].ds)
    /\ \A ann \in ToSet(dashboard.annotations) :
         /\ Sent(ann.ds, ann.ds) \in LOCAL_UIDS /\ ann.expr = "bad" => ~Own(ann.ds)
         /\ Sent(ann.target.ds, ann.ds) \in LOCAL_UIDS /\ ann.target.expr = "bad" =>
              ~Addressed(ann.target.ds, ann.ds)

\* Rules 1, 4b and 5d: whatever a panel shows or selects is on the list, and so
\* is its legend, but for that of a query that nothing addresses.
NothingUnlisted ==
  Accepted =>
    /\ \A k \in DOMAIN panels : LET panel == panels[k] IN
         /\ panel.names \cap FORBIDDEN = {} /\ panel.labels \subseteq LOCAL_LABELS
         /\ ~panel.library /\ panel.type # "logs"
         /\ \A t \in ToSet(panel.targets) :
              /\ Sent(t.ds, panel.ds) = "__expr__" => t.type \in EXPRESSION_TYPES
              /\ Sent(t.ds, panel.ds) \in LOCAL_UIDS /\ Unlisted(t.legend) => ~Addressed(t.ds, panel.ds)
    /\ \A ann \in ToSet(dashboard.annotations) : ann.names \subseteq LOCAL_LABELS \ FORBIDDEN

\* What an accepted local dashboard promises.
Safe ==
  /\ TypeOK /\ EveryQueryJudged /\ NothingUnlisted
=============================================================================
