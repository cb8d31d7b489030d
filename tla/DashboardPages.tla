---------------------------- MODULE DashboardPages ----------------------------
(***************************************************************************)
(* Which file each page of the cloud image is written from: the loop of    *)
(* cloud/render-dashboards.sh, used by the linter's module for the         *)
(* dashboards Grafana may be given together.                               *)
(***************************************************************************)

CONSTANT CC_ONLY_PAGES    \* the pages that read the call centre alone

Environments == {"beta", "production"}

\* The pages of a directory of files <<directory, name>>.
Pages(src) == {f[2] : f \in {g \in src : g[1] = "pages"}}

\* Mutant: they are kept.
KeptAll(src, cc) == Pages(src)

\* With no call centre its own pages are left out.
Kept(src, cc) == IF cc THEN Pages(src) ELSE Pages(src) \ CC_ONLY_PAGES

\* The environment's page wins over one without the call centre, and that one
\* over the page.
Chosen(src, name, cc, environment) ==
  IF <<environment, name>> \in src THEN <<environment, name>>
  ELSE IF ~cc /\ <<"no-cc", name>> \in src THEN <<"no-cc", name>> ELSE <<"pages", name>>
=============================================================================
