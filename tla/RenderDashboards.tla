--------------------------- MODULE RenderDashboards ---------------------------
(***************************************************************************)
(* cloud/render-dashboards.sh, the image's entrypoint: the pages of this   *)
(* environment written into Grafana's directory, then Grafana started.     *)
(* A container may stop between any two steps and start again, with the    *)
(* same settings or others, over the directory it left or an empty one.    *)
(*                                                                         *)
(* A page is a sequence of parts: plain text, and the tokens written by    *)
(* scripts/cloud_dashboards.py. A project id is BOOLEAN, whether it is     *)
(* one. Left out: spaces and underscores in the names lists.               *)
(***************************************************************************)
EXTENDS Naturals, Sequences, FiniteSets, SequencesExt, DashboardPages

CONSTANTS
  Images,      \* the sources tried: <<directory, page>> -> parts
  Settings,    \* of a container
  KNOWN_PAUSED_JOBS, KNOWN_NOT_DEPLOYED_JOBS, KNOWN_DATABASES,
  MaxStarts    \* times a container starts

VARIABLES
  image,
  set,         \* the settings of this start
  starts,
  pc,          \* where the script is
  work,        \* its scratch directory: page -> parts
  dst          \* Grafana's directory

vars == <<image, set, starts, pc, work, dst>>

Plain(text) == [kind |-> "plain", deps |-> {}, quiet |-> "", normal |-> text]

-----------------------------------------------------------------------------
(* The tokens, as scripts/cloud_dashboards.py writes them *)

when_quiet(deps, normal) == [kind |-> "R", deps |-> deps, quiet |-> "", normal |-> normal]
when_quiet_reads(deps, normal, quiet) == [kind |-> "F", deps |-> deps, quiet |-> quiet, normal |-> normal]
per_environment(production, beta) ==
  IF production = beta THEN Plain(beta)
  ELSE [kind |-> "E", deps |-> {}, quiet |-> production, normal |-> beta]
project(uid) == [kind |-> "P", deps |-> {}, quiet |-> "", normal |-> uid]

\* quieten: what a tile shows becomes the reason and what it is coloured with neutral.
quieten(deps, noValue, color) == <<when_quiet(deps, noValue), when_quiet_reads(deps, color, "text")>>

-----------------------------------------------------------------------------
(* The settings, and the program made of them *)

Refused ==
  \/ set.environment \notin Environments
  \/ ~set.ids
  \/ set.environment = "production" /\ set.paused \cup set.not_deployed \cup set.stopped # {}
  \/ ~(set.paused \subseteq KNOWN_PAUSED_JOBS)
  \/ ~(set.not_deployed \subseteq KNOWN_NOT_DEPLOYED_JOBS)
  \/ ~(set.stopped \subseteq KNOWN_DATABASES)
  \/ set.paused \cap set.not_deployed # {}

\* One rule a quiet name, a job not deployed first, then a paused one.
Program ==
  LET rules(names, reason) == [k \in 1..Cardinality(names) |-> [name |-> SetToSeq(names)[k], reason |-> reason]]
  IN rules(set.not_deployed, "not deployed") \o rules(set.paused, "paused") \o rules(set.stopped, "database stopped")

\* A rule settles the tokens that list its name.
Apply(part, rule) ==
  IF part.kind = "R" /\ rule.name \in part.deps THEN Plain(rule.reason)
  ELSE IF part.kind = "F" /\ rule.name \in part.deps THEN Plain(part.quiet) ELSE part

\* The rules that come last: every token left reads its normal text, and a
\* project is its id, empty where it has none.
Settle(part) ==
  CASE part.kind \in {"R", "F"} -> Plain(part.normal)
    [] part.kind = "E" -> Plain(IF set.environment = "production" THEN part.quiet ELSE part.normal)
    [] part.kind = "P" -> [part EXCEPT !.kind = IF part.normal = "cloud-cc" /\ ~set.cc THEN "no project" ELSE "project"]
    [] OTHER -> part

Sed(page) == [k \in DOMAIN page |-> Settle(FoldLeft(Apply, page[k], Program))]

-----------------------------------------------------------------------------

src == DOMAIN image

Init ==
  /\ image \in Images /\ set \in Settings /\ starts = 1
  /\ pc = "check" /\ work = <<>> /\ dst = <<>>

Check ==
  /\ pc = "check"
  /\ pc' = IF Refused \/ Pages(src) = {} THEN "refused" ELSE "render"
  /\ UNCHANGED <<image, set, starts, work, dst>>

\* One page, into the scratch directory.
Render ==
  /\ pc = "render"
  /\ \E name \in Kept(src, set.cc) \ DOMAIN work :
       work' = [n \in DOMAIN work \cup {name} |->
                  IF n = name THEN Sed(image[Chosen(src, name, set.cc, set.environment)]) ELSE work[n]]
  /\ UNCHANGED <<image, set, starts, pc, dst>>

\* No token is left in what was written; then the old pages go.
Settled(page) == \A k \in DOMAIN page : page[k].kind \in {"plain", "project", "no project"}

\* Mutant: the pages there before are written over and not removed.
RemoveNothing ==
  /\ pc = "render" /\ DOMAIN work = Kept(src, set.cc)
  /\ pc' = IF \A name \in DOMAIN work : Settled(work[name]) THEN "move" ELSE "refused"
  /\ UNCHANGED <<image, set, starts, work, dst>>

RemoveOld ==
  /\ pc = "render" /\ DOMAIN work = Kept(src, set.cc)
  /\ IF \A name \in DOMAIN work : Settled(work[name])
     THEN pc' = "move" /\ dst' = <<>>
     ELSE pc' = "refused" /\ UNCHANGED dst
  /\ UNCHANGED <<image, set, starts, work>>

\* mv moves one file at a time.
Move ==
  /\ pc = "move"
  /\ \E name \in DOMAIN work :
       /\ dst' = [n \in DOMAIN dst \cup {name} |-> IF n = name THEN work[n] ELSE dst[n]]
       /\ work' = [n \in DOMAIN work \ {name} |-> work[n]]
  /\ UNCHANGED <<image, set, starts, pc>>

\* Mutant: the pages left out are waited for.
ExecAll ==
  /\ pc = "move" /\ work = <<>> /\ DOMAIN dst = Pages(src)
  /\ pc' = "grafana"
  /\ UNCHANGED <<image, set, starts, work, dst>>

\* Grafana takes the script's place.
Exec ==
  /\ pc = "move" /\ work = <<>>
  /\ pc' = "grafana"
  /\ UNCHANGED <<image, set, starts, work, dst>>

\* A container stops, and one starts: again over its own directory, or a new
\* one over an empty one.
Restart ==
  /\ starts < MaxStarts
  /\ starts' = starts + 1 /\ set' \in Settings
  /\ pc' = "check" /\ work' = <<>> /\ dst' \in {dst, <<>>}
  /\ UNCHANGED image

Script == Check \/ Render \/ RemoveOld \/ Move \/ Exec
Next == Script \/ Restart

Spec == Init /\ [][Next]_vars /\ WF_vars(Script)

-----------------------------------------------------------------------------
(* The images there are *)

\* An image as scripts/cloud_dashboards.py writes it: pages of parts, and none
\* that is used where there is no call centre names its project.
Parts == [kind : STRING, deps : SUBSET STRING, quiet : STRING, normal : STRING]
Written(im) ==
  /\ \A f \in DOMAIN im : f = <<f[1], f[2]>> /\ im[f] \in Seq(Parts)
  /\ \A f \in DOMAIN im : \A k \in DOMAIN im[f] : im[f][k].kind # "no project"
  /\ \A name \in Pages(DOMAIN im) \ CC_ONLY_PAGES, environment \in Environments :
       LET page == im[Chosen(DOMAIN im, name, FALSE, environment)] IN
       \A k \in DOMAIN page : page[k].kind = "P" => page[k].normal # "cloud-cc"

-----------------------------------------------------------------------------
(***************************************************************************)
(* What Grafana is given, and what its tiles read.                         *)
(***************************************************************************)

\* The type of every variable; every page in Grafana's directory is settled.
TypeOK ==
  /\ set \in Settings /\ starts \in 1..MaxStarts
  /\ pc \in {"check", "render", "move", "grafana", "refused"}
  /\ DOMAIN work \subseteq Pages(src) /\ DOMAIN dst \subseteq Pages(src)
  /\ \A name \in DOMAIN dst : Settled(dst[name])

-----------------------------------------------------------------------------

Grafana == pc = "grafana"

\* Grafana never reads a half-rendered set: whatever was in its directory and
\* wherever an earlier start stopped, it has exactly this environment's pages.
WholeSet ==
  Grafana => /\ DOMAIN dst = Kept(src, set.cc)
             /\ \A name \in DOMAIN dst :
                  Len(dst[name]) = Len(image[Chosen(src, name, set.cc, set.environment)])

\* A tile says why it is quiet, in no colour, exactly while one of the names it
\* depends on is quiet: "not deployed" before "paused" before "database
\* stopped". In production none ever does.
Reason(deps) ==
  IF deps \cap set.not_deployed # {} THEN "not deployed"
  ELSE IF deps \cap set.paused # {} THEN "paused"
  ELSE IF deps \cap set.stopped # {} THEN "database stopped" ELSE ""
QuietOnPurpose ==
  Grafana => \A name \in DOMAIN dst :
    LET from == image[Chosen(src, name, set.cc, set.environment)] IN
    \A k \in DOMAIN from : LET why == Reason(from[k].deps) IN
      /\ from[k].kind = "R" => dst[name][k].normal = (IF why = "" THEN from[k].normal ELSE why)
      /\ from[k].kind = "F" => dst[name][k].normal = (IF why = "" THEN from[k].normal ELSE from[k].quiet)
      /\ set.environment = "production" => why = ""

\* Grafana drops a query that names no project without a word: no page it is
\* given holds one, with a call centre or without, in any environment.
EveryQueryHasAProject ==
  Grafana => \A name \in DOMAIN dst : \A k \in DOMAIN dst[name] : dst[name][k].kind # "no project"

\* A start is refused for its settings, for an image with no page, or for a
\* token in a page the script does not know, and for nothing an earlier start
\* left.
Unknown == \E f \in src : \E k \in DOMAIN image[f] : image[f][k].kind \notin {"plain", "R", "F", "E", "P"}
RefusedForCause == pc = "refused" => Refused \/ Pages(src) = {} \/ Unknown

\* What Grafana is given, all of it.
Safe ==
  /\ TypeOK /\ WholeSet /\ QuietOnPurpose /\ EveryQueryHasAProject
  /\ RefusedForCause

\* Where it ends.
Over == pc \in {"grafana", "refused"}
=============================================================================
