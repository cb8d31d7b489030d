------------------------------ MODULE LintFiles ------------------------------
(***************************************************************************)
(* scripts/dashboard_lint.py, main and collect: the files linted, rule 3   *)
(* on their uids, and the exit status.                                     *)
(*                                                                         *)
(* What the other rules say of a file is given with it (clean). Left out:  *)
(* the command line, which names other files to lint, and the report.      *)
(***************************************************************************)
EXTENDS Naturals, Sequences, FiniteSets

CONSTANTS
  Trees,           \* the sequences of files tried, in collect's order
  CLOUD_VARIANTS

NoUid == ""

VARIABLES
  files,
  at,          \* the file looked at
  seen_uids,   \* uid -> the file that has it
  errors,      \* the files something is wrong with
  exit         \* its status once it has ended, else 2

vars == <<files, at, seen_uids, errors, exit>>

file == files[at]

\* The page a variant is written again from.
Page(f) == {k \in DOMAIN files : files[k].dir = "pages" /\ files[k].name = f.name}

\* A page that is no JSON object ends the run when its variant is read.
Crashes(f) == \E k \in Page(f) : files[k].body # "object"

\* Mutant: a variant's uid is not looked at.
VariantAny(f) == f.uid = NoUid

\* A variant has the uid of its page.
VariantWrong(f) == ~\E k \in Page(f) : files[k].uid = f.uid

\* Mutant: a uid used before is let through.
UsedNever(f) == FALSE

\* Any other dashboard has one of its own.
Used(f) == f.uid \in DOMAIN seen_uids

-----------------------------------------------------------------------------

Init ==
  /\ files \in Trees /\ at = 1 /\ seen_uids = <<>> /\ errors = {} /\ exit = 2

Running == exit = 2 /\ at \in DOMAIN files

\* What is wrong with a file is noted, and the next one looked at.
On(found) ==
  /\ errors' = IF found THEN errors \cup {at} ELSE errors
  /\ at' = at + 1 /\ UNCHANGED <<files, exit>>

\* Not a dashboard, and no rule reads it.
Unreadable ==
  /\ Running /\ file.body # "object"
  /\ On(TRUE) /\ UNCHANGED seen_uids

\* A Loki rule file has no uid.
LintRules ==
  /\ Running /\ file.dir = "rules" /\ file.body = "object"
  /\ On(~file.clean) /\ UNCHANGED seen_uids

\* With no uid the other rules still read it.
WithoutUid ==
  /\ Running /\ file.dir # "rules" /\ file.body = "object" /\ file.uid = NoUid
  /\ On(TRUE) /\ UNCHANGED seen_uids

Variant ==
  /\ Running /\ file.dir \in CLOUD_VARIANTS /\ file.body = "object" /\ file.uid # NoUid
  /\ ~Crashes(file)
  /\ On(VariantWrong(file) \/ ~file.clean) /\ UNCHANGED seen_uids

\* The exception is caught by nobody: the run ends with status 1.
Crash ==
  /\ Running /\ file.dir \in CLOUD_VARIANTS /\ file.body = "object" /\ file.uid # NoUid
  /\ Crashes(file) /\ exit' = 1
  /\ UNCHANGED <<files, at, seen_uids, errors>>

Dashboard ==
  /\ Running /\ file.dir \in {"local", "pages"} /\ file.body = "object" /\ file.uid # NoUid
  /\ On(Used(file) \/ ~file.clean)
  /\ seen_uids' = IF Used(file) THEN seen_uids
                  ELSE [u \in DOMAIN seen_uids \cup {file.uid} |->
                          IF u = file.uid THEN at ELSE seen_uids[u]]

Exit ==
  /\ exit = 2 /\ at \notin DOMAIN files
  /\ exit' = IF errors = {} THEN 0 ELSE 1
  /\ UNCHANGED <<files, at, seen_uids, errors>>

Next == Unreadable \/ LintRules \/ WithoutUid \/ Variant \/ Crash \/ Dashboard \/ Exit

Spec == Init /\ [][Next]_vars /\ WF_vars(Next)

-----------------------------------------------------------------------------
(***************************************************************************)
(* What a clean lint says of the dashboards Grafana is given.              *)
(***************************************************************************)

CONSTANT CC_ONLY_PAGES
Image == INSTANCE DashboardPages

\* The type of every variable; a file's uid is the one it was noted with.
TypeOK ==
  /\ at \in 1..(Len(files) + 1) /\ exit \in 0..2
  /\ errors \subseteq 1..(at - 1)
  /\ \A u \in DOMAIN seen_uids : seen_uids[u] < at /\ files[seen_uids[u]].uid = u

-----------------------------------------------------------------------------

src == {<<files[k].dir, files[k].name>> : k \in {j \in DOMAIN files : files[j].dir # "rules"}}
FileOf(f) == CHOOSE k \in DOMAIN files : <<files[k].dir, files[k].name>> = f

\* The dashboards one Grafana is given: the local ones, or the image's for an
\* environment with a call centre or without.
Given ==
  {{f \in src : f[1] = "local"}} \cup
  {{Image!Chosen(src, name, cc, e) : name \in Image!Kept(src, cc)} :
     cc \in BOOLEAN, e \in Image!Environments}

\* Rule 3, over every set of pages the entrypoint can write: after a clean
\* lint no two dashboards of one Grafana have the same uid.
UidsUnique ==
  exit = 0 => \A together \in Given : \A f, g \in together :
    files[FileOf(f)].uid = files[FileOf(g)].uid => f = g

\* A page is reached by the same uid whichever of its files it was written
\* from, so that a link to it works in every environment.
LinksHold ==
  exit = 0 => \A cc \in BOOLEAN, e \in Image!Environments : \A name \in Image!Kept(src, cc) :
    files[FileOf(Image!Chosen(src, name, cc, e))].uid = files[FileOf(<<"pages", name>>)].uid

\* A clean lint has read every file, whatever stopped it short.
NothingUnread == exit = 0 => \A k \in DOMAIN files : files[k].body = "object" /\ files[k].clean

\* What a clean lint promises of the files.
Safe ==
  /\ TypeOK /\ UidsUnique /\ LinksHold /\ NothingUnread
=============================================================================
