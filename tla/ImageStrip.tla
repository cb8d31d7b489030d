------------------------------ MODULE ImageStrip ------------------------------
(***************************************************************************)
(* scripts/image_strip.py: the build step that takes the shells, dpkg, apt *)
(* and Python's installers out of an image, and checks what is left.       *)
(*                                                                         *)
(* A path is the sequence of its names; /bin is a link to /usr/bin. The    *)
(* script runs alone, so what varies is the image it starts from and       *)
(* whether pip succeeds. Left out: the format of dpkg's files (a package   *)
(* has a stanza, lists and other records), permissions but the set-id bits,*)
(* and what TOOL_STATE names but one folder.                               *)
(***************************************************************************)
EXTENDS Integers, Sequences, SequencesExt, FiniteSets, Functions

CONSTANTS
  Images,     \* the images tried
  Purge,      \* PURGE, in order
  Forbidden,  \* FORBIDDEN and FORBIDDEN_PREFIXES: names
  NoLogin,    \* NO_LOGIN, in order
  None

VARIABLES
  at,        \* the next step of main(), or passed or failed
  was,       \* the image at the start
  python,    \* the installers Python has
  status,    \* packages with a stanza in dpkg's status file
  records,   \* packages with files under /var/lib/dpkg/info
  files,     \* the places of files
  links,     \* place of a link -> the path it names
  dirs,      \* the places of folders
  setid,     \* places with a setuid or setgid bit
  db,        \* alternatives in dpkg's database
  shells,    \* the paths in /etc/shells
  accounts,  \* account -> its shell, None when the field is empty
  keep, gone, folders,   \* purge_packages's sets
  todo       \* packages still to be purged

tree == <<files, links, dirs, setid>>
dpkg == <<status, records, db>>
sets == <<keep, gone, folders, todo>>
logins == <<shells, accounts>>
vars == <<at, was, python, tree, dpkg, sets, logins>>

Fail == at' = "failed"
Installers == {"setuptools", "wheel", "pip"}
Bin == <<"usr", "bin">>

\* where(): the folder resolved, the name kept.
Where(path) == IF Len(path) > 1 /\ Head(path) = "bin" THEN <<"usr">> \o path ELSE path

\* os.path.exists follows links: an alternative's go through /etc/alternatives.
Follow(place) == IF place \in DOMAIN links THEN Where(links[place]) ELSE place
Exists(path) == Follow(Follow(Follow(Where(path)))) \in files \cup dirs

Inside(folder, place) == IsStrictPrefix(folder, place)
Present == files \cup DOMAIN links \cup dirs

\* Files and links at these places go, bits and all.
Unlink(places) ==
  /\ files' = files \ places
  /\ links' = Restrict(links, DOMAIN links \ places)
  /\ setid' = setid \ places

-----------------------------------------------------------------------------

\* strip_python_installers: pip uninstalls what is installed, itself last, and
\* ensurepip is deleted.
StripPythonInstallers ==
  /\ at = "python"
  /\ \/ python \cap Installers # {} /\ "pip" \notin python /\ Fail /\ UNCHANGED python
     \/ "pip" \in python /\ Fail /\ UNCHANGED python
     \/ /\ "pip" \in python \/ python \cap Installers = {}
        /\ python' = python \ (Installers \cup {"ensurepip"}) /\ at' = "review"
  /\ UNCHANGED <<was, tree, dpkg, sets, logins>>

\* listed(): one list a package, none for one that is only remembered.
Listed(im, package) == UNION im.lists[package]
HasLists(package, n) == Cardinality(was.lists[package]) = n

\* Mutant: a staying package's paths are kept as they are written.
KeptWritten(paths) == paths

\* What staying packages list is compared place by place.
Kept(paths) == {Where(path) : path \in paths}

\* purge_packages, before anything is touched: every PURGE package installed,
\* none diverting, and every staying one's list read.
Review ==
  /\ at = "review"
  /\ IF \/ ~ToSet(Purge) \subseteq status
        \/ was.diverts \cap ToSet(Purge) # {}
        \/ \E p \in status \ ToSet(Purge) : ~HasLists(p, 1) /\ ~HasLists(p, 0)
     THEN Fail /\ UNCHANGED keep
     ELSE /\ at' = "purge"
          /\ keep' = Kept(UNION {Listed(was, p) : p \in status \ ToSet(Purge)})
  /\ UNCHANGED <<was, python, tree, dpkg, gone, folders, todo, logins>>

\* One package's files, but what a staying package lists.
PurgePackage ==
  /\ at = "purge" /\ todo # <<>>
  /\ IF ~HasLists(Head(todo), 1) THEN Fail /\ UNCHANGED <<files, links, setid, gone, folders, todo>>
     ELSE LET places == {Where(path) : path \in Listed(was, Head(todo))} \ keep
          IN /\ folders' = folders \cup (places \cap dirs)
             /\ gone' = gone \cup (places \ dirs)
             /\ Unlink(places \ dirs)
             /\ todo' = Tail(todo)
             /\ UNCHANGED at
  /\ UNCHANGED <<was, python, dirs, dpkg, keep, logins>>

\* The folders of purged packages with nothing left in them, deepest first.
Emptied ==
  {f \in folders : \A place \in Present : Inside(f, place) => place \in folders}

PurgeFolders ==
  /\ at = "purge" /\ todo = <<>>
  /\ at' = "alternatives"
  /\ dirs' = dirs \ Emptied /\ setid' = setid \ Emptied
  /\ UNCHANGED <<was, python, files, links, dpkg, sets, logins>>

\* It has choices, and every one was a purged package's file.
Orphaned(name) ==
  was.db[name].choices # {} /\ \A choice \in was.db[name].choices : Where(choice) \in gone

\* An alternative's links: for its own name and each slave's, the one in
\* /etc/alternatives and the one that points there.
LinksOf(im, name) ==
  LET names == im.db[name].names
  IN UNION {{<<"etc", "alternatives", n>>, Where(names[n])} : n \in DOMAIN names}

DropAlternatives ==
  /\ at = "alternatives"
  /\ at' = "records"
  /\ LET dropped == {name \in db : Orphaned(name)}
     IN /\ db' = db \ dropped
        /\ Unlink(DOMAIN links \cap UNION {LinksOf(was, name) : name \in dropped})
  /\ UNCHANGED <<was, python, dirs, status, records, sets, logins>>

\* The status file is written anew with the staying packages' stanzas.
Status == status \ ToSet(Purge)

Records ==
  /\ at = "records"
  /\ at' = "tidy"
  /\ records' = records \ ToSet(Purge) /\ status' = Status
  /\ UNCHANGED <<was, python, tree, db, sets, logins>>

\* Mutant: the first is taken unseen.
NologinFirst == {1}

\* The programs of NO_LOGIN that exist.
Nologin == {i \in DOMAIN NoLogin : Exists(NoLogin[i])}

\* tidy: what only dpkg and apt read, the shells that are gone, and the
\* accounts whose shell is gone.
ToolState == {<<"etc", "apt">>}
OfTools(place) == \E t \in ToolState : IsPrefix(t, place)
TidyTools ==
  /\ at = "tidy"
  /\ at' = "tidy logins"
  /\ LET deleted == {place \in Present : OfTools(place)}
     IN Unlink(deleted) /\ dirs' = dirs \ deleted
  /\ UNCHANGED <<was, python, dpkg, sets, logins>>

TidyLogins ==
  /\ at = "tidy logins"
  /\ shells' = {path \in shells : Exists(path)}
  /\ IF Nologin = {} THEN Fail /\ UNCHANGED accounts
     ELSE /\ at' = "bits"
          /\ LET first == CHOOSE i \in Nologin : \A j \in Nologin : i <= j
             IN accounts' = [a \in DOMAIN accounts |->
                               IF accounts[a] # None /\ ~Exists(accounts[a])
                               THEN NoLogin[first] ELSE accounts[a]]
  /\ UNCHANGED <<was, python, tree, dpkg, sets>>

\* Mutant: folders are not looked at.
SetIdFiles == setid \cap files

\* set_id_entries: files and folders of the image's own filesystem.
SetIdEntries == {place \in setid : Head(place) # "proc"}

ClearSetIdBits ==
  /\ at = "bits"
  /\ at' = "check"
  /\ setid' = setid \ SetIdEntries
  /\ UNCHANGED <<was, python, files, links, dirs, dpkg, sets, logins>>

\* check
OnThePath == {place \in files \cup DOMAIN links :
                Front(place) = Bin /\ Last(place) \in Forbidden}
Surprised ==
  \/ OnThePath # {}
  \/ status \cap ToSet(Purge) # {} \/ records \cap ToSet(Purge) # {}
  \/ python # {}
  \/ SetIdEntries # {}
  \/ ~Exists(Bin \o <<"python">>)

Check ==
  /\ at = "check"
  /\ IF Surprised THEN Fail ELSE at' = "passed"
  /\ UNCHANGED <<was, python, tree, dpkg, sets, logins>>

-----------------------------------------------------------------------------

Init ==
  /\ at = "python" /\ was \in Images
  /\ python = was.python /\ status = was.status /\ records = DOMAIN was.lists
  /\ files = was.files /\ links = was.links /\ dirs = was.dirs /\ setid = was.setid
  /\ db = DOMAIN was.db /\ shells = was.shells /\ accounts = was.accounts
  /\ keep = {} /\ gone = {} /\ folders = {} /\ todo = Purge

Next == \/ StripPythonInstallers \/ Review \/ PurgePackage \/ PurgeFolders
        \/ DropAlternatives \/ Records \/ TidyTools \/ TidyLogins
        \/ ClearSetIdBits \/ Check

Spec == Init /\ [][Next]_vars /\ WF_vars(Next)

-----------------------------------------------------------------------------
(* The images there are *)

\* The places that these packages list.
PlacesIn(im, packages) == {Where(path) : path \in UNION {Listed(im, p) : p \in packages}}

\* A place is a file, a link or a folder, and lies in a folder.
IsTree(im) ==
  LET places == im.files \cup DOMAIN im.links \cup im.dirs IN
  /\ im.files \cap DOMAIN im.links = {} /\ im.files \cap im.dirs = {}
  /\ im.dirs \cap DOMAIN im.links = {}
  /\ places \subseteq Seq(STRING) \ {<<>>}
  /\ \A place \in places : Len(place) > 1 => Front(place) \in im.dirs
  /\ im.setid \subseteq places

\* An alternative has choices, which are files. Its links are links, of no
\* package and of no other alternative, and no folder above one is purged.
HasAlternatives(im) ==
  LET stay == PlacesIn(im, im.status \ ToSet(Purge))
      purged == PlacesIn(im, ToSet(Purge)) \ stay IN
  \A name \in DOMAIN im.db :
    /\ im.db[name].choices # {}
    /\ \A choice \in im.db[name].choices : Where(choice) \in im.files /\ ~OfTools(Where(choice))
    /\ \A place \in LinksOf(im, name) :
         /\ place \notin im.files \cup stay \cup purged /\ ~OfTools(place)
         /\ \A other \in DOMAIN im.db \ {name} : place \notin LinksOf(im, other)
         /\ \A folder \in purged \cap im.dirs : ~Inside(folder, place)

\* An image as dpkg and pip keep one. What only the tools read is listed by no
\* package that stays, and a folder above it is not purged.
WellMade(im) ==
  LET stay == PlacesIn(im, im.status \ ToSet(Purge)) IN
  /\ IsTree(im) /\ HasAlternatives(im)
  /\ \A p \in im.status : IsFiniteSet(im.lists[p])
  /\ im.python \subseteq Installers \cup {"ensurepip"}
  /\ \A place \in stay : ~OfTools(place)
  /\ \A folder \in (PlacesIn(im, ToSet(Purge)) \ stay) \cap im.dirs, t \in ToolState : ~Inside(folder, t)

-----------------------------------------------------------------------------
(***************************************************************************)
(* What image_strip.py promises of an image it lets through, as properties *)
(* of ImageStrip.                                                          *)
(***************************************************************************)

Passed == at = "passed"
Staying == was.status \ ToSet(Purge)
WasPresent == was.files \cup DOMAIN was.links \cup was.dirs
PlacesOf(packages) == PlacesIn(was, packages)

\* The tree is one: a place is a file, a link or a folder and lies in a
\* folder, whatever has been deleted, and only what is there has a bit.
TypeOK ==
  /\ files \cap DOMAIN links = {} /\ files \cap dirs = {} /\ dirs \cap DOMAIN links = {}
  /\ \A place \in Present : Len(place) > 1 => Front(place) \in dirs
  /\ setid \subseteq Present
  /\ status \subseteq was.status /\ db \subseteq DOMAIN was.db
  /\ todo = <<>> \/ todo \in Suffixes(Purge)

\* What stays is whole: every file, link and folder of a package that stays is
\* still there, though a purged package lists it too or by another path.
StayingWhole ==
  Passed => (PlacesOf(Staying) \cap WasPresent) \subseteq Present

\* What goes is gone: of what only purged packages list nothing is left but a
\* folder that holds something of someone else's.
PurgedAway ==
  Passed => \A place \in (PlacesOf(ToSet(Purge)) \ PlacesOf(Staying)) \cap Present :
              \E other \in Present : Inside(place, other)

\* An alternative that still has a program keeps its links, and one that has
\* none leaves no link pointing nowhere.
AlternativesStand ==
  Passed => \A name \in DOMAIN was.db :
    LET left == LinksOf(was, name) \cap DOMAIN links IN
      IF \E choice \in was.db[name].choices : Exists(choice)
      THEN left = LinksOf(was, name) \cap DOMAIN was.links
      ELSE left = {}

\* "Gives an account whose shell is gone NO_LOGIN's first program that exists":
\* no account is left with a shell that is not there.
LoginsStand ==
  Passed => \A a \in DOMAIN accounts : accounts[a] = None \/ Exists(accounts[a])

\* No setuid or setgid bit is left on the image's own filesystem, on a folder
\* any more than on a file: clearing and checking look with the same eyes.
NoBitsLeft == Passed => \A place \in setid : Head(place) = "proc"

\* dpkg's status names exactly what the image holds ("no stale entry for a
\* removed package, and no remaining package hidden").
StatusTrue == Passed => status = Staying

\* The build is refused for a surprise in the image and for nothing the script
\* does itself: a package missing, diverting or listed twice, installers with
\* no pip or a pip that fails, a forbidden program nobody purges, no program
\* left for NO_LOGIN, or no Python.
RefusesOnlySurprises ==
  at = "failed" =>
    \/ ~ToSet(Purge) \subseteq was.status \/ was.diverts \cap ToSet(Purge) # {}
    \/ \E p \in was.status : Cardinality(was.lists[p]) > 1
    \/ \E p \in ToSet(Purge) : was.lists[p] = {}
    \/ python \cap Installers # {}
    \/ ~\E i \in DOMAIN NoLogin : NoLogin[i] \in was.files \ (PlacesOf(ToSet(Purge)) \ PlacesOf(Staying))
    \/ \E place \in WasPresent : /\ Front(place) = Bin /\ Last(place) \in Forbidden
                                 /\ place \notin PlacesOf(ToSet(Purge)) \ PlacesOf(Staying)
                                 /\ \A name \in DOMAIN was.db : place \notin LinksOf(was, name)
    \/ \E name \in DOMAIN was.db :
         /\ \E place \in LinksOf(was, name) : Last(place) \in Forbidden
         /\ \E choice \in was.db[name].choices :
              Where(choice) \notin PlacesOf(ToSet(Purge)) \ PlacesOf(Staying)
    \/ Bin \o <<"python">> \notin was.files \ (PlacesOf(ToSet(Purge)) \ PlacesOf(Staying))

\* What an image let through promises.
Safe ==
  /\ TypeOK /\ StayingWhole /\ PurgedAway /\ AlternativesStand /\ LoginsStand
  /\ NoBitsLeft /\ StatusTrue /\ RefusesOnlySurprises

\* Where it ends.
Over == at \in {"passed", "failed"}
=============================================================================
