----------------------------- MODULE MCPrograms -----------------------------
(***************************************************************************)
(* What TLC gives each program: a run's journeys, command lines, images,   *)
(* containers' settings and keys.                                          *)
(***************************************************************************)
EXTENDS Programs, Integers, Sequences, FiniteSets, TLC

Seqs == INSTANCE SequencesExt

\* The operators the inputs are written with.
Words == INSTANCE KeyGate WITH
  Argvs <- {}, Directories <- {}, at <- gate_at, keys <- role_keys
Places == INSTANCE ImageStrip WITH
  Images <- {}, at <- strip_at, gone <- gone_places
Tokens == INSTANCE RenderDashboards WITH
  Images <- {}, Settings <- {}, pc <- script_pc

-----------------------------------------------------------------------------
(* The result line *)

\* One of each sort of step, a step result.py does not list, and the CRM's.
MCJourneys ==
  {[job |-> "staff-sign-in", steps |-> <<"config", "egress", "iap_token", "ops_shell", "login", "logout">>],
   [job |-> "ops-desk", steps |-> <<"config", "login", "new_step", "logout">>],
   [job |-> "crm", steps |-> <<"config", "iap_token", "crm_shell", "login", "logout">>]}

-----------------------------------------------------------------------------
(* The test event *)

\* A severity with a rule, one with none, a dry run and --keep.
MCRuns == [severity : {"Critical", "Warning", "other"}, send : {TRUE}, keep : BOOLEAN]
          \cup [severity : {"Critical"}, send : {FALSE}, keep : {FALSE}]

-----------------------------------------------------------------------------
(* The gate *)

Dir(parts) == <<"-chdir=", parts>>
Dashes == <<"--", "">>
Flag == <<"flag", "-replace=">>

\* Up to three words before the "--".
MCOurs == Seqs!SeqOf({<<"--env", "">>, <<"--env=", "production">>, <<"--env=", "Beta">>,
                 Words!Word("beta"), <<"-h", "">>}, 3)

\* Commands of up to five words, terraform first.
MCCommands ==
  {<<Words!Word("terraform")>> \o c :
     c \in Seqs!SeqOf({Dir(<<"beta">>), Dir(<<"production", "2">>), Dir(<<"beta2">>),
                  Words!Word("apply"), Words!Word("destroy"), Flag, <<"out", "">>}, 4)}

MCArgvs ==
  {o \o <<Dashes, Words!Word("terraform"), d, Words!Word("plan"), Flag>> :
     o \in MCOurs, d \in {Dir(<<"beta">>), Dir(<<"production">>)}}
  \cup {o \o <<Dashes>> \o c : o \in {<<>>, <<<<"--env=", "production">>>>}, c \in MCCommands}
  \cup {<<>>, <<Words!Word("terraform"), Words!Word("plan")>>, <<Dashes>>, <<Dashes, Words!Word("sh"), Dashes>>,
        <<Dashes, Words!Word("terraform"), Words!Word("plan"), Dashes>>}

MCDirectories == {<<"beta", "eu">>, <<"production">>, <<"infra">>}

-----------------------------------------------------------------------------
(* The image *)

MCPurge == <<"dash", "login">>
MCForbidden == {"sh", "su", "nc"}
MCNoLogin == <<<<"usr", "bin", "nologin">>, <<"usr", "bin", "false">>>>

U(name) == <<"usr", "bin", name>>
B(name) == <<"bin", name>>
Doc == <<"usr", "doc">>
Note == <<"usr", "doc", "note">>
Sub == <<"usr", "doc", "sub">>

CoreLists == {{U("python"), B("false")}, {U("python"), U("su"), Doc},
              {U("python"), B("nologin"), Doc, U("alt.core")}}
DashLists == {{B("sh"), U("dash"), B("bug")}, {B("sh"), Doc, U("alt.dash")},
              {B("sh"), B("false"), U("dash"), Doc, Sub, Sub \o <<"note">>}}

\* The image with this core, this dash, these files besides, an alternative with
\* these choices, these bits and these Python packages, and perhaps something odd.
Image(core, dash, more, alt, choices, bits, installers, odd) ==
  LET lists == [dash |-> IF odd = "listed twice" THEN {dash, {U("x")}} ELSE {dash},
                login |-> {{U("su"), U("nologin"), Doc}}, core |-> {core}, old |-> {}]
      alternative == alt :> [choices |-> {U(c) : c \in choices},
                             names |-> (alt :> B(alt)) @@ ("tool" :> U("tool"))]
  IN [python |-> installers, lists |-> lists, db |-> IF choices = {} THEN <<>> ELSE alternative,
      status |-> DOMAIN lists \ (IF odd = "missing" THEN {"login"} ELSE {}),
      diverts |-> IF odd = "diverts" THEN {"dash"} ELSE {},
      files |-> {Places!Where(p) : p \in (core \cup dash \cup {U("su"), U("nologin")}) \ {B("sh"), Doc, Sub}}
                \cup {<<"etc", "apt", "sources">>} \cup {U(c) : c \in choices}
                \cup (IF choices = {} THEN more ELSE more \ {U(alt)}),
      links |-> [place \in {U("sh")} |-> U("dash")] @@
                IF choices = {} THEN <<>>
                ELSE (U(alt) :> <<"etc", "alternatives", alt>>) @@
                     (<<"etc", "alternatives", alt>> :> U(CHOOSE c \in choices : TRUE)),
      dirs |-> {<<"etc">>, <<"etc", "apt">>, <<"etc", "alternatives">>, <<"usr">>, Places!Bin,
                Doc, <<"proc">>} \cup (dash \cap {Sub}),
      setid |-> bits, shells |-> {B("sh"), U("false")},
      accounts |-> [root |-> B("sh"), daemon |-> U("nologin"), sync |-> None]]

MCImages ==
  {Image(core, dash, more, alt, choices, bits, {"setuptools", "pip", "ensurepip"}, "nothing") :
     core \in CoreLists, dash \in DashLists, more \in {{}, {Note}, {U("false")}, {U("nc")}},
     alt \in {"nc", "awk"}, choices \in SUBSET {"alt.dash", "alt.core"},
     bits \in {{}, {Places!Bin, U("python")}, {U("su"), Doc}}}
  \cup {Image(core, dash, {U("false")}, "awk", {}, {}, installers, odd) :
     core \in CoreLists, dash \in DashLists,
     installers \in {{}, {"wheel"}, {"ensurepip"}}, odd \in {"listed twice", "missing", "diverts"}}

-----------------------------------------------------------------------------
(* The containers *)

PageOf(uid) == <<Tokens!project(uid)>>
Overview(cc) ==
  Tokens!quieten({"importer"}, "MISSED", "red") \o Tokens!quieten({"sweep", "tpa-db"}, "MISSED", "red")
  \o <<Tokens!per_environment("public", "iap"), Tokens!Plain("x"), Tokens!project(IF cc THEN "cloud-cc" ELSE "cloud-app")>>

MCGrafanaImages == {
  [f \in {<<"pages", "overview">>, <<"no-cc", "overview">>, <<"production", "overview">>,
          <<"pages", "databases">>, <<"no-cc", "databases">>, <<"pages", "callcentre">>} |->
     CASE f[2] = "overview" -> IF f[1] = "production" THEN SubSeq(Overview(FALSE), 3, 7) ELSE Overview(f[1] = "pages")
       [] f = <<"no-cc", "databases">> -> PageOf("cloud-app") [] OTHER -> PageOf("cloud-cc")],
  <<"pages", "overview">> :> <<[Tokens!Plain("x") EXCEPT !.kind = "T"]>>}

Setting(environment, cc, paused, not_deployed, stopped) ==
  [environment |-> environment, ids |-> TRUE, cc |-> cc, paused |-> paused,
   not_deployed |-> not_deployed, stopped |-> stopped]
MCContainerSettings ==
  {Setting("beta", TRUE, p, n, s) : p \in {{}, {"sweep"}}, n \in {{}, {"importer"}}, s \in {{}, {"tpa-db"}}}
  \cup {Setting("beta", FALSE, {"importer"}, {"importer"}, {}), Setting("production", FALSE, {}, {}, {}),
        Setting("production", TRUE, {}, {}, {}), Setting("production", FALSE, {"sweep"}, {}, {}),
        Setting("beta", FALSE, {"importer"}, {}, {}), Setting("beta", TRUE, {"typo"}, {}, {}),
        Setting("test", TRUE, {}, {}, {}), [Setting("beta", TRUE, {}, {}, {}) EXCEPT !.ids = FALSE]}

-----------------------------------------------------------------------------
(* The keys *)

MCKid == [a |-> 1, b |-> 2, a2 |-> 1, bad |-> 3]
MCUsable == [a |-> TRUE, b |-> TRUE, a2 |-> TRUE, bad |-> FALSE]
=============================================================================
