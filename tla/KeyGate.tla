------------------------------- MODULE KeyGate -------------------------------
(***************************************************************************)
(* scripts/pagerduty/tf_with_keys.py: which command lines run Terraform    *)
(* with the PagerDuty keys, and with which keys.                           *)
(*                                                                         *)
(* An argument is a pair of what kind of word it is and its value; a       *)
(* directory's name is the sequence of its parts between dashes. Left out: *)
(* the wording of a refusal and the letters of names and keys.             *)
(***************************************************************************)
EXTENDS Integers, Sequences, FiniteSets

CONSTANTS
  Argvs,          \* the command lines tried
  Names,          \* words that are environment names
  Directories,    \* directory names the script can stand in
  None

\* SERVICES has one service for each role, in this order.
Roles == <<"app", "phi", "cc">>
Subcommands == {"plan", "apply"}

\* What PagerDuty may have under a service's name.
Services == {"absent", "twins", "no_integration", "no_key", "odd_key", "key"}

VARIABLES
  at,         \* the next step of main()
  argv,       \* of this process
  cwd,        \* the directory it stands in
  log,        \* TF_LOG*: unset, blank or set
  ours,       \* arguments before the "--" still to be read
  command,    \* those after it
  rest,       \* of the command, still to be checked
  chdir,      \* the directory it names, None before
  env,
  keys,       \* role -> the key read
  missing,    \* roles without a key
  child       \* what Terraform is given, None before

given == <<argv, cwd, log>>
read == <<ours, command, rest, chdir, env>>
vars == <<at, given, read, keys, missing, child>>

Word(w) == <<"word", w>>
Kind(arg) == arg[1]
Value(arg) == arg[2]

\* The text of an argument, where a flag is no environment's name.
Text(arg) == IF Kind(arg) = "word" THEN Value(arg) ELSE "-"

Refuse == at' = "refused"

-----------------------------------------------------------------------------
(* parse_args *)

\* The command begins after the first "--".
Split ==
  /\ at = "split"
  /\ LET dashes == {i \in DOMAIN argv : Kind(argv[i]) = "--"} IN
       IF dashes = {} THEN Refuse /\ UNCHANGED <<ours, command>>
       ELSE LET i == CHOOSE i \in dashes : \A j \in dashes : i <= j IN
              /\ ours' = SubSeq(argv, 1, i - 1)
              /\ command' = SubSeq(argv, i + 1, Len(argv))
              /\ at' = "options"
  /\ UNCHANGED <<given, rest, chdir, env, keys, missing, child>>

\* The last --env counts.
Option(value) == env' = value

\* -h prints the help and exits. --env takes the next word, whatever it is.
Options ==
  /\ at = "options" /\ ours # <<>>
  /\ LET flag == Head(ours) more == Tail(ours) IN
       \/ /\ Kind(flag) = "-h" /\ at' = "help" /\ UNCHANGED <<ours, env>>
       \/ /\ Kind(flag) = "--env" /\ more # <<>>
          /\ Option(Text(Head(more))) /\ ours' = Tail(more) /\ UNCHANGED at
       \/ /\ Kind(flag) = "--env="
          /\ Option(Value(flag)) /\ ours' = more /\ UNCHANGED at
       \/ /\ Kind(flag) \notin {"-h", "--env="} /\ (Kind(flag) = "--env" => more = <<>>)
          /\ Refuse /\ UNCHANGED <<ours, env>>
  /\ UNCHANGED <<given, command, rest, chdir, keys, missing, child>>

\* ENV_RE: lower-case letters and digits.
Name(e) == e \in Names

EnvNamed ==
  /\ at = "options" /\ ours = <<>>
  /\ IF Name(env) THEN at' = "command" ELSE Refuse
  /\ UNCHANGED <<given, read, keys, missing, child>>

-----------------------------------------------------------------------------
(* check_command *)

Program ==
  /\ at = "command"
  /\ IF command # <<>> /\ Head(command) = Word("terraform")
     THEN at' = "directory" /\ rest' = Tail(command)
     ELSE Refuse /\ UNCHANGED rest
  /\ UNCHANGED <<given, ours, command, chdir, env, keys, missing, child>>

\* Mutant: the first -chdir is the one remembered.
ChangeDirFirst(dir) == chdir' = IF chdir = None THEN dir ELSE chdir

\* The last -chdir is remembered.
ChangeDir(dir) == chdir' = dir

\* Every -chdir before the subcommand.
Directory ==
  /\ at = "directory"
  /\ IF rest # <<>> /\ Kind(Head(rest)) = "-chdir="
     THEN ChangeDir(Value(Head(rest))) /\ rest' = Tail(rest) /\ UNCHANGED at
     ELSE /\ IF rest # <<>> /\ Head(rest) \in {Word(s) : s \in Subcommands}
             THEN at' = "flags" ELSE Refuse
          /\ UNCHANGED <<rest, chdir>>
  /\ UNCHANGED <<given, ours, command, env, keys, missing, child>>

\* Mutant: only the argument after the subcommand is looked at.
FlagsNext(args) == args # <<>> => Kind(Head(args)) \notin {"word", "--", "out"}

\* Flags only, -out not among them.
Flags(args) == \A i \in DOMAIN args : Kind(args[i]) \notin {"word", "--", "out"}

\* The name is the environment's, or that and a dash and more.
NamedFor(dir, e) == Head(dir) = e

Arguments ==
  /\ at = "flags"
  /\ IF Flags(Tail(rest)) /\ NamedFor(IF chdir = None THEN cwd ELSE chdir, env)
     THEN at' = "environment" ELSE Refuse
  /\ UNCHANGED <<given, read, keys, missing, child>>

-----------------------------------------------------------------------------
(* The rest of main() *)

\* A TF_LOG* that is not blank.
Logs == log = "set"

CheckEnvironment ==
  /\ at = "environment"
  /\ IF Logs THEN Refuse ELSE at' = "keys"
  /\ UNCHANGED <<given, read, keys, missing, child>>

\* service_names: the design's name with this environment's in place of beta.
ServiceName(role) == <<env, role>>

Role == Roles[Len(keys) + Len(missing) + 1]

\* service_integration_key refuses all but one service with an integration
\* and a key on it, and KEY_RE a key that does not look like one.
UsableBy(service) == service = "key"

\* read_keys goes on to the next role when one is missing.
ReadKey ==
  /\ at = "keys" /\ Len(keys) + Len(missing) < Len(Roles)
  /\ \E service \in Services :
       IF UsableBy(service)
       THEN keys' = Append(keys, <<Role, ServiceName(Role), service>>) /\ UNCHANGED missing
       ELSE missing' = Append(missing, Role) /\ UNCHANGED keys
  /\ UNCHANGED <<at, given, read, child>>

\* A read fails for another reason, which nothing catches.
ReadFails ==
  /\ at \in {"environment", "keys"} /\ ~(at = "environment" /\ Logs)
  /\ at = "keys" => Len(keys) + Len(missing) < Len(Roles)
  /\ at' = "raised"
  /\ UNCHANGED <<given, read, keys, missing, child>>

\* One missing key stops the script.
Stops == missing # <<>>

\* Terraform replaces this process: the arguments as given, the environment
\* without PAGERDUTY_TOKEN and with the keys by role.
Exec ==
  /\ at = "keys" /\ Len(keys) + Len(missing) = Len(Roles)
  /\ IF Stops THEN Refuse /\ UNCHANGED child
     ELSE /\ at' = "terraform"
          /\ child' = [args |-> command, cwd |-> cwd,
                       keys |-> {keys[i] : i \in DOMAIN keys}]
  /\ UNCHANGED <<given, read, keys, missing>>

-----------------------------------------------------------------------------

Init ==
  /\ at = "split" /\ argv \in Argvs /\ cwd \in Directories
  /\ log \in {"unset", "blank", "set"}
  /\ ours = <<>> /\ command = <<>> /\ rest = <<>> /\ chdir = None /\ env = "beta"
  /\ keys = <<>> /\ missing = <<>> /\ child = None

Works == \/ Split \/ Options \/ EnvNamed \/ Program \/ Directory \/ Arguments
         \/ CheckEnvironment \/ ReadKey \/ Exec

Next == Works \/ ReadFails

Spec == Init /\ [][Next]_vars /\ WF_vars(Next)

-----------------------------------------------------------------------------
(***************************************************************************)
(* What tf_with_keys.py promises, as properties of KeyGate.                *)
(***************************************************************************)

Ran == child # None

\* Every variable has its type, and past the options the environment is one.
TypeOK ==
  /\ at \in {"split", "options", "command", "directory", "flags", "environment",
             "keys", "terraform", "help", "refused", "raised"}
  /\ cwd \in Directories /\ log \in {"unset", "blank", "set"}
  /\ at \notin {"split", "options", "help", "refused"} => env \in Names
  /\ Len(ours) <= Len(argv) /\ Len(rest) <= Len(argv)
  /\ Len(keys) + Len(missing) <= Len(Roles)
  /\ Ran <=> at = "terraform"

\* "Only terraform [-chdir=DIR] plan|apply [-flag | -flag=value ...] runs": a
\* command that runs has nothing but directories before its subcommand and
\* nothing but flags, -out not among them, after it.
OnlyPlanOrApply ==
  Ran => \E k \in 2..Len(child.args) :
    /\ child.args[1] = Word("terraform")
    /\ \A i \in 2..(k - 1) : Kind(child.args[i]) = "-chdir="
    /\ child.args[k] \in {Word("plan"), Word("apply")}
    /\ \A i \in (k + 1)..Len(child.args) : Kind(child.args[i]) \notin {"word", "--", "out"}

\* The directory Terraform runs in: the last -chdir before the subcommand, or
\* else this process's own.
RunsIn ==
  LET args == child.args
      before == {i \in DOMAIN args : /\ Kind(args[i]) = "-chdir="
                                     /\ \A j \in 2..i : Kind(args[j]) = "-chdir="}
  IN  IF before = {} THEN child.cwd
      ELSE Value(args[CHOOSE i \in before : \A j \in before : j <= i])

\* "One environment's keys never reach another's channels": Terraform is given
\* each role's usable key, from the environment its directory is named for.
KeysOfItsDirectory ==
  Ran => child.keys = {<<Roles[i], <<Head(RunsIn), Roles[i]>>, "key">> : i \in DOMAIN Roles}

\* The environment is the one the command line asked for last, beta unasked.
AsAsked ==
  Ran => LET i == CHOOSE i \in DOMAIN argv :
                    Kind(argv[i]) = "--" /\ \A j \in 1..(i - 1) : Kind(argv[j]) # "--"
         IN \A key \in child.keys : key[2][1] = IF i = 1 THEN "beta" ELSE Value(argv[i - 1])

\* With Terraform's log on no key is even read.
NoKeysIntoALog == log = "set" => keys = <<>> /\ missing = <<>> /\ ~Ran

\* What the gate promises.
Safe ==
  /\ TypeOK /\ OnlyPlanOrApply /\ KeysOfItsDirectory /\ AsAsked
  /\ NoKeysIntoALog

\* Where it ends.
Over == at \in {"terraform", "help", "refused", "raised"}
=============================================================================
