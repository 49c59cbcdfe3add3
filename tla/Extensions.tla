------------------------------ MODULE Extensions ------------------------------
(***************************************************************************)
(* What the extensions make of a variable: the text it gets, or how its    *)
(* evaluation fails.  A text is a sequence of pieces, and what a variable  *)
(* has of its own is one piece, the variable; around it are the texts      *)
(* injected in its parameters.  A command is what it does when it is run,  *)
(* on Linux.  A parameter of a wrong type is as one that is missing.       *)
(***************************************************************************)
EXTENDS Integers, SequencesExt

CONSTANTS
  None,
  NotString,     \* an element of a list that is no string
  Locales,       \* the locales of convert_locale_string_to_locale
  SystemLocale,
  MaxOffset,     \* the seconds up to the last date, from now
  to_uppercase   \* the environment variable of each name: names may share one

VarType == {"date", "echo", "form", "match", "mock", "random", "script", "shell"}

Param(params, key) == IF key \in DOMAIN params THEN params[key] ELSE None
Flag(params, key, default) == IF Param(params, key) = None THEN default ELSE Param(params, key)

(* The places of a list that hold strings *)
Strings(list) == {i \in DOMAIN list : list[i] # NotString}

(* ExtensionResult, and the panics on the way to it *)
Success(text) == [result |-> "Success", output |-> text]
Error == [result |-> "Error", output |-> <<>>]
Aborted == [result |-> "Aborted", output |-> <<>>]
Panics == [result |-> "panic", output |-> <<>>]

Piece(x) == <<[of |-> x, capital |-> FALSE]>>

(* inject_variables_into_params *)
Injected(v, scope) ==
  LET names == SetToSeq(v.uses) IN FlattenSeq([i \in DOMAIN names |-> scope[names[i]]])

-----------------------------------------------------------------------------
(* Values *)

echo(v, scope) ==
  CASE Param(v.params, "echo") = None -> Error
    [] Param(v.params, "echo") = "" -> Success(<<>>)
    [] OTHER -> Success(Piece(v) \o Injected(v, scope))

random(v, scope) ==
  IF Param(v.params, "choices") = None \/ Strings(v.params.choices) = {} THEN Error
  ELSE Success(Piece(v) \o Injected(v, scope))

convert_locale_string_to_locale(locale) == IF locale \in Locales THEN locale ELSE None

format_date_with_locale_string(v, locale) ==
  LET known == convert_locale_string_to_locale(locale)
  IN Piece([date |-> v, locale |-> IF known = None THEN "en-US" ELSE known])

(* A date after the last or before the first: Duration::seconds or += *)
InRange(offset) == offset = None \/ offset \in -MaxOffset .. MaxOffset

date(v, scope) ==
  IF ~InRange(Param(v.params, "offset")) THEN Panics
  ELSE IF Param(v.params, "format") = None THEN Success(Piece(v))
  ELSE Success(format_date_with_locale_string(v, Flag(v.params, "locale", SystemLocale))
                 \o Injected(v, scope))

-----------------------------------------------------------------------------
(* Processes *)

(* What a command does: whether it starts and exits with 0, whether it      *)
(* writes errors, what it writes, and the variable it reads of those in its *)
(* environment, one of the given ones.                                      *)
Command(keys) ==
  [starts : BOOLEAN, succeeds : BOOLEAN, complains : BOOLEAN,
   writes : {"text", "blanks", "nothing"}, reads : {None} \cup keys]

Shell == {"bash", "cmd", "nu", "powershell", "pwsh", "sh", "wsl", "wsl2", "zsh"}
from_string(shell) == IF shell \in Shell THEN shell ELSE None
DefaultShell == "bash"

(* The scope as SHINRAN_ variables: of names that are the same in upper     *)
(* case, the last in the order of the HashMap gives the value.              *)
Keys(names) == {to_uppercase[n] : n \in names}
convert_to_env_variables(scope) ==
  {env \in [Keys(DOMAIN scope) -> Range(scope)] :
     \A key \in DOMAIN env : \E n \in DOMAIN scope : to_uppercase[n] = key /\ env[key] = scope[n]}

(* A variable that is not set reads as nothing. *)
Read(env, key) == IF key \in DOMAIN env THEN env[key] ELSE <<>>

Stdout(v, command, scope, env) ==
  CASE command.writes = "text" ->
         Piece(v) \o Injected(v, scope) \o Read(env, command.reads)
    [] command.writes = "blanks" /\ ~Flag(v.params, "trim", TRUE) -> Piece(v)
    [] OTHER -> <<>>

ShellOf(params) ==
  IF Param(params, "shell") = None THEN DefaultShell ELSE from_string(params.shell)

(* The exit code of the command is not looked at. *)
BugIgnoreExit(v, scope, env) ==
  LET cmd == Param(v.params, "cmd")
  IN IF cmd = None \/ ShellOf(v.params) = None THEN Error
     ELSE IF ~cmd.starts THEN Error ELSE Success(Stdout(v, cmd, scope, env))

execute_cmd(cmd) == cmd.starts /\ cmd.succeeds

shell(v, scope, env) ==
  LET cmd == Param(v.params, "cmd")
  IN IF cmd # None /\ ShellOf(v.params) # None /\ execute_cmd(cmd)
     THEN Success(Stdout(v, cmd, scope, env)) ELSE Error

(* The program is the first of the arguments that are strings. *)
Program(args) == args[Min(Strings(args))]

script(v, scope, env) ==
  IF Param(v.params, "args") = None THEN Error
  ELSE IF Strings(v.params.args) = {} THEN Panics
  ELSE LET command == Program(v.params.args)
           clean == command.succeeds /\ ~command.complains
       IN IF command.starts /\ (clean \/ Flag(v.params, "ignore_error", FALSE))
          THEN Success(Stdout(v, command, scope, env)) ELSE Error

-----------------------------------------------------------------------------
(* Extension::calculate of the extension of a variable that has one, given the *)
(* environment a command of it would get                                       *)
calculate(v, scope, env) ==
  CASE v.kind = "date" -> date(v, scope)
    [] v.kind = "echo" -> echo(v, scope)
    [] v.kind = "shell" -> shell(v, scope, env)
    [] v.kind = "script" -> script(v, scope, env)
    [] v.kind = "random" -> random(v, scope)
    [] v.kind = "mock" -> Aborted
=============================================================================
