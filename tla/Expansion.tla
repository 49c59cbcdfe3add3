------------------------------ MODULE Expansion ------------------------------
(***************************************************************************)
(* check_trigger: from the typed text to its expansion.  A match is found  *)
(* by its trigger, by its trigger in another case, or by a regex whose     *)
(* groups become variables; its template is rendered, which renders the    *)
(* matches its variables refer to, recursively.                            *)
(*                                                                         *)
(* A text is a sequence of pieces: what a match has of its own is its      *)
(* trigger, what a variable has of its own is the variable.  A body is a   *)
(* sequence of names to be replaced and of Own.                            *)
(***************************************************************************)
EXTENDS DependencyGraph, Extensions

CONSTANTS
  Triggers,         \* the triggers of the active profile
  Own,
  Bodies,           \* the bodies of the matches
  LocalVariables,   \* variables a match may have
  GlobalVariables,  \* variables the configuration may have
  MaxLocals,        \* bound on the variables of a match
  MaxDepth          \* the depth of nested matches at which the stack overflows

(* A variable: its name, its type, the names its parameters inject or it    *)
(* depends on, and its parameters.  None is what a missing parameter is.    *)
ASSUME VariablesAssumption ==
  \A v \in LocalVariables \cup GlobalVariables :
    /\ v.name \in Names \ {Body} /\ v.kind \in VarType /\ v.uses \subseteq Names
    /\ \A key \in DOMAIN v.params : v.params[key] # None
    /\ Param(v.params, "cmd") \in Command(Keys(Names)) \cup {None}
    /\ Flag(v.params, "args", <<>>) \in Seq(Command(Keys(Names)) \cup {NotString})

(* A regex group: an echo variable without parameters to inject *)
Group(n) == [name |-> n, kind |-> "echo", uses |-> {}, params |-> [echo |-> "text"]]

(* None is no value: not a name or its upper case, a text, a shell, a command   *)
(* or a list of variables; what is no string is no command.                     *)
ASSUME NoneAssumption ==
  /\ None \notin {"", "text"} \cup Shell \cup Names \cup Keys(Names)
  /\ None \notin Seq(LocalVariables \cup GlobalVariables \cup {Group(n) : n \in Names})
  /\ {None, NotString} \cap Command(Keys(Names)) = {}

(* What a command reads from its environment *)
Reads(v) ==
  LET commands == {Param(v.params, "cmd")} \cup ToSet(Flag(v.params, "args", <<>>))
  IN {c.reads : c \in commands \ {None, NotString}} \ {None}

ASSUME BodiesAssumption == Bodies \subseteq Seq(Names \cup {Own})
ASSUME FiniteAssumption == IsFiniteSet(Names) /\ IsFiniteSet(Triggers)
ASSUME BoundAssumption == MaxLocals \in Nat /\ MaxDepth \in Nat \ {0}

VARIABLES
  matches,  \* trigger_map: the template of each trigger
  globals,  \* global_var_map
  root,     \* the match that was found: its trigger, and the groups of its regex
  style,    \* casing_style
  frames,   \* the calls of render_template in progress
  status,   \* "typed", "rendering", "ok", "none" or how it failed
  output

vars == <<matches, globals, root, style, frames, status, output>>

Locals == UNION {[1 .. n -> LocalVariables] : n \in 0 .. MaxLocals}
Templates == [body : Bodies, vars : Locals]

(* Maps with a variable for each of some names *)
GlobalMaps ==
  UNION {{map \in [N -> GlobalVariables] : \A n \in N : map[n].name = n} :
           N \in SUBSET (Names \ {Body})}

Init ==
  /\ matches \in [Triggers -> Templates]
  /\ globals \in GlobalMaps
  /\ root = [trigger |-> None, groups |-> <<>>]
  /\ style = "None"
  /\ frames = <<>>
  /\ status = "typed"
  /\ output = <<>>

-----------------------------------------------------------------------------
(* What is typed *)

Frame(t, groups) ==
  [trigger |-> t, vars |-> groups \o matches[t].vars, todo |-> None, scope |-> <<>>]

Begin(t, groups) ==
  /\ root' = [trigger |-> t, groups |-> groups]
  /\ frames' = <<Frame(t, groups)>>
  /\ status' = "rendering"
  /\ UNCHANGED <<matches, globals, output>>

(* The other two styles change letters as well, but fail on no text. *)
CasingStyles == {"None", "Capitalize"}

(* The trigger of a match; the casing follows it if the match says so. *)
FoundByTrigger(t) ==
  /\ status = "typed"
  /\ style' \in CasingStyles
  /\ Begin(t, <<>>)

(* The regex of a match, with at most one group *)
FoundByRegex(t) ==
  /\ status = "typed"
  /\ \E groups \in {<<>>} \cup {<<Group(n)>> : n \in Names \ {Body}} : Begin(t, groups)
  /\ UNCHANGED style

(* Nothing, or a trigger in another case whose match does not follow it *)
NotFound ==
  /\ status = "typed"
  /\ status' \in {"none", "NotFound"}
  /\ UNCHANGED <<matches, globals, root, style, frames, output>>

-----------------------------------------------------------------------------
(* render_template *)

Depth == Len(frames)
Top == frames[Depth]
Mentions(body) == {n \in Names : \E i \in DOMAIN body : body[i] = n}

Definition(vs, n) == IF n \in LocalNames(vs) THEN vs[LastOf(vs, n)] ELSE globals[n]

Graph(t, vs) ==
  generate_nodes(vs, [n \in DOMAIN globals |-> globals[n].uses], Mentions(matches[t].body))

(* What the ordering of the graph g promises; see ResolveOrder *)
Evaluation(g) ==
  INSTANCE EvaluationOrder WITH Root <- Body, node_map <- g, outcome <- "running", order <- <<>>

Needed(t, vs) == LET g == Graph(t, vs) IN Evaluation(g)!Reachable \cap DOMAIN g

(* The orders of the graph g, less the body at their end *)
Orders(g) ==
  LET needed == Evaluation(g)!Reachable
  IN IF needed \subseteq DOMAIN g
       THEN {Front(seq) : seq \in {s \in SetToSeqs(needed) : Evaluation(g)!Valid(s)}} ELSE {}

Fail(error) ==
  /\ status' = error
  /\ UNCHANGED <<matches, globals, root, style, frames, output>>

(* The body with the values of its names in their places *)
render_variables(body, t, scope) ==
  FlattenSeq([i \in DOMAIN body |-> IF body[i] = Own THEN Piece(t) ELSE scope[body[i]]])

(* The first letter becomes a capital, whatever it was. *)
ApplyCasing(text) ==
  IF style = "Capitalize" THEN [text EXCEPT ![1].capital = TRUE] ELSE text

Bind(scope, n, text) == [m \in DOMAIN scope \cup {n} |-> IF m = n THEN text ELSE scope[m]]

(* The value of the variable at the head of todo; the loop goes on. *)
Assign(frame, text) ==
  [frame EXCEPT !.scope = Bind(@, Head(frame.todo).name, text), !.todo = Tail(@)]

(* The variable stays in the loop. *)
BugKeepVariable(frame, text) ==
  [frame EXCEPT !.scope = Bind(@, Head(frame.todo).name, text)]

(* A nested rendering starts the scope of its caller anew. *)
BugFreshScope(frame, text) ==
  [frame EXCEPT !.scope = Bind(<<>>, Head(frame.todo).name, text), !.todo = Tail(@)]

(* The value of a match variable is what its match gives. *)
AssignMatch(frame, text) == Assign(frame, text)

(* RenderResult::Success *)
Return(text) ==
  /\ IF Depth = 1
       THEN frames' = <<>> /\ status' = "ok" /\ output' = text
       ELSE /\ frames' = Append(SubSeq(frames, 1, Depth - 2), AssignMatch(frames[Depth - 1], text))
            /\ UNCHANGED <<status, output>>
  /\ UNCHANGED <<matches, globals, root, style>>

(* The end of render_template: an empty text has no first letter. *)
Finish(text) ==
  IF style = "Capitalize" /\ text = <<>> THEN Fail("panic") ELSE Return(ApplyCasing(text))

Starts == status = "rendering" /\ Top.todo = None

(* A body without names is not evaluated, and neither are its variables. *)
Plain ==
  /\ Starts
  /\ Mentions(matches[Top.trigger].body) = {}
  /\ Finish(render_variables(matches[Top.trigger].body, Top.trigger, <<>>))

Ordered ==
  /\ Starts
  /\ Mentions(matches[Top.trigger].body) # {}
  /\ \E g \in {Graph(Top.trigger, Top.vars)} : \E seq \in Orders(g) :
       frames' = [frames EXCEPT ![Depth].todo = [i \in DOMAIN seq |-> Definition(Top.vars, seq[i])]]
  /\ UNCHANGED <<matches, globals, root, style, status, output>>

NotOrdered ==
  /\ Starts
  /\ Mentions(matches[Top.trigger].body) # {}
  /\ \E g \in {Graph(Top.trigger, Top.vars)} :
       \/ Evaluation(g)!Circular /\ Fail("CircularDependency")
       \/ Evaluation(g)!Missing /\ Fail("MissingVariable")

(* The loop is at a variable. *)
Evaluates == status = "rendering" /\ Top.todo \notin {None, <<>>}
Current == Head(Top.todo)

get_trigger_from_var(v) == Param(v.params, "trigger")

Nests(t) ==
  /\ Evaluates
  /\ Current.kind = "match" /\ t = get_trigger_from_var(Current)
  /\ Depth < MaxDepth

(* The groups of the regex are variables of the nested match as well. *)
BugGroupsLeak(t) ==
  /\ Nests(t)
  /\ frames' = Append(frames, Frame(t, root.groups))
  /\ UNCHANGED <<matches, globals, root, style, status, output>>

(* A match variable renders its own match. *)
BugRendersItself(t) ==
  /\ Nests(t)
  /\ frames' = Append(frames, Frame(Top.trigger, <<>>))
  /\ UNCHANGED <<matches, globals, root, style, status, output>>

(* A match variable renders the match it refers to. *)
Nest(t) ==
  /\ Nests(t)
  /\ frames' = Append(frames, Frame(t, <<>>))
  /\ UNCHANGED <<matches, globals, root, style, status, output>>

Overflow ==
  /\ Evaluates
  /\ Current.kind = "match" /\ get_trigger_from_var(Current) \in Triggers
  /\ Depth = MaxDepth
  /\ Fail("overflow")

NoSubMatch ==
  /\ Evaluates
  /\ Current.kind = "match" /\ get_trigger_from_var(Current) \notin Triggers
  /\ Fail("MissingSubMatch")

(* A form ends the rendering of its match, with nothing. *)
Form == Current.kind = "form" /\ Return(<<>>)

Extension ==
  /\ Current.kind # "form"
  /\ \E env \in convert_to_env_variables(Top.scope) :
     \E calculated \in {calculate(Current, Top.scope, env)} :
       \/ /\ calculated.result = "Success"
          /\ frames' = [frames EXCEPT ![Depth] = Assign(@, calculated.output)]
          /\ UNCHANGED <<matches, globals, root, style, status, output>>
       \/ calculated.result = "Error" /\ Fail("RenderingError")
       \/ calculated.result \in {"Aborted", "panic"} /\ Fail(calculated.result)

Calculate ==
  /\ Evaluates
  /\ Current.kind # "match"
  /\ IF Current.uses \subseteq DOMAIN Top.scope THEN Form \/ Extension ELSE Fail("MissingVariable")

Replace ==
  /\ status = "rendering"
  /\ Top.todo = <<>>
  /\ LET body == matches[Top.trigger].body
     IN IF Mentions(body) \subseteq DOMAIN Top.scope
          THEN Finish(render_variables(body, Top.trigger, Top.scope))
          ELSE Fail("MissingVariable")

render_template ==
  \/ Plain \/ Ordered \/ NotOrdered
  \/ Overflow \/ NoSubMatch \/ Calculate \/ Replace
  \/ \E t \in Triggers : Nest(t)

Next ==
  \/ NotFound
  \/ \E t \in Triggers : FoundByTrigger(t) \/ FoundByRegex(t)
  \/ render_template

Spec == Init /\ [][Next]_vars

(* Nothing else runs on the thread that renders. *)
FairSpec == Spec /\ WF_vars(render_template)

-----------------------------------------------------------------------------
(* Properties *)

Failures == {"NotFound", "CircularDependency", "MissingVariable", "MissingSubMatch",
             "Aborted", "RenderingError", "panic", "overflow"}

(* Every variable has its type; a rendering that waits for a nested one is  *)
(* at the match variable that asked for it.                                 *)
TypeOK ==
  /\ matches \in [Triggers -> Templates]
  /\ \A n \in DOMAIN globals : globals[n] \in GlobalVariables /\ globals[n].name = n
  /\ status \in {"typed", "rendering", "ok", "none"} \cup Failures
  /\ status = "rendering" => frames # <<>>
  /\ Len(frames) <= MaxDepth
  /\ \A i \in DOMAIN frames : DOMAIN frames[i].scope \subseteq Names \ {Body}
  /\ \A i \in 1 .. Len(frames) - 1 :
       /\ frames[i].todo \notin {None, <<>>}
       /\ Head(frames[i].todo).kind = "match"
       /\ get_trigger_from_var(Head(frames[i].todo)) = frames[i + 1].trigger

(* Once the variables of a match are ordered, nothing it injects is missing: *)
(* every name in a parameter or in the body has its value by then.           *)
InjectionSucceeds ==
  [][status' = "MissingVariable" => Top.todo = None]_vars

(* The variables that rendering the match t takes *)
Evaluated(t, vs) ==
  IF Mentions(matches[t].body) = {} THEN {} ELSE {Definition(vs, n) : n \in Needed(t, vs) \ {Body}}

EndsInForm(t, vs) == \E v \in Evaluated(t, vs) : v.kind = "form"

(* The names evaluated before n in every order: what it uses, the variables *)
(* of its match that are defined earlier, and all that comes before these   *)
Earlier(vs, n) ==
  IF n \in LocalNames(vs) THEN {vs[i].name : i \in 1 .. LastOf(vs, n) - 1} ELSE {}

Takes(vs, n) == Definition(vs, n).uses \cup Earlier(vs, n)

Before(vs, n) ==
  {m \in Names : \A S \in SUBSET Names :
     /\ Takes(vs, n) \subseteq S
     /\ \A k \in S \cap (LocalNames(vs) \cup DOMAIN globals) : Takes(vs, k) \subseteq S
     => m \in S}

(* What rendering the match t may set an environment variable to *)
Setters(t, vs, key) == {v.name : v \in {w \in Evaluated(t, vs) : to_uppercase[w.name] = key}}

(* What the commands of the match t read does not depend on the order: of the *)
(* names that set it one at most is evaluated before the command, and always  *)
(* is, and the others are evaluated after it.                                 *)
EnvironmentFixed(t, vs) ==
  \A v \in Evaluated(t, vs) : \A key \in Reads(v) :
    LET before == Before(vs, v.name)
    IN  /\ \A m, n \in Setters(t, vs, key) \cap before : m = n
        /\ \A m \in Setters(t, vs, key) \ (before \cup {v.name}) : v.name \in Before(vs, m)

(* The environment of a command, as far as it is fixed *)
FixedEnvironment(vs, n, values) ==
  [key \in Keys(Before(vs, n)) |->
     values[CHOOSE m \in Before(vs, n) : to_uppercase[m] = key]]

(* The value of a name by its definition, with no order and no scope: given *)
(* the values of other names, and what the matches it may refer to mean     *)
ValueOf(vs, sub, values, n) ==
  LET v == Definition(vs, n)
  IN IF v.kind = "match"
       THEN IF get_trigger_from_var(v) \in Triggers THEN sub[get_trigger_from_var(v)] ELSE <<>>
       ELSE calculate(v, values, FixedEnvironment(vs, n, values)).output

Values(t, vs, sub) ==
  LET names == Needed(t, vs) \ {Body}
      value[k \in 0 .. Cardinality(Names)] ==
        [n \in Names |-> IF k = 0 \/ n \notin names THEN <<>> ELSE ValueOf(vs, sub, value[k - 1], n)]
  IN value

(* What a match means, given what the matches it refers to mean *)
MeaningOf(t, vs, sub) ==
  LET text == render_variables(matches[t].body, t, Values(t, vs, sub)[Cardinality(Names)])
  IN IF EndsInForm(t, vs) \/ text = <<>> THEN <<>> ELSE ApplyCasing(text)

Nested ==
  LET nested[k \in 0 .. Cardinality(Triggers)] ==
        [t \in Triggers |-> IF k = 0 THEN <<>> ELSE MeaningOf(t, matches[t].vars, nested[k - 1])]
  IN nested

Meaning ==
  MeaningOf(root.trigger, root.groups \o matches[root.trigger].vars, Nested[Cardinality(Triggers)])

(* The triggers that variables refer to *)
Referred(V) == {get_trigger_from_var(v) : v \in {w \in V : w.kind = "match"}}

RefersTo(t) == Referred(Evaluated(t, matches[t].vars))

(* The triggers that the ones of T refer to, directly or not, and those of T: *)
(* the least set that has T and what its members refer to                    *)
NestedIn(T) ==
  {t \in Triggers : \A S \in SUBSET Triggers :
     T \cap Triggers \subseteq S /\ (\A u \in S : RefersTo(u) \cap Triggers \subseteq S) => t \in S}

(* What the commands of the match that was found read, and those of the      *)
(* matches nested in it, does not depend on the order.                       *)
EnvironmentsFixed ==
  \E vs \in {root.groups \o matches[root.trigger].vars} :
    /\ EnvironmentFixed(root.trigger, vs)
    /\ \A t \in NestedIn(Referred(Evaluated(root.trigger, vs))) : EnvironmentFixed(t, matches[t].vars)

(* An expansion that succeeds is what its match means, whichever order was   *)
(* taken: local variables shadow global ones, the groups of a regex are seen *)
(* by its own match only, and a nested match does not disturb its caller.    *)
(* Only what a command reads without naming it can depend on the order: a    *)
(* global variable that may come before or after it, or one of two variables *)
(* whose names differ in case (util.rs:26).                                  *)
OutputIsMeaning == status = "ok" /\ EnvironmentsFixed => output = Meaning

(* The stack overflows only when matches refer to each other in a cycle. *)
OverflowNeedsCycle ==
  status = "overflow" =>
    \E C \in SUBSET Triggers : C # {} /\ \A t \in C : RefersTo(t) \cap C # {}

(* All variables of a match and of the matches nested in it *)
InvolvedIn(t, vs) ==
  Evaluated(t, vs) \cup
    UNION {Evaluated(u, matches[u].vars) : u \in NestedIn(Referred(Evaluated(t, vs)))}

(* Those of the match that was found *)
Involved == InvolvedIn(root.trigger, root.groups \o matches[root.trigger].vars)

CommandFails(c) == ~c.starts \/ ~c.succeeds

Fails(v) ==
  \/ v.kind = "mock"
  \/ v.kind = "echo" /\ "echo" \notin DOMAIN v.params
  \/ v.kind = "random" /\ ToSet(Flag(v.params, "choices", <<>>)) \subseteq {NotString}
  \/ v.kind = "shell" /\ ("cmd" \notin DOMAIN v.params \/ CommandFails(v.params.cmd))
  \/ v.kind = "shell" /\ Flag(v.params, "shell", "bash") \notin Shell
  \/ v.kind = "script" /\ "args" \notin DOMAIN v.params
  \/ /\ v.kind = "script"
     /\ Strings(Flag(v.params, "args", <<>>)) # {}
     /\ \E c \in {Program(v.params.args)} :
          \/ ~c.starts
          \/ (CommandFails(c) \/ c.complains) /\ ~Flag(v.params, "ignore_error", FALSE)

(* A command that fails is never expanded to its output, nor to nothing, and *)
(* no other evaluation fails: the variables of an expansion have all         *)
(* succeeded, those of nested matches included, unless a form ended one of   *)
(* the matches; and a rendering that fails for an extension has a variable   *)
(* that cannot be calculated (shell.rs:264, script.rs:131).                  *)
FailureIsFatal ==
  /\ status = "ok" /\ (\A v \in Involved : v.kind # "form") => \A v \in Involved : ~Fails(v)
  /\ status \in {"RenderingError", "Aborted"} => \E v \in Involved : Fails(v)

(* Every rendering ends. *)
Terminates == status = "rendering" ~> status \notin {"typed", "rendering"}
=============================================================================
