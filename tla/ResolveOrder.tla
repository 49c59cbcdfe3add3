----------------------------- MODULE ResolveOrder -----------------------------
(***************************************************************************)
(* The order in which the renderer evaluates the variables of a match: a   *)
(* depth-first walk from the body over the names each variable depends on. *)
(* The dependencies of a node are a HashSet, so they come in any order.    *)
(*                                                                         *)
(* A variable is its name and the names it depends on: depends_on, and the *)
(* names in its parameters unless inject_vars is off.                      *)
(***************************************************************************)
EXTENDS DependencyGraph

CONSTANTS
  MaxLocals,   \* bound on the variables of the match
  MaxGlobals,  \* bound on the global variables
  MaxUses      \* bound on the names one variable or the body mentions

ASSUME BoundAssumption == {MaxLocals, MaxGlobals, MaxUses} \subseteq Nat

ASSUME NamesAssumption == IsFiniteSet(Names)

VARIABLES
  locals,      \* local_vars: the variables of the match, in order (history)
  node_map,    \* the names each node depends on
  frames,      \* the calls of resolve_dependencies in progress
  eval_order,
  resolved,
  seen,
  status       \* "running", "ok" or the error returned

vars == <<locals, node_map, frames, eval_order, resolved, seen, status>>

Uses == {S \in SUBSET Names : Cardinality(S) <= MaxUses}
Variables == [name : Names, uses : Uses]
LocalVars == UNION {[1 .. n -> Variables] : n \in 0 .. MaxLocals}
GlobalVars == UNION {[D -> Uses] : D \in {S \in SUBSET Names : Cardinality(S) <= MaxGlobals}}

(* A frame: a node, and the dependencies its loop has not finished with. *)
Frames == [node : Names, todo : SUBSET Names]

Init ==
  /\ locals \in LocalVars
  /\ \E globals \in GlobalVars, uses \in Uses : node_map = generate_nodes(locals, globals, uses)
  /\ frames = <<[node |-> Body, todo |-> node_map[Body]]>>
  /\ eval_order = <<>>
  /\ resolved = {}
  /\ seen = {Body}
  /\ status = "running"

-----------------------------------------------------------------------------
(* resolve_dependencies *)

Depth == Len(frames)
Top == frames[Depth]

(* The loop of the innermost call looks at one of its dependencies. *)
Looks(d) == status = "running" /\ d \in Top.todo

(* The loop never gets past a dependency. *)
BugDropNothing(fs, d) == fs

Drop(fs, d) == [fs EXCEPT ![Len(fs)].todo = @ \ {d}]

(* A dependency whose resolution is in progress is passed over as well. *)
BugSkipSeen(d) ==
  /\ Looks(d)
  /\ d \in seen
  /\ frames' = Drop(frames, d)
  /\ UNCHANGED <<locals, node_map, eval_order, resolved, seen, status>>

Skip(d) ==
  /\ Looks(d)
  /\ d \in resolved
  /\ frames' = Drop(frames, d)
  /\ UNCHANGED <<locals, node_map, eval_order, resolved, seen, status>>

Fail(error) ==
  /\ status' = error
  /\ UNCHANGED <<locals, node_map, frames, eval_order, resolved, seen>>

Circular(d) == Looks(d) /\ d \in seen \ resolved /\ Fail("CircularDependency")

Missing(d) ==
  /\ Looks(d)
  /\ d \notin resolved \cup seen
  /\ d \notin DOMAIN node_map
  /\ Fail("MissingVariable")

(* A node is marked as seen by its dependents only. *)
BugCallUnseen(d) ==
  /\ Looks(d)
  /\ d \notin resolved \cup seen
  /\ d \in DOMAIN node_map
  /\ frames' = Append(frames, [node |-> d, todo |-> node_map[d]])
  /\ UNCHANGED <<locals, node_map, eval_order, resolved, seen, status>>

Call(d) ==
  /\ Looks(d)
  /\ d \notin resolved \cup seen
  /\ d \in DOMAIN node_map
  /\ frames' = Append(frames, [node |-> d, todo |-> node_map[d]])
  /\ seen' = seen \cup {d}
  /\ UNCHANGED <<locals, node_map, eval_order, resolved, status>>

(* The innermost call returns, and its caller goes on to the next dependency. *)
Return ==
  /\ status = "running"
  /\ Top.todo = {}
  /\ eval_order' = Append(eval_order, Top.node)
  /\ resolved' = resolved \cup {Top.node}
  /\ IF Depth = 1
       THEN frames' = <<>> /\ status' = "ok"
       ELSE frames' = Drop(SubSeq(frames, 1, Depth - 1), Top.node) /\ UNCHANGED status
  /\ UNCHANGED <<locals, node_map, seen>>

Next ==
  \/ \E d \in Names : Skip(d) \/ Circular(d) \/ Missing(d) \/ Call(d)
  \/ Return

Spec == Init /\ [][Next]_vars

(* Nothing else runs on the thread that renders. *)
FairSpec == Spec /\ WF_vars(Next)

-----------------------------------------------------------------------------
(* Properties *)

(* Every variable has its type; a node is resolved after it was seen, once, *)
(* and only nodes of the map are ever seen.                                  *)
TypeOK ==
  /\ locals \in LocalVars
  /\ DOMAIN node_map \subseteq Names
  /\ node_map \in [DOMAIN node_map -> SUBSET Names]
  /\ frames \in Seq(Frames)
  /\ eval_order \in Seq(resolved)
  /\ resolved \subseteq seen
  /\ seen \subseteq DOMAIN node_map
  /\ status \in {"running", "ok", "CircularDependency", "MissingVariable"}

Evaluation == INSTANCE EvaluationOrder WITH
  Root <- Body,
  outcome <- status,
  order <- IF status = "ok" THEN eval_order ELSE <<>>

(* Whatever order the dependencies come in, the walk answers as promised: a *)
(* node comes after all it depends on, exactly once; a cycle or a missing   *)
(* name is reported only when the body really needs one.                    *)
Implements == Evaluation!Spec

(* The variables of the match are all evaluated, in the order they are      *)
(* declared ("needed to guarantee execution order within local vars"),      *)
(* unless one of the variables has taken the body's name.                   *)
LocalsInOrder ==
  status = "ok" /\ Body \notin LocalNames(locals) /\ LocalNames(locals) \subseteq node_map[Body] =>
    \A i, j \in DOMAIN locals : i <= j =>
      \E p, q \in DOMAIN eval_order :
        /\ eval_order[p] = locals[i].name /\ eval_order[q] = locals[j].name
        /\ p < q \/ i = j

(* The walk ends, cycles or not. *)
Terminates == <>(status # "running")
=============================================================================
