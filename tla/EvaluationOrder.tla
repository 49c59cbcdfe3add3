--------------------------- MODULE EvaluationOrder ---------------------------
(***************************************************************************)
(* What the renderer's ordering of variables promises: given the names a   *)
(* node of the graph depends on, it either gives every node the root needs *)
(* after the nodes it depends on, or reports a cycle or a missing name the *)
(* root really runs into.  How the graph is walked is not said.            *)
(***************************************************************************)
EXTENDS Naturals, Sequences

CONSTANTS Names, Root

VARIABLES
  node_map,  \* the names each defined name depends on
  outcome,   \* "running", "ok", "CircularDependency" or "MissingVariable"
  order      \* the evaluation order, once the outcome is "ok"

vars == <<node_map, outcome, order>>

Closed(S) == Root \in S /\ \A n \in S \cap DOMAIN node_map : node_map[n] \subseteq S

Reachable == {n \in Names : \A S \in SUBSET Names : Closed(S) => n \in S}

(* Every node once, what it depends on before it, the root at the end. *)
Valid(seq) ==
  /\ Len(seq) > 0 /\ seq[Len(seq)] = Root
  /\ \A i, j \in 1 .. Len(seq) : seq[i] = seq[j] => i = j
  /\ \A i \in 1 .. Len(seq) : seq[i] \in DOMAIN node_map
  /\ \A i \in 1 .. Len(seq) : \A d \in node_map[seq[i]] : \E j \in 1 .. i - 1 : seq[j] = d
  /\ {seq[i] : i \in 1 .. Len(seq)} \subseteq Reachable

(* A set of needed nodes none of which can come first. *)
Circular ==
  \E C \in SUBSET Reachable :
    /\ C # {}
    /\ C \subseteq DOMAIN node_map
    /\ \A n \in C : node_map[n] \cap C # {}

Missing == \E n \in Reachable : n \notin DOMAIN node_map

Init ==
  /\ DOMAIN node_map \subseteq Names
  /\ node_map \in [DOMAIN node_map -> SUBSET Names]
  /\ outcome = "running"
  /\ order = <<>>

Decide ==
  /\ outcome = "running"
  /\ \/ outcome' = "ok" /\ Valid(order')
     \/ outcome' = "CircularDependency" /\ Circular /\ order' = <<>>
     \/ outcome' = "MissingVariable" /\ Missing /\ order' = <<>>
  /\ UNCHANGED node_map

Spec == Init /\ [][Decide]_vars
=============================================================================
