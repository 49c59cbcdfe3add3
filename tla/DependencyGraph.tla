--------------------------- MODULE DependencyGraph ---------------------------
(***************************************************************************)
(* The graph over which the renderer orders variables: the names each node *)
(* depends on, for the variables of a match, the global variables and the  *)
(* body of the match.                                                      *)
(***************************************************************************)
EXTENDS Naturals, Sequences, FiniteSets

CONSTANTS
  Names,  \* the names written in a match or given to a variable, and Body
  Body    \* "__match_body"

ASSUME BodyAssumption == Body \in Names

LocalNames(vs) == {vs[i].name : i \in DOMAIN vs}

(* The chain from each local variable to the one before it is forgotten. *)
BugNoChain(vs, i) == vs[i].uses

(* Every local variable depends on the one before it. *)
LocalUses(vs, i) == vs[i].uses \cup (IF i > 1 THEN {vs[i - 1].name} ELSE {})

(* Of two local variables with one name the later is in the map. *)
LastOf(vs, n) ==
  CHOOSE i \in DOMAIN vs : vs[i].name = n /\ \A j \in DOMAIN vs : vs[j].name = n => j <= i

(* Local variables shadow global ones, and either shadows the body. *)
generate_nodes(vs, globals, uses) ==
  [n \in {Body} \cup DOMAIN globals \cup LocalNames(vs) |->
     CASE n \in LocalNames(vs) -> LocalUses(vs, LastOf(vs, n))
       [] n \in DOMAIN globals \ LocalNames(vs) -> globals[n]
       [] OTHER -> LocalNames(vs) \cup uses]
=============================================================================
