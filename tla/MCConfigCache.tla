---------------------------- MODULE MCConfigCache ----------------------------
(* Instances of ConfigCache for TLC: one profile or two, a match file that *)
(* imports a private one.                                                  *)
EXTENDS ConfigCache, TLC

CONSTANTS default, custom, base, private

MCImports == [f \in Matches |-> IF f = base THEN Private ELSE {}]
=============================================================================
