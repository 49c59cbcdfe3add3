---------------------------- MODULE MCResolveOrder ----------------------------
(* An instance of ResolveOrder for TLC: the body and names a variable may have, *)
(* be called by without having, or lack.                                     *)
EXTENDS ResolveOrder

CONSTANTS body, x, y, z
=============================================================================
