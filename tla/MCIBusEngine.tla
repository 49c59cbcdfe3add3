---------------------------- MODULE MCIBusEngine ----------------------------
(* An instance of IBusEngine for TLC: one character of one byte, one of two *)
(* bytes, and a trigger of two characters.                                  *)
EXTENDS IBusEngine

CONSTANTS a, w

MCTriggers == {<<a, a>>}
=============================================================================
