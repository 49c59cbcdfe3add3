----------------------------- MODULE MCMatchStore -----------------------------
(* An instance of MatchStore for TLC: three files with any imports, of which *)
(* any fail, and two profiles.  Each trigger and variable has definitions in *)
(* two files or twice in one, some with errors.                              *)
EXTENDS MatchStore

CONSTANTS f1, f2, f3, default, custom, hello, bye, name, digits, unclosed, text

Var(type, params) == [name |-> name, var_type |-> type, params |-> params]
BadVars == <<Var("clock", "values")>>

MCContents ==
  (f1 :> [global_vars |-> <<Var("echo", "values"), Var("clock", "values"), Var("date", "values")>>,
          matches |-> <<[trigger |-> hello, replace |-> text],
                        [trigger |-> bye, vars |-> BadVars, replace |-> text],
                        [triggers |-> <<hello, bye>>, vars |-> BadVars, form |-> text]>>]) @@
  (f2 :> [global_vars |-> <<Var("shell", "odd"), Var("random", "values")>>,
          matches |-> <<[trigger |-> hello],
                        [regex |-> unclosed, image_path |-> text],
                        [regex |-> digits, html |-> text, uppercase_style |-> "lower"],
                        [trigger |-> bye, triggers |-> <<hello>>, regex |-> digits, markdown |-> text]>>]) @@
  (f3 :> [global_vars |-> <<>>,
          matches |-> <<[triggers |-> <<hello, hello>>, image_path |-> text]>>])

(* The load looks at the files of all profiles together and a query at those *)
(* of one: one profile with two files is enough.                             *)
MCInit == Init /\ Cardinality(match_file_paths[custom]) <= 1

MCSpec == MCInit /\ [][Next]_vars /\ WF_vars(Next)
=============================================================================
