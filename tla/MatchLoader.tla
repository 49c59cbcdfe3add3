----------------------------- MODULE MatchLoader -----------------------------
(***************************************************************************)
(* What a match file defines.  A definition of the YAML file that cannot   *)
(* be converted is reported and left out; the others are kept in order.    *)
(* A definition is its position in the file.                               *)
(*                                                                         *)
(* A YAML match is a function of the fields that are present.  Of the      *)
(* fields that only say how a match behaves once it was found, a field     *)
(* stays when a warning is about it.                                       *)
(***************************************************************************)
EXTENDS Naturals, SequencesExt

Has(m, field) == field \in DOMAIN m

VarTypes ==
  {"date", "dummy", "echo", "form", "match", "random", "script", "shell", "mock", "test"}
UpperCasingStyles == {"uppercase", "capitalize", "capitalize_words"}

(* Parameters that are values, and parameters with a tag or an odd key *)
ParamKinds == {"values", "odd"}

try_convert_into_variable(v) == v.var_type \in VarTypes /\ v.params = "values"

-----------------------------------------------------------------------------
(* try_convert_into_match *)

HasTriggers(m) == Has(m, "trigger") \/ Has(m, "triggers")
HasCause(m) == HasTriggers(m) \/ Has(m, "regex")

(* The single trigger goes before the list. *)
TriggersOf(m) == IF Has(m, "trigger") THEN <<m.trigger>> ELSE m.triggers

HasText(m) == \E field \in {"replace", "markdown", "html"} : Has(m, field)

(* A text goes before a form, and a form before an image; what the match    *)
(* says of the others is not looked at.                                     *)
HasEffect(m) ==
  \/ /\ HasText(m)
     /\ Has(m, "vars") => \A i \in DOMAIN m.vars : try_convert_into_variable(m.vars[i])
  \/ /\ ~HasText(m) /\ Has(m, "form")
     /\ Has(m, "form_fields") => m.form_fields = "values"
  \/ ~HasText(m) /\ ~Has(m, "form") /\ Has(m, "image_path")

try_convert_into_match(m) == HasCause(m) /\ HasEffect(m)

(* The warnings of a match that cannot be converted are lost. *)
HasWarning(m) ==
  /\ try_convert_into_match(m)
  /\ Has(m, "uppercase_style")
  /\ ~Has(m, "propagate_case") \/ m.uppercase_style \notin UpperCasingStyles

-----------------------------------------------------------------------------
(* load_file *)

(* Once a definition cannot be converted, none is kept. *)
BugStopAtError(keep) ==
  [i \in 1 .. Cardinality({n \in 1 .. Len(keep) : \A j \in 1 .. n : keep[j]}) |-> i]

(* The positions that are kept, in order: `keep` says which are. *)
Kept(keep) ==
  LET kept[n \in 0 .. Len(keep)] ==
        IF n = 0 THEN <<>>
        ELSE IF keep[n] THEN Append(kept[n - 1], n) ELSE kept[n - 1]
  IN kept[Len(keep)]

Report(level, list, at) == [level |-> level, list |-> list, at |-> at]

load_file(yaml) ==
  LET vars == yaml.global_vars
      all == yaml.matches
      converts(i) == try_convert_into_match(all[i])
  IN [global_vars |-> Kept([i \in DOMAIN vars |-> try_convert_into_variable(vars[i])]),
      trigger_matches |-> Kept([i \in DOMAIN all |-> converts(i) /\ HasTriggers(all[i])]),
      regex_matches |-> Kept([i \in DOMAIN all |-> converts(i) /\ ~HasTriggers(all[i])]),
      non_fatal_errors |->
        {Report("error", "global_vars", i) :
           i \in {j \in DOMAIN vars : ~try_convert_into_variable(vars[j])}}
        \cup {Report("error", "matches", i) :
                i \in {j \in DOMAIN all : ~try_convert_into_match(all[j])}}
        \cup {Report("warn", "matches", i) : i \in {j \in DOMAIN all : HasWarning(all[j])}}]
=============================================================================
