----------------------------- MODULE MCExpansion -----------------------------
(* An instance of Expansion for TLC, of two kinds: matches of two triggers  *)
(* that may nest, with a local and a global variable of every type; and one *)
(* match whose local and global variables depend on each other, or have a   *)
(* common name in upper case.                                               *)
EXTENDS Expansion

CONSTANTS match_body, x, X, y, Y, hello, name, fr, xx

Variable(n, kind, uses, params) ==
  [name |-> n, kind |-> kind, uses |-> uses, params |-> params]

Text == [echo |-> "text"]

Prints(reads) ==
  [starts |-> TRUE, succeeds |-> TRUE, complains |-> FALSE, writes |-> "text", reads |-> reads]

MCUpper == x :> X @@ X :> X @@ y :> Y @@ match_body :> Own

NestingBodies == {<<Own>>, <<y>>}
OrderBodies == {<<y>>, <<Own, y, x>>}
MCBodies == NestingBodies \cup OrderBodies

NestingLocals ==
  {Variable(x, "echo", {y}, Text),
   Variable(x, "match", {}, [trigger |-> name]),
   Variable(x, "shell", {}, [cmd |-> [Prints(None) EXCEPT !.succeeds = FALSE]]),
   Variable(y, "echo", {}, [echo |-> ""]),
   Variable(y, "form", {}, <<>>),
   Variable(y, "shell", {}, [cmd |-> Prints(X), shell |-> "sh"]),
   Variable(y, "script", {x}, [args |-> <<NotString, [Prints(None) EXCEPT !.complains = TRUE]>>,
                               ignore_error |-> TRUE]),
   Variable(y, "match", {}, [trigger |-> hello])}

OrderLocals ==
  {Variable(x, "echo", {}, Text),
   Variable(X, "echo", {}, Text),
   Variable(y, "shell", {}, [cmd |-> Prints(X)])}

MCLocals == NestingLocals \cup OrderLocals

NestingGlobals ==
  {Variable(y, "echo", {}, Text),
   Variable(y, "echo", {y}, Text),
   Variable(y, "match", {}, [trigger |-> name]),
   Variable(y, "match", {}, <<>>),
   Variable(y, "mock", {}, <<>>),
   Variable(y, "date", {}, [format |-> "text", locale |-> xx]),
   Variable(y, "date", {}, [offset |-> MaxOffset + 1]),
   Variable(y, "random", {}, [choices |-> <<NotString>>])}

OrderGlobals ==
  {Variable(x, "echo", {}, Text),
   Variable(x, "echo", {X}, Text),
   Variable(X, "echo", {}, Text),
   Variable(X, "echo", {y}, Text),
   Variable(y, "shell", {}, [cmd |-> Prints(X)]),
   Variable(y, "shell", {x}, [cmd |-> Prints(X)])}

MCGlobals == NestingGlobals \cup OrderGlobals

Lists(S, n) == UNION {[1 .. k -> S] : k \in 0 .. n}
Maps(S, n) ==
  {map \in UNION {[N -> S] : N \in kSubset(n, {x, X, y})} : \A m \in DOMAIN map : map[m].name = m}

IsMatch(v) == v.kind = "match"

(* Where no variable is a match, what is rendered is a single template, and *)
(* the one of the other trigger may be the same.                            *)
Nesting ==
  /\ matches \in [Triggers -> [body : NestingBodies, vars : Lists(NestingLocals, 1)]]
  /\ globals \in Maps(NestingGlobals, 0) \cup Maps(NestingGlobals, 1)
  /\ \/ \E t \in Triggers : \E v \in ToSet(matches[t].vars) : IsMatch(v)
     \/ \E n \in DOMAIN globals : IsMatch(globals[n])
     \/ matches[hello] = matches[name]

Ordering ==
  /\ matches \in {hello :> m @@ name :> [body |-> <<Own>>, vars |-> <<>>] :
                   m \in [body : OrderBodies, vars : Lists(OrderLocals, MaxLocals)]}
  /\ globals \in UNION {Maps(OrderGlobals, n) : n \in 0 .. 3}

MCInit == (Nesting \/ Ordering) /\ Init

MCSpec == MCInit /\ [][Next]_vars /\ WF_vars(render_template)
=============================================================================
