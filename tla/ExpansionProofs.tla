--------------------------- MODULE ExpansionProofs ---------------------------
(***************************************************************************)
(* Proofs about Expansion, for any triggers, templates and variables.      *)
(***************************************************************************)
EXTENDS Expansion, DataLemmas

(* The variables of a match and those a regex adds, and the global ones *)
AnyVariable ==
  LocalVariables \cup GlobalVariables \cup {Group(n) : n \in Names \ {Body}}

IsList(s) == s \in Seq(ToSet(s))

NamesIn(list) == {v.name : v \in ToSet(list)}

DataInv ==
  /\ matches \in [Triggers -> Templates]
  /\ \A n \in DOMAIN globals : globals[n] \in GlobalVariables /\ globals[n].name = n

(* What a frame has yet to evaluate: variables its match needs, each after  *)
(* those it injects; what is needed is in the scope or still to come.        *)
Agenda(f) ==
  /\ IsList(f.todo)
  /\ \A i \in 1 .. Len(f.todo) :
       /\ f.todo[i] \in Evaluated(f.trigger, f.vars)
       /\ f.todo[i].name \in Names \ {Body}
       /\ f.todo[i].uses \subseteq DOMAIN f.scope \cup {f.todo[j].name : j \in 1 .. i - 1}
  /\ Mentions(matches[f.trigger].body) # {}
  /\ Mentions(matches[f.trigger].body) \cup (Needed(f.trigger, f.vars) \ {Body})
       \subseteq DOMAIN f.scope \cup NamesIn(f.todo)

FrameOK(f) ==
  /\ f = [trigger |-> f.trigger, vars |-> f.vars, todo |-> f.todo, scope |-> f.scope]
  /\ f.trigger \in Triggers
  /\ f.vars \in Seq(AnyVariable)
  /\ DOMAIN f.scope \subseteq Names \ {Body}
  /\ f.todo # None => Agenda(f)

AtMatch(f, t) ==
  /\ f.todo \notin {None, <<>>}
  /\ Head(f.todo).kind = "match" /\ get_trigger_from_var(Head(f.todo)) = t

(* The calls in progress: the outermost is that of the match that was found, *)
(* and each of the others is that of the match its caller is at.             *)
StackInv ==
  /\ IsList(frames) /\ Len(frames) <= MaxDepth
  /\ \A i \in 1 .. Len(frames) : FrameOK(frames[i])
  /\ \A i \in 1 .. Len(frames) - 1 : AtMatch(frames[i], frames[i + 1].trigger)
  /\ \A i \in 2 .. Len(frames) : frames[i].vars = matches[frames[i].trigger].vars
  /\ frames # <<>> =>
       /\ root.trigger \in Triggers /\ root.groups \in Seq(AnyVariable)
       /\ frames[1].trigger = root.trigger
       /\ frames[1].vars = root.groups \o matches[root.trigger].vars

StatusInv ==
  /\ status \in {"typed", "rendering", "ok", "none"} \cup Failures
  /\ status = "typed" => frames = <<>>
  /\ status = "rendering" => frames # <<>>

IInv == DataInv /\ StackInv /\ StatusInv


-----------------------------------------------------------------------------
(* Variables and the graph *)

LEMMA VariableFacts ==
  ASSUME NEW v \in AnyVariable
  PROVE  v.name \in Names \ {Body} /\ v.kind \in VarType /\ v.uses \subseteq Names
<1>1. CASE v \in LocalVariables \cup GlobalVariables
  BY <1>1, VariablesAssumption
<1>2. ASSUME NEW n \in Names \ {Body}, v = Group(n)
      PROVE  v.name \in Names \ {Body} /\ v.kind \in VarType /\ v.uses \subseteq Names
  BY <1>2 DEF Group, VarType
<1> QED BY <1>1, <1>2 DEF AnyVariable

LEMMA TemplateVars ==
  ASSUME DataInv, NEW t \in Triggers
  PROVE  matches[t].vars \in Seq(AnyVariable)
<1>1. matches[t].vars \in Locals
  BY DEF DataInv, Templates
<1>2. PICK n \in 0 .. MaxLocals : matches[t].vars \in [1 .. n -> LocalVariables]
  BY <1>1 DEF Locals
<1>3. n \in Nat
  BY <1>2, BoundAssumption
<1>4. matches[t].vars \in [1 .. n -> AnyVariable]
  BY <1>2 DEF AnyVariable
<1> QED BY <1>3, <1>4

LEMMA NoneIsNoList == None # <<>> /\ None \notin Seq(AnyVariable)
<1> DEFINE S == LocalVariables \cup GlobalVariables \cup {Group(n) : n \in Names}
<1>1. None \notin Seq(S)
  BY NoneAssumption
<1>2. AnyVariable \subseteq S
  BY DEF AnyVariable
<1> HIDE DEF S
<1>3. Seq(AnyVariable) \subseteq Seq(S) /\ <<>> \in Seq(S)
  BY <1>2
<1> QED BY <1>1, <1>3

(* The last of the variables with a name *)
LEMMA LastOfExists ==
  ASSUME NEW vs \in Seq(AnyVariable), NEW n \in LocalNames(vs)
  PROVE  LastOf(vs, n) \in DOMAIN vs /\ vs[LastOf(vs, n)].name = n
<1> DEFINE S == {k \in 1 .. Len(vs) : vs[k].name = n}
<1>1. Len(vs) \in Nat /\ DOMAIN vs = 1 .. Len(vs)
  BY LenProperties
<1>2. S \in SUBSET (1 .. Len(vs)) /\ S # {}
  BY <1>1 DEF LocalNames
<1>3. \E m \in S : \A k \in S : k <= m
  <2> HIDE DEF S
  <2> QED BY <1>1, <1>2, MaxExists
<1>4. \E k \in DOMAIN vs : vs[k].name = n /\ \A j \in DOMAIN vs : vs[j].name = n => j <= k
  BY <1>1, <1>3
<1> QED BY <1>4 DEF LastOf

(* A name stands for the variable its node in the graph is made from. *)
LEMMA LookUp ==
  ASSUME DataInv, NEW t, NEW vs \in Seq(AnyVariable), NEW n \in LocalNames(vs) \cup DOMAIN globals
  PROVE  /\ Definition(vs, n) \in AnyVariable
         /\ Definition(vs, n).name = n
         /\ n \in Names \ {Body}
         /\ Definition(vs, n).uses \subseteq Graph(t, vs)[n]
<1> DEFINE gs == [m \in DOMAIN globals |-> globals[m].uses]
           d == Definition(vs, n)
<1>1. n \in DOMAIN Graph(t, vs)
  BY DEF Graph, generate_nodes
<1>2. CASE n \in LocalNames(vs)
  <2>1. d = vs[LastOf(vs, n)] /\ LastOf(vs, n) \in DOMAIN vs /\ d.name = n
    BY <1>2, LastOfExists DEF Definition
  <2>2. d \in AnyVariable
    BY <2>1
  <2>3. Graph(t, vs)[n] = LocalUses(vs, LastOf(vs, n))
    BY <1>1, <1>2 DEF Graph, generate_nodes
  <2>4. d.uses \subseteq LocalUses(vs, LastOf(vs, n))
    BY <2>1 DEF LocalUses
  <2> QED BY <2>1, <2>2, <2>3, <2>4, VariableFacts
<1>3. CASE n \in DOMAIN globals \ LocalNames(vs)
  <2>1. d = globals[n] /\ d \in AnyVariable /\ d.name = n
    BY <1>3 DEF Definition, DataInv, AnyVariable
  <2>2. Graph(t, vs)[n] = gs[n]
    BY <1>1, <1>3 DEF Graph, generate_nodes
  <2> QED BY <1>3, <2>1, <2>2, VariableFacts
<1> QED BY <1>2, <1>3

(* The body of a match is a node of its own. *)
LEMMA BodyNode ==
  ASSUME DataInv, NEW t, NEW vs \in Seq(AnyVariable)
  PROVE  /\ DOMAIN Graph(t, vs) = {Body} \cup DOMAIN globals \cup LocalNames(vs)
         /\ Mentions(matches[t].body) \cup LocalNames(vs) \subseteq Graph(t, vs)[Body]
<1>1. Body \notin LocalNames(vs) \cup DOMAIN globals
  BY LookUp
<1> QED BY <1>1 DEF Graph, generate_nodes


(* A function on the first numbers is a list of its values. *)
LEMMA MakeList ==
  ASSUME NEW n \in Nat, NEW s, s = [i \in 1 .. n |-> s[i]]
  PROVE  IsList(s) /\ Len(s) = n /\ DOMAIN s = 1 .. n
<1>1. s \in [1 .. n -> ToSet(s)]
  BY DEF ToSet
<1> QED BY <1>1 DEF IsList

(* All that is needed, each once and after what it depends on, the body last *)
IsOrder(s, t, vs) ==
  /\ Len(s) > 0 /\ s[Len(s)] = Body /\ ToSet(s) = Needed(t, vs)
  /\ \A i, j \in 1 .. Len(s) : s[i] = s[j] => i = j
  /\ \A i \in 1 .. Len(s) : \A d \in Graph(t, vs)[s[i]] : \E j \in 1 .. i - 1 : s[j] = d

LEMMA OrderShape ==
  ASSUME NEW t, NEW vs, NEW seq \in Orders(Graph(t, vs))
  PROVE  \E s \in Seq(Needed(t, vs)) :
           /\ IsOrder(s, t, vs)
           /\ DOMAIN seq = 1 .. Len(s) - 1 /\ \A i \in 1 .. Len(s) - 1 : seq[i] = s[i]
<1> DEFINE g == Graph(t, vs)
           needed == Evaluation(g)!Reachable
<1>1. PICK s \in SetToSeqs(needed) : Evaluation(g)!Valid(s) /\ seq = Front(s) /\ needed \subseteq DOMAIN g
  BY DEF Orders
<1>2. IsFiniteSet(needed)
  <2>1. needed \subseteq Names
    BY DEF Evaluation!Reachable
  <2> HIDE DEF needed
  <2> QED BY <2>1, FiniteAssumption, FS_Subset
<1>3. s \in Seq(needed) /\ ToSet(s) = needed
  <2> HIDE DEF needed
  <2> QED BY <1>1, <1>2, SetToSeqsFacts
<1>4. /\ Len(s) > 0 /\ s[Len(s)] = Body
      /\ \A i, j \in 1 .. Len(s) : s[i] = s[j] => i = j
      /\ \A i \in 1 .. Len(s) : \A d \in g[s[i]] : \E j \in 1 .. i - 1 : s[j] = d
  <2> HIDE DEF g, needed
  <2> QED BY <1>1, <1>3, LenProperties DEF Evaluation!Valid
<1>5. DOMAIN seq = 1 .. Len(s) - 1 /\ \A i \in 1 .. Len(s) - 1 : seq[i] = s[i]
  <2>1. s # <<>>
    BY <1>3, <1>4
  <2> HIDE DEF needed, g
  <2> QED BY <1>1, <1>3, <2>1, FrontFacts DEF Front
<1>6. Needed(t, vs) = needed
  BY <1>1 DEF Needed
<1> HIDE DEF needed
<1>7. IsOrder(s, t, vs)
  BY <1>3, <1>4, <1>6 DEF IsOrder
<1> QED BY <1>3, <1>5, <1>6, <1>7

(* An order of the graph, as the definitions of its names *)
LEMMA OrderFacts ==
  ASSUME DataInv, NEW t \in Triggers, NEW vs \in Seq(AnyVariable),
         NEW seq \in Orders(Graph(t, vs)), Mentions(matches[t].body) # {}
  PROVE  FrameOK([trigger |-> t, vars |-> vs,
                  todo |-> [i \in DOMAIN seq |-> Definition(vs, seq[i])], scope |-> <<>>])
<1>1. PICK s \in Seq(Needed(t, vs)) :
        /\ IsOrder(s, t, vs)
        /\ DOMAIN seq = 1 .. Len(s) - 1 /\ \A i \in 1 .. Len(s) - 1 : seq[i] = s[i]
  BY OrderShape
<1> DEFINE g == Graph(t, vs)
           needed == Needed(t, vs)
           todo == [i \in DOMAIN seq |-> Definition(vs, seq[i])]
           f == [trigger |-> t, vars |-> vs, todo |-> todo, scope |-> <<>>]
<1>2. needed \subseteq DOMAIN g
  BY DEF Needed
<1> HIDE DEF needed
<1> DEFINE L == Len(s)
<1>3. s \in Seq(needed) /\ ToSet(s) = needed
  BY <1>1 DEF needed, IsOrder
<1>4. /\ L \in Nat /\ L > 0 /\ s[L] = Body
      /\ \A i, j \in 1 .. L : s[i] = s[j] => i = j
      /\ \A i \in 1 .. L : \A d \in g[s[i]] : \E j \in 1 .. i - 1 : s[j] = d
  BY <1>1, LenProperties DEF IsOrder
<1>5. /\ DOMAIN seq = 1 .. L - 1
      /\ \A i \in 1 .. L - 1 : seq[i] = s[i]
  BY <1>1
<1>6. DOMAIN g = {Body} \cup DOMAIN globals \cup LocalNames(vs) /\ Mentions(matches[t].body) \subseteq g[Body]
  BY BodyNode
<1> HIDE DEF g, L
<1>7. \A i \in 1 .. L - 1 : s[i] \in needed \ {Body} /\ s[i] \in DOMAIN globals \cup LocalNames(vs)
  <2> SUFFICES ASSUME NEW i \in 1 .. L - 1 PROVE s[i] \in needed \ {Body} /\ s[i] \in DOMAIN g
    BY <1>6
  <2>1. i \in 1 .. L /\ L \in 1 .. L /\ i # L
    BY <1>4
  <2>2. s[i] # Body
    BY <2>1, <1>4
  <2>3. s[i] \in needed
    BY <2>1, <1>3 DEF L
  <2> QED BY <2>2, <2>3, <1>2
<1>8. \A i \in 1 .. L - 1 : todo[i] = Definition(vs, s[i]) /\ todo[i].name = s[i]
         /\ s[i] \in Names \ {Body} /\ todo[i].uses \subseteq g[s[i]]
  <2> SUFFICES ASSUME NEW i \in 1 .. L - 1
               PROVE  todo[i] = Definition(vs, s[i]) /\ todo[i].name = s[i]
                        /\ s[i] \in Names \ {Body} /\ todo[i].uses \subseteq g[s[i]]
    OBVIOUS
  <2>1. todo[i] = Definition(vs, s[i])
    BY <1>5
  <2>2. s[i] \in LocalNames(vs) \cup DOMAIN globals
    BY <1>7
  <2> HIDE DEF todo
  <2> QED BY <2>1, <2>2, LookUp DEF g
<1>9. todo = [i \in 1 .. L - 1 |-> todo[i]] /\ L - 1 \in Nat
  BY <1>4, <1>5
<1>10. IsList(todo) /\ Len(todo) = L - 1 /\ DOMAIN todo = 1 .. L - 1
  <2> HIDE DEF todo
  <2> QED BY <1>9, MakeList
<1>11. Needed(t, vs) = needed
  BY DEF needed
<1> HIDE DEF todo
<1>12. \A i \in 1 .. L - 1 : todo[i] \in Evaluated(t, vs)
  BY <1>7, <1>8, <1>11 DEF Evaluated
<1>13. \A i \in 1 .. L - 1 : todo[i].uses \subseteq {todo[j].name : j \in 1 .. i - 1}
  <2> SUFFICES ASSUME NEW i \in 1 .. L - 1, NEW d \in todo[i].uses
               PROVE  d \in {todo[j].name : j \in 1 .. i - 1}
    OBVIOUS
  <2>1. d \in g[s[i]] /\ i \in 1 .. L
    BY <1>4, <1>8
  <2>2. PICK j \in 1 .. i - 1 : s[j] = d
    BY <2>1, <1>4
  <2>3. j \in 1 .. L - 1
    BY <1>4, <2>2
  <2> QED BY <2>2, <2>3, <1>8
<1>14. \A n \in Mentions(matches[t].body) \cup (needed \ {Body}) : n \in NamesIn(todo)
  <2> SUFFICES ASSUME NEW n \in Mentions(matches[t].body) \cup (needed \ {Body})
               PROVE  \E j \in 1 .. L - 1 : s[j] = n
    BY <1>8, <1>10 DEF NamesIn, ToSet
  <2>1. CASE n \in Mentions(matches[t].body)
    <3>1. n \in g[s[L]] /\ L \in 1 .. L
      BY <2>1, <1>4, <1>6
    <3> QED BY <3>1, <1>4
  <2>2. CASE n \in needed \ {Body}
    <3>1. PICK j \in DOMAIN s : s[j] = n
      BY <2>2, <1>3 DEF ToSet
    <3>2. j \in 1 .. L
      BY <3>1, <1>3 DEF L
    <3>3. j # L
      BY <3>1, <1>4, <2>2
    <3> QED BY <3>1, <3>2, <3>3, <1>4
  <2> QED BY <2>1, <2>2
<1>15. Agenda(f)
  <2>1. f.trigger = t /\ f.vars = vs /\ f.todo = todo /\ f.scope = <<>> /\ DOMAIN f.scope = {}
    OBVIOUS
  <2> HIDE DEF f
  <2>2. \A i \in 1 .. Len(f.todo) :
          /\ f.todo[i] \in Evaluated(f.trigger, f.vars)
          /\ f.todo[i].name \in Names \ {Body}
          /\ f.todo[i].uses \subseteq DOMAIN f.scope \cup {f.todo[j].name : j \in 1 .. i - 1}
    BY <2>1, <1>8, <1>10, <1>12, <1>13
  <2>3. Mentions(matches[f.trigger].body) \cup (Needed(f.trigger, f.vars) \ {Body})
          \subseteq DOMAIN f.scope \cup NamesIn(f.todo)
    BY <2>1, <1>11, <1>14
  <2> QED BY <2>1, <2>2, <2>3, <1>10 DEF Agenda
<1>16. DOMAIN f.scope = {}
  OBVIOUS
<1> QED BY <1>15, <1>16 DEF FrameOK, todo


-----------------------------------------------------------------------------
(* The calls in progress *)

LEMMA SeqIsList ==
  ASSUME NEW S, NEW s \in Seq(S)
  PROVE  IsList(s) /\ Len(s) \in Nat /\ DOMAIN s = 1 .. Len(s)
<1>1. Len(s) \in Nat /\ DOMAIN s = 1 .. Len(s) /\ s = [i \in 1 .. Len(s) |-> s[i]]
  BY LenProperties
<1> QED BY <1>1, MakeList

(* The variable at the head goes from the agenda to the scope. *)
LEMMA AssignIs ==
  ASSUME NEW f, FrameOK(f), f.todo \notin {None, <<>>}, NEW text
  PROVE  LET a == Assign(f, text)
             rest == Tail(f.todo)
             scope == Bind(f.scope, Head(f.todo).name, text)
         IN  /\ a = [trigger |-> f.trigger, vars |-> f.vars, todo |-> rest, scope |-> scope]
             /\ a.trigger = f.trigger /\ a.vars = f.vars /\ a.todo = rest /\ a.scope = scope
             /\ DOMAIN scope = DOMAIN f.scope \cup {Head(f.todo).name}
             /\ rest \in Seq(ToSet(f.todo)) /\ Head(f.todo) = f.todo[1]
             /\ Len(f.todo) \in Nat /\ Len(f.todo) > 0 /\ Len(rest) = Len(f.todo) - 1
             /\ \A i \in 1 .. Len(rest) : rest[i] = f.todo[i + 1]
             /\ DOMAIN f.todo = 1 .. Len(f.todo) /\ DOMAIN rest = 1 .. Len(rest)
<1> DEFINE rest == Tail(f.todo)
           scope == Bind(f.scope, Head(f.todo).name, text)
           a == Assign(f, text)
<1>1. f = [trigger |-> f.trigger, vars |-> f.vars, todo |-> f.todo, scope |-> f.scope]
  BY DEF FrameOK
<1>2. a = [trigger |-> f.trigger, vars |-> f.vars, todo |-> rest, scope |-> scope]
  <2>1. PICK t, vs, todo, sc : f = [trigger |-> t, vars |-> vs, todo |-> todo, scope |-> sc]
    BY <1>1, Zenon
  <2> HIDE DEF rest, scope
  <2>2. a = [f EXCEPT !.scope = scope, !.todo = rest]
    BY Zenon DEF Assign, rest, scope
  <2> HIDE DEF a
  <2> QED BY <2>1, <2>2
<1>3. a.trigger = f.trigger /\ a.vars = f.vars /\ a.todo = rest /\ a.scope = scope
  <2> HIDE DEF a
  <2> QED BY <1>2
<1>4. DOMAIN scope = DOMAIN f.scope \cup {Head(f.todo).name}
  BY DEF Bind
<1>5. f.todo \in Seq(ToSet(f.todo)) /\ f.todo # <<>>
  BY DEF FrameOK, Agenda, IsList
<1>6. /\ rest \in Seq(ToSet(f.todo)) /\ Len(rest) = Len(f.todo) - 1
      /\ \A i \in 1 .. Len(rest) : rest[i] = f.todo[i + 1]
  BY <1>5, HeadTailProperties
<1>7. /\ Head(f.todo) = f.todo[1] /\ Len(f.todo) \in Nat /\ Len(f.todo) > 0
      /\ DOMAIN f.todo = 1 .. Len(f.todo)
  BY <1>5, EmptySeq, LenProperties
<1>8. DOMAIN rest = 1 .. Len(rest)
  BY <1>6, SeqIsList
<1> HIDE DEF rest, scope, a
<1>9. /\ a = [trigger |-> f.trigger, vars |-> f.vars, todo |-> rest, scope |-> scope]
      /\ a.trigger = f.trigger /\ a.vars = f.vars /\ a.todo = rest /\ a.scope = scope
      /\ DOMAIN scope = DOMAIN f.scope \cup {Head(f.todo).name}
      /\ rest \in Seq(ToSet(f.todo)) /\ Head(f.todo) = f.todo[1]
      /\ Len(f.todo) \in Nat /\ Len(f.todo) > 0 /\ Len(rest) = Len(f.todo) - 1
      /\ \A i \in 1 .. Len(rest) : rest[i] = f.todo[i + 1]
      /\ DOMAIN f.todo = 1 .. Len(f.todo) /\ DOMAIN rest = 1 .. Len(rest)
  BY <1>2, <1>3, <1>4, <1>6, <1>7, <1>8
<1> QED BY <1>9, Zenon DEF rest, scope, a

(* What was on the agenda before, without the head, is on it still. *)
LEMMA AssignOK ==
  ASSUME NEW f, FrameOK(f), f.todo \notin {None, <<>>}, NEW text
  PROVE  /\ FrameOK(Assign(f, text))
         /\ Assign(f, text).trigger = f.trigger /\ Assign(f, text).vars = f.vars
<1> DEFINE head == Head(f.todo)
           rest == Tail(f.todo)
           scope == Bind(f.scope, head.name, text)
           a == Assign(f, text)
<1>2. /\ a = [trigger |-> f.trigger, vars |-> f.vars, todo |-> rest, scope |-> scope]
      /\ a.trigger = f.trigger /\ a.vars = f.vars /\ a.todo = rest /\ a.scope = scope
      /\ DOMAIN scope = DOMAIN f.scope \cup {head.name}
      /\ rest \in Seq(ToSet(f.todo)) /\ head = f.todo[1]
      /\ Len(f.todo) \in Nat /\ Len(f.todo) > 0 /\ Len(rest) = Len(f.todo) - 1
      /\ \A i \in 1 .. Len(rest) : rest[i] = f.todo[i + 1]
      /\ DOMAIN f.todo = 1 .. Len(f.todo) /\ DOMAIN rest = 1 .. Len(rest)
  BY AssignIs, Zenon
<1>3. a.trigger = f.trigger /\ a.vars = f.vars /\ a.todo = rest /\ a.scope = scope
  BY <1>2
<1>4. DOMAIN scope = DOMAIN f.scope \cup {head.name}
  BY <1>2
<1>5. Agenda(f)
  BY DEF FrameOK
<1>6. /\ rest \in Seq(ToSet(f.todo)) /\ head = f.todo[1]
      /\ Len(f.todo) \in Nat /\ Len(f.todo) > 0 /\ Len(rest) = Len(f.todo) - 1
      /\ \A i \in 1 .. Len(rest) : rest[i] = f.todo[i + 1]
      /\ DOMAIN f.todo = 1 .. Len(f.todo) /\ DOMAIN rest = 1 .. Len(rest)
  BY <1>2
<1>7. IsList(rest)
  BY <1>6, SeqIsList
<1>8. a = [trigger |-> a.trigger, vars |-> a.vars, todo |-> a.todo, scope |-> a.scope]
  BY <1>2, <1>3
<1> HIDE DEF head, rest, scope, a
<1>9. \A i \in 1 .. Len(rest) :
        /\ i + 1 \in 1 .. Len(f.todo) /\ rest[i] = f.todo[i + 1]
        /\ f.todo[i + 1] \in Evaluated(f.trigger, f.vars)
        /\ f.todo[i + 1].name \in Names \ {Body}
        /\ f.todo[i + 1].uses \subseteq DOMAIN f.scope \cup {f.todo[j].name : j \in 1 .. i}
  <2> SUFFICES ASSUME NEW i \in 1 .. Len(rest)
               PROVE  /\ i + 1 \in 1 .. Len(f.todo) /\ rest[i] = f.todo[i + 1]
                      /\ f.todo[i + 1] \in Evaluated(f.trigger, f.vars)
                      /\ f.todo[i + 1].name \in Names \ {Body}
                      /\ f.todo[i + 1].uses \subseteq DOMAIN f.scope \cup {f.todo[j].name : j \in 1 .. i}
    OBVIOUS
  <2>1. i + 1 \in 1 .. Len(f.todo) /\ (i + 1) - 1 = i
    BY <1>6
  <2> QED BY <2>1, <1>5, <1>6 DEF Agenda
<1>10. \A i \in 1 .. Len(rest) :
         rest[i].uses \subseteq DOMAIN scope \cup {rest[j].name : j \in 1 .. i - 1}
  <2> SUFFICES ASSUME NEW i \in 1 .. Len(rest), NEW d \in rest[i].uses, d \notin DOMAIN scope
               PROVE  \E j \in 1 .. i - 1 : rest[j].name = d
    OBVIOUS
  <2>1. PICK j \in 1 .. i : f.todo[j].name = d
    <3>1. d \in f.todo[i + 1].uses /\ d \notin DOMAIN f.scope
      BY <1>4, <1>9
    <3> QED BY <3>1, <1>9
  <2>2. j # 1
    BY <2>1, <1>4, <1>6
  <2>3. j - 1 \in 1 .. i - 1 /\ (j - 1) + 1 = j /\ j - 1 \in 1 .. Len(rest)
    BY <2>1, <2>2, <1>6
  <2> QED BY <2>1, <2>3, <1>9
<1>11. \A n \in NamesIn(f.todo) : n \in DOMAIN scope \cup NamesIn(rest)
  <2> SUFFICES ASSUME NEW i \in 1 .. Len(f.todo), f.todo[i].name \notin DOMAIN scope
               PROVE  f.todo[i].name \in NamesIn(rest)
    <3>1. \A n \in NamesIn(f.todo) : \E i \in 1 .. Len(f.todo) : n = f.todo[i].name
      BY <1>6 DEF NamesIn, ToSet
    <3> QED BY <3>1, Zenon
  <2>1. i # 1
    BY <1>4, <1>6
  <2>2. i - 1 \in 1 .. Len(rest) /\ (i - 1) + 1 = i
    BY <2>1, <1>6
  <2>3. rest[i - 1].name = f.todo[i].name
    BY <2>2, <1>9
  <2> QED BY <2>2, <2>3, <1>6 DEF NamesIn, ToSet
<1>12. Agenda(a)
  <2>1. Mentions(matches[f.trigger].body) \cup (Needed(f.trigger, f.vars) \ {Body})
          \subseteq DOMAIN scope \cup NamesIn(rest)
    BY <1>4, <1>5, <1>11 DEF Agenda
  <2>2. \A i \in 1 .. Len(rest) :
          rest[i] \in Evaluated(f.trigger, f.vars) /\ rest[i].name \in Names \ {Body}
    BY <1>9
  <2>3. Mentions(matches[f.trigger].body) # {}
    BY <1>5 DEF Agenda
  <2> QED BY <2>1, <2>2, <2>3, <1>3, <1>7, <1>10 DEF Agenda
<1>13. head.name \in Names \ {Body}
  BY <1>5, <1>6 DEF Agenda
<1> QED BY <1>3, <1>4, <1>8, <1>12, <1>13 DEF FrameOK, a

(* A frame does not depend on what else happens. *)
LEMMA FrameStays ==
  ASSUME NEW f, FrameOK(f), UNCHANGED <<matches, globals>>
  PROVE  FrameOK(f)'
<1>1. \A t, vs : Graph(t, vs)' = Graph(t, vs)
  BY DEF Graph
<1>2. \A t, vs : Needed(t, vs)' = Needed(t, vs)
  BY <1>1 DEF Needed, Evaluation!Reachable, Evaluation!Closed
<1>3. \A t, vs : Evaluated(t, vs)' = Evaluated(t, vs)
  BY <1>2 DEF Evaluated, Definition
<1> QED BY <1>2, <1>3 DEF FrameOK, Agenda


LEMMA StackTyped ==
  ASSUME StackInv, frames # <<>>
  PROVE  /\ Depth \in Nat /\ Depth > 0 /\ Depth <= MaxDepth /\ DOMAIN frames = 1 .. Depth
         /\ FrameOK(Top) /\ Top = frames[Depth]
<1>1. frames \in Seq(ToSet(frames))
  BY DEF StackInv, IsList
<1>2. Depth \in Nat /\ Depth > 0 /\ DOMAIN frames = 1 .. Depth
  BY <1>1, EmptySeq, LenProperties DEF Depth
<1> QED BY <1>2 DEF StackInv, Depth, Top

(* Calls that are as they were, but for the last of them *)
LEMMA Restack ==
  ASSUME StackInv, frames # <<>>, UNCHANGED <<matches, globals, root>>,
         NEW n \in Nat, n > 0, n <= MaxDepth, n - 1 <= Depth,
         IsList(frames'), Len(frames') = n,
         \A i \in 1 .. n - 1 : frames'[i] = frames[i],
         \E g : g = frames'[n] /\ FrameOK(g),
         n <= Depth => frames'[n].trigger = frames[n].trigger /\ frames'[n].vars = frames[n].vars,
         n > Depth => AtMatch(Top, frames'[n].trigger)
                        /\ frames'[n].vars = matches[frames'[n].trigger].vars
  PROVE  StackInv'
<1>1. Depth \in Nat /\ Depth > 0 /\ FrameOK(Top) /\ Top = frames[Depth] /\ Depth = Len(frames)
  BY StackTyped DEF Depth
<1>2. \A i \in 1 .. Len(frames) : FrameOK(frames[i])
  BY DEF StackInv
<1>3. \A i \in 1 .. Len(frames') : \E g : g = frames'[i] /\ FrameOK(g)
  <2> SUFFICES ASSUME NEW i \in 1 .. n PROVE \E g : g = frames'[i] /\ FrameOK(g)
    OBVIOUS
  <2>1. CASE i = n
    BY <2>1
  <2>2. CASE i # n
    <3>1. i \in 1 .. n - 1 /\ i \in 1 .. Len(frames)
      BY <2>2, <1>1
    <3> QED BY <3>1, <1>2
  <2> QED BY <2>1, <2>2
<1>4. (\A i \in 1 .. Len(frames) : FrameOK(frames[i]))'
  BY <1>3, FrameStays
<1>5. \A i \in 1 .. Len(frames') - 1 : AtMatch(frames'[i], frames'[i + 1].trigger)
  <2> SUFFICES ASSUME NEW i \in 1 .. n - 1 PROVE AtMatch(frames[i], frames'[i + 1].trigger)
    OBVIOUS
  <2>1. CASE i = Depth
    <3>1. i + 1 = n /\ n > Depth
      BY <2>1, <1>1
    <3> QED BY <3>1, <2>1, <1>1
  <2>2. CASE i # Depth
    <3>1. i \in 1 .. Len(frames) - 1 /\ i + 1 \in 1 .. n /\ i + 1 <= Depth
      BY <2>2, <1>1
    <3>2. frames'[i + 1].trigger = frames[i + 1].trigger
      <4>1. CASE i + 1 = n
        BY <4>1, <3>1
      <4>2. CASE i + 1 # n
        BY <4>2, <3>1
      <4> QED BY <4>1, <4>2
    <3> QED BY <3>1, <3>2 DEF StackInv
  <2> QED BY <2>1, <2>2
<1>6. \A i \in 2 .. Len(frames') : frames'[i].vars = matches[frames'[i].trigger].vars
  <2> SUFFICES ASSUME NEW i \in 2 .. n PROVE frames'[i].vars = matches[frames'[i].trigger].vars
    OBVIOUS
  <2>1. CASE i > Depth
    BY <2>1, <1>1
  <2>2. CASE i <= Depth
    <3>1. i \in 2 .. Len(frames)
      BY <2>2, <1>1
    <3>2. frames[i].vars = matches[frames[i].trigger].vars
      BY <3>1 DEF StackInv
    <3>3. frames'[i].vars = frames[i].vars /\ frames'[i].trigger = frames[i].trigger
      <4>1. CASE i = n
        BY <4>1, <2>2
      <4>2. CASE i # n
        BY <4>2
      <4> QED BY <4>1, <4>2
    <3> QED BY <3>2, <3>3
  <2> QED BY <2>1, <2>2, <1>1
<1>7. /\ root.trigger \in Triggers /\ root.groups \in Seq(AnyVariable)
      /\ frames[1].trigger = root.trigger
      /\ frames[1].vars = root.groups \o matches[root.trigger].vars
  BY DEF StackInv
<1>8. frames'[1].trigger = frames[1].trigger /\ frames'[1].vars = frames[1].vars
  <2>1. CASE n = 1
    BY <2>1, <1>1
  <2>2. CASE n # 1
    BY <2>2
  <2> QED BY <2>1, <2>2
<1>9. (/\ IsList(frames) /\ Len(frames) <= MaxDepth
       /\ \A i \in 1 .. Len(frames) - 1 : AtMatch(frames[i], frames[i + 1].trigger)
       /\ \A i \in 2 .. Len(frames) : frames[i].vars = matches[frames[i].trigger].vars)'
  BY <1>5, <1>6 DEF AtMatch, IsList
<1>10. (/\ root.trigger \in Triggers /\ root.groups \in Seq(AnyVariable)
        /\ frames[1].trigger = root.trigger
        /\ frames[1].vars = root.groups \o matches[root.trigger].vars)'
  BY <1>7, <1>8
<1> QED BY <1>4, <1>9, <1>10 DEF StackInv

LEMMA SetTop ==
  ASSUME StackInv, frames # <<>>, UNCHANGED <<matches, globals, root>>,
         NEW f, FrameOK(f), f.trigger = Top.trigger, f.vars = Top.vars,
         frames' = [frames EXCEPT ![Depth] = f]
  PROVE  StackInv'
<1>1. /\ Depth \in Nat /\ Depth > 0 /\ Depth <= MaxDepth /\ DOMAIN frames = 1 .. Depth
      /\ Top = frames[Depth]
  BY StackTyped
<1> DEFINE S == ToSet(frames) \cup {f}
<1>2. frames \in [1 .. Depth -> S]
  <2>1. frames \in Seq(S) /\ Depth = Len(frames)
    BY DEF StackInv, IsList, Depth
  <2> HIDE DEF S
  <2> QED BY <2>1, LenProperties
<1>3. frames' \in [1 .. Depth -> S] /\ frames'[Depth] = f
  <2>1. f \in S
    OBVIOUS
  <2> HIDE DEF S
  <2> QED BY <1>1, <1>2, <2>1
<1>4. IsList(frames') /\ Len(frames') = Depth
  <2>1. frames' = [i \in 1 .. Depth |-> frames'[i]]
    BY <1>3
  <2> QED BY <1>1, <2>1, MakeList
<1>5. \A i \in 1 .. Depth - 1 : frames'[i] = frames[i]
  BY <1>1
<1>6. ~(Depth > Depth) /\ Depth - 1 <= Depth /\ Depth <= Depth
  BY <1>1
<1> QED BY <1>1, <1>3, <1>4, <1>5, <1>6, Restack

LEMMA PushFacts ==
  ASSUME StackInv, frames # <<>>, NEW f
  PROVE  LET s == Append(frames, f)
         IN  /\ IsList(s) /\ Len(s) = Depth + 1 /\ s # <<>>
             /\ \A i \in 1 .. Depth : s[i] = frames[i]
             /\ s[Depth + 1] = f
<1>1. Depth \in Nat /\ Depth = Len(frames)
  BY StackTyped DEF Depth
<1>2. frames \in Seq(ToSet(frames) \cup {f})
  BY SeqIsList DEF StackInv, IsList
<1> DEFINE s == Append(frames, f)
<1>3. /\ s \in Seq(ToSet(frames) \cup {f}) /\ Len(s) = Depth + 1 /\ s # <<>>
      /\ \A i \in 1 .. Depth : s[i] = frames[i]
      /\ s[Depth + 1] = f
  BY <1>1, <1>2, AppendProperties
<1> HIDE DEF s
<1>4. IsList(s)
  BY <1>3, SeqIsList
<1> QED BY <1>3, <1>4 DEF s

(* The last call ends and the one below it is f. *)
LEMMA PopFacts ==
  ASSUME StackInv, frames # <<>>, Depth # 1, NEW f
  PROVE  LET s == Append(SubSeq(frames, 1, Depth - 2), f)
         IN  /\ IsList(s) /\ Len(s) = Depth - 1 /\ s # <<>>
             /\ \A i \in 1 .. Depth - 2 : s[i] = frames[i]
             /\ s[Depth - 1] = f
<1> DEFINE n == Depth - 1
           below == SubSeq(frames, 1, Depth - 2)
           S == ToSet(frames) \cup {f}
           s == Append(below, f)
<1>1. Depth \in Nat /\ Depth > 0 /\ Depth <= MaxDepth /\ DOMAIN frames = 1 .. Depth
  BY StackTyped
<1>2. n \in Nat /\ n > 0 /\ Depth - 2 = n - 1
  BY <1>1, BoundAssumption
<1>3. \A i \in 1 .. Depth - 2 : frames[i] \in S
  BY <1>1 DEF ToSet
<1>4. /\ below \in Seq(S) /\ Len(below) = IF 1 <= Depth - 2 THEN (Depth - 2) - 1 + 1 ELSE 0
      /\ \A i \in 1 .. (Depth - 2) - 1 + 1 : below[i] = frames[1 + i - 1]
  <2> HIDE DEF S
  <2> QED BY <1>1, <1>3, SubSeqProperties
<1> HIDE DEF below, S
<1>5. Len(below) = n - 1 /\ \A i \in 1 .. n - 1 : below[i] = frames[i]
  BY <1>1, <1>2, <1>4
<1>6. /\ s \in Seq(S) /\ Len(s) = Len(below) + 1 /\ s # <<>>
      /\ \A i \in 1 .. Len(below) : s[i] = below[i]
      /\ s[Len(below) + 1] = f
  <2>1. f \in S
    BY DEF S
  <2> QED BY <1>4, <2>1, AppendProperties
<1> HIDE DEF s
<1>7. Len(s) = n /\ s[n] = f /\ \A i \in 1 .. n - 1 : s[i] = frames[i]
  <2>1. (n - 1) + 1 = n
    BY <1>2
  <2> HIDE DEF n
  <2> QED BY <2>1, <1>5, <1>6
<1>8. IsList(s)
  BY <1>6, SeqIsList
<1> QED BY <1>2, <1>6, <1>7, <1>8 DEF s, below

LEMMA Push ==
  ASSUME StackInv, frames # <<>>, UNCHANGED <<matches, globals, root>>, Depth < MaxDepth,
         NEW f, FrameOK(f), AtMatch(Top, f.trigger), f.vars = matches[f.trigger].vars,
         frames' = Append(frames, f)
  PROVE  StackInv'
<1>1. Depth \in Nat /\ Depth > 0
  BY StackTyped
<1>3. /\ IsList(frames') /\ Len(frames') = Depth + 1
      /\ \A i \in 1 .. Depth : frames'[i] = frames[i]
      /\ frames'[Depth + 1] = f
  BY PushFacts
<1> DEFINE n == Depth + 1
<1>5. /\ n \in Nat /\ n > 0 /\ n <= MaxDepth /\ n - 1 <= Depth /\ n > Depth /\ 1 .. n - 1 = 1 .. Depth
  BY <1>1, BoundAssumption
<1>6. Len(frames') = n /\ frames'[n] = f
  BY <1>3
<1> HIDE DEF n
<1>7. \A i \in 1 .. n - 1 : frames'[i] = frames[i]
  BY <1>3, <1>5
<1>8. ~(n <= Depth)
  BY <1>1, <1>5
<1> QED BY <1>3, <1>5, <1>6, <1>7, <1>8, Restack

LEMMA Pop ==
  ASSUME StackInv, frames # <<>>, UNCHANGED <<matches, globals, root>>, Depth # 1,
         NEW f, FrameOK(f), f.trigger = frames[Depth - 1].trigger, f.vars = frames[Depth - 1].vars,
         frames' = Append(SubSeq(frames, 1, Depth - 2), f)
  PROVE  StackInv'
<1> DEFINE n == Depth - 1
<1>1. Depth \in Nat /\ Depth > 0 /\ Depth <= MaxDepth
  BY StackTyped
<1>2. n \in Nat /\ n > 0 /\ n <= MaxDepth /\ n - 1 <= Depth /\ n <= Depth /\ Depth - 2 = n - 1
  BY <1>1, BoundAssumption
<1>3. /\ IsList(frames') /\ Len(frames') = n /\ frames'[n] = f
      /\ \A i \in 1 .. n - 1 : frames'[i] = frames[i]
  BY <1>2, PopFacts
<1>4. f.trigger = frames[n].trigger /\ f.vars = frames[n].vars /\ ~(n > Depth)
  BY <1>1
<1> HIDE DEF n
<1> QED BY <1>2, <1>3, <1>4, Restack

-----------------------------------------------------------------------------
(* The invariant *)

LEMMA NewFrame ==
  ASSUME DataInv, NEW t \in Triggers, NEW groups \in Seq(AnyVariable)
  PROVE  /\ FrameOK(Frame(t, groups))
         /\ Frame(t, groups).trigger = t /\ Frame(t, groups).vars = groups \o matches[t].vars
         /\ Frame(t, groups).todo = None
<1> DEFINE vs == groups \o matches[t].vars
<1>1. vs \in Seq(AnyVariable)
  BY TemplateVars, ConcatProperties
<1>2. Frame(t, groups) = [trigger |-> t, vars |-> vs, todo |-> None, scope |-> <<>>]
  BY DEF Frame
<1> HIDE DEF vs
<1>3. DOMAIN <<>> = {}
  OBVIOUS
<1> QED BY <1>1, <1>2, <1>3 DEF FrameOK, vs

LEMMA EmptyStack ==
  ASSUME frames' = <<>>
  PROVE  StackInv'
<1>1. IsList(<<>>) /\ Len(<<>>) = 0 /\ 0 <= MaxDepth
  BY BoundAssumption DEF IsList
<1>2. \A i \in 1 .. 0 : FALSE
  OBVIOUS
<1>3. Len(frames') = 0 /\ 1 .. 0 - 1 = {} /\ 2 .. 0 = {} /\ 1 .. 0 = {}
  OBVIOUS
<1>4. (/\ IsList(frames) /\ Len(frames) <= MaxDepth
       /\ \A i \in 1 .. Len(frames) : FrameOK(frames[i])
       /\ \A i \in 1 .. Len(frames) - 1 : AtMatch(frames[i], frames[i + 1].trigger)
       /\ \A i \in 2 .. Len(frames) : frames[i].vars = matches[frames[i].trigger].vars)'
  BY <1>1, <1>3 DEF IsList
<1> QED BY <1>4 DEF StackInv

LEMMA StackStays ==
  ASSUME StackInv, UNCHANGED <<matches, globals, root, frames>>
  PROVE  StackInv'
<1>1. (\A i \in 1 .. Len(frames) : FrameOK(frames[i]))'
  <2>1. \A i \in 1 .. Len(frames') : \E g : g = frames'[i] /\ FrameOK(g)
    BY DEF StackInv
  <2> QED BY <2>1, FrameStays
<1> QED BY <1>1 DEF StackInv, AtMatch, IsList

LEMMA DataStays ==
  ASSUME DataInv, UNCHANGED <<matches, globals>>
  PROVE  DataInv'
BY DEF DataInv

LEMMA BeginInv ==
  ASSUME IInv, NEW t \in Triggers, NEW groups \in Seq(AnyVariable), Begin(t, groups)
  PROVE  IInv'
<1>1. FrameOK(Frame(t, groups)) /\ Frame(t, groups).trigger = t
        /\ Frame(t, groups).vars = groups \o matches[t].vars
  BY NewFrame DEF IInv
<1> DEFINE f == Frame(t, groups)
<1> HIDE DEF f
<1>2. /\ frames' = <<f>> /\ UNCHANGED <<matches, globals>> /\ root' = [trigger |-> t, groups |-> groups]
      /\ status' = "rendering"
  BY DEF Begin, f
<1>3. /\ <<f>> \in Seq({f}) /\ Len(<<f>>) = 1 /\ <<f>>[1] = f /\ <<f>> # <<>>
      /\ 1 .. 1 = {1} /\ 2 .. 1 = {} /\ 1 .. 1 - 1 = {}
  OBVIOUS
<1>4. IsList(<<f>>)
  BY <1>3, SeqIsList
<1>5. (\A i \in 1 .. Len(frames) : FrameOK(frames[i]))'
  <2>1. \A i \in 1 .. Len(frames') : \E g : g = frames'[i] /\ FrameOK(g)
    BY <1>1, <1>2, <1>3 DEF f
  <2> QED BY <1>2, <2>1, FrameStays
<1>6. (/\ IsList(frames) /\ Len(frames) <= MaxDepth
       /\ \A i \in 1 .. Len(frames) - 1 : AtMatch(frames[i], frames[i + 1].trigger)
       /\ \A i \in 2 .. Len(frames) : frames[i].vars = matches[frames[i].trigger].vars)'
  BY <1>2, <1>3, <1>4, BoundAssumption DEF IsList
<1>7. (/\ root.trigger \in Triggers /\ root.groups \in Seq(AnyVariable)
       /\ frames[1].trigger = root.trigger
       /\ frames[1].vars = root.groups \o matches[root.trigger].vars)'
  BY <1>1, <1>2, <1>3 DEF f
<1>8. StackInv'
  BY <1>5, <1>6, <1>7 DEF StackInv
<1>9. StatusInv'
  BY <1>2, <1>3 DEF StatusInv
<1> QED BY <1>2, <1>8, <1>9, DataStays DEF IInv

LEMMA FailInv ==
  ASSUME IInv, NEW error \in Failures, Fail(error)
  PROVE  IInv'
<1>1. UNCHANGED <<matches, globals, root, frames>> /\ status' = error
  BY DEF Fail
<1>2. error \notin {"typed", "rendering"}
  BY DEF Failures
<1>3. StatusInv'
  BY <1>1, <1>2 DEF StatusInv
<1> QED BY <1>1, <1>3, DataStays, StackStays DEF IInv

LEMMA ReturnInv ==
  ASSUME IInv, status = "rendering", NEW text, Return(text)
  PROVE  IInv'
<1>1. frames # <<>> /\ StackInv /\ UNCHANGED <<matches, globals, root>>
  BY DEF IInv, StatusInv, Return
<1>2. CASE Depth = 1
  <2>1. frames' = <<>> /\ status' = "ok"
    BY <1>2 DEF Return
  <2>2. StatusInv'
    BY <2>1 DEF StatusInv
  <2> QED BY <1>1, <2>1, <2>2, EmptyStack, DataStays DEF IInv
<1>3. CASE Depth # 1
  <2> DEFINE caller == frames[Depth - 1]
             f == Assign(caller, text)
  <2>1. frames' = Append(SubSeq(frames, 1, Depth - 2), f) /\ status' = status
    BY <1>3 DEF Return, AssignMatch
  <2>2. Depth \in Nat /\ Depth - 1 \in 1 .. Depth - 1 /\ Depth - 1 \in 1 .. Depth /\ Depth = Len(frames)
    BY <1>1, <1>3, StackTyped DEF Depth
  <2>3. FrameOK(caller) /\ caller.todo \notin {None, <<>>}
    BY <1>1, <2>2 DEF StackInv, AtMatch
  <2> HIDE DEF caller
  <2>4. FrameOK(f) /\ f.trigger = caller.trigger /\ f.vars = caller.vars
    BY <2>3, AssignOK
  <2> HIDE DEF f
  <2>5. StackInv'
    BY <1>1, <1>3, <2>1, <2>4, Pop DEF caller
  <2>6. frames' # <<>>
    BY <1>1, <1>3, <2>1, PopFacts
  <2>7. StatusInv'
    BY <2>1, <2>6 DEF IInv, StatusInv
  <2> QED BY <1>1, <2>5, <2>7, DataStays DEF IInv
<1> QED BY <1>2, <1>3

LEMMA FinishInv ==
  ASSUME IInv, status = "rendering", NEW text, Finish(text)
  PROVE  IInv'
<1>1. Fail("panic") \/ Return(ApplyCasing(text))
  BY DEF Finish
<1>2. "panic" \in Failures
  BY DEF Failures
<1> QED BY <1>1, <1>2, FailInv, ReturnInv


LEMMA OrderedInv ==
  ASSUME IInv, Ordered
  PROVE  IInv'
<1>1. PICK seq \in Orders(Graph(Top.trigger, Top.vars)) :
        frames' = [frames EXCEPT ![Depth].todo = [i \in DOMAIN seq |-> Definition(Top.vars, seq[i])]]
  BY DEF Ordered
<1>2. /\ status = "rendering" /\ Top.todo = None /\ Mentions(matches[Top.trigger].body) # {}
      /\ UNCHANGED <<matches, globals, root, style, status, output>>
  BY DEF Ordered, Starts
<1>3. frames # <<>> /\ StackInv /\ DataInv
  BY <1>2 DEF IInv, StatusInv
<1>4. FrameOK(Top) /\ Top = frames[Depth] /\ DOMAIN frames = 1 .. Depth /\ Depth \in Nat /\ Depth > 0
  BY <1>3, StackTyped
<1> DEFINE todo == [i \in DOMAIN seq |-> Definition(Top.vars, seq[i])]
           new == [trigger |-> Top.trigger, vars |-> Top.vars, todo |-> todo, scope |-> <<>>]
           f == [Top EXCEPT !.todo = todo]
<1>5. FrameOK(new)
  <2>1. Top.trigger \in Triggers /\ Top.vars \in Seq(AnyVariable)
    BY <1>4 DEF FrameOK
  <2> QED BY <1>2, <1>3, <2>1, OrderFacts
<1> HIDE DEF todo
<1>6. Agenda(new) \/ todo = None
  BY <1>5 DEF FrameOK
<1>7. f = [trigger |-> Top.trigger, vars |-> Top.vars, todo |-> todo, scope |-> Top.scope]
  <2>1. PICK t, vs, td, sc : Top = [trigger |-> t, vars |-> vs, todo |-> td, scope |-> sc]
    BY <1>4, Zenon DEF FrameOK
  <2> QED BY <2>1
<1>8. FrameOK(f)
  <2>1. f.trigger = Top.trigger /\ f.vars = Top.vars /\ f.todo = todo /\ f.scope = Top.scope
    BY <1>7
  <2> HIDE DEF f
  <2>2. ASSUME Agenda(new) PROVE Agenda(f)
    <3>1. /\ new.trigger = Top.trigger /\ new.vars = Top.vars /\ new.todo = todo
          /\ DOMAIN new.scope = {}
      OBVIOUS
    <3> HIDE DEF new
    <3>2. DOMAIN new.scope \subseteq DOMAIN f.scope
      BY <3>1
    <3>3. \A i \in 1 .. Len(todo) :
            /\ todo[i] \in Evaluated(Top.trigger, Top.vars)
            /\ todo[i].name \in Names \ {Body}
            /\ todo[i].uses \subseteq DOMAIN f.scope \cup {todo[j].name : j \in 1 .. i - 1}
      BY <2>2, <3>1, <3>2 DEF Agenda
    <3>4. Mentions(matches[Top.trigger].body) \cup (Needed(Top.trigger, Top.vars) \ {Body})
            \subseteq DOMAIN f.scope \cup NamesIn(todo)
      BY <2>2, <3>1, <3>2 DEF Agenda
    <3>5. IsList(todo) /\ Mentions(matches[Top.trigger].body) # {}
      BY <2>2, <3>1 DEF Agenda
    <3> QED BY <2>1, <3>3, <3>4, <3>5 DEF Agenda
  <2>3. f = [trigger |-> f.trigger, vars |-> f.vars, todo |-> f.todo, scope |-> f.scope]
    BY <1>7, <2>1
  <2> QED BY <1>4, <1>6, <2>1, <2>2, <2>3 DEF FrameOK
<1>9. frames' = [frames EXCEPT ![Depth] = f] /\ f.trigger = Top.trigger /\ f.vars = Top.vars
  <2>1. [frames EXCEPT ![Depth].todo = todo] = [frames EXCEPT ![Depth] = [frames[Depth] EXCEPT !.todo = todo]]
    OBVIOUS
  <2>2. frames' = [frames EXCEPT ![Depth].todo = todo]
    BY <1>1 DEF todo
  <2> QED BY <1>4, <1>7, <2>1, <2>2
<1> HIDE DEF f
<1>10. StackInv'
  BY <1>2, <1>3, <1>8, <1>9, SetTop
<1>11. frames' # <<>>
  <2>1. DOMAIN frames' = DOMAIN frames
    BY <1>9
  <2>2. DOMAIN frames' # {}
    BY <1>4, <2>1
  <2> QED BY <2>2
<1>12. StatusInv'
  BY <1>2, <1>11 DEF IInv, StatusInv
<1> QED BY <1>2, <1>3, <1>10, <1>12, DataStays DEF IInv

LEMMA NestInv ==
  ASSUME IInv, NEW t \in Triggers, Nest(t)
  PROVE  IInv'
<1>1. /\ status = "rendering" /\ Top.todo \notin {None, <<>>}
      /\ Head(Top.todo).kind = "match" /\ t = get_trigger_from_var(Head(Top.todo))
      /\ Depth < MaxDepth /\ frames' = Append(frames, Frame(t, <<>>))
      /\ UNCHANGED <<matches, globals, root, style, status, output>>
  BY DEF Nest, Nests, Evaluates, Current
<1>2. frames # <<>> /\ StackInv /\ DataInv
  BY <1>1 DEF IInv, StatusInv
<1> DEFINE f == Frame(t, <<>>)
<1>3. FrameOK(f) /\ f.trigger = t /\ f.vars = matches[t].vars
  <2>1. <<>> \in Seq(AnyVariable) /\ matches[t].vars \in Seq(AnyVariable)
    BY <1>2, TemplateVars
  <2>2. <<>> \o matches[t].vars = matches[t].vars
    BY <2>1, ConcatEmptySeq
  <2>3. FrameOK(f) /\ f.trigger = t /\ f.vars = <<>> \o matches[t].vars
    <3> HIDE DEF f
    <3> QED BY <1>2, <2>1, NewFrame DEF f
  <2> HIDE DEF f
  <2> QED BY <2>2, <2>3
<1> HIDE DEF f
<1>4. AtMatch(Top, f.trigger) /\ f.vars = matches[f.trigger].vars
  BY <1>1, <1>3 DEF AtMatch
<1>5. frames' = Append(frames, f)
  BY <1>1 DEF f
<1>6. StackInv'
  BY <1>1, <1>2, <1>3, <1>4, <1>5, Push
<1>7. frames' # <<>>
  BY <1>2, <1>5, PushFacts
<1>8. StatusInv'
  BY <1>1, <1>7 DEF IInv, StatusInv
<1> QED BY <1>1, <1>2, <1>6, <1>8, DataStays DEF IInv

(* Whatever is injected has its value. *)
LEMMA Injects ==
  ASSUME IInv, status = "rendering"
  PROVE  /\ Evaluates => Current.uses \subseteq DOMAIN Top.scope /\ Current \in Evaluated(Top.trigger, Top.vars)
         /\ Top.todo = <<>> /\ Top.todo # None =>
              Mentions(matches[Top.trigger].body) \cup (Needed(Top.trigger, Top.vars) \ {Body})
                \subseteq DOMAIN Top.scope
<1>1. FrameOK(Top)
  BY StackTyped DEF IInv, StatusInv
<1>2. ASSUME Evaluates
      PROVE  Current.uses \subseteq DOMAIN Top.scope /\ Current \in Evaluated(Top.trigger, Top.vars)
  <2>1. Agenda(Top) /\ Top.todo # <<>>
    BY <1>1, <1>2 DEF Evaluates, FrameOK
  <2>2. Top.todo \in Seq(ToSet(Top.todo))
    BY <2>1 DEF Agenda, IsList
  <2>3. Current = Top.todo[1] /\ 1 \in 1 .. Len(Top.todo)
    BY <2>1, <2>2, EmptySeq, LenProperties DEF Current
  <2>4. 1 .. 1 - 1 = {}
    OBVIOUS
  <2> QED BY <2>1, <2>3, <2>4 DEF Agenda
<1>3. ASSUME Top.todo = <<>>, Top.todo # None
      PROVE  Mentions(matches[Top.trigger].body) \cup (Needed(Top.trigger, Top.vars) \ {Body})
               \subseteq DOMAIN Top.scope
  <2>1. Agenda(Top)
    BY <1>1, <1>3 DEF FrameOK
  <2>2. NamesIn(<<>>) = {}
    BY DEF NamesIn, ToSet
  <2> QED BY <1>3, <2>1, <2>2 DEF Agenda
<1> QED BY <1>2, <1>3

LEMMA ExtensionInv ==
  ASSUME IInv, Evaluates, Extension
  PROVE  IInv'
<1>1. PICK env, calculated :
        /\ env \in convert_to_env_variables(Top.scope) /\ calculated = calculate(Current, Top.scope, env)
        /\ \/ /\ calculated.result = "Success"
              /\ frames' = [frames EXCEPT ![Depth] = Assign(@, calculated.output)]
              /\ UNCHANGED <<matches, globals, root, style, status, output>>
           \/ calculated.result = "Error" /\ Fail("RenderingError")
           \/ calculated.result \in {"Aborted", "panic"} /\ Fail(calculated.result)
  BY DEF Extension
<1>2. {"RenderingError", "Aborted", "panic"} \subseteq Failures
  BY DEF Failures
<1>3. ASSUME \/ calculated.result = "Error" /\ Fail("RenderingError")
             \/ calculated.result \in {"Aborted", "panic"} /\ Fail(calculated.result)
      PROVE  IInv'
  BY <1>2, <1>3, FailInv
<1>4. ASSUME frames' = [frames EXCEPT ![Depth] = Assign(@, calculated.output)],
             UNCHANGED <<matches, globals, root, style, status, output>>
      PROVE  IInv'
  <2>1. frames # <<>> /\ StackInv /\ DataInv /\ Top.todo \notin {None, <<>>} /\ status = "rendering"
    BY DEF IInv, StatusInv, Evaluates
  <2>2. FrameOK(Top) /\ Top = frames[Depth] /\ DOMAIN frames = 1 .. Depth /\ Depth \in Nat /\ Depth > 0
    BY <2>1, StackTyped
  <2> DEFINE f == Assign(Top, calculated.output)
  <2>3. FrameOK(f) /\ f.trigger = Top.trigger /\ f.vars = Top.vars
    BY <2>1, <2>2, AssignOK
  <2>4. frames' = [frames EXCEPT ![Depth] = f]
    <3> HIDE DEF f
    <3>1. [frames EXCEPT ![Depth] = Assign(@, calculated.output)] = [frames EXCEPT ![Depth] = Assign(frames[Depth], calculated.output)]
      OBVIOUS
    <3> QED BY <1>4, <2>2, <3>1 DEF f
  <2> HIDE DEF f
  <2>5. StackInv'
    BY <1>4, <2>1, <2>3, <2>4, SetTop
  <2>6. frames' # <<>>
    <3>1. DOMAIN frames' = DOMAIN frames
      BY <2>4
    <3>2. DOMAIN frames' # {}
      BY <2>2, <3>1
    <3> QED BY <3>2
  <2>7. StatusInv'
    BY <1>4, <2>1, <2>6 DEF IInv, StatusInv
  <2> QED BY <1>4, <2>1, <2>5, <2>7, DataStays DEF IInv
<1> QED BY <1>1, <1>3, <1>4


LEMMA CalculateInv ==
  ASSUME IInv, Calculate
  PROVE  IInv' /\ status' # "MissingVariable"
<1>1. Evaluates /\ status = "rendering"
  BY DEF Calculate, Evaluates
<1>2. Form \/ Extension
  BY <1>1, Injects DEF Calculate
<1>3. ASSUME Form PROVE IInv' /\ status' # "MissingVariable"
  <2>1. Return(<<>>)
    BY <1>3 DEF Form
  <2> QED BY <1>1, <2>1, ReturnInv DEF Return
<1>4. ASSUME Extension PROVE IInv' /\ status' # "MissingVariable"
  <2>1. status' # "MissingVariable"
    BY <1>1, <1>4 DEF Extension, Fail
  <2> QED BY <1>1, <1>4, <2>1, ExtensionInv
<1> QED BY <1>2, <1>3, <1>4

LEMMA ReplaceInv ==
  ASSUME IInv, Replace
  PROVE  IInv' /\ status' # "MissingVariable"
<1> DEFINE body == matches[Top.trigger].body
           text == render_variables(body, Top.trigger, Top.scope)
<1>1. status = "rendering" /\ Top.todo = <<>> /\ Top.todo # None
  BY NoneIsNoList DEF Replace
<1>2. Mentions(body) \subseteq DOMAIN Top.scope
  BY <1>1, Injects
<1>3. Finish(text)
  BY <1>2 DEF Replace
<1>4. status' # "MissingVariable"
  <2> HIDE DEF text
  <2> QED BY <1>1, <1>3 DEF Finish, Fail, Return
<1> QED BY <1>1, <1>3, <1>4, FinishInv

LEMMA RenderInv ==
  ASSUME IInv, render_template
  PROVE  IInv' /\ (status' = "MissingVariable" => Top.todo = None)
<1>1. {"CircularDependency", "MissingVariable", "overflow", "MissingSubMatch"} \subseteq Failures
  BY DEF Failures
<1>2. CASE Plain
  <2>1. status = "rendering" /\ Top.todo = None
          /\ Finish(render_variables(matches[Top.trigger].body, Top.trigger, <<>>))
    BY <1>2 DEF Plain, Starts
  <2> QED BY <2>1, FinishInv
<1>3. CASE Ordered
  BY <1>3, OrderedInv DEF Ordered, Starts
<1>4. CASE NotOrdered
  <2>1. Top.todo = None /\ (Fail("CircularDependency") \/ Fail("MissingVariable"))
    BY <1>4 DEF NotOrdered, Starts
  <2> QED BY <1>1, <2>1, FailInv
<1>5. CASE Overflow
  <2>1. Fail("overflow")
    BY <1>5 DEF Overflow
  <2> QED BY <1>1, <2>1, FailInv DEF Fail
<1>6. CASE NoSubMatch
  <2>1. Fail("MissingSubMatch")
    BY <1>6 DEF NoSubMatch
  <2> QED BY <1>1, <2>1, FailInv DEF Fail
<1>7. CASE Calculate
  BY <1>7, CalculateInv
<1>8. CASE Replace
  BY <1>8, ReplaceInv
<1>9. ASSUME NEW t \in Triggers, Nest(t) PROVE IInv' /\ (status' = "MissingVariable" => Top.todo = None)
  BY <1>9, NestInv DEF Nest, Nests, Evaluates
<1> QED BY <1>2, <1>3, <1>4, <1>5, <1>6, <1>7, <1>8, <1>9 DEF render_template

LEMMA InitInv == Init => IInv
<1> SUFFICES ASSUME Init PROVE IInv
  OBVIOUS
<1>1. PICK N \in SUBSET (Names \ {Body}) :
        globals \in [N -> GlobalVariables] /\ \A n \in N : globals[n].name = n
  BY DEF Init, GlobalMaps
<1>2. \A n \in DOMAIN globals : globals[n] \in GlobalVariables /\ globals[n].name = n
  BY <1>1
<1>3. DataInv
  BY <1>2 DEF DataInv, Init
<1>4. /\ frames = <<>> /\ IsList(<<>>) /\ Len(<<>>) = 0 /\ 0 <= MaxDepth
      /\ 1 .. 0 = {} /\ 1 .. 0 - 1 = {} /\ 2 .. 0 = {}
  BY BoundAssumption DEF Init, IsList
<1>5. StackInv
  BY <1>4 DEF StackInv
<1>6. StatusInv
  BY DEF StatusInv, Init
<1> QED BY <1>3, <1>5, <1>6 DEF IInv

LEMMA StepInv == IInv /\ [Next]_vars => IInv'
<1> SUFFICES ASSUME IInv, [Next]_vars PROVE IInv'
  OBVIOUS
<1>1. CASE NotFound
  <2>1. UNCHANGED <<matches, globals, root, frames>> /\ status' \in {"none", "NotFound"}
    BY <1>1 DEF NotFound
  <2>2. StatusInv'
    BY <2>1 DEF StatusInv, Failures
  <2> QED BY <2>1, <2>2, DataStays, StackStays DEF IInv
<1>2. ASSUME NEW t \in Triggers, FoundByTrigger(t) PROVE IInv'
  <2>1. <<>> \in Seq(AnyVariable)
    OBVIOUS
  <2> QED BY <1>2, <2>1, BeginInv DEF FoundByTrigger
<1>3. ASSUME NEW t \in Triggers, FoundByRegex(t) PROVE IInv'
  <2>1. PICK groups \in {<<>>} \cup {<<Group(n)>> : n \in Names \ {Body}} : Begin(t, groups)
    BY <1>3 DEF FoundByRegex
  <2>2. groups \in Seq(AnyVariable)
    <3>1. \A n \in Names \ {Body} : Group(n) \in AnyVariable
      BY DEF AnyVariable
    <3>2. CASE groups = <<>>
      BY <3>2
    <3>3. ASSUME NEW n \in Names \ {Body}, groups = <<Group(n)>> PROVE groups \in Seq(AnyVariable)
      <4> DEFINE g == Group(n)
      <4>1. g \in AnyVariable
        BY <3>1
      <4> HIDE DEF g
      <4>2. <<g>> \in Seq(AnyVariable)
        BY <4>1
      <4> QED BY <3>3, <4>2 DEF g
    <3> QED BY <3>2, <3>3
  <2> QED BY <2>1, <2>2, BeginInv
<1>4. CASE render_template
  BY <1>4, RenderInv
<1>5. CASE UNCHANGED vars
  <2>1. UNCHANGED <<matches, globals, root, frames>> /\ status' = status
    BY <1>5 DEF vars
  <2>2. StatusInv'
    BY <2>1 DEF IInv, StatusInv
  <2> QED BY <2>1, <2>2, DataStays, StackStays DEF IInv
<1> QED BY <1>1, <1>2, <1>3, <1>4, <1>5 DEF Next

-----------------------------------------------------------------------------

(* The parts of a rendering stay well-formed: see TypeOK. *)
THEOREM TypeCorrect == Spec => []TypeOK
<1>1. IInv => TypeOK
  <2> SUFFICES ASSUME IInv PROVE TypeOK
    OBVIOUS
  <2>1. DOMAIN frames = 1 .. Len(frames)
    BY LenProperties DEF IInv, StackInv, IsList
  <2>2. \A i \in DOMAIN frames : DOMAIN frames[i].scope \subseteq Names \ {Body}
    BY <2>1 DEF IInv, StackInv, FrameOK
  <2> QED BY <2>2 DEF IInv, DataInv, StackInv, StatusInv, TypeOK, AtMatch
<1> QED BY <1>1, InitInv, StepInv, PTL DEF Spec

(* Once the variables of a match are ordered, every name that is injected in *)
(* a parameter or in the body has its value: the order promises it of the     *)
(* nodes it is made of, and a nested rendering leaves the scope alone.        *)
THEOREM InjectionHolds == Spec => InjectionSucceeds
<1>1. IInv /\ [Next]_vars => [status' = "MissingVariable" => Top.todo = None]_vars
  <2> SUFFICES ASSUME IInv, Next, status' = "MissingVariable" PROVE Top.todo = None
    OBVIOUS
  <2>1. render_template
    BY DEF Next, NotFound, FoundByTrigger, FoundByRegex, Begin
  <2> QED BY <2>1, RenderInv
<1> QED BY <1>1, InitInv, StepInv, PTL DEF Spec, InjectionSucceeds


-----------------------------------------------------------------------------
(* Overflows *)

(* A frame that waits for a match is one whose match refers to it. *)
LEMMA WaitingRefers ==
  ASSUME NEW f, FrameOK(f), NEW t, AtMatch(f, t)
  PROVE  t \in Referred(Evaluated(f.trigger, f.vars))
<1>1. Agenda(f) /\ f.todo # <<>>
  BY DEF AtMatch, FrameOK
<1>2. f.todo \in Seq(ToSet(f.todo))
  BY <1>1 DEF Agenda, IsList
<1>3. Head(f.todo) = f.todo[1] /\ 1 \in 1 .. Len(f.todo)
  BY <1>1, <1>2, EmptySeq, LenProperties
<1>4. Head(f.todo) \in Evaluated(f.trigger, f.vars)
  BY <1>1, <1>3 DEF Agenda
<1> QED BY <1>4 DEF AtMatch, Referred

(* All frames there may be are in use, and one more match is referred to. *)
OverflowInv ==
  status = "overflow" =>
    frames # <<>> /\ Depth = MaxDepth /\ \E t \in Triggers : AtMatch(Top, t)

LEMMA OverflowStep == IInv /\ OverflowInv /\ [Next]_vars => OverflowInv'
<1> SUFFICES ASSUME IInv, OverflowInv, [Next]_vars, status' = "overflow"
             PROVE  (frames # <<>> /\ Depth = MaxDepth /\ \E t \in Triggers : AtMatch(Top, t))'
  BY DEF OverflowInv
<1>1. CASE UNCHANGED vars
  BY <1>1 DEF vars, OverflowInv, Depth, Top, AtMatch
<1>2. CASE Overflow
  <2>1. /\ frames' = frames /\ Depth = MaxDepth /\ status = "rendering" /\ Top.todo \notin {None, <<>>}
        /\ Head(Top.todo).kind = "match" /\ get_trigger_from_var(Head(Top.todo)) \in Triggers
    BY <1>2 DEF Overflow, Evaluates, Fail, Current
  <2>2. frames # <<>> /\ AtMatch(Top, get_trigger_from_var(Head(Top.todo)))
    BY <2>1 DEF AtMatch, IInv, StatusInv
  <2> QED BY <2>1, <2>2 DEF Depth, Top, AtMatch
<1>3. CASE Next /\ ~Overflow
  <2>1. \A text : Finish(text) => status \in {"overflow"} \/ status' # "overflow"
    BY DEF Finish, Fail, Return
  <2>2. ~(status = "rendering" /\ \E text : Finish(text))
    BY <2>1
  <2>3. ~(status = "rendering" /\ \E text : Return(text))
    BY DEF Return
  <2>4. ~(Evaluates /\ Extension)
    BY DEF Extension, Fail, Evaluates
  <2>5. ~Calculate
    BY <2>3, <2>4 DEF Calculate, Form, Fail, Evaluates
  <2>6. ~Replace
    BY <2>2 DEF Replace, Fail
  <2>7. ~Plain
    BY <2>2 DEF Plain, Starts
  <2>8. ~Ordered /\ ~NotOrdered /\ ~NoSubMatch /\ ~NotFound
    BY DEF Ordered, NotOrdered, NoSubMatch, NotFound, Fail, Starts
  <2>9. \A t \in Triggers : ~Nest(t) /\ ~FoundByTrigger(t) /\ ~FoundByRegex(t)
    BY DEF Nest, Nests, Evaluates, FoundByTrigger, FoundByRegex, Begin
  <2> QED BY <1>3, <2>5, <2>6, <2>7, <2>8, <2>9 DEF Next, render_template
<1> QED BY <1>1, <1>2, <1>3

LEMMA CycleOfFrames ==
  ASSUME Cardinality(Triggers) < MaxDepth, IInv, OverflowInv
  PROVE  OverflowNeedsCycle
<1> SUFFICES ASSUME status = "overflow"
             PROVE  \E C \in SUBSET Triggers : C # {} /\ \A t \in C : RefersTo(t) \cap C # {}
  BY DEF OverflowNeedsCycle
<1>1. frames # <<>> /\ StackInv
  BY DEF OverflowInv, IInv
<1>2. PICK last \in Triggers : AtMatch(Top, last)
  BY DEF OverflowInv
<1> DEFINE D == MaxDepth
<1>3. D \in Nat /\ D > 0 /\ D = Len(frames) /\ Top = frames[D]
  BY <1>1, BoundAssumption DEF OverflowInv, Depth, Top
<1>4. \A i \in 1 .. D : FrameOK(frames[i]) /\ frames[i].trigger \in Triggers
  BY <1>1, <1>3 DEF StackInv, FrameOK
<1> DEFINE c == [i \in 2 .. D + 1 |-> IF i = D + 1 THEN last ELSE frames[i].trigger]
<1>5. c \in [2 .. D + 1 -> Triggers]
  BY <1>2, <1>3, <1>4
<1>6. \A i \in 2 .. D : c[i] \in Triggers /\ c[i + 1] \in RefersTo(c[i])
  <2> SUFFICES ASSUME NEW i \in 2 .. D PROVE c[i] \in Triggers /\ c[i + 1] \in RefersTo(c[i])
    OBVIOUS
  <2>1. /\ i \in 1 .. D /\ i \in 2 .. D + 1 /\ i + 1 \in 2 .. D + 1 /\ i # D + 1
        /\ i # D => i \in 1 .. D - 1 /\ i + 1 # D + 1
    BY <1>3
  <2>2. c[i] = frames[i].trigger
    BY <2>1
  <2>3. AtMatch(frames[i], c[i + 1])
    <3>1. CASE i = D
      <4>1. c[i + 1] = last
        BY <3>1, <2>1
      <4> HIDE DEF c
      <4> QED BY <3>1, <4>1, <1>2, <1>3
    <3>2. CASE i # D
      <4>1. c[i + 1] = frames[i + 1].trigger
        BY <3>2, <2>1
      <4> HIDE DEF c
      <4> QED BY <3>2, <4>1, <2>1, <1>1, <1>3 DEF StackInv
    <3> QED BY <3>1, <3>2
  <2>4. frames[i].vars = matches[frames[i].trigger].vars
    BY <1>1, <1>3 DEF StackInv
  <2> HIDE DEF c
  <2>5. c[i + 1] \in Referred(Evaluated(frames[i].trigger, frames[i].vars))
    BY <2>1, <2>3, <1>4, WaitingRefers
  <2> QED BY <2>1, <2>2, <2>4, <2>5, <1>4 DEF RefersTo
<1> HIDE DEF c
<1>7. IsFiniteSet(2 .. D + 1) /\ Cardinality(2 .. D + 1) = D
  <2>1. 2 \in Int /\ D + 1 \in Int /\ (D + 1) - 2 + 1 = D /\ 2 <= D + 1
    BY <1>3
  <2> QED BY <2>1, FS_Interval
<1>8. \E a, b \in 2 .. D + 1 : a # b /\ c[a] = c[b]
  BY <1>5, <1>7, FiniteAssumption, FS_PigeonHole
<1>9. PICK a \in 2 .. D + 1, b \in 2 .. D + 1 : a < b /\ c[a] = c[b]
  <2>1. PICK a \in 2 .. D + 1, b \in 2 .. D + 1 : a # b /\ c[a] = c[b]
    BY <1>8
  <2>2. a < b \/ b < a
    BY <2>1, <1>3
  <2> QED BY <2>1, <2>2
<1> DEFINE C == {c[i] : i \in a .. b - 1}
<1>10. \A i \in a .. b - 1 : i \in 2 .. D
  BY <1>3, <1>9
<1>11. c[a] \in C
  <2>1. a \in a .. b - 1
    BY <1>3, <1>9
  <2> QED BY <2>1
<1>12. \A i \in a .. b - 1 : c[i + 1] \in C
  <2> SUFFICES ASSUME NEW i \in a .. b - 1 PROVE c[i + 1] \in C
    OBVIOUS
  <2>1. i + 1 \in a .. b - 1 \/ i + 1 = b
    BY <1>3, <1>9
  <2> QED BY <2>1, <1>9, <1>11
<1>13. C \subseteq Triggers /\ \A t \in C : RefersTo(t) \cap C # {}
  BY <1>6, <1>10, <1>12
<1> QED BY <1>11, <1>13

(* Where there are fewer triggers than calls the stack has room for, it      *)
(* overflows only when matches refer to each other in a cycle: as many calls *)
(* are in progress as it has room for, so two of them are of one match.      *)
THEOREM OverflowIsCyclic ==
  ASSUME Cardinality(Triggers) < MaxDepth
  PROVE  Spec => []OverflowNeedsCycle
<1>1. Init => OverflowInv
  BY DEF Init, OverflowInv
<1>2. IInv /\ OverflowInv => OverflowNeedsCycle
  BY CycleOfFrames
<1> QED BY <1>1, <1>2, InitInv, StepInv, OverflowStep, PTL DEF Spec


-----------------------------------------------------------------------------
(* What is involved in a rendering *)

LEMMA NestedFacts ==
  ASSUME NEW T
  PROVE  /\ NestedIn(T) \subseteq Triggers
         /\ T \cap Triggers \subseteq NestedIn(T)
         /\ \A u \in NestedIn(T) : RefersTo(u) \cap Triggers \subseteq NestedIn(T)
         /\ \A S \in SUBSET Triggers :
              T \cap Triggers \subseteq S /\ (\A u \in S : RefersTo(u) \cap Triggers \subseteq S)
                => NestedIn(T) \subseteq S
<1>1. NestedIn(T) \subseteq Triggers /\ T \cap Triggers \subseteq NestedIn(T)
  BY DEF NestedIn
<1>2. ASSUME NEW u \in NestedIn(T), NEW t \in RefersTo(u) \cap Triggers PROVE t \in NestedIn(T)
  <2>1. u \in Triggers
    BY <1>1
  <2> SUFFICES ASSUME NEW S \in SUBSET Triggers, T \cap Triggers \subseteq S,
                      \A w \in S : RefersTo(w) \cap Triggers \subseteq S
               PROVE  t \in S
    BY DEF NestedIn
  <2>2. u \in S
    BY DEF NestedIn
  <2> QED BY <2>2
<1>3. ASSUME NEW S \in SUBSET Triggers, T \cap Triggers \subseteq S,
             \A u \in S : RefersTo(u) \cap Triggers \subseteq S
      PROVE  NestedIn(T) \subseteq S
  BY <1>3 DEF NestedIn
<1> QED BY <1>1, <1>2, <1>3

(* A match involves all that the matches it refers to involve. *)
LEMMA NestedInvolves ==
  ASSUME NEW t, NEW vs, NEW u \in NestedIn(Referred(Evaluated(t, vs)))
  PROVE  InvolvedIn(u, matches[u].vars) \subseteq InvolvedIn(t, vs)
<1> DEFINE N == NestedIn(Referred(Evaluated(t, vs)))
<1>1. N \in SUBSET Triggers /\ \A w \in N : RefersTo(w) \cap Triggers \subseteq N
  BY NestedFacts
<1>2. NestedIn(RefersTo(u)) \subseteq N
  <2>1. RefersTo(u) \cap Triggers \subseteq N
    BY <1>1
  <2> HIDE DEF N
  <2> QED BY <1>1, <2>1, NestedFacts
<1>3. NestedIn(Referred(Evaluated(u, matches[u].vars))) \subseteq N
  BY <1>2 DEF RefersTo
<1> QED BY <1>3 DEF InvolvedIn

(* A match none of whose variables fails involves none that fails, if that  *)
(* is so of the matches they refer to.                                       *)
Clean(t, vs) == \A v \in InvolvedIn(t, vs) : ~Fails(v)

CleanVariable(v) ==
  /\ ~Fails(v)
  /\ v.kind = "match" /\ get_trigger_from_var(v) \in Triggers =>
       Clean(get_trigger_from_var(v), matches[get_trigger_from_var(v)].vars)

LEMMA CleanMatch ==
  ASSUME NEW t, NEW vs, \A v \in Evaluated(t, vs) : CleanVariable(v)
  PROVE  Clean(t, vs)
<1> DEFINE R == Referred(Evaluated(t, vs))
           S == {u \in Triggers : Clean(u, matches[u].vars)}
<1>1. R \cap Triggers \subseteq S
  <2> SUFFICES ASSUME NEW v \in Evaluated(t, vs), v.kind = "match", get_trigger_from_var(v) \in Triggers
               PROVE  Clean(get_trigger_from_var(v), matches[get_trigger_from_var(v)].vars)
    BY DEF Referred
  <2> QED BY DEF CleanVariable
<1>2. ASSUME NEW u \in S, NEW w \in RefersTo(u) \cap Triggers PROVE w \in S
  <2>1. w \in NestedIn(Referred(Evaluated(u, matches[u].vars)))
    BY NestedFacts DEF RefersTo
  <2>2. InvolvedIn(w, matches[w].vars) \subseteq InvolvedIn(u, matches[u].vars)
    BY <2>1, NestedInvolves
  <2> QED BY <2>2 DEF Clean
<1>3. NestedIn(R) \subseteq S
  <2>1. S \in SUBSET Triggers
    OBVIOUS
  <2> HIDE DEF R, S
  <2> QED BY <1>1, <1>2, <2>1, NestedFacts
<1>4. ASSUME NEW u \in NestedIn(R), NEW v \in Evaluated(u, matches[u].vars) PROVE ~Fails(v)
  <2>1. Clean(u, matches[u].vars)
    BY <1>3
  <2> QED BY <2>1 DEF Clean, InvolvedIn
<1>5. \A v \in Evaluated(t, vs) : ~Fails(v)
  BY DEF CleanVariable
<1> QED BY <1>4, <1>5 DEF Clean, InvolvedIn

(* A call in progress is that of the match that was found, or of one nested in it. *)
LEMMA FramesNested ==
  ASSUME StackInv, frames # <<>>, NEW i \in 1 .. Len(frames)
  PROVE  LET own == Evaluated(root.trigger, root.groups \o matches[root.trigger].vars)
         IN  \/ frames[i].trigger = root.trigger /\ frames[i].vars = root.groups \o matches[root.trigger].vars
             \/ /\ frames[i].trigger \in NestedIn(Referred(own))
                /\ frames[i].vars = matches[frames[i].trigger].vars
<1> DEFINE own == Evaluated(root.trigger, root.groups \o matches[root.trigger].vars)
           N == NestedIn(Referred(own))
           D == Len(frames)
<1>1. /\ D \in Nat /\ D > 0
      /\ frames[1].trigger = root.trigger /\ frames[1].vars = root.groups \o matches[root.trigger].vars
      /\ Evaluated(frames[1].trigger, frames[1].vars) = own
      /\ \A k \in 1 .. D : FrameOK(frames[k])
      /\ \A k \in 1 .. D - 1 : AtMatch(frames[k], frames[k + 1].trigger)
      /\ \A k \in 2 .. D : frames[k].vars = matches[frames[k].trigger].vars
  BY StackTyped DEF StackInv, Depth
<1>2. \A k \in 1 .. D - 1 :
        frames[k + 1].trigger \in Referred(Evaluated(frames[k].trigger, frames[k].vars)) \cap Triggers
  <2> SUFFICES ASSUME NEW k \in 1 .. D - 1
               PROVE  frames[k + 1].trigger \in
                        Referred(Evaluated(frames[k].trigger, frames[k].vars)) \cap Triggers
    OBVIOUS
  <2>1. k \in 1 .. D /\ k + 1 \in 1 .. D
    BY <1>1
  <2> QED BY <2>1, <1>1, WaitingRefers DEF FrameOK
<1> HIDE DEF own, D
<1> DEFINE holds == {k \in Nat : k + 2 <= D => frames[k + 2].trigger \in N}
<1>3. 0 \in holds
  <2> SUFFICES ASSUME 2 <= D PROVE frames[2].trigger \in N
    BY <1>1
  <2>1. 1 \in 1 .. D - 1 /\ 1 + 1 = 2
    BY <1>1
  <2>2. frames[2].trigger \in Referred(own) \cap Triggers
    BY <1>1, <1>2, <2>1
  <2> QED BY <2>2, NestedFacts
<1>4. ASSUME NEW k \in 0 .. D - 1, k \in holds PROVE k + 1 \in holds
  <2> SUFFICES ASSUME (k + 1) + 2 <= D PROVE frames[(k + 1) + 2].trigger \in N
    OBVIOUS
  <2>1. k + 2 \in 1 .. D - 1 /\ k + 2 \in 2 .. D /\ (k + 2) + 1 = (k + 1) + 2 /\ k + 2 <= D
    BY <1>1
  <2>2. frames[k + 2].trigger \in N
    BY <1>4, <2>1
  <2>3. frames[(k + 1) + 2].trigger \in RefersTo(frames[k + 2].trigger) \cap Triggers
    BY <1>1, <1>2, <2>1 DEF RefersTo
  <2> QED BY <2>2, <2>3, NestedFacts
<1>5. \A k \in 0 .. D : k \in holds
  <2> HIDE DEF holds
  <2> QED BY <1>1, <1>3, <1>4, UpTo
<1>6. CASE i = 1
  BY <1>1, <1>6
<1>7. CASE i # 1
  <2>1. i \in 2 .. D /\ i - 2 \in 0 .. D /\ (i - 2) + 2 = i /\ i <= D
    BY <1>1, <1>7 DEF D
  <2>2. frames[i].trigger \in N
    <3>1. i - 2 \in holds
      BY <1>5, <2>1
    <3> QED BY <3>1, <2>1
  <2>3. frames[i].vars = matches[frames[i].trigger].vars
    BY <1>1, <2>1
  <2> QED BY <2>2, <2>3 DEF own
<1> QED BY <1>6, <1>7

(* What it evaluates is involved. *)
LEMMA FramesInvolved ==
  ASSUME StackInv, frames # <<>>, NEW i \in 1 .. Len(frames)
  PROVE  Evaluated(frames[i].trigger, frames[i].vars) \subseteq Involved
BY FramesNested DEF Involved, InvolvedIn


-----------------------------------------------------------------------------
(* Which variables fail *)

LEMMA EvaluatedFacts ==
  ASSUME DataInv, NEW t, NEW vs \in Seq(AnyVariable), NEW v \in Evaluated(t, vs)
  PROVE  /\ v.name \in Needed(t, vs) \ {Body} /\ v.name \in LocalNames(vs) \cup DOMAIN globals
         /\ v \in AnyVariable /\ v = Definition(vs, v.name)
<1>1. PICK n \in Needed(t, vs) \ {Body} : v = Definition(vs, n)
  BY DEF Evaluated
<1>2. n \in LocalNames(vs) \cup DOMAIN globals
  BY BodyNode DEF Needed
<1> QED BY <1>1, <1>2, LookUp

LEMMA ParamFacts ==
  ASSUME NEW v \in AnyVariable
  PROVE  /\ \A key : Param(v.params, key) = None <=> key \notin DOMAIN v.params
         /\ \A key : key \in DOMAIN v.params => Param(v.params, key) = v.params[key]
         /\ Param(v.params, "cmd") \in Command(Keys(Names)) \cup {None}
         /\ Flag(v.params, "args", <<>>) \in Seq(Command(Keys(Names)) \cup {NotString})
<1>1. CASE v \in LocalVariables \cup GlobalVariables
  <2>1. \A key \in DOMAIN v.params : v.params[key] # None
    BY <1>1, VariablesAssumption
  <2>2. /\ Param(v.params, "cmd") \in Command(Keys(Names)) \cup {None}
        /\ Flag(v.params, "args", <<>>) \in Seq(Command(Keys(Names)) \cup {NotString})
    BY <1>1, VariablesAssumption
  <2> QED BY <2>1, <2>2 DEF Param
<1>2. ASSUME NEW n \in Names \ {Body}, v = Group(n)
      PROVE  /\ \A key : Param(v.params, key) = None <=> key \notin DOMAIN v.params
             /\ \A key : key \in DOMAIN v.params => Param(v.params, key) = v.params[key]
             /\ Param(v.params, "cmd") \in Command(Keys(Names)) \cup {None}
             /\ Flag(v.params, "args", <<>>) \in Seq(Command(Keys(Names)) \cup {NotString})
  <2>1. v.params = [echo |-> "text"] /\ DOMAIN v.params = {"echo"}
    BY <1>2 DEF Group
  <2>2. "text" # None
    BY NoneAssumption
  <2>3. v.params["echo"] = "text"
    BY <2>1
  <2>4. \A key : Param(v.params, key) = IF key = "echo" THEN "text" ELSE None
    BY <2>1, <2>3 DEF Param
  <2>5. Param(v.params, "cmd") = None /\ Param(v.params, "args") = None
    BY <2>4
  <2>6. Flag(v.params, "args", <<>>) = <<>>
    BY <2>5 DEF Flag
  <2>7. <<>> \in Seq(Command(Keys(Names)) \cup {NotString})
    OBVIOUS
  <2> QED BY <2>1, <2>2, <2>3, <2>4, <2>5, <2>6, <2>7
<1> QED BY <1>1, <1>2 DEF AnyVariable

(* The program of a script is one of its arguments. *)
LEMMA ProgramFacts ==
  ASSUME NEW args \in Seq(Command(Keys(Names)) \cup {NotString}), Strings(args) # {}
  PROVE  Program(args) \in Command(Keys(Names))
<1>1. Strings(args) \in SUBSET Nat /\ DOMAIN args = 1 .. Len(args)
  BY LenProperties DEF Strings
<1> DEFINE S == Strings(args)
<1>2. \E n \in S : \A m \in S : n <= m
  <2> HIDE DEF S
  <2> QED BY <1>1, MinExists DEF S
<1>3. Min(S) \in S
  <2> HIDE DEF S
  <2> QED BY <1>2 DEF Min
<1>4. Min(S) \in DOMAIN args /\ args[Min(S)] # NotString
  BY <1>3 DEF Strings
<1> HIDE DEF S
<1>5. args[Min(S)] \in Command(Keys(Names)) \cup {NotString}
  BY <1>1, <1>4
<1> QED BY <1>4, <1>5 DEF Program, S

LEMMA CalculateKinds ==
  ASSUME NEW v, NEW scope, NEW env
  PROVE  /\ v.kind = "date" => calculate(v, scope, env) = date(v, scope)
         /\ v.kind = "echo" => calculate(v, scope, env) = echo(v, scope)
         /\ v.kind = "shell" => calculate(v, scope, env) = shell(v, scope, env)
         /\ v.kind = "script" => calculate(v, scope, env) = script(v, scope, env)
         /\ v.kind = "random" => calculate(v, scope, env) = random(v, scope)
         /\ v.kind = "mock" => calculate(v, scope, env) = Aborted
BY DEF calculate

LEMMA ResultFacts ==
  /\ \A text : Success(text).result = "Success"
  /\ Error.result = "Error" /\ Aborted.result = "Aborted" /\ Panics.result = "panic"
BY DEF Success, Error, Aborted, Panics

(* The calculation of a variable fails exactly if the variable is one that  *)
(* fails, a panic aside.                                                     *)
LEMMA CalculateFails ==
  ASSUME NEW v \in AnyVariable, NEW scope, NEW env, v.kind \notin {"match", "form"}
  PROVE  /\ calculate(v, scope, env).result \in {"Error", "Aborted"} => Fails(v)
         /\ calculate(v, scope, env).result = "Success" => ~Fails(v)
<1> DEFINE r == calculate(v, scope, env).result
           Goal == (r \in {"Error", "Aborted"} => Fails(v)) /\ (r = "Success" => ~Fails(v))
<1>1. v.kind \in VarType
  BY VariableFacts
<1>2. CASE v.kind = "mock"
  <2>1. r = "Aborted"
    BY <1>2, CalculateKinds, ResultFacts
  <2>2. Fails(v)
    BY <1>2 DEF Fails
  <2> QED BY <2>1, <2>2
<1>3. CASE v.kind = "date"
  <2>1. r \in {"Success", "panic"}
    <3>1. date(v, scope).result \in {"Success", "panic"}
      BY ResultFacts DEF date
    <3> QED BY <3>1, <1>3, CalculateKinds
  <2>2. ~Fails(v)
    BY <1>3 DEF Fails
  <2> QED BY <2>1, <2>2
<1>4. CASE v.kind = "echo"
  <2>1. Fails(v) <=> "echo" \notin DOMAIN v.params
    BY <1>4 DEF Fails
  <2>2. "echo" \notin DOMAIN v.params <=> Param(v.params, "echo") = None
    BY ParamFacts
  <2>3. r = IF Param(v.params, "echo") = None THEN "Error" ELSE "Success"
    <3>1. echo(v, scope).result = IF Param(v.params, "echo") = None THEN "Error" ELSE "Success"
      <4>1. CASE Param(v.params, "echo") = None
        <5>1. echo(v, scope) = Error
          <6>1. Param(v.params, "echo") # ""
            BY <4>1, NoneAssumption
          <6> QED BY <4>1, <6>1, Zenon DEF echo
        <5> QED BY <4>1, <5>1, ResultFacts
      <4>2. CASE Param(v.params, "echo") # None
        <5>1. \E text : echo(v, scope) = Success(text)
          <6>1. CASE Param(v.params, "echo") = ""
            BY <4>2, <6>1 DEF echo
          <6>2. CASE Param(v.params, "echo") # ""
            BY <4>2, <6>2 DEF echo
          <6> QED BY <6>1, <6>2
        <5> QED BY <4>2, <5>1, ResultFacts
      <4> QED BY <4>1, <4>2
    <3> QED BY <3>1, <1>4, CalculateKinds
  <2> QED BY <2>1, <2>2, <2>3
<1>5. CASE v.kind = "random"
  <2>1. Fails(v) <=> ToSet(Flag(v.params, "choices", <<>>)) \subseteq {NotString}
    BY <1>5 DEF Fails
  <2>2. r = IF Param(v.params, "choices") = None \/ Strings(v.params.choices) = {}
              THEN "Error" ELSE "Success"
    <3>1. random(v, scope).result =
            IF Param(v.params, "choices") = None \/ Strings(v.params.choices) = {}
              THEN "Error" ELSE "Success"
      BY ResultFacts DEF random
    <3> QED BY <3>1, <1>5, CalculateKinds
  <2>3. CASE Param(v.params, "choices") = None
    <3>1. ToSet(Flag(v.params, "choices", <<>>)) = {}
      BY <2>3 DEF Flag, ToSet
    <3> QED BY <2>1, <2>2, <2>3, <3>1
  <2>4. CASE Param(v.params, "choices") # None
    <3>1. Flag(v.params, "choices", <<>>) = v.params.choices
      BY <2>4, ParamFacts DEF Flag
    <3>2. ToSet(v.params.choices) \subseteq {NotString} <=> Strings(v.params.choices) = {}
      BY DEF ToSet, Strings
    <3> QED BY <2>1, <2>2, <2>4, <3>1, <3>2
  <2> QED BY <2>3, <2>4
<1>6. CASE v.kind = "shell"
  <2> DEFINE cmd == Param(v.params, "cmd")
  <2>1. Fails(v) <=> \/ "cmd" \notin DOMAIN v.params \/ CommandFails(v.params.cmd)
                     \/ Flag(v.params, "shell", "bash") \notin Shell
    BY <1>6 DEF Fails
  <2>2. r = IF cmd # None /\ ShellOf(v.params) # None /\ execute_cmd(cmd) THEN "Success" ELSE "Error"
    <3>1. shell(v, scope, env).result =
            IF cmd # None /\ ShellOf(v.params) # None /\ execute_cmd(cmd) THEN "Success" ELSE "Error"
      BY ResultFacts DEF shell
    <3> QED BY <3>1, <1>6, CalculateKinds
  <2>3. cmd = None <=> "cmd" \notin DOMAIN v.params
    BY ParamFacts
  <2>4. cmd # None => cmd = v.params.cmd
    BY ParamFacts
  <2>5. ShellOf(v.params) # None <=> Flag(v.params, "shell", "bash") \in Shell
    <3>1. None \notin Shell /\ "bash" \in Shell /\ "bash" # None
      BY NoneAssumption DEF Shell
    <3>2. Param(v.params, "shell") # None => v.params.shell = Param(v.params, "shell")
      BY ParamFacts
    <3>3. CASE Param(v.params, "shell") = None
      BY <3>1, <3>3 DEF ShellOf, Flag, DefaultShell
    <3>4. CASE Param(v.params, "shell") # None
      <4>1. ShellOf(v.params) = from_string(v.params.shell) /\ Flag(v.params, "shell", "bash") = v.params.shell
        BY <3>2, <3>4 DEF ShellOf, Flag
      <4> QED BY <3>1, <4>1 DEF from_string
    <3> QED BY <3>3, <3>4
  <2>6. execute_cmd(cmd) <=> ~CommandFails(cmd)
    BY DEF execute_cmd, CommandFails
  <2> HIDE DEF cmd
  <2>7. r = "Success" <=> ~Fails(v)
    <3>1. CASE cmd = None
      BY <2>1, <2>2, <2>3, <3>1
    <3>2. CASE cmd # None
      BY <2>1, <2>2, <2>3, <2>4, <2>5, <2>6, <3>2
    <3> QED BY <3>1, <3>2
  <2>8. r \in {"Success", "Error"}
    BY <2>2
  <2> QED BY <2>7, <2>8
<1>7. CASE v.kind = "script"
  <2> DEFINE args == Flag(v.params, "args", <<>>)
             program == Program(v.params.args)
             ignore == Flag(v.params, "ignore_error", FALSE)
  <2>1. Fails(v) <=> \/ "args" \notin DOMAIN v.params
                     \/ /\ Strings(args) # {}
                        /\ ~program.starts \/ ((CommandFails(program) \/ program.complains) /\ ~ignore)
    BY <1>7 DEF Fails
  <2>2. calculate(v, scope, env) = script(v, scope, env)
    BY <1>7, CalculateKinds
  <2>3. CASE Param(v.params, "args") = None
    <3>1. "args" \notin DOMAIN v.params
      BY <2>3, ParamFacts
    <3>2. script(v, scope, env) = Error
      BY <2>3 DEF script
    <3> QED BY <2>1, <2>2, <3>1, <3>2, ResultFacts
  <2>4. CASE Param(v.params, "args") # None
    <3>1. "args" \in DOMAIN v.params /\ args = v.params.args
      BY <2>4, ParamFacts DEF Flag
    <3>2. CASE Strings(v.params.args) = {}
      <4>1. script(v, scope, env) = Panics
        BY <2>4, <3>2 DEF script
      <4>2. ~Fails(v)
        BY <2>1, <3>1, <3>2
      <4> QED BY <2>2, <4>1, <4>2, ResultFacts
    <3>3. CASE Strings(v.params.args) # {}
      <4> DEFINE runs == program.starts /\ ((program.succeeds /\ ~program.complains) \/ ignore)
      <4>1. r = IF runs THEN "Success" ELSE "Error"
        <5>1. script(v, scope, env) = IF runs THEN Success(Stdout(v, program, scope, env)) ELSE Error
          BY <2>4, <3>3 DEF script
        <5> QED BY <5>1, <2>2, ResultFacts
      <4>2. Fails(v) <=> ~runs
        <5>1. Fails(v) <=> ~program.starts \/ ((CommandFails(program) \/ program.complains) /\ ~ignore)
          BY <2>1, <3>1, <3>3
        <5>2. CommandFails(program) <=> ~program.starts \/ ~program.succeeds
          BY DEF CommandFails
        <5> HIDE DEF program, ignore
        <5> QED BY <5>1, <5>2
      <4> QED BY <4>1, <4>2
    <3> QED BY <3>2, <3>3
  <2> QED BY <2>3, <2>4
<1> QED BY <1>1, <1>2, <1>3, <1>4, <1>5, <1>6, <1>7 DEF VarType


-----------------------------------------------------------------------------
(* Failures are fatal *)

NoForms == \A v \in Involved : v.kind # "form"

(* What a call has in its scope has not failed, nor has anything in it. *)
ScopeClean(f) ==
  \A v \in Evaluated(f.trigger, f.vars) : v.name \in DOMAIN f.scope => CleanVariable(v)

ScopesClean == NoForms => \A i \in 1 .. Len(frames) : ScopeClean(frames[i])

FatalInv == ScopesClean /\ FailureIsFatal

LEMMA InvolvedStays ==
  ASSUME UNCHANGED <<matches, globals>>
  PROVE  /\ \A t, vs : Evaluated(t, vs)' = Evaluated(t, vs)
         /\ \A t, vs : InvolvedIn(t, vs)' = InvolvedIn(t, vs)
         /\ \A t : RefersTo(t)' = RefersTo(t)
         /\ \A T : NestedIn(T)' = NestedIn(T)
<1>1. \A t, vs : Graph(t, vs)' = Graph(t, vs)
  BY DEF Graph
<1>2. \A t, vs : Needed(t, vs)' = Needed(t, vs)
  BY <1>1 DEF Needed, Evaluation!Reachable, Evaluation!Closed
<1>3. \A t, vs : Evaluated(t, vs)' = Evaluated(t, vs)
  BY <1>2 DEF Evaluated, Definition
<1>4. \A t : RefersTo(t)' = RefersTo(t)
  BY <1>3 DEF RefersTo, Referred
<1>5. \A T : NestedIn(T)' = NestedIn(T)
  BY <1>4 DEF NestedIn
<1>6. \A t, vs : InvolvedIn(t, vs)' = InvolvedIn(t, vs)
  <2>1. \A t, vs : Referred(Evaluated(t, vs))' = Referred(Evaluated(t, vs))
    BY <1>3 DEF Referred
  <2>2. \A t, vs : NestedIn(Referred(Evaluated(t, vs)))' = NestedIn(Referred(Evaluated(t, vs)))
    BY <1>5, <2>1
  <2> QED BY <1>3, <2>2 DEF InvolvedIn
<1> QED BY <1>3, <1>4, <1>5, <1>6

LEMMA ScopeCleanStays ==
  ASSUME NEW f, ScopeClean(f), UNCHANGED <<matches, globals>>
  PROVE  ScopeClean(f)'
<1>1. \A t, vs : Clean(t, vs)' = Clean(t, vs)
  BY InvolvedStays DEF Clean, Fails
<1>2. \A v : CleanVariable(v)' = CleanVariable(v)
  BY <1>1 DEF CleanVariable
<1> QED BY <1>2, InvolvedStays DEF ScopeClean

(* A step that finds the calls clean, and does not fail for an extension *)
LEMMA StillClean ==
  ASSUME UNCHANGED <<matches, globals, root>>,
         NoForms => \A i \in 1 .. Len(frames') : \E g : g = frames'[i] /\ ScopeClean(g),
         status' = "ok" /\ NoForms => \A v \in Involved : ~Fails(v),
         status' \in {"RenderingError", "Aborted"} => \E v \in Involved : Fails(v)
  PROVE  FatalInv'
<1>1. Involved' = Involved
  BY InvolvedStays DEF Involved
<1>2. NoForms' = NoForms
  BY <1>1 DEF NoForms
<1>3. ScopesClean'
  <2>1. ASSUME NoForms PROVE (\A i \in 1 .. Len(frames) : ScopeClean(frames[i]))'
    BY <2>1, ScopeCleanStays
  <2> QED BY <1>2, <2>1 DEF ScopesClean
<1>4. FailureIsFatal'
  BY <1>1, <1>2 DEF FailureIsFatal, NoForms
<1> QED BY <1>3, <1>4 DEF FatalInv

(* Assigning a clean variable leaves a clean scope. *)
LEMMA AssignClean ==
  ASSUME DataInv, NEW f, FrameOK(f), f.todo \notin {None, <<>>}, ScopeClean(f),
         CleanVariable(Head(f.todo)), NEW text
  PROVE  ScopeClean(Assign(f, text))
<1> DEFINE head == Head(f.todo)
           a == Assign(f, text)
<1>1. a.trigger = f.trigger /\ a.vars = f.vars
  BY AssignOK
<1>2. DOMAIN a.scope = DOMAIN f.scope \cup {head.name}
  <2>1. a.scope = Bind(f.scope, head.name, text)
    BY AssignIs, Zenon
  <2>2. DOMAIN Bind(f.scope, head.name, text) = DOMAIN f.scope \cup {head.name}
    BY DEF Bind
  <2> QED BY <2>1, <2>2, Zenon
<1>3. head \in Evaluated(f.trigger, f.vars)
  <2>1. Agenda(f) /\ f.todo # <<>>
    BY DEF FrameOK
  <2>2. f.todo \in Seq(ToSet(f.todo))
    BY <2>1 DEF Agenda, IsList
  <2>3. head = f.todo[1] /\ 1 \in 1 .. Len(f.todo)
    BY <2>1, <2>2, EmptySeq, LenProperties
  <2> QED BY <2>1, <2>3 DEF Agenda
<1>4. ASSUME NEW v \in Evaluated(f.trigger, f.vars), v.name = head.name PROVE v = head
  BY <1>3, <1>4, EvaluatedFacts DEF FrameOK
<1> HIDE DEF head, a
<1>5. CleanVariable(head)
  BY DEF head
<1>6. ASSUME NEW v \in Evaluated(f.trigger, f.vars), v.name \in DOMAIN a.scope PROVE CleanVariable(v)
  BY <1>2, <1>4, <1>5, <1>6 DEF ScopeClean
<1> QED BY <1>1, <1>6 DEF ScopeClean, a

LEMMA NewScopeClean ==
  ASSUME NEW t, NEW groups
  PROVE  ScopeClean(Frame(t, groups))
<1>1. DOMAIN Frame(t, groups).scope = {}
  BY DEF Frame
<1> QED BY <1>1 DEF ScopeClean


LEMMA FailClean ==
  ASSUME FatalInv, status \notin {"ok"}, NEW error, Fail(error), error # "ok",
         error \in {"RenderingError", "Aborted"} => \E v \in Involved : Fails(v)
  PROVE  FatalInv'
<1>1. UNCHANGED <<matches, globals, root, frames>> /\ status' = error
  BY DEF Fail
<1>2. NoForms => \A i \in 1 .. Len(frames') : \E g : g = frames'[i] /\ ScopeClean(g)
  BY <1>1 DEF FatalInv, ScopesClean
<1> QED BY <1>1, <1>2, StillClean

(* The match of a call that ends is clean, and so is the variable it is for. *)
LEMMA ReturnClean ==
  ASSUME IInv, FatalInv, status = "rendering", NEW text, Return(text),
         NoForms => \A v \in Evaluated(Top.trigger, Top.vars) : CleanVariable(v)
  PROVE  FatalInv'
<1>1. frames # <<>> /\ StackInv /\ DataInv /\ UNCHANGED <<matches, globals, root>>
  BY DEF IInv, StatusInv, Return
<1>2. NoForms => Clean(Top.trigger, Top.vars)
  BY CleanMatch
<1>3. Depth \in Nat /\ Depth > 0 /\ Top = frames[Depth] /\ Depth = Len(frames)
  BY <1>1, StackTyped DEF Depth
<1>4. CASE Depth = 1
  <2>1. frames' = <<>> /\ status' = "ok"
    BY <1>4 DEF Return
  <2>2. Len(frames') = 0 /\ 1 .. 0 = {}
    BY <2>1
  <2>3. NoForms => \A v \in Involved : ~Fails(v)
    BY <1>1, <1>2, <1>3, <1>4 DEF StackInv, Clean, Involved
  <2> QED BY <1>1, <2>1, <2>2, <2>3, StillClean
<1>5. CASE Depth # 1
  <2> DEFINE caller == frames[Depth - 1]
             f == Assign(caller, text)
  <2>1. frames' = Append(SubSeq(frames, 1, Depth - 2), f) /\ status' = status
    BY <1>5 DEF Return, AssignMatch
  <2>2. /\ Depth - 1 \in 1 .. Depth - 1 /\ Depth - 1 \in 1 .. Depth /\ (Depth - 1) + 1 = Depth
        /\ Depth \in 2 .. Depth
    BY <1>3, <1>5
  <2>3. FrameOK(caller) /\ AtMatch(caller, Top.trigger) /\ Top.trigger \in Triggers
          /\ Top.vars = matches[Top.trigger].vars
    <3>1. FrameOK(caller) /\ FrameOK(Top)
      BY <1>1, <1>3, <2>2 DEF StackInv
    <3>2. AtMatch(caller, Top.trigger)
      <4>1. AtMatch(frames[Depth - 1], frames[(Depth - 1) + 1].trigger)
        BY <1>1, <1>3, <2>2 DEF StackInv
      <4> QED BY <4>1, <1>3, <2>2
    <3>3. Top.vars = matches[Top.trigger].vars
      BY <1>1, <1>3, <2>2 DEF StackInv
    <3> QED BY <3>1, <3>2, <3>3 DEF FrameOK
  <2> DEFINE head == Head(caller.todo)
  <2> HIDE DEF caller, f
  <2>4. caller.todo \notin {None, <<>>} /\ head.kind = "match" /\ get_trigger_from_var(head) = Top.trigger
    BY <2>3 DEF AtMatch
  <2>5. NoForms => CleanVariable(head)
    <3>1. ~Fails(head)
      BY <2>4 DEF Fails
    <3> HIDE DEF head
    <3> QED BY <1>2, <2>3, <2>4, <3>1 DEF CleanVariable
  <2>6. NoForms => ScopeClean(f)
    <3>1. NoForms => ScopeClean(caller)
      BY <1>3, <2>2 DEF FatalInv, ScopesClean, caller
    <3> QED BY <1>1, <2>3, <2>4, <2>5, <3>1, AssignClean DEF f
  <2>7. /\ Len(frames') = Depth - 1 /\ frames'[Depth - 1] = f
        /\ \A i \in 1 .. Depth - 2 : frames'[i] = frames[i]
    BY <1>1, <1>5, <2>1, PopFacts
  <2>8. ASSUME NoForms, NEW i \in 1 .. Len(frames') PROVE \E g : g = frames'[i] /\ ScopeClean(g)
    <3>1. CASE i = Depth - 1
      BY <2>6, <2>7, <2>8, <3>1
    <3>2. CASE i # Depth - 1
      <4>1. i \in 1 .. Depth - 2 /\ i \in 1 .. Len(frames)
        BY <1>3, <2>7, <2>8, <3>2
      <4> QED BY <2>7, <2>8, <4>1 DEF FatalInv, ScopesClean
    <3> QED BY <3>1, <3>2
  <2> QED BY <1>1, <2>1, <2>8, StillClean
<1> QED BY <1>4, <1>5

LEMMA FinishClean ==
  ASSUME IInv, FatalInv, status = "rendering", NEW text, Finish(text),
         NoForms => \A v \in Evaluated(Top.trigger, Top.vars) : CleanVariable(v)
  PROVE  FatalInv'
<1>1. Fail("panic") \/ Return(ApplyCasing(text))
  BY DEF Finish
<1> QED BY <1>1, FailClean, ReturnClean

LEMMA ReplaceClean ==
  ASSUME IInv, FatalInv, Replace
  PROVE  FatalInv'
<1> DEFINE body == matches[Top.trigger].body
           text == render_variables(body, Top.trigger, Top.scope)
<1>1. status = "rendering" /\ Top.todo = <<>> /\ Top.todo # None
  BY NoneIsNoList DEF Replace
<1>2. Mentions(body) \cup (Needed(Top.trigger, Top.vars) \ {Body}) \subseteq DOMAIN Top.scope
  BY <1>1, Injects
<1>3. Finish(text)
  BY <1>2 DEF Replace
<1>4. frames # <<>> /\ StackInv /\ DataInv
  BY <1>1 DEF IInv, StatusInv
<1>5. Depth \in Nat /\ Depth > 0 /\ Top = frames[Depth] /\ Depth = Len(frames) /\ FrameOK(Top)
  BY <1>4, StackTyped DEF Depth
<1>6. ASSUME NEW v \in Evaluated(Top.trigger, Top.vars) PROVE v.name \in DOMAIN Top.scope
  <2>1. PICK n \in Needed(Top.trigger, Top.vars) \ {Body} : v = Definition(Top.vars, n)
    BY DEF Evaluated
  <2>2. n \in LocalNames(Top.vars) \cup DOMAIN globals
    <3>1. n \in DOMAIN Graph(Top.trigger, Top.vars) /\ n # Body
      BY DEF Needed
    <3>2. Top.vars \in Seq(AnyVariable)
      BY <1>5 DEF FrameOK
    <3> QED BY <1>4, <3>1, <3>2, BodyNode
  <2>3. v.name = n
    <3>1. Top.vars \in Seq(AnyVariable)
      BY <1>5 DEF FrameOK
    <3> QED BY <1>4, <2>1, <2>2, <3>1, LookUp
  <2> QED BY <1>2, <2>3
<1>7. NoForms => ScopeClean(Top)
  BY <1>5 DEF FatalInv, ScopesClean
<1>8. NoForms => \A v \in Evaluated(Top.trigger, Top.vars) : CleanVariable(v)
  BY <1>6, <1>7 DEF ScopeClean
<1> HIDE DEF text
<1> QED BY <1>1, <1>3, <1>8, FinishClean

LEMMA CalculateClean ==
  ASSUME IInv, FatalInv, Calculate
  PROVE  FatalInv'
<1>1. Evaluates /\ status = "rendering" /\ Current.kind # "match"
  BY DEF Calculate, Evaluates
<1>2. /\ Current.uses \subseteq DOMAIN Top.scope
      /\ Current \in Evaluated(Top.trigger, Top.vars)
  BY <1>1, Injects
<1>3. frames # <<>> /\ StackInv /\ DataInv
  BY <1>1 DEF IInv, StatusInv
<1>4. /\ Depth \in Nat /\ Depth > 0 /\ Top = frames[Depth] /\ Depth = Len(frames) /\ FrameOK(Top)
      /\ DOMAIN frames = 1 .. Depth
  BY <1>3, StackTyped DEF Depth
<1>5. Current \in Involved
  BY <1>2, <1>3, <1>4, FramesInvolved
<1>6. CASE Form
  <2>1. ~NoForms /\ Return(<<>>)
    BY <1>5, <1>6 DEF NoForms, Form
  <2> QED BY <1>1, <2>1, ReturnClean
<1>7. CASE Extension
  <2>1. PICK env, calculated :
          /\ env \in convert_to_env_variables(Top.scope) /\ calculated = calculate(Current, Top.scope, env)
          /\ \/ /\ calculated.result = "Success"
                /\ frames' = [frames EXCEPT ![Depth] = Assign(@, calculated.output)]
                /\ UNCHANGED <<matches, globals, root, style, status, output>>
             \/ calculated.result = "Error" /\ Fail("RenderingError")
             \/ calculated.result \in {"Aborted", "panic"} /\ Fail(calculated.result)
    BY <1>7 DEF Extension
  <2>2. Current \in AnyVariable /\ Current.kind \notin {"match", "form"}
    BY <1>1, <1>2, <1>3, <1>4, <1>7, EvaluatedFacts DEF FrameOK, Extension
  <2>3. /\ calculated.result \in {"Error", "Aborted"} => Fails(Current)
        /\ calculated.result = "Success" => ~Fails(Current)
    BY <2>1, <2>2, CalculateFails
  <2>4. CASE calculated.result = "Error" /\ Fail("RenderingError")
    BY <1>1, <1>5, <2>3, <2>4, FailClean
  <2>5. CASE calculated.result = "Aborted" /\ Fail("Aborted")
    BY <1>1, <1>5, <2>3, <2>5, FailClean
  <2>6. CASE calculated.result = "panic" /\ Fail("panic")
    BY <1>1, <2>6, FailClean
  <2>7. ASSUME calculated.result = "Success",
               frames' = [frames EXCEPT ![Depth] = Assign(@, calculated.output)],
               UNCHANGED <<matches, globals, root, style, status, output>>
        PROVE  FatalInv'
    <3> DEFINE f == Assign(Top, calculated.output)
    <3>1. CleanVariable(Current)
      BY <1>1, <2>3, <2>7 DEF CleanVariable
    <3>2. NoForms => ScopeClean(Top)
      BY <1>4 DEF FatalInv, ScopesClean
    <3>3. Top.todo \notin {None, <<>>} /\ Head(Top.todo) = Current
      BY <1>1 DEF Evaluates, Current
    <3>4. NoForms => ScopeClean(f)
      BY <1>3, <1>4, <3>1, <3>2, <3>3, AssignClean
    <3>5. frames' = [frames EXCEPT ![Depth] = f]
      <4> HIDE DEF f
      <4>1. [frames EXCEPT ![Depth] = Assign(@, calculated.output)]
              = [frames EXCEPT ![Depth] = Assign(frames[Depth], calculated.output)]
        OBVIOUS
      <4> QED BY <1>4, <2>7, <4>1 DEF f
    <3> HIDE DEF f
    <3>6. StackInv'
      <4>1. IInv'
        BY <1>1, <1>7, ExtensionInv
      <4> QED BY <4>1 DEF IInv
    <3>7. DOMAIN frames' = 1 .. Depth
      BY <1>4, <3>5
    <3>8. Len(frames') = Depth
      <4>1. frames' \in Seq(ToSet(frames'))
        BY <3>6 DEF StackInv, IsList
      <4>2. Len(frames') \in Nat /\ DOMAIN frames' = 1 .. Len(frames')
        BY <4>1, LenProperties
      <4> HIDE DEF f
      <4> QED BY <1>4, <3>7, <4>2
    <3>9. ASSUME NoForms, NEW i \in 1 .. Len(frames') PROVE \E g : g = frames'[i] /\ ScopeClean(g)
      <4>1. frames'[i] = IF i = Depth THEN f ELSE frames[i]
        BY <1>4, <3>5, <3>8
      <4>2. i \in 1 .. Len(frames)
        BY <1>4, <3>8
      <4> QED BY <3>4, <3>9, <4>1, <4>2 DEF FatalInv, ScopesClean
    <3> QED BY <1>1, <2>7, <3>9, StillClean
  <2> QED BY <2>1, <2>4, <2>5, <2>6, <2>7
<1> QED BY <1>1, <1>2, <1>6, <1>7 DEF Calculate


LEMMA RenderClean ==
  ASSUME IInv, FatalInv, render_template
  PROVE  FatalInv'
<1>1. CASE Plain
  <2>1. status = "rendering" /\ Mentions(matches[Top.trigger].body) = {}
          /\ Finish(render_variables(matches[Top.trigger].body, Top.trigger, <<>>))
    BY <1>1 DEF Plain, Starts
  <2>2. Evaluated(Top.trigger, Top.vars) = {}
    BY <2>1 DEF Evaluated
  <2> QED BY <2>1, <2>2, FinishClean
<1>2. CASE Ordered
  <2>1. PICK todo : frames' = [frames EXCEPT ![Depth].todo = todo]
    BY <1>2 DEF Ordered
  <2>2. status = "rendering" /\ UNCHANGED <<matches, globals, root, style, status, output>>
    BY <1>2 DEF Ordered, Starts
  <2>3. frames # <<>> /\ StackInv
    BY <2>2 DEF IInv, StatusInv
  <2>4. /\ Depth \in Nat /\ Depth > 0 /\ Top = frames[Depth] /\ Depth = Len(frames) /\ FrameOK(Top)
        /\ DOMAIN frames = 1 .. Depth
    BY <2>3, StackTyped DEF Depth
  <2> DEFINE f == [Top EXCEPT !.todo = todo]
  <2>5. f.trigger = Top.trigger /\ f.vars = Top.vars /\ f.scope = Top.scope
    <3>1. PICK t, vs, td, sc : Top = [trigger |-> t, vars |-> vs, todo |-> td, scope |-> sc]
      BY <2>4, Zenon DEF FrameOK
    <3> QED BY <3>1
  <2>6. frames' = [frames EXCEPT ![Depth] = f]
    <3>1. [frames EXCEPT ![Depth].todo = todo] = [frames EXCEPT ![Depth] = [frames[Depth] EXCEPT !.todo = todo]]
      OBVIOUS
    <3> QED BY <2>1, <2>4, <3>1
  <2> HIDE DEF f
  <2>7. NoForms => ScopeClean(f)
    <3>1. NoForms => ScopeClean(Top)
      BY <2>4 DEF FatalInv, ScopesClean
    <3> QED BY <2>5, <3>1 DEF ScopeClean
  <2>8. Len(frames') = Depth
    <3>1. IInv'
      BY <1>2, OrderedInv
    <3>2. frames' \in Seq(ToSet(frames'))
      BY <3>1 DEF IInv, StackInv, IsList
    <3>3. Len(frames') \in Nat /\ DOMAIN frames' = 1 .. Len(frames')
      BY <3>2, LenProperties
    <3>4. DOMAIN frames' = 1 .. Depth
      BY <2>4, <2>6
    <3>5. Depth \in Nat /\ 1 .. Len(frames') = 1 .. Depth
      BY <2>4, <3>3, <3>4
    <3>6. \A m, n \in Nat : 1 .. m = 1 .. n => m = n
      OBVIOUS
    <3> QED BY <3>3, <3>5, <3>6
  <2>9. ASSUME NoForms, NEW i \in 1 .. Len(frames') PROVE \E g : g = frames'[i] /\ ScopeClean(g)
    <3>1. frames'[i] = IF i = Depth THEN f ELSE frames[i]
      BY <2>4, <2>6, <2>8
    <3>2. i \in 1 .. Len(frames)
      BY <2>4, <2>8
    <3> QED BY <2>7, <2>9, <3>1, <3>2 DEF FatalInv, ScopesClean
  <2> QED BY <2>2, <2>9, StillClean
<1>3. CASE NotOrdered
  <2>1. status = "rendering" /\ (Fail("CircularDependency") \/ Fail("MissingVariable"))
    BY <1>3 DEF NotOrdered, Starts
  <2> QED BY <2>1, FailClean
<1>4. CASE Overflow
  <2>1. status = "rendering" /\ Fail("overflow")
    BY <1>4 DEF Overflow, Evaluates
  <2> QED BY <2>1, FailClean
<1>5. CASE NoSubMatch
  <2>1. status = "rendering" /\ Fail("MissingSubMatch")
    BY <1>5 DEF NoSubMatch, Evaluates
  <2> QED BY <2>1, FailClean
<1>6. ASSUME NEW t \in Triggers, Nest(t) PROVE FatalInv'
  <2> DEFINE f == Frame(t, <<>>)
  <2>1. status = "rendering" /\ frames' = Append(frames, f)
          /\ UNCHANGED <<matches, globals, root, style, status, output>>
    BY <1>6 DEF Nest, Nests, Evaluates
  <2>2. frames # <<>> /\ StackInv
    BY <2>1 DEF IInv, StatusInv
  <2>3. ScopeClean(f)
    BY NewScopeClean
  <2> HIDE DEF f
  <2>4. /\ Len(frames') = Depth + 1 /\ frames'[Depth + 1] = f
        /\ \A i \in 1 .. Depth : frames'[i] = frames[i]
    BY <2>1, <2>2, PushFacts
  <2>5. Depth \in Nat /\ Depth = Len(frames)
    BY <2>2, StackTyped DEF Depth
  <2>6. ASSUME NoForms, NEW i \in 1 .. Len(frames') PROVE \E g : g = frames'[i] /\ ScopeClean(g)
    <3>1. CASE i = Depth + 1
      BY <2>3, <2>4, <3>1
    <3>2. CASE i # Depth + 1
      <4>1. i \in 1 .. Depth /\ i \in 1 .. Len(frames)
        BY <2>4, <2>5, <3>2
      <4> QED BY <2>4, <2>6, <4>1 DEF FatalInv, ScopesClean
    <3> QED BY <3>1, <3>2
  <2> QED BY <2>1, <2>6, StillClean
<1> QED BY <1>1, <1>2, <1>3, <1>4, <1>5, <1>6, CalculateClean, ReplaceClean DEF render_template

LEMMA BeginClean ==
  ASSUME NEW t, NEW groups, Begin(t, groups)
  PROVE  FatalInv'
<1> DEFINE f == Frame(t, groups)
<1>1. frames' = <<f>> /\ UNCHANGED <<matches, globals>> /\ status' = "rendering"
  BY DEF Begin
<1>2. ScopeClean(f)
  BY NewScopeClean
<1> HIDE DEF f
<1>3. \A i \in 1 .. Len(frames') : \E g : g = frames'[i] /\ ScopeClean(g)
  BY <1>1, <1>2
<1>4. ScopesClean'
  BY <1>1, <1>3, ScopeCleanStays DEF ScopesClean
<1> QED BY <1>1, <1>4 DEF FatalInv, FailureIsFatal

LEMMA CleanStep == IInv /\ FatalInv /\ [Next]_vars => FatalInv'
<1> SUFFICES ASSUME IInv, FatalInv, [Next]_vars PROVE FatalInv'
  OBVIOUS
<1>1. CASE NotFound
  <2>1. UNCHANGED <<matches, globals, root, frames>> /\ status' \in {"none", "NotFound"}
    BY <1>1 DEF NotFound
  <2> QED BY <2>1, StillClean DEF FatalInv, ScopesClean
<1>2. CASE UNCHANGED vars
  <2>1. UNCHANGED <<matches, globals, root, frames, status>>
    BY <1>2 DEF vars
  <2> QED BY <2>1, StillClean DEF FatalInv, ScopesClean, FailureIsFatal, NoForms
<1>3. CASE render_template
  BY <1>3, RenderClean
<1>4. ASSUME NEW t \in Triggers, FoundByTrigger(t) \/ FoundByRegex(t) PROVE FatalInv'
  <2>1. \E groups : Begin(t, groups)
    BY <1>4 DEF FoundByTrigger, FoundByRegex
  <2> QED BY <2>1, BeginClean
<1> QED BY <1>1, <1>2, <1>3, <1>4 DEF Next

(* An expansion in which a variable failed never succeeds, however deep the  *)
(* match it is in is nested (unless a form ended one of the matches), and    *)
(* one that fails for an extension has a variable that fails: what is in a   *)
(* scope has succeeded, with all that it took.                                *)
THEOREM FailuresAreFatal == Spec => []FailureIsFatal
<1>1. Init => FatalInv
  <2> SUFFICES ASSUME Init PROVE FatalInv
    OBVIOUS
  <2>1. frames = <<>> /\ status = "typed" /\ 1 .. Len(<<>>) = {}
    BY DEF Init
  <2> QED BY <2>1 DEF FatalInv, ScopesClean, FailureIsFatal
<1>2. FatalInv => FailureIsFatal
  BY DEF FatalInv
<1> QED BY <1>1, <1>2, InitInv, StepInv, CleanStep, PTL DEF Spec


(* The list of a finite set has its elements. *)
LEMMA SetToSeqFacts ==
  ASSUME NEW S, IsFiniteSet(S)
  PROVE  SetToSeq(S) \in [1 .. Cardinality(S) -> S]
<1> DEFINE D == 1 .. Cardinality(S)
<1>1. ExistsBijection(D, S)
  BY FS_CardinalityType
<1> HIDE DEF D
<1>2. PICK f : f \in Bijection(D, S)
  BY <1>1 DEF ExistsBijection
<1>3. f \in [D -> S] /\ IsInjective(f)
  BY <1>2 DEF Bijection, Injection, IsInjective
<1>4. \E g \in [D -> S] : IsInjective(g)
  BY <1>3
<1> QED BY <1>4, Zenon DEF SetToSeq, D

LEMMA Counts == /\ Cardinality(Names) \in Nat /\ Cardinality(Triggers) \in Nat
BY FS_CardinalityType, FiniteAssumption

(* A text depends on the values of the names in it. *)
LEMMA RenderAgrees ==
  ASSUME NEW body \in Seq(Names \cup {Own}), NEW t, NEW s1, NEW s2,
         \A n \in Mentions(body) : s1[n] = s2[n]
  PROVE  render_variables(body, t, s1) = render_variables(body, t, s2)
<1>1. ASSUME NEW i \in DOMAIN body, body[i] # Own PROVE s1[body[i]] = s2[body[i]]
  BY <1>1 DEF Mentions
<1>2. [i \in DOMAIN body |-> IF body[i] = Own THEN Piece(t) ELSE s1[body[i]]]
        = [i \in DOMAIN body |-> IF body[i] = Own THEN Piece(t) ELSE s2[body[i]]]
  BY <1>1
<1> QED BY <1>2 DEF render_variables

-----------------------------------------------------------------------------
(* Two scopes that are the same to a variable, and two environments *)
Alike(v, s1, s2, e1, e2) ==
  /\ \A m \in v.uses : s1[m] = s2[m]
  /\ None \notin DOMAIN e1 \cup DOMAIN e2
  /\ \A key \in Reads(v) : Read(e1, key) = Read(e2, key)

LEMMA InjectedAgrees ==
  ASSUME NEW v \in AnyVariable, NEW s1, NEW s2, \A m \in v.uses : s1[m] = s2[m]
  PROVE  Injected(v, s1) = Injected(v, s2)
<1> DEFINE names == SetToSeq(v.uses)
<1>1. IsFiniteSet(v.uses)
  BY VariableFacts, FiniteAssumption, FS_Subset
<1>2. \A i \in DOMAIN names : names[i] \in v.uses
  BY <1>1, SetToSeqFacts
<1> HIDE DEF names
<1>3. [i \in DOMAIN names |-> s1[names[i]]] = [i \in DOMAIN names |-> s2[names[i]]]
  BY <1>2
<1> QED BY <1>3 DEF Injected, names

LEMMA StdoutAgrees ==
  ASSUME NEW v \in AnyVariable, NEW s1, NEW s2, NEW e1, NEW e2, Alike(v, s1, s2, e1, e2),
         NEW c, c.reads \in Reads(v) \cup {None}
  PROVE  Stdout(v, c, s1, e1) = Stdout(v, c, s2, e2)
<1>1. Injected(v, s1) = Injected(v, s2)
  BY InjectedAgrees DEF Alike
<1>2. Read(e1, c.reads) = Read(e2, c.reads)
  BY DEF Alike, Read
<1>3. CASE c.writes = "text"
  BY <1>1, <1>2, <1>3 DEF Stdout
<1>4. CASE c.writes # "text"
  BY <1>4 DEF Stdout
<1> QED BY <1>3, <1>4

(* What a variable gives depends on what it injects and what its command reads. *)
LEMMA CalculateAgrees ==
  ASSUME NEW v \in AnyVariable, v.kind \notin {"match", "form"},
         NEW s1, NEW s2, NEW e1, NEW e2, Alike(v, s1, s2, e1, e2)
  PROVE  calculate(v, s1, e1) = calculate(v, s2, e2)
<1> DEFINE cmd == Param(v.params, "cmd")
           args == Flag(v.params, "args", <<>>)
<1>1. Injected(v, s1) = Injected(v, s2)
  BY InjectedAgrees DEF Alike
<1>2. cmd \in Command(Keys(Names)) \cup {None} /\ args \in Seq(Command(Keys(Names)) \cup {NotString})
  BY ParamFacts
<1> HIDE DEF cmd, args
<1>3. Reads(v) = {c.reads : c \in ({cmd} \cup ToSet(args)) \ {None, NotString}} \ {None}
  BY DEF Reads, cmd, args
<1>4. CASE v.kind = "date"
  BY <1>1, <1>4, CalculateKinds DEF date
<1>5. CASE v.kind = "echo"
  <2>1. echo(v, s1) = echo(v, s2)
    <3>1. CASE Param(v.params, "echo") = None
      BY <3>1, NoneAssumption DEF echo
    <3>2. CASE Param(v.params, "echo") # None /\ Param(v.params, "echo") = ""
      BY <3>2 DEF echo
    <3>3. CASE Param(v.params, "echo") # None /\ Param(v.params, "echo") # ""
      BY <3>3, <1>1 DEF echo
    <3> QED BY <3>1, <3>2, <3>3
  <2> QED BY <1>5, <2>1, CalculateKinds
<1>6. CASE v.kind = "shell"
  <2>1. cmd # None => Stdout(v, cmd, s1, e1) = Stdout(v, cmd, s2, e2)
    <3>1. SUFFICES ASSUME cmd # None PROVE cmd.reads \in Reads(v) \cup {None}
      BY StdoutAgrees
    <3>2. cmd \notin {None, NotString}
      BY <1>2, <3>1, NoneAssumption
    <3> QED BY <1>3, <3>2
  <2>2. shell(v, s1, e1) = shell(v, s2, e2)
    <3>1. CASE cmd = None
      BY <3>1 DEF shell, cmd
    <3>2. CASE cmd # None
      BY <3>2, <2>1 DEF shell, cmd
    <3> QED BY <3>1, <3>2
  <2> QED BY <1>6, <2>2, CalculateKinds
<1>7. CASE v.kind = "script"
  <2>1. CASE Param(v.params, "args") = None
    BY <1>7, <2>1, CalculateKinds DEF script
  <2>2. CASE Param(v.params, "args") # None
    <3>1. args = v.params.args
      BY <2>2, ParamFacts DEF args, Flag
    <3>2. CASE Strings(args) = {}
      BY <1>7, <2>2, <3>1, <3>2, CalculateKinds DEF script
    <3>3. CASE Strings(args) # {}
      <4> DEFINE p == Program(args)
      <4>1. p \in Command(Keys(Names))
        BY <1>2, <3>3, ProgramFacts
      <4>2. p \in ToSet(args)
        <5>1. Strings(args) \in SUBSET Nat
          BY <1>2, LenProperties DEF Strings
        <5> DEFINE S == Strings(args)
        <5>2. \E n \in S : \A m \in S : n <= m
          <6> HIDE DEF S
          <6> QED BY <3>3, <5>1, MinExists DEF S
        <5>3. Min(S) \in S
          <6> HIDE DEF S
          <6> QED BY <5>2 DEF Min
        <5>4. Min(S) \in DOMAIN args
          BY <5>3 DEF Strings
        <5> HIDE DEF S
        <5>5. p = args[Min(S)]
          BY DEF Program, S
        <5> HIDE DEF p
        <5> QED BY <1>2, <5>4, <5>5 DEF ToSet
      <4> HIDE DEF p
      <4>3. p.reads \in Reads(v) \cup {None}
        <5>1. p \notin {None, NotString}
          BY <4>1, NoneAssumption
        <5> QED BY <1>3, <4>2, <5>1
      <4>4. Stdout(v, p, s1, e1) = Stdout(v, p, s2, e2)
        BY <4>3, StdoutAgrees
      <4> DEFINE runs == p.starts /\ ((p.succeeds /\ ~p.complains) \/ Flag(v.params, "ignore_error", FALSE))
      <4>5. \A s, e : script(v, s, e) = IF runs THEN Success(Stdout(v, p, s, e)) ELSE Error
        BY <2>2, <3>1, <3>3 DEF script, p
      <4> HIDE DEF runs
      <4>6. script(v, s1, e1) = script(v, s2, e2)
        BY <4>4, <4>5
      <4> QED BY <1>7, <4>6, CalculateKinds
    <3> QED BY <3>2, <3>3
  <2> QED BY <2>1, <2>2
<1>8. CASE v.kind = "random"
  BY <1>1, <1>8, CalculateKinds DEF random
<1>9. CASE v.kind = "mock"
  BY <1>9, CalculateKinds
<1> QED BY <1>4, <1>5, <1>6, <1>7, <1>8, <1>9, VariableFacts DEF VarType

-----------------------------------------------------------------------------
(* Local variables in an order *)

(* Of the nodes of an order one comes first. *)
LEMMA FirstNode ==
  ASSUME NEW t, NEW vs, NEW s \in Seq(Needed(t, vs)), IsOrder(s, t, vs),
         NEW S, S \subseteq Needed(t, vs), S # {}
  PROVE  \E n \in S : Graph(t, vs)[n] \cap S = {}
<1> DEFINE I == {i \in 1 .. Len(s) : s[i] \in S}
<1>1. Len(s) \in Nat /\ DOMAIN s = 1 .. Len(s) /\ ToSet(s) = Needed(t, vs)
  BY LenProperties DEF IsOrder
<1>2. I # {} /\ I \in SUBSET Nat
  BY <1>1 DEF ToSet
<1>3. PICK i \in I : \A j \in I : i <= j
  <2> HIDE DEF I
  <2> QED BY <1>2, MinExists
<1>4. ASSUME NEW d \in Graph(t, vs)[s[i]] \cap S PROVE FALSE
  <2>1. PICK j \in 1 .. i - 1 : s[j] = d
    BY DEF IsOrder
  <2>2. j \in I /\ ~(i <= j)
    BY <1>1, <2>1
  <2> QED BY <1>3, <2>2
<1> QED BY <1>4

(* A match that can be ordered has no two variables with one name: the later *)
(* depends on the one before it, and so on down to the earlier, which has the *)
(* same node.                                                                 *)
LEMMA NoShadows ==
  ASSUME DataInv, NEW t, NEW vs \in Seq(AnyVariable),
         NEW s \in Seq(Needed(t, vs)), IsOrder(s, t, vs)
  PROVE  /\ LocalNames(vs) \subseteq Needed(t, vs)
         /\ \A p \in 1 .. Len(vs) : LastOf(vs, vs[p].name) = p
         /\ \A p \in 1 .. Len(vs) : p > 1 => vs[p - 1].name \in Graph(t, vs)[vs[p].name]
<1> DEFINE g == Graph(t, vs)
<1>1. Len(vs) \in Nat /\ DOMAIN vs = 1 .. Len(vs) /\ LocalNames(vs) = {vs[p].name : p \in 1 .. Len(vs)}
  BY LenProperties DEF LocalNames
<1>2. LocalNames(vs) \subseteq Needed(t, vs)
  <2>1. Len(s) \in Nat /\ Len(s) \in 1 .. Len(s) /\ DOMAIN s = 1 .. Len(s)
    BY LenProperties DEF IsOrder
  <2>2. LocalNames(vs) \subseteq Graph(t, vs)[s[Len(s)]]
    BY BodyNode DEF IsOrder
  <2>3. ASSUME NEW n \in LocalNames(vs) PROVE n \in ToSet(s)
    <3>1. PICK j \in 1 .. Len(s) - 1 : s[j] = n
      BY <2>1, <2>2 DEF IsOrder
    <3> QED BY <2>1, <3>1 DEF ToSet
  <2> QED BY <2>3 DEF IsOrder
<1>3. ASSUME NEW n \in LocalNames(vs), LastOf(vs, n) > 1
      PROVE  vs[LastOf(vs, n) - 1].name \in g[n]
  <2>1. g[n] = LocalUses(vs, LastOf(vs, n))
    BY BodyNode DEF Graph, generate_nodes
  <2> QED BY <1>3, <2>1 DEF LocalUses
<1>4. ASSUME NEW n \in LocalNames(vs)
      PROVE  /\ LastOf(vs, n) \in 1 .. Len(vs) /\ vs[LastOf(vs, n)].name = n
             /\ \A j \in 1 .. Len(vs) : vs[j].name = n => j <= LastOf(vs, n)
  <2> DEFINE S == {k \in 1 .. Len(vs) : vs[k].name = n}
  <2>1. S \in SUBSET (1 .. Len(vs)) /\ S # {}
    BY <1>1
  <2>2. \E m \in S : \A k \in S : k <= m
    <3> HIDE DEF S
    <3> QED BY <1>1, <2>1, MaxExists
  <2>3. \E k \in DOMAIN vs : vs[k].name = n /\ \A j \in DOMAIN vs : vs[j].name = n => j <= k
    BY <1>1, <2>2
  <2> QED BY <1>1, <2>3 DEF LastOf
<1>5. ASSUME NEW p \in 1 .. Len(vs), LastOf(vs, vs[p].name) # p PROVE FALSE
  <2> DEFINE S == {vs[i].name : i \in p .. Len(vs)}
  <2>1. vs[p].name \in S /\ S \subseteq LocalNames(vs)
    BY <1>1
  <2>2. ASSUME NEW n \in S PROVE LastOf(vs, n) > p
    <3>1. PICK i \in p .. Len(vs) : vs[i].name = n
      OBVIOUS
    <3>2. i <= LastOf(vs, n) /\ p <= i /\ LastOf(vs, n) \in Nat /\ i \in 1 .. Len(vs)
      BY <1>1, <1>4, <2>1, <3>1
    <3>3. CASE i = p
      BY <1>5, <3>1, <3>2, <3>3
    <3>4. CASE i # p
      BY <1>1, <3>2, <3>4
    <3> QED BY <3>3, <3>4
  <2>3. ASSUME NEW n \in S PROVE g[n] \cap S # {}
    <3>1. LastOf(vs, n) > p /\ n \in LocalNames(vs) /\ LastOf(vs, n) \in 1 .. Len(vs)
      BY <1>4, <2>1, <2>2
    <3>2. LastOf(vs, n) > 1 /\ LastOf(vs, n) - 1 \in p .. Len(vs)
      BY <1>1, <3>1
    <3>3. vs[LastOf(vs, n) - 1].name \in S
      BY <3>2
    <3> QED BY <1>3, <3>1, <3>2, <3>3
  <2> HIDE DEF S
  <2>4. S \subseteq Needed(t, vs) /\ S # {}
    BY <1>2, <2>1
  <2> QED BY <2>3, <2>4, FirstNode
<1>6. ASSUME NEW p \in 1 .. Len(vs), p > 1 PROVE vs[p - 1].name \in g[vs[p].name]
  <2>1. LastOf(vs, vs[p].name) = p /\ vs[p].name \in LocalNames(vs)
    BY <1>1, <1>5
  <2> QED BY <1>3, <1>6, <2>1
<1> QED BY <1>2, <1>5, <1>6

(* Before a local variable an order has the local variables before it. *)
LEMMA OrderLocals ==
  ASSUME DataInv, NEW t, NEW vs \in Seq(AnyVariable),
         NEW s \in Seq(Needed(t, vs)), IsOrder(s, t, vs),
         NEW i \in 1 .. Len(s), s[i] \in LocalNames(vs)
  PROVE  LocalNames(vs) \cap {s[j] : j \in 1 .. i - 1} = Earlier(vs, s[i])
<1> DEFINE M == Len(vs)
<1>1. /\ M \in Nat /\ DOMAIN vs = 1 .. M /\ LocalNames(vs) = {vs[p].name : p \in 1 .. M}
      /\ Len(s) \in Nat /\ DOMAIN s = 1 .. Len(s)
  BY LenProperties DEF LocalNames
<1>2. /\ \A p \in 1 .. M : LastOf(vs, vs[p].name) = p
      /\ \A p \in 1 .. M : p > 1 => vs[p - 1].name \in Graph(t, vs)[vs[p].name]
      /\ LocalNames(vs) \subseteq ToSet(s)
  <2>1. ToSet(s) = Needed(t, vs)
    BY DEF IsOrder
  <2>2. LocalNames(vs) \subseteq Needed(t, vs)
    BY NoShadows
  <2>3. \A p \in 1 .. M : LastOf(vs, vs[p].name) = p
    BY NoShadows
  <2>4. \A p \in 1 .. M : p > 1 => vs[p - 1].name \in Graph(t, vs)[vs[p].name]
    BY NoShadows
  <2> QED BY <2>1, <2>2, <2>3, <2>4
<1> DEFINE After(p, k) == \A j \in 1 .. Len(s) : s[j] = vs[k].name =>
                             \A q \in 1 .. p - 1 : \E h \in 1 .. j - 1 : s[h] = vs[q].name
           holds == {m \in 0 .. M : m > 0 => After(m, m)}
<1>3. \A m \in 0 .. M : m \in holds
  <2>1. 0 \in holds
    BY <1>1
  <2>2. ASSUME NEW m \in 0 .. M - 1, m \in holds PROVE m + 1 \in holds
    <3>1. m + 1 \in 1 .. M /\ (m + 1) - 1 = m
      BY <1>1
    <3> SUFFICES ASSUME NEW j \in 1 .. Len(s), s[j] = vs[m + 1].name, NEW q \in 1 .. m
                 PROVE  \E h \in 1 .. j - 1 : s[h] = vs[q].name
      BY <3>1
    <3>2. vs[m].name \in Graph(t, vs)[s[j]]
      <4>1. m + 1 > 1 /\ m \in 1 .. M
        BY <1>1
      <4> QED BY <1>2, <3>1, <4>1
    <3>3. PICK l \in 1 .. j - 1 : s[l] = vs[m].name
      BY <3>2 DEF IsOrder
    <3>4. l \in 1 .. Len(s)
      BY <1>1
    <3>5. CASE q = m
      BY <3>3, <3>5
    <3>6. CASE q # m
      <4>1. q \in 1 .. m - 1 /\ m > 0
        BY <1>1, <3>6
      <4>2. PICK h \in 1 .. l - 1 : s[h] = vs[q].name
        BY <2>2, <3>3, <3>4, <4>1
      <4> QED BY <4>2, <3>4, <1>1
    <3> QED BY <3>5, <3>6
  <2> HIDE DEF holds
  <2> QED BY <1>1, <2>1, <2>2, UpTo
<1>4. PICK p \in 1 .. M : s[i] = vs[p].name
  BY <1>1
<1>5. Earlier(vs, s[i]) = {vs[q].name : q \in 1 .. p - 1}
  BY <1>2, <1>4 DEF Earlier
<1>6. ASSUME NEW q \in 1 .. p - 1 PROVE \E j \in 1 .. i - 1 : s[j] = vs[q].name
  <2>1. p \in 0 .. M /\ p > 0
    BY <1>1
  <2> QED BY <1>3, <1>4, <2>1
<1>7. ASSUME NEW j \in 1 .. i - 1, NEW q \in 1 .. M, s[j] = vs[q].name PROVE q \in 1 .. p - 1
  <2>1. j \in 1 .. Len(s) /\ j # i
    BY <1>1
  <2>2. q # p
    BY <1>4, <1>7, <2>1 DEF IsOrder
  <2>3. ASSUME q > p PROVE FALSE
    <3>1. q \in 0 .. M /\ q > 0 /\ p \in 1 .. q - 1
      BY <1>1, <2>3
    <3>2. PICK h \in 1 .. j - 1 : s[h] = vs[p].name
      BY <1>3, <1>7, <2>1, <3>1
    <3>3. h \in 1 .. Len(s) /\ h # i
      BY <1>1, <3>2
    <3> QED BY <1>4, <3>2, <3>3 DEF IsOrder
  <2> QED BY <1>1, <2>2, <2>3
<1>8. \A q \in 1 .. p - 1 : vs[q].name \in LocalNames(vs)
  BY <1>1
<1> QED BY <1>1, <1>5, <1>6, <1>7, <1>8

-----------------------------------------------------------------------------
(* The recursive functions satisfy their equations *)

LEMMA ValuesSteps ==
  ASSUME NEW t, NEW vs, NEW sub
  PROVE  /\ Values(t, vs, sub)[0] = [n \in Names |-> <<>>]
         /\ \A k \in 0 .. Cardinality(Names) - 1 :
              Values(t, vs, sub)[k + 1] =
                [n \in Names |-> IF n \notin Needed(t, vs) \ {Body} THEN <<>>
                                 ELSE ValueOf(vs, sub, Values(t, vs, sub)[k], n)]
<1> DEFINE C == Cardinality(Names)
           Step(f, k) == [n \in Names |-> IF k = 0 \/ n \notin Needed(t, vs) \ {Body} THEN <<>>
                                          ELSE ValueOf(vs, sub, f[k - 1], n)]
           Solves(f, m) == f = [k \in 0 .. m |-> Step(f, k)]
           holds == {m \in 0 .. C : \E f : Solves(f, m)}
<1>1. C \in Nat
  BY Counts
<1>2. 0 \in holds
  <2> DEFINE f == [k \in 0 .. 0 |-> [n \in Names |-> <<>>]]
  <2>1. \A h : \A k \in 0 .. 0 : Step(h, k) = [n \in Names |-> <<>>]
    OBVIOUS
  <2> HIDE DEF Step
  <2>2. Solves(f, 0)
    BY <2>1
  <2> QED BY <1>1, <2>2
<1>3. ASSUME NEW m \in 0 .. C - 1, m \in holds PROVE m + 1 \in holds
  <2>1. m \in Nat /\ m + 1 \in 0 .. C
    BY <1>1
  <2>2. PICK f : Solves(f, m)
    BY <1>3
  <2> DEFINE h == [k \in 0 .. m + 1 |-> IF k = m + 1 THEN Step(f, m + 1) ELSE f[k]]
  <2>3. ASSUME NEW k \in 0 .. m + 1 PROVE Step(h, k) = Step(f, k)
    <3>1. CASE k = 0
      BY <3>1
    <3>2. CASE k # 0
      <4>1. h[k - 1] = f[k - 1]
        <5>1. k - 1 \in 0 .. m + 1 /\ k - 1 # m + 1
          BY <2>1, <3>2
        <5> HIDE DEF Step
        <5> QED BY <5>1
      <4> HIDE DEF h
      <4> QED BY <4>1
    <3> QED BY <3>1, <3>2
  <2>4. ASSUME NEW k \in 0 .. m PROVE f[k] = Step(f, k)
    <3> HIDE DEF Step
    <3> QED BY <2>2
  <2> HIDE DEF Step
  <2>5. h = [k \in 0 .. m + 1 |-> Step(f, k)]
    <3>1. \A k \in 0 .. m + 1 : k # m + 1 => k \in 0 .. m
      BY <2>1
    <3> QED BY <2>4, <3>1
  <2>6. Solves(h, m + 1)
    <3> HIDE DEF h
    <3> QED BY <2>3, <2>5
  <2> QED BY <2>1, <2>6
<1>4. \E f : Solves(f, C)
  <2> HIDE DEF holds
  <2>1. C \in holds
    BY <1>1, <1>2, <1>3, UpTo
  <2> QED BY <2>1 DEF holds
<1>5. Solves(Values(t, vs, sub), C)
  <2>1. Values(t, vs, sub) = CHOOSE f : Solves(f, C)
    BY DEF Values
  <2> HIDE DEF Solves
  <2> QED BY <1>4, <2>1
<1> DEFINE V == Values(t, vs, sub)
<1>6. V = [k \in 0 .. C |-> Step(V, k)]
  <2> HIDE DEF Step
  <2> QED BY <1>5
<1>7. \A k \in 0 .. C : V[k] = Step(V, k)
  <2> HIDE DEF Step, V, C
  <2> QED BY <1>6
<1>8. V[0] = [n \in Names |-> <<>>]
  <2>1. V[0] = Step(V, 0)
    <3> HIDE DEF Step, V, C
    <3> QED BY <1>1, <1>7
  <2> HIDE DEF V
  <2> QED BY <2>1
<1>9. ASSUME NEW k \in 0 .. C - 1
      PROVE  V[k + 1] = [n \in Names |-> IF n \notin Needed(t, vs) \ {Body} THEN <<>>
                                         ELSE ValueOf(vs, sub, V[k], n)]
  <2>1. V[k + 1] = Step(V, k + 1) /\ k + 1 # 0 /\ (k + 1) - 1 = k
    <3>1. k + 1 \in 0 .. C /\ k + 1 # 0 /\ (k + 1) - 1 = k
      BY <1>1
    <3> HIDE DEF Step, V, C
    <3> QED BY <1>7, <3>1
  <2> HIDE DEF V
  <2> QED BY <2>1
<1> QED BY <1>8, <1>9

LEMMA NestedSteps ==
  /\ \A t \in Triggers : Nested[0][t] = <<>>
  /\ \A k \in 1 .. Cardinality(Triggers) : \A t \in Triggers :
       Nested[k][t] = MeaningOf(t, matches[t].vars, Nested[k - 1])
<1> DEFINE N == Cardinality(Triggers)
           Step(f, k) == [t \in Triggers |-> IF k = 0 THEN <<>> ELSE MeaningOf(t, matches[t].vars, f[k - 1])]
           Solves(f, m) == f = [k \in 0 .. m |-> Step(f, k)]
           holds == {m \in 0 .. N : \E f : Solves(f, m)}
<1>1. N \in Nat
  BY Counts
<1>2. 0 \in holds
  <2> DEFINE f == [k \in 0 .. 0 |-> [t \in Triggers |-> <<>>]]
  <2>1. \A h : \A k \in 0 .. 0 : Step(h, k) = [t \in Triggers |-> <<>>]
    OBVIOUS
  <2> HIDE DEF Step
  <2>2. Solves(f, 0)
    BY <2>1
  <2> QED BY <1>1, <2>2
<1>3. ASSUME NEW m \in 0 .. N - 1, m \in holds PROVE m + 1 \in holds
  <2>1. m \in Nat /\ m + 1 \in 0 .. N
    BY <1>1
  <2>2. PICK f : Solves(f, m)
    BY <1>3
  <2> DEFINE h == [k \in 0 .. m + 1 |-> IF k = m + 1 THEN Step(f, m + 1) ELSE f[k]]
  <2>3. ASSUME NEW k \in 0 .. m + 1 PROVE Step(h, k) = Step(f, k)
    <3>1. CASE k = 0
      BY <3>1
    <3>2. CASE k # 0
      <4>1. h[k - 1] = f[k - 1]
        <5>1. k - 1 \in 0 .. m + 1 /\ k - 1 # m + 1
          BY <2>1, <3>2
        <5> HIDE DEF Step
        <5> QED BY <5>1
      <4> HIDE DEF h
      <4> QED BY <4>1
    <3> QED BY <3>1, <3>2
  <2>4. ASSUME NEW k \in 0 .. m PROVE f[k] = Step(f, k)
    <3> HIDE DEF Step
    <3> QED BY <2>2
  <2> HIDE DEF Step
  <2>5. h = [k \in 0 .. m + 1 |-> Step(f, k)]
    <3>1. \A k \in 0 .. m + 1 : k # m + 1 => k \in 0 .. m
      BY <2>1
    <3> QED BY <2>4, <3>1
  <2>6. Solves(h, m + 1)
    <3> HIDE DEF h
    <3> QED BY <2>3, <2>5
  <2> QED BY <2>1, <2>6
<1>4. \E f : Solves(f, N)
  <2> HIDE DEF holds
  <2>1. N \in holds
    BY <1>1, <1>2, <1>3, UpTo
  <2> QED BY <2>1 DEF holds
<1>5. Solves(Nested, N)
  <2>1. Nested = CHOOSE f : Solves(f, N)
    BY DEF Nested
  <2> HIDE DEF Solves
  <2> QED BY <1>4, <2>1
<1>6. \A k \in 0 .. N : Nested[k] = Step(Nested, k)
  <2>1. Nested = [k \in 0 .. N |-> Step(Nested, k)]
    <3> HIDE DEF Step
    <3> QED BY <1>5
  <2> HIDE DEF Step, N
  <2> QED BY <2>1
<1>7. ASSUME NEW t \in Triggers PROVE Nested[0][t] = <<>>
  <2>1. Nested[0] = Step(Nested, 0)
    BY <1>1, <1>6
  <2> QED BY <2>1
<1>8. ASSUME NEW k \in 1 .. N, NEW t \in Triggers
      PROVE  Nested[k][t] = MeaningOf(t, matches[t].vars, Nested[k - 1])
  <2>1. Nested[k] = Step(Nested, k) /\ k # 0
    <3>1. k \in 0 .. N /\ k # 0
      BY <1>1
    <3> HIDE DEF Step
    <3> QED BY <1>6, <3>1
  <2> QED BY <2>1
<1> QED BY <1>7, <1>8

-----------------------------------------------------------------------------
(* What a match means *)

LEMMA ValueDepends ==
  ASSUME NEW t, NEW vs, Mentions(matches[t].body) # {}, NEW n \in Needed(t, vs) \ {Body},
         NEW s1, NEW s2, \A u \in Referred(Evaluated(t, vs)) \cap Triggers : s1[u] = s2[u], NEW values
  PROVE  ValueOf(vs, s1, values, n) = ValueOf(vs, s2, values, n)
<1> DEFINE v == Definition(vs, n)
           u == get_trigger_from_var(v)
<1>1. CASE v.kind = "match"
  <2>1. v \in Evaluated(t, vs)
    BY DEF Evaluated
  <2>2. u \in Triggers => s1[u] = s2[u]
    BY <1>1, <2>1 DEF Referred
  <2> QED BY <1>1, <2>2 DEF ValueOf
<1>2. CASE v.kind # "match"
  BY <1>2 DEF ValueOf
<1> QED BY <1>1, <1>2

(* The meaning of a match depends on those of the matches it refers to. *)
LEMMA MeaningDepends ==
  ASSUME DataInv, NEW t \in Triggers, NEW vs, NEW s1, NEW s2,
         EndsInForm(t, vs) \/ \A u \in Referred(Evaluated(t, vs)) \cap Triggers : s1[u] = s2[u]
  PROVE  MeaningOf(t, vs, s1) = MeaningOf(t, vs, s2)
<1> DEFINE C == Cardinality(Names)
           body == matches[t].body
           V1 == Values(t, vs, s1)
           V2 == Values(t, vs, s2)
<1>1. CASE EndsInForm(t, vs)
  BY <1>1 DEF MeaningOf
<1>2. body \in Seq(Names \cup {Own})
  BY BodiesAssumption DEF DataInv, Templates
<1>3. CASE Mentions(body) = {}
  <2>1. render_variables(body, t, V1[C]) = render_variables(body, t, V2[C])
    <3> HIDE DEF body, V1, V2, C
    <3> QED BY <1>2, <1>3, RenderAgrees
  <2> QED BY <2>1 DEF MeaningOf
<1>4. CASE ~EndsInForm(t, vs) /\ Mentions(body) # {}
  <2> DEFINE holds == {k \in 0 .. C : V1[k] = V2[k]}
  <2>1. C \in Nat
    BY Counts
  <2>2. 0 \in holds
    <3>1. 0 \in 0 .. C
      BY <2>1
    <3> QED BY <3>1, ValuesSteps
  <2>3. ASSUME NEW k \in 0 .. C - 1, k \in holds PROVE k + 1 \in holds
    <3>1. k + 1 \in 0 .. C /\ k + 1 # 0 /\ (k + 1) - 1 = k
      BY <2>1
    <3>2. /\ V1[k + 1] = [n \in Names |-> IF n \notin Needed(t, vs) \ {Body} THEN <<>>
                                         ELSE ValueOf(vs, s1, V1[k], n)]
          /\ V2[k + 1] = [n \in Names |-> IF n \notin Needed(t, vs) \ {Body} THEN <<>>
                                         ELSE ValueOf(vs, s2, V2[k], n)]
      BY ValuesSteps
    <3>3. V1[k] = V2[k]
      BY <2>3
    <3>4. \A n \in Needed(t, vs) \ {Body} : ValueOf(vs, s1, V1[k], n) = ValueOf(vs, s2, V1[k], n)
      BY <1>4, ValueDepends
    <3> HIDE DEF V1, V2
    <3>5. V1[k + 1] = V2[k + 1]
      BY <3>2, <3>3, <3>4
    <3> QED BY <3>1, <3>5
  <2> HIDE DEF holds
  <2>4. C \in holds
    BY <2>1, <2>2, <2>3, UpTo
  <2>5. V1[C] = V2[C]
    BY <2>4 DEF holds
  <2> QED BY <2>5 DEF MeaningOf
<1> QED BY <1>1, <1>3, <1>4

(* The triggers whose matches come to an end: in a form, or as all the matches *)
(* do that they refer to                                                        *)
Closes(S) ==
  \A t \in Triggers :
    EndsInForm(t, matches[t].vars) \/ RefersTo(t) \cap Triggers \subseteq S => t \in S

Ending == {t \in Triggers : \A S \in SUBSET Triggers : Closes(S) => t \in S}

LEMMA EndingFacts ==
  /\ Ending \subseteq Triggers /\ Closes(Ending)
  /\ \A S \in SUBSET Triggers : Closes(S) => Ending \subseteq S
<1>1. ASSUME NEW t \in Triggers,
             EndsInForm(t, matches[t].vars) \/ RefersTo(t) \cap Triggers \subseteq Ending
      PROVE  t \in Ending
  <2> SUFFICES ASSUME NEW S \in SUBSET Triggers, Closes(S) PROVE t \in S
    BY DEF Ending
  <2>1. Ending \subseteq S
    BY DEF Ending
  <2> QED BY <1>1, <2>1 DEF Closes
<1> QED BY <1>1 DEF Ending, Closes

(* As many rounds as there are triggers give those that end their meaning:  *)
(* each round settles one more.                                              *)
LEMMA NestedIsMeaning ==
  ASSUME DataInv
  PROVE  \A t \in Ending :
           Nested[Cardinality(Triggers)][t] = MeaningOf(t, matches[t].vars, Nested[Cardinality(Triggers)])
<1> DEFINE N == Cardinality(Triggers)
           M(t, j) == MeaningOf(t, matches[t].vars, Nested[j])
           A(k) == {t \in Ending : \A j \in k .. N : Nested[j][t] = Nested[k][t] /\ M(t, j) = Nested[k][t]}
           holds == {k \in 0 .. N : Ending \subseteq A(k) \/ Cardinality(A(k)) >= k}
<1>1. N \in Nat /\ Ending \subseteq Triggers
  BY Counts, EndingFacts
<1>2. \A k : A(k) \subseteq Triggers /\ IsFiniteSet(A(k)) /\ Cardinality(A(k)) \in Nat
          /\ Cardinality(A(k)) <= N
  <2> TAKE k
  <2>1. A(k) \subseteq Triggers
    BY <1>1
  <2> HIDE DEF A
  <2> QED BY <2>1, FiniteAssumption, FS_Subset, FS_CardinalityType
<1>3. ASSUME NEW k \in 0 .. N - 1 PROVE A(k) \subseteq A(k + 1)
  <2> SUFFICES ASSUME NEW t \in A(k), NEW j \in k + 1 .. N
               PROVE  Nested[j][t] = Nested[k + 1][t] /\ M(t, j) = Nested[k + 1][t]
    OBVIOUS
  <2>1. j \in k .. N /\ k + 1 \in k .. N
    BY <1>1
  <2> HIDE DEF M
  <2> QED BY <2>1
<1>4. ASSUME NEW k \in 0 .. N - 1, ~(Ending \subseteq A(k)) PROVE \E t : t \in A(k + 1) \ A(k)
  <2>1. PICK t \in Triggers : /\ EndsInForm(t, matches[t].vars) \/ RefersTo(t) \cap Triggers \subseteq A(k)
                              /\ t \notin A(k)
    <3>1. ~Closes(A(k))
      <4> HIDE DEF A
      <4> QED BY <1>2, <1>4, EndingFacts
    <3> HIDE DEF A
    <3> QED BY <3>1 DEF Closes
  <2>2. t \in Ending
    <3>1. A(k) \subseteq Ending
      OBVIOUS
    <3> HIDE DEF A
    <3> QED BY <2>1, <3>1, EndingFacts DEF Closes
  <2>3. ASSUME NEW j \in k .. N PROVE M(t, j) = M(t, k)
    <3>1. ASSUME NEW u \in A(k) PROVE Nested[j][u] = Nested[k][u]
      OBVIOUS
    <3> HIDE DEF A
    <3>2. EndsInForm(t, matches[t].vars)
            \/ \A u \in Referred(Evaluated(t, matches[t].vars)) \cap Triggers : Nested[j][u] = Nested[k][u]
      BY <2>1, <3>1 DEF RefersTo
    <3> QED BY <3>2, MeaningDepends
  <2>4. ASSUME NEW j \in k + 1 .. N PROVE Nested[j][t] = M(t, k)
    <3>1. j \in 1 .. N /\ j - 1 \in k .. N
      BY <1>1
    <3>2. Nested[j][t] = M(t, j - 1)
      BY <3>1, NestedSteps
    <3> HIDE DEF M
    <3> QED BY <2>3, <3>1, <3>2
  <2>5. t \in A(k + 1)
    <3>1. k + 1 \in k + 1 .. N /\ k + 1 .. N \subseteq k .. N
      BY <1>1
    <3> HIDE DEF M
    <3> QED BY <2>2, <2>3, <2>4, <3>1
  <2> HIDE DEF A
  <2> QED BY <2>1, <2>5
<1>5. 0 \in holds
  <2> HIDE DEF A
  <2> QED BY <1>1, <1>2
<1>6. ASSUME NEW k \in 0 .. N - 1, k \in holds PROVE k + 1 \in holds
  <2>1. k \in Nat /\ k + 1 \in 0 .. N
    BY <1>1
  <2>2. CASE Ending \subseteq A(k)
    <3> HIDE DEF A
    <3> QED BY <1>3, <2>1, <2>2
  <2>3. CASE ~(Ending \subseteq A(k))
    <3>1. A(k) \subseteq A(k + 1) /\ A(k) # A(k + 1)
      <4> HIDE DEF A
      <4> QED BY <1>3, <1>4, <2>3
    <3> DEFINE S == A(k)
               T == A(k + 1)
    <3>2. /\ IsFiniteSet(T) /\ S \in SUBSET T /\ S # T /\ Cardinality(S) \in Nat /\ Cardinality(T) \in Nat
          /\ Cardinality(S) >= k
      <4> HIDE DEF A
      <4> QED BY <1>2, <1>6, <2>3, <3>1
    <3> HIDE DEF S, T
    <3>3. Cardinality(S) <= Cardinality(T) /\ Cardinality(S) # Cardinality(T)
      BY <3>2, FS_Subset
    <3>4. Cardinality(T) >= k + 1
      BY <2>1, <3>2, <3>3
    <3> QED BY <2>1, <3>4 DEF T
  <2> QED BY <2>2, <2>3
<1>7. N \in holds
  <2> HIDE DEF holds
  <2> QED BY <1>1, <1>5, <1>6, UpTo
<1>8. Ending \subseteq A(N)
  <2>1. CASE Ending \subseteq A(N)
    BY <2>1
  <2>2. CASE Cardinality(A(N)) >= N
    <3>1. A(N) = Triggers
      <4> DEFINE S == A(N)
      <4>1. S \in SUBSET Triggers /\ Cardinality(S) >= N /\ Cardinality(S) <= N /\ Cardinality(S) \in Nat
        BY <1>2, <2>2
      <4> HIDE DEF S
      <4>2. S = Triggers
        <5>1. Cardinality(S) = N
          BY <1>1, <4>1
        <5> QED BY <4>1, <5>1, FiniteAssumption, FS_Subset
      <4> QED BY <4>2 DEF S
    <3> HIDE DEF A
    <3> QED BY <1>1, <3>1
  <2> HIDE DEF A
  <2> QED BY <1>7, <2>1, <2>2
<1>9. N \in N .. N
  BY <1>1
<1>10. ASSUME NEW t \in Ending PROVE Nested[N][t] = M(t, N)
  <2>1. t \in A(N)
    <3> HIDE DEF A
    <3> QED BY <1>8
  <2> HIDE DEF M
  <2> QED BY <1>9, <2>1
<1> QED BY <1>10

-----------------------------------------------------------------------------
(* What is in a scope is what it means *)

Sub == Nested[Cardinality(Triggers)]

Settles(v) ==
  /\ v.kind # "form"
  /\ v.kind = "match" /\ get_trigger_from_var(v) \in Triggers => get_trigger_from_var(v) \in Ending

(* What is in the scope has the value it means, from the round on in which *)
(* as many variables are evaluated as were.                                 *)
ScopeMeant(f) ==
  \A n \in DOMAIN f.scope :
    /\ n \in Needed(f.trigger, f.vars)
    /\ \A k \in Cardinality(Names) - Len(f.todo) .. Cardinality(Names) :
         Values(f.trigger, f.vars, Sub)[k][n] = f.scope[n]
    /\ Settles(Definition(f.vars, n))

(* What is in the scope when the i-th of the variables to come is evaluated *)
ScopeAt(f, i) == DOMAIN f.scope \cup {f.todo[j].name : j \in 1 .. i - 1}

(* Every variable is evaluated once, after all that it takes. *)
Follows(f) ==
  /\ \A i \in 1 .. Len(f.todo) :
       f.todo[i].name \notin ScopeAt(f, i) /\ Takes(f.vars, f.todo[i].name) \subseteq ScopeAt(f, i)
  /\ \A m \in DOMAIN f.scope : Takes(f.vars, m) \subseteq DOMAIN f.scope

FrameMeant(f) ==
  IF f.todo = None THEN DOMAIN f.scope = {}
  ELSE Len(f.todo) <= Cardinality(Names) /\ ScopeMeant(f) /\ Follows(f)

Meant ==
  /\ \A i \in 1 .. Len(frames) : FrameMeant(frames[i])
  /\ status = "ok" => output = Meaning

MeantInv == EnvironmentsFixed => Meant

LEMMA HeadFacts ==
  ASSUME DataInv, NEW f, FrameOK(f), f.todo \notin {None, <<>>}
  PROVE  /\ Head(f.todo) \in Evaluated(f.trigger, f.vars)
         /\ Head(f.todo).uses \subseteq DOMAIN f.scope
         /\ Mentions(matches[f.trigger].body) # {}
<1>1. Agenda(f) /\ f.todo # <<>>
  BY DEF FrameOK
<1>2. f.todo \in Seq(ToSet(f.todo))
  BY <1>1 DEF Agenda, IsList
<1>3. Head(f.todo) = f.todo[1] /\ 1 \in 1 .. Len(f.todo) /\ 1 .. 1 - 1 = {}
  BY <1>1, <1>2, EmptySeq, LenProperties
<1> QED BY <1>1, <1>3 DEF Agenda

(* The head gets the value it means. *)
LEMMA AssignMeant ==
  ASSUME DataInv, NEW f, FrameOK(f), FrameMeant(f), f.todo \notin {None, <<>>}, NEW text,
         Settles(Head(f.todo)),
         \A k \in Cardinality(Names) - Len(f.todo) .. Cardinality(Names) - 1 :
           ValueOf(f.vars, Sub, Values(f.trigger, f.vars, Sub)[k], Head(f.todo).name) = text
  PROVE  FrameMeant(Assign(f, text))
<1> DEFINE C == Cardinality(Names)
           head == Head(f.todo)
           rest == Tail(f.todo)
           scope == Bind(f.scope, head.name, text)
           a == Assign(f, text)
           V == Values(f.trigger, f.vars, Sub)
<1>1. /\ a.trigger = f.trigger /\ a.vars = f.vars /\ a.todo = rest /\ a.scope = scope
      /\ DOMAIN scope = DOMAIN f.scope \cup {head.name}
      /\ head = f.todo[1]
      /\ Len(f.todo) \in Nat /\ Len(f.todo) > 0 /\ Len(rest) = Len(f.todo) - 1
      /\ \A i \in 1 .. Len(rest) : rest[i] = f.todo[i + 1]
  BY AssignIs, Zenon
<1>2. Len(f.todo) <= C /\ ScopeMeant(f) /\ Follows(f) /\ C \in Nat
  BY Counts DEF FrameMeant
<1>3. head \in Evaluated(f.trigger, f.vars) /\ f.vars \in Seq(AnyVariable)
  BY HeadFacts DEF FrameOK
<1>4. head.name \in Needed(f.trigger, f.vars) \ {Body} /\ head = Definition(f.vars, head.name)
        /\ head.name \in Names
  <2>1. head.name \in Needed(f.trigger, f.vars) \ {Body} /\ head = Definition(f.vars, head.name)
    <3> HIDE DEF head
    <3> QED BY <1>3, EvaluatedFacts
  <2>2. Needed(f.trigger, f.vars) \subseteq Names
    BY DEF Needed, Evaluation!Reachable
  <2> HIDE DEF head
  <2> QED BY <2>1, <2>2
<1>5. /\ scope[head.name] = text
      /\ \A n \in DOMAIN f.scope : n # head.name => scope[n] = f.scope[n]
  <2> HIDE DEF head
  <2> QED BY DEF Bind
<1> HIDE DEF head, rest, scope, a, V, C
<1>6. ASSUME NEW k \in C - Len(rest) .. C PROVE V[k][head.name] = text
  <2>1. k - 1 \in C - Len(f.todo) .. C - 1 /\ k - 1 \in 0 .. C - 1 /\ (k - 1) + 1 = k
    BY <1>1, <1>2
  <2>2. ValueOf(f.vars, Sub, V[k - 1], head.name) = text
    BY <2>1 DEF V, C, head
  <2>3. V[(k - 1) + 1] = [n \in Names |-> IF n \notin Needed(f.trigger, f.vars) \ {Body} THEN <<>>
                                         ELSE ValueOf(f.vars, Sub, V[k - 1], n)]
    BY <2>1, ValuesSteps DEF V, C
  <2> QED BY <1>4, <2>1, <2>2, <2>3
<1>7. ASSUME NEW n \in DOMAIN scope
      PROVE  /\ n \in Needed(f.trigger, f.vars) /\ Settles(Definition(f.vars, n))
             /\ \A k \in C - Len(rest) .. C : V[k][n] = scope[n]
  <2>1. CASE n = head.name
    <3>1. Settles(head)
      BY DEF head
    <3> QED BY <1>4, <1>5, <1>6, <2>1, <3>1
  <2>2. CASE n # head.name
    <3>1. n \in DOMAIN f.scope /\ scope[n] = f.scope[n]
      BY <1>1, <1>5, <2>2
    <3>2. ASSUME NEW k \in C - Len(rest) .. C PROVE k \in C - Len(f.todo) .. C
      BY <1>1, <1>2
    <3> QED BY <1>2, <3>1, <3>2 DEF ScopeMeant, V, C
  <2> QED BY <2>1, <2>2
<1>8. ScopeMeant(a)
  BY <1>1, <1>7 DEF ScopeMeant, V, C
<1>9. ASSUME NEW i \in 1 .. Len(rest)
      PROVE  rest[i].name \notin ScopeAt(a, i) /\ Takes(f.vars, rest[i].name) \subseteq ScopeAt(a, i)
  <2>1. i + 1 \in 1 .. Len(f.todo) /\ (i + 1) - 1 = i /\ rest[i] = f.todo[i + 1]
    BY <1>1
  <2>2. /\ rest[i].name \notin DOMAIN f.scope \cup {f.todo[j].name : j \in 1 .. i}
        /\ Takes(f.vars, rest[i].name) \subseteq DOMAIN f.scope \cup {f.todo[j].name : j \in 1 .. i}
    BY <1>2, <2>1 DEF Follows, ScopeAt
  <2>3. {f.todo[j].name : j \in 1 .. i} = {head.name} \cup {rest[j].name : j \in 1 .. i - 1}
    <3>1. ASSUME NEW j \in 1 .. i PROVE f.todo[j].name \in {head.name} \cup {rest[l].name : l \in 1 .. i - 1}
      <4>1. CASE j = 1
        BY <1>1, <4>1
      <4>2. CASE j # 1
        <5>1. j - 1 \in 1 .. i - 1 /\ j - 1 \in 1 .. Len(rest) /\ (j - 1) + 1 = j
          BY <1>1, <4>2
        <5>2. rest[j - 1] = f.todo[j]
          BY <1>1, <5>1
        <5> QED BY <5>1, <5>2
      <4> QED BY <4>1, <4>2
    <3>2. ASSUME NEW j \in 1 .. i - 1 PROVE rest[j].name \in {f.todo[l].name : l \in 1 .. i}
      <4>1. j + 1 \in 1 .. i /\ rest[j] = f.todo[j + 1]
        BY <1>1
      <4> QED BY <4>1
    <3>3. head.name \in {f.todo[l].name : l \in 1 .. i}
      BY <1>1
    <3> QED BY <3>1, <3>2, <3>3
  <2>4. ScopeAt(a, i) = DOMAIN f.scope \cup {f.todo[j].name : j \in 1 .. i}
    BY <1>1, <2>3 DEF ScopeAt
  <2> QED BY <2>2, <2>4
<1>10. Follows(a)
  <2>1. Takes(f.vars, head.name) \subseteq DOMAIN f.scope
    <3>1. 1 \in 1 .. Len(f.todo) /\ 1 .. 1 - 1 = {}
      BY <1>1
    <3>2. ScopeAt(f, 1) = DOMAIN f.scope
      BY <3>1 DEF ScopeAt
    <3> QED BY <1>1, <1>2, <3>1, <3>2 DEF Follows
  <2>2. \A m \in DOMAIN f.scope : Takes(f.vars, m) \subseteq DOMAIN f.scope
    BY <1>2 DEF Follows
  <2>3. \A m \in DOMAIN scope : Takes(f.vars, m) \subseteq DOMAIN scope
    BY <1>1, <2>1, <2>2
  <2> QED BY <1>1, <1>9, <2>3 DEF Follows
<1>11. Len(a.todo) <= C
  BY <1>1, <1>2
<1>12. a.todo # None
  <2>1. a.todo \in Seq(ToSet(f.todo))
    BY AssignIs, Zenon DEF a
  <2>2. ToSet(f.todo) \subseteq AnyVariable
    <3>1. \A i \in 1 .. Len(f.todo) : f.todo[i] \in Evaluated(f.trigger, f.vars)
      BY DEF FrameOK, Agenda
    <3>2. DOMAIN f.todo = 1 .. Len(f.todo)
      BY AssignIs, Zenon
    <3> QED BY <1>3, <3>1, <3>2, EvaluatedFacts DEF ToSet
  <2>3. a.todo \in Seq(AnyVariable)
    BY <2>1, <2>2
  <2> QED BY <2>3, NoneIsNoList
<1> QED BY <1>8, <1>10, <1>11, <1>12 DEF FrameMeant, C, a

(* What a command reads is there whichever order was taken, if its value is *)
(* fixed: what is in the scope takes nothing else, so that what comes before *)
(* the command in every order is in it, and what comes after it is not.      *)
LEMMA EnvironmentMeant ==
  ASSUME DataInv, NEW f, FrameOK(f), FrameMeant(f), f.todo \notin {None, <<>>},
         EnvironmentFixed(f.trigger, f.vars), NEW env \in convert_to_env_variables(f.scope),
         NEW values, \A m \in DOMAIN f.scope : values[m] = f.scope[m],
         NEW key \in Reads(Head(f.todo))
  PROVE  Read(env, key) = Read(FixedEnvironment(f.vars, Head(f.todo).name, values), key)
<1> DEFINE v == Head(f.todo)
           vs == f.vars
           D == DOMAIN f.scope
           before == Before(vs, v.name)
           fixed == FixedEnvironment(vs, v.name, values)
           setters == Setters(f.trigger, vs, key)
<1>1. v \in Evaluated(f.trigger, vs) /\ vs \in Seq(AnyVariable) /\ D \subseteq Names
  BY HeadFacts DEF FrameOK
<1>2. ScopeMeant(f) /\ Follows(f) /\ Len(f.todo) \in Nat /\ Len(f.todo) > 0 /\ v = f.todo[1]
  BY AssignIs DEF FrameMeant
<1> HIDE DEF v
<1>3. v.name \notin D /\ Takes(vs, v.name) \subseteq D
  <2>1. 1 \in 1 .. Len(f.todo) /\ 1 .. 1 - 1 = {}
    BY <1>2
  <2>2. ScopeAt(f, 1) = D
    BY <2>1 DEF ScopeAt
  <2> QED BY <1>2, <2>1, <2>2 DEF Follows
<1>4. \A m \in D : Takes(vs, m) \subseteq D
  BY <1>2 DEF Follows
<1> HIDE DEF D
<1>5. \A n : Takes(vs, n) \subseteq D => Before(vs, n) \subseteq D
  <2> SUFFICES ASSUME NEW n, Takes(vs, n) \subseteq D, NEW m \in Before(vs, n) PROVE m \in D
    OBVIOUS
  <2>1. D \in SUBSET Names /\ \A k \in D \cap (LocalNames(vs) \cup DOMAIN globals) : Takes(vs, k) \subseteq D
    BY <1>1, <1>4
  <2> QED BY <2>1 DEF Before
<1>6. before \subseteq D /\ \A m \in D : v.name \notin Before(vs, m)
  BY <1>3, <1>4, <1>5
<1>7. \A m \in D : to_uppercase[m] = key => m \in setters
  <2> SUFFICES ASSUME NEW m \in D, to_uppercase[m] = key PROVE m \in setters
    OBVIOUS
  <2>1. m \in Needed(f.trigger, vs) \ {Body} /\ Mentions(matches[f.trigger].body) # {}
    BY <1>2, HeadFacts DEF ScopeMeant, D, FrameOK
  <2>2. Definition(vs, m) \in Evaluated(f.trigger, vs)
    BY <2>1 DEF Evaluated
  <2>3. m \in LocalNames(vs) \cup DOMAIN globals
    BY <1>1, <2>1, BodyNode DEF Needed
  <2>4. Definition(vs, m).name = m
    BY <1>1, <2>3, LookUp
  <2> QED BY <2>2, <2>4 DEF Setters
<1>8. /\ \A m, n \in setters \cap before : m = n
      /\ \A m \in setters \ (before \cup {v.name}) : v.name \in Before(vs, m)
  BY <1>1 DEF EnvironmentFixed, v
<1> HIDE DEF before, setters
<1>9. \A m \in D : to_uppercase[m] = key => m \in setters \cap before
  BY <1>3, <1>6, <1>7, <1>8
<1>10. /\ DOMAIN env = {to_uppercase[m] : m \in D}
       /\ \A k \in DOMAIN env : \E m \in D : to_uppercase[m] = k /\ env[k] = f.scope[m]
  BY DEF convert_to_env_variables, Keys, D
<1>11. /\ DOMAIN fixed = {to_uppercase[m] : m \in before}
       /\ \A k \in DOMAIN fixed : fixed[k] = values[CHOOSE m \in before : to_uppercase[m] = k]
  BY DEF FixedEnvironment, Keys, before
<1> HIDE DEF fixed
<1>12. CASE key \in DOMAIN env
  <2>1. PICK m \in D : to_uppercase[m] = key /\ env[key] = f.scope[m]
    BY <1>10, <1>12
  <2>2. m \in setters \cap before
    BY <1>9, <2>1
  <2> DEFINE n == CHOOSE l \in before : to_uppercase[l] = key
  <2>3. n \in before /\ to_uppercase[n] = key
    BY <2>1, <2>2
  <2>4. key \in DOMAIN fixed /\ fixed[key] = values[n]
    BY <1>11, <2>1, <2>2
  <2> HIDE DEF n
  <2>5. n = m
    BY <1>6, <1>8, <1>9, <2>2, <2>3
  <2>6. values[m] = f.scope[m]
    BY DEF D
  <2> QED BY <1>12, <2>1, <2>4, <2>5, <2>6 DEF Read, fixed, v
<1>13. CASE key \notin DOMAIN env
  <2>1. key \notin DOMAIN fixed
    BY <1>6, <1>10, <1>11, <1>13
  <2> QED BY <1>13, <2>1 DEF Read, fixed, v
<1> QED BY <1>12, <1>13

(* An extension gives the value of the variable. *)
LEMMA ExtensionMeant ==
  ASSUME DataInv, NEW f, FrameOK(f), FrameMeant(f), f.todo \notin {None, <<>>},
         EnvironmentFixed(f.trigger, f.vars), NEW env \in convert_to_env_variables(f.scope),
         Head(f.todo).kind \notin {"match", "form"}
  PROVE  FrameMeant(Assign(f, calculate(Head(f.todo), f.scope, env).output))
<1> DEFINE C == Cardinality(Names)
           v == Head(f.todo)
           V == Values(f.trigger, f.vars, Sub)
<1>1. /\ v \in Evaluated(f.trigger, f.vars) /\ v.uses \subseteq DOMAIN f.scope
      /\ f.vars \in Seq(AnyVariable) /\ DOMAIN f.scope \subseteq Names \ {Body}
  BY HeadFacts DEF FrameOK
<1>2. /\ ScopeMeant(f) /\ C \in Nat /\ Len(f.todo) <= C
      /\ Len(f.todo) \in Nat /\ Len(f.todo) > 0
  BY Counts, AssignIs DEF FrameMeant
<1> HIDE DEF v
<1>3. v \in AnyVariable /\ v = Definition(f.vars, v.name)
  BY <1>1, EvaluatedFacts
<1>4. ASSUME NEW k \in C - Len(f.todo) .. C - 1
      PROVE  ValueOf(f.vars, Sub, V[k], v.name) = calculate(v, f.scope, env).output
  <2> DEFINE values == V[k]
             fixed == FixedEnvironment(f.vars, v.name, values)
  <2>1. \A m \in DOMAIN f.scope : values[m] = f.scope[m]
    <3>1. k \in C - Len(f.todo) .. C
      BY <1>2
    <3> QED BY <1>2, <3>1 DEF ScopeMeant
  <2> HIDE DEF values, V
  <2>2. \A key \in Reads(v) : Read(env, key) = Read(fixed, key)
    BY <2>1, EnvironmentMeant DEF v
  <2>3. None \notin DOMAIN env \cup DOMAIN fixed
    <3>1. DOMAIN env = {to_uppercase[m] : m \in DOMAIN f.scope}
      BY DEF convert_to_env_variables, Keys
    <3>2. DOMAIN fixed = {to_uppercase[m] : m \in Before(f.vars, v.name)}
      BY DEF FixedEnvironment, Keys
    <3>3. Before(f.vars, v.name) \subseteq Names
      BY DEF Before
    <3>4. None \notin {to_uppercase[m] : m \in Names}
      BY NoneAssumption DEF Keys
    <3> QED BY <1>1, <3>1, <3>2, <3>3, <3>4
  <2> HIDE DEF fixed
  <2>4. Alike(v, f.scope, values, env, fixed)
    BY <1>1, <2>1, <2>2, <2>3 DEF Alike
  <2>5. calculate(v, f.scope, env) = calculate(v, values, fixed)
    BY <1>3, <2>4, CalculateAgrees DEF v
  <2>6. ValueOf(f.vars, Sub, V[k], v.name) = calculate(v, values, fixed).output
    <3>1. Definition(f.vars, v.name) = v /\ v.kind # "match"
      BY <1>3 DEF v
    <3> QED BY <3>1, Zenon DEF ValueOf, values, fixed
  <2> QED BY <2>5, <2>6
<1>5. Settles(v)
  BY DEF Settles, v
<1> QED BY <1>4, <1>5, AssignMeant DEF v

(* A nested rendering gives the value of the variable it is for. *)
LEMMA NestedMeant ==
  ASSUME DataInv, NEW f, FrameOK(f), FrameMeant(f), NEW t \in Ending, AtMatch(f, t)
  PROVE  FrameMeant(Assign(f, MeaningOf(t, matches[t].vars, Sub)))
<1> DEFINE v == Head(f.todo)
           text == MeaningOf(t, matches[t].vars, Sub)
<1>1. f.todo \notin {None, <<>>} /\ v.kind = "match" /\ get_trigger_from_var(v) = t
  BY DEF AtMatch
<1>2. v \in Evaluated(f.trigger, f.vars) /\ f.vars \in Seq(AnyVariable)
  BY <1>1, HeadFacts DEF FrameOK
<1> HIDE DEF v
<1>3. v = Definition(f.vars, v.name)
  BY <1>2, EvaluatedFacts
<1>4. t \in Triggers /\ Sub[t] = text
  BY NestedIsMeaning, EndingFacts DEF Sub
<1> HIDE DEF text
<1>5. ASSUME NEW values PROVE ValueOf(f.vars, Sub, values, v.name) = text
  BY <1>1, <1>3, <1>4 DEF ValueOf
<1>6. Settles(v)
  BY <1>1 DEF Settles
<1> QED BY <1>1, <1>5, <1>6, AssignMeant DEF v, text

(* The order of the variables of a match, before the first is evaluated *)
LEMMA OrderMeant ==
  ASSUME DataInv, NEW t, NEW vs \in Seq(AnyVariable), NEW seq \in Orders(Graph(t, vs)),
         NEW f, f.trigger = t, f.vars = vs, DOMAIN f.scope = {},
         f.todo = [i \in DOMAIN seq |-> Definition(vs, seq[i])]
  PROVE  FrameMeant(f)
<1>1. PICK s \in Seq(Needed(t, vs)) :
        /\ IsOrder(s, t, vs)
        /\ DOMAIN seq = 1 .. Len(s) - 1 /\ \A i \in 1 .. Len(s) - 1 : seq[i] = s[i]
  BY OrderShape
<1> DEFINE L == Len(s)
<1>2. /\ L \in Nat /\ L > 0 /\ L - 1 \in Nat /\ s[L] = Body /\ DOMAIN s = 1 .. L
      /\ \A i \in 1 .. L : s[i] \in Needed(t, vs)
      /\ \A i, j \in 1 .. L : s[i] = s[j] => i = j
  BY <1>1, LenProperties DEF IsOrder
<1>3. f.todo = [i \in 1 .. L - 1 |-> f.todo[i]]
  BY <1>1
<1>4. Len(f.todo) = L - 1
  BY <1>2, <1>3, MakeList
<1>5. Needed(t, vs) \subseteq Names /\ Needed(t, vs) \subseteq {Body} \cup DOMAIN globals \cup LocalNames(vs)
  <2>1. Needed(t, vs) \subseteq Names /\ Needed(t, vs) \subseteq DOMAIN Graph(t, vs)
    BY DEF Needed, Evaluation!Reachable
  <2>2. DOMAIN Graph(t, vs) = {Body} \cup DOMAIN globals \cup LocalNames(vs)
    BY BodyNode
  <2> QED BY <2>1, <2>2, Zenon
<1>6. ASSUME NEW i \in 1 .. L - 1 PROVE f.todo[i].name = s[i]
  <2> HIDE DEF L
  <2>1. i \in 1 .. L /\ L \in 1 .. L /\ i # L
    BY <1>2
  <2>2. s[i] \in Needed(t, vs) /\ s[i] # Body
    BY <1>2, <2>1
  <2>3. s[i] \in LocalNames(vs) \cup DOMAIN globals
    BY <1>5, <2>2
  <2>4. f.todo[i] = Definition(vs, s[i])
    BY <1>1 DEF L
  <2> QED BY <2>3, <2>4, LookUp
<1>7. L <= Cardinality(Names)
  <2>1. s \in Injection(1 .. L, Names)
    <3>1. s \in [1 .. L -> Names]
      BY <1>2, <1>5, LenProperties
    <3> QED BY <1>1, <3>1 DEF IsOrder, Injection, IsInjective
  <2>2. Cardinality(1 .. L) = L
    BY <1>2, FS_Interval
  <2> HIDE DEF L
  <2> QED BY <2>1, <2>2, FiniteAssumption, FS_Injection
<1>8. ASSUME NEW i \in 1 .. Len(f.todo)
      PROVE  f.todo[i].name \notin ScopeAt(f, i) /\ Takes(f.vars, f.todo[i].name) \subseteq ScopeAt(f, i)
  <2>1. i \in 1 .. L - 1 /\ f.todo[i].name = s[i]
    <3>1. i \in 1 .. L - 1
      BY <1>4
    <3> HIDE DEF L
    <3> QED BY <1>6, <3>1
  <2>2. i \in 1 .. L /\ i # L /\ L \in 1 .. L
    <3> HIDE DEF L
    <3> QED BY <1>2, <2>1
  <2>3. \A j \in 1 .. i - 1 : f.todo[j].name = s[j] /\ j \in 1 .. L /\ j # i
    <3> HIDE DEF L
    <3>1. \A j \in 1 .. i - 1 : j \in 1 .. L - 1 /\ j \in 1 .. L /\ j # i
      BY <1>2, <2>1
    <3> QED BY <1>6, <3>1
  <2>4. ScopeAt(f, i) = {s[j] : j \in 1 .. i - 1}
    <3> DEFINE X == {f.todo[j].name : j \in 1 .. i - 1}
               Y == {s[j] : j \in 1 .. i - 1}
    <3>1. X \subseteq Y /\ Y \subseteq X
      <4>1. ASSUME NEW j \in 1 .. i - 1 PROVE f.todo[j].name \in Y
        BY <2>3
      <4>2. ASSUME NEW j \in 1 .. i - 1 PROVE s[j] \in X
        BY <2>3
      <4> QED BY <4>1, <4>2
    <3>2. ScopeAt(f, i) = X
      BY DEF ScopeAt
    <3> HIDE DEF X, Y
    <3>3. X = Y
      BY <3>1, Zenon
    <3> QED BY <3>2, <3>3 DEF Y
  <2>5. s[i] \notin {s[j] : j \in 1 .. i - 1}
    <3> HIDE DEF L
    <3> QED BY <1>2, <2>2, <2>3
  <2>6. s[i] \in LocalNames(vs) \cup DOMAIN globals
    <3> HIDE DEF L
    <3>1. s[i] # Body /\ s[i] \in Needed(t, vs)
      BY <1>2, <2>2
    <3> QED BY <1>5, <3>1
  <2>7. Definition(vs, s[i]).uses \subseteq {s[j] : j \in 1 .. i - 1}
    <3>1. Definition(vs, s[i]).uses \subseteq Graph(t, vs)[s[i]]
      BY <2>6, LookUp
    <3>2. \A d \in Graph(t, vs)[s[i]] : \E j \in 1 .. i - 1 : s[j] = d
      BY <1>1, <2>2 DEF IsOrder
    <3> QED BY <3>1, <3>2
  <2>8. Earlier(vs, s[i]) \subseteq {s[j] : j \in 1 .. i - 1}
    <3>1. CASE s[i] \in LocalNames(vs)
      <4>1. LocalNames(vs) \cap {s[j] : j \in 1 .. i - 1} = Earlier(vs, s[i])
        <5>1. IsOrder(s, t, vs) /\ i \in 1 .. Len(s)
          BY <1>1, <2>2
        <5> HIDE DEF L
        <5> QED BY <3>1, <5>1, OrderLocals
      <4> QED BY <4>1
    <3>2. CASE s[i] \notin LocalNames(vs)
      BY <3>2 DEF Earlier
    <3> QED BY <3>1, <3>2
  <2> QED BY <2>1, <2>4, <2>5, <2>7, <2>8 DEF Takes
<1>9. Follows(f)
  BY <1>8 DEF Follows
<1>10. ScopeMeant(f)
  BY DEF ScopeMeant
<1>11. Len(f.todo) <= Cardinality(Names)
  BY <1>2, <1>4, <1>7, Counts
<1> QED BY <1>9, <1>10, <1>11 DEF FrameMeant

(* When all is evaluated the body with its values is what the match means. *)
LEMMA TextIsMeaning ==
  ASSUME DataInv, NEW f, FrameOK(f), FrameMeant(f), f.todo = <<>>
  PROVE  LET text == render_variables(matches[f.trigger].body, f.trigger, f.scope)
         IN  /\ MeaningOf(f.trigger, f.vars, Sub) = IF text = <<>> THEN <<>> ELSE ApplyCasing(text)
             /\ f.vars = matches[f.trigger].vars => f.trigger \in Ending
<1> DEFINE C == Cardinality(Names)
           body == matches[f.trigger].body
           V == Values(f.trigger, f.vars, Sub)
           text == render_variables(body, f.trigger, f.scope)
<1>1. f.todo # None /\ Len(f.todo) = 0 /\ NamesIn(f.todo) = {} /\ C \in Nat
  BY NoneIsNoList, Counts DEF NamesIn, ToSet
<1>2. Agenda(f) /\ ScopeMeant(f) /\ f.vars \in Seq(AnyVariable) /\ f.trigger \in Triggers
  BY <1>1 DEF FrameOK, FrameMeant
<1>3. Mentions(body) \cup (Needed(f.trigger, f.vars) \ {Body}) \subseteq DOMAIN f.scope
  BY <1>1, <1>2 DEF Agenda
<1>4. \A n \in DOMAIN f.scope : V[C][n] = f.scope[n] /\ Settles(Definition(f.vars, n))
  <2>1. C \in C - Len(f.todo) .. C
    BY <1>1
  <2> QED BY <1>2, <2>1 DEF ScopeMeant
<1>5. \A v \in Evaluated(f.trigger, f.vars) : Settles(v)
  BY <1>2, <1>3, <1>4, EvaluatedFacts
<1>6. ~EndsInForm(f.trigger, f.vars)
  BY <1>5 DEF EndsInForm, Settles
<1>7. text = render_variables(body, f.trigger, V[C])
  <2>1. body \in Seq(Names \cup {Own})
    BY <1>2, BodiesAssumption DEF DataInv, Templates
  <2> HIDE DEF V, body, C
  <2> QED BY <1>3, <1>4, <2>1, RenderAgrees
<1>8. MeaningOf(f.trigger, f.vars, Sub) = IF text = <<>> THEN <<>> ELSE ApplyCasing(text)
  BY <1>6, <1>7 DEF MeaningOf
<1>9. ASSUME f.vars = matches[f.trigger].vars PROVE f.trigger \in Ending
  <2>1. RefersTo(f.trigger) \cap Triggers \subseteq Ending
    BY <1>5, <1>9 DEF RefersTo, Referred, Settles
  <2> QED BY <1>2, <2>1, EndingFacts DEF Closes
<1> QED BY <1>8, <1>9

-----------------------------------------------------------------------------
(* The output is its meaning *)

LEMMA BeforeStays ==
  ASSUME UNCHANGED <<matches, globals>>
  PROVE  /\ \A vs, n : Takes(vs, n)' = Takes(vs, n)
         /\ \A vs, n : Before(vs, n)' = Before(vs, n)
<1>1. \A vs, n : Takes(vs, n)' = Takes(vs, n)
  BY DEF Takes, Definition, Earlier
<1> QED BY <1>1 DEF Before

LEMMA FixedStays ==
  ASSUME UNCHANGED <<matches, globals, root>>
  PROVE  EnvironmentsFixed' = EnvironmentsFixed
<1>1. \A t, vs, key : Setters(t, vs, key)' = Setters(t, vs, key)
  BY InvolvedStays DEF Setters
<1>2. \A t, vs : EnvironmentFixed(t, vs)' = EnvironmentFixed(t, vs)
  BY <1>1, BeforeStays, InvolvedStays DEF EnvironmentFixed
<1>3. \A t, vs : Referred(Evaluated(t, vs))' = Referred(Evaluated(t, vs))
  BY InvolvedStays DEF Referred
<1>4. \A t, vs : NestedIn(Referred(Evaluated(t, vs)))' = NestedIn(Referred(Evaluated(t, vs)))
  BY <1>3, InvolvedStays
<1> QED BY <1>2, <1>4 DEF EnvironmentsFixed

(* The environments of the calls in progress are fixed if those of all are. *)
LEMMA FramesFixed ==
  ASSUME StackInv, frames # <<>>, EnvironmentsFixed, NEW i \in 1 .. Len(frames)
  PROVE  EnvironmentFixed(frames[i].trigger, frames[i].vars)
BY FramesNested DEF EnvironmentsFixed

LEMMA MeaningStays ==
  ASSUME UNCHANGED <<matches, globals, style>>
  PROVE  /\ \A t, vs, sub : MeaningOf(t, vs, sub)' = MeaningOf(t, vs, sub)
         /\ \A t, vs, sub : Values(t, vs, sub)' = Values(t, vs, sub)
         /\ Sub' = Sub /\ Ending' = Ending
         /\ \A vs, n : Definition(vs, n)' = Definition(vs, n)
         /\ \A t, vs : Needed(t, vs)' = Needed(t, vs)
<1>1. \A vs, n : Definition(vs, n)' = Definition(vs, n)
  BY DEF Definition
<1>2. \A t, vs : Needed(t, vs)' = Needed(t, vs)
  <2>1. \A t, vs : Graph(t, vs)' = Graph(t, vs)
    BY DEF Graph
  <2> QED BY <2>1 DEF Needed, Evaluation!Reachable, Evaluation!Closed
<1>3. \A vs, sub, values, n : ValueOf(vs, sub, values, n)' = ValueOf(vs, sub, values, n)
  <2>1. ASSUME NEW vs, NEW n, NEW values
        PROVE  FixedEnvironment(vs, n, values)' = FixedEnvironment(vs, n, values)
    <3> DEFINE Env(B) == [key \in Keys(B) |-> values[CHOOSE m \in B : to_uppercase[m] = key]]
    <3>1. FixedEnvironment(vs, n, values) = Env(Before(vs, n))
      BY DEF FixedEnvironment
    <3>2. FixedEnvironment(vs, n, values)' = Env(Before(vs, n)')
      BY DEF FixedEnvironment, Keys
    <3>3. Before(vs, n)' = Before(vs, n)
      BY BeforeStays
    <3> HIDE DEF Env
    <3> QED BY <3>1, <3>2, <3>3
  <2> QED BY <1>1, <2>1 DEF ValueOf
<1>4. \A t, vs, sub : Values(t, vs, sub)' = Values(t, vs, sub)
  BY <1>2, <1>3 DEF Values
<1>5. \A t, vs : EndsInForm(t, vs)' = EndsInForm(t, vs)
  BY InvolvedStays DEF EndsInForm
<1>6. \A t, vs, sub : MeaningOf(t, vs, sub)' = MeaningOf(t, vs, sub)
  <2>1. \A text : ApplyCasing(text)' = ApplyCasing(text)
    BY DEF ApplyCasing
  <2> SUFFICES ASSUME NEW t, NEW vs, NEW sub PROVE MeaningOf(t, vs, sub)' = MeaningOf(t, vs, sub)
    OBVIOUS
  <2> DEFINE text == render_variables(matches[t].body, t, Values(t, vs, sub)[Cardinality(Names)])
  <2>2. text' = text
    BY <1>4
  <2> HIDE DEF text
  <2>3. MeaningOf(t, vs, sub) = IF EndsInForm(t, vs) \/ text = <<>> THEN <<>> ELSE ApplyCasing(text)
    BY DEF MeaningOf, text
  <2>4. MeaningOf(t, vs, sub)' =
          IF EndsInForm(t, vs)' \/ text' = <<>> THEN <<>> ELSE ApplyCasing(text)'
    BY DEF MeaningOf, text
  <2>5. ApplyCasing(text)' = ApplyCasing(text)
    BY <2>1, <2>2 DEF ApplyCasing
  <2> QED BY <1>5, <2>2, <2>3, <2>4, <2>5
<1>7. Nested' = Nested
  BY <1>6 DEF Nested
<1>8. \A t : RefersTo(t)' = RefersTo(t)
  BY InvolvedStays DEF RefersTo, Referred
<1>9. \A S : Closes(S)' = Closes(S)
  BY <1>5, <1>8 DEF Closes
<1>10. Ending' = Ending
  BY <1>9 DEF Ending
<1> QED BY <1>1, <1>2, <1>4, <1>6, <1>7, <1>10 DEF Sub

LEMMA FrameMeantStays ==
  ASSUME NEW f, FrameMeant(f), UNCHANGED <<matches, globals, style>>
  PROVE  FrameMeant(f)'
<1>1. \A v : Settles(v)' = Settles(v)
  BY MeaningStays DEF Settles
<1>2. ScopeMeant(f) => ScopeMeant(f)'
  BY <1>1, MeaningStays DEF ScopeMeant
<1>3. Follows(f) => Follows(f)'
  BY BeforeStays DEF Follows, ScopeAt
<1> QED BY <1>2, <1>3 DEF FrameMeant

LEMMA StillMeant ==
  ASSUME UNCHANGED <<matches, globals, root, style>>,
         \A i \in 1 .. Len(frames') : \E g : g = frames'[i] /\ FrameMeant(g),
         status' = "ok" => output' = Meaning
  PROVE  Meant'
<1>1. Meaning' = Meaning
  BY MeaningStays DEF Meaning, Sub
<1>2. (\A i \in 1 .. Len(frames) : FrameMeant(frames[i]))'
  BY FrameMeantStays
<1> QED BY <1>1, <1>2 DEF Meant

LEMMA FailMeant ==
  ASSUME Meant, NEW error, error # "ok", Fail(error)
  PROVE  Meant'
<1>1. UNCHANGED <<matches, globals, root, style, frames>> /\ status' = error
  BY DEF Fail
<1> QED BY <1>1, StillMeant DEF Meant

(* A call that ends gives what its match means. *)
LEMMA ReturnMeant ==
  ASSUME IInv, Meant, status = "rendering", NEW text, Return(text),
         text = MeaningOf(Top.trigger, Top.vars, Sub),
         Top.vars = matches[Top.trigger].vars => Top.trigger \in Ending
  PROVE  Meant'
<1>1. frames # <<>> /\ StackInv /\ DataInv /\ UNCHANGED <<matches, globals, root, style>>
  BY DEF IInv, StatusInv, Return
<1>2. Depth \in Nat /\ Depth > 0 /\ Top = frames[Depth] /\ Depth = Len(frames)
  BY <1>1, StackTyped DEF Depth
<1>3. CASE Depth = 1
  <2>1. frames' = <<>> /\ output' = text
    BY <1>3 DEF Return
  <2>2. Len(frames') = 0 /\ 1 .. 0 = {}
    BY <2>1
  <2>3. Meaning = text
    BY <1>1, <1>2, <1>3 DEF StackInv, Meaning, Sub
  <2> QED BY <1>1, <2>1, <2>2, <2>3, StillMeant
<1>4. CASE Depth # 1
  <2> DEFINE caller == frames[Depth - 1]
             f == Assign(caller, text)
  <2>1. frames' = Append(SubSeq(frames, 1, Depth - 2), f) /\ status' = status
    BY <1>4 DEF Return, AssignMatch
  <2>2. /\ Depth - 1 \in 1 .. Depth - 1 /\ Depth - 1 \in 1 .. Depth /\ (Depth - 1) + 1 = Depth
        /\ Depth \in 2 .. Depth
    BY <1>2, <1>4
  <2>3. FrameOK(caller) /\ FrameMeant(caller)
    BY <1>1, <1>2, <2>2 DEF StackInv, Meant
  <2>4. AtMatch(caller, Top.trigger)
    <3>1. AtMatch(frames[Depth - 1], frames[(Depth - 1) + 1].trigger)
      BY <1>1, <1>2, <2>2 DEF StackInv
    <3> QED BY <3>1, <1>2, <2>2
  <2>5. Top.vars = matches[Top.trigger].vars
    BY <1>1, <1>2, <2>2 DEF StackInv
  <2> HIDE DEF caller
  <2>6. FrameMeant(f)
    <3>1. Top.trigger \in Ending /\ text = MeaningOf(Top.trigger, matches[Top.trigger].vars, Sub)
      BY <2>5
    <3> QED BY <1>1, <2>3, <2>4, <3>1, NestedMeant
  <2> HIDE DEF f
  <2>7. /\ Len(frames') = Depth - 1 /\ frames'[Depth - 1] = f
        /\ \A i \in 1 .. Depth - 2 : frames'[i] = frames[i]
    BY <1>1, <1>4, <2>1, PopFacts
  <2>8. ASSUME NEW i \in 1 .. Len(frames') PROVE \E g : g = frames'[i] /\ FrameMeant(g)
    <3>1. CASE i = Depth - 1
      BY <2>6, <2>7, <3>1
    <3>2. CASE i # Depth - 1
      <4>1. i \in 1 .. Depth - 2 /\ i \in 1 .. Len(frames)
        BY <1>2, <2>7, <3>2
      <4> QED BY <2>7, <4>1 DEF Meant
    <3> QED BY <3>1, <3>2
  <2> QED BY <1>1, <2>1, <2>8, StillMeant
<1> QED BY <1>3, <1>4

LEMMA FinishMeant ==
  ASSUME IInv, Meant, status = "rendering", NEW text, Finish(text),
         MeaningOf(Top.trigger, Top.vars, Sub) = IF text = <<>> THEN <<>> ELSE ApplyCasing(text),
         Top.vars = matches[Top.trigger].vars => Top.trigger \in Ending
  PROVE  Meant'
<1>1. CASE style = "Capitalize" /\ text = <<>>
  <2>1. Fail("panic")
    BY <1>1 DEF Finish
  <2> QED BY <2>1, FailMeant
<1>2. CASE ~(style = "Capitalize" /\ text = <<>>)
  <2>1. Return(ApplyCasing(text))
    BY <1>2 DEF Finish
  <2>2. ApplyCasing(text) = MeaningOf(Top.trigger, Top.vars, Sub)
    <3>1. CASE text = <<>>
      BY <1>2, <3>1 DEF ApplyCasing
    <3>2. CASE text # <<>>
      BY <3>2
    <3> QED BY <3>1, <3>2
  <2> QED BY <2>1, <2>2, ReturnMeant
<1> QED BY <1>1, <1>2

(* A step that changes the frame at the top only *)
LEMMA TopMeant ==
  ASSUME IInv, Meant, status = "rendering", IInv',
         UNCHANGED <<matches, globals, root, style, status>>,
         NEW f, FrameMeant(f), frames' = [frames EXCEPT ![Depth] = f]
  PROVE  Meant'
<1>1. frames # <<>> /\ StackInv /\ StackInv'
  BY DEF IInv, StatusInv
<1>2. Depth \in Nat /\ Depth > 0 /\ Depth = Len(frames) /\ DOMAIN frames = 1 .. Depth
  BY <1>1, StackTyped DEF Depth
<1>3. Len(frames') = Depth
  <2>1. frames' \in Seq(ToSet(frames'))
    BY <1>1 DEF StackInv, IsList
  <2>2. Len(frames') \in Nat /\ DOMAIN frames' = 1 .. Len(frames')
    BY <2>1, LenProperties
  <2>3. DOMAIN frames' = 1 .. Depth
    BY <1>2
  <2>4. \A m, n \in Nat : 1 .. m = 1 .. n => m = n
    OBVIOUS
  <2>5. 1 .. Len(frames') = 1 .. Depth
    BY <2>2, <2>3
  <2> QED BY <1>2, <2>2, <2>4, <2>5
<1>4. ASSUME NEW i \in 1 .. Len(frames') PROVE \E g : g = frames'[i] /\ FrameMeant(g)
  <2>1. frames'[i] = IF i = Depth THEN f ELSE frames[i]
    BY <1>2, <1>3
  <2>2. i \in 1 .. Len(frames)
    BY <1>2, <1>3
  <2> QED BY <2>1, <2>2 DEF Meant
<1> QED BY <1>4, StillMeant

LEMMA CalculateMeant ==
  ASSUME IInv, Meant, EnvironmentsFixed, Calculate
  PROVE  Meant'
<1>1. Evaluates /\ status = "rendering" /\ Current.kind # "match"
  BY DEF Calculate, Evaluates
<1>2. /\ Current.uses \subseteq DOMAIN Top.scope
      /\ Current \in Evaluated(Top.trigger, Top.vars)
  BY <1>1, Injects
<1>3. frames # <<>> /\ StackInv /\ DataInv
  BY <1>1 DEF IInv, StatusInv
<1>4. /\ Depth \in Nat /\ Depth > 0 /\ Top = frames[Depth] /\ Depth = Len(frames) /\ FrameOK(Top)
      /\ DOMAIN frames = 1 .. Depth
  BY <1>3, StackTyped DEF Depth
<1>5. CASE Form
  <2>1. Return(<<>>) /\ Current.kind = "form"
    BY <1>5 DEF Form
  <2>2. EndsInForm(Top.trigger, Top.vars)
    BY <1>2, <2>1 DEF EndsInForm
  <2>3. MeaningOf(Top.trigger, Top.vars, Sub) = <<>>
    BY <2>2 DEF MeaningOf
  <2>4. Top.vars = matches[Top.trigger].vars => Top.trigger \in Ending
    BY <1>4, <2>2, EndingFacts DEF Closes, FrameOK
  <2> QED BY <1>1, <2>1, <2>3, <2>4, ReturnMeant
<1>6. CASE Extension
  <2>1. PICK env, calculated :
          /\ env \in convert_to_env_variables(Top.scope) /\ calculated = calculate(Current, Top.scope, env)
          /\ \/ /\ calculated.result = "Success"
                /\ frames' = [frames EXCEPT ![Depth] = Assign(@, calculated.output)]
                /\ UNCHANGED <<matches, globals, root, style, status, output>>
             \/ calculated.result = "Error" /\ Fail("RenderingError")
             \/ calculated.result \in {"Aborted", "panic"} /\ Fail(calculated.result)
    BY <1>6 DEF Extension
  <2>2. CASE \/ calculated.result = "Error" /\ Fail("RenderingError")
             \/ calculated.result \in {"Aborted", "panic"} /\ Fail(calculated.result)
    BY <2>2, FailMeant
  <2>3. ASSUME frames' = [frames EXCEPT ![Depth] = Assign(@, calculated.output)],
               UNCHANGED <<matches, globals, root, style, status, output>>
        PROVE  Meant'
    <3> DEFINE f == Assign(Top, calculate(Current, Top.scope, env).output)
    <3>1. FrameMeant(Top)
      BY <1>4 DEF Meant
    <3>2. Top.todo \notin {None, <<>>} /\ Head(Top.todo) = Current
      BY <1>1 DEF Evaluates, Current
    <3>3. FrameMeant(f)
      <4>1. Head(Top.todo).kind \notin {"match", "form"}
        BY <1>1, <1>6, <3>2 DEF Extension
      <4>2. EnvironmentFixed(Top.trigger, Top.vars)
        BY <1>3, <1>4, FramesFixed
      <4>3. env \in convert_to_env_variables(Top.scope)
        BY <2>1
      <4>4. FrameMeant(Assign(Top, calculate(Head(Top.todo), Top.scope, env).output))
        BY <1>3, <1>4, <3>1, <3>2, <4>1, <4>2, <4>3, ExtensionMeant
      <4> QED BY <3>2, <4>4
    <3>4. frames' = [frames EXCEPT ![Depth] = f]
      <4> HIDE DEF f
      <4>1. [frames EXCEPT ![Depth] = Assign(@, calculated.output)]
              = [frames EXCEPT ![Depth] = Assign(frames[Depth], calculated.output)]
        OBVIOUS
      <4>2. calculated = calculate(Current, Top.scope, env)
        BY <2>1
      <4> QED BY <1>4, <2>3, <4>1, <4>2 DEF f
    <3>5. IInv'
      BY <1>1, <1>6, ExtensionInv
    <3> HIDE DEF f
    <3> QED BY <1>1, <2>3, <3>3, <3>4, <3>5, TopMeant
  <2> QED BY <2>1, <2>2, <2>3
<1> QED BY <1>1, <1>2, <1>5, <1>6 DEF Calculate

LEMMA RenderMeant ==
  ASSUME IInv, Meant, EnvironmentsFixed, render_template
  PROVE  Meant'
<1>1. CASE Plain
  <2> DEFINE body == matches[Top.trigger].body
  <2>1. /\ status = "rendering" /\ Mentions(body) = {}
        /\ Finish(render_variables(body, Top.trigger, <<>>))
    BY <1>1 DEF Plain, Starts
  <2>2. FrameOK(Top) /\ DataInv
    BY <2>1, StackTyped DEF IInv, StatusInv
  <2>3. Evaluated(Top.trigger, Top.vars) = {}
    BY <2>1 DEF Evaluated
  <2> DEFINE V == Values(Top.trigger, Top.vars, Sub)[Cardinality(Names)]
             text == render_variables(body, Top.trigger, <<>>)
  <2>4. render_variables(body, Top.trigger, V) = text
    <3>1. body \in Seq(Names \cup {Own})
      BY <2>2, BodiesAssumption DEF FrameOK, DataInv, Templates
    <3>2. Mentions(body) = {}
      BY <2>1
    <3> HIDE DEF body, V
    <3> QED BY <3>1, <3>2, RenderAgrees
  <2>5. MeaningOf(Top.trigger, Top.vars, Sub) = IF text = <<>> THEN <<>> ELSE ApplyCasing(text)
    <3>1. ~EndsInForm(Top.trigger, Top.vars)
      BY <2>3 DEF EndsInForm
    <3> QED BY <2>4, <3>1 DEF MeaningOf
  <2>6. Top.vars = matches[Top.trigger].vars => Top.trigger \in Ending
    <3>1. Top.vars = matches[Top.trigger].vars => RefersTo(Top.trigger) = {}
      BY <2>3 DEF RefersTo, Referred
    <3> QED BY <2>2, <3>1, EndingFacts DEF Closes, FrameOK
  <2> HIDE DEF text
  <2> QED BY <2>1, <2>5, <2>6, FinishMeant DEF text
<1>2. CASE Ordered
  <2>1. PICK seq \in Orders(Graph(Top.trigger, Top.vars)) :
          frames' = [frames EXCEPT ![Depth].todo = [i \in DOMAIN seq |-> Definition(Top.vars, seq[i])]]
    BY <1>2 DEF Ordered
  <2>2. /\ status = "rendering" /\ Top.todo = None
        /\ UNCHANGED <<matches, globals, root, style, status, output>>
    BY <1>2 DEF Ordered, Starts
  <2>3. frames # <<>> /\ StackInv /\ DataInv
    BY <2>2 DEF IInv, StatusInv
  <2>4. /\ Depth \in Nat /\ Depth > 0 /\ Top = frames[Depth] /\ Depth = Len(frames) /\ FrameOK(Top)
        /\ DOMAIN frames = 1 .. Depth
    BY <2>3, StackTyped DEF Depth
  <2> DEFINE todo == [i \in DOMAIN seq |-> Definition(Top.vars, seq[i])]
             f == [Top EXCEPT !.todo = todo]
  <2>5. f.trigger = Top.trigger /\ f.vars = Top.vars /\ f.scope = Top.scope /\ f.todo = todo
    <3>1. PICK t, vs, td, sc : Top = [trigger |-> t, vars |-> vs, todo |-> td, scope |-> sc]
      BY <2>4, Zenon DEF FrameOK
    <3> HIDE DEF todo
    <3> QED BY <3>1
  <2>6. frames' = [frames EXCEPT ![Depth] = f]
    <3> HIDE DEF todo
    <3>1. [frames EXCEPT ![Depth].todo = todo] = [frames EXCEPT ![Depth] = [frames[Depth] EXCEPT !.todo = todo]]
      OBVIOUS
    <3>2. frames' = [frames EXCEPT ![Depth].todo = todo]
      BY <2>1 DEF todo
    <3> QED BY <2>4, <3>1, <3>2
  <2> HIDE DEF f
  <2>7. FrameMeant(f)
    <3>1. FrameMeant(Top)
      BY <2>4 DEF Meant
    <3>2. DOMAIN f.scope = {}
      BY <2>2, <2>5, <3>1 DEF FrameMeant
    <3>3. Top.vars \in Seq(AnyVariable)
      BY <2>4 DEF FrameOK
    <3> QED BY <2>3, <2>5, <3>2, <3>3, OrderMeant
  <2>8. IInv'
    BY <1>2, OrderedInv
  <2> QED BY <2>2, <2>6, <2>7, <2>8, TopMeant
<1>3. CASE NotOrdered
  BY <1>3, FailMeant DEF NotOrdered
<1>4. CASE Overflow
  BY <1>4, FailMeant DEF Overflow
<1>5. CASE NoSubMatch
  BY <1>5, FailMeant DEF NoSubMatch
<1>6. ASSUME NEW t \in Triggers, Nest(t) PROVE Meant'
  <2> DEFINE f == Frame(t, <<>>)
  <2>1. status = "rendering" /\ frames' = Append(frames, f)
          /\ UNCHANGED <<matches, globals, root, style, status, output>>
    BY <1>6 DEF Nest, Nests, Evaluates
  <2>2. frames # <<>> /\ StackInv
    BY <2>1 DEF IInv, StatusInv
  <2>3. FrameMeant(f)
    <3>1. f.todo = None /\ DOMAIN f.scope = {}
      BY DEF Frame
    <3> QED BY <3>1 DEF FrameMeant
  <2> HIDE DEF f
  <2>4. /\ Len(frames') = Depth + 1 /\ frames'[Depth + 1] = f
        /\ \A i \in 1 .. Depth : frames'[i] = frames[i]
    BY <2>1, <2>2, PushFacts
  <2>5. Depth \in Nat /\ Depth = Len(frames)
    BY <2>2, StackTyped DEF Depth
  <2>6. ASSUME NEW i \in 1 .. Len(frames') PROVE \E g : g = frames'[i] /\ FrameMeant(g)
    <3>1. CASE i = Depth + 1
      BY <2>3, <2>4, <3>1
    <3>2. CASE i # Depth + 1
      <4>1. i \in 1 .. Depth /\ i \in 1 .. Len(frames)
        BY <2>4, <2>5, <3>2
      <4> QED BY <2>4, <4>1 DEF Meant
    <3> QED BY <3>1, <3>2
  <2> QED BY <2>1, <2>6, StillMeant
<1>7. CASE Calculate
  BY <1>7, CalculateMeant
<1>8. CASE Replace
  <2> DEFINE text == render_variables(matches[Top.trigger].body, Top.trigger, Top.scope)
  <2>1. status = "rendering" /\ Top.todo = <<>> /\ Top.todo # None
    BY <1>8, NoneIsNoList DEF Replace
  <2>2. Mentions(matches[Top.trigger].body) \subseteq DOMAIN Top.scope
    BY <2>1, Injects
  <2>3. Finish(text)
    BY <1>8, <2>2 DEF Replace
  <2>4. /\ DataInv /\ FrameOK(Top) /\ Depth \in Nat /\ Depth > 0 /\ Top = frames[Depth] /\ Depth = Len(frames)
    BY <2>1, StackTyped DEF IInv, StatusInv, Depth
  <2>5. FrameMeant(Top)
    BY <2>4 DEF Meant
  <2>6. /\ MeaningOf(Top.trigger, Top.vars, Sub) = IF text = <<>> THEN <<>> ELSE ApplyCasing(text)
        /\ Top.vars = matches[Top.trigger].vars => Top.trigger \in Ending
    BY <2>1, <2>4, <2>5, TextIsMeaning, Zenon
  <2> HIDE DEF text
  <2> QED BY <2>1, <2>3, <2>6, FinishMeant
<1> QED BY <1>1, <1>2, <1>3, <1>4, <1>5, <1>6, <1>7, <1>8 DEF render_template

LEMMA MeantStep == IInv /\ MeantInv /\ [Next]_vars => MeantInv'
<1> SUFFICES ASSUME IInv, MeantInv, [Next]_vars, EnvironmentsFixed' PROVE Meant'
  BY DEF MeantInv
<1>1. UNCHANGED <<matches, globals, root>> => EnvironmentsFixed /\ Meant
  BY FixedStays DEF MeantInv
<1>2. CASE NotFound
  <2>1. UNCHANGED <<matches, globals, root, style, frames>> /\ status' \in {"none", "NotFound"}
    BY <1>2 DEF NotFound
  <2> QED BY <1>1, <2>1, StillMeant DEF Meant
<1>3. CASE UNCHANGED vars
  <2>1. UNCHANGED <<matches, globals, root, style, frames, status, output>>
    BY <1>3 DEF vars
  <2> QED BY <1>1, <2>1, StillMeant DEF Meant
<1>4. CASE render_template
  <2>1. UNCHANGED <<matches, globals, root>>
    BY <1>4 DEF render_template, Plain, Ordered, NotOrdered, Overflow, NoSubMatch, Calculate, Form,
                Extension, Replace, Nest, Finish, Return, Fail
  <2> QED BY <1>1, <1>4, <2>1, RenderMeant
<1>5. ASSUME NEW t \in Triggers, FoundByTrigger(t) \/ FoundByRegex(t) PROVE Meant'
  <2>1. PICK groups : Begin(t, groups)
    BY <1>5 DEF FoundByTrigger, FoundByRegex
  <2> DEFINE f == Frame(t, groups)
  <2>2. frames' = <<f>> /\ status' = "rendering"
    BY <2>1 DEF Begin
  <2>3. f.todo = None /\ DOMAIN f.scope = {}
    BY DEF Frame
  <2> HIDE DEF f
  <2>4. (\A i \in 1 .. Len(frames) : FrameMeant(frames[i]))'
    <3>1. Len(frames') = 1 /\ frames'[1] = f /\ 1 .. 1 = {1}
      BY <2>2
    <3> QED BY <2>3, <3>1 DEF FrameMeant
  <2> QED BY <2>2, <2>4 DEF Meant
<1> QED BY <1>2, <1>3, <1>4, <1>5 DEF Next

(* An expansion that succeeds is what its match means by the definitions of  *)
(* its names, whichever order was taken and however deep its matches are     *)
(* nested: what is in a scope is what it means, and a match that gives a text *)
(* is one whose meaning does not change with further rounds.  What a command *)
(* reads without naming it is left out of this only where the order decides. *)
THEOREM OutputsAreMeant == Spec => []OutputIsMeaning
<1>1. Init => MeantInv
  <2> SUFFICES ASSUME Init PROVE Meant
    BY DEF MeantInv
  <2>1. frames = <<>> /\ status = "typed" /\ 1 .. Len(<<>>) = {}
    BY DEF Init
  <2> QED BY <2>1 DEF Meant
<1>2. MeantInv => OutputIsMeaning
  BY DEF MeantInv, Meant, OutputIsMeaning
<1> QED BY <1>1, <1>2, InitInv, StepInv, MeantStep, PTL DEF Spec
-----------------------------------------------------------------------------
(* An order or an error *)

LEMMA GraphTyped ==
  ASSUME DataInv, NEW t, NEW vs \in Seq(AnyVariable)
  PROVE  LET g == Graph(t, vs)
         IN  Body \in DOMAIN g /\ DOMAIN g \subseteq Names /\ \A n \in DOMAIN g : g[n] \subseteq Names
<1> DEFINE gs == [n \in DOMAIN globals |-> globals[n].uses]
           g == Graph(t, vs)
<1>1. DOMAIN g = {Body} \cup DOMAIN globals \cup LocalNames(vs)
  BY BodyNode
<1>2. LocalNames(vs) \subseteq Names /\ DOMAIN globals \subseteq Names
  BY LookUp
<1>3. Mentions(matches[t].body) \subseteq Names
  BY DEF Mentions
<1>4. \A i \in DOMAIN vs : vs[i].uses \subseteq Names
  BY VariableFacts
<1>5. ASSUME NEW n \in LocalNames(vs) PROVE g[n] \subseteq Names
  <2>1. g[n] = LocalUses(vs, LastOf(vs, n)) /\ LastOf(vs, n) \in DOMAIN vs
    BY LastOfExists DEF Graph, generate_nodes
  <2>2. LastOf(vs, n) > 1 => LastOf(vs, n) - 1 \in DOMAIN vs
    BY <2>1
  <2> QED BY <1>2, <1>4, <2>1, <2>2 DEF LocalUses, LocalNames
<1>6. ASSUME NEW n \in DOMAIN globals \ LocalNames(vs) PROVE g[n] \subseteq Names
  <2>1. globals[n] \in AnyVariable
    BY DEF DataInv, AnyVariable
  <2>2. g[n] = globals[n].uses
    BY DEF Graph, generate_nodes
  <2> QED BY <2>1, <2>2, VariableFacts
<1>7. ASSUME Body \notin DOMAIN globals \cup LocalNames(vs) PROVE g[Body] \subseteq Names
  BY <1>2, <1>3, <1>7 DEF Graph, generate_nodes
<1> HIDE DEF g
<1>8. \A n \in DOMAIN g : g[n] \subseteq Names
  BY <1>1, <1>5, <1>6, <1>7
<1> QED BY <1>1, <1>2, <1>8, BodyAssumption DEF g

LEMMA OrderExists ==
  ASSUME NEW g, Body \in DOMAIN g, DOMAIN g \subseteq Names, \A n \in DOMAIN g : g[n] \subseteq Names,
         ~Evaluation(g)!Circular, ~Evaluation(g)!Missing
  PROVE  Orders(g) # {}
<1> DEFINE R == Evaluation(g)!Reachable
<1>1. R \subseteq Names /\ R \subseteq DOMAIN g
  BY DEF Evaluation!Reachable, Evaluation!Missing
<1>2. Body \in R
  BY BodyAssumption DEF Evaluation!Reachable, Evaluation!Closed
<1>3. ASSUME NEW n \in R, NEW d \in g[n] PROVE d \in R
  <2>1. d \in Names /\ n \in DOMAIN g
    BY <1>1
  <2>2. ASSUME NEW S \in SUBSET Names, Evaluation(g)!Closed(S) PROVE d \in S
    <3>1. n \in S
      BY <2>2 DEF Evaluation!Reachable
    <3> QED BY <2>1, <2>2, <3>1 DEF Evaluation!Closed
  <2> QED BY <2>1, <2>2 DEF Evaluation!Reachable
<1>4. ASSUME NEW S \in SUBSET R, Body \in S, \A n \in S : g[n] \subseteq S PROVE S = R
  <2>1. S \in SUBSET Names
    BY <1>1
  <2>2. Evaluation(g)!Closed(S)
    BY <1>4 DEF Evaluation!Closed
  <2>3. \A n \in R : n \in S
    BY <2>1, <2>2 DEF Evaluation!Reachable
  <2> HIDE DEF R
  <2> QED BY <2>3
<1>5. ASSUME NEW C \in SUBSET R, C # {} PROVE \E n \in C : g[n] \cap C = {}
  BY <1>1, <1>5 DEF Evaluation!Circular
<1>6. IsFiniteSet(R)
  <2> HIDE DEF R
  <2> QED BY <1>1, FiniteAssumption, FS_Subset
<1>7. PICK s \in SetToSeqs(R) : Topological(s, g, Cardinality(R), Body)
  <2>1. NeedsAll(Body, g, R) /\ Acyclic(g, R)
    BY <1>4, <1>5 DEF NeedsAll, Acyclic
  <2> HIDE DEF R
  <2> QED BY <1>2, <1>3, <1>6, <2>1, TopologicalOrderExists
<1>8. Evaluation(g)!Valid(s)
  <2> DEFINE N == Cardinality(R)
  <2>1. N \in Nat /\ R # {} /\ (N = 0 <=> R = {})
    <3> HIDE DEF R
    <3> QED BY <1>2, <1>6, FS_CardinalityType, FS_EmptySet
  <2>2. s \in [1 .. N -> R] /\ \A i, j \in 1 .. N : s[i] = s[j] => i = j
    <3> HIDE DEF R
    <3> QED BY <1>7 DEF SetToSeqs
  <2>3. Len(s) = N /\ N > 0
    <3> HIDE DEF R
    <3> QED BY <2>1, <2>2
  <2>4. s[N] = Body /\ \A i \in 1 .. N : \A d \in g[s[i]] : \E j \in 1 .. i - 1 : s[j] = d
    BY <1>7 DEF Topological
  <2>5. \A i \in 1 .. N : s[i] \in R \cap DOMAIN g
    BY <1>1, <2>2
  <2> HIDE DEF N
  <2> QED BY <2>2, <2>3, <2>4, <2>5 DEF Evaluation!Valid
<1>9. Front(s) \in Orders(g)
  BY <1>1, <1>7, <1>8 DEF Orders
<1> QED BY <1>9

(* In an order, of the nodes of a cycle none could be the first. *)
LEMMA OrderExcludesErrors ==
  ASSUME NEW g, Orders(g) # {}
  PROVE  ~Evaluation(g)!Circular /\ ~Evaluation(g)!Missing
<1> DEFINE R == Evaluation(g)!Reachable
<1>1. R \subseteq DOMAIN g
  BY DEF Orders
<1>2. PICK s \in SetToSeqs(R) : Evaluation(g)!Valid(s)
  BY <1>1 DEF Orders
<1>3. R \subseteq Names
  BY DEF Evaluation!Reachable
<1> DEFINE L == Len(s)
<1>4. s \in Seq(R) /\ ToSet(s) = R /\ L \in Nat /\ DOMAIN s = 1 .. L
  <2>1. IsFiniteSet(R)
    <3> HIDE DEF R
    <3> QED BY <1>3, FiniteAssumption, FS_Subset
  <2> HIDE DEF R
  <2> QED BY <1>2, <2>1, SetToSeqsFacts, LenProperties
<1>5. \A i \in 1 .. L : \A d \in g[s[i]] : \E j \in 1 .. i - 1 : s[j] = d
  BY <1>2 DEF Evaluation!Valid
<1>6. ~Evaluation(g)!Missing
  BY <1>1 DEF Evaluation!Missing
<1>7. ASSUME NEW C \in SUBSET R, C # {} PROVE \E n \in C : g[n] \cap C = {}
  <2> HIDE DEF R, L
  <2> DEFINE I == {i \in 1 .. L : s[i] \in C}
  <2>1. I # {} /\ I \in SUBSET Nat
    BY <1>4, <1>7 DEF ToSet
  <2>2. PICK i \in I : \A k \in I : i <= k
    <3> HIDE DEF I
    <3> QED BY <2>1, MinExists
  <2>3. ASSUME NEW d \in g[s[i]], d \in C PROVE FALSE
    <3>1. PICK j \in 1 .. i - 1 : s[j] = d
      BY <1>5, <2>2, <2>3
    <3>2. j \in I /\ j < i
      BY <1>4, <2>2, <2>3, <3>1
    <3> QED BY <1>4, <2>2, <3>2
  <2> QED BY <2>2, <2>3
<1>8. ~Evaluation(g)!Circular
  BY <1>7 DEF Evaluation!Circular
<1> QED BY <1>6, <1>8

(* When a rendering orders the variables of its match, there is an order   *)
(* exactly when there is no error to report: it is never stuck, and it      *)
(* never reports an error for a match that could have been rendered.        *)
THEOREM OrderedOrNot ==
  Spec => [](Starts => LET g == Graph(Top.trigger, Top.vars)
                       IN  Orders(g) # {} <=> ~Evaluation(g)!Circular /\ ~Evaluation(g)!Missing)
<1> DEFINE Either == LET g == Graph(Top.trigger, Top.vars)
                     IN  Orders(g) # {} <=> ~Evaluation(g)!Circular /\ ~Evaluation(g)!Missing
<1>1. Spec => []IInv
  BY InitInv, StepInv, PTL DEF Spec
<1>2. IInv => (Starts => Either)
  <2> SUFFICES ASSUME IInv, Starts PROVE Either
    OBVIOUS
  <2>1. frames # <<>> /\ FrameOK(Top)
    <3>1. frames # <<>> /\ IsList(frames) /\ \A i \in 1 .. Len(frames) : FrameOK(frames[i])
      BY DEF IInv, StackInv, StatusInv, Starts
    <3>2. Len(frames) \in 1 .. Len(frames)
      BY <3>1 DEF IsList
    <3> QED BY <3>1, <3>2 DEF Top, Depth
  <2>2. Top.vars \in Seq(AnyVariable) /\ DataInv
    BY <2>1 DEF FrameOK, IInv
  <2> DEFINE g == Graph(Top.trigger, Top.vars)
  <2>3. Body \in DOMAIN g /\ DOMAIN g \subseteq Names /\ \A n \in DOMAIN g : g[n] \subseteq Names
    BY <2>2, GraphTyped
  <2> HIDE DEF g
  <2>4. Orders(g) # {} <=> ~Evaluation(g)!Circular /\ ~Evaluation(g)!Missing
    BY <2>3, OrderExists, OrderExcludesErrors
  <2> QED BY <2>4 DEF g
<1> HIDE DEF Either
<1>3. Spec => [](Starts => Either)
  BY <1>1, <1>2, PTL
<1> QED BY <1>3 DEF Either
-----------------------------------------------------------------------------
(* A rendering cannot go on forever *)

(* What a call at depth d has left: a call not begun, one that has not      *)
(* ordered its variables, and then the variables it has not evaluated.      *)
Left(d) ==
  IF d > Depth THEN Cardinality(Names) + 2
  ELSE IF frames[d].todo = None THEN Cardinality(Names) + 1 ELSE Len(frames[d].todo)

Phase == IF status = "typed" THEN 2 ELSE IF status = "rendering" THEN 1 ELSE 0

Remaining == [i \in 1 .. MaxDepth + 1 |-> IF i = 1 THEN Phase ELSE Left(i - 1)]

LEMMA RemainingTyped == IInv => Remaining \in [1 .. MaxDepth + 1 -> Nat]
<1> SUFFICES ASSUME IInv PROVE Remaining \in [1 .. MaxDepth + 1 -> Nat]
  OBVIOUS
<1>1. Phase \in Nat
  BY DEF Phase
<1>2. ASSUME NEW d \in 1 .. MaxDepth PROVE Left(d) \in Nat
  <2>1. IsList(frames) /\ Len(frames) \in Nat /\ \A i \in 1 .. Len(frames) : FrameOK(frames[i])
    <3>1. StackInv
      BY DEF IInv
    <3> QED BY <3>1, LenProperties DEF StackInv, IsList
  <2>2. CASE d > Depth
    BY <2>2, Counts DEF Left
  <2>3. CASE ~(d > Depth) /\ frames[d].todo = None
    BY <2>3, Counts DEF Left
  <2>4. CASE ~(d > Depth) /\ frames[d].todo # None
    <3>1. d \in 1 .. Len(frames)
      BY <2>1, <2>4 DEF Depth
    <3>2. frames[d].todo \in Seq(ToSet(frames[d].todo))
      BY <2>1, <2>4, <3>1 DEF FrameOK, Agenda, IsList
    <3>3. Len(frames[d].todo) \in Nat
      BY <3>2, LenProperties
    <3> QED BY <2>4, <3>3 DEF Left
  <2> QED BY <2>2, <2>3, <2>4
<1>3. ASSUME NEW i \in 1 .. MaxDepth + 1 PROVE (IF i = 1 THEN Phase ELSE Left(i - 1)) \in Nat
  <2>1. i # 1 => i - 1 \in 1 .. MaxDepth
    BY BoundAssumption
  <2> QED BY <1>1, <1>2, <2>1
<1> QED BY <1>3 DEF Remaining

(* The phases go one way. *)
LEMMA PhaseShrinks ==
  ASSUME \/ status = "typed" /\ status' # "typed"
         \/ status = "rendering" /\ status' \notin {"typed", "rendering"}
  PROVE  Below(Remaining', Remaining)
<1>1. Phase' < Phase
  BY DEF Phase
<1>2. 1 \in 1 .. MaxDepth + 1 /\ 1 .. 1 - 1 = {}
  BY BoundAssumption
<1>3. Remaining'[1] = Phase' /\ Remaining[1] = Phase /\ DOMAIN Remaining = 1 .. MaxDepth + 1
  BY <1>2 DEF Remaining
<1> QED BY <1>1, <1>2, <1>3 DEF Below

(* The calls below depth n are as they were, and that at depth n has less left. *)
LEMMA StackShrinks ==
  ASSUME IInv, IInv', status' = status,
         NEW n \in 1 .. MaxDepth, n - 1 <= Depth, n - 1 <= Depth',
         \A i \in 1 .. n - 1 : frames'[i] = frames[i],
         Left(n)' < Left(n)
  PROVE  Below(Remaining', Remaining)
<1> DEFINE a == Remaining'
           b == Remaining
<1>0. MaxDepth \in Nat /\ n + 1 \in 1 .. MaxDepth + 1 /\ (n + 1) - 1 = n /\ n + 1 # 1
  BY BoundAssumption
<1>1. /\ DOMAIN b = 1 .. MaxDepth + 1
      /\ \A i \in 1 .. MaxDepth + 1 : b[i] = IF i = 1 THEN Phase ELSE Left(i - 1)
      /\ \A i \in 1 .. MaxDepth + 1 : a[i] = IF i = 1 THEN Phase' ELSE Left(i - 1)'
  BY DEF Remaining
<1>2. a[n + 1] < b[n + 1]
  BY <1>0, <1>1
<1>3. ASSUME NEW j \in 1 .. (n + 1) - 1 PROVE a[j] = b[j]
  <2>1. j \in 1 .. MaxDepth + 1
    BY <1>0
  <2>2. CASE j = 1
    <3>1. Phase' = Phase
      BY DEF Phase
    <3> QED BY <1>1, <2>1, <2>2, <3>1
  <2>3. CASE j # 1
    <3>1. j - 1 \in 1 .. n - 1 /\ j - 1 <= n - 1
      BY <1>0, <2>3
    <3>2. Depth \in Int /\ Depth' \in Int
      <4>1. frames \in Seq(ToSet(frames)) /\ frames' \in Seq(ToSet(frames'))
        BY DEF IInv, StackInv, IsList
      <4> QED BY <4>1, LenProperties DEF Depth
    <3>3. ~(j - 1 > Depth) /\ ~(j - 1 > Depth')
      BY <3>1, <3>2
    <3>4. frames'[j - 1] = frames[j - 1]
      BY <3>1
    <3>5. Left(j - 1)' = Left(j - 1)
      BY <3>3, <3>4 DEF Left
    <3> QED BY <1>1, <2>1, <2>3, <3>5
  <2> QED BY <2>2, <2>3
<1> HIDE DEF a, b
<1>4. \E i \in DOMAIN b : a[i] < b[i] /\ \A j \in 1 .. i - 1 : a[j] = b[j]
  BY <1>0, <1>1, <1>2, <1>3
<1> QED BY <1>4 DEF Below, a, b

(* A step that changes the call at the top only *)
LEMMA TopShrinks ==
  ASSUME IInv, IInv', status = "rendering", status' = status,
         NEW f, frames' = [frames EXCEPT ![Depth] = f], f.todo # None, Len(f.todo) < Left(Depth)
  PROVE  Below(Remaining', Remaining)
<1>1. frames # <<>> /\ StackInv /\ StackInv'
  BY DEF IInv, StatusInv
<1>2. Depth \in Nat /\ Depth > 0 /\ Depth <= MaxDepth /\ DOMAIN frames = 1 .. Depth
  BY <1>1, StackTyped
<1>3. PICK n \in 1 .. MaxDepth : n = Depth
  BY <1>2, BoundAssumption
<1>4. Depth' = n
  <2>1. frames' \in Seq(ToSet(frames'))
    BY <1>1 DEF StackInv, IsList
  <2>2. Len(frames') \in Nat /\ DOMAIN frames' = 1 .. Len(frames')
    BY <2>1, LenProperties
  <2>3. DOMAIN frames' = 1 .. n
    BY <1>2, <1>3
  <2>4. \A m, k \in Nat : 1 .. m = 1 .. k => m = k
    OBVIOUS
  <2> QED BY <1>2, <1>3, <2>2, <2>3, <2>4 DEF Depth
<1>5. frames'[n] = f /\ \A i \in 1 .. n - 1 : frames'[i] = frames[i]
  BY <1>2, <1>3
<1>6. ~(n > n) /\ n - 1 <= n
  BY <1>2, <1>3
<1>7. Left(n)' = Len(f.todo)
  BY <1>4, <1>5, <1>6 DEF Left
<1>8. Left(n)' < Left(n)
  BY <1>3, <1>7
<1> QED BY <1>3, <1>4, <1>5, <1>6, <1>8, StackShrinks

(* An order is not what a call that has not ordered its variables has. *)
LEMMA OrderIsNotNone ==
  ASSUME DataInv, NEW t, NEW vs \in Seq(AnyVariable), NEW seq \in Orders(Graph(t, vs))
  PROVE  [i \in DOMAIN seq |-> Definition(vs, seq[i])] # None
<1>1. PICK s \in Seq(Needed(t, vs)) :
        /\ IsOrder(s, t, vs)
        /\ DOMAIN seq = 1 .. Len(s) - 1 /\ \A i \in 1 .. Len(s) - 1 : seq[i] = s[i]
  BY OrderShape
<1> DEFINE L == Len(s)
           todo == [i \in DOMAIN seq |-> Definition(vs, seq[i])]
<1>2. /\ L \in Nat /\ L > 0 /\ L - 1 \in Nat /\ s[L] = Body
      /\ \A i \in 1 .. L : s[i] \in Needed(t, vs)
      /\ \A i, j \in 1 .. L : s[i] = s[j] => i = j
  BY <1>1, LenProperties DEF IsOrder
<1>3. Needed(t, vs) \subseteq {Body} \cup DOMAIN globals \cup LocalNames(vs)
  BY BodyNode DEF Needed
<1> HIDE DEF L
<1>4. ASSUME NEW i \in 1 .. L - 1 PROVE Definition(vs, s[i]) \in AnyVariable
  <2>1. i \in 1 .. L /\ L \in 1 .. L /\ i # L
    BY <1>2
  <2>2. s[i] \in LocalNames(vs) \cup DOMAIN globals
    BY <1>2, <1>3, <2>1
  <2> QED BY <2>2, LookUp
<1>5. todo = [i \in 1 .. L - 1 |-> Definition(vs, s[i])]
  BY <1>1 DEF L
<1> HIDE DEF todo
<1>6. todo \in [1 .. L - 1 -> AnyVariable]
  BY <1>4, <1>5
<1>7. todo \in Seq(AnyVariable)
  BY <1>2, <1>6
<1> QED BY <1>7, NoneIsNoList DEF todo

LEMMA AssignShrinks ==
  ASSUME DataInv, NEW f, FrameOK(f), f.todo \notin {None, <<>>}, NEW text
  PROVE  /\ Assign(f, text).todo # None /\ Len(f.todo) \in Nat
         /\ Len(Assign(f, text).todo) = Len(f.todo) - 1
<1> DEFINE a == Assign(f, text)
<1>1. /\ a.todo = Tail(f.todo) /\ a.todo \in Seq(ToSet(f.todo)) /\ DOMAIN f.todo = 1 .. Len(f.todo)
      /\ Len(f.todo) \in Nat /\ Len(a.todo) = Len(f.todo) - 1
  BY AssignIs, Zenon
<1>2. ToSet(f.todo) \subseteq AnyVariable
  <2>1. \A i \in 1 .. Len(f.todo) : f.todo[i] \in Evaluated(f.trigger, f.vars)
    BY DEF FrameOK, Agenda
  <2>2. f.vars \in Seq(AnyVariable)
    BY DEF FrameOK
  <2> QED BY <1>1, <2>1, <2>2, EvaluatedFacts DEF ToSet
<1>3. a.todo \in Seq(AnyVariable)
  <2> DEFINE S == ToSet(f.todo)
  <2>1. a.todo \in Seq(S) /\ S \subseteq AnyVariable
    BY <1>1, <1>2
  <2> HIDE DEF a, S
  <2> QED BY <2>1
<1> HIDE DEF a
<1> QED BY <1>1, <1>3, NoneIsNoList DEF a

LEMMA OrderedShrinks ==
  ASSUME IInv, IInv', Ordered
  PROVE  Below(Remaining', Remaining)
<1>1. PICK seq \in Orders(Graph(Top.trigger, Top.vars)) :
        frames' = [frames EXCEPT ![Depth].todo = [i \in DOMAIN seq |-> Definition(Top.vars, seq[i])]]
  BY DEF Ordered
<1>2. status = "rendering" /\ Top.todo = None /\ status' = status
  BY DEF Ordered, Starts
<1>3. frames # <<>> /\ StackInv /\ DataInv
  BY <1>2 DEF IInv, StatusInv
<1>4. /\ Depth \in Nat /\ Depth > 0 /\ Depth <= MaxDepth /\ Top = frames[Depth] /\ FrameOK(Top)
      /\ DOMAIN frames = 1 .. Depth
  BY <1>3, StackTyped
<1> DEFINE todo == [i \in DOMAIN seq |-> Definition(Top.vars, seq[i])]
           f == [Top EXCEPT !.todo = todo]
<1>5. todo # None
  BY <1>3, <1>4, OrderIsNotNone DEF FrameOK
<1>6. f.todo = todo
  <2>1. PICK t, vs, td, sc : Top = [trigger |-> t, vars |-> vs, todo |-> td, scope |-> sc]
    BY <1>4, Zenon DEF FrameOK
  <2> HIDE DEF todo
  <2> QED BY <2>1
<1>7. frames' = [frames EXCEPT ![Depth] = f]
  <2> HIDE DEF todo
  <2>1. [frames EXCEPT ![Depth].todo = todo] = [frames EXCEPT ![Depth] = [frames[Depth] EXCEPT !.todo = todo]]
    OBVIOUS
  <2>2. frames' = [frames EXCEPT ![Depth].todo = todo]
    BY <1>1 DEF todo
  <2> QED BY <1>4, <2>1, <2>2
<1> HIDE DEF todo, f
<1>8. Left(Depth) = Cardinality(Names) + 1
  BY <1>2, <1>4 DEF Left
<1>9. Len(f.todo) <= Cardinality(Names)
  <2> DEFINE g == [trigger |-> Top.trigger, vars |-> Top.vars, todo |-> todo, scope |-> <<>>]
  <2>1. g.trigger = Top.trigger /\ g.vars = Top.vars /\ g.todo = todo /\ DOMAIN g.scope = {}
    OBVIOUS
  <2> HIDE DEF g
  <2>2. FrameMeant(g)
    BY <1>3, <1>4, <2>1, OrderMeant DEF FrameOK, todo
  <2> QED BY <1>5, <1>6, <2>1, <2>2 DEF FrameMeant
<1>10. Len(f.todo) < Left(Depth)
  <2>1. Len(f.todo) \in Int
    <3>1. PICK s \in Seq(Needed(Top.trigger, Top.vars)) : DOMAIN seq = 1 .. Len(s) - 1 /\ IsOrder(s, Top.trigger, Top.vars)
      BY OrderShape
    <3>2. Len(s) \in Nat /\ Len(s) - 1 \in Nat
      BY <3>1, LenProperties DEF IsOrder
    <3>3. todo = [i \in 1 .. Len(s) - 1 |-> todo[i]]
      BY <3>1 DEF todo
    <3>4. Len(todo) = Len(s) - 1
      BY <3>2, <3>3, MakeList
    <3> QED BY <1>6, <3>2, <3>4
  <2> QED BY <1>8, <1>9, <2>1, Counts
<1> QED BY <1>2, <1>5, <1>6, <1>7, <1>10, TopShrinks

LEMMA NestShrinks ==
  ASSUME IInv, IInv', NEW t \in Triggers, Nest(t)
  PROVE  Below(Remaining', Remaining)
<1>1. /\ status = "rendering" /\ status' = status /\ Depth < MaxDepth
      /\ frames' = Append(frames, Frame(t, <<>>))
  BY DEF Nest, Nests, Evaluates
<1>2. frames # <<>> /\ StackInv
  BY <1>1 DEF IInv, StatusInv
<1>3. Depth \in Nat /\ Depth > 0
  BY <1>2, StackTyped
<1>4. PICK n \in 1 .. MaxDepth : n = Depth + 1
  BY <1>1, <1>3, BoundAssumption
<1> DEFINE f == Frame(t, <<>>)
<1>5. f.todo = None
  BY DEF Frame
<1> HIDE DEF f
<1>6. Len(frames') = n /\ frames'[n] = f /\ \A i \in 1 .. Depth : frames'[i] = frames[i]
  BY <1>1, <1>2, <1>4, PushFacts DEF f
<1>7. Depth' = n /\ n > Depth /\ n - 1 = Depth /\ ~(n > n) /\ n - 1 <= n /\ Depth <= Depth
  BY <1>3, <1>4, <1>6 DEF Depth
<1>8. Left(n) = Cardinality(Names) + 2 /\ Left(n)' = Cardinality(Names) + 1
  BY <1>5, <1>6, <1>7 DEF Left
<1>9. Left(n)' < Left(n)
  BY <1>8, Counts
<1>10. \A i \in 1 .. n - 1 : frames'[i] = frames[i]
  BY <1>6, <1>7
<1> QED BY <1>1, <1>7, <1>9, <1>10, StackShrinks

LEMMA ReturnShrinks ==
  ASSUME IInv, IInv', status = "rendering", NEW text, Return(text)
  PROVE  Below(Remaining', Remaining)
<1>1. frames # <<>> /\ StackInv
  BY DEF IInv, StatusInv
<1>2. CASE Depth = 1
  BY <1>2, PhaseShrinks DEF Return
<1>3. CASE Depth # 1
  <2>1. /\ Depth \in Nat /\ Depth > 0 /\ Depth <= MaxDepth /\ Depth = Len(frames)
    BY <1>1, StackTyped DEF Depth
  <2>2. PICK n \in 1 .. MaxDepth : n = Depth - 1
    BY <1>3, <2>1, BoundAssumption
  <2> DEFINE caller == frames[Depth - 1]
             f == Assign(caller, text)
  <2>3. frames' = Append(SubSeq(frames, 1, Depth - 2), f) /\ status' = status
    BY <1>3 DEF Return, AssignMatch
  <2>4. n \in 1 .. Len(frames) - 1 /\ n \in 1 .. Len(frames) /\ Depth - 2 = n - 1
    BY <2>1, <2>2
  <2>5. FrameOK(caller) /\ caller.todo \notin {None, <<>>}
    BY <1>1, <2>2, <2>4 DEF StackInv, AtMatch
  <2> HIDE DEF caller
  <2>6. f.todo # None /\ Len(caller.todo) \in Nat /\ Len(f.todo) = Len(caller.todo) - 1
    BY <2>5, AssignShrinks DEF IInv
  <2> HIDE DEF f
  <2>7. /\ Len(frames') = Depth - 1 /\ frames'[Depth - 1] = f
        /\ \A i \in 1 .. Depth - 2 : frames'[i] = frames[i]
    BY <1>1, <1>3, <2>3, PopFacts
  <2>8. Depth' = n /\ ~(n > Depth) /\ ~(n > n) /\ n - 1 <= n /\ n - 1 <= Depth
    BY <2>1, <2>2, <2>7 DEF Depth
  <2>9. Left(n) = Len(caller.todo)
    BY <2>2, <2>5, <2>8 DEF Left, caller
  <2>10. Left(n)' = Len(f.todo)
    BY <2>2, <2>6, <2>7, <2>8 DEF Left
  <2>11. Left(n)' < Left(n)
    BY <2>6, <2>9, <2>10
  <2>12. \A i \in 1 .. n - 1 : frames'[i] = frames[i]
    BY <2>4, <2>7
  <2> QED BY <2>3, <2>8, <2>11, <2>12, StackShrinks
<1> QED BY <1>2, <1>3

LEMMA ExtensionShrinks ==
  ASSUME IInv, IInv', Evaluates, Extension
  PROVE  Below(Remaining', Remaining)
<1>1. PICK env, calculated :
        /\ env \in convert_to_env_variables(Top.scope) /\ calculated = calculate(Current, Top.scope, env)
        /\ \/ /\ calculated.result = "Success"
              /\ frames' = [frames EXCEPT ![Depth] = Assign(@, calculated.output)]
              /\ UNCHANGED <<matches, globals, root, style, status, output>>
           \/ calculated.result = "Error" /\ Fail("RenderingError")
           \/ calculated.result \in {"Aborted", "panic"} /\ Fail(calculated.result)
  BY DEF Extension
<1>2. status = "rendering" /\ Top.todo \notin {None, <<>>}
  BY DEF Evaluates
<1>3. ASSUME status' \in {"RenderingError", "Aborted", "panic"}
      PROVE  Below(Remaining', Remaining)
  BY <1>2, <1>3, PhaseShrinks
<1>4. ASSUME frames' = [frames EXCEPT ![Depth] = Assign(@, calculated.output)], status' = status
      PROVE  Below(Remaining', Remaining)
  <2>1. frames # <<>> /\ StackInv /\ DataInv
    BY <1>2 DEF IInv, StatusInv
  <2>2. FrameOK(Top) /\ Top = frames[Depth] /\ DOMAIN frames = 1 .. Depth /\ Depth \in Nat
    BY <2>1, StackTyped
  <2> DEFINE f == Assign(Top, calculated.output)
  <2>3. frames' = [frames EXCEPT ![Depth] = f]
    <3> HIDE DEF f
    <3>1. [frames EXCEPT ![Depth] = Assign(@, calculated.output)] = [frames EXCEPT ![Depth] = Assign(frames[Depth], calculated.output)]
      OBVIOUS
    <3> QED BY <1>4, <2>2, <3>1 DEF f
  <2>4. f.todo # None /\ Len(Top.todo) \in Nat /\ Len(f.todo) = Len(Top.todo) - 1
    BY <1>2, <2>1, <2>2, AssignShrinks
  <2> HIDE DEF f
  <2>5. Left(Depth) = Len(Top.todo)
    BY <1>2, <2>2 DEF Left
  <2>6. Len(f.todo) < Left(Depth)
    BY <2>4, <2>5
  <2> QED BY <1>2, <1>4, <2>3, <2>4, <2>6, TopShrinks
<1> QED BY <1>1, <1>3, <1>4 DEF Fail

LEMMA StepShrinks ==
  ASSUME IInv, IInv', Next
  PROVE  Below(Remaining', Remaining)
<1>1. ASSUME status = "rendering", NEW text, Finish(text) PROVE Below(Remaining', Remaining)
  <2>1. Fail("panic") \/ Return(ApplyCasing(text))
    BY <1>1 DEF Finish
  <2> QED BY <1>1, <2>1, ReturnShrinks, PhaseShrinks DEF Fail
<1>2. ASSUME status = "rendering", NEW error, Fail(error), error \notin {"typed", "rendering"}
      PROVE  Below(Remaining', Remaining)
  BY <1>2, PhaseShrinks DEF Fail
<1>3. CASE NotFound
  BY <1>3, PhaseShrinks DEF NotFound
<1>4. ASSUME NEW t \in Triggers, FoundByTrigger(t) \/ FoundByRegex(t)
      PROVE  Below(Remaining', Remaining)
  <2>1. status = "typed" /\ \E groups : Begin(t, groups)
    BY <1>4 DEF FoundByTrigger, FoundByRegex
  <2>2. status' = "rendering"
    BY <2>1 DEF Begin
  <2> QED BY <2>1, <2>2, PhaseShrinks
<1>5. CASE Plain
  BY <1>1, <1>5 DEF Plain, Starts
<1>6. CASE Ordered
  BY <1>6, OrderedShrinks
<1>7. CASE NotOrdered
  BY <1>2, <1>7 DEF NotOrdered, Starts
<1>8. CASE Overflow
  BY <1>2, <1>8 DEF Overflow, Evaluates
<1>9. CASE NoSubMatch
  BY <1>2, <1>9 DEF NoSubMatch, Evaluates
<1>10. CASE Calculate
  <2>1. Evaluates /\ status = "rendering"
    BY <1>10 DEF Calculate, Evaluates
  <2>2. Return(<<>>) \/ Extension \/ Fail("MissingVariable")
    BY <1>10 DEF Calculate, Form
  <2> QED BY <1>2, <2>1, <2>2, ReturnShrinks, ExtensionShrinks
<1>11. CASE Replace
  <2>1. status = "rendering"
    BY <1>11 DEF Replace
  <2>2. Fail("MissingVariable") \/ \E text : Finish(text)
    BY <1>11 DEF Replace
  <2> QED BY <1>1, <1>2, <2>1, <2>2
<1>12. ASSUME NEW t \in Triggers, Nest(t) PROVE Below(Remaining', Remaining)
  BY <1>12, NestShrinks
<1> QED BY <1>3, <1>4, <1>5, <1>6, <1>7, <1>8, <1>9, <1>10, <1>11, <1>12 DEF Next, render_template

(* Matches that refer to each other in a cycle included, every step of a    *)
(* rendering lowers Remaining, a tuple of numbers, in lexicographic order:  *)
(* by BelowIsWellFounded a rendering takes finitely many steps.             *)
THEOREM RenderingShrinks ==
  Spec => [](Remaining \in [1 .. MaxDepth + 1 -> Nat]) /\ [][Below(Remaining', Remaining)]_vars
<1>1. Spec => []IInv
  BY InitInv, StepInv, PTL DEF Spec
<1>2. IInv /\ IInv' /\ [Next]_vars => [Below(Remaining', Remaining)]_vars
  BY StepShrinks
<1> QED BY <1>1, <1>2, RemainingTyped, PTL DEF Spec
=============================================================================
