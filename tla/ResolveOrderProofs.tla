-------------------------- MODULE ResolveOrderProofs --------------------------
(***************************************************************************)
(* Proofs about ResolveOrder, for every set of names and every bound: type *)
(* correctness, and that the walk implements EvaluationOrder.              *)
(***************************************************************************)
EXTENDS ResolveOrder, DataLemmas

(* The calls in progress form a chain from the body, each node waiting for  *)
(* the next; a frame has resolved what its loop has finished with.          *)
FramesInv ==
  /\ status # "ok" <=> Len(frames) > 0
  /\ Len(frames) > 0 => frames[1].node = Body
  /\ \A i \in 1 .. Len(frames) :
       /\ frames[i].node \in seen \ resolved
       /\ frames[i].todo \subseteq node_map[frames[i].node]
       /\ node_map[frames[i].node] \ frames[i].todo \subseteq resolved
  /\ \A i, j \in 1 .. Len(frames) : frames[i].node = frames[j].node => i = j
  /\ \A i \in 1 .. Len(frames) - 1 : frames[i + 1].node \in frames[i].todo
  /\ \A n \in seen \ resolved : \E i \in 1 .. Len(frames) : frames[i].node = n

(* The order so far is without repetition and topological. *)
OrderInv ==
  /\ \A n \in resolved : \E i \in 1 .. Len(eval_order) : eval_order[i] = n
  /\ \A i, j \in 1 .. Len(eval_order) : eval_order[i] = eval_order[j] => i = j
  /\ \A i \in 1 .. Len(eval_order) : \A d \in node_map[eval_order[i]] :
       \E j \in 1 .. i - 1 : eval_order[j] = d
  /\ status = "ok" => Len(eval_order) > 0 /\ eval_order[Len(eval_order)] = Body

SeenInv == seen \subseteq Evaluation!Reachable

IInv == TypeOK /\ FramesInv /\ OrderInv /\ SeenInv

-----------------------------------------------------------------------------
(* Sequences and numbers *)

LEMMA DropFacts ==
  ASSUME NEW fs \in Seq(Frames), Len(fs) > 0, NEW d
  PROVE  /\ Drop(fs, d) \in Seq(Frames)
         /\ Len(Drop(fs, d)) = Len(fs)
         /\ \A i \in 1 .. Len(fs) : Drop(fs, d)[i].node = fs[i].node
         /\ \A i \in 1 .. Len(fs) - 1 : Drop(fs, d)[i] = fs[i]
         /\ Drop(fs, d)[Len(fs)].todo = fs[Len(fs)].todo \ {d}
<1> DEFINE g == [fs[Len(fs)] EXCEPT !.todo = @ \ {d}]
<1>0. fs[Len(fs)] \in Frames
  OBVIOUS
<1>1. g \in Frames /\ g.node = fs[Len(fs)].node /\ g.todo = fs[Len(fs)].todo \ {d}
  BY <1>0 DEF Frames
<1>2. Drop(fs, d) = [fs EXCEPT ![Len(fs)] = g]
  BY DEF Drop
<1> HIDE DEF g
<1> QED BY <1>1, <1>2

LEMMA PushFacts ==
  ASSUME NEW fs \in Seq(Frames), NEW f \in Frames
  PROVE  /\ Append(fs, f) \in Seq(Frames)
         /\ Len(Append(fs, f)) = Len(fs) + 1
         /\ \A i \in 1 .. Len(fs) : Append(fs, f)[i] = fs[i]
         /\ Append(fs, f)[Len(fs) + 1] = f
OBVIOUS

LEMMA PopFacts ==
  ASSUME NEW fs \in Seq(Frames), Len(fs) > 1
  PROVE  /\ SubSeq(fs, 1, Len(fs) - 1) \in Seq(Frames)
         /\ Len(SubSeq(fs, 1, Len(fs) - 1)) = Len(fs) - 1
         /\ \A i \in 1 .. Len(fs) - 1 : SubSeq(fs, 1, Len(fs) - 1)[i] = fs[i]
OBVIOUS

LEMMA AddFacts ==
  ASSUME NEW S, NEW seq \in Seq(S), NEW n
  PROVE  /\ Append(seq, n) \in Seq(S \cup {n})
         /\ Len(Append(seq, n)) = Len(seq) + 1
         /\ \A i \in 1 .. Len(seq) : Append(seq, n)[i] = seq[i]
         /\ Append(seq, n)[Len(seq) + 1] = n
<1>1. seq \in Seq(S \cup {n})
  OBVIOUS
<1> QED BY <1>1

-----------------------------------------------------------------------------
(* The initial states *)

LEMMA NodesTyped ==
  ASSUME NEW vs \in LocalVars, NEW globals \in GlobalVars, NEW uses \in Uses
  PROVE  LET m == generate_nodes(vs, globals, uses) IN
         /\ DOMAIN m \subseteq Names
         /\ m \in [DOMAIN m -> SUBSET Names]
         /\ Body \in DOMAIN m
<1>1. PICK n \in 0 .. MaxLocals : vs \in [1 .. n -> Variables]
  BY DEF LocalVars
<1>2. n \in Nat
  BY <1>1, BoundAssumption
<1>3. \A i \in 1 .. n : vs[i].name \in Names /\ vs[i].uses \subseteq Names
  BY <1>1 DEF Variables, Uses
<1>4. LocalNames(vs) \subseteq Names
  BY <1>1, <1>3 DEF LocalNames
<1>5. DOMAIN globals \subseteq Names /\ \A x \in DOMAIN globals : globals[x] \subseteq Names
  BY DEF GlobalVars, Uses
<1>6. ASSUME NEW x \in LocalNames(vs) PROVE LocalUses(vs, LastOf(vs, x)) \subseteq Names
  <2> DEFINE S == {i \in 1 .. n : vs[i].name = x}
  <2>1. S \in SUBSET (1 .. n) /\ S # {}
    BY <1>1 DEF LocalNames
  <2>2. \E m \in S : \A k \in S : k <= m
    BY <1>2, <2>1, MaxExists
  <2>3. \E i \in DOMAIN vs : vs[i].name = x /\ \A j \in DOMAIN vs : vs[j].name = x => j <= i
    BY <1>1, <2>2
  <2>4. LastOf(vs, x) \in 1 .. n
    BY <1>1, <2>3 DEF LastOf
  <2> QED BY <1>1, <1>2, <1>3, <2>4 DEF LocalUses
<1> DEFINE m == generate_nodes(vs, globals, uses)
<1>7. DOMAIN m = {Body} \cup DOMAIN globals \cup LocalNames(vs)
  BY DEF generate_nodes
<1>8. ASSUME NEW x \in DOMAIN m PROVE m[x] \subseteq Names
  BY <1>4, <1>5, <1>6, <1>7 DEF generate_nodes, Uses
<1>9. m = [x \in DOMAIN m |-> m[x]]
  BY DEF generate_nodes
<1>10. DOMAIN m \subseteq Names /\ m \in [DOMAIN m -> SUBSET Names] /\ Body \in DOMAIN m
  <2> HIDE DEF m
  <2> QED BY <1>4, <1>5, <1>7, <1>8, <1>9, BodyAssumption
<1> QED BY <1>10

LEMMA InitInv == Init => IInv
<1> SUFFICES ASSUME Init PROVE IInv
  OBVIOUS
<1>1. /\ DOMAIN node_map \subseteq Names
      /\ node_map \in [DOMAIN node_map -> SUBSET Names]
      /\ Body \in DOMAIN node_map
  BY NodesTyped DEF Init
<1>2. TypeOK
  BY <1>1, BodyAssumption DEF Init, TypeOK, Frames
<1>3. frames = <<[node |-> Body, todo |-> node_map[Body]]>>
      /\ eval_order = <<>> /\ resolved = {} /\ seen = {Body} /\ status = "running"
  BY DEF Init
<1>4. FramesInv
  BY <1>3 DEF FramesInv
<1>5. OrderInv
  BY <1>3 DEF OrderInv
<1>6. SeenInv
  BY <1>3, BodyAssumption DEF SeenInv, Evaluation!Reachable, Evaluation!Closed
<1> QED BY <1>2, <1>4, <1>5, <1>6 DEF IInv

-----------------------------------------------------------------------------
(* The steps of the walk *)

LEMMA OrderStays ==
  ASSUME OrderInv, node_map' = node_map, eval_order' = eval_order,
         resolved' = resolved, status' = status
  PROVE  OrderInv'
<1>1. \A n \in resolved' : \E i \in 1 .. Len(eval_order') : eval_order'[i] = n
  BY DEF OrderInv
<1>2. \A i, j \in 1 .. Len(eval_order') : eval_order'[i] = eval_order'[j] => i = j
  BY DEF OrderInv
<1>3. \A i \in 1 .. Len(eval_order') : \A d \in node_map'[eval_order'[i]] :
        \E j \in 1 .. i - 1 : eval_order'[j] = d
  BY DEF OrderInv
<1>4. status' = "ok" => Len(eval_order') > 0 /\ eval_order'[Len(eval_order')] = Body
  BY DEF OrderInv
<1> QED BY <1>1, <1>2, <1>3, <1>4 DEF OrderInv

LEMMA SkipInv == ASSUME IInv, NEW d \in Names, Skip(d) PROVE IInv'
<1>1. /\ frames \in Seq(Frames) /\ Len(frames) > 0
      /\ frames' = Drop(frames, d) /\ d \in resolved
      /\ UNCHANGED <<locals, node_map, eval_order, resolved, seen, status>>
  BY DEF IInv, Skip, Looks, TypeOK, FramesInv
<1>2. /\ frames' \in Seq(Frames) /\ Len(frames') = Len(frames)
      /\ \A i \in 1 .. Len(frames) : frames'[i].node = frames[i].node
      /\ \A i \in 1 .. Len(frames) - 1 : frames'[i] = frames[i]
      /\ frames'[Len(frames)].todo = frames[Len(frames)].todo \ {d}
  BY <1>1, DropFacts
<1>3. TypeOK'
  BY <1>1, <1>2 DEF IInv, TypeOK
<1>4. FramesInv'
  <2>1. ASSUME NEW i \in 1 .. Len(frames')
        PROVE  /\ frames'[i].node \in seen' \ resolved'
               /\ frames'[i].todo \subseteq node_map'[frames'[i].node]
               /\ node_map'[frames'[i].node] \ frames'[i].todo \subseteq resolved'
    <3>1. CASE i = Len(frames)
      BY <1>1, <1>2, <3>1 DEF IInv, FramesInv
    <3>2. CASE i # Len(frames)
      BY <1>1, <1>2, <3>2 DEF IInv, FramesInv
    <3> QED BY <3>1, <3>2
  <2>2. \A i \in 1 .. Len(frames') - 1 : frames'[i + 1].node \in frames'[i].todo
    BY <1>1, <1>2 DEF IInv, FramesInv
  <2> QED BY <1>1, <1>2, <2>1, <2>2 DEF IInv, FramesInv
<1>5. node_map' = node_map /\ eval_order' = eval_order /\ resolved' = resolved
      /\ seen' = seen /\ status' = status
  BY <1>1
<1>6. OrderInv'
  BY <1>5, OrderStays DEF IInv
<1>7. SeenInv'
  BY <1>5 DEF IInv, SeenInv, Evaluation!Reachable, Evaluation!Closed
<1> QED BY <1>3, <1>4, <1>6, <1>7 DEF IInv

LEMMA FailInv ==
  ASSUME IInv, status = "running", NEW error, Fail(error),
         error \in {"CircularDependency", "MissingVariable"}
  PROVE  IInv'
BY DEF IInv, Fail, TypeOK, FramesInv, OrderInv, SeenInv, Evaluation!Reachable, Evaluation!Closed

(* What the innermost call looks at is needed by the body. *)
LEMMA LooksReachable ==
  ASSUME IInv, NEW d \in Names, Looks(d)
  PROVE  /\ frames \in Seq(Frames) /\ Len(frames) > 0 /\ Depth \in 1 .. Len(frames)
         /\ d \in node_map[Top.node]
         /\ d \in Evaluation!Reachable
<1>1. /\ frames \in Seq(Frames) /\ Len(frames) > 0 /\ Depth \in 1 .. Len(frames)
      /\ d \in Top.todo
  BY DEF IInv, Looks, TypeOK, FramesInv, Depth
<1>2. Top.node \in seen /\ Top.todo \subseteq node_map[Top.node]
  BY <1>1 DEF IInv, FramesInv, Top
<1>3. Top.node \in Evaluation!Reachable /\ Top.node \in DOMAIN node_map
  BY <1>2 DEF IInv, SeenInv, TypeOK
<1> QED BY <1>1, <1>2, <1>3 DEF Evaluation!Reachable, Evaluation!Closed

LEMMA CallInv == ASSUME IInv, NEW d \in Names, Call(d) PROVE IInv'
<1> DEFINE f == [node |-> d, todo |-> node_map[d]]
<1>1. /\ frames \in Seq(Frames) /\ Len(frames) > 0 /\ Depth \in 1 .. Len(frames)
      /\ d \in Evaluation!Reachable
  BY LooksReachable DEF Call
<1>2. /\ frames' = Append(frames, f) /\ seen' = seen \cup {d}
      /\ d \notin resolved \cup seen /\ d \in DOMAIN node_map
      /\ d \in frames[Len(frames)].todo /\ status = "running"
      /\ UNCHANGED <<locals, node_map, eval_order, resolved, status>>
  BY DEF Call, Looks, Top, Depth
<1>3. f \in Frames /\ f.node = d /\ f.todo = node_map[d]
  BY <1>2 DEF IInv, TypeOK, Frames
<1> HIDE DEF f
<1>4. /\ frames' \in Seq(Frames) /\ Len(frames') = Len(frames) + 1
      /\ \A i \in 1 .. Len(frames) : frames'[i] = frames[i]
      /\ frames'[Len(frames) + 1] = f
  BY <1>1, <1>2, <1>3, PushFacts
<1>5. TypeOK'
  BY <1>2, <1>4 DEF IInv, TypeOK
<1>6. FramesInv'
  <2>1. ASSUME NEW i \in 1 .. Len(frames')
        PROVE  /\ frames'[i].node \in seen' \ resolved'
               /\ frames'[i].todo \subseteq node_map'[frames'[i].node]
               /\ node_map'[frames'[i].node] \ frames'[i].todo \subseteq resolved'
    <3>1. CASE i = Len(frames) + 1
      BY <1>2, <1>3, <1>4, <3>1
    <3>2. CASE i # Len(frames) + 1
      BY <1>1, <1>2, <1>4, <3>2 DEF IInv, FramesInv
    <3> QED BY <3>1, <3>2
  <2>2. ASSUME NEW i \in 1 .. Len(frames'), NEW j \in 1 .. Len(frames'),
               frames'[i].node = frames'[j].node
        PROVE  i = j
    <3>1. \A k \in 1 .. Len(frames) : frames'[k].node # d
      BY <1>1, <1>2, <1>4 DEF IInv, FramesInv
    <3>2. i = Len(frames) + 1 <=> j = Len(frames) + 1
      BY <1>1, <1>3, <1>4, <2>2, <3>1
    <3>3. CASE i # Len(frames) + 1
      <4>1. i \in 1 .. Len(frames) /\ j \in 1 .. Len(frames)
        BY <1>1, <1>4, <3>2, <3>3
      <4> QED BY <1>4, <2>2, <4>1 DEF IInv, FramesInv
    <3> QED BY <3>2, <3>3
  <2>3. ASSUME NEW i \in 1 .. Len(frames') - 1
        PROVE  frames'[i + 1].node \in frames'[i].todo
    <3>1. CASE i = Len(frames)
      BY <1>1, <1>2, <1>3, <1>4, <3>1
    <3>2. CASE i # Len(frames)
      BY <1>1, <1>4, <3>2 DEF IInv, FramesInv
    <3> QED BY <3>1, <3>2
  <2>4. ASSUME NEW n \in seen' \ resolved'
        PROVE  \E i \in 1 .. Len(frames') : frames'[i].node = n
    <3>1. CASE n = d
      BY <1>1, <1>3, <1>4, <3>1
    <3>2. CASE n # d
      BY <1>1, <1>2, <1>4, <3>2 DEF IInv, FramesInv
    <3> QED BY <3>1, <3>2
  <2>5. frames'[1].node = Body
    BY <1>1, <1>4 DEF IInv, FramesInv
  <2>6. status' # "ok" /\ Len(frames') > 0
    BY <1>1, <1>2, <1>4
  <2> QED BY <2>1, <2>2, <2>3, <2>4, <2>5, <2>6 DEF FramesInv
<1>7. OrderInv'
  <2>1. node_map' = node_map /\ eval_order' = eval_order /\ resolved' = resolved
        /\ status' = status
    BY <1>2
  <2> QED BY <2>1, OrderStays DEF IInv
<1>8. SeenInv'
  BY <1>1, <1>2 DEF IInv, SeenInv, Evaluation!Reachable, Evaluation!Closed
<1> QED BY <1>5, <1>6, <1>7, <1>8 DEF IInv

(* The innermost call has resolved all its node depends on. *)
LEMMA ReturnFacts ==
  ASSUME IInv, Return
  PROVE  /\ frames \in Seq(Frames) /\ Len(frames) > 0 /\ Depth = Len(frames)
         /\ Top = frames[Len(frames)] /\ Top.node \in seen \ resolved
         /\ node_map[Top.node] \subseteq resolved
         /\ eval_order \in Seq(resolved) /\ status = "running"
         /\ node_map' = node_map /\ seen' = seen /\ locals' = locals
         /\ eval_order' = Append(eval_order, Top.node) /\ resolved' = resolved \cup {Top.node}
<1>1. /\ frames \in Seq(Frames) /\ Len(frames) > 0 /\ Depth = Len(frames) /\ status = "running"
  BY DEF IInv, TypeOK, FramesInv, Return, Depth
<1>2. Top = frames[Len(frames)] /\ Top.todo = {}
  BY <1>1 DEF Top, Return
<1> QED BY <1>1, <1>2 DEF IInv, TypeOK, FramesInv, Return

LEMMA ReturnOrder == ASSUME IInv, Return PROVE OrderInv'
<1> DEFINE t == Top.node
           L == Len(eval_order)
<1>1. /\ t \notin resolved /\ node_map[t] \subseteq resolved
      /\ eval_order' = Append(eval_order, t) /\ resolved' = resolved \cup {t}
      /\ eval_order \in Seq(resolved) /\ L \in Nat /\ node_map' = node_map
  BY ReturnFacts
<1>2. status' = "ok" => t = Body
  <2>1. status' = "ok" => Len(frames) = 1
    BY ReturnFacts DEF Return
  <2> QED BY <2>1, ReturnFacts DEF IInv, FramesInv
<1> HIDE DEF t
<1>3. /\ Len(eval_order') = L + 1
      /\ \A i \in 1 .. L : eval_order'[i] = eval_order[i]
      /\ eval_order'[L + 1] = t
      /\ \A i \in 1 .. L : eval_order[i] \in resolved
  BY <1>1, AddFacts
<1> HIDE DEF L
<1>4. ASSUME NEW n \in resolved PROVE \E i \in 1 .. L : eval_order[i] = n
  BY DEF IInv, OrderInv, L
<1>5. ASSUME NEW n \in resolved'
      PROVE  \E i \in 1 .. Len(eval_order') : eval_order'[i] = n
  <2>1. CASE n = t
    BY <1>1, <1>3, <2>1
  <2>2. CASE n # t
    <3>1. PICK i \in 1 .. L : eval_order[i] = n
      BY <1>1, <1>4, <2>2
    <3> QED BY <1>1, <1>3, <3>1
  <2> QED BY <2>1, <2>2
<1>6. ASSUME NEW i \in 1 .. Len(eval_order'), NEW j \in 1 .. Len(eval_order'),
             eval_order'[i] = eval_order'[j]
      PROVE  i = j
  <2>1. i = L + 1 <=> j = L + 1
    BY <1>1, <1>3, <1>6
  <2>2. CASE i # L + 1
    <3>1. i \in 1 .. L /\ j \in 1 .. L
      BY <1>1, <1>3, <2>1, <2>2
    <3>2. eval_order[i] = eval_order[j]
      BY <1>3, <1>6, <3>1
    <3> QED BY <3>1, <3>2 DEF IInv, OrderInv, L
  <2> QED BY <2>1, <2>2
<1>7. ASSUME NEW i \in 1 .. Len(eval_order'), NEW d \in node_map'[eval_order'[i]]
      PROVE  \E j \in 1 .. i - 1 : eval_order'[j] = d
  <2>1. CASE i = L + 1
    <3>1. d \in resolved
      BY <1>1, <1>3, <2>1
    <3>2. PICK j \in 1 .. L : eval_order[j] = d
      BY <1>4, <3>1
    <3> QED BY <1>1, <1>3, <2>1, <3>2
  <2>2. CASE i # L + 1
    <3>1. i \in 1 .. L /\ d \in node_map[eval_order[i]]
      BY <1>1, <1>3, <2>2
    <3>2. PICK j \in 1 .. i - 1 : eval_order[j] = d
      BY <3>1 DEF IInv, OrderInv, L
    <3>3. j \in 1 .. L
      BY <1>1, <3>1, <3>2
    <3> QED BY <1>3, <3>2, <3>3
  <2> QED BY <2>1, <2>2
<1>8. status' = "ok" => Len(eval_order') > 0 /\ eval_order'[Len(eval_order')] = Body
  BY <1>1, <1>2, <1>3
<1> QED BY <1>5, <1>6, <1>7, <1>8 DEF OrderInv

LEMMA ReturnFrames == ASSUME IInv, Return PROVE FramesInv' /\ frames' \in Seq(Frames)
<1> DEFINE t == Top.node
           N == Len(frames)
<1>1. /\ frames \in Seq(Frames) /\ N \in Nat /\ N > 0 /\ frames[N].node = t
      /\ t \in seen \ resolved /\ status = "running" /\ Depth = N
      /\ resolved' = resolved \cup {t} /\ seen' = seen /\ node_map' = node_map
  BY ReturnFacts
<1> HIDE DEF t
<1>2. CASE N = 1
  <2>1. frames' = <<>> /\ status' = "ok"
    BY <1>1, <1>2 DEF Return
  <2>2. seen' \ resolved' = {}
    BY <1>1, <1>2 DEF IInv, FramesInv
  <2> QED BY <2>1, <2>2 DEF FramesInv
<1>3. CASE N > 1
  <2> DEFINE fs == SubSeq(frames, 1, N - 1)
  <2>1. frames' = Drop(fs, t) /\ status' = "running"
    BY <1>1, <1>3 DEF Return, t
  <2>2. /\ fs \in Seq(Frames) /\ Len(fs) = N - 1
        /\ \A i \in 1 .. N - 1 : fs[i] = frames[i]
    BY <1>1, <1>3, PopFacts
  <2> HIDE DEF fs
  <2>3. /\ frames' \in Seq(Frames) /\ Len(frames') = N - 1
        /\ \A i \in 1 .. N - 1 : frames'[i].node = frames[i].node
        /\ \A i \in 1 .. N - 2 : frames'[i] = frames[i]
        /\ frames'[N - 1].todo = frames[N - 1].todo \ {t}
    <3>1. Len(fs) > 0
      BY <1>1, <1>3, <2>2
    <3>2. /\ Drop(fs, t) \in Seq(Frames)
          /\ Len(Drop(fs, t)) = Len(fs)
          /\ \A i \in 1 .. Len(fs) : Drop(fs, t)[i].node = fs[i].node
          /\ \A i \in 1 .. Len(fs) - 1 : Drop(fs, t)[i] = fs[i]
          /\ Drop(fs, t)[Len(fs)].todo = fs[Len(fs)].todo \ {t}
      BY <2>2, <3>1, DropFacts
    <3> QED BY <1>1, <1>3, <2>1, <2>2, <3>2
  <2>4. \A i \in 1 .. N - 1 : frames[i].node # t
    BY <1>1, <1>3 DEF IInv, FramesInv
  <2>5. ASSUME NEW i \in 1 .. Len(frames')
        PROVE  /\ frames'[i].node \in seen' \ resolved'
               /\ frames'[i].todo \subseteq node_map'[frames'[i].node]
               /\ node_map'[frames'[i].node] \ frames'[i].todo \subseteq resolved'
    <3>0. i \in 1 .. N - 1 /\ i \in 1 .. N
      BY <1>1, <2>3
    <3>1. /\ frames[i].node \in seen \ resolved
          /\ frames[i].todo \subseteq node_map[frames[i].node]
          /\ node_map[frames[i].node] \ frames[i].todo \subseteq resolved
      BY <3>0 DEF IInv, FramesInv
    <3>2. frames'[i].node = frames[i].node /\ frames[i].node # t
      BY <2>3, <2>4, <3>0
    <3>3. frames'[i].todo \cup {t} = frames[i].todo \cup {t}
          /\ frames'[i].todo \subseteq frames[i].todo
      <4>1. CASE i = N - 1
        BY <2>3, <4>1
      <4>2. CASE i # N - 1
        BY <1>1, <2>3, <3>0, <4>2
      <4> QED BY <4>1, <4>2
    <3> QED BY <1>1, <3>1, <3>2, <3>3
  <2>6. ASSUME NEW i \in 1 .. Len(frames') - 1
        PROVE  frames'[i + 1].node \in frames'[i].todo
    BY <1>1, <2>3 DEF IInv, FramesInv
  <2>7. ASSUME NEW n \in seen' \ resolved'
        PROVE  \E i \in 1 .. Len(frames') : frames'[i].node = n
    <3>1. PICK i \in 1 .. N : frames[i].node = n
      BY <1>1 DEF IInv, FramesInv
    <3>2. i # N
      BY <1>1, <3>1
    <3> QED BY <1>1, <2>3, <3>1, <3>2
  <2>8. \A i, j \in 1 .. Len(frames') : frames'[i].node = frames'[j].node => i = j
    BY <1>1, <2>3 DEF IInv, FramesInv
  <2>9. frames'[1].node = Body
    BY <1>1, <1>3, <2>3 DEF IInv, FramesInv
  <2> QED BY <1>1, <1>3, <2>1, <2>3, <2>5, <2>6, <2>7, <2>8, <2>9 DEF FramesInv
<1> QED BY <1>1, <1>2, <1>3

LEMMA ReturnInv == ASSUME IInv, Return PROVE IInv'
<1>1. status' \in {"running", "ok"}
  BY ReturnFacts DEF Return
<1>2. eval_order' \in Seq(resolved')
  BY ReturnFacts, AddFacts
<1>3. TypeOK'
  BY <1>1, <1>2, ReturnFacts, ReturnFrames DEF IInv, TypeOK
<1>4. SeenInv'
  BY ReturnFacts DEF IInv, SeenInv, Evaluation!Reachable, Evaluation!Closed
<1> QED BY <1>3, <1>4, ReturnOrder, ReturnFrames DEF IInv

LEMMA StepInv == IInv /\ [Next]_vars => IInv'
<1> SUFFICES ASSUME IInv, [Next]_vars PROVE IInv'
  OBVIOUS
<1>1. ASSUME NEW d \in Names, Skip(d) PROVE IInv'
  BY <1>1, SkipInv
<1>2. ASSUME NEW d \in Names, Circular(d) PROVE IInv'
  BY <1>2, FailInv DEF Circular, Looks
<1>3. ASSUME NEW d \in Names, Missing(d) PROVE IInv'
  BY <1>3, FailInv DEF Missing, Looks
<1>4. ASSUME NEW d \in Names, Call(d) PROVE IInv'
  BY <1>4, CallInv
<1>5. CASE Return
  BY <1>5, ReturnInv
<1>6. CASE UNCHANGED vars
  <2>1. node_map' = node_map /\ eval_order' = eval_order /\ resolved' = resolved
        /\ status' = status /\ frames' = frames /\ seen' = seen /\ locals' = locals
    BY <1>6 DEF vars
  <2>2. OrderInv'
    BY <2>1, OrderStays DEF IInv
  <2>3. TypeOK' /\ FramesInv' /\ SeenInv'
    BY <2>1 DEF IInv, TypeOK, FramesInv, SeenInv, Evaluation!Reachable, Evaluation!Closed
  <2> QED BY <2>2, <2>3 DEF IInv
<1> QED BY <1>1, <1>2, <1>3, <1>4, <1>5, <1>6 DEF Next

-----------------------------------------------------------------------------
(* Theorems *)

(* The variables have their types, and a node is resolved only after it was *)
(* seen, on any graph and in any order of the dependencies.                  *)
THEOREM TypeCorrect == Spec => []TypeOK
<1>1. IInv => TypeOK
  BY DEF IInv
<1> QED BY <1>1, InitInv, StepInv, PTL DEF Spec

(* A walk that succeeds has found a valid order. *)
LEMMA OrderIsValid == IInv /\ status = "ok" => Evaluation!Valid(eval_order)
<1> SUFFICES ASSUME IInv, status = "ok" PROVE Evaluation!Valid(eval_order)
  OBVIOUS
<1>1. \A i \in 1 .. Len(eval_order) : eval_order[i] \in resolved
  BY DEF IInv, TypeOK
<1>2. resolved \subseteq Evaluation!Reachable \cap DOMAIN node_map
  BY DEF IInv, TypeOK, SeenInv
<1> QED BY <1>1, <1>2 DEF IInv, OrderInv, Evaluation!Valid

(* The frames from the one of the repeated node on are the cycle. *)
LEMMA CycleIsReal ==
  ASSUME IInv, NEW d \in Names, Looks(d), d \in seen \ resolved
  PROVE  Evaluation!Circular
<1>1. PICK i \in 1 .. Len(frames) : frames[i].node = d
  BY DEF IInv, FramesInv
<1> DEFINE C == {frames[k].node : k \in i .. Len(frames)}
<1>2. Len(frames) \in Nat /\ Depth = Len(frames) /\ Top = frames[Len(frames)]
  BY LooksReachable DEF Depth, Top
<1>3. \A k \in i .. Len(frames) : k \in 1 .. Len(frames)
  BY <1>1, <1>2
<1>4. C \subseteq seen /\ d \in C
  BY <1>1, <1>2, <1>3 DEF IInv, FramesInv
<1>5. C \in SUBSET Evaluation!Reachable /\ C # {} /\ C \subseteq DOMAIN node_map
  BY <1>4 DEF IInv, SeenInv, TypeOK
<1>6. ASSUME NEW n \in C PROVE node_map[n] \cap C # {}
  <2>1. PICK k \in i .. Len(frames) : frames[k].node = n
    OBVIOUS
  <2>2. CASE k = Len(frames)
    BY <1>2, <1>4, <2>1, <2>2, LooksReachable
  <2>3. CASE k # Len(frames)
    <3>1. k \in 1 .. Len(frames) - 1 /\ k + 1 \in i .. Len(frames)
      BY <1>1, <1>2, <2>1, <2>3
    <3>2. frames[k + 1].node \in node_map[n]
      <4>1. frames[k + 1].node \in frames[k].todo
        BY <3>1 DEF IInv, FramesInv
      <4>2. k \in 1 .. Len(frames)
        BY <1>2, <3>1
      <4>3. frames[k].todo \subseteq node_map[frames[k].node]
        BY <4>2 DEF IInv, FramesInv
      <4> QED BY <2>1, <4>1, <4>3
    <3> QED BY <3>1, <3>2
  <2> QED BY <2>2, <2>3
<1> HIDE DEF C
<1> QED BY <1>5, <1>6 DEF Evaluation!Circular

LEMMA InitDecides == Init => Evaluation!Init
<1> SUFFICES ASSUME Init PROVE Evaluation!Init
  OBVIOUS
<1>1. IInv /\ status = "running"
  BY InitInv DEF Init
<1> QED BY <1>1 DEF IInv, TypeOK, Evaluation!Init

LEMMA StepDecides == IInv /\ IInv' /\ [Next]_vars => [Evaluation!Decide]_Evaluation!vars
<1> SUFFICES ASSUME IInv, IInv', [Next]_vars PROVE [Evaluation!Decide]_Evaluation!vars
  OBVIOUS
<1> USE DEF Evaluation!vars
<1>1. ASSUME NEW d \in Names, Skip(d) \/ Call(d)
      PROVE  UNCHANGED Evaluation!vars
  BY <1>1 DEF Skip, Call
<1>2. ASSUME NEW d \in Names, Circular(d) PROVE Evaluation!Decide
  <2>1. Evaluation!Circular
    BY <1>2, CycleIsReal DEF Circular
  <2> QED BY <1>2, <2>1 DEF Circular, Looks, Fail, Evaluation!Decide
<1>3. ASSUME NEW d \in Names, Missing(d) PROVE Evaluation!Decide
  <2>1. Evaluation!Missing
    BY <1>3, LooksReachable DEF Missing, Evaluation!Missing
  <2> QED BY <1>3, <2>1 DEF Missing, Looks, Fail, Evaluation!Decide
<1>4. CASE Return
  <2>1. status = "running" /\ node_map' = node_map
    BY <1>4, ReturnFacts
  <2>2. CASE Depth = 1
    <3>1. status' = "ok"
      BY <1>4, <2>2 DEF Return
    <3>2. (IInv /\ status = "ok" => Evaluation!Valid(eval_order))'
      BY OrderIsValid, PTL
    <3>3. Evaluation!Valid(eval_order)'
      BY <3>1, <3>2
    <3>4. Evaluation!Valid(eval_order')
      BY <2>1, <3>3 DEF Evaluation!Valid, Evaluation!Reachable, Evaluation!Closed
    <3>5. eval_order' = (IF status = "ok" THEN eval_order ELSE <<>>)'
      BY <3>1
    <3> QED BY <2>1, <3>1, <3>4, <3>5 DEF Evaluation!Decide
  <2>3. CASE Depth # 1
    BY <1>4, <2>1, <2>3 DEF Return
  <2> QED BY <2>2, <2>3
<1>5. CASE UNCHANGED vars
  BY <1>5 DEF vars
<1> QED BY <1>1, <1>2, <1>3, <1>4, <1>5 DEF Next

(* On any graph, whatever order the dependencies come in, the walk answers  *)
(* as EvaluationOrder promises.                                             *)
THEOREM WalkImplements == Spec => Implements
<1>1. Spec => []IInv
  BY InitInv, StepInv, PTL DEF Spec
<1> QED BY <1>1, InitDecides, StepDecides, PTL DEF Spec, Implements, Evaluation!Spec

(* A valid order leaves no room for an error: the set of its nodes is closed, *)
(* and of the nodes of a cycle none could have been the first.               *)
LEMMA ValidExcludesErrors ==
  ASSUME NEW seq \in Seq(Names), Evaluation!Valid(seq)
  PROVE  ~Evaluation!Circular /\ ~Evaluation!Missing
<1> DEFINE L == Len(seq)
           S == {seq[i] : i \in 1 .. L}
<1>1. L \in Nat /\ L > 0 /\ seq[L] = Body /\ \A i \in 1 .. L : seq[i] \in Names \cap DOMAIN node_map
  BY DEF Evaluation!Valid
<1>2. \A i \in 1 .. L : \A d \in node_map[seq[i]] : \E j \in 1 .. i - 1 : seq[j] = d
  BY DEF Evaluation!Valid
<1> HIDE DEF L
<1>3. S \in SUBSET Names /\ S \subseteq DOMAIN node_map
  BY <1>1
<1>4. Evaluation!Closed(S)
  <2>1. Body \in S
    BY <1>1
  <2>2. ASSUME NEW n \in S, NEW d \in node_map[n] PROVE d \in S
    <3>1. PICK i \in 1 .. L : seq[i] = n
      OBVIOUS
    <3>2. PICK j \in 1 .. i - 1 : seq[j] = d
      BY <1>2, <3>1
    <3>3. j \in 1 .. L
      BY <1>1, <3>1, <3>2
    <3> QED BY <3>2, <3>3
  <2> HIDE DEF S
  <2> QED BY <2>1, <2>2 DEF Evaluation!Closed
<1>5. Evaluation!Reachable \subseteq S
  <2> HIDE DEF S
  <2> QED BY <1>3, <1>4 DEF Evaluation!Reachable
<1>6. ~Evaluation!Missing
  <2> HIDE DEF S
  <2> QED BY <1>3, <1>5 DEF Evaluation!Missing
<1>7. ASSUME NEW C \in SUBSET Evaluation!Reachable, C # {}, C \subseteq DOMAIN node_map,
             \A n \in C : node_map[n] \cap C # {}
      PROVE  FALSE
  <2> DEFINE I == {i \in 1 .. L : seq[i] \in C}
  <2>1. PICK c \in C : c \in S
    BY <1>5, <1>7
  <2>2. I # {} /\ I \in SUBSET Nat
    BY <1>1, <2>1
  <2>3. PICK i \in I : \A k \in I : i <= k
    <3> HIDE DEF I
    <3> QED BY <2>2, MinExists
  <2>4. PICK d \in node_map[seq[i]] : d \in C
    BY <1>7, <2>3
  <2>5. PICK j \in 1 .. i - 1 : seq[j] = d
    BY <1>2, <2>3, <2>4
  <2>6. j \in I /\ j < i
    BY <1>1, <2>3, <2>4, <2>5
  <2> QED BY <2>3, <2>6, <1>1
<1>8. ~Evaluation!Circular
  <2>1. SUFFICES ASSUME Evaluation!Circular PROVE FALSE
    OBVIOUS
  <2>2. PICK C \in SUBSET Evaluation!Reachable :
          /\ C # {} /\ C \subseteq DOMAIN node_map
          /\ \A n \in C : node_map[n] \cap C # {}
    BY <2>1 DEF Evaluation!Circular
  <2> QED BY <1>7, <2>2
<1> QED BY <1>6, <1>8

(* Success does not depend on the order the dependencies come in: when the  *)
(* walk succeeds, no walk of the same graph could have reported an error.   *)
THEOREM SuccessIsDetermined ==
  Spec => [](status = "ok" => ~Evaluation!Circular /\ ~Evaluation!Missing)
<1>1. Spec => []IInv
  BY InitInv, StepInv, PTL DEF Spec
<1>2. IInv => (status = "ok" => ~Evaluation!Circular /\ ~Evaluation!Missing)
  <2> SUFFICES ASSUME IInv, status = "ok"
               PROVE  ~Evaluation!Circular /\ ~Evaluation!Missing
    OBVIOUS
  <2>1. resolved \subseteq Names /\ eval_order \in Seq(resolved)
    BY DEF IInv, TypeOK
  <2>2. eval_order \in Seq(Names)
    BY <2>1
  <2> QED BY <2>2, OrderIsValid, ValidExcludesErrors
<1> QED BY <1>1, <1>2, PTL

-----------------------------------------------------------------------------
(* The variables of the match *)

(* In the graph every local variable depends on the one declared before it. *)
ChainInv ==
  /\ locals \in LocalVars
  /\ \A n \in LocalNames(locals) : node_map[n] = LocalUses(locals, LastOf(locals, n))

LEMMA LastOfExists ==
  ASSUME NEW vs \in LocalVars, NEW i \in DOMAIN vs
  PROVE  LET u == LastOf(vs, vs[i].name)
         IN  u \in DOMAIN vs /\ vs[u].name = vs[i].name /\ i <= u
<1> DEFINE x == vs[i].name
<1>1. PICK n \in 0 .. MaxLocals : vs \in [1 .. n -> Variables]
  BY DEF LocalVars
<1>2. n \in Nat /\ DOMAIN vs = 1 .. n
  BY <1>1, BoundAssumption
<1> DEFINE S == {k \in 1 .. n : vs[k].name = x}
<1>3. S \in SUBSET (1 .. n) /\ S # {}
  BY <1>2
<1>4. \E m \in S : \A k \in S : k <= m
  BY <1>2, <1>3, MaxExists
<1>5. \E k \in DOMAIN vs : vs[k].name = x /\ \A j \in DOMAIN vs : vs[j].name = x => j <= k
  BY <1>2, <1>4
<1> HIDE DEF x
<1>6. /\ LastOf(vs, x) \in DOMAIN vs /\ vs[LastOf(vs, x)].name = x
      /\ \A j \in DOMAIN vs : vs[j].name = x => j <= LastOf(vs, x)
  BY <1>5 DEF LastOf
<1> QED BY <1>6 DEF x

LEMMA ChainStays == Spec => []ChainInv
<1>1. Init => ChainInv
  <2> SUFFICES ASSUME Init PROVE ChainInv
    OBVIOUS
  <2>1. PICK globals \in GlobalVars, uses \in Uses : node_map = generate_nodes(locals, globals, uses)
    BY DEF Init
  <2>2. ASSUME NEW n \in LocalNames(locals)
        PROVE  node_map[n] = LocalUses(locals, LastOf(locals, n))
    BY <2>1 DEF generate_nodes
  <2> QED BY <2>2 DEF ChainInv, Init
<1>2. ChainInv /\ [Next]_vars => ChainInv'
  <2> SUFFICES ASSUME ChainInv, [Next]_vars PROVE ChainInv'
    OBVIOUS
  <2>1. UNCHANGED <<locals, node_map>>
    BY DEF Next, Skip, Circular, Missing, Call, Fail, Return, vars
  <2> QED BY <2>1 DEF ChainInv
<1> QED BY <1>1, <1>2, PTL DEF Spec

(* The local variables after the i-th one: the first of them in the order   *)
(* is the one after the i-th, so the i-th comes before all of them.         *)
LEMMA EarlierFirst ==
  ASSUME IInv, ChainInv, status = "ok", LocalNames(locals) \subseteq node_map[Body],
         NEW i \in DOMAIN locals, NEW j \in DOMAIN locals, i < j
  PROVE  \E p, q \in DOMAIN eval_order :
           eval_order[p] = locals[i].name /\ eval_order[q] = locals[j].name /\ p < q
<1> DEFINE L == Len(eval_order)
<1>1. L \in Nat /\ DOMAIN eval_order = 1 .. L /\ L > 0 /\ eval_order[L] = Body
  BY DEF IInv, TypeOK, OrderInv
<1>2. \A k \in 1 .. L : \A d \in node_map[eval_order[k]] : \E m \in 1 .. k - 1 : eval_order[m] = d
  BY DEF IInv, OrderInv
<1> HIDE DEF L
<1>3. PICK N \in Nat : DOMAIN locals = 1 .. N
  BY BoundAssumption DEF ChainInv, LocalVars
<1>4. \A t \in 1 .. N : \E p \in 1 .. L : eval_order[p] = locals[t].name
  <2>1. ASSUME NEW t \in 1 .. N PROVE locals[t].name \in node_map[eval_order[L]] /\ L \in 1 .. L
    BY <1>1, <1>3 DEF LocalNames
  <2>2. ASSUME NEW t \in 1 .. N PROVE \E p \in 1 .. L : eval_order[p] = locals[t].name
    <3>1. PICK p \in 1 .. L - 1 : eval_order[p] = locals[t].name
      BY <1>2, <2>1
    <3>2. p \in 1 .. L
      BY <1>1
    <3> QED BY <3>1, <3>2
  <2> QED BY <2>2
<1> DEFINE S == {p \in 1 .. L : \E t \in i + 1 .. N : eval_order[p] = locals[t].name}
<1>5. PICK q \in S : eval_order[q] = locals[j].name
  BY <1>3, <1>4
<1>6. PICK p \in S : \A m \in S : p <= m
  <2>1. S # {} /\ S \in SUBSET Nat
    BY <1>1, <1>5
  <2> HIDE DEF S
  <2> QED BY <2>1, MinExists
<1>7. PICK t \in i + 1 .. N : eval_order[p] = locals[t].name
  BY <1>6
<1>8. t \in DOMAIN locals /\ t > i
  BY <1>3, <1>7
<1>9. PICK u \in 1 .. N : u = LastOf(locals, locals[t].name) /\ locals[u].name = locals[t].name /\ t <= u
  BY <1>3, <1>8, LastOfExists DEF ChainInv
<1>10. u - 1 \in 1 .. N /\ u - 1 >= i /\ locals[u - 1].name \in node_map[eval_order[p]]
  <2>1. u - 1 \in 1 .. N /\ u - 1 >= i /\ u > 1
    BY <1>3, <1>8, <1>9
  <2>2. eval_order[p] \in LocalNames(locals)
    BY <1>7, <1>8 DEF LocalNames
  <2>3. node_map[eval_order[p]] = LocalUses(locals, u)
    BY <1>7, <1>9, <2>2 DEF ChainInv
  <2> QED BY <2>1, <2>3 DEF LocalUses
<1>11. PICK k \in 1 .. p - 1 : eval_order[k] = locals[u - 1].name
  BY <1>2, <1>6, <1>10
<1>12. k \in 1 .. L /\ k < p
  BY <1>1, <1>6, <1>11
<1>13. u - 1 = i
  <2>1. SUFFICES ASSUME u - 1 # i PROVE FALSE
    OBVIOUS
  <2>2. u - 1 \in i + 1 .. N
    BY <2>1, <1>3, <1>10
  <2>3. k \in S
    BY <2>2, <1>11, <1>12
  <2> QED BY <2>3, <1>6, <1>12
<1>14. p <= q /\ q \in 1 .. L /\ p \in 1 .. L
  BY <1>5, <1>6
<1> QED BY <1>1, <1>5, <1>11, <1>12, <1>13, <1>14

(* The variables of the match are evaluated in the order in which they are  *)
(* declared, as the chain of generate_nodes intends, whatever the names and *)
(* the order the dependencies come in.                                      *)
THEOREM LocalsAreInOrder == Spec => []LocalsInOrder
<1>1. Spec => []IInv
  BY InitInv, StepInv, PTL DEF Spec
<1>2. IInv /\ ChainInv => LocalsInOrder
  <2> SUFFICES ASSUME IInv, ChainInv, status = "ok", LocalNames(locals) \subseteq node_map[Body],
                      NEW i \in DOMAIN locals, NEW j \in DOMAIN locals, i <= j
               PROVE  \E p, q \in DOMAIN eval_order :
                        /\ eval_order[p] = locals[i].name /\ eval_order[q] = locals[j].name
                        /\ p < q \/ i = j
    BY DEF LocalsInOrder
  <2>1. CASE i = j
    <3>1. Len(eval_order) > 0 /\ eval_order[Len(eval_order)] = Body
      BY DEF IInv, OrderInv
    <3>2. Len(eval_order) \in Nat /\ DOMAIN eval_order = 1 .. Len(eval_order)
      BY DEF IInv, TypeOK
    <3>3. locals[i].name \in node_map[Body]
      BY DEF LocalNames
    <3>4. \E p \in 1 .. Len(eval_order) - 1 : eval_order[p] = locals[i].name
      BY <3>1, <3>2, <3>3 DEF IInv, OrderInv
    <3> QED BY <2>1, <3>2, <3>4
  <2>2. CASE i # j
    <3>1. i < j
      BY <2>2, BoundAssumption DEF ChainInv, LocalVars
    <3> QED BY <3>1, EarlierFirst
  <2> QED BY <2>1, <2>2
<1> QED BY <1>1, <1>2, ChainStays, PTL
-----------------------------------------------------------------------------
(* The walk cannot go on forever *)

(* The nodes not seen yet, those seen and not resolved, and what the loop of *)
(* the innermost call has left.                                              *)
Remaining ==
  << IF status = "running" THEN 1 ELSE 0,
     Cardinality(Names \ seen),
     Cardinality(seen \ resolved),
     IF frames = <<>> THEN 0 ELSE Cardinality(Top.todo) >>

LEMMA Fewer ==
  ASSUME NEW S \in SUBSET Names, NEW x \in S
  PROVE  Cardinality(S) \in Nat /\ Cardinality(S \ {x}) \in Nat
         /\ Cardinality(S \ {x}) < Cardinality(S)
<1>1. IsFiniteSet(S)
  BY NamesAssumption, FS_Subset
<1>2. Cardinality(S) \in Nat /\ IsFiniteSet(S \ {x}) /\ Cardinality(S \ {x}) = Cardinality(S) - 1
  BY <1>1, FS_CardinalityType, FS_RemoveElement
<1>3. Cardinality(S \ {x}) \in Nat
  BY <1>2, FS_CardinalityType
<1> QED BY <1>2, <1>3

LEMMA RemainingTyped == IInv => Remaining \in [1 .. 4 -> Nat]
<1> SUFFICES ASSUME IInv PROVE Remaining \in [1 .. 4 -> Nat]
  OBVIOUS
<1>1. ASSUME NEW S \in SUBSET Names PROVE Cardinality(S) \in Nat
  BY NamesAssumption, FS_Subset, FS_CardinalityType
<1>2. seen \subseteq Names /\ Names \ seen \in SUBSET Names /\ seen \ resolved \in SUBSET Names
  BY DEF IInv, TypeOK
<1>3. frames # <<>> => Top.todo \in SUBSET Names
  <2>1. frames \in Seq(Frames)
    BY DEF IInv, TypeOK
  <2>2. ASSUME frames # <<>> PROVE frames[Len(frames)] \in Frames
    BY <2>1, <2>2
  <2> QED BY <2>2 DEF Top, Depth, Frames
<1>4. /\ Cardinality(Names \ seen) \in Nat /\ Cardinality(seen \ resolved) \in Nat
      /\ frames # <<>> => Cardinality(Top.todo) \in Nat
  BY <1>1, <1>2, <1>3
<1> QED BY <1>4 DEF Remaining

LEMMA StepShrinks == IInv /\ IInv' /\ Next => Below(Remaining', Remaining)
<1> SUFFICES ASSUME IInv, IInv', Next PROVE Below(Remaining', Remaining)
  OBVIOUS
<1> DEFINE a == Remaining'
           b == Remaining
<1>1. DOMAIN b = 1 .. 4
  BY DEF Remaining
<1>2. ASSUME NEW i \in 1 .. 4, a[i] < b[i], \A j \in 1 .. i - 1 : a[j] = b[j]
      PROVE  Below(Remaining', Remaining)
  BY <1>1, <1>2 DEF Below
<1>3. /\ a[1] = IF status' = "running" THEN 1 ELSE 0
      /\ b[1] = IF status = "running" THEN 1 ELSE 0
      /\ a[2] = Cardinality((Names \ seen)') /\ b[2] = Cardinality(Names \ seen)
      /\ a[3] = Cardinality((seen \ resolved)') /\ b[3] = Cardinality(seen \ resolved)
      /\ a[4] = (IF frames = <<>> THEN 0 ELSE Cardinality(Top.todo))'
      /\ b[4] = IF frames = <<>> THEN 0 ELSE Cardinality(Top.todo)
  BY DEF Remaining
<1> HIDE DEF a, b
<1>4. ASSUME NEW d \in Names, Skip(d) PROVE Below(Remaining', Remaining)
  <2>1. /\ frames \in Seq(Frames) /\ Len(frames) > 0 /\ d \in frames[Len(frames)].todo
        /\ frames' = Drop(frames, d)
        /\ seen' = seen /\ resolved' = resolved /\ status' = status
    BY <1>4, LooksReachable DEF Skip, Looks, Top, Depth
  <2>2. /\ Len(frames') = Len(frames) /\ frames' # <<>> /\ frames # <<>>
        /\ frames'[Len(frames)].todo = frames[Len(frames)].todo \ {d}
    <3>1. Len(frames') = Len(frames) /\ frames' \in Seq(Frames)
          /\ frames'[Len(frames)].todo = frames[Len(frames)].todo \ {d}
      BY <2>1, DropFacts
    <3> QED BY <2>1, <3>1
  <2>3. frames[Len(frames)].todo \in SUBSET Names
    <3>1. frames[Len(frames)] \in Frames
      BY <2>1
    <3> QED BY <3>1 DEF Frames
  <2>4. a[4] < b[4]
    <3>1. Cardinality(frames[Len(frames)].todo \ {d}) < Cardinality(frames[Len(frames)].todo)
      BY <2>1, <2>3, Fewer
    <3>2. /\ b[4] = Cardinality(frames[Len(frames)].todo)
          /\ a[4] = Cardinality(frames'[Len(frames)].todo)
      BY <1>3, <2>2 DEF Top, Depth
    <3> QED BY <2>2, <3>1, <3>2
  <2>5. a[1] = b[1] /\ a[2] = b[2] /\ a[3] = b[3]
    BY <1>3, <2>1
  <2>6. \A j \in 1 .. 4 - 1 : a[j] = b[j]
    BY <2>5
  <2> QED BY <1>2, <2>4, <2>6
<1>5. ASSUME NEW d \in Names, Circular(d) \/ Missing(d) PROVE Below(Remaining', Remaining)
  <2>1. a[1] = 0 /\ b[1] = 1
    BY <1>3, <1>5 DEF Circular, Missing, Looks, Fail
  <2> QED BY <1>2, <2>1
<1>6. ASSUME NEW d \in Names, Call(d) PROVE Below(Remaining', Remaining)
  <2>1. d \in Names \ seen /\ seen' = seen \cup {d} /\ status' = status
    BY <1>6 DEF Call
  <2>2. (Names \ seen)' = (Names \ seen) \ {d}
    BY <2>1
  <2>3. a[2] < b[2]
    <3>1. Cardinality((Names \ seen) \ {d}) < Cardinality(Names \ seen)
      BY <2>1, Fewer
    <3> QED BY <1>3, <2>2, <3>1
  <2>4. a[1] = b[1]
    BY <1>3, <2>1
  <2>5. \A j \in 1 .. 2 - 1 : a[j] = b[j]
    BY <2>4
  <2> QED BY <1>2, <2>3, <2>5
<1>7. CASE Return
  <2> DEFINE t == Top.node
  <2>1. t \in seen \ resolved /\ seen' = seen /\ resolved' = resolved \cup {t}
        /\ status = "running" /\ seen \subseteq Names
    BY <1>7, ReturnFacts DEF IInv, TypeOK
  <2> HIDE DEF t
  <2>2. CASE status' # "running"
    <3>1. a[1] = 0 /\ b[1] = 1
      BY <1>3, <2>1, <2>2
    <3> QED BY <1>2, <3>1
  <2>3. CASE status' = "running"
    <3>1. (seen \ resolved)' = (seen \ resolved) \ {t}
      BY <2>1
    <3>2. a[3] < b[3]
      <4>1. seen \ resolved \in SUBSET Names
        BY <2>1
      <4>2. Cardinality((seen \ resolved) \ {t}) < Cardinality(seen \ resolved)
        BY <2>1, <4>1, Fewer
      <4> QED BY <1>3, <3>1, <4>2
    <3>3. a[1] = b[1] /\ a[2] = b[2]
      BY <1>3, <2>1, <2>3
    <3>4. \A j \in 1 .. 3 - 1 : a[j] = b[j]
      BY <3>3
    <3> QED BY <1>2, <3>2, <3>4
  <2> QED BY <2>2, <2>3
<1> QED BY <1>4, <1>5, <1>6, <1>7 DEF Next

(* On any graph, cycles or not, and in any order of the dependencies, every *)
(* step of the walk lowers Remaining, a tuple of numbers, in lexicographic  *)
(* order: by BelowIsWellFounded the walk takes finitely many steps.         *)
THEOREM WalkShrinks ==
  Spec => [](Remaining \in [1 .. 4 -> Nat]) /\ [][Below(Remaining', Remaining)]_vars
<1>1. Spec => []IInv
  BY InitInv, StepInv, PTL DEF Spec
<1>2. IInv /\ IInv' /\ [Next]_vars => [Below(Remaining', Remaining)]_vars
  BY StepShrinks DEF vars
<1> QED BY <1>1, <1>2, RemainingTyped, PTL DEF Spec
=============================================================================
