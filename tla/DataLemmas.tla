----------------------------- MODULE DataLemmas -----------------------------
(***************************************************************************)
(* Facts about numbers, sequences and finite sets that the proofs of       *)
(* several components need.  Induction over numbers goes by the least      *)
(* number a claim fails for.                                               *)
(***************************************************************************)
EXTENDS SequencesExt, Integers, SequenceTheorems, FiniteSetTheorems, WellFoundedInduction, TLAPS

LEMMA MinExists ==
  ASSUME NEW S \in SUBSET Nat, S # {}
  PROVE  \E n \in S : \A m \in S : n <= m
<1> DEFINE R == {ss \in Nat \X Nat : ss[1] < ss[2]}
<1>1. IsWellFoundedOn(R, Nat)
  BY NatLessThanWellFounded, Zenon DEF OpToRel
<1>2. PICK x \in S : \A y \in S : ~(<<y, x>> \in R)
  <2> HIDE DEF R
  <2> QED BY <1>1, WFMin
<1>3. ASSUME NEW m \in S PROVE x <= m
  <2>1. ~(<<m, x>> \in R)
    BY <1>2
  <2>2. <<m, x>> \in Nat \X Nat /\ <<m, x>>[1] = m /\ <<m, x>>[2] = x
    OBVIOUS
  <2>3. ~(<<m, x>>[1] < <<m, x>>[2])
    BY <2>1, <2>2, Zenon
  <2>4. ~(m < x)
    BY <2>2, <2>3
  <2> HIDE DEF R
  <2> QED BY <2>4
<1> QED BY <1>3

LEMMA MaxExists ==
  ASSUME NEW n \in Nat, NEW S \in SUBSET (1 .. n), S # {}
  PROVE  \E m \in S : \A k \in S : k <= m
<1> DEFINE U == {b \in Nat : \A k \in S : k <= b}
<1>1. n \in U
  OBVIOUS
<1>2. PICK b \in U : \A c \in U : b <= c
  BY <1>1, MinExists
<1>3. b \in S
  <2>1. SUFFICES ASSUME b \notin S PROVE FALSE
    OBVIOUS
  <2>2. \A k \in S : k \in Nat /\ k > 0 /\ k <= b /\ k # b
    BY <2>1
  <2>3. b > 0
    <3>1. PICK k \in S : TRUE
      OBVIOUS
    <3> QED BY <2>2, <3>1
  <2>4. b - 1 \in U
    BY <2>2, <2>3
  <2> QED BY <1>2, <2>4
<1> QED BY <1>3

-----------------------------------------------------------------------------

(* A claim that holds at 0 and at the successor of each number it holds at *)
(* holds up to n; `holds` is the set of the numbers it holds at.           *)
LEMMA UpTo ==
  ASSUME NEW n \in Nat, NEW holds, 0 \in holds,
         \A k \in 0 .. n - 1 : k \in holds => k + 1 \in holds
  PROVE  \A k \in 0 .. n : k \in holds
<1> DEFINE F == {k \in 0 .. n : k \notin holds}
<1>1. SUFFICES ASSUME F # {} PROVE FALSE
  OBVIOUS
<1>2. PICK k \in F : \A j \in F : k <= j
  <2>1. F \in SUBSET Nat
    OBVIOUS
  <2> HIDE DEF F
  <2> QED BY <1>1, <2>1, MinExists
<1>3. k # 0 /\ k - 1 \in 0 .. n - 1 /\ k - 1 \notin F
  BY <1>2
<1> QED BY <1>2, <1>3

(* The elements of a finite set in an order are a sequence of all of them. *)
LEMMA SetToSeqsFacts ==
  ASSUME NEW S, IsFiniteSet(S), NEW s \in SetToSeqs(S)
  PROVE  /\ s \in Seq(S)
         /\ ToSet(s) = S
<1> DEFINE D == 1 .. Cardinality(S)
<1>1. Cardinality(S) \in Nat
  BY FS_CardinalityType
<1>2. IsFiniteSet(D) /\ Cardinality(D) = Cardinality(S)
  BY <1>1, FS_Interval
<1>3. s \in [D -> S] /\ \A i, j \in D : i # j => s[i] # s[j]
  BY DEF SetToSeqs
<1>4. s \in Injection(D, S)
  BY <1>3 DEF Injection, IsInjective
<1>5. s \in Surjection(D, S)
  BY <1>2, <1>4, FS_Injection
<1>6. \A x \in S : \E i \in D : s[i] = x
  BY <1>5 DEF Surjection
<1>7. s \in Seq(S)
  BY <1>1, <1>3
<1> QED BY <1>3, <1>6, <1>7 DEF ToSet

(* All but the last element *)
LEMMA FrontFacts ==
  ASSUME NEW S, NEW s \in Seq(S), s # <<>>
  PROVE  LET f == SubSeq(s, 1, Len(s) - 1)
         IN  /\ Len(s) \in Nat /\ Len(s) > 0
             /\ f \in Seq(S) /\ Len(f) = Len(s) - 1 /\ DOMAIN f = 1 .. Len(s) - 1
             /\ \A i \in 1 .. Len(s) - 1 : f[i] = s[i]
             /\ f = <<>> <=> Len(s) = 1
<1> DEFINE n == Len(s)
           f == SubSeq(s, 1, n - 1)
<1>1. n \in Nat /\ n > 0 /\ \A i \in 1 .. n - 1 : s[i] \in S
  BY EmptySeq, LenProperties
<1> HIDE DEF n
<1>2. /\ f \in Seq(S) /\ Len(f) = IF 1 <= n - 1 THEN (n - 1) - 1 + 1 ELSE 0
      /\ \A i \in 1 .. (n - 1) - 1 + 1 : f[i] = s[1 + i - 1]
  BY <1>1, SubSeqProperties
<1> HIDE DEF f
<1>3. Len(f) = n - 1 /\ \A i \in 1 .. n - 1 : f[i] = s[i]
  BY <1>1, <1>2
<1>4. DOMAIN f = 1 .. n - 1
  BY <1>2, <1>3
<1>5. f = <<>> <=> n = 1
  BY <1>1, <1>2, <1>3, EmptySeq
<1> QED BY <1>1, <1>2, <1>3, <1>4, <1>5 DEF n, f

LEMMA ConcatFacts ==
  ASSUME NEW S, NEW s \in Seq(S), NEW t \in Seq(S)
  PROVE  s \o t \in Seq(S) /\ ToSet(s \o t) = ToSet(s) \cup ToSet(t)
<1>1. /\ s \o t \in Seq(S) /\ Len(s \o t) = Len(s) + Len(t)
      /\ \A i \in 1 .. Len(s) : (s \o t)[i] = s[i]
      /\ \A i \in 1 .. Len(t) : (s \o t)[Len(s) + i] = t[i]
  OBVIOUS
<1>2. ASSUME NEW x \in ToSet(s \o t) PROVE x \in ToSet(s) \cup ToSet(t)
  <2>1. PICK i \in 1 .. Len(s) + Len(t) : (s \o t)[i] = x
    BY <1>1 DEF ToSet
  <2>2. CASE i <= Len(s)
    BY <1>1, <2>1, <2>2 DEF ToSet
  <2>3. CASE ~(i <= Len(s))
    <3>1. i - Len(s) \in 1 .. Len(t) /\ Len(s) + (i - Len(s)) = i
      BY <2>3
    <3>2. (s \o t)[Len(s) + (i - Len(s))] = t[i - Len(s)]
      BY <1>1, <3>1
    <3> QED BY <2>1, <3>1, <3>2 DEF ToSet
  <2> QED BY <2>2, <2>3
<1>3. ToSet(s) \cup ToSet(t) \subseteq ToSet(s \o t)
  <2>1. \A i \in 1 .. Len(s) : i \in 1 .. Len(s \o t)
    BY <1>1
  <2>2. \A i \in 1 .. Len(t) : Len(s) + i \in 1 .. Len(s \o t)
    BY <1>1
  <2>3. \A x \in ToSet(s) : x \in ToSet(s \o t)
    BY <1>1, <2>1 DEF ToSet
  <2>4. \A x \in ToSet(t) : x \in ToSet(s \o t)
    <3>1. ASSUME NEW i \in 1 .. Len(t) PROVE t[i] \in ToSet(s \o t)
      <4>1. Len(s) + i \in DOMAIN (s \o t) /\ (s \o t)[Len(s) + i] = t[i]
        BY <1>1, <2>2
      <4> QED BY <4>1 DEF ToSet
    <3> QED BY <1>1, <3>1 DEF ToSet
  <2> QED BY <2>3, <2>4
<1> QED BY <1>1, <1>2, <1>3

(* FlattenSeq appends one sequence after the other. *)
LEMMA FlattenSteps ==
  ASSUME NEW S, NEW ss \in Seq(Seq(S))
  PROVE  \E flat \in [0 .. Len(ss) -> Seq(S)] :
           /\ flat[0] = <<>>
           /\ \A n \in 0 .. Len(ss) - 1 : flat[n + 1] = flat[n] \o ss[n + 1]
           /\ FlattenSeq(ss) = flat[Len(ss)]
<1> DEFINE N == Len(ss)
           Def(g) == [i \in 1 .. N |-> IF i = 1 THEN ss[i] ELSE g[i - 1] \o ss[i]]
           flat == CHOOSE g : g = Def(g)
           Part(n, g) == /\ g \in [0 .. n -> Seq(S)] /\ g[0] = <<>>
                         /\ \A i \in 0 .. n - 1 : g[i + 1] = g[i] \o ss[i + 1]
<1>1. N \in Nat /\ DOMAIN ss = 1 .. N /\ \A i \in 1 .. N : ss[i] \in Seq(S)
  OBVIOUS
<1>2. <<>> \in Seq(S) /\ \A i \in 1 .. N : <<>> \o ss[i] = ss[i]
  BY <1>1, EmptySeq, ConcatEmptySeq
<1> HIDE DEF N
<1>3. PICK g : Part(N, g)
  <2> DEFINE holds == {n \in Nat : \E g : Part(n, g)}
  <2>1. 0 \in holds
    <3>1. Part(0, [i \in 0 .. 0 |-> <<>>])
      BY <1>2
    <3> HIDE DEF Part
    <3> QED BY <3>1
  <2>2. ASSUME NEW n \in 0 .. N - 1, n \in holds PROVE n + 1 \in holds
    <3>1. PICK g : Part(n, g)
      BY <2>2
    <3> DEFINE last == g[n] \o ss[n + 1]
               h == [i \in 0 .. n + 1 |-> IF i = n + 1 THEN last ELSE g[i]]
    <3>2. last \in Seq(S)
      BY <1>1, <3>1
    <3> HIDE DEF last
    <3>3. h \in [0 .. n + 1 -> Seq(S)] /\ h[0] = <<>> /\ h[n + 1] = last
          /\ \A i \in 0 .. n : h[i] = g[i]
      <4>1. n \in Nat /\ n + 1 \in 0 .. n + 1 /\ 0 \in 0 .. n
            /\ \A i \in 0 .. n + 1 : i = n + 1 \/ i \in 0 .. n
        BY <1>1
      <4>2. \A i \in 0 .. n : i # n + 1 /\ i \in 0 .. n + 1
        BY <4>1
      <4>3. g[0] = <<>> /\ \A i \in 0 .. n : g[i] \in Seq(S)
        BY <3>1
      <4> QED BY <3>2, <4>1, <4>2, <4>3
    <3>4. ASSUME NEW i \in 0 .. (n + 1) - 1 PROVE h[i + 1] = h[i] \o ss[i + 1]
      <4>1. CASE i = n
        <5>1. n \in 0 .. n
          BY <1>1
        <5> HIDE DEF h
        <5> QED BY <3>3, <4>1, <5>1 DEF last
      <4>2. CASE i # n
        <5>1. i \in 0 .. n - 1 /\ i \in 0 .. n /\ i + 1 \in 0 .. n
          BY <1>1, <4>2
        <5>2. g[i + 1] = g[i] \o ss[i + 1]
          BY <3>1, <5>1
        <5> HIDE DEF h
        <5> QED BY <3>3, <5>1, <5>2
      <4> QED BY <4>1, <4>2
    <3> HIDE DEF h
    <3>5. Part(n + 1, h)
      BY <3>3, <3>4
    <3> HIDE DEF Part
    <3> QED BY <1>1, <3>5
  <2> HIDE DEF holds
  <2>3. \A n \in 0 .. N : n \in holds
    BY <1>1, <2>1, <2>2, UpTo, Zenon
  <2>4. N \in holds
    BY <1>1, <2>3
  <2> HIDE DEF Part
  <2> QED BY <2>4 DEF holds
<1>4. /\ g \in [0 .. N -> Seq(S)] /\ g[0] = <<>>
       /\ \A i \in 0 .. N - 1 : g[i + 1] = g[i] \o ss[i + 1]
  BY <1>3
<1> HIDE DEF Part
<1>5. \E f : f = Def(f)
  <2> DEFINE f == [i \in 1 .. N |-> g[i]]
  <2>1. ASSUME NEW i \in 1 .. N PROVE f[i] = Def(f)[i]
    <3>1. i - 1 \in 0 .. N - 1 /\ (i - 1) + 1 = i
      BY <1>1
    <3>2. g[i] = g[i - 1] \o ss[i]
      BY <1>4, <3>1
    <3>3. CASE i = 1
      <4>0. i - 1 = 0
        BY <3>3
      <4>1. g[i - 1] = <<>> /\ g[i] = <<>> \o ss[i]
        BY <1>4, <3>2, <4>0
      <4> QED BY <1>2, <3>3, <4>1
    <3>4. CASE i # 1
      <4>1. i - 1 \in 1 .. N
        BY <1>1, <3>4
      <4> QED BY <3>2, <3>4, <4>1
    <3> QED BY <3>3, <3>4
  <2>2. f = Def(f)
    BY <2>1
  <2> QED BY <2>2
<1>6. flat = Def(flat)
  BY <1>5
<1> HIDE DEF flat
<1> DEFINE same == {n \in 0 .. N : n = 0 \/ flat[n] = g[n]}
<1>7. ASSUME NEW n \in 0 .. N - 1, n \in same PROVE n + 1 \in same
  <2>1. n + 1 \in 1 .. N /\ n + 1 \in 0 .. N /\ (n + 1) - 1 = n
    BY <1>1
  <2>5. g[n + 1] = g[n] \o ss[n + 1]
    BY <1>4
  <2>2. flat[n + 1] = IF n + 1 = 1 THEN ss[n + 1] ELSE flat[(n + 1) - 1] \o ss[n + 1]
    BY <1>6, <2>1
  <2>3. CASE n = 0
    <3>1. g[n + 1] = <<>> \o ss[n + 1]
      BY <1>4, <2>3, <2>5
    <3> QED BY <1>2, <2>1, <2>2, <2>3, <3>1
  <2>4. CASE n # 0
    <3>1. flat[n] = g[n] /\ n + 1 # 1
      BY <1>1, <1>7, <2>4
    <3>2. flat[n + 1] = flat[n] \o ss[n + 1]
      BY <2>1, <2>2, <3>1
    <3> QED BY <2>1, <2>5, <3>1, <3>2
  <2> QED BY <2>3, <2>4
<1>8. N \in same
  <2>1. 0 \in same
    BY <1>1
  <2> HIDE DEF same
  <2>2. \A n \in 0 .. N : n \in same
    BY <1>1, <1>7, <2>1, UpTo, Zenon
  <2> QED BY <1>1, <2>2
<1>9. FlattenSeq(ss) = g[N]
  <2>1. CASE N = 0
    <3>1. FlattenSeq(ss) = ss /\ ss = <<>>
      BY <2>1 DEF FlattenSeq, N
    <3> QED BY <1>4, <2>1, <3>1
  <2>2. CASE N # 0
    <3>1. FlattenSeq(ss) = flat[N]
      BY <2>2 DEF FlattenSeq, N, flat
    <3> QED BY <1>8, <2>2, <3>1
  <2> QED BY <2>1, <2>2
<1> QED BY <1>4, <1>9 DEF N

(* What FlattenSeq makes of sequences has their elements. *)
LEMMA FlattenFacts ==
  ASSUME NEW S, NEW ss \in Seq(Seq(S))
  PROVE  /\ FlattenSeq(ss) \in Seq(S)
         /\ ToSet(FlattenSeq(ss)) = UNION {ToSet(ss[k]) : k \in DOMAIN ss}
<1> DEFINE N == Len(ss)
<1>1. N \in Nat /\ DOMAIN ss = 1 .. N /\ \A i \in 1 .. N : ss[i] \in Seq(S)
  OBVIOUS
<1>2. PICK flat \in [0 .. N -> Seq(S)] :
        /\ flat[0] = <<>>
        /\ \A n \in 0 .. N - 1 : flat[n + 1] = flat[n] \o ss[n + 1]
        /\ FlattenSeq(ss) = flat[N]
  BY FlattenSteps
<1> HIDE DEF N
<1> DEFINE holds == {n \in 0 .. N : ToSet(flat[n]) = UNION {ToSet(ss[k]) : k \in 1 .. n}}
<1>3. 0 \in holds
  BY <1>1, <1>2 DEF ToSet
<1>4. ASSUME NEW n \in 0 .. N - 1, n \in holds PROVE n + 1 \in holds
  <2>1. n + 1 \in 1 .. N /\ n \in 0 .. N /\ n + 1 \in 0 .. N
    BY <1>1
  <2>2. ss[n + 1] \in Seq(S) /\ flat[n] \in Seq(S) /\ flat[n + 1] = flat[n] \o ss[n + 1]
    BY <1>1, <1>2, <2>1
  <2>3. ToSet(flat[n + 1]) = ToSet(flat[n]) \cup ToSet(ss[n + 1])
    <3>1. \A s, t \in Seq(S) : ToSet(s \o t) = ToSet(s) \cup ToSet(t)
      BY ConcatFacts
    <3> QED BY <2>2, <3>1
  <2>4. 1 .. n + 1 = (1 .. n) \cup {n + 1}
    BY <1>1
  <2>5. UNION {ToSet(ss[k]) : k \in 1 .. n + 1} = (UNION {ToSet(ss[k]) : k \in 1 .. n}) \cup ToSet(ss[n + 1])
    BY <2>4
  <2>6. ToSet(flat[n]) = UNION {ToSet(ss[k]) : k \in 1 .. n}
    BY <1>4
  <2> HIDE DEF holds
  <2>7. ToSet(flat[n + 1]) = UNION {ToSet(ss[k]) : k \in 1 .. n + 1}
    BY <2>3, <2>5, <2>6
  <2> QED BY <2>1, <2>7 DEF holds
<1>5. N \in holds
  <2> HIDE DEF holds
  <2>1. \A n \in 0 .. N : n \in holds
    BY <1>1, <1>3, <1>4, UpTo, Zenon
  <2> QED BY <1>1, <2>1
<1> QED BY <1>1, <1>2, <1>5

(* m is the last position of seq with an element of K. *)
LastIn(seq, K, m) ==
  /\ m \in DOMAIN seq /\ seq[m] \in K
  /\ \A i \in DOMAIN seq : seq[i] \in K => i <= m

(* The last element of a kind in the sequences one after the other is the   *)
(* last of its kind in a sequence, and the sequences after that have none.  *)
LEMMA FlattenLast ==
  ASSUME NEW S, NEW ss \in Seq(Seq(S)), NEW K, NEW m, LastIn(FlattenSeq(ss), K, m)
  PROVE  \E k \in DOMAIN ss :
           /\ \E l : LastIn(ss[k], K, l) /\ ss[k][l] = FlattenSeq(ss)[m]
           /\ \A j \in DOMAIN ss : ToSet(ss[j]) \cap K # {} => j <= k
<1> DEFINE N == Len(ss)
<1>1. N \in Nat /\ DOMAIN ss = 1 .. N /\ \A i \in 1 .. N : ss[i] \in Seq(S)
  OBVIOUS
<1>2. PICK flat \in [0 .. N -> Seq(S)] :
        /\ flat[0] = <<>>
        /\ \A n \in 0 .. N - 1 : flat[n + 1] = flat[n] \o ss[n + 1]
        /\ FlattenSeq(ss) = flat[N]
  BY FlattenSteps
<1> HIDE DEF N
<1> DEFINE Right(n, p) ==
             \E k \in 1 .. n :
               /\ \E l : LastIn(ss[k], K, l) /\ ss[k][l] = flat[n][p]
               /\ \A j \in 1 .. n : ToSet(ss[j]) \cap K # {} => j <= k
           holds == {n \in 0 .. N : \A p : LastIn(flat[n], K, p) => Right(n, p)}
<1>3. 0 \in holds
  BY <1>1, <1>2 DEF LastIn
<1>4. ASSUME NEW n \in 0 .. N - 1, n \in holds, NEW p, LastIn(flat[n + 1], K, p)
      PROVE  Right(n + 1, p)
  <2> DEFINE s == flat[n]
             t == ss[n + 1]
             L == Len(s)
  <2>1. n + 1 \in 1 .. N /\ n \in 0 .. N /\ 1 .. n + 1 = (1 .. n) \cup {n + 1} /\ n \in Nat
    BY <1>1
  <2>2. s \in Seq(S) /\ t \in Seq(S) /\ flat[n + 1] = s \o t
    BY <1>1, <1>2, <2>1
  <2> HIDE DEF s, t
  <2>3. /\ L \in Nat /\ Len(t) \in Nat /\ DOMAIN s = 1 .. L /\ DOMAIN t = 1 .. Len(t)
        /\ DOMAIN flat[n + 1] = 1 .. L + Len(t)
        /\ \A i \in 1 .. L : flat[n + 1][i] = s[i]
        /\ \A i \in 1 .. Len(t) : flat[n + 1][L + i] = t[i]
    <3>1. s \o t \in Seq(S) /\ Len(s \o t) = L + Len(t)
          /\ (\A i \in 1 .. L : (s \o t)[i] = s[i]) /\ (\A i \in 1 .. Len(t) : (s \o t)[L + i] = t[i])
      BY <2>2
    <3> QED BY <2>2, <3>1, LenProperties
  <2> HIDE DEF L
  <2>4. p \in 1 .. L + Len(t) /\ flat[n + 1][p] \in K
        /\ \A i \in 1 .. L + Len(t) : flat[n + 1][i] \in K => i <= p
    BY <1>4, <2>3 DEF LastIn
  <2>5. CASE p <= L
    <3>1. \A i \in 1 .. L : i \in 1 .. L + Len(t) /\ p \in 1 .. L
      BY <2>3, <2>4, <2>5
    <3>2. LastIn(s, K, p)
      <4>1. s[p] \in K
        BY <2>3, <2>4, <3>1, <2>5
      <4>2. \A i \in 1 .. L : s[i] \in K => i <= p
        BY <2>3, <2>4, <3>1
      <4> QED BY <2>3, <2>4, <2>5, <4>1, <4>2 DEF LastIn
    <3>3. PICK k \in 1 .. n :
            /\ \E l : LastIn(ss[k], K, l) /\ ss[k][l] = s[p]
            /\ \A j \in 1 .. n : ToSet(ss[j]) \cap K # {} => j <= k
      BY <1>4, <3>2 DEF s
    <3>4. ToSet(t) \cap K = {}
      <4>1. ASSUME NEW i \in 1 .. Len(t), t[i] \in K PROVE FALSE
        <5>1. L + i \in 1 .. L + Len(t) /\ flat[n + 1][L + i] \in K
          BY <2>3, <4>1
        <5>2. L + i <= p
          BY <2>4, <5>1
        <5> QED BY <2>3, <2>5, <2>4, <5>2
      <4> QED BY <2>3, <4>1 DEF ToSet
    <3>5. flat[n + 1][p] = s[p]
      BY <2>3, <2>4, <2>5
    <3>6. \A j \in 1 .. n + 1 : ToSet(ss[j]) \cap K # {} => j <= k
      BY <2>1, <3>3, <3>4 DEF t
    <3> QED BY <2>1, <3>3, <3>5, <3>6
  <2>6. CASE ~(p <= L)
    <3>1. p - L \in 1 .. Len(t) /\ L + (p - L) = p
      BY <2>3, <2>4, <2>6
    <3>2. t[p - L] = flat[n + 1][p]
      BY <2>3, <3>1
    <3>3. ASSUME NEW i \in 1 .. Len(t), t[i] \in K PROVE i <= p - L
      <4>1. L + i \in 1 .. L + Len(t) /\ flat[n + 1][L + i] \in K
        BY <2>3, <3>3
      <4>2. L + i <= p
        BY <2>4, <4>1
      <4> QED BY <2>3, <2>4, <4>2
    <3>4. LastIn(t, K, p - L)
      BY <2>3, <2>4, <3>1, <3>2, <3>3 DEF LastIn
    <3>5. \A j \in 1 .. n + 1 : j <= n + 1
      BY <2>1
    <3>6. /\ n + 1 \in 1 .. n + 1
          /\ \E l : LastIn(ss[n + 1], K, l) /\ ss[n + 1][l] = flat[n + 1][p]
      BY <2>1, <3>2, <3>4 DEF t
    <3> QED BY <3>5, <3>6
  <2> QED BY <2>3, <2>4, <2>5, <2>6
<1>5. \A n \in 0 .. N - 1 : n \in holds => n + 1 \in holds
  <2>1. \A n \in 0 .. N - 1 : n + 1 \in 0 .. N
    BY <1>1
  <2> QED BY <1>4, <2>1
<1>6. N \in holds
  <2> HIDE DEF holds
  <2>1. \A n \in 0 .. N : n \in holds
    BY <1>1, <1>3, <1>5, UpTo, Zenon
  <2> QED BY <1>1, <2>1
<1> QED BY <1>1, <1>2, <1>6

(* A kind of which there is an element has a last one. *)
LEMMA LastExists ==
  ASSUME NEW S, NEW seq \in Seq(S), NEW K, ToSet(seq) \cap K # {}
  PROVE  \E m : LastIn(seq, K, m)
<1> DEFINE I == {i \in 1 .. Len(seq) : seq[i] \in K}
<1>1. Len(seq) \in Nat /\ DOMAIN seq = 1 .. Len(seq)
  BY LenProperties
<1>2. I \in SUBSET (1 .. Len(seq)) /\ I # {}
  BY <1>1 DEF ToSet
<1>3. PICK m \in I : \A i \in I : i <= m
  <2> HIDE DEF I
  <2> QED BY <1>1, <1>2, MaxExists
<1> QED BY <1>1, <1>3 DEF LastIn
-----------------------------------------------------------------------------

(* a is before b in the lexicographic order of tuples of numbers. *)
Below(a, b) == \E i \in DOMAIN b : a[i] < b[i] /\ \A j \in 1 .. i - 1 : a[j] = b[j]

(* Tuples of n natural numbers do not decrease forever: every set of them    *)
(* has an element with none below it.                                        *)
LEMMA BelowIsWellFounded ==
  ASSUME NEW n \in Nat, NEW S \in SUBSET [1 .. n -> Nat], S # {}
  PROVE  \E m \in S : \A s \in S : ~Below(s, m)
<1> DEFINE Same(s, m, k) == \A j \in 1 .. k : s[j] = m[j]
           Least(m, k) == \A s \in S : \A i \in 1 .. k : s[i] < m[i] => ~Same(s, m, i - 1)
           holds == {k \in 0 .. n : \E m \in S : Least(m, k)}
<1>1. 0 \in holds
  OBVIOUS
<1>2. ASSUME NEW k \in 0 .. n - 1, k \in holds PROVE k + 1 \in holds
  <2>1. PICK m \in S : Least(m, k)
    BY <1>2
  <2> DEFINE T == {s \in S : Same(s, m, k)}
             V == {s[k + 1] : s \in T}
  <2>2. /\ k \in Nat /\ k + 1 \in 1 .. n /\ k + 1 \in 0 .. n /\ (k + 1) - 1 = k
        /\ \A i \in 1 .. k + 1 : i = k + 1 \/ i \in 1 .. k
        /\ \A i \in 1 .. k : i - 1 \in 0 .. k /\ \A j \in 1 .. i - 1 : j \in 1 .. k
    OBVIOUS
  <2>3. \A s \in S : s \in [1 .. n -> Nat] /\ s[k + 1] \in Nat
    BY <2>2
  <2>4. m \in T /\ V \in SUBSET Nat /\ V # {}
    BY <2>3
  <2>5. PICK v \in V : \A w \in V : v <= w
    <3> HIDE DEF V
    <3> QED BY <2>4, MinExists
  <2>6. PICK t \in T : t[k + 1] = v
    OBVIOUS
  <2>7. ASSUME NEW s \in S, NEW i \in 1 .. k + 1, s[i] < t[i], Same(s, t, i - 1)
        PROVE  FALSE
    <3>1. CASE i = k + 1
      <4>1. s \in T
        BY <2>2, <2>6, <2>7, <3>1
      <4>2. t[k + 1] <= s[k + 1]
        BY <2>5, <2>6, <4>1
      <4>3. s[k + 1] \in Nat /\ t[k + 1] \in Nat
        BY <2>3, <2>6
      <4> QED BY <2>7, <3>1, <4>2, <4>3
    <3>2. CASE i # k + 1
      <4>1. i \in 1 .. k
        BY <2>2, <3>2
      <4>2. s[i] < m[i] /\ Same(s, m, i - 1)
        BY <2>2, <2>6, <2>7, <4>1
      <4> QED BY <2>1, <4>1, <4>2
    <3> QED BY <3>1, <3>2
  <2> HIDE DEF T, V
  <2>8. t \in S /\ Least(t, k + 1)
    BY <2>7, <2>6 DEF T
  <2> QED BY <2>2, <2>8
<1> HIDE DEF holds
<1>3. \A k \in 0 .. n : k \in holds
  BY <1>1, <1>2, UpTo
<1>4. PICK m \in S : Least(m, n)
  <2> HIDE DEF Least
  <2>1. n \in holds
    BY <1>3
  <2> QED BY <2>1 DEF holds
<1>5. DOMAIN m = 1 .. n
  OBVIOUS
<1> QED BY <1>4, <1>5 DEF Below
(* g[n] is what the node n depends on: the root needs all nodes of R, and in *)
(* every set of them there is one that depends on none of the set.           *)
NeedsAll(root, g, R) ==
  \A S \in SUBSET R : root \in S /\ (\A n \in S : g[n] \subseteq S) => S = R

Acyclic(g, R) == \A C \in SUBSET R : C # {} => \E n \in C : g[n] \cap C = {}

(* The n nodes in an order in which each comes after what it depends on *)
Topological(s, g, n, root) ==
  s[n] = root /\ \A i \in 1 .. n : \A d \in g[s[i]] : \E j \in 1 .. i - 1 : s[j] = d

LEMMA TopologicalOrderExists ==
  ASSUME NEW R, IsFiniteSet(R), NEW g, NEW root \in R,
         \A n \in R : g[n] \subseteq R, NeedsAll(root, g, R), Acyclic(g, R)
  PROVE  \E s \in SetToSeqs(R) : Topological(s, g, Cardinality(R), root)
<1> DEFINE N == Cardinality(R)
           Prefix(s, k) ==
             /\ s \in [1 .. k -> R]
             /\ \A i, j \in 1 .. k : s[i] = s[j] => i = j
             /\ \A i \in 1 .. k : \A d \in g[s[i]] : \E j \in 1 .. i - 1 : s[j] = d
             /\ \A i \in 1 .. k : s[i] = root => i = N
           holds == {k \in 0 .. N : \E s : Prefix(s, k)}
<1>1. N \in Nat
  BY FS_CardinalityType
<1>2. 0 \in holds
  <2>1. Prefix(<<>>, 0)
    OBVIOUS
  <2> HIDE DEF Prefix
  <2> QED BY <1>1, <2>1
<1>3. ASSUME NEW k \in 0 .. N, NEW s, Prefix(s, k)
      PROVE  /\ s \in Injection(1 .. k, R) /\ IsFiniteSet(1 .. k) /\ Cardinality(1 .. k) = k
             /\ k = N <=> \A x \in R : \E i \in 1 .. k : s[i] = x
  <2>1. s \in Injection(1 .. k, R)
    BY <1>3 DEF Injection, IsInjective
  <2>2. IsFiniteSet(1 .. k) /\ Cardinality(1 .. k) = k
    <3>1. 1 \in Int /\ k \in Int /\ (IF 1 > k THEN 0 ELSE k - 1 + 1) = k
      BY <1>1
    <3>2. IsFiniteSet(1 .. k) /\ Cardinality(1 .. k) = IF 1 > k THEN 0 ELSE k - 1 + 1
      BY <3>1, FS_Interval
    <3> QED BY <3>1, <3>2
  <2>3. Cardinality(1 .. k) = Cardinality(R) <=> s \in Surjection(1 .. k, R)
    BY <2>1, FS_Injection
  <2>4. s \in Surjection(1 .. k, R) <=> \A x \in R : \E i \in 1 .. k : s[i] = x
    BY <1>3 DEF Surjection
  <2> HIDE DEF Prefix
  <2> QED BY <2>1, <2>2, <2>3, <2>4
<1>4. ASSUME NEW k \in 0 .. N - 1, k \in holds PROVE k + 1 \in holds
  <2>1. PICK s : Prefix(s, k)
    BY <1>4
  <2>2. k \in 0 .. N /\ k # N /\ k + 1 \in 0 .. N /\ k \in Nat
    BY <1>1
  <2> DEFINE taken == {s[i] : i \in 1 .. k}
  <2>3. PICK x \in R \ taken : g[x] \cap (R \ taken) = {}
    <3>1. R \ taken # {}
      <4>1. ~\A x \in R : \E i \in 1 .. k : s[i] = x
        <5> HIDE DEF Prefix
        <5> QED BY <1>3, <2>1, <2>2
      <4> QED BY <4>1
    <3> HIDE DEF taken
    <3> QED BY <3>1 DEF Acyclic
  <2>4. g[x] \subseteq taken
    <3> HIDE DEF taken
    <3> QED BY <2>3
  <2> DEFINE t == [i \in 1 .. k + 1 |-> IF i = k + 1 THEN x ELSE s[i]]
  <2>5. /\ t[k + 1] = x /\ k + 1 \in 1 .. k + 1
        /\ \A i \in 1 .. k : t[i] = s[i] /\ i \in 1 .. k + 1
        /\ \A i \in 1 .. k + 1 : i = k + 1 \/ i \in 1 .. k
    BY <2>2
  <2>6. t \in [1 .. k + 1 -> R]
    BY <2>1, <2>2
  <2> HIDE DEF t
  <2>7. \A i, j \in 1 .. k + 1 : t[i] = t[j] => i = j
    <3>1. \A i \in 1 .. k : s[i] # x
      BY <2>3
    <3> QED BY <2>1, <2>5, <3>1
  <2>8. ASSUME NEW i \in 1 .. k + 1, NEW d \in g[t[i]] PROVE \E j \in 1 .. i - 1 : t[j] = d
    <3>1. CASE i = k + 1
      <4>1. PICK j \in 1 .. k : s[j] = d
        BY <2>4, <2>5, <3>1
      <4>2. j \in 1 .. i - 1
        BY <2>2, <3>1
      <4> QED BY <2>5, <4>1, <4>2
    <3>2. CASE i # k + 1
      <4>1. i \in 1 .. k /\ d \in g[s[i]]
        BY <2>5, <3>2
      <4>2. PICK j \in 1 .. i - 1 : s[j] = d
        BY <2>1, <4>1
      <4>3. j \in 1 .. k
        BY <2>2, <4>1
      <4> QED BY <2>5, <4>2, <4>3
    <3> QED BY <3>1, <3>2
  <2>9. ASSUME x = root PROVE k + 1 = N
    <3> DEFINE S == taken \cup {root}
    <3>1. \A i \in 1 .. k : s[i] \in R
      BY <2>1
    <3>2. S \in SUBSET R /\ root \in S
      BY <3>1
    <3>3. ASSUME NEW n \in S PROVE g[n] \subseteq S
      <4>1. CASE n = root
        BY <2>4, <2>9, <4>1
      <4>2. CASE n # root
        <5>1. PICK i \in 1 .. k : n = s[i]
          BY <4>2
        <5>2. \A d \in g[n] : \E j \in 1 .. k : s[j] = d
          <6>1. \A d \in g[n] : \E j \in 1 .. i - 1 : s[j] = d
            BY <2>1, <5>1
          <6>2. \A j \in 1 .. i - 1 : j \in 1 .. k
            BY <2>2
          <6> QED BY <6>1, <6>2
        <5> QED BY <5>2
      <4> QED BY <4>1, <4>2
    <3>4. S = R
      <4> HIDE DEF S
      <4> QED BY <3>2, <3>3 DEF NeedsAll
    <3>5. \A y \in R : \E i \in 1 .. k + 1 : t[i] = y
      BY <2>5, <2>9, <3>4
    <3>6. t \in Injection(1 .. k + 1, R) /\ t \in Surjection(1 .. k + 1, R)
      BY <2>6, <2>7, <3>5 DEF Injection, IsInjective, Surjection
    <3>7. IsFiniteSet(1 .. k + 1) /\ Cardinality(1 .. k + 1) = k + 1
      BY <2>2, FS_Interval
    <3>8. Cardinality(1 .. k + 1) = Cardinality(R)
      BY <3>6, <3>7, FS_Injection
    <3> QED BY <3>7, <3>8
  <2>10. ASSUME NEW i \in 1 .. k + 1, t[i] = root PROVE i = N
    <3>1. CASE i = k + 1
      BY <2>5, <2>9, <2>10, <3>1
    <3>2. CASE i # k + 1
      BY <2>1, <2>5, <2>10, <3>2
    <3> QED BY <3>1, <3>2
  <2>11. Prefix(t, k + 1)
    BY <2>6, <2>7, <2>8, <2>10
  <2> HIDE DEF Prefix
  <2> QED BY <2>2, <2>11
<1> HIDE DEF holds
<1>5. \A k \in 0 .. N : k \in holds
  BY <1>1, <1>2, <1>4, UpTo
<1>6. PICK s : Prefix(s, N)
  <2> HIDE DEF Prefix
  <2> QED BY <1>1, <1>5 DEF holds
<1>7. s[N] = root
  <2>1. N \in 0 .. N
    BY <1>1
  <2>2. \A x \in R : \E i \in 1 .. N : s[i] = x
    <3> HIDE DEF Prefix
    <3> QED BY <1>3, <1>6, <2>1
  <2> QED BY <1>6, <2>2
<1>8. s \in SetToSeqs(R)
  BY <1>6 DEF SetToSeqs
<1>9. Topological(s, g, N, root)
  BY <1>6, <1>7 DEF Topological
<1> QED BY <1>8, <1>9
=============================================================================
