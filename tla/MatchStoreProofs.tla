-------------------------- MODULE MatchStoreProofs --------------------------
(***************************************************************************)
(* Proofs about MatchStore, for any files, imports, failures and profiles: *)
(* what the load leaves in the store and what a query collects from it.    *)
(***************************************************************************)
EXTENDS MatchStore, DataLemmas

(* What the loops in progress have still to look at *)
PendingIn(fs) == UNION {ToSet(fs[k]) : k \in DOMAIN fs}

Known == DOMAIN match_file_map

(* The paths the load has met so far: those of the profiles, and the imports *)
(* of the files it has loaded                                                *)
Met == get_all_match_file_paths \cup UNION {ToSet(import_paths[p]) : p \in Known}

(* The paths for which the load has failed *)
Failed == {e.file : e \in {f \in ToSet(errors) : f = single_error(f.file)}}

RefsOf(paths) == {match_file_map[p] : p \in paths \cap Known}

(* The indices a query has met so far *)
Asked == RefsOf(match_file_paths[queried]) \cup UNION {ToSet(files[r].imports) : r \in visited}

Resolved == pc \notin {"load", "resolve"}
Querying == pc \in {"query", "collected", "done"}

FileType == [source_path : Paths, imports : Seq(IF Resolved THEN DOMAIN files ELSE Paths)]
AnyReport == {Report("error", "file", 0)} \cup UNION {Loaded[p].non_fatal_errors : p \in Paths}
ErrorType == [file : Paths, errors : (SUBSET AnyReport) \ {{}}]

TypeInv ==
  /\ import_paths \in [Paths -> Seq(Paths)]
  /\ broken \subseteq Paths
  /\ match_file_paths \in [Profiles -> SUBSET Paths]
  /\ pc \in {"load", "resolve", "ready", "query", "collected", "done"}
  /\ files \in Seq(FileType)
  /\ match_file_map \in [Known -> DOMAIN files]
  /\ Known \subseteq Paths \ broken
  /\ errors \in Seq(ErrorType)
  /\ collected \in Seq(Paths)
  /\ IF pc = "done" THEN DOMAIN cache = {"trigger_map", "global_var_map", "regex_ids"}
     ELSE cache = None

FramesInv ==
  /\ frames \in Seq(Seq(IF pc = "query" THEN DOMAIN files ELSE Paths))
  /\ pc \in {"load", "query"} <=> frames # <<>>

(* The load has met what is loaded, has failed, or is pending. *)
LoadInv ==
  /\ Known \subseteq ReachableFrom(get_all_match_file_paths, broken)
  /\ Failed \subseteq broken \cap Met
  /\ pc = "load" => PendingIn(frames) \subseteq Met
  /\ Met \subseteq Known \cup Failed \cup IF pc = "load" THEN PendingIn(frames) ELSE {}

(* The imports and the profiles' files, before and after they are resolved *)
ResolveInv ==
  /\ \A i \in DOMAIN files :
       IF Resolved THEN ToSet(files[i].imports) = RefsOf(ToSet(import_paths[files[i].source_path]))
       ELSE files[i].imports = import_paths[files[i].source_path]
  /\ Resolved =>
       /\ profile_refs \in [Profiles -> Seq(DOMAIN files)]
       /\ \A p \in Profiles : ToSet(profile_refs[p]) = RefsOf(match_file_paths[p])
  /\ ~Resolved => profile_refs = [p \in Profiles |-> <<>>]

(* The query has met what is visited or pending. *)
QueryInv ==
  /\ visited \subseteq DOMAIN files
  /\ Querying =>
       /\ queried \in Profiles
       /\ {files[r].source_path : r \in visited} \subseteq Reached
       /\ ToSet(collected) = {files[r].source_path : r \in visited}
       /\ \A i, j \in DOMAIN collected : collected[i] = collected[j] => i = j
       /\ pc = "query" => PendingIn(frames) \subseteq Asked
       /\ Asked \subseteq visited \cup IF pc = "query" THEN PendingIn(frames) ELSE {}
  /\ ~Querying => queried = None /\ visited = {} /\ collected = <<>>

IInv == TypeInv /\ FramesInv /\ RefsStayValid /\ LoadInv /\ ResolveInv /\ QueryInv

-----------------------------------------------------------------------------
(* The loops *)

LEMMA LoopFacts ==
  ASSUME NEW S, frames \in Seq(Seq(S)), NEW x, Looks(x)
  PROVE  /\ Rest \in Seq(Seq(S)) /\ Rest # <<>>
         /\ x \in S
         /\ PendingIn(frames) = PendingIn(Rest) \cup {x}
<1> DEFINE d == Len(frames)
           top == frames[d]
<1>1. d \in Nat /\ d > 0 /\ top \in Seq(S) /\ top # <<>> /\ x = Head(top)
      /\ \A k \in 1 .. d : frames[k] \in Seq(S)
  BY EmptySeq DEF Looks, Depth
<1>2. Rest = Append(SubSeq(frames, 1, d - 1), Tail(top))
  BY DEF Rest, Callers, Depth
<1>3. /\ Tail(top) \in Seq(S) /\ Len(Tail(top)) = Len(top) - 1 /\ x = top[1] /\ x \in S
      /\ \A i \in 1 .. Len(top) - 1 : Tail(top)[i] = top[i + 1]
  BY <1>1
<1>4. ToSet(top) = ToSet(Tail(top)) \cup {x}
  <2>1. ASSUME NEW i \in DOMAIN top PROVE top[i] \in ToSet(Tail(top)) \cup {x}
    <3>1. CASE i = 1
      BY <3>1, <1>3
    <3>2. CASE i # 1
      <4>1. i - 1 \in 1 .. Len(top) - 1 /\ Tail(top)[i - 1] = top[(i - 1) + 1] /\ (i - 1) + 1 = i
        BY <1>1, <1>3, <3>2
      <4>2. i - 1 \in DOMAIN Tail(top)
        BY <1>3, <4>1
      <4> QED BY <4>1, <4>2 DEF ToSet
    <3> QED BY <3>1, <3>2
  <2>2. ASSUME NEW i \in DOMAIN Tail(top) PROVE Tail(top)[i] \in ToSet(top)
    <3>1. i \in 1 .. Len(top) - 1
      BY <1>3
    <3>2. i + 1 \in DOMAIN top /\ Tail(top)[i] = top[i + 1]
      BY <1>1, <1>3, <3>1
    <3> QED BY <3>2 DEF ToSet
  <2>3. x \in ToSet(top)
    BY <1>1, <1>3 DEF ToSet
  <2> QED BY <2>1, <2>2, <2>3 DEF ToSet
<1>5. /\ Rest \in Seq(Seq(S)) /\ Len(Rest) = d
      /\ \A k \in 1 .. d - 1 : Rest[k] = frames[k]
      /\ Rest[d] = Tail(top)
  <2> DEFINE fs == SubSeq(frames, 1, d - 1)
  <2>1. /\ fs \in Seq(Seq(S)) /\ Len(fs) = d - 1
        /\ \A k \in 1 .. d - 1 : fs[k] = frames[k]
    BY FrontFacts DEF Looks
  <2> HIDE DEF top, fs, d
  <2>2. Rest = Append(fs, Tail(top))
    BY <1>2 DEF fs
  <2> QED BY <1>1, <1>3, <2>1, <2>2
<1> HIDE DEF d
<1>6. DOMAIN frames = (1 .. d - 1) \cup {d} /\ DOMAIN Rest = (1 .. d - 1) \cup {d}
  <2>1. DOMAIN frames = 1 .. d /\ DOMAIN Rest = 1 .. d
    BY <1>5, LenProperties DEF d
  <2> QED BY <1>1, <2>1
<1>7. PendingIn(frames) = (UNION {ToSet(frames[k]) : k \in 1 .. d - 1}) \cup ToSet(top)
  BY <1>6 DEF PendingIn
<1>8. PendingIn(Rest) = (UNION {ToSet(frames[k]) : k \in 1 .. d - 1}) \cup ToSet(Tail(top))
  <2> HIDE DEF top
  <2>1. ToSet(Rest[d]) = ToSet(Tail(top)) /\ \A k \in 1 .. d - 1 : ToSet(Rest[k]) = ToSet(frames[k])
    BY <1>5
  <2>2. PendingIn(Rest) = (UNION {ToSet(Rest[k]) : k \in 1 .. d - 1}) \cup ToSet(Rest[d])
    BY <1>6 DEF PendingIn
  <2> QED BY <2>1, <2>2
<1>9. Rest # <<>>
  BY <1>1, <1>5
<1> QED BY <1>3, <1>4, <1>5, <1>7, <1>8, <1>9

LEMMA CallFacts ==
  ASSUME NEW S, NEW fs \in Seq(Seq(S)), NEW items \in Seq(S)
  PROVE  /\ Append(fs, items) \in Seq(Seq(S)) /\ Append(fs, items) # <<>>
         /\ PendingIn(Append(fs, items)) = PendingIn(fs) \cup ToSet(items)
<1>1. /\ Append(fs, items) \in Seq(Seq(S)) /\ Len(Append(fs, items)) = Len(fs) + 1
      /\ \A k \in 1 .. Len(fs) : Append(fs, items)[k] = fs[k]
      /\ Append(fs, items)[Len(fs) + 1] = items
      /\ Len(fs) \in Nat
  OBVIOUS
<1>2. DOMAIN Append(fs, items) = DOMAIN fs \cup {Len(fs) + 1} /\ DOMAIN fs = 1 .. Len(fs)
  BY <1>1
<1>3. Append(fs, items) # <<>>
  BY AppendProperties
<1> QED BY <1>1, <1>2, <1>3 DEF PendingIn

LEMMA ReturnFacts ==
  ASSUME NEW S, frames \in Seq(Seq(S)), Finished
  PROVE  /\ Callers \in Seq(Seq(S)) /\ (Callers # <<>> <=> Depth > 1)
         /\ Depth \in Nat /\ Depth > 0
         /\ PendingIn(frames) = PendingIn(Callers)
<1> DEFINE d == Len(frames)
<1>1. /\ frames[d] = <<>> /\ d \in Nat /\ d > 0
      /\ Callers \in Seq(Seq(S)) /\ DOMAIN Callers = 1 .. d - 1
      /\ \A k \in 1 .. d - 1 : Callers[k] = frames[k]
      /\ Callers = <<>> <=> d = 1
  BY FrontFacts DEF Finished, Depth, Callers
<1>2. DOMAIN frames = 1 .. d
  OBVIOUS
<1> HIDE DEF d
<1>3. DOMAIN frames = (1 .. d - 1) \cup {d}
  BY <1>1, <1>2
<1>4. ToSet(frames[d]) = {}
  BY <1>1 DEF ToSet
<1>5. PendingIn(frames) = PendingIn(Callers)
  BY <1>1, <1>3, <1>4 DEF PendingIn
<1> QED BY <1>1, <1>5 DEF Depth, d

-----------------------------------------------------------------------------
(* What is kept *)

(* Kept gives exactly the positions to be kept, in order. *)
LEMMA KeptFacts ==
  ASSUME NEW N \in Nat, NEW keep \in [1 .. N -> BOOLEAN]
  PROVE  /\ Kept(keep) \in Seq(1 .. N)
         /\ ToSet(Kept(keep)) = {i \in 1 .. N : keep[i]}
         /\ \A a, b \in DOMAIN Kept(keep) : Kept(keep)[a] <= Kept(keep)[b] \/ b <= a
<1> DEFINE Def(g) == [n \in 0 .. N |-> IF n = 0 THEN <<>>
                                      ELSE IF keep[n] THEN Append(g[n - 1], n) ELSE g[n - 1]]
           kept == CHOOSE g : g = Def(g)
           Right(n, seq) == /\ seq \in Seq(1 .. N) /\ ToSet(seq) = {i \in 1 .. n : keep[i]}
                            /\ \A a, b \in DOMAIN seq : seq[a] <= seq[b] \/ b <= a
<1>1. Len(keep) = N
  <2>1. keep \in Seq(BOOLEAN)
    OBVIOUS
  <2> QED BY <2>1, LenProperties
<1>2. Kept(keep) = kept[N]
  BY <1>1 DEF Kept
<1>3. ASSUME NEW n \in 0 .. N - 1, NEW seq, Right(n, seq)
      PROVE  Right(n + 1, IF keep[n + 1] THEN Append(seq, n + 1) ELSE seq)
  <2>1. n + 1 \in 1 .. N /\ n + 1 \notin 1 .. n /\ 1 .. n + 1 = (1 .. n) \cup {n + 1}
    OBVIOUS
  <2>2. CASE keep[n + 1]
    <3>1. /\ Append(seq, n + 1) \in Seq(1 .. N) /\ Len(Append(seq, n + 1)) = Len(seq) + 1
          /\ \A i \in 1 .. Len(seq) : Append(seq, n + 1)[i] = seq[i]
          /\ Append(seq, n + 1)[Len(seq) + 1] = n + 1
          /\ DOMAIN Append(seq, n + 1) = 1 .. Len(seq) + 1
      BY <1>3, <2>1, AppendProperties
    <3>2. DOMAIN Append(seq, n + 1) = DOMAIN seq \cup {Len(seq) + 1} /\ DOMAIN seq = 1 .. Len(seq)
      BY <1>3, <3>1
    <3>3. ToSet(Append(seq, n + 1)) = ToSet(seq) \cup {n + 1}
      BY <3>1, <3>2 DEF ToSet
    <3>4. \A a \in DOMAIN seq : seq[a] <= n + 1
      BY <1>3 DEF ToSet
    <3>5. \A a, b \in DOMAIN Append(seq, n + 1) : Append(seq, n + 1)[a] <= Append(seq, n + 1)[b] \/ b <= a
      <4>1. Len(seq) \in Nat /\ \A a, b \in DOMAIN seq : seq[a] <= seq[b] \/ b <= a
        BY <1>3
      <4> QED BY <3>1, <3>2, <3>4, <4>1
    <3>6. ToSet(Append(seq, n + 1)) = {i \in 1 .. n + 1 : keep[i]}
      BY <1>3, <2>1, <2>2, <3>3
    <3> QED BY <2>2, <3>1, <3>5, <3>6
  <2>3. CASE ~keep[n + 1]
    BY <1>3, <2>1, <2>3
  <2> QED BY <2>2, <2>3
<1> HIDE DEF Right
<1>4. \E g : g = Def(g)
  <2> DEFINE Part(n, g) ==
               /\ g = [i \in 0 .. n |-> g[i]]
               /\ \A i \in 0 .. n : g[i] = IF i = 0 THEN <<>>
                                           ELSE IF keep[i] THEN Append(g[i - 1], i) ELSE g[i - 1]
             holds == {n \in Nat : \E g : Part(n, g)}
  <2>1. 0 \in holds
    <3>1. Part(0, [i \in 0 .. 0 |-> <<>>])
      OBVIOUS
    <3> QED BY <3>1
  <2>2. ASSUME NEW n \in 0 .. N - 1, n \in holds PROVE n + 1 \in holds
    <3>1. PICK g : Part(n, g)
      BY <2>2
    <3> DEFINE last == IF keep[n + 1] THEN Append(g[n], n + 1) ELSE g[n]
               h == [i \in 0 .. n + 1 |-> IF i = n + 1 THEN last ELSE g[i]]
    <3> HIDE DEF last
    <3>2. ASSUME NEW i \in 0 .. n + 1
          PROVE  h[i] = IF i = 0 THEN <<>> ELSE IF keep[i] THEN Append(h[i - 1], i) ELSE h[i - 1]
      <4>1. CASE i = n + 1
        BY <4>1 DEF last
      <4>2. CASE i # n + 1
        <5>1. i \in 0 .. n /\ (i # 0 => i - 1 \in 0 .. n /\ i - 1 # n + 1)
          BY <4>2
        <5>2. g[i] = IF i = 0 THEN <<>> ELSE IF keep[i] THEN Append(g[i - 1], i) ELSE g[i - 1]
          BY <3>1, <5>1
        <5>3. h[i] = g[i] /\ (i # 0 => h[i - 1] = g[i - 1])
          <6> HIDE DEF Part
          <6> QED BY <4>2, <5>1
        <5> HIDE DEF h, Part
        <5> QED BY <5>2, <5>3
      <4> QED BY <4>1, <4>2
    <3>3. h = [i \in 0 .. n + 1 |-> h[i]]
      OBVIOUS
    <3> HIDE DEF h
    <3>4. Part(n + 1, h)
      BY <3>2, <3>3
    <3> HIDE DEF Part
    <3> QED BY <3>4
  <2>3. \A n \in 0 .. N : n \in holds
    <3> HIDE DEF holds
    <3> QED BY <2>1, <2>2, UpTo, Zenon
  <2>4. PICK g : Part(N, g)
    BY <2>3
  <2>5. \A n \in 0 .. N : g[n] = Def(g)[n]
    BY <2>4
  <2>6. g = [n \in 0 .. N |-> g[n]] /\ Def(g) = [n \in 0 .. N |-> Def(g)[n]]
    BY <2>4
  <2>7. g = Def(g)
    <3> HIDE DEF Def
    <3> QED BY <2>5, <2>6
  <2> QED BY <2>7
<1>5. kept = Def(kept)
  BY <1>4
<1> HIDE DEF kept
<1> DEFINE holds == {n \in 0 .. N : Right(n, kept[n])}
<1>6. 0 \in holds
  <2>1. kept[0] = <<>>
    BY <1>5
  <2>2. Right(0, <<>>)
    BY DEF Right, ToSet
  <2> QED BY <2>1, <2>2
<1>7. ASSUME NEW n \in 0 .. N - 1, n \in holds PROVE n + 1 \in holds
  <2>1. n + 1 \in 0 .. N /\ n + 1 # 0 /\ (n + 1) - 1 = n
    OBVIOUS
  <2>2. kept[n + 1] = IF keep[n + 1] THEN Append(kept[(n + 1) - 1], n + 1) ELSE kept[(n + 1) - 1]
    BY <1>5, <2>1
  <2>3. Right(n + 1, kept[n + 1])
    BY <1>3, <1>7, <2>1, <2>2
  <2> QED BY <2>1, <2>3
<1>8. N \in holds
  <2> HIDE DEF holds
  <2>1. \A n \in 0 .. N : n \in holds
    BY <1>6, <1>7, UpTo, Zenon
  <2> QED BY <2>1
<1>9. Right(N, kept[N])
  BY <1>8
<1> QED BY <1>2, <1>9 DEF Right

(* Refs gives the indices of the paths that are known. *)
LEMMA RefsFacts ==
  ASSUME NEW paths \in Seq(Paths), match_file_map \in [Known -> DOMAIN files]
  PROVE  /\ Refs(paths) \in Seq(DOMAIN files)
         /\ ToSet(Refs(paths)) = RefsOf(ToSet(paths))
<1> DEFINE N == Len(paths)
           keep == [i \in DOMAIN paths |-> paths[i] \in DOMAIN match_file_map]
           loaded == Kept(keep)
<1>1. N \in Nat /\ DOMAIN paths = 1 .. N
  BY LenProperties
<1> HIDE DEF N
<1>2. keep \in [1 .. N -> BOOLEAN] /\ \A i \in 1 .. N : keep[i] = (paths[i] \in Known)
  <2>1. keep = [i \in 1 .. N |-> paths[i] \in Known]
    BY <1>1 DEF Known
  <2> HIDE DEF keep
  <2>2. keep \in [1 .. N -> BOOLEAN]
    BY <2>1
  <2>3. \A i \in 1 .. N : keep[i] = (paths[i] \in Known)
    BY <2>1
  <2> QED BY <2>2, <2>3
<1> HIDE DEF keep
<1>3. loaded \in Seq(1 .. N) /\ ToSet(loaded) = {i \in 1 .. N : keep[i]}
  BY <1>1, <1>2, KeptFacts
<1>4. Refs(paths) = [n \in DOMAIN loaded |-> match_file_map[paths[loaded[n]]]]
  BY DEF Refs, keep
<1> HIDE DEF loaded
<1>5. \A n \in DOMAIN loaded : loaded[n] \in 1 .. N /\ paths[loaded[n]] \in Known
  BY <1>2, <1>3 DEF ToSet
<1>6. \A n \in DOMAIN loaded : match_file_map[paths[loaded[n]]] \in DOMAIN files
  BY <1>5
<1>7. DOMAIN loaded = 1 .. Len(loaded) /\ Len(loaded) \in Nat
  BY <1>3, LenProperties
<1>8. Refs(paths) \in Seq(DOMAIN files)
  <2> DEFINE X == DOMAIN files
  <2> HIDE DEF X
  <2>1. Refs(paths) \in [1 .. Len(loaded) -> X]
    BY <1>4, <1>6, <1>7 DEF X
  <2>2. Refs(paths) \in Seq(X)
    BY <1>7, <2>1
  <2> QED BY <2>2 DEF X
<1>9. ToSet(Refs(paths)) = {match_file_map[paths[loaded[n]]] : n \in DOMAIN loaded}
  BY <1>4 DEF ToSet
<1>10. ASSUME NEW p \in ToSet(paths) \cap Known PROVE \E n \in DOMAIN loaded : paths[loaded[n]] = p
  <2>1. PICK i \in 1 .. N : paths[i] = p
    BY <1>1 DEF ToSet
  <2>2. i \in ToSet(loaded)
    BY <1>2, <1>3, <2>1
  <2> QED BY <2>1, <2>2 DEF ToSet
<1>11. \A n \in DOMAIN loaded : paths[loaded[n]] \in ToSet(paths) \cap Known
  BY <1>1, <1>5 DEF ToSet
<1> QED BY <1>8, <1>9, <1>10, <1>11 DEF RefsOf

-----------------------------------------------------------------------------
(* Reachability and errors *)

(* ReachableFrom is the least set of paths with the roots that is closed. *)
LEMMA ReachFacts ==
  ASSUME NEW roots \in SUBSET Paths, NEW unread, import_paths \in [Paths -> Seq(Paths)]
  PROVE  LET R == ReachableFrom(roots, unread)
         IN  /\ R \subseteq Paths
             /\ roots \ unread \subseteq R
             /\ \A q \in R : ToSet(import_paths[q]) \ unread \subseteq R
             /\ \A S \in SUBSET Paths :
                  /\ roots \ unread \subseteq S
                  /\ \A q \in S : ToSet(import_paths[q]) \ unread \subseteq S
                  => R \subseteq S
<1> DEFINE R == ReachableFrom(roots, unread)
           Closed(S) == /\ roots \ unread \subseteq S
                        /\ \A q \in S : ToSet(import_paths[q]) \ unread \subseteq S
<1>1. R = {p \in Paths : \A S \in SUBSET Paths : Closed(S) => p \in S}
  BY DEF ReachableFrom
<1> HIDE DEF R
<1>2. \A q \in Paths : ToSet(import_paths[q]) \subseteq Paths
  BY DEF ToSet
<1>3. roots \ unread \subseteq R
  BY <1>1
<1>4. ASSUME NEW q \in R, NEW p \in ToSet(import_paths[q]) \ unread PROVE p \in R
  <2>1. p \in Paths
    BY <1>1, <1>2
  <2> QED BY <1>1, <2>1
<1>5. R \subseteq Paths /\ \A S \in SUBSET Paths : Closed(S) => R \subseteq S
  BY <1>1
<1> QED BY <1>3, <1>4, <1>5 DEF R

LEMMA MetTyped ==
  ASSUME TypeInv
  PROVE  get_all_match_file_paths \subseteq Paths /\ Met \subseteq Paths
<1>1. get_all_match_file_paths \subseteq Paths
  BY DEF TypeInv, get_all_match_file_paths
<1>2. \A p \in Known : ToSet(import_paths[p]) \subseteq Paths
  BY DEF TypeInv, ToSet
<1> QED BY <1>1, <1>2 DEF Met

FailedIn(es) == {e.file : e \in {f \in ToSet(es) : f = single_error(f.file)}}

LEMMA AppendFacts ==
  ASSUME NEW S, NEW s \in Seq(S), NEW x \in S
  PROVE  /\ Append(s, x) \in Seq(S)
         /\ ToSet(Append(s, x)) = ToSet(s) \cup {x}
         /\ DOMAIN Append(s, x) = DOMAIN s \cup {Len(s) + 1}
         /\ DOMAIN s = 1 .. Len(s) /\ Len(s) \in Nat
         /\ \A i \in DOMAIN s : Append(s, x)[i] = s[i]
         /\ Append(s, x)[Len(s) + 1] = x
<1>1. /\ Append(s, x) \in Seq(S) /\ Len(Append(s, x)) = Len(s) + 1
      /\ \A i \in 1 .. Len(s) : Append(s, x)[i] = s[i]
      /\ Append(s, x)[Len(s) + 1] = x
      /\ DOMAIN s = 1 .. Len(s) /\ Len(s) \in Nat
  BY AppendProperties, LenProperties
<1>2. DOMAIN Append(s, x) = DOMAIN s \cup {Len(s) + 1}
  BY <1>1, LenProperties
<1>3. ToSet(Append(s, x)) = ToSet(s) \cup {x}
  BY <1>1, <1>2 DEF ToSet
<1> QED BY <1>1, <1>2, <1>3

(* A file that fails is among the failed; the report of one that does not *)
(* fail is another.                                                       *)
LEMMA FailedFacts ==
  ASSUME TypeInv, NEW p \in Paths
  PROVE  /\ Append(errors, single_error(p)) \in Seq(ErrorType)
         /\ FailedIn(Append(errors, single_error(p))) = Failed \cup {p}
         /\ LET reports == Loaded[p].non_fatal_errors
            IN reports # {} =>
                 /\ Append(errors, [file |-> p, errors |-> reports]) \in Seq(ErrorType)
                 /\ FailedIn(Append(errors, [file |-> p, errors |-> reports])) = Failed
<1> DEFINE one == Report("error", "file", 0)
           reports == Loaded[p].non_fatal_errors
           other == [file |-> p, errors |-> reports]
<1>1. single_error(p) = [file |-> p, errors |-> {one}]
  BY DEF single_error
<1>2. one \notin reports
  <2>1. ASSUME NEW r \in reports PROVE r.list \in {"global_vars", "matches"}
    BY <2>1 DEF Loaded, load_file, Report
  <2>2. one.list = "file"
    BY DEF Report
  <2> HIDE DEF one, reports
  <2> QED BY <2>1, <2>2
<1>3. one \in AnyReport /\ reports \subseteq AnyReport
  BY DEF AnyReport
<1> HIDE DEF one, reports
<1>4. single_error(p) \in ErrorType /\ single_error(p).file = p
  BY <1>1, <1>3 DEF ErrorType
<1>5. reports # {} => other \in ErrorType
  BY <1>3 DEF ErrorType
<1>6. other # single_error(other.file)
  <2>1. other.errors = reports /\ single_error(p).errors = {one} /\ other.file = p
    BY <1>1
  <2> HIDE DEF other
  <2> QED BY <1>2, <2>1
<1>7. errors \in Seq(ErrorType) /\ Failed = FailedIn(errors)
  BY DEF TypeInv, Failed, FailedIn
<1>8. ASSUME NEW e \in ErrorType
      PROVE  /\ Append(errors, e) \in Seq(ErrorType)
             /\ FailedIn(Append(errors, e)) = Failed \cup IF e = single_error(e.file) THEN {e.file} ELSE {}
  <2>1. Append(errors, e) \in Seq(ErrorType) /\ ToSet(Append(errors, e)) = ToSet(errors) \cup {e}
    BY <1>7, AppendFacts
  <2> QED BY <1>7, <2>1 DEF FailedIn
<1>9. /\ Append(errors, single_error(p)) \in Seq(ErrorType)
      /\ FailedIn(Append(errors, single_error(p))) = Failed \cup {p}
  BY <1>4, <1>8
<1>10. reports # {} => Append(errors, other) \in Seq(ErrorType) /\ FailedIn(Append(errors, other)) = Failed
  <2> HIDE DEF other
  <2> QED BY <1>5, <1>6, <1>8
<1> QED BY <1>9, <1>10 DEF reports

-----------------------------------------------------------------------------
(* The first state *)

LEMMA InitInv == Init => IInv
<1> SUFFICES ASSUME Init PROVE IInv
  OBVIOUS
<1> USE DEF Init
<1>1. import_paths \in [Paths -> Seq(Paths)]
  <2>1. BoundedSeq(Paths, MaxImports) \subseteq Seq(Paths)
    BY BoundAssumption DEF BoundedSeq, SeqOf
  <2> QED BY <2>1
<1>2. get_all_match_file_paths \subseteq Paths /\ IsFiniteSet(get_all_match_file_paths)
  <2>1. get_all_match_file_paths \subseteq Paths
    BY DEF get_all_match_file_paths
  <2> QED BY <2>1, PathsAssumption, FS_Subset
<1>3. PICK roots \in SetToSeqs(get_all_match_file_paths) : frames = <<roots>>
  OBVIOUS
<1>4. roots \in Seq(get_all_match_file_paths) /\ ToSet(roots) = get_all_match_file_paths
  BY <1>2, SetToSeqsFacts
<1>5. roots \in Seq(Paths)
  BY <1>2, <1>4
<1>6. DOMAIN frames = {1} /\ frames[1] = roots /\ frames # <<>> /\ frames \in Seq(Seq(Paths))
  BY <1>3, <1>5
<1>7. PendingIn(frames) = get_all_match_file_paths
  BY <1>4, <1>6 DEF PendingIn
<1>8. Known = {} /\ DOMAIN files = {} /\ DOMAIN errors = {} /\ DOMAIN collected = {}
  BY DEF Known
<1>9. TypeInv
  <2>1. files \in Seq(FileType) /\ errors \in Seq(ErrorType) /\ collected \in Seq(Paths)
    OBVIOUS
  <2>2. match_file_map \in [Known -> DOMAIN files]
    BY <1>8 DEF Known
  <2> QED BY <1>1, <1>8, <2>1, <2>2 DEF TypeInv
<1>10. FramesInv
  BY <1>6 DEF FramesInv
<1>11. RefsStayValid
  BY <1>8 DEF RefsStayValid, Known
<1>12. LoadInv
  <2>1. Failed = {}
    BY <1>8 DEF Failed, ToSet
  <2>2. Met = get_all_match_file_paths
    BY <1>8 DEF Met
  <2> QED BY <1>7, <1>8, <2>1, <2>2 DEF LoadInv
<1>13. ResolveInv
  BY <1>8 DEF ResolveInv, Resolved
<1>14. QueryInv
  BY DEF QueryInv, Querying
<1> QED BY <1>9, <1>10, <1>11, <1>12, <1>13, <1>14 DEF IInv

-----------------------------------------------------------------------------
(* The steps of the load *)

(* What a step that only goes on in the loops of the load leaves alone *)
LEMMA LoopStays ==
  ASSUME IInv, pc = "load", UNCHANGED <<world, pc, files, match_file_map, profile_refs, query, cache>>,
         errors' \in Seq(ErrorType)
  PROVE  /\ TypeInv' /\ RefsStayValid' /\ ResolveInv' /\ QueryInv'
         /\ Known' = Known /\ Met' = Met
         /\ ReachableFrom(get_all_match_file_paths, broken)'
              = ReachableFrom(get_all_match_file_paths, broken)
<1> USE DEF world, query
<1>1. Known' = Known /\ get_all_match_file_paths' = get_all_match_file_paths
  BY DEF Known, get_all_match_file_paths
<1>2. Met' = Met
  BY <1>1 DEF Met
<1>3. ReachableFrom(get_all_match_file_paths, broken)'
        = ReachableFrom(get_all_match_file_paths, broken)
  BY <1>1 DEF ReachableFrom
<1>4. TypeInv'
  <2>1. FileType' = FileType /\ ErrorType' = ErrorType
    BY DEF FileType, ErrorType, Resolved
  <2> QED BY <1>1, <2>1 DEF IInv, TypeInv
<1>5. RefsStayValid'
  BY DEF IInv, RefsStayValid
<1>6. ResolveInv'
  BY DEF IInv, ResolveInv, Resolved
<1>7. QueryInv'
  BY DEF IInv, QueryInv, Querying
<1> QED BY <1>1, <1>2, <1>3, <1>4, <1>5, <1>6, <1>7

LEMMA AlreadyLoadedStep ==
  ASSUME IInv, NEW p \in Paths, AlreadyLoaded(p)
  PROVE  IInv'
<1> USE DEF AlreadyLoaded, Continue, store
<1>1. frames \in Seq(Seq(Paths)) /\ errors \in Seq(ErrorType)
  BY DEF IInv, FramesInv, TypeInv
<1>2. /\ Rest \in Seq(Seq(Paths)) /\ Rest # <<>>
      /\ PendingIn(frames) = PendingIn(Rest) \cup {p}
  BY <1>1, LoopFacts
<1>3. /\ TypeInv' /\ RefsStayValid' /\ ResolveInv' /\ QueryInv'
      /\ Known' = Known /\ Met' = Met
      /\ ReachableFrom(get_all_match_file_paths, broken)'
           = ReachableFrom(get_all_match_file_paths, broken)
  BY <1>1, LoopStays
<1>4. FramesInv'
  BY <1>2 DEF FramesInv
<1>5. LoadInv'
  <2>1. Failed' = Failed /\ PendingIn(frames)' = PendingIn(Rest) /\ p \in Known
    BY DEF Failed, PendingIn, Known, single_error
  <2> QED BY <1>2, <1>3, <2>1 DEF IInv, LoadInv, world
<1> QED BY <1>3, <1>4, <1>5 DEF IInv

LEMMA LoadFailsStep ==
  ASSUME IInv, NEW p \in Paths, LoadFails(p)
  PROVE  IInv'
<1> USE DEF LoadFails, Continue
<1>1. frames \in Seq(Seq(Paths)) /\ errors' \in Seq(ErrorType) /\ Failed' = Failed \cup {p}
  <2>1. FailedIn(errors') = Failed'
    BY DEF Failed, FailedIn, single_error
  <2> QED BY <2>1, FailedFacts DEF IInv, FramesInv
<1>2. /\ Rest \in Seq(Seq(Paths)) /\ Rest # <<>>
      /\ PendingIn(frames) = PendingIn(Rest) \cup {p}
  BY <1>1, LoopFacts
<1>3. /\ TypeInv' /\ RefsStayValid' /\ ResolveInv' /\ QueryInv'
      /\ Known' = Known /\ Met' = Met
      /\ ReachableFrom(get_all_match_file_paths, broken)'
           = ReachableFrom(get_all_match_file_paths, broken)
  BY <1>1, LoopStays
<1>4. FramesInv'
  BY <1>2 DEF FramesInv
<1>5. LoadInv'
  <2>1. PendingIn(frames)' = PendingIn(Rest) /\ p \in broken
    BY DEF PendingIn
  <2> QED BY <1>1, <1>2, <1>3, <2>1 DEF IInv, LoadInv, world
<1> QED BY <1>3, <1>4, <1>5 DEF IInv

LEMMA LoadStep ==
  ASSUME IInv, NEW p \in Paths, Load(p)
  PROVE  IInv'
<1> DEFINE n == Len(files) + 1
           new == [source_path |-> p, imports |-> import_paths[p]]
<1> USE DEF Load, Recurse, world, query
<1>1. /\ pc = "load" /\ pc' = "load" /\ ~Resolved /\ ~Resolved'
      /\ frames \in Seq(Seq(Paths)) /\ import_paths[p] \in Seq(Paths)
      /\ FileType = [source_path : Paths, imports : Seq(Paths)] /\ FileType' = FileType
  BY DEF IInv, FramesInv, TypeInv, Resolved, FileType
<1>2. /\ Rest \in Seq(Seq(Paths)) /\ Rest # <<>>
      /\ PendingIn(frames) = PendingIn(Rest) \cup {p}
  BY <1>1, LoopFacts
<1>3. /\ frames' \in Seq(Seq(Paths)) /\ frames' # <<>>
      /\ PendingIn(frames') = PendingIn(Rest) \cup ToSet(import_paths[p])
  <2>1. frames' = Append(Rest, import_paths[p])
    OBVIOUS
  <2> HIDE DEF Load, Recurse
  <2>2. /\ Append(Rest, import_paths[p]) \in Seq(Seq(Paths)) /\ Append(Rest, import_paths[p]) # <<>>
        /\ PendingIn(Append(Rest, import_paths[p])) = PendingIn(Rest) \cup ToSet(import_paths[p])
    BY <1>1, <1>2, CallFacts
  <2> QED BY <2>1, <2>2
<1>4. /\ files' \in Seq(FileType)
      /\ DOMAIN files' = DOMAIN files \cup {n} /\ n \notin DOMAIN files /\ DOMAIN files \subseteq Nat
      /\ \A i \in DOMAIN files : files'[i] = files[i]
      /\ files'[n] = new
  <2>1. new \in FileType
    BY <1>1
  <2>2. files' = Append(files, new) /\ files \in Seq(FileType)
    BY DEF IInv, TypeInv
  <2> HIDE DEF new
  <2> QED BY <2>1, <2>2, AppendFacts
<1>5. /\ Known' = Known \cup {p} /\ p \notin Known \cup broken
      /\ match_file_map'[p] = n
      /\ \A q \in Known : match_file_map'[q] = match_file_map[q]
  BY DEF Known, NextRef
<1>6. match_file_map' \in [Known' -> DOMAIN files']
  <2>1. match_file_map' = [q \in Known' |-> IF q = p THEN n ELSE match_file_map[q]]
    BY DEF Known, NextRef
  <2>2. \A q \in Known : match_file_map[q] \in DOMAIN files
    BY DEF IInv, TypeInv
  <2> QED BY <1>4, <1>5, <2>1, <2>2
<1>7. errors' \in Seq(ErrorType) /\ Failed' = Failed
  <2>1. FailedIn(errors') = Failed' /\ FailedIn(errors) = Failed
    BY DEF Failed, FailedIn, single_error
  <2> QED BY <2>1, FailedFacts DEF IInv, TypeInv
<1> HIDE DEF n
<1>8. TypeInv'
  <2>1. ErrorType' = ErrorType
    BY DEF ErrorType
  <2> QED BY <1>1, <1>4, <1>5, <1>6, <1>7, <2>1 DEF IInv, TypeInv
<1>9. FramesInv'
  BY <1>1, <1>3 DEF FramesInv
<1>10. RefsStayValid'
  <2>1. ASSUME NEW q \in Known'
        PROVE  match_file_map'[q] \in DOMAIN files' /\ files'[match_file_map'[q]].source_path = q
    BY <1>4, <1>5 DEF IInv, RefsStayValid, Known
  <2>2. ASSUME NEW i \in DOMAIN files'
        PROVE  files'[i].source_path \in Known' /\ match_file_map'[files'[i].source_path] = i
    BY <1>4, <1>5 DEF IInv, RefsStayValid, Known
  <2> QED BY <2>1, <2>2 DEF RefsStayValid, Known
<1>11. LoadInv'
  <2> DEFINE all == get_all_match_file_paths
             R == ReachableFrom(all, broken)
  <2>1. all' = all
    BY DEF get_all_match_file_paths
  <2>2. ReachableFrom(all, broken)' = R
    BY <2>1 DEF ReachableFrom
  <2>3. Met' = Met \cup ToSet(import_paths[p])
    BY <1>5, <2>1 DEF Met
  <2>4. p \in Met
    BY <1>1, <1>2 DEF IInv, LoadInv
  <2>5. p \in R
    <3>1. /\ all \ broken \subseteq R
          /\ \A q \in R : ToSet(import_paths[q]) \ broken \subseteq R
      BY ReachFacts, MetTyped DEF IInv, TypeInv
    <3>2. Known \subseteq R
      BY DEF IInv, LoadInv
    <3> HIDE DEF R, all
    <3>3. p \in all \/ \E q \in Known : p \in ToSet(import_paths[q])
      BY <2>4 DEF Met, all
    <3> QED BY <1>5, <3>1, <3>2, <3>3
  <2> HIDE DEF R, all
  <2>6. PendingIn(frames)' = PendingIn(frames')
    BY DEF PendingIn
  <2>7. /\ Known \subseteq R /\ Failed \subseteq broken \cap Met
        /\ PendingIn(frames) \subseteq Met
        /\ Met \subseteq Known \cup Failed \cup PendingIn(frames)
    BY <1>1 DEF IInv, LoadInv, R, all
  <2> QED BY <1>1, <1>2, <1>3, <1>5, <1>7, <2>2, <2>3, <2>5, <2>6, <2>7 DEF LoadInv, all
<1>12. ResolveInv'
  BY <1>1, <1>4 DEF IInv, ResolveInv, new
<1>13. QueryInv'
  <2>1. ~Querying /\ ~Querying'
    BY <1>1 DEF Querying
  <2> QED BY <2>1 DEF IInv, QueryInv
<1> QED BY <1>8, <1>9, <1>10, <1>11, <1>12, <1>13 DEF IInv

(* What the resolution has done stays done while the store does not change. *)
LEMMA ResolveStays ==
  ASSUME ResolveInv, Resolved' = Resolved,
         UNCHANGED <<import_paths, match_file_paths, files, match_file_map, profile_refs>>
  PROVE  ResolveInv'
<1>1. \A S : RefsOf(S)' = RefsOf(S)
  BY DEF RefsOf, Known
<1>2. ASSUME NEW i \in DOMAIN files'
      PROVE  IF Resolved'
               THEN ToSet(files'[i].imports) = {match_file_map'[p] :
                      p \in ToSet(import_paths'[files'[i].source_path]) \cap DOMAIN match_file_map'}
               ELSE files'[i].imports = import_paths'[files'[i].source_path]
  <2>1. i \in DOMAIN files
    OBVIOUS
  <2>2. CASE Resolved
    <3>1. ToSet(files[i].imports) = RefsOf(ToSet(import_paths[files[i].source_path]))
      BY <2>1, <2>2 DEF ResolveInv
    <3> QED BY <2>2, <3>1, Zenon DEF RefsOf, Known
  <2>3. CASE ~Resolved
    BY <2>1, <2>3 DEF ResolveInv
  <2> QED BY <2>2, <2>3
<1>3. ASSUME Resolved', NEW p \in Profiles
      PROVE  ToSet(profile_refs'[p]) =
               {match_file_map'[q] : q \in match_file_paths'[p] \cap DOMAIN match_file_map'}
  BY <1>3 DEF ResolveInv, RefsOf, Known
<1>4. /\ Resolved' => profile_refs' \in [Profiles -> Seq(DOMAIN files')]
      /\ ~Resolved' => profile_refs' = [p \in Profiles |-> <<>>]
  BY DEF ResolveInv
<1> QED BY <1>2, <1>3, <1>4, Zenon DEF ResolveInv, RefsOf, Known

LEMMA ReturnStep ==
  ASSUME IInv, Return
  PROVE  IInv'
<1> DEFINE S == IF pc = "query" THEN DOMAIN files ELSE Paths
<1> USE DEF Return, world, store, query
<1>1. frames \in Seq(Seq(S)) /\ Finished
  BY DEF IInv, FramesInv
<1>2. /\ Callers \in Seq(Seq(S)) /\ (Callers # <<>> <=> Depth > 1)
      /\ Depth \in Nat /\ Depth > 0
      /\ PendingIn(frames) = PendingIn(Callers)
  <2> HIDE DEF Return, S
  <2> QED BY <1>1, ReturnFacts
<1>3. frames' = Callers /\ PendingIn(frames)' = PendingIn(Callers)
  BY DEF PendingIn
<1>4. /\ get_all_match_file_paths' = get_all_match_file_paths
      /\ Known' = Known /\ Failed' = Failed
  BY DEF get_all_match_file_paths, Known, Failed, single_error
<1>5. Met' = Met
  BY <1>4 DEF Met
<1>6. /\ ReachableFrom(get_all_match_file_paths, broken)'
           = ReachableFrom(get_all_match_file_paths, broken)
      /\ Reached' = Reached
  BY <1>4 DEF Reached, ReachableFrom
<1>7. Asked' = Asked /\ RefsStayValid'
  BY DEF IInv, Asked, RefsOf, Known, RefsStayValid
<1>8. CASE Depth > 1
  <2>1. pc' = pc
    BY <1>8
  <2>2. TypeInv'
    <3>1. FileType' = FileType /\ ErrorType' = ErrorType
      BY <2>1 DEF FileType, ErrorType, Resolved
    <3> QED BY <1>4, <2>1, <3>1 DEF IInv, TypeInv
  <2>3. FramesInv'
    BY <1>2, <1>3, <1>8, <2>1 DEF FramesInv
  <2>4. LoadInv'
    BY <1>2, <1>3, <1>4, <1>5, <1>6, <2>1 DEF IInv, LoadInv
  <2>5. ResolveInv'
    <3>1. Resolved' = Resolved
      BY <2>1 DEF Resolved
    <3> QED BY <3>1, ResolveStays DEF IInv, store, world
  <2>6. QueryInv'
    <3>1. Querying' = Querying
      BY <2>1 DEF Querying
    <3> QED BY <1>2, <1>3, <1>6, <1>7, <2>1, <3>1 DEF IInv, QueryInv
  <2> QED BY <1>7, <2>2, <2>3, <2>4, <2>5, <2>6 DEF IInv
<1>9. CASE ~(Depth > 1)
  <2>1. /\ Callers = <<>> /\ Depth = 1
        /\ pc' = IF pc = "load" THEN "resolve" ELSE "collected"
    BY <1>2, <1>9
  <2>2. PendingIn(Callers) = {}
    BY <2>1 DEF PendingIn
  <2>3. TypeInv'
    <3>1. FileType' = FileType /\ ErrorType' = ErrorType
      BY <2>1 DEF FileType, ErrorType, Resolved
    <3> QED BY <1>4, <2>1, <3>1 DEF IInv, TypeInv
  <2>4. FramesInv'
    BY <1>3, <2>1 DEF FramesInv
  <2>5. LoadInv'
    BY <1>2, <1>3, <1>4, <1>5, <1>6, <2>1, <2>2 DEF IInv, LoadInv
  <2>6. ResolveInv'
    <3>1. Resolved' = Resolved
      BY <2>1 DEF Resolved
    <3> QED BY <3>1, ResolveStays DEF IInv, store, world
  <2>7. QueryInv'
    <3>1. Querying' = Querying
      BY <2>1 DEF Querying
    <3> QED BY <1>2, <1>3, <1>6, <1>7, <2>1, <2>2, <3>1 DEF IInv, QueryInv
  <2> QED BY <1>7, <2>3, <2>4, <2>5, <2>6, <2>7 DEF IInv
<1> QED BY <1>8, <1>9, <1>2

LEMMA ReturnTo ==
  ASSUME IInv, Return
  PROVE  \/ pc' = pc /\ pc \in {"load", "query"}
         \/ pc = "load" /\ pc' = "resolve"
         \/ pc = "query" /\ pc' = "collected"
<1>1. Depth \in Nat /\ Depth > 0
  <2>1. frames \in Seq(Seq(IF pc = "query" THEN DOMAIN files ELSE Paths)) /\ Finished
    BY DEF IInv, FramesInv, Return
  <2> QED BY <2>1, ReturnFacts
<1>2. CASE Depth > 1
  BY <1>2 DEF Return
<1>3. CASE Depth = 1
  BY <1>3 DEF Return
<1> QED BY <1>1, <1>2, <1>3

-----------------------------------------------------------------------------
(* The imports and the profiles' files as indices *)

LEMMA ResolveStep ==
  ASSUME IInv, Resolve
  PROVE  IInv'
<1> USE DEF Resolve, world, query
<1>1. /\ pc = "resolve" /\ pc' = "ready" /\ ~Resolved /\ Resolved' /\ ~Querying /\ ~Querying'
      /\ Known' = Known
  BY DEF Resolved, Querying, Known
<1>2. \A i \in DOMAIN files : files[i] \in [source_path : Paths, imports : Seq(Paths)]
  <2>1. files \in Seq(FileType)
    BY DEF IInv, TypeInv
  <2>2. \A i \in DOMAIN files : files[i] \in FileType
    BY <2>1
  <2> QED BY <1>1, <2>2 DEF FileType
<1>3. /\ DOMAIN files' = DOMAIN files
      /\ \A i \in DOMAIN files : files'[i] = [files[i] EXCEPT !.imports = Refs(@)]
  BY DEF resolve
<1>4. match_file_map \in [Known -> DOMAIN files]
  BY DEF IInv, TypeInv
<1>5. ASSUME NEW i \in DOMAIN files
      PROVE  /\ files'[i].source_path = files[i].source_path
             /\ files'[i].source_path \in Paths
             /\ files'[i] = [source_path |-> files[i].source_path, imports |-> Refs(files[i].imports)]
             /\ Refs(files[i].imports) \in Seq(DOMAIN files)
             /\ ToSet(files'[i].imports) = RefsOf(ToSet(import_paths[files[i].source_path]))
  <2>1. files[i] \in [source_path : Paths, imports : Seq(Paths)]
    BY <1>2
  <2>2. Refs(files[i].imports) \in Seq(DOMAIN files)
        /\ ToSet(Refs(files[i].imports)) = RefsOf(ToSet(files[i].imports))
    BY <1>4, <2>1, RefsFacts
  <2>3. files[i].imports = import_paths[files[i].source_path]
    BY <1>1 DEF IInv, ResolveInv
  <2>4. files'[i] = [source_path |-> files[i].source_path, imports |-> Refs(files[i].imports)]
    BY <1>3, <2>1
  <2> QED BY <2>1, <2>2, <2>3, <2>4

<1>6. PICK order \in [Profiles -> UNION {SetToSeqs(match_file_paths[p]) : p \in Profiles}] :
        /\ \A p \in Profiles : order[p] \in SetToSeqs(match_file_paths[p])
        /\ profile_refs' = [p \in Profiles |-> Refs(order[p])]
  OBVIOUS
<1>7. ASSUME NEW p \in Profiles
      PROVE  /\ Refs(order[p]) \in Seq(DOMAIN files)
             /\ ToSet(Refs(order[p])) = RefsOf(match_file_paths[p])
  <2>1. match_file_paths[p] \subseteq Paths /\ IsFiniteSet(match_file_paths[p])
    BY PathsAssumption, FS_Subset DEF IInv, TypeInv
  <2>2. order[p] \in Seq(match_file_paths[p]) /\ ToSet(order[p]) = match_file_paths[p]
    BY <1>6, <2>1, SetToSeqsFacts
  <2>3. order[p] \in Seq(Paths)
    BY <2>1, <2>2
  <2> QED BY <1>4, <2>2, <2>3, RefsFacts
<1>8. frames = <<>> /\ frames' = <<>>
  BY <1>1 DEF IInv, FramesInv
<1>9. TypeInv'
  <2>1. files' \in Seq(FileType')
    <3>1. FileType' = [source_path : Paths, imports : Seq(DOMAIN files)]
      BY <1>1, <1>3 DEF FileType
    <3>2. DOMAIN files = 1 .. Len(files) /\ Len(files) \in Nat
      BY <1>1, LenProperties DEF IInv, TypeInv
    <3>3. ASSUME NEW i \in DOMAIN files PROVE files'[i] \in FileType'
      <4> DEFINE refs == Refs(files[i].imports)
      <4>1. refs \in Seq(DOMAIN files) /\ files[i].source_path \in Paths
            /\ files'[i] = [source_path |-> files[i].source_path, imports |-> refs]
        BY <1>5
      <4> HIDE DEF refs
      <4> QED BY <3>1, <4>1
    <3>4. files' = [i \in 1 .. Len(files) |-> files'[i]]
      BY <3>2 DEF resolve
    <3> HIDE DEF Resolve
    <3> QED BY <3>2, <3>3, <3>4
  <2>2. ErrorType' = ErrorType
    BY DEF ErrorType
  <2> QED BY <1>1, <1>3, <2>1, <2>2 DEF IInv, TypeInv
<1>10. FramesInv'
  BY <1>1, <1>8 DEF FramesInv
<1>11. RefsStayValid'
  BY <1>3, <1>5 DEF IInv, RefsStayValid
<1>12. LoadInv'
  <2>1. Met' = Met /\ Failed' = Failed
    BY <1>1 DEF Met, Failed, single_error, get_all_match_file_paths
  <2>2. ReachableFrom(get_all_match_file_paths, broken)'
          = ReachableFrom(get_all_match_file_paths, broken)
    BY DEF ReachableFrom, get_all_match_file_paths
  <2> QED BY <1>1, <2>1, <2>2 DEF IInv, LoadInv
<1>13. ResolveInv'
  <2>1. \A S : RefsOf(S)' = RefsOf(S)
    BY DEF RefsOf, Known
  <2>2. ASSUME NEW i \in DOMAIN files'
        PROVE  ToSet(files[i].imports)' = RefsOf(ToSet(import_paths[files[i].source_path]))'
    <3>1. i \in DOMAIN files /\ ToSet(files[i].imports)' = ToSet(files'[i].imports)
      BY <1>3 DEF ToSet
    <3>2. /\ ToSet(files'[i].imports) = RefsOf(ToSet(import_paths[files[i].source_path]))
          /\ files'[i].source_path = files[i].source_path
      BY <1>5, <3>1
    <3>3. RefsOf(ToSet(import_paths[files[i].source_path]))'
            = RefsOf(ToSet(import_paths[files[i].source_path]))
      BY <3>2 DEF RefsOf, Known
    <3> QED BY <3>1, <3>2, <3>3
  <2>3. /\ profile_refs' \in [Profiles -> Seq(DOMAIN files')]
        /\ \A p \in Profiles : ToSet(profile_refs[p])' = RefsOf(match_file_paths[p])'
    <3>1. profile_refs' \in [Profiles -> Seq(DOMAIN files')]
      BY <1>3, <1>6, <1>7
    <3>2. \A p \in Profiles : ToSet(profile_refs[p])' = RefsOf(match_file_paths[p])
      BY <1>6, <1>7 DEF ToSet
    <3>3. \A p \in Profiles : RefsOf(match_file_paths[p])' = RefsOf(match_file_paths[p])
      BY DEF RefsOf, Known
    <3> QED BY <3>1, <3>2, <3>3
  <2> QED BY <1>1, <2>2, <2>3 DEF ResolveInv
<1>14. QueryInv'
  BY <1>1, <1>3 DEF IInv, QueryInv
<1> QED BY <1>9, <1>10, <1>11, <1>12, <1>13, <1>14 DEF IInv

-----------------------------------------------------------------------------
(* The steps of a query *)

(* What the steps after the load leave alone *)
LEMMA StoreStays ==
  ASSUME IInv, UNCHANGED <<world, store, profile_refs>>,
         Resolved, pc' \in {"ready", "query", "collected", "done"}, collected' \in Seq(Paths),
         IF pc' = "done" THEN DOMAIN cache' = {"trigger_map", "global_var_map", "regex_ids"}
         ELSE cache' = None
  PROVE  /\ TypeInv' /\ RefsStayValid' /\ LoadInv' /\ ResolveInv'
         /\ Known' = Known
         /\ \A S : RefsOf(S)' = RefsOf(S)
         /\ (queried' = queried => Reached' = Reached)
<1> USE DEF world, store
<1>1. Known' = Known /\ get_all_match_file_paths' = get_all_match_file_paths
  BY DEF Known, get_all_match_file_paths
<1>2. Resolved' /\ pc # "load" /\ pc' # "load"
  BY DEF Resolved
<1>3. Met' = Met /\ Failed' = Failed
  BY <1>1 DEF Met, Failed, single_error
<1>4. /\ ReachableFrom(get_all_match_file_paths, broken)'
           = ReachableFrom(get_all_match_file_paths, broken)
      /\ (queried' = queried => Reached' = Reached)
  BY <1>1 DEF ReachableFrom, Reached
<1>5. \A S : RefsOf(S)' = RefsOf(S)
  BY DEF RefsOf, Known
<1>6. TypeInv'
  <2>1. FileType' = FileType /\ ErrorType' = ErrorType
    BY <1>2 DEF FileType, ErrorType
  <2> QED BY <1>1, <2>1 DEF IInv, TypeInv
<1>7. RefsStayValid'
  BY DEF IInv, RefsStayValid
<1>8. LoadInv'
  BY <1>1, <1>2, <1>3, <1>4 DEF IInv, LoadInv
<1>9. ResolveInv'
  BY <1>1, <1>2, ResolveStays DEF IInv, Resolved
<1> QED BY <1>1, <1>4, <1>5, <1>6, <1>7, <1>8, <1>9

LEMMA QueryStep ==
  ASSUME IInv, NEW p \in Profiles, Query(p)
  PROVE  IInv'
<1> USE DEF Query
<1>1. /\ Resolved /\ ~Querying /\ pc' = "query" /\ Querying' /\ collected' = <<>> /\ collected' \in Seq(Paths)
      /\ visited' = {}
  BY DEF IInv, QueryInv, Resolved, Querying
<1>2. /\ TypeInv' /\ RefsStayValid' /\ LoadInv' /\ ResolveInv'
      /\ \A S : RefsOf(S)' = RefsOf(S)
  <2>1. cache' = None
    BY DEF IInv, TypeInv
  <2> QED BY <1>1, <2>1, StoreStays
<1>3. /\ profile_refs[p] \in Seq(DOMAIN files)
      /\ ToSet(profile_refs[p]) = RefsOf(match_file_paths[p])
  BY <1>1 DEF IInv, ResolveInv
<1>4. FramesInv'
  <2> DEFINE refs == profile_refs[p]
             D == DOMAIN files
  <2>1. refs \in Seq(D) /\ frames' = <<refs>> /\ DOMAIN files' = D
    BY <1>3 DEF store
  <2> HIDE DEF refs, D
  <2>2. frames' \in Seq(Seq(D)) /\ frames' # <<>>
    BY <2>1
  <2> QED BY <1>1, <2>1, <2>2 DEF FramesInv
<1>5. PendingIn(frames)' = RefsOf(match_file_paths[p])
  <2>1. DOMAIN frames' = {1} /\ frames'[1] = profile_refs[p]
    OBVIOUS
  <2>2. PendingIn(frames)' = ToSet(profile_refs[p])
    BY <2>1 DEF PendingIn, ToSet
  <2> QED BY <1>3, <2>2
<1>6. Asked' = RefsOf(match_file_paths[p])
  <2>1. RefsOf(match_file_paths[queried])' = RefsOf(match_file_paths[p])
    BY DEF RefsOf, Known, store, world
  <2> QED BY <1>1, <2>1 DEF Asked
<1>7. QueryInv'
  <2>1. ToSet(collected)' = {} /\ DOMAIN collected' = {}
    BY <1>1 DEF ToSet
  <2> QED BY <1>1, <1>5, <1>6, <2>1 DEF QueryInv
<1> QED BY <1>2, <1>4, <1>7 DEF IInv

LEMMA AlreadyVisitedStep ==
  ASSUME IInv, NEW ref \in DOMAIN files, AlreadyVisited(ref)
  PROVE  IInv'
<1> USE DEF AlreadyVisited, Continue
<1>1. /\ pc = "query" /\ pc' = "query" /\ Resolved /\ Querying /\ Querying' /\ ref \in visited
      /\ frames \in Seq(Seq(DOMAIN files)) /\ DOMAIN files' = DOMAIN files
      /\ UNCHANGED query
  BY DEF IInv, FramesInv, Resolved, Querying, store
<1>2. /\ Rest \in Seq(Seq(DOMAIN files)) /\ Rest # <<>>
      /\ PendingIn(frames) = PendingIn(Rest) \cup {ref}
  BY <1>1, LoopFacts
<1>3. /\ TypeInv' /\ RefsStayValid' /\ LoadInv' /\ ResolveInv'
      /\ Reached' = Reached
  <2>1. cache' = None /\ collected' \in Seq(Paths)
    BY <1>1 DEF IInv, TypeInv, query
  <2> QED BY <1>1, <2>1, StoreStays DEF query
<1>4. FramesInv'
  BY <1>1, <1>2 DEF FramesInv
<1>5. QueryInv'
  <2>1. Asked' = Asked
    BY <1>1 DEF Asked, RefsOf, Known, store, world, query
  <2>2. PendingIn(frames)' = PendingIn(Rest)
    BY DEF PendingIn
  <2> QED BY <1>1, <1>2, <1>3, <2>1, <2>2 DEF IInv, QueryInv, query, store
<1> QED BY <1>3, <1>4, <1>5 DEF IInv

(* What a query asks for is reached by its profile. *)
LEMMA AskedIsReached ==
  ASSUME IInv, Resolved, Querying, NEW ref \in Asked
  PROVE  ref \in DOMAIN files /\ files[ref].source_path \in Reached
<1> DEFINE roots == match_file_paths[queried]
<1>1. /\ roots \in SUBSET Paths
      /\ import_paths \in [Paths -> Seq(Paths)]
      /\ Known \subseteq Paths \ broken
  BY DEF IInv, TypeInv, QueryInv
<1>2. /\ roots \ broken \subseteq Reached
      /\ \A q \in Reached : ToSet(import_paths[q]) \ broken \subseteq Reached
  BY <1>1, ReachFacts DEF Reached
<1>3. \A q \in Known : match_file_map[q] \in DOMAIN files /\ files[match_file_map[q]].source_path = q
  BY DEF IInv, RefsStayValid, Known
<1>4. CASE ref \in RefsOf(roots)
  BY <1>1, <1>2, <1>3, <1>4 DEF RefsOf
<1>5. CASE \E r \in visited : ref \in ToSet(files[r].imports)
  <2>1. PICK r \in visited : ref \in ToSet(files[r].imports)
    BY <1>5
  <2>2. files[r].source_path \in Reached /\ r \in DOMAIN files
    BY DEF IInv, QueryInv
  <2>3. ref \in RefsOf(ToSet(import_paths[files[r].source_path]))
    BY <2>1, <2>2 DEF IInv, ResolveInv
  <2> QED BY <1>1, <1>2, <1>3, <2>2, <2>3 DEF RefsOf
<1> QED BY <1>4, <1>5 DEF Asked

LEMMA VisitStep ==
  ASSUME IInv, NEW ref \in DOMAIN files, Visit(ref)
  PROVE  IInv'
<1> DEFINE path == files[ref].source_path
           refs == files[ref].imports
           D == DOMAIN files
<1> USE DEF Visit, Recurse
<1>1. /\ pc = "query" /\ pc' = "query" /\ Resolved /\ Querying /\ Querying' /\ ref \notin visited
      /\ frames \in Seq(Seq(D)) /\ files' = files /\ queried' = queried
      /\ path \in Paths /\ refs \in Seq(D)
  <2>1. pc = "query" /\ Resolved
    BY DEF Resolved
  <2>2. files[ref] \in FileType
    <3>1. files \in Seq(FileType)
      BY DEF IInv, TypeInv
    <3> QED BY <3>1
  <2> QED BY <2>1, <2>2 DEF IInv, FramesInv, Querying, store, FileType
<1> HIDE DEF D
<1>2. /\ Rest \in Seq(Seq(D)) /\ Rest # <<>>
      /\ PendingIn(frames) = PendingIn(Rest) \cup {ref}
  BY <1>1, LoopFacts
<1>3. frames' \in Seq(Seq(D)) /\ frames' # <<>> /\ PendingIn(frames') = PendingIn(Rest) \cup ToSet(refs)
  <2>1. frames' = Append(Rest, refs)
    OBVIOUS
  <2> HIDE DEF Visit, Recurse, refs
  <2>2. /\ Append(Rest, refs) \in Seq(Seq(D)) /\ Append(Rest, refs) # <<>>
        /\ PendingIn(Append(Rest, refs)) = PendingIn(Rest) \cup ToSet(refs)
    BY <1>1, <1>2, CallFacts
  <2> QED BY <2>1, <2>2
<1>4. /\ collected' \in Seq(Paths)
      /\ ToSet(collected') = ToSet(collected) \cup {path}
      /\ DOMAIN collected' = DOMAIN collected \cup {Len(collected) + 1}
      /\ \A i \in DOMAIN collected : collected'[i] = collected[i]
      /\ collected'[Len(collected) + 1] = path
  <2>1. collected \in Seq(Paths) /\ collected' = Append(collected, path)
    BY DEF IInv, TypeInv
  <2> HIDE DEF Visit, path
  <2> QED BY <1>1, <2>1, AppendFacts
<1>5. /\ TypeInv' /\ RefsStayValid' /\ LoadInv' /\ ResolveInv'
      /\ Reached' = Reached
  <2>1. cache' = None
    BY <1>1 DEF IInv, TypeInv
  <2> QED BY <1>1, <1>4, <2>1, StoreStays
<1>6. FramesInv'
  BY <1>1, <1>3 DEF FramesInv, D
<1>7. Asked' = Asked \cup ToSet(refs)
  <2>1. RefsOf(match_file_paths[queried])' = RefsOf(match_file_paths[queried])
    BY <1>1 DEF RefsOf, Known, store, world
  <2>2. visited' = visited \cup {ref} /\ \A r : ToSet(files[r].imports)' = ToSet(files[r].imports)
    BY <1>1 DEF ToSet
  <2> HIDE DEF Visit, Recurse
  <2>3. (UNION {ToSet(files[r].imports) : r \in visited})'
          = (UNION {ToSet(files[r].imports) : r \in visited}) \cup ToSet(refs)
    BY <2>2
  <2> QED BY <2>1, <2>3 DEF Asked
<1>8. path \notin ToSet(collected)
  <2>1. ToSet(collected) = {files[r].source_path : r \in visited} /\ visited \subseteq D
    BY <1>1 DEF IInv, QueryInv, D
  <2>2. ASSUME NEW r \in visited, files[r].source_path = path PROVE r = ref
    BY <2>1, <2>2 DEF IInv, RefsStayValid, D
  <2> QED BY <1>1, <2>1, <2>2
<1>9. ref \in Asked
  BY <1>1, <1>2 DEF IInv, QueryInv
<1>10. path \in Reached
  BY <1>1, <1>9, AskedIsReached
<1>11. QueryInv'
  <2>1. visited' = visited \cup {ref} /\ visited' \subseteq DOMAIN files'
    BY <1>1 DEF IInv, QueryInv
  <2>2. {files[r].source_path : r \in visited}' = {files[r].source_path : r \in visited} \cup {path}
    BY <1>1, <2>1
  <2>3. \A i, j \in DOMAIN collected' : collected'[i] = collected'[j] => i = j
    <3>1. \A i \in DOMAIN collected : collected[i] \in ToSet(collected)
      BY DEF ToSet
    <3>2. \A i, j \in DOMAIN collected : collected[i] = collected[j] => i = j
      BY <1>1 DEF IInv, QueryInv
    <3> QED BY <1>4, <1>8, <3>1, <3>2
  <2>4. PendingIn(frames)' = PendingIn(frames') /\ ToSet(collected)' = ToSet(collected')
    BY DEF PendingIn, ToSet
  <2> HIDE DEF Visit, path, refs
  <2> QED BY <1>1, <1>2, <1>3, <1>4, <1>5, <1>7, <1>10, <2>1, <2>2, <2>3, <2>4 DEF IInv, QueryInv
<1> QED BY <1>5, <1>6, <1>11 DEF IInv

LEMMA CreateProfileCacheStep ==
  ASSUME IInv, CreateProfileCache
  PROVE  IInv'
<1> USE DEF CreateProfileCache
<1>1. /\ pc = "collected" /\ pc' = "done" /\ Resolved /\ Querying /\ Querying'
      /\ frames' = frames /\ UNCHANGED query /\ UNCHANGED store
      /\ DOMAIN cache' = {"trigger_map", "global_var_map", "regex_ids"}
  BY DEF Resolved, Querying
<1>2. /\ TypeInv' /\ RefsStayValid' /\ LoadInv' /\ ResolveInv'
      /\ Reached' = Reached
  <2>1. collected' \in Seq(Paths) /\ queried' = queried
    BY <1>1 DEF IInv, TypeInv, query
  <2> HIDE DEF CreateProfileCache
  <2>2. UNCHANGED <<world, store, profile_refs>>
    BY DEF CreateProfileCache
  <2> QED BY <1>1, <2>1, <2>2, StoreStays
<1>3. FramesInv'
  BY <1>1 DEF IInv, FramesInv
<1>4. QueryInv'
  <2>1. Asked' = Asked
    BY <1>1 DEF Asked, RefsOf, Known, store, world, query
  <2> HIDE DEF CreateProfileCache
  <2> QED BY <1>1, <1>2, <2>1 DEF IInv, QueryInv, query, store
<1> QED BY <1>2, <1>3, <1>4 DEF IInv

LEMMA StutterStep ==
  ASSUME IInv, UNCHANGED vars
  PROVE  IInv'
<1> USE DEF vars, world, store, query
<1>1. /\ Known' = Known /\ get_all_match_file_paths' = get_all_match_file_paths
      /\ Failed' = Failed /\ PendingIn(frames)' = PendingIn(frames)
      /\ Resolved' = Resolved /\ Querying' = Querying
  BY DEF Known, get_all_match_file_paths, Failed, single_error, PendingIn, Resolved, Querying
<1>2. Met' = Met /\ Asked' = Asked
  BY <1>1 DEF Met, Asked, RefsOf, Known
<1>3. /\ ReachableFrom(get_all_match_file_paths, broken)'
           = ReachableFrom(get_all_match_file_paths, broken)
      /\ Reached' = Reached
  BY <1>1 DEF ReachableFrom, Reached
<1>4. TypeInv' /\ FramesInv' /\ RefsStayValid'
  <2>1. FileType' = FileType /\ ErrorType' = ErrorType
    BY <1>1 DEF FileType, ErrorType
  <2> QED BY <1>1, <2>1 DEF IInv, TypeInv, FramesInv, RefsStayValid
<1>5. LoadInv' /\ QueryInv'
  BY <1>1, <1>2, <1>3 DEF IInv, LoadInv, QueryInv
<1>6. ResolveInv'
  BY <1>1, ResolveStays DEF IInv
<1> QED BY <1>4, <1>5, <1>6 DEF IInv

-----------------------------------------------------------------------------

LEMMA Inductive == Spec => []IInv
<1>1. IInv /\ [Next]_vars => IInv'
  <2> SUFFICES ASSUME IInv, [Next]_vars PROVE IInv'
    OBVIOUS
  <2>1. ASSUME NEW p \in Paths, AlreadyLoaded(p) PROVE IInv'
    BY <2>1, AlreadyLoadedStep
  <2>2. ASSUME NEW p \in Paths, Load(p) PROVE IInv'
    BY <2>2, LoadStep
  <2>3. ASSUME NEW p \in Paths, LoadFails(p) PROVE IInv'
    BY <2>3, LoadFailsStep
  <2>4. ASSUME Resolve PROVE IInv'
    BY <2>4, ResolveStep
  <2>5. ASSUME NEW p \in Profiles, Query(p) PROVE IInv'
    BY <2>5, QueryStep
  <2>6. ASSUME NEW ref \in DOMAIN files, AlreadyVisited(ref) PROVE IInv'
    BY <2>6, AlreadyVisitedStep
  <2>7. ASSUME NEW ref \in DOMAIN files, Visit(ref) PROVE IInv'
    BY <2>7, VisitStep
  <2>8. ASSUME Return PROVE IInv'
    BY <2>8, ReturnStep
  <2>9. ASSUME CreateProfileCache PROVE IInv'
    BY <2>9, CreateProfileCacheStep
  <2>10. ASSUME UNCHANGED vars PROVE IInv'
    BY <2>10, StutterStep
  <2> QED BY <2>1, <2>2, <2>3, <2>4, <2>5, <2>6, <2>7, <2>8, <2>9, <2>10 DEF Next
<1> QED BY InitInv, <1>1, PTL DEF Spec

(* Every variable has its type, and an index is one of the store. *)
THEOREM TypeCorrect == Spec => []TypeOK
<1>1. IInv => TypeOK
  <2> SUFFICES ASSUME IInv PROVE TypeOK
    OBVIOUS
  <2>1. files \in Seq([source_path : Paths,
                       imports : Seq(IF pc \in {"load", "resolve"} THEN Paths ELSE DOMAIN files)])
    <3>1. FileType = [source_path : Paths,
                      imports : Seq(IF pc \in {"load", "resolve"} THEN Paths ELSE DOMAIN files)]
      BY DEF FileType, Resolved
    <3> QED BY <3>1 DEF IInv, TypeInv
  <2>2. DOMAIN match_file_map \subseteq Paths /\ match_file_map \in [DOMAIN match_file_map -> Nat]
    <3>1. DOMAIN files \subseteq Nat
      BY LenProperties DEF IInv, TypeInv
    <3> QED BY <3>1 DEF IInv, TypeInv, Known
  <2>3. \A i \in DOMAIN errors : errors[i].file \in Paths /\ errors[i].errors # {}
    <3>1. errors \in Seq(ErrorType)
      BY DEF IInv, TypeInv
    <3>2. \A i \in DOMAIN errors : errors[i] \in ErrorType
      BY <3>1
    <3> QED BY <3>2 DEF ErrorType
  <2>4. profile_refs \in [Profiles -> Seq(DOMAIN files)]
    <3>1. CASE Resolved
      BY <3>1 DEF IInv, ResolveInv
    <3>2. CASE ~Resolved
      <4>1. profile_refs = [p \in Profiles |-> <<>>]
        BY <3>2 DEF IInv, ResolveInv
      <4>2. <<>> \in Seq(DOMAIN files)
        BY EmptySeq
      <4> QED BY <4>1, <4>2
    <3> QED BY <3>1, <3>2
  <2>5. queried \in Profiles \cup {None} /\ visited \subseteq DOMAIN files
    BY DEF IInv, QueryInv
  <2> QED BY <2>1, <2>2, <2>3, <2>4, <2>5 DEF IInv, TypeInv, FramesInv, TypeOK
<1> QED BY Inductive, <1>1, PTL

(* An index handed out during the load stays that of its file when the      *)
(* imports are resolved, and no file is in the store twice, whatever the     *)
(* imports.                                                                  *)
THEOREM RefsAreValid == Spec => []RefsStayValid
<1>1. IInv => RefsStayValid
  BY DEF IInv
<1> QED BY Inductive, <1>1, PTL

(* The load leaves in the store the files that the profiles reach without    *)
(* reading one that fails, all of them and no other.                         *)
THEOREM LoadIsReachable == Spec => []LoadsReachable
<1>1. IInv => LoadsReachable
  <2> SUFFICES ASSUME IInv, pc # "load"
               PROVE  DOMAIN match_file_map = ReachableFrom(get_all_match_file_paths, broken)
    BY DEF LoadsReachable
  <2>1. Met \ broken \subseteq Known /\ Known \subseteq Paths \ broken
    BY DEF IInv, LoadInv, TypeInv
  <2>2. /\ get_all_match_file_paths \ broken \subseteq Known
        /\ \A q \in Known : ToSet(import_paths[q]) \ broken \subseteq Known
    BY <2>1 DEF Met
  <2>3. ReachableFrom(get_all_match_file_paths, broken) \subseteq Known
    BY <2>1, <2>2, MetTyped, ReachFacts DEF IInv, TypeInv
  <2>4. Known \subseteq ReachableFrom(get_all_match_file_paths, broken)
    BY DEF IInv, LoadInv
  <2> QED BY <2>3, <2>4 DEF Known
<1> QED BY Inductive, <1>1, PTL

(* After the load the paths with the error of a failed file are those the    *)
(* load has met and that fail: none is missed and none is made up.           *)
THEOREM FailuresAreReported == Spec => []FailuresReported
<1>1. IInv => FailuresReported
  <2> SUFFICES ASSUME IInv, pc # "load" PROVE Failed = broken \cap Met
    BY DEF FailuresReported, Failed, Met, Known
  <2> QED BY DEF IInv, LoadInv, TypeInv
<1> QED BY Inductive, <1>1, PTL

(* A query that has ended has collected exactly what its profile reaches,    *)
(* each file once, whatever the cycles and failures.                         *)
THEOREM QueryIsExact == Spec => []QueryIsClosure
<1>1. IInv => QueryIsClosure
  <2> SUFFICES ASSUME IInv, pc = "done"
               PROVE  /\ ToSet(collected) = Reached
                      /\ \A i, j \in DOMAIN collected : collected[i] = collected[j] => i = j
    BY DEF QueryIsClosure
  <2>1. Resolved /\ Querying
    BY DEF Resolved, Querying
  <2> DEFINE roots == match_file_paths[queried]
             C == {files[r].source_path : r \in visited}
  <2>2. /\ roots \in SUBSET Paths
        /\ import_paths \in [Paths -> Seq(Paths)]
        /\ ToSet(collected) = C /\ C \subseteq Reached
        /\ \A i, j \in DOMAIN collected : collected[i] = collected[j] => i = j
        /\ Asked \subseteq visited /\ visited \subseteq DOMAIN files
    BY <2>1 DEF IInv, TypeInv, QueryInv
  <2>3. Met \ broken \subseteq Known /\ Known \subseteq Paths \ broken
    BY <2>1 DEF IInv, LoadInv, TypeInv, Resolved
  <2>4. \A q \in Known : match_file_map[q] \in DOMAIN files /\ files[match_file_map[q]].source_path = q
    BY DEF IInv, RefsStayValid, Known
  <2>5. ASSUME NEW q \in roots \ broken PROVE q \in C
    <3>1. q \in Known
      BY <2>1, <2>3 DEF Met, get_all_match_file_paths, IInv, QueryInv
    <3>2. match_file_map[q] \in visited
      BY <2>2, <3>1 DEF Asked, RefsOf
    <3> QED BY <2>4, <3>1, <3>2
  <2>6. ASSUME NEW r \in visited, NEW q \in ToSet(import_paths[files[r].source_path]) \ broken
        PROVE  q \in C
    <3>1. r \in DOMAIN files /\ files[r].source_path \in Known
      BY <2>2 DEF IInv, RefsStayValid, Known
    <3>2. q \in Known
      BY <2>3, <3>1 DEF Met
    <3>3. match_file_map[q] \in ToSet(files[r].imports)
      <4>1. ToSet(files[r].imports) = RefsOf(ToSet(import_paths[files[r].source_path]))
        BY <2>1, <3>1 DEF IInv, ResolveInv
      <4> QED BY <3>2, <4>1 DEF RefsOf
    <3>4. match_file_map[q] \in visited
      BY <2>2, <3>3 DEF Asked
    <3> QED BY <2>4, <3>2, <3>4
  <2>7. C \subseteq Paths
    BY <2>2, <2>3 DEF IInv, RefsStayValid, Known
  <2>8. Reached \subseteq C
    <3>1. \A x \in C : ToSet(import_paths[x]) \ broken \subseteq C
      BY <2>6
    <3>2. roots \ broken \subseteq C
      BY <2>5
    <3> HIDE DEF C
    <3> QED BY <2>2, <2>7, <3>1, <3>2, ReachFacts DEF Reached
  <2> QED BY <2>2, <2>8
<1> QED BY Inductive, <1>1, PTL

-----------------------------------------------------------------------------
(* What a file adds to the maps *)

(* The definitions of a file that can be converted *)
TriggersAt(p) ==
  {i \in DOMAIN Contents[p].matches :
     try_convert_into_match(Contents[p].matches[i]) /\ HasTriggers(Contents[p].matches[i])}
RegexesAt(p) ==
  {i \in DOMAIN Contents[p].matches :
     try_convert_into_match(Contents[p].matches[i]) /\ ~HasTriggers(Contents[p].matches[i])}
VarsAt(p) ==
  {i \in DOMAIN Contents[p].global_vars : try_convert_into_variable(Contents[p].global_vars[i])}

KeysOf(p) ==
  {Contents[p].global_vars[i].name : i \in VarsAt(p)}
    \cup UNION {ToSet(TriggersOf(Contents[p].matches[i])) : i \in TriggersAt(p)}
AnyKey == UNION {KeysOf(p) : p \in Paths}
DefinitionType == [file : Paths, at : Nat]
EntryType == [key : AnyKey, value : DefinitionType]
Keyed(key) == {e \in EntryType : e.key = key}

(* The entries of one match *)
Added(d) == [n \in DOMAIN TriggersOf(Match(d)) |-> Entry(TriggersOf(Match(d))[n], d)]

LEMMA LoadedFacts ==
  ASSUME NEW p \in Paths
  PROVE  /\ Loaded[p].trigger_matches \in Seq(Nat)
         /\ ToSet(Loaded[p].trigger_matches) = TriggersAt(p)
         /\ \A a, b \in DOMAIN Loaded[p].trigger_matches :
              Loaded[p].trigger_matches[a] <= Loaded[p].trigger_matches[b] \/ b <= a
         /\ Loaded[p].regex_matches \in Seq(Nat) /\ ToSet(Loaded[p].regex_matches) = RegexesAt(p)
         /\ Loaded[p].global_vars \in Seq(Nat) /\ ToSet(Loaded[p].global_vars) = VarsAt(p)
<1> DEFINE vs == Contents[p].global_vars
           all == Contents[p].matches
           triggered == [i \in DOMAIN all |-> try_convert_into_match(all[i]) /\ HasTriggers(all[i])]
           others == [i \in DOMAIN all |-> try_convert_into_match(all[i]) /\ ~HasTriggers(all[i])]
           known == [i \in DOMAIN vs |-> try_convert_into_variable(vs[i])]
<1>1. vs \in Seq(ToSet(vs)) /\ all \in Seq(ToSet(all))
  BY ContentsAssumption
<1>2. /\ Loaded[p].trigger_matches = Kept(triggered)
      /\ Loaded[p].regex_matches = Kept(others)
      /\ Loaded[p].global_vars = Kept(known)
  BY DEF Loaded, load_file
<1> DEFINE M == Len(all)
           N == Len(vs)
<1>3. M \in Nat /\ DOMAIN all = 1 .. M /\ N \in Nat /\ DOMAIN vs = 1 .. N
  BY <1>1, LenProperties
<1> HIDE DEF M, N, all, vs
<1>4. /\ triggered \in [1 .. M -> BOOLEAN] /\ others \in [1 .. M -> BOOLEAN]
      /\ known \in [1 .. N -> BOOLEAN]
  BY <1>3 DEF try_convert_into_variable
<1>5. /\ {i \in 1 .. M : triggered[i]} = TriggersAt(p)
      /\ {i \in 1 .. M : others[i]} = RegexesAt(p)
      /\ {i \in 1 .. N : known[i]} = VarsAt(p)
  BY <1>3 DEF TriggersAt, RegexesAt, VarsAt, all, vs
<1> HIDE DEF triggered, others, known
<1>6. /\ Kept(triggered) \in Seq(1 .. M) /\ ToSet(Kept(triggered)) = TriggersAt(p)
      /\ \A a, b \in DOMAIN Kept(triggered) : Kept(triggered)[a] <= Kept(triggered)[b] \/ b <= a
  BY <1>3, <1>4, <1>5, KeptFacts
<1>7. Kept(others) \in Seq(1 .. M) /\ ToSet(Kept(others)) = RegexesAt(p)
  BY <1>3, <1>4, <1>5, KeptFacts
<1>8. Kept(known) \in Seq(1 .. N) /\ ToSet(Kept(known)) = VarsAt(p)
  BY <1>3, <1>4, <1>5, KeptFacts
<1>9. \A n \in Nat : Seq(1 .. n) \subseteq Seq(Nat)
  OBVIOUS
<1> QED BY <1>2, <1>3, <1>6, <1>7, <1>8, <1>9

LEMMA AddedFacts ==
  ASSUME NEW p \in Paths, NEW i \in TriggersAt(p)
  PROVE  /\ Added(Definition(p, i)) \in Seq(EntryType)
         /\ ToSet(Added(Definition(p, i)))
              = {Entry(t, Definition(p, i)) : t \in ToSet(TriggersOf(Contents[p].matches[i]))}
<1> DEFINE m == Contents[p].matches[i]
           d == Definition(p, i)
           ts == TriggersOf(m)
<1>1. i \in DOMAIN Contents[p].matches /\ HasTriggers(m) /\ m \in ToSet(Contents[p].matches) /\ i \in Nat
  <2>1. Contents[p].matches \in Seq(ToSet(Contents[p].matches))
    BY ContentsAssumption
  <2>2. DOMAIN Contents[p].matches \subseteq Nat
    BY <2>1, LenProperties
  <2> QED BY <2>2 DEF TriggersAt, ToSet
<1>2. ts \in Seq(ToSet(ts))
  <2>1. CASE Has(m, "trigger")
    <3>1. ts = <<m.trigger>>
      BY <2>1 DEF TriggersOf
    <3>2. DOMAIN ts = {1} /\ ts[1] = m.trigger
      BY <3>1
    <3>3. ToSet(ts) = {m.trigger}
      BY <3>2 DEF ToSet
    <3> HIDE DEF ts, m
    <3>4. <<m.trigger>> \in Seq({m.trigger})
      OBVIOUS
    <3> QED BY <3>1, <3>3, <3>4
  <2>2. CASE ~Has(m, "trigger")
    <3>1. ts = m.triggers /\ Has(m, "triggers")
      BY <1>1, <2>2 DEF TriggersOf, HasTriggers
    <3>2. m.triggers \in Seq(ToSet(m.triggers))
      BY <1>1, <3>1, ContentsAssumption
    <3> QED BY <3>1, <3>2
  <2> QED BY <2>1, <2>2
<1>3. DOMAIN ts = 1 .. Len(ts) /\ Len(ts) \in Nat /\ \A n \in DOMAIN ts : ts[n] \in ToSet(ts)
  BY <1>2, LenProperties DEF ToSet
<1>4. Added(d) = [n \in DOMAIN ts |-> Entry(ts[n], d)]
  BY DEF Added, Match, Definition
<1>5. d \in DefinitionType /\ \A t \in ToSet(ts) : t \in AnyKey
  <2>1. d \in DefinitionType
    BY <1>1 DEF DefinitionType, Definition
  <2>2. ToSet(ts) \subseteq UNION {ToSet(TriggersOf(Contents[p].matches[n])) : n \in TriggersAt(p)}
    OBVIOUS
  <2>3. ToSet(ts) \subseteq KeysOf(p) /\ KeysOf(p) \subseteq AnyKey
    BY <2>2 DEF KeysOf, AnyKey
  <2> QED BY <2>1, <2>3
<1>6. ToSet(Added(d)) = {Entry(t, d) : t \in ToSet(ts)}
  <2> HIDE DEF ts, d
  <2> QED BY <1>3, <1>4 DEF ToSet
<1> HIDE DEF ts, d
<1>7. \A n \in DOMAIN ts : Entry(ts[n], d) \in EntryType
  BY <1>3, <1>5 DEF Entry, EntryType
<1>8. Added(d) \in Seq(EntryType)
  <2> HIDE DEF Added
  <2> QED BY <1>3, <1>4, <1>7
<1> QED BY <1>6, <1>8 DEF d, ts

LEMMA TriggerFacts ==
  ASSUME NEW p \in Paths
  PROVE  /\ Entries[p].triggers \in Seq(EntryType)
         /\ ToSet(Entries[p].triggers) = UNION {ToSet(Added(Definition(p, i))) : i \in TriggersAt(p)}
         /\ \A t, l : LastIn(Entries[p].triggers, Keyed(t), l) =>
              \A i \in Defines(p, t) : i <= Entries[p].triggers[l].value.at
<1> DEFINE tm == Loaded[p].trigger_matches
           ss == [n \in DOMAIN tm |-> Added(Definition(p, tm[n]))]
<1>1. Entries[p].triggers = FlattenSeq(ss)
  BY DEF Entries, Added, Definition, Match
<1>2. /\ tm \in Seq(Nat) /\ ToSet(tm) = TriggersAt(p)
      /\ \A a, b \in DOMAIN tm : tm[a] <= tm[b] \/ b <= a
  BY LoadedFacts
<1> HIDE DEF tm
<1>3. DOMAIN tm = 1 .. Len(tm) /\ Len(tm) \in Nat /\ \A n \in DOMAIN tm : tm[n] \in TriggersAt(p)
  BY <1>2, LenProperties DEF ToSet
<1>4. ss \in Seq(Seq(EntryType)) /\ DOMAIN ss = DOMAIN tm
      /\ \A n \in DOMAIN tm : ss[n] = Added(Definition(p, tm[n])) /\ ss[n] \in Seq(EntryType)
  <2>1. \A n \in DOMAIN tm : Added(Definition(p, tm[n])) \in Seq(EntryType)
    BY <1>3, AddedFacts
  <2> DEFINE S == Seq(EntryType)
  <2> HIDE DEF S
  <2>2. ss \in [1 .. Len(tm) -> S]
    BY <1>3, <2>1 DEF S
  <2>3. ss \in Seq(S)
    <3> HIDE DEF ss
    <3> QED BY <1>3, <2>2
  <2> QED BY <2>1, <2>3 DEF S
<1> HIDE DEF ss
<1>5. /\ FlattenSeq(ss) \in Seq(EntryType)
      /\ ToSet(FlattenSeq(ss)) = UNION {ToSet(ss[k]) : k \in DOMAIN ss}
  BY <1>4, FlattenFacts
<1>6. UNION {ToSet(ss[k]) : k \in DOMAIN ss} = UNION {ToSet(Added(Definition(p, i))) : i \in TriggersAt(p)}
  <2>1. ASSUME NEW k \in DOMAIN ss
        PROVE  tm[k] \in TriggersAt(p) /\ ToSet(ss[k]) = ToSet(Added(Definition(p, tm[k])))
    BY <1>3, <1>4
  <2>2. ASSUME NEW i \in TriggersAt(p) PROVE \E k \in DOMAIN ss : tm[k] = i
    BY <1>2, <1>4 DEF ToSet
  <2> QED BY <2>1, <2>2
<1>7. ASSUME NEW t, NEW l, LastIn(FlattenSeq(ss), Keyed(t), l), NEW i \in Defines(p, t)
      PROVE  i <= FlattenSeq(ss)[l].value.at
  <2>1. PICK k \in DOMAIN ss :
          /\ \E q : LastIn(ss[k], Keyed(t), q) /\ ss[k][q] = FlattenSeq(ss)[l]
          /\ \A j \in DOMAIN ss : ToSet(ss[j]) \cap Keyed(t) # {} => j <= k
    BY <1>4, <1>7, FlattenLast
  <2>2. FlattenSeq(ss)[l].value = Definition(p, tm[k])
    <3>1. PICK q : LastIn(ss[k], Keyed(t), q) /\ ss[k][q] = FlattenSeq(ss)[l]
      BY <2>1
    <3>2. ss[k][q] \in ToSet(Added(Definition(p, tm[k])))
      BY <1>4, <2>1, <3>1 DEF LastIn, ToSet
    <3>3. ss[k][q] \in {Entry(x, Definition(p, tm[k])) : x \in ToSet(TriggersOf(Contents[p].matches[tm[k]]))}
      BY <1>3, <1>4, <2>1, <3>2, AddedFacts
    <3> QED BY <3>1, <3>3 DEF Entry
  <2>3. i \in TriggersAt(p) /\ t \in ToSet(TriggersOf(Contents[p].matches[i]))
    BY <1>7 DEF Defines, TriggersAt
  <2>4. PICK j \in DOMAIN ss : tm[j] = i
    BY <1>2, <1>4, <2>3 DEF ToSet
  <2>5. ToSet(ss[j]) \cap Keyed(t) # {}
    <3>1. Entry(t, Definition(p, i)) \in ToSet(ss[j])
      BY <1>4, <2>3, <2>4, AddedFacts
    <3>2. Entry(t, Definition(p, i)) \in EntryType
      BY <1>4, <2>4, <3>1 DEF ToSet
    <3> QED BY <3>1, <3>2 DEF Keyed, Entry
  <2>6. j <= k
    BY <2>1, <2>5
  <2>7. tm[j] <= tm[k]
    <3>1. j \in Nat /\ k \in Nat /\ (tm[j] <= tm[k] \/ k <= j)
      BY <1>2, <1>3, <1>4
    <3>2. tm[k] \in Nat
      BY <1>2, <1>4
    <3> QED BY <2>6, <3>1, <3>2
  <2> QED BY <2>2, <2>4, <2>7 DEF Definition
<1> QED BY <1>1, <1>5, <1>6, <1>7

LEMMA VarFacts ==
  ASSUME NEW p \in Paths
  PROVE  /\ Entries[p].global_vars \in Seq(EntryType)
         /\ ToSet(Entries[p].global_vars)
              = {Entry(Contents[p].global_vars[i].name, Definition(p, i)) : i \in VarsAt(p)}
         /\ Entries[p].regexes \in Seq(DefinitionType)
         /\ ToSet(Entries[p].regexes) = {Definition(p, i) : i \in RegexesAt(p)}
<1> DEFINE vs == Loaded[p].global_vars
           rs == Loaded[p].regex_matches
           Of(i) == Entry(Contents[p].global_vars[i].name, Definition(p, i))
<1>1. /\ Entries[p].global_vars = [n \in DOMAIN vs |-> Of(vs[n])]
      /\ Entries[p].regexes = [n \in DOMAIN rs |-> Definition(p, rs[n])]
  BY DEF Entries, Definition
<1>2. /\ vs \in Seq(Nat) /\ ToSet(vs) = VarsAt(p)
      /\ rs \in Seq(Nat) /\ ToSet(rs) = RegexesAt(p)
  BY LoadedFacts
<1> HIDE DEF vs, rs
<1>3. /\ DOMAIN vs = 1 .. Len(vs) /\ Len(vs) \in Nat /\ \A n \in DOMAIN vs : vs[n] \in VarsAt(p)
      /\ DOMAIN rs = 1 .. Len(rs) /\ Len(rs) \in Nat /\ \A n \in DOMAIN rs : rs[n] \in RegexesAt(p)
  BY <1>2, LenProperties DEF ToSet
<1>4. \A i \in Nat : Definition(p, i) \in DefinitionType
  BY DEF DefinitionType, Definition
<1>5. \A i \in VarsAt(p) : Contents[p].global_vars[i].name \in AnyKey
  <2>1. \A i \in VarsAt(p) : Contents[p].global_vars[i].name
                               \in {Contents[p].global_vars[n].name : n \in VarsAt(p)}
    OBVIOUS
  <2>2. KeysOf(p) \subseteq AnyKey
    BY DEF AnyKey
  <2>3. {Contents[p].global_vars[i].name : i \in VarsAt(p)} \subseteq KeysOf(p)
    BY DEF KeysOf
  <2> QED BY <2>1, <2>2, <2>3
<1>6. \A n \in DOMAIN vs : Of(vs[n]) \in EntryType
  <2>1. \A n \in DOMAIN vs : vs[n] \in Nat /\ vs[n] \in VarsAt(p)
    BY <1>2, <1>3
  <2> QED BY <1>4, <1>5, <2>1 DEF EntryType, Entry
<1>7. \A n \in DOMAIN rs : Definition(p, rs[n]) \in DefinitionType
  <2>1. \A n \in DOMAIN rs : rs[n] \in Nat
    BY <1>2
  <2> QED BY <1>4, <2>1
<1>8. Entries[p].global_vars \in Seq(EntryType) /\ Entries[p].regexes \in Seq(DefinitionType)
  <2> HIDE DEF Of
  <2> QED BY <1>1, <1>3, <1>6, <1>7
<1>9. ToSet(Entries[p].global_vars) = {Of(i) : i \in VarsAt(p)}
  <2> HIDE DEF Of
  <2>1. ToSet(Entries[p].global_vars) = {Of(vs[n]) : n \in DOMAIN vs}
    BY <1>1 DEF ToSet
  <2>2. \A i \in VarsAt(p) : \E n \in DOMAIN vs : vs[n] = i
    BY <1>2 DEF ToSet
  <2> QED BY <1>3, <2>1, <2>2
<1>10. ToSet(Entries[p].regexes) = {Definition(p, i) : i \in RegexesAt(p)}
  <2>1. ToSet(Entries[p].regexes) = {Definition(p, rs[n]) : n \in DOMAIN rs}
    BY <1>1 DEF ToSet
  <2>2. \A i \in RegexesAt(p) : \E n \in DOMAIN rs : rs[n] = i
    BY <1>2 DEF ToSet
  <2> QED BY <1>3, <2>1, <2>2
<1> QED BY <1>8, <1>9, <1>10

(* The maps have what the collected files add, file by file. *)
LEMMA CollectedFacts ==
  ASSUME collected \in Seq(Paths), NEW S, NEW list,
         \A p \in Paths : Entries[p][list] \in Seq(S)
  PROVE  /\ [k \in DOMAIN collected |-> Entries[collected[k]][list]] \in Seq(Seq(S))
         /\ Collected(list) \in Seq(S)
         /\ ToSet(Collected(list)) = UNION {ToSet(Entries[p][list]) : p \in ToSet(collected)}
<1> DEFINE ss == [k \in DOMAIN collected |-> Entries[collected[k]][list]]
<1>1. DOMAIN collected = 1 .. Len(collected) /\ Len(collected) \in Nat
  BY LenProperties
<1>2. \A k \in DOMAIN collected : collected[k] \in Paths
  OBVIOUS
<1>3. ss \in Seq(Seq(S))
  <2> DEFINE T == Seq(S)
  <2>1. \A k \in DOMAIN collected : Entries[collected[k]][list] \in T
    BY <1>2
  <2> HIDE DEF T
  <2>2. ss \in [1 .. Len(collected) -> T]
    BY <1>1, <2>1
  <2>3. ss \in Seq(T)
    <3> HIDE DEF ss
    <3> QED BY <1>1, <2>2
  <2> QED BY <2>3 DEF T
<1>4. Collected(list) = FlattenSeq(ss) /\ DOMAIN ss = DOMAIN collected
      /\ \A k \in DOMAIN collected : ss[k] = Entries[collected[k]][list]
  BY DEF Collected
<1> HIDE DEF ss
<1>5. /\ FlattenSeq(ss) \in Seq(S)
      /\ ToSet(FlattenSeq(ss)) = UNION {ToSet(ss[k]) : k \in DOMAIN ss}
  BY <1>3, FlattenFacts
<1>6. UNION {ToSet(ss[k]) : k \in DOMAIN ss} = UNION {ToSet(Entries[p][list]) : p \in ToSet(collected)}
  <2>1. \A k \in DOMAIN ss : collected[k] \in ToSet(collected) /\ ToSet(ss[k]) = ToSet(Entries[collected[k]][list])
    BY <1>4 DEF ToSet
  <2>2. \A p \in ToSet(collected) : \E k \in DOMAIN ss : collected[k] = p
    BY <1>4 DEF ToSet
  <2> QED BY <2>1, <2>2
<1> QED BY <1>3, <1>4, <1>5, <1>6 DEF ss

(* A key is in the map when it is inserted; its value is the last one. *)
LEMMA InsertFacts ==
  ASSUME NEW entries \in Seq(EntryType)
  PROVE  /\ DOMAIN InsertAll(entries) = {e.key : e \in ToSet(entries)}
         /\ \A key \in DOMAIN InsertAll(entries) :
              \E m : LastIn(entries, Keyed(key), m) /\ InsertAll(entries)[key] = entries[m].value
<1>1. DOMAIN InsertAll(entries) = {e.key : e \in ToSet(entries)}
  BY DEF InsertAll
<1>2. ASSUME NEW key \in {e.key : e \in ToSet(entries)}
      PROVE  \E m : LastIn(entries, Keyed(key), m) /\ InsertAll(entries)[key] = entries[m].value
  <2> DEFINE I == {i \in 1 .. Len(entries) : entries[i].key = key}
  <2>1. DOMAIN entries = 1 .. Len(entries) /\ Len(entries) \in Nat
        /\ \A i \in DOMAIN entries : entries[i] \in EntryType
    BY LenProperties
  <2>2. I \in SUBSET (1 .. Len(entries)) /\ I # {}
    BY <1>2, <2>1 DEF ToSet
  <2>3. InsertAll(entries)[key] = entries[Max(I)].value
    BY <1>2, <2>2 DEF InsertAll, SelectLastInSeq
  <2> HIDE DEF I
  <2>4. \E m \in I : \A k \in I : k <= m
    BY <2>1, <2>2, MaxExists
  <2>5. \E m \in I : \A k \in I : m >= k
    <3>1. \A k \in I : k \in Nat
      BY <2>1, <2>2
    <3> QED BY <2>4, <3>1
  <2>6. Max(I) \in I /\ \A k \in I : Max(I) >= k
    BY <2>5 DEF Max
  <2>7. LastIn(entries, Keyed(key), Max(I))
    <3>1. \A i \in DOMAIN entries : entries[i] \in Keyed(key) <=> i \in I
      BY <2>1 DEF Keyed, I
    <3>2. \A k \in I : k \in Nat /\ k \in DOMAIN entries
      BY <2>1, <2>2
    <3> QED BY <2>6, <3>1, <3>2 DEF LastIn
  <2> QED BY <2>3, <2>7
<1> QED BY <1>1, <1>2

LEMMA CompiledFacts ==
  ASSUME NEW defs \in Seq(DefinitionType)
  PROVE  ToSet(Compiled(defs)) = {d \in ToSet(defs) : Match(d).regex \notin BadRegexes}
<1> DEFINE N == Len(defs)
           keep == [i \in DOMAIN defs |-> Match(defs[i]).regex \notin BadRegexes]
           compiled == Kept(keep)
<1>1. N \in Nat /\ DOMAIN defs = 1 .. N
  BY LenProperties
<1> HIDE DEF N
<1>2. keep \in [1 .. N -> BOOLEAN]
      /\ \A i \in 1 .. N : keep[i] = (Match(defs[i]).regex \notin BadRegexes)
  BY <1>1
<1>3. Compiled(defs) = [n \in DOMAIN compiled |-> defs[compiled[n]]]
  BY DEF Compiled
<1> HIDE DEF keep
<1>4. ToSet(compiled) = {i \in 1 .. N : keep[i]}
  BY <1>1, <1>2, KeptFacts
<1> HIDE DEF compiled
<1>5. ToSet(Compiled(defs)) = {defs[compiled[n]] : n \in DOMAIN compiled}
  BY <1>3 DEF ToSet
<1>6. \A n \in DOMAIN compiled : compiled[n] \in 1 .. N /\ keep[compiled[n]]
  BY <1>4 DEF ToSet
<1>7. \A i \in 1 .. N : keep[i] => \E n \in DOMAIN compiled : compiled[n] = i
  BY <1>4 DEF ToSet
<1> QED BY <1>1, <1>2, <1>5, <1>6, <1>7 DEF ToSet

-----------------------------------------------------------------------------
(* What is reported, what is found, and in which order *)

(* The errors are the reports of the files that are loaded, all of them, and *)
(* of the files that failed.                                                 *)
ReportsInv ==
  /\ \A p \in Known : Loaded[p].non_fatal_errors # {} =>
       [file |-> p, errors |-> Loaded[p].non_fatal_errors] \in ToSet(errors)
  /\ \A e \in ToSet(errors) : e = single_error(e.file) \/ e.errors = Loaded[e.file].non_fatal_errors

CacheInv ==
  pc = "done" =>
    cache = [trigger_map |-> InsertAll(Collected("triggers")),
             global_var_map |-> InsertAll(Collected("global_vars")),
             regex_ids |-> Compiled(Collected("regexes"))]

(* A file that is collected is reached without reading what comes later. *)
OrderInv ==
  Querying => \A j \in DOMAIN collected, w \in Paths :
    (\A i \in 1 .. j : collected[i] # w) =>
      collected[j] \in ReachableFrom(match_file_paths[queried], broken \cup {w})

LEMMA ReportsStay == Spec => []ReportsInv
<1>1. Init => ReportsInv
  <2> SUFFICES ASSUME Init PROVE ReportsInv
    OBVIOUS
  <2>1. Known = {} /\ ToSet(errors) = {}
    BY DEF Init, Known, ToSet
  <2> QED BY <2>1 DEF ReportsInv
<1>2. IInv /\ ReportsInv /\ [Next]_vars => ReportsInv'
  <2> SUFFICES ASSUME IInv, ReportsInv, [Next]_vars PROVE ReportsInv'
    OBVIOUS
  <2>1. errors \in Seq(ErrorType)
    BY DEF IInv, TypeInv
  <2>2. ASSUME NEW p \in Paths, Load(p) PROVE ReportsInv'
    <3> DEFINE reports == Loaded[p].non_fatal_errors
               other == [file |-> p, errors |-> reports]
    <3>1. Known' = Known \cup {p}
      BY <2>2 DEF Load, Known
    <3>2. errors' = IF reports = {} THEN errors ELSE Append(errors, other)
      BY <2>2 DEF Load
    <3>3. other.file = p /\ other.errors = reports
      OBVIOUS
    <3>4. reports # {} => other \in ErrorType
      <4>1. reports \subseteq AnyReport
        BY DEF AnyReport
      <4> HIDE DEF reports
      <4> QED BY <4>1 DEF ErrorType
    <3> HIDE DEF other
    <3>5. reports # {} => ToSet(errors') = ToSet(errors) \cup {other}
      BY <2>1, <3>2, <3>4, AppendFacts
    <3>6. reports = {} => ToSet(errors') = ToSet(errors)
      BY <3>2
    <3>7. ToSet(errors)' = ToSet(errors')
      BY DEF ToSet
    <3> HIDE DEF reports
    <3>8. \A q \in Known' : Loaded[q].non_fatal_errors # {} =>
            [file |-> q, errors |-> Loaded[q].non_fatal_errors] \in ToSet(errors')
      BY <3>1, <3>5, <3>6 DEF ReportsInv, other, reports
    <3>9. \A e \in ToSet(errors') : e = single_error(e.file) \/ e.errors = Loaded[e.file].non_fatal_errors
      <4>1. other.errors = Loaded[other.file].non_fatal_errors
        BY <3>3 DEF reports
      <4>2. \A e \in ToSet(errors') : e \in ToSet(errors) \/ e = other
        BY <3>5, <3>6
      <4> QED BY <4>1, <4>2 DEF ReportsInv
    <3> QED BY <3>7, <3>8, <3>9 DEF ReportsInv
  <2>3. ASSUME NEW p \in Paths, LoadFails(p) PROVE ReportsInv'
    <3>1. Known' = Known /\ errors' = Append(errors, single_error(p)) /\ single_error(p).file = p
      BY <2>3 DEF LoadFails, Known, single_error
    <3>2. single_error(p) \in ErrorType
      BY DEF ErrorType, AnyReport, single_error
    <3>3. ToSet(errors)' = ToSet(errors) \cup {single_error(p)}
      <4>1. ToSet(errors') = ToSet(errors) \cup {single_error(p)}
        BY <2>1, <3>1, <3>2, AppendFacts
      <4> QED BY <4>1 DEF ToSet
    <3> QED BY <3>1, <3>3 DEF ReportsInv
  <2>4. ASSUME UNCHANGED <<match_file_map, errors>> PROVE ReportsInv'
    BY <2>4 DEF ReportsInv, Known
  <2>5. ASSUME NEW p \in Paths, AlreadyLoaded(p) PROVE ReportsInv'
    BY <2>4, <2>5 DEF AlreadyLoaded, store
  <2>6. ASSUME Resolve PROVE ReportsInv'
    BY <2>4, <2>6 DEF Resolve
  <2>7. ASSUME NEW p \in Profiles, Query(p) PROVE ReportsInv'
    BY <2>4, <2>7 DEF Query, store
  <2>8. ASSUME NEW ref \in DOMAIN files, AlreadyVisited(ref) \/ Visit(ref) PROVE ReportsInv'
    BY <2>4, <2>8 DEF AlreadyVisited, Visit, store
  <2>9. ASSUME Return \/ CreateProfileCache \/ UNCHANGED vars PROVE ReportsInv'
    BY <2>4, <2>9 DEF Return, CreateProfileCache, vars, store
  <2> QED BY <2>2, <2>3, <2>5, <2>6, <2>7, <2>8, <2>9 DEF Next
<1> QED BY <1>1, <1>2, Inductive, PTL DEF Spec

LEMMA CacheStays == Spec => []CacheInv
<1>1. Init => CacheInv
  BY DEF Init, CacheInv
<1>2. IInv /\ CacheInv /\ [Next]_vars => CacheInv'
  <2> SUFFICES ASSUME IInv, CacheInv, [Next]_vars PROVE CacheInv'
    OBVIOUS
  <2>1. CASE CreateProfileCache
    <3>1. UNCHANGED collected
      BY <2>1 DEF CreateProfileCache, query
    <3> QED BY <2>1, <3>1 DEF CreateProfileCache, CacheInv, Collected
  <2>2. CASE UNCHANGED vars
    BY <2>2 DEF vars, query, CacheInv, Collected
  <2>3. CASE pc' # "done"
    BY <2>3 DEF CacheInv
  <2>4. CASE Return
    BY <2>3, <2>4, ReturnTo
  <2>5. ASSUME Next, ~CreateProfileCache, ~Return PROVE pc' # "done"
    BY <2>5 DEF Next, AlreadyLoaded, Load, LoadFails, Resolve, Query, AlreadyVisited, Visit
  <2> QED BY <2>1, <2>2, <2>3, <2>4, <2>5
<1> QED BY <1>1, <1>2, Inductive, PTL DEF Spec

LEMMA OrderStays == Spec => []OrderInv
<1>1. Init => OrderInv
  BY DEF Init, OrderInv, Querying
<1>2. IInv /\ OrderInv /\ [Next]_vars => OrderInv'
  <2> SUFFICES ASSUME IInv, OrderInv, [Next]_vars PROVE OrderInv'
    OBVIOUS
  <2>1. ASSUME NEW ref \in DOMAIN files, Visit(ref) PROVE OrderInv'
    <3> DEFINE path == files[ref].source_path
               n == Len(collected) + 1
               roots == match_file_paths[queried]
    <3>1. /\ pc = "query" /\ Querying /\ Resolved /\ UNCHANGED <<world, queried>>
          /\ collected' = Append(collected, path) /\ Looks(ref)
      BY <2>1 DEF Visit, Querying, Resolved
    <3>2. collected \in Seq(Paths) /\ path \in Paths
      BY <3>1 DEF IInv, TypeInv, RefsStayValid, Known
    <3>3. /\ DOMAIN collected' = DOMAIN collected \cup {n}
          /\ DOMAIN collected = 1 .. Len(collected) /\ Len(collected) \in Nat
          /\ \A i \in DOMAIN collected : collected'[i] = collected[i]
          /\ collected'[n] = path
      <4> HIDE DEF path
      <4> QED BY <3>1, <3>2, AppendFacts
    <3>4. \A w : ReachableFrom(roots, broken \cup {w})' = ReachableFrom(roots, broken \cup {w})
      BY <3>1 DEF ReachableFrom, world
    <3>5. ref \in Asked
      <4>1. frames \in Seq(Seq(DOMAIN files))
        BY <3>1 DEF IInv, FramesInv
      <4>2. ref \in PendingIn(frames)
        BY <3>1, <4>1, LoopFacts
      <4> QED BY <3>1, <4>2 DEF IInv, QueryInv
    <3> HIDE DEF path, n, roots
    <3>6. ASSUME NEW w \in Paths, \A i \in DOMAIN collected : collected[i] # w, path # w
          PROVE  path \in ReachableFrom(roots, broken \cup {w})
      <4> DEFINE R == ReachableFrom(roots, broken \cup {w})
      <4>1. /\ roots \ (broken \cup {w}) \subseteq R
            /\ \A q \in R : ToSet(import_paths[q]) \ (broken \cup {w}) \subseteq R
        <5>1. roots \in SUBSET Paths /\ import_paths \in [Paths -> Seq(Paths)]
          BY <3>1 DEF IInv, TypeInv, QueryInv, roots
        <5> DEFINE U == broken \cup {w}
        <5> HIDE DEF U
        <5>2. /\ roots \ U \subseteq ReachableFrom(roots, U)
              /\ \A q \in ReachableFrom(roots, U) :
                   ToSet(import_paths[q]) \ U \subseteq ReachableFrom(roots, U)
          BY <5>1, ReachFacts
        <5> QED BY <5>2 DEF U
      <4>2. /\ Known \subseteq Paths \ broken
            /\ \A q \in Known : files[match_file_map[q]].source_path = q
        BY DEF IInv, TypeInv, RefsStayValid, Known
      <4>3. CASE ref \in RefsOf(roots)
        <5>1. path \in roots \cap Known
          BY <4>2, <4>3 DEF RefsOf, path
        <5> HIDE DEF R
        <5> QED BY <3>6, <4>1, <4>2, <5>1 DEF R
      <4>4. CASE \E r \in visited : ref \in ToSet(files[r].imports)
        <5>1. PICK r \in visited : ref \in ToSet(files[r].imports)
          BY <4>4
        <5>2. r \in DOMAIN files /\ files[r].source_path \in ToSet(collected)
          BY <3>1, <5>1 DEF IInv, QueryInv
        <5>3. PICK j \in DOMAIN collected : collected[j] = files[r].source_path
          BY <5>2 DEF ToSet
        <5>4. \A i \in 1 .. j : i \in DOMAIN collected
          BY <3>3
        <5>5. files[r].source_path \in R
          BY <3>1, <3>6, <5>3, <5>4 DEF OrderInv, roots
        <5>6. ref \in RefsOf(ToSet(import_paths[files[r].source_path]))
          BY <3>1, <5>1, <5>2 DEF IInv, ResolveInv
        <5>7. path \in ToSet(import_paths[files[r].source_path]) \cap Known
          BY <4>2, <5>6 DEF RefsOf, path
        <5> HIDE DEF R
        <5> QED BY <3>6, <4>1, <4>2, <5>5, <5>7 DEF R
      <4> QED BY <3>5, <4>3, <4>4 DEF Asked, roots
    <3>7. ASSUME NEW j \in DOMAIN collected', NEW w \in Paths, \A i \in 1 .. j : collected'[i] # w
          PROVE  collected'[j] \in ReachableFrom(roots, broken \cup {w})
      <4>1. CASE j = n
        <5>1. n \in 1 .. n /\ \A i \in DOMAIN collected : i \in 1 .. n
          BY <3>3 DEF n
        <5>2. \A i \in DOMAIN collected : collected[i] # w
          BY <3>3, <3>7, <4>1, <5>1
        <5>3. path # w
          BY <3>3, <3>7, <4>1, <5>1
        <5> QED BY <3>3, <3>6, <4>1, <5>2, <5>3
      <4>2. CASE j # n
        <5>1. j \in DOMAIN collected /\ \A i \in 1 .. j : i \in DOMAIN collected
          BY <3>3, <4>2
        <5>2. \A i \in 1 .. j : collected[i] # w
          BY <3>3, <3>7, <5>1
        <5> QED BY <3>1, <3>3, <5>1, <5>2 DEF OrderInv, roots
      <4> QED BY <4>1, <4>2
    <3> QED BY <3>1, <3>4, <3>7 DEF OrderInv, roots, world
  <2>2. ASSUME UNCHANGED <<world, queried, collected>>, Querying' => Querying PROVE OrderInv'
    BY <2>2 DEF OrderInv, ReachableFrom, world
  <2>3. ASSUME NEW p \in Profiles, Query(p) PROVE OrderInv'
    <3>1. collected' = <<>>
      BY <2>3 DEF Query, IInv, QueryInv, Querying
    <3> QED BY <3>1 DEF OrderInv
  <2>4. ASSUME NEW p \in Paths, AlreadyLoaded(p) \/ Load(p) \/ LoadFails(p) PROVE OrderInv'
    BY <2>2, <2>4 DEF AlreadyLoaded, Load, LoadFails, query, Querying
  <2>5. ASSUME Resolve PROVE OrderInv'
    BY <2>2, <2>5 DEF Resolve, query, Querying
  <2>6. ASSUME NEW ref \in DOMAIN files, AlreadyVisited(ref) PROVE OrderInv'
    BY <2>2, <2>6 DEF AlreadyVisited, query, Querying
  <2>7. ASSUME Return PROVE OrderInv'
    <3>1. Querying' => Querying
      BY <2>7, ReturnTo DEF Querying
    <3> QED BY <2>2, <2>7, <3>1 DEF Return, query
  <2>8. ASSUME CreateProfileCache PROVE OrderInv'
    BY <2>2, <2>8 DEF CreateProfileCache, query, Querying
  <2>9. ASSUME UNCHANGED vars PROVE OrderInv'
    BY <2>2, <2>9 DEF vars, query, Querying
  <2> QED BY <2>1, <2>3, <2>4, <2>5, <2>6, <2>7, <2>8, <2>9 DEF Next
<1> QED BY <1>1, <1>2, Inductive, PTL DEF Spec

(* What a query that has ended gives *)
LEMMA DoneFacts ==
  ASSUME IInv, CacheInv, pc = "done"
  PROVE  /\ collected \in Seq(Paths)
         /\ ToSet(collected) \subseteq Known
         /\ LET entries == Collected("triggers")
            IN  /\ [k \in DOMAIN collected |-> Entries[collected[k]].triggers] \in Seq(Seq(EntryType))
                /\ entries \in Seq(EntryType) /\ cache.trigger_map = InsertAll(entries)
                /\ ToSet(entries) = UNION {ToSet(Entries[p].triggers) : p \in ToSet(collected)}
         /\ LET entries == Collected("global_vars")
            IN  /\ entries \in Seq(EntryType) /\ cache.global_var_map = InsertAll(entries)
                /\ ToSet(entries) = UNION {ToSet(Entries[p].global_vars) : p \in ToSet(collected)}
         /\ LET defs == Collected("regexes")
            IN  /\ defs \in Seq(DefinitionType) /\ cache.regex_ids = Compiled(defs)
                /\ ToSet(defs) = UNION {ToSet(Entries[p].regexes) : p \in ToSet(collected)}
<1>1. collected \in Seq(Paths)
  BY DEF IInv, TypeInv
<1>2. ToSet(collected) \subseteq Known
  <2>1. ToSet(collected) = {files[r].source_path : r \in visited} /\ visited \subseteq DOMAIN files
    BY DEF IInv, QueryInv, Querying
  <2> QED BY <2>1 DEF IInv, RefsStayValid, Known
<1>3. /\ cache.trigger_map = InsertAll(Collected("triggers"))
      /\ cache.global_var_map = InsertAll(Collected("global_vars"))
      /\ cache.regex_ids = Compiled(Collected("regexes"))
  BY DEF CacheInv
<1>4. /\ [k \in DOMAIN collected |-> Entries[collected[k]]["triggers"]] \in Seq(Seq(EntryType))
      /\ Collected("triggers") \in Seq(EntryType)
      /\ ToSet(Collected("triggers")) = UNION {ToSet(Entries[p]["triggers"]) : p \in ToSet(collected)}
  <2>1. \A p \in Paths : Entries[p]["triggers"] \in Seq(EntryType)
    BY TriggerFacts
  <2> QED BY <1>1, <2>1, CollectedFacts
<1>5. /\ Collected("global_vars") \in Seq(EntryType)
      /\ ToSet(Collected("global_vars")) = UNION {ToSet(Entries[p]["global_vars"]) : p \in ToSet(collected)}
  <2>1. \A p \in Paths : Entries[p]["global_vars"] \in Seq(EntryType)
    BY VarFacts
  <2> QED BY <1>1, <2>1, CollectedFacts
<1>6. /\ Collected("regexes") \in Seq(DefinitionType)
      /\ ToSet(Collected("regexes")) = UNION {ToSet(Entries[p]["regexes"]) : p \in ToSet(collected)}
  <2>1. \A p \in Paths : Entries[p]["regexes"] \in Seq(DefinitionType)
    BY VarFacts
  <2> QED BY <1>1, <2>1, CollectedFacts
<1> QED BY <1>1, <1>2, <1>3, <1>4, <1>5, <1>6

(* An error about a definition is reported when the definition cannot be    *)
(* converted, and only then.                                                 *)
LEMMA ReportedFacts ==
  ASSUME IInv, ReportsInv, NEW p \in Known
  PROVE  /\ \A i \in DOMAIN Contents[p].matches :
              Reported(p, "matches", i) <=> ~try_convert_into_match(Contents[p].matches[i])
         /\ \A i \in DOMAIN Contents[p].global_vars :
              Reported(p, "global_vars", i) <=> ~try_convert_into_variable(Contents[p].global_vars[i])
<1> DEFINE reports == Loaded[p].non_fatal_errors
           one == Report("error", "file", 0)
<1>1. p \in Paths
  BY DEF IInv, TypeInv
<1>2. ASSUME NEW list \in {"matches", "global_vars"}, NEW i
      PROVE  Reported(p, list, i) <=> Report("error", list, i) \in reports
  <2>1. Report("error", list, i) # one
    <3>1. Report("error", list, i).list = list /\ one.list = "file"
      BY DEF Report
    <3> HIDE DEF one
    <3> QED BY <3>1
  <2>2. ASSUME NEW e \in ToSet(errors), e.file = p, Report("error", list, i) \in e.errors
        PROVE  Report("error", list, i) \in reports
    <3>1. e = single_error(e.file) => e.errors = {one}
      <4>1. single_error(p).errors = {one}
        BY DEF single_error
      <4> QED BY <2>2, <4>1
    <3>2. e = single_error(e.file) \/ e.errors = reports
      BY <2>2 DEF ReportsInv
    <3> HIDE DEF one, reports
    <3> QED BY <2>1, <2>2, <3>1, <3>2
  <2>3. ASSUME Report("error", list, i) \in reports PROVE Reported(p, list, i)
    <3> DEFINE e == [file |-> p, errors |-> reports]
    <3>1. e \in ToSet(errors)
      BY <2>3 DEF ReportsInv
    <3>2. e.file = p /\ e.errors = reports
      OBVIOUS
    <3> HIDE DEF e, reports
    <3> QED BY <2>3, <3>1, <3>2 DEF Reported
  <2> QED BY <2>2, <2>3 DEF Reported
<1> DEFINE vs == Contents[p].global_vars
           all == Contents[p].matches
           VarErrors == {Report("error", "global_vars", i) :
                           i \in {j \in DOMAIN vs : ~try_convert_into_variable(vs[j])}}
           MatchErrors == {Report("error", "matches", i) :
                             i \in {j \in DOMAIN all : ~try_convert_into_match(all[j])}}
           Warnings == {Report("warn", "matches", i) : i \in {j \in DOMAIN all : HasWarning(all[j])}}
<1>3. reports = VarErrors \cup MatchErrors \cup Warnings
  BY <1>1 DEF Loaded, load_file
<1>4. \A l1, l2, k1, k2, i1, i2 :
        Report(l1, k1, i1) = Report(l2, k2, i2) => l1 = l2 /\ k1 = k2 /\ i1 = i2
  <2>1. \A l, k, i : Report(l, k, i).level = l /\ Report(l, k, i).list = k /\ Report(l, k, i).at = i
    BY DEF Report
  <2> QED BY <2>1
<1> HIDE DEF reports
<1>5. ASSUME NEW i \in DOMAIN all
      PROVE  Report("error", "matches", i) \in reports <=> ~try_convert_into_match(all[i])
  BY <1>3, <1>4
<1>6. ASSUME NEW i \in DOMAIN vs
      PROVE  Report("error", "global_vars", i) \in reports <=> ~try_convert_into_variable(vs[i])
  BY <1>3, <1>4
<1> QED BY <1>2, <1>5, <1>6

(* Every definition a profile reaches is reported as an error or can be      *)
(* found, unless its regex does not compile, and nothing that is found was   *)
(* reported: the loader, the walks and the maps lose nothing between them.   *)
THEOREM EverythingIsFound == Spec => []NothingIsLost
<1>1. IInv /\ ReportsInv /\ CacheInv /\ QueryIsClosure => NothingIsLost
  <2> SUFFICES ASSUME IInv, ReportsInv, CacheInv, QueryIsClosure, pc = "done" PROVE NothingIsLost
    BY DEF NothingIsLost
  <2> DEFINE triggers == Collected("triggers")
             globals == Collected("global_vars")
             regexes == Collected("regexes")
  <2>1. /\ triggers \in Seq(EntryType) /\ cache.trigger_map = InsertAll(triggers)
        /\ ToSet(triggers) = UNION {ToSet(Entries[p].triggers) : p \in ToSet(collected)}
        /\ globals \in Seq(EntryType) /\ cache.global_var_map = InsertAll(globals)
        /\ ToSet(globals) = UNION {ToSet(Entries[p].global_vars) : p \in ToSet(collected)}
        /\ regexes \in Seq(DefinitionType) /\ cache.regex_ids = Compiled(regexes)
        /\ ToSet(regexes) = UNION {ToSet(Entries[p].regexes) : p \in ToSet(collected)}
    BY DoneFacts
  <2>2. ToSet(collected) = Reached /\ Reached \subseteq Known /\ Reached \subseteq Paths
    BY DoneFacts DEF QueryIsClosure, Reached, ReachableFrom
  <2> HIDE DEF triggers, globals, regexes
  <2>3. DOMAIN cache.trigger_map = {e.key : e \in ToSet(triggers)}
    BY <2>1, InsertFacts
  <2>4. DOMAIN cache.global_var_map = {e.key : e \in ToSet(globals)}
    BY <2>1, InsertFacts
  <2>5. ASSUME NEW p \in Reached, NEW i \in DOMAIN Contents[p].matches, ~Reported(p, "matches", i)
        PROVE  LET m == Contents[p].matches[i]
               IN IF HasTriggers(m) THEN ToSet(TriggersOf(m)) \subseteq DOMAIN cache.trigger_map
                  ELSE m.regex \in BadRegexes \/ Definition(p, i) \in ToSet(cache.regex_ids)
    <3> DEFINE m == Contents[p].matches[i]
    <3>1. try_convert_into_match(m)
      BY <2>2, <2>5, ReportedFacts
    <3>2. CASE HasTriggers(m)
      <4>1. i \in TriggersAt(p)
        BY <3>1, <3>2 DEF TriggersAt
      <4>2. ASSUME NEW t \in ToSet(TriggersOf(m)) PROVE t \in DOMAIN cache.trigger_map
        <5>1. Entry(t, Definition(p, i)) \in ToSet(Added(Definition(p, i)))
          BY <2>2, <4>1, AddedFacts
        <5>2. Entry(t, Definition(p, i)) \in ToSet(Entries[p].triggers)
          BY <2>2, <4>1, <5>1, TriggerFacts
        <5>3. Entry(t, Definition(p, i)) \in ToSet(triggers)
          BY <2>1, <2>2, <5>2
        <5> QED BY <2>3, <5>3 DEF Entry
      <4> QED BY <3>2, <4>2
    <3>3. CASE ~HasTriggers(m)
      <4>1. i \in RegexesAt(p)
        BY <3>1, <3>3 DEF RegexesAt
      <4>2. Definition(p, i) \in ToSet(Entries[p].regexes)
        BY <2>2, <4>1, VarFacts
      <4>3. Definition(p, i) \in ToSet(regexes)
        BY <2>1, <2>2, <4>2
      <4>4. Match(Definition(p, i)) = m
        BY DEF Match, Definition
      <4> HIDE DEF m
      <4>5. m.regex \in BadRegexes \/ Definition(p, i) \in ToSet(cache.regex_ids)
        BY <2>1, <4>3, <4>4, CompiledFacts
      <4> QED BY <3>3, <4>5 DEF m
    <3> QED BY <3>2, <3>3
  <2>6. ASSUME NEW p \in Reached, NEW i \in DOMAIN Contents[p].global_vars,
               ~Reported(p, "global_vars", i)
        PROVE  Contents[p].global_vars[i].name \in DOMAIN cache.global_var_map
    <3>1. i \in VarsAt(p)
      BY <2>2, <2>6, ReportedFacts DEF VarsAt
    <3> DEFINE e == Entry(Contents[p].global_vars[i].name, Definition(p, i))
    <3>2. e \in ToSet(Entries[p].global_vars)
      BY <2>2, <3>1, VarFacts
    <3>3. e \in ToSet(globals) /\ e.key = Contents[p].global_vars[i].name
      BY <2>1, <2>2, <3>2 DEF Entry
    <3> HIDE DEF e
    <3> QED BY <2>4, <3>3
  <2>7. ASSUME NEW t \in DOMAIN cache.trigger_map
        PROVE  ~Reported(cache.trigger_map[t].file, "matches", cache.trigger_map[t].at)
    <3>1. PICK l : LastIn(triggers, Keyed(t), l) /\ cache.trigger_map[t] = triggers[l].value
      <4>1. t \in DOMAIN InsertAll(triggers) /\ triggers \in Seq(EntryType)
        BY <2>1
      <4>2. \E l : LastIn(triggers, Keyed(t), l) /\ InsertAll(triggers)[t] = triggers[l].value
        BY <4>1, InsertFacts, Zenon
      <4> QED BY <2>1, <4>2, Zenon
    <3>2. triggers[l] \in ToSet(triggers)
      BY <3>1 DEF LastIn, ToSet
    <3>3. PICK p \in Reached : triggers[l] \in ToSet(Entries[p].triggers)
      BY <2>1, <2>2, <3>2
    <3>4. PICK i \in TriggersAt(p) : triggers[l] \in ToSet(Added(Definition(p, i)))
      BY <2>2, <3>3, TriggerFacts
    <3>5. triggers[l].value = Definition(p, i)
      BY <2>2, <3>4, AddedFacts DEF Entry
    <3>6. cache.trigger_map[t].file = p /\ cache.trigger_map[t].at = i
      BY <3>1, <3>5 DEF Definition
    <3>7. i \in DOMAIN Contents[p].matches /\ try_convert_into_match(Contents[p].matches[i])
      BY DEF TriggersAt
    <3> QED BY <2>2, <3>6, <3>7, ReportedFacts
  <2>8. ASSUME NEW n \in DOMAIN cache.global_var_map
        PROVE  ~Reported(cache.global_var_map[n].file, "global_vars", cache.global_var_map[n].at)
    <3>1. PICK l : LastIn(globals, Keyed(n), l) /\ cache.global_var_map[n] = globals[l].value
      <4>1. n \in DOMAIN InsertAll(globals) /\ globals \in Seq(EntryType)
        BY <2>1
      <4>2. \E l : LastIn(globals, Keyed(n), l) /\ InsertAll(globals)[n] = globals[l].value
        BY <4>1, InsertFacts, Zenon
      <4> QED BY <2>1, <4>2, Zenon
    <3>2. globals[l] \in ToSet(globals)
      BY <3>1 DEF LastIn, ToSet
    <3>3. PICK p \in Reached : globals[l] \in ToSet(Entries[p].global_vars)
      BY <2>1, <2>2, <3>2
    <3>4. PICK i \in VarsAt(p) : globals[l] = Entry(Contents[p].global_vars[i].name, Definition(p, i))
      BY <2>2, <3>3, VarFacts
    <3>5. cache.global_var_map[n].file = p /\ cache.global_var_map[n].at = i
      BY <3>1, <3>4 DEF Definition, Entry
    <3>6. i \in DOMAIN Contents[p].global_vars /\ try_convert_into_variable(Contents[p].global_vars[i])
      BY DEF VarsAt
    <3> QED BY <2>2, <3>5, <3>6, ReportedFacts
  <2> QED BY <2>5, <2>6, <2>7, <2>8 DEF NothingIsLost
<1> QED BY Inductive, ReportsStay, CacheStays, QueryIsExact, <1>1, PTL

(* Of two definitions of a trigger, the later one in a file wins; and a file *)
(* the profile reaches only through another one wins against that one, in    *)
(* whatever order the profile's files are visited: imports override.         *)
THEOREM ImportsWin == Spec => []ImportsOverride
<1>1. IInv /\ CacheInv /\ OrderInv /\ QueryIsClosure => ImportsOverride
  <2> SUFFICES ASSUME IInv, CacheInv, OrderInv, QueryIsClosure, pc = "done",
                      NEW t \in DOMAIN cache.trigger_map
               PROVE  LET winner == cache.trigger_map[t]
                          roots == match_file_paths[queried]
                      IN /\ \A i \in Defines(winner.file, t) : i <= winner.at
                         /\ \A p \in Reached \ ({winner.file}
                                 \cup ReachableFrom(roots, broken \cup {winner.file})) :
                              Defines(p, t) = {}
    BY DEF ImportsOverride
  <2> DEFINE triggers == Collected("triggers")
             ss == [k \in DOMAIN collected |-> Entries[collected[k]].triggers]
             winner == cache.trigger_map[t]
             roots == match_file_paths[queried]
  <2>1. /\ collected \in Seq(Paths) /\ ss \in Seq(Seq(EntryType))
        /\ triggers \in Seq(EntryType) /\ cache.trigger_map = InsertAll(triggers)
    BY DoneFacts
  <2>2. triggers = FlattenSeq(ss) /\ DOMAIN ss = DOMAIN collected
        /\ \A k \in DOMAIN collected : ss[k] = Entries[collected[k]].triggers
    BY DEF Collected
  <2> HIDE DEF triggers, ss
  <2>3. PICK m : LastIn(triggers, Keyed(t), m) /\ winner = triggers[m].value
    <3>1. t \in DOMAIN InsertAll(triggers) /\ triggers \in Seq(EntryType)
      BY <2>1
    <3>2. \E l : LastIn(triggers, Keyed(t), l) /\ InsertAll(triggers)[t] = triggers[l].value
      BY <3>1, InsertFacts, Zenon
    <3> QED BY <2>1, <3>2, Zenon
  <2>4. PICK k \in DOMAIN ss :
          /\ \E l : LastIn(ss[k], Keyed(t), l) /\ ss[k][l] = triggers[m]
          /\ \A j \in DOMAIN ss : ToSet(ss[j]) \cap Keyed(t) # {} => j <= k
    BY <2>1, <2>2, <2>3, FlattenLast
  <2>5. PICK l : LastIn(ss[k], Keyed(t), l) /\ ss[k][l] = triggers[m]
    BY <2>4
  <2>6. k \in DOMAIN collected /\ collected[k] \in Paths /\ ss[k] = Entries[collected[k]].triggers
    BY <2>1, <2>2
  <2>7. winner.file = collected[k]
    <3>1. ss[k][l] \in ToSet(Entries[collected[k]].triggers)
      BY <2>5, <2>6 DEF LastIn, ToSet
    <3>2. PICK i \in TriggersAt(collected[k]) : ss[k][l] \in ToSet(Added(Definition(collected[k], i)))
      <4>1. ToSet(Entries[collected[k]].triggers)
              = UNION {ToSet(Added(Definition(collected[k], i))) : i \in TriggersAt(collected[k])}
        BY <2>6, TriggerFacts
      <4> QED BY <3>1, <4>1
    <3>3. ss[k][l].value = Definition(collected[k], i)
      BY <2>6, <3>2, AddedFacts DEF Entry
    <3> QED BY <2>3, <2>5, <3>3 DEF Definition
  <2>8. \A i \in Defines(winner.file, t) : i <= winner.at
    BY <2>3, <2>5, <2>6, <2>7, TriggerFacts
  <2>9. ASSUME NEW p \in Reached \ {winner.file}, Defines(p, t) # {}
        PROVE  p \in ReachableFrom(roots, broken \cup {winner.file})
    <3>1. p \in Paths /\ p \in ToSet(collected)
      BY DEF QueryIsClosure, Reached, ReachableFrom
    <3>2. PICK j \in DOMAIN collected : collected[j] = p
      BY <3>1 DEF ToSet
    <3>3. j <= k
      <4>1. PICK i \in Defines(p, t) : TRUE
        BY <2>9
      <4>2. i \in TriggersAt(p) /\ t \in ToSet(TriggersOf(Contents[p].matches[i]))
        BY DEF Defines, TriggersAt
      <4> DEFINE e == Entry(t, Definition(p, i))
      <4>3. e \in ToSet(Added(Definition(p, i)))
        BY <3>1, <4>2, AddedFacts
      <4>4. e \in ToSet(Entries[p].triggers) /\ Entries[p].triggers \in Seq(EntryType)
        BY <3>1, <4>2, <4>3, TriggerFacts
      <4>5. e.key = t
        BY DEF Entry
      <4> HIDE DEF e
      <4>6. e \in ToSet(ss[j]) /\ e \in EntryType
        BY <2>2, <3>2, <4>4 DEF ToSet
      <4> QED BY <2>2, <2>4, <4>5, <4>6 DEF Keyed
    <3>4. \A i \in 1 .. j : collected[i] # winner.file
      <4>1. DOMAIN collected = 1 .. Len(collected) /\ Len(collected) \in Nat
        BY <2>1, LenProperties
      <4>2. \A a, b \in DOMAIN collected : collected[a] = collected[b] => a = b
        BY DEF QueryIsClosure
      <4>3. ASSUME NEW i \in 1 .. j, collected[i] = winner.file PROVE FALSE
        <5>1. i \in DOMAIN collected
          BY <4>1
        <5>2. i = k
          BY <2>6, <2>7, <4>2, <4>3, <5>1
        <5>3. j = k
          BY <2>6, <3>3, <4>1, <5>2
        <5> QED BY <2>7, <2>9, <3>2, <5>3
      <4> QED BY <4>3
    <3> QED BY <2>6, <2>7, <3>2, <3>4 DEF OrderInv, Querying
  <2> QED BY <2>8, <2>9
<1> QED BY Inductive, CacheStays, OrderStays, QueryIsExact, <1>1, PTL
-----------------------------------------------------------------------------
(* Neither the load nor a query can go on forever *)

Phase ==
  CASE pc = "load" -> 5 [] pc = "resolve" -> 4 [] pc = "ready" -> 3
    [] pc = "query" -> 2 [] pc = "collected" -> 1 [] OTHER -> 0

(* The files not loaded, or not visited yet *)
Unmet ==
  CASE pc = "load" -> Paths \ Known [] pc = "query" -> DOMAIN files \ visited [] OTHER -> {}

(* With them, the calls in progress and what the loop of the last has left *)
Remaining ==
  <<Phase, Cardinality(Unmet), Depth, IF frames = <<>> THEN 0 ELSE Len(frames[Depth])>>

LEMMA UnmetFacts ==
  ASSUME IInv
  PROVE  IsFiniteSet(Unmet) /\ Cardinality(Unmet) \in Nat
<1>1. IsFiniteSet(Paths \ Known)
  BY PathsAssumption, FS_Subset
<1>2. IsFiniteSet(DOMAIN files \ visited)
  <2>1. files \in Seq(FileType)
    BY DEF IInv, TypeInv
  <2>2. Len(files) \in Nat /\ DOMAIN files = 1 .. Len(files)
    BY <2>1, LenProperties
  <2>3. IsFiniteSet(DOMAIN files)
    BY <2>2, FS_Interval
  <2> QED BY <2>3, FS_Subset
<1>3. IsFiniteSet(Unmet)
  BY <1>1, <1>2, FS_EmptySet DEF Unmet
<1> QED BY <1>3, FS_CardinalityType

LEMMA RemainingTyped == IInv => Remaining \in [1 .. 4 -> Nat]
<1> SUFFICES ASSUME IInv PROVE Remaining \in [1 .. 4 -> Nat]
  OBVIOUS
<1>1. Phase \in Nat
  BY DEF Phase
<1>2. Cardinality(Unmet) \in Nat
  BY UnmetFacts
<1> DEFINE S == IF pc = "query" THEN DOMAIN files ELSE Paths
<1>3. frames \in Seq(Seq(S))
  BY DEF IInv, FramesInv
<1> HIDE DEF S
<1>4. Depth \in Nat /\ (frames # <<>> => Len(frames[Depth]) \in Nat)
  <2>1. Depth \in Nat /\ DOMAIN frames = 1 .. Depth /\ (frames # <<>> => Depth > 0)
    BY <1>3, EmptySeq, LenProperties DEF Depth
  <2>2. ASSUME frames # <<>> PROVE frames[Depth] \in Seq(S)
    BY <1>3, <2>1, <2>2
  <2> QED BY <2>1, <2>2, LenProperties
<1> HIDE DEF Phase
<1>5. (IF frames = <<>> THEN 0 ELSE Len(frames[Depth])) \in Nat
  BY <1>4
<1> QED BY <1>1, <1>2, <1>4, <1>5 DEF Remaining

LEMMA RemainingIs ==
  /\ DOMAIN Remaining = 1 .. 4
  /\ Remaining[1] = Phase /\ Remaining'[1] = Phase'
  /\ Remaining[2] = Cardinality(Unmet) /\ Remaining'[2] = Cardinality(Unmet')
  /\ Remaining[3] = Depth /\ Remaining'[3] = Depth'
  /\ Remaining[4] = IF frames = <<>> THEN 0 ELSE Len(frames[Depth])
  /\ Remaining'[4] = IF frames' = <<>> THEN 0 ELSE Len(frames'[Depth'])
BY DEF Remaining

LEMMA PhaseShrinks == ASSUME Phase' < Phase PROVE Below(Remaining', Remaining)
<1>1. 1 \in DOMAIN Remaining /\ Remaining'[1] < Remaining[1] /\ 1 .. 1 - 1 = {}
  BY RemainingIs
<1> QED BY <1>1 DEF Below

(* A file is met. *)
LEMMA UnmetShrinks ==
  ASSUME IInv, pc' = pc, NEW x \in Unmet, Unmet' = Unmet \ {x}
  PROVE  Below(Remaining', Remaining)
<1>1. Phase' = Phase
  BY DEF Phase
<1>2. Cardinality(Unmet') < Cardinality(Unmet)
  <2>1. IsFiniteSet(Unmet) /\ Cardinality(Unmet) \in Nat
    BY UnmetFacts
  <2>2. Cardinality(Unmet \ {x}) = Cardinality(Unmet) - 1
    BY <2>1, FS_RemoveElement
  <2>3. Cardinality(Unmet') = Cardinality(Unmet) - 1
    BY <2>2, Zenon
  <2>4. Cardinality(Unmet) - 1 < Cardinality(Unmet)
    BY <2>1
  <2> QED BY <2>3, <2>4
<1>3. 2 \in DOMAIN Remaining /\ Remaining'[2] < Remaining[2] /\ Remaining'[1] = Remaining[1]
      /\ 1 .. 2 - 1 = {1}
  BY <1>1, <1>2, RemainingIs
<1> QED BY <1>3 DEF Below

(* The loop of the last call goes on. *)
LEMMA LoopShrinks ==
  ASSUME IInv, pc' = pc, Unmet' = Unmet, NEW x, Looks(x), Continue
  PROVE  Below(Remaining', Remaining)
<1> DEFINE S == IF pc = "query" THEN DOMAIN files ELSE Paths
           d == Len(frames)
           top == frames[d]
<1>1. frames \in Seq(Seq(S))
  BY DEF IInv, FramesInv
<1> HIDE DEF S
<1>2. d \in Nat /\ d > 0 /\ top \in Seq(S) /\ top # <<>> /\ d = Depth /\ frames # <<>>
  BY <1>1, EmptySeq DEF Looks, Depth
<1>3. Tail(top) \in Seq(S) /\ Len(Tail(top)) = Len(top) - 1 /\ Len(top) \in Nat
  BY <1>2, HeadTailProperties, LenProperties
<1> DEFINE fs == SubSeq(frames, 1, d - 1)
<1>4. fs \in Seq(Seq(S)) /\ Len(fs) = d - 1
  BY <1>1, FrontFacts DEF Looks
<1>5. frames' = Append(fs, Tail(top))
  BY DEF Continue, Rest, Callers, Depth
<1> HIDE DEF top, fs, d
<1>6. /\ frames' # <<>> /\ Len(frames') = Len(fs) + 1
      /\ frames'[Len(fs) + 1] = Tail(top)
  BY <1>3, <1>4, <1>5, AppendProperties
<1>7. Depth' = Depth /\ frames'[Depth'] = Tail(top) /\ frames[Depth] = top
  <2>1. Len(fs) + 1 = d
    BY <1>2, <1>4
  <2> QED BY <1>2, <1>6, <2>1 DEF Depth, d, top
<1>8. Phase' = Phase
  BY DEF Phase
<1>9. 4 \in DOMAIN Remaining /\ Remaining'[4] < Remaining[4]
      /\ Remaining'[1] = Remaining[1] /\ Remaining'[2] = Remaining[2] /\ Remaining'[3] = Remaining[3]
  BY <1>2, <1>3, <1>6, <1>7, <1>8, RemainingIs
<1>10. 1 .. 4 - 1 = {1, 2, 3}
  OBVIOUS
<1> QED BY <1>9, <1>10 DEF Below

LEMMA ReturnShrinks ==
  ASSUME IInv, Return
  PROVE  Below(Remaining', Remaining)
<1> DEFINE S == IF pc = "query" THEN DOMAIN files ELSE Paths
<1>1. frames \in Seq(Seq(S)) /\ Finished /\ frames' = Callers
  BY DEF IInv, FramesInv, Return
<1>2. UNCHANGED <<files, match_file_map, visited>> /\ pc \in {"load", "query"}
  BY DEF Return, store, query
<1> HIDE DEF S
<1>3. Depth \in Nat /\ Depth > 0
  BY <1>1, ReturnFacts
<1>4. CASE Depth = 1
  <2>1. \/ pc = "load" /\ pc' = "resolve"
        \/ pc = "query" /\ pc' = "collected"
    <3>1. ~(Depth > 1) /\ pc' = CASE Depth > 1 -> pc
                                   [] Depth = 1 /\ pc = "load" -> "resolve"
                                   [] Depth = 1 /\ pc = "query" -> "collected"
      BY <1>4 DEF Return
    <3> QED BY <1>2, <1>4, <3>1
  <2>2. Phase' < Phase
    BY <2>1 DEF Phase
  <2> QED BY <2>2, PhaseShrinks
<1>5. CASE Depth # 1
  <2>1. pc' = pc
    BY <1>2, <1>3, <1>5 DEF Return
  <2>2. Phase' = Phase /\ Unmet' = Unmet
    BY <1>2, <2>1 DEF Phase, Unmet, Known
  <2>3. Len(Callers) = Depth - 1
    <3>1. frames # <<>>
      BY DEF Return, Finished
    <3> QED BY <1>1, <3>1, FrontFacts DEF Callers, Depth
  <2>4. Depth' = Depth - 1
    BY <1>1, <2>3 DEF Depth
  <2>5. 3 \in DOMAIN Remaining /\ Remaining'[3] < Remaining[3]
        /\ Remaining'[1] = Remaining[1] /\ Remaining'[2] = Remaining[2] /\ 1 .. 3 - 1 = {1, 2}
    BY <1>3, <2>2, <2>4, RemainingIs
  <2> QED BY <2>5 DEF Below
<1> QED BY <1>4, <1>5

LEMMA StepShrinks ==
  ASSUME IInv, Next
  PROVE  Below(Remaining', Remaining)
<1> USE DEF world, store, query
<1>1. ASSUME NEW p \in Paths, AlreadyLoaded(p) \/ LoadFails(p) PROVE Below(Remaining', Remaining)
  <2>1. pc = "load" /\ pc' = pc /\ Looks(p) /\ Continue /\ match_file_map' = match_file_map
    BY <1>1 DEF AlreadyLoaded, LoadFails
  <2>2. Unmet' = Unmet
    BY <2>1 DEF Unmet, Known
  <2> QED BY <2>1, <2>2, LoopShrinks
<1>2. ASSUME NEW p \in Paths, Load(p) PROVE Below(Remaining', Remaining)
  <2>1. pc = "load" /\ pc' = pc /\ p \notin Known
    BY <1>2 DEF Load, Known
  <2>2. Known' = Known \cup {p}
    BY <1>2 DEF Load, Known
  <2>3. p \in Unmet /\ Unmet' = Unmet \ {p}
    BY <2>1, <2>2 DEF Unmet
  <2> QED BY <2>1, <2>3, UnmetShrinks
<1>3. CASE Resolve
  <2>1. Phase' < Phase
    BY <1>3 DEF Resolve, Phase
  <2> QED BY <2>1, PhaseShrinks
<1>4. ASSUME NEW p \in Profiles, Query(p) PROVE Below(Remaining', Remaining)
  <2>1. Phase' < Phase
    BY <1>4 DEF Query, Phase
  <2> QED BY <2>1, PhaseShrinks
<1>5. ASSUME NEW ref \in DOMAIN files, AlreadyVisited(ref) PROVE Below(Remaining', Remaining)
  <2>1. pc = "query" /\ pc' = pc /\ Looks(ref) /\ Continue /\ files' = files /\ visited' = visited
    BY <1>5 DEF AlreadyVisited
  <2>2. Unmet' = Unmet
    BY <2>1 DEF Unmet
  <2> QED BY <2>1, <2>2, LoopShrinks
<1>6. ASSUME NEW ref \in DOMAIN files, Visit(ref) PROVE Below(Remaining', Remaining)
  <2>1. pc = "query" /\ pc' = pc /\ ref \notin visited /\ files' = files /\ visited' = visited \cup {ref}
    BY <1>6 DEF Visit
  <2>2. ref \in Unmet /\ Unmet' = Unmet \ {ref}
    BY <2>1 DEF Unmet
  <2> QED BY <2>1, <2>2, UnmetShrinks
<1>7. CASE CreateProfileCache
  <2>1. Phase' < Phase
    BY <1>7 DEF CreateProfileCache, Phase
  <2> QED BY <2>1, PhaseShrinks
<1> QED BY <1>1, <1>2, <1>3, <1>4, <1>5, <1>6, <1>7, ReturnShrinks DEF Next

(* However the files import each other, every step of loading them, and of  *)
(* collecting what a profile sees, lowers Remaining, a tuple of numbers, in *)
(* lexicographic order: by BelowIsWellFounded they take finitely many steps. *)
THEOREM LoadShrinks ==
  Spec => [](Remaining \in [1 .. 4 -> Nat]) /\ [][Below(Remaining', Remaining)]_vars
<1>1. IInv /\ [Next]_vars => [Below(Remaining', Remaining)]_vars
  BY StepShrinks
<1> QED BY <1>1, Inductive, RemainingTyped, PTL DEF Spec
=============================================================================
