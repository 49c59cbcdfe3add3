-------------------------- MODULE ConfigCacheProofs --------------------------
(***************************************************************************)
(* Proofs about ConfigCache, for any files, imports, contents and number   *)
(* of front ends: when the cache is transparent, and that it is used.      *)
(***************************************************************************)
EXTENDS ConfigCache, TLAPS

Disks == [Files -> Sources \cup {None}]
CacheTyped == cache.content \in Configs \cup {Torn} /\ cache.mtime \in Times

(* A front end that has read the cache has its bytes, and one that writes it *)
(* has a configuration.                                                      *)
TypeInv ==
  /\ TypeOK
  /\ \A p \in Procs :
       /\ pc[p] \in {"stat", "check"} => CacheTyped /\ bytes[p] \in Configs \cup {Torn}
       /\ pc[p] \in {"truncate", "write"} => config[p] \in Configs

(* Since the files were those of old, a file that has changed is gone or was *)
(* written after time.                                                       *)
Since(old, time) ==
  \A f \in Files : disk[f] = old[f] \/ disk[f] = None \/ disk[f].mtime > time

(* b is what was loaded from files that have not changed up to time. *)
Saved(b, time) ==
  \E old \in Disks :
    /\ b = load_config(old)
    /\ \A f \in Private : Parses(old, f)
    /\ Since(old, time)

(* Without overlapping starts, and edits and private files kept apart *)
QuietInv ==
  /\ \A p, q \in Procs : pc[p] \in Busy /\ pc[q] \in Busy => p = q
  /\ \A f \in Private : Parses(disk, f)
  /\ cache = None \/ (/\ cache.mtime <= now
                      /\ cache.content = Torn \/ Saved(cache.content, cache.mtime))
  /\ \A p \in Procs :
       /\ pc[p] \in {"stat", "check"} => cache # None /\ bytes[p] = cache.content
       /\ pc[p] = "check" => cmtime[p] = cache.mtime
       /\ pc[p] \in {"truncate", "write"} => config[p] = load_config(disk)

-----------------------------------------------------------------------------
(* What is loaded *)

(* LoadedMatches is the least set of match files that parse which has those *)
(* that are found and is closed under imports.                              *)
LEMMA LoadedFacts ==
  ASSUME NEW d
  PROVE  LET R == LoadedMatches(d)
         IN  /\ R \subseteq Matches
             /\ \A f \in R : Parses(d, f)
             /\ \A f \in Globbed : Parses(d, f) => f \in R
             /\ \A g \in R : \A f \in Imports[g] : Parses(d, f) => f \in R
             /\ \A S \in SUBSET Matches :
                  /\ \A g \in Globbed : Parses(d, g) => g \in S
                  /\ \A g \in S : \A h \in Imports[g] : Parses(d, h) => h \in S
                  => R \subseteq S
<1> DEFINE R == LoadedMatches(d)
           Closed(S) == /\ \A g \in Globbed : Parses(d, g) => g \in S
                        /\ \A g \in S : \A h \in Imports[g] : Parses(d, h) => h \in S
<1>1. R = {f \in Matches : \A S \in SUBSET Matches : Closed(S) => f \in S}
  BY DEF LoadedMatches
<1>2. \A g \in Matches : Imports[g] \subseteq Matches
  BY FilesAssumption
<1> HIDE DEF R
<1>3. R \subseteq Matches /\ \A S \in SUBSET Matches : Closed(S) => R \subseteq S
  BY <1>1
<1>4. \A f \in Globbed : Parses(d, f) => f \in R
  BY <1>1 DEF Matches
<1>5. \A g \in R : \A f \in Imports[g] : Parses(d, f) => f \in R
  BY <1>1, <1>2
<1>6. \A f \in R : Parses(d, f)
  <2> DEFINE P == {f \in Matches : Parses(d, f)}
  <2>1. Closed(P)
    BY <1>2 DEF Matches
  <2> HIDE DEF Closed
  <2> QED BY <1>3, <2>1
<1> QED BY <1>3, <1>4, <1>5, <1>6 DEF R

LEMMA ConfigFacts ==
  ASSUME NEW d \in Disks
  PROVE  /\ load_config(d) \in Configs
         /\ DOMAIN load_config(d) = {f \in Profiles : Parses(d, f)} \cup LoadedMatches(d)
         /\ \A f \in DOMAIN load_config(d) :
              f \in Files /\ Parses(d, f) /\ load_config(d)[f] = d[f].ver
<1> DEFINE sources == {f \in Profiles : Parses(d, f)} \cup LoadedMatches(d)
<1>1. load_config(d) = [f \in sources |-> d[f].ver]
  BY DEF load_config
<1>2. sources \subseteq Files /\ \A f \in sources : Parses(d, f)
  BY LoadedFacts DEF Files
<1>3. \A f \in sources : d[f].ver \in Versions
  <2>1. \A f \in sources : d[f] \in Sources
    BY <1>2 DEF Parses, Present, Disks
  <2> QED BY <2>1 DEF Sources
<1> HIDE DEF sources
<1>4. load_config(d) \in [sources -> Versions]
  BY <1>1, <1>3
<1>5. load_config(d) \in Configs
  BY <1>2, <1>4 DEF Configs
<1> QED BY <1>1, <1>2, <1>5 DEF sources

-----------------------------------------------------------------------------
(* Types *)

LEMMA Typed == Spec => []TypeInv
<1>1. Init => TypeInv
  <2> SUFFICES ASSUME Init PROVE TypeInv
    OBVIOUS
  <2>1. disk \in [Files -> Sources \cup {None}]
    BY BoundAssumption DEF Init, Sources, Times
  <2>2. 0 \in Times
    BY BoundAssumption DEF Times
  <2> QED BY <2>1, <2>2 DEF Init, TypeInv, TypeOK, CacheTyped, Busy
<1>2. TypeInv /\ [Next]_vars => TypeInv'
  <2> SUFFICES ASSUME TypeInv, [Next]_vars PROVE TypeInv'
    OBVIOUS
  <2> USE DEF TypeInv, TypeOK, Goto
  <2>1. Tick => now' \in Times /\ now' = now + 1
    BY BoundAssumption DEF Tick, Times
  <2>2. 0 \in Times
    BY BoundAssumption DEF Times
  <2>3. ASSUME NEW p \in Procs, Start(p) PROVE TypeInv'
    BY <2>3 DEF Start, Busy, CacheTyped
  <2>4. ASSUME NEW p \in Procs, ReadCache(p) PROVE TypeInv'
    <3>1. CASE cache = None
      BY <2>4, <3>1 DEF ReadCache, Busy, CacheTyped
    <3>2. CASE cache # None
      BY <2>4, <3>2 DEF ReadCache, Busy, CacheTyped
    <3> QED BY <3>1, <3>2
  <2>5. ASSUME NEW p \in Procs, StatCache(p) PROVE TypeInv'
    BY <2>5 DEF StatCache, Busy, CacheTyped
  <2>6. ASSUME NEW p \in Procs, CheckCache(p) PROVE TypeInv'
    <3>1. bytes[p] \in Configs \cup {Torn}
      BY <2>6 DEF CheckCache
    <3>2. CASE CacheValid(bytes[p], cmtime[p], disk)
      <4>1. bytes[p] \in Configs
        BY <3>1, <3>2 DEF CacheValid
      <4> QED BY <2>2, <2>6, <3>2, <4>1 DEF CheckCache, Busy, CacheTyped
    <3>3. CASE ~CacheValid(bytes[p], cmtime[p], disk)
      BY <2>2, <2>6, <3>3 DEF CheckCache, Busy, CacheTyped
    <3> QED BY <3>2, <3>3
  <2>7. ASSUME NEW p \in Procs, LoadConfig(p) PROVE TypeInv'
    <3>1. load_config(disk) \in Configs
      BY ConfigFacts DEF Disks
    <3>2. CASE Parses(disk, DefaultProfile)
      BY <2>7, <3>1, <3>2 DEF LoadConfig, Busy, CacheTyped
    <3>3. CASE ~Parses(disk, DefaultProfile)
      BY <2>7, <3>3 DEF LoadConfig, Busy, CacheTyped
    <3> QED BY <3>2, <3>3
  <2>8. ASSUME NEW p \in Procs, TruncateCache(p) PROVE TypeInv'
    <3>1. CacheTyped'
      BY <2>1, <2>8 DEF TruncateCache, CacheTyped
    <3> QED BY <2>1, <2>8, <3>1 DEF TruncateCache, Busy, CacheTyped
  <2>9. ASSUME NEW p \in Procs, WriteCache(p) PROVE TypeInv'
    <3>1. CacheTyped'
      BY <2>1, <2>9 DEF WriteCache, Written, CacheTyped
    <3> QED BY <2>1, <2>9, <3>1 DEF WriteCache, Busy, CacheTyped
  <2>10. ASSUME NEW p \in Procs, SaveFails(p) PROVE TypeInv'
    BY <2>10 DEF SaveFails, Busy, CacheTyped
  <2>11. ASSUME NEW p \in Procs, Stop(p) PROVE TypeInv'
    BY <2>2, <2>11 DEF Stop, Busy, CacheTyped
  <2>12. ASSUME NEW f \in Files, NEW v \in Versions, Edit(f, v) PROVE TypeInv'
    <3>1. [ver |-> v, mtime |-> now'] \in Sources
      BY <2>1, <2>12 DEF Edit, Sources
    <3> QED BY <2>1, <2>12, <3>1 DEF Edit, CacheTyped
  <2>13. ASSUME NEW f \in Files, Remove(f) PROVE TypeInv'
    BY <2>13 DEF Remove, CacheTyped
  <2>14. ASSUME UNCHANGED vars PROVE TypeInv'
    BY <2>14 DEF vars, CacheTyped
  <2> QED BY <2>3, <2>4, <2>5, <2>6, <2>7, <2>8, <2>9, <2>10, <2>11, <2>12, <2>13, <2>14
          DEF Next, Proceed
<1> QED BY <1>1, <1>2, PTL DEF Spec

(* Every variable has its type, whatever runs at the same time. *)
THEOREM TypeCorrect == Spec => []TypeOK
<1>1. TypeInv => TypeOK
  BY DEF TypeInv
<1> QED BY Typed, <1>1, PTL

(* The cache works: one that holds what the files say and is newer than all *)
(* of them is turned down only because a file that is found does not parse. *)
THEOREM CacheIsUsed == Spec => CacheHits
<1> DEFINE Hit(p) ==
             /\ pc[p] = "check" /\ pc'[p] = "load"
             /\ bytes[p] = load_config(disk)
             /\ \A f \in Files : disk[f] # None => disk[f].mtime <= cmtime[p]
             => \E f \in Profiles \cup Globbed : Present(disk, f) /\ ~Parses(disk, f)
<1>1. TypeInv /\ [Next]_vars => [\A p \in Procs : Hit(p)]_vars
  <2> SUFFICES ASSUME TypeInv, Next, NEW p \in Procs,
                      pc[p] = "check", pc'[p] = "load", bytes[p] = load_config(disk),
                      \A f \in Files : disk[f] # None => disk[f].mtime <= cmtime[p]
               PROVE  \E f \in Profiles \cup Globbed : Present(disk, f) /\ ~Parses(disk, f)
    OBVIOUS
  <2>1. CheckCache(p)
    BY DEF Next, Proceed, Start, ReadCache, StatCache, CheckCache, LoadConfig, TruncateCache,
           WriteCache, SaveFails, Stop, Edit, Remove, Goto, TypeInv, TypeOK
  <2>2. ~CacheValid(bytes[p], cmtime[p], disk)
    BY <2>1 DEF CheckCache, Goto, TypeInv, TypeOK
  <2>3. /\ bytes[p] \in Configs
        /\ DOMAIN bytes[p] = {f \in Profiles : Parses(disk, f)} \cup LoadedMatches(disk)
        /\ \A f \in DOMAIN bytes[p] : f \in Files /\ Parses(disk, f)
    BY ConfigFacts DEF TypeInv, TypeOK, Disks
  <2>4. bytes[p] # Torn
    BY <2>3, TornAssumption
  <2>5. \A f \in DOMAIN bytes[p] : Present(disk, f) /\ disk[f].mtime <= cmtime[p]
    BY <2>3 DEF Parses, Present
  <2>6. \E f \in Profiles \cup Globbed : Present(disk, f) /\ f \notin DOMAIN bytes[p]
    BY <2>2, <2>4, <2>5 DEF CacheValid
  <2> QED BY <2>3, <2>6, LoadedFacts
<1> QED BY Typed, <1>1, PTL DEF Spec, CacheHits

-----------------------------------------------------------------------------
(* Transparency *)

(* What was loaded before and has not changed is what would be loaded now,  *)
(* when no file the profiles or the patterns find is new.                   *)
LEMMA SavedIsCurrent ==
  ASSUME NEW b, NEW time, disk \in Disks, Saved(b, time), CacheValid(b, time, disk),
         \A f \in Private : Parses(disk, f),
         \A f \in Files : disk[f] # None => disk[f].mtime \in Times,
         time \in Times
  PROVE  b = load_config(disk)
<1>1. PICK old \in Disks :
        /\ b = load_config(old)
        /\ \A f \in Private : Parses(old, f)
        /\ Since(old, time)
  BY DEF Saved
<1> DEFINE L == LoadedMatches(old)
           M == LoadedMatches(disk)
<1>2. /\ DOMAIN b = {f \in Profiles : Parses(old, f)} \cup L
      /\ DOMAIN load_config(disk) = {f \in Profiles : Parses(disk, f)} \cup M
      /\ \A f \in DOMAIN b : f \in Files /\ Parses(old, f)
  BY <1>1, ConfigFacts
<1>3. \A f \in DOMAIN b : disk[f] = old[f] /\ Parses(disk, f)
  <2> SUFFICES ASSUME NEW f \in DOMAIN b PROVE disk[f] = old[f] /\ Parses(disk, f)
    OBVIOUS
  <2>1. f \in Files /\ disk[f] # None /\ disk[f].mtime <= time /\ Parses(old, f)
    BY <1>2 DEF CacheValid, Present
  <2>2. ~(disk[f].mtime > time)
    BY <2>1, BoundAssumption DEF Times
  <2> QED BY <1>1, <2>1, <2>2 DEF Since, Parses, Present
<1>4. \A f \in Profiles \cup Globbed : Parses(disk, f) => f \in DOMAIN b
  BY DEF CacheValid, Parses
<1>5. /\ L \subseteq Matches /\ M \subseteq Matches
      /\ L \cap Profiles = {}
  BY LoadedFacts, FilesAssumption
<1>6. M \subseteq L
  <2>1. \A g \in Globbed : Parses(disk, g) => g \in L
    BY <1>2, <1>4, FilesAssumption DEF Matches
  <2>2. ASSUME NEW g \in L, NEW h \in Imports[g], Parses(disk, h) PROVE h \in L
    <3>1. h \in Globbed \cup Private
      BY <1>5, FilesAssumption DEF Matches
    <3>2. CASE h \in Globbed
      BY <2>1, <2>2, <3>2
    <3>3. CASE h \in Private
      BY <1>1, <3>3, LoadedFacts
    <3> QED BY <3>1, <3>2, <3>3
  <2>3. /\ \A g \in Globbed : Parses(disk, g) => g \in L
        /\ \A g \in L : \A h \in Imports[g] : Parses(disk, h) => h \in L
    BY <2>1, <2>2
  <2> HIDE DEF L
  <2> QED BY <1>5, <2>3, LoadedFacts
<1>7. L \subseteq M
  <2> DEFINE S == L \cap M
  <2>1. ASSUME NEW g \in Globbed, Parses(old, g) PROVE g \in S
    <3>1. g \in L
      BY <2>1, LoadedFacts
    <3> QED BY <1>2, <1>3, <3>1, LoadedFacts
  <2>2. ASSUME NEW g \in S, NEW h \in Imports[g], Parses(old, h) PROVE h \in S
    <3>1. h \in L
      BY <2>2, LoadedFacts
    <3> QED BY <1>2, <1>3, <3>1, LoadedFacts
  <2>3. S \subseteq Matches
    BY <1>5
  <2> HIDE DEF S
  <2>4. L \subseteq S
    BY <2>1, <2>2, <2>3, LoadedFacts
  <2> QED BY <2>4 DEF S
<1>8. {f \in Profiles : Parses(disk, f)} = {f \in Profiles : Parses(old, f)}
  BY <1>2, <1>3, <1>4, <1>5
<1>9. /\ load_config(old) = [f \in DOMAIN b |-> old[f].ver]
      /\ load_config(disk) = [f \in DOMAIN b |-> disk[f].ver]
  BY <1>2, <1>6, <1>7, <1>8 DEF load_config
<1> QED BY <1>1, <1>3, <1>9

LEMMA QuietStays ==
  ASSUME ~Overlap, ~EditWhileBusy, ~ImportsChange
  PROVE  Spec => []QuietInv
<1>1. Init => QuietInv
  <2> SUFFICES ASSUME Init PROVE QuietInv
    OBVIOUS
  <2>1. ASSUME NEW f \in Private PROVE Parses(disk, f)
    <3>1. PICK v \in Versions \ Broken : disk = [g \in Files |-> [ver |-> v, mtime |-> 0]]
      BY DEF Init
    <3>2. disk[f].ver = v /\ disk[f] \in Sources
      BY <3>1, BoundAssumption DEF Files, Matches, Sources, Times
    <3> QED BY <3>2, NoneAssumption DEF Parses, Present
  <2> QED BY <2>1 DEF Init, QuietInv, Busy
<1>2. TypeInv /\ QuietInv /\ [Next]_vars => QuietInv'
  <2> SUFFICES ASSUME TypeInv, QuietInv, [Next]_vars PROVE QuietInv'
    OBVIOUS
  <2> USE DEF Goto
  <2>1. /\ disk \in Disks /\ pc \in [Procs -> Busy \cup {"off", "up"}]
        /\ bytes \in [Procs -> Configs \cup {Torn, None}] /\ cmtime \in [Procs -> Times]
        /\ config \in [Procs -> Configs \cup {None}] /\ now \in Times
    BY DEF TypeInv, TypeOK, Disks
  <2>2. Tick => now' = now + 1 /\ now \in Nat
    BY <2>1, BoundAssumption DEF Tick, Times
  <2>3. ASSUME NEW b, NEW time, disk' = disk, Saved(b, time) PROVE Saved(b, time)'
    BY <2>3 DEF Saved, Since
  <2>4. UNCHANGED <<disk, cache>> =>
          /\ \A f \in Private : Parses(disk, f)'
          /\ cache = None \/ cache.content = Torn \/ Saved(cache.content, cache.mtime)'
    BY <2>3 DEF QuietInv, Parses, Present
  <2>5. ASSUME NEW p \in Procs, Start(p) PROVE QuietInv'
    <3>1. \A q \in Procs : pc[q] \notin Busy
      BY <2>5 DEF Start, Quiet
    <3> QED BY <2>1, <2>4, <2>5, <3>1 DEF Start, QuietInv, Busy
  <2>6. ASSUME NEW p \in Procs, ReadCache(p) PROVE QuietInv'
    <3>1. CASE cache = None
      BY <2>1, <2>4, <2>6, <3>1 DEF ReadCache, QuietInv, Busy
    <3>2. CASE cache # None
      BY <2>1, <2>4, <2>6, <3>2 DEF ReadCache, QuietInv, Busy
    <3> QED BY <3>1, <3>2
  <2>7. ASSUME NEW p \in Procs, StatCache(p) PROVE QuietInv'
    BY <2>1, <2>4, <2>7 DEF StatCache, QuietInv, Busy
  <2>8. ASSUME NEW p \in Procs, CheckCache(p) PROVE QuietInv'
    <3>1. CASE CacheValid(bytes[p], cmtime[p], disk)
      BY <2>1, <2>4, <2>8, <3>1 DEF CheckCache, QuietInv, Busy
    <3>2. CASE ~CacheValid(bytes[p], cmtime[p], disk)
      BY <2>1, <2>4, <2>8, <3>2 DEF CheckCache, QuietInv, Busy
    <3> QED BY <3>1, <3>2
  <2>9. ASSUME NEW p \in Procs, LoadConfig(p) PROVE QuietInv'
    <3>1. CASE Parses(disk, DefaultProfile)
      BY <2>1, <2>4, <2>9, <3>1 DEF LoadConfig, QuietInv, Busy
    <3>2. CASE ~Parses(disk, DefaultProfile)
      BY <2>1, <2>4, <2>9, <3>2 DEF LoadConfig, QuietInv, Busy
    <3> QED BY <3>1, <3>2
  <2>10. ASSUME NEW p \in Procs, TruncateCache(p) PROVE QuietInv'
    BY <2>1, <2>2, <2>10 DEF TruncateCache, QuietInv, Busy, Parses, Present
  <2>11. ASSUME NEW p \in Procs, WriteCache(p) PROVE QuietInv'
    <3>1. PICK content \in Written(p) : cache' = [content |-> content, mtime |-> now']
      BY <2>11 DEF WriteCache
    <3>2. content = Torn \/ content = load_config(disk)
      BY <2>11 DEF WriteCache, Written, QuietInv
    <3>3. disk' = disk
      BY <2>11 DEF WriteCache
    <3>4. cache'.content = Torn \/ Saved(cache.content, cache.mtime)'
      <4>1. cache'.content = content /\ cache'.mtime = now'
        BY <3>1
      <4>2. CASE content = Torn
        BY <4>1, <4>2
      <4>3. CASE content = load_config(disk)
        <5>1. \A f \in Files : disk'[f] = disk[f] \/ disk'[f] = None \/ disk'[f].mtime > cache'.mtime
          BY <3>3
        <5>2. \E old \in Disks :
                /\ cache'.content = load_config(old)
                /\ \A f \in Private : Parses(old, f)
                /\ \A f \in Files : disk'[f] = old[f] \/ disk'[f] = None
                                        \/ disk'[f].mtime > cache'.mtime
          BY <2>1, <4>1, <4>3, <5>1 DEF QuietInv
        <5> QED BY <5>2 DEF Saved, Since
      <4> QED BY <3>2, <4>2, <4>3
    <3> QED BY <2>1, <2>2, <2>11, <3>1, <3>4 DEF WriteCache, QuietInv, Busy, Parses, Present
  <2>12. ASSUME NEW p \in Procs, SaveFails(p) PROVE QuietInv'
    BY <2>1, <2>4, <2>12 DEF SaveFails, QuietInv, Busy
  <2>13. ASSUME NEW p \in Procs, Stop(p) PROVE QuietInv'
    BY <2>1, <2>4, <2>12, <2>13 DEF Stop, QuietInv, Busy
  <2>14. ASSUME NEW f \in Files, NEW v \in Versions, Edit(f, v) PROVE QuietInv'
    <3>1. /\ \A q \in Procs : pc[q] \notin Busy
          /\ f \in Private => v \notin Broken
          /\ now' = now + 1 /\ now \in Nat
          /\ UNCHANGED <<cache, pc, bytes, cmtime, config>>
      BY <2>2, <2>14 DEF Edit, MayEdit, Quiet
    <3>2. /\ disk'[f] = [ver |-> v, mtime |-> now']
          /\ \A g \in Files : g # f => disk'[g] = disk[g]
      BY <2>1, <2>14 DEF Edit, Disks
    <3>3. disk'[f] # None
      <4>1. now' \in Times
        BY <2>14, <3>1, BoundAssumption DEF Edit, Tick, Times
      <4> QED BY <3>2, <4>1, NoneAssumption DEF Sources
    <3>4. \A g \in Private : Parses(disk, g)'
      BY <3>1, <3>2, <3>3 DEF QuietInv, Parses, Present, Files, Matches
    <3>5. ASSUME NEW b, NEW time \in Nat, time <= now, Saved(b, time) PROVE Saved(b, time)'
      <4>1. PICK old \in Disks :
              b = load_config(old) /\ (\A g \in Private : Parses(old, g)) /\ Since(old, time)
        BY <3>5 DEF Saved
      <4>2. disk'[f].mtime > time
        BY <3>1, <3>2, <3>5
      <4>3. Since(old, time)'
        BY <3>2, <4>1, <4>2 DEF Since
      <4> QED BY <4>1, <4>3 DEF Saved
    <3>6. cache = None \/ (cache.mtime <= now' /\ (cache.content = Torn \/ Saved(cache.content, cache.mtime)'))
      <4>1. cache # None => cache.mtime \in Nat /\ cache.mtime <= now
        BY BoundAssumption DEF TypeInv, TypeOK, Times, QuietInv
      <4> QED BY <3>1, <3>5, <4>1 DEF QuietInv
    <3> QED BY <3>1, <3>4, <3>6 DEF QuietInv, Busy
  <2>15. ASSUME NEW f \in Files, Remove(f) PROVE QuietInv'
    <3>1. /\ \A q \in Procs : pc[q] \notin Busy
          /\ f \notin Private /\ now' = now
          /\ UNCHANGED <<cache, pc, bytes, cmtime, config>>
      BY <2>15 DEF Remove, MayEdit, Quiet
    <3>2. disk'[f] = None /\ \A g \in Files : g # f => disk'[g] = disk[g]
      BY <2>1, <2>15 DEF Remove, Disks
    <3>3. \A g \in Private : Parses(disk, g)'
      BY <3>1, <3>2 DEF QuietInv, Parses, Present, Files, Matches
    <3>4. ASSUME NEW b, NEW time, Saved(b, time) PROVE Saved(b, time)'
      BY <3>2, <3>4 DEF Saved, Since
    <3> QED BY <3>1, <3>3, <3>4 DEF QuietInv, Busy
  <2>16. ASSUME UNCHANGED vars PROVE QuietInv'
    BY <2>4, <2>16 DEF vars, QuietInv
  <2> QED BY <2>5, <2>6, <2>7, <2>8, <2>9, <2>10, <2>11, <2>12, <2>13, <2>14, <2>15, <2>16
          DEF Next, Proceed
<1> QED BY <1>1, <1>2, Typed, PTL DEF Spec

(* As long as starts do not overlap, nothing is edited while a front end     *)
(* starts, and the files that only imports reach stay and parse, a front end *)
(* that adopts the cache has the configuration it would have loaded.  The    *)
(* runs show that none of the three can be left out, or what is lost then.   *)
THEOREM CacheIsTransparent ==
  ASSUME ~Overlap, ~EditWhileBusy, ~ImportsChange
  PROVE  Spec => Transparent
<1>1. TypeInv /\ QuietInv /\ [Next]_vars
        => [\A p \in Procs : Adopts(p) => config'[p] = load_config(disk)]_vars
  <2> SUFFICES ASSUME TypeInv, QuietInv, Next, NEW p \in Procs, Adopts(p)
               PROVE  config'[p] = load_config(disk)
    OBVIOUS
  <2>1. CheckCache(p)
    BY DEF Next, Proceed, Start, ReadCache, StatCache, CheckCache, LoadConfig, TruncateCache,
           WriteCache, SaveFails, Stop, Edit, Remove, Goto, TypeInv, TypeOK, Adopts
  <2>2. CacheValid(bytes[p], cmtime[p], disk) /\ config'[p] = bytes[p]
    BY <2>1 DEF CheckCache, Goto, TypeInv, TypeOK, Adopts
  <2>3. /\ bytes[p] # Torn /\ cache # None
        /\ bytes[p] = cache.content /\ cmtime[p] = cache.mtime
    BY <2>2 DEF Adopts, QuietInv, CacheValid
  <2>4. Saved(bytes[p], cmtime[p])
    BY <2>3 DEF QuietInv
  <2>5. /\ disk \in Disks /\ cmtime[p] \in Times
        /\ \A f \in Files : disk[f] # None => disk[f].mtime \in Times
    BY DEF TypeInv, TypeOK, Disks, Sources
  <2> QED BY <2>2, <2>4, <2>5, SavedIsCurrent DEF QuietInv
<1> QED BY Typed, QuietStays, <1>1, PTL DEF Spec, Transparent
=============================================================================
