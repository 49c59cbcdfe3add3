----------------------------- MODULE ConfigCache -----------------------------
(***************************************************************************)
(* The configuration cache shared by the two front ends.  A front end that *)
(* starts reads cache.bin and adopts it unless a source file is newer,     *)
(* missing or new; otherwise it loads the configuration files and writes   *)
(* cache.bin, which truncates it first.                                    *)
(*                                                                         *)
(* The content of a file is a version; what is loaded from the files is    *)
(* the function from the loaded files to their versions.  A file has three *)
(* kinds: a profile (config/), a match file the profiles' include patterns *)
(* find, and a private match file (_x.yml), reached by imports only.       *)
(***************************************************************************)
EXTENDS Naturals, FiniteSets

CONSTANTS
  Procs,           \* the front ends of the user
  Profiles,        \* the files of the config directory
  DefaultProfile,  \* default.yml
  Globbed,         \* match files the include patterns match
  Private,         \* match files only imports reach
  Imports,         \* the imports of each match file
  Versions,        \* contents of a file
  Broken,          \* the contents that do not parse
  MaxTime,         \* bound on the clock: every write of a file takes a tick
  Overlap,         \* a front end may start while another one starts or saves
  EditWhileBusy,   \* the user may edit while a front end starts or saves
  ImportsChange,   \* private files may be created, removed or broken
  Torn, None

Matches == Globbed \cup Private
Files == Profiles \cup Matches

ASSUME FilesAssumption ==
  /\ IsFiniteSet(Files)
  /\ DefaultProfile \in Profiles
  /\ Profiles \cap Matches = {} /\ Globbed \cap Private = {}
  /\ Imports \in [Matches -> SUBSET Matches]
  /\ Broken \subseteq Versions
ASSUME BoundAssumption ==
  MaxTime \in Nat /\ {Overlap, EditWhileBusy, ImportsChange} \subseteq BOOLEAN

Times == 0 .. MaxTime
Sources == [ver : Versions, mtime : Times]
Configs == UNION {[F -> Versions] : F \in SUBSET Files}

ASSUME NoneAssumption == None \notin Sources
ASSUME TornAssumption == Torn \notin Configs

VARIABLES
  disk,    \* the configuration files
  cache,   \* cache.bin
  now,     \* the time of the last write of a file
  pc,      \* where each front end is
  bytes,   \* the bytes of the cache a front end has read
  cmtime,  \* the modification time it has taken for the cache
  config   \* the configuration it has

vars == <<disk, cache, now, pc, bytes, cmtime, config>>

Init ==
  /\ \E v \in Versions \ Broken : disk = [f \in Files |-> [ver |-> v, mtime |-> 0]]
  /\ cache = None
  /\ now = 0
  /\ pc = [p \in Procs |-> "off"]
  /\ bytes = [p \in Procs |-> None]
  /\ cmtime = [p \in Procs |-> 0]
  /\ config = [p \in Procs |-> None]

-----------------------------------------------------------------------------
(* What load_config makes of the files d *)

Present(d, f) == d[f] # None
Parses(d, f) == Present(d, f) /\ d[f].ver \notin Broken

(* The match files loaded: those the patterns find, and their imports.  One *)
(* that does not parse, and an import that is missing, is left out.         *)
LoadedMatches(d) ==
  {f \in Matches : \A S \in SUBSET Matches :
     /\ \A g \in Globbed : Parses(d, g) => g \in S
     /\ \A g \in S : \A h \in Imports[g] : Parses(d, h) => h \in S
     => f \in S}

load_config(d) ==
  LET sources == {f \in Profiles : Parses(d, f)} \cup LoadedMatches(d)
  IN [f \in sources |-> d[f].ver]

(* The modification times are not compared. *)
BugIgnoreTimes(b, time, d) ==
  /\ b # Torn
  /\ \A f \in DOMAIN b : Present(d, f)
  /\ \A f \in Profiles \cup Globbed : Present(d, f) => f \in DOMAIN b

(* Imported files are looked for among the files the patterns find. *)
BugImportsAreNew(b, time, d) ==
  /\ b # Torn
  /\ \A f \in DOMAIN b : Present(d, f) /\ d[f].mtime <= time
  /\ \A f \in Profiles \cup Globbed : Present(d, f) => f \in DOMAIN b
  /\ DOMAIN b \subseteq Profiles \cup Globbed

(* load_cache accepts the bytes b, taken to be written at `time`: the byte *)
(* check, the modification times, new profiles, new match files.           *)
CacheValid(b, time, d) ==
  /\ b # Torn
  /\ \A f \in DOMAIN b : Present(d, f) /\ d[f].mtime <= time
  /\ \A f \in Profiles : Present(d, f) => f \in DOMAIN b
  /\ \A f \in Globbed : Present(d, f) => f \in DOMAIN b

-----------------------------------------------------------------------------
(* A front end *)

Busy == {"read", "stat", "check", "load", "truncate", "write"}
Quiet(P) == \A p \in P : pc[p] \notin Busy

Goto(p, to) == pc' = [pc EXCEPT ![p] = to]

Start(p) ==
  /\ pc[p] = "off"
  /\ Overlap \/ Quiet(Procs)
  /\ Goto(p, "read")
  /\ UNCHANGED <<disk, cache, now, bytes, cmtime, config>>

(* load_and_mod_time: the bytes first, the modification time after *)
ReadCache(p) ==
  /\ pc[p] = "read"
  /\ IF cache = None
       THEN Goto(p, "load") /\ UNCHANGED bytes
       ELSE Goto(p, "stat") /\ bytes' = [bytes EXCEPT ![p] = cache.content]
  /\ UNCHANGED <<disk, cache, now, cmtime, config>>

StatCache(p) ==
  /\ pc[p] = "stat"
  /\ cmtime' = [cmtime EXCEPT ![p] = cache.mtime]
  /\ Goto(p, "check")
  /\ UNCHANGED <<disk, cache, now, bytes, config>>

CheckCache(p) ==
  /\ pc[p] = "check"
  /\ IF CacheValid(bytes[p], cmtime[p], disk)
       THEN Goto(p, "up") /\ config' = [config EXCEPT ![p] = bytes[p]]
       ELSE Goto(p, "load") /\ UNCHANGED config
  /\ bytes' = [bytes EXCEPT ![p] = None]
  /\ cmtime' = [cmtime EXCEPT ![p] = 0]
  /\ UNCHANGED <<disk, cache, now>>

(* Without a default profile that parses, the front end panics. *)
LoadConfig(p) ==
  /\ pc[p] = "load"
  /\ IF Parses(disk, DefaultProfile)
       THEN Goto(p, "truncate") /\ config' = [config EXCEPT ![p] = load_config(disk)]
       ELSE Goto(p, "off") /\ UNCHANGED config
  /\ UNCHANGED <<disk, cache, now, bytes, cmtime>>

Tick == now < MaxTime /\ now' = now + 1

(* fs::write opens the file with truncation and then writes the bytes. *)
TruncateCache(p) ==
  /\ pc[p] = "truncate"
  /\ Tick
  /\ cache' = [content |-> Torn, mtime |-> now']
  /\ Goto(p, "write")
  /\ UNCHANGED <<disk, bytes, cmtime, config>>

(* What was read is written back, not what was loaded. *)
BugWriteBack(p) == {bytes[p]}

(* Over the bytes of another front end that has written since the file was *)
(* truncated, a shorter archive leaves a tail and the byte check fails.    *)
Written(p) == {config[p]} \cup IF cache.content \in {Torn, config[p]} THEN {} ELSE {Torn}

WriteCache(p) ==
  /\ pc[p] = "write"
  /\ Tick
  /\ \E content \in Written(p) : cache' = [content |-> content, mtime |-> now']
  /\ Goto(p, "up")
  /\ UNCHANGED <<disk, bytes, cmtime, config>>

(* A failed write is logged, and the front end goes on. *)
SaveFails(p) ==
  /\ pc[p] \in {"truncate", "write"}
  /\ Goto(p, "up")
  /\ UNCHANGED <<disk, cache, now, bytes, cmtime, config>>

(* It quits, or is killed at any point. *)
Stop(p) ==
  /\ pc[p] # "off"
  /\ Goto(p, "off")
  /\ bytes' = [bytes EXCEPT ![p] = None]
  /\ cmtime' = [cmtime EXCEPT ![p] = 0]
  /\ config' = [config EXCEPT ![p] = None]
  /\ UNCHANGED <<disk, cache, now>>

-----------------------------------------------------------------------------
(* The user *)

MayEdit(f) ==
  /\ EditWhileBusy \/ Quiet(Procs)
  /\ f \in Private => ImportsChange \/ Parses(disk, f)

Edit(f, v) ==
  /\ MayEdit(f)
  /\ f \in Private /\ v \in Broken => ImportsChange
  /\ disk[f] # None => disk[f].ver # v
  /\ Tick
  /\ disk' = [disk EXCEPT ![f] = [ver |-> v, mtime |-> now']]
  /\ UNCHANGED <<cache, pc, bytes, cmtime, config>>

Remove(f) ==
  /\ MayEdit(f)
  /\ f \in Private => ImportsChange
  /\ disk[f] # None
  /\ disk' = [disk EXCEPT ![f] = None]
  /\ UNCHANGED <<cache, now, pc, bytes, cmtime, config>>

-----------------------------------------------------------------------------

Proceed(p) ==
  \/ ReadCache(p) \/ StatCache(p) \/ CheckCache(p) \/ LoadConfig(p)
  \/ TruncateCache(p) \/ WriteCache(p) \/ SaveFails(p)

Next ==
  \/ \E p \in Procs : Start(p) \/ Proceed(p) \/ Stop(p)
  \/ \E f \in Files : Remove(f) \/ \E v \in Versions : Edit(f, v)

Spec == Init /\ [][Next]_vars

-----------------------------------------------------------------------------
(* Properties *)

(* Every variable has its type. *)
TypeOK ==
  /\ disk \in [Files -> Sources \cup {None}]
  /\ cache = None \/ (cache.content \in Configs \cup {Torn} /\ cache.mtime \in Times)
  /\ now \in Times
  /\ pc \in [Procs -> Busy \cup {"off", "up"}]
  /\ bytes \in [Procs -> Configs \cup {Torn, None}]
  /\ cmtime \in [Procs -> Times]
  /\ config \in [Procs -> Configs \cup {None}]

Adopts(p) == pc[p] = "check" /\ pc'[p] = "up"

(* The cache is transparent: a front end that adopts it has exactly the     *)
(* configuration it would have loaded from the files, whatever was edited,  *)
(* added, removed or broken, and whichever save was interrupted, before it  *)
(* started ("Check if cache is stale").                                     *)
Transparent ==
  [][\A p \in Procs : Adopts(p) => config'[p] = load_config(disk)]_vars

(* The cache works: when it holds what the files say, was saved after the   *)
(* last edit, and every profile and match file that is found parses, it is  *)
(* adopted.                                                                 *)
CacheHits ==
  [][\A p \in Procs :
       /\ pc[p] = "check" /\ pc'[p] = "load"
       /\ bytes[p] = load_config(disk)
       /\ \A f \in Files : disk[f] # None => disk[f].mtime <= cmtime[p]
       => \E f \in Profiles \cup Globbed : Present(disk, f) /\ ~Parses(disk, f)]_vars
=============================================================================
