------------------------------ MODULE MatchStore ------------------------------
(***************************************************************************)
(* Loading the match files: from the files the profiles' patterns find, a  *)
(* depth-first walk over the imports fills a store of files and a map from *)
(* paths to indices; the imports and the profiles' files are then turned   *)
(* into indices, a query collects what one profile sees, and its           *)
(* definitions are put in the maps that a typed text is looked up in.      *)
(*                                                                         *)
(* A file is its imports and its definitions, and may fail to load; a      *)
(* definition is its file and its position there.  Indices start from 1.   *)
(***************************************************************************)
EXTENDS MatchLoader

CONSTANTS
  Paths,      \* canonical paths of match files
  Profiles,   \* the default profile and the custom ones
  MaxFound,   \* bound on the files the patterns of a profile find
  MaxImports, \* bound on the imports of a file
  Contents,   \* the YAML content of each file, where it can be parsed
  BadRegexes, \* the regexes that do not compile
  None

ASSUME PathsAssumption == IsFiniteSet(Paths)
ASSUME BoundAssumption == MaxFound \in Nat /\ MaxImports \in Nat
ASSUME ContentsAssumption ==
  \A p \in Paths :
    LET vars_of_p == Contents[p].global_vars
        matches == Contents[p].matches
    IN /\ vars_of_p \in Seq(ToSet(vars_of_p)) /\ matches \in Seq(ToSet(matches))
       /\ \A v \in ToSet(vars_of_p) : v.var_type \in STRING /\ v.params \in ParamKinds
       /\ \A m \in ToSet(matches) : Has(m, "triggers") => m.triggers \in Seq(ToSet(m.triggers))
ASSUME NoneAssumption == None \notin Profiles

VARIABLES
  import_paths,      \* the existing files each file imports
  broken,            \* the files that fail to load
  match_file_paths,  \* the files the patterns of each profile find
  pc,                \* "load", "resolve", "ready", "query", "collected" or "done"
  frames,            \* the loops of the recursive calls: what each has left
  files,             \* FileStore
  match_file_map,    \* from paths to indices of files
  errors,            \* the paths of the non-fatal error sets
  profile_refs,      \* ProfileFile.match_file_paths
  queried,           \* the profile collect_matches_and_global_vars is for
  visited,           \* visited_paths
  collected,         \* the files whose content was collected, in order
  cache              \* ProfileCache

world == <<import_paths, broken, match_file_paths>>
store == <<files, match_file_map, errors>>
query == <<queried, visited, collected>>
vars == <<world, pc, frames, store, profile_refs, query, cache>>

(* The definitions of each file *)
Loaded == [p \in Paths |-> load_file(Contents[p])]

get_all_match_file_paths == UNION {match_file_paths[p] : p \in Profiles}

Init ==
  /\ import_paths \in [Paths -> BoundedSeq(Paths, MaxImports)]
  /\ broken \in SUBSET Paths
  /\ match_file_paths \in [Profiles -> {S \in SUBSET Paths : Cardinality(S) <= MaxFound}]
  /\ pc = "load"
  (* the elements of a HashSet in any order *)
  /\ \E roots \in SetToSeqs(get_all_match_file_paths) : frames = <<roots>>
  /\ files = <<>>
  /\ match_file_map = <<>>
  /\ errors = <<>>
  /\ profile_refs = [p \in Profiles |-> <<>>]
  /\ queried = None
  /\ visited = {}
  /\ collected = <<>>
  /\ cache = None

-----------------------------------------------------------------------------
(* The loops of the recursive calls *)

Depth == Len(frames)
Callers == SubSeq(frames, 1, Depth - 1)
Looks(x) == frames # <<>> /\ frames[Depth] # <<>> /\ Head(frames[Depth]) = x

(* Looked at again later instead of never. *)
BugPostpone == Append(Callers, Append(Tail(frames[Depth]), Head(frames[Depth])))

Rest == Append(Callers, Tail(frames[Depth]))
Finished == frames # <<>> /\ frames[Depth] = <<>>

Continue == frames' = Rest
Recurse(items) == frames' = Append(Rest, items)

-----------------------------------------------------------------------------
(* load_match_files_recursively *)

(* The index of the file added before. *)
BugLastRef == Len(files)

NextRef == Len(files) + 1

AlreadyLoaded(p) ==
  /\ pc = "load"
  /\ Looks(p)
  /\ p \in DOMAIN match_file_map
  /\ Continue
  /\ UNCHANGED <<world, pc, store, profile_refs, query, cache>>

Load(p) ==
  /\ pc = "load"
  /\ Looks(p)
  /\ p \notin DOMAIN match_file_map \cup broken
  /\ files' = Append(files, [source_path |-> p, imports |-> import_paths[p]])
  /\ errors' = LET reports == Loaded[p].non_fatal_errors
               IN IF reports = {} THEN errors ELSE Append(errors, [file |-> p, errors |-> reports])
  /\ match_file_map' =
       [q \in {p} \cup DOMAIN match_file_map |-> IF q = p THEN NextRef ELSE match_file_map[q]]
  /\ Recurse(import_paths[p])
  /\ UNCHANGED <<world, pc, profile_refs, query, cache>>

(* NonFatalErrorSet::single_error *)
single_error(p) == [file |-> p, errors |-> {Report("error", "file", 0)}]

(* The error ends the loop it occurs in. *)
BugFailureReturns(p) ==
  /\ pc = "load"
  /\ Looks(p)
  /\ p \in broken \ DOMAIN match_file_map
  /\ errors' = Append(errors, single_error(p))
  /\ frames' = Append(Callers, <<>>)
  /\ UNCHANGED <<world, pc, files, match_file_map, profile_refs, query, cache>>

(* Only the errors of the outermost call are kept. *)
BugInnerErrorsLost(p) ==
  /\ pc = "load"
  /\ Looks(p)
  /\ p \in broken \ DOMAIN match_file_map
  /\ errors' = IF Depth = 1 THEN Append(errors, single_error(p)) ELSE errors
  /\ Continue
  /\ UNCHANGED <<world, pc, files, match_file_map, profile_refs, query, cache>>

(* A file that fails is not in the map: it is tried whenever it is met. *)
LoadFails(p) ==
  /\ pc = "load"
  /\ Looks(p)
  /\ p \in broken \ DOMAIN match_file_map
  /\ errors' = Append(errors, single_error(p))
  /\ Continue
  /\ UNCHANGED <<world, pc, files, match_file_map, profile_refs, query, cache>>

Return ==
  /\ pc \in {"load", "query"}
  /\ Finished
  /\ frames' = Callers
  /\ pc' = CASE Depth > 1 -> pc
             [] Depth = 1 /\ pc = "load" -> "resolve"
             [] Depth = 1 /\ pc = "query" -> "collected"
  /\ UNCHANGED <<world, store, profile_refs, query, cache>>

-----------------------------------------------------------------------------
(* FileStore::resolve and ProfileStore::resolve_paths *)

(* The paths that were loaded, as indices: what filter_map keeps *)
Refs(paths) ==
  LET loaded == Kept([i \in DOMAIN paths |-> paths[i] \in DOMAIN match_file_map])
  IN [n \in DOMAIN loaded |-> match_file_map[paths[loaded[n]]]]

(* Files all of whose imports failed are left out of the new store. *)
BugDropFiles(fs) ==
  SelectSeq([i \in DOMAIN fs |-> [fs[i] EXCEPT !.imports = Refs(@)]],
            LAMBDA f : import_paths[f.source_path] = <<>> \/ f.imports # <<>>)

resolve(fs) == [i \in DOMAIN fs |-> [fs[i] EXCEPT !.imports = Refs(@)]]

Resolve ==
  /\ pc = "resolve"
  /\ pc' = "ready"
  /\ files' = resolve(files)
  /\ \E order \in [Profiles -> UNION {SetToSeqs(match_file_paths[p]) : p \in Profiles}] :
       /\ \A p \in Profiles : order[p] \in SetToSeqs(match_file_paths[p])
       /\ profile_refs' = [p \in Profiles |-> Refs(order[p])]
  /\ UNCHANGED <<world, frames, match_file_map, errors, query, cache>>

-----------------------------------------------------------------------------
(* query_matches_for_paths *)

Query(p) ==
  /\ pc = "ready"
  /\ pc' = "query"
  /\ queried' = p
  /\ frames' = <<profile_refs[p]>>
  /\ UNCHANGED <<world, store, profile_refs, visited, collected, cache>>

AlreadyVisited(ref) ==
  /\ pc = "query"
  /\ Looks(ref)
  /\ ref \in visited
  /\ Continue
  /\ UNCHANGED <<world, pc, store, profile_refs, query, cache>>

(* What is about to be visited is marked already. *)
BugMarkImports(ref) ==
  /\ pc = "query"
  /\ Looks(ref)
  /\ ref \notin visited
  /\ visited' = visited \cup {ref} \cup ToSet(files[ref].imports)
  /\ collected' = Append(collected, files[ref].source_path)
  /\ Recurse(files[ref].imports)
  /\ UNCHANGED <<world, pc, store, profile_refs, queried, cache>>

Visit(ref) ==
  /\ pc = "query"
  /\ Looks(ref)
  /\ ref \notin visited
  /\ visited' = visited \cup {ref}
  /\ collected' = Append(collected, files[ref].source_path)
  /\ Recurse(files[ref].imports)
  /\ UNCHANGED <<world, pc, store, profile_refs, queried, cache>>

-----------------------------------------------------------------------------
(* ProfileCache::new *)

Definition(p, i) == [file |-> p, at |-> i]
Match(d) == Contents[d.file].matches[d.at]

Entry(key, d) == [key |-> key, value |-> d]

(* What each file adds to the maps, in order *)
Entries ==
  LET Defs(p, list) == [n \in DOMAIN Loaded[p][list] |-> Definition(p, Loaded[p][list][n])]
      OfMatch(d) == [n \in DOMAIN TriggersOf(Match(d)) |-> Entry(TriggersOf(Match(d))[n], d)]
      OfVar(d) == Entry(Contents[d.file].global_vars[d.at].name, d)
  IN [p \in Paths |->
        LET matches == Defs(p, "trigger_matches")
            vars_of_p == Defs(p, "global_vars")
        IN [triggers |-> FlattenSeq([n \in DOMAIN matches |-> OfMatch(matches[n])]),
            global_vars |-> [n \in DOMAIN vars_of_p |-> OfVar(vars_of_p[n])],
            regexes |-> Defs(p, "regex_matches")]]

Collected(list) == FlattenSeq([k \in DOMAIN collected |-> Entries[collected[k]][list]])

(* A key that is there already keeps its value. *)
BugFirstWins(entries) ==
  [key \in {e.key : e \in ToSet(entries)} |->
     entries[SelectInSeq(entries, LAMBDA e : e.key = key)].value]

(* The map after an insertion of each entry *)
InsertAll(entries) ==
  [key \in {e.key : e \in ToSet(entries)} |->
     entries[SelectLastInSeq(entries, LAMBDA e : e.key = key)].value]

(* RegexMatcher::new: a regex that does not compile is left out. *)
Compiled(defs) ==
  LET compiled == Kept([i \in DOMAIN defs |-> Match(defs[i]).regex \notin BadRegexes])
  IN [n \in DOMAIN compiled |-> defs[compiled[n]]]

CreateProfileCache ==
  /\ pc = "collected"
  /\ pc' = "done"
  /\ cache' = [trigger_map |-> InsertAll(Collected("triggers")),
               global_var_map |-> InsertAll(Collected("global_vars")),
               regex_ids |-> Compiled(Collected("regexes"))]
  /\ UNCHANGED <<world, frames, store, profile_refs, query>>

-----------------------------------------------------------------------------

Next ==
  \/ \E p \in Paths : AlreadyLoaded(p) \/ Load(p) \/ LoadFails(p)
  \/ Resolve
  \/ \E p \in Profiles : Query(p)
  \/ \E ref \in DOMAIN files : AlreadyVisited(ref) \/ Visit(ref)
  \/ Return
  \/ CreateProfileCache

Spec == Init /\ [][Next]_vars

(* Loading and querying are plain calls on one thread. *)
FairSpec == Spec /\ WF_vars(Next)

-----------------------------------------------------------------------------
(* Properties *)

(* Every variable has its type; an index is one of the store. *)
TypeOK ==
  /\ import_paths \in [Paths -> Seq(Paths)]
  /\ broken \subseteq Paths
  /\ match_file_paths \in [Profiles -> SUBSET Paths]
  /\ pc \in {"load", "resolve", "ready", "query", "collected", "done"}
  /\ frames \in Seq(Seq(IF pc = "query" THEN DOMAIN files ELSE Paths))
  /\ files \in Seq([source_path : Paths,
                   imports : Seq(IF pc \in {"load", "resolve"} THEN Paths ELSE DOMAIN files)])
  /\ DOMAIN match_file_map \subseteq Paths
  /\ match_file_map \in [DOMAIN match_file_map -> Nat]
  /\ \A i \in DOMAIN errors : errors[i].file \in Paths /\ errors[i].errors # {}
  /\ profile_refs \in [Profiles -> Seq(DOMAIN files)]
  /\ queried \in Profiles \cup {None}
  /\ visited \subseteq DOMAIN files
  /\ collected \in Seq(Paths)
  /\ IF pc = "done" THEN DOMAIN cache = {"trigger_map", "global_var_map", "regex_ids"}
     ELSE cache = None

(* "Any MatchFileRef should remain valid for the new FileStore": before and  *)
(* after the imports are resolved, the index of a path is that of its file,  *)
(* and no file is in the store twice.                                        *)
RefsStayValid ==
  /\ \A p \in DOMAIN match_file_map :
       match_file_map[p] \in DOMAIN files /\ files[match_file_map[p]].source_path = p
  /\ \A i \in DOMAIN files :
       files[i].source_path \in DOMAIN match_file_map /\ match_file_map[files[i].source_path] = i

(* The files that can be reached from some, without reading those of unread *)
ReachableFrom(roots, unread) ==
  {p \in Paths : \A S \in SUBSET Paths :
     /\ roots \ unread \subseteq S
     /\ \A q \in S : ToSet(import_paths[q]) \ unread \subseteq S
     => p \in S}

Reached == ReachableFrom(match_file_paths[queried], broken)

(* The store holds every file a profile can reach and no other; one file    *)
(* that fails takes nothing with it but what only it imports.               *)
LoadsReachable ==
  pc # "load" => DOMAIN match_file_map = ReachableFrom(get_all_match_file_paths, broken)

(* Every file that is missed is reported: no file fails silently. *)
FailuresReported ==
  pc # "load" =>
    {e.file : e \in {f \in ToSet(errors) : f = single_error(f.file)}} =
      broken \cap (get_all_match_file_paths
                      \cup UNION {ToSet(import_paths[p]) : p \in DOMAIN match_file_map})

(* A query collects what its profile reaches, each file once, and nothing of *)
(* a file only other profiles reach, whatever cycles the imports form.      *)
QueryIsClosure ==
  pc = "done" =>
    /\ ToSet(collected) = Reached
    /\ \A i, j \in DOMAIN collected : collected[i] = collected[j] => i = j

Reported(p, list, i) ==
  \E e \in ToSet(errors) : e.file = p /\ Report("error", list, i) \in e.errors

(* Every definition a profile reaches is reported as an error or can be     *)
(* found, by all of its triggers or by its regex, unless the regex does not  *)
(* compile; and what is found was not reported.                              *)
NothingIsLost ==
  pc = "done" =>
    /\ \A p \in Reached : \A i \in DOMAIN Contents[p].matches :
         \/ Reported(p, "matches", i)
         \/ LET m == Contents[p].matches[i]
            IN IF HasTriggers(m) THEN ToSet(TriggersOf(m)) \subseteq DOMAIN cache.trigger_map
               ELSE m.regex \in BadRegexes \/ Definition(p, i) \in ToSet(cache.regex_ids)
    /\ \A p \in Reached : \A i \in DOMAIN Contents[p].global_vars :
         Reported(p, "global_vars", i) \/ Contents[p].global_vars[i].name \in DOMAIN cache.global_var_map
    /\ \A t \in DOMAIN cache.trigger_map :
         ~Reported(cache.trigger_map[t].file, "matches", cache.trigger_map[t].at)
    /\ \A n \in DOMAIN cache.global_var_map :
         ~Reported(cache.global_var_map[n].file, "global_vars", cache.global_var_map[n].at)

(* The positions at which a file defines a trigger *)
Defines(p, t) ==
  {i \in DOMAIN Contents[p].matches :
     /\ try_convert_into_match(Contents[p].matches[i])
     /\ HasTriggers(Contents[p].matches[i])
     /\ t \in ToSet(TriggersOf(Contents[p].matches[i]))}

(* Of two definitions of a trigger, the later one in a file wins; and a file *)
(* that the profile reaches only through another one wins against it,        *)
(* whatever the order of the profile's files: imports override.              *)
ImportsOverride ==
  pc = "done" =>
    \A t \in DOMAIN cache.trigger_map :
      LET winner == cache.trigger_map[t]
          roots == match_file_paths[queried]
      IN /\ \A i \in Defines(winner.file, t) : i <= winner.at
         /\ \A p \in Reached \ ({winner.file} \cup ReachableFrom(roots, broken \cup {winner.file})) :
              Defines(p, t) = {}

(* Files that import each other, or themselves, do not keep the load or the *)
(* query going.                                                             *)
Terminates == <>(pc = "done")
=============================================================================
