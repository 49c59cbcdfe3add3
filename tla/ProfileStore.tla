----------------------------- MODULE ProfileStore -----------------------------
(***************************************************************************)
(* Loading the config directory: default.yml first, then the other files   *)
(* in the order in which read_dir yields them, each of which inherits from *)
(* the default profile.  A file other than default.yml that cannot be      *)
(* loaded is reported and left out.  The user may edit the directory       *)
(* during the load; that an entry is a file and what it holds is seen at   *)
(* once.                                                                   *)
(***************************************************************************)
EXTENDS ProfileFile, Naturals, Sequences

CONSTANTS
  Names,        \* the names of the entries the config directory may have
  DefaultFile,  \* default.yml
  Supported,    \* the names with an extension of a YAML file
  Contents,     \* what each entry may be
  Missing,      \* no entry of that name, or no config directory
  Directory,    \* an entry that is a directory
  Apps,         \* the applications a profile may be asked for
  MaxEdits      \* bound on the edits during the loads

ASSUME NamesAssumption ==
  IsFiniteSet(Names) /\ DefaultFile \in Supported /\ Supported \subseteq Names

ASSUME EditsAssumption == MaxEdits \in Nat

(* None is no value, and Glob knows every pattern, valid or not. *)
Texts(f) == Contents[f] \ {Missing, Directory, Broken, Empty}

ASSUME TextsAssumption ==
  /\ Standard \in DOMAIN Glob
  /\ NotString \notin RMLVOConfig
  /\ \A f \in Names : \A text \in Texts(f) :
       /\ \A key \in {"includes", "excludes", "extra_includes", "extra_excludes"} :
            Elements(Given(text, key)) \subseteq DOMAIN Glob
       /\ Given(text, "keyboard_layout") # None => StringPairs(text["keyboard_layout"]) # None
  /\ \A text \in Texts(DefaultFile) \cup {Empty} :
       load_from_path(DefaultFile, text, None) # None

VARIABLES
  disk,              \* the config directory
  stage,             \* where the load is, or the error it returned
  todo,              \* the entries read_dir has not yielded
  default_profile,
  custom_profiles,   \* in the order they were read
  non_fatal_errors,  \* the files of the error sets
  seen,              \* each file as it was read
  edits

store_vars == <<disk, stage, todo, default_profile, custom_profiles, non_fatal_errors, seen, edits>>

ConfigStoreError == {"MissingConfigDir", "MissingDefault", "LoadFailed", "IOError"}
Unread == [f \in Names |-> Missing]

(* Nothing is loaded yet. *)
Unloaded ==
  /\ stage = "idle"
  /\ todo = {}
  /\ default_profile = None
  /\ custom_profiles = <<>>
  /\ non_fatal_errors = <<>>
  /\ seen = Unread

IsFile(f) == disk[f] \notin {Missing, Directory}

-----------------------------------------------------------------------------
(* shinran_config::load and LoadedProfileStore::load *)

OpenConfigDir ==
  /\ stage = "idle"
  /\ stage' = IF disk = Missing THEN "MissingConfigDir" ELSE "default"
  /\ UNCHANGED <<disk, todo, default_profile, custom_profiles, non_fatal_errors, seen, edits>>

NoDefault ==
  /\ stage = "default"
  /\ ~IsFile(DefaultFile)
  /\ stage' = "MissingDefault"
  /\ UNCHANGED <<disk, todo, default_profile, custom_profiles, non_fatal_errors, seen, edits>>

LoadDefault ==
  /\ stage = "default"
  /\ IsFile(DefaultFile)
  /\ seen' = [seen EXCEPT ![DefaultFile] = disk[DefaultFile]]
  /\ IF Loads(disk[DefaultFile], None)
     THEN /\ default_profile' = load_from_path(DefaultFile, disk[DefaultFile], None)
          /\ stage' = "dir"
     ELSE /\ stage' = "LoadFailed"
          /\ UNCHANGED default_profile
  /\ UNCHANGED <<disk, todo, custom_profiles, non_fatal_errors, edits>>

(* An entry made or removed from now on may still be yielded or not: it is *)
(* yielded here, and not being a file when it is comes to the same.        *)
ReadDir ==
  /\ stage = "dir"
  /\ stage' = "entries"
  /\ todo' = Names
  /\ UNCHANGED <<disk, default_profile, custom_profiles, non_fatal_errors, seen, edits>>

ReadDirFails ==
  /\ stage \in {"dir", "entries"}
  /\ stage' = "IOError"
  /\ UNCHANGED <<disk, todo, default_profile, custom_profiles, non_fatal_errors, seen, edits>>

(* default.yml is read a second time, as a custom profile. *)
BugDefaultTwice(f) == f \in Supported /\ IsFile(f)

IsProfile(f) == f \in Supported \ {DefaultFile} /\ IsFile(f)

Yield(f) ==
  /\ stage = "entries"
  /\ f \in todo
  /\ todo' = todo \ {f}
  /\ UNCHANGED <<disk, stage, default_profile, edits>>

SkipEntry(f) ==
  /\ Yield(f)
  /\ ~IsProfile(f)
  /\ UNCHANGED <<custom_profiles, non_fatal_errors, seen>>

LoadProfile(f) ==
  /\ Yield(f)
  /\ IsProfile(f)
  /\ seen' = [seen EXCEPT ![f] = disk[f]]
  /\ Loads(disk[f], default_profile)
  /\ custom_profiles' =
       Append(custom_profiles, load_from_path(f, disk[f], default_profile))
  /\ UNCHANGED non_fatal_errors

ReportProfile(f) ==
  /\ Yield(f)
  /\ IsProfile(f)
  /\ seen' = [seen EXCEPT ![f] = disk[f]]
  /\ ~Loads(disk[f], default_profile)
  /\ non_fatal_errors' = Append(non_fatal_errors, f)
  /\ UNCHANGED custom_profiles

EndOfDir ==
  /\ stage = "entries"
  /\ todo = {}
  /\ stage' = "loaded"
  /\ UNCHANGED <<disk, todo, default_profile, custom_profiles, non_fatal_errors, seen, edits>>

LoadStep ==
  \/ OpenConfigDir \/ NoDefault \/ LoadDefault \/ ReadDir \/ ReadDirFails \/ EndOfDir
  \/ \E f \in Names : SkipEntry(f) \/ LoadProfile(f) \/ ReportProfile(f)

(* Before and after a load an edit is no more than another directory. *)
Edit(f, content) ==
  /\ stage \in {"default", "dir", "entries"}
  /\ edits < MaxEdits
  /\ disk[f] # content
  /\ disk' = [disk EXCEPT ![f] = content]
  /\ edits' = edits + 1
  /\ UNCHANGED <<stage, todo, default_profile, custom_profiles, non_fatal_errors, seen>>

-----------------------------------------------------------------------------
(* Queries of the store *)

active_config(app) ==
  LET matching == {i \in DOMAIN custom_profiles : is_match(custom_profiles[i].filter, app)}
  IN IF matching = {} THEN default_profile
     ELSE custom_profiles[CHOOSE i \in matching : \A j \in matching : i <= j]

(* Configuration::active_profile: nothing is known of the application. *)
active_profile == active_config([a \in AppProperties |-> None])

Loaded == {default_profile} \cup {custom_profiles[i] : i \in DOMAIN custom_profiles}

get_all_match_file_paths == UNION {p.match_file_paths : p \in Loaded}

-----------------------------------------------------------------------------
(* What the files say *)

Written(f, key) == IF seen[f] = Empty THEN None ELSE Given(seen[f], key)

FirstOf(a, b) == IF a # None THEN a ELSE b

(* The file decides, then default.yml; backspace_delay is an old name. *)
Effective(f, key) ==
  LET own(g) == IF key = "key_delay"
                THEN FirstOf(Written(g, "key_delay"), Written(g, "backspace_delay"))
                ELSE Written(g, key)
  IN FirstOf(own(f), own(DefaultFile))

Patterns(f, keys) == UNION {Elements(Effective(f, key)) : key \in keys}

MatchFiles(f) ==
  LET standard == IF Effective(f, "use_standard_includes") = FALSE THEN {} ELSE {Standard}
      included == standard \cup Patterns(f, {"includes", "extra_includes"})
      Found(p, patterns) == \E pattern \in patterns : p \in Glob[pattern]
  IN {p \in UNION {Glob[pattern] : pattern \in DOMAIN Glob} :
        Found(p, included) /\ ~Found(p, Patterns(f, {"excludes", "extra_excludes"}))}

Layout(value) ==
  [k \in RMLVOConfig |-> IF k \in DOMAIN value /\ value[k] # NotString THEN value[k] ELSE None]

Meaning(f, s) ==
  LET value == Effective(f, s)
  IN IF value = None THEN IF s \in DOMAIN BuiltIn THEN BuiltIn[s] ELSE None
     ELSE CASE s = "keyboard_layout" -> Layout(value)
            [] s \in {"search_trigger", "search_shortcut"} ->
                 IF value \in {"OFF", "off"} THEN None ELSE value
            [] OTHER -> value

Fits(f, app) ==
  LET given == {a \in AppProperties : Effective(f, FilterOf[a]) # None}
  IN /\ given # {}
     /\ \A a \in given : app[a] # None /\ app[a] \in Language[Effective(f, FilterOf[a])]

IsUsable(f) ==
  /\ seen[f] # Broken
  /\ \A a \in AppProperties : Effective(f, FilterOf[a]) \notin BadRegexes

-----------------------------------------------------------------------------
(* Properties *)

(* Additional files are loaded best-effort (store.rs:131): of the files    *)
(* read, each is either a profile or reported, once, and it is reported    *)
(* only for its own mistake or for one it inherits.  Without edits every   *)
(* YAML file of the directory is read; the load as a whole fails for       *)
(* nothing but the directory and default.yml.                              *)
BestEffort ==
  LET profiles == {custom_profiles[i].source_path : i \in DOMAIN custom_profiles}
      reported == {non_fatal_errors[i] : i \in DOMAIN non_fatal_errors}
      read == {f \in Names \ {DefaultFile} : seen[f] # Missing}
  IN /\ stage \in {"entries", "loaded"} =>
          /\ profiles = {f \in read : IsUsable(f)}
          /\ reported = read \ profiles
          /\ Len(custom_profiles) + Len(non_fatal_errors) = Cardinality(read)
     /\ stage = "loaded" /\ edits = 0 =>
          read = {f \in Supported \ {DefaultFile} : IsFile(f)}
     /\ stage = "LoadFailed" => ~IsUsable(DefaultFile)

(* Every setting of a loaded profile is what its file says as it was read, *)
(* else what default.yml says as it was read, else the built-in value,     *)
(* whatever was edited in between and in whatever order the files came;    *)
(* its match files are those a pattern of its own or an inherited one      *)
(* includes and none excludes.                                             *)
WrittenWins ==
  stage \in {"entries", "loaded"} =>
    \A profile \in Loaded :
      LET f == profile.source_path
      IN /\ \A s \in Settings : setting(profile, s) = Meaning(f, s)
         /\ label(profile) = FirstOf(Effective(f, "label"), f)
         /\ profile.match_file_paths = MatchFiles(f)

(* The active profile of an application is one whose filters all fit it,   *)
(* and the default profile exactly if no other fits, so that a file that   *)
(* is the only one to fit is active in whatever order the files came; with *)
(* nothing known of the application, as in every query of the front ends,  *)
(* the default profile is active (config.rs:96).                           *)
ActiveFits ==
  stage = "loaded" =>
    /\ \A app \in Apps :
         LET fitting == {f \in {p.source_path : p \in Loaded \ {default_profile}} : Fits(f, app)}
             active == active_config(app).source_path
         IN IF fitting = {} THEN active = DefaultFile ELSE active \in fitting
    /\ active_profile = default_profile

(* "We're currently implicitly ignoring filters in the default file"       *)
(* (resolve.rs:53): a profile is restricted by the filters of its own file *)
(* only.                                                                   *)
DefaultFiltersIgnored ==
  stage = "loaded" =>
    \A i \in DOMAIN custom_profiles :
      LET profile == custom_profiles[i]
      IN \A a \in AppProperties :
           profile.filter[a] = Written(profile.source_path, FilterOf[a])
=============================================================================
