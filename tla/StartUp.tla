------------------------------- MODULE StartUp -------------------------------
(***************************************************************************)
(* A front end that starts without a usable cache: the three directories   *)
(* are overridden by environment variables, found, or created, and the     *)
(* configuration is loaded from the config directory.  A front end may be  *)
(* killed at any step and is started again in the same environment.        *)
(***************************************************************************)
EXTENDS ProfileStore

CONSTANTS
  PortableConfig, HomeShinran, HomeConfig, DefaultConfig,  \* of get_config_dir
  PortableRuntime, DefaultRuntime,                         \* of get_runtime_dir
  Packages,   \* of each config directory, its match/packages
  Creates,    \* the directories create_dir_all makes for each, where missing
  NamedDirs   \* what the environment variables may name

ConfigDirs == {PortableConfig, HomeShinran, HomeConfig, DefaultConfig}
RuntimeDirs == {PortableRuntime, DefaultRuntime}
BaseDirs == ConfigDirs \cup NamedDirs
Dirs == BaseDirs \cup RuntimeDirs \cup {Packages[c] : c \in BaseDirs}

Kinds == {"config", "runtime", "packages"}

ASSUME DirsAssumption == None \notin Dirs /\ ConfigDirs \cap RuntimeDirs = {}

(* Making one of the directories makes none that is looked for before it: *)
(* none of them is inside of another that may be missing.                 *)
ASSUME CreatesAssumption ==
  /\ Creates \in [Dirs -> SUBSET Dirs]
  /\ \A d \in Dirs : d \in Creates[d]
  /\ Creates[DefaultConfig] \cap ConfigDirs = {DefaultConfig}
  /\ \A d \in RuntimeDirs : Creates[d] \cap (ConfigDirs \cup RuntimeDirs) = {d}
  /\ \A c \in BaseDirs : Creates[Packages[c]] \cap (ConfigDirs \cup RuntimeDirs) \subseteq {c}

VARIABLES
  env,    \* SHINRAN_CONFIG_DIR, SHINRAN_RUNTIME_DIR and SHINRAN_PACKAGE_DIR
  dirs,   \* the directories that exist
  pc,
  paths,  \* Paths, as far as they are resolved
  first   \* what each was resolved to at first

vars == <<store_vars, env, dirs, pc, paths, first>>

Nowhere == [k \in Kinds |-> None]

(* The config/ directory of a base directory that is not there yet is not  *)
(* there either.                                                           *)
Init ==
  /\ env \in [Kinds -> {None} \cup NamedDirs]
  /\ dirs \in SUBSET Dirs
  /\ \A c \in BaseDirs : Packages[c] \in dirs => c \in dirs
  /\ pc = "off"
  /\ paths = Nowhere
  /\ first = Nowhere
  /\ disk \in [Names -> UNION {Contents[f] : f \in Names}] \cup {Missing}
  /\ disk # Missing => \A f \in Names : disk[f] \in Contents[f]
  /\ env["config"] = None /\ ConfigDirs \cap dirs = {} => disk = Missing
  /\ edits = 0
  /\ Unloaded

-----------------------------------------------------------------------------
(* resolve_paths *)

FirstIn(candidates, existing) ==
  LET found == {i \in DOMAIN candidates : candidates[i] \in existing}
  IN IF found = {} THEN None
     ELSE candidates[CHOOSE i \in found : \A j \in found : i <= j]

get_config_dir == FirstIn(<<PortableConfig, HomeShinran, HomeConfig, DefaultConfig>>, dirs)

get_runtime_dir == FirstIn(<<PortableRuntime, DefaultRuntime>>, dirs)

is_portable_mode == PortableConfig \in dirs

(* get_path_override: a variable that names no directory ends the program. *)
Overridden == \A k \in Kinds : env[k] # None => env[k] \in dirs

Start ==
  /\ pc = "off"
  /\ pc' = IF Overridden THEN "config" ELSE "exited"
  /\ UNCHANGED <<store_vars, env, dirs, paths, first>>

Take(kind, d, next) ==
  /\ paths' = [paths EXCEPT ![kind] = d]
  /\ first' = [first EXCEPT ![kind] = IF @ = None THEN d ELSE @]
  /\ pc' = next
  /\ UNCHANGED <<store_vars, env>>

(* Only the path is made. *)
BugNotCreated(d) == dirs' = dirs

Create(d) == dirs' = dirs \cup Creates[d]

(* create_dir_all fails: expect *)
Panic ==
  /\ pc' = "panicked"
  /\ UNCHANGED <<store_vars, env, dirs, paths, first>>

Named(kind, next) ==
  /\ env[kind] # None
  /\ Take(kind, env[kind], next)
  /\ UNCHANGED dirs

Found(kind, d, next) ==
  /\ env[kind] = None
  /\ d # None
  /\ Take(kind, d, next)
  /\ UNCHANGED dirs

Made(kind, found, d, next) ==
  /\ env[kind] = None
  /\ found = None
  /\ \/ Create(d) /\ Take(kind, d, next)
     \/ Panic

ResolveConfig ==
  /\ pc = "config"
  /\ \/ Named("config", "runtime")
     \/ Found("config", get_config_dir, "runtime")
     \/ Made("config", get_config_dir, DefaultConfig, "runtime")

new_runtime_path == IF is_portable_mode THEN PortableRuntime ELSE DefaultRuntime

ResolveRuntime ==
  /\ pc = "runtime"
  /\ \/ Named("runtime", "packages")
     \/ Found("runtime", get_runtime_dir, "packages")
     \/ Made("runtime", get_runtime_dir, new_runtime_path, "packages")

get_packages_dir == FirstIn(<<Packages[paths["config"]]>>, dirs)

ResolvePackages ==
  /\ pc = "packages"
  /\ \/ Named("packages", "load")
     \/ Found("packages", get_packages_dir, "load")
     \/ Made("packages", get_packages_dir, Packages[paths["config"]], "load")

-----------------------------------------------------------------------------
(* Configuration::new *)

Load ==
  /\ pc = "load"
  /\ LoadStep
  /\ UNCHANGED <<env, dirs, pc, paths, first>>

(* expect("unable to load config") *)
LoadFails ==
  /\ pc = "load"
  /\ stage \in ConfigStoreError
  /\ Panic

(* The error is logged and the front end goes on. *)
BugGoesOn ==
  /\ pc = "load"
  /\ stage \in {"loaded"} \cup ConfigStoreError
  /\ pc' = "up"
  /\ UNCHANGED <<store_vars, env, dirs, paths, first>>

Ready ==
  /\ pc = "load"
  /\ stage = "loaded"
  /\ pc' = "up"
  /\ UNCHANGED <<store_vars, env, dirs, paths, first>>

(* Killed, ended, or dead already; what it had in memory is gone. *)
Stop ==
  /\ pc # "off"
  /\ pc' = "off"
  /\ paths' = Nowhere
  /\ stage' = "idle"
  /\ todo' = {}
  /\ default_profile' = None
  /\ custom_profiles' = <<>>
  /\ non_fatal_errors' = <<>>
  /\ seen' = Unread
  /\ UNCHANGED <<env, dirs, first, disk, edits>>

UserEdits ==
  /\ \E f \in Names : \E content \in Contents[f] : Edit(f, content)
  /\ UNCHANGED <<env, dirs, pc, paths, first>>

Next ==
  \/ Start \/ ResolveConfig \/ ResolveRuntime \/ ResolvePackages
  \/ Load \/ LoadFails \/ Ready \/ Stop \/ UserEdits

Spec == Init /\ [][Next]_vars

-----------------------------------------------------------------------------
(* Properties *)

Stages == {"idle", "default", "dir", "entries", "loaded"} \cup ConfigStoreError

TypeOK ==
  /\ env \in [Kinds -> {None} \cup NamedDirs]
  /\ dirs \subseteq Dirs
  /\ pc \in {"off", "exited", "config", "runtime", "packages", "load", "up", "panicked"}
  /\ {paths, first} \subseteq [Kinds -> {None} \cup Dirs]
  /\ stage \in Stages
  /\ todo \subseteq Names
  /\ pc \in {"load", "up", "panicked"} \/ Unloaded
  /\ pc = "up" => stage = "loaded"
  /\ edits \in 0 .. MaxEdits

(* In one environment a front end uses the same three directories whenever *)
(* it starts, in particular those it made itself, and wherever it or       *)
(* another start was killed before, and they exist (resolve_paths,         *)
(* path.rs:37): the cache of one start is where the next one looks for it. *)
SameDirectories ==
  \A k \in Kinds : paths[k] # None => paths[k] = first[k] /\ paths[k] \in dirs
=============================================================================
