---------------------------- MODULE StartUpProofs ----------------------------
(***************************************************************************)
(* SameDirectories for every value of the constants.  It is not inductive: *)
(* what a directory was resolved to at first must still be what resolving  *)
(* it now would give, also after a kill between two steps.                 *)
(***************************************************************************)
EXTENDS StartUp, DataLemmas

ConfigIn(D) == FirstIn(<<PortableConfig, HomeShinran, HomeConfig, DefaultConfig>>, D)
RuntimeIn(D) == FirstIn(<<PortableRuntime, DefaultRuntime>>, D)

TypeInv ==
  /\ env \in [Kinds -> {None} \cup NamedDirs]
  /\ dirs \subseteq Dirs
  /\ {paths, first} \subseteq [Kinds -> {None} \cup Dirs]

(* What was chosen at first exists and would be chosen again. *)
ConfigStands ==
  first["config"] # None =>
    /\ first["config"] \in dirs \cap BaseDirs
    /\ first["config"] = IF env["config"] # None THEN env["config"] ELSE ConfigIn(dirs)

RuntimeStands ==
  first["runtime"] # None =>
    /\ first["config"] # None
    /\ first["runtime"] \in dirs
    /\ first["runtime"] = IF env["runtime"] # None THEN env["runtime"] ELSE RuntimeIn(dirs)

PackagesStand ==
  first["packages"] # None =>
    /\ first["runtime"] # None
    /\ first["packages"] \in dirs
    /\ first["packages"] = IF env["packages"] # None THEN env["packages"]
                           ELSE Packages[first["config"]]

(* The directories are resolved in their order. *)
InOrder ==
  /\ pc \in {"config", "runtime", "packages"} => Overridden
  /\ pc \in {"runtime", "packages"} => paths["config"] # None
  /\ pc = "packages" => paths["runtime"] # None

PathsAreFirst == \A k \in Kinds : paths[k] # None => paths[k] = first[k]

IInv ==
  TypeInv /\ ConfigStands /\ RuntimeStands /\ PackagesStand /\ InOrder /\ PathsAreFirst

-----------------------------------------------------------------------------
(* The search among candidates *)

(* A set of up to four positions has a least one. *)
LEMMA Least ==
  ASSUME NEW S \in SUBSET (1 .. 4), S # {}
  PROVE  \E i \in S : \A j \in S : i <= j
<1>1. CASE 1 \in S
  BY <1>1
<1>2. CASE 1 \notin S /\ 2 \in S
  BY <1>2
<1>3. CASE 1 \notin S /\ 2 \notin S /\ 3 \in S
  BY <1>3
<1>4. CASE 1 \notin S /\ 2 \notin S /\ 3 \notin S
  <2>0. PICK x \in S : TRUE
    OBVIOUS
  <2>1. x \in 1 .. 4 /\ x \notin {1, 2, 3}
    BY <1>4
  <2>2. x = 4
    BY <2>1
  <2> QED BY <1>4, <2>0, <2>2
<1> QED BY <1>1, <1>2, <1>3, <1>4

(* What is found is a candidate that exists. *)
LEMMA FoundExists ==
  ASSUME NEW c, NEW D, DOMAIN c \subseteq 1 .. 4,
         \E i \in DOMAIN c : c[i] \in D
  PROVE  \E i \in DOMAIN c : c[i] \in D /\ FirstIn(c, D) = c[i]
<1> DEFINE found == {i \in DOMAIN c : c[i] \in D}
           least == CHOOSE i \in found : \A j \in found : i <= j
<1>1. found # {} /\ found \in SUBSET (1 .. 4)
  OBVIOUS
<1>2. \E i \in found : \A j \in found : i <= j
  BY <1>1, Least
<1>3. least \in found
  BY <1>2
<1>4. FirstIn(c, D) = c[least]
  BY <1>1 DEF FirstIn
<1> QED BY <1>3, <1>4

(* What is found depends on which candidates exist, and on nothing else. *)
LEMMA SameFound ==
  ASSUME NEW c, NEW D, NEW E, \A i \in DOMAIN c : c[i] \in D <=> c[i] \in E
  PROVE  FirstIn(c, D) = FirstIn(c, E)
<1> DEFINE found(F) == {i \in DOMAIN c : c[i] \in F}
           pick(S) == IF S = {} THEN None ELSE c[CHOOSE i \in S : \A j \in S : i <= j]
<1>1. found(D) = found(E)
  OBVIOUS
<1>2. FirstIn(c, D) = pick(found(D)) /\ FirstIn(c, E) = pick(found(E))
  BY DEF FirstIn
<1> HIDE DEF found, pick
<1> QED BY <1>1, <1>2

ConfigCandidates == <<PortableConfig, HomeShinran, HomeConfig, DefaultConfig>>
RuntimeCandidates == <<PortableRuntime, DefaultRuntime>>

(* The candidates of the two searches *)
LEMMA Candidates ==
  /\ DOMAIN ConfigCandidates \subseteq 1 .. 4
  /\ ConfigDirs = {ConfigCandidates[i] : i \in DOMAIN ConfigCandidates}
  /\ DOMAIN RuntimeCandidates \subseteq 1 .. 4
  /\ RuntimeDirs = {RuntimeCandidates[i] : i \in DOMAIN RuntimeCandidates}
<1>1. DOMAIN ConfigCandidates = 1 .. 4 /\ DOMAIN RuntimeCandidates = 1 .. 2
  BY DEF ConfigCandidates, RuntimeCandidates
<1>2. 1 .. 4 = {1, 2, 3, 4} /\ 1 .. 2 = {1, 2}
  OBVIOUS
<1>3. {ConfigCandidates[i] : i \in {1, 2, 3, 4}} = ConfigDirs
  BY DEF ConfigCandidates, ConfigDirs
<1>4. {RuntimeCandidates[i] : i \in {1, 2}} = RuntimeDirs
  BY DEF RuntimeCandidates, RuntimeDirs
<1> QED BY <1>1, <1>2, <1>3, <1>4

(* The search of the config directory in the directories D *)
LEMMA ConfigSearch ==
  ASSUME NEW D, None \notin D
  PROVE  /\ ConfigIn(D) # None => ConfigIn(D) \in ConfigDirs \cap D
         /\ ConfigIn(D) = None <=> ConfigDirs \cap D = {}
         /\ \A E : ConfigDirs \cap D = ConfigDirs \cap E => ConfigIn(D) = ConfigIn(E)
<1>1. ConfigIn(D) = FirstIn(ConfigCandidates, D)
  BY DEF ConfigIn, ConfigCandidates
<1>2. ASSUME ConfigDirs \cap D # {} PROVE ConfigIn(D) \in ConfigDirs \cap D
  BY <1>1, <1>2, Candidates, FoundExists
<1>3. ASSUME ConfigIn(D) = None PROVE ConfigDirs \cap D = {}
  BY <1>2, <1>3
<1>4. ASSUME ConfigDirs \cap D = {} PROVE ConfigIn(D) = None
  <2>1. {i \in DOMAIN ConfigCandidates : ConfigCandidates[i] \in D} = {}
    BY <1>4, Candidates
  <2> QED BY <1>1, <2>1 DEF FirstIn
<1>5. ASSUME NEW E, ConfigDirs \cap D = ConfigDirs \cap E PROVE ConfigIn(D) = ConfigIn(E)
  <2>1. \A i \in DOMAIN ConfigCandidates : ConfigCandidates[i] \in D <=> ConfigCandidates[i] \in E
    BY <1>5, Candidates
  <2> QED BY <2>1, SameFound DEF ConfigIn, ConfigCandidates
<1> QED BY <1>2, <1>3, <1>4, <1>5

(* The search of the runtime directory in the directories D *)
LEMMA RuntimeSearch ==
  ASSUME NEW D, None \notin D
  PROVE  /\ RuntimeIn(D) # None => RuntimeIn(D) \in RuntimeDirs \cap D
         /\ RuntimeIn(D) = None <=> RuntimeDirs \cap D = {}
         /\ \A E : RuntimeDirs \cap D = RuntimeDirs \cap E => RuntimeIn(D) = RuntimeIn(E)
<1>1. RuntimeIn(D) = FirstIn(RuntimeCandidates, D)
  BY DEF RuntimeIn, RuntimeCandidates
<1>2. ASSUME RuntimeDirs \cap D # {} PROVE RuntimeIn(D) \in RuntimeDirs \cap D
  BY <1>1, <1>2, Candidates, FoundExists
<1>3. ASSUME RuntimeIn(D) = None PROVE RuntimeDirs \cap D = {}
  BY <1>2, <1>3
<1>4. ASSUME RuntimeDirs \cap D = {} PROVE RuntimeIn(D) = None
  <2>1. {i \in DOMAIN RuntimeCandidates : RuntimeCandidates[i] \in D} = {}
    BY <1>4, Candidates
  <2> QED BY <1>1, <2>1 DEF FirstIn
<1>5. ASSUME NEW E, RuntimeDirs \cap D = RuntimeDirs \cap E PROVE RuntimeIn(D) = RuntimeIn(E)
  <2>1. \A i \in DOMAIN RuntimeCandidates : RuntimeCandidates[i] \in D <=> RuntimeCandidates[i] \in E
    BY <1>5, Candidates
  <2> QED BY <2>1, SameFound DEF RuntimeIn, RuntimeCandidates
<1> QED BY <1>2, <1>3, <1>4, <1>5

(* The search of the packages directory *)
LEMMA PackagesSearch ==
  ASSUME NEW D, NEW x
  PROVE  FirstIn(<<x>>, D) # None => FirstIn(<<x>>, D) = x /\ x \in D
<1>1. DOMAIN <<x>> = {1} /\ <<x>>[1] = x /\ 1 \in 1 .. 4
  OBVIOUS
<1>2. CASE x \in D
  BY <1>1, <1>2, FoundExists
<1>3. CASE x \notin D
  <2>1. {i \in DOMAIN <<x>> : <<x>>[i] \in D} = {}
    BY <1>1, <1>3
  <2> QED BY <2>1 DEF FirstIn
<1> QED BY <1>2, <1>3

(* The names of the directories, and that each is one of Dirs *)
LEMMA Names3 == Kinds = {"config", "runtime", "packages"} /\ BaseDirs \subseteq Dirs
                  /\ RuntimeDirs \subseteq Dirs /\ ConfigDirs \subseteq BaseDirs
                  /\ NamedDirs \subseteq BaseDirs /\ DefaultConfig \in ConfigDirs
                  /\ \A c \in BaseDirs : Packages[c] \in Dirs
BY DEF Kinds, Dirs, BaseDirs, ConfigDirs

-----------------------------------------------------------------------------
(* The steps *)

(* Resolving the config directory: if it is made, none was resolved before. *)
LEMMA ConfigStep ==
  ASSUME IInv, ResolveConfig
  PROVE  IInv'
<1> USE DirsAssumption, CreatesAssumption, Names3
<1>0. None \notin dirs
  BY DEF IInv, TypeInv
<1>1. CASE Panic
  BY <1>1 DEF IInv, Panic, TypeInv, ConfigStands, RuntimeStands, PackagesStand, InOrder, PathsAreFirst
<1>2. ASSUME NEW d \in BaseDirs, Take("config", d, "runtime"),
             dirs \subseteq dirs', d \in dirs', dirs' \subseteq Dirs,
             d = IF env["config"] # None THEN env["config"] ELSE ConfigIn(dirs'),
             first["config"] # None => first["config"] = d /\ dirs' = dirs,
             pc = "config"
      PROVE  IInv'
  <2>1. /\ paths' = [paths EXCEPT !["config"] = d]
        /\ first' = [first EXCEPT !["config"] = d]
        /\ pc' = "runtime" /\ env' = env
    BY <1>2 DEF Take, IInv, TypeInv
  <2>2. d # None
    OBVIOUS
  <2>3. TypeInv'
    BY <1>2, <2>1 DEF IInv, TypeInv
  <2>4. ConfigStands'
    BY <1>2, <2>1, <2>2 DEF IInv, TypeInv, ConfigStands
  <2>5. RuntimeStands' /\ PackagesStand'
    BY <1>2, <2>1, <2>2 DEF IInv, TypeInv, RuntimeStands, PackagesStand
  <2>6. InOrder'
    BY <1>2, <2>1, <2>2 DEF IInv, TypeInv, InOrder, Overridden
  <2>7. PathsAreFirst'
    BY <1>2, <2>1 DEF IInv, TypeInv, PathsAreFirst
  <2> QED BY <2>3, <2>4, <2>5, <2>6, <2>7 DEF IInv
<1>3. CASE Named("config", "runtime")
  <2>1. env["config"] \in NamedDirs /\ env["config"] \in dirs
    BY <1>3 DEF Named, ResolveConfig, IInv, TypeInv, InOrder, Overridden
  <2> QED BY <1>2, <1>3, <2>1 DEF Named, ResolveConfig, IInv, TypeInv, ConfigStands
<1>4. CASE Found("config", get_config_dir, "runtime")
  <2>1. get_config_dir = ConfigIn(dirs)
    BY DEF get_config_dir, ConfigIn
  <2>2. ConfigIn(dirs) \in ConfigDirs \cap dirs
    BY <1>0, <1>4, <2>1, ConfigSearch DEF Found
  <2> QED BY <1>2, <1>4, <2>1, <2>2 DEF Found, ResolveConfig, IInv, TypeInv, ConfigStands
<1>5. CASE Made("config", get_config_dir, DefaultConfig, "runtime") /\ ~Panic
  <2>1. get_config_dir = ConfigIn(dirs)
    BY DEF get_config_dir, ConfigIn
  <2>2. /\ env["config"] = None /\ ConfigIn(dirs) = None
        /\ dirs' = dirs \cup Creates[DefaultConfig]
        /\ Take("config", DefaultConfig, "runtime")
    BY <1>5, <2>1 DEF Made, Create
  <2>3. ConfigDirs \cap dirs' = {DefaultConfig} /\ None \notin dirs' /\ dirs' \subseteq Dirs
    BY <1>0, <2>2, ConfigSearch DEF IInv, TypeInv
  <2>4. ConfigIn(dirs') = DefaultConfig
    BY <2>3, ConfigSearch
  <2>5. first["config"] = None
    BY <2>2 DEF IInv, ConfigStands
  <2> QED BY <1>2, <2>2, <2>3, <2>4, <2>5 DEF ResolveConfig
<1> QED BY <1>1, <1>3, <1>4, <1>5 DEF ResolveConfig

(* Resolving the runtime directory: making it leaves the config directory  *)
(* the one that would be found.                                            *)
LEMMA RuntimeStep ==
  ASSUME IInv, ResolveRuntime
  PROVE  IInv'
<1> USE DirsAssumption, CreatesAssumption, Names3
<1>0. None \notin dirs
  BY DEF IInv, TypeInv
<1>1. CASE Panic
  BY <1>1 DEF IInv, Panic, TypeInv, ConfigStands, RuntimeStands, PackagesStand, InOrder, PathsAreFirst
<1>2. ASSUME NEW d \in Dirs, Take("runtime", d, "packages"),
             dirs \subseteq dirs', d \in dirs', dirs' \subseteq Dirs,
             ConfigIn(dirs') = ConfigIn(dirs),
             d = IF env["runtime"] # None THEN env["runtime"] ELSE RuntimeIn(dirs'),
             first["runtime"] # None => first["runtime"] = d /\ dirs' = dirs,
             pc = "runtime"
      PROVE  IInv'
  <2>1. /\ paths' = [paths EXCEPT !["runtime"] = d]
        /\ first' = [first EXCEPT !["runtime"] = d]
        /\ pc' = "packages" /\ env' = env
    BY <1>2 DEF Take, IInv, TypeInv
  <2>2. d # None
    OBVIOUS
  <2>3. TypeInv'
    BY <1>2, <2>1 DEF IInv, TypeInv
  <2>4. first["config"] # None
    BY <1>2 DEF IInv, InOrder, PathsAreFirst
  <2>5. ConfigStands'
    BY <1>2, <2>1, <2>2 DEF IInv, TypeInv, ConfigStands
  <2>6. RuntimeStands' /\ PackagesStand'
    BY <1>2, <2>1, <2>2, <2>4 DEF IInv, TypeInv, RuntimeStands, PackagesStand
  <2>7. InOrder'
    BY <1>2, <2>1, <2>2 DEF IInv, TypeInv, InOrder, Overridden
  <2>8. PathsAreFirst'
    BY <1>2, <2>1 DEF IInv, TypeInv, PathsAreFirst
  <2> QED BY <2>3, <2>5, <2>6, <2>7, <2>8 DEF IInv
<1>3. CASE Named("runtime", "packages")
  <2>1. env["runtime"] \in NamedDirs /\ env["runtime"] \in dirs
    BY <1>3 DEF Named, ResolveRuntime, IInv, TypeInv, InOrder, Overridden
  <2>2. dirs' = dirs /\ Take("runtime", env["runtime"], "packages") /\ env["runtime"] # None
    BY <1>3 DEF Named
  <2> QED BY <1>2, <2>1, <2>2 DEF ResolveRuntime, IInv, TypeInv, RuntimeStands
<1>4. CASE Found("runtime", get_runtime_dir, "packages")
  <2>1. get_runtime_dir = RuntimeIn(dirs)
    BY DEF get_runtime_dir, RuntimeIn
  <2>2. RuntimeIn(dirs) \in RuntimeDirs \cap dirs
    BY <1>0, <1>4, <2>1, RuntimeSearch DEF Found
  <2>3. dirs' = dirs /\ Take("runtime", RuntimeIn(dirs), "packages") /\ env["runtime"] = None
    BY <1>4, <2>1 DEF Found
  <2> QED BY <1>2, <2>2, <2>3 DEF ResolveRuntime, IInv, TypeInv, RuntimeStands
<1>5. CASE Made("runtime", get_runtime_dir, new_runtime_path, "packages") /\ ~Panic
  <2> DEFINE d == new_runtime_path
  <2>1. get_runtime_dir = RuntimeIn(dirs)
    BY DEF get_runtime_dir, RuntimeIn
  <2>2. /\ env["runtime"] = None /\ RuntimeIn(dirs) = None
        /\ dirs' = dirs \cup Creates[d]
        /\ Take("runtime", d, "packages")
    BY <1>5, <2>1 DEF Made, Create
  <2>3. d \in RuntimeDirs
    BY DEF new_runtime_path, RuntimeDirs
  <2> HIDE DEF d
  <2>4. RuntimeDirs \cap dirs = {}
    BY <1>0, <2>2, RuntimeSearch
  <2>5. RuntimeDirs \cap dirs' = {d} /\ None \notin dirs' /\ dirs' \subseteq Dirs
    BY <1>0, <2>2, <2>3, <2>4 DEF IInv, TypeInv
  <2>6. RuntimeIn(dirs') = d
    BY <2>5, RuntimeSearch
  <2>7. ConfigDirs \cap dirs' = ConfigDirs \cap dirs
    BY <2>2, <2>3
  <2>8. ConfigIn(dirs') = ConfigIn(dirs)
    BY <1>0, <2>7, ConfigSearch
  <2>9. first["runtime"] = None
    BY <2>2 DEF IInv, RuntimeStands
  <2> QED BY <1>2, <2>2, <2>3, <2>5, <2>6, <2>8, <2>9 DEF ResolveRuntime
<1> QED BY <1>1, <1>3, <1>4, <1>5 DEF ResolveRuntime

(* Resolving the packages directory: it is below the config directory.     *)
LEMMA PackagesStep ==
  ASSUME IInv, ResolvePackages
  PROVE  IInv'
<1> USE DirsAssumption, CreatesAssumption, Names3
<1>0. None \notin dirs
  BY DEF IInv, TypeInv
<1>1. CASE Panic
  BY <1>1 DEF IInv, Panic, TypeInv, ConfigStands, RuntimeStands, PackagesStand, InOrder, PathsAreFirst
<1> DEFINE c == first["config"]
<1>2. /\ pc = "packages" /\ paths["config"] = c /\ c # None /\ c \in dirs \cap BaseDirs
      /\ first["runtime"] # None
  BY DEF ResolvePackages, IInv, InOrder, PathsAreFirst, ConfigStands
<1>3. ASSUME NEW d \in Dirs, Take("packages", d, "load"),
             dirs \subseteq dirs', d \in dirs', dirs' \subseteq Dirs,
             ConfigIn(dirs') = ConfigIn(dirs), RuntimeIn(dirs') = RuntimeIn(dirs),
             d = IF env["packages"] # None THEN env["packages"] ELSE Packages[c]
      PROVE  IInv'
  <2>1. /\ paths' = [paths EXCEPT !["packages"] = d]
        /\ first' = [first EXCEPT !["packages"] = d]
        /\ pc' = "load" /\ env' = env
    BY <1>3 DEF Take, IInv, TypeInv, PackagesStand
  <2>2. d # None
    OBVIOUS
  <2>3. TypeInv'
    BY <1>3, <2>1 DEF IInv, TypeInv
  <2>4. ConfigStands' /\ RuntimeStands'
    BY <1>3, <2>1 DEF IInv, TypeInv, ConfigStands, RuntimeStands
  <2>5. PackagesStand'
    BY <1>2, <1>3, <2>1 DEF IInv, TypeInv, PackagesStand
  <2>6. InOrder' /\ PathsAreFirst'
    BY <1>3, <2>1 DEF IInv, TypeInv, InOrder, PathsAreFirst
  <2> QED BY <2>3, <2>4, <2>5, <2>6 DEF IInv
<1>4. CASE Named("packages", "load")
  <2>1. env["packages"] \in NamedDirs /\ env["packages"] \in dirs
    BY <1>2, <1>4 DEF Named, IInv, TypeInv, InOrder, Overridden
  <2>2. dirs' = dirs /\ Take("packages", env["packages"], "load") /\ env["packages"] # None
    BY <1>4 DEF Named
  <2> QED BY <1>3, <2>1, <2>2 DEF IInv, TypeInv
<1>5. CASE Found("packages", get_packages_dir, "load")
  <2>1. get_packages_dir = Packages[c] /\ Packages[c] \in dirs
    BY <1>2, <1>5, PackagesSearch DEF Found, get_packages_dir
  <2>2. dirs' = dirs /\ Take("packages", Packages[c], "load") /\ env["packages"] = None
    BY <1>5, <2>1 DEF Found
  <2> QED BY <1>2, <1>3, <2>1, <2>2 DEF IInv, TypeInv
<1>6. CASE Made("packages", get_packages_dir, Packages[paths["config"]], "load") /\ ~Panic
  <2>1. /\ env["packages"] = None
        /\ dirs' = dirs \cup Creates[Packages[c]]
        /\ Take("packages", Packages[c], "load")
    BY <1>2, <1>6 DEF Made, Create
  <2>2. (ConfigDirs \cup RuntimeDirs) \cap dirs' = (ConfigDirs \cup RuntimeDirs) \cap dirs
    BY <1>2, <2>1
  <2>3. ConfigDirs \cap dirs = ConfigDirs \cap dirs' /\ RuntimeDirs \cap dirs = RuntimeDirs \cap dirs'
    BY <2>2
  <2>4. ConfigIn(dirs') = ConfigIn(dirs) /\ RuntimeIn(dirs') = RuntimeIn(dirs)
    BY <1>0, <2>3, ConfigSearch, RuntimeSearch
  <2>5. Packages[c] \in dirs' /\ dirs' \subseteq Dirs /\ Packages[c] \in Dirs
    BY <1>2, <2>1 DEF IInv, TypeInv
  <2> QED BY <1>3, <2>1, <2>4, <2>5
<1> QED BY <1>1, <1>4, <1>5, <1>6 DEF ResolvePackages

(* No other step touches a directory or a path but to forget it. *)
LEMMA OtherStep ==
  ASSUME IInv, dirs' = dirs, env' = env, first' = first,
         paths' \in {paths, Nowhere}, pc' \in {"config", "runtime", "packages"} => pc' = "config" /\ Overridden
  PROVE  IInv'
<1>1. TypeInv'
  BY DirsAssumption DEF IInv, TypeInv, Nowhere
<1>2. ConfigStands' /\ RuntimeStands' /\ PackagesStand'
  BY DEF IInv, ConfigStands, RuntimeStands, PackagesStand
<1>3. InOrder'
  BY DEF IInv, InOrder, Overridden
<1>4. PathsAreFirst'
  BY DEF IInv, PathsAreFirst, Nowhere
<1> QED BY <1>1, <1>2, <1>3, <1>4 DEF IInv

-----------------------------------------------------------------------------
(* Every step keeps the invariant. *)
LEMMA Inductive == Spec => []IInv
<1>1. Init => IInv
  <2> SUFFICES ASSUME Init PROVE IInv
    OBVIOUS
  <2>1. /\ env \in [Kinds -> {None} \cup NamedDirs] /\ dirs \subseteq Dirs /\ pc = "off"
        /\ paths = Nowhere /\ first = Nowhere
    BY DEF Init
  <2>2. /\ Nowhere \in [Kinds -> {None} \cup Dirs]
        /\ Nowhere["config"] = None /\ Nowhere["runtime"] = None /\ Nowhere["packages"] = None
    BY DEF Nowhere, Kinds
  <2>3. PathsAreFirst
    BY <2>1 DEF PathsAreFirst
  <2> QED BY <2>1, <2>2, <2>3
          DEF IInv, TypeInv, ConfigStands, RuntimeStands, PackagesStand, InOrder
<1>2. IInv /\ [Next]_vars => IInv'
  <2> SUFFICES ASSUME IInv, [Next]_vars PROVE IInv'
    OBVIOUS
  <2>1. CASE Start
    BY <2>1, OtherStep DEF Start
  <2>2. CASE ResolveConfig
    BY <2>2, ConfigStep
  <2>3. CASE ResolveRuntime
    BY <2>3, RuntimeStep
  <2>4. CASE ResolvePackages
    BY <2>4, PackagesStep
  <2>5. CASE Load
    BY <2>5, OtherStep DEF Load
  <2>6. CASE LoadFails
    BY <2>6, OtherStep DEF LoadFails, Panic
  <2>7. CASE Ready
    BY <2>7, OtherStep DEF Ready
  <2>8. CASE Stop
    BY <2>8, OtherStep DEF Stop
  <2>9. CASE UserEdits
    <3>1. UNCHANGED <<env, dirs, pc, paths, first>>
      BY <2>9 DEF UserEdits
    <3> QED BY <3>1 DEF IInv, TypeInv, ConfigStands, RuntimeStands, PackagesStand, InOrder,
            Overridden, PathsAreFirst
  <2>10. CASE UNCHANGED vars
    <3>1. UNCHANGED <<env, dirs, pc, paths, first>>
      BY <2>10 DEF vars
    <3> QED BY <3>1 DEF IInv, TypeInv, ConfigStands, RuntimeStands, PackagesStand, InOrder,
            Overridden, PathsAreFirst
  <2> QED BY <2>1, <2>2, <2>3, <2>4, <2>5, <2>6, <2>7, <2>8, <2>9, <2>10 DEF Next
<1> QED BY <1>1, <1>2, PTL DEF Spec

(* A front end uses the same three directories whenever it starts in one   *)
(* environment, and they exist: what it made is what it finds later, even  *)
(* if it was killed in between (resolve_paths).                            *)
THEOREM DirectoriesAreSame == Spec => []SameDirectories
<1>1. IInv => SameDirectories
  <2> SUFFICES ASSUME IInv, NEW k \in Kinds, paths[k] # None
               PROVE  paths[k] = first[k] /\ paths[k] \in dirs
    BY DEF SameDirectories
  <2> QED BY DEF IInv, PathsAreFirst, ConfigStands, RuntimeStands, PackagesStand, Kinds
<1> QED BY <1>1, Inductive, PTL

-----------------------------------------------------------------------------
(* Types *)

(* The state of the load, as far as TypeOK speaks of it *)
LoadInv ==
  /\ stage \in Stages
  /\ todo \subseteq Names
  /\ pc \in {"off", "exited", "config", "runtime", "packages", "load", "up", "panicked"}
  /\ pc \in {"load", "up", "panicked"} \/ Unloaded
  /\ pc = "up" => stage = "loaded"
  /\ edits \in 0 .. MaxEdits

(* A step that leaves the load alone may only start it, or end the program. *)
LEMMA LoadUntouched ==
  ASSUME LoadInv, UNCHANGED store_vars,
         pc' \in {"off", "exited", "config", "runtime", "packages", "load", "up", "panicked"},
         pc \notin {"load", "up", "panicked"} \/ pc' \in {pc, "panicked"} \/ pc' = "up",
         pc' = "up" => stage = "loaded"
  PROVE  LoadInv'
BY DEF LoadInv, store_vars, Unloaded

(* The parts of a step of the load *)
LEMMA LoadStepTyped ==
  ASSUME LoadInv, Load
  PROVE  LoadInv'
<1>1. pc = "load" /\ pc' = "load" /\ LoadStep
  BY DEF Load
<1>2. stage' \in Stages /\ todo' \subseteq Names /\ edits' = edits
  <2>1. CASE OpenConfigDir \/ NoDefault \/ LoadDefault
    BY <2>1 DEF OpenConfigDir, NoDefault, LoadDefault, LoadInv, Stages, ConfigStoreError
  <2>2. CASE ReadDir \/ ReadDirFails \/ EndOfDir
    BY <2>2 DEF ReadDir, ReadDirFails, EndOfDir, LoadInv, Stages, ConfigStoreError
  <2>3. CASE \E f \in Names : SkipEntry(f) \/ LoadProfile(f) \/ ReportProfile(f)
    BY <2>3 DEF SkipEntry, LoadProfile, ReportProfile, Yield, LoadInv
  <2> QED BY <1>1, <2>1, <2>2, <2>3 DEF LoadStep
<1> QED BY <1>1, <1>2 DEF LoadInv

(* Every variable of StartUp has its type; outside of a load nothing is     *)
(* loaded, and a front end that is up has loaded its configuration          *)
(* (Configuration::new).                                                    *)
THEOREM TypeCorrect == Spec => []TypeOK
<1> USE EditsAssumption
<1>1. Init => LoadInv
  BY DEF Init, LoadInv, Unloaded, Stages
<1>2. LoadInv /\ [Next]_vars => LoadInv'
  <2> SUFFICES ASSUME LoadInv, [Next]_vars PROVE LoadInv'
    OBVIOUS
  <2>1. CASE Start
    <3>1. UNCHANGED store_vars /\ pc = "off" /\ pc' \in {"config", "exited"}
      BY <2>1 DEF Start
    <3> QED BY <3>1, LoadUntouched
  <2>2. CASE ResolveConfig
    <3>1. UNCHANGED store_vars /\ pc = "config" /\ pc' \in {"runtime", "panicked"}
      BY <2>2 DEF ResolveConfig, Named, Found, Made, Take, Panic
    <3> QED BY <3>1, LoadUntouched
  <2>3. CASE ResolveRuntime
    <3>1. UNCHANGED store_vars /\ pc = "runtime" /\ pc' \in {"packages", "panicked"}
      BY <2>3 DEF ResolveRuntime, Named, Found, Made, Take, Panic
    <3> QED BY <3>1, LoadUntouched
  <2>4. CASE ResolvePackages
    <3>1. UNCHANGED store_vars /\ pc = "packages" /\ pc' \in {"load", "panicked"}
      BY <2>4 DEF ResolvePackages, Named, Found, Made, Take, Panic
    <3> QED BY <3>1, LoadUntouched
  <2>5. CASE Load
    BY <2>5, LoadStepTyped
  <2>6. CASE LoadFails
    <3>1. UNCHANGED store_vars /\ pc' = "panicked"
      BY <2>6 DEF LoadFails, Panic
    <3> QED BY <3>1, LoadUntouched
  <2>7. CASE Ready
    BY <2>7, LoadUntouched DEF Ready
  <2>8. CASE Stop
    BY <2>8 DEF Stop, LoadInv, Unloaded, Stages
  <2>9. CASE UserEdits
    <3>1. PICK f \in Names : \E content \in Contents[f] : Edit(f, content)
      BY <2>9 DEF UserEdits
    <3>2. /\ stage \in {"default", "dir", "entries"} /\ edits < MaxEdits /\ edits' = edits + 1
          /\ UNCHANGED <<stage, todo, default_profile, custom_profiles, non_fatal_errors, seen>>
      BY <3>1 DEF Edit
    <3>3. pc' = pc
      BY <2>9 DEF UserEdits
    <3> QED BY <3>2, <3>3 DEF LoadInv, Unloaded
  <2>10. CASE UNCHANGED vars
    BY <2>10 DEF vars, store_vars, LoadInv, Unloaded
  <2> QED BY <2>1, <2>2, <2>3, <2>4, <2>5, <2>6, <2>7, <2>8, <2>9, <2>10 DEF Next
<1>3. IInv /\ LoadInv => TypeOK
  BY DEF IInv, TypeInv, LoadInv, TypeOK
<1> QED BY <1>1, <1>2, <1>3, Inductive, PTL DEF Spec


-----------------------------------------------------------------------------
(* The load of the config directory                                        *)

Texted(d) ==
  /\ d \in [Names -> UNION {Contents[f] : f \in Names}]
  /\ \A f \in Names : d[f] \in Contents[f]

(* The directory that is loaded is there from the first step on. *)
DiskInv ==
  /\ disk = Missing \/ Texted(disk)
  /\ stage \notin {"idle", "MissingConfigDir"} => Texted(disk)

SeenInv ==
  /\ seen \in [Names -> {Missing} \cup UNION {Contents[f] : f \in Names}]
  /\ \A f \in Names : seen[f] = Missing \/ seen[f] \in Contents[f] \ {Directory}

(* What the other profiles inherit from is default.yml as it was read. *)
DefaultInv ==
  /\ stage \in {"dir", "entries", "loaded"} =>
       /\ seen[DefaultFile] \notin {Missing, Directory}
       /\ Loads(seen[DefaultFile], None)
       /\ default_profile = load_from_path(DefaultFile, seen[DefaultFile], None)
  /\ stage = "LoadFailed" => ~Loads(seen[DefaultFile], None)

Seen == {f \in Names \ {DefaultFile} : seen[f] # Missing}
Usable == {f \in Seen : Loads(seen[f], default_profile)}
Profiles == {load_from_path(f, seen[f], default_profile) : f \in Usable}

(* Each file that was read is a profile or reported, once. *)
EntriesInv ==
  /\ stage \in {"idle", "default", "dir", "LoadFailed"} =>
       custom_profiles = <<>> /\ non_fatal_errors = <<>> /\ Seen = {}
  /\ stage \in {"entries", "loaded"} =>
       /\ custom_profiles \in Seq(Profiles)
       /\ non_fatal_errors \in Seq(Seen \ Usable)
       /\ Usable \subseteq {custom_profiles[i].source_path : i \in DOMAIN custom_profiles}
       /\ Seen \ Usable \subseteq {non_fatal_errors[i] : i \in DOMAIN non_fatal_errors}
       /\ Len(custom_profiles) + Len(non_fatal_errors) = Cardinality(Seen)

(* What is still to be yielded was not read; without edits, what was      *)
(* yielded was read if it is a YAML file.                                 *)
YieldInv ==
  /\ stage \in {"entries", "loaded"} => todo \cap Seen = {}
  /\ stage = "loaded" => todo = {}
  /\ stage \in {"entries", "loaded"} /\ edits = 0 =>
       \A f \in Names \ (todo \cup {DefaultFile}) :
         f \in Seen <=> f \in Supported /\ IsFile(f)

StoreInv == DiskInv /\ SeenInv /\ DefaultInv /\ EntriesInv /\ YieldInv


LEMMA SameFiles ==
  ASSUME UNCHANGED <<seen, default_profile>>
  PROVE  Seen' = Seen /\ Usable' = Usable /\ Profiles' = Profiles
BY DEF Seen, Usable, Profiles

LEMMA SameStore ==
  ASSUME StoreInv, UNCHANGED store_vars
  PROVE  StoreInv'
<1>1. UNCHANGED <<disk, stage, todo, default_profile, custom_profiles, non_fatal_errors, seen, edits>>
  BY DEF store_vars
<1>2. Seen' = Seen /\ Usable' = Usable /\ Profiles' = Profiles
  BY <1>1, SameFiles
<1>3. DiskInv' /\ SeenInv' /\ DefaultInv'
  BY <1>1 DEF StoreInv, DiskInv, SeenInv, DefaultInv, Texted
<1>4. EntriesInv' /\ YieldInv'
  BY <1>1, <1>2 DEF StoreInv, EntriesInv, YieldInv, IsFile
<1> QED BY <1>3, <1>4 DEF StoreInv

(* The steps before the entries are read, and the errors *)
LEMMA OpeningStep ==
  ASSUME StoreInv, OpenConfigDir \/ NoDefault \/ ReadDir \/ ReadDirFails \/ EndOfDir
  PROVE  StoreInv'
<1>1. UNCHANGED <<disk, default_profile, custom_profiles, non_fatal_errors, seen, edits>>
  BY DEF OpenConfigDir, NoDefault, ReadDir, ReadDirFails, EndOfDir
<1>2. Seen' = Seen /\ Usable' = Usable /\ Profiles' = Profiles
  BY <1>1, SameFiles
<1>3. SeenInv'
  BY <1>1 DEF StoreInv, SeenInv
<1>4. Usable \subseteq Seen
  BY DEF Usable
<1>5. CASE OpenConfigDir
  <2>1. stage = "idle" /\ stage' = IF disk = Missing THEN "MissingConfigDir" ELSE "default"
    BY <1>5 DEF OpenConfigDir
  <2>2. DiskInv' /\ DefaultInv'
    BY <1>1, <2>1 DEF StoreInv, DiskInv, DefaultInv, Texted
  <2>3. EntriesInv' /\ YieldInv'
    BY <1>1, <1>2, <2>1 DEF StoreInv, EntriesInv, YieldInv
  <2> QED BY <1>3, <2>2, <2>3 DEF StoreInv
<1>6. CASE NoDefault
  <2>1. stage = "default" /\ stage' = "MissingDefault"
    BY <1>6 DEF NoDefault
  <2>2. DiskInv' /\ DefaultInv' /\ EntriesInv' /\ YieldInv'
    BY <1>1, <2>1 DEF StoreInv, DiskInv, DefaultInv, EntriesInv, YieldInv, Texted
  <2> QED BY <1>3, <2>2 DEF StoreInv
<1>7. CASE ReadDir
  <2>1. stage = "dir" /\ stage' = "entries" /\ todo' = Names
    BY <1>7 DEF ReadDir
  <2>2. DiskInv' /\ DefaultInv'
    BY <1>1, <2>1 DEF StoreInv, DiskInv, DefaultInv, Texted
  <2>3. custom_profiles = <<>> /\ non_fatal_errors = <<>> /\ Seen = {} /\ Usable = {}
    BY <1>4, <2>1 DEF StoreInv, EntriesInv
  <2>4. EntriesInv'
    <3>1. Cardinality(Seen) = 0
      BY <2>3, FS_EmptySet
    <3> QED BY <1>1, <1>2, <2>1, <2>3, <3>1 DEF EntriesInv
  <2>5. YieldInv'
    BY <1>2, <2>1, <2>3 DEF YieldInv
  <2> QED BY <1>3, <2>2, <2>4, <2>5 DEF StoreInv
<1>8. CASE ReadDirFails
  <2>1. stage \in {"dir", "entries"} /\ stage' = "IOError"
    BY <1>8 DEF ReadDirFails
  <2>2. DiskInv' /\ DefaultInv' /\ EntriesInv' /\ YieldInv'
    BY <1>1, <2>1 DEF StoreInv, DiskInv, DefaultInv, EntriesInv, YieldInv, Texted
  <2> QED BY <1>3, <2>2 DEF StoreInv
<1>9. CASE EndOfDir
  <2>1. stage = "entries" /\ stage' = "loaded" /\ todo = {} /\ todo' = todo
    BY <1>9 DEF EndOfDir
  <2>2. DiskInv' /\ DefaultInv'
    BY <1>1, <2>1 DEF StoreInv, DiskInv, DefaultInv, Texted
  <2>3. EntriesInv'
    BY <1>1, <1>2, <2>1 DEF StoreInv, EntriesInv
  <2>4. YieldInv'
    BY <1>1, <1>2, <2>1 DEF StoreInv, YieldInv, IsFile
  <2> QED BY <1>3, <2>2, <2>3, <2>4 DEF StoreInv
<1> QED BY <1>5, <1>6, <1>7, <1>8, <1>9

LEMMA DefaultStep ==
  ASSUME StoreInv, LoadDefault
  PROVE  StoreInv'
<1>1. /\ stage = "default" /\ IsFile(DefaultFile)
      /\ seen' = [seen EXCEPT ![DefaultFile] = disk[DefaultFile]]
      /\ UNCHANGED <<disk, todo, custom_profiles, non_fatal_errors, edits>>
      /\ stage' \in {"dir", "LoadFailed"}
  BY DEF LoadDefault
<1>2. DefaultFile \in Names
  BY NamesAssumption
<1>3. seen'[DefaultFile] = disk[DefaultFile] /\ \A f \in Names \ {DefaultFile} : seen'[f] = seen[f]
  BY <1>1, <1>2 DEF StoreInv, SeenInv
<1>4. Seen' = {}
  BY <1>1, <1>3 DEF StoreInv, EntriesInv, Seen
<1>5. Texted(disk)
  BY <1>1 DEF StoreInv, DiskInv
<1>6. DiskInv'
  BY <1>1, <1>5 DEF DiskInv, Texted
<1>7. SeenInv'
  BY <1>1, <1>2, <1>3, <1>5 DEF StoreInv, SeenInv, Texted, IsFile
<1>8. DefaultInv'
  <2>1. CASE Loads(disk[DefaultFile], None)
    BY <1>1, <1>3, <2>1 DEF LoadDefault, DefaultInv, IsFile
  <2>2. CASE ~Loads(disk[DefaultFile], None)
    BY <1>3, <2>2 DEF LoadDefault, DefaultInv
  <2> QED BY <2>1, <2>2
<1>9. EntriesInv' /\ YieldInv'
  BY <1>1, <1>4 DEF StoreInv, EntriesInv, YieldInv
<1> QED BY <1>6, <1>7, <1>8, <1>9 DEF StoreInv

(* The step of one entry: a profile, a report, or neither *)
LEMMA EntryStep ==
  ASSUME StoreInv, NEW f \in Names, SkipEntry(f) \/ LoadProfile(f) \/ ReportProfile(f)
  PROVE  StoreInv'
<1>1. /\ stage = "entries" /\ f \in todo /\ todo' = todo \ {f}
      /\ UNCHANGED <<disk, stage, default_profile, edits>>
  BY DEF SkipEntry, LoadProfile, ReportProfile, Yield
<1>2. Texted(disk) /\ DiskInv'
  BY <1>1 DEF StoreInv, DiskInv, Texted
<1>3. CASE SkipEntry(f)
  <2>1. UNCHANGED <<custom_profiles, non_fatal_errors, seen>> /\ ~IsProfile(f)
    BY <1>3 DEF SkipEntry
  <2>2. Seen' = Seen /\ Usable' = Usable /\ Profiles' = Profiles
    BY <1>1, <2>1, SameFiles
  <2>3. SeenInv' /\ DefaultInv' /\ EntriesInv'
    BY <1>1, <2>1, <2>2 DEF StoreInv, SeenInv, DefaultInv, EntriesInv
  <2>4. YieldInv'
    BY <1>1, <2>1, <2>2 DEF StoreInv, YieldInv, IsFile, IsProfile
  <2> QED BY <1>2, <2>3, <2>4 DEF StoreInv
<1>4. CASE LoadProfile(f) \/ ReportProfile(f)
  <2>1. IsProfile(f) /\ seen' = [seen EXCEPT ![f] = disk[f]]
    BY <1>4 DEF LoadProfile, ReportProfile
  <2>2. f # DefaultFile /\ f \in Supported /\ disk[f] \notin {Missing, Directory} /\ IsFile(f)
    BY <2>1 DEF IsProfile, IsFile
  <2>3. seen'[f] = disk[f] /\ \A g \in Names \ {f} : seen'[g] = seen[g]
    BY <2>1 DEF StoreInv, SeenInv
  <2>4. f \notin Seen /\ Seen' = Seen \cup {f}
    BY <1>1, <2>2, <2>3 DEF StoreInv, YieldInv, Seen
  <2>5. SeenInv' /\ DefaultInv'
    <3>1. DefaultFile \in Names \ {f}
      BY <2>2, NamesAssumption
    <3>2. SeenInv'
      BY <1>2, <2>1, <2>2, <2>3 DEF StoreInv, SeenInv, Texted
    <3>3. DefaultInv'
      BY <1>1, <2>3, <3>1 DEF StoreInv, DefaultInv
    <3> QED BY <3>2, <3>3
  <2>6. YieldInv'
    BY <1>1, <2>2, <2>4 DEF StoreInv, YieldInv, IsFile
  <2>7. /\ Seen \in SUBSET Names /\ IsFiniteSet(Seen)
        /\ Cardinality(Seen \cup {f}) = Cardinality(Seen) + 1 /\ Cardinality(Seen) \in Nat
    <3>1. Seen \in SUBSET Names
      BY DEF Seen
    <3>2. IsFiniteSet(Seen)
      BY <3>1, NamesAssumption, FS_Subset
    <3> QED BY <2>4, <3>1, <3>2, FS_AddElement, FS_CardinalityType
  <2>8. Usable \subseteq Seen /\ Usable' = IF Loads(disk[f], default_profile) THEN Usable \cup {f} ELSE Usable
    BY <1>1, <2>3, <2>4 DEF Usable, Seen
  <2>9. \A g \in Usable : load_from_path(g, seen[g], default_profile)
                            = load_from_path(g, seen'[g], default_profile')
    BY <1>1, <2>3, <2>4, <2>8 DEF Seen
  <2>10. Profiles \subseteq Profiles'
    BY <2>8, <2>9 DEF Profiles
  <2>11. /\ custom_profiles \in Seq(Profiles)
         /\ non_fatal_errors \in Seq(Seen \ Usable)
         /\ Usable \subseteq {custom_profiles[i].source_path : i \in DOMAIN custom_profiles}
         /\ Seen \ Usable \subseteq {non_fatal_errors[i] : i \in DOMAIN non_fatal_errors}
         /\ Len(custom_profiles) + Len(non_fatal_errors) = Cardinality(Seen)
    BY <1>1 DEF StoreInv, EntriesInv
  <2>12. CASE LoadProfile(f)
    <3> DEFINE profile == load_from_path(f, disk[f], default_profile)
    <3>1. /\ Loads(disk[f], default_profile) /\ UNCHANGED non_fatal_errors
          /\ custom_profiles' = Append(custom_profiles, profile)
      BY <2>12 DEF LoadProfile
    <3>2. Usable' = Usable \cup {f}
      BY <2>8, <3>1
    <3>3. profile \in Profiles' /\ profile.source_path = f
      BY <1>1, <2>3, <3>2 DEF Profiles, load_from_path
    <3>4. Seen' \ Usable' = Seen \ Usable
      BY <2>4, <3>2
    <3> HIDE DEF profile
    <3>5. custom_profiles \in Seq(Profiles')
      BY <2>10, <2>11
    <3>6. custom_profiles' \in Seq(Profiles') /\ Len(custom_profiles') = Len(custom_profiles) + 1
      BY <3>1, <3>3, <3>5
    <3>7. /\ \A i \in DOMAIN custom_profiles : i \in DOMAIN custom_profiles' /\ custom_profiles'[i] = custom_profiles[i]
          /\ Len(custom_profiles') \in DOMAIN custom_profiles' /\ custom_profiles'[Len(custom_profiles')] = profile
      BY <3>1, <3>3, <3>5
    <3>8. Usable' \subseteq {custom_profiles'[i].source_path : i \in DOMAIN custom_profiles'}
      BY <2>11, <3>2, <3>3, <3>7
    <3>9. Len(custom_profiles') + Len(non_fatal_errors') = Cardinality(Seen')
      <4>1. Len(custom_profiles) \in Nat /\ Len(non_fatal_errors) \in Nat
        BY <2>11
      <4> QED BY <2>4, <2>7, <2>11, <3>1, <3>6, <4>1
    <3>10. EntriesInv'
      BY <1>1, <2>11, <3>1, <3>4, <3>6, <3>8, <3>9 DEF EntriesInv
    <3> QED BY <1>2, <2>5, <2>6, <3>10 DEF StoreInv
  <2>13. CASE ReportProfile(f)
    <3>1. /\ ~Loads(disk[f], default_profile) /\ UNCHANGED custom_profiles
          /\ non_fatal_errors' = Append(non_fatal_errors, f)
      BY <2>13 DEF ReportProfile
    <3>2. Usable' = Usable /\ Seen' \ Usable' = (Seen \ Usable) \cup {f}
      BY <2>4, <2>8, <3>1
    <3>3. custom_profiles' \in Seq(Profiles')
      BY <2>10, <2>11, <3>1
    <3>4. non_fatal_errors \in Seq((Seen \ Usable) \cup {f})
      BY <2>11
    <3>5. /\ non_fatal_errors' \in Seq((Seen \ Usable) \cup {f})
          /\ Len(non_fatal_errors') = Len(non_fatal_errors) + 1
      BY <3>1, <3>4
    <3>6. /\ \A i \in DOMAIN non_fatal_errors : i \in DOMAIN non_fatal_errors' /\ non_fatal_errors'[i] = non_fatal_errors[i]
          /\ Len(non_fatal_errors') \in DOMAIN non_fatal_errors' /\ non_fatal_errors'[Len(non_fatal_errors')] = f
      BY <3>1, <3>4
    <3>7. Seen' \ Usable' \subseteq {non_fatal_errors'[i] : i \in DOMAIN non_fatal_errors'}
      BY <2>11, <3>2, <3>6
    <3>8. Len(custom_profiles') + Len(non_fatal_errors') = Cardinality(Seen')
      <4>1. Len(custom_profiles) \in Nat /\ Len(non_fatal_errors) \in Nat
        BY <2>11
      <4> QED BY <2>4, <2>7, <2>11, <3>1, <3>5, <4>1
    <3>9. Usable' \subseteq {custom_profiles'[i].source_path : i \in DOMAIN custom_profiles'}
      BY <2>11, <3>1, <3>2
    <3>10. EntriesInv'
      BY <1>1, <3>2, <3>3, <3>5, <3>7, <3>8, <3>9 DEF EntriesInv
    <3> QED BY <1>2, <2>5, <2>6, <3>10 DEF StoreInv
  <2> QED BY <1>4, <2>12, <2>13
<1> QED BY <1>3, <1>4


LEMMA StopStep ==
  ASSUME StoreInv, Stop
  PROVE  StoreInv'
<1>1. /\ stage' = "idle" /\ custom_profiles' = <<>> /\ non_fatal_errors' = <<>>
      /\ seen' = Unread /\ disk' = disk
  BY DEF Stop
<1>2. Seen' = {}
  BY <1>1 DEF Seen, Unread
<1>3. SeenInv'
  BY <1>1 DEF SeenInv, Unread
<1>4. DiskInv'
  <2>1. disk = Missing \/ Texted(disk)
    BY DEF StoreInv, DiskInv
  <2> QED BY <1>1, <2>1 DEF DiskInv, Texted
<1>5. DefaultInv' /\ EntriesInv' /\ YieldInv'
  BY <1>1, <1>2 DEF DefaultInv, EntriesInv, YieldInv
<1> QED BY <1>3, <1>4, <1>5 DEF StoreInv

LEMMA EditStep ==
  ASSUME StoreInv, edits \in Nat, NEW f \in Names, NEW content \in Contents[f], Edit(f, content)
  PROVE  StoreInv'
<1>1. /\ stage \in {"default", "dir", "entries"} /\ edits' = edits + 1
      /\ disk' = [disk EXCEPT ![f] = content]
      /\ UNCHANGED <<stage, todo, default_profile, custom_profiles, non_fatal_errors, seen>>
  BY DEF Edit
<1>2. Seen' = Seen /\ Usable' = Usable /\ Profiles' = Profiles
  BY <1>1, SameFiles
<1>3. Texted(disk)
  BY <1>1 DEF StoreInv, DiskInv
<1>4. Texted(disk')
  <2>1. disk' \in [Names -> UNION {Contents[g] : g \in Names}]
    BY <1>1, <1>3 DEF Texted
  <2>2. \A g \in Names : disk'[g] \in Contents[g]
    BY <1>1, <1>3 DEF Texted
  <2> QED BY <2>1, <2>2 DEF Texted
<1>5. DiskInv'
  BY <1>4 DEF DiskInv, Texted
<1>6. SeenInv' /\ DefaultInv' /\ EntriesInv'
  BY <1>1, <1>2 DEF StoreInv, SeenInv, DefaultInv, EntriesInv
<1>7. YieldInv'
  BY <1>1, <1>2 DEF StoreInv, YieldInv
<1> QED BY <1>5, <1>6, <1>7 DEF StoreInv

LEMMA StoreIsRight == Spec => []StoreInv
<1>1. Init => StoreInv
  <2> SUFFICES ASSUME Init PROVE StoreInv
    OBVIOUS
  <2>1. Unloaded /\ (disk = Missing \/ Texted(disk))
    BY DEF Init, Texted
  <2>2. Seen = {}
    BY <2>1 DEF Unloaded, Unread, Seen
  <2>3. SeenInv
    BY <2>1 DEF Unloaded, Unread, SeenInv
  <2> QED BY <2>1, <2>2, <2>3 DEF Unloaded, StoreInv, DiskInv, DefaultInv, EntriesInv, YieldInv
<1>2. TypeOK /\ StoreInv /\ [Next]_vars => StoreInv'
  <2> SUFFICES ASSUME TypeOK, StoreInv, [Next]_vars PROVE StoreInv'
    OBVIOUS
  <2>1. CASE Load
    <3>1. LoadStep
      BY <2>1 DEF Load
    <3> QED BY <3>1, OpeningStep, DefaultStep, EntryStep DEF LoadStep
  <2>2. CASE Stop
    BY <2>2, StopStep
  <2>3. CASE UserEdits
    <3>1. edits \in Nat
      BY EditsAssumption DEF TypeOK
    <3> QED BY <2>3, <3>1, EditStep DEF UserEdits
  <2>4. CASE Start \/ LoadFails \/ Ready \/ UNCHANGED vars
    <3>1. UNCHANGED store_vars
      BY <2>4 DEF Start, LoadFails, Ready, Panic, vars
    <3> QED BY <3>1, SameStore
  <2>5. CASE ResolveConfig \/ ResolveRuntime \/ ResolvePackages
    <3>1. UNCHANGED store_vars
      BY <2>5 DEF ResolveConfig, ResolveRuntime, ResolvePackages, Named, Found, Made, Take, Panic
    <3> QED BY <3>1, SameStore
  <2> QED BY <2>1, <2>2, <2>3, <2>4, <2>5 DEF Next
<1> QED BY <1>1, <1>2, TypeCorrect, PTL DEF Spec

-----------------------------------------------------------------------------
(* What a profile has inherited                                            *)

(* The value of a field, in terms of what the files say *)
Field(f, k) ==
  IF k = "keyboard_layout" /\ Effective(f, k) # None THEN StringPairs(Effective(f, k))
  ELSE Effective(f, k)

Own(f, k) ==
  IF k = "key_delay" THEN FirstOf(Written(f, "key_delay"), Written(f, "backspace_delay"))
  ELSE Written(f, k)

LEMMA EffectiveIs ==
  ASSUME NEW f, NEW k
  PROVE  Effective(f, k) = FirstOf(Own(f, k), Own(DefaultFile, k))
BY DEF Effective, Own

LEMMA WrittenIs ==
  ASSUME NEW f, NEW k
  PROVE  Given(parse_from_str(seen[f]), k) = Written(f, k)
<1>1. DOMAIN <<>> = {}
  OBVIOUS
<1>2. CASE seen[f] = Empty
  BY <1>1, <1>2 DEF parse_from_str, Written, Given
<1>3. CASE seen[f] # Empty
  BY <1>3 DEF parse_from_str, Written
<1> QED BY <1>2, <1>3

(* What try_from makes of the keys of a file *)
LEMMA ConvertedIs ==
  ASSUME NEW f, NEW k \in ParsedConfig
  PROVE  try_from(parse_from_str(seen[f]))[k]
           = IF k = "keyboard_layout" /\ Own(f, k) # None THEN StringPairs(Own(f, k)) ELSE Own(f, k)
<1> DEFINE yaml == parse_from_str(seen[f])
<1>1. \A key : Given(yaml, key) = Written(f, key)
  BY WrittenIs
<1>2. Given(yaml, k) # None => yaml[k] = Given(yaml, k)
  BY DEF Given
<1> HIDE DEF yaml
<1>3. ASSUME k = "key_delay", Given(yaml, k) = None
      PROVE  try_from(yaml)[k] = Given(yaml, "backspace_delay")
  BY <1>3 DEF try_from
<1>4. ASSUME k = "keyboard_layout", Given(yaml, k) # None
      PROVE  try_from(yaml)[k] = StringPairs(yaml[k])
  BY <1>4 DEF try_from
<1>5. ASSUME ~(k = "key_delay" /\ Given(yaml, k) = None),
             ~(k = "keyboard_layout" /\ Given(yaml, k) # None)
      PROVE  try_from(yaml)[k] = Given(yaml, k)
  BY <1>5 DEF try_from
<1>6. try_from(yaml)[k]
        = IF k = "keyboard_layout" /\ Own(f, k) # None THEN StringPairs(Own(f, k)) ELSE Own(f, k)
  <2>1. CASE k = "key_delay"
    BY <1>1, <1>3, <1>5, <2>1 DEF Own, FirstOf
  <2>2. CASE k = "keyboard_layout"
    BY <1>1, <1>2, <1>4, <1>5, <2>2 DEF Own
  <2>3. CASE k \notin {"key_delay", "keyboard_layout"}
    BY <1>1, <1>5, <2>3 DEF Own
  <2> QED BY <2>1, <2>2, <2>3
<1> QED BY <1>6 DEF yaml


(* What default.yml says is found, in a file that parses *)
LEMMA DefaultIs ==
  ASSUME StoreInv, stage \in {"dir", "entries", "loaded"}
  PROVE  /\ default_profile # None
         /\ default_profile = load_from_path(DefaultFile, seen[DefaultFile], None)
         /\ seen[DefaultFile] \in Texts(DefaultFile) \cup {Empty}
<1>1. /\ seen[DefaultFile] \notin {Missing, Directory}
      /\ Loads(seen[DefaultFile], None)
      /\ default_profile = load_from_path(DefaultFile, seen[DefaultFile], None)
  BY DEF StoreInv, DefaultInv
<1>2. DefaultFile \in Names
  BY NamesAssumption
<1>3. seen[DefaultFile] \in Contents[DefaultFile] /\ seen[DefaultFile] # Broken
  BY <1>1, <1>2 DEF StoreInv, SeenInv, Loads
<1> QED BY <1>1, <1>3, TextsAssumption DEF Texts

(* A layout that is given is a layout without its other values, too. *)
LEMMA LayoutIsThere ==
  ASSUME NEW f \in Names, seen[f] \in Texts(f) \cup {Empty},
         Written(f, "keyboard_layout") # None
  PROVE  StringPairs(Written(f, "keyboard_layout")) # None
<1>1. seen[f] # Empty /\ Given(seen[f], "keyboard_layout") = Written(f, "keyboard_layout")
  BY DEF Written
<1>2. seen[f] \in Texts(f)
  BY <1>1
<1>3. seen[f]["keyboard_layout"] = Given(seen[f], "keyboard_layout")
  BY <1>1 DEF Given
<1> QED BY <1>1, <1>2, <1>3, TextsAssumption

LEMMA DefaultContent ==
  ASSUME NEW k \in ParsedConfig
  PROVE  Config(seen[DefaultFile], None)[k] = Field(DefaultFile, k)
<1>1. Effective(DefaultFile, k) = Own(DefaultFile, k)
  BY EffectiveIs DEF FirstOf
<1> QED BY <1>1, ConvertedIs DEF Config, Field

LEMMA CustomContent ==
  ASSUME StoreInv, stage \in {"entries", "loaded"}, NEW f \in Names,
         seen[f] \notin {Missing, Broken}, NEW k \in ParsedConfig
  PROVE  Config(seen[f], default_profile)[k] = Field(f, k)
<1> DEFINE own == try_from(parse_from_str(seen[f]))
<1>0. seen[f] \in Texts(f) \cup {Empty}
  BY DEF StoreInv, SeenInv, Texts
<1>1. default_profile # None /\ default_profile.content = Config(seen[DefaultFile], None)
  BY DefaultIs DEF load_from_path
<1>2. Config(seen[f], default_profile) = inherit(own, default_profile.content)
  BY <1>1 DEF Config
<1>3. own[k] = IF k = "keyboard_layout" /\ Own(f, k) # None THEN StringPairs(Own(f, k)) ELSE Own(f, k)
  BY ConvertedIs
<1> HIDE DEF own
<1>4. Config(seen[f], default_profile)[k] = IF own[k] = None THEN Field(DefaultFile, k) ELSE own[k]
  BY <1>1, <1>2, DefaultContent DEF inherit
<1>5. /\ Effective(f, k) = FirstOf(Own(f, k), Own(DefaultFile, k))
      /\ Effective(DefaultFile, k) = FirstOf(Own(DefaultFile, k), Own(DefaultFile, k))
  BY EffectiveIs
<1>6. CASE k # "keyboard_layout"
  BY <1>3, <1>4, <1>5, <1>6 DEF Field, FirstOf
<1>7. CASE k = "keyboard_layout"
  <2>1. Own(f, k) = Written(f, "keyboard_layout")
    BY <1>7 DEF Own
  <2>2. Own(f, k) # None => StringPairs(Own(f, k)) # None
    BY <1>0, <2>1, LayoutIsThere
  <2> QED BY <1>3, <1>4, <1>5, <1>7, <2>2 DEF Field, FirstOf
<1> QED BY <1>6, <1>7

(* The names of the filters, and what they are in a profile *)
LEMMA FilterNames ==
  /\ \A a \in AppProperties : FilterOf[a] \in ParsedConfig /\ FilterOf[a] # "keyboard_layout"
BY DEF AppProperties, FilterOf, ParsedConfig

LEMMA FiltersAre ==
  ASSUME NEW f, NEW config, \A k \in ParsedConfig : config[k] = Field(f, k)
  PROVE  /\ \A a \in AppProperties : Filters(config)[a] = Effective(f, FilterOf[a])
         /\ Compiles(config) <=> \A a \in AppProperties : Effective(f, FilterOf[a]) \notin BadRegexes
<1>1. \A a \in AppProperties : Filters(config)[a] = Effective(f, FilterOf[a])
  BY FilterNames DEF Filters, Field
<1> QED BY <1>1 DEF Compiles

(* A file is a profile exactly if it parses and its filters compile. *)
LEMMA UsableIs ==
  ASSUME StoreInv, stage \in {"entries", "loaded"}, NEW f \in Seen
  PROVE  Loads(seen[f], default_profile) <=> IsUsable(f)
<1>1. CASE seen[f] = Broken
  BY <1>1 DEF Loads, IsUsable
<1>2. CASE seen[f] # Broken
  <2>1. \A k \in ParsedConfig : Config(seen[f], default_profile)[k] = Field(f, k)
    BY <1>2, CustomContent DEF Seen
  <2> QED BY <1>2, <2>1, FiltersAre DEF Loads, IsUsable
<1> QED BY <1>1, <1>2

LEMMA DefaultUsable ==
  Loads(seen[DefaultFile], None) <=> IsUsable(DefaultFile)
<1>1. \A k \in ParsedConfig : Config(seen[DefaultFile], None)[k] = Field(DefaultFile, k)
  BY DefaultContent
<1> QED BY <1>1, FiltersAre DEF Loads, IsUsable

LEMMA ProfilesAre ==
  ASSUME StoreInv, stage \in {"entries", "loaded"}, NEW p \in Loaded
  PROVE  /\ p.source_path \in {DefaultFile} \cup Usable
         /\ p.source_path = DefaultFile <=> p = default_profile
         /\ \A k \in ParsedConfig : p.content[k] = Field(p.source_path, k)
         /\ p.match_file_paths = generate_match_paths(p.content)
         /\ \A a \in AppProperties : p.filter[a] = Effective(p.source_path, FilterOf[a])
         /\ seen[p.source_path] \in Texts(p.source_path) \cup {Empty}
<1>1. CASE p = default_profile
  <2> DEFINE config == Config(seen[DefaultFile], None)
  <2>1. /\ p.source_path = DefaultFile /\ p.content = config
        /\ p.match_file_paths = generate_match_paths(config) /\ p.filter = Filters(config)
    BY <1>1, DefaultIs DEF load_from_path
  <2>2. \A k \in ParsedConfig : config[k] = Field(DefaultFile, k)
    BY DefaultContent
  <2> HIDE DEF config
  <2>3. \A a \in AppProperties : Filters(config)[a] = Effective(DefaultFile, FilterOf[a])
    BY <2>2, FiltersAre
  <2> QED BY <1>1, <2>1, <2>2, <2>3, DefaultIs
<1>2. CASE p # default_profile
  <2>1. p \in Profiles
    BY <1>2 DEF Loaded, StoreInv, EntriesInv
  <2>2. PICK f \in Usable : p = load_from_path(f, seen[f], default_profile)
    BY <2>1 DEF Profiles
  <2> DEFINE config == Config(seen[f], default_profile)
  <2>3. /\ p.source_path = f /\ p.content = config
        /\ p.match_file_paths = generate_match_paths(config) /\ p.filter = Filters(config)
    BY <2>2 DEF load_from_path
  <2>4. f \in Names /\ f # DefaultFile /\ seen[f] \notin {Missing, Broken}
    BY DEF Usable, Seen, Loads
  <2>5. \A k \in ParsedConfig : config[k] = Field(f, k)
    BY <2>4, CustomContent
  <2> HIDE DEF config
  <2>6. \A a \in AppProperties : Filters(config)[a] = Effective(f, FilterOf[a])
    BY <2>5, FiltersAre
  <2>7. seen[f] \in Texts(f) \cup {Empty}
    BY <2>4 DEF StoreInv, SeenInv, Texts
  <2> QED BY <1>2, <2>3, <2>4, <2>5, <2>6, <2>7
<1> QED BY <1>1, <1>2


(* Additional files are loaded best-effort: a file that is read becomes a  *)
(* profile or is reported, and is reported only if it or what it inherits  *)
(* is of no use (LoadedProfileStore::load).                                *)
THEOREM LoadIsBestEffort == Spec => []BestEffort
<1>1. TypeOK /\ StoreInv => BestEffort
  <2> SUFFICES ASSUME TypeOK, StoreInv PROVE BestEffort
    OBVIOUS
  <2> DEFINE profiles == {custom_profiles[i].source_path : i \in DOMAIN custom_profiles}
             reported == {non_fatal_errors[i] : i \in DOMAIN non_fatal_errors}
  <2>1. ASSUME stage \in {"entries", "loaded"}
        PROVE  /\ profiles = {f \in Seen : IsUsable(f)}
               /\ reported = Seen \ profiles
               /\ Len(custom_profiles) + Len(non_fatal_errors) = Cardinality(Seen)
    <3>1. /\ custom_profiles \in Seq(Profiles)
          /\ non_fatal_errors \in Seq(Seen \ Usable)
          /\ Usable \subseteq profiles
          /\ Seen \ Usable \subseteq reported
          /\ Len(custom_profiles) + Len(non_fatal_errors) = Cardinality(Seen)
      BY <2>1 DEF StoreInv, EntriesInv
    <3>2. \A p \in Profiles : p.source_path \in Usable
      BY DEF Profiles, load_from_path
    <3>3. profiles = Usable
      BY <3>1, <3>2
    <3>4. reported = Seen \ Usable
      BY <3>1
    <3>5. Usable = {f \in Seen : IsUsable(f)}
      BY <2>1, UsableIs DEF Usable
    <3> HIDE DEF profiles, reported
    <3> QED BY <3>1, <3>3, <3>4, <3>5
  <2>2. ASSUME stage = "loaded", edits = 0
        PROVE  Seen = {f \in Supported \ {DefaultFile} : IsFile(f)}
    <3>1. \A f \in Names \ {DefaultFile} : f \in Seen <=> f \in Supported /\ IsFile(f)
      BY <2>2 DEF StoreInv, YieldInv
    <3> QED BY <3>1, NamesAssumption DEF Seen
  <2>3. stage = "LoadFailed" => ~IsUsable(DefaultFile)
    BY DefaultUsable DEF StoreInv, DefaultInv
  <2> HIDE DEF profiles, reported
  <2>4. Seen = {f \in Names \ {DefaultFile} : seen[f] # Missing}
    BY DEF Seen
  <2> QED BY <2>1, <2>2, <2>3, <2>4 DEF BestEffort, profiles, reported
<1> QED BY <1>1, TypeCorrect, StoreIsRight, PTL

-----------------------------------------------------------------------------
(* Settings and match files                                                *)

LEMMA SettingNames ==
  /\ Settings \subseteq ParsedConfig
  /\ "label" \in ParsedConfig /\ "use_standard_includes" \in ParsedConfig
  /\ {"includes", "extra_includes", "excludes", "extra_excludes"} \subseteq ParsedConfig
<1>1. DOMAIN BuiltIn \subseteq ParsedConfig
  BY DEF BuiltIn, ParsedConfig
<1>2. Options \subseteq ParsedConfig
  BY DEF Options, ParsedConfig
<1> QED BY <1>1, <1>2 DEF Settings, ParsedConfig

(* A layout keeps the values that are strings. *)
LEMMA LayoutIs ==
  ASSUME NEW value
  PROVE  [k \in RMLVOConfig |-> Given(StringPairs(value), k)] = Layout(value)
<1>1. ASSUME NEW k \in RMLVOConfig
      PROVE  Given(StringPairs(value), k)
               = IF k \in DOMAIN value /\ value[k] # NotString THEN value[k] ELSE None
  BY TextsAssumption DEF Given, StringPairs, Restriction
<1> QED BY <1>1 DEF Layout

LEMMA SettingIs ==
  ASSUME NEW f, NEW s \in Settings,
         s = "keyboard_layout" /\ Effective(f, s) # None => Field(f, s) # None
  PROVE  Interpret(s, Field(f, s)) = Meaning(f, s)
<1>1. CASE Effective(f, s) = None
  BY <1>1 DEF Field, Interpret, Meaning
<1>2. CASE Effective(f, s) # None /\ s = "keyboard_layout"
  <2>1. Interpret(s, Field(f, s)) = [k \in RMLVOConfig |-> Given(Field(f, s), k)]
    BY <1>2 DEF Interpret
  <2>2. Meaning(f, s) = Layout(Effective(f, s))
    BY <1>2 DEF Meaning
  <2> QED BY <1>2, <2>1, <2>2, LayoutIs DEF Field
<1>3. CASE Effective(f, s) # None /\ s \in {"search_trigger", "search_shortcut"}
  BY <1>3 DEF Field, Interpret, Meaning
<1>4. CASE Effective(f, s) # None /\ s \notin {"keyboard_layout", "search_trigger", "search_shortcut"}
  BY <1>4 DEF Field, Interpret, Meaning
<1> QED BY <1>1, <1>2, <1>3, <1>4


PatternKeys == {"includes", "excludes", "extra_includes", "extra_excludes"}

LEMMA PatternsKnown ==
  ASSUME NEW f \in Names, seen[f] \in Texts(f) \cup {Empty},
         seen[DefaultFile] \in Texts(DefaultFile) \cup {Empty},
         NEW key \in PatternKeys
  PROVE  Elements(Effective(f, key)) \subseteq DOMAIN Glob
<1>1. ASSUME NEW g \in Names, seen[g] \in Texts(g) \cup {Empty}
      PROVE  Elements(Written(g, key)) \subseteq DOMAIN Glob
  <2>1. CASE seen[g] = Empty
    BY <2>1 DEF Written, Elements
  <2>2. CASE seen[g] # Empty
    BY <1>1, <2>2, TextsAssumption DEF Written, PatternKeys
  <2> QED BY <2>1, <2>2
<1>2. Effective(f, key) \in {Written(f, key), Written(DefaultFile, key)}
  <2>1. key # "key_delay"
    BY DEF PatternKeys
  <2> QED BY <2>1, EffectiveIs DEF Own, FirstOf
<1>3. DefaultFile \in Names
  BY NamesAssumption
<1> QED BY <1>1, <1>2, <1>3

LEMMA MatchFilesAre ==
  ASSUME NEW f, NEW config, \A k \in ParsedConfig : config[k] = Field(f, k),
         \A key \in PatternKeys : Elements(Effective(f, key)) \subseteq DOMAIN Glob
  PROVE  generate_match_paths(config) = MatchFiles(f)
<1> DEFINE standard == IF Effective(f, "use_standard_includes") = FALSE THEN {} ELSE {Standard}
           In(key) == Elements(Effective(f, key))
           included == standard \cup Patterns(f, {"includes", "extra_includes"})
           excluded == Patterns(f, {"excludes", "extra_excludes"})
<1>1. \A k \in PatternKeys \cup {"use_standard_includes"} : config[k] = Effective(f, k)
  BY SettingNames DEF PatternKeys, Field
<1>2. /\ Patterns(f, {"includes", "extra_includes"}) = In("includes") \cup In("extra_includes")
      /\ Patterns(f, {"excludes", "extra_excludes"}) = In("excludes") \cup In("extra_excludes")
  BY DEF Patterns
<1>3. aggregate_includes(config) = included
  BY <1>1, <1>2 DEF aggregate_includes, PatternKeys
<1>4. aggregate_excludes(config) = excluded
  BY <1>1, <1>2 DEF aggregate_excludes, PatternKeys
<1>5. included \subseteq DOMAIN Glob /\ excluded \subseteq DOMAIN Glob
  BY <1>2, TextsAssumption DEF PatternKeys
<1>6. MatchFiles(f) =
        {p \in UNION {Glob[pattern] : pattern \in DOMAIN Glob} :
           (\E pattern \in included : p \in Glob[pattern])
             /\ ~(\E pattern \in excluded : p \in Glob[pattern])}
  BY DEF MatchFiles
<1> HIDE DEF included, excluded
<1>7. \A p : p \in generate_match_paths(config) <=>
        (\E pattern \in included : p \in Glob[pattern])
          /\ ~(\E pattern \in excluded : p \in Glob[pattern])
  BY <1>3, <1>4 DEF generate_match_paths, calculate_paths
<1> QED BY <1>5, <1>6, <1>7

(* Every setting of a loaded profile is what its file says, else what      *)
(* default.yml says, else the built-in value, whatever was edited while    *)
(* the files were read; its match files are those its patterns include     *)
(* and none excludes (ProfileFile, calculate_paths).                       *)
THEOREM WrittenIsMeant == Spec => []WrittenWins
<1>1. StoreInv => WrittenWins
  <2> SUFFICES ASSUME StoreInv, stage \in {"entries", "loaded"}, NEW p \in Loaded
               PROVE  LET f == p.source_path
                      IN /\ \A s \in Settings : setting(p, s) = Meaning(f, s)
                         /\ label(p) = FirstOf(Effective(f, "label"), f)
                         /\ p.match_file_paths = MatchFiles(f)
    BY DEF WrittenWins
  <2> DEFINE f == p.source_path
  <2>1. /\ f \in {DefaultFile} \cup Usable
        /\ \A k \in ParsedConfig : p.content[k] = Field(f, k)
        /\ p.match_file_paths = generate_match_paths(p.content)
        /\ seen[f] \in Texts(f) \cup {Empty}
    BY ProfilesAre
  <2>2. seen[DefaultFile] \in Texts(DefaultFile) \cup {Empty}
    BY DefaultIs
  <2>3. f \in Names /\ DefaultFile \in Names
    BY <2>1, NamesAssumption DEF Usable, Seen
  <2>4. \A s \in Settings : setting(p, s) = Meaning(f, s)
    <3> SUFFICES ASSUME NEW s \in Settings PROVE setting(p, s) = Meaning(f, s)
      OBVIOUS
    <3>1. setting(p, s) = Interpret(s, Field(f, s))
      BY <2>1, SettingNames DEF setting
    <3>2. ASSUME s = "keyboard_layout", Effective(f, s) # None PROVE Field(f, s) # None
      <4>1. \A g \in {f, DefaultFile} :
              Written(g, "keyboard_layout") # None => StringPairs(Written(g, "keyboard_layout")) # None
        BY <2>1, <2>2, <2>3, LayoutIsThere
      <4>2. Effective(f, s) \in {Written(f, s), Written(DefaultFile, s)}
        BY <3>2, EffectiveIs DEF Own, FirstOf
      <4> QED BY <3>2, <4>1, <4>2 DEF Field
    <3> QED BY <3>1, <3>2, SettingIs
  <2>5. label(p) = FirstOf(Effective(f, "label"), f)
    BY <2>1, SettingNames DEF label, FirstOf, Field
  <2>6. p.match_file_paths = MatchFiles(f)
    BY <2>1, <2>2, <2>3, PatternsKnown, MatchFilesAre
  <2> QED BY <2>4, <2>5, <2>6
<1> QED BY <1>1, StoreIsRight, PTL

(* The active profile of an application is one whose filters fit it, the   *)
(* default profile exactly if no other fits; without knowledge of the      *)
(* application it is the default profile (ProfileStore::active_config).    *)
THEOREM ActiveIsFitting == Spec => []ActiveFits
<1>1. StoreInv => ActiveFits
  <2> SUFFICES ASSUME StoreInv, stage = "loaded" PROVE ActiveFits
    BY DEF ActiveFits
  <2> DEFINE matching(app) == {i \in DOMAIN custom_profiles : is_match(custom_profiles[i].filter, app)}
             others == {p.source_path : p \in Loaded \ {default_profile}}
  <2>1. custom_profiles \in Seq(Profiles)
    BY DEF StoreInv, EntriesInv
  <2>2. \A i \in DOMAIN custom_profiles : custom_profiles[i] \in Loaded
    BY DEF Loaded
  <2>3. \A i \in DOMAIN custom_profiles : custom_profiles[i].source_path # DefaultFile
    BY <2>1 DEF Profiles, load_from_path, Usable, Seen
  <2>4. others = {custom_profiles[i].source_path : i \in DOMAIN custom_profiles}
    <3>1. default_profile.source_path = DefaultFile
      BY DefaultIs DEF load_from_path
    <3>2. Loaded \ {default_profile} = {custom_profiles[i] : i \in DOMAIN custom_profiles}
      BY <2>3, <3>1 DEF Loaded
    <3> QED BY <3>2
  <2>5. ASSUME NEW i \in DOMAIN custom_profiles, NEW app
        PROVE  is_match(custom_profiles[i].filter, app) <=> Fits(custom_profiles[i].source_path, app)
    <3>1. \A a \in AppProperties :
            custom_profiles[i].filter[a] = Effective(custom_profiles[i].source_path, FilterOf[a])
      BY <2>2, ProfilesAre
    <3> QED BY <3>1 DEF is_match, Fits
  <2>6. ASSUME NEW app, matching(app) # {}
        PROVE  \E i \in matching(app) : active_config(app) = custom_profiles[i]
    <3> DEFINE M == matching(app)
    <3>1. M \in SUBSET Nat
      BY <2>1
    <3>2. \E i \in M : \A j \in M : i <= j
      <4> HIDE DEF M
      <4> QED BY <2>6, <3>1, MinExists DEF M
    <3> DEFINE least == CHOOSE i \in M : \A j \in M : i <= j
    <3>3. least \in M
      BY <3>2
    <3>4. active_config(app) = custom_profiles[least]
      BY <2>6 DEF active_config
    <3> QED BY <3>3, <3>4
  <2>7. ASSUME NEW app, matching(app) = {} PROVE active_config(app) = default_profile
    BY <2>7 DEF active_config
  <2>8. ASSUME NEW app \in Apps
        PROVE  LET fitting == {f \in others : Fits(f, app)}
                   active == active_config(app).source_path
               IN IF fitting = {} THEN active = DefaultFile ELSE active \in fitting
    <3> DEFINE fitting == {f \in others : Fits(f, app)}
    <3>1. fitting = {custom_profiles[i].source_path : i \in matching(app)}
      BY <2>4, <2>5
    <3>2. CASE matching(app) = {}
      BY <2>7, <3>1, <3>2, DefaultIs DEF load_from_path
    <3>3. CASE matching(app) # {}
      BY <2>6, <3>1, <3>3
    <3> QED BY <3>2, <3>3
  <2>9. active_profile = default_profile
    <3> DEFINE nothing == [a \in AppProperties |-> None]
    <3>1. \A i \in DOMAIN custom_profiles : ~is_match(custom_profiles[i].filter, nothing)
      BY DEF is_match
    <3>2. matching(nothing) = {}
      BY <3>1
    <3> QED BY <2>7, <3>2 DEF active_profile
  <2> QED BY <2>8, <2>9 DEF ActiveFits
<1> QED BY <1>1, StoreIsRight, PTL
=============================================================================
