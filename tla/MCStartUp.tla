------------------------------ MODULE MCStartUp ------------------------------
(* An instance of StartUp for TLC: all situations of the directories with two *)
(* settings, and all contents of the config directory with one situation.     *)
EXTENDS StartUp, TLC

CONSTANTS rx, ry, rz, unclosed, editor, shell, a, b, c, mine, other

MCGlob == (Standard :> {a, b}) @@ ("more" :> {b, c}) @@ ("drafts" :> {b}) @@ ("[" :> {})

MCLanguage == (rx :> {editor}) @@ (ry :> {editor, shell}) @@ (rz :> {shell})

MCApps ==
  {[title |-> t, class |-> cl, exec |-> None] : t \in {None, editor}, cl \in {None, shell}}
    \cup {[title |-> editor, class |-> None, exec |-> shell]}

DefaultText ==
  [key_delay |-> 20, label |-> mine, excludes |-> {"drafts"}, filter_exec |-> rz,
   keyboard_layout |-> [layout |-> mine, variant |-> NotString]]

MCContents ==
  (DefaultFile :> {Missing, Broken, Empty, DefaultText, [filter_title |-> unclosed]}) @@
  ("one.yml" :> {Missing, Directory, Empty, [backspace_delay |-> 5, filter_class |-> ry],
                 [enable |-> FALSE, key_delay |-> 10, backspace_delay |-> 5, filter_title |-> rx]}) @@
  ("two.yml" :> {Missing, Broken,
                 [use_standard_includes |-> FALSE, includes |-> {"more", "["},
                  search_shortcut |-> "OFF", filter_title |-> ry,
                  keyboard_layout |-> [variant |-> other]],
                 [filter_class |-> unclosed],
                 [filter_class |-> ry, extra_includes |-> {"more"}, extra_excludes |-> {"["}]}) @@
  ("notes.txt" :> {Empty})

MCPackages == [d \in BaseDirs |-> <<d, "match/packages">>]
MCCreates == [d \in Dirs |-> {d}]

Disks ==
  {d \in [Names -> UNION {Contents[f] : f \in Names}] : \A f \in Names : d[f] \in Contents[f]}

OnlyDefault == [f \in Names |-> IF f = DefaultFile THEN DefaultText ELSE Missing]

MCInit ==
  /\ \/ /\ env \in [Kinds -> {None} \cup NamedDirs]
        /\ dirs \in SUBSET (BaseDirs \cup RuntimeDirs \cup {Packages[DefaultConfig]})
        /\ disk \in {Missing, OnlyDefault}
     \/ /\ env = Nowhere
        /\ dirs = {HomeConfig, DefaultRuntime}
        /\ disk \in Disks
  /\ Init

MCSpec == MCInit /\ [][Next]_vars
=============================================================================
