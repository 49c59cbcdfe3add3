----------------------------- MODULE ProfileFile -----------------------------
(***************************************************************************)
(* One file of the config directory: from the keys of its YAML to the      *)
(* profile it is.  A file that parses is the function from the keys it     *)
(* gives to their values; a list is the set of its elements, as the order  *)
(* of patterns is never used; a profile has every field, None where        *)
(* neither the file nor its parent gives one.                              *)
(***************************************************************************)
EXTENDS FiniteSets

CONSTANTS
  None,
  Broken,       \* a file that is no YAML of the right types
  Empty,        \* a file of blank lines and comments
  NotString,    \* a value of another type, in the mapping of keyboard_layout
  Standard,     \* STANDARD_INCLUDES: ../match/**/[!_]*.yml
  Glob,         \* the canonical paths each pattern finds, {} if it is invalid
  BadRegexes,   \* the regular expressions that do not compile
  Language      \* what each of the others matches

-----------------------------------------------------------------------------
(* Parsing *)

ParsedConfig ==
  {"label", "backend", "enable", "clipboard_threshold", "auto_restart",
   "preserve_clipboard", "toggle_key", "paste_shortcut", "disable_x11_fast_inject",
   "word_separators", "backspace_limit", "apply_patch", "search_trigger",
   "search_shortcut", "undo_backspace", "show_notifications", "show_icon",
   "secure_input_notification", "post_form_delay", "max_form_width",
   "max_form_height", "post_search_delay", "emulate_alt_codes",
   "win32_exclude_orphan_events", "win32_keyboard_layout_cache_interval",
   "x11_use_xclip_backend", "x11_use_xdotool_backend", "pre_paste_delay",
   "restore_clipboard_delay", "paste_shortcut_event_delay", "inject_delay",
   "key_delay", "keyboard_layout", "evdev_modifier_delay", "includes", "excludes",
   "extra_includes", "extra_excludes", "use_standard_includes", "filter_title",
   "filter_class", "filter_exec", "filter_os"}

YAMLConfig == ParsedConfig \cup {"backspace_delay"}

parse_from_str(text) == IF text = Empty THEN <<>> ELSE text

Given(yaml, key) == IF key \in DOMAIN yaml THEN yaml[key] ELSE None

Restriction(m, S) == [k \in S |-> m[k]]
StringPairs(m) == Restriction(m, {k \in DOMAIN m : NotString \notin {k, m[k]}})

try_from(yaml) ==
  [f \in ParsedConfig |->
     CASE f = "key_delay" /\ Given(yaml, f) = None -> Given(yaml, "backspace_delay")
       [] f = "keyboard_layout" /\ Given(yaml, f) # None -> StringPairs(yaml[f])
       [] OTHER -> Given(yaml, f)]

-----------------------------------------------------------------------------
(* Inheritance and patterns *)

inherit(child, parent) ==
  [f \in ParsedConfig |-> IF child[f] = None THEN parent[f] ELSE child[f]]

Elements(list) == IF list = None THEN {} ELSE list

aggregate_includes(config) ==
  (IF config["use_standard_includes"] = FALSE THEN {} ELSE {Standard})
    \cup Elements(config["includes"]) \cup Elements(config["extra_includes"])

aggregate_excludes(config) ==
  Elements(config["excludes"]) \cup Elements(config["extra_excludes"])

calculate_paths(patterns) == UNION {Glob[p] : p \in patterns}

generate_match_paths(config) ==
  calculate_paths(aggregate_includes(config)) \ calculate_paths(aggregate_excludes(config))

-----------------------------------------------------------------------------
(* Filters *)

AppProperties == {"title", "class", "exec"}
FilterOf == [title |-> "filter_title", class |-> "filter_class", exec |-> "filter_exec"]

Filters(config) == [a \in AppProperties |-> config[FilterOf[a]]]

Compiles(config) == \A a \in AppProperties : Filters(config)[a] \notin BadRegexes

(* A property the application does not have is no obstacle. *)
BugMissingMatches(filter, app) ==
  LET given == {a \in AppProperties : filter[a] # None}
  IN /\ given # {}
     /\ \A a \in given : app[a] # None => app[a] \in Language[filter[a]]

is_match(filter, app) ==
  LET given == {a \in AppProperties : filter[a] # None}
  IN /\ given # {}
     /\ \A a \in given : app[a] # None /\ app[a] \in Language[filter[a]]

-----------------------------------------------------------------------------
(* The profile of the file f with the text given, if it has one *)

(* The parent is inherited from before the YAML is converted. *)
BugInheritFirst(text, parent) ==
  IF parent = None THEN try_from(parse_from_str(text))
  ELSE LET own == parse_from_str(text)
       IN try_from([k \in YAMLConfig |->
            IF Given(own, k) # None THEN own[k]
            ELSE IF k \in ParsedConfig THEN parent.content[k] ELSE None])

Config(text, parent) ==
  LET own == try_from(parse_from_str(text))
  IN IF parent = None THEN own ELSE inherit(own, parent.content)

Loads(text, parent) == text # Broken /\ Compiles(Config(text, parent))

load_from_path(f, text, parent) ==
  LET config == Config(text, parent)
  IN [source_path |-> f, content |-> config,
      match_file_paths |-> generate_match_paths(config), filter |-> Filters(config)]

-----------------------------------------------------------------------------
(* What a profile answers *)

label(profile) ==
  IF profile.content["label"] # None THEN profile.content["label"] ELSE profile.source_path

WordSeparators ==
  {" ", ",", ";", ":", ".", "?", "!", "(", ")", "{", "}", "[", "]", "<", ">",
   "'", "\"", "\r", "\t", "\n", "\f"}

(* The settings that have a value when nobody gives one *)
BuiltIn ==
  [enable |-> TRUE, clipboard_threshold |-> 100, auto_restart |-> TRUE,
   pre_paste_delay |-> 100, preserve_clipboard |-> TRUE, restore_clipboard_delay |-> 300,
   paste_shortcut_event_delay |-> 10, disable_x11_fast_inject |-> FALSE,
   word_separators |-> WordSeparators, backspace_limit |-> 5, apply_patch |-> TRUE,
   search_shortcut |-> "ALT+SPACE", undo_backspace |-> TRUE, show_icon |-> TRUE,
   show_notifications |-> TRUE, secure_input_notification |-> TRUE,
   emulate_alt_codes |-> FALSE, post_form_delay |-> 200, max_form_width |-> 700,
   max_form_height |-> 500, post_search_delay |-> 200,
   win32_exclude_orphan_events |-> TRUE, win32_keyboard_layout_cache_interval |-> 2000,
   x11_use_xclip_backend |-> FALSE, x11_use_xdotool_backend |-> FALSE]

Options ==
  {"paste_shortcut", "inject_delay", "key_delay", "evdev_modifier_delay",
   "search_trigger", "keyboard_layout"}

Settings == DOMAIN BuiltIn \cup Options

RMLVOConfig == {"rules", "model", "layout", "variant", "options"}

(* What a field means for the setting of its name *)
Interpret(f, value) ==
  IF value = None THEN IF f \in DOMAIN BuiltIn THEN BuiltIn[f] ELSE None
  ELSE CASE f \in {"search_trigger", "search_shortcut"} ->
              IF value \in {"OFF", "off"} THEN None ELSE value
         [] f = "keyboard_layout" -> [k \in RMLVOConfig |-> Given(value, k)]
         [] OTHER -> value

setting(profile, f) == Interpret(f, profile.content[f])
=============================================================================
