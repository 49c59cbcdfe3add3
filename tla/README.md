# shinran in TLA+

A model of [shinran](../src/README.md), the text expander with a Wayland and an
IBus front end: TLA+ modules for its stateful parts, TLC configurations that
check them on small instances, and TLAPS proofs for every value of the
constants. All source paths below are under `src/crates/`.

    tlc -workers 2 -config SeatInput_grabs.cfg MCSeatInput
    tlapm MatchStoreProofs.tla

`PROJECT.json` maps each definition to the lines it models and lists runs,
hazards and theorems.

## 1. The system

| component | state | operations | used by |
|---|---|---|---|
| **Wayland front end** (`shinran_wayland`) | `State` (running, contexts, event loop), one `InputContext` per seat: keymap, modifiers, pending flags, grab, repeat rate, 64 pressed keys, repeat timer, buffer | events of the keyboard grab, of the input method and of the registry; the timer callback `repeat_key`; the main loop | the compositor, calloop |
| **IBus front end** (`shinran_ibus`) | `ShinranEngine`: text, cursor, start time; the `done` event | `process_key_event`, `focus_out`, `reset`, `enable`, `destroy`, `create_engine` | IBus over D-Bus |
| **Configuration cache** (`shinran_backend/config.rs`, `path.rs`) | `cache.bin`, the configuration files | `Configuration::new`, `load_cache`, save | both front ends at start-up |
| **Match store** (`shinran_config/matches`) | store of match files, map from paths to indices | `load`, `resolve`, `collect_matches_and_global_vars` | the cache, the profile cache |
| **Directories** (`shinran_backend/path.rs`) | the config, runtime and packages directories | `resolve_paths` | `Configuration::new` |
| **Profiles** (`shinran_config/config`) | default and custom profiles, each with its settings, filters and match files | `load`, `resolve_paths`, `active_config`, the getters | match store, cache |
| **Match file loader** (`shinran_config/matches/group`) | none | YAML to matches, variables, import paths | match store |
| **Profile cache, lookup** (`shinran_backend`) | maps of triggers, regexes and global variables | `check_trigger`, `fuzzy_match`, `render` | both front ends |
| **Renderer** (`shinran_render`) | the scope of one rendering | evaluation order, evaluation, injection, casing | lookup |
| **Extensions** | none | date, echo, shell, script, random | renderer |
| **IBus value types** (`ibus_utils`) | lookup table | D-Bus values | IBus front end |

How they interact: a front end starts, resolves its directories, obtains a `Configuration` (from the
cache, or by loading profiles, then match files, and saving the result), builds
the profile cache from what the active profile reaches, and waits for keys. A
key event changes one `InputContext`; Return asks `check_trigger` for the
expansion, which renders a match: the variables are ordered, evaluated one by
one and put into the body. There is one thread in the Wayland front end; what
interleaves there are the events of several protocol objects and the timers.
The two front ends are processes that share `cache.bin` and the files.

What is hard, and what makes each part correct:

* *Wayland front end.* A repeat timer is state in two places, a field of the
  context and a registration with the event loop, and six branches of one
  handler keep them together while the modifiers, the grab and the seat change
  under them. Correct: a timer that is named is registered; the callback finds
  what it expects; a key that is up does not repeat; a release goes where its
  press went; no slot of `pressed` leaks; Escape ends the program.
* *Cache.* Four separate checks decide whether bytes on disk are still what the
  files say, with saves that are interrupted and files that change meanwhile.
  Correct: what is adopted is what would have been loaded; a fresh cache is
  adopted.
* *Start-up and profiles.* Directories are looked for, and made where missing,
  one after the other by a process that may be killed in between; profiles are
  files read one by one, in the order of `read_dir`, while the user edits them,
  each inheriting from `default.yml`. Correct: every start finds the same
  directories; a profile is what its file and the default say; a broken one is
  reported and no obstacle; the active one fits.
* *Match store.* Cyclic imports, files that fail, indices handed out before the
  store is rebuilt. Correct: exactly what is reachable is loaded; the indices
  stay valid; failures are reported; a query collects the closure of its
  profile; everything ends.
* *Evaluation order.* A graph walked in the order of a `HashSet`. Correct: the
  answer is one the graph allows, whatever that order.
* *Renderer.* Matches that render each other, each with its own variables, in an
  order a `HashMap` has a part in, and the environments of commands as well. Correct:
  an expansion does not depend on that order, apart from what a command reads without
  naming it; nothing is missing when it is injected; only a cycle overflows; a
  command that fails is not expanded.
* *IBus engine.* A cursor that counts characters where bytes are wanted, a
  display that is told after every change, an exit that ends the process while
  the bus may go away. Correct: it edits a line as the user sees it; the display
  is current; a commit comes after the preedit text is cleared; it quits.

## 2. The modules

| module | what it is |
|---|---|
| `SeatInput` | the Wayland front end |
| `SeatInputProofs` | its theorems |
| `ConfigCache` | the cache, the files, the user and the front ends that start |
| `ConfigCacheProofs` | its theorems |
| `ProfileFile` | one file of the config directory: from its YAML keys to the profile it is and what it answers |
| `ProfileStore` | the load of the config directory, edits during it, and the queries; extends `ProfileFile` |
| `StartUp` | the directories and the life of a front end around that load; extends `ProfileStore` |
| `StartUpProofs` | its theorems |
| `EvaluationOrder` | abstract specification: what an evaluation order is |
| `DependencyGraph` | the graph `generate_nodes` builds |
| `ResolveOrder` | the walk of `resolve.rs`; refines `EvaluationOrder` |
| `ResolveOrderProofs` | its theorems, the refinement among them |
| `MatchLoader` | what a match file defines: the conversion of its YAML, and the report of what cannot be converted |
| `MatchStore` | the recursive load, resolution and query of match files, and the maps of the profile cache; extends `MatchLoader` |
| `MatchStoreProofs` | its theorems |
| `DataLemmas` | facts about numbers, sequences and finite sets for the proofs |
| `Extensions` | what date, echo, shell, script and random make of a variable |
| `Expansion` | `check_trigger`: lookup and rendering, over `DependencyGraph`, `Extensions` and the orders of `EvaluationOrder` |
| `ExpansionProofs` | its theorems |
| `LineEditor` | abstract specification: a line of text with a cursor |
| `IBusEngine` | the IBus engine and its process; refines `LineEditor` |
| `IBusEngineProofs` | its theorems |
| `MC*` | the instances for TLC |

No module with a theorem reaches a RECURSIVE operator; recursion in the code is
modelled by an explicit stack of frames (`frames`), so every iteration of a
loop and every call and return is a step.

### SeatInput

`ctx[s]` is the `InputContext` of a seat with the fields of the struct, less
those that never matter to control. The buffer is "empty or not"; a keysym is
one of the five kinds `handle_key` tells apart, and depends on the modifiers
(`KeySym[k][level]`); `timers` is the event loop: the seat each registration's
callback was made for. `held`, `route` and `vkDown` are histories: the keys
physically down, who got the last press of a key (`"im"` consumed, `"app"`
forwarded, `"lost"` delivered by a grab that has since ended) and the keys the
virtual keyboard has left pressed.

| action | code (`shinran_wayland/src`) |
|---|---|
| `PressWhileRepeating` | `main.rs` first check |
| `ReleaseRepeating` | second check |
| `PressOtherwise` | third to fifth check |
| `ReleaseOther` | sixth check and the final forward |
| `KeyNotSeen` | no grab, or no `xkb_state` yet |
| `Modifiers`, `Keymap`, `RepeatInfo` | the other events of the grab |
| `Activate`, `Deactivate`, `Done` | input method events |
| `TimerFires` | `repeat_key` through the calloop callback |
| `PressPanics`, `TimerPanics`, `EventAfterRemove` | every `unwrap`, `expect`, index and division on these paths that can fail; `status` names it |
| `GlobalRemove` | the registry |
| `Exit` | the loop in `main` |

Assumed of the environment: a keycode's presses and releases alternate; keys
are delivered only while the grab is held; every seat is advertised before
`init_protocols` (a later one gets no context, as in the code). Timers are
untimed: one may fire at any moment after it is registered, so nothing that is
proved rests on delays. `check_trigger` may fail or not whenever it is called.
`Keymap` covers a keymap that does not compile (the keymap goes, the old
`xkb_state` stays). A panic ends the process.

### ConfigCache

A file's content is a version with a modification time; a configuration is the
function from the files that were loaded to their versions. Files are profiles
(`config/`), match files the patterns find, and private match files (`_x.yml`),
which only imports reach. A front end goes through `ReadCache`, `StatCache` (the
two halves of `load_and_mod_time`), `CheckCache` (`load_cache`), `LoadConfig`,
`TruncateCache` and `WriteCache` (the two halves of `fs::write`), may fail to
save, and may be killed anywhere. `CacheValid` is the conjunction of the checks
of `load_cache`.

Abstractions: loading all files is one step; every write gets a time of its own
(equal timestamps would only hide edits); a file restored with an older
modification time is not modelled; bytes left behind by two overlapping saves
fail rkyv's byte check; all profiles share one set of patterns. The flags
`Overlap`, `EditWhileBusy` and `ImportsChange` switch on three kinds of
interference, to tell under which the cache is transparent and under which it
is not.

### ProfileFile, ProfileStore, StartUp

A file that parses is a function from the keys it gives to their values;
`Broken` is one that serde rejects, `Empty` one without a document. `try_from`,
`inherit`, `aggregate_includes`, `aggregate_excludes`, `generate_match_paths`,
`is_match` and the getters (`setting`) carry the source's names; `Glob` gives the
canonical paths a pattern finds, `Language` what a regular expression matches.
The load is one action per iteration of its loops: `OpenConfigDir`, `NoDefault`,
`LoadDefault`, `ReadDir`, then for each entry `SkipEntry`, `LoadProfile` or
`ReportProfile`, and `EndOfDir`; `ReadDirFails` is the `?` on `read_dir` and on
its entries. `Edit` changes an entry at any point of it. That an entry is a file
and what it holds are seen in one step; a file that vanishes between the two
would be an error set more. `seen` is a history: each file as it was read.

`ResolveConfig`, `ResolveRuntime` and `ResolvePackages` are the three parts of
`resolve_paths`, each with its override (`Named`), its search (`Found`) and its
creation (`Made`, which may panic). `Stop` kills a front end at any step; what
is on disk, and `first`, the history of what was resolved at first, survive. Nobody
else makes or removes one of the directories, and making one creates none that
is looked for before it (`CreatesAssumption`; a base directory inside another
that is missing would be the exception). The cache, which comes between the
directories and the load, is `ConfigCache`.

### EvaluationOrder, ResolveOrder

`EvaluationOrder` takes one step: an order in which each needed node comes
once, after all it depends on, the root last; or a cycle, or a missing name,
among what the root needs. `ResolveOrder` builds the graph as `generate_nodes`
does (locals shadow globals, either shadows the body; each local depends on the
one before) and walks it as `resolve_dependencies` does: `Skip`, `Circular`,
`Missing`, `Call` and `Return` are the outcomes of one iteration of the loop
and the end of a call. Which dependency comes next is a free choice: they are a
`HashSet`. `Implements` maps `status` to the abstract outcome and `eval_order`
to the order once the walk has succeeded.

A variable is its name and the names it mentions; `inject_vars` only decides
whether those of its parameters count, so both cases are among the `uses`.
Variables of type `Unresolved`, which no loader produces, are left out.

### MatchStore

`import_paths`, `broken` and `match_file_paths` are the disk, chosen once.
`AlreadyLoaded`, `Load`, `LoadFails` and `Return` are the iterations of
`load_match_files_recursively`; `Resolve` is `FileStore::resolve` with
`ProfileStore::resolve_paths`; `Query`, `AlreadyVisited`, `Visit` and `Return`
are `collect_matches_and_global_vars`. Paths are canonical and imports exist,
as `resolve_paths` returns them; the roots come from a `HashSet`, so in any
order. Indices start from 1. `CreateProfileCache` is `ProfileCache::new`: every
insertion into a map replaces the value that is there, and a regex that does not
compile is left out (the code only logs it).

`MatchLoader` is `YAMLImporter::load_file` as operators: which matches and
variables of a file are kept, in which of the three lists, and which are
reported. A YAML match is a function of the fields that are present; a
definition is its file and its position there, so the maps say which definition
won. What is left out of a match: the word boundaries and the way a text is
injected, the label and the search terms, and the text of a form. The order of
the reports in an error set is not kept, nor are those about imports that do
not exist.

### Expansion

`FoundByTrigger`, `FoundByRegex` and `NotFound` are the outcomes of
`find_matches_from_trigger`, `find_matches` and the checks of
`RendererAdapter::render`: which match is rendered, with which casing and which
regex groups as variables. Then `frames` are the calls of `render_template`:
`Plain` (a body without names is not evaluated), `Ordered` and `NotOrdered`
(`resolve_evaluation_order`, taken as its abstract specification), `Nest`,
`Overflow`, `NoSubMatch`, `Calculate` (one turn of the loop) and `Replace`.
`Finish` is the casing, which panics on an empty text; a form returns early
without it.

A text is a sequence of pieces, one for what a match or a variable has of its
own, so equal outputs mean that the same definitions were injected in the same
places. A variable has a type, the names it uses and its parameters; what its
extension makes of them is in `Extensions`, branch by branch, for Linux. A
command is what it does when it is run: whether it starts, its exit code, whether
it writes errors, what it writes, and one variable it reads from its
environment. A parameter of the wrong type is as one that is missing, as in the
code. Of the casing styles `Capitalize` is kept, the one that looks at a position
and can fail. The maps are chosen at the start: any template for each trigger, and
any number of global variables.

The environment of a command is the scope so far, each name in upper case
(`to_uppercase`, a function on the names). Names may be equal in upper case;
then the iteration of a `HashMap` decides whose value stays, so
`convert_to_env_variables` is a set of environments and `Extension` picks one. A
command may also read a name its variable does not mention, local or global. What
an expansion gives depends on the order of a `HashMap` in these two cases:

* a global variable that the command does not name, nor anything before it, is
  evaluated before it in one order and after it in another;
* two variables whose names differ only in case are both in the scope.

`OutputIsMeaning` is therefore a property of the expansions for which
`EnvironmentsFixed` holds: of the variables that set what a command reads, at most
one comes before the command in every order, and the others come after it in
every order. `Before` is what comes before a variable in every order: the names it
uses, the local variables defined earlier, and what comes before those. Without that
condition TLC finds both cases as counterexamples, in this instance.
`MaxDepth` stands for the end of the stack.

### IBusEngine, LineEditor

A method call is one step for its synchronous part, which changes the fields
and may panic, and one step for each signal or wait that follows (`call`,
`Continue`). zbus holds the object's write lock during a call that takes
`&mut self`, so calls do not overlap; the loss of the bus, the 250 ms and the end
of the process do. `text` holds characters, `cursor_pos` indexes bytes as the
code uses it: `Index` and `IsBoundary` translate. A panic ends the thread that
serves the bus (zbus' own executor) and nothing else; `engine` then names it.
`check_trigger` may find something, find nothing or fail. `fuzzy_match` is
"subsequence of a trigger", without the ranking. The second `create_engine`
and the methods with an empty body change nothing and are no actions.

`LineEditor` is what the engine does for the user: insertion, deletion and
movement at a cursor between characters. As long as a two-byte character is on
the line it promises only that characters come and go one at a time.

## 3. The runs

| run | instance | shows |
|---|---|---|
| `SeatInput_grabs` | 1 seat, 3 keys (one that never repeats, one whose character depends on the modifiers, Return), 3 slots, 2 timers, 3 `Done` events | `TypeOK`, `TimerBacked`, `RateKnown`, `NoSlotLeak`, `ConsumedIsMarked`, `RepeatIsDown` |
| `SeatInput_onegrab` | 3 keys with Escape, 1 `Done` event, fairness | `ReleaseFollowsPress`, `EscapeQuits` |
| `SeatInput_timer` | a repeating and a non-repeating key | **violated** `RepeatTimerIsSet` |
| `SeatInput_stuck` | a key that changes meaning | **violated** `NoStuckKey` |
| `ConfigCache_quiet` | 1 front end, 2 profiles, 1 found and 1 private match file, 5 writes | `TypeOK`, `Transparent`, `CacheHits` |
| `ConfigCache_import` | as before with new imports, 4 writes | **violated** `Transparent` |
| `StartUp_load` | `default.yml`, 2 profiles of 5 contents each and a text file, 2 edits, 5 applications; all situations of 8 directories and 3 overrides | `TypeOK`, `BestEffort`, `WrittenWins`, `ActiveFits`, `SameDirectories` |
| `StartUp_filters` | the same | **violated** `DefaultFiltersIgnored` |
| `ResolveOrder_walk` | 4 names, at most 2 locals and 2 globals, 1 name mentioned by each | `TypeOK`, `LocalsInOrder`, `Implements`, `Terminates` |
| `MatchStore_load` | 3 files with at most 1 import, 2 profiles, one of at most 2 files and one of at most 1 | `TypeOK`, `RefsStayValid`, `LoadsReachable`, `FailuresReported`, `QueryIsClosure`, `NothingIsLost`, `ImportsOverride`, `Terminates` |
| `Expansion_render` | 1 group, depth 3, and either 2 triggers, 2 bodies, at most 1 of 8 local variables each and at most 1 of 8 global ones; or 1 match of 2 bodies with at most 2 of 3 local variables and at most 3 of 6 global ones | `TypeOK`, `OutputIsMeaning`, `OverflowNeedsCycle`, `FailureIsFatal`, `InjectionSucceeds`, `Terminates` |
| `IBusEngine_edit` | a one-byte and a two-byte character, at most 4 on the line, one trigger of two | `TypeOK`, `PanicNeedsWide`, `DisplayIsCurrent`, `CommitAfterClear`, `Implements`, `Quits` |

Why the bounds suffice. Two timers are what it takes to leave one behind and
arm another; with both taken no further one is armed, which only removes
behaviour. Three `Done` events are an activation, a deactivation and a second
activation, so that keys and timers survive a grab. The seats share nothing but
the loop, and the proofs are for any number of them. Three slots are as many as
there are keys: with 64 slots and fewer than 64 keys held the code is in the
same position. Five writes of files fit a save (two), an edit, a second save.
Two locals and two globals over four names with the body make cycles of length
1 to 3, diamonds through the chain of locals, shadowing of the body and missing
names; the proof covers all graphs. Three files with one import each form every
chain and cycle of up to three, self-imports, and sharing between profiles.
`MCInit` of `MCMatchStore` gives the second profile at most one file: the load
looks at the files of all profiles together and a query at those of one profile
only, so two profiles with two files each add no load and no query of a new kind.
What the three files define is fixed (`MCContents`): as their imports are any,
each takes every place in the graph. Both triggers and the variable have
competing definitions, in one file and in several; there is a match for each way
in which a conversion fails, and for each kind of effect.

`MCInit` of `MCStartUp` joins two families of initial states: every situation of
the directories with a config directory that is missing or holds `default.yml`
only, and every content of the config directory in one situation. The load does
not look at the directories and resolving does not look at the files, so nothing
is lost between the two. Two edits change one file twice or two files once, each
before and after it is read. The contents give each setting of a kind of its
own (a value, an old name, a mapping, an `OFF`, patterns that find the same file,
one that is invalid), each filter, and each way in which a file fails.

`MCInit` of `MCExpansion` joins two families of initial states. In `Nesting` a
name can be defined locally, globally, as a group, by two of these or not at all,
by a variable of every type; two matches refer to themselves and to each other;
and depth 3 is one more than two matches reach without a cycle. Where no variable
is a match, nothing but the template of the trigger that was typed is rendered, and
the other trigger has the same one. In `Ordering` one match has up to two local
variables and up to three global ones that use each other: chains of two and three
globals, cycles, two orders for independent globals, a command that reads a global
it names, one it does not, or a name that two variables share in upper case. The
match of the other trigger plays no part there. The order of globals does not matter
to nesting, as `Nest` looks at one variable only, so a product of the two would
repeat their states; the theorems are for any of both. Four characters
put a two-byte character before, after and between others with the cursor on
either side of each byte; the engine has no other state that grows.

The runs with a violation are disagreements of the code with what it says of
itself:

1. **The timer nobody owns** (`main.rs:307`). A key for which `key_repeats` is
   false, pressed while another key repeats, sets `repeat_timer = None` and
   leaves the registration in the loop, unlike the two other places. The next
   firing fails "Repeat timer should have been set." (`input_context.rs:191`).
   `TimerBacked` is the direction that does hold.
2. **The stuck key** (`main.rs:391`). A repeating key stays marked as consumed;
   if the modifiers change so that it is no longer an ASCII key, `repeat_key`
   forwards a press and drops the timer, and the release is swallowed ("We
   handled the corresponding pressed event, so we're done.").
3. **A new import** (`config.rs:151`). Only files the patterns find are looked
   for; a private file that was missing or broken is no source of the cache.
4. **Filters of the default** (`resolve.rs:613`). The comment on `Filters` says
   those of `default.yml` are ignored; `inherit` gives them to every profile that
   has none of its own, which then is no longer one that matches nothing.

Two further weaknesses of the cache are not covered by any run: `Transparent` is
checked, and proved, for one front end at a time and for edits while none starts.
They are seen by setting a flag in `ConfigCache_import.cfg` instead of
`ImportsChange`. With `Overlap = TRUE` and two members of `Procs`, the bytes are
read before the modification time is taken (`path.rs:271`), and a save of the
other front end in between makes old bytes look new. With `EditWhileBusy = TRUE`,
an edit between the load and the save (`config.rs:73`, `config.rs:137`) is older
than the cache and is never noticed. Both violate `Transparent`.

## 4. Fairness

`SeatInput`: weak fairness of `Exit` only. Once `running` is false the loop ends
after the current dispatch and one more, which has a timeout of 200 ms; both
handle finite batches. Nothing is assumed of the compositor, the user or the
timers. `ResolveOrder`, `MatchStore`: weak fairness of `Next`; both are plain
recursive calls on one thread, and what could keep them going is the data.
`Expansion`: weak fairness of `render_template`, for the same reason.
`IBusEngine`: weak fairness of the rest of a call (zbus' executor thread runs the
tasks that are ready; the wait in `exit` is 100 ms) and of `Exit` (the main thread
waits for nothing but the event, and for the cache to be written). Users and
IBus owe nothing: `Quits` begins with a call that is going to exit.
`ConfigCache` has no liveness property: a front end may be killed at any step.

## 5. What is proved

For any constants that satisfy the modules' assumptions.

**DataLemmas**: what the proofs need of numbers, sequences and finite sets. Two are
more than bookkeeping. `BelowIsWellFounded`: a set of tuples of natural numbers has
an element with none below it in the lexicographic order (`Below`), position by
position. `TopologicalOrderExists`: the elements of a finite set can be listed with
each after all it needs unless some of them form a cycle (`Acyclic`): a list that
misses some of them can be extended by one that needs no other of those.

**SeatInputProofs**: `TypeCorrect`, `TimersAreBacked`, `RateIsKnown`,
`RepeatStops`, `SlotsDoNotLeak`, `ConsumedAreMarked`, `ReleasesFollow`. The
inductive invariant of the first four is

    IInv == TypeOK /\ TimerBacked /\ RateKnown /\ RepeatIsDown /\ StateForTimer

`StateForTimer` (a context with a timer has an `xkb_state`) is what lets the
callback run `handle_key`, whose type lemma needs a modifier state. Every
action that touches a context is shown to be a `SeatStep`: it keeps, drops or
arms one registration of its own seat, keeps the rate known, and leaves the
timer on a key whose route is not "up". `SeatStepKeepsInv` does the rest once,
for all of them.

`NoSlotLeak` alone is not inductive either: a key that is pressed again could
get a second slot. The strengthening `SlotInv` adds that a press whose route is
known ("im" or "app") comes through a grab that is still held and belongs to a key
that is still down; so a key that is pressed is unmarked, and a release that nobody
delivers has no slot, because the slots were cleared with the grab.

`ConsumedAreMarked` (`ConsumedIsMarked`) and `ReleasesFollow` (`ReleaseFollowsPress`)
are about behaviours in which no more keys are held at once than there are slots
(`HeldFits`; 64 in the code, and `mark_as_pressed` drops a mark when all are taken).
A key that is pressed then finds a free slot: by `SlotInv` the slots stand for keys
that are held already, each for another one (`FreeSlot`, by counting).
`ReleasesFollow` also assumes that no grab ends (`GrabsStay`), as the run
`SeatInput_onegrab` does with its one `Done`: `OneGrabInv` says that what was
forwarded is down for the application and that the key that repeats was consumed,
and the end of a grab, which leaves the timer running, makes both false.

**StartUpProofs**: first `DirectoriesAreSame`, that is `SameDirectories` for any
directories, overrides and contents. The invariant is

    IInv == TypeInv /\ ConfigStands /\ RuntimeStands /\ PackagesStand
              /\ InOrder /\ PathsAreFirst

`SameDirectories` says nothing of a start that has not resolved a directory yet,
so it is not inductive: the three `Stands` say that what was resolved at first
exists and is what the search, made now, would give, also when the process is
down. A step that makes a directory keeps them because, by `CreatesAssumption`, it
makes none that the searches before it would prefer; that a search depends only
on which of its candidates exist is the lemma `SameFound`. It also needs that
directories are resolved in their order, so that when the config directory is
made nothing else was resolved (`InOrder`). `TypeCorrect` adds `LoadInv`, the few
facts of the load that `TypeOK` speaks of.

Then `LoadIsBestEffort`, `WrittenIsMeant` and `ActiveIsFitting`, the three
properties of the profiles. What a profile is depends on two files, read at
different times, so the invariant relates the profiles to `seen`, never to `disk`:

    StoreInv == DiskInv /\ SeenInv /\ DefaultInv /\ EntriesInv /\ YieldInv

`EntriesInv`: each profile is what `load_from_path` makes of its file as it was
read, on top of the default profile; the files that were read are divided between
profiles and reports, each once, so that the lengths add up to their number.
`YieldInv`: what is still to be yielded was not read (or a file could be loaded
twice), and without edits what was yielded was read if it is a YAML file.
`DefaultInv` says the same of `default.yml`, which all the others look back at.
The rest is about the operators of `ProfileFile`: `ConvertedIs` (what `try_from`
keeps), `CustomContent` (a field after inheritance is the file's, else the
default's), `LayoutIs`, `SettingIs` and `MatchFilesAre`. `TextsAssumption` says that
None is no value and that `Glob` knows every pattern that is written.

**IBusEngineProofs**: `CommitIsAfterClear` and `DisplayStaysCurrent`, that is
`CommitAfterClear` and `DisplayIsCurrent` for any characters, triggers and length
of the line. Both speak of the moment at which a signal is next or none is left;
the invariant speaks of every moment of a call:

    IInv == CallInv /\ PreeditInv /\ TableInv /\ CommitInv /\ UnstartedInv

A display that is behind the line still has its signal `Pending` in `call`
(`PreeditInv`, `TableInv`, while the bus is there); a call with a commit pending
has cleared the line, and has told the display so or will do it first
(`CommitInv`, also when the bus is gone), because the preedit text is only ever
the first signal (`CallInv`). Two lemmas carry the proof: a step that schedules
`update_text` keeps the invariant whatever it does to the line
(`ScheduleUpdate`), and so does one that leaves the line alone (`LeaveText`).

`TypeCorrect`, `PanicIsWide` and the refinement `EngineImplements` (of `LineEditor`)
are about the line. They rest on one lemma per key, which shows that the step is
a `LineStep`: the cursor stays within the bytes of the text, the line changes as
`LineEditor` allows, and only a line with a wide character makes an index panic.
Below them are lemmas on byte lengths: they add up over a concatenation
(`ByteLenConcat`), a removal keeps the bytes before it (`RemoveFacts`), an insertion
adds one at least (`InsertFacts`), and on a narrow line a byte is its own index
(`NarrowIndex`).

**ResolveOrderProofs**: `TypeCorrect`, `WalkImplements`, `SuccessIsDetermined`,
`LocalsAreInOrder`, `WalkShrinks`.

    IInv == TypeOK /\ FramesInv /\ OrderInv /\ SeenInv

`FramesInv` describes the stack (its nodes are the ones seen and not resolved;
each waits for the one above; what a frame has left behind is resolved),
`OrderInv` the order so far, `SeenInv` that only needed nodes are ever seen. A
reported cycle is then a real one: the frames from the node met again up to the
top form the set `Circular` asks for. That success is determined (no other walk
of the same graph could have failed) needs a first node of a set in an order,
which is taken by well-foundedness of `<` on the naturals. `LocalsAreInOrder` needs
one more fact of the graph, `ChainInv`: the node of each local variable uses the
one defined before it, so that a valid order has them in their order, by
induction along the chain.

`WalkShrinks`: every step of the walk lowers `Remaining`, in lexicographic order:
whether it runs, the nodes not seen, the nodes seen and not resolved, the
dependencies the innermost call has left. By `BelowIsWellFounded` no walk takes
infinitely many steps, whatever cycles the graph has. `NamesAssumption` (the names
in a match and the global variables are finitely many) is what this needs.

**MatchStoreProofs**: all seven invariants that `MatchStore_load` checks
(`TypeCorrect`, `RefsAreValid`, `LoadIsReachable`, `FailuresAreReported`,
`QueryIsExact`, `EverythingIsFound`, `ImportsWin`), for any files, imports, contents
and profiles.

    IInv == TypeInv /\ FramesInv /\ RefsStayValid /\ LoadInv /\ ResolveInv /\ QueryInv

`LoadInv`: a path that the load has met is loaded, has failed, or is pending in one
of the frames; when none is left, the loaded files are closed under the imports
that do not fail, so they are all that is reachable, and everything loaded is
reachable by the same invariant. `RefsStayValid` in its inductive form says that
the map from paths to indices and the store are inverse to each other.
`QueryInv`: what a query has asked for is visited or pending, and what it has
visited is collected once. Three more invariants are proved on top of it:
`ReportsInv` (the reported errors are those of the loaded files and of the ones
that failed, and nothing else), `CacheInv` (the maps are those of the list that
was collected, the later definition replacing the earlier) and `OrderInv` (a file
that is collected is reached without reading any file collected after it). `LoadShrinks`
is the variant of the load and of the query after it: the phase, the files not met in
it, the calls in progress, and the paths the innermost call has left; all
imports may form cycles. The closure
of a set of files is defined as a least closed set, not by iteration, so that no
induction over data is needed.

**ConfigCacheProofs**: `TypeCorrect`, `CacheIsUsed` (that is `CacheHits`, whatever
interferes) and `CacheIsTransparent`, that is `Transparent` where starts do not
overlap, nobody edits during a start, and the private files stay and parse. These
are the three conditions the flags of `ConfigCache` switch off; the run
`ConfigCache_import` and the two remarks at the end of section 3 show that without
any of them the theorem is false.

    QuietInv == at most one front end is busy /\ the private files parse
                  /\ an intact cache is Saved /\ what a busy front end has read is current

`Saved(b, t)`: b is `load_config` of an older disk, in which the private files
parse, and each file that has changed since is gone or newer than t. Then the
four checks of `CacheValid` leave no room for a difference (`SavedIsCurrent`): a
file that is newer fails the first, one that is gone is a source that is missing,
and a file that is new is newer. The lemma is about an existential of an older
disk because nothing in the state remembers it: a cache that was written holds
versions and no times.

**ExpansionProofs**: `TypeCorrect`, `InjectionHolds`, `OverflowIsCyclic`,
`FailuresAreFatal`, `OutputsAreMeant`, `OrderedOrNot` and `RenderingShrinks`.

    IInv == DataInv /\ StackInv /\ StatusInv

`DataInv` speaks of what was read (the triggers that were matched, the global
variables), `StatusInv` of how an expansion ended. `StackInv` describes the frames:
the variables a call has yet to evaluate (`Agenda`) are needed by its text, each
stands after what is injected into it, and what is needed is in the scope or still
to come. That is what makes the injections find their values (`InjectionSucceeds`),
and it comes from `WalkImplements` and `OrderFacts`: the order that the walk gives is
valid. A frame that waits does so at a variable of type match (`AtMatch`), whose
trigger is the one of the frame above. `OverflowInv` adds that each frame's
trigger refers to the one above: with fewer triggers than `MaxDepth` two frames of a
stack that overflows share a trigger, by pigeonhole, and the matches between them
are a cycle (`OverflowNeedsCycle`). `FatalInv`: unless there is a form, what is
in a scope has succeeded with everything it took (`FailureIsFatal`).

`OutputsAreMeant` is the theorem about the whole component: an expansion that
succeeds gives what its match means by the definitions of its variables, whichever
order was taken, whatever environment its commands got and however deep matches are
nested, as long as the order does not decide what a command reads
(`EnvironmentsFixed`). The meaning is two recursive functions, `Nested` (one round
per trigger) around `Values` (one round per name), and no theorem about every input
of them is needed, only their equations (`NestedSteps`, `ValuesSteps`) and what
happens on the way:

    MeantInv == EnvironmentsFixed =>
                  (\A i : FrameMeant(frames[i])) /\ (status = "ok" => output = Meaning)
    FrameMeant(f): DOMAIN f.scope = {}, or ScopeMeant(f) /\ Follows(f)

`ScopeMeant`: what is in a scope is its value in every round from the one on that
counts the variables evaluated so far, so it is the value of the last round when the
text is rendered. For a step that evaluates a variable this says that what an
extension gives depends on nothing but what is injected and what its command reads
(`CalculateAgrees`). `Follows` says that each variable is evaluated once and after all
it takes: the names it uses, and the local variables defined earlier, as each is
chained to the one before it and two variables with one name make a cycle in that
chain, so a match that can be ordered has none (`NoShadows`). So what comes before a
command in every order (`Before`) is in its scope, and what comes after it in every
order is not; if nothing else sets what the command reads, every environment has the
same value there (`EnvironmentMeant`). For a nested match, `NestedIsMeaning` says that
the last round is a fixpoint, though not for all triggers: matches in a cycle have no
meaning that stays. It holds on `Ending`, the least set with every trigger whose match
has a form or refers only to triggers in the set, and a rendering that returned was of
such a trigger. The only assumption about values this uses is `NoneAssumption` (None
is no value).

`OrderedOrNot`: when the variables of a match are ordered, there is an order exactly
when there is neither a cycle nor a missing name to report. So the alternatives
`Ordered` and `NotOrdered`, taken from the abstract specification, leave no match
without a step, and never a choice between an order and an error. One direction
is `TopologicalOrderExists` for the names that are needed; in the other, the first
node of a cycle in an order would need an earlier one.

`RenderingShrinks`: every step lowers a tuple of `MaxDepth + 1` numbers, the phase and
for each depth what the call there has left (one not begun, one not ordered, then the
variables it has not evaluated). Matches that nest each other in a cycle lower it as
well, down to the end of the stack: they overflow, and do not loop.

Only model-checked: liveness (`EscapeQuits`, `Quits`, `Terminates`), as fairness and
ENABLED are outside what TLAPS 1.4.5 does. Of the three `Terminates` the theorems
`WalkShrinks`, `LoadShrinks` and `RenderingShrinks` prove the part that is about the
data, that there is no infinite sequence of steps; that a step is taken while one is
enabled, and that one is enabled until the end, is what TLC checks. Every safety
property of a passing run has a theorem.

## 6. Not modelled

* YAML syntax, glob patterns and regular expressions: the models start from what
  they give. The rkyv format: a cache is intact or torn.
* `pretty_dump` (the settings as text), `Display` of `RMLVOConfig`, logging.
* The branches of the extensions for Windows and macOS, with `exec_util.rs`.
* Code nothing calls: the extensions choice, clipboard and form, the cursor
  operations of `IBusLookupTable`, `populate_default_config`, the popup handlers
  (`todo!()`), the built-in matches, which have no trigger.
* The D-Bus value types (`text.rs`) and the reading of the bus address
  (`address.rs`): plain data and I/O.
* Values of a form with several fields (`ExtensionOutput::Multiple`), as no
  extension in use gives one; escaping; variables of type `Unresolved`.

## 7. Plan

Done: the modules above. The order followed how much state interleaves: the
Wayland front end, the cache, the ordering with its abstract specification, the
match store, the rendering, the IBus engine, then start-up with the profiles and
the extensions.

Next, in this order:

1. The match files read one after the other during a load, so that edits
   interleave with it as they do with the profiles.
2. `StartUp` and `ConfigCache` composed: the runtime directory as the place of
   the cache, and the paths a cached renderer keeps although the packages
   directory was overridden since.
