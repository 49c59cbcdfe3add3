------------------------------ MODULE IBusEngine ------------------------------
(***************************************************************************)
(* The IBus front end: the engine object that collects what is typed, and  *)
(* the process that waits for it to be done.                               *)
(*                                                                         *)
(* A method call of the engine is the step that changes its fields and     *)
(* then the signals and waits of `call`, one step each.  D-Bus calls of an *)
(* object that take &mut self hold its lock until they return, so a call   *)
(* starts only when `call` is empty; main, the clock and the connection go *)
(* on in between.                                                          *)
(*                                                                         *)
(* The text holds characters and the cursor indexes bytes: a character of  *)
(* U+00A0 to U+00FF is two bytes long, and an index inside it panics.      *)
(* Candidates are named by the text they were looked up for.               *)
(***************************************************************************)
EXTENDS Integers, Sequences, FiniteSets, SequencesExt

CONSTANTS
  Chars,     \* the characters the engine accepts
  Wide,      \* the ones that take two bytes
  Triggers,  \* the triggers of the user's matches
  MaxLen     \* bound on the text

ASSUME CharsAssumption == Wide \subseteq Chars /\ Triggers \subseteq Seq(Chars)
ASSUME BoundAssumption == MaxLen \in Nat

VARIABLES
  engine,           \* "none" before create_engine, "ready", or why a call panicked
  text,
  cursor_pos,
  new_key_pressed,
  fresh,            \* start_time is less than 250 ms ago
  call,             \* what the call in progress has still to do
  preedit,          \* the last UpdatePreeditText signal
  table,            \* the last UpdateLookupTable signal
  connected,        \* the connection to the bus
  notified,         \* the event `done`
  main              \* "waiting" or "exited"

field == <<text, cursor_pos>>
shown == <<preedit, table>>
vars == <<engine, text, cursor_pos, new_key_pressed, fresh, call, preedit, table,
          connected, notified, main>>

ByteLen(s) == Len(s) + Cardinality({i \in DOMAIN s : s[i] \in Wide})

(* Characters before byte b, if b is between two characters. *)
Index(s, b) == CHOOSE i \in 0 .. Len(s) : ByteLen(SubSeq(s, 1, i)) = b
IsBoundary(s, b) == \E i \in 0 .. Len(s) : ByteLen(SubSeq(s, 1, i)) = b

IsSubsequence(s, t) ==
  \E f \in [DOMAIN s -> DOMAIN t] :
    /\ \A i \in DOMAIN s : t[f[i]] = s[i]
    /\ \A i, j \in DOMAIN s : i < j => f[i] < f[j]

(* Every trigger matches the empty text. *)
fuzzy_match(s) == {t \in Triggers : IsSubsequence(s, t)}

HasWide == \E i \in DOMAIN text : text[i] \in Wide

Init ==
  /\ engine = "none"
  /\ text = <<>>
  /\ cursor_pos = 0
  /\ new_key_pressed = FALSE
  /\ fresh = FALSE
  /\ call = <<>>
  /\ preedit = [text |-> <<>>, cursor |-> 0]
  /\ table = <<>>
  /\ connected = TRUE
  /\ notified = FALSE
  /\ main = "waiting"

-----------------------------------------------------------------------------
(* The calls *)

Serves == main = "waiting" /\ connected /\ engine = "ready" /\ call = <<>>

(* A second call finds the path taken: the engine, its text and its start *)
(* time stay, and the caller is given the same path.                      *)
create_engine ==
  /\ main = "waiting" /\ connected /\ engine = "none"
  /\ engine' = "ready"
  /\ fresh' = TRUE
  /\ UNCHANGED <<field, new_key_pressed, call, shown, connected, notified, main>>

update_text == <<"preedit", "candidates">>

clear_text == text' = <<>> /\ cursor_pos' = 0

(* A key release, of any key *)
Release ==
  /\ Serves
  /\ ~new_key_pressed
  /\ call' = <<"forward">>
  /\ UNCHANGED <<engine, field, new_key_pressed, fresh, shown, connected, notified, main>>

Press ==
  /\ Serves
  /\ new_key_pressed' = TRUE
  /\ UNCHANGED <<fresh, shown, connected, notified, main>>

Panic(reason) ==
  engine' = reason /\ UNCHANGED <<field, call>>

(* RemoveByte without telling the display. *)
BugRemoveQuietly(b) ==
  IF b < ByteLen(text) /\ IsBoundary(text, b)
    THEN text' = RemoveAt(text, Index(text, b) + 1) /\ UNCHANGED <<call, engine>>
    ELSE engine' = "index" /\ UNCHANGED <<text, call>>

(* String::remove of the character at byte b *)
RemoveByte(b) ==
  IF b < ByteLen(text) /\ IsBoundary(text, b)
    THEN /\ text' = RemoveAt(text, Index(text, b) + 1)
         /\ call' = update_text
         /\ UNCHANGED engine
    ELSE engine' = "index" /\ UNCHANGED <<text, call>>

(* The character at the cursor goes, not the one before it. *)
BugRemoveAtCursor ==
  /\ Press
  /\ cursor_pos > 0
  /\ RemoveByte(cursor_pos)
  /\ cursor_pos' = IF engine' = "ready" THEN cursor_pos - 1 ELSE cursor_pos

BackSpace ==
  /\ Press
  /\ cursor_pos > 0
  /\ RemoveByte(cursor_pos - 1)
  /\ cursor_pos' = IF engine' = "ready" THEN cursor_pos - 1 ELSE cursor_pos

Delete ==
  /\ Press
  /\ cursor_pos < ByteLen(text)
  /\ RemoveByte(cursor_pos)
  /\ UNCHANGED cursor_pos

BugMoveUnclamped(offset) == IF cursor_pos + offset < 0 THEN 0 ELSE cursor_pos + offset

move_cursor(offset) ==
  LET moved == cursor_pos + offset
  IN IF moved < 0 THEN 0 ELSE IF moved > ByteLen(text) THEN ByteLen(text) ELSE moved

Move ==
  /\ Press
  /\ \E offset \in {-1, 1} : cursor_pos' = move_cursor(offset)
  /\ call' = update_text
  /\ UNCHANGED <<engine, text>>

(* Every character goes to the end. *)
BugTypeAtEnd(c) ==
  /\ Press
  /\ Len(text) < MaxLen
  /\ text' = Append(text, c)
  /\ cursor_pos' = cursor_pos + 1
  /\ call' = update_text
  /\ UNCHANGED engine

Type(c) ==
  /\ Press
  /\ Len(text) < MaxLen
  /\ IF cursor_pos >= ByteLen(text) \/ IsBoundary(text, cursor_pos)
       THEN /\ text' = IF cursor_pos >= ByteLen(text) THEN Append(text, c)
                       ELSE InsertAt(text, Index(text, cursor_pos) + 1, c)
            /\ cursor_pos' = cursor_pos + 1
            /\ call' = update_text
            /\ UNCHANGED engine
       ELSE Panic("index")

(* A cursor key at its end, or a key without a character *)
OtherKey == Press /\ UNCHANGED <<engine, field, call>>

(* The expansion is committed before the text goes from the display. *)
BugCommitFirst(output) == output \o update_text \o <<"exit">>

CommitCall(output) == update_text \o output \o <<"exit">>

(* check_trigger finds an expansion, finds none, or fails. *)
Return ==
  /\ Press
  /\ \/ /\ text # <<>>
        /\ \/ \E output \in {<<"commit">>, <<>>} : call' = CommitCall(output)
              /\ clear_text /\ UNCHANGED engine
           \/ Panic("trigger")
     \/ /\ text = <<>>
        /\ call' = <<"exit">>
        /\ UNCHANGED <<engine, field>>

ClearAndExit == clear_text /\ call' = update_text \o <<"exit">> /\ UNCHANGED engine

Escape == Press /\ ClearAndExit

Reset ==
  /\ Serves
  /\ ClearAndExit
  /\ UNCHANGED <<new_key_pressed, fresh, shown, connected, notified, main>>

(* One that comes quickly after the start is ignored. *)
FocusOut ==
  /\ Serves
  /\ ~fresh
  /\ ClearAndExit
  /\ UNCHANGED <<new_key_pressed, fresh, shown, connected, notified, main>>

Enable ==
  /\ Serves
  /\ fresh' = TRUE
  /\ UNCHANGED <<engine, field, new_key_pressed, call, shown, connected, notified, main>>

Destroy ==
  /\ Serves
  /\ notified' = TRUE
  /\ UNCHANGED <<engine, field, new_key_pressed, fresh, call, shown, connected, main>>

-----------------------------------------------------------------------------
(* The rest of a call *)

UpdatePreedit ==
  /\ Head(call) = "preedit"
  /\ preedit' = [text |-> text, cursor |-> cursor_pos]
  /\ UNCHANGED <<table, notified>>

(* Without candidates there is no signal: the table before stays. *)
UpdateTable ==
  /\ Head(call) = "candidates"
  /\ table' = IF fuzzy_match(text) = {} THEN table ELSE text
  /\ UNCHANGED <<preedit, notified>>

Emit ==
  /\ Head(call) \in {"forward", "commit"}
  /\ UNCHANGED <<shown, notified>>

BugExitQuietly == Head(call) = "exit" /\ UNCHANGED <<shown, notified>>

(* After 100 ms *)
exit == Head(call) = "exit" /\ notified' = TRUE /\ UNCHANGED shown

Continue ==
  /\ main = "waiting" /\ call # <<>>
  /\ UpdatePreedit \/ UpdateTable \/ Emit \/ exit
  /\ call' = Tail(call)
  /\ UNCHANGED <<engine, field, new_key_pressed, fresh, connected, main>>

(* A signal that cannot be sent ends its call early. *)
SignalFails ==
  /\ main = "waiting" /\ call # <<>>
  /\ ~connected
  /\ Head(call) # "exit"
  /\ call' = <<>>
  /\ UNCHANGED <<engine, field, new_key_pressed, fresh, shown, connected, notified, main>>

-----------------------------------------------------------------------------
(* The surroundings *)

Elapse ==
  /\ main = "waiting" /\ fresh
  /\ fresh' = FALSE
  /\ UNCHANGED <<engine, field, new_key_pressed, call, shown, connected, notified, main>>

Disconnect ==
  /\ main = "waiting" /\ connected
  /\ connected' = FALSE
  /\ UNCHANGED <<engine, field, new_key_pressed, fresh, call, shown, notified, main>>

(* done_listener.wait() returns; the cache is written, and the process ends. *)
Exit ==
  /\ main = "waiting" /\ notified
  /\ main' = "exited"
  /\ UNCHANGED <<engine, field, new_key_pressed, fresh, call, shown, connected, notified>>

process_key_event ==
  \/ Release \/ BackSpace \/ Delete \/ Move \/ OtherKey \/ Return \/ Escape
  \/ \E c \in Chars : Type(c)

Next ==
  \/ create_engine \/ process_key_event \/ Reset \/ FocusOut \/ Enable \/ Destroy
  \/ Continue \/ SignalFails
  \/ Elapse \/ Disconnect \/ Exit

Spec == Init /\ [][Next]_vars

FairSpec == Spec /\ WF_vars(Continue \/ SignalFails) /\ WF_vars(Exit)

-----------------------------------------------------------------------------
(* Properties *)

Steps == {"preedit", "candidates", "commit", "exit", "forward"}

(* Every variable has its type, and the cursor is never beyond the end of  *)
(* the text.                                                               *)
TypeOK ==
  /\ engine \in {"none", "ready", "index", "trigger"}
  /\ text \in Seq(Chars) /\ Len(text) <= MaxLen
  /\ cursor_pos \in 0 .. ByteLen(text)
  /\ {new_key_pressed, fresh, connected, notified} \subseteq BOOLEAN
  /\ call \in Seq(Steps)
  /\ preedit.text \in Seq(Chars) /\ preedit.cursor \in Nat
  /\ table \in Seq(Chars)
  /\ main \in {"waiting", "exited"}

(* Backspace, Delete and insertion never index a position that is not there *)
(* as long as no character of two bytes is on the line.                     *)
PanicNeedsWide == engine = "index" => HasWide

(* When no call is in progress and no signal was lost, the display shows    *)
(* the text and the cursor, and its candidates are the text's unless it has *)
(* none.                                                                    *)
DisplayIsCurrent ==
  connected /\ call = <<>> =>
    /\ preedit = [text |-> text, cursor |-> cursor_pos]
    /\ engine # "none" /\ fuzzy_match(text) # {} => table = text

(* The expansion is committed into an application that no longer shows the *)
(* trigger as preedit text, so that it does not stand beside it.            *)
CommitAfterClear ==
  call # <<>> /\ Head(call) = "commit" => preedit.text = <<>> /\ text = <<>>

(* The engine is a line editor as long as every character is one byte. *)
Editor == INSTANCE LineEditor WITH line <- text, cursor <- cursor_pos
Implements == Editor!Spec

Quitting == call # <<>> /\ Last(call) = "exit"

(* Return, Escape, Reset and a late FocusOut end the process, whatever is    *)
(* called meanwhile, unless the bus goes away before they are done.         *)
Quits == Quitting ~> main = "exited" \/ ~connected
=============================================================================
