------------------------------ MODULE SeatInput ------------------------------
(***************************************************************************)
(* The Wayland front end: one input context per seat, driven by the events *)
(* of the seat's input method and keyboard grab and by the repeat timers   *)
(* the contexts register with the calloop event loop.                      *)
(*                                                                         *)
(* Text is abstracted to whether there is any; a keycode is a member of    *)
(* Keys and the keysym it has depends on the modifiers (Levels).  Timers   *)
(* are untimed: a registered timer may fire at any moment.                 *)
(***************************************************************************)
EXTENDS Naturals, FiniteSets

CONSTANTS
  Seats,       \* the seats advertised before init_protocols (SeatIndex)
  Keys,        \* keycodes
  Levels,      \* modifier states of an xkb_state
  BaseLevel,   \* the modifier state of a fresh xkb_state
  KeySym,      \* the kind of keysym of a keycode under a modifier state
  KeyRepeats,  \* the keycodes for which key_repeats holds
  Slots,       \* indices of the array `pressed` (64 in the code)
  Tokens,      \* registrations the event loop can hold; bounds the timers
  MaxDone,     \* bound on the Done events of a seat
  None

(* "ascii": handle_key appends it; "other": it is not a printable ASCII key *)
SymKinds == {"ascii", "other", "space", "Escape", "Return"}

(* The expectations and unwraps of the handlers that can fail *)
PanicReasons ==
  {"context", "xkb_keymap", "repeat_delay", "repeat_timer", "zero_rate", "check_trigger"}

RepeatTimers == [keycode : Keys, registration : Tokens]

ASSUME KeyAssumption ==
  /\ BaseLevel \in Levels
  /\ KeySym \in [Keys -> [Levels -> SymKinds]]
  /\ KeyRepeats \subseteq Keys
ASSUME NoneAssumption ==
  None \notin Keys \cup Levels \cup Seats \cup RepeatTimers
ASSUME MaxDoneAssumption == MaxDone \in Nat

VARIABLES
  running,   \* State.running
  status,    \* "up", "exited", or why the process panicked
  contexts,  \* the seats whose context is still in State.contexts
  ctx,       \* the InputContext of each seat
  timers,    \* the seat each registration's callback is for, or None
  held,      \* keys physically down on each seat
  route,     \* who got the last press the seat's grab delivered (history)
  vkDown     \* keys the virtual keyboard has left pressed (history)

vars == <<running, status, contexts, ctx, timers, held, route, vkDown>>

InputContext ==
  [xkb_keymap : BOOLEAN,                          \* Option: Some or None
   xkb_state : Levels \cup {None},
   pending_activate : BOOLEAN,
   pending_deactivate : BOOLEAN,
   num_done_events : 0 .. MaxDone,
   keyboard_grab : BOOLEAN,
   repeat_info : {"unset", "zero", "positive"},   \* repeat_rate; the delay is set with it
   pressed : [Slots -> Keys \cup {None}],
   repeat_timer : RepeatTimers \cup {None},
   buffer : BOOLEAN,                              \* Option: Some or None
   preedit : BOOLEAN]                             \* the compositor shows a preedit string

(* "im": consumed by shinran, "app": forwarded, "up": no press outstanding, *)
(* "lost": the press came through a grab that has ended since               *)
Routes == {"up", "im", "app", "lost"}

EmptyPressed == [i \in Slots |-> None]

NewContext ==
  [xkb_keymap |-> FALSE, xkb_state |-> None,
   pending_activate |-> FALSE, pending_deactivate |-> FALSE,
   num_done_events |-> 0, keyboard_grab |-> FALSE, repeat_info |-> "unset",
   pressed |-> EmptyPressed, repeat_timer |-> None,
   buffer |-> FALSE, preedit |-> FALSE]

Init ==
  /\ running = TRUE
  /\ status = "up"
  /\ contexts = Seats
  /\ ctx = [s \in Seats |-> NewContext]
  /\ timers = [t \in Tokens |-> None]
  /\ held = [s \in Seats |-> {}]
  /\ route = [s \in Seats |-> [k \in Keys |-> "up"]]
  /\ vkDown = [s \in Seats |-> {}]

-----------------------------------------------------------------------------
(* InputContext methods *)

IsPressed(c, k) == \E i \in Slots : c.pressed[i] = k

(* The array of 64 keycodes: always the same slot is taken. *)
BugMarkSameSlot(c, k) ==
  [c EXCEPT !.pressed[CHOOSE i \in Slots : TRUE] = k]

(* The slot taken is the first free one; which one it is shows nowhere else. *)
mark_as_pressed(c, k) ==
  IF IsPressed(c, None)
    THEN [c EXCEPT !.pressed[CHOOSE i \in Slots : c.pressed[i] = None] = k]
    ELSE c

(* Clearing the slot clears the array. *)
BugReleaseAll(c, k) ==
  IF IsPressed(c, k) THEN [c EXCEPT !.pressed = EmptyPressed] ELSE c

release_if_pressed(c, k) ==
  IF IsPressed(c, k)
    THEN [c EXCEPT !.pressed[CHOOSE i \in Slots : c.pressed[i] = k] = None]
    ELSE c

Sym(c, k) == KeySym[k][c.xkb_state]

(* Escape is handled as the commented-out `return Some(true)` would. *)
BugEscapeIsHandled(c, k) ==
  CASE Sym(c, k) \in {"ascii", "Escape"} -> "handled"
    [] Sym(c, k) \in {"other", "space"} -> "unhandled"
    [] Sym(c, k) = "Return" -> "shutdown"

(* handle_key returns Some(true), Some(false) or None *)
Outcome(c, k) ==
  CASE Sym(c, k) = "ascii" -> "handled"
    [] Sym(c, k) \in {"other", "space"} -> "unhandled"
    [] Sym(c, k) \in {"Escape", "Return"} -> "shutdown"

(* The context handle_key leaves behind.  Return commits the expansion, or *)
(* clears the preedit string when there is none.                           *)
handle_key(c, k) ==
  CASE Sym(c, k) = "ascii"  -> [c EXCEPT !.buffer = TRUE, !.preedit = TRUE]
    [] Sym(c, k) = "other"  -> [c EXCEPT !.preedit = c.preedit \/ c.buffer]
    [] Sym(c, k) = "space"  -> c
    [] Sym(c, k) = "Escape" -> [c EXCEPT !.preedit = FALSE]
    [] Sym(c, k) = "Return" -> [c EXCEPT !.buffer = FALSE, !.preedit = c.preedit /\ ~c.buffer]

(* Return expands the buffer; check_trigger(buffer).unwrap() may panic *)
Expands(c, k) == Sym(c, k) = "Return" /\ c.buffer

(* The release of a repeating key looks for its mark first. *)
BugRepeatsIfMarked(c, k) ==
  c.repeat_timer # None /\ c.repeat_timer.keycode = k /\ IsPressed(c, k)

Repeats(c, k) == c.repeat_timer # None /\ c.repeat_timer.keycode = k
RepeatsAnother(c, k) == c.repeat_timer # None /\ c.repeat_timer.keycode # k

(* The registration is removed from the loop, the field is not reset. *)
BugStopKeepsField(c) == c

StopRepeat(c) == [c EXCEPT !.repeat_timer = None]

-----------------------------------------------------------------------------
(* Key events.  The grab delivers an event of a seat only while it is held; *)
(* a keycode's presses and releases alternate.                              *)

SetCtx(s, c) == ctx' = [ctx EXCEPT ![s] = c]
SetRoute(s, k, r) == route' = [route EXCEPT ![s][k] = r]

KeyDown(s, k) ==
  /\ status = "up"
  /\ s \in contexts
  /\ k \notin held[s]
  /\ held' = [held EXCEPT ![s] = @ \cup {k}]

KeyUp(s, k) ==
  /\ status = "up"
  /\ s \in contexts
  /\ k \in held[s]
  /\ held' = [held EXCEPT ![s] = @ \ {k}]

Delivered(c) == c.keyboard_grab /\ c.xkb_state # None

(* virtual_keyboard.key *)
ForwardPress(s, k) ==
  /\ vkDown' = [vkDown EXCEPT ![s] = @ \cup {k}]
  /\ SetRoute(s, k, "app")
ForwardRelease(s, k) ==
  /\ vkDown' = [vkDown EXCEPT ![s] = @ \ {k}]
  /\ SetRoute(s, k, "up")
ConsumePress(s, k) ==
  /\ SetRoute(s, k, "im")
  /\ UNCHANGED vkDown
ConsumeRelease(s, k) ==
  /\ SetRoute(s, k, "up")
  /\ UNCHANGED vkDown

(* No grab, or no keymap yet: the handler is not called or returns at once. *)
KeyNotSeen(s, k) ==
  /\ ~Delivered(ctx[s])
  /\ \/ KeyDown(s, k) \/ KeyUp(s, k)
  /\ UNCHANGED <<running, status, contexts, ctx, timers, route, vkDown>>

Stays(h) == UNCHANGED <<status, contexts>> /\ running' = (running /\ h # "shutdown")

(* First check: another key was pressed while a key repeats. *)
RetargetRepeat(c, k) ==
  IF k \in KeyRepeats THEN [c EXCEPT !.repeat_timer.keycode = k]
                      ELSE StopRepeat(c)

PressWhileRepeating(s, k) ==
  LET c == ctx[s]
      d == handle_key(c, k)
      h == Outcome(c, k) IN
  /\ Delivered(c)
  /\ RepeatsAnother(c, k)
  /\ KeyDown(s, k)
  /\ Stays(h)
  /\ \/ /\ h = "handled"
        /\ c.xkb_keymap
        /\ SetCtx(s, RetargetRepeat(mark_as_pressed(d, k), k))
        /\ ConsumePress(s, k)
        /\ UNCHANGED timers
     \/ /\ h = "unhandled"
        /\ SetCtx(s, StopRepeat(d))
        /\ timers' = [timers EXCEPT ![c.repeat_timer.registration] = None]
        /\ ForwardPress(s, k)
     \/ /\ h = "shutdown"
        /\ SetCtx(s, d)
        /\ ConsumePress(s, k)
        /\ UNCHANGED timers

(* Third to fifth check: no key repeats, or this very key does.  A handled *)
(* key that repeats gets a timer of its own, registered with the loop.     *)
PressOtherwise(s, k) ==
  LET c == ctx[s]
      d == handle_key(c, k)
      h == Outcome(c, k) IN
  /\ Delivered(c)
  /\ c.xkb_keymap
  /\ ~RepeatsAnother(c, k)
  /\ KeyDown(s, k)
  /\ Stays(h)
  /\ \/ /\ h = "unhandled"
        /\ SetCtx(s, d)
        /\ ForwardPress(s, k)
        /\ UNCHANGED timers
     \/ /\ h # "unhandled"
        /\ k \notin KeyRepeats
        /\ SetCtx(s, mark_as_pressed(d, k))
        /\ ConsumePress(s, k)
        /\ UNCHANGED timers
     \/ /\ h # "unhandled"
        /\ k \in KeyRepeats
        /\ c.repeat_info # "unset"
        /\ \E t \in Tokens :
             /\ timers[t] = None
             /\ timers' = [timers EXCEPT ![t] = s]
             /\ SetCtx(s, [mark_as_pressed(d, k) EXCEPT
                             !.repeat_timer = [keycode |-> k, registration |-> t]])
        /\ ConsumePress(s, k)

(* Second check: the repeating key is released. *)
ReleaseRepeating(s, k) ==
  LET c == ctx[s] IN
  /\ Delivered(c)
  /\ Repeats(c, k)
  /\ KeyUp(s, k)
  /\ SetCtx(s, StopRepeat(release_if_pressed(c, k)))
  /\ timers' = [timers EXCEPT ![c.repeat_timer.registration] = None]
  /\ ConsumeRelease(s, k)
  /\ UNCHANGED <<running, status, contexts>>

(* Sixth check: any other key is released; the release of a key that was not *)
(* marked goes to the application.                                           *)
ReleaseOther(s, k) ==
  LET c == ctx[s] IN
  /\ Delivered(c)
  /\ ~Repeats(c, k)
  /\ KeyUp(s, k)
  /\ SetCtx(s, release_if_pressed(c, k))
  /\ IF IsPressed(c, k) THEN ConsumeRelease(s, k) ELSE ForwardRelease(s, k)
  /\ UNCHANGED <<running, status, contexts, timers>>

-----------------------------------------------------------------------------
(* The other events of the keyboard grab *)

Listens(s) == status = "up" /\ s \in contexts

Modifiers(s, l) ==
  /\ Listens(s)
  /\ Delivered(ctx[s])
  /\ SetCtx(s, [ctx[s] EXCEPT !.xkb_state = l])
  /\ UNCHANGED <<running, status, contexts, timers, held, route, vkDown>>

(* A keymap that does not compile takes the old keymap away but leaves the *)
(* old xkb_state in place.                                                 *)
Keymap(s, compiles) ==
  /\ Listens(s)
  /\ ctx[s].keyboard_grab
  /\ SetCtx(s, IF compiles
                 THEN [ctx[s] EXCEPT !.xkb_keymap = TRUE, !.xkb_state = BaseLevel]
                 ELSE [ctx[s] EXCEPT !.xkb_keymap = FALSE])
  /\ UNCHANGED <<running, status, contexts, timers, held, route, vkDown>>

RepeatInfo(s, r) ==
  /\ Listens(s)
  /\ ctx[s].keyboard_grab
  /\ SetCtx(s, [ctx[s] EXCEPT !.repeat_info = r])
  /\ UNCHANGED <<running, status, contexts, timers, held, route, vkDown>>

-----------------------------------------------------------------------------
(* The events of the input method *)

Activate(s) ==
  /\ Listens(s)
  /\ SetCtx(s, [ctx[s] EXCEPT !.pending_activate = TRUE])
  /\ UNCHANGED <<running, status, contexts, timers, held, route, vkDown>>

Deactivate(s) ==
  /\ Listens(s)
  /\ SetCtx(s, [ctx[s] EXCEPT !.pending_deactivate = TRUE])
  /\ UNCHANGED <<running, status, contexts, timers, held, route, vkDown>>

(* Done applies what is pending.  The compositor drops the preedit string of *)
(* an input method it deactivates.                                           *)
BugKeepPressed(c) ==
  [c EXCEPT !.keyboard_grab = FALSE, !.preedit = FALSE]
BugForgetRate(c) ==
  [c EXCEPT !.keyboard_grab = FALSE, !.pressed = EmptyPressed, !.preedit = FALSE,
            !.repeat_info = "unset"]

ReleaseGrab(c) ==
  [c EXCEPT !.keyboard_grab = FALSE, !.pressed = EmptyPressed, !.preedit = FALSE]

(* A Done that activates is counted twice. *)
BugCountTwice(c) ==
  IF c.keyboard_grab
    THEN IF c.pending_deactivate THEN ReleaseGrab(c) ELSE c
    ELSE IF c.pending_activate
           THEN [c EXCEPT !.keyboard_grab = TRUE, !.num_done_events = @ + 1]
           ELSE c

ApplyPending(c) ==
  IF c.keyboard_grab
    THEN IF c.pending_deactivate THEN ReleaseGrab(c) ELSE c
    ELSE [c EXCEPT !.keyboard_grab = c.pending_activate]

Done(s) ==
  LET c == ApplyPending(ctx[s]) IN
  /\ Listens(s)
  /\ ctx[s].num_done_events < MaxDone
  /\ SetCtx(s, [c EXCEPT !.num_done_events = @ + 1,
                         !.pending_activate = FALSE, !.pending_deactivate = FALSE])
  /\ route' = IF ctx[s].keyboard_grab /\ ~c.keyboard_grab
                THEN [route EXCEPT ![s] =
                        [k \in Keys |-> IF @[k] = "up" THEN "up" ELSE "lost"]]
                ELSE route
  /\ UNCHANGED <<running, status, contexts, timers, held, vkDown>>

-----------------------------------------------------------------------------
(* The event loop: a registered timer fires, repeat_key runs. *)

Repeater(t) == ctx[timers[t]].repeat_timer.keycode

CanRepeat(t) ==
  LET s == timers[t] IN
  /\ status = "up"
  /\ s \in contexts
  /\ ctx[s].repeat_info = "positive"
  /\ ctx[s].repeat_timer # None

(* A handled key is rescheduled, and so is one that asks to shut down. *)
RepeatHandled(t) ==
  LET s == timers[t] IN
  /\ CanRepeat(t)
  /\ Outcome(ctx[s], Repeater(t)) # "unhandled"
  /\ SetCtx(s, handle_key(ctx[s], Repeater(t)))
  /\ UNCHANGED <<running, status, contexts, timers, held, route, vkDown>>

(* A key that is no longer handled is forwarded and its timer dropped. *)
RepeatForwarded(t) ==
  LET s == timers[t] IN
  /\ CanRepeat(t)
  /\ Outcome(ctx[s], Repeater(t)) = "unhandled"
  /\ SetCtx(s, StopRepeat(handle_key(ctx[s], Repeater(t))))
  /\ timers' = [timers EXCEPT ![t] = None]
  /\ vkDown' = [vkDown EXCEPT ![s] = @ \cup {Repeater(t)}]
  /\ UNCHANGED <<running, status, contexts, held, route>>

TimerFires(t) == timers[t] # None /\ (RepeatHandled(t) \/ RepeatForwarded(t))

-----------------------------------------------------------------------------
(* A panic unwinds through the dispatch loop and ends the process. *)

Panic(reason) ==
  /\ status = "up"
  /\ status' = reason
  /\ UNCHANGED <<running, contexts, ctx, timers, held, route, vkDown>>

PressPanics(s, k) ==
  LET c == ctx[s] IN
  /\ Listens(s)
  /\ Delivered(c)
  /\ k \notin held[s]
  /\ \/ Expands(c, k) /\ Panic("check_trigger")
     \/ /\ ~c.xkb_keymap
        /\ RepeatsAnother(c, k) => Outcome(c, k) = "handled"
        /\ Panic("xkb_keymap")
     \/ /\ c.repeat_info = "unset"
        /\ c.xkb_keymap
        /\ ~RepeatsAnother(c, k)
        /\ Outcome(c, k) # "unhandled" /\ k \in KeyRepeats
        /\ Panic("repeat_delay")

TimerPanics(t) ==
  LET s == timers[t] IN
  /\ s # None
  /\ \/ s \notin contexts /\ Panic("context")
     \/ s \in contexts /\ ctx[s].repeat_timer = None /\ Panic("repeat_timer")
     \/ /\ s \in contexts /\ ctx[s].repeat_timer # None
        /\ ctx[s].repeat_info = "zero"
        /\ Panic("zero_rate")
     \/ /\ s \in contexts /\ ctx[s].repeat_timer # None
        /\ ctx[s].repeat_info = "positive"
        /\ Expands(ctx[s], Repeater(t))
        /\ Panic("check_trigger")

-----------------------------------------------------------------------------
(* The seat goes away: its context is dropped, its timers and its protocol *)
(* objects are not, and an event for one of those looks the context up.    *)

GlobalRemove(s) ==
  /\ Listens(s)
  /\ contexts' = contexts \ {s}
  /\ UNCHANGED <<running, status, ctx, timers, held, route, vkDown>>

(* input_method.unavailable announces the removal of the seat *)
EventAfterRemove(s) == s \notin contexts /\ Panic("context")

(* The loop ends once running is false; the handlers of the batch in which *)
(* it became so, and of one more dispatch, may still run before.           *)
Exit ==
  /\ status = "up"
  /\ ~running
  /\ status' = "exited"
  /\ UNCHANGED <<running, contexts, ctx, timers, held, route, vkDown>>

KeyEvent(s, k) ==
  \/ KeyNotSeen(s, k)
  \/ PressWhileRepeating(s, k)
  \/ PressOtherwise(s, k)
  \/ ReleaseRepeating(s, k)
  \/ ReleaseOther(s, k)
  \/ PressPanics(s, k)

SeatEvent(s) ==
  \/ \E l \in Levels : Modifiers(s, l)
  \/ \E compiles \in BOOLEAN : Keymap(s, compiles)
  \/ \E r \in {"zero", "positive"} : RepeatInfo(s, r)
  \/ Activate(s)
  \/ Deactivate(s)
  \/ Done(s)
  \/ GlobalRemove(s)
  \/ EventAfterRemove(s)

Next ==
  \/ \E s \in Seats, k \in Keys : KeyEvent(s, k)
  \/ \E s \in Seats : SeatEvent(s)
  \/ \E t \in Tokens : TimerFires(t) \/ TimerPanics(t)
  \/ Exit

Spec == Init /\ [][Next]_vars

(* The loop returns from a dispatch whose batch is finite, so it reaches the *)
(* test of `running` again, and the last dispatch has a timeout.             *)
FairSpec == Spec /\ WF_vars(Exit)

-----------------------------------------------------------------------------
(* Properties *)

(* Every variable has its type. *)
TypeOK ==
  /\ running \in BOOLEAN
  /\ status \in {"up", "exited"} \cup PanicReasons
  /\ contexts \subseteq Seats
  /\ ctx \in [Seats -> InputContext]
  /\ timers \in [Tokens -> Seats \cup {None}]
  /\ held \in [Seats -> SUBSET Keys]
  /\ route \in [Seats -> [Keys -> Routes]]
  /\ vkDown \in [Seats -> SUBSET Keys]

(* A context's repeat timer is registered with the event loop for that very *)
(* seat, so update(&token).expect("Failed to update timer.") and remove do   *)
(* not fail, through retargeting, deactivation and overwritten timers.       *)
TimerBacked ==
  \A s \in Seats : ctx[s].repeat_timer # None =>
    timers[ctx[s].repeat_timer.registration] = s

(* Whenever a timer is in the loop its seat has been told the repeat rate:  *)
(* expect("Repeat rate should have been set.") in repeat_key does not fail. *)
RateKnown ==
  \A t \in Tokens : timers[t] # None => ctx[timers[t]].repeat_info # "unset"

(* No slot of `pressed` leaks: an occupied slot stands for a key whose press *)
(* this grab consumed and that is still down, and for no other slot's key.   *)
(* Hence, as mark_as_pressed says, "there should always be an empty one".    *)
NoSlotLeak ==
  \A s \in Seats : \A i \in Slots : ctx[s].pressed[i] # None =>
    /\ route[s][ctx[s].pressed[i]] = "im"
    /\ \A j \in Slots : ctx[s].pressed[j] = ctx[s].pressed[i] => j = i

(* While the program runs, every key whose press was consumed in this grab is *)
(* marked, whichever check handled it: no consumed press loses its mark.      *)
ConsumedIsMarked ==
  running => \A s \in Seats : \A k \in Keys :
    route[s][k] = "im" => IsPressed(ctx[s], k)

(* The key that repeats is one whose press the context received and whose   *)
(* release it has not: a release that is delivered always stops the repeat. *)
RepeatIsDown ==
  \A s \in Seats : ctx[s].repeat_timer # None =>
    route[s][ctx[s].repeat_timer.keycode] # "up"

(* A release reaches the application exactly when the press was not consumed *)
(* (checked within one grab).                                                *)
KeyReleased(s, k) == route[s][k] # "up" /\ route'[s][k] = "up"
ReleaseFollowsPress ==
  [][running => \A s \in Seats : \A k \in Keys : KeyReleased(s, k) =>
       (route[s][k] = "app" <=> k \in vkDown[s] /\ k \notin vkDown'[s])]_vars

(* A consumed press of a key that is Escape under every modifier ends the    *)
(* process, also when it interrupts the repeat of another key.               *)
IsEscape(k) == \A l \in Levels : KeySym[k][l] = "Escape"
EscapeQuits ==
  \A s \in Seats : \A k \in Keys :
    IsEscape(k) /\ route[s][k] = "im" ~> status # "up"

(* The expect of repeat_key: "Repeat timer should have been set." *)
RepeatTimerIsSet == status # "repeat_timer"

(* "We handled the corresponding pressed event, so we're done." (release of *)
(* a marked key): the application is left with no key it thinks is pressed  *)
(* after the key's release was delivered.                                   *)
NoStuckKey ==
  \A s \in Seats : \A k \in vkDown[s] : route[s][k] # "up"
=============================================================================
