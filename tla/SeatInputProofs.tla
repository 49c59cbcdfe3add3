--------------------------- MODULE SeatInputProofs ---------------------------
(* Proofs about SeatInput, for any seats, keys, slots and timers. *)
EXTENDS SeatInput, FiniteSetTheorems, TLAPS

USE DEF SymKinds

(* The methods of an input context return an input context. *)
LEMMA MarkType ==
  ASSUME NEW c \in InputContext, NEW k \in Keys
  PROVE  mark_as_pressed(c, k) \in InputContext
<1>1. CASE IsPressed(c, None)
  <2>1. (CHOOSE i \in Slots : c.pressed[i] = None) \in Slots
    BY <1>1 DEF IsPressed
  <2>2. QED BY <1>1, <2>1 DEF mark_as_pressed, InputContext
<1>2. CASE ~IsPressed(c, None)
  BY <1>2 DEF mark_as_pressed
<1>3. QED BY <1>1, <1>2

LEMMA ReleaseType ==
  ASSUME NEW c \in InputContext, NEW k \in Keys
  PROVE  release_if_pressed(c, k) \in InputContext
<1>1. CASE IsPressed(c, k)
  <2>1. (CHOOSE i \in Slots : c.pressed[i] = k) \in Slots
    BY <1>1 DEF IsPressed
  <2>2. QED BY <1>1, <2>1 DEF release_if_pressed, InputContext
<1>2. CASE ~IsPressed(c, k)
  BY <1>2 DEF release_if_pressed
<1>3. QED BY <1>1, <1>2

LEMMA SymType ==
  ASSUME NEW c \in InputContext, NEW k \in Keys, c.xkb_state # None
  PROVE  Sym(c, k) \in SymKinds
BY KeyAssumption DEF Sym, InputContext

LEMMA HandleKeyType ==
  ASSUME NEW c \in InputContext, NEW k \in Keys, c.xkb_state # None
  PROVE  handle_key(c, k) \in InputContext
<1>1. Sym(c, k) \in SymKinds  BY SymType
<1>2. QED BY <1>1 DEF handle_key, InputContext

LEMMA StopRepeatType ==
  ASSUME NEW c \in InputContext
  PROVE  StopRepeat(c) \in InputContext
BY DEF StopRepeat, InputContext

LEMMA NewContextType == NewContext \in InputContext
BY MaxDoneAssumption DEF NewContext, InputContext, EmptyPressed

(* A press of a key whose timer runs retargets or stops the repeat. *)
LEMMA RetargetType ==
  ASSUME NEW c \in InputContext, NEW k \in Keys, c.repeat_timer # None
  PROVE  RetargetRepeat(c, k) \in InputContext
<1>1. CASE k \in KeyRepeats
  BY <1>1 DEF RetargetRepeat, InputContext, RepeatTimers
<1>2. CASE k \notin KeyRepeats
  BY <1>2, StopRepeatType DEF RetargetRepeat
<1>3. QED BY <1>1, <1>2

(* None of the methods but StopRepeat and RetargetRepeat touches the timer; *)
(* none touches what the grab's other events set.                           *)
LEMMA MethodsKeep ==
  ASSUME NEW c \in InputContext, NEW k \in Keys
  PROVE  /\ mark_as_pressed(c, k).repeat_timer = c.repeat_timer
         /\ mark_as_pressed(c, k).repeat_info = c.repeat_info
         /\ mark_as_pressed(c, k).xkb_state = c.xkb_state
         /\ mark_as_pressed(c, k).keyboard_grab = c.keyboard_grab
         /\ release_if_pressed(c, k).repeat_timer = c.repeat_timer
         /\ release_if_pressed(c, k).repeat_info = c.repeat_info
         /\ release_if_pressed(c, k).xkb_state = c.xkb_state
         /\ release_if_pressed(c, k).keyboard_grab = c.keyboard_grab
BY DEF mark_as_pressed, release_if_pressed, InputContext

LEMMA HandleKeyKeeps ==
  ASSUME NEW c \in InputContext, NEW k \in Keys, c.xkb_state # None
  PROVE  /\ handle_key(c, k).repeat_timer = c.repeat_timer
         /\ handle_key(c, k).repeat_info = c.repeat_info
         /\ handle_key(c, k).xkb_state = c.xkb_state
         /\ handle_key(c, k).keyboard_grab = c.keyboard_grab
         /\ handle_key(c, k).pressed = c.pressed
<1>1. Sym(c, k) \in SymKinds  BY SymType
<1>2. QED BY <1>1 DEF handle_key, InputContext

(***************************************************************************)
(* The inductive invariant: types, the timer and rate properties, and that *)
(* a context with a timer has an xkb_state, which the callback unwraps.    *)
(***************************************************************************)
StateForTimer ==
  \A s \in Seats : ctx[s].repeat_timer # None => ctx[s].xkb_state # None

IInv == TypeOK /\ TimerBacked /\ RateKnown /\ RepeatIsDown /\ StateForTimer

(* What every step does to the timers: a seat's context keeps its timer's  *)
(* registration or forgets it (KeepTimer), a registration of the seat is   *)
(* removed (DropTimer), or a free one is taken (ArmTimer).                 *)
KeepTimer(s, e) ==
  /\ timers' = timers
  /\ e.repeat_timer # None =>
       /\ ctx[s].repeat_timer # None
       /\ e.repeat_timer.registration = ctx[s].repeat_timer.registration

DropTimer(s, e) ==
  \E t \in Tokens : /\ timers[t] = s
                    /\ timers' = [timers EXCEPT ![t] = None]
                    /\ e.repeat_timer = None

ArmTimer(s, e) ==
  \E t \in Tokens : /\ timers[t] = None
                    /\ timers' = [timers EXCEPT ![t] = s]
                    /\ e.repeat_timer # None /\ e.repeat_timer.registration = t
                    /\ ctx[s].repeat_info # "unset"

SeatStep(s, e) ==
  /\ ctx' = [ctx EXCEPT ![s] = e]
  /\ \A x \in Seats \ {s} : route'[x] = route[x]
  /\ ctx[s].repeat_info # "unset" => e.repeat_info # "unset"
  /\ e.repeat_timer # None =>
       e.xkb_state # None /\ route'[s][e.repeat_timer.keycode] # "up"
  /\ KeepTimer(s, e) \/ DropTimer(s, e) \/ ArmTimer(s, e)

LEMMA SeatStepKeepsInv ==
  ASSUME IInv, TypeOK', NEW s \in Seats, NEW e \in InputContext, SeatStep(s, e)
  PROVE  IInv'
<1> USE DEF IInv
<1>1. /\ ctx \in [Seats -> InputContext] /\ timers \in [Tokens -> Seats \cup {None}]
      /\ ctx'[s] = e
      /\ \A x \in Seats \ {s} : ctx'[x] = ctx[x]
  BY DEF TypeOK, SeatStep
<1>2. \A x \in Seats : ctx[x].repeat_timer # None => ctx[x].repeat_timer.registration \in Tokens
  BY <1>1 DEF InputContext, RepeatTimers
<1>3. TimerBacked'
  <2> SUFFICES ASSUME NEW x \in Seats, ctx'[x].repeat_timer # None
               PROVE  timers'[ctx'[x].repeat_timer.registration] = x
    BY DEF TimerBacked
  <2>1. CASE KeepTimer(s, e)
    BY <1>1, <2>1 DEF KeepTimer, TimerBacked
  <2>2. CASE DropTimer(s, e)
    BY <1>1, <1>2, <2>2, NoneAssumption DEF DropTimer, TimerBacked
  <2>3. CASE ArmTimer(s, e)
    BY <1>1, <1>2, <2>3, NoneAssumption DEF ArmTimer, TimerBacked
  <2>4. QED BY <2>1, <2>2, <2>3 DEF SeatStep
<1>4. RateKnown'
  <2> SUFFICES ASSUME NEW t \in Tokens, timers'[t] # None
               PROVE  ctx'[timers'[t]].repeat_info # "unset"
    BY DEF RateKnown
  <2>1. timers[t] # None \/ (timers'[t] = s /\ ctx[s].repeat_info # "unset")
    BY <1>1 DEF SeatStep, KeepTimer, DropTimer, ArmTimer
  <2>2. timers[t] # None => timers'[t] = timers[t]
    BY <1>1 DEF SeatStep, KeepTimer, DropTimer, ArmTimer
  <2>3. ctx[timers'[t]].repeat_info # "unset"
    BY <2>1, <2>2 DEF RateKnown
  <2>4. QED BY <1>1, <2>1, <2>2, <2>3 DEF SeatStep
<1>5. RepeatIsDown' /\ StateForTimer'
  BY <1>1 DEF SeatStep, RepeatIsDown, StateForTimer
<1>6. QED BY <1>3, <1>4, <1>5

(* The history variables keep their types whoever gets a key event. *)
KeyRouted(s, k) ==
  ForwardPress(s, k) \/ ForwardRelease(s, k) \/ ConsumePress(s, k) \/ ConsumeRelease(s, k)

LEMMA HistoryType ==
  ASSUME TypeOK, NEW s \in Seats, NEW k \in Keys, KeyRouted(s, k)
  PROVE  /\ route' \in [Seats -> [Keys -> Routes]]
         /\ vkDown' \in [Seats -> SUBSET Keys]
         /\ \A x \in Seats \ {s} : route'[x] = route[x]
         /\ \A j \in Keys \ {k} : route'[s][j] = route[s][j]
<1>1. PICK r \in Routes : route' = [route EXCEPT ![s][k] = r]
  BY DEF KeyRouted, ForwardPress, ForwardRelease, ConsumePress, ConsumeRelease, SetRoute, Routes
<1>2. vkDown' \in {[vkDown EXCEPT ![s] = @ \cup {k}], [vkDown EXCEPT ![s] = @ \ {k}], vkDown}
  BY DEF KeyRouted, ForwardPress, ForwardRelease, ConsumePress, ConsumeRelease
<1>3. QED BY <1>1, <1>2 DEF TypeOK

-----------------------------------------------------------------------------
(* Every action of Next is such a step, or leaves contexts and timers alone *)

LEMMA PressWhileRepeatingStep ==
  ASSUME IInv, NEW s \in Seats, NEW k \in Keys, PressWhileRepeating(s, k)
  PROVE  TypeOK' /\ \E e \in InputContext : SeatStep(s, e)
<1> DEFINE c == ctx[s]
           d == handle_key(c, k)
           m == mark_as_pressed(d, k)
           h == Outcome(c, k)
<1>1. /\ c \in InputContext /\ c.xkb_state # None /\ c.repeat_timer # None
      /\ c.repeat_timer.keycode # k
      /\ c.repeat_timer \in RepeatTimers /\ timers[c.repeat_timer.registration] = s
      /\ route[s][c.repeat_timer.keycode] # "up"
  BY DEF IInv, TypeOK, PressWhileRepeating, Delivered, RepeatsAnother, TimerBacked,
         RepeatIsDown, InputContext
<1>2. /\ d \in InputContext /\ d.repeat_timer = c.repeat_timer
      /\ d.xkb_state = c.xkb_state /\ d.repeat_info = c.repeat_info
  BY <1>1, HandleKeyType, HandleKeyKeeps
<1>3. /\ m \in InputContext /\ m.repeat_timer = c.repeat_timer
      /\ m.xkb_state = c.xkb_state /\ m.repeat_info = c.repeat_info
  BY <1>2, MarkType, MethodsKeep
<1>4. /\ KeyDown(s, k) /\ Stays(h) /\ KeyRouted(s, k)
      /\ timers' \in {timers, [timers EXCEPT ![c.repeat_timer.registration] = None]}
  BY DEF PressWhileRepeating, KeyRouted
<1>5. \E e \in InputContext : SeatStep(s, e)
  <2> HIDE DEF m, d, h
  <2>1. CASE /\ ctx' = [ctx EXCEPT ![s] = RetargetRepeat(m, k)]
             /\ ConsumePress(s, k) /\ timers' = timers
    <3> DEFINE e == RetargetRepeat(m, k)
    <3>1. e \in InputContext
      BY <1>1, <1>3, RetargetType
    <3>2. /\ e.xkb_state = c.xkb_state /\ e.repeat_info = c.repeat_info
          /\ e.repeat_timer # None =>
               /\ e.repeat_timer.keycode = k
               /\ e.repeat_timer.registration = c.repeat_timer.registration
      BY <1>1, <1>3 DEF RetargetRepeat, StopRepeat, InputContext, RepeatTimers
    <3>3. route'[s][k] = "im" /\ \A x \in Seats \ {s} : route'[x] = route[x]
      BY <2>1 DEF ConsumePress, SetRoute, IInv, TypeOK
    <3> HIDE DEF e
    <3>4. SeatStep(s, e)
      BY <1>1, <2>1, <3>2, <3>3 DEF SeatStep, KeepTimer, e
    <3>5. QED BY <3>1, <3>4
  <2>2. CASE /\ ctx' = [ctx EXCEPT ![s] = StopRepeat(d)]
             /\ timers' = [timers EXCEPT ![c.repeat_timer.registration] = None]
    <3>1. /\ StopRepeat(d) \in InputContext /\ StopRepeat(d).repeat_timer = None
          /\ StopRepeat(d).repeat_info = c.repeat_info
      BY <1>2, StopRepeatType DEF StopRepeat, InputContext
    <3>2. \A x \in Seats \ {s} : route'[x] = route[x]
      BY <1>4, HistoryType DEF IInv
    <3>3. c.repeat_timer.registration \in Tokens
      BY <1>1 DEF RepeatTimers
    <3>4. SeatStep(s, StopRepeat(d))
      BY <1>1, <2>2, <3>1, <3>2, <3>3 DEF SeatStep, DropTimer
    <3>5. QED BY <3>1, <3>4
  <2>3. CASE /\ ctx' = [ctx EXCEPT ![s] = d]
             /\ timers' = timers
    <3>1. /\ \A x \in Seats \ {s} : route'[x] = route[x]
          /\ route'[s][c.repeat_timer.keycode] = route[s][c.repeat_timer.keycode]
      BY <1>1, <1>4, HistoryType DEF IInv, RepeatTimers
    <3>2. SeatStep(s, d)
      BY <1>1, <1>2, <2>3, <3>1 DEF SeatStep, KeepTimer
    <3>3. QED BY <1>2, <3>2
  <2>4. QED BY <2>1, <2>2, <2>3 DEF PressWhileRepeating, SetCtx, m, d
<1>6. TypeOK'
  <2>1. ctx' \in [Seats -> InputContext]
    BY <1>5 DEF SeatStep, IInv, TypeOK
  <2>2. timers' \in [Tokens -> Seats \cup {None}]
    BY <1>4 DEF IInv, TypeOK
  <2>3. /\ running' \in BOOLEAN /\ status' = status /\ contexts' = contexts
        /\ held' \in [Seats -> SUBSET Keys]
    BY <1>4 DEF IInv, TypeOK, Stays, KeyDown
  <2>4. QED BY <1>4, <2>1, <2>2, <2>3, HistoryType DEF IInv, TypeOK
<1>7. QED BY <1>5, <1>6

LEMMA PressOtherwiseStep ==
  ASSUME IInv, NEW s \in Seats, NEW k \in Keys, PressOtherwise(s, k)
  PROVE  TypeOK' /\ \E e \in InputContext : SeatStep(s, e)
<1> DEFINE c == ctx[s]
           d == handle_key(c, k)
           m == mark_as_pressed(d, k)
           h == Outcome(c, k)
<1>1. c \in InputContext /\ c.xkb_state # None
  BY DEF IInv, TypeOK, PressOtherwise, Delivered
<1>2. /\ d \in InputContext /\ d.repeat_timer = c.repeat_timer
      /\ d.xkb_state = c.xkb_state /\ d.repeat_info = c.repeat_info
  BY <1>1, HandleKeyType, HandleKeyKeeps
<1>3. /\ m \in InputContext /\ m.repeat_timer = c.repeat_timer
      /\ m.xkb_state = c.xkb_state /\ m.repeat_info = c.repeat_info
  BY <1>2, MarkType, MethodsKeep
<1>4. KeyDown(s, k) /\ Stays(h) /\ (ForwardPress(s, k) \/ ConsumePress(s, k))
  BY DEF PressOtherwise
<1>5. /\ \A x \in Seats \ {s} : route'[x] = route[x]
      /\ route'[s][k] # "up"
      /\ c.repeat_timer # None => route'[s][c.repeat_timer.keycode] # "up"
  <2>1. PICK r \in Routes \ {"up"} : route' = [route EXCEPT ![s][k] = r]
    BY <1>4 DEF ForwardPress, ConsumePress, SetRoute, Routes
  <2>2. c.repeat_timer # None =>
          c.repeat_timer.keycode \in Keys /\ route[s][c.repeat_timer.keycode] # "up"
    BY <1>1 DEF InputContext, RepeatTimers, RepeatIsDown, IInv
  <2>3. QED BY <2>1, <2>2 DEF IInv, TypeOK
<1> HIDE DEF m, d, h
<1>6. CASE /\ ctx' \in {[ctx EXCEPT ![s] = d], [ctx EXCEPT ![s] = m]}
           /\ timers' = timers
  <2>1. SeatStep(s, d) \/ SeatStep(s, m)
    BY <1>1, <1>2, <1>3, <1>5, <1>6 DEF SeatStep, KeepTimer
  <2>2. QED BY <1>2, <1>3, <1>4, <1>6, <2>1, HistoryType
            DEF IInv, TypeOK, KeyRouted, KeyDown, Stays
<1>7. CASE c.repeat_info # "unset" /\ \E t \in Tokens :
             /\ timers[t] = None
             /\ timers' = [timers EXCEPT ![t] = s]
             /\ ctx' = [ctx EXCEPT ![s] =
                          [m EXCEPT !.repeat_timer = [keycode |-> k, registration |-> t]]]
  <2>1. PICK t \in Tokens :
          /\ timers[t] = None
          /\ timers' = [timers EXCEPT ![t] = s]
          /\ ctx' = [ctx EXCEPT ![s] =
                       [m EXCEPT !.repeat_timer = [keycode |-> k, registration |-> t]]]
    BY <1>7
  <2> DEFINE r == [keycode |-> k, registration |-> t]
             e == [m EXCEPT !.repeat_timer = r]
  <2>2. r \in RepeatTimers /\ r # None /\ r.keycode = k /\ r.registration = t
    BY NoneAssumption DEF RepeatTimers
  <2> HIDE DEF r
  <2>3. /\ e \in InputContext /\ e.repeat_timer = r
        /\ e.xkb_state = c.xkb_state /\ e.repeat_info = c.repeat_info
    BY <1>3, <2>2 DEF InputContext
  <2>4. ctx' = [ctx EXCEPT ![s] = e]
    BY <2>1 DEF r
  <2> HIDE DEF e
  <2>5. SeatStep(s, e)
    BY <1>1, <1>5, <1>7, <2>1, <2>2, <2>3, <2>4 DEF SeatStep, ArmTimer
  <2>6. timers' \in [Tokens -> Seats \cup {None}]
    BY <2>1 DEF IInv, TypeOK
  <2>7. QED BY <1>4, <2>3, <2>4, <2>5, <2>6, HistoryType
            DEF IInv, TypeOK, KeyRouted, KeyDown, Stays
<1>8. QED BY <1>6, <1>7 DEF PressOtherwise, SetCtx, m, d

LEMMA ReleaseRepeatingStep ==
  ASSUME IInv, NEW s \in Seats, NEW k \in Keys, ReleaseRepeating(s, k)
  PROVE  TypeOK' /\ \E e \in InputContext : SeatStep(s, e)
<1> DEFINE c == ctx[s]
           e == StopRepeat(release_if_pressed(c, k))
<1>1. /\ c \in InputContext /\ c.repeat_timer \in RepeatTimers
      /\ timers[c.repeat_timer.registration] = s
  BY DEF IInv, TypeOK, ReleaseRepeating, Repeats, TimerBacked, InputContext
<1>2. /\ e \in InputContext /\ e.repeat_timer = None /\ e.repeat_info = c.repeat_info
  <2>1. /\ release_if_pressed(c, k) \in InputContext
        /\ release_if_pressed(c, k).repeat_info = c.repeat_info
    BY <1>1, ReleaseType, MethodsKeep
  <2>2. QED BY <2>1, StopRepeatType DEF StopRepeat, InputContext
<1>3. /\ ctx' = [ctx EXCEPT ![s] = e]
      /\ timers' = [timers EXCEPT ![c.repeat_timer.registration] = None]
      /\ KeyUp(s, k) /\ ConsumeRelease(s, k)
      /\ UNCHANGED <<running, status, contexts>>
  BY DEF ReleaseRepeating, SetCtx
<1>4. c.repeat_timer.registration \in Tokens
  BY <1>1 DEF RepeatTimers
<1> HIDE DEF e
<1>5. SeatStep(s, e)
  BY <1>1, <1>2, <1>3, <1>4, HistoryType DEF SeatStep, DropTimer, KeyRouted, IInv
<1>6. timers' \in [Tokens -> Seats \cup {None}]
  BY <1>3 DEF IInv, TypeOK
<1>7. QED BY <1>2, <1>3, <1>5, <1>6, HistoryType DEF IInv, TypeOK, KeyRouted, KeyUp

LEMMA ReleaseOtherStep ==
  ASSUME IInv, NEW s \in Seats, NEW k \in Keys, ReleaseOther(s, k)
  PROVE  TypeOK' /\ \E e \in InputContext : SeatStep(s, e)
<1> DEFINE c == ctx[s]
           e == release_if_pressed(c, k)
<1>1. /\ c \in InputContext /\ c.xkb_state # None /\ ~Repeats(c, k)
      /\ c.repeat_timer # None => c.repeat_timer.keycode \in Keys \ {k}
  BY DEF IInv, TypeOK, ReleaseOther, Delivered, Repeats, InputContext, RepeatTimers
<1>2. /\ e \in InputContext /\ e.repeat_timer = c.repeat_timer
      /\ e.xkb_state = c.xkb_state /\ e.repeat_info = c.repeat_info
  BY <1>1, ReleaseType, MethodsKeep
<1>3. /\ ctx' = [ctx EXCEPT ![s] = e]
      /\ timers' = timers /\ KeyUp(s, k) /\ KeyRouted(s, k)
      /\ UNCHANGED <<running, status, contexts>>
  BY DEF ReleaseOther, SetCtx, KeyRouted
<1> HIDE DEF e
<1>4. SeatStep(s, e)
  BY <1>1, <1>2, <1>3, HistoryType DEF SeatStep, KeepTimer, IInv, RepeatIsDown
<1>5. QED BY <1>2, <1>3, <1>4, HistoryType DEF IInv, TypeOK, KeyUp

(* An event that touches neither the timer nor the routes: the other events *)
(* of the grab and of the input method, and a repeat that is handled.        *)
LEMMA QuietSeatStep ==
  ASSUME IInv, NEW s \in Seats, NEW e \in InputContext,
         ctx' = [ctx EXCEPT ![s] = e],
         UNCHANGED <<running, status, contexts, timers, held, route, vkDown>>,
         e.repeat_timer = ctx[s].repeat_timer,
         ctx[s].repeat_info # "unset" => e.repeat_info # "unset",
         ctx[s].xkb_state # None => e.xkb_state # None
  PROVE  TypeOK' /\ SeatStep(s, e)
BY DEF IInv, TypeOK, SeatStep, KeepTimer, RepeatIsDown, StateForTimer

LEMMA SeatEventStep ==
  ASSUME IInv, NEW s \in Seats,
         \/ \E l \in Levels : Modifiers(s, l)
         \/ \E compiles \in BOOLEAN : Keymap(s, compiles)
         \/ \E r \in {"zero", "positive"} : RepeatInfo(s, r)
         \/ Activate(s)
         \/ Deactivate(s)
  PROVE  TypeOK' /\ \E e \in InputContext : SeatStep(s, e)
<1> DEFINE c == ctx[s]
<1>1. c \in InputContext
  BY DEF IInv, TypeOK
<1>2. CASE \E l \in Levels : Modifiers(s, l)
  <2>1. PICK l \in Levels : Modifiers(s, l)
    BY <1>2
  <2> DEFINE e == [c EXCEPT !.xkb_state = l]
  <2>2. /\ e \in InputContext /\ e.repeat_timer = c.repeat_timer
        /\ e.repeat_info = c.repeat_info /\ e.xkb_state # None
    BY <1>1, NoneAssumption DEF InputContext
  <2>3. QED BY <2>1, <2>2, QuietSeatStep DEF Modifiers, SetCtx
<1>3. CASE \E compiles \in BOOLEAN : Keymap(s, compiles)
  <2>1. PICK compiles \in BOOLEAN : Keymap(s, compiles)
    BY <1>3
  <2> DEFINE e == IF compiles
                    THEN [c EXCEPT !.xkb_keymap = TRUE, !.xkb_state = BaseLevel]
                    ELSE [c EXCEPT !.xkb_keymap = FALSE]
  <2>2. /\ e \in InputContext /\ e.repeat_timer = c.repeat_timer
        /\ e.repeat_info = c.repeat_info /\ (c.xkb_state # None => e.xkb_state # None)
    BY <1>1, NoneAssumption, KeyAssumption DEF InputContext
  <2>3. QED BY <2>1, <2>2, QuietSeatStep DEF Keymap, SetCtx
<1>4. CASE \E r \in {"zero", "positive"} : RepeatInfo(s, r)
  <2>1. PICK r \in {"zero", "positive"} : RepeatInfo(s, r)
    BY <1>4
  <2> DEFINE e == [c EXCEPT !.repeat_info = r]
  <2>2. /\ e \in InputContext /\ e.repeat_timer = c.repeat_timer
        /\ e.repeat_info # "unset" /\ e.xkb_state = c.xkb_state
    BY <1>1 DEF InputContext
  <2>3. QED BY <2>1, <2>2, QuietSeatStep DEF RepeatInfo, SetCtx
<1>5. CASE Activate(s) \/ Deactivate(s)
  <2> DEFINE e == IF Activate(s) THEN [c EXCEPT !.pending_activate = TRUE]
                                 ELSE [c EXCEPT !.pending_deactivate = TRUE]
  <2>1. /\ e \in InputContext /\ e.repeat_timer = c.repeat_timer
        /\ e.repeat_info = c.repeat_info /\ e.xkb_state = c.xkb_state
    BY <1>1 DEF InputContext
  <2>2. ctx' = [ctx EXCEPT ![s] = e]
        /\ UNCHANGED <<running, status, contexts, timers, held, route, vkDown>>
    BY <1>5 DEF Activate, Deactivate, SetCtx
  <2> HIDE DEF e
  <2>3. QED BY <2>1, <2>2, QuietSeatStep
<1>6. QED BY <1>2, <1>3, <1>4, <1>5

LEMMA DoneStep ==
  ASSUME IInv, NEW s \in Seats, Done(s)
  PROVE  TypeOK' /\ \E e \in InputContext : SeatStep(s, e)
<1> DEFINE c == ApplyPending(ctx[s])
           e == [c EXCEPT !.num_done_events = @ + 1,
                          !.pending_activate = FALSE, !.pending_deactivate = FALSE]
<1>1. ctx[s] \in InputContext /\ ctx[s].num_done_events < MaxDone
  BY DEF IInv, TypeOK, Done
<1>2. /\ c \in InputContext /\ c.num_done_events = ctx[s].num_done_events
      /\ c.repeat_timer = ctx[s].repeat_timer /\ c.repeat_info = ctx[s].repeat_info
      /\ c.xkb_state = ctx[s].xkb_state
  BY <1>1 DEF ApplyPending, ReleaseGrab, InputContext, EmptyPressed
<1> HIDE DEF c
<1>3. /\ e \in InputContext
      /\ e.repeat_timer = ctx[s].repeat_timer /\ e.repeat_info = ctx[s].repeat_info
      /\ e.xkb_state = ctx[s].xkb_state
  <2>1. c.num_done_events + 1 \in 0 .. MaxDone
    BY <1>1, <1>2, MaxDoneAssumption DEF InputContext
  <2>2. QED BY <1>2, <2>1 DEF InputContext
<1>4. /\ ctx' = [ctx EXCEPT ![s] = e]
      /\ UNCHANGED <<running, status, contexts, timers, held, vkDown>>
  BY DEF Done, SetCtx, c
<1>5. /\ route' \in [Seats -> [Keys -> Routes]]
      /\ \A x \in Seats \ {s} : route'[x] = route[x]
      /\ \A k \in Keys : route[s][k] # "up" => route'[s][k] # "up"
  BY DEF Done, IInv, TypeOK, Routes
<1> HIDE DEF e
<1>6. SeatStep(s, e)
  <2>1. e.repeat_timer # None => e.repeat_timer.keycode \in Keys
    BY <1>3 DEF InputContext, RepeatTimers
  <2>2. QED BY <1>3, <1>4, <1>5, <2>1 DEF SeatStep, KeepTimer, IInv, RepeatIsDown, StateForTimer
<1>7. QED BY <1>3, <1>4, <1>5, <1>6 DEF IInv, TypeOK

LEMMA TimerFiresStep ==
  ASSUME IInv, NEW t \in Tokens, TimerFires(t)
  PROVE  TypeOK' /\ \E s \in Seats, e \in InputContext : SeatStep(s, e)
<1> DEFINE s == timers[t]
           c == ctx[s]
           k == Repeater(t)
           d == handle_key(c, k)
<1>1. s \in Seats /\ c \in InputContext /\ c.repeat_timer # None /\ c.xkb_state # None
  BY DEF IInv, TypeOK, TimerFires, RepeatHandled, RepeatForwarded, CanRepeat, StateForTimer
<1>2. k \in Keys
  BY <1>1 DEF Repeater, InputContext, RepeatTimers
<1>3. /\ d \in InputContext /\ d.repeat_timer = c.repeat_timer
      /\ d.xkb_state = c.xkb_state /\ d.repeat_info = c.repeat_info
  BY <1>1, <1>2, HandleKeyType, HandleKeyKeeps
<1> HIDE DEF d
<1>4. CASE RepeatHandled(t)
  BY <1>1, <1>3, <1>4, QuietSeatStep DEF RepeatHandled, SetCtx, d
<1>5. CASE RepeatForwarded(t)
  <2> DEFINE e == StopRepeat(d)
  <2>1. /\ e \in InputContext /\ e.repeat_timer = None /\ e.repeat_info = c.repeat_info
    BY <1>3, StopRepeatType DEF StopRepeat, InputContext
  <2>2. /\ ctx' = [ctx EXCEPT ![s] = e]
        /\ timers' = [timers EXCEPT ![t] = None]
        /\ vkDown' = [vkDown EXCEPT ![s] = @ \cup {k}]
        /\ UNCHANGED <<running, status, contexts, held, route>>
    BY <1>5 DEF RepeatForwarded, SetCtx, d
  <2> HIDE DEF e, k
  <2>3. SeatStep(s, e)
    BY <1>1, <2>1, <2>2 DEF SeatStep, DropTimer
  <2>4. vkDown' \in [Seats -> SUBSET Keys]
    BY <1>2, <2>2 DEF IInv, TypeOK
  <2>5. QED BY <1>1, <2>1, <2>2, <2>3, <2>4 DEF IInv, TypeOK
<1>6. QED BY <1>4, <1>5 DEF TimerFires

(* The steps that leave the contexts, the timers and the routes alone *)
Undisturbed == UNCHANGED <<ctx, timers, route>>

LEMMA OtherStep ==
  ASSUME IInv,
         \/ \E s \in Seats, k \in Keys : KeyNotSeen(s, k) \/ PressPanics(s, k)
         \/ \E s \in Seats : GlobalRemove(s) \/ EventAfterRemove(s)
         \/ \E t \in Tokens : TimerPanics(t)
         \/ Exit
         \/ UNCHANGED vars
  PROVE  TypeOK' /\ Undisturbed
<1>1. CASE \E s \in Seats, k \in Keys : KeyNotSeen(s, k)
  BY <1>1 DEF KeyNotSeen, KeyDown, KeyUp, Undisturbed, IInv, TypeOK
<1>2. CASE \E reason \in PanicReasons : Panic(reason)
  BY <1>2 DEF Panic, Undisturbed, IInv, TypeOK
<1>3. CASE \E s \in Seats : GlobalRemove(s)
  BY <1>3 DEF GlobalRemove, Undisturbed, IInv, TypeOK
<1>4. CASE Exit
  BY <1>4 DEF Exit, Undisturbed, IInv, TypeOK
<1>5. CASE UNCHANGED vars
  BY <1>5 DEF vars, Undisturbed, IInv, TypeOK
<1>6. QED
  BY <1>1, <1>2, <1>3, <1>4, <1>5 DEF PressPanics, EventAfterRemove, TimerPanics, PanicReasons

LEMMA NextStep ==
  ASSUME IInv, [Next]_vars
  PROVE  IInv'
<1>1. CASE \E s \in Seats, k \in Keys :
             \/ PressWhileRepeating(s, k) \/ PressOtherwise(s, k)
             \/ ReleaseRepeating(s, k) \/ ReleaseOther(s, k)
  BY <1>1, SeatStepKeepsInv, PressWhileRepeatingStep, PressOtherwiseStep,
     ReleaseRepeatingStep, ReleaseOtherStep
<1>2. CASE \E s \in Seats :
             \/ \E l \in Levels : Modifiers(s, l)
             \/ \E compiles \in BOOLEAN : Keymap(s, compiles)
             \/ \E r \in {"zero", "positive"} : RepeatInfo(s, r)
             \/ Activate(s)
             \/ Deactivate(s)
  BY <1>2, SeatStepKeepsInv, SeatEventStep
<1>3. CASE \E s \in Seats : Done(s)
  BY <1>3, SeatStepKeepsInv, DoneStep
<1>4. CASE \E t \in Tokens : TimerFires(t)
  BY <1>4, SeatStepKeepsInv, TimerFiresStep
<1>5. CASE \/ \E s \in Seats, k \in Keys : KeyNotSeen(s, k) \/ PressPanics(s, k)
           \/ \E s \in Seats : GlobalRemove(s) \/ EventAfterRemove(s)
           \/ \E t \in Tokens : TimerPanics(t)
           \/ Exit
           \/ UNCHANGED vars
  <2>1. TypeOK' /\ Undisturbed
    BY <1>5, OtherStep
  <2>2. QED BY <2>1 DEF Undisturbed, IInv, TimerBacked, RateKnown, RepeatIsDown, StateForTimer
<1>6. QED BY <1>1, <1>2, <1>3, <1>4, <1>5 DEF Next, KeyEvent, SeatEvent

LEMMA InitHolds == Init => IInv
<1> SUFFICES ASSUME Init PROVE IInv
  OBVIOUS
<1>1. TypeOK
  BY NewContextType DEF Init, TypeOK, Routes
<1>2. TimerBacked /\ RateKnown /\ RepeatIsDown /\ StateForTimer
  BY DEF Init, NewContext, TimerBacked, RateKnown, RepeatIsDown, StateForTimer
<1>3. QED BY <1>1, <1>2 DEF IInv

LEMMA Inductive == Spec => []IInv
<1>1. Init => IInv  BY InitHolds
<1>2. IInv /\ [Next]_vars => IInv'  BY NextStep
<1>3. QED BY <1>1, <1>2, PTL DEF Spec

(* The state of the front end keeps its types. *)
THEOREM TypeCorrect == Spec => []TypeOK
<1>1. IInv => TypeOK  BY DEF IInv
<1>2. QED BY <1>1, Inductive, PTL

(* The timer a context holds is registered for its seat: the loop's update  *)
(* and remove in the keyboard handler act on a live registration.           *)
THEOREM TimersAreBacked == Spec => []TimerBacked
<1>1. IInv => TimerBacked  BY DEF IInv
<1>2. QED BY <1>1, Inductive, PTL

(* When a timer's callback runs, the repeat rate has been set. *)
THEOREM RateIsKnown == Spec => []RateKnown
<1>1. IInv => RateKnown  BY DEF IInv
<1>2. QED BY <1>1, Inductive, PTL

(* A key whose release was delivered does not repeat. *)
THEOREM RepeatStops == Spec => []RepeatIsDown
<1>1. IInv => RepeatIsDown  BY DEF IInv
<1>2. QED BY <1>1, Inductive, PTL

-----------------------------------------------------------------------------
(* The array of pressed keys does not leak: the inductive argument needs that *)
(* a press whose route is known comes through a grab that is still held, for  *)
(* a key that is still down.                                                  *)

(* NoSlotLeak for the array p of a seat with the routes r *)
SlotsOK(p, r) ==
  \A i \in Slots : p[i] # None =>
    /\ r[p[i]] = "im"
    /\ \A j \in Slots : p[j] = p[i] => j = i

RoutedAreHeld(c, h, r) ==
  \A k \in Keys : r[k] \in {"im", "app"} => k \in h /\ Delivered(c)

SlotInv ==
  \A s \in Seats : /\ SlotsOK(ctx[s].pressed, route[s])
                   /\ RoutedAreHeld(ctx[s], held[s], route[s])

(* Marking a key whose press had not been consumed *)
LEMMA MarkSlots ==
  ASSUME NEW c \in InputContext, NEW r \in [Keys -> Routes], NEW k \in Keys,
         SlotsOK(c.pressed, r), r[k] # "im"
  PROVE  SlotsOK(mark_as_pressed(c, k).pressed, [r EXCEPT ![k] = "im"])
<1>1. c.pressed \in [Slots -> Keys \cup {None}] /\ ~IsPressed(c, k) /\ k # None
  BY NoneAssumption DEF InputContext, IsPressed, SlotsOK
<1>2. CASE IsPressed(c, None)
  <2> DEFINE i0 == CHOOSE i \in Slots : c.pressed[i] = None
  <2>1. i0 \in Slots /\ c.pressed[i0] = None
    BY <1>2 DEF IsPressed
  <2> HIDE DEF i0
  <2>2. mark_as_pressed(c, k).pressed = [c.pressed EXCEPT ![i0] = k]
    BY <1>2 DEF mark_as_pressed, InputContext, i0
  <2>3. QED BY <1>1, <2>1, <2>2 DEF SlotsOK, IsPressed
<1>3. CASE ~IsPressed(c, None)
  BY <1>1, <1>3 DEF mark_as_pressed, SlotsOK, IsPressed
<1>4. QED BY <1>2, <1>3

(* A press that is not marked *)
LEMMA KeepSlots ==
  ASSUME NEW c \in InputContext, NEW r \in [Keys -> Routes], NEW k \in Keys,
         NEW x \in Routes, SlotsOK(c.pressed, r), r[k] # "im"
  PROVE  SlotsOK(c.pressed, [r EXCEPT ![k] = x])
BY DEF SlotsOK, InputContext

(* The release of a key frees its only slot *)
LEMMA ReleaseSlots ==
  ASSUME NEW c \in InputContext, NEW r \in [Keys -> Routes], NEW k \in Keys,
         SlotsOK(c.pressed, r)
  PROVE  SlotsOK(release_if_pressed(c, k).pressed, [r EXCEPT ![k] = "up"])
<1>1. c.pressed \in [Slots -> Keys \cup {None}] /\ k # None
  BY NoneAssumption DEF InputContext
<1>2. CASE IsPressed(c, k)
  <2> DEFINE i0 == CHOOSE i \in Slots : c.pressed[i] = k
  <2>1. i0 \in Slots /\ c.pressed[i0] = k
    BY <1>2 DEF IsPressed
  <2> HIDE DEF i0
  <2>2. release_if_pressed(c, k).pressed = [c.pressed EXCEPT ![i0] = None]
    BY <1>2 DEF release_if_pressed, InputContext, i0
  <2>3. QED BY <1>1, <2>1, <2>2 DEF SlotsOK
<1>3. CASE ~IsPressed(c, k)
  BY <1>1, <1>3 DEF release_if_pressed, SlotsOK, IsPressed
<1>4. QED BY <1>2, <1>3

(* A step of one seat that leaves it in order *)
SeatInOrder(s, e, h, r) ==
  /\ ctx' = [ctx EXCEPT ![s] = e]
  /\ held' = [held EXCEPT ![s] = h]
  /\ route' = [route EXCEPT ![s] = r]
  /\ SlotsOK(e.pressed, r)
  /\ RoutedAreHeld(e, h, r)

LEMMA SeatInOrderKeeps ==
  ASSUME IInv, SlotInv, NEW s \in Seats, NEW e, NEW h, NEW r, SeatInOrder(s, e, h, r)
  PROVE  SlotInv'
<1>1. /\ ctx'[s] = e /\ held'[s] = h /\ route'[s] = r
      /\ \A x \in Seats \ {s} :
           ctx'[x] = ctx[x] /\ held'[x] = held[x] /\ route'[x] = route[x]
  BY DEF IInv, TypeOK, SeatInOrder
<1>2. \A x \in Seats : /\ SlotsOK(ctx'[x].pressed, route'[x])
                       /\ RoutedAreHeld(ctx'[x], held'[x], route'[x])
  BY <1>1 DEF SlotInv, SeatInOrder
<1>3. QED BY <1>2 DEF SlotInv, SlotsOK, RoutedAreHeld, Delivered

-----------------------------------------------------------------------------
(* The actions *)

(* What a press that reaches the handlers does to a seat whose context       *)
(* becomes e, where handle_key returned d and m is d with the key marked: it *)
(* is consumed and marked, consumed by a key that ends the program, or       *)
(* forwarded.  A timer is armed for a marked key, or keeps the key it has.   *)
Routed(s, k, x) == route' = [route EXCEPT ![s] = [route[s] EXCEPT ![k] = x]]

Pressed(s, k, d, m, e) ==
  /\ ctx' = [ctx EXCEPT ![s] = e]
  /\ Delivered(e)
  /\ e.repeat_timer # None =>
       \/ ctx[s].repeat_timer # None /\ e.repeat_timer = ctx[s].repeat_timer
       \/ e.repeat_timer.keycode = k /\ Routed(s, k, "im")
  /\ \/ e.pressed = m.pressed /\ Routed(s, k, "im") /\ vkDown' = vkDown
     \/ e.pressed = d.pressed /\ Routed(s, k, "im") /\ vkDown' = vkDown /\ ~running'
     \/ /\ e.pressed = d.pressed /\ Routed(s, k, "app")
        /\ vkDown' = [vkDown EXCEPT ![s] = @ \cup {k}]

LEMMA PressOutcome ==
  ASSUME IInv, NEW s \in Seats, NEW k \in Keys,
         PressWhileRepeating(s, k) \/ PressOtherwise(s, k)
  PROVE  LET d == handle_key(ctx[s], k)
             m == mark_as_pressed(d, k) IN
         /\ d \in InputContext /\ d.pressed = ctx[s].pressed
         /\ Delivered(ctx[s]) /\ Delivered(d)
         /\ \E e \in InputContext : Pressed(s, k, d, m, e)
<1> DEFINE c == ctx[s]
           d == handle_key(c, k)
           m == mark_as_pressed(d, k)
<1>1. c \in InputContext /\ Delivered(c) /\ c.xkb_state # None
  BY DEF IInv, TypeOK, PressWhileRepeating, PressOtherwise, Delivered
<1>2. /\ d \in InputContext /\ Delivered(d) /\ d.pressed = c.pressed
      /\ d.repeat_timer = c.repeat_timer
  BY <1>1, HandleKeyType, HandleKeyKeeps DEF Delivered
<1>3. m \in InputContext /\ Delivered(m) /\ m.repeat_timer = c.repeat_timer
  BY <1>2, MarkType, MethodsKeep DEF Delivered
<1>4. ForwardPress(s, k) => Routed(s, k, "app") /\ vkDown' = [vkDown EXCEPT ![s] = @ \cup {k}]
  BY DEF ForwardPress, SetRoute, IInv, TypeOK, Routed
<1>5. ConsumePress(s, k) => Routed(s, k, "im") /\ vkDown' = vkDown
  BY DEF ConsumePress, SetRoute, IInv, TypeOK, Routed
<1> HIDE DEF d, m
<1>6. ASSUME c.repeat_timer # None
      PROVE  /\ RetargetRepeat(m, k) \in InputContext /\ Delivered(RetargetRepeat(m, k))
             /\ RetargetRepeat(m, k).pressed = m.pressed
             /\ RetargetRepeat(m, k).repeat_timer # None =>
                  RetargetRepeat(m, k).repeat_timer.keycode = k
  <2>1. m.repeat_timer # None
    BY <1>3, <1>6
  <2>2. RetargetRepeat(m, k) \in InputContext
    BY <1>3, <2>1, RetargetType
  <2>3. m.repeat_timer \in RepeatTimers
    BY <1>3, <2>1 DEF InputContext
  <2>4. QED BY <1>3, <2>2, <2>3
            DEF RetargetRepeat, StopRepeat, InputContext, Delivered, RepeatTimers
<1>7. /\ StopRepeat(d) \in InputContext /\ Delivered(StopRepeat(d))
      /\ StopRepeat(d).pressed = d.pressed /\ StopRepeat(d).repeat_timer = None
  BY <1>2, StopRepeatType DEF StopRepeat, InputContext, Delivered
<1>8. \A t \in Tokens :
        LET e == [m EXCEPT !.repeat_timer = [keycode |-> k, registration |-> t]] IN
        /\ e \in InputContext /\ Delivered(e) /\ e.pressed = m.pressed
        /\ e.repeat_timer.keycode = k
  BY <1>3 DEF InputContext, Delivered, RepeatTimers
<1>9. PICK e \in InputContext :
        /\ ctx' = [ctx EXCEPT ![s] = e]
        /\ Delivered(e)
        /\ \/ /\ e.pressed = m.pressed /\ ConsumePress(s, k)
              /\ e.repeat_timer # None =>
                   e.repeat_timer = c.repeat_timer \/ e.repeat_timer.keycode = k
           \/ /\ e.pressed = d.pressed /\ ConsumePress(s, k) /\ ~running'
              /\ e.repeat_timer = c.repeat_timer
           \/ /\ e.pressed = d.pressed /\ ForwardPress(s, k)
              /\ e.repeat_timer # None => e.repeat_timer = c.repeat_timer
  <2>1. CASE PressWhileRepeating(s, k)
    <3>1. c.repeat_timer # None
      BY <2>1 DEF PressWhileRepeating, RepeatsAnother
    <3>2. CASE Outcome(c, k) = "handled"
      BY <1>6, <2>1, <3>1, <3>2 DEF PressWhileRepeating, SetCtx, d, m
    <3>3. CASE Outcome(c, k) = "unhandled"
      BY <1>7, <2>1, <3>3 DEF PressWhileRepeating, SetCtx, d
    <3>4. CASE Outcome(c, k) = "shutdown"
      BY <1>2, <2>1, <3>4 DEF PressWhileRepeating, SetCtx, Stays, d
    <3>5. QED BY <2>1, <3>2, <3>3, <3>4 DEF PressWhileRepeating
  <2>2. CASE PressOtherwise(s, k)
    <3>1. CASE Outcome(c, k) = "unhandled"
      BY <1>2, <2>2, <3>1 DEF PressOtherwise, SetCtx, d
    <3>2. CASE ctx' = [ctx EXCEPT ![s] = m] /\ ConsumePress(s, k)
      BY <1>3, <3>2
    <3>3. CASE \E t \in Tokens :
                 /\ ctx' = [ctx EXCEPT ![s] =
                       [m EXCEPT !.repeat_timer = [keycode |-> k, registration |-> t]]]
                 /\ ConsumePress(s, k)
      BY <1>8, <3>3
    <3>4. QED BY <2>2, <3>1, <3>2, <3>3 DEF PressOtherwise, SetCtx, d, m
  <2>3. QED BY <2>1, <2>2
<1>10. e.repeat_timer # None =>
         \/ c.repeat_timer # None /\ e.repeat_timer = c.repeat_timer
         \/ e.repeat_timer.keycode = k /\ Routed(s, k, "im")
  BY <1>5, <1>9
<1>11. QED BY <1>1, <1>2, <1>3, <1>4, <1>5, <1>9, <1>10 DEF d, m, Pressed

LEMMA PressInOrder ==
  ASSUME IInv, SlotInv, NEW s \in Seats, NEW k \in Keys,
         PressWhileRepeating(s, k) \/ PressOtherwise(s, k)
  PROVE  SlotInv'
<1> DEFINE c == ctx[s]
           d == handle_key(c, k)
           m == mark_as_pressed(d, k)
           h == held[s] \cup {k}
           pressR(x) == [route[s] EXCEPT ![k] = x]
<1>1. /\ c \in InputContext
      /\ k \notin held[s] /\ held' = [held EXCEPT ![s] = h]
      /\ route[s] \in [Keys -> Routes]
  BY DEF IInv, TypeOK, PressWhileRepeating, PressOtherwise, KeyDown
<1>2. /\ route[s][k] # "im"
      /\ SlotsOK(c.pressed, route[s]) /\ RoutedAreHeld(c, held[s], route[s])
  BY <1>1 DEF SlotInv, RoutedAreHeld
<1>3. /\ d \in InputContext /\ d.pressed = c.pressed /\ Delivered(c)
      /\ \E e \in InputContext :
           /\ ctx' = [ctx EXCEPT ![s] = e] /\ Delivered(e)
           /\ \/ e.pressed = m.pressed /\ route' = [route EXCEPT ![s] = pressR("im")]
              \/ e.pressed = d.pressed /\ route' = [route EXCEPT ![s] = pressR("im")]
              \/ e.pressed = d.pressed /\ route' = [route EXCEPT ![s] = pressR("app")]
  BY PressOutcome DEF Pressed, Routed
<1>4. \A e \in InputContext : \A x \in Routes : Delivered(e) =>
        RoutedAreHeld(e, h, pressR(x))
  BY <1>1, <1>2, <1>3 DEF RoutedAreHeld
<1>5. SlotsOK(m.pressed, pressR("im"))
  BY <1>1, <1>2, <1>3, MarkSlots
<1>6. SlotsOK(d.pressed, pressR("im")) /\ SlotsOK(d.pressed, pressR("app"))
  BY <1>1, <1>2, <1>3, KeepSlots DEF Routes
<1> HIDE DEF d, m, h, pressR
<1>7. \E e, r : SeatInOrder(s, e, h, r)
  BY <1>1, <1>3, <1>4, <1>5, <1>6 DEF SeatInOrder, Routes
<1>8. QED BY <1>7, SeatInOrderKeeps

LEMMA ReleaseInOrder ==
  ASSUME IInv, SlotInv, NEW s \in Seats, NEW k \in Keys,
         ReleaseRepeating(s, k) \/ ReleaseOther(s, k)
  PROVE  SlotInv'
<1> DEFINE c == ctx[s]
           d == release_if_pressed(c, k)
           h == held[s] \ {k}
           r == [route[s] EXCEPT ![k] = "up"]
<1>1. /\ c \in InputContext /\ Delivered(c)
      /\ held' = [held EXCEPT ![s] = h]
      /\ route[s] \in [Keys -> Routes]
      /\ SlotsOK(c.pressed, route[s]) /\ RoutedAreHeld(c, held[s], route[s])
  BY DEF IInv, TypeOK, ReleaseRepeating, ReleaseOther, KeyUp, SlotInv
<1>2. d \in InputContext /\ Delivered(d) /\ SlotsOK(d.pressed, r)
  BY <1>1, ReleaseType, MethodsKeep, ReleaseSlots DEF Delivered
<1>3. route' = [route EXCEPT ![s] = r]
  BY DEF ReleaseRepeating, ReleaseOther, ConsumeRelease, ForwardRelease, SetRoute, IInv, TypeOK
<1> HIDE DEF d
<1>4. PICK e \in {d, StopRepeat(d)} : ctx' = [ctx EXCEPT ![s] = e]
  BY DEF ReleaseRepeating, ReleaseOther, SetCtx, d
<1>5. Delivered(e) /\ e.pressed = d.pressed
  BY <1>2, <1>4 DEF StopRepeat, InputContext, Delivered
<1>6. RoutedAreHeld(e, h, r)
  BY <1>1, <1>5 DEF RoutedAreHeld
<1>7. SeatInOrder(s, e, h, r)
  BY <1>1, <1>2, <1>3, <1>4, <1>5, <1>6 DEF SeatInOrder
<1>8. QED BY <1>7, SeatInOrderKeeps

LEMMA DoneInOrder ==
  ASSUME IInv, SlotInv, NEW s \in Seats, Done(s)
  PROVE  SlotInv'
<1> DEFINE c == ApplyPending(ctx[s])
           e == [c EXCEPT !.num_done_events = @ + 1,
                          !.pending_activate = FALSE, !.pending_deactivate = FALSE]
<1>1. /\ ctx[s] \in InputContext /\ route[s] \in [Keys -> Routes]
      /\ SlotsOK(ctx[s].pressed, route[s]) /\ RoutedAreHeld(ctx[s], held[s], route[s])
  BY DEF IInv, TypeOK, SlotInv
<1>2. c \in InputContext
  BY <1>1 DEF ApplyPending, ReleaseGrab, InputContext, EmptyPressed
<1>3. /\ ctx' = [ctx EXCEPT ![s] = e] /\ held' = held
  BY DEF Done, SetCtx
<1>4. e.pressed = c.pressed /\ (Delivered(e) <=> Delivered(c))
  <2> HIDE DEF c
  <2>1. QED BY <1>2 DEF InputContext, Delivered
<1>5. held' = [held EXCEPT ![s] = held[s]]
  BY <1>3 DEF IInv, TypeOK
<1>6. CASE ctx[s].keyboard_grab /\ ~c.keyboard_grab
  <2> DEFINE r == [k \in Keys |-> IF route[s][k] = "up" THEN "up" ELSE "lost"]
  <2>1. route' = [route EXCEPT ![s] = r]
    BY <1>6 DEF Done, IInv, TypeOK
  <2>2. c.pressed = EmptyPressed
    BY <1>1, <1>6 DEF ApplyPending, ReleaseGrab, InputContext
  <2>3. SlotsOK(e.pressed, r) /\ RoutedAreHeld(e, held[s], r)
    BY <1>4, <2>2 DEF SlotsOK, EmptyPressed, RoutedAreHeld
  <2> HIDE DEF e, r
  <2>4. SeatInOrder(s, e, held[s], r)
    BY <1>3, <1>5, <2>1, <2>3 DEF SeatInOrder
  <2>5. QED BY <2>4, SeatInOrderKeeps
<1>7. CASE ~(ctx[s].keyboard_grab /\ ~c.keyboard_grab)
  <2>1. route' = [route EXCEPT ![s] = route[s]]
    BY <1>7 DEF Done, IInv, TypeOK
  <2>2. c.pressed = ctx[s].pressed /\ (Delivered(ctx[s]) => Delivered(c))
    BY <1>1, <1>7 DEF ApplyPending, ReleaseGrab, InputContext, Delivered
  <2>3. SlotsOK(e.pressed, route[s]) /\ RoutedAreHeld(e, held[s], route[s])
    BY <1>1, <1>4, <2>2 DEF SlotsOK, RoutedAreHeld
  <2> HIDE DEF e
  <2>4. SeatInOrder(s, e, held[s], route[s])
    BY <1>3, <1>5, <2>1, <2>3 DEF SeatInOrder
  <2>5. QED BY <2>4, SeatInOrderKeeps
<1>8. QED BY <1>6, <1>7

(* A step that changes the context of a seat and leaves the keys alone: the  *)
(* slots, who has them and what is held.  A timer stops or stays as it is.   *)
Quiet(s, e) ==
  /\ ctx' = [ctx EXCEPT ![s] = e]
  /\ e.pressed = ctx[s].pressed
  /\ Delivered(ctx[s]) => Delivered(e)
  /\ e.repeat_timer # None =>
       ctx[s].repeat_timer # None /\ e.repeat_timer = ctx[s].repeat_timer
  /\ \A x \in Seats : vkDown[x] \subseteq vkDown'[x]
  /\ UNCHANGED <<running, held, route>>

LEMMA SeatEventIsQuiet ==
  ASSUME IInv, NEW s \in Seats,
         \/ \E l \in Levels : Modifiers(s, l)
         \/ \E compiles \in BOOLEAN : Keymap(s, compiles)
         \/ \E r \in {"zero", "positive"} : RepeatInfo(s, r)
         \/ Activate(s)
         \/ Deactivate(s)
  PROVE  \E e \in InputContext : Quiet(s, e)
<1> DEFINE c == ctx[s]
<1>1. c \in InputContext
  BY DEF IInv, TypeOK
<1>2. UNCHANGED <<running, held, route, vkDown>>
  BY DEF Modifiers, Keymap, RepeatInfo, Activate, Deactivate
<1>3. PICK e : /\ ctx' = [ctx EXCEPT ![s] = e]
               /\ \/ \E l \in Levels : e = [c EXCEPT !.xkb_state = l]
                  \/ e = [c EXCEPT !.xkb_keymap = TRUE, !.xkb_state = BaseLevel]
                  \/ e = [c EXCEPT !.xkb_keymap = FALSE]
                  \/ \E r \in {"zero", "positive"} : e = [c EXCEPT !.repeat_info = r]
                  \/ e = [c EXCEPT !.pending_activate = TRUE]
                  \/ e = [c EXCEPT !.pending_deactivate = TRUE]
  BY DEF Modifiers, Keymap, RepeatInfo, Activate, Deactivate, SetCtx
<1> DEFINE Good == /\ e \in InputContext /\ e.pressed = c.pressed
                   /\ e.repeat_timer = c.repeat_timer
                   /\ Delivered(c) => Delivered(e)
<1>4. CASE \E l \in Levels : e = [c EXCEPT !.xkb_state = l]
  <2>1. Good
    BY <1>1, <1>4, NoneAssumption DEF InputContext, Delivered
  <2>2. QED BY <1>2, <1>3, <2>1 DEF Quiet
<1>5. CASE e = [c EXCEPT !.xkb_keymap = TRUE, !.xkb_state = BaseLevel]
  <2>1. Good
    BY <1>1, <1>5, NoneAssumption, KeyAssumption DEF InputContext, Delivered
  <2>2. QED BY <1>2, <1>3, <2>1 DEF Quiet
<1>6. CASE e = [c EXCEPT !.xkb_keymap = FALSE]
  <2>1. Good
    BY <1>1, <1>6 DEF InputContext, Delivered
  <2>2. QED BY <1>2, <1>3, <2>1 DEF Quiet
<1>7. CASE \E r \in {"zero", "positive"} : e = [c EXCEPT !.repeat_info = r]
  <2>1. Good
    BY <1>1, <1>7 DEF InputContext, Delivered
  <2>2. QED BY <1>2, <1>3, <2>1 DEF Quiet
<1>8. CASE \/ e = [c EXCEPT !.pending_activate = TRUE]
           \/ e = [c EXCEPT !.pending_deactivate = TRUE]
  <2>1. Good
    BY <1>1, <1>8 DEF InputContext, Delivered
  <2>2. QED BY <1>2, <1>3, <2>1 DEF Quiet
<1>9. QED BY <1>3, <1>4, <1>5, <1>6, <1>7, <1>8

LEMMA TimerIsQuiet ==
  ASSUME IInv, NEW t \in Tokens, TimerFires(t)
  PROVE  \E s \in Seats, e \in InputContext : Quiet(s, e)
<1> DEFINE s == timers[t]
           d == handle_key(ctx[s], Repeater(t))
<1>1. /\ s \in Seats /\ ctx[s] \in InputContext
      /\ ctx[s].repeat_timer # None /\ ctx[s].xkb_state # None
  BY DEF IInv, TypeOK, TimerFires, RepeatHandled, RepeatForwarded, CanRepeat, StateForTimer
<1>2. Repeater(t) \in Keys
  BY <1>1 DEF Repeater, InputContext, RepeatTimers
<1>3. /\ d \in InputContext /\ d.pressed = ctx[s].pressed
      /\ d.repeat_timer = ctx[s].repeat_timer /\ (Delivered(ctx[s]) => Delivered(d))
  BY <1>1, <1>2, HandleKeyType, HandleKeyKeeps DEF Delivered
<1>4. \A x \in Seats : vkDown[x] \subseteq vkDown'[x]
  BY DEF IInv, TypeOK, TimerFires, RepeatHandled, RepeatForwarded
<1> HIDE DEF d
<1>5. PICK e \in {d, StopRepeat(d)} : ctx' = [ctx EXCEPT ![s] = e]
  BY DEF TimerFires, RepeatHandled, RepeatForwarded, SetCtx, d
<1>6. /\ e \in InputContext /\ e.pressed = d.pressed /\ (Delivered(d) => Delivered(e))
      /\ e.repeat_timer \in {None, d.repeat_timer}
  BY <1>3, <1>5, StopRepeatType DEF StopRepeat, InputContext, Delivered
<1>7. UNCHANGED <<running, held, route>>
  BY DEF TimerFires, RepeatHandled, RepeatForwarded
<1>8. QED BY <1>1, <1>3, <1>4, <1>5, <1>6, <1>7 DEF Quiet

LEMMA QuietInOrder ==
  ASSUME IInv, SlotInv, NEW s \in Seats, NEW e \in InputContext, Quiet(s, e)
  PROVE  SlotInv'
<1>1. SeatInOrder(s, e, held[s], route[s])
  BY DEF Quiet, SeatInOrder, SlotInv, RoutedAreHeld, IInv, TypeOK
<1>2. QED BY <1>1, SeatInOrderKeeps

LEMMA UnseenInOrder ==
  ASSUME IInv, SlotInv, NEW s \in Seats, NEW k \in Keys, KeyNotSeen(s, k)
  PROVE  SlotInv'
<1>1. /\ ctx' = ctx /\ route' = route /\ ~Delivered(ctx[s])
      /\ held'[s] \in SUBSET Keys /\ held' = [held EXCEPT ![s] = held'[s]]
  BY DEF KeyNotSeen, KeyDown, KeyUp, IInv, TypeOK
<1>2. SeatInOrder(s, ctx[s], held'[s], route[s])
  BY <1>1 DEF SeatInOrder, SlotInv, RoutedAreHeld, IInv, TypeOK
<1>3. QED BY <1>2, SeatInOrderKeeps

LEMMA SlotNextStep ==
  ASSUME IInv, SlotInv, [Next]_vars
  PROVE  SlotInv'
<1>1. CASE \E s \in Seats, k \in Keys : KeyEvent(s, k)
  <2>1. PICK s \in Seats, k \in Keys : KeyEvent(s, k)
    BY <1>1
  <2>2. CASE PressPanics(s, k)
    BY <2>2 DEF PressPanics, Panic, SlotInv, SlotsOK, RoutedAreHeld, Delivered
  <2>3. QED BY <2>1, <2>2, PressInOrder, ReleaseInOrder, UnseenInOrder DEF KeyEvent
<1>2. CASE \E s \in Seats : SeatEvent(s)
  <2>1. PICK s \in Seats : SeatEvent(s)
    BY <1>2
  <2>2. CASE GlobalRemove(s) \/ EventAfterRemove(s)
    BY <2>2 DEF GlobalRemove, EventAfterRemove, Panic, SlotInv, SlotsOK, RoutedAreHeld, Delivered
  <2>3. QED BY <2>1, <2>2, SeatEventIsQuiet, QuietInOrder, DoneInOrder DEF SeatEvent
<1>3. CASE \E t \in Tokens : TimerFires(t)
  BY <1>3, TimerIsQuiet, QuietInOrder
<1>4. CASE (\E t \in Tokens : TimerPanics(t)) \/ Exit \/ UNCHANGED vars
  <2>1. UNCHANGED <<ctx, held, route>>
    BY <1>4 DEF TimerPanics, Panic, Exit, vars
  <2>2. QED BY <2>1 DEF SlotInv, SlotsOK, RoutedAreHeld, Delivered
<1>5. QED BY <1>1, <1>2, <1>3, <1>4 DEF Next

LEMMA SlotInit == Init => SlotInv
BY NoneAssumption
   DEF Init, SlotInv, SlotsOK, RoutedAreHeld, NewContext, EmptyPressed

LEMMA SlotInductive == Spec => []SlotInv
<1>1. IInv /\ SlotInv /\ [Next]_vars => SlotInv'
  BY SlotNextStep
<1>2. QED BY <1>1, SlotInit, Inductive, PTL DEF Spec

(* The array of pressed keys never leaks a slot: an occupied slot stands for *)
(* a key that is down and whose press was consumed, and for it alone.        *)
THEOREM SlotsDoNotLeak == Spec => []NoSlotLeak
<1>1. SlotInv => NoSlotLeak
  BY DEF SlotInv, SlotsOK, NoSlotLeak
<1>2. QED BY <1>1, SlotInductive, PTL

-----------------------------------------------------------------------------
(* No consumed press loses its mark as long as there is a slot for each key  *)
(* that is held: `pressed` has 64, and a key that is held takes one at most. *)

HeldFits ==
  \A s \in Seats : IsFiniteSet(held[s]) /\ Cardinality(held[s]) <= Cardinality(Slots)

(* ConsumedIsMarked for the array p of a seat with the routes r *)
MarksOK(p, r) == \A k \in Keys : r[k] = "im" => \E i \in Slots : p[i] = k

(* A key that is pressed finds a free slot: the other slots stand for keys  *)
(* that are held already, each for another one.                             *)
LEMMA FreeSlot ==
  ASSUME NEW c \in InputContext, NEW r, NEW h \in SUBSET Keys, NEW k \in Keys,
         SlotsOK(c.pressed, r), RoutedAreHeld(c, h, r), k \notin h,
         IsFiniteSet(Slots), IsFiniteSet(h \cup {k}),
         Cardinality(h \cup {k}) <= Cardinality(Slots)
  PROVE  IsPressed(c, None)
<1> SUFFICES ASSUME \A i \in Slots : c.pressed[i] # None PROVE FALSE
  BY DEF IsPressed
<1>1. IsFiniteSet(h) /\ Cardinality(h \cup {k}) = Cardinality(h) + 1
  <2>1. IsFiniteSet(h)
    BY FS_Subset
  <2>2. QED BY <2>1, FS_AddElement
<1>2. c.pressed \in [Slots -> h]
  BY DEF SlotsOK, RoutedAreHeld, InputContext
<1>3. \A i, j \in Slots : c.pressed[i] = c.pressed[j] => i = j
  BY DEF SlotsOK
<1>4. c.pressed \in Injection(Slots, h)
  BY <1>2, <1>3 DEF Injection, IsInjective
<1>5. Cardinality(Slots) <= Cardinality(h)
  BY <1>1, <1>4, FS_Injection
<1>6. Cardinality(h) \in Nat /\ Cardinality(Slots) \in Nat
  BY <1>1, FS_CardinalityType
<1>7. QED BY <1>1, <1>5, <1>6

LEMMA MarkMarks ==
  ASSUME NEW c \in InputContext, NEW r \in [Keys -> Routes], NEW k \in Keys,
         MarksOK(c.pressed, r), IsPressed(c, None)
  PROVE  MarksOK(mark_as_pressed(c, k).pressed, [r EXCEPT ![k] = "im"])
<1> DEFINE i0 == CHOOSE i \in Slots : c.pressed[i] = None
<1>1. i0 \in Slots /\ c.pressed[i0] = None
  BY DEF IsPressed
<1> HIDE DEF i0
<1>2. mark_as_pressed(c, k).pressed = [c.pressed EXCEPT ![i0] = k]
  BY DEF mark_as_pressed, InputContext, i0
<1>3. c.pressed \in [Slots -> Keys \cup {None}]
  BY DEF InputContext
<1>4. QED BY <1>1, <1>2, <1>3, NoneAssumption DEF MarksOK

LEMMA ReleaseMarks ==
  ASSUME NEW c \in InputContext, NEW r \in [Keys -> Routes], NEW k \in Keys,
         MarksOK(c.pressed, r)
  PROVE  MarksOK(release_if_pressed(c, k).pressed, [r EXCEPT ![k] = "up"])
<1>1. c.pressed \in [Slots -> Keys \cup {None}]
  BY DEF InputContext
<1>2. CASE IsPressed(c, k)
  <2> DEFINE i0 == CHOOSE i \in Slots : c.pressed[i] = k
  <2>1. i0 \in Slots /\ c.pressed[i0] = k
    BY <1>2 DEF IsPressed
  <2> HIDE DEF i0
  <2>2. release_if_pressed(c, k).pressed = [c.pressed EXCEPT ![i0] = None]
    BY <1>2 DEF release_if_pressed, InputContext, i0
  <2>3. QED BY <1>1, <2>1, <2>2 DEF MarksOK
<1>3. CASE ~IsPressed(c, k)
  BY <1>3 DEF release_if_pressed, MarksOK
<1>4. QED BY <1>2, <1>3

(* A step of one seat that leaves its marks in order *)
LEMMA MarksKept ==
  ASSUME IInv, ConsumedIsMarked, NEW s \in Seats, NEW e, NEW r,
         ctx' = [ctx EXCEPT ![s] = e], route' = [route EXCEPT ![s] = r],
         running' => running,
         running => MarksOK(ctx[s].pressed, route[s]),
         running' => MarksOK(e.pressed, r)
  PROVE  ConsumedIsMarked'
<1>1. /\ ctx'[s] = e /\ route'[s] = r
      /\ \A x \in Seats \ {s} : ctx'[x] = ctx[x] /\ route'[x] = route[x]
  BY DEF IInv, TypeOK
<1>2. QED BY <1>1 DEF ConsumedIsMarked, IsPressed, MarksOK

(* The release of a key frees its slot, and reaches the application when no *)
(* slot was taken by it and it does not repeat.                             *)
Released(s, k, d, e) ==
  /\ ctx' = [ctx EXCEPT ![s] = e]
  /\ e.pressed = d.pressed
  /\ e.repeat_timer # None =>
       /\ ctx[s].repeat_timer # None /\ e.repeat_timer = ctx[s].repeat_timer
       /\ e.repeat_timer.keycode # k
  /\ Routed(s, k, "up")
  /\ \/ vkDown' = vkDown /\ (IsPressed(ctx[s], k) \/ Repeats(ctx[s], k))
     \/ vkDown' = [vkDown EXCEPT ![s] = @ \ {k}] /\ ~IsPressed(ctx[s], k)
  /\ UNCHANGED running

LEMMA ReleaseOutcome ==
  ASSUME IInv, NEW s \in Seats, NEW k \in Keys,
         ReleaseRepeating(s, k) \/ ReleaseOther(s, k)
  PROVE  \E e \in InputContext : Released(s, k, release_if_pressed(ctx[s], k), e)
<1> DEFINE c == ctx[s]
           d == release_if_pressed(c, k)
<1>1. c \in InputContext /\ d \in InputContext /\ d.repeat_timer = c.repeat_timer
  BY ReleaseType, MethodsKeep DEF IInv, TypeOK
<1>2. ForwardRelease(s, k) => Routed(s, k, "up") /\ vkDown' = [vkDown EXCEPT ![s] = @ \ {k}]
  BY DEF ForwardRelease, SetRoute, IInv, TypeOK, Routed
<1>3. ConsumeRelease(s, k) => Routed(s, k, "up") /\ vkDown' = vkDown
  BY DEF ConsumeRelease, SetRoute, IInv, TypeOK, Routed
<1> HIDE DEF d
<1>4. /\ StopRepeat(d) \in InputContext /\ StopRepeat(d).pressed = d.pressed
      /\ StopRepeat(d).repeat_timer = None
  BY <1>1, StopRepeatType DEF StopRepeat, InputContext
<1>5. CASE ReleaseRepeating(s, k)
  <2>1. Released(s, k, d, StopRepeat(d))
    BY <1>3, <1>4, <1>5 DEF ReleaseRepeating, SetCtx, Released, d
  <2>2. QED BY <1>4, <2>1 DEF d
<1>6. CASE ReleaseOther(s, k)
  <2>1. Released(s, k, d, d)
    BY <1>1, <1>2, <1>3, <1>6 DEF ReleaseOther, Repeats, SetCtx, Released, d
  <2>2. QED BY <1>1, <2>1 DEF d
<1>7. QED BY <1>5, <1>6

LEMMA PressMarks ==
  ASSUME IInv, SlotInv, ConsumedIsMarked, HeldFits', IsFiniteSet(Slots),
         NEW s \in Seats, NEW k \in Keys,
         PressWhileRepeating(s, k) \/ PressOtherwise(s, k)
  PROVE  ConsumedIsMarked'
<1> DEFINE c == ctx[s]
           d == handle_key(c, k)
           m == mark_as_pressed(d, k)
<1>1. /\ c \in InputContext /\ route[s] \in [Keys -> Routes]
      /\ held[s] \in SUBSET Keys /\ k \notin held[s]
      /\ held' = [held EXCEPT ![s] = @ \cup {k}] /\ (running' => running)
  BY DEF IInv, TypeOK, PressWhileRepeating, PressOtherwise, KeyDown, Stays
<1>2. /\ SlotsOK(c.pressed, route[s]) /\ RoutedAreHeld(c, held[s], route[s])
      /\ running => MarksOK(c.pressed, route[s])
  BY DEF SlotInv, ConsumedIsMarked, MarksOK, IsPressed
<1>3. PICK e \in InputContext : Pressed(s, k, d, m, e)
  BY PressOutcome
<1>4. d \in InputContext /\ d.pressed = c.pressed
  BY PressOutcome
<1>5. IsPressed(d, None)
  <2>1. /\ IsFiniteSet(held[s] \cup {k})
        /\ Cardinality(held[s] \cup {k}) <= Cardinality(Slots)
    <3>1. held'[s] = held[s] \cup {k}
      BY <1>1 DEF IInv, TypeOK
    <3>2. QED BY <3>1 DEF HeldFits
  <2>2. IsPressed(c, None)
    BY <1>1, <1>2, <2>1, FreeSlot
  <2>3. QED BY <1>4, <2>2 DEF IsPressed
<1>6. running => MarksOK(m.pressed, [route[s] EXCEPT ![k] = "im"])
  BY <1>1, <1>2, <1>4, <1>5, MarkMarks
<1>7. running => MarksOK(d.pressed, [route[s] EXCEPT ![k] = "app"])
  BY <1>1, <1>2, <1>4 DEF MarksOK
<1> HIDE DEF d, m
<1>8. QED BY <1>1, <1>2, <1>3, <1>6, <1>7, MarksKept DEF Pressed, Routed

LEMMA ReleaseKeepsMarks ==
  ASSUME IInv, ConsumedIsMarked, NEW s \in Seats, NEW k \in Keys,
         ReleaseRepeating(s, k) \/ ReleaseOther(s, k)
  PROVE  ConsumedIsMarked'
<1>1. /\ ctx[s] \in InputContext /\ route[s] \in [Keys -> Routes]
      /\ running => MarksOK(ctx[s].pressed, route[s])
  BY DEF IInv, TypeOK, ConsumedIsMarked, MarksOK, IsPressed
<1>2. PICK e : Released(s, k, release_if_pressed(ctx[s], k), e)
  BY ReleaseOutcome
<1>3. running => MarksOK(e.pressed, [route[s] EXCEPT ![k] = "up"])
  BY <1>1, <1>2, ReleaseMarks DEF Released
<1>4. QED BY <1>1, <1>2, <1>3, MarksKept DEF Released, Routed

LEMMA DoneKeepsMarks ==
  ASSUME IInv, ConsumedIsMarked, NEW s \in Seats, Done(s)
  PROVE  ConsumedIsMarked'
<1> DEFINE c == ApplyPending(ctx[s])
           e == [c EXCEPT !.num_done_events = @ + 1,
                          !.pending_activate = FALSE, !.pending_deactivate = FALSE]
<1>1. /\ ctx[s] \in InputContext /\ route[s] \in [Keys -> Routes]
      /\ running => MarksOK(ctx[s].pressed, route[s])
  BY DEF IInv, TypeOK, ConsumedIsMarked, MarksOK, IsPressed
<1>2. c \in InputContext
  BY <1>1 DEF ApplyPending, ReleaseGrab, InputContext, EmptyPressed
<1>3. ctx' = [ctx EXCEPT ![s] = e] /\ running' = running
  BY DEF Done, SetCtx
<1>4. e.pressed = c.pressed
  <2> HIDE DEF c
  <2>1. QED BY <1>2 DEF InputContext
<1>5. CASE ctx[s].keyboard_grab /\ ~c.keyboard_grab
  <2> DEFINE r == [k \in Keys |-> IF route[s][k] = "up" THEN "up" ELSE "lost"]
  <2>1. route' = [route EXCEPT ![s] = r]
    BY <1>5 DEF Done, IInv, TypeOK
  <2>2. MarksOK(e.pressed, r)
    BY DEF MarksOK
  <2> HIDE DEF e, r
  <2>3. QED BY <1>1, <1>3, <2>1, <2>2, MarksKept
<1>6. CASE ~(ctx[s].keyboard_grab /\ ~c.keyboard_grab)
  <2>1. route' = [route EXCEPT ![s] = route[s]]
    BY <1>6 DEF Done, IInv, TypeOK
  <2>2. c.pressed = ctx[s].pressed
    BY <1>1, <1>6 DEF ApplyPending, ReleaseGrab, InputContext
  <2> HIDE DEF e
  <2>3. QED BY <1>1, <1>3, <1>4, <2>1, <2>2, MarksKept
<1>7. QED BY <1>5, <1>6

LEMMA QuietKeepsMarks ==
  ASSUME IInv, ConsumedIsMarked, NEW s \in Seats, NEW e, Quiet(s, e)
  PROVE  ConsumedIsMarked'
<1>1. /\ route' = [route EXCEPT ![s] = route[s]]
      /\ running => MarksOK(ctx[s].pressed, route[s])
  BY DEF Quiet, IInv, TypeOK, ConsumedIsMarked, MarksOK, IsPressed
<1>2. QED BY <1>1, MarksKept DEF Quiet

(* The steps that are none of these leave contexts and routes alone, and all *)
(* but the key events the grab does not deliver leave the keys alone too.     *)
LEMMA NextCases ==
  ASSUME IInv, [Next]_vars
  PROVE  \/ \E s \in Seats, k \in Keys : PressWhileRepeating(s, k) \/ PressOtherwise(s, k)
         \/ \E s \in Seats, k \in Keys : ReleaseRepeating(s, k) \/ ReleaseOther(s, k)
         \/ \E s \in Seats : Done(s)
         \/ \E s \in Seats, e \in InputContext : Quiet(s, e)
         \/ UNCHANGED <<running, ctx, route, vkDown>>
<1>1. CASE \E s \in Seats, k \in Keys : KeyEvent(s, k)
  BY <1>1 DEF KeyEvent, KeyNotSeen, PressPanics, Panic
<1>2. CASE \E s \in Seats : SeatEvent(s)
  BY <1>2, SeatEventIsQuiet DEF SeatEvent, GlobalRemove, EventAfterRemove, Panic
<1>3. CASE \E t \in Tokens : TimerFires(t)
  BY <1>3, TimerIsQuiet
<1>4. CASE (\E t \in Tokens : TimerPanics(t)) \/ Exit \/ UNCHANGED vars
  BY <1>4 DEF TimerPanics, Panic, Exit, vars
<1>5. QED BY <1>1, <1>2, <1>3, <1>4 DEF Next

LEMMA MarksNextStep ==
  ASSUME IInv, SlotInv, ConsumedIsMarked, HeldFits', IsFiniteSet(Slots), [Next]_vars
  PROVE  ConsumedIsMarked'
<1>1. CASE UNCHANGED <<running, ctx, route, vkDown>>
  BY <1>1 DEF ConsumedIsMarked, IsPressed
<1>2. QED BY <1>1, NextCases, PressMarks, ReleaseKeepsMarks, DoneKeepsMarks, QuietKeepsMarks

(* A press that was consumed keeps its mark while the program runs, unless *)
(* more keys are held than `pressed` has slots.                            *)
THEOREM ConsumedAreMarked ==
  ASSUME IsFiniteSet(Slots)
  PROVE  Spec /\ []HeldFits => []ConsumedIsMarked
<1>1. Init => SlotInv /\ ConsumedIsMarked
  BY SlotInit DEF Init, ConsumedIsMarked
<1>2. IInv /\ SlotInv /\ ConsumedIsMarked /\ HeldFits' /\ [Next]_vars
        => SlotInv' /\ ConsumedIsMarked'
  BY SlotNextStep, MarksNextStep
<1>3. QED BY <1>1, <1>2, Inductive, PTL DEF Spec

-----------------------------------------------------------------------------
(* A release follows its press as long as no grab ends: the end of a grab    *)
(* takes the marks of the keys that are down, and leaves the repeat running. *)

GrabsStay == \A s \in Seats : ctx[s].keyboard_grab => ctx'[s].keyboard_grab

(* What was forwarded is down for the application; the key that repeats is  *)
(* one whose press was consumed.                                            *)
OneGrabInv ==
  \A s \in Seats :
    /\ \A k \in Keys : /\ route[s][k] # "lost"
                       /\ route[s][k] = "app" => k \in vkDown[s]
    /\ ctx[s].repeat_timer # None => route[s][ctx[s].repeat_timer.keycode] = "im"

LEMMA OneGrabKept ==
  ASSUME IInv, OneGrabInv, NEW s \in Seats, NEW e, NEW r, NEW v,
         ctx' = [ctx EXCEPT ![s] = e],
         route' = [route EXCEPT ![s] = r],
         vkDown' = [vkDown EXCEPT ![s] = v],
         \A k \in Keys : r[k] # "lost" /\ (r[k] = "app" => k \in v),
         e.repeat_timer # None => r[e.repeat_timer.keycode] = "im"
  PROVE  OneGrabInv'
<1>1. /\ ctx'[s] = e /\ route'[s] = r /\ vkDown'[s] = v
      /\ \A x \in Seats \ {s} :
           ctx'[x] = ctx[x] /\ route'[x] = route[x] /\ vkDown'[x] = vkDown[x]
  BY DEF IInv, TypeOK
<1>2. QED BY <1>1 DEF OneGrabInv

LEMMA PressInGrab ==
  ASSUME IInv, SlotInv, OneGrabInv, NEW s \in Seats, NEW k \in Keys,
         PressWhileRepeating(s, k) \/ PressOtherwise(s, k)
  PROVE  OneGrabInv'
<1> DEFINE d == handle_key(ctx[s], k)
           m == mark_as_pressed(d, k)
           r(x) == [route[s] EXCEPT ![k] = x]
<1>1. /\ ctx[s] \in InputContext /\ route[s] \in [Keys -> Routes]
      /\ vkDown[s] \in SUBSET Keys /\ k \notin held[s]
  BY DEF IInv, TypeOK, PressWhileRepeating, PressOtherwise, KeyDown
<1>2. route[s][k] # "im"
  BY <1>1 DEF SlotInv, RoutedAreHeld
<1>3. PICK e \in InputContext : Pressed(s, k, d, m, e)
  BY PressOutcome
<1>4. /\ \A j \in Keys : route[s][j] # "lost" /\ (route[s][j] = "app" => j \in vkDown[s])
      /\ ctx[s].repeat_timer # None =>
           /\ ctx[s].repeat_timer.keycode \in Keys
           /\ route[s][ctx[s].repeat_timer.keycode] = "im"
  BY <1>1 DEF OneGrabInv, InputContext, RepeatTimers
<1>5. ASSUME NEW x \in {"im", "app"}, Routed(s, k, x)
      PROVE  e.repeat_timer # None => r(x)[e.repeat_timer.keycode] = "im"
  <2>1. Routed(s, k, "im") => r(x)[k] = "im"
    BY <1>1, <1>5 DEF Routed, IInv, TypeOK
  <2>2. QED BY <1>1, <1>2, <1>3, <1>4, <2>1 DEF Pressed
<1> HIDE DEF d, m
<1>6. CASE Routed(s, k, "im") /\ vkDown' = vkDown
  <2>1. vkDown' = [vkDown EXCEPT ![s] = vkDown[s]]
    BY <1>6 DEF IInv, TypeOK
  <2>2. \A j \in Keys : r("im")[j] # "lost" /\ (r("im")[j] = "app" => j \in vkDown[s])
    BY <1>1, <1>4
  <2>3. /\ ctx' = [ctx EXCEPT ![s] = e]
        /\ e.repeat_timer # None => r("im")[e.repeat_timer.keycode] = "im"
    BY <1>3, <1>5, <1>6 DEF Pressed
  <2>4. route' = [route EXCEPT ![s] = r("im")]
    BY <1>6 DEF Routed
  <2> HIDE DEF r
  <2>5. QED BY <2>1, <2>2, <2>3, <2>4, OneGrabKept
<1>7. CASE Routed(s, k, "app") /\ vkDown' = [vkDown EXCEPT ![s] = @ \cup {k}]
  <2> DEFINE v == vkDown[s] \cup {k}
  <2>1. vkDown' = [vkDown EXCEPT ![s] = v]
    BY <1>7
  <2>2. \A j \in Keys : r("app")[j] # "lost" /\ (r("app")[j] = "app" => j \in v)
    BY <1>1, <1>4
  <2> HIDE DEF v
  <2>3. QED BY <1>3, <1>5, <1>7, <2>1, <2>2, OneGrabKept DEF Pressed, Routed
<1>8. QED BY <1>3, <1>6, <1>7 DEF Pressed

LEMMA ReleaseInGrab ==
  ASSUME IInv, OneGrabInv, NEW s \in Seats, NEW k \in Keys,
         ReleaseRepeating(s, k) \/ ReleaseOther(s, k)
  PROVE  OneGrabInv'
<1> DEFINE r == [route[s] EXCEPT ![k] = "up"]
<1>1. /\ ctx[s] \in InputContext /\ route[s] \in [Keys -> Routes] /\ vkDown[s] \in SUBSET Keys
      /\ \A j \in Keys : route[s][j] # "lost" /\ (route[s][j] = "app" => j \in vkDown[s])
      /\ ctx[s].repeat_timer # None =>
           /\ ctx[s].repeat_timer.keycode \in Keys
           /\ route[s][ctx[s].repeat_timer.keycode] = "im"
  BY DEF IInv, TypeOK, OneGrabInv, InputContext, RepeatTimers
<1>2. PICK e : Released(s, k, release_if_pressed(ctx[s], k), e)
  BY ReleaseOutcome
<1>3. e.repeat_timer # None => r[e.repeat_timer.keycode] = "im"
  BY <1>1, <1>2 DEF Released
<1>4. PICK v \in {vkDown[s], vkDown[s] \ {k}} : vkDown' = [vkDown EXCEPT ![s] = v]
  BY <1>2 DEF Released, IInv, TypeOK
<1>5. \A j \in Keys : r[j] # "lost" /\ (r[j] = "app" => j \in v)
  BY <1>1, <1>4
<1>6. QED BY <1>2, <1>3, <1>4, <1>5, OneGrabKept DEF Released, Routed

LEMMA DoneInGrab ==
  ASSUME IInv, OneGrabInv, NEW s \in Seats, Done(s), GrabsStay
  PROVE  OneGrabInv'
<1> DEFINE c == ApplyPending(ctx[s])
           e == [c EXCEPT !.num_done_events = @ + 1,
                          !.pending_activate = FALSE, !.pending_deactivate = FALSE]
<1>1. ctx[s] \in InputContext
  BY DEF IInv, TypeOK
<1>2. c \in InputContext /\ c.repeat_timer = ctx[s].repeat_timer
  BY <1>1 DEF ApplyPending, ReleaseGrab, InputContext, EmptyPressed
<1>3. ctx' = [ctx EXCEPT ![s] = e] /\ vkDown' = vkDown
  BY DEF Done, SetCtx
<1>4. e.repeat_timer = ctx[s].repeat_timer /\ e.keyboard_grab = c.keyboard_grab
  <2> HIDE DEF c
  <2>1. QED BY <1>2 DEF InputContext
<1> HIDE DEF e
<1>5. ctx'[s] = e
  BY <1>3 DEF IInv, TypeOK
<1>6. route' = route
  BY <1>4, <1>5 DEF Done, GrabsStay
<1>7. QED BY <1>3, <1>4, <1>6, OneGrabKept DEF OneGrabInv, IInv, TypeOK

LEMMA QuietInGrab ==
  ASSUME IInv, OneGrabInv, NEW s \in Seats, NEW e, Quiet(s, e)
  PROVE  OneGrabInv'
<1>1. /\ ctx'[s] = e /\ \A x \in Seats \ {s} : ctx'[x] = ctx[x]
  BY DEF Quiet, IInv, TypeOK
<1>2. QED BY <1>1 DEF Quiet, OneGrabInv

LEMMA GrabNextStep ==
  ASSUME IInv, SlotInv, OneGrabInv, [Next]_vars, [GrabsStay]_vars
  PROVE  OneGrabInv'
<1>1. CASE UNCHANGED <<running, ctx, route, vkDown>>
  BY <1>1 DEF OneGrabInv
<1>2. CASE \E s \in Seats : Done(s)
  <2>1. CASE vars' = vars
    BY <2>1 DEF vars, OneGrabInv
  <2>2. QED BY <1>2, <2>1, DoneInGrab
<1>3. QED BY <1>1, <1>2, NextCases, PressInGrab, ReleaseInGrab, QuietInGrab

(* What a release does, given where its press went *)
LEMMA ReleaseFits ==
  ASSUME IInv, SlotInv, OneGrabInv, ConsumedIsMarked, running, [Next]_vars,
         [GrabsStay]_vars, NEW s \in Seats, NEW k \in Keys, KeyReleased(s, k)
  PROVE  route[s][k] = "app" <=> k \in vkDown[s] /\ k \notin vkDown'[s]
<1>1. /\ ctx[s] \in InputContext /\ route[s] \in [Keys -> Routes] /\ route[s][k] \in {"im", "app"}
      /\ route[s][k] # "up" /\ route'[s][k] = "up"
      /\ route[s][k] = "app" => k \in vkDown[s]
  BY DEF IInv, TypeOK, KeyReleased, OneGrabInv, Routes
<1>2. ASSUME NEW x \in Seats, NEW j \in Keys,
             PressWhileRepeating(x, j) \/ PressOtherwise(x, j)
      PROVE  FALSE
  <2>1. PICK y \in {"im", "app"} : Routed(x, j, y)
    BY <1>2, PressOutcome DEF Pressed
  <2>2. QED BY <1>1, <2>1 DEF Routed, IInv, TypeOK
<1>3. ASSUME NEW x \in Seats, Done(x) PROVE FALSE
  BY <1>1, <1>3 DEF Done, IInv, TypeOK
<1>4. route' # route
  BY <1>1
<1>5. PICK x \in Seats, j \in Keys : ReleaseRepeating(x, j) \/ ReleaseOther(x, j)
  BY <1>2, <1>3, <1>4, NextCases DEF Quiet
<1>6. PICK e : Released(x, j, release_if_pressed(ctx[x], j), e)
  BY <1>5, ReleaseOutcome
<1>7. x = s /\ j = k
  BY <1>1, <1>6 DEF Released, Routed, IInv, TypeOK
<1>8. IsPressed(ctx[s], k) <=> route[s][k] = "im"
  BY NoneAssumption DEF ConsumedIsMarked, IsPressed, SlotInv, SlotsOK
<1>9. Repeats(ctx[s], k) => route[s][k] = "im"
  BY DEF Repeats, OneGrabInv
<1>10. QED BY <1>1, <1>6, <1>7, <1>8, <1>9 DEF Released, IInv, TypeOK

(* Within one grab the application gets the release of a key exactly when it *)
(* got its press, unless more keys are held than `pressed` has slots.        *)
THEOREM ReleasesFollow ==
  ASSUME IsFiniteSet(Slots)
  PROVE  Spec /\ []HeldFits /\ [][GrabsStay]_vars => ReleaseFollowsPress
<1>1. Init => OneGrabInv
  BY DEF Init, OneGrabInv, NewContext
<1>2. IInv /\ SlotInv /\ OneGrabInv /\ [Next]_vars /\ [GrabsStay]_vars => OneGrabInv'
  BY GrabNextStep
<1> DEFINE A == running => \A s \in Seats : \A k \in Keys : KeyReleased(s, k) =>
                  (route[s][k] = "app" <=> k \in vkDown[s] /\ k \notin vkDown'[s])
<1>3. IInv /\ SlotInv /\ OneGrabInv /\ ConsumedIsMarked /\ [Next]_vars /\ [GrabsStay]_vars
        => [A]_vars
  BY ReleaseFits
<1> HIDE DEF A
<1>4. Spec /\ []HeldFits /\ [][GrabsStay]_vars => [][A]_vars
  BY <1>1, <1>2, <1>3, Inductive, SlotInductive, ConsumedAreMarked, PTL DEF Spec
<1>5. QED BY <1>4 DEF A, ReleaseFollowsPress
=============================================================================
