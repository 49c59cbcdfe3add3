SPECIFICATION Spec
CONSTANTS
  a = a
  n = n
  q = q
  esc = esc
  ret = ret
  base = base
  upper = upper
  None = None
  Seats = {s1}
  Keys = {n, q, ret}
  Levels = {base, upper}
  BaseLevel = base
  KeySym <- MCKeySym
  KeyRepeats <- MCKeyRepeats
  Slots = {1, 2, 3}
  Tokens = {t1, t2}
  MaxDone = 3
INVARIANT TypeOK
INVARIANT TimerBacked
INVARIANT RateKnown
INVARIANT NoSlotLeak
INVARIANT ConsumedIsMarked
INVARIANT RepeatIsDown
CHECK_DEADLOCK FALSE
