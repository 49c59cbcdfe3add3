SPECIFICATION FairSpec
CONSTANTS
  a = a
  n = n
  q = q
  esc = esc
  ret = ret
  base = base
  upper = upper
  None = None
  Seats = {s1}
  Keys = {a, q, esc}
  Levels = {base, upper}
  BaseLevel = base
  KeySym <- MCKeySym
  KeyRepeats <- MCKeyRepeats
  Slots = {1, 2, 3}
  Tokens = {t1, t2}
  MaxDone = 1
PROPERTY ReleaseFollowsPress
PROPERTY EscapeQuits
CHECK_DEADLOCK FALSE
