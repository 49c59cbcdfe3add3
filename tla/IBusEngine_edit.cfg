SPECIFICATION FairSpec
CONSTANTS
  a = a
  w = w
  Chars = {a, w}
  Wide = {w}
  Triggers <- MCTriggers
  MaxLen = 4
INVARIANT TypeOK
INVARIANT PanicNeedsWide
INVARIANT DisplayIsCurrent
INVARIANT CommitAfterClear
PROPERTY Implements
PROPERTY Quits
CHECK_DEADLOCK FALSE
