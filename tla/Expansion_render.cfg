SPECIFICATION MCSpec
CONSTANTS
  match_body = match_body
  x = x
  X = X
  y = y
  Y = Y
  hello = hello
  name = name
  fr = fr
  xx = xx
  Own = Own
  NotString = NotString
  Locales = {fr}
  SystemLocale = fr
  MaxOffset = 1
  to_uppercase <- MCUpper
  None = None
  Names = {match_body, x, X, y}
  Body = match_body
  Triggers = {hello, name}
  Bodies <- MCBodies
  LocalVariables <- MCLocals
  GlobalVariables <- MCGlobals
  MaxLocals = 2
  MaxDepth = 3
INVARIANT TypeOK
INVARIANT OutputIsMeaning
INVARIANT OverflowNeedsCycle
INVARIANT FailureIsFatal
PROPERTY InjectionSucceeds
PROPERTY Terminates
CHECK_DEADLOCK FALSE
