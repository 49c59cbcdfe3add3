SPECIFICATION MCSpec
CONSTANTS
  f1 = f1
  f2 = f2
  f3 = f3
  default = default
  custom = custom
  hello = hello
  bye = bye
  name = name
  digits = digits
  unclosed = unclosed
  text = text
  Paths = {f1, f2, f3}
  Profiles = {default, custom}
  MaxFound = 2
  MaxImports = 1
  Contents <- MCContents
  BadRegexes = {unclosed}
  None = None
INVARIANT TypeOK
INVARIANT RefsStayValid
INVARIANT LoadsReachable
INVARIANT FailuresReported
INVARIANT QueryIsClosure
INVARIANT NothingIsLost
INVARIANT ImportsOverride
PROPERTY Terminates
CHECK_DEADLOCK FALSE
