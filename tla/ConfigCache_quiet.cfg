SPECIFICATION Spec
CONSTANTS
  default = default
  custom = custom
  base = base
  private = private
  None = None
  Torn = Torn
  Procs = {wl}
  Profiles = {default, custom}
  DefaultProfile = default
  Globbed = {base}
  Private = {private}
  Imports <- MCImports
  Versions = {v1, v2, bad}
  Broken = {bad}
  MaxTime = 5
  Overlap = FALSE
  EditWhileBusy = FALSE
  ImportsChange = FALSE
INVARIANT TypeOK
PROPERTY Transparent
PROPERTY CacheHits
CHECK_DEADLOCK FALSE
