SPECIFICATION Spec
CONSTANTS
  default = default
  custom = custom
  base = base
  private = private
  None = None
  Torn = Torn
  Procs = {wl}
  Profiles = {default}
  DefaultProfile = default
  Globbed = {base}
  Private = {private}
  Imports <- MCImports
  Versions = {v1, v2, bad}
  Broken = {bad}
  MaxTime = 4
  Overlap = FALSE
  EditWhileBusy = FALSE
  ImportsChange = TRUE
PROPERTY Transparent
CHECK_DEADLOCK FALSE
