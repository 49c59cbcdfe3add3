SPECIFICATION MCSpec
CONSTANTS
  None = None
  Broken = Broken
  Empty = Empty
  NotString = NotString
  Standard = Standard
  Missing = Missing
  Directory = Directory
  rx = rx
  ry = ry
  rz = rz
  unclosed = unclosed
  editor = editor
  shell = shell
  a = a
  b = b
  c = c
  mine = mine
  other = other
  PortableConfig = PortableConfig
  HomeShinran = HomeShinran
  HomeConfig = HomeConfig
  DefaultConfig = DefaultConfig
  PortableRuntime = PortableRuntime
  DefaultRuntime = DefaultRuntime
  NamedDirs = {elsewhere}
  Packages <- MCPackages
  Creates <- MCCreates
  Glob <- MCGlob
  BadRegexes = {unclosed}
  Language <- MCLanguage
  Names = {"default.yml", "one.yml", "two.yml", "notes.txt"}
  DefaultFile = "default.yml"
  Supported = {"default.yml", "one.yml", "two.yml"}
  Contents <- MCContents
  Apps <- MCApps
  MaxEdits = 2
INVARIANT DefaultFiltersIgnored
