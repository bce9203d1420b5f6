SPECIFICATION CompletedSpec
CONSTANTS
  a = a
  b = b
  a1 = a1
  a2 = a2
  b1 = b1
  f = f
  g = g
  Local = Local
  None = None
  Pkgs <- MCPkgs
  Grains <- MCGrains
  Paths <- MCPaths
  name <- MCname
  manifest <- MCmanifest
  deps <- MCdeps
  conflicts <- MCconflicts
  Requests <- MCRequests
  Keep = 2
  Histories <- MCPinned
CHECK_DEADLOCK FALSE
PROPERTIES
  PinnedRestorable
