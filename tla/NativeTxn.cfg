SPECIFICATION FairSpec
CONSTANTS
  a = a
  b = b
  a1 = a1
  a2 = a2
  b1 = b1
  b2 = b2
  f = f
  g = g
  h = h
  Local = Local
  None = None
  Pkgs <- MCPkgs
  Grains <- MCGrains
  Paths <- MCPaths
  name <- MCname
  manifest <- MCmanifest
  deps <- MCdeps
  conflicts <- MCconflicts
  Requests <- MCRequests
INVARIANTS
  JournalCovers
  FailureLeavesNoTrace
  NeverHalfInstalled
  NoConflictsInstalled
PROPERTIES
  AtomicSpec
  TransactionEnds
