SPECIFICATION FairSpec
CONSTANTS
  Kernels = {1, 2, 3, 4}
  First = 1
  Broken = {3}
  None = None
  MaxTxns = 4
INVARIANTS
  DefaultBootable
  DefaultConfirmed
PROPERTIES
  UntestedOnlyOnTrial
  ComesUp
