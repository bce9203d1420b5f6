SPECIFICATION Spec
CONSTANTS
  None = None
  Machines <- MCMachines
  SwapMib = 2048
  MaxAttempts = 3
CHECK_DEADLOCK FALSE
INVARIANTS
  Bootable
  AccountsRight
  Networked
  EraseRepeats
PROPERTIES
  ExistingKept
