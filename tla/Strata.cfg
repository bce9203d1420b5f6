SPECIFICATION Spec
CHECK_DEADLOCK FALSE
CONSTANTS
    StratumNames = {"A", "B"}
    Packages = {"f", "g"}
    builds <- MCbuilds
    version <- MCversion
    provides <- MCprovides
    apps <- MCapps
    units <- MCunits
    pm <- MCpm
    HostCommands = {"ls"}
    Components = {"init"}
    Menus <- MCMenus
    MaxSnap = 3
    Absent = Absent
    None = None
    Missing = Missing
    EmptyTree = EmptyTree
    Partial = Partial
INVARIANTS
    SnapshotsFaithful
    Recoverable
    RollbackExact
    ApplyExact
    ApplyRestores
    ShimsTraceable
    RemoveUnexposes
    ProviderRollbackExact
    ConfigExposed
PROPERTIES
    FirstExposedWins
