SPECIFICATION Spec
CHECK_DEADLOCK FALSE
CONSTANTS
    Runners = {"r1", "r2"}
    Strata = {"A", "B"}
    None = None
    MaxPid = 2
    Humans = {"me", "new", "other"}
    Founder = "me"
    System = {"alpm"}
    Scenarios <- MCScenarios
INVARIANTS
    OneHolder
    FreshView
    CommandOnce
    AccountsReach
PROPERTIES
    RunEnds
