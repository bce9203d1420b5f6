CONSTANTS
    a = a b = b c = c d = d
    a1 = a1 a2 = a2 b1 = b1 b2 = b2 c1 = c1 c1x = c1x d1 = d1
    p1 = p1 p2 = p2
    None = None Local = Local Garbage = Garbage Broken = Broken
    Pkgs <- MCPkgs
    Grains <- MCGrains
    Paths = {}
    name <- MCname
    manifest <- MCmanifest
    deps <- MCdeps
    conflicts <- MCconflicts
    Requests = {}
    version <- MCversion
    release <- MCrelease
    Procs = {p1, p2}
    Menus <- MCMenus
SPECIFICATION Spec
CHECK_DEADLOCK FALSE
INVARIANTS
    DepsClosed
    PlansExact
    ApplyConverges
    SignedIsVerified
PROPERTIES
    NeverDowngrades
