SPECIFICATION FairServerSpec
CONSTANTS
    Req = {r1, r2}
    r1 = r1
    r2 = r2
    Proc = {p1}
    p1 = p1
    Old = Old
    Faults = FALSE
    Exits = TRUE
    Path <- MCPath
    Base <- MCBase
    Dirname <- MCDirname
    Above <- MCAbove
    Menu <- ServerMenu
INVARIANTS
    ServerInv
PROPERTIES
    ExitCutsNothing
    ShutdownEnds
    
