SPECIFICATION Spec
CONSTANTS
    Req = {r1, r2, r3}
    r1 = r1
    r2 = r2
    r3 = r3
    Old = Old
    Faults = FALSE
    Exits = FALSE
    Path <- MCPath
    Base <- MCBase
    Dirname <- MCDirname
    Above <- MCAbove
    Menu <- StoreMenu
SYMMETRY Symmetry
PROPERTIES
    ImplementsStore
