SPECIFICATION Spec
CONSTANTS
    Req = {r1, r2}
    r1 = r1
    r2 = r2
    Old = Old
    Faults = FALSE
    Exits = FALSE
    Path <- MCPath
    Base <- MCBase
    Dirname <- MCDirname
    Above <- MCAbove
    Menu <- RaceMenu
SYMMETRY Symmetry
PROPERTIES
    AcknowledgedObjectsSurviveRemoval
