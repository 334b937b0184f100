SPECIFICATION Spec
CONSTANTS
    Req = {r1, r2}
    r1 = r1
    r2 = r2
    Old = Old
    Faults = TRUE
    Exits = TRUE
    Path <- MCPath
    Base <- MCBase
    Dirname <- MCDirname
    Above <- MCAbove
    Menu <- ObjectMenu
SYMMETRY Symmetry
INVARIANTS
    AnsweredOnce
    AnswerIsFinal
PROPERTIES
    ImplementsStore
