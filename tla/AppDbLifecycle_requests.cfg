SPECIFICATION Spec
CONSTANTS
    Ids = {a, b}
    Tables = {t}
    Procs = {p1, p2}
    SavesTwice = FALSE
    Faults <- AllFaults
SYMMETRY Symmetry
INVARIANTS
    RegisteredExist
    SummaryTrue
PROPERTIES
    SecuredDataKept
CHECK_DEADLOCK FALSE
