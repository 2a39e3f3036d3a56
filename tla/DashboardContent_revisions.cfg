SPECIFICATION Spec
CONSTANTS
    p1 = p1
    p2 = p2
    p3 = p3
    Procs = {p1, p2, p3}
    Kinds <- RevisionWriters
    Faults <- RevisionFaults
    MaxVersions = 1
    MaxOps = 3
    InitialMulti = {TRUE, FALSE}
    Absent = Absent
    NoText = NoText
    Partial = Partial
SYMMETRY Symmetry
INVARIANTS
    NoDanglingPointer
PROPERTIES
    ImplementsLiveContent
CHECK_DEADLOCK FALSE
