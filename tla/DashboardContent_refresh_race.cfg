SPECIFICATION Spec
CONSTANTS
    p1 = p1
    p2 = p2
    p3 = p3
    Procs = {p1, p2}
    Kinds = {"html", "refresh"}
    Faults = {}
    MaxVersions = 2
    MaxOps = 2
    InitialMulti = {FALSE}
    Absent = Absent
    NoText = NoText
    Partial = Partial
INVARIANT
    NoDanglingPointer
CHECK_DEADLOCK FALSE
