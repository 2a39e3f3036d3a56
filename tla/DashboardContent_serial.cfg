SPECIFICATION Spec
CONSTANTS
    p1 = p1
    p2 = p2
    p3 = p3
    Procs = {p1}
    Kinds <- SerialKinds
    Faults <- SerialFaults
    MaxVersions = 2
    MaxOps = 5
    InitialMulti = {TRUE, FALSE}
    Absent = Absent
    NoText = NoText
    Partial = Partial
INVARIANTS
    NoContentLost
    ArchiveTrimmed
PROPERTIES
    VersionsImmutable
    RestoreSourceKept
    EvictsOldestFirst
CHECK_DEADLOCK FALSE
