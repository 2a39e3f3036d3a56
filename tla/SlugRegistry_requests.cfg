CONSTANTS
    Dashboards = {d1, d2, d3}
    Drafts = {d1}
    Names <- MCNames
    Slugs <- MCSlugs
    Candidates <- MCCandidates
    Stamped <- MCStamped
    Procs = {p1, p2}
    Overlap = FALSE
    Faults <- SafeFaults
SYMMETRY Symmetry
SPECIFICATION Spec
INVARIANTS
    UniqueSlugs
    SlugsReserved
    NoOrphans
CHECK_DEADLOCK FALSE
