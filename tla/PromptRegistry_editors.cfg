CONSTANTS
    Contents = {unknown, old, c1, c2}
    Renders = {old, c1, c2}
    Valid = {c1, c2}
    Editors = {e1, e2}
    Resolvers = {r1}
    Instances = {i1}
    TTL = 1
    MaxTime = 1
    MaxVersions = 3
    None = None
SYMMETRY Symmetry
SPECIFICATION Spec
INVARIANTS
    HistoryConsistent
    RestoredFaithfully
    BoundedStaleness
PROPERTIES
    HistoryPreserved
