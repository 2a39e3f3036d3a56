SPECIFICATION Spec
CONSTANTS
  Admins = {a1, a2}
  Users = {u1, u2}
  Depts = {d1, d2}
  Names = {n1, n2}
  Nobody = Nobody
SYMMETRY MCSymmetry
INVARIANTS OneDepartment UniqueNames
PROPERTIES ImplementsMembership
