SPECIFICATION SourceSpec
CONSTANTS
  Admins = {a1, a2}
  Ids = {i1}
  Places = {p1}
  Credentials = {c1, c2}
  Columns = {email, uid}
  Names = {n1, n2}
  Grants = {g1, g2}
  plain = plain
  double = double
  Contents = {plain, double}
  HeadersOf <- MCHeadersOf
  Doubled <- MCDoubled
  MaxVersion = 3
  New = New
  Kept = Kept
  Unset = Unset
SYMMETRY MCSymmetry
INVARIANTS SourceTypeOK Inspected
PROPERTIES NothingOverwritten
