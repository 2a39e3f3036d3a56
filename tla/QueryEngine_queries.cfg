SPECIFICATION Spec
CONSTANTS
  Queries = {q1, q2}
  Sources = {s}
  Buckets = {b1}
  small = small
  large = large
  email = email
  uid = uid
  Owners = {email, uid}
  Contents = {small, large}
  Size <- MCSize
  Columns <- MCColumns
  Limit = 2
  Tables = {t1, t2, t3, t4}
  MaxVersion = 2
  Nothing = Nothing
INVARIANTS OpenWhileUsed NothingLeaks
PROPERTIES EvictsAsNeeded ImplementsDirect Settled
