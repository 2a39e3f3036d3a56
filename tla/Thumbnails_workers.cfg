SPECIFICATION PictureSpec
CONSTANTS
  Workers = {w1, w2, w3}
  MaxContent = 3
  MaxPaths = 3
  None = None
  Own = Own
SYMMETRY MCSymmetry
INVARIANTS PictureTypeOK NeverDangles NoneForgotten PicturesCurrent
CHECK_DEADLOCK FALSE
