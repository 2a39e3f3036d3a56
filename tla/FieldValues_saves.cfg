SPECIFICATION Spec
CONSTANTS
  Requests = {r1, r2, r3}
  Keys = {k1}
  text = text
  multi = multi
  Types = {text, multi}
  word = word
  spaced = spaced
  option = option
  comma = comma
  Values = {word, spaced, option, comma}
  Sanitized <- MCSanitized
  MaxId = 2
  Empty = Empty
  Nothing = Nothing
SYMMETRY MCSymmetry
INVARIANTS ValidForField LastAudited
PROPERTIES NotLost
CHECK_DEADLOCK FALSE
