CONSTANTS
  n1 = n1
  n2 = n2
  NoValue = NoValue
  Malformed = Malformed
  Text = Text
  Names <- MCNames
  MaxEntries = 3
  MaxRepeat = 1
SPECIFICATION Spec
INVARIANTS
  ParsedAsSpecified
SYMMETRY MCSymmetry
CHECK_DEADLOCK FALSE
