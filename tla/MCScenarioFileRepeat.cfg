CONSTANTS
  n1 = n1
  n2 = n2
  NoValue = NoValue
  Malformed = Malformed
  Text = Text
  Names <- MCNames
  MaxEntries = 1
  MaxRepeat = 2
SPECIFICATION Spec
INVARIANTS
  ParsedAsSpecified
SYMMETRY MCSymmetry
CHECK_DEADLOCK FALSE
