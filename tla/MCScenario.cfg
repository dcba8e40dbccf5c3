CONSTANTS
  a = a
  b = b
  c = c
  x = x
  j = j
  Names <- MCNames
  Caps <- MCCaps
  Jigs <- MCJigs
  ReqChoices <- MCReqChoices
  SugChoices <- MCSugChoices
  ProvChoices <- MCProvChoices
SPECIFICATION Spec
INVARIANTS
  ScheduleSound
SYMMETRY MCSymmetry
