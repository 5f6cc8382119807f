CONSTANTS
  CPPAD_MAX_NUM_THREADS = 2
  Object = {o1, o2}
  Vector <- MCVector
  MaxTapeId = 7
  MaxVar = 4
  KeepsRestriction = FALSE
SYMMETRY MCSymmetry
SPECIFICATION Spec
PROPERTY RecordingsKeepTheirTape
