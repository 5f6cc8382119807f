CONSTANTS
  CPPAD_MAX_NUM_THREADS = 2
  num_cap = 2
  capacity_vec <- MCCapacity
  Addr = {a1, a2, a3}
  Free = Free
  Null = Null
  Raw = Raw
  Vector = {v, w}
  MaxLength = 3
  Elem = {0, 1}
  Default = 0
  is_pod = FALSE
SPECIFICATION Spec
SYMMETRY Same
INVARIANTS TypeOK BlocksApart NothingLost CountsExact ObjectsLive
PROPERTIES FreeAllTells ImplementsVectors
