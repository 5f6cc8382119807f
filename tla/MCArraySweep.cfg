CONSTANTS
  Element <- MCElement
  ZeroElement = 0
  OneElement = 1
  Unary = {"Exp", "Abs"}
  TwoResults = {}
  CalcElement <- MCCalc
  AuxElement <- MCAux
  LessElement <- MCLess
  Tapes <- MCTapes
  Given <- MCGiven
  None = None
SPECIFICATION Spec
CHECK_DEADLOCK FALSE
INVARIANTS TypeOK ShapesKept
PROPERTIES ImplementsDerivatives
