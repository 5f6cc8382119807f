CONSTANTS
  Num <- MCNum
  Zero = 0
  One = 1
  Unary = {"Abs", "Exp", "Log", "Sin", "Cos"}
  TwoResults = {"Sin", "Cos"}
  Calc <- MCCalc
  Aux <- MCAux
  Less <- MCLess
  Tapes <- MCNested
  HashCode <- MCHashCode
  hash_code <- MCHash
  Valuations <- MCValuations
SPECIFICATION Spec
INVARIANT SameFunction
CHECK_DEADLOCK FALSE
