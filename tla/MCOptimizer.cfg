CONSTANTS
  Num <- MCNum
  Zero = 0
  One = 1
  Unary = {"Abs", "Exp", "Log", "Sin", "Cos"}
  TwoResults = {"Sin", "Cos"}
  Calc <- MCCalc
  Aux <- MCAux
  Less <- MCLess
  Tapes <- MCAllTapes
  HashCode <- MCHashCode
  hash_code <- MCHash
  Valuations <- MCValuations
SPECIFICATION Spec
INVARIANTS TypeOK OperandsRecorded MergedAgree OutputPlayable SameFunction
CHECK_DEADLOCK FALSE
