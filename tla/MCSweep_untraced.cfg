CONSTANTS
  Num <- MCNum
  Zero = 0
  One = 1
  Unary = {"Abs", "Exp", "Log", "Sin", "Cos"}
  TwoResults = {"Sin", "Cos"}
  Calc <- MCCalc
  Aux <- MCAux
  Less <- MCLess
  Tapes <- MCSumFirst
  Counts <- MCUncounted
  Garbage = {1}
  None = None
  Traced = FALSE
SPECIFICATION Spec
INVARIANT CursorAligned
