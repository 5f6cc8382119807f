CONSTANTS
  Num <- MCNum
  Zero = 0
  One = 1
  Unary = {"Abs", "Exp", "Log", "Sin", "Cos"}
  TwoResults = {"Sin", "Cos"}
  Calc <- MCCalc
  Aux <- MCAux
  Less <- MCLess
  Tapes <- SweepTapes
  Counts <- MCCounts
  Garbage = {1}
  None = None
  Traced = TRUE
SPECIFICATION FairSpec
INVARIANTS TypeOK CursorAligned OrdersSolveTape
PROPERTIES ImplementsDerivatives ChangesCounted CallsReturn
