CONSTANTS
  P = 3
  Object = {x, y}
  Ops = {"Add", "Sub", "Mul", "Div", "Sin", "Lt", "Le", "Gt", "Ge", "Eq", "Ne",
         "CExpLt", "CExpLe", "CExpEq"}
  Dim = 1
  Vector <- MCVector
  NoFun = NoFun
  Num <- MCNum
  Zero = 0
  One = 1
  Unary = {"Sin"}
  TwoResults = {"Sin"}
  Calc <- MCCalc
  Aux <- MCAux
  Less <- MCLess
  Code <- MCCode
  Hash <- MCHash
  Room <- MCRoom
SPECIFICATION PlaybackSpec
VIEW Recorded
SYMMETRY Objects
INVARIANTS TypeOK ValuesAgree TapeFaithful
PROPERTIES FunctionFaithful ImplementsFunctions Playable PlaysBack
