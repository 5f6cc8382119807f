CONSTANTS
  Wrapper = {w1, w2, w3}
  Addr = {a1, a2, a3}
  Num <- MCNum
  zero = zero
  one = one
  two = two
  Zero = zero
  One = one
  Plus = "+"
  Minus = "-"
  Op <- MCOp
  Apply <- MCApply
  Free = Free
  DependentsBoxed = TRUE
  IncrementsPlain = FALSE
VIEW MCView
SYMMETRY MCSymmetry
SPECIFICATION Spec
PROPERTY ImplementsNative
