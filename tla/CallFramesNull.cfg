SPECIFICATION Spec
CONSTANTS
  f1 = f1  f2 = f2  f3 = f3  f4 = f4  f5 = f5
  NoFrame = NoFrame
  Frame <- MCFrames4
  MaxDepth = 5
SYMMETRY Symm4
CHECK_DEADLOCK FALSE
INVARIANTS NeverNowhere
