SPECIFICATION LibrarySpec
CONSTANTS
  Value = {a, b}
  Null = null
  Argument <- ShortLists
  INIT_CAPACITY = 2
  Trivial = FALSE
  MaxSize = 3
  None = none
  SliceObject <- SliceObjects
  Index <- Indices
  Data = {u}
  Function = {f}
  Absent = absent
  MaxClasses = 4
  MaxUsed = 2
  Radix = 3
  DigitBits = 2
  NibbleBits = 1
  WordDigits = 3
  MaxDigits = 4
  Operand <- Operands
  Key = {"twin", "other", "third"}
  Datum = {1, 2}
  Nothing = nothing
  Displayed <- KeyPairs
  Placement <- Placements
  Comparison <- KeyComparison
  Matrices <- SmallMatrices
  Scalar = {0, 2}
  Exponent <- Exponents
  Place <- Places
  Span <- Spans
  TileSize = 2
  IndexLimit = 64
  MaxCalls = 2
SYMMETRY Symmetry
INVARIANTS SliceAsPython SliceKeepsPositions MroIsMerge AttributesStick IntegersExact DictionaryKept MatrixIsArray
PROPERTY ArrayLossLeavesHole
CHECK_DEADLOCK FALSE
