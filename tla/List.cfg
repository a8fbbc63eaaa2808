SPECIFICATION Spec
CONSTANTS
  Value = {a, b}
  Null = null
  Argument <- ShortLists
  INIT_CAPACITY = 2
  Trivial = TRUE
  MaxSize = 5
SYMMETRY Symmetry
INVARIANTS TypeOK InBounds ObserversAgree
PROPERTY ImplementsContract
