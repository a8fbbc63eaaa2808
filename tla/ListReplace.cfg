SPECIFICATION Spec
CONSTANTS
  Value = {a, b}
  Null = null
  Argument <- ShortLists
  INIT_CAPACITY = 2
  Trivial = FALSE
  MaxSize = 4
PROPERTY TailKept
