SPECIFICATION Spec
CONSTANTS
  Prompt = {p1, p2, p3}
  Host = {h1}
  MaxLines = 2
  IdLimit = 4
SYMMETRY Symmetry
CHECK_DEADLOCK FALSE
INVARIANTS IdsUnique StraysOnlyInCrowd AnsweredByNextLine AnswersHandled
