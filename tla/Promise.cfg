SPECIFICATION Spec
CONSTANTS
  p1 = p1  p2 = p2  p3 = p3  p4 = p4  t1 = t1  v1 = v1
  Module = Module  Error = Error  None = None
  MicroTask <- MCPromises4
  MacroTask = {}
  Value <- MCValues1
  MaxRuns = 2
SYMMETRY Symm4
CHECK_DEADLOCK FALSE
INVARIANTS DeliveryInv NoTaskTwice HandlerMatchesOutcome NoHandlerLost HandlerSettles PendingExplained HandlersInOrder
PROPERTIES SettledForGood
