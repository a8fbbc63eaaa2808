SPECIFICATION Spec
CONSTANTS
  p1 = p1  p2 = p2  p3 = p3  p4 = p4  t1 = t1  v1 = v1
  Module = Module  Error = Error  None = None
  MicroTask <- MCPromises3
  MacroTask <- MCTasks1
  Value <- MCValues1
  MaxRuns = 1
CHECK_DEADLOCK FALSE
INVARIANTS RejectRejects
