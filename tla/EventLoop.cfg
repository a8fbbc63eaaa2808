SPECIFICATION LoopFairSpec
CONSTANTS
  m1 = m1  m2 = m2  t1 = t1  t2 = t2  Module = Module
  MicroTask <- MCMicroTask
  MacroTask <- MCMacroTask
  MaxRuns = 2
CHECK_DEADLOCK FALSE
INVARIANTS LoopTypeOK LoopStateHonest NothingStranded RunsOnce
PROPERTIES QueuedTasksRun
