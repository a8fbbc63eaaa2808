SPECIFICATION MCSpec
CONSTANTS
  Compilations <- CompiledPrograms
  Flows <- ProgramFlows
  Programs <- EmptyRanges
  Expected <- EmptyExpected
INVARIANT RangesAsCommented
