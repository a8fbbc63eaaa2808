SPECIFICATION MCSpec
CONSTANTS
  Compilations <- CompiledPrograms
  Flows <- ProgramFlows
  Programs <- AllPrograms
  Expected <- AllExpected
INVARIANTS OutputAgrees PassesAgree CodeVerified RoundTrip DepthAsVerified
PROPERTY Finishes
