SPECIFICATION Spec
CONSTANTS
  Programs <- MCShortCircuit
  Inputs <- MCInputs
  MaxAllocs = 1000
  SourceFuel = 12
  ModuleFuel = 100
CHECK_DEADLOCK FALSE
INVARIANT NoPhiReachesBackEnd
