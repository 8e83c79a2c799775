SPECIFICATION Spec
CONSTANTS
  Programs <- MCArrayReader
  Inputs <- MCInputs
  MaxAllocs = 1000
  SourceFuel = 12
  ModuleFuel = 100
CHECK_DEADLOCK FALSE
INVARIANT StatelessUseNoGlobals
