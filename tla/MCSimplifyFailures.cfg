SPECIFICATION Spec
CONSTANTS
  Sources <- FailingFunctions
  Inputs <- MCInputs
  Fuel = 12
INVARIANT NeverFails
CHECK_DEADLOCK FALSE
