SPECIFICATION ExecSpec
CONSTANTS
  Registers <- MCRegisters
  CalleeSaved <- MCCalleeSaved
  ArgRegs <- MCArgRegs
  CallerSaved = {"a0", "t0"}
  NearSlots = 1
  None = "none"
  Functions <- MCFunctions
  Programs <- MCEarly
  MaxValues = 9
  Scratch = "t0"
CHECK_DEADLOCK FALSE
INVARIANT ParametersArrive
