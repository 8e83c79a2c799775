SPECIFICATION ExecSpec
CONSTANTS
  Registers <- MCRunRegisters
  CalleeSaved <- MCRunSaved
  ArgRegs <- MCArgRegs
  CallerSaved = {"a0", "t0"}
  NearSlots = 1
  None = "none"
  Functions <- MCRunFunctions
  Programs <- MCRunPrograms
  MaxValues = 9
  Scratch = "t0"
CHECK_DEADLOCK FALSE
INVARIANTS SameOperands 
