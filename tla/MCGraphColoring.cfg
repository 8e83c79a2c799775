SPECIFICATION FairSpec
CONSTANTS
  Registers <- MCRegisters
  CalleeSaved <- MCCalleeSaved
  ArgRegs <- MCArgRegs
  CallerSaved = {"a0", "t0"}
  NearSlots = 1
  None = "none"
  Functions <- MCFunctions
  Programs <- MCPrograms
CHECK_DEADLOCK FALSE
INVARIANTS TypeOK ProperColoring EveryVariablePlaced NoNullNode SlotsInReach IInv
PROPERTIES Terminates KeepsPromise
