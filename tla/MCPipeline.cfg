SPECIFICATION Spec
CONSTANTS
  Programs <- MCPrograms
  Inputs <- MCInputs
  MaxAllocs = 4
  SourceFuel = 12
  ModuleFuel = 100
CHECK_DEADLOCK FALSE
INVARIANTS SameBehaviour WellFormed TreeOfDominators FrontierEndsDominance EffectsReachCallers
