SPECIFICATION FairSpec
CONSTANTS
  Sources <- ManyFunctions
  Inputs <- MCInputs
  Fuel = 12
INVARIANTS TypeOK SameRuns CopiesFollowGraph PhisCoverPredecessors
PROPERTIES Terminates TakenEdgesKept
CHECK_DEADLOCK FALSE
