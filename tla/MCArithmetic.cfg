SPECIFICATION MCSpec
CONSTANTS
  Bits = 3
  Vars = {"x", "y"}
  Terms <- MCTerms
  Steps = 3
  Numbers <- MCNumbers
  Others <- MCOthers
  Analysed <- MCAnalysed
  W = 7
INVARIANTS
  SimplifyKeepsValue RingKeepsValue FewRounds
  WithinBounds Orderly FewAnalyses CoversRuns
  ExactWhenNotNegative ExactWithLargeMultiplier LowWordWithPowerOf2 ProductsRight
CHECK_DEADLOCK FALSE
