SPECIFICATION Spec
CONSTANT W = 6
INVARIANT ExactWithSmallMultiplier
CHECK_DEADLOCK FALSE
