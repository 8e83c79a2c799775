SPECIFICATION Spec
CONSTANTS
  Names <- MCNames
  Temp <- MCTemp
  MoveLists <- MCMoveLists
INVARIANTS IInv DoneTogether
CHECK_DEADLOCK FALSE
