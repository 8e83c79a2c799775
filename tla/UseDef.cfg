SPECIFICATION Spec
CONSTANTS
  \* two blocks, an instruction and a phi; both are values that either may read
  Values = {b1, b2, p, i}
  Users = {p, i}
  Phis = {p}
  Blocks = {b1, b2}
  None = none
  Null = null
  MaxUses = 2
SYMMETRY BlockSymmetry
INVARIANTS TypeOK UsersSound OptionsAreOperands KnownBlocksAreKeys
PROPERTIES UsersLostTwoWays ReplacedEverywhere
