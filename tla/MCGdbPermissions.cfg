SPECIFICATION RegSpec
CONSTANTS
  NUMBER_BITS_FOR_TOP_BASE = 3
  REGISTER_SIZE = 6
  EXPONENT_BIT_SIZE = 2
  PAIR_BITS = 6
  REG_NAME_TO_VALUE <- MCRegisters
  FirstCap = 45123
  FirstValue = 9
  Ranges <- MCRanges
  PermLists <- MCPermLists
  Otypes = {0, 5}
  Values = {8, 11, 33}
  MaxSets = 3
INVARIANT
  PermissionsKept
CHECK_DEADLOCK FALSE
