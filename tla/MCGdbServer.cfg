SPECIFICATION ServerFairSpec
CONSTANTS
  NUMBER_BITS_FOR_TOP_BASE = 3
  REGISTER_SIZE = 6
  EXPONENT_BIT_SIZE = 2
  PAIR_BITS = 6
  REG_NAME_TO_VALUE <- MCRegisters
  FirstCap = 45123
  FirstValue = 9
  Ranges <- MCRanges
  PermLists <- MCPermLists
  Otypes = {0, 5}
  Values = {8, 11, 33}
  MaxSets = 3
  bus_width = 4
  Images <- MCImages
  MemoryTop = 24
  Registers = {"ra", "pc"}
  PC = "pc"
  Addresses = {"a", "b"}
  Lines <- MCLines
  Words = 3
  MaxCommands = 4
  MaxBreakpoints = 2
INVARIANTS
  BoundsAsAsked
  PermissionsAsAsked
  WordsAsAsked
  ImageLoaded
  StopsAtBreakpoints
PROPERTIES
  RegistersAsMeant
  CommandEnds
CHECK_DEADLOCK FALSE
