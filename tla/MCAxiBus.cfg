SPECIFICATION BusFairSpec
CONSTANTS
  NMGR = 2
  NSUB = 2
  AXI_FIFO_SIZE = 2
  MaxBeats = 3
  UnmappedManagers = {0}
  LenRange = 4
  ReadLens = {0, 3}
INVARIANTS
  OwnBeats
  BeatsConserved
  BeatsRouted
PROPERTIES
  ServiceSpec
  EveryWriteAnswered
  EveryReadAccepted
