SPECIFICATION Spec
CONSTANTS
  NMGR = 2
  NSUB = 2
  AXI_FIFO_SIZE = 2
  MaxBeats = 1
  UnmappedManagers = {0, 1}
INVARIANT
  DecodeErrorAnswered
