SPECIFICATION FairSpec
CONSTANTS
  NMSTR = 3
  MemSlaves = {iram, dram}
  AXI = axi
  iram = iram
  dram = dram
  NoSlave = none
  AxiMasters = {0}
INVARIANTS
  ResponseRouting
  ExactlyOnce
  BoundedWait
  OneAxiTransaction
PROPERTIES
  PortSpec
  EventuallyGranted
