SPECIFICATION FairSpec
CONSTANTS
  ClkPerTck = 3
  HostWords = {"zero"}
  MemSize = 2
  MemWords = {"m"}
  Kinds = {"csr"}
  MaxPointer = 2
INVARIANTS
  OneAccessPerScan
  OncePerCommand
  CommandsWork
  MemoryAsMeant
  ReadsReturn
PROPERTY
  RequestsServed
