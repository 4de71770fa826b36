SPECIFICATION FairSpec
CONSTANTS
  TxDepth = 16
  PreLen = 16
  FcsLen = 8
  FillBelow = 12
  StartAbove = 4
  TxIfgMax = 150
  CntRange = 4096
  TxLens = {3}
  TxRatio = 4
  MinGap = 24
  RxDepth = 4
  RxPreLen = 4
  WordLen = 3
  AddrLen = 1
  Kinds <- MCKinds
  Filters <- MCFilters
  RxGap = 1
  RxRatio = 4
INVARIANTS
  FramesWhole
  EachFrameOnce
  BufferOwned
  EachFrameJudged
  DeliveredWhole
PROPERTIES
  GapKept
  DriverServed
