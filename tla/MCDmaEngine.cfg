SPECIFICATION FairSpec
CONSTANTS
  FIFO_BYTES = 4
  PageBytes = 8
  BytesRange = 16
  Transfers <- MCTransfers
  ReadErrors = {2, 3}
  WriteErrors = {2}
INVARIANTS
  Copied
  BeatsWithinPage
  ByteCountFollows
PROPERTY
  TransferEnds
