SPECIFICATION FairSpec
CONSTANTS
  FIFO_BYTES = 4
  PageBytes = 8
  BytesRange = 16
  Transfers <- MCPlainTransfer
  ReadErrors = {2}
  WriteErrors = {}
PROPERTY
  ErrorCompletesBurst
