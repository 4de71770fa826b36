SPECIFICATION Spec
CONSTANTS
  FIFO_BYTES = 4
  PageBytes = 8
  BytesRange = 16
  Transfers <- MCUnequalBursts
  ReadErrors = {}
  WriteErrors = {}
INVARIANT
  AnnouncedWithinPage
