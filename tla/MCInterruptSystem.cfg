SPECIFICATION FairSpec
CONSTANTS
  NSrc = 4
  Config <- MCConfig
INVARIANTS
  OneClaimPerRequest
  HighestFirst
  SweepNoticedOnce
PROPERTY
  EveryRequestServed
