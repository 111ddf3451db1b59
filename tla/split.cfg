SPECIFICATION FairSpec
CONSTANTS
  MaxSize = 8
  MaxPeers = 3
  MaxMinChunk = 3
  Arguments <- MCArguments
  BlockSize = 2
  MaxCopies = 1
  Lossy = TRUE
INVARIANTS
  TypeOK
  SplitIsPartition
  EveryLossIsNoticed
  AcceptedIsWhole
  UntouchedIsServed
PROPERTIES
  FetchesEnd
CHECK_DEADLOCK FALSE
