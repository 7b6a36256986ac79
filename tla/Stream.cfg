SPECIFICATION FairSpec
CONSTANTS
  MaxQueued <- Queued
INVARIANTS
  NothingLost
  StackOutlivesThreads
PROPERTIES
  Returns
  Sent
CHECK_DEADLOCK FALSE
