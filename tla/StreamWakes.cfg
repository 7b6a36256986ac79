SPECIFICATION FairSpec
CONSTANT MaxQueued <- Queued
PROPERTY ClosingWakes
CHECK_DEADLOCK FALSE
