\* A connection that dies while a channel is being opened on it is never replaced.
SPECIFICATION FairSpec
CONSTANTS
  HasConsumer = FALSE
  MaxMsgs = 1
  Faults = {"connection"}
  MaxFaults = 2
PROPERTIES ClosedConnectionReconnects
CHECK_DEADLOCK FALSE
