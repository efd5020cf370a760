\* A client that publishes (the gateway), under every kind of fault; the broker
\* comes back whenever it is down.
SPECIFICATION FairSpec
CONSTANTS
  HasConsumer = FALSE
  MaxMsgs = 2
  Faults = {"connection", "channel", "queue", "call"}
  MaxFaults = 3
INVARIANTS
  TypeOK
  FinishedForAReason
  NoStaleConnectionClose
  DeadChannelIsNoticed
  SentAtMostOnce
  NothingLostByQueueDeletion
PROPERTIES
  HandleSpec
  ShutdownEnds
  EveryMessageRouted
  ConnectedReconnects
CHECK_DEADLOCK FALSE
