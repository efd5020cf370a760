\* A client that consumes (the handler), under every kind of fault; nothing
\* is assumed of the broker for StartIsAnswered.
SPECIFICATION TaskFairSpec
CONSTANTS
  HasConsumer = TRUE
  MaxMsgs = 3
  Faults = {"connection", "channel", "queue", "call"}
  MaxFaults = 3
INVARIANTS
  DeliveredInOrder
  ConsumerKept
PROPERTIES
  StartIsAnswered
CHECK_DEADLOCK FALSE
