\* The primary handler from start to exit, with handlers that run side by side or
\* hang, the cleanup and calls that fail.
SPECIFICATION FairSpec
CONSTANTS
  Guilds = {g1}
  Emojis = {e1}
  Primary = TRUE
  MaxEvents = 2
  MaxFailures = 1
INVARIANTS
  TypeOK
  CacheBeforeHandlers
  ReceivedIsSent
  RowFollowsEvents
  UsesFollowUpdates
PROPERTIES
  ShutdownCompletes
CHECK_DEADLOCK FALSE
