\* The gateway process from start to exit, with a reporter channel that fills up,
\* connections that are lost, an outage of the guild and writes that fail.
SPECIFICATION FairSpec
CONSTANTS
  Guilds = {g1}
  Capacity = 2
  MaxEvents = 1
  MaxLosses = 1
INVARIANTS
  TypeOK
  RecordIsCurrent
  UpRecordIsUsable
  NotedIsForwarded
  ReporterOutlivesManager
  GuildsAreKnown
PROPERTIES
  ShutdownCompletes
CHECK_DEADLOCK FALSE
