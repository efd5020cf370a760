\* The handlers of a GuildDelete and of the GuildCreate after it run side by side.
SPECIFICATION Spec
CONSTANTS
  Guilds = {g1}
  Emojis = {e1}
  Primary = FALSE
  MaxEvents = 2
  MaxFailures = 0
INVARIANTS SeenAgainIsKept
CHECK_DEADLOCK FALSE
