SPECIFICATION Spec
CONSTANTS
    g1 = g1
    u1 = u1
    Guilds = {g1, g2}
    Users = {u1}
    Channels = {}
    Roles = {}
    Emojis = {}
    Home <- MCHome
    Creator <- MCCreator
    Looks = {v1}
    None = None
    Handlers = {h1, h2}
    MaxEvents = 5
    MaxFailures = 0
CHECK_DEADLOCK FALSE
INVARIANTS
    TrackedUsersAreKept
