SPECIFICATION Spec
CONSTANTS
    g1 = g1
    u1 = u1
    Guilds = {g1, g2}
    Users = {u1}
    Channels = {c1}
    Roles = {r1}
    Emojis = {e1}
    Home <- MCHome
    Creator <- MCCreator
    Looks = {v1, v2}
    None = None
    Handlers = {h1}
    MaxEvents = 3
    MaxFailures = 1
CHECK_DEADLOCK FALSE
SYMMETRY Symmetry
INVARIANTS
    TypeOK
    MembersHaveUsers
    CacheIsCurrent
    LeftGuildIsGone
    CreateRepairs
