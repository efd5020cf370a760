SPECIFICATION FairSpec
CONSTANTS
    g1 = g1
    g2 = g2
    s1 = s1
    s2 = s2
    Guilds = {g1, g2}
    Systems = {s1, s2}
    Members = {a, b}
    Fronts = {{}, {a}}
    ChannelIds = 2
    TickLimit = 1
    None = None
    Slots = {1}
    Commands = {"setup", "fronters setup", "fronters update", "notify setup", "notify add", "notify remove"}
    MaxFollows = 2
    FirstSettings <- MCSettings
    FirstFollows <- MCFollows
    MaxCommands = 1
    MaxChanges = 2
    MaxFailures = 1
    MaxEvents = 3
INVARIANTS
    TypeOK
PROPERTIES
    SwitchIsAnnounced
    FollowsAreKept
    NobodyStarves
    CategoryFollowsFront
