SPECIFICATION Spec
CONSTANTS
    g1 = g1
    g2 = g2
    s1 = s1
    s2 = s2
    Guilds = {g1, g2}
    Systems = {s1, s2}
    Members = {a, b}
    Fronts = {{}, {a}, {b}}
    ChannelIds = 3
    TickLimit = 1
    None = None
    Slots = {1}
    Commands = {"fronters setup"}
    MaxFollows = 2
    FirstSettings <- MCSettings
    FirstFollows <- MCNoFollows
    MaxCommands = 1
    MaxChanges = 1
    MaxFailures = 0
    MaxEvents = 3
INVARIANTS
    SetupDoesNotRace
