------------------------------ MODULE PluralKit ------------------------------
(***************************************************************************)
(* The PluralKit module at work: the front service, the commands of the    *)
(* users beside it, the tasks that remove rows, and what happens at        *)
(* PluralKit and Discord meanwhile.                                        *)
(***************************************************************************)
EXTENDS PkCommands

CONSTANTS
    FirstSettings,  \* guilds set up at the start, with the system of each
    FirstFollows,   \* systems followed at the start
    MaxCommands,    \* bound: commands given
    MaxChanges,     \* bound: changes of the world, see World
    MaxFailures,    \* bound: errors, and ends of the process
    MaxEvents       \* bound: these three together

ASSUME BoundsAssumption ==
    /\ FirstSettings \in [Guilds -> Systems \union {None}] /\ FirstFollows \subseteq Guilds \X Systems
    /\ {MaxCommands, MaxChanges, MaxFailures, MaxEvents} \subseteq Nat

VARIABLES
    commands, changes, failures,   \* how many there were
    owed,       \* history: guilds still to be told of the switch just saved
    heard,      \* history: guilds told by the notification under way
    disturbed   \* history: systems whose categories others changed, or an error hit

counters == <<commands, changes, failures>>
history == <<owed, heard, disturbed>>
vars == <<tableVars, discordVars, pkVars, serviceVars, cmd, counters, history>>

\* Set up with a category and, where a system is followed, a notify channel;
\* nobody fronts, and the tables say so since more than a minute.
Init ==
    LET SetUp == {g \in Guilds : FirstSettings[g] # None}
        Following == {f[1] : f \in FirstFollows}
        known == {FirstSettings[g] : g \in SetUp} \union {f[2] : f \in FirstFollows}
    IN  /\ guilds = [g \in Guilds |-> IF g \in SetUp \union Following THEN "present" ELSE "absent"]
        /\ systems = known
        /\ settings = FirstSettings
        /\ categories = [g \in Guilds |-> IF g \in SetUp THEN <<g, 1>> ELSE None]
        /\ notify_channels = [g \in Guilds |-> IF g \in Following THEN <<g, 2>> ELSE None]
        /\ follows = FirstFollows
        /\ saved = [s \in Systems |-> IF s \in known THEN {} ELSE None]
        /\ stale \in SetToSeqs(known) /\ fresh = <<>>
        /\ kind = [c \in Channels |->
                      CASE c[2] = 1 /\ c[1] \in SetUp -> "category"
                        [] c[2] = 2 /\ c[1] \in Following -> "text"
                        [] c[2] = 1 /\ c[1] \in Following \ SetUp -> "deleted"
                        [] OTHER -> "unused"]
        /\ shown = [c \in Channels |-> [m \in Members |-> 0]]
        /\ pk_front = [s \in Systems |-> {}] /\ pk_status = [s \in Systems |-> "public"]
        /\ ServiceInit
        /\ cmd = [i \in Slots |-> Done]
        /\ commands = 0 /\ changes = 0 /\ failures = 0
        /\ owed = {} /\ heard = {} /\ disturbed = {}

-----------------------------------------------------------------------------
(* The world, and the tasks that remove rows.                              *)

Switches(s, front) ==
    /\ front # pk_front[s]
    /\ pk_front' = [pk_front EXCEPT ![s] = front]
    /\ UNCHANGED <<pk_status, tableVars, discordVars>>

ChangesPrivacy(s, status) ==
    /\ pk_status[s] \notin {"gone", status}
    /\ pk_status' = [pk_status EXCEPT ![s] = status]
    /\ UNCHANGED <<pk_front, tableVars, discordVars>>

DeletesChannel(c) ==
    /\ kind[c] \in {"text", "category"}
    /\ RemoveChannel(c)
    /\ UNCHANGED <<pkVars, tableVars>>

\* The event handlers of the core module; the bot is gone as they run.
LeavesGuild(g) ==
    /\ guilds[g] = "present"
    /\ guilds' = [guilds EXCEPT ![g] = "left"]
    /\ UNCHANGED <<systems, settings, categories, notify_channels, follows, saved, stale, fresh>>
    /\ UNCHANGED <<pkVars, discordVars>>

RejoinsGuild(g) ==
    /\ guilds[g] = "left"
    /\ Touch(g)
    /\ UNCHANGED <<pkVars, discordVars>>

CleansUpGuild(g) ==
    /\ guilds[g] = "left"
    /\ DeleteGuild(g)
    /\ UNCHANGED <<pkVars, discordVars>>

CleansUpSystems ==
    /\ CleanupSystems
    /\ UNCHANGED <<pkVars, discordVars>>

World ==
    \/ \E s \in Systems : (\E front \in Fronts : Switches(s, front))
                          \/ (\E status \in Statuses : ChangesPrivacy(s, status))
    \/ \E c \in Channels : DeletesChannel(c)
    \/ \E g \in Guilds : LeavesGuild(g) \/ RejoinsGuild(g) \/ CleansUpGuild(g)
    \/ CleansUpSystems

\* The oldest of the fresh timestamps is a minute old now.
MinutePasses ==
    /\ fresh # <<>>
    /\ stale' = Append(stale, Head(fresh)) /\ fresh' = Tail(fresh)
    /\ UNCHANGED <<guilds, systems, settings, categories, notify_channels, follows, saved>>
    /\ UNCHANGED <<pkVars, discordVars, serviceVars, cmd>>

-----------------------------------------------------------------------------
(* Who does what, with the bounds and the history.                         *)

WithinBounds == commands + changes + failures < MaxEvents

Reachable(g) == guilds[g] # "left" /\ notify_channels[g] # None

\* The service gets a message to the guild, or finds that it has no channel
\* any more.
Reached ==
    IF \/ pc = "sending" /\ kind[at] = "text" /\ guilds[at[1]] # "left"
       \/ pc = "forgettingSystems"
    THEN {at[1]} ELSE {}

StillOwed(list) == {g \in list : Reachable(g)' /\ <<g, System>> \in follows'}

ServiceWorks ==
    /\ ServiceStep
    /\ owed' = StillOwed(IF pc = "saving" /\ System \in systems
                         THEN NotifyGuildsForSystem(System)
                         ELSE owed \ Reached)
    /\ heard' = IF todo' # todo THEN {} ELSE heard \union Reached
    /\ UNCHANGED <<cmd, counters, disturbed>>

ServiceHitsError ==
    /\ WithinBounds /\ failures < MaxFailures /\ failures' = failures + 1
    /\ \/ (CategoryFails \/ NotifyFails) /\ owed' = owed \ (work \ work')
       \/ (SystemFails \/ ServiceRestarts) /\ owed' = {}
    /\ disturbed' = disturbed \union {System}
    /\ heard' = IF todo' # todo THEN {} ELSE heard
    /\ UNCHANGED <<cmd, commands, changes>>

CommandStarts(i) ==
    /\ WithinBounds /\ commands < MaxCommands /\ commands' = commands + 1
    /\ StartCommand(i)
    /\ disturbed' = IF cmd'[i].name \in {"setup", "fronters setup", "fronters update"}
                    THEN disturbed \union {cmd'[i].system}
                    ELSE disturbed
    /\ UNCHANGED <<serviceVars, pkVars, changes, failures, owed, heard>>

CommandWorks(i) ==
    /\ CommandStep(i)
    /\ owed' = StillOwed(owed)
    /\ UNCHANGED <<serviceVars, pkVars, counters, heard, disturbed>>

CommandHitsError(i) ==
    /\ WithinBounds /\ failures < MaxFailures /\ failures' = failures + 1
    /\ CommandFails(i)
    /\ UNCHANGED <<serviceVars, pkVars, commands, changes, history>>

WorldChanges ==
    /\ WithinBounds /\ changes < MaxChanges /\ changes' = changes + 1
    /\ World
    /\ owed' = StillOwed(owed)
    /\ disturbed' = disturbed \union ({settings[g] : g \in {h \in Guilds : guilds'[h] # guilds[h]}} \ {None})
    /\ UNCHANGED <<serviceVars, cmd, commands, failures, heard>>

TimePasses == MinutePasses /\ UNCHANGED <<counters, history>>

Next ==
    \/ ServiceWorks \/ ServiceHitsError
    \/ \E i \in Slots : CommandStarts(i) \/ CommandWorks(i) \/ CommandHitsError(i)
    \/ WorldChanges
    \/ TimePasses

Spec == Init /\ [][Next]_vars

\* The tick comes every five seconds and every call returns; time passes.
FairSpec == Spec /\ WF_vars(ServiceWorks) /\ WF_vars(TimePasses)

-----------------------------------------------------------------------------
(* Properties.                                                             *)

\* The tables keep their foreign keys, and the service its local state.
TypeOK ==
    /\ TablesTypeOK /\ ServiceTypeOK /\ CommandsTypeOK
    /\ counters \in (0..MaxCommands) \X (0..MaxChanges) \X (0..MaxFailures)
    /\ owed \subseteq Guilds /\ heard \subseteq Guilds /\ disturbed \subseteq Systems

\* A system somebody tracks is looked at in the end, whatever the others in
\* the list of five do: a private or deleted one does not keep its place, and
\* the one that waited longest comes first (get_systems_to_update).
NobodyStarves ==
    \A s \in Systems : Tracked(s) ~> (~Tracked(s) \/ s \in ToSet(fresh))

\* When the service leaves a system whose switch it saved, it has told every
\* guild that followed it then and follows it still and can be told: an error
\* in a category or in the channel of another guild is no reason not to.
SwitchIsAnnounced == [][todo' # todo => owed' = {}]_vars

\* A guild stops following a system only by its own command, with its row, when
\* it was told why, or when it has no channel to be told in.
FollowsAreKept ==
    [][\A f \in follows \ follows' :
          \/ guilds'[f[1]] = "absent"
          \/ \E i \in Slots : /\ At(i, "saving") /\ cmd[i].name = "notify remove"
                              /\ cmd[i].guild = f[1] /\ cmd[i].system = f[2]
          \/ pc = "unfollowing" /\ f[2] = System /\ f[1] \in heard
          \/ pc = "forgettingSystems" /\ f[1] = at[1] /\ kind[at] = "deleted"]_vars

ShowsFrontOf(s) ==
    \A g \in Guilds :
        settings[g] = s /\ categories[g] # None /\ kind[categories[g]] = "category"
            => Shows(categories[g], pk_front[s])

\* Through switches that overtake its own work, the service brings every
\* category to the front of PluralKit, when no command, no departure and no error
\* disturbed the system (update_fronter_categories is not retried).
CategoryFollowsFront ==
    \A s \in Systems :
        <>[](s \in disturbed \/ pk_status[s] # "public" \/ ShowsFrontOf(s))

\* /pk fronters setup saves the category last "so we don't have a race condition
\* with the auto updating job" (fronters/setup.rs): between ticks, with no command
\* under way, a category shows the front PluralKit has, or the service still finds
\* that it changed.
SetupDoesNotRace ==
    pc = "idle" /\ (\A i \in Slots : cmd[i] = Done) =>
        \A s \in Systems : saved[s] = pk_front[s] => ShowsFrontOf(s)
=============================================================================
