----------------------------- MODULE PkCommands -----------------------------
(***************************************************************************)
(* The commands of the PluralKit module that change what the front service *)
(* works on: /pk setup, /pk fronters setup, /pk fronters update, /pk       *)
(* notify setup, /pk notify add and /pk notify remove.  Each runs in a     *)
(* task of its own; a step of it is one change of a table or of Discord.   *)
(* What a command reads before its first change, its questions to          *)
(* PluralKit and its dialogs with the user are one step, which the         *)
(* commands that go on to show a front split at the answer of PluralKit.   *)
(***************************************************************************)
EXTENDS FrontService

CONSTANTS
    Slots,         \* commands that run at the same time
    Commands,      \* the commands that are given
    MaxFollows     \* MAX_FOLLOW_COUNT

VARIABLE cmd       \* the command in each slot

AllCommands == {"setup", "fronters setup", "fronters update",
                "notify setup", "notify add", "notify remove"}

ASSUME CommandsAssumption ==
    /\ MaxFollows \in Nat \ {0}
    /\ Commands \subseteq AllCommands /\ None \notin AllCommands

CommandSteps == {"done", "asking", "stamping", "creating", "listing", "changing",
                 "touching", "updating", "saving"}

Done == [step |-> "done", name |-> None, guild |-> None, system |-> None, channel |-> None,
         front |-> {}, delete |-> {}, create |-> {}]

Issue(i, name, g, s, c, step) ==
    /\ cmd[i] = Done /\ name \in Commands
    /\ guilds[g] # "left"
    /\ cmd' = [cmd EXCEPT ![i] = [Done EXCEPT !.name = name, !.guild = g, !.system = s,
                                              !.channel = c, !.step = step]]

At(i, step) == cmd[i].step = step
Go(i, step) == cmd' = [cmd EXCEPT ![i].step = step]
Respond(i) == cmd' = [cmd EXCEPT ![i] = Done]

-----------------------------------------------------------------------------
(* From the interaction to the first change.  A command that finds that it *)
(* cannot go on only answers the user.                                     *)

StartSetup(i, g, s) ==
    /\ Issue(i, "setup", g, s, None, "touching")
    /\ pk_status[s] # "gone"
    /\ UNCHANGED <<tableVars, discordVars>>

StartFrontersSetup(i, g) ==
    /\ Issue(i, "fronters setup", g, settings[g], None, "asking")
    /\ settings[g] # None
    /\ UNCHANGED <<tableVars, discordVars>>

StartFrontersUpdate(i, g) ==
    /\ Issue(i, "fronters update", g, settings[g], categories[g], "asking")
    /\ settings[g] # None /\ categories[g] # None /\ kind[categories[g]] = "category"
    /\ UNCHANGED <<tableVars, discordVars>>

HasNewChannel(g) == \E c \in ChannelsOf(g) : kind[c] = "unused"

\* An existing channel, or one created for it.
StartNotifySetup(i, g, c) ==
    /\ Issue(i, "notify setup", g, None, c, "touching")
    /\ \/ c[1] = g /\ kind[c] = "text" /\ UNCHANGED discordVars
       \/ HasNewChannel(g) /\ c = NewChannel(g) /\ CreateChannel(c, "text")
    /\ UNCHANGED tableVars

StartNotifyAdd(i, g, s) ==
    /\ Issue(i, "notify add", g, s, None, "updating")
    /\ notify_channels[g] # None
    /\ <<g, s>> \notin follows /\ FollowCount(g) < MaxFollows
    /\ pk_status[s] = "public"
    /\ UNCHANGED <<tableVars, discordVars>>

\* PluralKit knows the system, or the database does.
StartNotifyRemove(i, g, s) ==
    /\ Issue(i, "notify remove", g, s, None, "updating")
    /\ notify_channels[g] # None
    /\ pk_status[s] # "gone" \/ s \in systems
    /\ UNCHANGED <<tableVars, discordVars>>

-----------------------------------------------------------------------------
(* The two commands that show a front.                                     *)

AsksFront(i) ==
    LET s == cmd[i].system IN
    /\ At(i, "asking")
    /\ \/ /\ pk_status[s] = "public"
          /\ cmd' = [cmd EXCEPT ![i].front = pk_front[s],
                                ![i].step = IF cmd[i].name = "fronters setup" THEN "creating" ELSE "listing"]
       \/ pk_status[s] = "private" /\ Go(i, "stamping")
       \/ pk_status[s] = "gone" /\ Respond(i)
    /\ UNCHANGED <<tableVars, discordVars>>

\* Its error is logged and forgotten.
StampsFront(i) ==
    /\ At(i, "stamping")
    /\ UpdateFrontersTimestamp(cmd[i].system)
    /\ Respond(i)
    /\ UNCHANGED discordVars

CreatesCategory(i) ==
    LET g == cmd[i].guild IN
    /\ At(i, "creating") /\ HasNewChannel(g) /\ guilds[g] # "left"
    /\ CreateChannel(NewChannel(g), "category")
    /\ cmd' = [cmd EXCEPT ![i].channel = NewChannel(g), ![i].step = "listing"]
    /\ UNCHANGED tableVars

ListsChannels(i) ==
    /\ At(i, "listing") /\ guilds[cmd[i].guild] # "left"
    /\ cmd' = [cmd EXCEPT ![i].delete = DeleteFronters(cmd[i].channel, cmd[i].front),
                          ![i].create = CreateFronters(cmd[i].channel, cmd[i].front),
                          ![i].step = "changing"]
    /\ UNCHANGED <<tableVars, discordVars>>

ChangesChannels(i) ==
    /\ At(i, "changing")
    /\ \/ \E m \in cmd[i].delete :
             /\ DeleteFronter(cmd[i].channel, m)
             /\ cmd' = [cmd EXCEPT ![i].delete = @ \ {m}]
       \/ /\ cmd[i].delete = {}
          /\ \E m \in cmd[i].create :
                /\ CreateFronter(cmd[i].channel, m)
                /\ cmd' = [cmd EXCEPT ![i].create = @ \ {m}]
    /\ UNCHANGED tableVars

ChannelsChanged(i) ==
    /\ At(i, "changing") /\ cmd[i].delete = {} /\ cmd[i].create = {}
    /\ Go(i, "saving")
    /\ UNCHANGED <<tableVars, discordVars>>

-----------------------------------------------------------------------------
(* What the others have in common: touch the guild, update the system, and *)
(* the one statement the command is about.                                 *)

TouchesGuild(i) ==
    /\ At(i, "touching")
    /\ Touch(cmd[i].guild)
    /\ Go(i, IF cmd[i].name = "setup" THEN "updating" ELSE "saving")
    /\ UNCHANGED discordVars

UpdatesSystem(i) ==
    /\ At(i, "updating")
    /\ UpdateSystem(cmd[i].system)
    /\ Go(i, "saving")
    /\ UNCHANGED discordVars

Statement(c) ==
    \/ c.name = "setup" /\ SaveGuildSettings(c.guild, c.system)
    \/ c.name = "fronters setup" /\ SaveFronterCategory(c.guild, c.channel)
    \/ c.name = "fronters update" /\ UpdateFronters(c.system, c.front)
    \/ c.name = "notify setup" /\ SaveNotifyChannel(c.guild, c.channel)
    \/ c.name = "notify add" /\ AddNotifySystem(c.guild, c.system)
    \/ c.name = "notify remove" /\ SetFollows(follows \ {<<c.guild, c.system>>})

Saves(i) ==
    /\ At(i, "saving")
    /\ Statement(cmd[i])
    /\ Respond(i)
    /\ UNCHANGED discordVars

-----------------------------------------------------------------------------
\* A foreign key or Discord says no: the user is told of an error.
CommandRefused(i) ==
    /\ \/ At(i, "saving") /\ cmd[i].name \in {"setup", "fronters setup", "notify setup", "notify add"}
                          /\ guilds[cmd[i].guild] = "absent"
       \/ At(i, "saving") /\ cmd[i].name \in {"setup", "fronters update", "notify add"}
                          /\ cmd[i].system \notin systems
       \/ At(i, "stamping") /\ cmd[i].system \notin systems
       \/ cmd[i].step \in {"creating", "listing"} /\ guilds[cmd[i].guild] = "left"
       \/ At(i, "changing") /\ ChannelsRefused(cmd[i].channel, cmd[i].delete, cmd[i].create)
    /\ Respond(i)
    /\ UNCHANGED <<tableVars, discordVars>>

\* Any answer can be an error, and the process can end.
CommandFails(i) ==
    /\ cmd[i] # Done
    /\ Respond(i)
    /\ UNCHANGED <<tableVars, discordVars>>

StartCommand(i) ==
    \E g \in Guilds :
        \/ StartFrontersSetup(i, g) \/ StartFrontersUpdate(i, g)
        \/ \E c \in Channels : StartNotifySetup(i, g, c)
        \/ \E s \in Systems : StartSetup(i, g, s) \/ StartNotifyAdd(i, g, s) \/ StartNotifyRemove(i, g, s)

CommandStep(i) ==
    \/ AsksFront(i) \/ StampsFront(i) \/ CreatesCategory(i) \/ ListsChannels(i)
    \/ ChangesChannels(i) \/ ChannelsChanged(i)
    \/ TouchesGuild(i) \/ UpdatesSystem(i) \/ Saves(i) \/ CommandRefused(i)

CommandsTypeOK ==
    cmd \in [Slots -> [step: CommandSteps, name: AllCommands \union {None},
                       guild: Guilds \union {None}, system: Systems \union {None},
                       channel: Channels \union {None}, front: Fronts,
                       delete: SUBSET Members, create: SUBSET Members]]
=============================================================================
