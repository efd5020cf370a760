--------------------------- MODULE PluralKitProofs ---------------------------
(***************************************************************************)
(* What the front service does to the guilds that follow a system: it      *)
(* takes a follow away for a reason only, and never leaves a saved switch  *)
(* before every guild that can be told was told.  And what the tables keep *)
(* through all that changes them: their foreign keys, and one place in the *)
(* order of updated_at for each saved front.  For any number of guilds,    *)
(* systems, commands at a time and errors.                                 *)
(***************************************************************************)
EXTENDS PluralKit, TLAPS, FiniteSetTheorems

\* Where the service has a notify channel in hand, and has found it deleted.
InHand == {"sending", "forgettingChannel", "forgettingSystems"}
Forgetting == {"forgettingChannel", "forgettingSystems"}

CommandFields == {"step", "name", "guild", "system", "channel", "front", "delete", "create"}

\* What the tables and the commands may have for a notify channel.
ChannelsKnown ==
    /\ DOMAIN kind = Channels /\ DOMAIN guilds = Guilds
    /\ notify_channels \in [Guilds -> Channels \union {None}]
    /\ DOMAIN cmd = Slots
    /\ \A i \in Slots :
          /\ DOMAIN cmd[i] = CommandFields
          /\ cmd[i].name = "notify setup" =>
                cmd[i].channel \in Channels /\ cmd[i].step \in {"touching", "updating", "saving"}

\* A channel is forgotten when it is deleted, and told are only those who heard.
ForgetsDeleted ==
    /\ pc \in InHand => at \in Channels
    /\ pc \in Forgetting => kind[at] = "deleted"
    /\ told \subseteq heard
    /\ pc = "idle" => told = {}

FollowsInv == ChannelsKnown /\ ForgetsDeleted

-----------------------------------------------------------------------------
(* What a command is about does not change while it runs.                  *)

SameCommand(i) ==
    \/ cmd' = [cmd EXCEPT ![i] = Done]
    \/ \E c : /\ cmd' = [cmd EXCEPT ![i] = c]
              /\ DOMAIN c = CommandFields /\ c.name = cmd[i].name
              /\ c.name = "notify setup" =>
                    c.channel = cmd[i].channel /\ c.step \in {"touching", "updating", "saving"}

LEMMA CommandStays ==
    ASSUME ChannelsKnown, NEW i \in Slots, CommandStep(i)
    PROVE  SameCommand(i)
<1> DEFINE c == cmd[i]
<1>1. /\ DOMAIN c = CommandFields /\ i \in DOMAIN cmd
      /\ c.name = "notify setup" => c.channel \in Channels /\ c.step \in {"touching", "updating", "saving"}
  BY DEF ChannelsKnown
<1>2. ASSUME NEW step, Go(i, step), c.name = "notify setup" => step \in {"touching", "updating", "saving"}
      PROVE  SameCommand(i)
  <2>1. cmd' = [cmd EXCEPT ![i] = [c EXCEPT !.step = step]]
    BY <1>2 DEF Go
  <2>2. /\ DOMAIN [c EXCEPT !.step = step] = CommandFields
        /\ [c EXCEPT !.step = step].name = c.name /\ [c EXCEPT !.step = step].channel = c.channel
        /\ [c EXCEPT !.step = step].step = step
    BY <1>1 DEF CommandFields
  <2> QED BY <1>2, <2>1, <2>2 DEF SameCommand
<1>3. ASSUME Respond(i) PROVE SameCommand(i)
  BY <1>3 DEF Respond, SameCommand
<1>4. CASE AsksFront(i)
  <2>1. c.step = "asking"
    BY <1>4 DEF AsksFront, At
  <2>2. c.name # "notify setup"
    BY <1>1, <2>1
  <2>3. CASE \E front, step : cmd' = [cmd EXCEPT ![i].front = front, ![i].step = step]
    <3>1. PICK front, step : cmd' = [cmd EXCEPT ![i].front = front, ![i].step = step]
      BY <2>3
    <3>2. cmd' = [cmd EXCEPT ![i] = [c EXCEPT !.front = front, !.step = step]]
      BY <1>1, <3>1
    <3>3. /\ DOMAIN [c EXCEPT !.front = front, !.step = step] = CommandFields
          /\ [c EXCEPT !.front = front, !.step = step].name = c.name
      BY <1>1 DEF CommandFields
    <3> QED BY <2>2, <3>2, <3>3 DEF SameCommand
  <2> QED BY <1>2, <1>3, <1>4, <2>2, <2>3 DEF AsksFront
<1>5. CASE StampsFront(i) \/ Saves(i) \/ CommandRefused(i)
  BY <1>3, <1>5 DEF StampsFront, Saves, CommandRefused
<1>6. CASE CreatesCategory(i)
  <2>1. c.name # "notify setup"
    BY <1>1, <1>6 DEF CreatesCategory, At
  <2>2. PICK x : cmd' = [cmd EXCEPT ![i].channel = x, ![i].step = "listing"]
    BY <1>6 DEF CreatesCategory
  <2>3. cmd' = [cmd EXCEPT ![i] = [c EXCEPT !.channel = x, !.step = "listing"]]
    BY <1>1, <2>2
  <2>4. /\ DOMAIN [c EXCEPT !.channel = x, !.step = "listing"] = CommandFields
        /\ [c EXCEPT !.channel = x, !.step = "listing"].name = c.name
    BY <1>1 DEF CommandFields
  <2> QED BY <2>1, <2>3, <2>4 DEF SameCommand
<1>7. CASE ListsChannels(i)
  <2>1. c.name # "notify setup"
    BY <1>1, <1>7 DEF ListsChannels, At
  <2>2. PICK x, y : cmd' = [cmd EXCEPT ![i].delete = x, ![i].create = y, ![i].step = "changing"]
    BY <1>7 DEF ListsChannels
  <2>3. cmd' = [cmd EXCEPT ![i] = [c EXCEPT !.delete = x, !.create = y, !.step = "changing"]]
    BY <1>1, <2>2
  <2>4. /\ DOMAIN [c EXCEPT !.delete = x, !.create = y, !.step = "changing"] = CommandFields
        /\ [c EXCEPT !.delete = x, !.create = y, !.step = "changing"].name = c.name
    BY <1>1 DEF CommandFields
  <2> QED BY <2>1, <2>3, <2>4 DEF SameCommand
<1>8. CASE ChangesChannels(i)
  <2>1. c.name # "notify setup"
    BY <1>1, <1>8 DEF ChangesChannels, At
  <2>2. CASE \E x : cmd' = [cmd EXCEPT ![i].delete = x]
    <3>1. PICK x : cmd' = [cmd EXCEPT ![i] = [c EXCEPT !.delete = x]]
      BY <2>2
    <3>2. DOMAIN [c EXCEPT !.delete = x] = CommandFields /\ [c EXCEPT !.delete = x].name = c.name
      BY <1>1 DEF CommandFields
    <3> QED BY <2>1, <3>1, <3>2 DEF SameCommand
  <2>3. CASE \E x : cmd' = [cmd EXCEPT ![i].create = x]
    <3>1. PICK x : cmd' = [cmd EXCEPT ![i] = [c EXCEPT !.create = x]]
      BY <2>3
    <3>2. DOMAIN [c EXCEPT !.create = x] = CommandFields /\ [c EXCEPT !.create = x].name = c.name
      BY <1>1 DEF CommandFields
    <3> QED BY <2>1, <3>1, <3>2 DEF SameCommand
  <2> QED BY <1>8, <2>2, <2>3 DEF ChangesChannels
<1>9. CASE ChannelsChanged(i) \/ TouchesGuild(i) \/ UpdatesSystem(i)
  <2>1. \E step \in {"updating", "saving"} : Go(i, step)
    BY <1>9 DEF ChannelsChanged, TouchesGuild, UpdatesSystem
  <2> QED BY <1>2, <2>1
<1> QED BY <1>4, <1>5, <1>6, <1>7, <1>8, <1>9 DEF CommandStep

LEMMA CommandStarted ==
    ASSUME ChannelsKnown, NEW i \in Slots, StartCommand(i)
    PROVE  /\ \E c : /\ cmd' = [cmd EXCEPT ![i] = c] /\ DOMAIN c = CommandFields
                     /\ c.name = "notify setup" => c.channel \in Channels /\ c.step \in {"touching", "updating", "saving"}
           /\ UNCHANGED tableVars
           /\ kind' = kind \/ \E c \in Channels : CreateChannel(c, "text")
<1>1. ASSUME NEW name, NEW g, NEW s, NEW c, NEW step, Issue(i, name, g, s, c, step),
             name = "notify setup" => c \in Channels /\ step = "touching"
      PROVE  \E d : /\ cmd' = [cmd EXCEPT ![i] = d] /\ DOMAIN d = CommandFields
                    /\ d.name = "notify setup" => d.channel \in Channels /\ d.step \in {"touching", "updating", "saving"}
  <2> DEFINE d == [Done EXCEPT !.name = name, !.guild = g, !.system = s, !.channel = c, !.step = step]
  <2>1. cmd' = [cmd EXCEPT ![i] = d]
    BY <1>1 DEF Issue
  <2>2. DOMAIN d = CommandFields /\ d.name = name /\ d.channel = c /\ d.step = step
    BY DEF Done, CommandFields
  <2> HIDE DEF d
  <2> QED BY <1>1, <2>1, <2>2
<1>2. PICK g \in Guilds :
        \/ StartFrontersSetup(i, g) \/ StartFrontersUpdate(i, g)
        \/ \E c \in Channels : StartNotifySetup(i, g, c)
        \/ \E s \in Systems : StartSetup(i, g, s) \/ StartNotifyAdd(i, g, s) \/ StartNotifyRemove(i, g, s)
  BY DEF StartCommand
<1>3. CASE StartFrontersSetup(i, g) \/ StartFrontersUpdate(i, g)
  BY <1>1, <1>3 DEF StartFrontersSetup, StartFrontersUpdate, discordVars
<1>4. ASSUME NEW c \in Channels, StartNotifySetup(i, g, c) PROVE
           /\ Issue(i, "notify setup", g, None, c, "touching") /\ UNCHANGED tableVars
           /\ kind' = kind \/ CreateChannel(c, "text")
  BY <1>4 DEF StartNotifySetup, discordVars
<1>5. ASSUME NEW s \in Systems, StartSetup(i, g, s) \/ StartNotifyAdd(i, g, s) \/ StartNotifyRemove(i, g, s)
      PROVE  /\ \E name, d, step : name # "notify setup" /\ Issue(i, name, g, d, None, step)
             /\ UNCHANGED <<tableVars, kind>>
  BY <1>5 DEF StartSetup, StartNotifyAdd, StartNotifyRemove, discordVars
<1>6. CASE \E c \in Channels : StartNotifySetup(i, g, c)
  BY <1>1, <1>4, <1>6
<1>7. CASE \E s \in Systems : StartSetup(i, g, s) \/ StartNotifyAdd(i, g, s) \/ StartNotifyRemove(i, g, s)
  BY <1>1, <1>5, <1>7
<1> QED BY <1>2, <1>3, <1>6, <1>7

\* No step but the end of a channel takes a deleted one back.
KindSteps ==
    \/ kind' = kind
    \/ \E c, what : kind[c] = "unused" /\ kind' = [kind EXCEPT ![c] = what]
    \/ \E c : kind' = [kind EXCEPT ![c] = "deleted"]

LEMMA DiscordSteps ==
    ASSUME [Next]_vars, ChannelsKnown
    PROVE  KindSteps
<1>1. CASE ServiceWorks
  <2>1. ServiceStep
    BY <1>1 DEF ServiceWorks
  <2>2. kind' = kind
    BY <2>1 DEF ServiceStep, Tick, AskPluralKit, DidFrontersChange, SaveFront, StampOnly, SystemRefused,
        ListCategories, ReadCategory, ForgetCategory, ChangeCategory, DeleteFronter, CreateFronter,
        CategoryUpdated, CategoryRefused, AbandonCategory, ListFollowers, FindNotifyChannel,
        SendNotification, UnknownChannel, ForgetChannel, ForgetSystems, NotifyRefused, AbandonGuild,
        Unfollow, discordVars
  <2> QED BY <2>2 DEF KindSteps
<1>2. CASE ServiceHitsError
  <2>1. kind' = kind
    BY <1>2 DEF ServiceHitsError, CategoryFails, AbandonCategory, NotifyFails, AbandonGuild,
                SystemFails, ServiceRestarts, discordVars
  <2> QED BY <2>1 DEF KindSteps
<1>3. ASSUME NEW i \in Slots, CommandStarts(i) PROVE KindSteps
  BY <1>3, CommandStarted DEF CommandStarts, CreateChannel, KindSteps
<1>4. ASSUME NEW i \in Slots, CommandWorks(i) PROVE KindSteps
  <2>1. CommandStep(i)
    BY <1>4 DEF CommandWorks
  <2>2. CASE CreatesCategory(i)
    BY <2>2 DEF CreatesCategory, CreateChannel, KindSteps
  <2>3. CASE ~CreatesCategory(i)
    <3>1. kind' = kind
      BY <2>1, <2>3 DEF CommandStep, AsksFront, StampsFront, ListsChannels, ChangesChannels,
          DeleteFronter, CreateFronter, ChannelsChanged, TouchesGuild, UpdatesSystem, Saves,
          CommandRefused, discordVars
    <3> QED BY <3>1 DEF KindSteps
  <2> QED BY <2>2, <2>3
<1>5. ASSUME NEW i \in Slots, CommandHitsError(i) PROVE KindSteps
  BY <1>5 DEF CommandHitsError, CommandFails, discordVars, KindSteps
<1>6. CASE WorldChanges
  <2>1. World
    BY <1>6 DEF WorldChanges
  <2>2. ASSUME NEW c \in Channels, DeletesChannel(c) PROVE KindSteps
    BY <2>2 DEF DeletesChannel, RemoveChannel, KindSteps
  <2>3. CASE ~\E c \in Channels : DeletesChannel(c)
    <3>1. kind' = kind
      BY <2>1, <2>3 DEF World, Switches, ChangesPrivacy, LeavesGuild, RejoinsGuild, CleansUpGuild,
          CleansUpSystems, discordVars
    <3> QED BY <3>1 DEF KindSteps
  <2> QED BY <2>2, <2>3
<1>7. CASE TimePasses \/ UNCHANGED vars
  BY <1>7 DEF TimePasses, MinutePasses, vars, discordVars, KindSteps
<1> QED BY <1>1, <1>2, <1>3, <1>4, <1>5, <1>6, <1>7 DEF Next

\* The rows of notify channels are saved by commands, and removed.
NotifyRowSteps ==
    \/ notify_channels' = notify_channels
    \/ \E g : notify_channels' = [notify_channels EXCEPT ![g] = None]
    \/ \E c : notify_channels' = [g \in Guilds |-> IF notify_channels[g] = c THEN None ELSE notify_channels[g]]
    \/ \E i \in Slots : cmd[i].name = "notify setup" /\ SaveNotifyChannel(cmd[i].guild, cmd[i].channel)

GuildRowSteps == guilds' = guilds \/ \E g, x : guilds' = [guilds EXCEPT ![g] = x]

LEMMA TableSteps ==
    ASSUME [Next]_vars, ChannelsKnown
    PROVE  NotifyRowSteps /\ GuildRowSteps
<1> USE DEF NotifyRowSteps, GuildRowSteps
<1>1. ASSUME UNCHANGED tableVars \/ UNCHANGED <<guilds, notify_channels>>
      PROVE  NotifyRowSteps /\ GuildRowSteps
  BY <1>1 DEF tableVars
<1>2. CASE ServiceWorks
  <2>1. ServiceStep
    BY <1>2 DEF ServiceWorks
  <2>2. CASE ForgetChannel
    BY <2>2 DEF ForgetChannel, DeleteNotifyChannel
  <2>3. CASE ~ForgetChannel
    <3>1. UNCHANGED <<guilds, notify_channels>>
      BY <2>1, <2>3 DEF ServiceStep, Tick, AskPluralKit, DidFrontersChange, SaveFront, UpdateFronters,
          StampOnly, UpdateFrontersTimestamp, SystemRefused, ListCategories, ReadCategory, ForgetCategory,
          DeleteFronterCategory, ChangeCategory, CategoryUpdated, CategoryRefused, AbandonCategory,
          ListFollowers, FindNotifyChannel, SendNotification, UnknownChannel, ForgetSystems,
          DeleteNotifySystems, SetFollows, NotifyRefused, AbandonGuild, Unfollow,
          RemoveNotifySystemFromGuilds, tableVars
    <3> QED BY <1>1, <3>1
  <2> QED BY <2>2, <2>3
<1>3. CASE ServiceHitsError
  <2>1. UNCHANGED tableVars
    BY <1>3 DEF ServiceHitsError, CategoryFails, AbandonCategory, NotifyFails, AbandonGuild,
                SystemFails, ServiceRestarts
  <2> QED BY <1>1, <2>1
<1>4. ASSUME NEW i \in Slots, CommandStarts(i) PROVE NotifyRowSteps /\ GuildRowSteps
  BY <1>1, <1>4, CommandStarted DEF CommandStarts
<1>5. ASSUME NEW i \in Slots, CommandWorks(i) PROVE NotifyRowSteps /\ GuildRowSteps
  <2>1. CommandStep(i)
    BY <1>5 DEF CommandWorks
  <2>2. CASE TouchesGuild(i)
    BY <2>2 DEF TouchesGuild, Touch
  <2>3. CASE Saves(i)
    <3>1. Statement(cmd[i])
      BY <2>3 DEF Saves
    <3>2. CASE cmd[i].name = "notify setup" /\ SaveNotifyChannel(cmd[i].guild, cmd[i].channel)
      BY <3>2 DEF SaveNotifyChannel
    <3>3. CASE ~(cmd[i].name = "notify setup" /\ SaveNotifyChannel(cmd[i].guild, cmd[i].channel))
      <4>1. UNCHANGED <<guilds, notify_channels>>
        BY <3>1, <3>3 DEF Statement, SaveGuildSettings, SaveFronterCategory, UpdateFronters,
            AddNotifySystem, SetFollows
      <4> QED BY <1>1, <4>1
    <3> QED BY <3>2, <3>3
  <2>4. CASE ~(TouchesGuild(i) \/ Saves(i))
    <3>1. UNCHANGED <<guilds, notify_channels>>
      BY <2>1, <2>4 DEF CommandStep, AsksFront, StampsFront, UpdateFrontersTimestamp, UpdateFronters,
          CreatesCategory, ListsChannels, ChangesChannels, ChannelsChanged, UpdatesSystem, UpdateSystem,
          CommandRefused, tableVars
    <3> QED BY <1>1, <3>1
  <2> QED BY <2>2, <2>3, <2>4
<1>6. ASSUME NEW i \in Slots, CommandHitsError(i) PROVE NotifyRowSteps /\ GuildRowSteps
  BY <1>1, <1>6 DEF CommandHitsError, CommandFails
<1>7. CASE WorldChanges
  <2>1. World
    BY <1>7 DEF WorldChanges
  <2>2. ASSUME NEW g \in Guilds, CleansUpGuild(g) \/ LeavesGuild(g) \/ RejoinsGuild(g)
        PROVE  NotifyRowSteps /\ GuildRowSteps
    BY <2>2 DEF CleansUpGuild, DeleteGuild, LeavesGuild, RejoinsGuild, Touch
  <2>3. CASE ~\E g \in Guilds : CleansUpGuild(g) \/ LeavesGuild(g) \/ RejoinsGuild(g)
    <3>1. UNCHANGED <<guilds, notify_channels>>
      BY <2>1, <2>3 DEF World, Switches, ChangesPrivacy, DeletesChannel, CleansUpSystems, CleanupSystems, tableVars
    <3> QED BY <1>1, <3>1
  <2> QED BY <2>2, <2>3
<1>8. CASE TimePasses \/ UNCHANGED vars
  BY <1>1, <1>8 DEF TimePasses, MinutePasses, vars
<1> QED BY <1>2, <1>3, <1>4, <1>5, <1>6, <1>7, <1>8 DEF Next

LEMMA ChannelsStayKnown == ASSUME ChannelsKnown, [Next]_vars PROVE ChannelsKnown'
<1>1. DOMAIN kind' = Channels
  BY DiscordSteps DEF KindSteps, ChannelsKnown
<1>2. DOMAIN guilds' = Guilds
  BY TableSteps DEF GuildRowSteps, ChannelsKnown
<1>3. notify_channels' \in [Guilds -> Channels \union {None}]
  BY TableSteps DEF NotifyRowSteps, SaveNotifyChannel, ChannelsKnown
<1>4. ASSUME NEW i \in Slots, NEW c, cmd' = [cmd EXCEPT ![i] = c], DOMAIN c = CommandFields,
             c.name = "notify setup" => c.channel \in Channels /\ c.step \in {"touching", "updating", "saving"}
      PROVE  ChannelsKnown'
  BY <1>1, <1>2, <1>3, <1>4 DEF ChannelsKnown
<1>5. DOMAIN Done = CommandFields /\ (Done.name = "notify setup" => Done.channel \in Channels /\ Done.step \in {"touching", "updating", "saving"})
  BY CommandsAssumption DEF Done, CommandFields, CommandsAssumption, AllCommands
<1>6. CASE cmd' = cmd
  BY <1>1, <1>2, <1>3, <1>6 DEF ChannelsKnown
<1>7. ASSUME NEW i \in Slots, CommandStarts(i) PROVE ChannelsKnown'
  BY <1>4, <1>7, CommandStarted DEF CommandStarts
<1>8. ASSUME NEW i \in Slots, CommandWorks(i) PROVE ChannelsKnown'
  <2>1. SameCommand(i)
    BY <1>8, CommandStays DEF CommandWorks
  <2> QED BY <1>4, <1>5, <2>1 DEF SameCommand, ChannelsKnown
<1>9. ASSUME NEW i \in Slots, CommandHitsError(i) PROVE ChannelsKnown'
  BY <1>4, <1>5, <1>9 DEF CommandHitsError, CommandFails, Respond
<1> QED BY <1>6, <1>7, <1>8, <1>9 DEF Next, ServiceWorks, ServiceHitsError, WorldChanges, TimePasses,
                                       MinutePasses, vars

-----------------------------------------------------------------------------
(* Why a guild stops following a system.                                   *)

\* A deleted channel stays deleted.
LEMMA DeletedStays ==
    ASSUME ChannelsKnown, [Next]_vars, NEW c \in Channels, kind[c] = "deleted"
    PROVE  kind'[c] = "deleted"
BY DiscordSteps DEF KindSteps, ChannelsKnown

LEMMA NextFollowerEffect ==
    ASSUME NEW rest, NEW h, NextFollower(rest, h)
    PROVE  \/ rest = {} /\ change = "switch" /\ Finish
           \/ /\ pc' = IF rest = {} THEN "unfollowing" ELSE "telling"
              /\ work' = rest /\ told' = h /\ at' = None
              /\ UNCHANGED <<todo, switch, change>>
BY DEF NextFollower, NextOf

LEMMA ServiceForgetsDeleted == ASSUME FollowsInv, ServiceWorks PROVE ForgetsDeleted'
<1> ChannelsKnown /\ ForgetsDeleted
  BY DEF FollowsInv
<1>1. ServiceStep /\ heard' = IF todo' # todo THEN {} ELSE heard \union Reached
  BY DEF ServiceWorks
<1>2. ASSUME told' = {}, pc' \notin InHand PROVE ForgetsDeleted'
  BY <1>2 DEF ForgetsDeleted, InHand, Forgetting
<1>3. ASSUME told' \subseteq told \union Reached, todo' = todo, pc' \notin InHand \union {"idle"}
      PROVE  ForgetsDeleted'
  BY <1>1, <1>3 DEF ForgetsDeleted, InHand, Forgetting
<1>4. ASSUME Finish PROVE ForgetsDeleted'
  BY <1>2, <1>4 DEF Finish, InHand
<1>5. ASSUME NEW rest, NEW h, NextFollower(rest, h), h \subseteq told \union Reached PROVE ForgetsDeleted'
  BY <1>3, <1>4, <1>5, NextFollowerEffect DEF InHand
<1>6. CASE Tick
  BY <1>2, <1>6 DEF Tick, localVars, ForgetsDeleted, InHand
<1>7. CASE AskPluralKit \/ DidFrontersChange \/ SaveFront \/ ListCategories \/ (\E c \in Channels : ReadCategory(c))
  BY <1>3, <1>7 DEF AskPluralKit, DidFrontersChange, SaveFront, ListCategories, ReadCategory, NextOf,
                    localVars, InHand
<1>8. CASE StampOnly
  BY <1>3, <1>4, <1>8 DEF StampOnly, localVars, InHand
<1>9. CASE ForgetCategory \/ CategoryUpdated \/ CategoryRefused
  BY <1>3, <1>9 DEF ForgetCategory, CategoryUpdated, CategoryRefused, AbandonCategory, NextCategory,
                    NextOf, InHand
<1>10. CASE ChangeCategory
  BY <1>3, <1>10 DEF ChangeCategory, InHand
<1>11. CASE SystemRefused \/ Unfollow
  BY <1>4, <1>11 DEF SystemRefused, Unfollow
<1>12. CASE ListFollowers \/ NotifyRefused
  BY <1>5, <1>12 DEF ListFollowers, NotifyRefused, AbandonGuild
<1>13. CASE SendNotification \/ ForgetSystems
  <2>1. Reached = {at[1]}
    BY <1>13 DEF SendNotification, ForgetSystems, Reached
  <2> QED BY <1>5, <1>13, <2>1 DEF SendNotification, ForgetSystems
<1>14. ASSUME NEW g \in Guilds, FindNotifyChannel(g) PROVE ForgetsDeleted'
  <2>1. at' \in Channels /\ pc' = "sending" /\ UNCHANGED <<told, todo>>
    BY <1>14 DEF FindNotifyChannel, ChannelsKnown
  <2> QED BY <1>1, <2>1 DEF ForgetsDeleted, InHand, Forgetting
<1>15. CASE UnknownChannel \/ ForgetChannel
  <2>1. /\ pc \in InHand /\ pc' \in Forgetting /\ kind[at] = "deleted"
        /\ UNCHANGED <<told, todo, at, kind>>
    BY <1>15 DEF UnknownChannel, ForgetChannel, ForgetsDeleted, InHand, Forgetting, localVars, discordVars
  <2> QED BY <1>1, <2>1 DEF ForgetsDeleted, InHand, Forgetting
<1> QED BY <1>1, <1>6, <1>7, <1>8, <1>9, <1>10, <1>11, <1>12, <1>13, <1>14, <1>15 DEF ServiceStep

LEMMA ErrorForgetsDeleted == ASSUME FollowsInv, ServiceHitsError PROVE ForgetsDeleted'
<1> ForgetsDeleted
  BY DEF FollowsInv
<1>1. heard' = IF todo' # todo THEN {} ELSE heard
  BY DEF ServiceHitsError
<1>2. ASSUME told' = {}, pc' \notin InHand PROVE ForgetsDeleted'
  BY <1>2 DEF ForgetsDeleted, InHand, Forgetting
<1>3. ASSUME told' = told, todo' = todo, pc' \notin InHand \union {"idle"} PROVE ForgetsDeleted'
  BY <1>1, <1>3 DEF ForgetsDeleted, InHand, Forgetting
<1>4. CASE CategoryFails
  BY <1>3, <1>4 DEF CategoryFails, AbandonCategory, NextOf, InHand
<1>5. CASE NotifyFails
  <2>1. PICK g \in work : NextFollower(work \ {g}, told)
    BY <1>5 DEF NotifyFails, AbandonGuild
  <2>2. CASE Finish
    BY <1>2, <2>2 DEF Finish, InHand
  <2>3. CASE ~Finish
    BY <1>3, <2>1, <2>3, NextFollowerEffect DEF InHand
  <2> QED BY <2>2, <2>3
<1>6. CASE SystemFails \/ ServiceRestarts
  BY <1>2, <1>6 DEF SystemFails, ServiceRestarts, Finish, InHand
<1> QED BY <1>4, <1>5, <1>6 DEF ServiceHitsError

LEMMA FollowsStep == ASSUME FollowsInv, [Next]_vars PROVE FollowsInv'
<1>1. ChannelsKnown'
  BY ChannelsStayKnown DEF FollowsInv
<1>2. ASSUME UNCHANGED <<serviceVars, heard>> PROVE ForgetsDeleted'
  <2>1. UNCHANGED <<pc, at, told, heard>>
    BY <1>2 DEF serviceVars
  <2>2. pc \in Forgetting => kind'[at] = "deleted"
    BY DeletedStays DEF FollowsInv, ForgetsDeleted, InHand, Forgetting
  <2> QED BY <2>1, <2>2 DEF FollowsInv, ForgetsDeleted
<1>3. CASE ~(ServiceWorks \/ ServiceHitsError)
  <2>1. UNCHANGED <<serviceVars, heard>>
    BY <1>3 DEF Next, CommandStarts, CommandWorks, CommandHitsError, WorldChanges, TimePasses, MinutePasses,
                history, vars
  <2> QED BY <1>1, <1>2, <2>1 DEF FollowsInv
<1> QED BY <1>1, <1>3, ServiceForgetsDeleted, ErrorForgetsDeleted DEF FollowsInv

LEMMA InitFollows == Init => FollowsInv
<1> SUFFICES ASSUME Init PROVE FollowsInv
  OBVIOUS
<1>1. DOMAIN kind = Channels /\ DOMAIN guilds = Guilds
  BY DEF Init
<1>2. notify_channels \in [Guilds -> Channels \union {None}]
  <2>1. \A g \in Guilds : <<g, 2>> \in Channels
    BY TablesAssumption DEF TablesAssumption, Channels
  <2> QED BY <2>1 DEF Init
<1>3. /\ DOMAIN cmd = Slots /\ \A i \in Slots : cmd[i] = Done
      /\ DOMAIN Done = CommandFields /\ Done.name # "notify setup"
  BY CommandsAssumption DEF Init, Done, CommandFields, CommandsAssumption, AllCommands
<1>4. pc = "idle" /\ told = {} /\ heard = {}
  BY DEF Init, ServiceInit
<1> QED BY <1>1, <1>2, <1>3, <1>4 DEF FollowsInv, ChannelsKnown, ForgetsDeleted, InHand, Forgetting

\* What follows lose their row, and to what.
FollowLost(f) ==
    \/ guilds'[f[1]] = "absent"
    \/ \E i \in Slots : /\ At(i, "saving") /\ cmd[i].name = "notify remove"
                        /\ cmd[i].guild = f[1] /\ cmd[i].system = f[2]
    \/ pc = "unfollowing" /\ f[2] = System /\ f[1] \in heard
    \/ pc = "forgettingSystems" /\ f[1] = at[1] /\ kind[at] = "deleted"

LEMMA FollowsLostForAReason ==
    ASSUME FollowsInv, [Next]_vars
    PROVE  \A f \in follows \ follows' : FollowLost(f)
<1> DEFINE Kept == \A f \in follows \ follows' : FollowLost(f)
<1>1. ASSUME follows \subseteq follows' PROVE Kept
  BY <1>1
<1>2. CASE ServiceWorks
  <2>1. ServiceStep
    BY <1>2 DEF ServiceWorks
  <2>2. CASE ForgetSystems
    <3>1. follows' = {f \in follows : f[1] # at[1]} /\ pc = "forgettingSystems" /\ kind[at] = "deleted"
      BY <2>2 DEF ForgetSystems, DeleteNotifySystems, SetFollows, FollowsInv, ForgetsDeleted, Forgetting
    <3> QED BY <3>1 DEF FollowLost
  <2>3. CASE Unfollow
    <3>1. follows' = follows \ (told \X {System}) /\ pc = "unfollowing" /\ told \subseteq heard
      BY <2>3 DEF Unfollow, RemoveNotifySystemFromGuilds, SetFollows, FollowsInv, ForgetsDeleted
    <3> QED BY <3>1 DEF FollowLost
  <2>4. CASE ~(ForgetSystems \/ Unfollow)
    <3>1. follows' = follows
      BY <2>1, <2>4 DEF ServiceStep, Tick, AskPluralKit, DidFrontersChange, SaveFront, UpdateFronters,
          StampOnly, UpdateFrontersTimestamp, SystemRefused, ListCategories, ReadCategory, ForgetCategory,
          DeleteFronterCategory, ChangeCategory, CategoryUpdated, CategoryRefused, AbandonCategory,
          ListFollowers, FindNotifyChannel, SendNotification, UnknownChannel, ForgetChannel,
          DeleteNotifyChannel, NotifyRefused, AbandonGuild, tableVars
    <3> QED BY <1>1, <3>1
  <2> QED BY <2>2, <2>3, <2>4
<1>3. CASE ServiceHitsError
  <2>1. UNCHANGED tableVars
    BY <1>3 DEF ServiceHitsError, CategoryFails, AbandonCategory, NotifyFails, AbandonGuild,
                SystemFails, ServiceRestarts
  <2> QED BY <1>1, <2>1 DEF tableVars
<1>4. ASSUME NEW i \in Slots, CommandStarts(i) PROVE Kept
  <2>1. UNCHANGED tableVars
    BY <1>4, CommandStarted DEF CommandStarts, FollowsInv
  <2> QED BY <1>1, <2>1 DEF tableVars
<1>5. ASSUME NEW i \in Slots, CommandWorks(i) PROVE Kept
  <2>1. CommandStep(i)
    BY <1>5 DEF CommandWorks
  <2>2. CASE Saves(i)
    <3>1. Statement(cmd[i]) /\ At(i, "saving")
      BY <2>2 DEF Saves
    <3>2. CASE cmd[i].name = "notify remove" /\ SetFollows(follows \ {<<cmd[i].guild, cmd[i].system>>})
      <4>1. follows' = follows \ {<<cmd[i].guild, cmd[i].system>>}
        BY <3>2 DEF SetFollows
      <4>2. ASSUME NEW f \in follows \ follows' PROVE FollowLost(f)
        <5>1. f = <<cmd[i].guild, cmd[i].system>>
          BY <4>1
        <5>2. cmd[i].guild = f[1] /\ cmd[i].system = f[2]
          BY <5>1
        <5> QED BY <3>1, <3>2, <5>2 DEF FollowLost
      <4> QED BY <4>2
    <3>3. CASE ~(cmd[i].name = "notify remove" /\ SetFollows(follows \ {<<cmd[i].guild, cmd[i].system>>}))
      <4>1. follows' = follows \/ follows' = follows \union {<<cmd[i].guild, cmd[i].system>>}
        BY <3>1, <3>3 DEF Statement, SaveGuildSettings, SaveFronterCategory, UpdateFronters,
            SaveNotifyChannel, AddNotifySystem, SetFollows
      <4> QED BY <1>1, <4>1
    <3> QED BY <3>2, <3>3
  <2>3. CASE ~Saves(i)
    <3>1. follows' = follows
      BY <2>1, <2>3 DEF CommandStep, AsksFront, StampsFront, UpdateFrontersTimestamp, UpdateFronters,
          CreatesCategory, ListsChannels, ChangesChannels, ChannelsChanged, TouchesGuild, Touch,
          UpdatesSystem, UpdateSystem, CommandRefused, tableVars
    <3> QED BY <1>1, <3>1
  <2> QED BY <2>2, <2>3
<1>6. ASSUME NEW i \in Slots, CommandHitsError(i) PROVE Kept
  <2>1. follows' = follows
    BY <1>6 DEF CommandHitsError, CommandFails, tableVars
  <2> QED BY <1>1, <2>1
<1>7. CASE WorldChanges
  <2>1. World
    BY <1>7 DEF WorldChanges
  <2>2. ASSUME NEW g \in Guilds, CleansUpGuild(g) PROVE Kept
    <3>1. guilds' = [guilds EXCEPT ![g] = "absent"] /\ follows' = {f \in follows : f[1] # g}
      BY <2>2 DEF CleansUpGuild, DeleteGuild
    <3>2. guilds'[g] = "absent"
      BY <3>1 DEF FollowsInv, ChannelsKnown
    <3> QED BY <3>1, <3>2 DEF FollowLost
  <2>3. CASE ~\E g \in Guilds : CleansUpGuild(g)
    <3>1. follows' = follows
      BY <2>1, <2>3 DEF World, Switches, ChangesPrivacy, DeletesChannel, LeavesGuild, RejoinsGuild, Touch,
          CleansUpSystems, CleanupSystems, tableVars
    <3> QED BY <1>1, <3>1
  <2> QED BY <2>2, <2>3
<1>8. CASE TimePasses \/ UNCHANGED vars
  <2>1. follows' = follows
    BY <1>8 DEF TimePasses, MinutePasses, vars, tableVars
  <2> QED BY <1>1, <2>1
<1> QED BY <1>2, <1>3, <1>4, <1>5, <1>6, <1>7, <1>8 DEF Next

\* Whatever the users, PluralKit, Discord and errors do meanwhile: a guild stops
\* following a system only by its own command, with its row, when it was told
\* why, or when the channel it was told in is deleted.
THEOREM FollowsHaveReasons == Spec => FollowsAreKept
<1>1. Init => FollowsInv
  BY InitFollows
<1>2. FollowsInv /\ [Next]_vars => FollowsInv'
  BY FollowsStep
<1>3. FollowsInv /\ [Next]_vars =>
        [\A f \in follows \ follows' :
            \/ guilds'[f[1]] = "absent"
            \/ \E i \in Slots : /\ At(i, "saving") /\ cmd[i].name = "notify remove"
                                /\ cmd[i].guild = f[1] /\ cmd[i].system = f[2]
            \/ pc = "unfollowing" /\ f[2] = System /\ f[1] \in heard
            \/ pc = "forgettingSystems" /\ f[1] = at[1] /\ kind[at] = "deleted"]_vars
  BY FollowsLostForAReason DEF FollowLost
<1> QED BY <1>1, <1>2, <1>3, PTL DEF Spec, FollowsAreKept

-----------------------------------------------------------------------------
(* Whom a switch is announced to.                                          *)

Telling == {"telling"} \union InHand
Announcing == {"listingCategories", "updating", "changing", "forgettingCategory", "listingFollowers"} \union Telling

\* Whoever is still owed a switch follows the system, can be told, and, once the
\* followers are listed, is still in the list.
OwedInv ==
    /\ owed # {} => change = "switch" /\ pc \in Announcing
    /\ \A g \in owed : g \in Guilds /\ Reachable(g) /\ <<g, System>> \in follows
    /\ pc \in Telling => owed \subseteq work
    /\ pc = "saving" => change = "switch"

\* Nobody is owed a switch of the system the service has left.
NobodyLeftBehind == todo' # todo => owed' = {}

LEMMA NobodyOwed ==
    ASSUME owed' = {}, pc' = "saving" => change' = "switch"
    PROVE  OwedInv' /\ NobodyLeftBehind
BY DEF OwedInv, NobodyLeftBehind

LEMMA StillOwedToThem ==
    ASSUME \A g \in owed' : g \in Guilds /\ Reachable(g)' /\ <<g, System>> \in follows',
           owed' # {} => change = "switch",
           UNCHANGED <<todo, change>>, pc' \in Announcing, pc' \in Telling => owed' \subseteq work'
    PROVE  OwedInv' /\ NobodyLeftBehind
BY DEF OwedInv, NobodyLeftBehind, System, Announcing, Telling, InHand

LEMMA NextFollowerOwed ==
    ASSUME \A g \in owed' : g \in Guilds /\ Reachable(g)' /\ <<g, System>> \in follows',
           owed' # {} => change = "switch",
           NEW rest, NEW h, NextFollower(rest, h), owed' \subseteq rest
    PROVE  OwedInv' /\ NobodyLeftBehind
<1>1. CASE rest = {}
  <2>1. owed' = {} /\ pc' # "saving"
    BY <1>1, NextFollowerEffect DEF Finish
  <2> QED BY <2>1, NobodyOwed
<1>2. CASE rest # {}
  <2>1. pc' = "telling" /\ work' = rest /\ UNCHANGED <<todo, change>>
    BY <1>2, NextFollowerEffect
  <2> QED BY <2>1, StillOwedToThem DEF Announcing, Telling
<1> QED BY <1>1, <1>2

LEMMA ServiceOwes == ASSUME OwedInv, ServiceWorks PROVE OwedInv' /\ NobodyLeftBehind
<1>1. ServiceStep
  BY DEF ServiceWorks
<1>2. \A g \in owed' :
         /\ g \in Guilds /\ Reachable(g)' /\ <<g, System>> \in follows'
         /\ \/ g \in owed \ Reached
            \/ pc = "saving" /\ System \in systems
  BY DEF ServiceWorks, StillOwed, NotifyGuildsForSystem, OwedInv
<1>3. owed' # {} => change = "switch"
  BY <1>2 DEF OwedInv
<1>4. ASSUME pc \notin Announcing \union {"saving"}, pc' = "saving" => change' = "switch"
      PROVE  OwedInv' /\ NobodyLeftBehind
  <2>1. owed' = {}
    BY <1>2, <1>4 DEF OwedInv
  <2> QED BY <1>4, <2>1, NobodyOwed
<1>5. ASSUME UNCHANGED <<todo, change>>, pc' \in Announcing \ Telling PROVE OwedInv' /\ NobodyLeftBehind
  BY <1>2, <1>3, <1>5, StillOwedToThem
<1>6. ASSUME UNCHANGED <<todo, change, work>>, pc \in Telling, pc' \in Telling
      PROVE  OwedInv' /\ NobodyLeftBehind
  <2>1. owed' \subseteq work'
    BY <1>2, <1>6 DEF OwedInv, Telling, InHand
  <2> QED BY <1>2, <1>3, <1>6, <2>1, StillOwedToThem DEF Announcing
<1>7. ASSUME NEW rest, NEW h, NextFollower(rest, h), owed' \subseteq rest
      PROVE  OwedInv' /\ NobodyLeftBehind
  BY <1>2, <1>3, <1>7, NextFollowerOwed
<1>8. CASE Tick \/ AskPluralKit \/ DidFrontersChange
  BY <1>4, <1>8 DEF Tick, AskPluralKit, DidFrontersChange, Announcing, Telling, InHand
<1>9. CASE StampOnly \/ Unfollow
  BY <1>4, <1>9 DEF StampOnly, Unfollow, Finish, Announcing, Telling, InHand
<1>10. CASE SystemRefused
  <2>1. owed' = {} /\ pc' # "saving"
    BY <1>2, <1>10 DEF SystemRefused, Finish, OwedInv, Announcing, Telling, InHand
  <2> QED BY <2>1, NobodyOwed
<1>11. CASE SaveFront \/ ListCategories \/ (\E c \in Channels : ReadCategory(c)) \/ ChangeCategory
  BY <1>5, <1>11 DEF SaveFront, ListCategories, ReadCategory, ChangeCategory, NextOf, localVars,
                     Announcing, Telling, InHand
<1>12. CASE ForgetCategory \/ CategoryUpdated \/ CategoryRefused
  BY <1>5, <1>12 DEF ForgetCategory, CategoryUpdated, CategoryRefused, AbandonCategory, NextCategory,
                     NextOf, Announcing, Telling, InHand
<1>13. CASE ListFollowers
  <2>1. NextFollower(NotifyGuildsForSystem(System), {}) /\ follows' = follows
    BY <1>13 DEF ListFollowers, tableVars
  <2>2. owed' \subseteq NotifyGuildsForSystem(System)
    BY <1>2, <2>1 DEF NotifyGuildsForSystem
  <2> QED BY <1>7, <2>1, <2>2
<1>14. CASE SendNotification \/ ForgetSystems
  <2>1. /\ pc \in Telling /\ Reached = {at[1]}
        /\ NextFollower(work \ {at[1]}, told \union {at[1]})
    BY <1>14 DEF SendNotification, ForgetSystems, Reached, Telling, InHand
  <2>2. owed' \subseteq work \ {at[1]}
    BY <1>2, <2>1 DEF OwedInv, Telling, InHand
  <2> QED BY <1>7, <2>1, <2>2
<1>15. CASE NotifyRefused
  <2>1. PICK g \in work : /\ pc \in Telling /\ (notify_channels[g] = None \/ guilds[g] = "left")
                          /\ NextFollower(work \ {g}, told) /\ UNCHANGED tableVars
    BY <1>15 DEF NotifyRefused, AbandonGuild, Telling, InHand
  <2>2. UNCHANGED <<guilds, notify_channels>>
    BY <2>1 DEF tableVars
  <2>3. g \notin owed'
    BY <1>2, <2>1, <2>2 DEF Reachable
  <2>4. owed' \subseteq work \ {g}
    BY <1>2, <2>1, <2>3 DEF OwedInv, Telling, InHand
  <2> QED BY <1>7, <2>1, <2>4
<1>16. CASE (\E g \in Guilds : FindNotifyChannel(g)) \/ UnknownChannel \/ ForgetChannel
  BY <1>6, <1>16 DEF FindNotifyChannel, UnknownChannel, ForgetChannel, localVars, Telling, InHand
<1> QED BY <1>1, <1>8, <1>9, <1>10, <1>11, <1>12, <1>13, <1>14, <1>15, <1>16 DEF ServiceStep

LEMMA ErrorOwes == ASSUME OwedInv, ServiceHitsError PROVE OwedInv' /\ NobodyLeftBehind
<1>1. CASE (SystemFails \/ ServiceRestarts) /\ owed' = {}
  <2>1. pc' # "saving"
    BY <1>1 DEF SystemFails, ServiceRestarts, Finish
  <2> QED BY <1>1, <2>1, NobodyOwed
<1>2. CASE (CategoryFails \/ NotifyFails) /\ owed' = owed \ (work \ work')
  <2>1. owed' = owed \ (work \ work') /\ (CategoryFails \/ NotifyFails)
    BY <1>2
  <2>2. UNCHANGED <<guilds, notify_channels, follows>>
    BY <2>1 DEF CategoryFails, AbandonCategory, NotifyFails, AbandonGuild, tableVars
  <2>3. /\ \A g \in owed' : g \in Guilds /\ Reachable(g)' /\ <<g, System>> \in follows'
        /\ owed' # {} => change = "switch"
    BY <2>1, <2>2 DEF OwedInv, Reachable
  <2>4. CASE CategoryFails
    <3>1. UNCHANGED <<todo, change>> /\ pc' \in Announcing \ Telling
      BY <2>4 DEF CategoryFails, AbandonCategory, NextOf, Announcing, Telling, InHand
    <3> QED BY <2>3, <3>1, StillOwedToThem
  <2>5. CASE NotifyFails
    <3>1. PICK g \in work : pc \in Telling /\ NextFollower(work \ {g}, told)
      BY <2>5 DEF NotifyFails, AbandonGuild, Telling, InHand
    <3>2. work' \subseteq work \ {g}
      BY <3>1, NextFollowerEffect DEF Finish
    <3>3. owed' \subseteq work \ {g}
      BY <2>1, <3>1, <3>2 DEF OwedInv
    <3> QED BY <2>3, <3>1, <3>3, NextFollowerOwed
  <2> QED BY <2>1, <2>4, <2>5
<1> QED BY <1>1, <1>2 DEF ServiceHitsError

LEMMA OthersOwe ==
    ASSUME OwedInv, ChannelsKnown, [Next]_vars, ~ServiceWorks, ~ServiceHitsError
    PROVE  OwedInv' /\ NobodyLeftBehind
<1>1. UNCHANGED serviceVars
  BY DEF Next, CommandStarts, CommandWorks, CommandHitsError, WorldChanges, TimePasses, MinutePasses, vars
<1>2. UNCHANGED <<pc, todo, change, work>>
  BY <1>1 DEF serviceVars
<1>3. CASE owed' = StillOwed(owed)
  BY <1>2, <1>3 DEF OwedInv, NobodyLeftBehind, StillOwed, System
<1>4. CASE UNCHANGED <<owed, guilds, notify_channels, follows>>
  BY <1>2, <1>4 DEF OwedInv, NobodyLeftBehind, Reachable, System
<1>5. ASSUME NEW i \in Slots, CommandStarts(i) PROVE UNCHANGED <<owed, guilds, notify_channels, follows>>
  BY <1>5, CommandStarted DEF CommandStarts, tableVars
<1>6. ASSUME NEW i \in Slots, CommandHitsError(i) PROVE UNCHANGED <<owed, guilds, notify_channels, follows>>
  BY <1>6 DEF CommandHitsError, CommandFails, tableVars, history
<1>7. ASSUME TimePasses \/ UNCHANGED vars PROVE UNCHANGED <<owed, guilds, notify_channels, follows>>
  BY <1>7 DEF TimePasses, MinutePasses, history, vars, tableVars
<1>8. ASSUME WorldChanges \/ \E i \in Slots : CommandWorks(i) PROVE owed' = StillOwed(owed)
  BY <1>8 DEF WorldChanges, CommandWorks
<1> QED BY <1>3, <1>4, <1>5, <1>6, <1>7, <1>8 DEF Next

\* A saved switch is announced: when the service leaves a system, every guild that
\* followed it when its front was saved, follows it still and can be told was told,
\* unless the error was its own or ended the update of the system.
THEOREM SwitchesAreAnnounced == Spec => SwitchIsAnnounced
<1>1. Init => FollowsInv /\ OwedInv
  <2>1. Init => OwedInv
    BY DEF Init, ServiceInit, OwedInv, Telling, InHand
  <2> QED BY <2>1, InitFollows
<1>2. FollowsInv /\ OwedInv /\ [Next]_vars => (FollowsInv /\ OwedInv)' /\ NobodyLeftBehind
  <2> SUFFICES ASSUME FollowsInv, OwedInv, [Next]_vars
               PROVE  FollowsInv' /\ OwedInv' /\ NobodyLeftBehind
    OBVIOUS
  <2> QED BY FollowsStep, ServiceOwes, ErrorOwes, OthersOwe DEF FollowsInv
<1>3. FollowsInv /\ OwedInv /\ [Next]_vars => [todo' # todo => owed' = {}]_vars
  BY <1>2 DEF NobodyLeftBehind
<1> QED BY <1>1, <1>2, <1>3, PTL DEF Spec, SwitchIsAnnounced

-----------------------------------------------------------------------------
(* Lists without repetition.                                               *)

\* A sequence of elements of S in which none comes twice.
Listing(q, S) == q \in Seq(S) /\ IsInjective(q)

LEMMA Enumerated ==
    ASSUME NEW S, IsFiniteSet(S), NEW q \in SetToSeqs(S)
    PROVE  Listing(q, S) /\ ToSet(q) = S
<1> DEFINE n == Cardinality(S)
<1>1. n \in Nat /\ IsFiniteSet(1..n) /\ Cardinality(1..n) = n
  BY FS_CardinalityType, FS_Interval
<1>2. q \in [1..n -> S] /\ \A i, j \in 1..n : i # j => q[i] # q[j]
  BY DEF SetToSeqs
<1> HIDE DEF n
<1>3. q \in Injection(1..n, S)
  BY <1>2 DEF Injection, IsInjective
<1>4. Cardinality(1..n) = Cardinality(S)
  BY <1>1 DEF n
<1>5. q \in Surjection(1..n, S)
  BY <1>3, <1>4, FS_Injection
<1>6. \A x \in S : \E i \in 1..n : q[i] = x
  BY <1>5 DEF Surjection
<1>7. q \in Seq(S) /\ DOMAIN q = 1..n
  BY <1>1, <1>2
<1> QED
  BY <1>2, <1>6, <1>7 DEF Listing, IsInjective, ToSet

LEMMA AmongThem ==
    ASSUME NEW S, NEW q, Listing(q, S), NEW set
    PROVE  Listing(Among(q, set), S) /\ ToSet(Among(q, set)) = ToSet(q) \intersect set
<1> DEFINE kept == {i \in DOMAIN q : q[i] \in set}
           upTo(i) == {j \in kept : j <= i}
           place(i) == Cardinality(upTo(i))
           n == Cardinality(kept)
           pick(k) == CHOOSE i \in kept : place(i) = k
<1>1. q \in Seq(S) /\ Len(q) \in Nat /\ DOMAIN q = 1..Len(q) /\ \A i, j \in DOMAIN q : q[i] = q[j] => i = j
  BY DEF Listing, IsInjective
<1>2. kept \subseteq Nat /\ IsFiniteSet(kept) /\ n \in Nat
  <2>1. IsFiniteSet(1..Len(q)) /\ kept \subseteq 1..Len(q)
    BY <1>1, FS_Interval
  <2> QED
    BY <1>1, <2>1, FS_Subset, FS_CardinalityType
<1>3. ASSUME NEW i \in kept PROVE place(i) \in 1..n
  <2>1. upTo(i) \subseteq kept /\ i \in upTo(i)
    BY <1>2
  <2>2. IsFiniteSet(upTo(i)) /\ place(i) <= n /\ place(i) \in Nat
    BY <1>2, <2>1, FS_Subset, FS_CardinalityType
  <2>3. place(i) # 0
    BY <2>1, <2>2, FS_EmptySet
  <2> QED
    BY <1>2, <2>2, <2>3
<1>4. ASSUME NEW i \in kept, NEW j \in kept, place(i) = place(j) PROVE i = j
  <2>1. ASSUME NEW a \in kept, NEW b \in kept, a < b PROVE place(a) # place(b)
    <3>1. upTo(a) \subseteq upTo(b) /\ b \in upTo(b) /\ b \notin upTo(a)
      BY <1>2, <2>1
    <3>2. IsFiniteSet(upTo(b))
      BY <1>2, FS_Subset
    <3>3. Cardinality(upTo(b)) = Cardinality(upTo(a)) => upTo(b) = upTo(a)
      <4> HIDE DEF upTo, kept
      <4> QED
        BY <3>1, <3>2, FS_Subset
    <3> QED
      BY <3>1, <3>3
  <2> HIDE DEF place, kept
  <2> QED
    BY <1>2, <1>4, <2>1
<1>5. \A k \in 1..n : \E i \in kept : place(i) = k
  <2> DEFINE rank == [i \in kept |-> place(i)]
  <2> HIDE DEF kept, place
  <2>1. rank \in [kept -> 1..n] /\ \A i \in kept : rank[i] = place(i)
    BY <1>3
  <2>2. rank \in Injection(kept, 1..n)
    <3>1. \A i, j \in kept : rank[i] = rank[j] => i = j
      BY <1>4, <2>1
    <3> HIDE DEF rank
    <3> QED
      BY <2>1, <3>1 DEF Injection, IsInjective
  <2>3. IsFiniteSet(1..n) /\ Cardinality(1..n) = n
    BY <1>2, FS_Interval
  <2>4. rank \in Surjection(kept, 1..n)
    <3> HIDE DEF rank
    <3>1. Cardinality(kept) = Cardinality(1..n)
      BY <2>3
    <3> QED
      BY <2>2, <2>3, <3>1, FS_Injection
  <2>5. \A k \in 1..n : \E i \in kept : rank[i] = k
    <3> HIDE DEF rank
    <3> QED
      BY <2>4 DEF Surjection
  <2> QED
    BY <2>1, <2>5
<1>6. ASSUME NEW k \in 1..n PROVE pick(k) \in kept /\ place(pick(k)) = k
  <2> HIDE DEF kept, place
  <2> QED
    BY <1>5
<1>7. ASSUME NEW i \in kept PROVE pick(place(i)) = i
  <2>1. place(i) \in 1..n
    BY <1>3
  <2>2. pick(place(i)) \in kept /\ place(pick(place(i))) = place(i)
    BY <1>6, <2>1
  <2> HIDE DEF kept, place, pick
  <2> QED
    BY <1>4, <2>2
<1>8. Among(q, set) = [k \in 1..n |-> q[pick(k)]]
  BY DEF Among
<1>9. \A i : i \in kept <=> i \in DOMAIN q /\ q[i] \in set
  OBVIOUS
<1> HIDE DEF kept, place, n, pick, upTo
<1>10. \A k \in 1..n : q[pick(k)] \in S
  BY <1>1, <1>6, <1>9
<1>11. Among(q, set) \in [1..n -> S]
  BY <1>8, <1>10
<1>12. Among(q, set) \in Seq(S) /\ DOMAIN Among(q, set) = 1..n
  BY <1>2, <1>11
<1>13. ASSUME NEW k \in 1..n, NEW l \in 1..n, Among(q, set)[k] = Among(q, set)[l] PROVE k = l
  <2>1. q[pick(k)] = q[pick(l)]
    BY <1>8, <1>13
  <2>2. pick(k) = pick(l)
    BY <1>1, <1>6, <1>9, <2>1
  <2>3. place(pick(k)) = k /\ place(pick(l)) = l
    BY <1>6
  <2> QED
    BY <2>2, <2>3
<1>14. ToSet(Among(q, set)) \subseteq ToSet(q) \intersect set
  BY <1>6, <1>8, <1>9, <1>12 DEF ToSet
<1>15. ASSUME NEW x \in ToSet(q) \intersect set PROVE x \in ToSet(Among(q, set))
  <2>1. PICK i \in DOMAIN q : x = q[i]
    BY DEF ToSet
  <2>2. i \in kept
    BY <1>9, <2>1
  <2>3. place(i) \in 1..n /\ Among(q, set)[place(i)] = x
    BY <1>3, <1>7, <1>8, <2>1, <2>2
  <2> QED
    BY <1>12, <2>3 DEF ToSet
<1>16. IsInjective(Among(q, set))
  BY <1>12, <1>13 DEF IsInjective
<1> QED
  BY <1>12, <1>14, <1>15, <1>16 DEF Listing

LEMMA OneMore ==
    ASSUME NEW S, NEW q, Listing(q, S), NEW x \in S, x \notin ToSet(q)
    PROVE  Listing(Append(q, x), S) /\ ToSet(Append(q, x)) = ToSet(q) \union {x}
<1> DEFINE p == Append(q, x)
<1>1. /\ q \in Seq(S) /\ Len(q) \in Nat /\ DOMAIN q = 1..Len(q)
      /\ \A i, j \in DOMAIN q : q[i] = q[j] => i = j
  BY DEF Listing, IsInjective
<1>2. /\ p \in Seq(S) /\ DOMAIN p = 1..Len(q) + 1
      /\ \A i \in 1..Len(q) : p[i] = q[i]
      /\ p[Len(q) + 1] = x
  BY <1>1
<1>3. \A i \in 1..Len(q) : q[i] # x
  BY <1>1 DEF ToSet
<1>4. \A i : i \in 1..Len(q) + 1 <=> i \in 1..Len(q) \/ i = Len(q) + 1
  BY <1>1
<1> HIDE DEF p
<1>5. IsInjective(p)
  BY <1>1, <1>2, <1>3, <1>4 DEF IsInjective
<1>6. ToSet(p) = ToSet(q) \union {x}
  BY <1>1, <1>2, <1>4 DEF ToSet
<1> QED
  BY <1>2, <1>5, <1>6 DEF Listing, p

LEMMA FirstOfAll ==
    ASSUME NEW S, NEW q, Listing(q, S), q # <<>>
    PROVE  /\ Head(q) \in S /\ Listing(Tail(q), S)
           /\ Head(q) \notin ToSet(Tail(q)) /\ ToSet(q) = {Head(q)} \union ToSet(Tail(q))
<1> DEFINE p == Tail(q)
<1>1. /\ q \in Seq(S) /\ Len(q) \in Nat /\ Len(q) > 0 /\ DOMAIN q = 1..Len(q)
      /\ \A i, j \in DOMAIN q : q[i] = q[j] => i = j
  BY DEF Listing, IsInjective
<1>2. /\ p \in Seq(S) /\ DOMAIN p = 1..Len(q) - 1 /\ Head(q) = q[1] /\ q[1] \in S
      /\ \A i \in 1..Len(q) - 1 : p[i] = q[i + 1]
  BY <1>1
<1> HIDE DEF p
<1>3. IsInjective(p)
  <2>1. \A i \in 1..Len(q) - 1 : i \in Nat /\ i + 1 \in DOMAIN q
    BY <1>1
  <2>2. ASSUME NEW i \in 1..Len(q) - 1, NEW j \in 1..Len(q) - 1, p[i] = p[j] PROVE i = j
    <3>1. i + 1 = j + 1
      BY <1>1, <1>2, <2>1, <2>2
    <3> QED
      BY <2>1, <3>1
  <2> QED
    BY <1>2, <2>2 DEF IsInjective
<1>4. q[1] \notin ToSet(p)
  BY <1>1, <1>2 DEF ToSet
<1>5. ToSet(p) \subseteq ToSet(q) /\ q[1] \in ToSet(q)
  BY <1>1, <1>2 DEF ToSet
<1>6. ASSUME NEW x \in ToSet(q), x # q[1] PROVE x \in ToSet(p)
  <2>1. PICK i \in 1..Len(q) : x = q[i]
    BY <1>1 DEF ToSet
  <2>2. i - 1 \in 1..Len(q) - 1 /\ p[i - 1] = q[i]
    BY <1>1, <1>2, <1>6, <2>1
  <2> QED
    BY <1>2, <2>1, <2>2 DEF ToSet
<1> QED
  BY <1>2, <1>3, <1>4, <1>5, <1>6 DEF Listing, p

LEMMA OneAfterTheOther ==
    ASSUME NEW S, NEW p, NEW q, Listing(p, S), Listing(q, S), ToSet(p) \intersect ToSet(q) = {}
    PROVE  /\ ToSet(p \o q) = ToSet(p) \union ToSet(q)
           /\ Len(p \o q) = Cardinality(ToSet(p \o q))
<1> DEFINE r == p \o q
<1>1. /\ p \in Seq(S) /\ Len(p) \in Nat /\ DOMAIN p = 1..Len(p)
      /\ q \in Seq(S) /\ Len(q) \in Nat /\ DOMAIN q = 1..Len(q)
      /\ \A i, j \in DOMAIN p : p[i] = p[j] => i = j
      /\ \A i, j \in DOMAIN q : q[i] = q[j] => i = j
  BY DEF Listing, IsInjective
<1>2. /\ r \in Seq(S) /\ Len(r) = Len(p) + Len(q) /\ DOMAIN r = 1..Len(p) + Len(q)
      /\ \A i \in 1..Len(p) : r[i] = p[i]
      /\ \A i \in 1..Len(q) : r[Len(p) + i] = q[i]
  BY <1>1
<1>3. \A i \in 1..Len(p), j \in 1..Len(q) : p[i] # q[j]
  BY <1>1 DEF ToSet
<1> HIDE DEF r
<1>4. ASSUME NEW i \in 1..Len(p) + Len(q)
      PROVE  \/ i \in 1..Len(p) /\ r[i] = p[i]
             \/ i - Len(p) \in 1..Len(q) /\ r[i] = q[i - Len(p)]
  <2>1. CASE i <= Len(p)
    <3>1. i \in 1..Len(p)
      BY <1>1, <2>1
    <3> QED
      BY <1>2, <3>1
  <2>2. CASE i > Len(p)
    <3>1. i - Len(p) \in 1..Len(q) /\ Len(p) + (i - Len(p)) = i
      BY <1>1, <2>2
    <3> QED
      BY <1>2, <3>1
  <2>3. i <= Len(p) \/ i > Len(p)
    BY <1>1
  <2> QED
    BY <2>1, <2>2, <2>3
<1>5. ASSUME NEW i \in 1..Len(r), NEW j \in 1..Len(r), r[i] = r[j] PROVE i = j
  <2>1. i \in Nat /\ j \in Nat /\ i \in 1..Len(p) + Len(q) /\ j \in 1..Len(p) + Len(q)
    BY <1>1, <1>2
  <2>2. \A k \in 1..Len(p), l \in 1..Len(p) : p[k] = p[l] => k = l
    BY <1>1
  <2>3. \A k \in 1..Len(q), l \in 1..Len(q) : q[k] = q[l] => k = l
    BY <1>1
  <2>4. PICK k : k = i - Len(p)
    OBVIOUS
  <2>5. PICK l : l = j - Len(p)
    OBVIOUS
  <2>6. (i \in 1..Len(p) /\ r[i] = p[i]) \/ (k \in 1..Len(q) /\ r[i] = q[k])
    BY <1>4, <2>1, <2>4
  <2>7. (j \in 1..Len(p) /\ r[j] = p[j]) \/ (l \in 1..Len(q) /\ r[j] = q[l])
    BY <1>4, <2>1, <2>5
  <2>8. i = j \/ k = l
    BY <1>3, <1>5, <2>2, <2>3, <2>6, <2>7
  <2> QED
    BY <1>1, <2>1, <2>4, <2>5, <2>8
<1>6. ToSet(r) \subseteq ToSet(p) \union ToSet(q)
  <2>1. ASSUME NEW x \in ToSet(r) PROVE x \in ToSet(p) \union ToSet(q)
    <3>1. PICK i \in 1..Len(p) + Len(q) : x = r[i]
      BY <1>2 DEF ToSet
    <3>2. CASE i \in 1..Len(p) /\ r[i] = p[i]
      BY <1>1, <3>1, <3>2 DEF ToSet
    <3>3. CASE i - Len(p) \in 1..Len(q) /\ r[i] = q[i - Len(p)]
      BY <1>1, <3>1, <3>3 DEF ToSet
    <3> QED
      BY <1>4, <3>2, <3>3
  <2> QED
    BY <2>1
<1>7. ToSet(p) \subseteq ToSet(r)
  BY <1>1, <1>2 DEF ToSet
<1>8. ToSet(q) \subseteq ToSet(r)
  <2>1. ASSUME NEW x \in ToSet(q) PROVE x \in ToSet(r)
    <3>1. PICK i \in 1..Len(q) : x = q[i]
      BY <1>1 DEF ToSet
    <3>2. Len(p) + i \in 1..Len(p) + Len(q) /\ r[Len(p) + i] = x
      BY <1>1, <1>2, <3>1
    <3> QED
      BY <1>2, <3>2 DEF ToSet
  <2> QED
    BY <2>1
<1>9. Len(r) = Cardinality(ToSet(r))
  <2>1. Len(r) \in Nat /\ DOMAIN r = 1..Len(r)
    BY <1>2
  <2>2. r \in [1..Len(r) -> ToSet(r)]
    BY <1>2, <2>1 DEF ToSet
  <2>3. r \in Bijection(1..Len(r), ToSet(r))
    BY <1>5, <2>1, <2>2 DEF Bijection, Injection, Surjection, IsInjective, ToSet
  <2>4. ExistsBijection(1..Len(r), ToSet(r))
    BY <2>3 DEF ExistsBijection
  <2> QED
    BY <2>1, <2>4, FS_CountingElements
<1> QED
  BY <1>6, <1>7, <1>8, <1>9 DEF r

-----------------------------------------------------------------------------
(* The tables.                                                             *)

\* The rows, with their foreign keys.
RowsInv ==
    /\ guilds \in [Guilds -> {"absent", "present", "left"}]
    /\ systems \subseteq Systems
    /\ settings \in [Guilds -> systems \union {None}]
    /\ categories \in [Guilds -> Channels \union {None}]
    /\ notify_channels \in [Guilds -> Channels \union {None}]
    /\ follows \subseteq {g \in Guilds : guilds[g] # "absent"} \X systems
    /\ \A g \in Guilds : guilds[g] = "absent" =>
           settings[g] = None /\ categories[g] = None /\ notify_channels[g] = None
    /\ saved \in [Systems -> Fronts \union {None}]
    /\ \A s \in Systems \ systems : saved[s] = None

\* Each system with a saved front is once in the order of updated_at.
OrderInv ==
    /\ Listing(stale, Systems) /\ Listing(fresh, Systems)
    /\ ToSet(stale) \intersect ToSet(fresh) = {}
    /\ ToSet(stale) \union ToSet(fresh) = {s \in systems : saved[s] # None}

TablesInv == RowsInv /\ OrderInv

\* What one step does to the tables.
TableStep ==
    \/ UNCHANGED tableVars
    \/ \E g \in Guilds :
          \/ Touch(g) \/ DeleteGuild(g)
          \/ /\ guilds[g] = "present" /\ guilds' = [guilds EXCEPT ![g] = "left"]
             /\ UNCHANGED <<systems, settings, categories, notify_channels, follows, saved, stale, fresh>>
    \/ \E g \in Guilds, c \in Channels \union {None} : SaveFronterCategory(g, c) \/ SaveNotifyChannel(g, c)
    \/ \E c : DeleteFronterCategory(c) \/ DeleteNotifyChannel(c)
    \/ \E s \in Systems : UpdateSystem(s)
    \/ \E g \in Guilds, s \in Systems : SaveGuildSettings(g, s) \/ AddNotifySystem(g, s)
    \/ \E table : table \subseteq follows /\ SetFollows(table)
    \/ \E s \in Systems, front \in Fronts : UpdateFronters(s, front)
    \/ CleanupSystems
    \/ /\ fresh # <<>> /\ stale' = Append(stale, Head(fresh)) /\ fresh' = Tail(fresh)
       /\ UNCHANGED <<guilds, systems, settings, categories, notify_channels, follows, saved>>

LEMMA RowsStay ==
    ASSUME RowsInv, TableStep
    PROVE  RowsInv'
<1> USE DEF RowsInv
<1>1. CASE UNCHANGED tableVars
  BY <1>1 DEF tableVars
<1>2. ASSUME NEW g \in Guilds,
             \/ Touch(g)
             \/ /\ guilds[g] = "present" /\ guilds' = [guilds EXCEPT ![g] = "left"]
                /\ UNCHANGED <<systems, settings, categories, notify_channels, follows, saved, stale, fresh>>
      PROVE  RowsInv'
  BY <1>2 DEF Touch
<1>3. ASSUME NEW g \in Guilds, DeleteGuild(g) PROVE RowsInv'
  <2>1. /\ guilds' \in [Guilds -> {"absent", "present", "left"}]
        /\ settings' \in [Guilds -> systems' \union {None}]
        /\ categories' \in [Guilds -> Channels \union {None}]
        /\ notify_channels' \in [Guilds -> Channels \union {None}]
        /\ systems' = systems /\ saved' = saved
    BY <1>3 DEF DeleteGuild
  <2>2. follows' \subseteq {h \in Guilds : guilds'[h] # "absent"} \X systems'
    <3>1. ASSUME NEW f \in follows' PROVE f \in {h \in Guilds : guilds'[h] # "absent"} \X systems'
      <4>1. f \in follows /\ f[1] # g
        BY <1>3, <3>1 DEF DeleteGuild
      <4>2. f \in {h \in Guilds : guilds[h] # "absent"} \X systems
        BY <4>1
      <4>3. guilds'[f[1]] = guilds[f[1]] /\ systems' = systems
        BY <1>3, <4>1, <4>2 DEF DeleteGuild
      <4> QED
        BY <4>2, <4>3
    <3> QED
      BY <3>1
  <2>3. \A h \in Guilds : guilds'[h] = "absent" =>
           settings'[h] = None /\ categories'[h] = None /\ notify_channels'[h] = None
    BY <1>3 DEF DeleteGuild
  <2> QED
    BY <2>1, <2>2, <2>3
<1>4. ASSUME NEW g \in Guilds, NEW c \in Channels \union {None}, SaveFronterCategory(g, c) PROVE RowsInv'
  BY <1>4 DEF SaveFronterCategory
<1>5. ASSUME NEW g \in Guilds, NEW c \in Channels \union {None}, SaveNotifyChannel(g, c) PROVE RowsInv'
  BY <1>5 DEF SaveNotifyChannel
<1>6. ASSUME NEW c, DeleteFronterCategory(c) PROVE RowsInv'
  BY <1>6 DEF DeleteFronterCategory
<1>7. ASSUME NEW c, DeleteNotifyChannel(c) PROVE RowsInv'
  BY <1>7 DEF DeleteNotifyChannel
<1>8. ASSUME NEW s \in Systems, UpdateSystem(s) PROVE RowsInv'
  BY <1>8 DEF UpdateSystem
<1>9. ASSUME NEW g \in Guilds, NEW s \in Systems, SaveGuildSettings(g, s) PROVE RowsInv'
  BY <1>9 DEF SaveGuildSettings
<1>10. ASSUME NEW g \in Guilds, NEW s \in Systems, AddNotifySystem(g, s) PROVE RowsInv'
  BY <1>10 DEF AddNotifySystem, SetFollows
<1>11. ASSUME NEW table, table \subseteq follows, SetFollows(table) PROVE RowsInv'
  BY <1>11 DEF SetFollows
<1>12. ASSUME NEW s \in Systems, NEW front \in Fronts, UpdateFronters(s, front) PROVE RowsInv'
  BY <1>12 DEF UpdateFronters
<1>13. CASE CleanupSystems
  <2> DEFINE unused == {s \in systems : (\A g \in Guilds : settings[g] # s) /\ NotifyGuildsForSystem(s) = {}}
  <2>1. /\ systems' = systems \ unused
        /\ saved' = [s \in Systems |-> IF s \in unused THEN None ELSE saved[s]]
        /\ UNCHANGED <<guilds, settings, categories, notify_channels, follows>>
    BY <1>13 DEF CleanupSystems
  <2>2. \A g \in Guilds : settings[g] \notin unused
    OBVIOUS
  <2>3. follows \subseteq {g \in Guilds : guilds[g] # "absent"} \X (systems \ unused)
    <3>1. ASSUME NEW f \in follows PROVE f \in {g \in Guilds : guilds[g] # "absent"} \X (systems \ unused)
      <4>1. f \in {g \in Guilds : guilds[g] # "absent"} \X systems /\ f = <<f[1], f[2]>>
        BY <3>1
      <4>2. f[1] \in NotifyGuildsForSystem(f[2])
        BY <3>1, <4>1 DEF NotifyGuildsForSystem
      <4> QED
        BY <4>1, <4>2
    <3> QED
      BY <3>1
  <2> HIDE DEF unused
  <2>4. settings' \in [Guilds -> systems' \union {None}]
    BY <2>1, <2>2
  <2>5. saved' \in [Systems -> Fronts \union {None}] /\ \A s \in Systems \ systems' : saved'[s] = None
    BY <2>1
  <2> QED
    BY <2>1, <2>3, <2>4, <2>5
<1>14. ASSUME UNCHANGED <<guilds, systems, settings, categories, notify_channels, follows, saved>>
       PROVE  RowsInv'
  BY <1>14
<1> QED
  BY <1>1, <1>2, <1>3, <1>4, <1>5, <1>6, <1>7, <1>8, <1>9, <1>10, <1>11, <1>12, <1>13, <1>14 DEF TableStep

LEMMA OrderStays ==
    ASSUME RowsInv, OrderInv, TableStep
    PROVE  OrderInv'
<1>2. ASSUME NEW s \in Systems, NEW front \in Fronts, UpdateFronters(s, front) PROVE OrderInv'
  <2>1. s \in systems /\ systems' = systems /\ saved' = [saved EXCEPT ![s] = front]
    BY <1>2 DEF UpdateFronters
  <2>2. stale' = Among(stale, Systems \ {s}) /\ fresh' = Append(Among(fresh, Systems \ {s}), s)
    BY <1>2 DEF UpdateFronters
  <2>3. Listing(stale', Systems) /\ ToSet(stale') = ToSet(stale) \ {s}
    <3>1. Listing(Among(stale, Systems \ {s}), Systems)
          /\ ToSet(Among(stale, Systems \ {s})) = ToSet(stale) \intersect (Systems \ {s})
      BY AmongThem DEF OrderInv
    <3> QED
      BY <2>2, <3>1 DEF OrderInv, RowsInv
  <2>4. PICK rest : rest = Among(fresh, Systems \ {s})
    OBVIOUS
  <2>5. Listing(rest, Systems) /\ ToSet(rest) = ToSet(fresh) \intersect (Systems \ {s})
    BY <2>4, AmongThem DEF OrderInv
  <2>6. Listing(fresh', Systems) /\ ToSet(fresh') = (ToSet(fresh) \intersect (Systems \ {s})) \union {s}
    <3>1. s \notin ToSet(rest)
      BY <2>5
    <3>2. Listing(Append(rest, s), Systems) /\ ToSet(Append(rest, s)) = ToSet(rest) \union {s}
      BY <2>5, <3>1, OneMore
    <3> QED
      BY <2>2, <2>4, <2>5, <3>2
  <2>7. front # None
    BY TablesAssumption DEF TablesAssumption
  <2>8. \A t \in Systems : saved'[t] = IF t = s THEN front ELSE saved[t]
    BY <2>1 DEF RowsInv
  <2>9. ToSet(stale') \intersect ToSet(fresh') = {}
    BY <2>3, <2>6 DEF OrderInv
  <2>10. ToSet(stale') \union ToSet(fresh') = {t \in systems' : saved'[t] # None}
    BY <2>1, <2>3, <2>6, <2>7, <2>8 DEF OrderInv, RowsInv
  <2> QED
    BY <2>3, <2>6, <2>9, <2>10 DEF OrderInv
<1>3. CASE CleanupSystems
  <2> DEFINE unused == {s \in systems : (\A g \in Guilds : settings[g] # s) /\ NotifyGuildsForSystem(s) = {}}
  <2>1. /\ systems' = systems \ unused
        /\ saved' = [s \in Systems |-> IF s \in unused THEN None ELSE saved[s]]
        /\ stale' = Among(stale, systems \ unused) /\ fresh' = Among(fresh, systems \ unused)
    BY <1>3 DEF CleanupSystems
  <2> HIDE DEF unused
  <2>2. Listing(stale', Systems) /\ ToSet(stale') = ToSet(stale) \intersect (systems \ unused)
    BY <2>1, AmongThem DEF OrderInv
  <2>3. Listing(fresh', Systems) /\ ToSet(fresh') = ToSet(fresh) \intersect (systems \ unused)
    BY <2>1, AmongThem DEF OrderInv
  <2>4. \A s \in systems' : saved'[s] = saved[s]
    BY <2>1 DEF RowsInv
  <2> QED
    BY <2>1, <2>2, <2>3, <2>4 DEF OrderInv
<1>4. ASSUME fresh # <<>>, stale' = Append(stale, Head(fresh)), fresh' = Tail(fresh), UNCHANGED <<systems, saved>>
      PROVE  OrderInv'
  <2>1. PICK s, rest : s = Head(fresh) /\ rest = Tail(fresh)
    OBVIOUS
  <2>2. s \in Systems /\ Listing(rest, Systems) /\ s \notin ToSet(rest) /\ ToSet(fresh) = {s} \union ToSet(rest)
    BY <1>4, <2>1, FirstOfAll DEF OrderInv
  <2>3. s \notin ToSet(stale)
    BY <2>2 DEF OrderInv
  <2>4. Listing(Append(stale, s), Systems) /\ ToSet(Append(stale, s)) = ToSet(stale) \union {s}
    BY <2>2, <2>3, OneMore DEF OrderInv
  <2>5. stale' = Append(stale, s) /\ fresh' = rest /\ UNCHANGED <<systems, saved>>
    BY <1>4, <2>1
  <2> QED
    BY <2>2, <2>3, <2>4, <2>5 DEF OrderInv
<1>7. ASSUME NEW s \in Systems, UpdateSystem(s) PROVE OrderInv'
  <2>1. saved[s] = None \/ s \in systems
    BY DEF RowsInv
  <2>2. systems' = systems \union {s} /\ UNCHANGED <<saved, stale, fresh>>
    BY <1>7 DEF UpdateSystem
  <2> QED
    BY <2>1, <2>2 DEF OrderInv
<1>8. ASSUME NEW g, DeleteGuild(g) \/ Touch(g) PROVE UNCHANGED <<systems, saved, stale, fresh>>
  BY <1>8 DEF DeleteGuild, Touch
<1>9. ASSUME NEW g, NEW c, SaveFronterCategory(g, c) \/ SaveNotifyChannel(g, c)
                           \/ SaveGuildSettings(g, c) \/ AddNotifySystem(g, c)
      PROVE  UNCHANGED <<systems, saved, stale, fresh>>
  BY <1>9 DEF SaveFronterCategory, SaveNotifyChannel, SaveGuildSettings, AddNotifySystem, SetFollows
<1>10. ASSUME NEW c, DeleteFronterCategory(c) \/ DeleteNotifyChannel(c) \/ SetFollows(c)
       PROVE  UNCHANGED <<systems, saved, stale, fresh>>
  BY <1>10 DEF DeleteFronterCategory, DeleteNotifyChannel, SetFollows
<1>11. ASSUME UNCHANGED <<systems, saved, stale, fresh>> PROVE OrderInv'
  BY <1>11 DEF OrderInv
<1>12. ASSUME UNCHANGED tableVars PROVE UNCHANGED <<systems, saved, stale, fresh>>
  BY <1>12 DEF tableVars
<1> QED
  BY <1>2, <1>3, <1>4, <1>7, <1>8, <1>9, <1>10, <1>11, <1>12 DEF TableStep

-----------------------------------------------------------------------------
(* Discord.                                                                *)

DiscordInv ==
    /\ kind \in [Channels -> {"unused", "text", "category", "deleted"}]
    /\ shown \in [Channels -> [Members -> Nat]]

DiscordStep ==
    \/ UNCHANGED discordVars
    \/ \E c, what : what \in {"text", "category"} /\ CreateChannel(c, what)
    \/ \E c : RemoveChannel(c)
    \/ \E c, m : DeleteFronter(c, m) \/ CreateFronter(c, m)

LEMMA DiscordStays == ASSUME DiscordInv, DiscordStep PROVE DiscordInv'
<1> USE DEF DiscordInv
<1>1. CASE UNCHANGED discordVars
  BY <1>1 DEF discordVars
<1>2. ASSUME NEW c, NEW what \in {"text", "category"}, CreateChannel(c, what) PROVE DiscordInv'
  BY <1>2 DEF CreateChannel
<1>3. ASSUME NEW c, RemoveChannel(c) PROVE DiscordInv'
  BY <1>3 DEF RemoveChannel
<1>4. ASSUME NEW c, NEW m, DeleteFronter(c, m) PROVE DiscordInv'
  <2>1. kind' = kind /\ shown[c][m] > 0 /\ shown' = [shown EXCEPT ![c] = [shown[c] EXCEPT ![m] = shown[c][m] - 1]]
    BY <1>4 DEF DeleteFronter
  <2>2. ASSUME c \in Channels PROVE [shown[c] EXCEPT ![m] = shown[c][m] - 1] \in [Members -> Nat]
    <3>1. PICK row \in [Members -> Nat] : row = shown[c]
      BY <2>2
    <3>2. m \in Members => row[m] - 1 \in Nat
      BY <2>1, <3>1
    <3> QED
      BY <3>1, <3>2
  <2> QED
    BY <2>1, <2>2
<1>5. ASSUME NEW c, NEW m, CreateFronter(c, m) PROVE DiscordInv'
  <2>1. kind' = kind /\ shown' = [shown EXCEPT ![c] = [shown[c] EXCEPT ![m] = shown[c][m] + 1]]
    BY <1>5 DEF CreateFronter
  <2>2. ASSUME c \in Channels PROVE [shown[c] EXCEPT ![m] = shown[c][m] + 1] \in [Members -> Nat]
    <3>1. PICK row \in [Members -> Nat] : row = shown[c]
      BY <2>2
    <3>2. m \in Members => row[m] + 1 \in Nat
      BY <2>1, <3>1
    <3> QED
      BY <3>1, <3>2
  <2> QED
    BY <2>1, <2>2
<1> QED
  BY <1>1, <1>2, <1>3, <1>4, <1>5 DEF DiscordStep

\* While a guild can still have a channel, the next one is a channel of it.
LEMMA NextChannel ==
    ASSUME NEW g \in Guilds, HasNewChannel(g)
    PROVE  NewChannel(g) \in Channels
<1> DEFINE all == ChannelsOf(g)
           used == {d \in ChannelsOf(g) : kind[d] # "unused"}
           place == [i \in 1..ChannelIds |-> <<g, i>>]
<1>1. ChannelIds \in Nat
  BY TablesAssumption DEF TablesAssumption
<1>2. place \in Bijection(1..ChannelIds, all)
  BY DEF ChannelsOf, Channels, Bijection, Injection, Surjection, IsInjective
<1>3. IsFiniteSet(all) /\ Cardinality(all) = ChannelIds
  <2>1. ExistsBijection(1..ChannelIds, all)
    <3> HIDE DEF place, all
    <3> QED
      BY <1>2 DEF ExistsBijection
  <2> HIDE DEF all
  <2> QED
    BY <1>1, <2>1, FS_CountingElements, FS_NatBijection
<1>4. used \subseteq all /\ used # all
  BY DEF HasNewChannel
<1>5. Cardinality(used) \in Nat /\ Cardinality(used) < ChannelIds
  <2> HIDE DEF used, all
  <2>1. IsFiniteSet(used) /\ Cardinality(used) <= Cardinality(all)
        /\ (Cardinality(used) = Cardinality(all) => used = all)
    BY <1>3, <1>4, FS_Subset
  <2>2. Cardinality(used) \in Nat
    BY <2>1, FS_CardinalityType
  <2> QED
    BY <1>1, <1>3, <1>4, <2>1, <2>2
<1>6. 1 + Cardinality(used) \in 1..ChannelIds
  BY <1>1, <1>5
<1>7. \E c \in ChannelsOf(g) : c[2] = 1 + Cardinality(used)
  <2>1. PICK k \in 1..ChannelIds : k = 1 + Cardinality(used)
    BY <1>6
  <2>2. <<g, k>> \in ChannelsOf(g) /\ <<g, k>>[2] = k
    BY DEF ChannelsOf, Channels
  <2> HIDE DEF used
  <2> QED
    BY <2>1, <2>2
<1>8. NewChannel(g) \in ChannelsOf(g)
  BY <1>7 DEF NewChannel
<1> QED
  BY <1>8 DEF ChannelsOf

-----------------------------------------------------------------------------
(* The commands.                                                           *)

CommandType == [step: CommandSteps, name: AllCommands \union {None},
                guild: Guilds \union {None}, system: Systems \union {None},
                channel: Channels \union {None}, front: Fronts,
                delete: SUBSET Members, create: SUBSET Members]

\* A command is about a guild and a system, /pk notify setup about a channel of it.
CommandFits(c) ==
    /\ c.step # "done" => c.guild \in Guilds /\ (c.name # "notify setup" => c.system \in Systems)
    /\ c.name = "notify setup" => c.step \in {"touching", "saving"}

CommandInv == cmd \in [Slots -> CommandType] /\ \A i \in Slots : CommandFits(cmd[i])

PkInv == pk_front \in [Systems -> Fronts] /\ pk_status \in [Systems -> Statuses]

LEMMA DoneFits == Done \in CommandType /\ CommandFits(Done)
BY TablesAssumption, CommandsAssumption
   DEF Done, CommandType, CommandFits, CommandSteps, TablesAssumption, CommandsAssumption, AllCommands

LEMMA CommandReplaced ==
    ASSUME CommandInv, NEW i \in Slots, NEW c \in CommandType, CommandFits(c), cmd' = [cmd EXCEPT ![i] = c]
    PROVE  CommandInv'
BY DEF CommandInv, CommandFits

LEMMA StartedFits ==
    ASSUME RowsInv, CommandInv, NEW i \in Slots, StartCommand(i)
    PROVE  CommandInv'
<1>1. ASSUME NEW name \in AllCommands, NEW g \in Guilds, NEW s \in Systems \union {None}, NEW c \in Channels \union {None},
             NEW step \in CommandSteps, Issue(i, name, g, s, c, step),
             IF name = "notify setup" THEN step = "touching" ELSE s \in Systems
      PROVE  CommandInv'
  <2>1. PICK d : d = [Done EXCEPT !.name = name, !.guild = g, !.system = s, !.channel = c, !.step = step]
    OBVIOUS
  <2>2. cmd' = [cmd EXCEPT ![i] = d]
    BY <1>1, <2>1 DEF Issue
  <2>3. d = [step |-> step, name |-> name, guild |-> g, system |-> s, channel |-> c,
             front |-> {}, delete |-> {}, create |-> {}]
    BY <2>1 DEF Done
  <2>4. d \in CommandType /\ CommandFits(d)
    BY <1>1, <2>3, TablesAssumption DEF CommandType, CommandFits, TablesAssumption
  <2> QED
    BY <2>2, <2>4, CommandReplaced
<1>2. PICK g \in Guilds :
        \/ StartFrontersSetup(i, g) \/ StartFrontersUpdate(i, g)
        \/ \E c \in Channels : StartNotifySetup(i, g, c)
        \/ \E s \in Systems : StartSetup(i, g, s) \/ StartNotifyAdd(i, g, s) \/ StartNotifyRemove(i, g, s)
  BY DEF StartCommand
<1>3. settings[g] \in Systems \union {None} /\ categories[g] \in Channels \union {None}
  BY DEF RowsInv
<1>4. CASE StartFrontersSetup(i, g)
  BY <1>1, <1>3, <1>4 DEF StartFrontersSetup, AllCommands, CommandSteps
<1>5. CASE StartFrontersUpdate(i, g)
  BY <1>1, <1>3, <1>5 DEF StartFrontersUpdate, AllCommands, CommandSteps
<1>6. ASSUME NEW c \in Channels, StartNotifySetup(i, g, c) PROVE CommandInv'
  BY <1>1, <1>6 DEF StartNotifySetup, AllCommands, CommandSteps
<1>7. ASSUME NEW s \in Systems, StartSetup(i, g, s) PROVE CommandInv'
  BY <1>1, <1>7 DEF StartSetup, AllCommands, CommandSteps
<1>8. ASSUME NEW s \in Systems, StartNotifyAdd(i, g, s) PROVE CommandInv'
  BY <1>1, <1>8 DEF StartNotifyAdd, AllCommands, CommandSteps
<1>9. ASSUME NEW s \in Systems, StartNotifyRemove(i, g, s) PROVE CommandInv'
  BY <1>1, <1>9 DEF StartNotifyRemove, AllCommands, CommandSteps
<1> QED
  BY <1>2, <1>4, <1>5, <1>6, <1>7, <1>8, <1>9

LEMMA AnsweredFits ==
    ASSUME CommandInv, NEW i \in Slots, Respond(i)
    PROVE  CommandInv'
BY DoneFits, CommandReplaced DEF Respond

LEMMA GoesOnFits ==
    ASSUME CommandInv, NEW i \in Slots, NEW step \in CommandSteps, Go(i, step), cmd[i].step # "done",
           cmd[i].name = "notify setup" => step = "saving"
    PROVE  CommandInv'
<1>1. PICK c : c = [cmd[i] EXCEPT !.step = step]
  OBVIOUS
<1>2. cmd[i] \in CommandType /\ CommandFits(cmd[i])
  BY DEF CommandInv
<1>3. /\ c \in CommandType /\ c.step = step /\ c.name = cmd[i].name /\ c.guild = cmd[i].guild
      /\ c.system = cmd[i].system
  BY <1>1, <1>2 DEF CommandType
<1>4. CommandFits(c)
  BY <1>2, <1>3 DEF CommandFits
<1> QED
  BY <1>1, <1>3, <1>4, CommandReplaced DEF Go

LEMMA ChangedFits ==
    ASSUME CommandInv, NEW i \in Slots, cmd[i].step \notin {"done", "touching", "saving"}, NEW c \in CommandType,
           c.step # "done", c.name = cmd[i].name, c.guild = cmd[i].guild, c.system = cmd[i].system,
           cmd' = [cmd EXCEPT ![i] = c]
    PROVE  CommandInv'
<1>1. CommandFits(cmd[i])
  BY DEF CommandInv
<1>2. CommandFits(c)
  BY <1>1 DEF CommandFits
<1> QED
  BY <1>2, CommandReplaced

LEMMA CommandStepFits ==
    ASSUME PkInv, CommandInv, NEW i \in Slots, CommandStep(i)
    PROVE  CommandInv'
<1> DEFINE c == cmd[i]
<1>1. c \in CommandType /\ CommandFits(c)
  BY DEF CommandInv
<1>2. CASE AsksFront(i)
  <2>1. c.step = "asking" /\ c.name # "notify setup" /\ c.system \in Systems
    BY <1>1, <1>2 DEF AsksFront, At, CommandFits
  <2>2. ASSUME NEW step \in {"creating", "listing"},
               cmd' = [cmd EXCEPT ![i].front = pk_front[c.system], ![i].step = step]
        PROVE  CommandInv'
    <3>1. PICK d : d = [c EXCEPT !.front = pk_front[c.system], !.step = step]
      OBVIOUS
    <3>2. cmd' = [cmd EXCEPT ![i] = d]
      BY <2>2, <3>1
    <3>3. pk_front[c.system] \in Fronts
      BY <2>1 DEF PkInv
    <3>4. /\ d \in CommandType /\ d.step = step /\ d.name = c.name /\ d.guild = c.guild
          /\ d.system = c.system
      BY <1>1, <3>1, <3>3 DEF CommandType, CommandSteps
    <3> QED
      BY <2>1, <3>2, <3>4, ChangedFits
  <2>3. CASE Go(i, "stamping")
    BY <2>1, <2>3, GoesOnFits DEF CommandSteps
  <2> QED
    BY <1>2, <2>2, <2>3, AnsweredFits DEF AsksFront
<1>3. CASE StampsFront(i) \/ Saves(i) \/ CommandRefused(i)
  BY <1>3, AnsweredFits DEF StampsFront, Saves, CommandRefused
<1>4. CASE CreatesCategory(i)
  <2>1. /\ c.step = "creating" /\ HasNewChannel(c.guild)
        /\ cmd' = [cmd EXCEPT ![i].channel = NewChannel(c.guild), ![i].step = "listing"]
    BY <1>4 DEF CreatesCategory, At
  <2>2. c.guild \in Guilds
    BY <1>1, <2>1 DEF CommandFits
  <2>3. PICK new \in Channels : new = NewChannel(c.guild)
    BY <2>1, <2>2, NextChannel
  <2>4. PICK d : d = [c EXCEPT !.channel = new, !.step = "listing"]
    OBVIOUS
  <2>5. cmd' = [cmd EXCEPT ![i] = d]
    BY <2>1, <2>3, <2>4
  <2>6. /\ d \in CommandType /\ d.step = "listing" /\ d.name = c.name /\ d.guild = c.guild
        /\ d.system = c.system
    BY <1>1, <2>4 DEF CommandType, CommandSteps
  <2> QED
    BY <2>1, <2>5, <2>6, ChangedFits
<1>5. CASE ListsChannels(i)
  <2>1. PICK x, y : /\ x = DeleteFronters(c.channel, c.front) /\ y = CreateFronters(c.channel, c.front)
                    /\ cmd' = [cmd EXCEPT ![i].delete = x, ![i].create = y, ![i].step = "changing"]
    BY <1>5 DEF ListsChannels
  <2>2. x \subseteq Members /\ y \subseteq Members
    BY <1>1, <2>1, TablesAssumption DEF DeleteFronters, CreateFronters, Showing, CommandType, TablesAssumption
  <2>3. PICK d : d = [c EXCEPT !.delete = x, !.create = y, !.step = "changing"]
    OBVIOUS
  <2>4. cmd' = [cmd EXCEPT ![i] = d]
    BY <2>1, <2>3
  <2>5. /\ d \in CommandType /\ d.step = "changing" /\ d.name = c.name /\ d.guild = c.guild
        /\ d.system = c.system
    BY <1>1, <2>2, <2>3 DEF CommandType, CommandSteps
  <2> QED
    BY <1>5, <2>4, <2>5, ChangedFits DEF ListsChannels, At
<1>6. CASE ChangesChannels(i)
  <2>1. c.step = "changing"
    BY <1>6 DEF ChangesChannels, At
  <2>2. ASSUME NEW m, cmd' = [cmd EXCEPT ![i].delete = @ \ {m}] PROVE CommandInv'
    <3>1. PICK d : d = [c EXCEPT !.delete = c.delete \ {m}]
      OBVIOUS
    <3>2. cmd' = [cmd EXCEPT ![i] = d]
      BY <2>2, <3>1
    <3>3. /\ d \in CommandType /\ d.step = c.step /\ d.name = c.name /\ d.guild = c.guild
          /\ d.system = c.system
      BY <1>1, <3>1 DEF CommandType
    <3> QED
      BY <2>1, <3>2, <3>3, ChangedFits
  <2>3. ASSUME NEW m, cmd' = [cmd EXCEPT ![i].create = @ \ {m}] PROVE CommandInv'
    <3>1. PICK d : d = [c EXCEPT !.create = c.create \ {m}]
      OBVIOUS
    <3>2. cmd' = [cmd EXCEPT ![i] = d]
      BY <2>3, <3>1
    <3>3. /\ d \in CommandType /\ d.step = c.step /\ d.name = c.name /\ d.guild = c.guild
          /\ d.system = c.system
      BY <1>1, <3>1 DEF CommandType
    <3> QED
      BY <2>1, <3>2, <3>3, ChangedFits
  <2> QED
    BY <1>6, <2>2, <2>3 DEF ChangesChannels
<1>7. CASE ChannelsChanged(i) \/ UpdatesSystem(i)
  BY <1>7, GoesOnFits DEF ChannelsChanged, UpdatesSystem, At, CommandSteps
<1>8. CASE TouchesGuild(i)
  <2>1. c.step = "touching" /\ Go(i, IF c.name = "setup" THEN "updating" ELSE "saving")
    BY <1>8 DEF TouchesGuild, At
  <2>2. PICK step \in CommandSteps : step = IF c.name = "setup" THEN "updating" ELSE "saving"
    BY DEF CommandSteps
  <2> QED
    BY <2>1, <2>2, GoesOnFits
<1> QED
  BY <1>2, <1>3, <1>4, <1>5, <1>6, <1>7, <1>8 DEF CommandStep

-----------------------------------------------------------------------------
(* The service.                                                            *)

\* What the service does with a system, it does with one of the list.
LEMMA InTheTables ==
    ASSUME ServiceTypeOK, pc # "idle"
    PROVE  /\ todo # <<>> /\ System \in Systems
           /\ Tail(todo) \in Seq(Systems)
BY DEF ServiceTypeOK, System

LEMMA AtMostSome ==
    ASSUME RowsInv, OrderInv, NEW list \in SystemsToUpdate
    PROVE  list \in Seq(Systems)
<1> DEFINE new == {s \in NeverUpdated : Tracked(s)}
           old == Among(stale, {s \in systems : Tracked(s)})
           limit(l) == SubSeq(l, 1, IF Len(l) < TickLimit THEN Len(l) ELSE TickLimit)
<1>1. new \subseteq Systems /\ IsFiniteSet(new)
  <2>1. new \subseteq Systems /\ IsFiniteSet(Systems)
    BY TablesAssumption DEF NeverUpdated, RowsInv, TablesAssumption
  <2> QED
    BY <2>1, FS_Subset
<1>2. old \in Seq(Systems)
  BY AmongThem DEF OrderInv, Listing
<1>3. PICK order \in SetToSeqs(new) : list = limit(order \o old)
  BY DEF SystemsToUpdate
<1>4. order \in Seq(new)
  <2> HIDE DEF new
  <2> QED
    BY <1>1, Enumerated DEF Listing
<1>5. PICK all : all = order \o old
  OBVIOUS
<1>6. all \in Seq(Systems)
  <2> HIDE DEF new, old
  <2> QED
    BY <1>1, <1>2, <1>4, <1>5
<1>7. TickLimit \in Nat
  BY TablesAssumption DEF TablesAssumption
<1>8. PICK n \in 0..Len(all) : n = IF Len(all) < TickLimit THEN Len(all) ELSE TickLimit
  BY <1>6, <1>7
<1>9. SubSeq(all, 1, n) \in Seq(Systems)
  BY <1>6, <1>8
<1> QED
  BY <1>3, <1>5, <1>8, <1>9

LEMMA FinishTyped ==
    ASSUME ServiceTypeOK, pc # "idle", Finish, UNCHANGED pkVars
    PROVE  ServiceTypeOK'
<1>1. Tail(todo) \in Seq(Systems)
  BY InTheTables
<1>2. {} \in Fronts
  BY TablesAssumption DEF TablesAssumption
<1> QED
  BY <1>1, <1>2 DEF Finish, ServiceTypeOK, pkVars

LEMMA NextOfTyped ==
    ASSUME ServiceTypeOK, pc # "idle", NEW rows, rows \subseteq Channels \/ rows \subseteq Guilds,
           NEW loop, NEW after, loop # "idle", after # "idle", NextOf(rows, loop, after),
           told' \subseteq Guilds, UNCHANGED pkVars
    PROVE  ServiceTypeOK'
BY DEF NextOf, ServiceTypeOK, pkVars

LEMMA NextFollowerTyped ==
    ASSUME ServiceTypeOK, pc # "idle", NEW rest, rest \subseteq Channels \/ rest \subseteq Guilds,
           NEW h, h \subseteq Guilds, NextFollower(rest, h), UNCHANGED pkVars
    PROVE  ServiceTypeOK'
<1>1. CASE Finish
  BY <1>1, FinishTyped
<1>2. CASE ~Finish
  <2>1. NextOf(rest, "telling", "unfollowing") /\ told' = h
    BY <1>2 DEF NextFollower
  <2> QED
    BY <2>1, NextOfTyped
<1> QED
  BY <1>1, <1>2

LEMMA ServiceTyped ==
    ASSUME RowsInv, OrderInv, ServiceTypeOK, pc \in InHand => at \in Channels, ServiceStep
    PROVE  ServiceTypeOK'
<1>1. /\ pk_front \in [Systems -> Fronts] /\ pk_status \in [Systems -> Statuses]
      /\ todo \in Seq(Systems) /\ (pc = "idle" <=> todo = <<>>)
      /\ switch \in Fronts /\ change \in {None, "switch", "private", "gone"}
      /\ work \subseteq Channels \/ work \subseteq Guilds
      /\ at \in Channels \union {None}
      /\ delete \subseteq Members /\ create \subseteq Members /\ told \subseteq Guilds
  BY DEF ServiceTypeOK
<1>2. pc # "idle" => System \in Systems
  BY InTheTables
<1>3. Fronts \subseteq SUBSET Members /\ {} \in Fronts
  BY TablesAssumption DEF TablesAssumption
<1>4. pc \in InHand => at[1] \in Guilds
  BY DEF Channels
<1>5. CASE Tick
  <2>1. todo' \in Seq(Systems)
    BY <1>5, AtMostSome DEF Tick
  <2> QED
    BY <1>1, <1>5, <2>1 DEF Tick, ServiceTypeOK, localVars, pkVars
<1>6. CASE AskPluralKit
  <2>1. pk_front[System] \in Fronts /\ pk_status[System] \in Statuses
    BY <1>1, <1>2, <1>6 DEF AskPluralKit
  <2> QED
    BY <1>1, <1>6, <2>1 DEF AskPluralKit, ServiceTypeOK, pkVars, Statuses
<1>7. CASE DidFrontersChange
  BY <1>1, <1>7 DEF DidFrontersChange, ServiceTypeOK, pkVars
<1>8. CASE SaveFront
  BY <1>1, <1>8 DEF SaveFront, ServiceTypeOK, pkVars, localVars
<1>9. CASE StampOnly
  <2>1. pc # "idle" /\ UNCHANGED pkVars
    BY <1>9 DEF StampOnly
  <2>2. CASE Finish
    BY <2>1, <2>2, FinishTyped
  <2>3. CASE pc' = "listingFollowers" /\ UNCHANGED <<todo, localVars>>
    BY <1>1, <2>1, <2>3 DEF ServiceTypeOK, pkVars, localVars
  <2> QED
    BY <1>9, <2>2, <2>3 DEF StampOnly
<1>10. CASE SystemRefused
  BY <1>10, FinishTyped DEF SystemRefused
<1>11. CASE ListCategories
  <2>1. CategoriesForSystem(System) \subseteq Channels
    BY DEF CategoriesForSystem, RowsInv
  <2>2. PICK rows : rows = CategoriesForSystem(System)
    OBVIOUS
  <2> QED
    BY <1>1, <1>11, <2>1, <2>2, NextOfTyped DEF ListCategories
<1>12. ASSUME NEW c \in Channels, ReadCategory(c) PROVE ServiceTypeOK'
  <2>1. DeleteFronters(c, switch) \subseteq Members /\ CreateFronters(c, switch) \subseteq Members
    BY <1>1, <1>3 DEF DeleteFronters, CreateFronters, Showing
  <2> QED
    BY <1>1, <1>12, <2>1 DEF ReadCategory, ServiceTypeOK, pkVars
<1>13. CASE ForgetCategory \/ CategoryUpdated
  <2>1. pc # "idle" /\ NextOf(work \ {at}, "updating", "listingFollowers") /\ UNCHANGED told /\ UNCHANGED pkVars
    BY <1>13 DEF ForgetCategory, CategoryUpdated, NextCategory
  <2>2. PICK rows : rows = work \ {at}
    OBVIOUS
  <2> QED
    BY <1>1, <2>1, <2>2, NextOfTyped
<1>14. CASE ChangeCategory
  BY <1>1, <1>14 DEF ChangeCategory, ServiceTypeOK, pkVars
<1>15. CASE CategoryRefused
  <2>1. PICK c \in work : /\ pc # "idle" /\ NextOf(work \ {c}, "updating", "listingFollowers")
                          /\ UNCHANGED told /\ UNCHANGED pkVars
    BY <1>15 DEF CategoryRefused, AbandonCategory
  <2>2. PICK rows : rows = work \ {c}
    OBVIOUS
  <2> QED
    BY <1>1, <2>1, <2>2, NextOfTyped
<1>16. CASE ListFollowers
  <2>1. PICK rows : rows = NotifyGuildsForSystem(System)
    OBVIOUS
  <2>2. rows \subseteq Guilds
    BY <2>1 DEF NotifyGuildsForSystem
  <2>3. NextFollower(rows, {}) /\ pc # "idle" /\ UNCHANGED pkVars
    BY <1>16, <2>1 DEF ListFollowers
  <2> QED
    BY <2>2, <2>3, NextFollowerTyped
<1>17. ASSUME NEW g \in Guilds, FindNotifyChannel(g) PROVE ServiceTypeOK'
  <2>1. notify_channels[g] \in Channels
    BY <1>17 DEF FindNotifyChannel, RowsInv
  <2> QED
    BY <1>1, <1>17, <2>1 DEF FindNotifyChannel, ServiceTypeOK, pkVars
<1>18. CASE SendNotification \/ ForgetSystems
  <2>1. /\ pc \in InHand /\ pc # "idle" /\ NextFollower(work \ {at[1]}, told \union {at[1]})
        /\ UNCHANGED pkVars
    BY <1>18 DEF SendNotification, ForgetSystems, InHand
  <2>2. PICK rest, h : rest = work \ {at[1]} /\ h = told \union {at[1]}
    OBVIOUS
  <2>3. (rest \subseteq Channels \/ rest \subseteq Guilds) /\ h \subseteq Guilds
    BY <1>1, <1>4, <2>1, <2>2
  <2> QED
    BY <2>1, <2>2, <2>3, NextFollowerTyped
<1>19. CASE UnknownChannel \/ ForgetChannel
  BY <1>1, <1>19 DEF UnknownChannel, ForgetChannel, ServiceTypeOK, pkVars, localVars
<1>20. CASE NotifyRefused
  <2>1. PICK g \in work : pc # "idle" /\ NextFollower(work \ {g}, told) /\ UNCHANGED pkVars
    BY <1>20 DEF NotifyRefused, AbandonGuild
  <2>2. PICK rest : rest = work \ {g}
    OBVIOUS
  <2> QED
    BY <1>1, <2>1, <2>2, NextFollowerTyped
<1>21. CASE Unfollow
  BY <1>21, FinishTyped DEF Unfollow
<1> QED
  BY <1>5, <1>6, <1>7, <1>8, <1>9, <1>10, <1>11, <1>12, <1>13, <1>14, <1>15, <1>16, <1>17, <1>18, <1>19,
     <1>20, <1>21 DEF ServiceStep

LEMMA ErrorTyped ==
    ASSUME ServiceTypeOK, ServiceFails
    PROVE  ServiceTypeOK' /\ pc # "idle"
<1>1. /\ work \subseteq Channels \/ work \subseteq Guilds
      /\ told \subseteq Guilds
  BY DEF ServiceTypeOK
<1>2. CASE CategoryFails
  <2>1. PICK c \in work : /\ pc # "idle" /\ NextOf(work \ {c}, "updating", "listingFollowers")
                          /\ UNCHANGED told /\ UNCHANGED pkVars
    BY <1>2 DEF CategoryFails, AbandonCategory
  <2>2. PICK rows : rows = work \ {c}
    OBVIOUS
  <2> QED
    BY <1>1, <2>1, <2>2, NextOfTyped
<1>3. CASE NotifyFails
  <2>1. PICK g \in work : pc # "idle" /\ NextFollower(work \ {g}, told) /\ UNCHANGED pkVars
    BY <1>3 DEF NotifyFails, AbandonGuild
  <2>2. PICK rest : rest = work \ {g}
    OBVIOUS
  <2> QED
    BY <1>1, <2>1, <2>2, NextFollowerTyped
<1>4. CASE SystemFails
  BY <1>4, FinishTyped DEF SystemFails
<1>5. CASE ServiceRestarts
  BY <1>5, TablesAssumption DEF ServiceRestarts, ServiceTypeOK, pkVars, TablesAssumption
<1> QED
  BY <1>2, <1>3, <1>4, <1>5 DEF ServiceFails

-----------------------------------------------------------------------------
(* Every step changes the tables by one statement, and one thing at Discord. *)

LEMMA StampIsUpdate ==
    ASSUME RowsInv, NEW s \in Systems, UpdateFrontersTimestamp(s)
    PROVE  TableStep
<1>1. PICK front : front = IF saved[s] = None THEN {} ELSE saved[s]
  OBVIOUS
<1>2. front \in Fronts
  BY <1>1, TablesAssumption DEF RowsInv, TablesAssumption
<1> QED
  BY <1>1, <1>2 DEF UpdateFrontersTimestamp, TableStep

LEMMA ServiceStatement ==
    ASSUME RowsInv, ServiceTypeOK, ServiceStep
    PROVE  TableStep
<1>1. CASE SaveFront
  <2>1. System \in Systems /\ switch \in Fronts
    BY <1>1, InTheTables DEF SaveFront, ServiceTypeOK
  <2> QED
    BY <1>1, <2>1 DEF SaveFront, TableStep
<1>2. CASE StampOnly
  <2>1. System \in Systems
    BY <1>2, InTheTables DEF StampOnly
  <2> QED
    BY <1>2, <2>1, StampIsUpdate DEF StampOnly
<1>3. CASE ForgetCategory \/ ForgetChannel
  BY <1>3 DEF ForgetCategory, ForgetChannel, TableStep
<1>4. CASE ForgetSystems
  <2>1. PICK table : table = {f \in follows : f[1] # at[1]}
    OBVIOUS
  <2> QED
    BY <1>4, <2>1 DEF ForgetSystems, DeleteNotifySystems, TableStep
<1>5. CASE Unfollow
  <2>1. PICK table : table = follows \ (told \X {System})
    OBVIOUS
  <2> QED
    BY <1>5, <2>1 DEF Unfollow, RemoveNotifySystemFromGuilds, TableStep
<1>6. CASE ~(SaveFront \/ StampOnly \/ ForgetCategory \/ ForgetChannel \/ ForgetSystems \/ Unfollow)
  <2>1. UNCHANGED tableVars
    BY <1>6 DEF ServiceStep, Tick, AskPluralKit, DidFrontersChange, SystemRefused, ListCategories,
        ReadCategory, ChangeCategory, CategoryUpdated, CategoryRefused, AbandonCategory, ListFollowers,
        FindNotifyChannel, SendNotification, UnknownChannel, NotifyRefused, AbandonGuild
  <2> QED
    BY <2>1 DEF TableStep
<1> QED
  BY <1>1, <1>2, <1>3, <1>4, <1>5, <1>6

LEMMA CommandStatement ==
    ASSUME RowsInv, CommandInv, NEW i \in Slots, CommandStep(i)
    PROVE  TableStep
<1> DEFINE c == cmd[i]
<1>1. c \in CommandType /\ CommandFits(c)
  BY DEF CommandInv
<1>2. CASE StampsFront(i)
  <2>1. c.system \in Systems
    BY <1>1, <1>2 DEF StampsFront, At, CommandFits
  <2> QED
    BY <1>2, <2>1, StampIsUpdate DEF StampsFront
<1>3. CASE TouchesGuild(i)
  <2>1. c.guild \in Guilds
    BY <1>1, <1>3 DEF TouchesGuild, At, CommandFits
  <2> QED
    BY <1>3, <2>1 DEF TouchesGuild, TableStep
<1>4. CASE UpdatesSystem(i)
  <2>1. c.system \in Systems
    BY <1>1, <1>4 DEF UpdatesSystem, At, CommandFits
  <2> QED
    BY <1>4, <2>1 DEF UpdatesSystem, TableStep
<1>5. CASE Saves(i)
  <2>1. /\ Statement(c) /\ c.guild \in Guilds /\ c.channel \in Channels \union {None} /\ c.front \in Fronts
        /\ c.name # "notify setup" => c.system \in Systems
    BY <1>1, <1>5 DEF Saves, At, CommandFits, CommandType
  <2>2. CASE c.name = "notify remove" /\ SetFollows(follows \ {<<c.guild, c.system>>})
    <3>1. PICK table : table = follows \ {<<c.guild, c.system>>}
      OBVIOUS
    <3> QED
      BY <2>2, <3>1 DEF TableStep
  <2>3. CASE ~(c.name = "notify remove" /\ SetFollows(follows \ {<<c.guild, c.system>>}))
    BY <2>1, <2>3 DEF Statement, TableStep
  <2> QED
    BY <2>2, <2>3
<1>6. CASE ~(StampsFront(i) \/ TouchesGuild(i) \/ UpdatesSystem(i) \/ Saves(i))
  <2>1. UNCHANGED tableVars
    BY <1>6 DEF CommandStep, AsksFront, CreatesCategory, ListsChannels, ChangesChannels, ChannelsChanged,
        CommandRefused
  <2> QED
    BY <2>1 DEF TableStep
<1> QED
  BY <1>2, <1>3, <1>4, <1>5, <1>6

LEMMA OneStatement ==
    ASSUME RowsInv, ServiceTypeOK, CommandInv, ChannelsKnown, [Next]_vars
    PROVE  TableStep
<1>1. ASSUME UNCHANGED tableVars PROVE TableStep
  BY <1>1 DEF TableStep
<1>2. CASE ServiceWorks
  BY <1>2, ServiceStatement DEF ServiceWorks
<1>3. CASE ServiceHitsError
  BY <1>1, <1>3 DEF ServiceHitsError, CategoryFails, AbandonCategory, NotifyFails, AbandonGuild,
      SystemFails, ServiceRestarts
<1>4. ASSUME NEW i \in Slots, CommandStarts(i) PROVE TableStep
  BY <1>1, <1>4, CommandStarted DEF CommandStarts
<1>5. ASSUME NEW i \in Slots, CommandWorks(i) PROVE TableStep
  BY <1>5, CommandStatement DEF CommandWorks
<1>6. ASSUME NEW i \in Slots, CommandHitsError(i) PROVE TableStep
  BY <1>1, <1>6 DEF CommandHitsError, CommandFails
<1>7. CASE WorldChanges
  <2>1. World
    BY <1>7 DEF WorldChanges
  <2>2. ASSUME NEW g \in Guilds, CleansUpGuild(g) \/ LeavesGuild(g) \/ RejoinsGuild(g)
        PROVE  TableStep
    BY <2>2 DEF CleansUpGuild, LeavesGuild, RejoinsGuild, TableStep
  <2>3. CASE CleansUpSystems
    BY <2>3 DEF CleansUpSystems, TableStep
  <2>4. CASE ~(CleansUpSystems \/ \E g \in Guilds : CleansUpGuild(g) \/ LeavesGuild(g) \/ RejoinsGuild(g))
    BY <1>1, <2>1, <2>4 DEF World, Switches, ChangesPrivacy, DeletesChannel
  <2> QED
    BY <2>2, <2>3, <2>4
<1>8. CASE TimePasses
  BY <1>8 DEF TimePasses, MinutePasses, TableStep
<1>9. CASE UNCHANGED vars
  BY <1>1, <1>9 DEF vars
<1> QED
  BY <1>2, <1>3, <1>4, <1>5, <1>6, <1>7, <1>8, <1>9 DEF Next

LEMMA OneChangeAtDiscord ==
    ASSUME [Next]_vars
    PROVE  DiscordStep
<1>1. ASSUME UNCHANGED discordVars PROVE DiscordStep
  BY <1>1 DEF DiscordStep
<1>2. CASE ServiceWorks
  <2>1. ServiceStep
    BY <1>2 DEF ServiceWorks
  <2>2. CASE ChangeCategory
    BY <2>2 DEF ChangeCategory, DiscordStep
  <2>3. CASE ~ChangeCategory
    <3>1. UNCHANGED discordVars
      BY <2>1, <2>3 DEF ServiceStep, Tick, AskPluralKit, DidFrontersChange, SaveFront, StampOnly,
          SystemRefused, ListCategories, ReadCategory, ForgetCategory, CategoryUpdated, CategoryRefused,
          AbandonCategory, ListFollowers, FindNotifyChannel, SendNotification, UnknownChannel,
          ForgetChannel, ForgetSystems, NotifyRefused, AbandonGuild, Unfollow
    <3> QED
      BY <1>1, <3>1
  <2> QED
    BY <2>2, <2>3
<1>3. CASE ServiceHitsError
  BY <1>1, <1>3 DEF ServiceHitsError, CategoryFails, AbandonCategory, NotifyFails, AbandonGuild,
      SystemFails, ServiceRestarts
<1>4. ASSUME NEW i \in Slots, CommandStarts(i) PROVE DiscordStep
  <2>1. StartCommand(i)
    BY <1>4 DEF CommandStarts
  <2>2. UNCHANGED discordVars \/ \E c : CreateChannel(c, "text")
    BY <2>1 DEF StartCommand, StartFrontersSetup, StartFrontersUpdate, StartNotifySetup, StartSetup,
        StartNotifyAdd, StartNotifyRemove
  <2> QED
    BY <2>2 DEF DiscordStep
<1>5. ASSUME NEW i \in Slots, CommandWorks(i) PROVE DiscordStep
  <2>1. CommandStep(i)
    BY <1>5 DEF CommandWorks
  <2>2. CASE CreatesCategory(i)
    BY <2>2 DEF CreatesCategory, DiscordStep
  <2>3. CASE ChangesChannels(i)
    BY <2>3 DEF ChangesChannels, DiscordStep
  <2>4. CASE ~(CreatesCategory(i) \/ ChangesChannels(i))
    <3>1. UNCHANGED discordVars
      BY <2>1, <2>4 DEF CommandStep, AsksFront, StampsFront, ListsChannels, ChannelsChanged, TouchesGuild,
          UpdatesSystem, Saves, CommandRefused
    <3> QED
      BY <1>1, <3>1
  <2> QED
    BY <2>2, <2>3, <2>4
<1>6. ASSUME NEW i \in Slots, CommandHitsError(i) PROVE DiscordStep
  BY <1>1, <1>6 DEF CommandHitsError, CommandFails
<1>7. CASE WorldChanges
  <2>1. World
    BY <1>7 DEF WorldChanges
  <2>2. ASSUME NEW c \in Channels, DeletesChannel(c) PROVE DiscordStep
    BY <2>2 DEF DeletesChannel, DiscordStep
  <2>3. CASE ~\E c \in Channels : DeletesChannel(c)
    BY <1>1, <2>1, <2>3 DEF World, Switches, ChangesPrivacy, LeavesGuild, RejoinsGuild, CleansUpGuild,
        CleansUpSystems
  <2> QED
    BY <2>2, <2>3
<1>8. CASE TimePasses
  BY <1>1, <1>8 DEF TimePasses, MinutePasses
<1>9. CASE UNCHANGED vars
  BY <1>1, <1>9 DEF vars
<1> QED
  BY <1>2, <1>3, <1>4, <1>5, <1>6, <1>7, <1>8, <1>9 DEF Next

-----------------------------------------------------------------------------
(* The types of everything.                                                *)

CountersInv ==
    /\ commands \in 0..MaxCommands /\ changes \in 0..MaxChanges /\ failures \in 0..MaxFailures
    /\ owed \subseteq Guilds /\ heard \subseteq Guilds /\ disturbed \subseteq Systems

TypesInv == FollowsInv /\ TablesInv /\ DiscordInv /\ ServiceTypeOK /\ CommandInv /\ CountersInv

LEMMA TypedAtFirst == Init => TypesInv
<1> SUFFICES ASSUME Init PROVE TypesInv
  OBVIOUS
<1> DEFINE SetUp == {g \in Guilds : FirstSettings[g] # None}
           Following == {f[1] : f \in FirstFollows}
           known == {FirstSettings[g] : g \in SetUp} \union {f[2] : f \in FirstFollows}
<1>1. /\ guilds = [g \in Guilds |-> IF g \in SetUp \union Following THEN "present" ELSE "absent"]
      /\ systems = known /\ settings = FirstSettings
      /\ categories = [g \in Guilds |-> IF g \in SetUp THEN <<g, 1>> ELSE None]
      /\ notify_channels = [g \in Guilds |-> IF g \in Following THEN <<g, 2>> ELSE None]
      /\ follows = FirstFollows
      /\ saved = [s \in Systems |-> IF s \in known THEN {} ELSE None]
      /\ stale \in SetToSeqs(known) /\ fresh = <<>>
      /\ kind = [c \in Channels |->
                    CASE c[2] = 1 /\ c[1] \in SetUp -> "category"
                      [] c[2] = 2 /\ c[1] \in Following -> "text"
                      [] c[2] = 1 /\ c[1] \in Following \ SetUp -> "deleted"
                      [] OTHER -> "unused"]
      /\ shown = [c \in Channels |-> [m \in Members |-> 0]]
  BY DEF Init
<1>2. /\ pk_front = [s \in Systems |-> {}] /\ pk_status = [s \in Systems |-> "public"]
      /\ ServiceInit /\ cmd = [i \in Slots |-> Done]
      /\ commands = 0 /\ changes = 0 /\ failures = 0
      /\ owed = {} /\ heard = {} /\ disturbed = {}
  BY DEF Init
<1>3. FirstSettings \in [Guilds -> Systems \union {None}] /\ FirstFollows \subseteq Guilds \X Systems
  BY BoundsAssumption DEF BoundsAssumption
<1>4. {} \in Fronts /\ {} # None /\ ChannelIds \in Nat /\ ChannelIds >= 2 /\ IsFiniteSet(Systems)
  BY TablesAssumption DEF TablesAssumption
<1>5. \A g \in Guilds : <<g, 1>> \in Channels /\ <<g, 2>> \in Channels
  BY <1>4 DEF Channels
<1>6. known \subseteq Systems /\ IsFiniteSet(known)
  <2>1. known \subseteq Systems
    BY <1>3
  <2> QED
    BY <1>4, <2>1, FS_Subset
<1>7. FirstFollows \subseteq Following \X known /\ Following \subseteq Guilds
  BY <1>3
<1>8. /\ FirstSettings \in [Guilds -> known \union {None}]
      /\ \A g \in Guilds : g \notin SetUp => FirstSettings[g] = None
  BY <1>3
<1> HIDE DEF SetUp, Following, known
<1>9. RowsInv
  <2>1. /\ guilds \in [Guilds -> {"absent", "present", "left"}]
        /\ \A g \in Guilds : guilds[g] # "absent" <=> g \in SetUp \union Following
    BY <1>1
  <2>2. systems \subseteq Systems /\ settings \in [Guilds -> systems \union {None}]
    BY <1>1, <1>6, <1>8
  <2>3. categories \in [Guilds -> Channels \union {None}] /\ notify_channels \in [Guilds -> Channels \union {None}]
    BY <1>1, <1>5
  <2>4. follows \subseteq {g \in Guilds : guilds[g] # "absent"} \X systems
    BY <1>1, <1>7, <2>1
  <2>5. \A g \in Guilds : guilds[g] = "absent" =>
           settings[g] = None /\ categories[g] = None /\ notify_channels[g] = None
    BY <1>1, <1>8, <2>1
  <2>6. saved \in [Systems -> Fronts \union {None}] /\ \A s \in Systems \ systems : saved[s] = None
    BY <1>1, <1>4
  <2> QED
    BY <2>1, <2>2, <2>3, <2>4, <2>5, <2>6 DEF RowsInv
<1>10. OrderInv
  <2>1. Listing(stale, known) /\ ToSet(stale) = known
    BY <1>1, <1>6, Enumerated
  <2>2. Listing(stale, Systems)
    BY <1>6, <2>1 DEF Listing
  <2>3. Listing(fresh, Systems) /\ ToSet(fresh) = {}
    BY <1>1 DEF Listing, IsInjective, ToSet
  <2>4. {s \in systems : saved[s] # None} = known
    BY <1>1, <1>4, <1>6
  <2> QED
    BY <2>1, <2>2, <2>3, <2>4 DEF OrderInv
<1>11. DiscordInv
  BY <1>1 DEF DiscordInv
<1>12. ServiceTypeOK
  BY <1>2, <1>4 DEF ServiceTypeOK, ServiceInit, Statuses
<1>13. CommandInv
  BY <1>2, DoneFits DEF CommandInv
<1>14. CountersInv
  BY <1>2, BoundsAssumption DEF CountersInv, BoundsAssumption
<1> QED
  BY <1>9, <1>10, <1>11, <1>12, <1>13, <1>14, InitFollows DEF TypesInv, TablesInv

LEMMA CountersStay ==
    ASSUME TypesInv, CommandInv', [Next]_vars
    PROVE  CountersInv'
<1>1. /\ commands \in 0..MaxCommands /\ changes \in 0..MaxChanges /\ failures \in 0..MaxFailures
      /\ MaxCommands \in Nat /\ MaxChanges \in Nat /\ MaxFailures \in Nat
  BY BoundsAssumption DEF TypesInv, CountersInv, BoundsAssumption
<1>2. owed \subseteq Guilds /\ heard \subseteq Guilds /\ disturbed \subseteq Systems
  BY DEF TypesInv, CountersInv
<1>3. Reached \subseteq Guilds
  BY DEF Reached, InHand, TypesInv, FollowsInv, ForgetsDeleted, Channels
<1>4. ASSUME NEW list, list \subseteq Guilds PROVE StillOwed(list) \subseteq Guilds
  BY <1>4 DEF StillOwed
<1>5. CASE ServiceWorks
  <2>1. PICK list : list = IF pc = "saving" /\ System \in systems THEN NotifyGuildsForSystem(System) ELSE owed \ Reached
    OBVIOUS
  <2>2. list \subseteq Guilds
    BY <1>2, <2>1 DEF NotifyGuildsForSystem
  <2>3. owed' \subseteq Guilds
    BY <1>4, <1>5, <2>1, <2>2 DEF ServiceWorks
  <2> QED
    BY <1>1, <1>2, <1>3, <1>5, <2>3 DEF ServiceWorks, CountersInv, counters
<1>6. CASE ServiceHitsError
  <2>1. pc # "idle"
    BY <1>6, ErrorTyped DEF ServiceHitsError, ServiceFails, TypesInv
  <2>2. System \in Systems
    BY <2>1, InTheTables DEF TypesInv
  <2>3. owed' \subseteq owed
    BY <1>6 DEF ServiceHitsError
  <2> QED
    BY <1>1, <1>2, <1>6, <2>2, <2>3 DEF ServiceHitsError, CountersInv
<1>7. ASSUME NEW i \in Slots, CommandStarts(i) PROVE CountersInv'
  <2>1. PICK c : c = cmd'[i]
    OBVIOUS
  <2>2. c \in CommandType /\ CommandFits(c)
    BY <2>1 DEF CommandInv
  <2>3. StartCommand(i)
    BY <1>7 DEF CommandStarts
  <2>4. c.step # "done"
    <3>1. ASSUME NEW name, NEW g, NEW s, NEW ch, NEW step, Issue(i, name, g, s, ch, step), step # "done"
          PROVE  c.step # "done"
      <4>1. cmd' = [cmd EXCEPT ![i] = [Done EXCEPT !.name = name, !.guild = g, !.system = s,
                                                   !.channel = ch, !.step = step]]
        BY <3>1 DEF Issue
      <4>2. c = [Done EXCEPT !.name = name, !.guild = g, !.system = s, !.channel = ch, !.step = step]
        BY <2>1, <4>1 DEF TypesInv, CommandInv
      <4> QED
        BY <3>1, <4>2 DEF Done
    <3> QED
      BY <2>3, <3>1 DEF StartCommand, StartFrontersSetup, StartFrontersUpdate, StartNotifySetup, StartSetup,
          StartNotifyAdd, StartNotifyRemove
  <2>5. c.name \in {"setup", "fronters setup", "fronters update"} => c.system \in Systems
    BY <2>2, <2>4 DEF CommandFits
  <2>6. disturbed' = disturbed \/ (c.system \in Systems /\ disturbed' = disturbed \union {c.system})
    BY <1>7, <2>1, <2>5 DEF CommandStarts
  <2>7. disturbed' \subseteq Systems
    BY <1>2, <2>6
  <2>8. commands < MaxCommands /\ commands' = commands + 1 /\ UNCHANGED <<changes, failures, owed, heard>>
    BY <1>7 DEF CommandStarts
  <2> QED
    BY <1>1, <1>2, <2>7, <2>8 DEF CountersInv
<1>8. ASSUME NEW i \in Slots, CommandWorks(i) PROVE CountersInv'
  BY <1>1, <1>2, <1>4, <1>8 DEF CommandWorks, CountersInv, counters
<1>9. ASSUME NEW i \in Slots, CommandHitsError(i) PROVE CountersInv'
  BY <1>1, <1>2, <1>9 DEF CommandHitsError, CountersInv, history
<1>10. CASE WorldChanges
  <2>1. {settings[g] : g \in {h \in Guilds : guilds'[h] # guilds[h]}} \ {None} \subseteq Systems
    BY DEF TypesInv, TablesInv, RowsInv
  <2> QED
    BY <1>1, <1>2, <1>4, <1>10, <2>1 DEF WorldChanges, CountersInv
<1>11. CASE TimePasses \/ UNCHANGED vars
  BY <1>1, <1>2, <1>11 DEF TimePasses, vars, counters, history, CountersInv
<1> QED
  BY <1>5, <1>6, <1>7, <1>8, <1>9, <1>10, <1>11 DEF Next

LEMMA TypesStay == ASSUME TypesInv, [Next]_vars PROVE TypesInv'
<1>1. FollowsInv /\ RowsInv /\ OrderInv /\ DiscordInv /\ ServiceTypeOK /\ CommandInv
      /\ ChannelsKnown /\ ForgetsDeleted
  BY DEF TypesInv, TablesInv, FollowsInv
<1>2. FollowsInv'
  BY <1>1, FollowsStep
<1>3. TableStep
  BY <1>1, OneStatement
<1>4. RowsInv' /\ OrderInv'
  BY <1>1, <1>3, RowsStay, OrderStays
<1>5. DiscordInv'
  BY <1>1, DiscordStays, OneChangeAtDiscord
<1>6. CommandInv'
  <2>1. ASSUME NEW i \in Slots, CommandStarts(i) PROVE CommandInv'
    BY <1>1, <2>1, StartedFits DEF CommandStarts
  <2>2. ASSUME NEW i \in Slots, CommandWorks(i) PROVE CommandInv'
    <3>1. PkInv
      BY <1>1 DEF ServiceTypeOK, PkInv
    <3> QED
      BY <1>1, <2>2, <3>1, CommandStepFits DEF CommandWorks
  <2>3. ASSUME NEW i \in Slots, CommandHitsError(i) PROVE CommandInv'
    BY <1>1, <2>3, AnsweredFits DEF CommandHitsError, CommandFails
  <2>4. ASSUME cmd' = cmd PROVE CommandInv'
    BY <1>1, <2>4 DEF CommandInv
  <2> QED
    BY <2>1, <2>2, <2>3, <2>4 DEF Next, ServiceWorks, ServiceHitsError, WorldChanges, TimePasses, MinutePasses, vars
<1>7. ServiceTypeOK'
  <2>1. CASE ServiceWorks
    BY <1>1, <2>1, ServiceTyped DEF ServiceWorks, ForgetsDeleted
  <2>2. CASE ServiceHitsError
    BY <1>1, <2>2, ErrorTyped DEF ServiceHitsError, ServiceFails
  <2>3. ASSUME UNCHANGED <<pk_front, pk_status, serviceVars>> PROVE ServiceTypeOK'
    BY <1>1, <2>3 DEF ServiceTypeOK, serviceVars
  <2>4. CASE WorldChanges
    <3>1. PkInv'
      BY <1>1, <2>4 DEF WorldChanges, World, Switches, ChangesPrivacy, DeletesChannel, LeavesGuild,
          RejoinsGuild, CleansUpGuild, CleansUpSystems, pkVars, PkInv, ServiceTypeOK
    <3> QED
      BY <1>1, <2>4, <3>1 DEF WorldChanges, ServiceTypeOK, serviceVars, PkInv
  <2> QED
    BY <2>1, <2>2, <2>3, <2>4 DEF Next, CommandStarts, CommandWorks, CommandHitsError, TimePasses,
        MinutePasses, pkVars, vars
<1>8. CountersInv'
  BY <1>6, CountersStay
<1> QED
  BY <1>2, <1>4, <1>5, <1>6, <1>7, <1>8 DEF TypesInv, TablesInv

\* The tables keep the foreign keys of the migrations through every interleaving
\* of commands, the service, the tasks that remove rows, departures and errors; a
\* system with a saved front has one place in the order of updated_at; and what the
\* service and the commands have in hand are systems, guilds and channels there are.
THEOREM TablesAndTypes == Spec => []TypeOK
<1>1. Init => TypesInv
  BY TypedAtFirst
<1>2. TypesInv /\ [Next]_vars => TypesInv'
  BY TypesStay
<1>3. TypesInv => TypeOK
  <2> SUFFICES ASSUME TypesInv PROVE TypeOK
    OBVIOUS
  <2>1. RowsInv /\ OrderInv /\ DiscordInv /\ ServiceTypeOK /\ CommandInv /\ CountersInv
    BY DEF TypesInv, TablesInv
  <2>2. TablesTypeOK
    <3>1. /\ ToSet(stale \o fresh) = ToSet(stale) \union ToSet(fresh)
          /\ Len(stale \o fresh) = Cardinality(ToSet(stale \o fresh))
      BY <2>1, OneAfterTheOther DEF OrderInv
    <3>2. ToSet(stale \o fresh) = {s \in systems : saved[s] # None}
      BY <2>1, <3>1 DEF OrderInv
    <3> QED
      BY <2>1, <3>1, <3>2 DEF RowsInv, DiscordInv, TablesTypeOK
  <2>3. CommandsTypeOK
    BY <2>1 DEF CommandInv, CommandType, CommandsTypeOK
  <2>4. counters \in (0..MaxCommands) \X (0..MaxChanges) \X (0..MaxFailures)
    BY <2>1 DEF CountersInv, counters
  <2> QED
    BY <2>1, <2>2, <2>3, <2>4 DEF CountersInv, TypeOK
<1> QED BY <1>1, <1>2, <1>3, PTL DEF Spec
=============================================================================
