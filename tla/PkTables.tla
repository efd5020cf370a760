------------------------------ MODULE PkTables ------------------------------
(***************************************************************************)
(* What the front service and the commands of the PluralKit module share:  *)
(* the tables of postgres with their foreign keys, and the channels of     *)
(* Discord.  One operator per statement; where a row a foreign key needs   *)
(* is missing, the statement is refused (its guard fails).                 *)
(*                                                                         *)
(* A channel belongs to one guild and is never used again once deleted.  A *)
(* front is the set of its members: that their order shows in the position *)
(* of the channels is left out.  Channels of one name in one category are  *)
(* counted, not told apart.                                                *)
(***************************************************************************)
EXTENDS Naturals, FiniteSets, Sequences, SequencesExt

CONSTANTS
    Guilds,
    Systems,       \* systems of PluralKit, by uuid
    Members,       \* members of systems, by the name of their channel
    Fronts,        \* bound: the sets of members that may front
    ChannelIds,    \* channels a guild can ever have, one after the other
    TickLimit,     \* systems looked at in one tick, 5 in the code
    None           \* no row, NULL

ASSUME TablesAssumption ==
    /\ IsFiniteSet(Guilds) /\ IsFiniteSet(Systems) /\ IsFiniteSet(Members)
    /\ {} \in Fronts /\ Fronts \subseteq SUBSET Members /\ None \notin Fronts
    /\ TickLimit \in Nat \ {0}
    /\ ChannelIds \in Nat \ {0, 1}

VARIABLES
    guilds,          \* guilds: no row, deleted_at NULL, deleted_at set
    systems,         \* pk_systems
    settings,        \* pk_guilds: the system of each guild that was set up
    categories,      \* pk_fronters: the fronter category of each guild
    notify_channels, \* pk_notify_channels
    follows,         \* pk_notify_systems
    saved,           \* pk_system_fronters.fronters
    stale,           \* systems by pk_system_fronters.updated_at, over a minute ago
    fresh,           \* the same within the last minute
    kind,            \* Discord: what each channel is
    shown            \* Discord: the fronter channels in each category, by name

tableVars == <<guilds, systems, settings, categories, notify_channels, follows,
               saved, stale, fresh>>
discordVars == <<kind, shown>>

Channels == Guilds \X (1..ChannelIds)

-----------------------------------------------------------------------------
(* Queries.                                                                *)

Tracked(s) ==
    \E g \in Guilds :
        /\ guilds[g] = "present"
        /\ \/ <<g, s>> \in follows
           \/ settings[g] = s /\ categories[g] # None

NeverUpdated == {s \in systems : saved[s] = None}

\* Of a list without repetition the members of a set, in the order of the list.
Among(list, set) ==
    LET kept == {i \in DOMAIN list : list[i] \in set}
        place(i) == Cardinality({j \in kept : j <= i})
    IN  [k \in 1..Cardinality(kept) |-> list[CHOOSE i \in kept : place(i) = k]]

\* ORDER BY updated_at ASC NULLS FIRST LIMIT 5
SystemsToUpdate ==
    LET new == {s \in NeverUpdated : Tracked(s)}
        old == Among(stale, {s \in systems : Tracked(s)})
        limit(list) == SubSeq(list, 1, IF Len(list) < TickLimit THEN Len(list) ELSE TickLimit)
    IN  {limit(order \o old) : order \in SetToSeqs(new)}

CategoriesForSystem(s) == {categories[g] : g \in {h \in Guilds : settings[h] = s}} \ {None}

NotifyGuildsForSystem(s) == {g \in Guilds : <<g, s>> \in follows}

FollowCount(g) == Cardinality({s \in Systems : <<g, s>> \in follows})

-----------------------------------------------------------------------------
(* Statements.                                                             *)

\* INSERT ... ON CONFLICT DO UPDATE SET deleted_at = NULL
Touch(g) ==
    /\ guilds' = [guilds EXCEPT ![g] = "present"]
    /\ UNCHANGED <<systems, settings, categories, notify_channels, follows, saved, stale, fresh>>

UpdateSystem(s) ==
    /\ systems' = systems \union {s}
    /\ UNCHANGED <<guilds, settings, categories, notify_channels, follows, saved, stale, fresh>>

SaveGuildSettings(g, s) ==
    /\ guilds[g] # "absent" /\ s \in systems
    /\ settings' = [settings EXCEPT ![g] = s]
    /\ UNCHANGED <<guilds, systems, categories, notify_channels, follows, saved, stale, fresh>>

SaveFronterCategory(g, c) ==
    /\ guilds[g] # "absent"
    /\ categories' = [categories EXCEPT ![g] = c]
    /\ UNCHANGED <<guilds, systems, settings, notify_channels, follows, saved, stale, fresh>>

\* WHERE category_id = $1
DeleteFronterCategory(c) ==
    /\ categories' = [g \in Guilds |-> IF categories[g] = c THEN None ELSE categories[g]]
    /\ UNCHANGED <<guilds, systems, settings, notify_channels, follows, saved, stale, fresh>>

SaveNotifyChannel(g, c) ==
    /\ guilds[g] # "absent"
    /\ notify_channels' = [notify_channels EXCEPT ![g] = c]
    /\ UNCHANGED <<guilds, systems, settings, categories, follows, saved, stale, fresh>>

\* WHERE channel_id = $1
DeleteNotifyChannel(c) ==
    /\ notify_channels' =
          [g \in Guilds |-> IF notify_channels[g] = c THEN None ELSE notify_channels[g]]
    /\ UNCHANGED <<guilds, systems, settings, categories, follows, saved, stale, fresh>>

SetFollows(table) ==
    /\ follows' = table
    /\ UNCHANGED <<guilds, systems, settings, categories, notify_channels, saved, stale, fresh>>

DeleteNotifySystems(g) == SetFollows({f \in follows : f[1] # g})

RemoveNotifySystemFromGuilds(s, list) == SetFollows(follows \ (list \X {s}))

AddNotifySystem(g, s) ==
    /\ guilds[g] # "absent" /\ s \in systems
    /\ SetFollows(follows \union {<<g, s>>})

\* Puts the front in place, with updated_at the time of now.
UpdateFronters(s, front) ==
    /\ s \in systems
    /\ saved' = [saved EXCEPT ![s] = front]
    /\ stale' = Among(stale, Systems \ {s})
    /\ fresh' = Append(Among(fresh, Systems \ {s}), s)
    /\ UNCHANGED <<guilds, systems, settings, categories, notify_channels, follows>>

ResetFrontersTimestamp(s) == UpdateFronters(s, {})

\* A row inserted for the timestamp alone has no fronters.
UpdateFrontersTimestamp(s) == UpdateFronters(s, IF saved[s] = None THEN {} ELSE saved[s])

\* Systems no guild is set up with or follows; ON DELETE CASCADE to their front.
CleanupSystems ==
    LET unused == {s \in systems : (\A g \in Guilds : settings[g] # s)
                                   /\ NotifyGuildsForSystem(s) = {}}
    IN  /\ systems' = systems \ unused
        /\ saved' = [s \in Systems |-> IF s \in unused THEN None ELSE saved[s]]
        /\ stale' = Among(stale, systems \ unused)
        /\ fresh' = Among(fresh, systems \ unused)
        /\ UNCHANGED <<guilds, settings, categories, notify_channels, follows>>

DeleteGuildKeepingFollows(g) ==
    /\ guilds' = [guilds EXCEPT ![g] = "absent"]
    /\ settings' = [settings EXCEPT ![g] = None]
    /\ categories' = [categories EXCEPT ![g] = None]
    /\ notify_channels' = [notify_channels EXCEPT ![g] = None]
    /\ UNCHANGED <<systems, follows, saved, stale, fresh>>

\* The task guilds:cleanup of the core module; ON DELETE CASCADE to four tables.
DeleteGuild(g) ==
    /\ guilds' = [guilds EXCEPT ![g] = "absent"]
    /\ settings' = [settings EXCEPT ![g] = None]
    /\ categories' = [categories EXCEPT ![g] = None]
    /\ notify_channels' = [notify_channels EXCEPT ![g] = None]
    /\ follows' = {f \in follows : f[1] # g}
    /\ UNCHANGED <<systems, saved, stale, fresh>>

-----------------------------------------------------------------------------
(* Discord.                                                                *)

ChannelsOf(g) == {c \in Channels : c[1] = g}
NewChannel(g) == CHOOSE c \in ChannelsOf(g) : c[2] = 1 + Cardinality({d \in ChannelsOf(g) : kind[d] # "unused"})

CreateChannel(c, what) ==
    /\ kind[c] = "unused"
    /\ kind' = [kind EXCEPT ![c] = what]
    /\ UNCHANGED shown

\* The fronter channels of a deleted category have no parent any more.
RemoveChannel(c) ==
    /\ kind' = [kind EXCEPT ![c] = "deleted"]
    /\ shown' = [shown EXCEPT ![c] = [m \in Members |-> 0]]

Showing(c) == {m \in Members : shown[c][m] > 0}

\* update_fronter_channels: what to delete and what to create
DeleteFronters(c, front) == Showing(c) \ front
CreateFronters(c, front) == front \ Showing(c)

DeleteFronter(c, m) ==
    /\ shown[c][m] > 0 /\ guilds[c[1]] # "left"
    /\ shown' = [shown EXCEPT ![c][m] = @ - 1]
    /\ UNCHANGED kind

CreateFronter(c, m) ==
    /\ kind[c] = "category" /\ guilds[c[1]] # "left"
    /\ shown' = [shown EXCEPT ![c][m] = @ + 1]
    /\ UNCHANGED kind

\* The bot is not in the guild, a channel is deleted already, or its category is.
ChannelsRefused(c, delete, create) ==
    \/ guilds[c[1]] = "left" /\ delete \union create # {}
    \/ \E m \in delete : shown[c][m] = 0
    \/ kind[c] # "category" /\ delete = {} /\ create # {}

\* A category with one channel for each member of the front
Shows(c, front) == shown[c] = [m \in Members |-> IF m \in front THEN 1 ELSE 0]

-----------------------------------------------------------------------------
\* With the foreign keys of the migrations, and each system with a saved front
\* once in the order of updated_at.
TablesTypeOK ==
    /\ guilds \in [Guilds -> {"absent", "present", "left"}]
    /\ systems \subseteq Systems
    /\ settings \in [Guilds -> systems \union {None}]
    /\ categories \in [Guilds -> Channels \union {None}]
    /\ notify_channels \in [Guilds -> Channels \union {None}]
    /\ follows \subseteq {g \in Guilds : guilds[g] # "absent"} \X systems
    /\ \A g \in Guilds : guilds[g] = "absent" =>
           settings[g] = None /\ categories[g] = None /\ notify_channels[g] = None
    /\ saved \in [Systems -> Fronts \union {None}]
    /\ ToSet(stale \o fresh) = {s \in systems : saved[s] # None}
    /\ Len(stale \o fresh) = Cardinality(ToSet(stale \o fresh))
    /\ \A s \in Systems \ systems : saved[s] = None
    /\ kind \in [Channels -> {"unused", "text", "category", "deleted"}]
    /\ shown \in [Channels -> [Members -> Nat]]
=============================================================================
