---------------------------- MODULE FrontService ----------------------------
(***************************************************************************)
(* The service of the PluralKit module that carries switches from          *)
(* PluralKit into the database, the fronter categories and the             *)
(* notifications.  One action per awaited answer of PluralKit, Discord or  *)
(* postgres; three reads of Discord that only look at one category are one *)
(* action.                                                                 *)
(***************************************************************************)
EXTENDS PkTables

VARIABLES
    pk_front,   \* PluralKit: who fronts
    pk_status,  \* PluralKit: whether the front can be read
    pc,         \* what the service waits for
    todo,       \* the systems of this tick, the one being processed first
    switch,     \* the front PluralKit answered with
    change,     \* why the guilds are notified: a switch, a private front, no system
    work,       \* categories, then guilds, this system still has to be shown in
    at,         \* the category or notify channel being worked on
    delete,     \* fronter channels still to be deleted in the category
    create,     \* fronter channels still to be created in it
    told        \* guilds_successfully_notified

pkVars == <<pk_front, pk_status>>
localVars == <<switch, change, work, at, delete, create, told>>
serviceVars == <<pc, todo, switch, change, work, at, delete, create, told>>

Statuses == {"public", "private", "gone"}
System == Head(todo)

\* The end of process_system, with or without an error, and the next system.
Finish ==
    /\ todo' = Tail(todo)
    /\ pc' = IF Tail(todo) = <<>> THEN "idle" ELSE "asking"
    /\ switch' = {} /\ change' = None /\ work' = {} /\ at' = None
    /\ delete' = {} /\ create' = {} /\ told' = {}

\* Go on with the next of the rows, or with what follows the loop.
NextOf(rows, loop, after) ==
    /\ pc' = IF rows = {} THEN after ELSE loop
    /\ work' = rows /\ at' = None /\ delete' = {} /\ create' = {}
    /\ UNCHANGED <<todo, switch, change>>

NextCategory == NextOf(work \ {at}, "updating", "listingFollowers") /\ UNCHANGED told

\* The loop over the guilds ends with process_system, or before it in the
\* removal of the follows.
NextFollower(rest, heard) ==
    IF rest = {} /\ change = "switch"
    THEN Finish
    ELSE NextOf(rest, "telling", "unfollowing") /\ told' = heard

-----------------------------------------------------------------------------
Tick ==
    /\ pc = "idle"
    /\ todo' \in SystemsToUpdate
    /\ pc' = IF todo' = <<>> THEN "idle" ELSE "asking"
    /\ UNCHANGED <<localVars, tableVars, discordVars, pkVars>>

AskPluralKit ==
    /\ pc = "asking"
    /\ IF pk_status[System] = "public"
       THEN pc' = "comparing" /\ switch' = pk_front[System] /\ UNCHANGED change
       ELSE pc' = "stamping" /\ change' = pk_status[System] /\ UNCHANGED switch
    /\ UNCHANGED <<todo, work, at, delete, create, told, tableVars, discordVars, pkVars>>

DidFrontersChange ==
    /\ pc = "comparing"
    /\ IF saved[System] = None \/ saved[System] # switch
       THEN pc' = "saving" /\ change' = "switch"
       ELSE pc' = "stamping" /\ UNCHANGED change
    /\ UNCHANGED <<todo, switch, work, at, delete, create, told, tableVars, discordVars, pkVars>>

SaveFront ==
    /\ pc = "saving"
    /\ UpdateFronters(System, switch)
    /\ pc' = "listingCategories"
    /\ UNCHANGED <<todo, localVars, discordVars, pkVars>>

StampReadableOnly ==
    /\ pc = "stamping"
    /\ IF change = None
       THEN UpdateFrontersTimestamp(System) /\ Finish
       ELSE pc' = "listingFollowers" /\ UNCHANGED <<tableVars, todo, localVars>>
    /\ UNCHANGED <<discordVars, pkVars>>

StampOnly ==
    /\ pc = "stamping"
    /\ UpdateFrontersTimestamp(System)
    /\ IF change = None
       THEN Finish
       ELSE pc' = "listingFollowers" /\ UNCHANGED <<todo, localVars>>
    /\ UNCHANGED <<discordVars, pkVars>>

-----------------------------------------------------------------------------
(* update_fronter_categories                                               *)

ListCategories ==
    /\ pc = "listingCategories"
    /\ NextOf(CategoriesForSystem(System), "updating", "listingFollowers")
    /\ UNCHANGED <<told, tableVars, discordVars, pkVars>>

ReadCategory(c) ==
    /\ pc = "updating" /\ c \in work
    /\ guilds[c[1]] # "left"
    /\ at' = c
    /\ IF kind[c] = "category"
       THEN pc' = "changing" /\ delete' = DeleteFronters(c, switch)
                             /\ create' = CreateFronters(c, switch)
       ELSE pc' = "forgettingCategory" /\ UNCHANGED <<delete, create>>
    /\ UNCHANGED <<todo, switch, change, work, told, tableVars, discordVars, pkVars>>

ForgetCategory ==
    /\ pc = "forgettingCategory"
    /\ DeleteFronterCategory(at)
    /\ NextCategory
    /\ UNCHANGED <<discordVars, pkVars>>

ChangeCategory ==
    /\ pc = "changing"
    /\ \/ \E m \in delete : DeleteFronter(at, m) /\ delete' = delete \ {m} /\ UNCHANGED create
       \/ /\ delete = {}
          /\ \E m \in create : CreateFronter(at, m) /\ create' = create \ {m} /\ UNCHANGED delete
    /\ UNCHANGED <<pc, todo, switch, change, work, at, told, tableVars, pkVars>>

CategoryUpdated ==
    /\ pc = "changing" /\ delete = {} /\ create = {}
    /\ NextCategory
    /\ UNCHANGED <<tableVars, discordVars, pkVars>>

AbandonSystem(c) == Finish /\ UNCHANGED <<tableVars, discordVars, pkVars>>

AbandonCategory(c) ==
    /\ NextOf(work \ {c}, "updating", "listingFollowers")
    /\ UNCHANGED <<told, tableVars, discordVars, pkVars>>

\* An error of Discord or the database ends the update of this guild alone.
CategoryFails ==
    /\ pc \in {"updating", "changing", "forgettingCategory"}
    /\ \E c \in work : at \in {None, c} /\ AbandonCategory(c)

CategoryRefused ==
    \E c \in work :
        /\ \/ pc = "updating" /\ guilds[c[1]] = "left"
           \/ pc = "changing" /\ at = c /\ ChannelsRefused(c, delete, create)
        /\ AbandonCategory(c)

-----------------------------------------------------------------------------
(* notify_guilds_for_system, for guilds that left as well                  *)

ListFollowers ==
    /\ pc = "listingFollowers"
    /\ NextFollower(NotifyGuildsForSystem(System), {})
    /\ UNCHANGED <<tableVars, discordVars, pkVars>>

FindNotifyChannel(g) ==
    /\ pc = "telling" /\ g \in work
    /\ notify_channels[g] # None
    /\ at' = notify_channels[g]
    /\ pc' = "sending"
    /\ UNCHANGED <<todo, switch, change, work, delete, create, told, tableVars, discordVars, pkVars>>

SendNotification ==
    /\ pc = "sending"
    /\ kind[at] = "text" /\ guilds[at[1]] # "left"
    /\ NextFollower(work \ {at[1]}, told \union {at[1]})
    /\ UNCHANGED <<tableVars, discordVars, pkVars>>

UnknownChannel ==
    /\ pc = "sending"
    /\ kind[at] = "deleted" /\ guilds[at[1]] # "left"
    /\ pc' = "forgettingChannel"
    /\ UNCHANGED <<todo, localVars, tableVars, discordVars, pkVars>>

ForgetChannel ==
    /\ pc = "forgettingChannel"
    /\ DeleteNotifyChannel(at)
    /\ pc' = "forgettingSystems"
    /\ UNCHANGED <<todo, localVars, discordVars, pkVars>>

\* notify_guild returns Ok: the guild counts as told.
ForgetSystems ==
    /\ pc = "forgettingSystems"
    /\ DeleteNotifySystems(at[1])
    /\ NextFollower(work \ {at[1]}, told \union {at[1]})
    /\ UNCHANGED <<discordVars, pkVars>>

CountAsTold(g) ==
    /\ NextFollower(work \ {g}, told \union {g})
    /\ UNCHANGED <<tableVars, discordVars, pkVars>>

AbandonGuild(g) ==
    /\ NextFollower(work \ {g}, told)
    /\ UNCHANGED <<tableVars, discordVars, pkVars>>

\* An error ends the notification of this guild alone.
NotifyFails ==
    /\ pc \in {"telling", "sending", "forgettingChannel", "forgettingSystems"}
    /\ \E g \in work : (at # None => at[1] = g) /\ AbandonGuild(g)

\* No notify channel although the guild follows, or the bot is not there.
NotifyRefused ==
    \E g \in work :
        /\ \/ pc = "telling" /\ notify_channels[g] = None
           \/ pc = "sending" /\ at[1] = g /\ guilds[g] = "left"
        /\ AbandonGuild(g)

Unfollow ==
    /\ pc = "unfollowing"
    /\ RemoveNotifySystemFromGuilds(System, told)
    /\ Finish
    /\ UNCHANGED <<discordVars, pkVars>>

-----------------------------------------------------------------------------
\* An error of PluralKit or of a statement of the system itself: the system is
\* left as it is, and its updated_at too.
SystemFails ==
    /\ pc \in {"asking", "comparing", "saving", "stamping", "listingCategories",
               "listingFollowers", "unfollowing"}
    /\ Finish
    /\ UNCHANGED <<tableVars, discordVars, pkVars>>

\* The row of the system was cleaned up: the foreign key refuses its front.
SystemRefused ==
    /\ pc \in {"saving", "stamping"} /\ System \notin systems
    /\ Finish
    /\ UNCHANGED <<tableVars, discordVars, pkVars>>

\* The process ends in the middle of a tick and starts again.
ServiceRestarts ==
    /\ pc # "idle"
    /\ pc' = "idle" /\ todo' = <<>>
    /\ switch' = {} /\ change' = None /\ work' = {} /\ at' = None
    /\ delete' = {} /\ create' = {} /\ told' = {}
    /\ UNCHANGED <<tableVars, discordVars, pkVars>>

ServiceInit ==
    /\ pc = "idle" /\ todo = <<>>
    /\ switch = {} /\ change = None /\ work = {} /\ at = None
    /\ delete = {} /\ create = {} /\ told = {}

\* What the service does when nothing but the answers of the others hold it up.
ServiceStep ==
    \/ Tick \/ AskPluralKit \/ DidFrontersChange \/ SaveFront \/ StampOnly \/ SystemRefused
    \/ ListCategories \/ (\E c \in Channels : ReadCategory(c)) \/ ForgetCategory
    \/ ChangeCategory \/ CategoryUpdated \/ CategoryRefused
    \/ ListFollowers \/ (\E g \in Guilds : FindNotifyChannel(g)) \/ SendNotification
    \/ UnknownChannel \/ ForgetChannel \/ ForgetSystems \/ NotifyRefused \/ Unfollow

ServiceFails == CategoryFails \/ NotifyFails \/ SystemFails \/ ServiceRestarts

ServiceTypeOK ==
    /\ pk_front \in [Systems -> Fronts] /\ pk_status \in [Systems -> Statuses]
    /\ todo \in Seq(Systems) /\ (pc = "idle" <=> todo = <<>>)
    /\ switch \in Fronts /\ change \in {None, "switch", "private", "gone"}
    /\ work \subseteq Channels \/ work \subseteq Guilds
    /\ at \in Channels \union {None}
    /\ delete \subseteq Members /\ create \subseteq Members /\ told \subseteq Guilds
=============================================================================
