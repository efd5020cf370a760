------------------------------- MODULE Cache -------------------------------
(***************************************************************************)
(* Handlers that keep the cache: each takes the next event of the queue    *)
(* when it has finished the one before, and carries out its series of      *)
(* commands (cache.update in the main loop of crates/tulpje-handler).  An  *)
(* error, or the end of the process, abandons the series.                  *)
(*                                                                         *)
(* An event is made as it is taken: the queue keeps the order of Discord,  *)
(* so what happens there may wait until a handler can be told.             *)
(***************************************************************************)
EXTENDS CacheUpdates

CONSTANTS
    Handlers,
    MaxEvents,    \* bound: events
    MaxFailures   \* bound: series abandoned

ASSUME BoundsAssumption == MaxEvents \in Nat /\ MaxFailures \in Nat

VARIABLES
    todo,       \* the commands each handler has still to send for its event
    \* Discord
    status,     \* of the bot in each guild: "in", "down" (in a guild that is not
                \* available, or not known to be), "out", "lost" (left untold)
    actual,     \* what the channels, roles and emojis look like
    joined,     \* the members of the guilds, and what they look like
    \* history
    about,      \* the guilds the event of each handler concerns
    created,    \* the guild it creates, if it is a GuildCreate
    told,       \* members that events have told of since the guild's GuildCreate
    repaired,   \* guilds whose events were carried out since a GuildCreate
    clean,      \* guilds all of whose events were carried out, from the first
    events, failures

handlerVars == <<todo, about, created>>
worldVars == <<status, actual, joined, told>>
vars == <<storeVars, handlerVars, worldVars, repaired, clean, events, failures>>

Init ==
    /\ StoreInit
    /\ todo = [h \in Handlers |-> <<>>]
    /\ status = [g \in Guilds |-> "out"]
    /\ \E v \in Looks : /\ actual = [t \in Things |-> v]
                      /\ joined = [m \in MemberIds |-> v]
    /\ about = [h \in Handlers |-> {}] /\ created = [h \in Handlers |-> None]
    /\ told = {} /\ repaired = {} /\ clean = Guilds
    /\ events = 0 /\ failures = 0

-----------------------------------------------------------------------------
(* A handler at work.                                                      *)

Doing(h, kinds) == todo[h] # <<>> /\ Head(todo[h]) \in kinds

\* The next item of a loop: no command yet.
NextItem(h) ==
    /\ Doing(h, Each)
    /\ LET c == Head(todo[h])
       IN  \E item \in c.items :
               todo' = [todo EXCEPT ![h] = Body(c, item)
                                           \o Loop(c.function, c.guild, c.items \ {item})
                                           \o Tail(@)]
    /\ UNCHANGED <<storeVars, about, created, worldVars, repaired, clean, events, failures>>

\* A GuildCreate carried out to its end accounts for its guild.
Repaired(h) ==
    IF todo'[h] = <<>> /\ created[h] # None THEN repaired \union {created[h]} ELSE repaired

Writes(h) ==
    /\ Doing(h, Write)
    /\ hash' = HashAfter(Head(todo[h])) /\ sets' = SetsAfter(Head(todo[h]))
    /\ todo' = [todo EXCEPT ![h] = Tail(@)]
    /\ repaired' = Repaired(h)
    /\ UNCHANGED <<about, created, worldVars, clean, events, failures>>

Reads(h) ==
    /\ Doing(h, Read)
    /\ \E next \in Then(Head(todo[h])) : todo' = [todo EXCEPT ![h] = next \o Tail(@)]
    /\ repaired' = Repaired(h)
    /\ UNCHANGED <<storeVars, about, created, worldVars, clean, events, failures>>

\* The error is logged and the event gone; a command without an answer may have
\* been carried out.
Fails(h) ==
    /\ failures < MaxFailures /\ failures' = failures + 1
    /\ Doing(h, Write \union Read)
    /\ \/ UNCHANGED storeVars
       \/ /\ Doing(h, Write)
          /\ hash' = HashAfter(Head(todo[h])) /\ sets' = SetsAfter(Head(todo[h]))
    /\ todo' = [todo EXCEPT ![h] = <<>>]
    /\ repaired' = repaired \ about[h] /\ clean' = clean \ about[h]
    /\ UNCHANGED <<about, created, worldVars, events>>

-----------------------------------------------------------------------------
(* Events.                                                                 *)

\* Handler h takes an event about guilds, and begins its series.
Takes(h, guilds, series) ==
    /\ events < MaxEvents /\ events' = events + 1
    /\ todo[h] = <<>>
    /\ todo' = [todo EXCEPT ![h] = series]
    /\ about' = [about EXCEPT ![h] = guilds]
    /\ UNCHANGED <<storeVars, failures>>

TakesChange(h, g, series) ==
    /\ status[g] = "in"
    /\ Takes(h, {g}, series)
    /\ created' = [created EXCEPT ![h] = None]
    /\ UNCHANGED <<status, repaired, clean>>

ThingsOf(kind, g) == {t \in kind : Home[t] = g /\ actual[t] # None}

MembersOf(g) == {u \in Users : joined[<<g, u>>] # None}

\* Channels, threads and roles: created, updated (v differs) or deleted (v = None).
ChannelChanges(h) ==
    \E c \in Channels, v \in Looks \union {None} :
        /\ v # actual[c]
        /\ actual' = [actual EXCEPT ![c] = v]
        /\ TakesChange(h, Home[c], IF v = None THEN DeleteChannel(c) ELSE CacheChannel(c, v))
        /\ UNCHANGED <<joined, told>>

PinsChange(h) ==
    \E c \in Channels :
        /\ actual[c] # None
        /\ TakesChange(h, Home[c], UpdatePins(c))
        /\ UNCHANGED <<actual, joined, told>>

RoleChanges(h) ==
    \E r \in Roles, v \in Looks \union {None} :
        /\ v # actual[r]
        /\ actual' = [actual EXCEPT ![r] = v]
        /\ TakesChange(h, Home[r], IF v = None THEN DeleteRole(Home[r], r)
                                   ELSE CacheRole(Home[r], r, v))
        /\ UNCHANGED <<joined, told>>

EmojiList(g) == {<<e, actual[e]>> : e \in ThingsOf(Emojis, g)}

\* The event has all emojis of the guild.
EmojisChange(h) ==
    \E e \in Emojis, v \in Looks \union {None} :
        /\ v # actual[e]
        /\ actual' = [actual EXCEPT ![e] = v]
        /\ TakesChange(h, Home[e], CacheEmojis(Home[e], EmojiList(Home[e])'))
        /\ UNCHANGED <<joined, told>>

GuildChanges(h) ==
    \E g \in Guilds :
        /\ TakesChange(h, g, UpdateGuild(g))
        /\ UNCHANGED <<actual, joined, told>>

MemberJoins(h) ==
    \E g \in Guilds, u \in Users, v \in Looks :
        /\ joined[<<g, u>>] = None
        /\ joined' = [joined EXCEPT ![<<g, u>>] = v] /\ told' = told \union {<<g, u>>}
        /\ TakesChange(h, g, AddMember(g, u, v))
        /\ UNCHANGED actual

MemberLeaves(h) ==
    \E g \in Guilds : \E u \in MembersOf(g) :
        /\ joined' = [joined EXCEPT ![<<g, u>>] = None] /\ told' = told \ {<<g, u>>}
        /\ TakesChange(h, g, RemoveMember(g, u))
        /\ UNCHANGED actual

MemberChanges(h) ==
    \E g \in Guilds, v \in Looks : \E u \in MembersOf(g) :
        /\ joined' = [joined EXCEPT ![<<g, u>>] = v]
        /\ TakesChange(h, g, UpdateMember(g, u, v))
        /\ UNCHANGED <<actual, told>>

\* VoiceStateUpdate, MemberChunk
MemberIsSeen(h) ==
    \E g \in Guilds : \E u \in MembersOf(g) :
        /\ told' = told \union {<<g, u>>}
        /\ TakesChange(h, g, CacheMember(g, u, joined[<<g, u>>]))
        /\ UNCHANGED <<actual, joined>>

\* MessageCreate, MessageUpdate, and the users a command refers to: one who is
\* no member (any more) comes without a member.
Mentioned(g, u) ==
    CacheUser(u, g) \o (IF u \in MembersOf(g) THEN CacheBorrowedMember(g, u, joined[<<g, u>>])
                        ELSE <<>>)

UserSpeaks(h) ==
    \E g \in Guilds, u \in Users :
        /\ told' = told \union ({<<g, u>>} \ {m \in MemberIds : joined[m] = None})
        /\ TakesChange(h, g, Mentioned(g, u))
        /\ UNCHANGED <<actual, joined>>

\* InteractionCreate in a guild, with a user and a role it refers to.
CommandIsGiven(h) ==
    \E g \in Guilds, other \in Users : \E u \in MembersOf(g), r \in ThingsOf(Roles, g) :
        /\ told' = told \union ({<<g, u>>, <<g, other>>} \ {m \in MemberIds : joined[m] = None})
        /\ TakesChange(h, g, Mentioned(g, u) \o Mentioned(g, other)
                             \o Loop("cache_role", g, {<<r, actual[r]>>}))
        /\ UNCHANGED <<actual, joined>>

\* A message or a command outside of guilds.
UserWrites(h) ==
    \E u \in Users :
        /\ Takes(h, {}, CacheUser(u, None))
        /\ created' = [created EXCEPT ![h] = None]
        /\ UNCHANGED <<worldVars, repaired, clean>>

-----------------------------------------------------------------------------
(* Guilds that come and go.                                                *)

ToldOutside(guilds) == {m \in told : m[1] \notin guilds}

\* What changes in guild g untold: at most one thing or member.
Unseen(g) ==
    \/ UNCHANGED <<actual, joined>>
    \/ /\ \E t \in {t \in Things : Home[t] = g}, v \in Looks \union {None} :
              v # actual[t] /\ actual' = [actual EXCEPT ![t] = v]
       /\ UNCHANGED joined
    \/ /\ \E u \in Users, v \in Looks \union {None} :
              v # joined[<<g, u>>] /\ joined' = [joined EXCEPT ![<<g, u>>] = v]
       /\ UNCHANGED actual

\* GuildCreate with the guild as it is by now, and some of its members.
GuildAppears(h) ==
    \E g \in Guilds :
        /\ status[g] # "in"
        /\ status' = [status EXCEPT ![g] = "in"]
        /\ Unseen(g)
        /\ \E listed \in SUBSET MembersOf(g)' :
              /\ told' = told \union ({g} \X listed)
              /\ Takes(h, {g}, CacheGuild(g,
                    [channels |-> {<<c, actual'[c]>> : c \in ThingsOf(Channels, g)'},
                     emojis |-> EmojiList(g)',
                     members |-> {<<u, joined'[<<g, u>>]>> : u \in listed},
                     roles |-> {<<r, actual'[r]>> : r \in ThingsOf(Roles, g)'},
                     member_count |-> Cardinality(MembersOf(g)')]))
        /\ created' = [created EXCEPT ![h] = g]
        /\ UNCHANGED <<repaired, clean>>

\* UnavailableGuild or a GuildCreate that says so; a GuildDelete that says so is
\* taken for that of a guild that was left.
GuildFails(h) ==
    \E g \in Guilds, deleted \in BOOLEAN :
        /\ status[g] = "in"
        /\ status' = [status EXCEPT ![g] = "down"]
        /\ told' = ToldOutside({g})
        /\ Takes(h, {g}, IF deleted THEN DeleteGuild(g, FALSE) ELSE UnavailableGuild(g))
        /\ created' = [created EXCEPT ![h] = None]
        /\ repaired' = repaired \ {g} /\ UNCHANGED <<actual, joined, clean>>

GuildIsLeft(h) ==
    \E g \in Guilds :
        /\ status[g] \in {"in", "down"}
        /\ status' = [status EXCEPT ![g] = "out"]
        /\ told' = ToldOutside({g})
        /\ Takes(h, {g}, DeleteGuild(g, FALSE))
        /\ created' = [created EXCEPT ![h] = None]
        /\ repaired' = repaired \ {g} /\ UNCHANGED <<actual, joined, clean>>

\* Ready: a session begins, with the guilds the bot is in; of those it left
\* meanwhile it is not told.
SessionBegins(h) ==
    \E left \in SUBSET {g \in Guilds : status[g] \in {"in", "down"}} :
        LET kept == {g \in Guilds : status[g] \in {"in", "down"}} \ left
        IN  /\ status' = [g \in Guilds |-> IF g \in left THEN "lost"
                                           ELSE IF g \in kept THEN "down" ELSE status[g]]
            /\ told' = ToldOutside(left \union kept)
            /\ Takes(h, Guilds, Loop("unavailable_guild", None, {<<g, None>> : g \in kept}))
            /\ created' = [created EXCEPT ![h] = None]
            /\ repaired' = repaired \ (left \union kept) /\ clean' = clean \ left
            /\ UNCHANGED <<actual, joined>>

EventIsTaken(h) ==
    \/ ChannelChanges(h) \/ PinsChange(h) \/ RoleChanges(h) \/ EmojisChange(h) \/ GuildChanges(h)
    \/ MemberJoins(h) \/ MemberLeaves(h) \/ MemberChanges(h) \/ MemberIsSeen(h)
    \/ UserSpeaks(h) \/ CommandIsGiven(h) \/ UserWrites(h)
    \/ GuildAppears(h) \/ GuildFails(h) \/ GuildIsLeft(h) \/ SessionBegins(h)

Next == \E h \in Handlers : NextItem(h) \/ Writes(h) \/ Reads(h) \/ Fails(h) \/ EventIsTaken(h)

Spec == Init /\ [][Next]_vars

-----------------------------------------------------------------------------
(* Properties.                                                             *)

WorldTypeOK ==
    /\ status \in [Guilds -> {"in", "down", "out", "lost"}]
    /\ actual \in [Things -> Looks \union {None}] /\ joined \in [MemberIds -> Looks \union {None}]
    /\ told \subseteq MemberIds /\ repaired \subseteq Guilds /\ clean \subseteq Guilds
    /\ about \in [Handlers -> SUBSET Guilds] /\ created \in [Handlers -> Guilds \union {None}]
    /\ events \in 0..MaxEvents /\ failures \in 0..MaxFailures

\* Types: every command is one of the cache's, with ids and values of its kind, and
\* every field and set holds what belongs there; a count of members never wraps.
TypeOK == StoreTypeOK /\ todo \in [Handlers -> Seq(Command)] /\ WorldTypeOK

Idle == \A h \in Handlers : todo[h] = <<>>

\* A cached member has a cached user, tracked in the guild, whatever fails at any
\* command: cache_member stores the user first, and MemberRemove forgets one only
\* when no guild tracks it (event/member.rs).
MembersHaveUsers ==
    \A g \in Guilds, u \in Users :
        hash[Member(g, u)] # None => hash[User(u)] # None /\ g \in sets[UserGuilds(u)]

\* The same between events only.  "user is in no tracked guils, we can remove them
\* from the cache completely" (event/member.rs:52).
TrackedUsersAreKept == Idle => MembersHaveUsers

GuildIsCurrent(g) ==
    LET record == hash[Guild(g)]
    IN  /\ record # None /\ ~record.unavailable /\ g \notin sets[UnavailableGuilds]
        /\ record.member_count = Cardinality(MembersOf(g))

\* Without failures and between events, the cache has of a guild exactly what
\* Discord told of it, found from either side: through outages, new sessions and
\* rejoins that leave sets of ids behind (models/guild.rs), lists of emojis, and
\* updates of what is not cached.  Ids of roles may outlive the roles.
CacheIsCurrent ==
    Idle => \A g \in clean : status[g] = "in" =>
            /\ GuildIsCurrent(g)
            /\ \A c \in Channels : Home[c] = g =>
                  hash[Channel(c)] = actual[c] /\ (c \in sets[GuildChannels(g)] <=> actual[c] # None)
            /\ \A e \in Emojis : Home[e] = g =>
                  hash[Emoji(e)] = actual[e] /\ (e \in sets[GuildEmojis(g)] <=> actual[e] # None)
            /\ \A r \in Roles : Home[r] = g =>
                  hash[Role(r)] = actual[r] /\ (actual[r] # None => r \in sets[GuildRoles(g)])
            /\ \A u \in Users :
                  IF <<g, u>> \in told
                  THEN hash[Member(g, u)] = joined[<<g, u>>] /\ u \in sets[GuildMembers(g)]
                  ELSE hash[Member(g, u)] = None /\ u \notin sets[GuildMembers(g)]

\* Without failures, nothing of a guild outlives the event that it is left: every
\* object it has is found by its id in a set of the guild (delete_guild).
LeftGuildIsGone ==
    Idle => \A g \in clean : status[g] = "out" =>
            /\ hash[Guild(g)] = None
            /\ \A c \in Channels : Home[c] = g => hash[Channel(c)] = None
            /\ \A e \in Emojis : Home[e] = g => hash[Emoji(e)] = None
            /\ \A r \in Roles : Home[r] = g => hash[Role(r)] = None
            /\ \A u \in Users : hash[Member(g, u)] = None

\* Whatever failed before it, a GuildCreate carried out and the events after it
\* make the guild current again: what exists is cached as it is, the channels are
\* those it has, and no emoji is listed that it has not.
CreateRepairs ==
    Idle => \A g \in repaired : status[g] = "in" =>
        /\ GuildIsCurrent(g)
        /\ \A t \in Things : Home[t] = g /\ actual[t] # None =>
              actual[t] = hash[CASE t \in Channels -> Channel(t)
                                 [] t \in Roles    -> Role(t)
                                 [] t \in Emojis   -> Emoji(t)]
        /\ sets[GuildChannels(g)] = ThingsOf(Channels, g)
        /\ ThingsOf(Roles, g) \subseteq sets[GuildRoles(g)]
        /\ sets[GuildEmojis(g)] \subseteq ThingsOf(Emojis, g)
        /\ \A u \in Users : <<g, u>> \in told => hash[Member(g, u)] = joined[<<g, u>>]
=============================================================================
