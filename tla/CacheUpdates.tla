---------------------------- MODULE CacheUpdates ----------------------------
(***************************************************************************)
(* What the cache does for an event of Discord (crates/tulpje-cache, event *)
(* and models): a series of redis commands, each awaited.  A read decides  *)
(* what follows it, so it stands for the function it begins: Then gives    *)
(* the commands that function goes on with.  A loop over a list of the     *)
(* event takes its items in any order.                                     *)
(***************************************************************************)
EXTENDS CacheStore

\* A function that begins with a read.
Call(function, guild, id, value) ==
    [do |-> function, guild |-> guild, id |-> id, value |-> value]

Loop(function, guild, items) ==
    IF items = {} THEN <<>>
    ELSE <<[do |-> "each", function |-> function, guild |-> guild, items |-> items]>>

MemberCalls == {"cache_member", "cache_borrowed_member", "update_member"}
GuildCalls == {"count_up", "count_down", "mark_unavailable", "update_guild",
               "remove_channels", "remove_emojis", "remove_roles", "remove_members"}

\* The objects of a list, each once, with their looks.
Lists(ids, looks) == {items \in SUBSET (ids \X looks) : \A a, b \in items : a[1] = b[1] => a = b}

Read ==
    [do : {"cache_user"}, guild : Guilds \union {None}, id : Users, value : {None}]
    \union [do : MemberCalls, guild : Guilds, id : Users, value : Looks]
    \union [do : {"remove_user_in_no_guild"}, guild : Guilds, id : Users, value : {None}]
    \union (UNION {[do : {"delete_channel", "update_pins"}, guild : {g}, id : At(g, Channels),
                    value : {None}] : g \in Guilds})
    \union (UNION {[do : {"cache_emoji"}, guild : {g}, id : At(g, Emojis), value : Looks] : g \in Guilds})
    \union (UNION {[do : {"cache_emojis"}, guild : {g}, items : Lists(At(g, Emojis), Looks)] : g \in Guilds})
    \union [do : GuildCalls, guild : Guilds, id : {None}, value : {None}]

\* The loops of a guild, by the function called for each item.
Loops(g) ==
    [do : {"each"}, function : {"cache_channel"}, guild : {g}, items : Lists(At(g, Channels), Looks)]
    \union [do : {"each"}, function : {"cache_role"}, guild : {g}, items : Lists(At(g, Roles), Looks)]
    \union [do : {"each"}, function : {"cache_emoji"}, guild : {g}, items : Lists(At(g, Emojis), Looks)]
    \union [do : {"each"}, function : {"cache_member"}, guild : {g}, items : Lists(Users, Looks)]

Each ==
    (UNION {Loops(g) : g \in Guilds})
    \union [do : {"each"}, function : {"unavailable_guild"}, guild : {None}, items : SUBSET (Guilds \X {None})]

Command == Write \union Read \union Each

-----------------------------------------------------------------------------
(* models/user.rs, models/member.rs *)

CacheUser(u, g) == <<Call("cache_user", g, u, None)>>

PutUser(u) == <<HSet(User(u), u)>>

TrackUser(u, g) == IF g = None THEN <<>> ELSE <<SAdd(UserGuilds(u), g)>>

CacheMember(g, u, v) == <<Call("cache_member", g, u, v)>>

PutMember(g, u, v) == <<HSet(Member(g, u), v), SAdd(GuildMembers(g), u)>>

PutBorrowedMemberUnlisted(g, u, v) == <<HSet(Member(g, u), v)>>

\* cache_borrowed_partial_member and cache_borrowed_interaction_member: what
\* these members leave out is taken from the cached one, or unset.
CacheBorrowedMember(g, u, v) == <<Call("cache_borrowed_member", g, u, v)>>

PutBorrowedMember(g, u, v) == <<SAdd(GuildMembers(g), u), HSet(Member(g, u), v)>>

UpdateMember(g, u, v) == <<Call("update_member", g, u, v)>>

\* MemberAdd and MemberRemove count before they do anything else.
AddMember(g, u, v) == <<Call("count_up", g, None, None)>> \o CacheMember(g, u, v)

RemoveMemberAndUser(g, u) ==
    <<Call("count_down", g, None, None), HDel({Member(g, u)}), SRem(GuildMembers(g), {u}),
      SRem(UserGuilds(u), {g}), HDel({User(u)})>>

RemoveMember(g, u) ==
    <<Call("count_down", g, None, None), HDel({Member(g, u)}), SRem(GuildMembers(g), {u}),
      SRem(UserGuilds(u), {g}), Call("remove_user_in_no_guild", g, u, None)>>

-----------------------------------------------------------------------------
(* models/channel.rs (threads are channels), models/role.rs, models/emoji.rs *)

CacheChannel(c, v) == <<SAdd(GuildChannels(Home[c]), c), HSet(Channel(c), v)>>

DeleteChannel(c) == <<Call("delete_channel", Home[c], c, None)>>

UpdatePins(c) == <<Call("update_pins", Home[c], c, None)>>

CacheRole(g, r, v) == <<SAdd(GuildRoles(g), r), HSet(Role(r), v)>>

DeleteRole(g, r) == <<HDel({Role(r)}), SRem(GuildRoles(g), {r})>>

\* items: the emojis of the guild, each with its looks
CacheEmojis(g, items) == <<[do |-> "cache_emojis", guild |-> g, items |-> items]>>

NoEmojisToRemove(g, items) == {}

EmojisToRemove(g, items) == {e \in sets[GuildEmojis(g)] : \A item \in items : item[1] # e}

CacheEmoji(g, e, v) ==
    (IF Creator[e] = None THEN <<>> ELSE CacheUser(Creator[e], g))
    \o <<Call("cache_emoji", g, e, v)>>

PutEmoji(g, e, v) == <<HSet(Emoji(e), v), SAdd(GuildEmojis(g), e)>>

-----------------------------------------------------------------------------
(* models/guild.rs *)

\* delete_guild(g, unavailable); remove_ids for one set of ids and its objects
DeleteGuild(g, unavailable) ==
    <<IF unavailable THEN Call("mark_unavailable", g, None, None) ELSE HDel({Guild(g)}),
      Call("remove_channels", g, None, None), Call("remove_emojis", g, None, None),
      Call("remove_roles", g, None, None), Call("remove_members", g, None, None)>>

UnavailableGuild(g) == <<SAdd(UnavailableGuilds, g)>> \o DeleteGuild(g, TRUE)

UpdateGuild(g) == <<Call("update_guild", g, None, None)>>

\* guild: the lists of the event, and its member_count
CacheGuildKeepingChannels(g, guild) ==
    Loop("cache_channel", g, guild.channels)
    \o CacheEmojis(g, guild.emojis)
    \o Loop("cache_member", g, guild.members)
    \o Loop("cache_role", g, guild.roles)
    \o <<SRem(UnavailableGuilds, {g}),
         HSet(Guild(g), [member_count |-> guild.member_count, unavailable |-> FALSE])>>

CacheGuild(g, guild) ==
    <<Del(GuildChannels(g))>>
    \o Loop("cache_channel", g, guild.channels)
    \o CacheEmojis(g, guild.emojis)
    \o Loop("cache_member", g, guild.members)
    \o Loop("cache_role", g, guild.roles)
    \o <<SRem(UnavailableGuilds, {g}),
         HSet(Guild(g), [member_count |-> guild.member_count, unavailable |-> FALSE])>>

\* guilds.get, changed and put back: nothing when the guild is unknown
PutGuild(g, record) ==
    IF hash[Guild(g)] = None THEN <<>> ELSE <<HSet(Guild(g), record)>>

BelowWrapping(n) == n - 1

Below(n) == IF n = 0 THEN 0 ELSE n - 1

-----------------------------------------------------------------------------
(* What follows a read, by the functions that begin with it: a set, as what *)
(* a user looks like is left out, so one that is cached may differ or not.  *)

AfterUserRead(c) ==
    {PutUser(c.id) \o TrackUser(c.id, c.guild)}
    \union (IF hash[User(c.id)] = None THEN {} ELSE {TrackUser(c.id, c.guild)})

AfterMemberRead(c) ==
    LET cached == hash[Member(c.guild, c.id)]
    IN  CASE c.do = "cache_member" /\ cached # c.value ->
                CacheUser(c.id, c.guild) \o PutMember(c.guild, c.id, c.value)
          [] c.do = "cache_borrowed_member" /\ cached # c.value ->
                PutBorrowedMember(c.guild, c.id, c.value)
          [] c.do = "update_member" /\ cached # None ->
                <<HSet(Member(c.guild, c.id), c.value)>> \o CacheUser(c.id, c.guild)
          [] OTHER -> <<>>

AfterTracksRead(c) == IF sets[UserGuilds(c.id)] = {} THEN <<HDel({User(c.id)})>> ELSE <<>>

AfterChannelRead(c) ==
    LET cached == hash[Channel(c.id)]
    IN  CASE c.do = "delete_channel" ->
                (IF cached = None THEN <<>> ELSE <<SRem(GuildChannels(c.guild), {c.id})>>)
                \o <<HDel({Channel(c.id)})>>
          [] c.do = "update_pins" /\ cached # None -> <<HSet(Channel(c.id), cached)>>
          [] OTHER -> <<>>

AfterEmojiRead(c) ==
    IF hash[Emoji(c.id)] = c.value THEN <<>> ELSE PutEmoji(c.guild, c.id, c.value)

AfterEmojiIdsRead(c) ==
    LET gone == EmojisToRemove(c.guild, c.items)
    IN  SRemMulti(GuildEmojis(c.guild), gone) \o HDelMulti({Emoji(e) : e \in gone})
        \o Loop("cache_emoji", c.guild, c.items)

AfterGuildRead(c) ==
    LET g == c.guild
        cached == hash[Guild(g)]
    IN  CASE c.do = "count_up" -> PutGuild(g, [cached EXCEPT !.member_count = @ + 1])
          [] c.do = "count_down" -> PutGuild(g, [cached EXCEPT !.member_count = Below(@)])
          [] c.do = "mark_unavailable" -> PutGuild(g, [cached EXCEPT !.unavailable = TRUE])
          [] c.do = "update_guild" -> PutGuild(g, cached)

\* delete_guild once it has read the ids of one kind; those of members it clears
AfterIdsRead(c) ==
    LET g == c.guild
    IN  CASE c.do = "remove_channels" -> HDelMulti({Channel(i) : i \in sets[GuildChannels(g)]})
          [] c.do = "remove_emojis" -> HDelMulti({Emoji(i) : i \in sets[GuildEmojis(g)]})
          [] c.do = "remove_roles" -> HDelMulti({Role(i) : i \in sets[GuildRoles(g)]})
          [] c.do = "remove_members" ->
                HDelMulti({Member(g, u) : u \in sets[GuildMembers(g)]}) \o <<Del(GuildMembers(g))>>

Then(c) ==
    CASE c.do = "cache_user"                        -> AfterUserRead(c)
      [] c.do \in MemberCalls                       -> {AfterMemberRead(c)}
      [] c.do = "remove_user_in_no_guild"           -> {AfterTracksRead(c)}
      [] c.do \in {"delete_channel", "update_pins"} -> {AfterChannelRead(c)}
      [] c.do = "cache_emoji"                       -> {AfterEmojiRead(c)}
      [] c.do = "cache_emojis"                      -> {AfterEmojiIdsRead(c)}
      [] c.do \in {"count_up", "count_down", "mark_unavailable", "update_guild"} ->
            {AfterGuildRead(c)}
      [] OTHER                                      -> {AfterIdsRead(c)}

\* What an item of a loop asks for.
Body(c, item) ==
    CASE c.function = "cache_channel"     -> CacheChannel(item[1], item[2])
      [] c.function = "cache_member"      -> CacheMember(c.guild, item[1], item[2])
      [] c.function = "cache_role"        -> CacheRole(c.guild, item[1], item[2])
      [] c.function = "cache_emoji"       -> CacheEmoji(c.guild, item[1], item[2])
      [] c.function = "unavailable_guild" -> UnavailableGuild(item[1])
=============================================================================
