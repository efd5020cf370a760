---------------------------- MODULE CacheProofs ----------------------------
(***************************************************************************)
(* Proofs about Cache.                                                     *)
(***************************************************************************)
EXTENDS Cache, SequenceTheorems, FiniteSetTheorems, TLAPS

-----------------------------------------------------------------------------
(* Commands.                                                               *)

LEMMA WriteCases ==
    ASSUME NEW c \in Write
    PROVE  \/ c.do = "hset" /\ c.field \in ObjectFields /\ c.value \in Looks
           \/ c.do = "hset" /\ c.field \in GuildFields /\ c.value \in CachedGuild
           \/ c.do = "hset" /\ c.field \in UserFields /\ c.value \in Users
           \/ c.do = "hdel" /\ c.fields \subseteq Field
           \/ c.do = "sadd" /\ c.key \in Key /\ c.id \in IdsOf(c.key)
           \/ c.do = "srem" /\ c.key \in Key /\ c.ids \subseteq IdsOf(c.key)
           \/ c.do = "del" /\ c.key \in Key
  BY DEF Write

LEMMA FieldsApart ==
    /\ Field = ObjectFields \union GuildFields \union UserFields
    /\ ObjectFields \intersect GuildFields = {}
    /\ ObjectFields \intersect UserFields = {}
    /\ GuildFields \intersect UserFields = {}
  BY DEF Field, ObjectFields, GuildFields, UserFields

LEMMA WriteTypes ==
    ASSUME StoreTypeOK, NEW c \in Write,
           hash' = HashAfter(c), sets' = SetsAfter(c)
    PROVE  StoreTypeOK'
<1> USE DEF StoreTypeOK, HashAfter, SetsAfter
<1>1. CASE c.do = "hset" /\ c.field \in ObjectFields /\ c.value \in Looks
  BY <1>1, FieldsApart
<1>2. CASE c.do = "hset" /\ c.field \in GuildFields /\ c.value \in CachedGuild
  BY <1>2, FieldsApart
<1>3. CASE c.do = "hset" /\ c.field \in UserFields /\ c.value \in Users
  BY <1>3, FieldsApart
<1>4. CASE c.do = "hdel" /\ c.fields \subseteq Field
  BY <1>4, FieldsApart
<1>5. CASE c.do = "sadd" /\ c.key \in Key /\ c.id \in IdsOf(c.key)
  BY <1>5
<1>6. CASE c.do = "srem" /\ c.key \in Key /\ c.ids \subseteq IdsOf(c.key)
  BY <1>6
<1>7. CASE c.do = "del" /\ c.key \in Key
  BY <1>7
<1> QED
  BY <1>1, <1>2, <1>3, <1>4, <1>5, <1>6, <1>7, WriteCases

-----------------------------------------------------------------------------
(* Commands that neither store a member nor take a user away, and series.  *)

\* Commands that store a member without its user, ...
Stores(c, g, u) ==
    \/ c.do = "hset" /\ c.field = Member(g, u)
    \/ c.do = "cache_borrowed_member" /\ c.guild = g /\ c.id = u

\* ... that make sure of its user and of the guild as one of the user's, ...
GivesUser(c, u) ==
    \/ c.do = "hset" /\ c.field = User(u)
    \/ c.do = "cache_user" /\ c.id = u

GivesGuild(c, g, u) ==
    \/ c.do = "sadd" /\ c.key = UserGuilds(u) /\ c.id = g
    \/ c.do = "cache_user" /\ c.id = u /\ c.guild = g

\* ... and that may take either away.
Drops(c) ==
    \/ c.do = "hdel" /\ c.fields \intersect UserFields # {}
    \/ c.do \in {"srem", "del"} /\ \E u \in Users : c.key = UserGuilds(u)
    \/ c.do = "remove_user_in_no_guild"

Harmless ==
    {c \in Command : ~Drops(c) /\ \A g \in Guilds, u \in Users : ~Stores(c, g, u)}

MemberFields == {"members"} \X MemberIds
UserKeys == {"user_guilds"} \X Users

LEMMA HarmlessWrites ==
    /\ \A f \in ObjectFields \ MemberFields, v \in Looks : HSet(f, v) \in Harmless
    /\ \A f \in GuildFields, v \in CachedGuild : HSet(f, v) \in Harmless
    /\ \A u \in Users : HSet(User(u), u) \in Harmless
    /\ \A fields \in SUBSET (ObjectFields \union GuildFields) : HDel(fields) \in Harmless
    /\ \A k \in Key : \A id \in IdsOf(k) : SAdd(k, id) \in Harmless
    /\ \A k \in Key \ UserKeys : \A ids \in SUBSET IdsOf(k) : SRem(k, ids) \in Harmless
    /\ \A k \in Key \ UserKeys : Del(k) \in Harmless
<1> USE DEF Harmless, Command, Write, Drops, Stores
<1>1. \A f \in ObjectFields \ MemberFields, v \in Looks : HSet(f, v) \in Harmless
  BY DEF HSet, MemberFields, Member, MemberIds
<1>2. \A f \in GuildFields, v \in CachedGuild : HSet(f, v) \in Harmless
  BY DEF HSet, GuildFields, Member
<1>3. \A u \in Users : HSet(User(u), u) \in Harmless
  BY DEF HSet, UserFields, User, Member
<1>4. \A fields \in SUBSET (ObjectFields \union GuildFields) : HDel(fields) \in Harmless
  BY FieldsApart DEF HDel
<1>5. \A k \in Key : \A id \in IdsOf(k) : SAdd(k, id) \in Harmless
  BY DEF SAdd
<1>6. \A k \in Key \ UserKeys : \A ids \in SUBSET IdsOf(k) : SRem(k, ids) \in Harmless
  BY DEF SRem, UserKeys, UserGuilds
<1>7. \A k \in Key \ UserKeys : Del(k) \in Harmless
  BY DEF Del, UserKeys, UserGuilds
<1> QED
  BY <1>1, <1>2, <1>3, <1>4, <1>5, <1>6, <1>7

LEMMA HarmlessReads ==
    /\ \A g \in Guilds \union {None}, u \in Users : Call("cache_user", g, u, None) \in Harmless
    /\ \A g \in Guilds, u \in Users, v \in Looks :
          Call("cache_member", g, u, v) \in Harmless /\ Call("update_member", g, u, v) \in Harmless
    /\ \A g \in Guilds : \A c \in At(g, Channels) :
          Call("delete_channel", g, c, None) \in Harmless /\ Call("update_pins", g, c, None) \in Harmless
    /\ \A g \in Guilds, v \in Looks : \A e \in At(g, Emojis) : Call("cache_emoji", g, e, v) \in Harmless
    /\ \A g \in Guilds : \A items \in Lists(At(g, Emojis), Looks) :
          [do |-> "cache_emojis", guild |-> g, items |-> items] \in Harmless
    /\ \A f \in GuildCalls, g \in Guilds : Call(f, g, None, None) \in Harmless
  BY DEF Harmless, Command, Read, Drops, Stores, Call, MemberCalls, GuildCalls

LEMMA HarmlessEach == Each \subseteq Harmless
  BY DEF Harmless, Command, Each, Loops, Drops, Stores

LEMMA HarmlessLoops ==
    /\ \A g \in Guilds :
          /\ \A items \in Lists(At(g, Channels), Looks) : Loop("cache_channel", g, items) \in Seq(Harmless)
          /\ \A items \in Lists(At(g, Roles), Looks) : Loop("cache_role", g, items) \in Seq(Harmless)
          /\ \A items \in Lists(At(g, Emojis), Looks) : Loop("cache_emoji", g, items) \in Seq(Harmless)
          /\ \A items \in Lists(Users, Looks) : Loop("cache_member", g, items) \in Seq(Harmless)
    /\ \A items \in SUBSET (Guilds \X {None}) :
          Loop("unavailable_guild", None, items) \in Seq(Harmless)
  BY HarmlessEach DEF Each, Loops, Loop

\* Loops, by what they go through.
LEMMA EachCases ==
    ASSUME NEW c \in Each
    PROVE  /\ c.do = "each"
           /\ \/ /\ c.guild \in Guilds
                 /\ \/ c.function = "cache_channel" /\ c.items \in Lists(At(c.guild, Channels), Looks)
                    \/ c.function = "cache_role" /\ c.items \in Lists(At(c.guild, Roles), Looks)
                    \/ c.function = "cache_emoji" /\ c.items \in Lists(At(c.guild, Emojis), Looks)
                    \/ c.function = "cache_member" /\ c.items \in Lists(Users, Looks)
              \/ c.function = "unavailable_guild" /\ c.guild = None /\ c.items \in SUBSET (Guilds \X {None})
  BY DEF Each, Loops

LEMMA ListParts ==
    ASSUME NEW ids, NEW looks, NEW items \in Lists(ids, looks), NEW item \in items
    PROVE  /\ item = <<item[1], item[2]>> /\ item[1] \in ids /\ item[2] \in looks
           /\ items \ {item} \in Lists(ids, looks)
  BY DEF Lists

LEMMA HarmlessSeries ==
    /\ \A c \in Harmless : <<c>> \in Seq(Harmless)
    /\ \A s, t \in Seq(Harmless) : s \o t \in Seq(Harmless)
    /\ <<>> \in Seq(Harmless)
  OBVIOUS

LEMMA HarmlessUsers ==
    ASSUME NEW u \in Users
    PROVE  /\ \A g \in Guilds \union {None} : CacheUser(u, g) \in Seq(Harmless)
           /\ PutUser(u) \in Seq(Harmless)
           /\ \A g \in Guilds \union {None} : TrackUser(u, g) \in Seq(Harmless)
<1>1. \A g \in Guilds \union {None} : CacheUser(u, g) \in Seq(Harmless)
  BY HarmlessReads, HarmlessSeries DEF CacheUser
<1>2. PutUser(u) \in Seq(Harmless)
  BY HarmlessWrites, HarmlessSeries DEF PutUser
<1>3. \A g \in Guilds : UserGuilds(u) \in Key /\ g \in IdsOf(UserGuilds(u))
  BY DEF Key, IdsOf, UserGuilds
<1>4. \A g \in Guilds \union {None} : TrackUser(u, g) \in Seq(Harmless)
  BY <1>3, HarmlessWrites, HarmlessSeries DEF TrackUser
<1> QED
  BY <1>1, <1>2, <1>4

LEMMA HarmlessMembers ==
    ASSUME NEW g \in Guilds, NEW u \in Users, NEW v \in Looks
    PROVE  /\ CacheMember(g, u, v) \in Seq(Harmless)
           /\ UpdateMember(g, u, v) \in Seq(Harmless)
           /\ AddMember(g, u, v) \in Seq(Harmless)
  BY HarmlessReads, HarmlessSeries DEF CacheMember, UpdateMember, AddMember, GuildCalls

LEMMA HarmlessChannels ==
    ASSUME NEW c \in Channels, NEW v \in Looks
    PROVE  /\ CacheChannel(c, v) \in Seq(Harmless)
           /\ DeleteChannel(c) \in Seq(Harmless)
           /\ UpdatePins(c) \in Seq(Harmless)
<1>1. Home[c] \in Guilds
  BY CacheAssumption DEF Things
<1>2. /\ GuildChannels(Home[c]) \in Key /\ c \in IdsOf(GuildChannels(Home[c]))
      /\ Channel(c) \in ObjectFields \ MemberFields
      /\ c \in At(Home[c], Channels)
  BY <1>1 DEF GuildChannels, Key, IdsOf, At, Channel, ObjectFields, MemberFields
<1>3. CacheChannel(c, v) \in Seq(Harmless)
  BY <1>2, HarmlessWrites DEF CacheChannel
<1> QED
  BY <1>1, <1>2, <1>3, HarmlessReads DEF DeleteChannel, UpdatePins

LEMMA HarmlessRoles ==
    ASSUME NEW g \in Guilds, NEW r \in At(g, Roles)
    PROVE  /\ \A v \in Looks : CacheRole(g, r, v) \in Seq(Harmless)
           /\ DeleteRole(g, r) \in Seq(Harmless)
<1>1. /\ GuildRoles(g) \in Key \ UserKeys /\ IdsOf(GuildRoles(g)) = At(g, Roles)
      /\ Role(r) \in ObjectFields \ MemberFields
  BY DEF GuildRoles, Key, UserKeys, UnavailableGuilds, IdsOf, At, Role, ObjectFields, MemberFields
<1> QED
  BY <1>1, HarmlessWrites DEF CacheRole, DeleteRole

LEMMA HarmlessEmojis ==
    ASSUME NEW g \in Guilds
    PROVE  /\ \A items \in Lists(At(g, Emojis), Looks) : CacheEmojis(g, items) \in Seq(Harmless)
           /\ \A e \in At(g, Emojis), v \in Looks :
                 CacheEmoji(g, e, v) \in Seq(Harmless) /\ PutEmoji(g, e, v) \in Seq(Harmless)
<1>1. \A items \in Lists(At(g, Emojis), Looks) : CacheEmojis(g, items) \in Seq(Harmless)
  BY HarmlessReads DEF CacheEmojis
<1>2. ASSUME NEW e \in At(g, Emojis), NEW v \in Looks
      PROVE  CacheEmoji(g, e, v) \in Seq(Harmless) /\ PutEmoji(g, e, v) \in Seq(Harmless)
  <2>1. Creator[e] \in Users \union {None}
    BY CacheAssumption DEF At
  <2>2. CacheEmoji(g, e, v) \in Seq(Harmless)
    BY <2>1, HarmlessReads, HarmlessUsers, HarmlessSeries DEF CacheEmoji
  <2>3. /\ GuildEmojis(g) \in Key /\ e \in IdsOf(GuildEmojis(g))
        /\ Emoji(e) \in ObjectFields \ MemberFields
    BY DEF GuildEmojis, Key, IdsOf, At, Emoji, ObjectFields, MemberFields
  <2> QED
    BY <2>2, <2>3, HarmlessWrites DEF PutEmoji
<1> QED
  BY <1>1, <1>2

GuildList(g) ==
    [channels : Lists(At(g, Channels), Looks), emojis : Lists(At(g, Emojis), Looks),
     members : Lists(Users, Looks), roles : Lists(At(g, Roles), Looks), member_count : Nat]

LEMMA HarmlessGuilds ==
    ASSUME NEW g \in Guilds
    PROVE  /\ DeleteGuild(g, TRUE) \in Seq(Harmless) /\ DeleteGuild(g, FALSE) \in Seq(Harmless)
           /\ UnavailableGuild(g) \in Seq(Harmless)
           /\ UpdateGuild(g) \in Seq(Harmless)
           /\ \A guild \in GuildList(g) : CacheGuild(g, guild) \in Seq(Harmless)
<1>1. Guild(g) \in GuildFields
  BY DEF Guild, GuildFields
<1>2. HDel({Guild(g)}) \in Harmless
  BY <1>1, HarmlessWrites
<1>3. DeleteGuild(g, TRUE) \in Seq(Harmless) /\ DeleteGuild(g, FALSE) \in Seq(Harmless)
  BY <1>2, HarmlessReads DEF DeleteGuild, GuildCalls
<1>4. /\ UnavailableGuilds \in Key \ UserKeys /\ IdsOf(UnavailableGuilds) = Guilds
      /\ GuildChannels(g) \in Key \ UserKeys
  BY DEF UnavailableGuilds, GuildChannels, Key, UserKeys, IdsOf
<1>5. UnavailableGuild(g) \in Seq(Harmless)
  <2>1. SAdd(UnavailableGuilds, g) \in Harmless
    BY <1>4, HarmlessWrites
  <2> QED
    BY <2>1, <1>3, HarmlessSeries DEF UnavailableGuild
<1>6. UpdateGuild(g) \in Seq(Harmless)
  BY HarmlessReads DEF UpdateGuild, GuildCalls
<1>7. ASSUME NEW guild \in GuildList(g) PROVE CacheGuild(g, guild) \in Seq(Harmless)
  <2>1. <<Del(GuildChannels(g))>> \in Seq(Harmless)
    BY <1>4, HarmlessWrites
  <2>2. /\ Loop("cache_channel", g, guild.channels) \in Seq(Harmless)
        /\ CacheEmojis(g, guild.emojis) \in Seq(Harmless)
        /\ Loop("cache_member", g, guild.members) \in Seq(Harmless)
        /\ Loop("cache_role", g, guild.roles) \in Seq(Harmless)
    BY HarmlessLoops, HarmlessEmojis DEF GuildList
  <2>3. [member_count |-> guild.member_count, unavailable |-> FALSE] \in CachedGuild
    BY DEF GuildList, CachedGuild
  <2>4. <<SRem(UnavailableGuilds, {g}),
          HSet(Guild(g), [member_count |-> guild.member_count, unavailable |-> FALSE])>>
        \in Seq(Harmless)
    BY <1>1, <1>4, <2>3, HarmlessWrites
  <2> QED
    BY <2>1, <2>2, <2>4, HarmlessSeries DEF CacheGuild
<1> QED
  BY <1>3, <1>5, <1>6, <1>7

\* The item of a loop.
LEMMA HarmlessBodies ==
    ASSUME NEW c \in Each, NEW item \in c.items
    PROVE  /\ Body(c, item) \in Seq(Harmless)
           /\ Loop(c.function, c.guild, c.items \ {item}) \in Seq(Harmless)
<1> DEFINE rest == Loop(c.function, c.guild, c.items \ {item})
<1>1. ASSUME c.guild \in Guilds, c.function = "cache_channel", c.items \in Lists(At(c.guild, Channels), Looks)
      PROVE  Body(c, item) \in Seq(Harmless) /\ rest \in Seq(Harmless)
  <2>1. item[1] \in Channels /\ item[2] \in Looks /\ c.items \ {item} \in Lists(At(c.guild, Channels), Looks)
    <3>1. c.items \in Lists(At(c.guild, Channels), Looks)
      BY <1>1
    <3>2. item[1] \in At(c.guild, Channels) /\ item[2] \in Looks
          /\ c.items \ {item} \in Lists(At(c.guild, Channels), Looks)
      BY <3>1, ListParts
    <3> QED
      BY <3>2 DEF At
  <2> QED
    BY <1>1, <2>1, HarmlessChannels, HarmlessLoops DEF Body
<1>2. ASSUME c.guild \in Guilds, c.function = "cache_role", c.items \in Lists(At(c.guild, Roles), Looks)
      PROVE  Body(c, item) \in Seq(Harmless) /\ rest \in Seq(Harmless)
  BY <1>2, ListParts, HarmlessRoles, HarmlessLoops DEF Body
<1>3. ASSUME c.guild \in Guilds, c.function = "cache_emoji", c.items \in Lists(At(c.guild, Emojis), Looks)
      PROVE  Body(c, item) \in Seq(Harmless) /\ rest \in Seq(Harmless)
  BY <1>3, ListParts, HarmlessEmojis, HarmlessLoops DEF Body
<1>4. ASSUME c.guild \in Guilds, c.function = "cache_member", c.items \in Lists(Users, Looks)
      PROVE  Body(c, item) \in Seq(Harmless) /\ rest \in Seq(Harmless)
  BY <1>4, ListParts, HarmlessMembers, HarmlessLoops DEF Body
<1>5. ASSUME c.function = "unavailable_guild", c.guild = None, c.items \in SUBSET (Guilds \X {None})
      PROVE  Body(c, item) \in Seq(Harmless) /\ rest \in Seq(Harmless)
  BY <1>5, HarmlessGuilds, HarmlessLoops DEF Body
<1> QED
  BY <1>1, <1>2, <1>3, <1>4, <1>5, EachCases

-----------------------------------------------------------------------------
(* What follows a read.                                                    *)

LEMMA HarmlessUserRead ==
    ASSUME NEW u \in Users, NEW g \in Guilds \union {None},
           NEW next \in AfterUserRead(Call("cache_user", g, u, None))
    PROVE  next \in Seq(Harmless)
<1>1. next = PutUser(u) \o TrackUser(u, g) \/ next = TrackUser(u, g)
  BY DEF AfterUserRead, Call
<1>2. PutUser(u) \in Seq(Harmless) /\ TrackUser(u, g) \in Seq(Harmless)
  BY HarmlessUsers
<1>3. PutUser(u) \o TrackUser(u, g) \in Seq(Harmless)
  BY <1>2, HarmlessSeries
<1> QED
  BY <1>1, <1>2, <1>3

LEMMA HarmlessChannelRead ==
    ASSUME StoreTypeOK, NEW g \in Guilds, NEW c \in At(g, Channels),
           NEW f \in {"delete_channel", "update_pins"}
    PROVE  AfterChannelRead(Call(f, g, c, None)) \in Seq(Harmless)
<1>1. /\ GuildChannels(g) \in Key \ UserKeys /\ c \in IdsOf(GuildChannels(g))
      /\ Channel(c) \in ObjectFields \ MemberFields
  BY DEF GuildChannels, Key, UserKeys, UnavailableGuilds, IdsOf, At, Channel, ObjectFields, MemberFields
<1>2. SRem(GuildChannels(g), {c}) \in Harmless /\ HDel({Channel(c)}) \in Harmless
  BY <1>1, HarmlessWrites
<1>3. hash[Channel(c)] # None => HSet(Channel(c), hash[Channel(c)]) \in Harmless
  BY <1>1, HarmlessWrites DEF StoreTypeOK
<1>4. CASE f = "delete_channel"
  BY <1>2, <1>4, HarmlessSeries DEF AfterChannelRead, Call
<1>5. CASE f = "update_pins"
  BY <1>3, <1>5, HarmlessSeries DEF AfterChannelRead, Call
<1> QED
  BY <1>4, <1>5

LEMMA HarmlessEmojiReads ==
    ASSUME StoreTypeOK, NEW g \in Guilds
    PROVE  /\ \A e \in At(g, Emojis), v \in Looks :
                 AfterEmojiRead(Call("cache_emoji", g, e, v)) \in Seq(Harmless)
           /\ \A items \in Lists(At(g, Emojis), Looks) :
                 AfterEmojiIdsRead([do |-> "cache_emojis", guild |-> g, items |-> items])
                     \in Seq(Harmless)
<1>1. ASSUME NEW e \in At(g, Emojis), NEW v \in Looks
      PROVE  AfterEmojiRead(Call("cache_emoji", g, e, v)) \in Seq(Harmless)
  BY HarmlessEmojis, HarmlessSeries DEF AfterEmojiRead, Call
<1>2. ASSUME NEW items \in Lists(At(g, Emojis), Looks)
      PROVE  AfterEmojiIdsRead([do |-> "cache_emojis", guild |-> g, items |-> items])
                 \in Seq(Harmless)
  <2> DEFINE gone == EmojisToRemove(g, items)
  <2>1. GuildEmojis(g) \in Key \ UserKeys /\ IdsOf(GuildEmojis(g)) = At(g, Emojis)
    BY DEF GuildEmojis, Key, UserKeys, UnavailableGuilds, IdsOf
  <2>2. gone \subseteq At(g, Emojis)
    BY <2>1 DEF EmojisToRemove, StoreTypeOK
  <2>3. SRem(GuildEmojis(g), gone) \in Harmless
    BY <2>1, <2>2, HarmlessWrites
  <2>4. {Emoji(e) : e \in gone} \subseteq ObjectFields
    BY <2>2 DEF At, Emoji, ObjectFields
  <2>5. HDel({Emoji(e) : e \in gone}) \in Harmless
    BY <2>4, HarmlessWrites
  <2>6. SRemMulti(GuildEmojis(g), gone) \in Seq(Harmless)
    BY <2>3, HarmlessSeries DEF SRemMulti
  <2>7. HDelMulti({Emoji(e) : e \in gone}) \in Seq(Harmless)
    BY <2>5, HarmlessSeries DEF HDelMulti
  <2> QED
    BY <2>6, <2>7, HarmlessLoops, HarmlessSeries DEF AfterEmojiIdsRead
<1> QED
  BY <1>1, <1>2

LEMMA CachedGuildUpdates ==
    ASSUME NEW r \in CachedGuild
    PROVE  /\ [r EXCEPT !.member_count = @ + 1] \in CachedGuild
           /\ [r EXCEPT !.member_count = Below(@)] \in CachedGuild
           /\ [r EXCEPT !.unavailable = TRUE] \in CachedGuild
<1>1. r.member_count + 1 \in Nat /\ Below(r.member_count) \in Nat
  BY DEF CachedGuild, Below
<1> QED
  BY <1>1 DEF CachedGuild

LEMMA HarmlessGuildRead ==
    ASSUME StoreTypeOK, NEW g \in Guilds,
           NEW f \in {"count_up", "count_down", "mark_unavailable", "update_guild"}
    PROVE  AfterGuildRead(Call(f, g, None, None)) \in Seq(Harmless)
<1>1. Guild(g) \in GuildFields
  BY DEF Guild, GuildFields
<1>2. \A r \in CachedGuild : PutGuild(g, r) \in Seq(Harmless)
  BY <1>1, HarmlessWrites, HarmlessSeries DEF PutGuild
<1>3. CASE hash[Guild(g)] = None
  BY <1>3, HarmlessSeries DEF AfterGuildRead, PutGuild, Call
<1>4. CASE hash[Guild(g)] # None
  <2>1. hash[Guild(g)] \in CachedGuild
    BY <1>1, <1>4 DEF StoreTypeOK
  <2>2. /\ [hash[Guild(g)] EXCEPT !.member_count = @ + 1] \in CachedGuild
        /\ [hash[Guild(g)] EXCEPT !.member_count = Below(@)] \in CachedGuild
        /\ [hash[Guild(g)] EXCEPT !.unavailable = TRUE] \in CachedGuild
    BY <2>1, CachedGuildUpdates
  <2> QED
    BY <1>2, <2>1, <2>2 DEF AfterGuildRead, Call
<1> QED
  BY <1>3, <1>4

LEMMA HarmlessIdsRead ==
    ASSUME StoreTypeOK, NEW g \in Guilds,
           NEW f \in {"remove_channels", "remove_emojis", "remove_roles", "remove_members"}
    PROVE  AfterIdsRead(Call(f, g, None, None)) \in Seq(Harmless)
<1>1. \A fields \in SUBSET ObjectFields : HDelMulti(fields) \in Seq(Harmless)
  BY HarmlessWrites, HarmlessSeries DEF HDelMulti
<1>2. /\ sets[GuildChannels(g)] \subseteq Channels /\ sets[GuildEmojis(g)] \subseteq Emojis
      /\ sets[GuildRoles(g)] \subseteq Roles /\ sets[GuildMembers(g)] \subseteq Users
  BY DEF StoreTypeOK, GuildChannels, GuildEmojis, GuildRoles, GuildMembers, Key, IdsOf, At
<1>3. /\ {Channel(i) : i \in sets[GuildChannels(g)]} \subseteq ObjectFields
      /\ {Emoji(i) : i \in sets[GuildEmojis(g)]} \subseteq ObjectFields
      /\ {Role(i) : i \in sets[GuildRoles(g)]} \subseteq ObjectFields
      /\ {Member(g, u) : u \in sets[GuildMembers(g)]} \subseteq ObjectFields
  BY <1>2 DEF Channel, Emoji, Role, Member, ObjectFields, MemberIds
<1>4. Del(GuildMembers(g)) \in Harmless
  BY HarmlessWrites DEF GuildMembers, Key, UserKeys, UnavailableGuilds
<1>5. CASE f = "remove_channels"
  BY <1>1, <1>3, <1>5 DEF AfterIdsRead, Call
<1>6. CASE f = "remove_emojis"
  BY <1>1, <1>3, <1>6 DEF AfterIdsRead, Call
<1>7. CASE f = "remove_roles"
  BY <1>1, <1>3, <1>7 DEF AfterIdsRead, Call
<1>8. CASE f = "remove_members"
  BY <1>1, <1>3, <1>4, <1>8, HarmlessSeries DEF AfterIdsRead, Call
<1> QED
  BY <1>5, <1>6, <1>7, <1>8

LEMMA ReadCases ==
    ASSUME NEW c \in Read
    PROVE  \/ \E g \in Guilds \union {None}, u \in Users : c = Call("cache_user", g, u, None)
           \/ \E f \in MemberCalls, g \in Guilds, u \in Users, v \in Looks : c = Call(f, g, u, v)
           \/ \E g \in Guilds, u \in Users : c = Call("remove_user_in_no_guild", g, u, None)
           \/ \E f \in {"delete_channel", "update_pins"}, g \in Guilds : \E i \in At(g, Channels) :
                 c = Call(f, g, i, None)
           \/ \E g \in Guilds : \E e \in At(g, Emojis), v \in Looks : c = Call("cache_emoji", g, e, v)
           \/ \E g \in Guilds : \E items \in Lists(At(g, Emojis), Looks) :
                 c = [do |-> "cache_emojis", guild |-> g, items |-> items]
           \/ \E f \in GuildCalls, g \in Guilds : c = Call(f, g, None, None)
  BY DEF Read, Call

\* The reads whose continuation stores a member or takes a user away.
MemberReads == MemberCalls \union {"remove_user_in_no_guild"}

LEMMA HarmlessThen ==
    ASSUME StoreTypeOK, NEW c \in Read, c.do \notin MemberReads, NEW next \in Then(c)
    PROVE  next \in Seq(Harmless)
<1> USE DEF MemberReads, MemberCalls
<1>1. CASE \E g \in Guilds \union {None}, u \in Users : c = Call("cache_user", g, u, None)
  BY <1>1, HarmlessUserRead DEF Then, Call
<1>2. CASE \E f \in {"delete_channel", "update_pins"}, g \in Guilds : \E i \in At(g, Channels) :
              c = Call(f, g, i, None)
  <2> PICK f \in {"delete_channel", "update_pins"}, g \in Guilds :
               \E i \in At(g, Channels) : c = Call(f, g, i, None)
    BY <1>2
  <2> PICK i \in At(g, Channels) : c = Call(f, g, i, None)
    OBVIOUS
  <2>1. AfterChannelRead(c) \in Seq(Harmless)
    BY HarmlessChannelRead
  <2>2. Then(c) = {AfterChannelRead(c)}
    BY DEF Then, Call
  <2> QED
    BY <2>1, <2>2
<1>3. CASE \E g \in Guilds : \E e \in At(g, Emojis), v \in Looks : c = Call("cache_emoji", g, e, v)
  BY <1>3, HarmlessEmojiReads DEF Then, Call
<1>4. CASE \E g \in Guilds : \E items \in Lists(At(g, Emojis), Looks) :
              c = [do |-> "cache_emojis", guild |-> g, items |-> items]
  BY <1>4, HarmlessEmojiReads DEF Then, Call
<1>5. CASE \E f \in GuildCalls, g \in Guilds : c = Call(f, g, None, None)
  <2> PICK f \in GuildCalls, g \in Guilds : c = Call(f, g, None, None)
    BY <1>5
  <2>1. CASE f \in {"count_up", "count_down", "mark_unavailable", "update_guild"}
    BY <2>1, HarmlessGuildRead DEF Then, Call
  <2>2. CASE f \in {"remove_channels", "remove_emojis", "remove_roles", "remove_members"}
    BY <2>2, HarmlessIdsRead DEF Then, Call
  <2> QED
    BY <2>1, <2>2 DEF GuildCalls
<1> QED
  BY <1>1, <1>2, <1>3, <1>4, <1>5, ReadCases DEF Call

\* What the others go on with.
LEMMA MemberThen ==
    ASSUME NEW g \in Guilds, NEW u \in Users, NEW v \in Looks
    PROVE  /\ \A next \in Then(Call("cache_member", g, u, v)) :
                 \/ next = <<>>
                 \/ next = <<Call("cache_user", g, u, None), HSet(Member(g, u), v),
                             SAdd(GuildMembers(g), u)>>
           /\ \A next \in Then(Call("cache_borrowed_member", g, u, v)) :
                 \/ next = <<>>
                 \/ next = <<SAdd(GuildMembers(g), u), HSet(Member(g, u), v)>>
           /\ \A next \in Then(Call("update_member", g, u, v)) :
                 \/ next = <<>>
                 \/ /\ hash[Member(g, u)] # None
                    /\ next = <<HSet(Member(g, u), v), Call("cache_user", g, u, None)>>
           /\ \A next \in Then(Call("remove_user_in_no_guild", g, u, None)) :
                 \/ next = <<>>
                 \/ sets[UserGuilds(u)] = {} /\ next = <<HDel({User(u)})>>
<1> USE DEF Then, Call, MemberCalls
<1>1. \A next \in Then(Call("cache_member", g, u, v)) :
         \/ next = <<>>
         \/ next = <<Call("cache_user", g, u, None), HSet(Member(g, u), v),
                     SAdd(GuildMembers(g), u)>>
  BY DEF AfterMemberRead, CacheUser, PutMember
<1>2. \A next \in Then(Call("cache_borrowed_member", g, u, v)) :
         \/ next = <<>>
         \/ next = <<SAdd(GuildMembers(g), u), HSet(Member(g, u), v)>>
  BY DEF AfterMemberRead, PutBorrowedMember
<1>3. \A next \in Then(Call("update_member", g, u, v)) :
         \/ next = <<>>
         \/ /\ hash[Member(g, u)] # None
            /\ next = <<HSet(Member(g, u), v), Call("cache_user", g, u, None)>>
  BY DEF AfterMemberRead, CacheUser
<1>4. \A next \in Then(Call("remove_user_in_no_guild", g, u, None)) :
         \/ next = <<>>
         \/ sets[UserGuilds(u)] = {} /\ next = <<HDel({User(u)})>>
  BY DEF AfterTracksRead
<1> QED
  BY <1>1, <1>2, <1>3, <1>4

LEMMA MemberRemovalCommands ==
    ASSUME NEW g \in Guilds, NEW u \in Users
    PROVE  /\ HDel({Member(g, u)}) \in Command /\ SRem(UserGuilds(u), {g}) \in Command
           /\ HDel({User(u)}) \in Command
           /\ Call("remove_user_in_no_guild", g, u, None) \in Command
           /\ SAdd(GuildMembers(g), u) \in Harmless /\ SRem(GuildMembers(g), {u}) \in Harmless
           /\ Call("cache_user", g, u, None) \in Harmless
           /\ Call("count_down", g, None, None) \in Harmless
<1>1. /\ Member(g, u) \in ObjectFields /\ User(u) \in UserFields
      /\ UserGuilds(u) \in Key /\ g \in IdsOf(UserGuilds(u))
      /\ GuildMembers(g) \in Key \ UserKeys /\ u \in IdsOf(GuildMembers(g))
  BY DEF Member, MemberIds, ObjectFields, User, UserFields, UserGuilds, GuildMembers,
         UserKeys, UnavailableGuilds, Key, IdsOf
<1>2. /\ HDel({Member(g, u)}) \in Command
      /\ SRem(UserGuilds(u), {g}) \in Command /\ HDel({User(u)}) \in Command
  BY <1>1, FieldsApart DEF HDel, SRem, Command, Write
<1>3. Call("remove_user_in_no_guild", g, u, None) \in Command
  BY DEF Command, Read, Call, MemberCalls
<1>4. SAdd(GuildMembers(g), u) \in Harmless /\ SRem(GuildMembers(g), {u}) \in Harmless
  BY <1>1, HarmlessWrites
<1> QED
  BY <1>2, <1>3, <1>4, HarmlessReads DEF GuildCalls

LEMMA MemberCommands ==
    ASSUME NEW g \in Guilds, NEW u \in Users, NEW v \in Looks
    PROVE  /\ HSet(Member(g, u), v) \in Command
           /\ Call("cache_borrowed_member", g, u, v) \in Command
<1>1. Member(g, u) \in ObjectFields
  BY DEF Member, MemberIds, ObjectFields
<1>2. HSet(Member(g, u), v) \in Command
  BY <1>1 DEF HSet, Command, Write
<1>3. Call("cache_borrowed_member", g, u, v) \in Command
  BY DEF Command, Read, Call, MemberCalls
<1> QED
  BY <1>2, <1>3

LEMMA HarmlessIsCommand == Harmless \subseteq Command /\ Seq(Harmless) \subseteq Seq(Command)
<1>1. Harmless \subseteq Command
  BY DEF Harmless
<1> QED
  BY <1>1

LEMMA CommandSeries ==
    /\ <<>> \in Seq(Command)
    /\ \A a \in Command : <<a>> \in Seq(Command)
    /\ \A a, b \in Command : <<a, b>> \in Seq(Command)
    /\ \A a, b, c \in Command : <<a, b, c>> \in Seq(Command)
  OBVIOUS

LEMMA MemberReadCases ==
    ASSUME NEW c \in Read, c.do \in MemberReads
    PROVE  \/ \E f \in MemberCalls, g \in Guilds, u \in Users, v \in Looks : c = Call(f, g, u, v)
           \/ \E g \in Guilds, u \in Users : c = Call("remove_user_in_no_guild", g, u, None)
  BY ReadCases DEF MemberReads, MemberCalls, GuildCalls, Call

LEMMA ThenTypes ==
    ASSUME StoreTypeOK, NEW c \in Read, NEW next \in Then(c)
    PROVE  next \in Seq(Command)
<1>1. CASE c.do \notin MemberReads
  BY <1>1, HarmlessThen, HarmlessIsCommand
<1>2. ASSUME NEW f \in MemberCalls, NEW g \in Guilds, NEW u \in Users, NEW v \in Looks,
             c = Call(f, g, u, v)
      PROVE  next \in Seq(Command)
  <2>1. /\ HSet(Member(g, u), v) \in Command /\ SAdd(GuildMembers(g), u) \in Command
        /\ Call("cache_user", g, u, None) \in Command
    BY MemberCommands, MemberRemovalCommands, HarmlessIsCommand
  <2>2. CASE f = "cache_member"
    <3>1. next \in Then(Call("cache_member", g, u, v))
      BY <1>2, <2>2
    <3>2. next = <<>> \/ next = <<Call("cache_user", g, u, None), HSet(Member(g, u), v),
                                     SAdd(GuildMembers(g), u)>>
      BY <3>1, MemberThen
    <3> QED
      BY <2>1, <3>2, CommandSeries
  <2>3. CASE f = "cache_borrowed_member"
    <3>1. next \in Then(Call("cache_borrowed_member", g, u, v))
      BY <1>2, <2>3
    <3>2. next = <<>> \/ next = <<SAdd(GuildMembers(g), u), HSet(Member(g, u), v)>>
      BY <3>1, MemberThen
    <3> QED
      BY <2>1, <3>2, CommandSeries
  <2>4. CASE f = "update_member"
    <3>1. next \in Then(Call("update_member", g, u, v))
      BY <1>2, <2>4
    <3>2. next = <<>> \/ next = <<HSet(Member(g, u), v), Call("cache_user", g, u, None)>>
      BY <3>1, MemberThen
    <3> QED
      BY <2>1, <3>2, CommandSeries
  <2> QED
    BY <2>2, <2>3, <2>4 DEF MemberCalls
<1>3. ASSUME NEW g \in Guilds, NEW u \in Users, c = Call("remove_user_in_no_guild", g, u, None)
      PROVE  next \in Seq(Command)
  <2>1. next = <<>> \/ next = <<HDel({User(u)})>>
    BY <1>3 DEF Then, AfterTracksRead, Call, MemberCalls
  <2>2. HDel({User(u)}) \in Command
    BY FieldsApart DEF HDel, Command, Write, User, UserFields
  <2> QED
    BY <2>1, <2>2, CommandSeries
<1> QED
  BY <1>1, <1>2, <1>3, MemberReadCases

-----------------------------------------------------------------------------
(* Types.                                                                  *)

RemovalSeries == {RemoveMember(g, u) : g \in Guilds, u \in Users}

TwoMentions(g, u, v) == {Mentioned(g, u) \o Mentioned(g, v) \o rest : rest \in Seq(Harmless)}

\* UserSpeaks and CommandIsGiven: each member comes after its user.
MentionSeries ==
    {Mentioned(g, u) : g \in Guilds, u \in Users}
    \union UNION {TwoMentions(g, u, v) : g \in Guilds, u \in Users, v \in Users}

LEMMA TwoAreMentioned ==
    ASSUME NEW g \in Guilds, NEW u \in Users, NEW v \in Users, NEW rest \in Seq(Harmless)
    PROVE  Mentioned(g, u) \o Mentioned(g, v) \o rest \in MentionSeries
<1>1. Mentioned(g, u) \o Mentioned(g, v) \o rest \in TwoMentions(g, u, v)
  BY DEF TwoMentions
<1>2. TwoMentions(g, u, v) \in {TwoMentions(x, y, z) : x \in Guilds, y \in Users, z \in Users}
  OBVIOUS
<1> QED
  BY <1>1, <1>2 DEF MentionSeries

LEMMA MembersAreUsers == \A g \in Guilds : MembersOf(g) \subseteq Users
  BY DEF MembersOf

LEMMA ListsOfTheGuild ==
    ASSUME actual \in [Things -> Looks \union {None}], joined \in [MemberIds -> Looks \union {None}],
           NEW g \in Guilds
    PROVE  /\ EmojiList(g) \in Lists(At(g, Emojis), Looks)
           /\ {<<c, actual[c]>> : c \in ThingsOf(Channels, g)} \in Lists(At(g, Channels), Looks)
           /\ {<<r, actual[r]>> : r \in ThingsOf(Roles, g)} \in Lists(At(g, Roles), Looks)
           /\ \A listed \in SUBSET MembersOf(g) :
                 {<<u, joined[<<g, u>>]>> : u \in listed} \in Lists(Users, Looks)
           /\ Cardinality(MembersOf(g)) \in Nat
<1>1. Channels \subseteq Things /\ Roles \subseteq Things /\ Emojis \subseteq Things
  BY DEF Things
<1>2. EmojiList(g) \in Lists(At(g, Emojis), Looks)
  BY <1>1 DEF EmojiList, ThingsOf, Lists, At
<1>3. {<<c, actual[c]>> : c \in ThingsOf(Channels, g)} \in Lists(At(g, Channels), Looks)
  BY <1>1 DEF ThingsOf, Lists, At
<1>4. {<<r, actual[r]>> : r \in ThingsOf(Roles, g)} \in Lists(At(g, Roles), Looks)
  BY <1>1 DEF ThingsOf, Lists, At
<1>5. ASSUME NEW listed \in SUBSET MembersOf(g)
      PROVE  {<<u, joined[<<g, u>>]>> : u \in listed} \in Lists(Users, Looks)
  <2>1. ASSUME NEW u \in listed PROVE <<u, joined[<<g, u>>]>> \in Users \X Looks
    <3>1. u \in Users /\ joined[<<g, u>>] # None
      BY DEF MembersOf
    <3>2. <<g, u>> \in MemberIds
      BY <3>1 DEF MemberIds
    <3> QED
      BY <3>1, <3>2
  <2>2. {<<u, joined[<<g, u>>]>> : u \in listed} \subseteq Users \X Looks
    BY <2>1
  <2>3. ASSUME NEW a \in {<<u, joined[<<g, u>>]>> : u \in listed},
               NEW b \in {<<u, joined[<<g, u>>]>> : u \in listed}, a[1] = b[1]
        PROVE  a = b
    <3>1. PICK u \in listed : a = <<u, joined[<<g, u>>]>>
      OBVIOUS
    <3>2. PICK w \in listed : b = <<w, joined[<<g, w>>]>>
      OBVIOUS
    <3> QED
      BY <2>3, <3>1, <3>2
  <2> QED
    BY <2>2, <2>3 DEF Lists
<1>6. IsFiniteSet(MembersOf(g))
  BY MembersAreUsers, CacheAssumption, FS_Subset
<1> QED
  BY <1>2, <1>3, <1>4, <1>5, <1>6, FS_CardinalityType

Series == Seq(Harmless) \union MentionSeries \union RemovalSeries

\* All but the departure of a member.
KeepingSeries == Seq(Harmless) \union MentionSeries

\* What every event has in common.
TakesOneOf(h, all) ==
    /\ UNCHANGED storeVars /\ todo[h] = <<>>
    /\ \E q \in all : todo' = [todo EXCEPT ![h] = q]
TakesSeries(h) == TakesOneOf(h, Series)

LEMMA TakesTypes ==
    ASSUME WorldTypeOK, NEW h \in Handlers, NEW guilds \in SUBSET Guilds, NEW all, NEW q \in all,
           Takes(h, guilds, q)
    PROVE  /\ TakesOneOf(h, all)
           /\ about' \in [Handlers -> SUBSET Guilds]
           /\ events' \in 0..MaxEvents /\ failures' \in 0..MaxFailures
<1>1. TakesOneOf(h, all)
  <2>1. UNCHANGED storeVars /\ todo[h] = <<>> /\ todo' = [todo EXCEPT ![h] = q]
    BY DEF Takes
  <2> QED
    BY <2>1 DEF TakesOneOf
<1>2. about' \in [Handlers -> SUBSET Guilds]
  <2>1. about' = [about EXCEPT ![h] = guilds]
    BY DEF Takes
  <2> QED
    BY <2>1 DEF WorldTypeOK
<1>3. events < MaxEvents /\ events' = events + 1 /\ failures' = failures
  BY DEF Takes
<1>4. events \in 0..MaxEvents /\ failures \in 0..MaxFailures
  BY DEF WorldTypeOK
<1> QED
  BY <1>1, <1>2, <1>3, <1>4, BoundsAssumption

LEMMA TakesChangeTypes ==
    ASSUME WorldTypeOK, NEW h \in Handlers, NEW g \in Guilds, NEW all, NEW q \in all,
           TakesChange(h, g, q),
           actual' \in [Things -> Looks \union {None}], joined' \in [MemberIds -> Looks \union {None}],
           told' \subseteq MemberIds
    PROVE  TakesOneOf(h, all) /\ WorldTypeOK'
<1>1. Takes(h, {g}, q)
  BY DEF TakesChange
<1>2. /\ TakesOneOf(h, all)
      /\ about' \in [Handlers -> SUBSET Guilds]
      /\ events' \in 0..MaxEvents /\ failures' \in 0..MaxFailures
  BY <1>1, TakesTypes
<1>3. WorldTypeOK'
  BY <1>2 DEF TakesChange, WorldTypeOK
<1> QED
  BY <1>2, <1>3

LEMMA ThingEvents ==
    ASSUME WorldTypeOK, NEW h \in Handlers,
           ChannelChanges(h) \/ PinsChange(h) \/ RoleChanges(h) \/ EmojisChange(h) \/ GuildChanges(h)
    PROVE  TakesOneOf(h, KeepingSeries) /\ WorldTypeOK'
<1>0. /\ \A t \in Things : Home[t] \in Guilds
      /\ Channels \subseteq Things /\ Roles \subseteq Things /\ Emojis \subseteq Things
      /\ Seq(Harmless) \subseteq KeepingSeries
      /\ actual \in [Things -> Looks \union {None}]
      /\ joined \in [MemberIds -> Looks \union {None}] /\ told \subseteq MemberIds
  BY CacheAssumption DEF Things, KeepingSeries, WorldTypeOK
<1>1. CASE ChannelChanges(h)
  <2> PICK c \in Channels, v \in Looks \union {None} :
         /\ actual' = [actual EXCEPT ![c] = v]
         /\ TakesChange(h, Home[c], IF v = None THEN DeleteChannel(c) ELSE CacheChannel(c, v))
         /\ UNCHANGED <<joined, told>>
    BY <1>1 DEF ChannelChanges
  <2>1. (IF v = None THEN DeleteChannel(c) ELSE CacheChannel(c, v)) \in KeepingSeries
    BY <1>0, HarmlessReads, HarmlessSeries, HarmlessChannels DEF DeleteChannel, At
  <2> QED
    BY <1>0, <2>1, TakesChangeTypes
<1>2. CASE PinsChange(h)
  <2> PICK c \in Channels : TakesChange(h, Home[c], UpdatePins(c)) /\ UNCHANGED <<actual, joined, told>>
    BY <1>2 DEF PinsChange
  <2>1. UpdatePins(c) \in KeepingSeries
    BY <1>0, HarmlessReads, HarmlessSeries DEF UpdatePins, At
  <2> QED
    BY <1>0, <2>1, TakesChangeTypes
<1>3. CASE RoleChanges(h)
  <2> PICK r \in Roles, v \in Looks \union {None} :
         /\ actual' = [actual EXCEPT ![r] = v]
         /\ TakesChange(h, Home[r], IF v = None THEN DeleteRole(Home[r], r)
                                    ELSE CacheRole(Home[r], r, v))
         /\ UNCHANGED <<joined, told>>
    BY <1>3 DEF RoleChanges
  <2>1. (IF v = None THEN DeleteRole(Home[r], r) ELSE CacheRole(Home[r], r, v)) \in KeepingSeries
    BY <1>0, HarmlessRoles DEF At
  <2> QED
    BY <1>0, <2>1, TakesChangeTypes
<1>4. CASE EmojisChange(h)
  <2> PICK e \in Emojis, v \in Looks \union {None} :
         /\ actual' = [actual EXCEPT ![e] = v]
         /\ TakesChange(h, Home[e], CacheEmojis(Home[e], EmojiList(Home[e])'))
         /\ UNCHANGED <<joined, told>>
    BY <1>4 DEF EmojisChange
  <2>1. actual' \in [Things -> Looks \union {None}]
    BY <1>0
  <2>2. EmojiList(Home[e])' \in Lists(At(Home[e], Emojis), Looks)
    BY <1>0, <2>1 DEF EmojiList, ThingsOf, Lists, At
  <2>3. CacheEmojis(Home[e], EmojiList(Home[e])') \in KeepingSeries
    BY <1>0, <2>2, HarmlessEmojis
  <2> QED
    BY <1>0, <2>1, <2>3, TakesChangeTypes
<1>5. CASE GuildChanges(h)
  BY <1>0, <1>5, HarmlessGuilds, TakesChangeTypes DEF GuildChanges
<1> QED
  BY <1>1, <1>2, <1>3, <1>4, <1>5

LEMMA MemberOf ==
    ASSUME WorldTypeOK, NEW g \in Guilds, NEW u \in MembersOf(g)
    PROVE  u \in Users /\ <<g, u>> \in MemberIds /\ joined[<<g, u>>] \in Looks
<1>1. u \in Users /\ joined[<<g, u>>] # None
  BY DEF MembersOf
<1>2. <<g, u>> \in MemberIds
  BY <1>1 DEF MemberIds
<1> QED
  BY <1>1, <1>2 DEF WorldTypeOK

LEMMA MemberEvents ==
    ASSUME WorldTypeOK, NEW h \in Handlers,
           MemberJoins(h) \/ MemberChanges(h) \/ MemberIsSeen(h)
    PROVE  TakesOneOf(h, KeepingSeries) /\ WorldTypeOK'
<1>0. /\ Seq(Harmless) \subseteq KeepingSeries
      /\ actual \in [Things -> Looks \union {None}]
      /\ joined \in [MemberIds -> Looks \union {None}] /\ told \subseteq MemberIds
  BY DEF KeepingSeries, WorldTypeOK
<1>1. CASE MemberJoins(h)
  <2> PICK g \in Guilds, u \in Users, v \in Looks :
         /\ joined' = [joined EXCEPT ![<<g, u>>] = v] /\ told' = told \union {<<g, u>>}
         /\ TakesChange(h, g, AddMember(g, u, v))
         /\ UNCHANGED actual
    BY <1>1 DEF MemberJoins
  <2>1. AddMember(g, u, v) \in KeepingSeries
    BY <1>0, HarmlessMembers
  <2>2. <<g, u>> \in MemberIds
    BY DEF MemberIds
  <2>3. joined' \in [MemberIds -> Looks \union {None}] /\ told' \subseteq MemberIds
    BY <1>0, <2>2
  <2> QED
    BY <1>0, <2>1, <2>3, TakesChangeTypes
<1>2. CASE MemberChanges(h)
  <2> PICK g \in Guilds, v \in Looks : \E u \in MembersOf(g) :
         /\ joined' = [joined EXCEPT ![<<g, u>>] = v]
         /\ TakesChange(h, g, UpdateMember(g, u, v))
         /\ UNCHANGED <<actual, told>>
    BY <1>2 DEF MemberChanges
  <2> PICK u \in MembersOf(g) :
         /\ joined' = [joined EXCEPT ![<<g, u>>] = v]
         /\ TakesChange(h, g, UpdateMember(g, u, v))
         /\ UNCHANGED <<actual, told>>
    OBVIOUS
  <2>1. UpdateMember(g, u, v) \in KeepingSeries
    BY <1>0, MemberOf, HarmlessMembers
  <2>2. joined' \in [MemberIds -> Looks \union {None}] /\ told' \subseteq MemberIds
    BY <1>0, MemberOf
  <2> QED
    BY <1>0, <2>1, <2>2, TakesChangeTypes
<1>3. CASE MemberIsSeen(h)
  <2> PICK g \in Guilds : \E u \in MembersOf(g) :
         /\ told' = told \union {<<g, u>>}
         /\ TakesChange(h, g, CacheMember(g, u, joined[<<g, u>>]))
         /\ UNCHANGED <<actual, joined>>
    BY <1>3 DEF MemberIsSeen
  <2> PICK u \in MembersOf(g) :
         /\ told' = told \union {<<g, u>>}
         /\ TakesChange(h, g, CacheMember(g, u, joined[<<g, u>>]))
         /\ UNCHANGED <<actual, joined>>
    OBVIOUS
  <2>1. CacheMember(g, u, joined[<<g, u>>]) \in KeepingSeries
    BY <1>0, MemberOf, HarmlessMembers
  <2>2. told' \subseteq MemberIds
    BY <1>0, MemberOf
  <2> QED
    BY <1>0, <2>1, <2>2, TakesChangeTypes
<1> QED
  BY <1>1, <1>2, <1>3

LEMMA RemovalEvents ==
    ASSUME WorldTypeOK, NEW h \in Handlers, MemberLeaves(h)
    PROVE  TakesOneOf(h, RemovalSeries) /\ WorldTypeOK'
<1>0. /\ actual \in [Things -> Looks \union {None}]
      /\ joined \in [MemberIds -> Looks \union {None}] /\ told \subseteq MemberIds
  BY DEF WorldTypeOK
<1> PICK g \in Guilds : \E u \in MembersOf(g) :
       /\ joined' = [joined EXCEPT ![<<g, u>>] = None] /\ told' = told \ {<<g, u>>}
       /\ TakesChange(h, g, RemoveMember(g, u))
       /\ UNCHANGED actual
  BY DEF MemberLeaves
<1> PICK u \in MembersOf(g) :
       /\ joined' = [joined EXCEPT ![<<g, u>>] = None] /\ told' = told \ {<<g, u>>}
       /\ TakesChange(h, g, RemoveMember(g, u))
       /\ UNCHANGED actual
  OBVIOUS
<1>1. RemoveMember(g, u) \in RemovalSeries
  BY MemberOf DEF RemovalSeries
<1>2. joined' \in [MemberIds -> Looks \union {None}] /\ told' \subseteq MemberIds
  BY <1>0, MemberOf
<1> QED
  BY <1>0, <1>1, <1>2, TakesChangeTypes

LEMMA UserEvents ==
    ASSUME WorldTypeOK, NEW h \in Handlers, UserSpeaks(h) \/ CommandIsGiven(h) \/ UserWrites(h)
    PROVE  TakesOneOf(h, KeepingSeries) /\ WorldTypeOK'
<1>0. /\ Seq(Harmless) \subseteq KeepingSeries /\ MentionSeries \subseteq KeepingSeries
      /\ actual \in [Things -> Looks \union {None}]
      /\ joined \in [MemberIds -> Looks \union {None}] /\ told \subseteq MemberIds
  BY DEF KeepingSeries, WorldTypeOK
<1>1. CASE UserSpeaks(h)
  <2> PICK g \in Guilds, u \in Users :
         /\ told' = told \union ({<<g, u>>} \ {m \in MemberIds : joined[m] = None})
         /\ TakesChange(h, g, Mentioned(g, u))
         /\ UNCHANGED <<actual, joined>>
    BY <1>1 DEF UserSpeaks
  <2>1. Mentioned(g, u) \in KeepingSeries
    BY <1>0 DEF MentionSeries
  <2>2. told' \subseteq MemberIds
    BY <1>0 DEF MemberIds
  <2> QED
    BY <1>0, <2>1, <2>2, TakesChangeTypes
<1>2. CASE CommandIsGiven(h)
  <2> PICK g \in Guilds, other \in Users : \E u \in MembersOf(g), r \in ThingsOf(Roles, g) :
         /\ told' = told \union ({<<g, u>>, <<g, other>>} \ {m \in MemberIds : joined[m] = None})
         /\ TakesChange(h, g, Mentioned(g, u) \o Mentioned(g, other)
                              \o Loop("cache_role", g, {<<r, actual[r]>>}))
         /\ UNCHANGED <<actual, joined>>
    BY <1>2 DEF CommandIsGiven
  <2> PICK u \in MembersOf(g), r \in ThingsOf(Roles, g) :
         /\ told' = told \union ({<<g, u>>, <<g, other>>} \ {m \in MemberIds : joined[m] = None})
         /\ TakesChange(h, g, Mentioned(g, u) \o Mentioned(g, other)
                              \o Loop("cache_role", g, {<<r, actual[r]>>}))
         /\ UNCHANGED <<actual, joined>>
    OBVIOUS
  <2> DEFINE roles == Loop("cache_role", g, {<<r, actual[r]>>})
  <2>1. u \in Users
    BY MemberOf
  <2>2. r \in At(g, Roles) /\ actual[r] \in Looks
    BY <1>0 DEF ThingsOf, Things, At
  <2>3. roles \in Seq(Harmless)
    <3>1. {<<r, actual[r]>>} \in Lists(At(g, Roles), Looks)
      BY <2>2 DEF Lists
    <3> QED
      BY <3>1, HarmlessLoops
  <2>4. Mentioned(g, u) \o Mentioned(g, other) \o roles \in MentionSeries
    BY <2>1, <2>3, TwoAreMentioned
  <2>5. told' \subseteq MemberIds
    BY <1>0, <2>1 DEF MemberIds
  <2> QED
    BY <1>0, <2>4, <2>5, TakesChangeTypes
<1>3. CASE UserWrites(h)
  <2> PICK u \in Users :
         /\ Takes(h, {}, CacheUser(u, None))
         /\ created' = [created EXCEPT ![h] = None]
         /\ UNCHANGED <<worldVars, repaired, clean>>
    BY <1>3 DEF UserWrites
  <2>1. CacheUser(u, None) \in KeepingSeries
    BY <1>0, HarmlessUsers
  <2>2. /\ TakesOneOf(h, KeepingSeries)
        /\ about' \in [Handlers -> SUBSET Guilds]
        /\ events' \in 0..MaxEvents /\ failures' \in 0..MaxFailures
    BY <2>1, TakesTypes
  <2> QED
    BY <2>2 DEF worldVars, WorldTypeOK
<1> QED
  BY <1>1, <1>2, <1>3

\* What a GuildCreate lists.
GuildCreated(g, listed) ==
    [channels |-> {<<c, actual[c]>> : c \in ThingsOf(Channels, g)},
     emojis |-> EmojiList(g),
     members |-> {<<u, joined[<<g, u>>]>> : u \in listed},
     roles |-> {<<r, actual[r]>> : r \in ThingsOf(Roles, g)},
     member_count |-> Cardinality(MembersOf(g))]

GuildCreatesAreTyped ==
    /\ actual \in [Things -> Looks \union {None}]
    /\ joined \in [MemberIds -> Looks \union {None}]
    => \A g \in Guilds : \A listed \in SUBSET MembersOf(g) : GuildCreated(g, listed) \in GuildList(g)

LEMMA GuildListTypes == GuildCreatesAreTyped
<1> SUFFICES ASSUME actual \in [Things -> Looks \union {None}],
                    joined \in [MemberIds -> Looks \union {None}],
                    NEW g \in Guilds, NEW listed \in SUBSET MembersOf(g)
             PROVE  GuildCreated(g, listed) \in GuildList(g)
  BY DEF GuildCreatesAreTyped
<1> QED
  BY ListsOfTheGuild DEF GuildList, GuildCreated

LEMMA GuildEvents ==
    ASSUME WorldTypeOK, NEW h \in Handlers,
           GuildAppears(h) \/ GuildFails(h) \/ GuildIsLeft(h) \/ SessionBegins(h)
    PROVE  TakesOneOf(h, KeepingSeries) /\ WorldTypeOK'
<1>0. /\ Seq(Harmless) \subseteq KeepingSeries
      /\ \A guilds : ToldOutside(guilds) \subseteq MemberIds
  BY DEF KeepingSeries, ToldOutside, WorldTypeOK
<1>1. CASE GuildAppears(h)
  <2> PICK g \in Guilds :
         /\ status' = [status EXCEPT ![g] = "in"]
         /\ Unseen(g)
         /\ \E listed \in SUBSET MembersOf(g)' :
               /\ told' = told \union ({g} \X listed)
               /\ Takes(h, {g}, CacheGuild(g,
                     [channels |-> {<<c, actual'[c]>> : c \in ThingsOf(Channels, g)'},
                      emojis |-> EmojiList(g)',
                      members |-> {<<u, joined'[<<g, u>>]>> : u \in listed},
                      roles |-> {<<r, actual'[r]>> : r \in ThingsOf(Roles, g)'},
                      member_count |-> Cardinality(MembersOf(g)')]))
         /\ created' = [created EXCEPT ![h] = g]
         /\ UNCHANGED <<repaired, clean>>
    BY <1>1 DEF GuildAppears
  <2> PICK listed \in SUBSET MembersOf(g)' :
         /\ told' = told \union ({g} \X listed)
         /\ Takes(h, {g}, CacheGuild(g,
               [channels |-> {<<c, actual'[c]>> : c \in ThingsOf(Channels, g)'},
                emojis |-> EmojiList(g)',
                members |-> {<<u, joined'[<<g, u>>]>> : u \in listed},
                roles |-> {<<r, actual'[r]>> : r \in ThingsOf(Roles, g)'},
                member_count |-> Cardinality(MembersOf(g)')]))
    OBVIOUS
  <2> DEFINE guild == [channels |-> {<<c, actual'[c]>> : c \in ThingsOf(Channels, g)'},
                       emojis |-> EmojiList(g)',
                       members |-> {<<u, joined'[<<g, u>>]>> : u \in listed},
                       roles |-> {<<r, actual'[r]>> : r \in ThingsOf(Roles, g)'},
                       member_count |-> Cardinality(MembersOf(g)')]
  <2>1. actual' \in [Things -> Looks \union {None}]
    BY DEF Unseen, WorldTypeOK
  <2>2. joined' \in [MemberIds -> Looks \union {None}]
    <3>1. joined \in [MemberIds -> Looks \union {None}]
      BY DEF WorldTypeOK
    <3>2. UNCHANGED joined \/ \E u \in Users, v \in Looks \union {None} :
                                  joined' = [joined EXCEPT ![<<g, u>>] = v]
      BY DEF Unseen
    <3>3. \A u \in Users : <<g, u>> \in MemberIds
      BY DEF MemberIds
    <3> QED
      BY <3>1, <3>2, <3>3
  <2>3. guild \in GuildList(g)
    <3>1. GuildCreatesAreTyped'
      BY GuildListTypes, PTL
    <3>2. (GuildCreated(g, listed) \in GuildList(g))'
      BY <2>1, <2>2, <3>1 DEF GuildCreatesAreTyped
    <3> QED
      BY <3>2 DEF GuildCreated, GuildList
  <2>4. CacheGuild(g, guild) \in KeepingSeries
    BY <1>0, <2>3, HarmlessGuilds
  <2>5. /\ TakesOneOf(h, KeepingSeries)
        /\ about' \in [Handlers -> SUBSET Guilds]
        /\ events' \in 0..MaxEvents /\ failures' \in 0..MaxFailures
    BY <2>4, TakesTypes
  <2>6. listed \subseteq Users
    BY DEF MembersOf
  <2>7. told' \subseteq MemberIds
    BY <2>6 DEF MemberIds, WorldTypeOK
  <2>8. status' \in [Guilds -> {"in", "down", "out", "lost"}]
    BY DEF WorldTypeOK
  <2>9. created' \in [Handlers -> Guilds \union {None}] /\ repaired' \subseteq Guilds /\ clean' \subseteq Guilds
    BY DEF WorldTypeOK
  <2> QED
    BY <2>1, <2>2, <2>5, <2>7, <2>8, <2>9 DEF WorldTypeOK
<1>2. CASE GuildFails(h)
  <2> PICK g \in Guilds, deleted \in BOOLEAN :
         /\ status' = [status EXCEPT ![g] = "down"]
         /\ told' = ToldOutside({g})
         /\ Takes(h, {g}, IF deleted THEN DeleteGuild(g, FALSE) ELSE UnavailableGuild(g))
         /\ created' = [created EXCEPT ![h] = None]
         /\ repaired' = repaired \ {g} /\ UNCHANGED <<actual, joined, clean>>
    BY <1>2 DEF GuildFails
  <2>1. (IF deleted THEN DeleteGuild(g, FALSE) ELSE UnavailableGuild(g)) \in KeepingSeries
    BY <1>0, HarmlessGuilds
  <2>2. /\ TakesOneOf(h, KeepingSeries)
        /\ about' \in [Handlers -> SUBSET Guilds]
        /\ events' \in 0..MaxEvents /\ failures' \in 0..MaxFailures
    BY <2>1, TakesTypes
  <2> QED
    BY <1>0, <2>2 DEF WorldTypeOK
<1>3. CASE GuildIsLeft(h)
  <2> PICK g \in Guilds :
         /\ status' = [status EXCEPT ![g] = "out"]
         /\ told' = ToldOutside({g})
         /\ Takes(h, {g}, DeleteGuild(g, FALSE))
         /\ created' = [created EXCEPT ![h] = None]
         /\ repaired' = repaired \ {g} /\ UNCHANGED <<actual, joined, clean>>
    BY <1>3 DEF GuildIsLeft
  <2>1. DeleteGuild(g, FALSE) \in KeepingSeries
    BY <1>0, HarmlessGuilds
  <2>2. /\ TakesOneOf(h, KeepingSeries)
        /\ about' \in [Handlers -> SUBSET Guilds]
        /\ events' \in 0..MaxEvents /\ failures' \in 0..MaxFailures
    BY <2>1, TakesTypes
  <2> QED
    BY <1>0, <2>2 DEF WorldTypeOK
<1>4. CASE SessionBegins(h)
  <2> PICK left \in SUBSET {g \in Guilds : status[g] \in {"in", "down"}} :
        LET kept == {g \in Guilds : status[g] \in {"in", "down"}} \ left
        IN  /\ status' = [g \in Guilds |-> IF g \in left THEN "lost"
                                           ELSE IF g \in kept THEN "down" ELSE status[g]]
            /\ told' = ToldOutside(left \union kept)
            /\ Takes(h, Guilds, Loop("unavailable_guild", None, {<<g, None>> : g \in kept}))
            /\ created' = [created EXCEPT ![h] = None]
            /\ repaired' = repaired \ (left \union kept) /\ clean' = clean \ left
            /\ UNCHANGED <<actual, joined>>
    BY <1>4 DEF SessionBegins
  <2> DEFINE kept == {g \in Guilds : status[g] \in {"in", "down"}} \ left
  <2>1. {<<g, None>> : g \in kept} \subseteq Guilds \X {None}
    OBVIOUS
  <2>2. Loop("unavailable_guild", None, {<<g, None>> : g \in kept}) \in KeepingSeries
    BY <1>0, <2>1, HarmlessLoops
  <2>3. /\ TakesOneOf(h, KeepingSeries)
        /\ about' \in [Handlers -> SUBSET Guilds]
        /\ events' \in 0..MaxEvents /\ failures' \in 0..MaxFailures
    BY <2>2, TakesTypes
  <2>4. status' \in [Guilds -> {"in", "down", "out", "lost"}]
    BY DEF WorldTypeOK
  <2> QED
    BY <1>0, <2>3, <2>4 DEF WorldTypeOK
<1> QED
  BY <1>1, <1>2, <1>3, <1>4

LEMMA EventTypes ==
    ASSUME WorldTypeOK, NEW h \in Handlers, EventIsTaken(h)
    PROVE  /\ TakesSeries(h) /\ WorldTypeOK'
           /\ MemberLeaves(h) \/ TakesOneOf(h, KeepingSeries)
<1>1. KeepingSeries \subseteq Series /\ RemovalSeries \subseteq Series
  BY DEF KeepingSeries, Series
<1>2. MemberLeaves(h) \/ (TakesOneOf(h, KeepingSeries) /\ WorldTypeOK')
  BY ThingEvents, MemberEvents, UserEvents, GuildEvents DEF EventIsTaken
<1>3. TakesOneOf(h, KeepingSeries) => TakesSeries(h)
  BY <1>1 DEF TakesSeries, TakesOneOf
<1>4. MemberLeaves(h) => TakesSeries(h) /\ WorldTypeOK'
  BY <1>1, RemovalEvents DEF TakesSeries, TakesOneOf
<1> QED
  BY <1>2, <1>3, <1>4

LEMMA CommandSequences ==
    /\ \A s, t \in Seq(Command) : s \o t \in Seq(Command)
    /\ \A s \in Seq(Command) : s # <<>> => Head(s) \in Command /\ Tail(s) \in Seq(Command)
  OBVIOUS

LEMMA MentionTypes ==
    ASSUME WorldTypeOK, NEW g \in Guilds, NEW u \in Users
    PROVE  Mentioned(g, u) \in Seq(Command)
<1>1. CacheUser(u, g) \in Seq(Command)
  BY HarmlessUsers, HarmlessIsCommand
<1>2. CASE u \in MembersOf(g)
  <2>1. joined[<<g, u>>] \in Looks
    BY <1>2, MemberOf
  <2>2. CacheBorrowedMember(g, u, joined[<<g, u>>]) \in Seq(Command)
    BY <2>1, MemberCommands, CommandSeries DEF CacheBorrowedMember
  <2> QED
    BY <1>1, <1>2, <2>2, CommandSequences DEF Mentioned
<1>3. CASE u \notin MembersOf(g)
  BY <1>1, <1>3, CommandSequences, CommandSeries DEF Mentioned
<1> QED
  BY <1>2, <1>3

LEMMA SeriesTypes ==
    ASSUME WorldTypeOK
    PROVE  Series \subseteq Seq(Command)
<1>1. MentionSeries \subseteq Seq(Command)
  <2>1. ASSUME NEW g \in Guilds, NEW u \in Users, NEW v \in Users, NEW rest \in Seq(Harmless)
        PROVE  Mentioned(g, u) \o Mentioned(g, v) \o rest \in Seq(Command)
    BY MentionTypes, HarmlessIsCommand, CommandSequences
  <2>2. \A g \in Guilds, u \in Users, v \in Users : TwoMentions(g, u, v) \subseteq Seq(Command)
    BY <2>1 DEF TwoMentions
  <2> QED
    BY <2>2, MentionTypes DEF MentionSeries
<1>2. ASSUME NEW g \in Guilds, NEW u \in Users PROVE RemoveMember(g, u) \in Seq(Command)
  <2> DEFINE down == Call("count_down", g, None, None)
             listed == SRem(GuildMembers(g), {u})
  <2>1. /\ HDel({Member(g, u)}) \in Command /\ SRem(UserGuilds(u), {g}) \in Command
        /\ Call("remove_user_in_no_guild", g, u, None) \in Command
        /\ listed \in Command /\ down \in Command
    BY MemberRemovalCommands, HarmlessIsCommand
  <2> QED
    BY <2>1 DEF RemoveMember
<1>3. RemovalSeries \subseteq Seq(Command)
  BY <1>2 DEF RemovalSeries
<1> QED
  BY <1>1, <1>3, HarmlessIsCommand DEF Series

LEMMA HandlerTypes ==
    ASSUME TypeOK, NEW h \in Handlers, NextItem(h) \/ Writes(h) \/ Reads(h) \/ Fails(h)
    PROVE  TypeOK'
<1>0. /\ StoreTypeOK /\ WorldTypeOK /\ todo \in [Handlers -> Seq(Command)]
      /\ todo[h] \in Seq(Command) /\ (Tail(todo[h]) \in Seq(Command) \/ todo[h] = <<>>)
  BY CommandSequences DEF TypeOK
<1>1. CASE NextItem(h)
  <2> DEFINE c == Head(todo[h])
  <2>1. c \in Each /\ todo[h] # <<>>
    BY <1>1 DEF NextItem, Doing
  <2>2. PICK item \in c.items :
            todo' = [todo EXCEPT ![h] = Body(c, item) \o Loop(c.function, c.guild, c.items \ {item})
                                        \o Tail(@)]
    BY <1>1 DEF NextItem
  <2>3. /\ Body(c, item) \in Seq(Command)
        /\ Loop(c.function, c.guild, c.items \ {item}) \in Seq(Command)
    BY <2>1, HarmlessBodies, HarmlessIsCommand
  <2>4. todo' \in [Handlers -> Seq(Command)]
    <3> DEFINE q == Body(c, item) \o Loop(c.function, c.guild, c.items \ {item}) \o Tail(todo[h])
    <3>1. q \in Seq(Command)
      BY <1>0, <2>1, <2>3, CommandSequences
    <3>2. todo' = [todo EXCEPT ![h] = q]
      BY <2>2
    <3> HIDE DEF q
    <3> QED
      BY <1>0, <3>1, <3>2
  <2>5. StoreTypeOK' /\ WorldTypeOK'
    BY <1>0, <1>1 DEF NextItem, storeVars, worldVars, StoreTypeOK, WorldTypeOK
  <2> QED
    BY <2>4, <2>5 DEF TypeOK
<1>2. Repaired(h) \subseteq Guilds
  BY <1>0 DEF Repaired, WorldTypeOK
<1>3. CASE Writes(h)
  <2>1. todo[h] # <<>> /\ Head(todo[h]) \in Write
    BY <1>3 DEF Writes, Doing
  <2>2. StoreTypeOK'
    BY <1>0, <1>3, <2>1, WriteTypes DEF Writes
  <2>3. todo' \in [Handlers -> Seq(Command)]
    BY <1>0, <1>3, <2>1, CommandSequences DEF Writes
  <2>4. WorldTypeOK'
    BY <1>0, <1>2, <1>3 DEF Writes, worldVars, WorldTypeOK
  <2> QED
    BY <2>2, <2>3, <2>4 DEF TypeOK
<1>4. CASE Reads(h)
  <2>1. todo[h] # <<>> /\ Head(todo[h]) \in Read
    BY <1>4 DEF Reads, Doing
  <2>2. PICK next \in Then(Head(todo[h])) : todo' = [todo EXCEPT ![h] = next \o Tail(@)]
    BY <1>4 DEF Reads
  <2>3. next \in Seq(Command)
    BY <1>0, <2>1, ThenTypes
  <2>4. next \o Tail(todo[h]) \in Seq(Command)
    BY <1>0, <2>1, <2>3, CommandSequences
  <2>5. todo' \in [Handlers -> Seq(Command)]
    BY <1>0, <2>2, <2>4
  <2>6. StoreTypeOK' /\ WorldTypeOK'
    BY <1>0, <1>2, <1>4 DEF Reads, storeVars, worldVars, StoreTypeOK, WorldTypeOK
  <2> QED
    BY <2>5, <2>6 DEF TypeOK
<1>5. CASE Fails(h)
  <2>1. StoreTypeOK'
    <3>1. CASE UNCHANGED storeVars
      BY <1>0, <3>1 DEF storeVars, StoreTypeOK
    <3>2. CASE /\ Doing(h, Write)
               /\ hash' = HashAfter(Head(todo[h])) /\ sets' = SetsAfter(Head(todo[h]))
      BY <1>0, <3>2, WriteTypes DEF Doing
    <3> QED
      BY <1>5, <3>1, <3>2 DEF Fails
  <2>2. todo' \in [Handlers -> Seq(Command)]
    BY <1>0, <1>5, CommandSeries DEF Fails
  <2>3. failures' \in 0..MaxFailures /\ events' \in 0..MaxEvents
    BY <1>0, <1>5, BoundsAssumption DEF Fails, WorldTypeOK
  <2>4. repaired' \subseteq Guilds /\ clean' \subseteq Guilds
    BY <1>0, <1>5 DEF Fails, WorldTypeOK
  <2>5. WorldTypeOK'
    BY <1>0, <1>5, <2>3, <2>4 DEF Fails, worldVars, WorldTypeOK
  <2> QED
    BY <2>1, <2>2, <2>5 DEF TypeOK
<1> QED
  BY <1>1, <1>3, <1>4, <1>5

LEMMA TypesHold ==
    ASSUME TypeOK, [Next]_vars
    PROVE  TypeOK'
<1>0. StoreTypeOK /\ WorldTypeOK /\ todo \in [Handlers -> Seq(Command)]
  BY DEF TypeOK
<1>1. ASSUME NEW h \in Handlers, EventIsTaken(h) PROVE TypeOK'
  <2>1. TakesSeries(h) /\ WorldTypeOK'
    BY <1>0, <1>1, EventTypes
  <2>2. PICK q \in Series : todo' = [todo EXCEPT ![h] = q]
    BY <2>1 DEF TakesSeries, TakesOneOf
  <2>3. q \in Seq(Command)
    BY <1>0, SeriesTypes
  <2>4. todo' \in [Handlers -> Seq(Command)]
    BY <1>0, <2>2, <2>3
  <2>5. StoreTypeOK'
    BY <1>0, <2>1 DEF TakesSeries, TakesOneOf, storeVars, StoreTypeOK
  <2> QED
    BY <2>1, <2>4, <2>5 DEF TypeOK
<1>2. CASE UNCHANGED vars
  BY <1>2 DEF vars, storeVars, handlerVars, worldVars, TypeOK, StoreTypeOK, WorldTypeOK
<1> QED
  BY <1>1, <1>2, HandlerTypes DEF Next

\* Every command has ids and values of its kind, and every field and set of redis
\* holds what belongs there, for any number of handlers, guilds and members, whatever
\* fails; a count of members never wraps (event/member.rs:37 saturates).
THEOREM TypeCorrect == Spec => []TypeOK
<1>1. Init => TypeOK
  <2> SUFFICES ASSUME Init PROVE TypeOK
    OBVIOUS
  <2>1. StoreTypeOK
    BY FieldsApart DEF Init, StoreInit, StoreTypeOK
  <2>2. todo \in [Handlers -> Seq(Command)]
    BY CommandSeries DEF Init
  <2>3. WorldTypeOK
    BY BoundsAssumption DEF Init, WorldTypeOK
  <2> QED
    BY <2>1, <2>2, <2>3 DEF TypeOK
<1>2. TypeOK /\ [Next]_vars => TypeOK'
  BY TypesHold
<1> QED
  BY <1>1, <1>2, PTL DEF Spec

-----------------------------------------------------------------------------
(* Members have users, with one handler.  Each command of a series that    *)
(* stores a member finds its user stored and its guild tracked, or comes   *)
(* after commands that see to it.                                          *)

KnownUsers == {u \in Users : hash[User(u)] # None}
TrackedMembers == {m \in MemberIds : m[1] \in sets[UserGuilds(m[2])]}

\* q may begin when these users are known and these members tracked.
Prepared(q, known, tracked) ==
    \A i \in 1..Len(q) :
        /\ ~Drops(q[i])
        /\ \A g \in Guilds, u \in Users : Stores(q[i], g, u) =>
              /\ u \in known \/ \E j \in 1..(i - 1) : GivesUser(q[j], u)
              /\ <<g, u>> \in tracked \/ \E j \in 1..(i - 1) : GivesGuild(q[j], g, u)

UsersGiven(q) == {u \in Users : \E j \in 1..Len(q) : GivesUser(q[j], u)}
MembersGiven(q) == {m \in MemberIds : \E j \in 1..Len(q) : GivesGuild(q[j], m[1], m[2])}

LEMMA EmptyPrepared ==
    ASSUME NEW q, q = <<>>, NEW known, NEW tracked
    PROVE  Prepared(q, known, tracked)
  BY DEF Prepared

LEMMA PreparedMore ==
    ASSUME NEW q \in Seq(Command), NEW known, NEW tracked, Prepared(q, known, tracked),
           NEW moreKnown, NEW moreTracked, known \subseteq moreKnown, tracked \subseteq moreTracked
    PROVE  Prepared(q, moreKnown, moreTracked)
  BY DEF Prepared

LEMMA PreparedTail ==
    ASSUME NEW q \in Seq(Command), q # <<>>, NEW known, NEW tracked, Prepared(q, known, tracked)
    PROVE  Prepared(Tail(q), known \union UsersGiven(<<Head(q)>>),
                             tracked \union MembersGiven(<<Head(q)>>))
<1> DEFINE t == Tail(q)
<1>1. t \in Seq(Command) /\ Len(t) = Len(q) - 1 /\ \A i \in 1..Len(t) : t[i] = q[i + 1]
  OBVIOUS
<1>2. /\ \A u \in Users : GivesUser(q[1], u) => u \in UsersGiven(<<Head(q)>>)
      /\ \A g \in Guilds, u \in Users : GivesGuild(q[1], g, u) => <<g, u>> \in MembersGiven(<<Head(q)>>)
  <2>1. Head(q) = q[1] /\ Len(<<Head(q)>>) = 1 /\ <<Head(q)>>[1] = q[1]
    OBVIOUS
  <2> QED
    BY <2>1 DEF UsersGiven, MembersGiven, MemberIds
<1> HIDE DEF t
<1> SUFFICES ASSUME NEW i \in 1..Len(t)
             PROVE  /\ ~Drops(t[i])
                    /\ \A g \in Guilds, u \in Users : Stores(t[i], g, u) =>
                          /\ \/ u \in known \union UsersGiven(<<Head(q)>>)
                             \/ \E j \in 1..(i - 1) : GivesUser(t[j], u)
                          /\ \/ <<g, u>> \in tracked \union MembersGiven(<<Head(q)>>)
                             \/ \E j \in 1..(i - 1) : GivesGuild(t[j], g, u)
  BY DEF Prepared, t
<1>3. t[i] = q[i + 1] /\ i + 1 \in 1..Len(q) /\ Len(q) \in Nat
  BY <1>1
<1>4. ~Drops(t[i])
  BY <1>3 DEF Prepared
<1>5. ASSUME NEW g \in Guilds, NEW u \in Users, Stores(t[i], g, u)
      PROVE  /\ u \in known \/ \E j \in 1..i : GivesUser(q[j], u)
             /\ <<g, u>> \in tracked \/ \E j \in 1..i : GivesGuild(q[j], g, u)
  BY <1>3, <1>5 DEF Prepared
<1>6. ASSUME NEW j \in 1..i, j # 1
      PROVE  j - 1 \in 1..(i - 1) /\ q[j] = t[j - 1]
  BY <1>1, <1>6
<1>7. ASSUME NEW g \in Guilds, NEW u \in Users, Stores(t[i], g, u)
      PROVE  /\ \/ u \in known \union UsersGiven(<<Head(q)>>)
                \/ \E j \in 1..(i - 1) : GivesUser(t[j], u)
             /\ \/ <<g, u>> \in tracked \union MembersGiven(<<Head(q)>>)
                \/ \E j \in 1..(i - 1) : GivesGuild(t[j], g, u)
  BY <1>2, <1>5, <1>6, <1>7
<1> QED
  BY <1>4, <1>7

LEMMA PreparedAppend ==
    ASSUME NEW p \in Seq(Command), NEW q \in Seq(Command), NEW known, NEW tracked,
           Prepared(p, known, tracked),
           Prepared(q, known \union UsersGiven(p), tracked \union MembersGiven(p))
    PROVE  Prepared(p \o q, known, tracked)
<1> DEFINE r == p \o q
<1>1. /\ Len(r) = Len(p) + Len(q) /\ Len(p) \in Nat /\ Len(q) \in Nat
      /\ \A i \in 1..Len(p) : r[i] = p[i]
      /\ \A i \in 1..Len(q) : r[Len(p) + i] = q[i]
  OBVIOUS
<1> HIDE DEF r
<1> SUFFICES ASSUME NEW i \in 1..Len(r)
             PROVE  /\ ~Drops(r[i])
                    /\ \A g \in Guilds, u \in Users : Stores(r[i], g, u) =>
                          /\ u \in known \/ \E j \in 1..(i - 1) : GivesUser(r[j], u)
                          /\ <<g, u>> \in tracked \/ \E j \in 1..(i - 1) : GivesGuild(r[j], g, u)
  BY DEF Prepared, r
<1>2. CASE i \in 1..Len(p)
  <2>1. r[i] = p[i] /\ \A j \in 1..(i - 1) : j \in 1..Len(p) /\ r[j] = p[j]
    BY <1>1, <1>2
  <2> QED
    BY <1>2, <2>1 DEF Prepared
<1>3. CASE i \notin 1..Len(p)
  <2> DEFINE k == i - Len(p)
  <2>a. i \in Nat /\ 1 <= i /\ i <= Len(p) + Len(q) /\ i > Len(p)
    BY <1>1, <1>3
  <2>b. k \in 1..Len(q) /\ i = Len(p) + k
    BY <1>1, <2>a
  <2>1. k \in 1..Len(q) /\ r[i] = q[k]
    BY <1>1, <2>b
  <2>2. \A j \in 1..Len(p) : j \in 1..(i - 1) /\ r[j] = p[j]
    <3>1. \A j \in 1..Len(p) : j \in 1..(i - 1)
      BY <1>1, <2>a
    <3> QED
      BY <1>1, <3>1
  <2>3. \A j \in 1..(k - 1) : Len(p) + j \in 1..(i - 1) /\ r[Len(p) + j] = q[j]
    BY <1>1, <2>1
  <2> HIDE DEF k
  <2>4. ~Drops(r[i])
    BY <2>1 DEF Prepared
  <2>5. ASSUME NEW g \in Guilds, NEW u \in Users, Stores(r[i], g, u)
        PROVE  /\ \/ u \in known \union UsersGiven(p)
                  \/ \E j \in 1..(k - 1) : GivesUser(q[j], u)
               /\ \/ <<g, u>> \in tracked \union MembersGiven(p)
                  \/ \E j \in 1..(k - 1) : GivesGuild(q[j], g, u)
    BY <2>1, <2>5 DEF Prepared
  <2>6. ASSUME NEW g \in Guilds, NEW u \in Users, Stores(r[i], g, u)
        PROVE  u \in known \/ \E j \in 1..(i - 1) : GivesUser(r[j], u)
    BY <2>2, <2>3, <2>5, <2>6 DEF UsersGiven
  <2>7. ASSUME NEW g \in Guilds, NEW u \in Users, Stores(r[i], g, u)
        PROVE  <<g, u>> \in tracked \/ \E j \in 1..(i - 1) : GivesGuild(r[j], g, u)
    BY <2>2, <2>3, <2>5, <2>7 DEF MembersGiven
  <2> QED
    BY <2>4, <2>6, <2>7
<1> QED
  BY <1>2, <1>3

LEMMA HarmlessPrepared ==
    ASSUME NEW q \in Seq(Harmless), NEW known, NEW tracked
    PROVE  Prepared(q, known, tracked)
  BY DEF Prepared, Harmless

\* The head of a prepared series gives way to what follows it.
LEMMA PreparedNext ==
    ASSUME NEW q \in Seq(Command), q # <<>>, NEW known, NEW tracked, Prepared(q, known, tracked),
           NEW next \in Seq(Command), NEW nowKnown, NEW nowTracked, Prepared(next, nowKnown, nowTracked),
           known \subseteq nowKnown, tracked \subseteq nowTracked,
           UsersGiven(<<Head(q)>>) \subseteq nowKnown \union UsersGiven(next),
           MembersGiven(<<Head(q)>>) \subseteq nowTracked \union MembersGiven(next)
    PROVE  Prepared(next \o Tail(q), nowKnown, nowTracked)
<1>1. Tail(q) \in Seq(Command)
  OBVIOUS
<1>2. Prepared(Tail(q), known \union UsersGiven(<<Head(q)>>), tracked \union MembersGiven(<<Head(q)>>))
  BY PreparedTail
<1>3. Prepared(Tail(q), nowKnown \union UsersGiven(next), nowTracked \union MembersGiven(next))
  <2>1. /\ known \union UsersGiven(<<Head(q)>>) \subseteq nowKnown \union UsersGiven(next)
        /\ tracked \union MembersGiven(<<Head(q)>>) \subseteq nowTracked \union MembersGiven(next)
    OBVIOUS
  <2> QED
    BY <1>1, <1>2, <2>1, PreparedMore
<1> QED
  BY <1>1, <1>3, PreparedAppend

\* A write that takes no user away.
LEMMA WriteKeepsUsers ==
    ASSUME StoreTypeOK, NEW c \in Write, ~Drops(c),
           hash' = HashAfter(c), sets' = SetsAfter(c)
    PROVE  /\ KnownUsers \union UsersGiven(<<c>>) \subseteq KnownUsers'
           /\ TrackedMembers \union MembersGiven(<<c>>) \subseteq TrackedMembers'
<1>0. \A u \in Users : User(u) \in UserFields /\ User(u) \in Field /\ UserGuilds(u) \in Key
  BY FieldsApart DEF User, UserFields, UserGuilds, Key
<1>1. DOMAIN hash = Field /\ DOMAIN sets = Key
  BY DEF StoreTypeOK
<1>2. Len(<<c>>) = 1 /\ <<c>>[1] = c
  OBVIOUS
<1>3. ASSUME NEW u \in Users, hash[User(u)] # None \/ GivesUser(c, u)
      PROVE  hash'[User(u)] # None
  <2>1. CASE c.do = "hset" /\ c.field = User(u)
    <3>1. c.value \in Users
      BY <1>0, <2>1, WriteCases, FieldsApart
    <3> QED
      BY <1>0, <1>1, <2>1, <3>1, CacheAssumption DEF HashAfter
  <2>2. CASE c.do = "hset" /\ c.field # User(u)
    BY <1>0, <1>1, <1>3, <2>2 DEF HashAfter, GivesUser
  <2>3. CASE c.do = "hdel"
    BY <1>0, <1>1, <1>3, <2>3 DEF HashAfter, GivesUser, Drops
  <2>4. CASE c.do \notin {"hset", "hdel"}
    BY <1>3, <2>4, WriteCases DEF HashAfter, GivesUser
  <2> QED
    BY <2>1, <2>2, <2>3, <2>4
<1>4. ASSUME NEW g \in Guilds, NEW u \in Users, g \in sets[UserGuilds(u)] \/ GivesGuild(c, g, u)
      PROVE  g \in sets'[UserGuilds(u)]
  <2>1. CASE c.do = "sadd"
    BY <1>0, <1>1, <1>4, <2>1 DEF SetsAfter, GivesGuild
  <2>2. CASE c.do \in {"srem", "del"}
    <3>1. c.key # UserGuilds(u)
      BY <2>2 DEF Drops
    <3> QED
      BY <1>0, <1>1, <1>4, <2>2, <3>1 DEF SetsAfter, GivesGuild
  <2>3. CASE c.do \notin {"sadd", "srem", "del"}
    BY <1>4, <2>3, WriteCases DEF SetsAfter, GivesGuild
  <2> QED
    BY <2>1, <2>2, <2>3
<1>5. KnownUsers \union UsersGiven(<<c>>) \subseteq KnownUsers'
  BY <1>2, <1>3 DEF KnownUsers, UsersGiven
<1>6. ASSUME NEW m \in TrackedMembers \union MembersGiven(<<c>>)
      PROVE  m \in TrackedMembers'
  <2>1. m \in MemberIds /\ m[1] \in Guilds /\ m[2] \in Users
    BY DEF TrackedMembers, MembersGiven, MemberIds
  <2>2. m[1] \in sets[UserGuilds(m[2])] \/ GivesGuild(c, m[1], m[2])
    BY <1>2 DEF TrackedMembers, MembersGiven
  <2> QED
    BY <1>4, <2>1, <2>2 DEF TrackedMembers
<1> QED
  BY <1>5, <1>6

\* Which write makes a member cached: none but its own.
LEMMA MembersWritten ==
    ASSUME StoreTypeOK, NEW c \in Write, hash' = HashAfter(c),
           NEW g \in Guilds, NEW u \in Users, hash'[Member(g, u)] # None
    PROVE  hash[Member(g, u)] # None \/ Stores(c, g, u)
<1>1. Member(g, u) \in Field /\ DOMAIN hash = Field
  BY FieldsApart DEF Member, MemberIds, ObjectFields, StoreTypeOK
<1> QED
  BY <1>1 DEF HashAfter, Stores

LEMMA MembersHaveKnownUsers ==
    ASSUME MembersHaveUsers, NEW g \in Guilds, NEW u \in Users, hash[Member(g, u)] # None
    PROVE  u \in KnownUsers /\ <<g, u>> \in TrackedMembers
<1>1. <<g, u>> \in MemberIds
  BY DEF MemberIds
<1> QED
  BY <1>1 DEF MembersHaveUsers, KnownUsers, TrackedMembers

LEMMA MembersKeepUsers ==
    ASSUME StoreTypeOK, MembersHaveUsers, NEW c \in Write, ~Drops(c),
           \A g \in Guilds, u \in Users :
               Stores(c, g, u) => u \in KnownUsers /\ <<g, u>> \in TrackedMembers,
           hash' = HashAfter(c), sets' = SetsAfter(c)
    PROVE  MembersHaveUsers'
<1> SUFFICES ASSUME NEW g \in Guilds, NEW u \in Users, hash'[Member(g, u)] # None
             PROVE  hash'[User(u)] # None /\ g \in sets'[UserGuilds(u)]
  BY DEF MembersHaveUsers
<1>1. u \in KnownUsers /\ <<g, u>> \in TrackedMembers
  BY MembersWritten, MembersHaveKnownUsers
<1>2. u \in KnownUsers' /\ <<g, u>> \in TrackedMembers'
  BY <1>1, WriteKeepsUsers
<1> QED
  BY <1>2 DEF KnownUsers, TrackedMembers

LEMMA PreparedWrite ==
    ASSUME StoreTypeOK, MembersHaveUsers, NEW q \in Seq(Command), q # <<>>, Head(q) \in Write,
           Prepared(q, KnownUsers, TrackedMembers),
           hash' = HashAfter(Head(q)), sets' = SetsAfter(Head(q))
    PROVE  MembersHaveUsers' /\ Prepared(Tail(q), KnownUsers', TrackedMembers')
<1> DEFINE c == Head(q)
<1>1. Len(q) \in Nat /\ 1 \in 1..Len(q) /\ q[1] = c
  OBVIOUS
<1> HIDE DEF c
<1>2. ~Drops(c) /\ \A g \in Guilds, u \in Users :
                      Stores(c, g, u) => u \in KnownUsers /\ <<g, u>> \in TrackedMembers
  BY <1>1 DEF Prepared
<1>3. c \in Write /\ hash' = HashAfter(c) /\ sets' = SetsAfter(c)
  BY DEF c
<1>4. MembersHaveUsers'
  BY <1>2, <1>3, MembersKeepUsers
<1>5. /\ KnownUsers \union UsersGiven(<<c>>) \subseteq KnownUsers'
      /\ TrackedMembers \union MembersGiven(<<c>>) \subseteq TrackedMembers'
  BY <1>2, <1>3, WriteKeepsUsers
<1>6. Prepared(Tail(q), KnownUsers \union UsersGiven(<<c>>), TrackedMembers \union MembersGiven(<<c>>))
  BY PreparedTail DEF c
<1>7. Tail(q) \in Seq(Command)
  OBVIOUS
<1> QED
  BY <1>4, <1>5, <1>6, <1>7, PreparedMore

\* What follows a read is prepared, and gives what the read stood for.
LEMMA ThenPrepared ==
    ASSUME StoreTypeOK, MembersHaveUsers, NEW c \in Read, ~Drops(c), NEW next \in Then(c),
           \A g \in Guilds, u \in Users :
               Stores(c, g, u) => u \in KnownUsers /\ <<g, u>> \in TrackedMembers
    PROVE  /\ Prepared(next, KnownUsers, TrackedMembers)
           /\ UsersGiven(<<c>>) \subseteq KnownUsers \union UsersGiven(next)
           /\ MembersGiven(<<c>>) \subseteq TrackedMembers \union MembersGiven(next)
<1>0. Len(<<c>>) = 1 /\ <<c>>[1] = c
  OBVIOUS
<1>1. CASE c.do # "cache_user"
  <2>1. UsersGiven(<<c>>) = {} /\ MembersGiven(<<c>>) = {}
    BY <1>0, <1>1, ReadCases DEF UsersGiven, MembersGiven, GivesUser, GivesGuild, Call, MemberCalls,
       GuildCalls
  <2>2. CASE c.do \notin MemberReads
    BY <2>1, <2>2, HarmlessThen, HarmlessPrepared
  <2>3. ASSUME NEW f \in MemberCalls, NEW g \in Guilds, NEW u \in Users, NEW v \in Looks,
               c = Call(f, g, u, v)
        PROVE  Prepared(next, KnownUsers, TrackedMembers)
    <3>1. CASE f = "cache_member"
      <4>1. \/ next = <<>>
            \/ next = <<Call("cache_user", g, u, None), HSet(Member(g, u), v), SAdd(GuildMembers(g), u)>>
        BY <2>3, <3>1, MemberThen
      <4>2. CASE next = <<>>
        BY <4>2 DEF Prepared
      <4>3. CASE next = <<Call("cache_user", g, u, None), HSet(Member(g, u), v),
                          SAdd(GuildMembers(g), u)>>
        <5>1. /\ GivesUser(next[1], u) /\ GivesGuild(next[1], g, u)
              /\ ~Drops(next[1]) /\ ~Drops(next[2]) /\ ~Drops(next[3])
          BY <4>3 DEF Call, HSet, SAdd, GivesUser, GivesGuild, Drops
        <5>2. \A h \in Guilds, w \in Users : ~Stores(next[1], h, w) /\ ~Stores(next[3], h, w)
          BY <4>3 DEF Call, SAdd, Stores
        <5>3. \A h \in Guilds, w \in Users : Stores(next[2], h, w) => h = g /\ w = u
          BY <4>3 DEF HSet, Stores, Member
        <5>4. Len(next) = 3
          BY <4>3
        <5> HIDE <4>3
        <5>5. 1..Len(next) = {1, 2, 3} /\ 1 \in 1..(2 - 1)
          BY <5>4
        <5> QED
          BY <5>1, <5>2, <5>3, <5>5 DEF Prepared
      <4> QED
        BY <4>1, <4>2, <4>3
    <3>2. CASE f = "cache_borrowed_member"
      <4>1. next = <<>> \/ next = <<SAdd(GuildMembers(g), u), HSet(Member(g, u), v)>>
        BY <2>3, <3>2, MemberThen
      <4>2. u \in KnownUsers /\ <<g, u>> \in TrackedMembers
        BY <2>3, <3>2 DEF Stores, Call
      <4>3. CASE next = <<>>
        BY <4>3 DEF Prepared
      <4>4. CASE next = <<SAdd(GuildMembers(g), u), HSet(Member(g, u), v)>>
        <5>1. ~Drops(next[1]) /\ ~Drops(next[2])
          BY <4>4 DEF HSet, SAdd, Drops
        <5>2. \A h \in Guilds, w \in Users :
                 ~Stores(next[1], h, w) /\ (Stores(next[2], h, w) => h = g /\ w = u)
          BY <4>4 DEF HSet, SAdd, Stores, Member
        <5>3. 1..Len(next) = {1, 2}
          BY <4>4
        <5> QED
          BY <4>2, <5>1, <5>2, <5>3 DEF Prepared
      <4> QED
        BY <4>1, <4>3, <4>4
    <3>3. CASE f = "update_member"
      <4>1. \/ next = <<>>
            \/ /\ hash[Member(g, u)] # None
               /\ next = <<HSet(Member(g, u), v), Call("cache_user", g, u, None)>>
        BY <2>3, <3>3, MemberThen
      <4>2. CASE next = <<>>
        BY <4>2 DEF Prepared
      <4>3. CASE /\ hash[Member(g, u)] # None
                 /\ next = <<HSet(Member(g, u), v), Call("cache_user", g, u, None)>>
        <5>1. u \in KnownUsers /\ <<g, u>> \in TrackedMembers
          BY <4>3, MembersHaveKnownUsers
        <5>2. ~Drops(next[1]) /\ ~Drops(next[2])
          BY <4>3 DEF HSet, Call, Drops
        <5>3. \A h \in Guilds, w \in Users :
                 ~Stores(next[2], h, w) /\ (Stores(next[1], h, w) => h = g /\ w = u)
          BY <4>3 DEF HSet, Call, Stores, Member
        <5>4. 1..Len(next) = {1, 2}
          BY <4>3
        <5> QED
          BY <5>1, <5>2, <5>3, <5>4 DEF Prepared
      <4> QED
        BY <4>1, <4>2, <4>3
    <3> QED
      BY <3>1, <3>2, <3>3 DEF MemberCalls
  <2>4. c.do # "remove_user_in_no_guild"
    BY DEF Drops
  <2>5. CASE c.do \in MemberReads
    BY <2>1, <2>3, <2>4, <2>5, MemberReadCases DEF Call
  <2>6. Prepared(next, KnownUsers, TrackedMembers)
    BY <2>2, <2>5
  <2> QED
    BY <2>1, <2>6
<1>2. CASE c.do = "cache_user"
  <2>1. PICK g \in Guilds \union {None}, u \in Users : c = Call("cache_user", g, u, None)
    BY <1>2, ReadCases DEF Call, MemberCalls, GuildCalls
  <2>2. Prepared(next, KnownUsers, TrackedMembers)
    BY <1>2, HarmlessThen, HarmlessPrepared DEF MemberReads, MemberCalls
  <2>3. \/ next = PutUser(u) \o TrackUser(u, g)
        \/ hash[User(u)] # None /\ next = TrackUser(u, g)
    <3>1. c.id = u /\ c.guild = g
      BY <2>1 DEF Call
    <3> DEFINE put == PutUser(u) \o TrackUser(u, g)
               track == TrackUser(u, g)
    <3>2. AfterUserRead(c) = {put} \union (IF hash[User(u)] = None THEN {} ELSE {track})
      BY <3>1 DEF AfterUserRead
    <3>3. next \in AfterUserRead(c)
      <4>1. Then(c) = AfterUserRead(c)
        BY <1>2 DEF Then, MemberCalls
      <4> QED
        BY <4>1
    <3> HIDE DEF put, track
    <3>4. next = put \/ (hash[User(u)] # None /\ next = track)
      BY <3>2, <3>3
    <3> QED
      BY <3>4 DEF put, track
  <2>4. \A w \in UsersGiven(<<c>>) : w = u
    BY <1>0, <2>1 DEF UsersGiven, GivesUser, Call
  <2>5. \A m \in MembersGiven(<<c>>) : m \in MemberIds /\ m[1] = g /\ m[2] = u /\ g # None
    BY <1>0, <2>1, CacheAssumption DEF MembersGiven, GivesGuild, Call, MemberIds
  <2>6. u \in KnownUsers \union UsersGiven(next)
    <3>1. CASE hash[User(u)] # None
      BY <3>1 DEF KnownUsers
    <3>2. CASE next = PutUser(u) \o TrackUser(u, g)
      <4>1. 1 \in 1..Len(next) /\ next[1] = HSet(User(u), u)
        <5>1. TrackUser(u, g) \in Seq(Harmless)
          BY HarmlessUsers
        <5>2. \A c1, s1 : s1 \in Seq(Harmless) => 1 \in 1..Len(<<c1>> \o s1) /\ (<<c1>> \o s1)[1] = c1
          OBVIOUS
        <5> QED
          BY <3>2, <5>1, <5>2 DEF PutUser
      <4>2. GivesUser(next[1], u)
        BY <4>1 DEF GivesUser, HSet
      <4> QED
        BY <4>1, <4>2 DEF UsersGiven
    <3> QED
      BY <2>3, <3>1, <3>2
  <2>7. ASSUME NEW m \in MembersGiven(<<c>>) PROVE m \in MembersGiven(next)
    <3>1. TrackUser(u, g) = <<SAdd(UserGuilds(u), g)>>
      BY <2>5, <2>7 DEF TrackUser
    <3>2. \E j \in 1..Len(next) : next[j] = SAdd(UserGuilds(u), g)
      <4>1. CASE next = PutUser(u) \o TrackUser(u, g)
        <5>1. 2 \in 1..Len(next) /\ next[2] = SAdd(UserGuilds(u), g)
          BY <3>1, <4>1 DEF PutUser
        <5> QED
          BY <5>1
      <4>2. CASE next = TrackUser(u, g)
        <5>1. 1 \in 1..Len(next) /\ next[1] = SAdd(UserGuilds(u), g)
          BY <3>1, <4>2
        <5> QED
          BY <5>1
      <4> QED
        BY <2>3, <4>1, <4>2
    <3>3. GivesGuild(SAdd(UserGuilds(u), g), g, u)
      BY DEF GivesGuild, SAdd
    <3> QED
      BY <2>5, <2>7, <3>2, <3>3 DEF MembersGiven
  <2>8. UsersGiven(<<c>>) \subseteq KnownUsers \union UsersGiven(next)
    BY <2>4, <2>6
  <2>9. MembersGiven(<<c>>) \subseteq TrackedMembers \union MembersGiven(next)
    BY <2>7
  <2> QED
    BY <2>2, <2>8, <2>9
<1> QED
  BY <1>1, <1>2

\* MemberRemove on its way: q is what is left of it, member the cached one, guilds
\* those that track the user.
Removing(q, g, u, member, guilds) ==
    LET object == HDel({Member(g, u)})
        listed == SRem(GuildMembers(g), {u})
        tracked == SRem(UserGuilds(u), {g})
        user == Call("remove_user_in_no_guild", g, u, None)
    IN  \/ q = <<Call("count_down", g, None, None), object, listed, tracked, user>>
        \/ \E r \in CachedGuild : q = <<HSet(Guild(g), r)>> \o <<object, listed, tracked, user>>
        \/ q = <<object, listed, tracked, user>>
        \/ q = <<listed, tracked, user>> /\ member = None
        \/ q = <<tracked, user>> /\ member = None
        \/ q = <<user>>
        \/ q = <<HDel({User(u)})>> /\ guilds = {}

LEMMA HeadAndTail ==
    ASSUME NEW x, NEW a, NEW b, NEW c, NEW d
    PROVE  /\ Head(<<x>> \o <<a, b, c, d>>) = x
           /\ Tail(<<x>> \o <<a, b, c, d>>) = <<a, b, c, d>>
<1>1. \A S : \A t \in Seq(S) : x \in S => Head(<<x>> \o t) = x /\ Tail(<<x>> \o t) = t
  OBVIOUS
<1>2. <<a, b, c, d>> \in Seq({x, a, b, c, d})
  OBVIOUS
<1> QED
  BY <1>1, <1>2

LEMMA RemovingWrite ==
    ASSUME StoreTypeOK, MembersHaveUsers, NEW q, NEW g \in Guilds, NEW u \in Users,
           Removing(q, g, u, hash[Member(g, u)], sets[UserGuilds(u)]),
           Head(q) \in Write, hash' = HashAfter(Head(q)), sets' = SetsAfter(Head(q))
    PROVE  /\ MembersHaveUsers'
           /\ Tail(q) = <<>> \/ Removing(Tail(q), g, u, hash'[Member(g, u)], sets'[UserGuilds(u)])
<1> DEFINE object == HDel({Member(g, u)})
           listed == SRem(GuildMembers(g), {u})
           tracked == SRem(UserGuilds(u), {g})
           user == Call("remove_user_in_no_guild", g, u, None)
<1>0. DOMAIN hash = Field /\ DOMAIN sets = Key
  BY DEF StoreTypeOK
<1>1. /\ Member(g, u) \in Field /\ UserGuilds(u) \in Key
      /\ \A r \in CachedGuild : HSet(Guild(g), r) \in Write
      /\ object \in Write /\ listed \in Write
      /\ user \notin Write /\ Call("count_down", g, None, None) \notin Write
  <2>1. /\ Member(g, u) \in ObjectFields /\ UserGuilds(u) \in Key
        /\ Guild(g) \in GuildFields /\ GuildMembers(g) \in Key /\ u \in IdsOf(GuildMembers(g))
    BY DEF Member, MemberIds, ObjectFields, UserGuilds, Guild, GuildFields, GuildMembers, Key, IdsOf
  <2>2. user \notin Write /\ Call("count_down", g, None, None) \notin Write
    BY WriteCases DEF Call
  <2> QED
    BY <2>1, <2>2, FieldsApart DEF Write, HSet, HDel, SRem
<1>2. CASE \E r \in CachedGuild : q = <<HSet(Guild(g), r)>> \o <<object, listed, tracked, user>>
  <2> PICK r \in CachedGuild : q = <<HSet(Guild(g), r)>> \o <<object, listed, tracked, user>>
    BY <1>2
  <2> DEFINE c == HSet(Guild(g), r)
  <2>1. c \in Write /\ Head(q) = c /\ Tail(q) = <<object, listed, tracked, user>>
    BY <1>1, HeadAndTail
  <2>2. ~Drops(c) /\ \A h \in Guilds, w \in Users : ~Stores(c, h, w)
    BY DEF HSet, Drops, Stores, Guild, Member
  <2> HIDE DEF c, object, listed, tracked, user
  <2>3. MembersHaveUsers'
    BY <2>1, <2>2, MembersKeepUsers
  <2> QED
    BY <2>1, <2>3 DEF Removing, object, listed, tracked, user
<1>3. CASE q = <<object, listed, tracked, user>>
  <2>1. Head(q) = object /\ Tail(q) = <<listed, tracked, user>>
    BY <1>3
  <2>2. ~Drops(object) /\ \A h \in Guilds, w \in Users : ~Stores(object, h, w)
    BY DEF HDel, Drops, Stores, Member, UserFields
  <2>3. hash'[Member(g, u)] = None
    BY <1>0, <1>1, <2>1 DEF HashAfter, HDel
  <2> HIDE DEF object, listed, tracked, user
  <2>4. MembersHaveUsers'
    BY <1>1, <2>1, <2>2, MembersKeepUsers
  <2> QED
    BY <2>1, <2>3, <2>4 DEF Removing, listed, tracked, user
<1>4. CASE q = <<listed, tracked, user>> /\ hash[Member(g, u)] = None
  <2>1. Head(q) = listed /\ Tail(q) = <<tracked, user>>
    BY <1>4
  <2>2. ~Drops(listed) /\ \A h \in Guilds, w \in Users : ~Stores(listed, h, w)
    BY DEF SRem, Drops, Stores, GuildMembers, UserGuilds
  <2>3. hash'[Member(g, u)] = None
    BY <1>4, <2>1 DEF HashAfter, SRem
  <2> HIDE DEF object, listed, tracked, user
  <2>4. MembersHaveUsers'
    BY <1>1, <2>1, <2>2, MembersKeepUsers
  <2> QED
    BY <2>1, <2>3, <2>4 DEF Removing, tracked, user
<1>5. CASE q = <<tracked, user>> /\ hash[Member(g, u)] = None
  <2>1. Head(q) = tracked /\ Tail(q) = <<user>>
    BY <1>5
  <2>2. hash' = hash /\ sets' = [sets EXCEPT ![UserGuilds(u)] = @ \ {g}]
    <3>1. tracked.do = "srem" /\ tracked.key = UserGuilds(u) /\ tracked.ids = {g}
      BY DEF SRem
    <3> HIDE DEF tracked
    <3> QED
      BY <2>1, <3>1 DEF HashAfter, SetsAfter
  <2>3. ASSUME NEW h \in Guilds, NEW w \in Users, hash[Member(h, w)] # None
        PROVE  hash[User(w)] # None /\ h \in sets'[UserGuilds(w)]
    <3>1. hash[User(w)] # None /\ h \in sets[UserGuilds(w)]
      BY <2>3 DEF MembersHaveUsers
    <3>2. w # u \/ h # g
      BY <1>5, <2>3
    <3>3. CASE w # u
      <4>1. UserGuilds(w) # UserGuilds(u)
        BY <3>3 DEF UserGuilds
      <4>2. UserGuilds(w) \in Key
        BY DEF UserGuilds, Key
      <4> QED
        BY <1>0, <2>2, <3>1, <4>1, <4>2
    <3>4. CASE w = u
      <4>1. sets'[UserGuilds(u)] = sets[UserGuilds(u)] \ {g}
        BY <1>0, <1>1, <2>2
      <4>2. hash[User(u)] # None /\ h \in sets[UserGuilds(u)] /\ h # g
        BY <3>1, <3>2, <3>4
      <4>3. hash[User(u)] # None /\ h \in sets'[UserGuilds(u)]
        BY <4>1, <4>2
      <4> QED
        BY <3>4, <4>3
    <3> QED
      BY <3>3, <3>4
  <2>4. MembersHaveUsers'
    BY <2>2, <2>3 DEF MembersHaveUsers
  <2> QED
    BY <2>1, <2>4 DEF Removing
<1>6. CASE q = <<HDel({User(u)})>> /\ sets[UserGuilds(u)] = {}
  <2>1. Head(q) = HDel({User(u)}) /\ Tail(q) = <<>>
    BY <1>6
  <2>2. sets' = sets /\ hash' = [f \in Field |-> IF f = User(u) THEN None ELSE hash[f]]
    BY <2>1 DEF HashAfter, SetsAfter, HDel
  <2>3. \A h \in Guilds, w \in Users : /\ Member(h, w) \in Field /\ User(w) \in Field
                                       /\ Member(h, w) # User(u)
    BY FieldsApart DEF Member, MemberIds, ObjectFields, User, UserFields
  <2>4. \A w \in Users : w # u => User(w) # User(u)
    BY DEF User
  <2>5. ASSUME NEW h \in Guilds, NEW w \in Users, hash'[Member(h, w)] # None
        PROVE  hash'[User(w)] # None /\ h \in sets[UserGuilds(w)]
    <3>1. hash[Member(h, w)] # None
      BY <2>2, <2>3, <2>5
    <3>2. hash[User(w)] # None /\ h \in sets[UserGuilds(w)]
      BY <3>1 DEF MembersHaveUsers
    <3>3. w # u
      BY <1>6, <3>2
    <3> QED
      BY <2>2, <2>3, <2>4, <3>2, <3>3
  <2> QED
    BY <2>1, <2>2, <2>5 DEF MembersHaveUsers
<1>7. q # <<user>> /\ q # <<Call("count_down", g, None, None), object, listed, tracked, user>>
  BY <1>1
<1> QED
  BY <1>2, <1>3, <1>4, <1>5, <1>6, <1>7 DEF Removing

LEMMA RemovingHeads ==
    ASSUME NEW q, NEW g, NEW u, NEW member, NEW guilds, Removing(q, g, u, member, guilds)
    PROVE  Head(q).do \in {"hset", "hdel", "srem", "count_down", "remove_user_in_no_guild"}
<1> DEFINE object == HDel({Member(g, u)})
           listed == SRem(GuildMembers(g), {u})
           tracked == SRem(UserGuilds(u), {g})
           user == Call("remove_user_in_no_guild", g, u, None)
           down == Call("count_down", g, None, None)
           gone == HDel({User(u)})
<1>1. \/ q = <<down, object, listed, tracked, user>>
      \/ \E r \in CachedGuild : q = <<HSet(Guild(g), r)>> \o <<object, listed, tracked, user>>
      \/ q = <<object, listed, tracked, user>> \/ q = <<listed, tracked, user>>
      \/ q = <<tracked, user>> \/ q = <<user>> \/ q = <<gone>>
  BY DEF Removing
<1>2. /\ down.do = "count_down" /\ object.do = "hdel" /\ listed.do = "srem"
      /\ tracked.do = "srem" /\ user.do = "remove_user_in_no_guild" /\ gone.do = "hdel"
      /\ \A r : HSet(Guild(g), r).do = "hset"
  BY DEF Call, HDel, SRem, HSet
<1> HIDE DEF object, listed, tracked, user, down, gone
<1>3. ASSUME NEW r \in CachedGuild, q = <<HSet(Guild(g), r)>> \o <<object, listed, tracked, user>>
      PROVE  Head(q) = HSet(Guild(g), r)
  BY <1>3, HeadAndTail
<1>4. CASE q = <<down, object, listed, tracked, user>>
  BY <1>2, <1>4
<1>5. CASE q = <<object, listed, tracked, user>> \/ q = <<listed, tracked, user>>
  BY <1>2, <1>5
<1>6. CASE q = <<tracked, user>> \/ q = <<user>> \/ q = <<gone>>
  BY <1>2, <1>6
<1> QED
  BY <1>1, <1>2, <1>3, <1>4, <1>5, <1>6

LEMMA EmptySeries ==
    ASSUME NEW a, NEW b, NEW c, NEW d
    PROVE  /\ <<>> \o <<>> = <<>> /\ <<a>> \o <<>> = <<a>>
           /\ <<>> \o <<a, b, c, d>> = <<a, b, c, d>>
<1>1. <<>> \o <<>> = <<>> /\ <<a>> \o <<>> = <<a>>
  OBVIOUS
<1>2. <<a, b, c, d>> \in Seq({a, b, c, d})
  OBVIOUS
<1> QED
  BY <1>1, <1>2, ConcatEmptySeq

LEMMA RemovingRead ==
    ASSUME StoreTypeOK, NEW q, NEW g \in Guilds, NEW u \in Users,
           Removing(q, g, u, hash[Member(g, u)], sets[UserGuilds(u)]),
           Head(q) \in Read, NEW next \in Then(Head(q))
    PROVE  \/ next \o Tail(q) = <<>>
           \/ Removing(next \o Tail(q), g, u, hash[Member(g, u)], sets[UserGuilds(u)])
<1> DEFINE object == HDel({Member(g, u)})
           listed == SRem(GuildMembers(g), {u})
           tracked == SRem(UserGuilds(u), {g})
           user == Call("remove_user_in_no_guild", g, u, None)
           down == Call("count_down", g, None, None)
<1>1. \A c \in Read : c.do \notin {"hset", "hdel", "srem"}
  BY ReadCases DEF Call, MemberCalls, GuildCalls
<1>2. CASE q = <<down, object, listed, tracked, user>>
  <2>1. Head(q) = down /\ Tail(q) = <<object, listed, tracked, user>>
    BY <1>2
  <2>2. next = AfterGuildRead(down)
    BY <2>1 DEF Then, Call, MemberCalls
  <2>3. next = <<>> \/ \E r \in CachedGuild : next = <<HSet(Guild(g), r)>>
    <3>1. Guild(g) \in GuildFields
      BY DEF Guild, GuildFields
    <3>2. CASE hash[Guild(g)] = None
      BY <2>2, <3>2 DEF AfterGuildRead, PutGuild, Call
    <3>3. CASE hash[Guild(g)] # None
      <4>1. hash[Guild(g)] \in CachedGuild
        BY <3>1, <3>3 DEF StoreTypeOK
      <4>2. [hash[Guild(g)] EXCEPT !.member_count = Below(@)] \in CachedGuild
        BY <4>1 DEF CachedGuild, Below
      <4> QED
        BY <2>2, <3>3, <4>2 DEF AfterGuildRead, PutGuild, Call
    <3> QED
      BY <3>2, <3>3
  <2> HIDE DEF object, listed, tracked, user, down
  <2>4. CASE next = <<>>
    <3>1. next \o Tail(q) = <<object, listed, tracked, user>>
      BY <2>1, <2>4, EmptySeries
    <3> QED
      BY <3>1 DEF Removing, object, listed, tracked, user
  <2>5. ASSUME NEW r \in CachedGuild, next = <<HSet(Guild(g), r)>>
        PROVE  Removing(next \o Tail(q), g, u, hash[Member(g, u)], sets[UserGuilds(u)])
    <3>1. next \o Tail(q) = <<HSet(Guild(g), r)>> \o <<object, listed, tracked, user>>
      BY <2>1, <2>5
    <3> QED
      BY <3>1 DEF Removing, object, listed, tracked, user
  <2> QED
    BY <2>3, <2>4, <2>5
<1>3. CASE q = <<user>>
  <2>1. Head(q) = user /\ Tail(q) = <<>>
    BY <1>3
  <2>2. next = IF sets[UserGuilds(u)] = {} THEN <<HDel({User(u)})>> ELSE <<>>
    BY <2>1 DEF Then, Call, MemberCalls, AfterTracksRead
  <2>3. next \o Tail(q) = next
    BY <2>1, <2>2, EmptySeries
  <2> QED
    BY <2>2, <2>3 DEF Removing
<1>4. \A c \in {object, listed, tracked, HDel({User(u)})} : c \notin Read
  BY <1>1 DEF HDel, SRem
<1>5. \A r \in CachedGuild : HSet(Guild(g), r) \notin Read
  BY <1>1 DEF HSet
<1>6. q = <<down, object, listed, tracked, user>> \/ q = <<user>>
  <2> DEFINE gone == HDel({User(u)})
  <2>1. \/ q = <<down, object, listed, tracked, user>>
        \/ \E r \in CachedGuild : q = <<HSet(Guild(g), r)>> \o <<object, listed, tracked, user>>
        \/ q = <<object, listed, tracked, user>> \/ q = <<listed, tracked, user>>
        \/ q = <<tracked, user>> \/ q = <<user>> \/ q = <<gone>>
    BY DEF Removing
  <2>2. Head(q) \notin {object, listed, tracked, gone}
    BY <1>4
  <2> HIDE DEF object, listed, tracked, user, down, gone
  <2>3. ASSUME NEW r \in CachedGuild, q = <<HSet(Guild(g), r)>> \o <<object, listed, tracked, user>>
        PROVE  FALSE
    <3>1. Head(q) = HSet(Guild(g), r)
      BY <2>3, HeadAndTail
    <3> QED
      BY <1>5, <3>1
  <2>4. /\ q # <<object, listed, tracked, user>> /\ q # <<listed, tracked, user>>
        /\ q # <<tracked, user>> /\ q # <<gone>>
    BY <2>2
  <2> QED
    BY <2>1, <2>3, <2>4
<1> QED
  BY <1>2, <1>3, <1>6

\* The series of an event: prepared from the start, or that of MemberRemove.
LEMMA SeriesPrepared ==
    ASSUME WorldTypeOK, NEW q \in KeepingSeries, NEW known, NEW tracked
    PROVE  Prepared(q, known, tracked)
<1>1. ASSUME NEW g \in Guilds, NEW u \in Users
      PROVE  Prepared(Mentioned(g, u), known, tracked)
  <2> DEFINE seen == Call("cache_user", g, u, None)
             member == Call("cache_borrowed_member", g, u, joined[<<g, u>>])
  <2>1. CacheUser(u, g) \in Seq(Harmless) /\ CacheUser(u, g) = <<seen>>
    BY HarmlessUsers DEF CacheUser
  <2>2. CASE u \notin MembersOf(g)
    <3>1. Mentioned(g, u) = CacheUser(u, g)
      BY <2>1, <2>2 DEF Mentioned
    <3> QED
      BY <2>1, <3>1, HarmlessPrepared
  <2>3. CASE u \in MembersOf(g)
    <3>1. Mentioned(g, u) = <<seen>> \o <<member>>
      BY <2>3 DEF Mentioned, CacheUser, CacheBorrowedMember
    <3>2. /\ GivesUser(seen, u) /\ GivesGuild(seen, g, u) /\ ~Drops(member)
          /\ \A h \in Guilds, w \in Users : Stores(member, h, w) => h = g /\ w = u
      BY DEF Call, GivesUser, GivesGuild, Drops, Stores
    <3>3. <<seen>> \in Seq(Command) /\ <<member>> \in Seq(Command)
      BY <2>1, <2>3, MemberOf, MemberCommands, HarmlessIsCommand
    <3> HIDE DEF seen, member
    <3>4. u \in UsersGiven(<<seen>>) /\ <<g, u>> \in MembersGiven(<<seen>>)
      <4>1. Len(<<seen>>) = 1 /\ <<seen>>[1] = seen
        OBVIOUS
      <4> QED
        BY <3>2, <4>1 DEF UsersGiven, MembersGiven, MemberIds
    <3>5. Prepared(<<member>>, known \union UsersGiven(<<seen>>), tracked \union MembersGiven(<<seen>>))
      <4>1. 1..Len(<<member>>) = {1} /\ <<member>>[1] = member
        OBVIOUS
      <4> QED
        BY <3>2, <3>4, <4>1 DEF Prepared
    <3>6. Prepared(<<seen>>, known, tracked)
      BY <2>1, HarmlessPrepared
    <3> QED
      BY <3>1, <3>3, <3>5, <3>6, PreparedAppend
  <2> QED
    BY <2>2, <2>3
<1>2. ASSUME NEW g \in Guilds, NEW u \in Users, NEW v \in Users, NEW rest \in Seq(Harmless)
      PROVE  Prepared(Mentioned(g, u) \o Mentioned(g, v) \o rest, known, tracked)
  <2> DEFINE first == Mentioned(g, u)
             second == Mentioned(g, v)
  <2>1. first \in Seq(Command) /\ second \in Seq(Command) /\ rest \in Seq(Command)
    BY MentionTypes, HarmlessIsCommand
  <2>2. /\ Prepared(first, known, tracked) /\ Prepared(second, known, tracked)
        /\ Prepared(rest, known, tracked)
    BY <1>1, HarmlessPrepared
  <2> HIDE DEF first, second
  <2>3. ASSUME NEW s \in Seq(Command), NEW t \in Seq(Command),
               Prepared(s, known, tracked), Prepared(t, known, tracked)
        PROVE  Prepared(s \o t, known, tracked)
    <3>1. /\ known \subseteq known \union UsersGiven(s)
          /\ tracked \subseteq tracked \union MembersGiven(s)
      OBVIOUS
    <3>2. Prepared(t, known \union UsersGiven(s), tracked \union MembersGiven(s))
      BY <2>3, <3>1, PreparedMore
    <3> QED
      BY <2>3, <3>2, PreparedAppend
  <2>4. first \o second \in Seq(Command) /\ Prepared(first \o second, known, tracked)
    BY <2>1, <2>2, <2>3, CommandSequences
  <2>5. Prepared(first \o second \o rest, known, tracked)
    BY <2>1, <2>2, <2>3, <2>4
  <2> QED
    BY <2>5 DEF first, second
<1>3. ASSUME q \in MentionSeries PROVE Prepared(q, known, tracked)
  <2>1. \A g \in Guilds, u \in Users, v \in Users :
           \A t \in TwoMentions(g, u, v) : Prepared(t, known, tracked)
    BY <1>2 DEF TwoMentions
  <2> QED
    BY <1>1, <1>3, <2>1 DEF MentionSeries
<1> QED
  BY <1>3, HarmlessPrepared DEF KeepingSeries

HandlerIsPrepared(h) ==
    \/ Prepared(todo[h], KnownUsers, TrackedMembers)
    \/ \E g \in Guilds, u \in Users :
          Removing(todo[h], g, u, hash[Member(g, u)], sets[UserGuilds(u)])

UsersOutliveMembers == MembersHaveUsers /\ \A h \in Handlers : HandlerIsPrepared(h)

LEMMA NothingIsPrepared ==
    ASSUME NEW h \in Handlers, todo[h] = <<>>
    PROVE  HandlerIsPrepared(h)
  BY DEF HandlerIsPrepared, Prepared

LEMMA StoreUnchanged ==
    ASSUME UNCHANGED storeVars
    PROVE  /\ KnownUsers' = KnownUsers /\ TrackedMembers' = TrackedMembers
           /\ MembersHaveUsers' = MembersHaveUsers
           /\ hash' = hash /\ sets' = sets
  BY DEF storeVars, KnownUsers, TrackedMembers, MembersHaveUsers

\* A prepared handler that does not begin to remove a member stays prepared, and
\* whatever is known and tracked stays so: nothing is taken from the others.
LEMMA PreparedStep ==
    ASSUME TypeOK, MembersHaveUsers, NEW h \in Handlers,
           Prepared(todo[h], KnownUsers, TrackedMembers),
           NextItem(h) \/ Writes(h) \/ Reads(h) \/ Fails(h) \/ EventIsTaken(h), ~MemberLeaves(h)
    PROVE  /\ MembersHaveUsers' /\ Prepared(todo'[h], KnownUsers', TrackedMembers')
           /\ KnownUsers \subseteq KnownUsers' /\ TrackedMembers \subseteq TrackedMembers'
           /\ todo' = [todo EXCEPT ![h] = todo'[h]]
<1>0. /\ StoreTypeOK /\ WorldTypeOK /\ todo \in [Handlers -> Seq(Command)]
      /\ todo[h] \in Seq(Command)
  BY DEF TypeOK
<1> DEFINE q == todo[h]
           c == Head(q)
<1>b. ASSUME q # <<>>
      PROVE  ~Drops(c) /\ \A g \in Guilds, u \in Users :
                             Stores(c, g, u) => u \in KnownUsers /\ <<g, u>> \in TrackedMembers
  <2>1. 1 \in 1..Len(q) /\ q[1] = c /\ 1..(1 - 1) = {}
    BY <1>0, <1>b
  <2> QED
    BY <2>1 DEF Prepared
<1>u. ASSUME UNCHANGED storeVars, NEW s, todo' = [todo EXCEPT ![h] = s],
             Prepared(s, KnownUsers, TrackedMembers)
      PROVE  /\ MembersHaveUsers' /\ Prepared(todo'[h], KnownUsers', TrackedMembers')
             /\ KnownUsers \subseteq KnownUsers' /\ TrackedMembers \subseteq TrackedMembers'
             /\ todo' = [todo EXCEPT ![h] = todo'[h]]
  <2>1. todo'[h] = s
    BY <1>0, <1>u
  <2> QED
    BY <1>u, <2>1, StoreUnchanged
<1>w. ASSUME q # <<>>, c \in Write, hash' = HashAfter(c), sets' = SetsAfter(c)
      PROVE  /\ MembersHaveUsers' /\ Prepared(Tail(q), KnownUsers', TrackedMembers')
             /\ KnownUsers \subseteq KnownUsers' /\ TrackedMembers \subseteq TrackedMembers'
  <2>1. MembersHaveUsers' /\ Prepared(Tail(q), KnownUsers', TrackedMembers')
    BY <1>0, <1>w, PreparedWrite
  <2>2. KnownUsers \subseteq KnownUsers' /\ TrackedMembers \subseteq TrackedMembers'
    <3>1. ~Drops(c)
      BY <1>b, <1>w
    <3> HIDE DEF c
    <3> QED
      BY <1>0, <1>w, <3>1, WriteKeepsUsers
  <2> QED
    BY <2>1, <2>2
<1>1. CASE NextItem(h)
  <2>1. q # <<>> /\ c \in Each /\ UNCHANGED storeVars
    BY <1>1 DEF NextItem, Doing
  <2>2. PICK item \in c.items :
            todo' = [todo EXCEPT ![h] = Body(c, item) \o Loop(c.function, c.guild, c.items \ {item})
                                        \o Tail(@)]
    BY <1>1 DEF NextItem
  <2> DEFINE next == Body(c, item) \o Loop(c.function, c.guild, c.items \ {item})
  <2>3. next \in Seq(Harmless)
    BY <2>1, HarmlessBodies, HarmlessSeries
  <2>4. UsersGiven(<<c>>) = {} /\ MembersGiven(<<c>>) = {}
    <3>1. Len(<<c>>) = 1 /\ <<c>>[1] = c
      OBVIOUS
    <3>2. c.do = "each"
      BY <2>1, EachCases
    <3> HIDE DEF c
    <3> QED
      BY <3>1, <3>2 DEF UsersGiven, MembersGiven, GivesUser, GivesGuild
  <2>5. todo' = [todo EXCEPT ![h] = next \o Tail(q)]
    BY <1>0, <2>2
  <2>6. Prepared(next, KnownUsers, TrackedMembers) /\ next \in Seq(Command)
    BY <2>3, HarmlessPrepared, HarmlessIsCommand
  <2> HIDE DEF next
  <2>7. Prepared(next \o Tail(q), KnownUsers, TrackedMembers)
    BY <1>0, <2>1, <2>4, <2>6, PreparedNext
  <2> QED
    BY <1>u, <2>1, <2>5, <2>7
<1>2. CASE Writes(h)
  <2>1. /\ q # <<>> /\ c \in Write /\ hash' = HashAfter(c) /\ sets' = SetsAfter(c)
        /\ todo' = [todo EXCEPT ![h] = Tail(q)]
    BY <1>0, <1>2 DEF Writes, Doing
  <2>2. todo'[h] = Tail(q)
    BY <1>0, <2>1
  <2> QED
    BY <1>w, <2>1, <2>2
<1>3. CASE Reads(h)
  <2>1. q # <<>> /\ c \in Read /\ UNCHANGED storeVars
    BY <1>3 DEF Reads, Doing
  <2>2. PICK next \in Then(c) : todo' = [todo EXCEPT ![h] = next \o Tail(@)]
    BY <1>3 DEF Reads
  <2>3. todo' = [todo EXCEPT ![h] = next \o Tail(q)]
    BY <1>0, <2>2
  <2>4. /\ Prepared(next, KnownUsers, TrackedMembers)
        /\ UsersGiven(<<c>>) \subseteq KnownUsers \union UsersGiven(next)
        /\ MembersGiven(<<c>>) \subseteq TrackedMembers \union MembersGiven(next)
    BY <1>0, <1>b, <2>1, ThenPrepared
  <2>5. next \in Seq(Command)
    BY <1>0, <2>1, ThenTypes
  <2>6. Prepared(next \o Tail(q), KnownUsers, TrackedMembers)
    BY <1>0, <2>1, <2>4, <2>5, PreparedNext
  <2> QED
    BY <1>u, <2>1, <2>3, <2>6
<1>4. CASE Fails(h)
  <2>1. todo' = [todo EXCEPT ![h] = <<>>]
    BY <1>4 DEF Fails
  <2>2. \A known, tracked : Prepared(<<>>, known, tracked)
    BY EmptyPrepared
  <2>3. CASE UNCHANGED storeVars
    BY <1>u, <2>1, <2>2, <2>3
  <2>4. CASE Doing(h, Write) /\ hash' = HashAfter(c) /\ sets' = SetsAfter(c)
    <3>1. todo'[h] = <<>>
      BY <1>0, <2>1
    <3> QED
      BY <1>w, <2>1, <2>2, <2>4, <3>1 DEF Doing
  <2> QED
    BY <1>4, <2>3, <2>4 DEF Fails
<1>5. CASE EventIsTaken(h)
  <2>1. TakesOneOf(h, KeepingSeries)
    BY <1>0, <1>5, EventTypes
  <2>2. PICK s \in KeepingSeries : todo' = [todo EXCEPT ![h] = s] /\ UNCHANGED storeVars
    BY <2>1 DEF TakesOneOf
  <2>3. Prepared(s, KnownUsers, TrackedMembers)
    BY <1>0, SeriesPrepared
  <2> QED
    BY <1>u, <2>2, <2>3
<1> QED
  BY <1>1, <1>2, <1>3, <1>4, <1>5

\* One step of a handler keeps it prepared, and the members their users.
LEMMA HandlerStep ==
    ASSUME TypeOK, MembersHaveUsers, NEW h \in Handlers, HandlerIsPrepared(h),
           NextItem(h) \/ Writes(h) \/ Reads(h) \/ Fails(h) \/ EventIsTaken(h)
    PROVE  MembersHaveUsers' /\ HandlerIsPrepared(h)'
<1>0. /\ StoreTypeOK /\ WorldTypeOK /\ todo \in [Handlers -> Seq(Command)]
      /\ todo[h] \in Seq(Command)
  BY DEF TypeOK
<1> DEFINE q == todo[h]
           c == Head(q)
<1>1. CASE MemberLeaves(h)
  <2>1. TakesOneOf(h, RemovalSeries)
    BY <1>0, <1>1, RemovalEvents
  <2>s. PICK s \in RemovalSeries : todo' = [todo EXCEPT ![h] = s]
    BY <2>1 DEF TakesOneOf
  <2>2. PICK g \in Guilds, u \in Users : s = RemoveMember(g, u)
    BY <2>s DEF RemovalSeries
  <2>3. todo'[h] = RemoveMember(g, u) /\ UNCHANGED storeVars
    <3>1. todo'[h] = s
      BY <1>0, <2>s
    <3>2. UNCHANGED storeVars
      BY <2>1 DEF TakesOneOf
    <3> QED
      BY <2>2, <3>1, <3>2
  <2>4. Removing(RemoveMember(g, u), g, u, hash[Member(g, u)], sets[UserGuilds(u)])
    BY DEF Removing, RemoveMember
  <2> QED
    BY <2>3, <2>4, StoreUnchanged DEF HandlerIsPrepared
<1>2. CASE Prepared(q, KnownUsers, TrackedMembers) /\ ~MemberLeaves(h)
  BY <1>2, PreparedStep DEF HandlerIsPrepared
<1>3. ASSUME NEW g \in Guilds, NEW u \in Users, q # <<>>,
             Removing(q, g, u, hash[Member(g, u)], sets[UserGuilds(u)])
      PROVE  MembersHaveUsers' /\ HandlerIsPrepared(h)'
  <2>1. c \notin Each
    BY <1>3, RemovingHeads, EachCases
  <2>2. ~NextItem(h) /\ ~EventIsTaken(h)
    BY <1>0, <1>3, <2>1, EventTypes DEF NextItem, Doing, TakesSeries, TakesOneOf
  <2>3. ASSUME c \in Write, hash' = HashAfter(c), sets' = SetsAfter(c)
        PROVE  /\ MembersHaveUsers'
               /\ \/ Tail(q) = <<>>
                  \/ Removing(Tail(q), g, u, hash'[Member(g, u)], sets'[UserGuilds(u)])
    BY <1>0, <1>3, <2>3, RemovingWrite
  <2>4. CASE Writes(h)
    <3>1. /\ c \in Write /\ hash' = HashAfter(c) /\ sets' = SetsAfter(c)
          /\ todo' = [todo EXCEPT ![h] = Tail(q)]
      BY <1>0, <2>4 DEF Writes, Doing
    <3>2. todo'[h] = Tail(q)
      BY <1>0, <3>1
    <3>3. Tail(q) = <<>> => Prepared(Tail(q), KnownUsers', TrackedMembers')
      BY EmptyPrepared
    <3> QED
      BY <2>3, <3>1, <3>2, <3>3 DEF HandlerIsPrepared
  <2>5. CASE Reads(h)
    <3>1. c \in Read /\ UNCHANGED storeVars
      BY <2>5 DEF Reads, Doing
    <3>2. PICK next \in Then(c) : todo' = [todo EXCEPT ![h] = next \o Tail(@)]
      BY <2>5 DEF Reads
    <3>3. todo'[h] = next \o Tail(q)
      BY <1>0, <3>2
    <3>4. \/ next \o Tail(q) = <<>>
          \/ Removing(next \o Tail(q), g, u, hash[Member(g, u)], sets[UserGuilds(u)])
      BY <1>0, <1>3, <3>1, RemovingRead
    <3>5. ASSUME next \o Tail(q) = <<>>
          PROVE  Prepared(next \o Tail(q), KnownUsers, TrackedMembers)
      BY <3>5, EmptyPrepared
    <3> QED
      BY <3>1, <3>3, <3>4, <3>5, StoreUnchanged DEF HandlerIsPrepared
  <2>6. CASE Fails(h)
    <3>1. todo'[h] = <<>>
      BY <1>0, <2>6 DEF Fails
    <3>2. HandlerIsPrepared(h)'
      BY <3>1 DEF HandlerIsPrepared, Prepared
    <3>3. CASE UNCHANGED storeVars
      BY <3>2, <3>3, StoreUnchanged
    <3>4. CASE Doing(h, Write) /\ hash' = HashAfter(c) /\ sets' = SetsAfter(c)
      BY <2>3, <3>2, <3>4 DEF Doing
    <3> QED
      BY <2>6, <3>3, <3>4 DEF Fails
  <2> QED
    BY <2>2, <2>4, <2>5, <2>6
<1>4. q = <<>> => Prepared(q, KnownUsers, TrackedMembers)
  BY EmptyPrepared
<1> QED
  BY <1>1, <1>2, <1>3, <1>4 DEF HandlerIsPrepared

\* With one handler, a cached member has a cached user that tracks its guild,
\* whatever fails at any command: cache_member stores the user first, and
\* MemberRemove forgets one only when no guild tracks it (event/member.rs).  With
\* two it is not so: see TrackedUsersAreKept.
THEOREM UsersAreKept ==
    ASSUME NEW only, Handlers = {only}
    PROVE  Spec => []MembersHaveUsers
<1>1. Init => UsersOutliveMembers
  <2> SUFFICES ASSUME Init PROVE UsersOutliveMembers
    OBVIOUS
  <2>1. \A h \in Handlers : HandlerIsPrepared(h)
    BY NothingIsPrepared DEF Init
  <2>2. \A g \in Guilds, u \in Users : hash[Member(g, u)] = None
    BY FieldsApart DEF Init, StoreInit, Member, MemberIds, ObjectFields
  <2> QED
    BY <2>1, <2>2 DEF UsersOutliveMembers, MembersHaveUsers
<1>2. TypeOK /\ UsersOutliveMembers /\ [Next]_vars => UsersOutliveMembers'
  <2> SUFFICES ASSUME TypeOK, UsersOutliveMembers, [Next]_vars PROVE UsersOutliveMembers'
    OBVIOUS
  <2>1. CASE Next
    <3>1. MembersHaveUsers' /\ HandlerIsPrepared(only)'
      BY <2>1, HandlerStep DEF Next, UsersOutliveMembers
    <3> QED
      BY <3>1 DEF UsersOutliveMembers
  <2>2. CASE UNCHANGED vars
    <3>1. UNCHANGED storeVars /\ todo' = todo
      BY <2>2 DEF vars, handlerVars
    <3> QED
      BY <3>1, StoreUnchanged DEF UsersOutliveMembers, HandlerIsPrepared
  <2> QED
    BY <2>1, <2>2
<1>3. UsersOutliveMembers => MembersHaveUsers
  BY DEF UsersOutliveMembers
<1> QED
  BY <1>1, <1>2, <1>3, TypeCorrect, PTL DEF Spec

\* What every step but the departure of a member keeps.
KeptByAll == MembersHaveUsers /\ \A h \in Handlers : Prepared(todo[h], KnownUsers, TrackedMembers)

\* However many handlers there are, it takes the departure of a member to bring
\* a member without a user about: every other event, failed or not, only adds
\* users and what they are tracked in.
THEOREM UsersAreKeptByAll ==
    Spec /\ [][\A h \in Handlers : ~MemberLeaves(h)]_vars => []MembersHaveUsers
<1>1. Init => KeptByAll
  <2> SUFFICES ASSUME Init PROVE KeptByAll
    OBVIOUS
  <2>1. \A h \in Handlers : Prepared(todo[h], KnownUsers, TrackedMembers)
    <3>1. \A h \in Handlers : todo[h] = <<>>
      BY DEF Init
    <3> QED
      BY <3>1, EmptyPrepared
  <2>2. \A g \in Guilds, u \in Users : hash[Member(g, u)] = None
    BY FieldsApart DEF Init, StoreInit, Member, MemberIds, ObjectFields
  <2> QED
    BY <2>1, <2>2 DEF KeptByAll, MembersHaveUsers
<1>2. TypeOK /\ KeptByAll /\ [Next]_vars /\ [\A h \in Handlers : ~MemberLeaves(h)]_vars => KeptByAll'
  <2> SUFFICES ASSUME TypeOK, KeptByAll, [Next]_vars, [\A h \in Handlers : ~MemberLeaves(h)]_vars
               PROVE  KeptByAll'
    OBVIOUS
  <2>1. CASE UNCHANGED vars
    <3>1. UNCHANGED storeVars /\ todo' = todo
      BY <2>1 DEF vars, handlerVars
    <3> QED
      BY <3>1, StoreUnchanged DEF KeptByAll
  <2>2. ASSUME NEW h \in Handlers, ~MemberLeaves(h),
               NextItem(h) \/ Writes(h) \/ Reads(h) \/ Fails(h) \/ EventIsTaken(h)
        PROVE  KeptByAll'
    <3>1. todo \in [Handlers -> Seq(Command)]
      BY DEF TypeOK
    <3>2. /\ MembersHaveUsers' /\ Prepared(todo'[h], KnownUsers', TrackedMembers')
          /\ KnownUsers \subseteq KnownUsers' /\ TrackedMembers \subseteq TrackedMembers'
          /\ todo' = [todo EXCEPT ![h] = todo'[h]]
      BY <2>2, PreparedStep DEF KeptByAll
    <3>3. ASSUME NEW other \in Handlers, other # h
          PROVE  Prepared(todo'[other], KnownUsers', TrackedMembers')
      <4>1. todo'[other] = todo[other] /\ todo[other] \in Seq(Command)
        BY <3>1, <3>2, <3>3
      <4>2. Prepared(todo[other], KnownUsers, TrackedMembers)
        BY DEF KeptByAll
      <4> QED
        BY <3>2, <4>1, <4>2, PreparedMore
    <3> QED
      BY <3>2, <3>3 DEF KeptByAll
  <2> QED
    BY <2>1, <2>2 DEF Next
<1> QED
  BY <1>1, <1>2, TypeCorrect, PTL DEF Spec, KeptByAll
=============================================================================
