----------------------------- MODULE CacheStore -----------------------------
(***************************************************************************)
(* The redis side of crates/tulpje-cache: the repositories the handler     *)
(* wants (channels, emojis, guilds, members, roles, users) and the         *)
(* commands they send.  Every other repository is unwanted: it sends       *)
(* nothing, or reads what is never written.                                *)
(*                                                                         *)
(* An object is its id and one of a few looks; those of a user are left    *)
(* out, as is the current user.                                            *)
(***************************************************************************)
EXTENDS Naturals, Sequences, FiniteSets

CONSTANTS
    Guilds, Users, Channels, Roles, Emojis,   \* ids
    Home,       \* the guild of every channel, role and emoji
    Creator,    \* the user who made an emoji, if Discord tells
    Looks,      \* of a channel, role, emoji or member
    None

Things == Channels \union Roles \union Emojis

ASSUME CacheAssumption ==
    /\ IsFiniteSet(Users)
    /\ Home \in [Things -> Guilds]
    /\ Creator \in [Emojis -> Users \union {None}]
    /\ None \notin Guilds \union Users \union Looks
    /\ Channels \intersect Roles = {} /\ Roles \intersect Emojis = {} /\ Emojis \intersect Channels = {}

VARIABLES
    hash,   \* the hashes of the Repositories, one field an object
    sets    \* the sets of the MappedSetRepositories and of the SetRepository

storeVars == <<hash, sets>>

-----------------------------------------------------------------------------
(* Fields and keys, and what they hold.                                    *)

Channel(c) == <<"channels", c>>
Role(r) == <<"roles", r>>
Emoji(e) == <<"emojis", e>>
Guild(g) == <<"guilds", g>>
Member(g, u) == <<"members", <<g, u>>>>
\* kept in the hash of the emojis, whose ids are never a user's
User(u) == <<"users", u>>

MemberIds == Guilds \X Users

ObjectFields == ({"channels"} \X Channels) \union ({"roles"} \X Roles)
                \union ({"emojis"} \X Emojis) \union ({"members"} \X MemberIds)
GuildFields == {"guilds"} \X Guilds
UserFields == {"users"} \X Users
Field == ObjectFields \union GuildFields \union UserFields

CachedGuild == [member_count : Nat, unavailable : BOOLEAN]

ASSUME RecordAssumption == None \notin CachedGuild

GuildChannels(g) == <<"guild_channels", g>>
GuildRoles(g) == <<"guild_roles", g>>
GuildEmojis(g) == <<"guild_emojis", g>>
GuildMembers(g) == <<"guild_members", g>>
UserGuilds(u) == <<"user_guilds", u>>
UnavailableGuilds == <<"unavailable_guilds", None>>

Key == ({"guild_channels", "guild_roles", "guild_emojis", "guild_members"} \X Guilds)
       \union ({"user_guilds"} \X Users) \union {UnavailableGuilds}

\* Those of a kind in a guild.
At(g, kind) == {t \in kind : Home[t] = g}

IdsOf(k) ==
    CASE k[1] = "guild_channels" -> At(k[2], Channels)
      [] k[1] = "guild_roles"    -> At(k[2], Roles)
      [] k[1] = "guild_emojis"   -> At(k[2], Emojis)
      [] k[1] = "guild_members"  -> Users
      [] OTHER                   -> Guilds

-----------------------------------------------------------------------------
(* Commands that write, and the two that send nothing for an empty list.   *)

HSet(f, v) == [do |-> "hset", field |-> f, value |-> v]
HDel(fields) == [do |-> "hdel", fields |-> fields]
SAdd(k, id) == [do |-> "sadd", key |-> k, id |-> id]
SRem(k, ids) == [do |-> "srem", key |-> k, ids |-> ids]
Del(k) == [do |-> "del", key |-> k]

HDelMulti(fields) == IF fields = {} THEN <<>> ELSE <<HDel(fields)>>
SRemMulti(k, ids) == IF ids = {} THEN <<>> ELSE <<SRem(k, ids)>>

Write ==
    [do : {"hset"}, field : ObjectFields, value : Looks]
    \union [do : {"hset"}, field : GuildFields, value : CachedGuild]
    \union [do : {"hset"}, field : UserFields, value : Users]
    \union [do : {"hdel"}, fields : SUBSET Field]
    \union (UNION {[do : {"sadd"}, key : {k}, id : IdsOf(k)] : k \in Key})
    \union (UNION {[do : {"srem"}, key : {k}, ids : SUBSET IdsOf(k)] : k \in Key})
    \union [do : {"del"}, key : Key]

HashAfter(c) ==
    CASE c.do = "hset" -> [hash EXCEPT ![c.field] = c.value]
      [] c.do = "hdel" -> [f \in Field |-> IF f \in c.fields THEN None ELSE hash[f]]
      [] OTHER         -> hash

SetsAfter(c) ==
    CASE c.do = "sadd" -> [sets EXCEPT ![c.key] = @ \union {c.id}]
      [] c.do = "srem" -> [sets EXCEPT ![c.key] = @ \ c.ids]
      [] c.do = "del"  -> [sets EXCEPT ![c.key] = {}]
      [] OTHER         -> sets

StoreInit ==
    /\ hash = [f \in Field |-> None]
    /\ sets = [k \in Key |-> {}]

\* Every field holds an object of its kind, and every set ids of its kind and guild.
StoreTypeOK ==
    /\ DOMAIN hash = Field
    /\ \A f \in ObjectFields : hash[f] \in Looks \union {None}
    /\ \A f \in GuildFields : hash[f] \in CachedGuild \union {None}
    /\ \A f \in UserFields : hash[f] \in Users \union {None}
    /\ DOMAIN sets = Key /\ \A k \in Key : sets[k] \subseteq IdsOf(k)
=============================================================================
