------------------------- MODULE CacheContentProofs -------------------------
(***************************************************************************)
(* With one handler the cache follows Discord.  First what each command,   *)
(* and each series of commands, makes of what is held of one object; then  *)
(* that the commands still to do lead to what is due (ContentIsDue), event *)
(* by event.                                                               *)
(***************************************************************************)
EXTENDS CacheProofs

-----------------------------------------------------------------------------
(* What the cache holds of an object or of a guild: its value, and whether *)
(* its id is listed.                                                       *)

Tracked == ObjectFields \union GuildFields

HomeOf(f) ==
    CASE f[1] = "members" -> f[2][1]
      [] f[1] = "guilds"  -> f[2]
      [] OTHER            -> Home[f[2]]

\* The set that lists it, and its id there.
KeyOf(f) ==
    CASE f[1] = "channels" -> GuildChannels(HomeOf(f))
      [] f[1] = "roles"    -> GuildRoles(HomeOf(f))
      [] f[1] = "emojis"   -> GuildEmojis(HomeOf(f))
      [] f[1] = "members"  -> GuildMembers(HomeOf(f))
      [] OTHER             -> UnavailableGuilds

IdOf(f) == IF f[1] = "members" THEN f[2][2] ELSE f[2]

Holds(v, m) == [value |-> v, mark |-> m]

Entry(f) == Holds(hash[f], IF IdOf(f) \in sets[KeyOf(f)] THEN "listed" ELSE "unlisted")

\* Items of a list about an id, and its looks there.
Gives(items, id) == \E item \in items : item[1] = id
LookOf(items, id) == (CHOOSE item \in items : item[1] = id)[2]

\* Commands that may change the entry of f, ...
WriteTouches(c, f) ==
    \/ c.do = "hset" /\ c.field = f
    \/ c.do = "hdel" /\ f \in c.fields
    \/ c.do = "sadd" /\ c.key = KeyOf(f) /\ c.id = IdOf(f)
    \/ c.do = "srem" /\ c.key = KeyOf(f) /\ IdOf(f) \in c.ids
    \/ c.do = "del" /\ c.key = KeyOf(f)

Counts == {"count_up", "count_down", "mark_unavailable"}

ReadTouches(c, f) ==
    \/ c.do \in MemberCalls /\ f = Member(c.guild, c.id)
    \/ c.do \in {"delete_channel", "update_pins"} /\ f = Channel(c.id)
    \/ c.do = "cache_emoji" /\ f = Emoji(c.id)
    \/ c.do \in {"cache_emojis", "remove_emojis"} /\ f[1] = "emojis" /\ HomeOf(f) = c.guild
    \/ c.do \in Counts \union {"update_guild"} /\ f = Guild(c.guild)
    \/ c.do = "remove_channels" /\ f[1] = "channels" /\ HomeOf(f) = c.guild
    \/ c.do = "remove_roles" /\ f[1] = "roles" /\ HomeOf(f) = c.guild
    \/ c.do = "remove_members" /\ f[1] = "members" /\ HomeOf(f) = c.guild

EachTouches(c, f) ==
    \/ c.function = "cache_channel" /\ f[1] = "channels" /\ Gives(c.items, f[2])
    \/ c.function = "cache_role" /\ f[1] = "roles" /\ Gives(c.items, f[2])
    \/ c.function = "cache_emoji" /\ f[1] = "emojis" /\ Gives(c.items, f[2])
    \/ c.function = "cache_member" /\ f[1] = "members" /\ f[2][1] = c.guild /\ Gives(c.items, f[2][2])
    \/ c.function = "unavailable_guild" /\ Gives(c.items, HomeOf(f))

Touches(c, f) ==
    \/ WriteTouches(c, f)
    \/ ReadTouches(c, f)
    \/ c.do = "each" /\ EachTouches(c, f)

\* ... and what they make of it.
Stored(e, v) == IF e.value = v THEN e ELSE Holds(v, "listed")
Removed(e) == IF e.mark = "listed" THEN Holds(None, "unlisted") ELSE e
Cleared(e) == IF e.mark = "listed" THEN Holds(None, "listed") ELSE e
Emptied(e) == Holds(IF e.mark = "listed" THEN None ELSE e.value, "unlisted")
Revised(e, v) == IF e.value = None THEN e ELSE Holds(v, e.mark)
Joined(e) == Revised(e, [e.value EXCEPT !.member_count = @ + 1])
Left(e) == Revised(e, [e.value EXCEPT !.member_count = Below(@)])
Down(e) == Revised(e, [e.value EXCEPT !.unavailable = TRUE])

Outage(f, e) ==
    CASE f[1] = "guilds"  -> Holds(IF e.value = None THEN None
                                   ELSE [e.value EXCEPT !.unavailable = TRUE], "listed")
      [] f[1] = "members" -> Emptied(e)
      [] OTHER            -> Cleared(e)

WriteEffect(c, e) ==
    CASE c.do = "hset" -> Holds(c.value, e.mark)
      [] c.do = "hdel" -> Holds(None, e.mark)
      [] c.do = "sadd" -> Holds(e.value, "listed")
      [] OTHER         -> Holds(e.value, "unlisted")

ReadEffect(c, f, e) ==
    CASE c.do \in {"cache_member", "cache_borrowed_member", "cache_emoji"} -> Stored(e, c.value)
      [] c.do = "update_member" -> Revised(e, c.value)
      [] c.do = "delete_channel" -> Holds(None, IF e.value = None THEN e.mark ELSE "unlisted")
      [] c.do = "cache_emojis" ->
            IF Gives(c.items, f[2]) THEN Stored(e, LookOf(c.items, f[2])) ELSE Removed(e)
      [] c.do = "count_up" -> Joined(e)
      [] c.do = "count_down" -> Left(e)
      [] c.do = "mark_unavailable" -> Down(e)
      [] c.do \in {"remove_channels", "remove_emojis", "remove_roles"} -> Cleared(e)
      [] c.do = "remove_members" -> Emptied(e)
      [] OTHER -> e

EachEffect(c, f, e) ==
    CASE c.function \in {"cache_channel", "cache_role"} -> Holds(LookOf(c.items, f[2]), "listed")
      [] c.function = "cache_emoji" -> Stored(e, LookOf(c.items, f[2]))
      [] c.function = "cache_member" -> Stored(e, LookOf(c.items, f[2][2]))
      [] OTHER -> Outage(f, e)

Effect(c, f, e) ==
    CASE c.do = "each" -> EachEffect(c, f, e)
      [] c.do \in {"hset", "hdel", "sadd", "srem", "del"} -> WriteEffect(c, e)
      [] OTHER -> ReadEffect(c, f, e)

Result(c, f, e) == IF Touches(c, f) THEN Effect(c, f, e) ELSE e

-----------------------------------------------------------------------------
(* A series leads from what is held before it to what is held after it,    *)
(* through what each of its commands makes of it.                          *)

Leads(q, f, s, t) ==
    \E held : /\ held[0] = s /\ held[Len(q)] = t
             /\ \A i \in 1..Len(q) : held[i] = Result(q[i], f, held[i - 1])

Quiet(q, f) == \A i \in 1..Len(q) : ~Touches(q[i], f)

LEMMA LeadsNothing ==
    ASSUME NEW f, NEW s, NEW t
    PROVE  Leads(<<>>, f, s, t) <=> s = t
<1>1. Len(<<>>) = 0 /\ 1..0 = {}
  OBVIOUS
<1>2. ASSUME s = t PROVE Leads(<<>>, f, s, t)
  <2> DEFINE held == [i \in {0} |-> s]
  <2>1. held[0] = s /\ held[Len(<<>>)] = t /\ 1..Len(<<>>) = {}
    BY <1>1, <1>2
  <2> QED
    BY <2>1 DEF Leads
<1> QED
  BY <1>1, <1>2 DEF Leads

LEMMA LeadsOne ==
    ASSUME NEW c, NEW f, NEW s
    PROVE  Leads(<<c>>, f, s, Result(c, f, s))
<1> DEFINE held == [i \in {0, 1} |-> IF i = 0 THEN s ELSE Result(c, f, s)]
<1>1. Len(<<c>>) = 1 /\ 1..1 = {1} /\ <<c>>[1] = c
  OBVIOUS
<1>2. held[0] = s /\ held[1] = Result(c, f, s)
  OBVIOUS
<1>3. \A i \in 1..Len(<<c>>) : held[i] = Result(<<c>>[i], f, held[i - 1])
  BY <1>1, <1>2
<1> HIDE DEF held
<1> QED
  BY <1>1, <1>2, <1>3 DEF Leads

LEMMA LeadsAppend ==
    ASSUME NEW S, NEW p \in Seq(S), NEW q \in Seq(S), NEW f, NEW s, NEW t, NEW u,
           Leads(p, f, s, t), Leads(q, f, t, u)
    PROVE  Leads(p \o q, f, s, u)
<1>1. PICK a : /\ a[0] = s /\ a[Len(p)] = t
               /\ \A i \in 1..Len(p) : a[i] = Result(p[i], f, a[i - 1])
  BY DEF Leads
<1>2. PICK b : /\ b[0] = t /\ b[Len(q)] = u
               /\ \A i \in 1..Len(q) : b[i] = Result(q[i], f, b[i - 1])
  BY DEF Leads
<1> DEFINE n == Len(p)
           m == Len(q)
           held == [i \in 0..(n + m) |-> IF i <= n THEN a[i] ELSE b[i - n]]
<1>3. n \in Nat /\ m \in Nat /\ Len(p \o q) = n + m
  OBVIOUS
<1>4. held[0] = s /\ held[n + m] = u
  BY <1>1, <1>2, <1>3
<1>5. ASSUME NEW i \in 1..(n + m) PROVE held[i] = Result((p \o q)[i], f, held[i - 1])
  <2>1. CASE i <= n
    <3>1. (p \o q)[i] = p[i] /\ i \in 1..n /\ i - 1 \in 0..(n + m) /\ i - 1 <= n
      BY <1>3, <2>1
    <3>2. held[i] = a[i] /\ held[i - 1] = a[i - 1]
      BY <1>3, <2>1, <3>1
    <3> QED
      BY <1>1, <3>1, <3>2
  <2>2. CASE i > n
    <3>1. (p \o q)[i] = q[i - n] /\ i - n \in 1..m /\ i - 1 \in 0..(n + m)
      BY <1>3, <2>2
    <3>2. held[i] = b[i - n]
      BY <1>3, <2>2
    <3>3. held[i - 1] = b[i - n - 1]
      <4>1. CASE i - 1 = n
        <5>1. held[i - 1] = a[n] /\ i - n - 1 = 0
          BY <1>3, <3>1, <4>1
        <5> QED
          BY <1>1, <1>2, <5>1
      <4>2. CASE i - 1 # n
        BY <1>3, <2>2, <3>1, <4>2
      <4> QED
        BY <4>1, <4>2
    <3> QED
      BY <1>2, <3>1, <3>2, <3>3
  <2> QED
    BY <1>3, <2>1, <2>2
<1> HIDE DEF held
<1> QED
  BY <1>3, <1>4, <1>5 DEF Leads

LEMMA LeadsTail ==
    ASSUME NEW S, NEW q \in Seq(S), q # <<>>, NEW f, NEW s, NEW t, Leads(q, f, s, t)
    PROVE  Leads(Tail(q), f, Result(Head(q), f, s), t)
<1>1. PICK a : /\ a[0] = s /\ a[Len(q)] = t
               /\ \A i \in 1..Len(q) : a[i] = Result(q[i], f, a[i - 1])
  BY DEF Leads
<1> DEFINE n == Len(q)
           held == [i \in 0..(n - 1) |-> a[i + 1]]
<1>2. n \in Nat /\ n >= 1 /\ Len(Tail(q)) = n - 1 /\ Head(q) = q[1]
  OBVIOUS
<1>3. held[0] = Result(Head(q), f, s)
  <2>1. held[0] = a[1] /\ a[1] = Result(q[1], f, a[0])
    BY <1>1, <1>2
  <2> QED
    BY <1>1, <1>2, <2>1
<1>4. held[n - 1] = t
  BY <1>1, <1>2
<1>5. ASSUME NEW i \in 1..(n - 1) PROVE held[i] = Result(Tail(q)[i], f, held[i - 1])
  <2>1. /\ Tail(q)[i] = q[i + 1] /\ i + 1 \in 1..n /\ (i + 1) - 1 = i
        /\ held[i] = a[i + 1] /\ held[i - 1] = a[i]
    BY <1>2
  <2> QED
    BY <1>1, <2>1
<1> HIDE DEF held
<1> QED
  BY <1>2, <1>3, <1>4, <1>5 DEF Leads

LEMMA QuietLeads ==
    ASSUME NEW S, NEW q \in Seq(S), NEW f, NEW s, Quiet(q, f)
    PROVE  Leads(q, f, s, s)
<1> DEFINE held == [i \in 0..Len(q) |-> s]
<1>1. Len(q) \in Nat /\ held[0] = s /\ held[Len(q)] = s
  OBVIOUS
<1>2. ASSUME NEW i \in 1..Len(q) PROVE held[i] = Result(q[i], f, held[i - 1])
  <2>1. held[i] = s /\ held[i - 1] = s
    BY <1>1
  <2> QED
    BY <2>1 DEF Quiet, Result
<1> HIDE DEF held
<1> QED
  BY <1>1, <1>2 DEF Leads

LEMMA QuietAppend ==
    ASSUME NEW S, NEW p \in Seq(S), NEW q \in Seq(S), NEW f
    PROVE  Quiet(p \o q, f) <=> Quiet(p, f) /\ Quiet(q, f)
<1>1. /\ Len(p) \in Nat /\ Len(q) \in Nat /\ Len(p \o q) = Len(p) + Len(q)
      /\ \A i \in 1..Len(p) : (p \o q)[i] = p[i]
      /\ \A i \in 1..Len(q) : (p \o q)[Len(p) + i] = q[i]
  OBVIOUS
<1>2. ASSUME Quiet(p, f), Quiet(q, f), NEW i \in 1..Len(p \o q)
      PROVE  ~Touches((p \o q)[i], f)
  <2>1. CASE i <= Len(p)
    BY <1>1, <1>2, <2>1 DEF Quiet
  <2>2. CASE i > Len(p)
    <3>1. i - Len(p) \in 1..Len(q) /\ (p \o q)[i] = q[i - Len(p)]
      BY <1>1, <2>2
    <3> QED
      BY <1>2, <3>1 DEF Quiet
  <2> QED
    BY <1>1, <2>1, <2>2
<1>3. ASSUME Quiet(p \o q, f) PROVE Quiet(p, f) /\ Quiet(q, f)
  <2>1. ASSUME NEW i \in 1..Len(p) PROVE ~Touches(p[i], f)
    BY <1>1, <1>3 DEF Quiet
  <2>2. ASSUME NEW i \in 1..Len(q) PROVE ~Touches(q[i], f)
    <3>1. Len(p) + i \in 1..Len(p \o q)
      BY <1>1
    <3> QED
      BY <1>1, <1>3, <3>1 DEF Quiet
  <2> QED
    BY <2>1, <2>2 DEF Quiet
<1> QED
  BY <1>2, <1>3 DEF Quiet

LEMMA QuietNext ==
    ASSUME NEW S, NEW q \in Seq(S), q # <<>>, NEW f, Quiet(q, f)
    PROVE  ~Touches(Head(q), f) /\ Quiet(Tail(q), f)
<1>1. /\ Len(q) \in Nat /\ 1 \in 1..Len(q) /\ Head(q) = q[1] /\ Len(Tail(q)) = Len(q) - 1
      /\ \A i \in 1..(Len(q) - 1) : Tail(q)[i] = q[i + 1] /\ i + 1 \in 1..Len(q)
  OBVIOUS
<1> QED
  BY <1>1 DEF Quiet

LEMMA QuietFew ==
    ASSUME NEW f
    PROVE  /\ Quiet(<<>>, f)
           /\ \A a : Quiet(<<a>>, f) <=> ~Touches(a, f)
           /\ \A a, b : Quiet(<<a, b>>, f) <=> ~Touches(a, f) /\ ~Touches(b, f)
<1>1. Len(<<>>) = 0 /\ 1..0 = {}
  OBVIOUS
<1>2. \A a : Len(<<a>>) = 1 /\ 1..1 = {1} /\ <<a>>[1] = a
  OBVIOUS
<1>3. \A a, b : Len(<<a, b>>) = 2 /\ 1..2 = {1, 2} /\ <<a, b>>[1] = a /\ <<a, b>>[2] = b
  OBVIOUS
<1> QED
  BY <1>1, <1>2, <1>3 DEF Quiet

LEMMA LeadsTwo ==
    ASSUME NEW S, NEW a \in S, NEW b \in S, NEW f, NEW s
    PROVE  Leads(<<a, b>>, f, s, Result(b, f, Result(a, f, s)))
<1>1. Leads(<<a>>, f, s, Result(a, f, s))
  BY LeadsOne
<1>2. Leads(<<b>>, f, Result(a, f, s), Result(b, f, Result(a, f, s)))
  BY LeadsOne
<1>3. <<a>> \in Seq(S) /\ <<b>> \in Seq(S)
  OBVIOUS
<1>5. <<a>> \o <<b>> = <<a, b>>
  <2>1. /\ <<a>> \o <<b>> \in Seq(S) /\ <<a, b>> \in Seq(S)
        /\ Len(<<a>> \o <<b>>) = 2 /\ Len(<<a, b>>) = 2
    BY <1>3
  <2>2. \A i \in 1..2 : (<<a>> \o <<b>>)[i] = <<a, b>>[i]
    BY <1>3
  <2> QED
    BY <2>1, <2>2, SeqEqual
<1>4. Leads(<<a>> \o <<b>>, f, s, Result(b, f, Result(a, f, s)))
  BY <1>1, <1>2, <1>3, LeadsAppend
<1> QED
  BY <1>5, <1>4

-----------------------------------------------------------------------------
(* Fields, and the commands that touch them.                               *)

LEMMA FieldCases ==
    ASSUME NEW f \in Tracked
    PROVE  \/ /\ f[1] = "channels" /\ f[2] \in Channels /\ f = Channel(f[2])
              /\ HomeOf(f) = Home[f[2]] /\ KeyOf(f) = GuildChannels(HomeOf(f)) /\ IdOf(f) = f[2]
           \/ /\ f[1] = "roles" /\ f[2] \in Roles /\ f = Role(f[2])
              /\ HomeOf(f) = Home[f[2]] /\ KeyOf(f) = GuildRoles(HomeOf(f)) /\ IdOf(f) = f[2]
           \/ /\ f[1] = "emojis" /\ f[2] \in Emojis /\ f = Emoji(f[2])
              /\ HomeOf(f) = Home[f[2]] /\ KeyOf(f) = GuildEmojis(HomeOf(f)) /\ IdOf(f) = f[2]
           \/ /\ f[1] = "members" /\ f[2] \in MemberIds /\ f[2] = <<f[2][1], f[2][2]>>
              /\ f[2][1] \in Guilds /\ f[2][2] \in Users /\ f = Member(f[2][1], f[2][2])
              /\ HomeOf(f) = f[2][1] /\ KeyOf(f) = GuildMembers(HomeOf(f)) /\ IdOf(f) = f[2][2]
           \/ /\ f[1] = "guilds" /\ f[2] \in Guilds /\ f = Guild(f[2])
              /\ HomeOf(f) = f[2] /\ KeyOf(f) = UnavailableGuilds /\ IdOf(f) = f[2]
<1>1. CASE f \in {"channels"} \X Channels
  BY <1>1 DEF Channel, HomeOf, KeyOf, IdOf
<1>2. CASE f \in {"roles"} \X Roles
  BY <1>2 DEF Role, HomeOf, KeyOf, IdOf
<1>3. CASE f \in {"emojis"} \X Emojis
  BY <1>3 DEF Emoji, HomeOf, KeyOf, IdOf
<1>4. CASE f \in {"members"} \X MemberIds
  BY <1>4 DEF Member, MemberIds, HomeOf, KeyOf, IdOf
<1>5. CASE f \in {"guilds"} \X Guilds
  BY <1>5 DEF Guild, HomeOf, KeyOf, IdOf
<1> QED
  BY <1>1, <1>2, <1>3, <1>4, <1>5 DEF Tracked, ObjectFields, GuildFields

LEMMA FieldTypes ==
    ASSUME NEW f \in Tracked
    PROVE  f \in Field /\ HomeOf(f) \in Guilds /\ KeyOf(f) \in Key /\ IdOf(f) \in IdsOf(KeyOf(f))
<1>1. f \in Field
  BY FieldsApart DEF Tracked
<1>2. HomeOf(f) \in Guilds
  BY FieldCases, CacheAssumption DEF Things
<1>3. KeyOf(f) \in Key
  BY <1>2, FieldCases DEF Key, GuildChannels, GuildRoles, GuildEmojis, GuildMembers
<1>4. IdOf(f) \in IdsOf(KeyOf(f))
  BY <1>2, FieldCases DEF IdsOf, At, GuildChannels, GuildRoles, GuildEmojis, GuildMembers, UnavailableGuilds
<1> QED
  BY <1>1, <1>2, <1>3, <1>4

\* A set of a guild with an id in it names one field.
LEMMA KeysApart ==
    ASSUME NEW f \in Tracked, NEW g
    PROVE  /\ KeyOf(f) = GuildChannels(g) <=> f[1] = "channels" /\ HomeOf(f) = g
           /\ KeyOf(f) = GuildRoles(g) <=> f[1] = "roles" /\ HomeOf(f) = g
           /\ KeyOf(f) = GuildEmojis(g) <=> f[1] = "emojis" /\ HomeOf(f) = g
           /\ KeyOf(f) = GuildMembers(g) <=> f[1] = "members" /\ HomeOf(f) = g
           /\ KeyOf(f) = UnavailableGuilds <=> f[1] = "guilds"
           /\ KeyOf(f) # UserGuilds(g)
  BY FieldCases DEF GuildChannels, GuildRoles, GuildEmojis, GuildMembers, UnavailableGuilds, UserGuilds

LEMMA KindsApart ==
    ASSUME NEW f \in Tracked, NEW i
    PROVE  /\ f = Channel(i) <=> f[1] = "channels" /\ f[2] = i
           /\ f = Role(i) <=> f[1] = "roles" /\ f[2] = i
           /\ f = Emoji(i) <=> f[1] = "emojis" /\ f[2] = i
           /\ f = Guild(i) <=> f[1] = "guilds" /\ f[2] = i
  BY FieldCases DEF Channel, Role, Emoji, Guild

LEMMA MembersApart ==
    ASSUME NEW f \in Tracked, NEW i, NEW g
    PROVE  f = Member(g, i) <=> f[1] = "members" /\ HomeOf(f) = g /\ IdOf(f) = i
  BY FieldCases DEF Member

LEMMA NoUser ==
    ASSUME NEW f \in Tracked
    PROVE  \A u : f # User(u)
  BY FieldCases DEF Channel, Role, Emoji, Guild, Member, User

LEMMA WriteTouching ==
    ASSUME NEW f
    PROVE  /\ \A k, v : Touches(HSet(k, v), f) <=> k = f
           /\ \A F : Touches(HDel(F), f) <=> f \in F
           /\ \A k, i : Touches(SAdd(k, i), f) <=> k = KeyOf(f) /\ i = IdOf(f)
           /\ \A k, I : Touches(SRem(k, I), f) <=> k = KeyOf(f) /\ IdOf(f) \in I
           /\ \A k : Touches(Del(k), f) <=> k = KeyOf(f)
<1> USE DEF Touches, WriteTouches, ReadTouches, Counts, MemberCalls
<1>1. \A k, v : Touches(HSet(k, v), f) <=> k = f
  BY DEF HSet
<1>2. \A F : Touches(HDel(F), f) <=> f \in F
  BY DEF HDel
<1>3. \A k, i : Touches(SAdd(k, i), f) <=> k = KeyOf(f) /\ i = IdOf(f)
  BY DEF SAdd
<1>4. \A k, I : Touches(SRem(k, I), f) <=> k = KeyOf(f) /\ IdOf(f) \in I
  BY DEF SRem
<1>5. \A k : Touches(Del(k), f) <=> k = KeyOf(f)
  BY DEF Del
<1> QED
  BY <1>1, <1>2, <1>3, <1>4, <1>5

LEMMA WriteStep ==
    ASSUME StoreTypeOK, NEW c \in Write, hash' = HashAfter(c), sets' = SetsAfter(c), NEW f \in Tracked
    PROVE  Entry(f)' = Result(c, f, Entry(f))
<1> DEFINE after(v, k) == Holds(v, IF IdOf(f) \in k THEN "listed" ELSE "unlisted")
<1>0. /\ Entry(f)' = after(hash'[f], sets'[KeyOf(f)])
      /\ Entry(f) = after(hash[f], sets[KeyOf(f)])
      /\ f \in Field /\ KeyOf(f) \in Key
      /\ Entry(f).value = hash[f]
      /\ Entry(f).mark = IF IdOf(f) \in sets[KeyOf(f)] THEN "listed" ELSE "unlisted"
  BY FieldTypes DEF Entry, Holds, HomeOf, KeyOf, IdOf
<1> USE DEF StoreTypeOK, HashAfter, SetsAfter, Touches, WriteTouches, ReadTouches, Counts, MemberCalls,
            Result, Effect, WriteEffect
<1>1. CASE c.do = "hset" /\ c.field \in Field
  BY <1>0, <1>1
<1>2. CASE c.do = "hdel" /\ c.fields \subseteq Field
  BY <1>0, <1>2
<1>3. CASE c.do = "sadd" /\ c.key \in Key /\ c.id \in IdsOf(c.key)
  BY <1>0, <1>3
<1>4. CASE c.do = "srem" /\ c.key \in Key /\ c.ids \subseteq IdsOf(c.key)
  BY <1>0, <1>4
<1>5. CASE c.do = "del" /\ c.key \in Key
  BY <1>0, <1>5
<1> QED
  BY <1>1, <1>2, <1>3, <1>4, <1>5, WriteCases, FieldsApart

LEMMA CallTouching ==
    ASSUME NEW f, NEW g, NEW i, NEW v
    PROVE  /\ ~Touches(Call("cache_user", g, i, v), f)
           /\ ~Touches(Call("remove_user_in_no_guild", g, i, v), f)
           /\ \A d \in MemberCalls : Touches(Call(d, g, i, v), f) <=> f = Member(g, i)
           /\ \A d \in {"delete_channel", "update_pins"} : Touches(Call(d, g, i, v), f) <=> f = Channel(i)
           /\ Touches(Call("cache_emoji", g, i, v), f) <=> f = Emoji(i)
<1> USE DEF Touches, WriteTouches, ReadTouches, Counts, MemberCalls, Call
<1>1. /\ ~Touches(Call("cache_user", g, i, v), f)
      /\ ~Touches(Call("remove_user_in_no_guild", g, i, v), f)
  OBVIOUS
<1>2. ASSUME NEW d \in MemberCalls
      PROVE  Touches(Call(d, g, i, v), f) <=> f = Member(g, i)
  OBVIOUS
<1>3. ASSUME NEW d \in {"delete_channel", "update_pins"}
      PROVE  Touches(Call(d, g, i, v), f) <=> f = Channel(i)
  OBVIOUS
<1>4. Touches(Call("cache_emoji", g, i, v), f) <=> f = Emoji(i)
  OBVIOUS
<1> QED
  BY <1>1, <1>2, <1>3, <1>4

LEMMA CallResults ==
    ASSUME NEW f, NEW e, NEW g, NEW i, NEW v
    PROVE  /\ \A d \in {"cache_member", "cache_borrowed_member"} :
                 Result(Call(d, g, i, v), f, e) = IF f = Member(g, i) THEN Stored(e, v) ELSE e
           /\ Result(Call("update_member", g, i, v), f, e) =
                 IF f = Member(g, i) THEN Revised(e, v) ELSE e
           /\ Result(Call("delete_channel", g, i, v), f, e) =
                 IF f = Channel(i) THEN Holds(None, IF e.value = None THEN e.mark ELSE "unlisted") ELSE e
           /\ Result(Call("update_pins", g, i, v), f, e) = e
           /\ Result(Call("cache_emoji", g, i, v), f, e) = IF f = Emoji(i) THEN Stored(e, v) ELSE e
<1>1. ASSUME NEW d \in {"cache_member", "cache_borrowed_member"}
      PROVE  Result(Call(d, g, i, v), f, e) = IF f = Member(g, i) THEN Stored(e, v) ELSE e
  <2>1. d \in MemberCalls
    BY DEF MemberCalls
  <2>2. Touches(Call(d, g, i, v), f) <=> f = Member(g, i)
    BY <2>1, CallTouching
  <2>3. Effect(Call(d, g, i, v), f, e) = Stored(e, v)
    BY DEF Effect, ReadEffect, Call
  <2> QED
    BY <2>2, <2>3 DEF Result
<1>2. Result(Call("update_member", g, i, v), f, e) = IF f = Member(g, i) THEN Revised(e, v) ELSE e
  <2>1. Touches(Call("update_member", g, i, v), f) <=> f = Member(g, i)
    BY CallTouching DEF MemberCalls
  <2>2. Effect(Call("update_member", g, i, v), f, e) = Revised(e, v)
    BY DEF Effect, ReadEffect, Call
  <2> QED
    BY <2>1, <2>2 DEF Result
<1>3. /\ Result(Call("delete_channel", g, i, v), f, e) =
            IF f = Channel(i) THEN Holds(None, IF e.value = None THEN e.mark ELSE "unlisted") ELSE e
      /\ Result(Call("update_pins", g, i, v), f, e) = e
  BY CallTouching DEF Result, Effect, ReadEffect, Call
<1>4. Result(Call("cache_emoji", g, i, v), f, e) = IF f = Emoji(i) THEN Stored(e, v) ELSE e
  BY CallTouching DEF Result, Effect, ReadEffect, Call
<1> QED
  BY <1>1, <1>2, <1>3, <1>4

EmojisCall(g, items) == [do |-> "cache_emojis", guild |-> g, items |-> items]

\* The kind of the objects whose ids a step of delete_guild reads.
Kind(d) ==
    CASE d = "remove_channels" -> "channels"
      [] d = "remove_emojis"   -> "emojis"
      [] d = "remove_roles"    -> "roles"
      [] OTHER                 -> "members"

Removals == {"remove_channels", "remove_emojis", "remove_roles", "remove_members"}

LEMMA GuildCallTouching ==
    ASSUME NEW f, NEW g
    PROVE  /\ \A items : Touches(EmojisCall(g, items), f) <=> f[1] = "emojis" /\ HomeOf(f) = g
           /\ \A d \in Counts \union {"update_guild"} : Touches(Call(d, g, None, None), f) <=> f = Guild(g)
           /\ \A d \in Removals : Touches(Call(d, g, None, None), f) <=> f[1] = Kind(d) /\ HomeOf(f) = g
<1> USE DEF Touches, WriteTouches, ReadTouches, Counts, MemberCalls, Removals
<1>1. \A items : Touches(EmojisCall(g, items), f) <=> f[1] = "emojis" /\ HomeOf(f) = g
  BY DEF EmojisCall
<1>2. \A d \in Counts \union {"update_guild"} : Touches(Call(d, g, None, None), f) <=> f = Guild(g)
  BY DEF Call
<1>3. \A d \in Removals : Touches(Call(d, g, None, None), f) <=> f[1] = Kind(d) /\ HomeOf(f) = g
  BY DEF Call, Kind
<1> QED
  BY <1>1, <1>2, <1>3

LEMMA GuildCallResults ==
    ASSUME NEW f, NEW e, NEW g
    PROVE  /\ \A items : Result(EmojisCall(g, items), f, e) =
                 IF f[1] = "emojis" /\ HomeOf(f) = g
                 THEN IF Gives(items, f[2]) THEN Stored(e, LookOf(items, f[2])) ELSE Removed(e)
                 ELSE e
           /\ Result(Call("count_up", g, None, None), f, e) =
                 IF f = Guild(g) THEN Joined(e) ELSE e
           /\ Result(Call("count_down", g, None, None), f, e) =
                 IF f = Guild(g) THEN Left(e) ELSE e
           /\ Result(Call("mark_unavailable", g, None, None), f, e) =
                 IF f = Guild(g) THEN Down(e) ELSE e
           /\ Result(Call("update_guild", g, None, None), f, e) = e
           /\ \A d \in Removals : Result(Call(d, g, None, None), f, e) =
                 IF f[1] = Kind(d) /\ HomeOf(f) = g
                 THEN IF f[1] = "members" THEN Emptied(e) ELSE Cleared(e)
                 ELSE e
<1> USE GuildCallTouching DEF MemberCalls, Result, Effect, ReadEffect, Counts
<1>1. \A items : Result(EmojisCall(g, items), f, e) =
         IF f[1] = "emojis" /\ HomeOf(f) = g
         THEN IF Gives(items, f[2]) THEN Stored(e, LookOf(items, f[2])) ELSE Removed(e)
         ELSE e
  BY DEF EmojisCall
<1>2. Result(Call("count_up", g, None, None), f, e) =
         IF f = Guild(g) THEN Joined(e) ELSE e
  BY DEF Call
<1>3. Result(Call("count_down", g, None, None), f, e) =
         IF f = Guild(g) THEN Left(e) ELSE e
  BY DEF Call
<1>4. /\ Result(Call("mark_unavailable", g, None, None), f, e) =
            IF f = Guild(g) THEN Down(e) ELSE e
      /\ Result(Call("update_guild", g, None, None), f, e) = e
  BY DEF Call
<1>5. ASSUME NEW d \in Removals
      PROVE  Result(Call(d, g, None, None), f, e) =
                IF f[1] = Kind(d) /\ HomeOf(f) = g
                THEN IF f[1] = "members" THEN Emptied(e) ELSE Cleared(e)
                ELSE e
  BY DEF Call, Kind, Removals
<1> QED
  BY <1>1, <1>2, <1>3, <1>4, <1>5

\* What is done for users touches neither objects nor guilds.
LEMMA UsersQuiet ==
    ASSUME NEW f \in Tracked, NEW u
    PROVE  /\ \A v : ~Touches(HSet(User(u), v), f)
           /\ ~Touches(HDel({User(u)}), f)
           /\ \A g : ~Touches(SAdd(UserGuilds(u), g), f)
           /\ \A G : ~Touches(SRem(UserGuilds(u), G), f)
           /\ \A g : Quiet(CacheUser(u, g), f) /\ Quiet(TrackUser(u, g), f)
           /\ Quiet(PutUser(u), f)
<1>1. /\ \A v : ~Touches(HSet(User(u), v), f)
      /\ ~Touches(HDel({User(u)}), f)
  BY WriteTouching, NoUser
<1>2. /\ \A g : ~Touches(SAdd(UserGuilds(u), g), f)
      /\ \A G : ~Touches(SRem(UserGuilds(u), G), f)
  BY WriteTouching, KeysApart
<1>3. /\ \A g : Quiet(CacheUser(u, g), f) /\ Quiet(TrackUser(u, g), f)
      /\ Quiet(PutUser(u), f)
  BY <1>1, <1>2, CallTouching, QuietFew DEF CacheUser, TrackUser, PutUser
<1> QED
  BY <1>1, <1>2, <1>3

-----------------------------------------------------------------------------
(* What follows a read makes of an entry what the read stands for.         *)

LEMMA EntryParts ==
    ASSUME NEW f
    PROVE  /\ Entry(f).value = hash[f]
           /\ Entry(f) = Holds(hash[f], Entry(f).mark)
           /\ Entry(f).mark = "listed" <=> IdOf(f) \in sets[KeyOf(f)]
           /\ Entry(f).mark = "unlisted" <=> IdOf(f) \notin sets[KeyOf(f)]
  BY DEF Entry, Holds

\* How a series follows a read.
Follows(next, c, f) ==
    /\ ~Touches(c, f) => Quiet(next, f)
    /\ Leads(next, f, Entry(f), Result(c, f, Entry(f)))

LEMMA QuietFollows ==
    ASSUME NEW next \in Seq(Command), NEW c, NEW f, Quiet(next, f), Result(c, f, Entry(f)) = Entry(f)
    PROVE  Follows(next, c, f)
  BY QuietLeads DEF Follows

LEMMA MemberCommandsInKey ==
    ASSUME NEW f \in Tracked, NEW g, NEW u
    PROVE  /\ Touches(SAdd(GuildMembers(g), u), f) <=> f = Member(g, u)
           /\ Touches(SRem(GuildMembers(g), {u}), f) <=> f = Member(g, u)
           /\ \A v : Touches(HSet(Member(g, u), v), f) <=> f = Member(g, u)
           /\ Touches(HDel({Member(g, u)}), f) <=> f = Member(g, u)
<1>1. f = Member(g, u) <=> KeyOf(f) = GuildMembers(g) /\ IdOf(f) = u
  BY MembersApart, KeysApart
<1> QED
  BY <1>1, WriteTouching

\* The member, stored and listed in either order.
LEMMA PutMemberLeads ==
    ASSUME NEW f \in Tracked, NEW g \in Guilds, NEW u \in Users, NEW v \in Looks, NEW e
    PROVE  /\ f # Member(g, u) => Quiet(PutMember(g, u, v), f) /\ Quiet(PutBorrowedMember(g, u, v), f)
           /\ f = Member(g, u) => /\ Leads(PutMember(g, u, v), f, e, Holds(v, "listed"))
                                  /\ Leads(PutBorrowedMember(g, u, v), f, e, Holds(v, "listed"))
<1> DEFINE put == HSet(Member(g, u), v)
           list == SAdd(GuildMembers(g), u)
<1>1. PutMember(g, u, v) = <<put, list>> /\ PutBorrowedMember(g, u, v) = <<list, put>>
  BY DEF PutMember, PutBorrowedMember
<1>2. /\ Touches(put, f) <=> f = Member(g, u)
      /\ Touches(list, f) <=> f = Member(g, u)
  BY MemberCommandsInKey
<1>3. ASSUME f = Member(g, u)
      PROVE  /\ Result(list, f, Result(put, f, e)) = Holds(v, "listed")
             /\ Result(put, f, Result(list, f, e)) = Holds(v, "listed")
  BY <1>2, <1>3 DEF Result, Effect, WriteEffect, HSet, SAdd, Holds
<1>4. put \in Command /\ list \in Command
  BY MemberCommands, MemberRemovalCommands, HarmlessIsCommand
<1> HIDE DEF put, list
<1>5. /\ Leads(<<put, list>>, f, e, Result(list, f, Result(put, f, e)))
      /\ Leads(<<list, put>>, f, e, Result(put, f, Result(list, f, e)))
  BY <1>4, LeadsTwo
<1> QED
  BY <1>1, <1>2, <1>3, <1>5, QuietFew

LEMMA MemberReadFollows ==
    ASSUME StoreTypeOK, NEW d \in MemberCalls, NEW g \in Guilds, NEW u \in Users, NEW v \in Looks,
           NEW f \in Tracked
    PROVE  Follows(AfterMemberRead(Call(d, g, u, v)), Call(d, g, u, v), f)
<1> DEFINE c == Call(d, g, u, v)
           next == AfterMemberRead(c)
           m == Member(g, u)
           e == Entry(f)
<1>1. Touches(c, f) <=> f = m
  BY CallTouching
<1>2. /\ d \in {"cache_member", "cache_borrowed_member"} =>
             Result(c, f, e) = IF f = m THEN Stored(e, v) ELSE e
      /\ d = "update_member" => Result(c, f, e) = IF f = m THEN Revised(e, v) ELSE e
  BY CallResults
<1>3. /\ CacheUser(u, g) \in Seq(Command) /\ Quiet(CacheUser(u, g), f)
      /\ PutMember(g, u, v) \in Seq(Command) /\ PutBorrowedMember(g, u, v) \in Seq(Command)
      /\ HSet(m, v) \in Command /\ <<>> \in Seq(Command)
  BY HarmlessUsers, UsersQuiet, HarmlessIsCommand, MemberCommands, MemberRemovalCommands, CommandSeries
     DEF PutMember, PutBorrowedMember
<1>4. e.value = hash[f] /\ e = Holds(hash[f], e.mark)
  BY EntryParts
<1>5. /\ d = "cache_member" => next = IF hash[m] # v THEN CacheUser(u, g) \o PutMember(g, u, v) ELSE <<>>
      /\ d = "cache_borrowed_member" => next = IF hash[m] # v THEN PutBorrowedMember(g, u, v) ELSE <<>>
      /\ d = "update_member" => next = IF hash[m] # None THEN <<HSet(m, v)>> \o CacheUser(u, g) ELSE <<>>
  BY DEF AfterMemberRead, Call
<1> HIDE DEF c, next, m, e
<1>6. ASSUME \/ d \in {"cache_member", "cache_borrowed_member"} /\ hash[m] = v
             \/ d = "update_member" /\ hash[m] = None
      PROVE  Follows(next, c, f)
  <2>1. next = <<>>
    BY <1>5, <1>6
  <2>2. Result(c, f, e) = e
    BY <1>2, <1>4, <1>6 DEF Stored, Revised
  <2> QED
    BY <1>3, <2>1, <2>2, QuietFew, QuietFollows DEF e
<1>7. CASE d = "cache_member" /\ hash[m] # v
  <2>1. next = CacheUser(u, g) \o PutMember(g, u, v)
    BY <1>5, <1>7
  <2>2. f # m => Quiet(next, f)
    BY <1>3, <2>1, PutMemberLeads, QuietAppend DEF m
  <2>3. f = m => Leads(next, f, e, Holds(v, "listed"))
    <3>1. Leads(CacheUser(u, g), f, e, e)
      BY <1>3, QuietLeads
    <3>2. f = m => Leads(PutMember(g, u, v), f, e, Holds(v, "listed"))
      BY PutMemberLeads DEF m
    <3> QED
      BY <1>3, <2>1, <3>1, <3>2, LeadsAppend
  <2>4. f = m => Result(c, f, e) = Holds(v, "listed")
    BY <1>2, <1>4, <1>7 DEF Stored
  <2>5. next \in Seq(Command)
    BY <1>3, <2>1
  <2> QED
    BY <1>1, <1>2, <1>7, <2>2, <2>3, <2>4, <2>5, QuietFollows DEF Follows, c, e, next
<1>8. CASE d = "cache_borrowed_member" /\ hash[m] # v
  <2>1. next = PutBorrowedMember(g, u, v)
    BY <1>5, <1>8
  <2>2. /\ f # m => Quiet(next, f)
        /\ f = m => Leads(next, f, e, Holds(v, "listed"))
    BY <2>1, PutMemberLeads DEF m
  <2>3. f = m => Result(c, f, e) = Holds(v, "listed")
    BY <1>2, <1>4, <1>8 DEF Stored
  <2> QED
    BY <1>1, <1>2, <1>3, <1>8, <2>1, <2>2, <2>3, QuietFollows DEF Follows, c, e, next
<1>9. CASE d = "update_member" /\ hash[m] # None
  <2>1. next = <<HSet(m, v)>> \o CacheUser(u, g) /\ <<HSet(m, v)>> \in Seq(Command)
    BY <1>3, <1>5, <1>9
  <2>2. Touches(HSet(m, v), f) <=> f = m
    BY MemberCommandsInKey DEF m
  <2>3. f # m => Quiet(next, f)
    BY <1>3, <2>1, <2>2, QuietFew, QuietAppend
  <2>4. f = m => Leads(next, f, e, Result(HSet(m, v), f, e))
    <3>1. Leads(<<HSet(m, v)>>, f, e, Result(HSet(m, v), f, e))
      BY LeadsOne
    <3>2. Leads(CacheUser(u, g), f, Result(HSet(m, v), f, e), Result(HSet(m, v), f, e))
      BY <1>3, QuietLeads
    <3> QED
      BY <1>3, <2>1, <3>1, <3>2, LeadsAppend
  <2>5. f = m => Result(HSet(m, v), f, e) = Result(c, f, e)
    <3>1. f = m => Result(HSet(m, v), f, e) = Holds(v, e.mark)
      BY <2>2 DEF Result, Effect, WriteEffect, HSet
    <3>2. f = m => Result(c, f, e) = Holds(v, e.mark)
      BY <1>2, <1>4, <1>9 DEF Revised
    <3> QED
      BY <3>1, <3>2
  <2>6. next \in Seq(Command)
    BY <1>3, <2>1
  <2> QED
    BY <1>1, <1>2, <1>9, <2>3, <2>4, <2>5, <2>6, QuietFollows DEF Follows, c, e, next
<1> QED
  BY <1>5, <1>6, <1>7, <1>8, <1>9 DEF MemberCalls, c, next

\* An id of the guild in a set of its channels, roles or emojis names one object.
LEMMA ThingCommandsInKey ==
    ASSUME NEW f \in Tracked, NEW g, NEW i
    PROVE  /\ i \in At(g, Channels) => (KeyOf(f) = GuildChannels(g) /\ IdOf(f) = i <=> f = Channel(i))
           /\ i \in At(g, Roles) => (KeyOf(f) = GuildRoles(g) /\ IdOf(f) = i <=> f = Role(i))
           /\ i \in At(g, Emojis) => (KeyOf(f) = GuildEmojis(g) /\ IdOf(f) = i <=> f = Emoji(i))
<1>1. i \in At(g, Channels) \union At(g, Roles) \union At(g, Emojis) => Home[i] = g
  BY DEF At
<1>2. f[1] \in {"channels", "roles", "emojis"} => IdOf(f) = f[2] /\ HomeOf(f) = Home[f[2]]
  BY FieldCases
<1> QED
  BY <1>1, <1>2, KindsApart, KeysApart

LEMMA ChannelReadFollows ==
    ASSUME StoreTypeOK, NEW d \in {"delete_channel", "update_pins"}, NEW g \in Guilds,
           NEW i \in At(g, Channels),
           NEW f \in Tracked
    PROVE  Follows(AfterChannelRead(Call(d, g, i, None)), Call(d, g, i, None), f)
<1> DEFINE c == Call(d, g, i, None)
           next == AfterChannelRead(c)
           o == Channel(i)
           e == Entry(f)
           gone == HDel({o})
           unlist == SRem(GuildChannels(g), {i})
<1>1. Touches(c, f) <=> f = o
  BY CallTouching
<1>2. /\ d = "delete_channel" =>
            Result(c, f, e) = IF f = o THEN Holds(None, IF e.value = None THEN e.mark ELSE "unlisted") ELSE e
      /\ d = "update_pins" => Result(c, f, e) = e
  BY CallResults
<1>3. next \in Seq(Command)
  BY HarmlessChannelRead, HarmlessIsCommand
<1>4. e.value = hash[f] /\ e = Holds(hash[f], e.mark)
  BY EntryParts
<1>5. /\ Touches(gone, f) <=> f = o
      /\ Touches(unlist, f) <=> f = o
      /\ \A v : Touches(HSet(o, v), f) <=> f = o
  BY WriteTouching, ThingCommandsInKey
<1>6. /\ d = "delete_channel" /\ hash[o] = None => next = <<>> \o <<gone>>
      /\ d = "delete_channel" /\ hash[o] # None => next = <<unlist>> \o <<gone>>
      /\ d = "update_pins" /\ hash[o] = None => next = <<>>
      /\ d = "update_pins" /\ hash[o] # None => next = <<HSet(o, hash[o])>>
  BY DEF AfterChannelRead, Call
<1>7. gone \in Command /\ unlist \in Command
  <2>1. GuildChannels(g) \in Key \ UserKeys /\ i \in IdsOf(GuildChannels(g)) /\ o \in ObjectFields
    BY DEF GuildChannels, Key, UserKeys, UnavailableGuilds, IdsOf, At, Channel, ObjectFields
  <2> QED
    BY <2>1, HarmlessWrites, HarmlessIsCommand
<1>8. \A x : f = o => Result(gone, f, x) = Holds(None, x.mark)
  BY <1>5 DEF Result, Effect, WriteEffect, HDel
<1>9. \A x : f = o => Result(unlist, f, x) = Holds(x.value, "unlisted")
  BY <1>5 DEF Result, Effect, WriteEffect, SRem
<1>10. f = o => Result(HSet(o, hash[o]), f, e) = Holds(hash[o], e.mark)
  BY <1>5 DEF Result, Effect, WriteEffect, HSet
<1> HIDE DEF c, next, o, e, gone, unlist
<1>11. CASE d = "delete_channel" /\ hash[o] = None
  <2>1. next = <<gone>>
    BY <1>6, <1>7, <1>11, EmptySeries
  <2>2. f # o => Quiet(next, f)
    BY <1>5, <2>1, QuietFew
  <2>3. Leads(next, f, e, Result(gone, f, e))
    BY <2>1, LeadsOne
  <2>4. f = o => Result(gone, f, e) = Result(c, f, e)
    BY <1>2, <1>4, <1>8, <1>11
  <2> QED
    BY <1>1, <1>2, <1>3, <1>11, <2>2, <2>3, <2>4, QuietFollows DEF Follows, c, e, next
<1>12. CASE d = "delete_channel" /\ hash[o] # None
  <2>1. next = <<unlist>> \o <<gone>> /\ <<unlist>> \in Seq(Command) /\ <<gone>> \in Seq(Command)
    <3>1. next = <<unlist>> \o <<gone>>
      BY <1>6, <1>12
    <3> QED
      BY <1>7, <3>1
  <2>2. f # o => Quiet(next, f)
    BY <1>5, <2>1, QuietFew, QuietAppend
  <2>3. Leads(next, f, e, Result(gone, f, Result(unlist, f, e)))
    <3>1. Leads(<<unlist>>, f, e, Result(unlist, f, e))
      BY LeadsOne
    <3>2. Leads(<<gone>>, f, Result(unlist, f, e), Result(gone, f, Result(unlist, f, e)))
      BY LeadsOne
    <3> QED
      BY <2>1, <3>1, <3>2, LeadsAppend
  <2>4. f = o => Result(gone, f, Result(unlist, f, e)) = Holds(None, "unlisted")
    BY <1>8, <1>9 DEF Holds
  <2>5. f = o => Result(c, f, e) = Holds(None, "unlisted")
    BY <1>2, <1>4, <1>12
  <2> QED
    BY <1>1, <1>2, <1>3, <1>12, <2>2, <2>3, <2>4, <2>5, QuietFollows DEF Follows, c, e, next
<1>13. CASE d = "update_pins" /\ hash[o] = None
  <2>1. next = <<>>
    BY <1>6, <1>13
  <2> QED
    BY <1>2, <1>3, <1>13, <2>1, QuietFew, QuietFollows DEF e, c, next
<1>14. CASE d = "update_pins" /\ hash[o] # None
  <2>1. next = <<HSet(o, hash[o])>>
    BY <1>6, <1>14
  <2>2. f # o => Quiet(next, f)
    BY <1>5, <2>1, QuietFew
  <2>3. Leads(next, f, e, Result(HSet(o, hash[o]), f, e))
    BY <2>1, LeadsOne
  <2>4. f = o => Result(HSet(o, hash[o]), f, e) = e
    BY <1>4, <1>10
  <2> QED
    BY <1>1, <1>2, <1>3, <1>14, <2>2, <2>3, <2>4, QuietFollows DEF Follows, c, e, next
<1> QED
  BY <1>11, <1>12, <1>13, <1>14 DEF c, next

LEMMA EmojiReadFollows ==
    ASSUME StoreTypeOK, NEW g \in Guilds, NEW i \in At(g, Emojis), NEW v \in Looks, NEW f \in Tracked
    PROVE  /\ f # Emoji(i) => Quiet(PutEmoji(g, i, v), f)
           /\ \A e : f = Emoji(i) => Leads(PutEmoji(g, i, v), f, e, Holds(v, "listed"))
           /\ Follows(AfterEmojiRead(Call("cache_emoji", g, i, v)), Call("cache_emoji", g, i, v), f)
<1> DEFINE c == Call("cache_emoji", g, i, v)
           next == AfterEmojiRead(c)
           o == Emoji(i)
           put == HSet(o, v)
           list == SAdd(GuildEmojis(g), i)
<1>1. Touches(c, f) <=> f = o
  BY CallTouching
<1>2. Result(c, f, Entry(f)) = IF f = o THEN Stored(Entry(f), v) ELSE Entry(f)
  BY CallResults
<1>3. PutEmoji(g, i, v) = <<put, list>> /\ PutEmoji(g, i, v) \in Seq(Command) /\ <<>> \in Seq(Command)
  BY HarmlessEmojis, HarmlessIsCommand, CommandSeries DEF PutEmoji
<1>4. /\ Touches(put, f) <=> f = o
      /\ Touches(list, f) <=> f = o
  BY WriteTouching, ThingCommandsInKey
<1>5. f # o => Quiet(PutEmoji(g, i, v), f)
  BY <1>3, <1>4, QuietFew
<1>6. ASSUME NEW e, f = o PROVE Leads(PutEmoji(g, i, v), f, e, Holds(v, "listed"))
  <2>1. Result(list, f, Result(put, f, e)) = Holds(v, "listed")
    BY <1>4, <1>6 DEF Result, Effect, WriteEffect, HSet, SAdd, Holds
  <2>2. put \in Command /\ list \in Command
    <3>1. /\ GuildEmojis(g) \in Key /\ i \in IdsOf(GuildEmojis(g)) /\ o \in ObjectFields \ MemberFields
      BY DEF GuildEmojis, Key, IdsOf, At, Emoji, ObjectFields, MemberFields
    <3> QED
      BY <3>1, HarmlessWrites, HarmlessIsCommand
  <2> HIDE DEF put, list
  <2>3. Leads(<<put, list>>, f, e, Result(list, f, Result(put, f, e)))
    BY <2>2, LeadsTwo
  <2> QED
    BY <1>3, <2>1, <2>3
<1>7. next = IF hash[o] = v THEN <<>> ELSE PutEmoji(g, i, v)
  BY DEF AfterEmojiRead, Call
<1>8. Entry(f).value = hash[f]
  BY EntryParts
<1> HIDE DEF c, next, o
<1>9. CASE hash[o] = v
  <2>1. next = <<>> /\ Result(c, f, Entry(f)) = Entry(f)
    BY <1>2, <1>7, <1>8, <1>9 DEF Stored
  <2> QED
    BY <1>3, <1>5, <1>6, <2>1, QuietFew, QuietFollows DEF c, next, o
<1>10. CASE hash[o] # v
  <2>1. next = PutEmoji(g, i, v) /\ (f = o => Result(c, f, Entry(f)) = Holds(v, "listed"))
    BY <1>2, <1>7, <1>8, <1>10 DEF Stored
  <2>2. Follows(next, c, f)
    BY <1>1, <1>2, <1>3, <1>5, <1>6, <2>1, QuietFollows DEF Follows
  <2> QED
    BY <1>5, <1>6, <2>2 DEF c, next, o
<1> QED
  BY <1>9, <1>10

LEMMA GuildReadFollows ==
    ASSUME StoreTypeOK, NEW d \in Counts \union {"update_guild"}, NEW g \in Guilds, NEW f \in Tracked
    PROVE  Follows(AfterGuildRead(Call(d, g, None, None)), Call(d, g, None, None), f)
<1> DEFINE c == Call(d, g, None, None)
           next == AfterGuildRead(c)
           o == Guild(g)
           old == hash[o]
           record == CASE d = "count_up" -> [old EXCEPT !.member_count = @ + 1]
                       [] d = "count_down" -> [old EXCEPT !.member_count = Below(@)]
                       [] d = "mark_unavailable" -> [old EXCEPT !.unavailable = TRUE]
                       [] OTHER -> old
           e == Entry(f)
<1>1. Touches(c, f) <=> f = o
  BY GuildCallTouching
<1>2. next = IF old = None THEN <<>> ELSE <<HSet(o, record)>>
  BY DEF AfterGuildRead, PutGuild, Call, Counts
<1>3. next \in Seq(Command)
  BY HarmlessGuildRead, HarmlessIsCommand DEF Counts
<1>4. e.value = hash[f] /\ e = Holds(hash[f], e.mark)
  BY EntryParts
<1>5. Touches(HSet(o, record), f) <=> f = o
  <2> HIDE DEF o, record
  <2> QED
    BY WriteTouching
<1>6. f = o => Result(c, f, e) = IF e.value = None THEN e ELSE Holds(record, e.mark)
  <2>1. ASSUME f = o, d \in Counts
        PROVE  Result(c, f, e) = Revised(e, record)
    <3>1. e.value = old
      BY <1>4, <2>1
    <3> HIDE DEF e
    <3> QED
      BY <1>1, <2>1, <3>1 DEF Result, Effect, ReadEffect, Call, Counts, Joined, Left, Down
  <2>2. d = "update_guild" => Result(c, f, e) = e
    BY DEF Result, Effect, ReadEffect, Call
  <2> HIDE DEF c, e
  <2> QED
    BY <1>4, <2>1, <2>2 DEF Revised
<1>7. f = o => Result(HSet(o, record), f, e) = Holds(record, e.mark)
  <2> HIDE DEF e, record, o
  <2> QED
    BY <1>5 DEF Result, Effect, WriteEffect, HSet
<1> HIDE DEF c, next, o, old, record, e
<1>8. f # o => Result(c, f, e) = e
  BY <1>1 DEF Result
<1>9. CASE old = None
  <2>1. next = <<>> /\ Result(c, f, e) = e
    BY <1>2, <1>4, <1>6, <1>8, <1>9 DEF old
  <2> QED
    BY <1>3, <2>1, QuietFew, QuietFollows DEF e, c, next
<1>10. CASE old # None
  <2>1. next = <<HSet(o, record)>>
    BY <1>2, <1>10
  <2>2. f # o => Quiet(next, f)
    BY <1>5, <2>1, QuietFew
  <2>3. Leads(next, f, e, Result(HSet(o, record), f, e))
    BY <2>1, LeadsOne
  <2>4. f = o => Result(HSet(o, record), f, e) = Result(c, f, e)
    BY <1>4, <1>6, <1>7, <1>10 DEF old
  <2> QED
    BY <1>1, <1>3, <1>8, <2>2, <2>3, <2>4, QuietFollows DEF Follows, c, e, next
<1> QED
  BY <1>9, <1>10 DEF c, next

LEMMA HDelMultiLeads ==
    ASSUME NEW fields \in SUBSET Field, NEW f
    PROVE  /\ HDelMulti(fields) \in Seq(Command)
           /\ f \notin fields => Quiet(HDelMulti(fields), f)
           /\ \A e : f \in fields => Leads(HDelMulti(fields), f, e, Holds(None, e.mark))
<1>1. HDelMulti(fields) \in Seq(Command)
  <2>1. HDel(fields) \in Command
    BY DEF HDel, Command, Write
  <2> QED
    BY <2>1, CommandSeries DEF HDelMulti
<1>2. Touches(HDel(fields), f) <=> f \in fields
  BY WriteTouching
<1>3. f \notin fields => Quiet(HDelMulti(fields), f)
  BY <1>2, QuietFew DEF HDelMulti
<1>4. ASSUME NEW e, f \in fields PROVE Leads(HDelMulti(fields), f, e, Holds(None, e.mark))
  <2>1. Result(HDel(fields), f, e) = Holds(None, e.mark)
    BY <1>2, <1>4 DEF Result, Effect, WriteEffect, HDel
  <2>2. HDelMulti(fields) = <<HDel(fields)>>
    BY <1>4 DEF HDelMulti
  <2>3. Leads(<<HDel(fields)>>, f, e, Result(HDel(fields), f, e))
    BY LeadsOne
  <2> QED
    BY <2>1, <2>2, <2>3
<1> QED
  BY <1>1, <1>3, <1>4

\* The objects delete_guild removes are those that are listed.
LEMMA ListedObjects ==
    ASSUME StoreTypeOK, NEW g \in Guilds, NEW f \in Tracked
    PROVE  /\ f \in {Channel(i) : i \in sets[GuildChannels(g)]} <=>
                 f[1] = "channels" /\ HomeOf(f) = g /\ Entry(f).mark = "listed"
           /\ f \in {Role(i) : i \in sets[GuildRoles(g)]} <=>
                 f[1] = "roles" /\ HomeOf(f) = g /\ Entry(f).mark = "listed"
           /\ f \in {Emoji(i) : i \in sets[GuildEmojis(g)]} <=>
                 f[1] = "emojis" /\ HomeOf(f) = g /\ Entry(f).mark = "listed"
           /\ f \in {Member(g, u) : u \in sets[GuildMembers(g)]} <=>
                 f[1] = "members" /\ HomeOf(f) = g /\ Entry(f).mark = "listed"
<1>1. /\ sets[GuildChannels(g)] \subseteq At(g, Channels) /\ sets[GuildRoles(g)] \subseteq At(g, Roles)
      /\ sets[GuildEmojis(g)] \subseteq At(g, Emojis)
  BY DEF StoreTypeOK, Key, IdsOf, GuildChannels, GuildRoles, GuildEmojis
<1>2. Entry(f).mark = "listed" <=> IdOf(f) \in sets[KeyOf(f)]
  BY EntryParts
<1>3. f \in {Channel(i) : i \in sets[GuildChannels(g)]} <=>
         f[1] = "channels" /\ HomeOf(f) = g /\ Entry(f).mark = "listed"
  BY <1>1, <1>2, FieldCases DEF At, Channel
<1>4. f \in {Role(i) : i \in sets[GuildRoles(g)]} <=>
         f[1] = "roles" /\ HomeOf(f) = g /\ Entry(f).mark = "listed"
  BY <1>1, <1>2, FieldCases DEF At, Role
<1>5. f \in {Emoji(i) : i \in sets[GuildEmojis(g)]} <=>
         f[1] = "emojis" /\ HomeOf(f) = g /\ Entry(f).mark = "listed"
  BY <1>1, <1>2, FieldCases DEF At, Emoji
<1>6. f \in {Member(g, u) : u \in sets[GuildMembers(g)]} <=>
         f[1] = "members" /\ HomeOf(f) = g /\ Entry(f).mark = "listed"
  BY <1>2, FieldCases DEF Member
<1> QED
  BY <1>3, <1>4, <1>5, <1>6

LEMMA ListedFields ==
    ASSUME StoreTypeOK, NEW g \in Guilds
    PROVE  /\ {Channel(i) : i \in sets[GuildChannels(g)]} \in SUBSET Field
           /\ {Role(i) : i \in sets[GuildRoles(g)]} \in SUBSET Field
           /\ {Emoji(i) : i \in sets[GuildEmojis(g)]} \in SUBSET Field
           /\ {Member(g, u) : u \in sets[GuildMembers(g)]} \in SUBSET Field
<1>1. /\ sets[GuildChannels(g)] \subseteq Channels /\ sets[GuildEmojis(g)] \subseteq Emojis
      /\ sets[GuildRoles(g)] \subseteq Roles /\ sets[GuildMembers(g)] \subseteq Users
  BY DEF StoreTypeOK, GuildChannels, GuildEmojis, GuildRoles, GuildMembers, Key, IdsOf, At
<1> QED
  BY <1>1 DEF Channel, Emoji, Role, Member, ObjectFields, MemberIds, Field

LEMMA IdsReadFollows ==
    ASSUME StoreTypeOK, NEW d \in Removals, NEW g \in Guilds, NEW f \in Tracked
    PROVE  Follows(AfterIdsRead(Call(d, g, None, None)), Call(d, g, None, None), f)
<1> DEFINE c == Call(d, g, None, None)
           next == AfterIdsRead(c)
           mine == f[1] = Kind(d) /\ HomeOf(f) = g
           e == Entry(f)
           wipe == Del(GuildMembers(g))
           channels == {Channel(i) : i \in sets[GuildChannels(g)]}
           emojis == {Emoji(i) : i \in sets[GuildEmojis(g)]}
           roles == {Role(i) : i \in sets[GuildRoles(g)]}
           members == {Member(g, u) : u \in sets[GuildMembers(g)]}
<1>1. Touches(c, f) <=> mine
  BY GuildCallTouching
<1>2. Result(c, f, e) = IF mine THEN IF f[1] = "members" THEN Emptied(e) ELSE Cleared(e) ELSE e
  BY <1>1 DEF Result, Effect, ReadEffect, Call, Kind, Removals
<1>3. /\ d = "remove_channels" => next = HDelMulti(channels)
      /\ d = "remove_emojis" => next = HDelMulti(emojis)
      /\ d = "remove_roles" => next = HDelMulti(roles)
      /\ d = "remove_members" => next = HDelMulti(members) \o <<wipe>>
  BY DEF AfterIdsRead, Call
<1>4. /\ d = "remove_channels" => Kind(d) = "channels" /\ (f \in channels <=> mine /\ e.mark = "listed")
      /\ d = "remove_emojis" => Kind(d) = "emojis" /\ (f \in emojis <=> mine /\ e.mark = "listed")
      /\ d = "remove_roles" => Kind(d) = "roles" /\ (f \in roles <=> mine /\ e.mark = "listed")
      /\ d = "remove_members" => Kind(d) = "members" /\ (f \in members <=> mine /\ e.mark = "listed")
  <2>1. /\ d = "remove_channels" => Kind(d) = "channels"
        /\ d = "remove_emojis" => Kind(d) = "emojis"
        /\ d = "remove_roles" => Kind(d) = "roles"
        /\ d = "remove_members" => Kind(d) = "members"
    BY DEF Kind
  <2> QED
    BY <2>1, ListedObjects
<1>5. /\ channels \in SUBSET Field /\ emojis \in SUBSET Field /\ roles \in SUBSET Field
      /\ members \in SUBSET Field
  BY ListedFields
<1>6. Touches(wipe, f) <=> f[1] = "members" /\ HomeOf(f) = g
  BY WriteTouching, KeysApart
<1>7. \A x : f[1] = "members" /\ HomeOf(f) = g => Result(wipe, f, x) = Holds(x.value, "unlisted")
  BY <1>6 DEF Result, Effect, WriteEffect, Del
<1>8. e.value = hash[f] /\ e = Holds(hash[f], e.mark)
  BY EntryParts
<1>9. <<wipe>> \in Seq(Command)
  <2>1. wipe \in Harmless
    BY HarmlessWrites DEF GuildMembers, Key, UserKeys, UnavailableGuilds
  <2> QED
    BY <2>1, HarmlessIsCommand
<1> HIDE DEF c, next, mine, e, wipe, channels, emojis, roles, members
<1>10. ASSUME NEW fields \in SUBSET Field, next = HDelMulti(fields), mine => f[1] # "members",
              f \in fields <=> mine /\ e.mark = "listed"
       PROVE  Follows(next, c, f)
  <2>1. CASE f \in fields
    <3>1. Leads(next, f, e, Holds(None, e.mark))
      BY <1>10, <2>1, HDelMultiLeads
    <3>2. Result(c, f, e) = Holds(None, e.mark) /\ mine
      BY <1>2, <1>10, <2>1 DEF Cleared
    <3> QED
      BY <1>1, <3>1, <3>2 DEF Follows, e
  <2>2. CASE f \notin fields
    <3>1. HDelMulti(fields) \in Seq(Command) /\ Quiet(HDelMulti(fields), f)
      BY <2>2, HDelMultiLeads
    <3>2. Result(c, f, e) = e
      BY <1>2, <1>10, <2>2 DEF Cleared
    <3>3. Quiet(next, f) /\ next \in Seq(Command)
      BY <1>10, <3>1
    <3> QED
      BY <3>2, <3>3, QuietFollows DEF e
  <2> QED
    BY <2>1, <2>2
<1>11. ASSUME d = "remove_members" PROVE Follows(next, c, f)
  <2>1. /\ next = HDelMulti(members) \o <<wipe>> /\ HDelMulti(members) \in Seq(Command)
        /\ mine <=> f[1] = "members" /\ HomeOf(f) = g
    BY <1>3, <1>4, <1>5, <1>11, HDelMultiLeads DEF mine
  <2>2. CASE ~mine
    <3>1. f \notin members /\ ~Touches(wipe, f) /\ Result(c, f, e) = e
      BY <1>2, <1>4, <1>6, <1>11, <2>1, <2>2
    <3>2. Quiet(HDelMulti(members), f) /\ Quiet(<<wipe>>, f)
      BY <1>5, <3>1, HDelMultiLeads, QuietFew
    <3> DEFINE dels == HDelMulti(members)
               last == <<wipe>>
    <3>4. /\ dels \in Seq(Command) /\ last \in Seq(Command) /\ next = dels \o last
          /\ Quiet(dels, f) /\ Quiet(last, f)
      BY <1>9, <2>1, <3>2
    <3> HIDE DEF dels, last
    <3>5. Quiet(dels \o last, f) /\ dels \o last \in Seq(Command)
      BY <3>4, QuietAppend
    <3>3. Quiet(next, f) /\ next \in Seq(Command)
      BY <3>4, <3>5
    <3> QED
      BY <3>1, <3>3, QuietFollows DEF e
  <2>3. CASE mine
    <3> DEFINE between == IF e.mark = "listed" THEN Holds(None, e.mark) ELSE e
    <3>1. Leads(HDelMulti(members), f, e, between)
      <4>1. CASE f \in members
        BY <1>4, <1>5, <1>11, <2>3, <4>1, HDelMultiLeads
      <4>2. CASE f \notin members
        BY <1>4, <1>5, <1>11, <2>1, <2>3, <4>2, HDelMultiLeads, QuietLeads
      <4> QED
        BY <4>1, <4>2
    <3>2. Result(wipe, f, between) = Holds(between.value, "unlisted")
      BY <1>7, <2>1, <2>3
    <3>3. between.value = IF e.mark = "listed" THEN None ELSE e.value
      BY DEF Holds
    <3>4. Result(c, f, e) = Emptied(e)
      BY <1>2, <2>1, <2>3
    <3> HIDE DEF between
    <3>5. Leads(<<wipe>>, f, between, Result(wipe, f, between))
      BY LeadsOne
    <3>6. Leads(next, f, e, Result(wipe, f, between))
      BY <1>9, <2>1, <3>1, <3>5, LeadsAppend
    <3>7. Result(wipe, f, between) = Result(c, f, e)
      BY <3>2, <3>3, <3>4 DEF Emptied
    <3> QED
      BY <1>1, <2>3, <3>6, <3>7 DEF Follows, e
  <2> QED
    BY <2>2, <2>3
<1>12. ASSUME d = "remove_channels" PROVE Follows(next, c, f)
  <2>1. mine => f[1] = "channels"
    BY <1>4, <1>12 DEF mine
  <2> QED
    BY <1>3, <1>4, <1>5, <1>10, <1>12, <2>1
<1>13. ASSUME d = "remove_emojis" PROVE Follows(next, c, f)
  <2>1. mine => f[1] = "emojis"
    BY <1>4, <1>13 DEF mine
  <2> QED
    BY <1>3, <1>4, <1>5, <1>10, <1>13, <2>1
<1>14. ASSUME d = "remove_roles" PROVE Follows(next, c, f)
  <2>1. mine => f[1] = "roles"
    BY <1>4, <1>14 DEF mine
  <2> QED
    BY <1>3, <1>4, <1>5, <1>10, <1>14, <2>1
<1> QED
  BY <1>11, <1>12, <1>13, <1>14 DEF Removals, c, next
-----------------------------------------------------------------------------
(* Loops and lists.                                                        *)

EachCall(function, guild, items) ==
    [do |-> "each", function |-> function, guild |-> guild, items |-> items]

LEMMA EachTouching ==
    ASSUME NEW f, NEW g, NEW items
    PROVE  /\ Touches(EachCall("cache_channel", g, items), f) <=> f[1] = "channels" /\ Gives(items, f[2])
           /\ Touches(EachCall("cache_role", g, items), f) <=> f[1] = "roles" /\ Gives(items, f[2])
           /\ Touches(EachCall("cache_emoji", g, items), f) <=> f[1] = "emojis" /\ Gives(items, f[2])
           /\ Touches(EachCall("cache_member", g, items), f) <=>
                 f[1] = "members" /\ f[2][1] = g /\ Gives(items, f[2][2])
           /\ Touches(EachCall("unavailable_guild", g, items), f) <=> Gives(items, HomeOf(f))
  BY DEF EachCall, Touches, WriteTouches, ReadTouches, Counts, MemberCalls, EachTouches

LEMMA EachResults ==
    ASSUME NEW f, NEW g, NEW items, NEW e
    PROVE  /\ Result(EachCall("cache_channel", g, items), f, e) =
                 IF f[1] = "channels" /\ Gives(items, f[2]) THEN Holds(LookOf(items, f[2]), "listed") ELSE e
           /\ Result(EachCall("cache_role", g, items), f, e) =
                 IF f[1] = "roles" /\ Gives(items, f[2]) THEN Holds(LookOf(items, f[2]), "listed") ELSE e
           /\ Result(EachCall("cache_emoji", g, items), f, e) =
                 IF f[1] = "emojis" /\ Gives(items, f[2]) THEN Stored(e, LookOf(items, f[2])) ELSE e
           /\ Result(EachCall("cache_member", g, items), f, e) =
                 IF f[1] = "members" /\ f[2][1] = g /\ Gives(items, f[2][2])
                 THEN Stored(e, LookOf(items, f[2][2])) ELSE e
           /\ Result(EachCall("unavailable_guild", g, items), f, e) =
                 IF Gives(items, HomeOf(f)) THEN Outage(f, e) ELSE e
<1>1. /\ Effect(EachCall("cache_channel", g, items), f, e) = Holds(LookOf(items, f[2]), "listed")
      /\ Effect(EachCall("cache_role", g, items), f, e) = Holds(LookOf(items, f[2]), "listed")
      /\ Effect(EachCall("cache_emoji", g, items), f, e) = Stored(e, LookOf(items, f[2]))
      /\ Effect(EachCall("cache_member", g, items), f, e) = Stored(e, LookOf(items, f[2][2]))
      /\ Effect(EachCall("unavailable_guild", g, items), f, e) = Outage(f, e)
  BY DEF EachCall, Effect, EachEffect
<1> QED
  BY <1>1, EachTouching DEF Result

\* A loop is its first step, or nothing.
LEMMA LoopLeads ==
    ASSUME NEW d \in {"cache_channel", "cache_role", "cache_emoji", "cache_member", "unavailable_guild"},
           NEW g, NEW items, NEW f
    PROVE  /\ ~Touches(EachCall(d, g, items), f) => Quiet(Loop(d, g, items), f)
           /\ \A e : Leads(Loop(d, g, items), f, e, Result(EachCall(d, g, items), f, e))
<1> DEFINE c == EachCall(d, g, items)
<1>1. CASE items = {}
  <2>1. Loop(d, g, items) = <<>>
    BY <1>1 DEF Loop
  <2>2. ~Touches(c, f)
    <3>1. \A id : ~Gives(items, id)
      BY <1>1 DEF Gives
    <3> QED
      BY <3>1, EachTouching
  <2> HIDE DEF c
  <2>3. ASSUME NEW e PROVE Leads(<<>>, f, e, Result(c, f, e))
    BY <2>2, LeadsNothing DEF Result
  <2> QED
    BY <2>1, <2>3, QuietFew DEF c
<1>2. CASE items # {}
  <2>1. Loop(d, g, items) = <<c>>
    BY <1>2 DEF Loop, EachCall
  <2> HIDE DEF c
  <2>2. ASSUME NEW e PROVE Leads(<<c>>, f, e, Result(c, f, e))
    BY LeadsOne
  <2>3. ~Touches(c, f) => Quiet(<<c>>, f)
    BY QuietFew
  <2> QED
    BY <2>1, <2>2, <2>3 DEF c
<1> QED
  BY <1>1, <1>2

\* A list has one item about an id.
LEMMA LookIs ==
    ASSUME NEW ids, NEW looks, NEW items \in Lists(ids, looks), NEW item \in items
    PROVE  /\ Gives(items, item[1]) /\ LookOf(items, item[1]) = item[2]
           /\ ~Gives(items \ {item}, item[1])
<1>1. \A a, b \in items : a[1] = b[1] => a = b
  BY DEF Lists
<1>2. (CHOOSE a \in items : a[1] = item[1]) = item
  BY <1>1
<1> QED
  BY <1>1, <1>2 DEF Gives, LookOf

LEMMA OtherLooks ==
    ASSUME NEW ids, NEW looks, NEW items \in Lists(ids, looks), NEW item \in items, NEW id, id # item[1]
    PROVE  /\ Gives(items \ {item}, id) <=> Gives(items, id)
           /\ Gives(items, id) => LookOf(items \ {item}, id) = LookOf(items, id)
<1>1. Gives(items \ {item}, id) <=> Gives(items, id)
  BY DEF Gives
<1>2. ASSUME Gives(items, id) PROVE LookOf(items \ {item}, id) = LookOf(items, id)
  <2>1. PICK other \in items : other[1] = id
    BY <1>2 DEF Gives
  <2>2. other \in items \ {item} /\ items \ {item} \in Lists(ids, looks)
    BY <2>1, ListParts
  <2>3. Gives(items, other[1]) /\ LookOf(items, other[1]) = other[2]
    <3>1. \A a, b \in items : a[1] = b[1] => a = b
      BY DEF Lists
    <3>2. (CHOOSE a \in items : a[1] = other[1]) = other
      BY <3>1
    <3> QED
      BY <3>1, <3>2 DEF Gives, LookOf
  <2>4. LookOf(items \ {item}, other[1]) = other[2]
    BY <2>2, LookIs
  <2> QED
    BY <2>1, <2>3, <2>4
<1> QED
  BY <1>1, <1>2

LEMMA SRemMultiLeads ==
    ASSUME NEW k \in Key, NEW ids \in SUBSET IdsOf(k), NEW f
    PROVE  /\ SRemMulti(k, ids) \in Seq(Command)
           /\ ~(k = KeyOf(f) /\ IdOf(f) \in ids) => Quiet(SRemMulti(k, ids), f)
           /\ \A e : k = KeyOf(f) /\ IdOf(f) \in ids =>
                 Leads(SRemMulti(k, ids), f, e, Holds(e.value, "unlisted"))
<1>1. SRemMulti(k, ids) \in Seq(Command)
  <2>1. SRem(k, ids) \in Command
    BY DEF SRem, Command, Write
  <2> QED
    BY <2>1, CommandSeries DEF SRemMulti
<1>2. Touches(SRem(k, ids), f) <=> k = KeyOf(f) /\ IdOf(f) \in ids
  BY WriteTouching
<1>3. ~(k = KeyOf(f) /\ IdOf(f) \in ids) => Quiet(SRemMulti(k, ids), f)
  BY <1>2, QuietFew DEF SRemMulti
<1>4. ASSUME NEW e, k = KeyOf(f), IdOf(f) \in ids
      PROVE  Leads(SRemMulti(k, ids), f, e, Holds(e.value, "unlisted"))
  <2>1. Result(SRem(k, ids), f, e) = Holds(e.value, "unlisted")
    BY <1>2, <1>4 DEF Result, Effect, WriteEffect, SRem
  <2>2. SRemMulti(k, ids) = <<SRem(k, ids)>>
    BY <1>4 DEF SRemMulti
  <2>3. Leads(<<SRem(k, ids)>>, f, e, Result(SRem(k, ids), f, e))
    BY LeadsOne
  <2> QED
    BY <2>1, <2>2, <2>3
<1> QED
  BY <1>1, <1>3, <1>4

\* Three series in a row.
LEMMA InARow ==
    ASSUME NEW p \in Seq(Command), NEW q \in Seq(Command), NEW r \in Seq(Command), NEW f
    PROVE  /\ p \o q \o r \in Seq(Command)
           /\ Quiet(p \o q \o r, f) <=> Quiet(p, f) /\ Quiet(q, f) /\ Quiet(r, f)
           /\ \A s, t, u, v : Leads(p, f, s, t) /\ Leads(q, f, t, u) /\ Leads(r, f, u, v)
                                 => Leads(p \o q \o r, f, s, v)
<1>1. p \o q \in Seq(Command) /\ (p \o q) \o r \in Seq(Command)
  OBVIOUS
<1>2. Quiet((p \o q) \o r, f) <=> Quiet(p, f) /\ Quiet(q, f) /\ Quiet(r, f)
  <2> DEFINE a == p \o q
  <2>1. Quiet(a, f) <=> Quiet(p, f) /\ Quiet(q, f)
    BY QuietAppend
  <2>2. a \in Seq(Command)
    BY <1>1
  <2> HIDE DEF a
  <2>3. Quiet(a \o r, f) <=> Quiet(a, f) /\ Quiet(r, f)
    BY <2>2, QuietAppend
  <2> QED
    BY <2>1, <2>3 DEF a
<1>3. ASSUME NEW s, NEW t, NEW u, NEW v, Leads(p, f, s, t), Leads(q, f, t, u), Leads(r, f, u, v)
      PROVE  Leads((p \o q) \o r, f, s, v)
  <2>1. Leads(p \o q, f, s, u)
    BY <1>3, LeadsAppend
  <2> QED
    BY <1>1, <1>3, <2>1, LeadsAppend
<1> QED
  BY <1>1, <1>2, <1>3

LEMMA EmojiIdsReadFollows ==
    ASSUME StoreTypeOK, NEW g \in Guilds, NEW items \in Lists(At(g, Emojis), Looks), NEW f \in Tracked
    PROVE  Follows(AfterEmojiIdsRead(EmojisCall(g, items)), EmojisCall(g, items), f)
<1> DEFINE c == EmojisCall(g, items)
           next == AfterEmojiIdsRead(c)
           mine == f[1] = "emojis" /\ HomeOf(f) = g
           e == Entry(f)
           k == GuildEmojis(g)
           gone == EmojisToRemove(g, items)
           fields == {Emoji(i) : i \in gone}
           unlist == SRemMulti(k, gone)
           dels == HDelMulti(fields)
           loop == Loop("cache_emoji", g, items)
<1>1. next = unlist \o dels \o loop
  BY DEF AfterEmojiIdsRead, EmojisCall
<1>2. Touches(c, f) <=> mine
  BY GuildCallTouching
<1>3. Result(c, f, e) = IF mine THEN IF Gives(items, f[2]) THEN Stored(e, LookOf(items, f[2])) ELSE Removed(e)
                        ELSE e
  <2>1. mine => Effect(c, f, e) = IF Gives(items, f[2]) THEN Stored(e, LookOf(items, f[2])) ELSE Removed(e)
    BY DEF Effect, ReadEffect, EmojisCall
  <2> HIDE DEF e, c, mine
  <2> QED
    BY <1>2, <2>1 DEF Result
<1>4. k \in Key /\ gone \subseteq IdsOf(k) /\ fields \in SUBSET Field /\ gone \subseteq sets[k]
  <2>1. k \in Key /\ IdsOf(k) = At(g, Emojis) /\ sets[k] \subseteq IdsOf(k)
    BY DEF StoreTypeOK, GuildEmojis, Key, IdsOf
  <2>2. gone \subseteq sets[k]
    BY DEF EmojisToRemove
  <2> QED
    BY <2>1, <2>2 DEF Emoji, At, Field, ObjectFields
<1>5. loop \in Seq(Command)
  BY HarmlessLoops, HarmlessIsCommand
<1>6. /\ ~mine => ~Touches(EachCall("cache_emoji", g, items), f)
      /\ ~Gives(items, f[2]) => ~Touches(EachCall("cache_emoji", g, items), f)
  <2>1. ASSUME f[1] = "emojis", Gives(items, f[2]) PROVE HomeOf(f) = g
    <3>1. PICK item \in items : item[1] = f[2]
      BY <2>1 DEF Gives
    <3>2. f[2] \in At(g, Emojis)
      BY <3>1, ListParts
    <3> QED
      BY <2>1, <3>2, FieldCases DEF At
  <2> QED
    BY <2>1, EachTouching
<1>7. f \in fields => mine /\ e.mark = "listed" /\ ~Gives(items, f[2])
  <2>1. ASSUME NEW i \in gone, f = Emoji(i) PROVE mine /\ e.mark = "listed" /\ ~Gives(items, f[2])
    <3>1. i \in At(g, Emojis) /\ i \in sets[k] /\ f[1] = "emojis" /\ f[2] = i
      BY <1>4, <2>1 DEF IdsOf, GuildEmojis, Emoji
    <3>2. HomeOf(f) = g /\ KeyOf(f) = k /\ IdOf(f) = i
      BY <3>1, FieldCases DEF At
    <3>3. ~Gives(items, i)
      BY DEF EmojisToRemove, Gives
    <3>4. e.mark = "listed"
      BY <3>1, <3>2, EntryParts
    <3> QED
      BY <3>1, <3>2, <3>3, <3>4
  <2> QED
    BY <2>1
<1>8. mine /\ e.mark = "listed" /\ ~Gives(items, f[2]) => f \in fields /\ IdOf(f) \in gone
  <2>1. ASSUME mine, e.mark = "listed", ~Gives(items, f[2]) PROVE f \in fields /\ IdOf(f) \in gone
    <3>1. KeyOf(f) = k /\ IdOf(f) = f[2] /\ f = Emoji(f[2])
      BY <2>1, FieldCases
    <3>2. f[2] \in sets[k]
      BY <2>1, <3>1, EntryParts
    <3>3. f[2] \in gone
      BY <2>1, <3>2 DEF EmojisToRemove, Gives
    <3> QED
      BY <3>1, <3>3
  <2> QED
    BY <2>1
<1>9. k = KeyOf(f) /\ IdOf(f) \in gone => f \in fields
  BY KeysApart, FieldCases
<1>10. k = KeyOf(f) <=> mine
  BY KeysApart
<1>11. unlist \in Seq(Command) /\ dels \in Seq(Command)
  <2> HIDE DEF k, gone, fields
  <2> QED
    BY <1>4, SRemMultiLeads, HDelMultiLeads
<1>12. f \notin fields => Quiet(unlist, f) /\ Quiet(dels, f)
  <2> HIDE DEF k, gone, fields
  <2> QED
    BY <1>4, <1>9, SRemMultiLeads, HDelMultiLeads
<1>13. ASSUME f \in fields, IdOf(f) \in gone, mine
       PROVE  /\ Leads(unlist, f, e, Holds(e.value, "unlisted"))
              /\ Leads(dels, f, Holds(e.value, "unlisted"), Holds(None, "unlisted"))
  <2> DEFINE between == Holds(e.value, "unlisted")
  <2>1. between.mark = "unlisted"
    BY DEF Holds
  <2> HIDE DEF k, gone, fields, e, between, mine
  <2>2. Leads(unlist, f, e, Holds(e.value, "unlisted"))
    BY <1>4, <1>10, <1>13, SRemMultiLeads
  <2>3. Leads(dels, f, between, Holds(None, between.mark))
    BY <1>4, <1>13, HDelMultiLeads
  <2> QED
    BY <2>1, <2>2, <2>3 DEF between
<1>14. /\ ~Touches(EachCall("cache_emoji", g, items), f) => Quiet(loop, f)
       /\ \A x : Leads(loop, f, x, Result(EachCall("cache_emoji", g, items), f, x))
  BY LoopLeads
<1>15. \A x : mine /\ Gives(items, f[2]) =>
              Result(EachCall("cache_emoji", g, items), f, x) = Stored(x, LookOf(items, f[2]))
  <2> SUFFICES ASSUME NEW x, mine, Gives(items, f[2])
               PROVE  Result(EachCall("cache_emoji", g, items), f, x) = Stored(x, LookOf(items, f[2]))
    OBVIOUS
  <2> QED
    BY EachResults
<1> HIDE DEF c, next, mine, e, k, gone, fields, unlist, dels, loop
<1>16. CASE f \in fields
  <2>1. Result(c, f, e) = Holds(None, "unlisted") /\ mine /\ Quiet(loop, f)
    BY <1>3, <1>6, <1>7, <1>14, <1>16 DEF Removed
  <2>2. Leads(loop, f, Holds(None, "unlisted"), Holds(None, "unlisted"))
    BY <1>5, <2>1, QuietLeads
  <2>3. Leads(unlist \o dels \o loop, f, e, Holds(None, "unlisted"))
    BY <1>5, <1>7, <1>8, <1>11, <1>13, <1>16, <2>2, InARow
  <2> QED
    BY <1>1, <1>2, <2>1, <2>3 DEF Follows, c, next, e
<1>17. CASE f \notin fields /\ mine /\ Gives(items, f[2])
  <2>1. Leads(unlist, f, e, e) /\ Leads(dels, f, e, e)
    BY <1>11, <1>12, <1>17, QuietLeads
  <2>2. Leads(loop, f, e, Stored(e, LookOf(items, f[2])))
    BY <1>14, <1>15, <1>17
  <2>3. Leads(unlist \o dels \o loop, f, e, Stored(e, LookOf(items, f[2])))
    BY <1>5, <1>11, <2>1, <2>2, InARow
  <2> QED
    BY <1>1, <1>2, <1>3, <1>17, <2>3 DEF Follows, c, next, e
<1>18. CASE f \notin fields /\ ~(mine /\ Gives(items, f[2]))
  <2>1. Result(c, f, e) = e
    BY <1>3, <1>8, <1>18 DEF Removed
  <2>2. Quiet(loop, f) /\ Quiet(unlist, f) /\ Quiet(dels, f)
    BY <1>6, <1>12, <1>14, <1>18
  <2>3. Quiet(unlist \o dels \o loop, f) /\ unlist \o dels \o loop \in Seq(Command)
    BY <1>5, <1>11, <2>2, InARow
  <2> QED
    BY <1>1, <2>1, <2>3, QuietFollows DEF c, next, e
<1> QED
  BY <1>16, <1>17, <1>18
LEMMA UserReadsFollow ==
    ASSUME NEW u \in Users, NEW f \in Tracked
    PROVE  /\ \A g \in Guilds \union {None} : \A next \in Then(Call("cache_user", g, u, None)) :
                 Follows(next, Call("cache_user", g, u, None), f)
           /\ \A g \in Guilds : \A next \in Then(Call("remove_user_in_no_guild", g, u, None)) :
                 Follows(next, Call("remove_user_in_no_guild", g, u, None), f)
<1>1. ASSUME NEW g \in Guilds \union {None}, NEW next \in Then(Call("cache_user", g, u, None))
      PROVE  Follows(next, Call("cache_user", g, u, None), f)
  <2> DEFINE c == Call("cache_user", g, u, None)
  <2>1. next = PutUser(u) \o TrackUser(u, g) \/ next = TrackUser(u, g)
    <3>1. c.do = "cache_user" /\ c.id = u /\ c.guild = g
      BY DEF Call
    <3>2. next \in Then(c)
      OBVIOUS
    <3> HIDE DEF c
    <3>3. Then(c) = AfterUserRead(c)
      BY <3>1 DEF Then, MemberCalls
    <3> QED
      BY <3>1, <3>2, <3>3 DEF AfterUserRead
  <2>2. PutUser(u) \in Seq(Command) /\ TrackUser(u, g) \in Seq(Command)
    BY HarmlessUsers, HarmlessIsCommand
  <2>3. Quiet(PutUser(u), f) /\ Quiet(TrackUser(u, g), f)
    BY UsersQuiet
  <2>4. Quiet(PutUser(u) \o TrackUser(u, g), f) /\ PutUser(u) \o TrackUser(u, g) \in Seq(Command)
    BY <2>2, <2>3, QuietAppend, CommandSequences
  <2>5. Quiet(next, f) /\ next \in Seq(Command)
    BY <2>1, <2>2, <2>3, <2>4
  <2>6. ~Touches(c, f)
    BY CallTouching
  <2> HIDE DEF c
  <2>7. Result(c, f, Entry(f)) = Entry(f)
    BY <2>6 DEF Result
  <2> QED
    BY <2>5, <2>7, QuietFollows DEF c
<1>2. ASSUME NEW g \in Guilds, NEW next \in Then(Call("remove_user_in_no_guild", g, u, None))
      PROVE  Follows(next, Call("remove_user_in_no_guild", g, u, None), f)
  <2> DEFINE c == Call("remove_user_in_no_guild", g, u, None)
  <2>1. next = <<>> \/ next = <<HDel({User(u)})>>
    BY DEF Then, AfterTracksRead, Call, MemberCalls
  <2>2. HDel({User(u)}) \in Command
    BY FieldsApart DEF HDel, Command, Write, User, UserFields
  <2>3. ~Touches(HDel({User(u)}), f)
    BY UsersQuiet
  <2>4. Quiet(next, f) /\ next \in Seq(Command)
    BY <2>1, <2>2, <2>3, QuietFew, CommandSeries
  <2>5. ~Touches(c, f)
    BY CallTouching
  <2> HIDE DEF c
  <2>6. Result(c, f, Entry(f)) = Entry(f)
    BY <2>5 DEF Result
  <2> QED
    BY <2>4, <2>6, QuietFollows DEF c
<1> QED
  BY <1>1, <1>2

\* Whatever is read, what follows makes of each entry what the read stands for.
LEMMA ReadStep ==
    ASSUME StoreTypeOK, NEW c \in Read, NEW next \in Then(c), NEW f \in Tracked
    PROVE  Follows(next, c, f)
<1>1. ASSUME NEW g \in Guilds \union {None}, NEW u \in Users, c = Call("cache_user", g, u, None)
      PROVE  Follows(next, c, f)
  BY <1>1, UserReadsFollow
<1>2. ASSUME NEW d \in MemberCalls, NEW g \in Guilds, NEW u \in Users, NEW v \in Looks,
             c = Call(d, g, u, v)
      PROVE  Follows(next, c, f)
  <2>1. Then(c) = {AfterMemberRead(c)}
    BY <1>2 DEF Then, Call, MemberCalls
  <2> QED
    BY <1>2, <2>1, MemberReadFollows
<1>3. ASSUME NEW g \in Guilds, NEW u \in Users, c = Call("remove_user_in_no_guild", g, u, None)
      PROVE  Follows(next, c, f)
  BY <1>3, UserReadsFollow
<1>4. ASSUME NEW d \in {"delete_channel", "update_pins"}, NEW g \in Guilds, NEW i \in At(g, Channels),
             c = Call(d, g, i, None)
      PROVE  Follows(next, c, f)
  <2>1. Then(c) = {AfterChannelRead(c)}
    BY <1>4 DEF Then, Call, MemberCalls
  <2> QED
    BY <1>4, <2>1, ChannelReadFollows
<1>5. ASSUME NEW g \in Guilds, NEW i \in At(g, Emojis), NEW v \in Looks, c = Call("cache_emoji", g, i, v)
      PROVE  Follows(next, c, f)
  <2>1. Then(c) = {AfterEmojiRead(c)}
    BY <1>5 DEF Then, Call, MemberCalls
  <2> QED
    BY <1>5, <2>1, EmojiReadFollows
<1>6. ASSUME NEW g \in Guilds, NEW items \in Lists(At(g, Emojis), Looks),
             c = [do |-> "cache_emojis", guild |-> g, items |-> items]
      PROVE  Follows(next, c, f)
  <2>1. Then(c) = {AfterEmojiIdsRead(c)} /\ c = EmojisCall(g, items)
    BY <1>6 DEF Then, EmojisCall, MemberCalls
  <2> QED
    BY <2>1, EmojiIdsReadFollows
<1>7. ASSUME NEW d \in GuildCalls, NEW g \in Guilds, c = Call(d, g, None, None)
      PROVE  Follows(next, c, f)
  <2>1. CASE d \in Counts \union {"update_guild"}
    <3>1. Then(c) = {AfterGuildRead(c)}
      BY <1>7, <2>1 DEF Then, Call, MemberCalls, Counts
    <3> QED
      BY <1>7, <2>1, <3>1, GuildReadFollows
  <2>2. CASE d \in Removals
    <3>1. Then(c) = {AfterIdsRead(c)}
      BY <1>7, <2>2 DEF Then, Call, MemberCalls, Removals
    <3> QED
      BY <1>7, <2>2, <3>1, IdsReadFollows
  <2> QED
    BY <2>1, <2>2 DEF GuildCalls, Counts, Removals
<1> QED
  BY <1>1, <1>2, <1>3, <1>4, <1>5, <1>6, <1>7, ReadCases

-----------------------------------------------------------------------------
(* What the functions of models make of an entry.                          *)

LEMMA ChannelFunctions ==
    ASSUME NEW i \in Channels, NEW f \in Tracked
    PROVE  /\ f # Channel(i) => /\ \A v : Quiet(CacheChannel(i, v), f)
                                /\ Quiet(DeleteChannel(i), f) /\ Quiet(UpdatePins(i), f)
           /\ f = Channel(i) => \A v \in Looks : \A e : Leads(CacheChannel(i, v), f, e, Holds(v, "listed"))
           /\ f = Channel(i) => \A e : Leads(DeleteChannel(i), f, e,
                                   Holds(None, IF e.value = None THEN e.mark ELSE "unlisted"))
           /\ \A e : Leads(UpdatePins(i), f, e, e)
<1> DEFINE g == Home[i]
           o == Channel(i)
           list == SAdd(GuildChannels(g), i)
           put(v) == HSet(o, v)
           gone == Call("delete_channel", g, i, None)
           pins == Call("update_pins", g, i, None)
<1>1. g \in Guilds /\ i \in At(g, Channels)
  BY CacheAssumption DEF Things, At
<1>2. /\ Touches(list, f) <=> f = o
      /\ \A v : Touches(put(v), f) <=> f = o
  BY <1>1, WriteTouching, ThingCommandsInKey
<1>3. Touches(gone, f) <=> f = o
  BY CallTouching
<1>4. Touches(pins, f) <=> f = o
  BY CallTouching
<1>5. \A e : Result(gone, f, e) = IF f = o
                                  THEN Holds(None, IF e.value = None THEN e.mark ELSE "unlisted") ELSE e
  BY CallResults
<1>6. \A e : Result(pins, f, e) = e
  BY CallResults
<1>7. ASSUME NEW v \in Looks PROVE list \in Command /\ put(v) \in Command
  <2>1. /\ GuildChannels(g) \in Key /\ i \in IdsOf(GuildChannels(g)) /\ o \in ObjectFields \ MemberFields
    BY <1>1 DEF GuildChannels, Key, IdsOf, At, Channel, ObjectFields, MemberFields
  <2> QED
    BY <2>1, HarmlessWrites, HarmlessIsCommand
<1>8. ASSUME f = o, NEW v, NEW e PROVE Result(put(v), f, Result(list, f, e)) = Holds(v, "listed")
  BY <1>2, <1>8 DEF Result, Effect, WriteEffect, HSet, SAdd, Holds
<1>9. /\ \A v : CacheChannel(i, v) = <<list, put(v)>>
      /\ DeleteChannel(i) = <<gone>> /\ UpdatePins(i) = <<pins>>
  BY DEF CacheChannel, DeleteChannel, UpdatePins
<1> HIDE DEF g, o, list, put, gone, pins
<1>10. f # o => /\ \A v : Quiet(CacheChannel(i, v), f)
                /\ Quiet(DeleteChannel(i), f) /\ Quiet(UpdatePins(i), f)
  BY <1>2, <1>3, <1>4, <1>9, QuietFew
<1>11. ASSUME f = o, NEW v \in Looks, NEW e PROVE Leads(CacheChannel(i, v), f, e, Holds(v, "listed"))
  <2>1. Leads(<<list, put(v)>>, f, e, Result(put(v), f, Result(list, f, e)))
    BY <1>7, LeadsTwo
  <2> QED
    BY <1>8, <1>9, <1>11, <2>1
<1>12. ASSUME NEW e
       PROVE  /\ Leads(DeleteChannel(i), f, e, Result(gone, f, e))
              /\ Leads(UpdatePins(i), f, e, e)
  <2>1. Leads(<<gone>>, f, e, Result(gone, f, e)) /\ Leads(<<pins>>, f, e, Result(pins, f, e))
    BY LeadsOne
  <2> QED
    BY <1>6, <1>9, <2>1
<1>13. ASSUME f = o, NEW e
       PROVE  Leads(DeleteChannel(i), f, e, Holds(None, IF e.value = None THEN e.mark ELSE "unlisted"))
  BY <1>5, <1>12, <1>13
<1> QED
  BY <1>10, <1>11, <1>12, <1>13 DEF o

LEMMA RoleFunctions ==
    ASSUME NEW g \in Guilds, NEW i \in At(g, Roles), NEW f \in Tracked
    PROVE  /\ f # Role(i) => /\ \A v : Quiet(CacheRole(g, i, v), f)
                             /\ Quiet(DeleteRole(g, i), f)
           /\ f = Role(i) => \A v \in Looks : \A e : Leads(CacheRole(g, i, v), f, e, Holds(v, "listed"))
           /\ f = Role(i) => \A e : Leads(DeleteRole(g, i), f, e, Holds(None, "unlisted"))
<1> DEFINE o == Role(i)
           list == SAdd(GuildRoles(g), i)
           put(v) == HSet(o, v)
           gone == HDel({o})
           unlist == SRem(GuildRoles(g), {i})
<1>1. /\ Touches(list, f) <=> f = o
      /\ Touches(unlist, f) <=> f = o
      /\ Touches(gone, f) <=> f = o
      /\ \A v : Touches(put(v), f) <=> f = o
  BY WriteTouching, ThingCommandsInKey
<1>2. /\ list \in Command /\ gone \in Command /\ unlist \in Command
      /\ \A v \in Looks : put(v) \in Command
  <2>1. /\ GuildRoles(g) \in Key \ UserKeys /\ i \in IdsOf(GuildRoles(g)) /\ o \in ObjectFields \ MemberFields
    BY DEF GuildRoles, Key, UserKeys, UnavailableGuilds, IdsOf, At, Role, ObjectFields, MemberFields
  <2> QED
    BY <2>1, HarmlessWrites, HarmlessIsCommand
<1>3. ASSUME f = o, NEW v, NEW e PROVE Result(put(v), f, Result(list, f, e)) = Holds(v, "listed")
  BY <1>1, <1>3 DEF Result, Effect, WriteEffect, HSet, SAdd, Holds
<1>4. ASSUME f = o, NEW e PROVE Result(unlist, f, Result(gone, f, e)) = Holds(None, "unlisted")
  BY <1>1, <1>4 DEF Result, Effect, WriteEffect, HDel, SRem, Holds
<1>5. (\A v : CacheRole(g, i, v) = <<list, put(v)>>) /\ DeleteRole(g, i) = <<gone, unlist>>
  BY DEF CacheRole, DeleteRole
<1> HIDE DEF o, list, put, gone, unlist
<1>6. f # o => (\A v : Quiet(CacheRole(g, i, v), f)) /\ Quiet(DeleteRole(g, i), f)
  BY <1>1, <1>5, QuietFew
<1>7. ASSUME f = o, NEW v \in Looks, NEW e PROVE Leads(CacheRole(g, i, v), f, e, Holds(v, "listed"))
  <2>1. Leads(<<list, put(v)>>, f, e, Result(put(v), f, Result(list, f, e)))
    BY <1>2, LeadsTwo
  <2> QED
    BY <1>3, <1>5, <1>7, <2>1
<1>8. ASSUME f = o, NEW e PROVE Leads(DeleteRole(g, i), f, e, Holds(None, "unlisted"))
  <2>1. Leads(<<gone, unlist>>, f, e, Result(unlist, f, Result(gone, f, e)))
    BY <1>2, LeadsTwo
  <2> QED
    BY <1>4, <1>5, <1>8, <2>1
<1> QED
  BY <1>6, <1>7, <1>8 DEF o

LEMMA EmojiFunctions ==
    ASSUME NEW g \in Guilds, NEW f \in Tracked
    PROVE  /\ \A i \in At(g, Emojis), v \in Looks :
                 /\ f # Emoji(i) => Quiet(CacheEmoji(g, i, v), f)
                 /\ f = Emoji(i) => \A e : Leads(CacheEmoji(g, i, v), f, e, Stored(e, v))
           /\ \A items : /\ ~(f[1] = "emojis" /\ HomeOf(f) = g) => Quiet(CacheEmojis(g, items), f)
                         /\ \A e : Leads(CacheEmojis(g, items), f, e, Result(EmojisCall(g, items), f, e))
<1>1. ASSUME NEW i \in At(g, Emojis), NEW v \in Looks
      PROVE  /\ f # Emoji(i) => Quiet(CacheEmoji(g, i, v), f)
             /\ f = Emoji(i) => \A e : Leads(CacheEmoji(g, i, v), f, e, Stored(e, v))
  <2> DEFINE first == IF Creator[i] = None THEN <<>> ELSE CacheUser(Creator[i], g)
             c == Call("cache_emoji", g, i, v)
  <2>1. first \in Seq(Command) /\ <<c>> \in Seq(Command)
    <3>1. Creator[i] \in Users \union {None}
      BY CacheAssumption DEF At
    <3>2. c \in Harmless
      BY HarmlessReads
    <3> QED
      BY <3>1, <3>2, HarmlessUsers, HarmlessIsCommand, CommandSeries
  <2>2. Quiet(first, f)
    BY UsersQuiet, QuietFew
  <2>3. Touches(c, f) <=> f = Emoji(i)
    BY CallTouching
  <2>4. \A e : Result(c, f, e) = IF f = Emoji(i) THEN Stored(e, v) ELSE e
    BY CallResults
  <2>5. CacheEmoji(g, i, v) = first \o <<c>>
    BY DEF CacheEmoji
  <2> HIDE DEF first, c
  <2>6. Quiet(first \o <<c>>, f) <=> Quiet(first, f) /\ Quiet(<<c>>, f)
    BY <2>1, QuietAppend
  <2>7. ASSUME NEW e PROVE Leads(first \o <<c>>, f, e, Result(c, f, e))
    <3>1. Leads(first, f, e, e) /\ Leads(<<c>>, f, e, Result(c, f, e))
      BY <2>1, <2>2, QuietLeads, LeadsOne
    <3> QED
      BY <2>1, <3>1, LeadsAppend
  <2>8. f # Emoji(i) => Quiet(<<c>>, f)
    BY <2>3, QuietFew
  <2>9. ASSUME f = Emoji(i), NEW e PROVE Leads(first \o <<c>>, f, e, Stored(e, v))
    BY <2>4, <2>7, <2>9
  <2> QED
    BY <2>2, <2>5, <2>6, <2>8, <2>9
<1>2. ASSUME NEW items
      PROVE  /\ ~(f[1] = "emojis" /\ HomeOf(f) = g) => Quiet(CacheEmojis(g, items), f)
             /\ \A e : Leads(CacheEmojis(g, items), f, e, Result(EmojisCall(g, items), f, e))
  <2>1. CacheEmojis(g, items) = <<EmojisCall(g, items)>>
    BY DEF CacheEmojis, EmojisCall
  <2>2. Touches(EmojisCall(g, items), f) <=> f[1] = "emojis" /\ HomeOf(f) = g
    BY GuildCallTouching
  <2> QED
    BY <2>1, <2>2, QuietFew, LeadsOne
<1> QED
  BY <1>1, <1>2
LEMMA LeadsFive ==
    ASSUME NEW a \in Command, NEW b \in Command, NEW c \in Command, NEW d \in Command, NEW x \in Command, NEW f
    PROVE  /\ <<a, b, c, d, x>> \in Seq(Command)
           /\ Quiet(<<a, b, c, d, x>>, f) <=> /\ ~Touches(a, f) /\ ~Touches(b, f) /\ ~Touches(c, f)
                                              /\ ~Touches(d, f) /\ ~Touches(x, f)
           /\ \A e : Leads(<<a, b, c, d, x>>, f, e,
                        Result(x, f, Result(d, f, Result(c, f, Result(b, f, Result(a, f, e))))))
<1> DEFINE p == <<a>>
           q == <<b, c>>
           r == <<d, x>>
           all == <<a, b, c, d, x>>
<1>1. p \in Seq(Command) /\ q \in Seq(Command) /\ r \in Seq(Command) /\ all \in Seq(Command)
  OBVIOUS
<1>2. p \o q \o r = all
  <2>1. /\ p \o q \o r \in Seq(Command) /\ Len(p) = 1 /\ Len(q) = 2 /\ Len(r) = 2
        /\ Len(p \o q \o r) = 5 /\ Len(all) = 5
    BY <1>1
  <2>2. \A i \in 1..5 : (p \o q \o r)[i] = all[i]
    <3>1. p \o q \in Seq(Command) /\ Len(p \o q) = 3
      BY <1>1
    <3>2. (p \o q)[1] = a /\ (p \o q)[2] = b /\ (p \o q)[3] = c
      BY <1>1
    <3>3. /\ \A i \in 1..3 : (p \o q \o r)[i] = (p \o q)[i]
          /\ \A i \in 4..5 : (p \o q \o r)[i] = r[i - 3]
      BY <1>1, <3>1
    <3>4. r[1] = d /\ r[2] = x /\ 4 - 3 = 1 /\ 5 - 3 = 2
      OBVIOUS
    <3>5. \A i \in 1..5 : i = 1 \/ i = 2 \/ i = 3 \/ i = 4 \/ i = 5
      OBVIOUS
    <3>6. all[1] = a /\ all[2] = b /\ all[3] = c /\ all[4] = d /\ all[5] = x
      OBVIOUS
    <3>7. (p \o q \o r)[4] = d /\ (p \o q \o r)[5] = x
      <4>1. 4 \in 4..5 /\ 5 \in 4..5
        OBVIOUS
      <4> HIDE DEF p, q, r
      <4> QED
        BY <3>3, <3>4, <4>1
    <3>8. (p \o q \o r)[1] = a /\ (p \o q \o r)[2] = b /\ (p \o q \o r)[3] = c
      <4>1. 1 \in 1..3 /\ 2 \in 1..3 /\ 3 \in 1..3
        OBVIOUS
      <4> HIDE DEF p, q, r
      <4> QED
        BY <3>2, <3>3, <4>1
    <3> HIDE DEF p, q, r, all
    <3> QED
      BY <3>5, <3>6, <3>7, <3>8
  <2> HIDE DEF p, q, r, all
  <2> QED
    BY <1>1, <2>1, <2>2, SeqEqual
<1>3. /\ Quiet(p, f) <=> ~Touches(a, f)
      /\ Quiet(q, f) <=> ~Touches(b, f) /\ ~Touches(c, f)
      /\ Quiet(r, f) <=> ~Touches(d, f) /\ ~Touches(x, f)
  BY QuietFew
<1>4. ASSUME NEW e
      PROVE  Leads(all, f, e, Result(x, f, Result(d, f, Result(c, f, Result(b, f, Result(a, f, e))))))
  <2> DEFINE s == Result(a, f, e)
             t == Result(c, f, Result(b, f, s))
             u == Result(x, f, Result(d, f, t))
  <2>1. Leads(p, f, e, s)
    BY LeadsOne
  <2>2. Leads(q, f, s, t)
    <3> HIDE DEF s
    <3> QED
      BY LeadsTwo
  <2>3. Leads(r, f, t, u)
    <3> HIDE DEF t
    <3> QED
      BY LeadsTwo
  <2> HIDE DEF p, q, r, all, s, t, u
  <2>4. Leads(p \o q \o r, f, e, u)
    BY <1>1, <2>1, <2>2, <2>3, InARow
  <2> QED
    BY <1>2, <2>4 DEF u, t, s
<1> HIDE DEF p, q, r, all
<1>5. Quiet(p \o q \o r, f) <=> Quiet(p, f) /\ Quiet(q, f) /\ Quiet(r, f)
  BY <1>1, InARow
<1> QED
  BY <1>1, <1>2, <1>3, <1>4, <1>5 DEF all

LEMMA MemberCallFunctions ==
    ASSUME NEW g \in Guilds, NEW u \in Users, NEW v \in Looks, NEW f \in Tracked
    PROVE  /\ f # Member(g, u) => Quiet(CacheMember(g, u, v), f) /\ Quiet(UpdateMember(g, u, v), f)
           /\ f = Member(g, u) => \A e : /\ Leads(CacheMember(g, u, v), f, e, Stored(e, v))
                                         /\ Leads(CacheBorrowedMember(g, u, v), f, e, Stored(e, v))
                                         /\ Leads(UpdateMember(g, u, v), f, e, Revised(e, v))
           /\ f # Member(g, u) => Quiet(CacheBorrowedMember(g, u, v), f)
<1> DEFINE o == Member(g, u)
           put == Call("cache_member", g, u, v)
           borrowed == Call("cache_borrowed_member", g, u, v)
           update == Call("update_member", g, u, v)
<1>1. Touches(put, f) <=> f = o
  BY CallTouching DEF MemberCalls
<1>2. Touches(borrowed, f) <=> f = o
  BY CallTouching DEF MemberCalls
<1>3. Touches(update, f) <=> f = o
  BY CallTouching DEF MemberCalls
<1>4. \A e : Result(put, f, e) = IF f = o THEN Stored(e, v) ELSE e
  BY CallResults
<1>5. \A e : Result(borrowed, f, e) = IF f = o THEN Stored(e, v) ELSE e
  BY CallResults
<1>6. \A e : Result(update, f, e) = IF f = o THEN Revised(e, v) ELSE e
  BY CallResults
<1>7. /\ CacheMember(g, u, v) = <<put>> /\ CacheBorrowedMember(g, u, v) = <<borrowed>>
      /\ UpdateMember(g, u, v) = <<update>>
  BY DEF CacheMember, CacheBorrowedMember, UpdateMember
<1> HIDE DEF o, put, borrowed, update
<1>8. f # o => /\ Quiet(CacheMember(g, u, v), f) /\ Quiet(UpdateMember(g, u, v), f)
               /\ Quiet(CacheBorrowedMember(g, u, v), f)
  BY <1>1, <1>2, <1>3, <1>7, QuietFew
<1>9. ASSUME f = o, NEW e
      PROVE  /\ Leads(CacheMember(g, u, v), f, e, Stored(e, v))
             /\ Leads(CacheBorrowedMember(g, u, v), f, e, Stored(e, v))
             /\ Leads(UpdateMember(g, u, v), f, e, Revised(e, v))
  <2>1. /\ Leads(<<put>>, f, e, Result(put, f, e)) /\ Leads(<<borrowed>>, f, e, Result(borrowed, f, e))
        /\ Leads(<<update>>, f, e, Result(update, f, e))
    BY LeadsOne
  <2> QED
    BY <1>4, <1>5, <1>6, <1>7, <1>9, <2>1
<1> QED
  BY <1>8, <1>9 DEF o

LEMMA CountCalls ==
    ASSUME NEW f, NEW g
    PROVE  /\ \A e : /\ Result(Call("count_up", g, None, None), f, e) = IF f = Guild(g) THEN Joined(e) ELSE e
                     /\ Result(Call("count_down", g, None, None), f, e) = IF f = Guild(g) THEN Left(e) ELSE e
                     /\ Result(Call("mark_unavailable", g, None, None), f, e) = IF f = Guild(g)
                                                                                THEN Down(e) ELSE e
                     /\ Result(Call("update_guild", g, None, None), f, e) = e
           /\ Touches(Call("count_up", g, None, None), f) <=> f = Guild(g)
           /\ Touches(Call("count_down", g, None, None), f) <=> f = Guild(g)
           /\ Touches(Call("mark_unavailable", g, None, None), f) <=> f = Guild(g)
           /\ Touches(Call("update_guild", g, None, None), f) <=> f = Guild(g)
<1>1. ASSUME NEW e
      PROVE  /\ Result(Call("count_up", g, None, None), f, e) = IF f = Guild(g) THEN Joined(e) ELSE e
             /\ Result(Call("count_down", g, None, None), f, e) = IF f = Guild(g) THEN Left(e) ELSE e
  BY GuildCallResults
<1>2. ASSUME NEW e
      PROVE  /\ Result(Call("mark_unavailable", g, None, None), f, e) = IF f = Guild(g) THEN Down(e) ELSE e
             /\ Result(Call("update_guild", g, None, None), f, e) = e
  BY GuildCallResults
<1> QED
  BY <1>1, <1>2, GuildCallTouching DEF Counts

LEMMA MemberFunctions ==
    ASSUME NEW g \in Guilds, NEW u \in Users, NEW v \in Looks, NEW f \in Tracked
    PROVE  /\ f # Member(g, u) /\ f # Guild(g) => Quiet(AddMember(g, u, v), f) /\ Quiet(RemoveMember(g, u), f)
           /\ f = Member(g, u) => \A e : /\ Leads(AddMember(g, u, v), f, e, Stored(e, v))
                                         /\ Leads(RemoveMember(g, u), f, e, Holds(None, "unlisted"))
           /\ f = Guild(g) => \A e : /\ Leads(AddMember(g, u, v), f, e, Joined(e))
                                     /\ Leads(RemoveMember(g, u), f, e, Left(e))
<1> DEFINE o == Member(g, u)
           up == Call("count_up", g, None, None)
           down == Call("count_down", g, None, None)
           gone == HDel({o})
           unlist == SRem(GuildMembers(g), {u})
           untrack == SRem(UserGuilds(u), {g})
           rest == Call("remove_user_in_no_guild", g, u, None)
<1>0. f = o => f # Guild(g)
  BY DEF Member, Guild
<1>1. /\ Touches(gone, f) <=> f = o
      /\ Touches(unlist, f) <=> f = o
      /\ ~Touches(untrack, f) /\ ~Touches(rest, f)
  BY MemberCommandsInKey, UsersQuiet, CallTouching
<1>2. /\ Touches(up, f) <=> f = Guild(g)
      /\ Touches(down, f) <=> f = Guild(g)
  BY CountCalls
<1>14. \A e : /\ Result(up, f, e) = IF f = Guild(g) THEN Joined(e) ELSE e
              /\ Result(down, f, e) = IF f = Guild(g) THEN Left(e) ELSE e
  BY CountCalls
<1>3. /\ up \in Command /\ down \in Command /\ gone \in Command /\ unlist \in Command
      /\ untrack \in Command /\ rest \in Command
  BY MemberRemovalCommands, HarmlessReads, HarmlessIsCommand DEF GuildCalls
<1>4. CacheMember(g, u, v) \in Seq(Command)
  BY HarmlessMembers, HarmlessIsCommand
<1>5. /\ AddMember(g, u, v) = <<up>> \o CacheMember(g, u, v)
      /\ RemoveMember(g, u) = <<down, gone, unlist, untrack, rest>>
  BY DEF AddMember, RemoveMember
<1>6. ASSUME f = o, NEW e PROVE Result(unlist, f, Result(gone, f, e)) = Holds(None, "unlisted")
  BY <1>1, <1>6 DEF Result, Effect, WriteEffect, HDel, SRem, Holds
<1>7. \A e : f # o => Result(unlist, f, Result(gone, f, e)) = e
  BY <1>1 DEF Result
<1>8. \A e : Result(rest, f, Result(untrack, f, e)) = e
  BY <1>1 DEF Result
<1> HIDE DEF o, up, down, gone, unlist, untrack, rest
<1>9. ASSUME NEW e
      PROVE  Leads(RemoveMember(g, u), f, e, IF f = o THEN Holds(None, "unlisted")
                                             ELSE IF f = Guild(g) THEN Left(e) ELSE e)
  <2>1. Leads(<<down, gone, unlist, untrack, rest>>, f, e,
           Result(rest, f, Result(untrack, f, Result(unlist, f, Result(gone, f, Result(down, f, e))))))
    BY <1>3, LeadsFive
  <2> QED
    BY <1>0, <1>14, <1>5, <1>6, <1>7, <1>8, <2>1
<1>10. Quiet(RemoveMember(g, u), f) <=> f # o /\ f # Guild(g)
  BY <1>1, <1>2, <1>3, <1>5, LeadsFive
<1>11. <<up>> \in Seq(Command)
  BY <1>3
<1>12. f # o /\ f # Guild(g) => Quiet(AddMember(g, u, v), f)
  <2>1. Quiet(<<up>> \o CacheMember(g, u, v), f) <=> Quiet(<<up>>, f) /\ Quiet(CacheMember(g, u, v), f)
    BY <1>4, <1>11, QuietAppend
  <2>2. f # Guild(g) => Quiet(<<up>>, f)
    BY <1>2, QuietFew
  <2>3. f # o => Quiet(CacheMember(g, u, v), f)
    BY MemberCallFunctions DEF o
  <2> QED
    BY <1>5, <2>1, <2>2, <2>3
<1>13. ASSUME NEW e
       PROVE  /\ f = o => Leads(AddMember(g, u, v), f, e, Stored(e, v))
              /\ f = Guild(g) => Leads(AddMember(g, u, v), f, e, Joined(e))
  <2>1. Leads(<<up>>, f, e, Result(up, f, e))
    BY LeadsOne
  <2>2. ASSUME f = o PROVE Leads(CacheMember(g, u, v), f, e, Stored(e, v))
    BY <2>2, MemberCallFunctions DEF o
  <2>3. ASSUME f # o PROVE Leads(CacheMember(g, u, v), f, Joined(e), Joined(e))
    BY <1>4, <2>3, MemberCallFunctions, QuietLeads DEF o
  <2>4. ASSUME f = o PROVE Leads(<<up>> \o CacheMember(g, u, v), f, e, Stored(e, v))
    <3>1. Leads(<<up>>, f, e, e)
      BY <1>0, <1>14, <2>1, <2>4
    <3> QED
      BY <1>4, <1>11, <2>2, <2>4, <3>1, LeadsAppend
  <2>5. ASSUME f = Guild(g) PROVE Leads(<<up>> \o CacheMember(g, u, v), f, e, Joined(e))
    <3>1. Leads(<<up>>, f, e, Joined(e))
      BY <1>14, <2>1, <2>5
    <3> QED
      BY <1>0, <1>4, <1>11, <2>3, <2>5, <3>1, LeadsAppend
  <2> QED
    BY <1>5, <2>4, <2>5
<1> QED
  BY <1>0, <1>9, <1>10, <1>12, <1>13 DEF o

LEMMA MentionedLeads ==
    ASSUME WorldTypeOK, NEW g \in Guilds, NEW u \in Users, NEW f \in Tracked
    PROVE  /\ Mentioned(g, u) \in Seq(Command)
           /\ f # Member(g, u) \/ u \notin MembersOf(g) => Quiet(Mentioned(g, u), f)
           /\ f = Member(g, u) /\ u \in MembersOf(g) =>
                 \A e : Leads(Mentioned(g, u), f, e, Stored(e, joined[<<g, u>>]))
<1> DEFINE v == joined[<<g, u>>]
           first == CacheUser(u, g)
           then == IF u \in MembersOf(g) THEN CacheBorrowedMember(g, u, v) ELSE <<>>
<1>1. u \in MembersOf(g) => v \in Looks
  BY MemberOf
<1>2. first \in Seq(Command) /\ Quiet(first, f)
  BY HarmlessUsers, HarmlessIsCommand, UsersQuiet
<1>3. then \in Seq(Command)
  BY <1>1, MemberCommands, CommandSeries DEF CacheBorrowedMember
<1>4. f # Member(g, u) \/ u \notin MembersOf(g) => Quiet(then, f)
  BY <1>1, MemberCallFunctions, QuietFew
<1>5. ASSUME f = Member(g, u), u \in MembersOf(g), NEW e PROVE Leads(then, f, e, Stored(e, v))
  BY <1>1, <1>5, MemberCallFunctions
<1>6. Mentioned(g, u) = first \o then
  BY DEF Mentioned
<1> HIDE DEF v, first, then
<1>7. Quiet(first \o then, f) <=> Quiet(first, f) /\ Quiet(then, f)
  BY <1>2, <1>3, QuietAppend
<1>8. ASSUME f = Member(g, u), u \in MembersOf(g), NEW e PROVE Leads(first \o then, f, e, Stored(e, v))
  <2>1. Leads(first, f, e, e) /\ Leads(then, f, e, Stored(e, v))
    BY <1>2, <1>5, <1>8, QuietLeads
  <2> QED
    BY <1>2, <1>3, <2>1, LeadsAppend
<1> QED
  BY <1>2, <1>3, <1>4, <1>6, <1>7, <1>8, CommandSequences DEF v
\* What delete_guild leaves of an object of the guild.
Deleted(f, e) == IF f[1] = "members" THEN Emptied(e) ELSE Cleared(e)

LEMMA DeleteGuildLeads ==
    ASSUME NEW g \in Guilds, NEW f \in Tracked
    PROVE  /\ HomeOf(f) # g => Quiet(DeleteGuild(g, TRUE), f) /\ Quiet(DeleteGuild(g, FALSE), f)
           /\ HomeOf(f) = g /\ f[1] # "guilds" => \A e : /\ Leads(DeleteGuild(g, TRUE), f, e, Deleted(f, e))
                                                         /\ Leads(DeleteGuild(g, FALSE), f, e, Deleted(f, e))
           /\ f = Guild(g) => \A e : /\ Leads(DeleteGuild(g, TRUE), f, e, Down(e))
                                     /\ Leads(DeleteGuild(g, FALSE), f, e, Holds(None, e.mark))
<1> DEFINE mark == Call("mark_unavailable", g, None, None)
           drop == HDel({Guild(g)})
           channels == Call("remove_channels", g, None, None)
           emojis == Call("remove_emojis", g, None, None)
           roles == Call("remove_roles", g, None, None)
           members == Call("remove_members", g, None, None)
           rest(e) == Result(members, f, Result(roles, f, Result(emojis, f, Result(channels, f, e))))
<1>1. /\ DeleteGuild(g, TRUE) = <<mark, channels, emojis, roles, members>>
      /\ DeleteGuild(g, FALSE) = <<drop, channels, emojis, roles, members>>
  BY DEF DeleteGuild
<1>2. /\ mark \in Command /\ drop \in Command /\ channels \in Command /\ emojis \in Command
      /\ roles \in Command /\ members \in Command
  <2>1. Guild(g) \in GuildFields
    BY DEF Guild, GuildFields
  <2> QED
    BY <2>1, HarmlessReads, HarmlessWrites, HarmlessIsCommand DEF GuildCalls
<1>3. /\ Touches(mark, f) <=> f = Guild(g)
      /\ Touches(drop, f) <=> f = Guild(g)
  <2>1. Touches(mark, f) <=> f = Guild(g)
    BY CountCalls
  <2>2. Touches(drop, f) <=> f \in {Guild(g)}
    BY WriteTouching
  <2> QED
    BY <2>1, <2>2
<1>4. /\ Touches(channels, f) <=> f[1] = "channels" /\ HomeOf(f) = g
      /\ Touches(emojis, f) <=> f[1] = "emojis" /\ HomeOf(f) = g
      /\ Touches(roles, f) <=> f[1] = "roles" /\ HomeOf(f) = g
      /\ Touches(members, f) <=> f[1] = "members" /\ HomeOf(f) = g
  BY GuildCallTouching DEF Removals, Kind
<1>5. f = Guild(g) <=> f[1] = "guilds" /\ HomeOf(f) = g
  BY KindsApart, FieldCases
<1>6. ASSUME NEW e
      PROVE  /\ Result(mark, f, e) = IF f = Guild(g) THEN Down(e) ELSE e
             /\ Result(drop, f, e) = IF f = Guild(g) THEN Holds(None, e.mark) ELSE e
  <2>1. Result(mark, f, e) = IF f = Guild(g) THEN Down(e) ELSE e
    BY GuildCallResults
  <2>2. Result(drop, f, e) = IF f = Guild(g) THEN Holds(None, e.mark) ELSE e
    BY <1>3 DEF Result, Effect, WriteEffect, HDel
  <2> QED
    BY <2>1, <2>2
<1>7. /\ \A e : Result(channels, f, e) = IF f[1] = "channels" /\ HomeOf(f) = g THEN Cleared(e) ELSE e
      /\ \A e : Result(emojis, f, e) = IF f[1] = "emojis" /\ HomeOf(f) = g THEN Cleared(e) ELSE e
      /\ \A e : Result(roles, f, e) = IF f[1] = "roles" /\ HomeOf(f) = g THEN Cleared(e) ELSE e
      /\ \A e : Result(members, f, e) = IF f[1] = "members" /\ HomeOf(f) = g THEN Emptied(e) ELSE e
  <2>1. \A e : /\ Effect(channels, f, e) = Cleared(e) /\ Effect(emojis, f, e) = Cleared(e)
               /\ Effect(roles, f, e) = Cleared(e) /\ Effect(members, f, e) = Emptied(e)
    BY DEF Effect, ReadEffect, Call
  <2> HIDE DEF channels, emojis, roles, members
  <2> QED
    BY <1>4, <2>1 DEF Result
<1> HIDE DEF mark, drop, channels, emojis, roles, members
<1>8. ASSUME NEW e
      PROVE  /\ HomeOf(f) = g /\ f[1] # "guilds" => rest(e) = Deleted(f, e)
             /\ f = Guild(g) => rest(e) = e
  <2>1. f[1] \in {"channels", "emojis", "roles", "members", "guilds"}
    BY FieldCases
  <2> QED
    BY <1>5, <1>7, <2>1 DEF Deleted
<1>9. ASSUME NEW e
      PROVE  /\ Leads(DeleteGuild(g, TRUE), f, e, rest(Result(mark, f, e)))
             /\ Leads(DeleteGuild(g, FALSE), f, e, rest(Result(drop, f, e)))
  <2>1. Leads(<<mark, channels, emojis, roles, members>>, f, e, rest(Result(mark, f, e)))
    BY <1>2, LeadsFive
  <2>2. Leads(<<drop, channels, emojis, roles, members>>, f, e, rest(Result(drop, f, e)))
    BY <1>2, LeadsFive
  <2> QED
    BY <1>1, <2>1, <2>2
<1>10. HomeOf(f) # g => Quiet(DeleteGuild(g, TRUE), f) /\ Quiet(DeleteGuild(g, FALSE), f)
  <2>1. Quiet(<<mark, channels, emojis, roles, members>>, f) <=>
           /\ ~Touches(mark, f) /\ ~Touches(channels, f) /\ ~Touches(emojis, f)
           /\ ~Touches(roles, f) /\ ~Touches(members, f)
    BY <1>2, LeadsFive
  <2>2. Quiet(<<drop, channels, emojis, roles, members>>, f) <=>
           /\ ~Touches(drop, f) /\ ~Touches(channels, f) /\ ~Touches(emojis, f)
           /\ ~Touches(roles, f) /\ ~Touches(members, f)
    BY <1>2, LeadsFive
  <2> QED
    BY <1>1, <1>3, <1>4, <1>5, <2>1, <2>2
<1> HIDE DEF rest
<1>11. ASSUME HomeOf(f) = g, f[1] # "guilds", NEW e
       PROVE  /\ Leads(DeleteGuild(g, TRUE), f, e, Deleted(f, e))
              /\ Leads(DeleteGuild(g, FALSE), f, e, Deleted(f, e))
  BY <1>5, <1>6, <1>8, <1>9, <1>11
<1>12. ASSUME f = Guild(g), NEW e
       PROVE  /\ Leads(DeleteGuild(g, TRUE), f, e, Down(e))
              /\ Leads(DeleteGuild(g, FALSE), f, e, Holds(None, e.mark))
  BY <1>6, <1>8, <1>9, <1>12
<1> QED
  BY <1>10, <1>11, <1>12

LEMMA UnavailableGuildLeads ==
    ASSUME NEW g \in Guilds, NEW f \in Tracked
    PROVE  /\ HomeOf(f) # g => Quiet(UnavailableGuild(g), f)
           /\ HomeOf(f) = g => \A e : Leads(UnavailableGuild(g), f, e, Outage(f, e))
<1> DEFINE list == SAdd(UnavailableGuilds, g)
           rest == DeleteGuild(g, TRUE)
<1>1. UnavailableGuild(g) = <<list>> \o rest
  BY DEF UnavailableGuild
<1>2. <<list>> \in Seq(Command) /\ rest \in Seq(Command)
  <2>1. list \in Command
    <3>1. UnavailableGuilds \in Key /\ g \in IdsOf(UnavailableGuilds)
      BY DEF UnavailableGuilds, Key, IdsOf
    <3> QED
      BY <3>1, HarmlessWrites, HarmlessIsCommand
  <2>2. <<list>> \in Seq(Command)
    BY <2>1, CommandSeries
  <2> QED
    BY <2>2, HarmlessGuilds, HarmlessIsCommand
<1>3. f = Guild(g) <=> f[1] = "guilds" /\ HomeOf(f) = g
  BY KindsApart, FieldCases
<1>4. Touches(list, f) <=> f = Guild(g)
  BY <1>3, WriteTouching, KeysApart, FieldCases
<1>5. \A e : Result(list, f, e) = IF f = Guild(g) THEN Holds(e.value, "listed") ELSE e
  BY <1>4 DEF Result, Effect, WriteEffect, SAdd
<1> HIDE DEF list, rest
<1>6. Quiet(<<list>> \o rest, f) <=> Quiet(<<list>>, f) /\ Quiet(rest, f)
  BY <1>2, QuietAppend
<1>7. HomeOf(f) # g => Quiet(<<list>>, f) /\ Quiet(rest, f)
  BY <1>3, <1>4, QuietFew, DeleteGuildLeads DEF rest
<1>8. ASSUME HomeOf(f) = g, NEW e PROVE Leads(<<list>> \o rest, f, e, Outage(f, e))
  <2>1. Leads(<<list>>, f, e, Result(list, f, e))
    BY LeadsOne
  <2>2. CASE f[1] = "guilds"
    <3> DEFINE s == Holds(e.value, "listed")
    <3>1. Result(list, f, e) = s
      BY <1>3, <1>5, <1>8, <2>2
    <3>2. Down(s) = Outage(f, e)
      <4>1. s.value = e.value /\ s.mark = "listed"
        BY DEF Holds
      <4>2. e.value = None => s = Holds(None, "listed")
        OBVIOUS
      <4>3. Outage(f, e) = Holds(IF e.value = None THEN None
                                 ELSE [e.value EXCEPT !.unavailable = TRUE], "listed")
        BY <2>2 DEF Outage
      <4> HIDE DEF s
      <4> QED
        BY <4>1, <4>2, <4>3 DEF Down, Revised
    <3> HIDE DEF s
    <3>3. Leads(rest, f, s, Down(s))
      BY <1>3, <1>8, <2>2, DeleteGuildLeads DEF rest
    <3>4. Leads(<<list>>, f, e, s)
      BY <2>1, <3>1
    <3> QED
      BY <1>2, <3>2, <3>3, <3>4, LeadsAppend
  <2>3. CASE f[1] # "guilds"
    <3>1. Leads(<<list>>, f, e, e)
      BY <1>3, <1>5, <2>1, <2>3
    <3>2. Leads(rest, f, e, Deleted(f, e))
      BY <1>8, <2>3, DeleteGuildLeads DEF rest
    <3>3. Deleted(f, e) = Outage(f, e)
      BY <2>3 DEF Deleted, Outage
    <3> QED
      BY <1>2, <3>1, <3>2, <3>3, LeadsAppend
  <2> QED
    BY <2>2, <2>3
<1> QED
  BY <1>1, <1>6, <1>7, <1>8

LEMMA UpdateGuildLeads ==
    ASSUME NEW g \in Guilds, NEW f \in Tracked
    PROVE  /\ HomeOf(f) # g => Quiet(UpdateGuild(g), f)
           /\ \A e : Leads(UpdateGuild(g), f, e, e)
<1> DEFINE c == Call("update_guild", g, None, None)
<1>1. UpdateGuild(g) = <<c>>
  BY DEF UpdateGuild
<1>2. Touches(c, f) <=> f = Guild(g)
  BY CountCalls
<1>3. \A e : Result(c, f, e) = e
  BY CountCalls
<1>4. f = Guild(g) => HomeOf(f) = g
  BY KindsApart, FieldCases
<1> HIDE DEF c
<1>5. ASSUME NEW e PROVE Leads(<<c>>, f, e, e)
  <2>1. Leads(<<c>>, f, e, Result(c, f, e))
    BY LeadsOne
  <2> QED
    BY <1>3, <2>1
<1> QED
  BY <1>1, <1>2, <1>4, <1>5, QuietFew

\* Six series in a row.
LEMMA SixInARow ==
    ASSUME NEW a \in Seq(Command), NEW b \in Seq(Command), NEW c \in Seq(Command),
           NEW d \in Seq(Command), NEW x \in Seq(Command), NEW y \in Seq(Command), NEW f
    PROVE  /\ Quiet(a, f) /\ Quiet(b, f) /\ Quiet(c, f) /\ Quiet(d, f) /\ Quiet(x, f) /\ Quiet(y, f)
                 => Quiet(a \o b \o c \o d \o x \o y, f)
           /\ \A s, t, u, v, w, z, last :
                 Leads(a, f, s, t) /\ Leads(b, f, t, u) /\ Leads(c, f, u, v)
                 /\ Leads(d, f, v, w) /\ Leads(x, f, w, z) /\ Leads(y, f, z, last)
                 => Leads(a \o b \o c \o d \o x \o y, f, s, last)
<1> DEFINE p == a \o b \o c
           q == p \o d \o x
<1>1. p \in Seq(Command)
  OBVIOUS
<1>2. q \in Seq(Command)
  <2> HIDE DEF p
  <2> QED
    BY <1>1
<1>3. a \o b \o c \o d \o x \o y = q \o y
  OBVIOUS
<1>4. ASSUME Quiet(a, f), Quiet(b, f), Quiet(c, f), Quiet(d, f), Quiet(x, f), Quiet(y, f)
      PROVE  Quiet(q \o y, f)
  <2>1. Quiet(p, f)
    BY <1>4, InARow
  <2>2. Quiet(q, f)
    <3> HIDE DEF p
    <3> QED
      BY <1>1, <1>4, <2>1, InARow
  <2> HIDE DEF q
  <2> QED
    BY <1>2, <1>4, <2>2, QuietAppend
<1>5. ASSUME NEW s, NEW t, NEW u, NEW v, NEW w, NEW z, NEW last,
             Leads(a, f, s, t), Leads(b, f, t, u), Leads(c, f, u, v),
             Leads(d, f, v, w), Leads(x, f, w, z), Leads(y, f, z, last)
      PROVE  Leads(q \o y, f, s, last)
  <2>1. Leads(p, f, s, v)
    BY <1>5, InARow
  <2>2. Leads(q, f, s, z)
    <3> HIDE DEF p
    <3> QED
      BY <1>1, <1>5, <2>1, InARow
  <2> HIDE DEF q
  <2> QED
    BY <1>2, <1>5, <2>2, LeadsAppend
<1> QED
  BY <1>3, <1>4, <1>5
\* What the loops make of an entry.
LEMMA ChannelLoop ==
    ASSUME NEW g, NEW items, NEW f
    PROVE  /\ ~(f[1] = "channels" /\ Gives(items, f[2])) => Quiet(Loop("cache_channel", g, items), f)
           /\ \A e : Leads(Loop("cache_channel", g, items), f, e,
                        IF f[1] = "channels" /\ Gives(items, f[2])
                        THEN Holds(LookOf(items, f[2]), "listed") ELSE e)
<1> DEFINE c == EachCall("cache_channel", g, items)
           loop == Loop("cache_channel", g, items)
<1>1. (~Touches(c, f) => Quiet(loop, f)) /\ \A e : Leads(loop, f, e, Result(c, f, e))
  BY LoopLeads
<1>2. Touches(c, f) <=> f[1] = "channels" /\ Gives(items, f[2])
  BY EachTouching
<1>3. ASSUME NEW e
      PROVE  Result(c, f, e) = IF f[1] = "channels" /\ Gives(items, f[2])
                               THEN Holds(LookOf(items, f[2]), "listed") ELSE e
  BY EachResults
<1> HIDE DEF c, loop
<1> QED
  BY <1>1, <1>2, <1>3 DEF loop

LEMMA RoleLoop ==
    ASSUME NEW g, NEW items, NEW f
    PROVE  /\ ~(f[1] = "roles" /\ Gives(items, f[2])) => Quiet(Loop("cache_role", g, items), f)
           /\ \A e : Leads(Loop("cache_role", g, items), f, e,
                        IF f[1] = "roles" /\ Gives(items, f[2])
                        THEN Holds(LookOf(items, f[2]), "listed") ELSE e)
<1> DEFINE c == EachCall("cache_role", g, items)
           loop == Loop("cache_role", g, items)
<1>1. (~Touches(c, f) => Quiet(loop, f)) /\ \A e : Leads(loop, f, e, Result(c, f, e))
  BY LoopLeads
<1>2. Touches(c, f) <=> f[1] = "roles" /\ Gives(items, f[2])
  BY EachTouching
<1>3. ASSUME NEW e
      PROVE  Result(c, f, e) = IF f[1] = "roles" /\ Gives(items, f[2])
                               THEN Holds(LookOf(items, f[2]), "listed") ELSE e
  BY EachResults
<1> HIDE DEF c, loop
<1> QED
  BY <1>1, <1>2, <1>3 DEF loop

LEMMA EmojiLoop ==
    ASSUME NEW g, NEW items, NEW f
    PROVE  /\ ~(f[1] = "emojis" /\ Gives(items, f[2])) => Quiet(Loop("cache_emoji", g, items), f)
           /\ \A e : Leads(Loop("cache_emoji", g, items), f, e,
                        IF f[1] = "emojis" /\ Gives(items, f[2]) THEN Stored(e, LookOf(items, f[2])) ELSE e)
<1> DEFINE c == EachCall("cache_emoji", g, items)
           loop == Loop("cache_emoji", g, items)
<1>1. (~Touches(c, f) => Quiet(loop, f)) /\ \A e : Leads(loop, f, e, Result(c, f, e))
  BY LoopLeads
<1>2. Touches(c, f) <=> f[1] = "emojis" /\ Gives(items, f[2])
  BY EachTouching
<1>3. ASSUME NEW e
      PROVE  Result(c, f, e) = IF f[1] = "emojis" /\ Gives(items, f[2])
                               THEN Stored(e, LookOf(items, f[2])) ELSE e
  BY EachResults
<1> HIDE DEF c, loop
<1> QED
  BY <1>1, <1>2, <1>3 DEF loop

LEMMA MemberLoop ==
    ASSUME NEW g, NEW items, NEW f
    PROVE  /\ ~(f[1] = "members" /\ f[2][1] = g /\ Gives(items, f[2][2])) =>
                  Quiet(Loop("cache_member", g, items), f)
           /\ \A e : Leads(Loop("cache_member", g, items), f, e,
                        IF f[1] = "members" /\ f[2][1] = g /\ Gives(items, f[2][2])
                        THEN Stored(e, LookOf(items, f[2][2])) ELSE e)
<1> DEFINE c == EachCall("cache_member", g, items)
           loop == Loop("cache_member", g, items)
<1>1. (~Touches(c, f) => Quiet(loop, f)) /\ \A e : Leads(loop, f, e, Result(c, f, e))
  BY LoopLeads
<1>2. Touches(c, f) <=> f[1] = "members" /\ f[2][1] = g /\ Gives(items, f[2][2])
  BY EachTouching
<1>3. ASSUME NEW e
      PROVE  Result(c, f, e) = IF f[1] = "members" /\ f[2][1] = g /\ Gives(items, f[2][2])
                               THEN Stored(e, LookOf(items, f[2][2])) ELSE e
  BY EachResults
<1> HIDE DEF c, loop
<1> QED
  BY <1>1, <1>2, <1>3 DEF loop

LEMMA GuildLoop ==
    ASSUME NEW g, NEW items, NEW f
    PROVE  /\ ~(Gives(items, HomeOf(f))) => Quiet(Loop("unavailable_guild", g, items), f)
           /\ \A e : Leads(Loop("unavailable_guild", g, items), f, e,
                        IF Gives(items, HomeOf(f)) THEN Outage(f, e) ELSE e)
<1> DEFINE c == EachCall("unavailable_guild", g, items)
           loop == Loop("unavailable_guild", g, items)
<1>1. (~Touches(c, f) => Quiet(loop, f)) /\ \A e : Leads(loop, f, e, Result(c, f, e))
  BY LoopLeads
<1>2. Touches(c, f) <=> Gives(items, HomeOf(f))
  BY EachTouching
<1>3. ASSUME NEW e PROVE Result(c, f, e) = IF Gives(items, HomeOf(f)) THEN Outage(f, e) ELSE e
  BY EachResults
<1> HIDE DEF c, loop
<1> QED
  BY <1>1, <1>2, <1>3 DEF loop

\* What cache_guild makes of an entry.
Made(guild, f, e) ==
    CASE f[1] = "channels" -> Holds(IF Gives(guild.channels, f[2])
                                    THEN LookOf(guild.channels, f[2]) ELSE e.value,
                                    IF Gives(guild.channels, f[2]) THEN "listed" ELSE "unlisted")
      [] f[1] = "roles"    -> IF Gives(guild.roles, f[2])
                              THEN Holds(LookOf(guild.roles, f[2]), "listed") ELSE e
      [] f[1] = "emojis"   -> IF Gives(guild.emojis, f[2]) THEN Stored(e, LookOf(guild.emojis, f[2]))
                              ELSE Removed(e)
      [] f[1] = "members"  -> IF Gives(guild.members, f[2][2])
                              THEN Stored(e, LookOf(guild.members, f[2][2])) ELSE e
      [] OTHER             -> Holds([member_count |-> guild.member_count, unavailable |-> FALSE], "unlisted")

LEMMA CacheGuildLeads ==
    ASSUME NEW g \in Guilds, NEW guild \in GuildList(g), NEW f \in Tracked
    PROVE  /\ HomeOf(f) # g => Quiet(CacheGuild(g, guild), f)
           /\ HomeOf(f) = g => \A e : Leads(CacheGuild(g, guild), f, e, Made(guild, f, e))
<1> DEFINE wipe == Del(GuildChannels(g))
           first == <<wipe>>
           channels == Loop("cache_channel", g, guild.channels)
           emojis == CacheEmojis(g, guild.emojis)
           members == Loop("cache_member", g, guild.members)
           roles == Loop("cache_role", g, guild.roles)
           back == SRem(UnavailableGuilds, {g})
           record == [member_count |-> guild.member_count, unavailable |-> FALSE]
           put == HSet(Guild(g), record)
           last == <<back, put>>
<1>1. CacheGuild(g, guild) = first \o channels \o emojis \o members \o roles \o last
  BY DEF CacheGuild
<1>2. /\ guild.channels \in Lists(At(g, Channels), Looks) /\ guild.emojis \in Lists(At(g, Emojis), Looks)
      /\ guild.members \in Lists(Users, Looks) /\ guild.roles \in Lists(At(g, Roles), Looks)
      /\ record \in CachedGuild
  BY DEF GuildList, CachedGuild
<1>3. first \in Seq(Command) /\ last \in Seq(Command) /\ back \in Command /\ put \in Command
  <2>1. /\ UnavailableGuilds \in Key \ UserKeys /\ {g} \in SUBSET IdsOf(UnavailableGuilds)
        /\ GuildChannels(g) \in Key \ UserKeys /\ Guild(g) \in GuildFields
    BY DEF UnavailableGuilds, GuildChannels, Key, UserKeys, IdsOf, Guild, GuildFields
  <2>2. wipe \in Harmless /\ back \in Harmless
    BY <2>1, HarmlessWrites
  <2>3. put \in Harmless
    <3> HIDE DEF record
    <3> QED
      BY <1>2, <2>1, HarmlessWrites
  <2> QED
    BY <2>2, <2>3, HarmlessIsCommand, CommandSeries
<1>4. channels \in Seq(Command) /\ emojis \in Seq(Command) /\ members \in Seq(Command)
      /\ roles \in Seq(Command)
  <2>1. /\ channels \in Seq(Harmless) /\ emojis \in Seq(Harmless)
        /\ members \in Seq(Harmless) /\ roles \in Seq(Harmless)
    BY <1>2, HarmlessLoops, HarmlessEmojis
  <2> QED
    BY <2>1, HarmlessIsCommand
<1>5. /\ f[1] = "channels" /\ Gives(guild.channels, f[2]) => HomeOf(f) = g
      /\ f[1] = "roles" /\ Gives(guild.roles, f[2]) => HomeOf(f) = g
  <2>1. ASSUME f[1] = "channels", Gives(guild.channels, f[2]) PROVE HomeOf(f) = g
    <3>1. PICK item \in guild.channels : item[1] = f[2]
      BY <2>1 DEF Gives
    <3>2. f[2] \in At(g, Channels)
      BY <1>2, <3>1, ListParts
    <3> QED
      BY <2>1, <3>2, FieldCases DEF At
  <2>2. ASSUME f[1] = "roles", Gives(guild.roles, f[2]) PROVE HomeOf(f) = g
    <3>1. PICK item \in guild.roles : item[1] = f[2]
      BY <2>2 DEF Gives
    <3>2. f[2] \in At(g, Roles)
      BY <1>2, <3>1, ListParts
    <3> QED
      BY <2>2, <3>2, FieldCases DEF At
  <2> QED
    BY <2>1, <2>2
<1>6. /\ Touches(wipe, f) <=> f[1] = "channels" /\ HomeOf(f) = g
      /\ Touches(back, f) <=> f = Guild(g)
      /\ Touches(put, f) <=> f = Guild(g)
  <2>1. Touches(wipe, f) <=> f[1] = "channels" /\ HomeOf(f) = g
    BY WriteTouching, KeysApart
  <2>2. Touches(back, f) <=> f = Guild(g)
    BY WriteTouching, KeysApart, KindsApart, FieldCases
  <2>3. Touches(put, f) <=> f = Guild(g)
    <3> HIDE DEF record
    <3> QED
      BY WriteTouching
  <2> QED
    BY <2>1, <2>2, <2>3
<1>7. f = Guild(g) <=> f[1] = "guilds" /\ HomeOf(f) = g
  BY KindsApart, FieldCases
<1>8. f[1] = "members" => HomeOf(f) = f[2][1]
  BY FieldCases
<1>9. /\ ~(f[1] = "channels" /\ Gives(guild.channels, f[2])) => Quiet(channels, f)
      /\ \A e : Leads(channels, f, e, IF f[1] = "channels" /\ Gives(guild.channels, f[2])
                                      THEN Holds(LookOf(guild.channels, f[2]), "listed") ELSE e)
  BY ChannelLoop
<1>10. /\ ~(f[1] = "members" /\ f[2][1] = g /\ Gives(guild.members, f[2][2])) => Quiet(members, f)
       /\ \A e : Leads(members, f, e, IF f[1] = "members" /\ f[2][1] = g /\ Gives(guild.members, f[2][2])
                                      THEN Stored(e, LookOf(guild.members, f[2][2])) ELSE e)
  BY MemberLoop
<1>11. /\ ~(f[1] = "roles" /\ Gives(guild.roles, f[2])) => Quiet(roles, f)
       /\ \A e : Leads(roles, f, e, IF f[1] = "roles" /\ Gives(guild.roles, f[2])
                                    THEN Holds(LookOf(guild.roles, f[2]), "listed") ELSE e)
  BY RoleLoop
<1>12. /\ ~(f[1] = "emojis" /\ HomeOf(f) = g) => Quiet(emojis, f)
       /\ \A e : Leads(emojis, f, e, Result(EmojisCall(g, guild.emojis), f, e))
  BY EmojiFunctions
<1>13. \A e : Result(EmojisCall(g, guild.emojis), f, e) =
                IF f[1] = "emojis" /\ HomeOf(f) = g
                THEN IF Gives(guild.emojis, f[2]) THEN Stored(e, LookOf(guild.emojis, f[2])) ELSE Removed(e)
                ELSE e
  <2> DEFINE items == guild.emojis
             c == EmojisCall(g, items)
  <2>1. Touches(c, f) <=> f[1] = "emojis" /\ HomeOf(f) = g
    BY GuildCallTouching
  <2>2. \A e : Effect(c, f, e) = IF Gives(items, f[2]) THEN Stored(e, LookOf(items, f[2])) ELSE Removed(e)
    <3> HIDE DEF items
    <3> QED
      BY DEF Effect, ReadEffect, EmojisCall
  <2> HIDE DEF c
  <2>3. \A e : Result(c, f, e) = IF f[1] = "emojis" /\ HomeOf(f) = g
                                
THEN IF Gives(items, f[2]) THEN Stored(e, LookOf(items, f[2])) ELSE Removed(e)
                                 ELSE e
    BY <2>1, <2>2 DEF Result
  <2> QED
    BY <2>3 DEF c
<1>14. \A e : Leads(first, f, e, Result(wipe, f, e))
  BY LeadsOne
<1>15. \A e : Leads(last, f, e, Result(put, f, Result(back, f, e)))
  <2> HIDE DEF back, put
  <2> QED
    BY <1>3, LeadsTwo
<1>16. ASSUME NEW e
       PROVE  /\ Result(wipe, f, e) = IF f[1] = "channels" /\ HomeOf(f) = g
                                      THEN Holds(e.value, "unlisted") ELSE e
              /\ Result(put, f, Result(back, f, e)) = IF f = Guild(g) THEN Holds(record, "unlisted") ELSE e
  <2>1. Result(wipe, f, e) = IF f[1] = "channels" /\ HomeOf(f) = g THEN Holds(e.value, "unlisted") ELSE e
    BY <1>6 DEF Result, Effect, WriteEffect, Del
  <2>2. Result(back, f, e) = IF f = Guild(g) THEN Holds(e.value, "unlisted") ELSE e
    BY <1>6 DEF Result, Effect, WriteEffect, SRem
  <2>3. \A x : Result(put, f, x) = IF f = Guild(g) THEN Holds(record, x.mark) ELSE x
    <3> HIDE DEF record
    <3> QED
      BY <1>6 DEF Result, Effect, WriteEffect, HSet
  <2> HIDE DEF put, back, record
  <2> QED
    BY <2>1, <2>2, <2>3 DEF Holds
<1> HIDE DEF wipe, first, channels, emojis, members, roles, back, put, last, record
<1>17. HomeOf(f) # g => Quiet(first \o channels \o emojis \o members \o roles \o last, f)
  <2> SUFFICES ASSUME HomeOf(f) # g
               PROVE  Quiet(first \o channels \o emojis \o members \o roles \o last, f)
    OBVIOUS
  <2>1. Quiet(first, f) /\ Quiet(last, f)
    BY <1>6, <1>7, QuietFew DEF first, last
  <2>2. Quiet(channels, f) /\ Quiet(emojis, f) /\ Quiet(members, f) /\ Quiet(roles, f)
    BY <1>5, <1>8, <1>9, <1>10, <1>11, <1>12
  <2> QED
    BY <1>3, <1>4, <2>1, <2>2, SixInARow
<1>18. ASSUME HomeOf(f) = g, NEW e
       PROVE  Leads(first \o channels \o emojis \o members \o roles \o last, f, e, Made(guild, f, e))
  <2> DEFINE made == Made(guild, f, e)
  <2> SUFFICES \E t, u, v, w, z : /\ Leads(first, f, e, t) /\ Leads(channels, f, t, u) /\ Leads(emojis, f, u, v)
                                  /\ Leads(members, f, v, w) /\ Leads(roles, f, w, z)
                                     /\ Leads(last, f, z, made)
    <3>1. \A s, t, u, v, w, z, x :
             Leads(first, f, s, t) /\ Leads(channels, f, t, u) /\ Leads(emojis, f, u, v)
             /\ Leads(members, f, v, w) /\ Leads(roles, f, w, z) /\ Leads(last, f, z, x)
             => Leads(first \o channels \o emojis \o members \o roles \o last, f, s, x)
      BY <1>3, <1>4, SixInARow
    <3>2. made = Made(guild, f, e)
      OBVIOUS
    <3> HIDE DEF made
    <3>3. PICK t, u, v, w, z : /\ Leads(first, f, e, t) /\ Leads(channels, f, t, u) /\ Leads(emojis, f, u, v)
                               /\ Leads(members, f, v, w) /\ Leads(roles, f, w, z) /\ Leads(last, f, z, made)
      OBVIOUS
    <3>4. Leads(first \o channels \o emojis \o members \o roles \o last, f, e, made)
      BY <3>1, <3>3
    <3> QED
      BY <3>2, <3>4
  <2>1. CASE f[1] = "channels"
    <3> DEFINE t == Holds(e.value, "unlisted")
               u == IF Gives(guild.channels, f[2]) THEN Holds(LookOf(guild.channels, f[2]), "listed") ELSE t
    <3>1. Leads(first, f, e, t)
      BY <1>14, <1>16, <1>18, <2>1
    <3>2. made = u
      BY <2>1 DEF Made
    <3> HIDE DEF t, made
    <3>3. Leads(channels, f, t, u)
      BY <1>9, <2>1
    <3> HIDE DEF u
    <3>4. Leads(emojis, f, u, u) /\ Leads(members, f, u, u) /\ Leads(roles, f, u, u)
      BY <1>10, <1>11, <1>12, <1>13, <2>1
    <3>5. Leads(last, f, u, u)
      BY <1>7, <1>15, <1>16, <2>1
    <3> QED
      BY <3>1, <3>2, <3>3, <3>4, <3>5
  <2>2. CASE f[1] = "roles"
    <3>1. made = IF Gives(guild.roles, f[2]) THEN Holds(LookOf(guild.roles, f[2]), "listed") ELSE e
      BY <2>2 DEF Made
    <3> HIDE DEF made
    <3>2. Leads(first, f, e, e) /\ Leads(channels, f, e, e) /\ Leads(emojis, f, e, e)
          /\ Leads(members, f, e, e)
      BY <1>9, <1>10, <1>12, <1>13, <1>14, <1>16, <2>2
    <3>3. Leads(roles, f, e, made)
      BY <1>11, <2>2, <3>1
    <3>4. Leads(last, f, made, made)
      BY <1>7, <1>15, <1>16, <2>2
    <3> QED
      BY <3>2, <3>3, <3>4
  <2>3. CASE f[1] = "emojis"
    <3>1. made = IF Gives(guild.emojis, f[2]) THEN Stored(e, LookOf(guild.emojis, f[2])) ELSE Removed(e)
      BY <2>3 DEF Made
    <3> HIDE DEF made
    <3>2. Leads(first, f, e, e) /\ Leads(channels, f, e, e)
      BY <1>9, <1>14, <1>16, <2>3
    <3>3. Leads(emojis, f, e, made)
      BY <1>12, <1>13, <1>18, <2>3, <3>1
    <3>4. Leads(members, f, made, made) /\ Leads(roles, f, made, made) /\ Leads(last, f, made, made)
      BY <1>7, <1>10, <1>11, <1>15, <1>16, <2>3
    <3> QED
      BY <3>2, <3>3, <3>4
  <2>4. CASE f[1] = "members"
    <3>1. made = IF Gives(guild.members, f[2][2]) THEN Stored(e, LookOf(guild.members, f[2][2])) ELSE e
      BY <2>4 DEF Made
    <3> HIDE DEF made
    <3>2. Leads(first, f, e, e) /\ Leads(channels, f, e, e) /\ Leads(emojis, f, e, e)
      BY <1>9, <1>12, <1>13, <1>14, <1>16, <2>4
    <3>3. Leads(members, f, e, made)
      BY <1>8, <1>10, <1>18, <2>4, <3>1
    <3>4. Leads(roles, f, made, made) /\ Leads(last, f, made, made)
      BY <1>7, <1>11, <1>15, <1>16, <2>4
    <3> QED
      BY <3>2, <3>3, <3>4
  <2>5. CASE f[1] = "guilds"
    <3>1. made = Holds(record, "unlisted")
      BY <2>5 DEF Made, record
    <3> HIDE DEF made
    <3>2. /\ Leads(first, f, e, e) /\ Leads(channels, f, e, e) /\ Leads(emojis, f, e, e)
          /\ Leads(members, f, e, e) /\ Leads(roles, f, e, e)
      BY <1>9, <1>10, <1>11, <1>12, <1>13, <1>14, <1>16, <2>5
    <3>3. Leads(last, f, e, made)
      BY <1>7, <1>15, <1>16, <1>18, <2>5, <3>1
    <3> QED
      BY <3>2, <3>3
  <2>6. f[1] \in {"channels", "roles", "emojis", "members", "guilds"}
    BY FieldCases
  <2> QED
    BY <2>1, <2>2, <2>3, <2>4, <2>5, <2>6
<1> QED
  BY <1>1, <1>17, <1>18
-----------------------------------------------------------------------------
(* The next item of a loop.                                                *)

LEMMA ItemLeads ==
    ASSUME NEW body \in Seq(Command), NEW rest \in Seq(Command), NEW c, NEW f, NEW mine \in BOOLEAN,
           mine => Quiet(rest, f) /\ Touches(c, f),
           mine => \A e : Leads(body, f, e, Result(c, f, e)),
           ~mine => Quiet(body, f) /\ (~Touches(c, f) => Quiet(rest, f)),
           ~mine => \A e : Leads(rest, f, e, Result(c, f, e))
    PROVE  /\ ~Touches(c, f) => Quiet(body \o rest, f)
           /\ \A e : Leads(body \o rest, f, e, Result(c, f, e))
<1>1. Quiet(body \o rest, f) <=> Quiet(body, f) /\ Quiet(rest, f)
  BY QuietAppend
<1>2. ASSUME NEW e PROVE Leads(body \o rest, f, e, Result(c, f, e))
  <2> DEFINE t == Result(c, f, e)
  <2>1. CASE mine
    <3>1. Leads(body, f, e, t) /\ Leads(rest, f, t, t)
      BY <2>1, QuietLeads
    <3> HIDE DEF t
    <3>2. Leads(body \o rest, f, e, t)
      BY <3>1, LeadsAppend
    <3> QED
      BY <3>2 DEF t
  <2>2. CASE ~mine
    <3>1. Leads(body, f, e, e) /\ Leads(rest, f, e, t)
      BY <2>2, QuietLeads
    <3> HIDE DEF t
    <3>2. Leads(body \o rest, f, e, t)
      BY <3>1, LeadsAppend
    <3> QED
      BY <3>2 DEF t
  <2> QED
    BY <2>1, <2>2
<1> QED
  BY <1>1, <1>2

LEMMA ChannelItem ==
    ASSUME NEW g \in Guilds, NEW items \in Lists(At(g, Channels), Looks), NEW item \in items,
           NEW f \in Tracked,
           Loop("cache_channel", g, items \ {item}) \in Seq(Command)
    PROVE  /\ ~Touches(EachCall("cache_channel", g, items), f)
                 => Quiet(CacheChannel(item[1], item[2]) \o Loop("cache_channel", g, items \ {item}), f)
           /\ \A e : Leads(CacheChannel(item[1], item[2]) \o Loop("cache_channel", g, items \ {item}), f, e,
                        Result(EachCall("cache_channel", g, items), f, e))
<1> DEFINE others == items \ {item}
           body == CacheChannel(item[1], item[2])
           rest == Loop("cache_channel", g, others)
           c == EachCall("cache_channel", g, items)
           mine == f = Channel(item[1])
<1>1. item[1] \in At(g, Channels) /\ item[2] \in Looks
  BY ListParts
<1>2. body \in Seq(Command) /\ rest \in Seq(Command)
  <2>1. item[1] \in Channels
    BY <1>1 DEF At
  <2> QED
    BY <1>1, <2>1, HarmlessChannels, HarmlessIsCommand
<1>3. Gives(items, item[1]) /\ LookOf(items, item[1]) = item[2] /\ ~Gives(others, item[1])
  BY LookIs
<1>4. ASSUME NEW id, id # item[1]
      PROVE  (Gives(others, id) <=> Gives(items, id))
             /\ (Gives(items, id) => LookOf(others, id) = LookOf(items, id))
  BY <1>4, OtherLooks
<1>5. Touches(c, f) <=> (f[1] = "channels" /\ Gives(items, f[2]))
  BY EachTouching
<1>6. \A e : Result(c, f, e) = IF (f[1] = "channels" /\ Gives(items, f[2]))
                               THEN Holds(LookOf(items, f[2]), "listed") ELSE e
  <2> SUFFICES ASSUME NEW e
               PROVE  Result(c, f, e) = IF (f[1] = "channels" /\ Gives(items, f[2]))
                                        THEN Holds(LookOf(items, f[2]), "listed") ELSE e
    OBVIOUS
  <2> QED
    BY EachResults
<1>7. /\ ~(f[1] = "channels" /\ Gives(others, f[2])) => Quiet(rest, f)
      /\ \A e : Leads(rest, f, e, IF (f[1] = "channels" /\ Gives(others, f[2]))
                                  THEN Holds(LookOf(others, f[2]), "listed") ELSE e)
  <2> HIDE DEF others
  <2> QED
    BY ChannelLoop
<1>8. mine <=> f[1] = "channels" /\ f[2] = item[1]
  BY KindsApart
<1>9. ~mine => Quiet(body, f)
  <2>1. item[1] \in Channels
    BY <1>1 DEF At
  <2> QED
    BY <2>1, ChannelFunctions
<1>10. ASSUME mine, NEW e PROVE Leads(body, f, e, Holds(item[2], "listed"))
  <2>1. item[1] \in Channels
    BY <1>1 DEF At
  <2> QED
    BY <1>1, <1>10, <2>1, ChannelFunctions
<1> HIDE DEF others, body, rest, c, mine
<1>11. mine => Quiet(rest, f) /\ Touches(c, f)
  BY <1>3, <1>5, <1>7, <1>8
<1>12. ASSUME mine, NEW e PROVE Leads(body, f, e, Result(c, f, e))
  <2>1. Result(c, f, e) = Holds(item[2], "listed")
    BY <1>3, <1>6, <1>8, <1>12
  <2> QED
    BY <1>10, <1>12, <2>1
<1>13. ~mine => (~Touches(c, f) => Quiet(rest, f))
  BY <1>4, <1>5, <1>7, <1>8
<1>14. ASSUME ~mine, NEW e PROVE Leads(rest, f, e, Result(c, f, e))
  BY <1>4, <1>6, <1>7, <1>8, <1>14
<1>15. mine \in BOOLEAN
  BY DEF mine
<1> QED
  BY <1>2, <1>9, <1>11, <1>12, <1>13, <1>14, <1>15, ItemLeads DEF body, rest, c, others

LEMMA RoleItem ==
    ASSUME NEW g \in Guilds, NEW items \in Lists(At(g, Roles), Looks), NEW item \in items, NEW f \in Tracked,
           Loop("cache_role", g, items \ {item}) \in Seq(Command)
    PROVE  /\ ~Touches(EachCall("cache_role", g, items), f)
                 => Quiet(CacheRole(g, item[1], item[2]) \o Loop("cache_role", g, items \ {item}), f)
           /\ \A e : Leads(CacheRole(g, item[1], item[2]) \o Loop("cache_role", g, items \ {item}), f, e,
                        Result(EachCall("cache_role", g, items), f, e))
<1> DEFINE others == items \ {item}
           body == CacheRole(g, item[1], item[2])
           rest == Loop("cache_role", g, others)
           c == EachCall("cache_role", g, items)
           mine == f = Role(item[1])
<1>1. item[1] \in At(g, Roles) /\ item[2] \in Looks
  BY ListParts
<1>2. body \in Seq(Command) /\ rest \in Seq(Command)
  BY <1>1, HarmlessRoles, HarmlessIsCommand
<1>3. Gives(items, item[1]) /\ LookOf(items, item[1]) = item[2] /\ ~Gives(others, item[1])
  BY LookIs
<1>4. ASSUME NEW id, id # item[1]
      PROVE  (Gives(others, id) <=> Gives(items, id))
             /\ (Gives(items, id) => LookOf(others, id) = LookOf(items, id))
  BY <1>4, OtherLooks
<1>5. Touches(c, f) <=> (f[1] = "roles" /\ Gives(items, f[2]))
  BY EachTouching
<1>6. \A e : Result(c, f, e) = IF (f[1] = "roles" /\ Gives(items, f[2]))
                               THEN Holds(LookOf(items, f[2]), "listed") ELSE e
  <2> SUFFICES ASSUME NEW e
               PROVE  Result(c, f, e) = IF (f[1] = "roles" /\ Gives(items, f[2]))
                                        THEN Holds(LookOf(items, f[2]), "listed") ELSE e
    OBVIOUS
  <2> QED
    BY EachResults
<1>7. /\ ~(f[1] = "roles" /\ Gives(others, f[2])) => Quiet(rest, f)
      /\ \A e : Leads(rest, f, e, IF (f[1] = "roles" /\ Gives(others, f[2]))
                                  THEN Holds(LookOf(others, f[2]), "listed") ELSE e)
  <2> HIDE DEF others
  <2> QED
    BY RoleLoop
<1>8. mine <=> f[1] = "roles" /\ f[2] = item[1]
  BY KindsApart
<1>9. ~mine => Quiet(body, f)
  BY <1>1, RoleFunctions
<1>10. ASSUME mine, NEW e PROVE Leads(body, f, e, Holds(item[2], "listed"))
  BY <1>1, <1>10, RoleFunctions
<1> HIDE DEF others, body, rest, c, mine
<1>11. mine => Quiet(rest, f) /\ Touches(c, f)
  BY <1>3, <1>5, <1>7, <1>8
<1>12. ASSUME mine, NEW e PROVE Leads(body, f, e, Result(c, f, e))
  <2>1. Result(c, f, e) = Holds(item[2], "listed")
    BY <1>3, <1>6, <1>8, <1>12
  <2> QED
    BY <1>10, <1>12, <2>1
<1>13. ~mine => (~Touches(c, f) => Quiet(rest, f))
  BY <1>4, <1>5, <1>7, <1>8
<1>14. ASSUME ~mine, NEW e PROVE Leads(rest, f, e, Result(c, f, e))
  BY <1>4, <1>6, <1>7, <1>8, <1>14
<1>15. mine \in BOOLEAN
  BY DEF mine
<1> QED
  BY <1>2, <1>9, <1>11, <1>12, <1>13, <1>14, <1>15, ItemLeads DEF body, rest, c, others

LEMMA EmojiItem ==
    ASSUME NEW g \in Guilds, NEW items \in Lists(At(g, Emojis), Looks), NEW item \in items, NEW f \in Tracked,
           Loop("cache_emoji", g, items \ {item}) \in Seq(Command)
    PROVE  /\ ~Touches(EachCall("cache_emoji", g, items), f)
                 => Quiet(CacheEmoji(g, item[1], item[2]) \o Loop("cache_emoji", g, items \ {item}), f)
           /\ \A e : Leads(CacheEmoji(g, item[1], item[2]) \o Loop("cache_emoji", g, items \ {item}), f, e,
                        Result(EachCall("cache_emoji", g, items), f, e))
<1> DEFINE others == items \ {item}
           body == CacheEmoji(g, item[1], item[2])
           rest == Loop("cache_emoji", g, others)
           c == EachCall("cache_emoji", g, items)
           mine == f = Emoji(item[1])
<1>1. item[1] \in At(g, Emojis) /\ item[2] \in Looks
  BY ListParts
<1>2. body \in Seq(Command) /\ rest \in Seq(Command)
  BY <1>1, HarmlessEmojis, HarmlessIsCommand
<1>3. Gives(items, item[1]) /\ LookOf(items, item[1]) = item[2] /\ ~Gives(others, item[1])
  BY LookIs
<1>4. ASSUME NEW id, id # item[1]
      PROVE  (Gives(others, id) <=> Gives(items, id))
             /\ (Gives(items, id) => LookOf(others, id) = LookOf(items, id))
  BY <1>4, OtherLooks
<1>5. Touches(c, f) <=> (f[1] = "emojis" /\ Gives(items, f[2]))
  BY EachTouching
<1>6. \A e : Result(c, f, e) = IF (f[1] = "emojis" /\ Gives(items, f[2]))
                               THEN Stored(e, LookOf(items, f[2])) ELSE e
  <2> SUFFICES ASSUME NEW e
               PROVE  Result(c, f, e) = IF (f[1] = "emojis" /\ Gives(items, f[2]))
                                        THEN Stored(e, LookOf(items, f[2])) ELSE e
    OBVIOUS
  <2> QED
    BY EachResults
<1>7. /\ ~(f[1] = "emojis" /\ Gives(others, f[2])) => Quiet(rest, f)
      /\ \A e : Leads(rest, f, e, IF (f[1] = "emojis" /\ Gives(others, f[2]))
                                  THEN Stored(e, LookOf(others, f[2])) ELSE e)
  <2> HIDE DEF others
  <2> QED
    BY EmojiLoop
<1>8. mine <=> f[1] = "emojis" /\ f[2] = item[1]
  BY KindsApart
<1>9. ~mine => Quiet(body, f)
  BY <1>1, EmojiFunctions
<1>10. ASSUME mine, NEW e PROVE Leads(body, f, e, Stored(e, item[2]))
  BY <1>1, <1>10, EmojiFunctions
<1> HIDE DEF others, body, rest, c, mine
<1>11. mine => Quiet(rest, f) /\ Touches(c, f)
  BY <1>3, <1>5, <1>7, <1>8
<1>12. ASSUME mine, NEW e PROVE Leads(body, f, e, Result(c, f, e))
  <2>1. Result(c, f, e) = Stored(e, item[2])
    BY <1>3, <1>6, <1>8, <1>12
  <2> QED
    BY <1>10, <1>12, <2>1
<1>13. ~mine => (~Touches(c, f) => Quiet(rest, f))
  BY <1>4, <1>5, <1>7, <1>8
<1>14. ASSUME ~mine, NEW e PROVE Leads(rest, f, e, Result(c, f, e))
  BY <1>4, <1>6, <1>7, <1>8, <1>14
<1>15. mine \in BOOLEAN
  BY DEF mine
<1> QED
  BY <1>2, <1>9, <1>11, <1>12, <1>13, <1>14, <1>15, ItemLeads DEF body, rest, c, others

LEMMA MemberItem ==
    ASSUME NEW g \in Guilds, NEW items \in Lists(Users, Looks), NEW item \in items, NEW f \in Tracked,
           Loop("cache_member", g, items \ {item}) \in Seq(Command)
    PROVE  /\ ~Touches(EachCall("cache_member", g, items), f)
                 => Quiet(CacheMember(g, item[1], item[2]) \o Loop("cache_member", g, items \ {item}), f)
           /\ \A e : Leads(CacheMember(g, item[1], item[2]) \o Loop("cache_member", g, items \ {item}), f, e,
                        Result(EachCall("cache_member", g, items), f, e))
<1> DEFINE others == items \ {item}
           body == CacheMember(g, item[1], item[2])
           rest == Loop("cache_member", g, others)
           c == EachCall("cache_member", g, items)
           mine == f = Member(g, item[1])
<1>1. item[1] \in Users /\ item[2] \in Looks
  BY ListParts
<1>2. body \in Seq(Command) /\ rest \in Seq(Command)
  BY <1>1, HarmlessMembers, HarmlessIsCommand
<1>3. Gives(items, item[1]) /\ LookOf(items, item[1]) = item[2] /\ ~Gives(others, item[1])
  BY LookIs
<1>4. ASSUME NEW id, id # item[1]
      PROVE  (Gives(others, id) <=> Gives(items, id))
             /\ (Gives(items, id) => LookOf(others, id) = LookOf(items, id))
  BY <1>4, OtherLooks
<1>5. Touches(c, f) <=> (f[1] = "members" /\ f[2][1] = g /\ Gives(items, f[2][2]))
  BY EachTouching
<1>6. \A e : Result(c, f, e) = IF (f[1] = "members" /\ f[2][1] = g /\ Gives(items, f[2][2]))
                               THEN Stored(e, LookOf(items, f[2][2])) ELSE e
  <2> SUFFICES ASSUME NEW e
               PROVE  Result(c, f, e) = IF (f[1] = "members" /\ f[2][1] = g /\ Gives(items, f[2][2]))
                                        THEN Stored(e, LookOf(items, f[2][2])) ELSE e
    OBVIOUS
  <2> QED
    BY EachResults
<1>7. /\ ~(f[1] = "members" /\ f[2][1] = g /\ Gives(others, f[2][2])) => Quiet(rest, f)
      /\ \A e : Leads(rest, f, e, IF (f[1] = "members" /\ f[2][1] = g /\ Gives(others, f[2][2]))
                                  THEN Stored(e, LookOf(others, f[2][2])) ELSE e)
  <2> HIDE DEF others
  <2> QED
    BY MemberLoop
<1>8. mine <=> f[1] = "members" /\ f[2][1] = g /\ f[2][2] = item[1]
  BY MembersApart, FieldCases
<1>9. ~mine => Quiet(body, f)
  BY <1>1, MemberCallFunctions
<1>10. ASSUME mine, NEW e PROVE Leads(body, f, e, Stored(e, item[2]))
  BY <1>1, <1>10, MemberCallFunctions
<1> HIDE DEF others, body, rest, c, mine
<1>11. mine => Quiet(rest, f) /\ Touches(c, f)
  BY <1>3, <1>5, <1>7, <1>8
<1>12. ASSUME mine, NEW e PROVE Leads(body, f, e, Result(c, f, e))
  <2>1. Result(c, f, e) = Stored(e, item[2])
    BY <1>3, <1>6, <1>8, <1>12
  <2> QED
    BY <1>10, <1>12, <2>1
<1>13. ~mine => (~Touches(c, f) => Quiet(rest, f))
  BY <1>4, <1>5, <1>7, <1>8
<1>14. ASSUME ~mine, NEW e PROVE Leads(rest, f, e, Result(c, f, e))
  BY <1>4, <1>6, <1>7, <1>8, <1>14
<1>15. mine \in BOOLEAN
  BY DEF mine
<1> QED
  BY <1>2, <1>9, <1>11, <1>12, <1>13, <1>14, <1>15, ItemLeads DEF body, rest, c, others

LEMMA GuildItem ==
    ASSUME NEW g, NEW items \in Lists(Guilds, {None}), NEW item \in items, NEW f \in Tracked,
           Loop("unavailable_guild", g, items \ {item}) \in Seq(Command)
    PROVE  /\ ~Touches(EachCall("unavailable_guild", g, items), f)
                 => Quiet(UnavailableGuild(item[1]) \o Loop("unavailable_guild", g, items \ {item}), f)
           /\ \A e : Leads(UnavailableGuild(item[1]) \o Loop("unavailable_guild", g, items \ {item}), f, e,
                        Result(EachCall("unavailable_guild", g, items), f, e))
<1> DEFINE others == items \ {item}
           body == UnavailableGuild(item[1])
           rest == Loop("unavailable_guild", g, others)
           c == EachCall("unavailable_guild", g, items)
           mine == HomeOf(f) = item[1]
<1>1. item[1] \in Guilds /\ item[2] \in {None}
  BY ListParts
<1>2. body \in Seq(Command) /\ rest \in Seq(Command)
  BY <1>1, HarmlessGuilds, HarmlessIsCommand
<1>3. Gives(items, item[1]) /\ LookOf(items, item[1]) = item[2] /\ ~Gives(others, item[1])
  BY LookIs
<1>4. ASSUME NEW id, id # item[1]
      PROVE  (Gives(others, id) <=> Gives(items, id))
             /\ (Gives(items, id) => LookOf(others, id) = LookOf(items, id))
  BY <1>4, OtherLooks
<1>5. Touches(c, f) <=> Gives(items, HomeOf(f))
  BY EachTouching
<1>6. \A e : Result(c, f, e) = IF Gives(items, HomeOf(f)) THEN Outage(f, e) ELSE e
  <2> SUFFICES ASSUME NEW e
               PROVE  Result(c, f, e) = IF Gives(items, HomeOf(f)) THEN Outage(f, e) ELSE e
    OBVIOUS
  <2> QED
    BY EachResults
<1>7. /\ ~Gives(others, HomeOf(f)) => Quiet(rest, f)
      /\ \A e : Leads(rest, f, e, IF Gives(others, HomeOf(f)) THEN Outage(f, e) ELSE e)
  <2> HIDE DEF others
  <2> QED
    BY GuildLoop
<1>8. mine <=> HomeOf(f) = item[1]
  OBVIOUS
<1>9. ~mine => Quiet(body, f)
  BY <1>1, UnavailableGuildLeads
<1>10. ASSUME mine, NEW e PROVE Leads(body, f, e, Outage(f, e))
  BY <1>1, <1>10, UnavailableGuildLeads
<1> HIDE DEF others, body, rest, c, mine
<1>11. mine => Quiet(rest, f) /\ Touches(c, f)
  BY <1>3, <1>5, <1>7, <1>8
<1>12. ASSUME mine, NEW e PROVE Leads(body, f, e, Result(c, f, e))
  <2>1. Result(c, f, e) = Outage(f, e)
    BY <1>3, <1>6, <1>8, <1>12
  <2> QED
    BY <1>10, <1>12, <2>1
<1>13. ~mine => (~Touches(c, f) => Quiet(rest, f))
  BY <1>4, <1>5, <1>7, <1>8
<1>14. ASSUME ~mine, NEW e PROVE Leads(rest, f, e, Result(c, f, e))
  BY <1>4, <1>6, <1>7, <1>8, <1>14
<1>15. mine \in BOOLEAN
  BY DEF mine
<1> QED
  BY <1>2, <1>9, <1>11, <1>12, <1>13, <1>14, <1>15, ItemLeads DEF body, rest, c, others


\* Whatever item comes next, the loop makes of each entry the same.
LEMMA EachStep ==
    ASSUME NEW c \in Each, NEW item \in c.items, NEW f \in Tracked
    PROVE  /\ ~Touches(c, f) => Quiet(Body(c, item) \o Loop(c.function, c.guild, c.items \ {item}), f)
           /\ \A e : Leads(Body(c, item) \o Loop(c.function, c.guild, c.items \ {item}), f, e, Result(c, f, e))
<1> DEFINE g == c.guild
           items == c.items
           Holding(body, d) ==
               /\ ~Touches(EachCall(d, g, items), f) => Quiet(body \o Loop(d, g, items \ {item}), f)
               /\ \A e : Leads(body \o Loop(d, g, items \ {item}), f, e, Result(EachCall(d, g, items), f, e))
<1>1. c = EachCall(c.function, g, items)
  BY DEF Each, Loops, EachCall
<1>2. Loop(c.function, g, items \ {item}) \in Seq(Command)
  BY HarmlessBodies, HarmlessIsCommand
<1>3. CASE g \in Guilds /\ c.function = "cache_channel" /\ items \in Lists(At(g, Channels), Looks)
  <2>1. Body(c, item) = CacheChannel(item[1], item[2])
    BY <1>3 DEF Body
  <2>2. Holding(CacheChannel(item[1], item[2]), "cache_channel")
    BY <1>2, <1>3, ChannelItem
  <2> QED
    BY <1>1, <1>3, <2>1, <2>2
<1>4. CASE g \in Guilds /\ c.function = "cache_role" /\ items \in Lists(At(g, Roles), Looks)
  <2>1. Body(c, item) = CacheRole(g, item[1], item[2])
    BY <1>4 DEF Body
  <2>2. Holding(CacheRole(g, item[1], item[2]), "cache_role")
    BY <1>2, <1>4, RoleItem
  <2> QED
    BY <1>1, <1>4, <2>1, <2>2
<1>5. CASE g \in Guilds /\ c.function = "cache_emoji" /\ items \in Lists(At(g, Emojis), Looks)
  <2>1. Body(c, item) = CacheEmoji(g, item[1], item[2])
    BY <1>5 DEF Body
  <2>2. Holding(CacheEmoji(g, item[1], item[2]), "cache_emoji")
    BY <1>2, <1>5, EmojiItem
  <2> QED
    BY <1>1, <1>5, <2>1, <2>2
<1>6. CASE g \in Guilds /\ c.function = "cache_member" /\ items \in Lists(Users, Looks)
  <2>1. Body(c, item) = CacheMember(g, item[1], item[2])
    BY <1>6 DEF Body
  <2>2. Holding(CacheMember(g, item[1], item[2]), "cache_member")
    BY <1>2, <1>6, MemberItem
  <2> QED
    BY <1>1, <1>6, <2>1, <2>2
<1>7. CASE c.function = "unavailable_guild" /\ items \in SUBSET (Guilds \X {None})
  <2>1. Body(c, item) = UnavailableGuild(item[1])
    BY <1>7 DEF Body
  <2>2. items \in Lists(Guilds, {None})
    BY <1>7 DEF Lists
  <2>3. Holding(UnavailableGuild(item[1]), "unavailable_guild")
    BY <1>2, <1>7, <2>2, GuildItem
  <2> QED
    BY <1>1, <1>7, <2>1, <2>3
<1> QED
  BY <1>3, <1>4, <1>5, <1>6, <1>7, EachCases

-----------------------------------------------------------------------------
(* What the cache is to hold of an object of a kind in a guild of status s, *)
(* that looks so (None: there is no such object) at Discord.                *)

Record(g) == [member_count |-> Cardinality(MembersOf(g)), unavailable |-> FALSE]

\* A member no event has told of is not known to the cache.
Actual(f) ==
    CASE f[1] = "guilds"  -> Record(f[2])
      [] f[1] = "members" -> IF f[2] \in told THEN joined[f[2]] ELSE None
      [] OTHER            -> actual[f[2]]

\* In a guild all of whose events were carried out: what there is, and nothing of
\* a guild that fails or is left.
Clean(kind, s, look, e) ==
    CASE kind = "guilds"  -> /\ s = "in" => e = Holds(look, "unlisted")
                             /\ s = "out" => e.value = None
      [] kind = "members" -> /\ e.value = look
                             /\ e.mark = "listed" <=> look # None
      [] OTHER            -> /\ e.value = (IF s = "in" THEN look ELSE None)
                             /\ s = "in" /\ look # None => e.mark = "listed"
                             /\ s = "in" /\ kind # "roles" /\ look = None => e.mark # "listed"

\* In a guild the bot is in, whose events were carried out since a GuildCreate.
Mended(kind, look, e) ==
    CASE kind = "guilds"   -> e = Holds(look, "unlisted")
      [] kind = "channels" -> /\ look # None => e.value = look
                              /\ e.mark = "listed" <=> look # None
      [] kind = "roles"    -> look # None => e = Holds(look, "listed")
      [] kind = "emojis"   -> /\ look # None => e.value = look
                              /\ look = None => e.mark # "listed"
      [] OTHER             -> look # None => e.value = look

\* A change of an object from look v to look w may make t of entry e.
Keeps(kind, v, e, w, t) ==
    /\ Clean(kind, "in", v, e) => Clean(kind, "in", w, t)
    /\ Mended(kind, v, e) => Mended(kind, w, t)

LEMMA NothingChanges ==
    ASSUME NEW kind, NEW v, NEW e
    PROVE  Keeps(kind, v, e, v, e)
  BY DEF Keeps

LEMMA ThingKeeps ==
    ASSUME NEW e, NEW v, NEW w, w # None
    PROVE  /\ \A kind \in {"channels", "roles", "emojis", "members"} : Keeps(kind, v, e, w, Holds(w, "listed"))
           /\ \A kind \in {"emojis", "members"} : Keeps(kind, v, e, w, Stored(e, w))
  BY DEF Keeps, Clean, Mended, Holds, Stored

LEMMA ThingGoes ==
    ASSUME NEW e, NEW v
    PROVE  /\ v # None => Keeps("channels", v, e, None,
                             Holds(None, IF e.value = None THEN e.mark ELSE "unlisted"))
           /\ Keeps("roles", v, e, None, Holds(None, "unlisted"))
           /\ Keeps("emojis", v, e, None, Removed(e))
           /\ Keeps("members", v, e, None, Holds(None, "unlisted"))
  BY DEF Keeps, Clean, Mended, Holds, Removed

LEMMA MemberRevised ==
    ASSUME NEW e, NEW v, NEW w
    PROVE  /\ v # None /\ w # None => Keeps("members", v, e, w, Revised(e, w))
           /\ Keeps("members", None, e, None, Revised(e, w))
  BY DEF Keeps, Clean, Mended, Holds, Revised

LEMMA GuildCounts ==
    ASSUME NEW e, NEW n \in Nat
    PROVE  /\ Keeps("guilds", [member_count |-> n, unavailable |-> FALSE], e,
                    [member_count |-> n + 1, unavailable |-> FALSE], Joined(e))
           /\ n > 0 => Keeps("guilds", [member_count |-> n, unavailable |-> FALSE], e,
                    [member_count |-> n - 1, unavailable |-> FALSE], Left(e))
<1> DEFINE record == [member_count |-> n, unavailable |-> FALSE]
<1>1. record # None
  <2>1. record \in CachedGuild
    BY DEF CachedGuild
  <2> QED
    BY <2>1, RecordAssumption
<1>2. ASSUME e = Holds(record, "unlisted")
      PROVE  /\ Joined(e) = Holds([member_count |-> n + 1, unavailable |-> FALSE], "unlisted")
             /\ n > 0 => Left(e) = Holds([member_count |-> n - 1, unavailable |-> FALSE], "unlisted")
  <2>1. e.value = record /\ e.mark = "unlisted"
    BY <1>2 DEF Holds
  <2>a. ASSUME NEW m PROVE [record EXCEPT !.member_count = m] = [member_count |-> m, unavailable |-> FALSE]
    <3> DEFINE a == [record EXCEPT !.member_count = m]
               b == [member_count |-> m, unavailable |-> FALSE]
    <3>1. DOMAIN a = {"member_count", "unavailable"} /\ DOMAIN b = {"member_count", "unavailable"}
      OBVIOUS
    <3>2. a["member_count"] = b["member_count"] /\ a["unavailable"] = b["unavailable"]
      OBVIOUS
    <3>3. a = [x \in {"member_count", "unavailable"} |-> a[x]]
          /\ b = [x \in {"member_count", "unavailable"} |-> b[x]]
      BY <3>1
    <3>4. a = b
      <4> HIDE DEF a, b
      <4> QED
        BY <3>1, <3>2, <3>3
    <3> QED
      BY <3>4
  <2>b. record.member_count = n
    OBVIOUS
  <2>2. [record EXCEPT !.member_count = @ + 1] = [member_count |-> n + 1, unavailable |-> FALSE]
    BY <2>a, <2>b
  <2>3. n > 0 => [record EXCEPT !.member_count = Below(@)] = [member_count |-> n - 1, unavailable |-> FALSE]
    BY <2>a, <2>b DEF Below
  <2> HIDE DEF record
  <2> QED
    BY <1>1, <2>1, <2>2, <2>3 DEF Joined, Left, Revised
<1> QED
  BY <1>2 DEF Keeps, Clean, Mended

\* What delete_guild and an outage leave.
LEMMA GuildGoes ==
    ASSUME NEW f \in Tracked, f[1] # "guilds", NEW s, NEW t, t # "in", NEW v, NEW w, NEW e,
           f[1] = "members" => w = None, Clean(f[1], s, v, e)
    PROVE  Clean(f[1], t, w, Deleted(f, e)) /\ Deleted(f, e) = Outage(f, e)
  BY FieldCases DEF Clean, Deleted, Outage, Holds, Emptied, Cleared

-----------------------------------------------------------------------------
(* With one handler: what is held of every object, once the commands still *)
(* to do are done, is what it is to be.                                    *)

\* Guilds whose events are carried out, or to be, since a GuildCreate.
Mending(h) == IF todo[h] # <<>> /\ created[h] # None THEN repaired \union {created[h]} ELSE repaired

Due(h, f, e) ==
    /\ HomeOf(f) \in clean => Clean(f[1], status[HomeOf(f)], Actual(f), e)
    /\ HomeOf(f) \in Mending(h) => Mended(f[1], Actual(f), e)

Settles(h, f, e) ==
    /\ Leads(todo[h], f, Entry(f), e)
    /\ HomeOf(f) \notin about[h] => e = Entry(f)

ToldAreMembers == \A m \in told : status[m[1]] = "in" /\ joined[m] # None

ContentIsDue(h) ==
    /\ ToldAreMembers
    /\ \A g \in Mending(h) : status[g] = "in"
    /\ \A f \in Tracked : HomeOf(f) \notin about[h] => Quiet(todo[h], f)
    /\ \A f \in Tracked : \E e : Settles(h, f, e) /\ Due(h, f, e)

LEMMA EntryUnchanged ==
    ASSUME UNCHANGED storeVars
    PROVE  \A f : Entry(f)' = Entry(f)
  BY DEF storeVars, Entry, Holds, IdOf, KeyOf, HomeOf, GuildChannels, GuildRoles, GuildEmojis,
         GuildMembers, UnavailableGuilds

LEMMA WorldUnchanged ==
    ASSUME UNCHANGED worldVars
    PROVE  /\ ToldAreMembers' <=> ToldAreMembers
           /\ status' = status
           /\ \A f : Actual(f)' = Actual(f)
  BY DEF worldVars, ToldAreMembers, Actual, Record, MembersOf

\* A step of the handler that keeps what its commands lead to.
LEMMA WorkGoesOn ==
    ASSUME NEW h \in Handlers, ContentIsDue(h), UNCHANGED <<about, worldVars, clean>>,
           Mending(h)' \subseteq Mending(h),
           \A f \in Tracked : /\ Quiet(todo[h], f) => Quiet(todo'[h], f) /\ Entry(f)' = Entry(f)
                              /\ \A e : Leads(todo[h], f, Entry(f), e) => Leads(todo'[h], f, Entry(f)', e)
    PROVE  ContentIsDue(h)'
<1>0. /\ UNCHANGED worldVars /\ about' = about /\ clean' = clean
      /\ ToldAreMembers' /\ status' = status
  BY WorldUnchanged DEF ContentIsDue
<1>1. \A g \in Mending(h)' : status'[g] = "in"
  BY <1>0 DEF ContentIsDue
<1>2. ASSUME NEW f \in Tracked, HomeOf(f) \notin about[h] PROVE Quiet(todo'[h], f)
  BY <1>2 DEF ContentIsDue
<1>3. ASSUME NEW f \in Tracked PROVE \E e : Settles(h, f, e)' /\ Due(h, f, e)'
  <2>1. PICK e : Settles(h, f, e) /\ Due(h, f, e)
    BY DEF ContentIsDue
  <2>2. Leads(todo'[h], f, Entry(f)', e)
    BY <2>1 DEF Settles
  <2>3. HomeOf(f) \notin about[h] => e = Entry(f)'
    BY <2>1 DEF Settles, ContentIsDue
  <2>4. Settles(h, f, e)'
    BY <1>0, <2>2, <2>3 DEF Settles
  <2>5. Actual(f)' = Actual(f)
    BY <1>0, WorldUnchanged
  <2>6. Due(h, f, e)'
    BY <1>0, <2>1, <2>5 DEF Due
  <2> QED
    BY <2>4, <2>6
<1> QED
  BY <1>0, <1>1, <1>2, <1>3 DEF ContentIsDue

\* A command replaced by one series of its worth.
LEMMA HeadReplaced ==
    ASSUME NEW q \in Seq(Command), q # <<>>, NEW next \in Seq(Command), NEW f, NEW s, NEW t,
           ~Touches(Head(q), f) => Quiet(next, f),
           Leads(next, f, t, Result(Head(q), f, s))
    PROVE  /\ Quiet(q, f) => Quiet(next \o Tail(q), f)
           /\ \A e : Leads(q, f, s, e) => Leads(next \o Tail(q), f, t, e)
<1>1. Tail(q) \in Seq(Command)
  BY CommandSequences
<1>2. Quiet(q, f) => Quiet(next \o Tail(q), f)
  BY <1>1, QuietNext, QuietAppend
<1>3. ASSUME NEW e, Leads(q, f, s, e) PROVE Leads(next \o Tail(q), f, t, e)
  <2>1. Leads(Tail(q), f, Result(Head(q), f, s), e)
    BY <1>3, LeadsTail
  <2> QED
    BY <1>1, <2>1, LeadsAppend
<1> QED
  BY <1>2, <1>3

\* A series carried out to its end leaves its guild among those accounted for.
LEMMA MendingGoesOn ==
    ASSUME NEW h \in Handlers, todo[h] # <<>>, created' = created,
           repaired' = Repaired(h) \/ repaired' = repaired
    PROVE  Mending(h)' \subseteq Mending(h)
  BY DEF Mending, Repaired

LEMMA NextItemGoesOn ==
    ASSUME TypeOK, NEW h \in Handlers, ContentIsDue(h), NextItem(h)
    PROVE  ContentIsDue(h)'
<1> DEFINE c == Head(todo[h])
<1>1. /\ todo \in [Handlers -> Seq(Command)] /\ todo[h] \in Seq(Command) /\ todo[h] # <<>> /\ c \in Each
      /\ UNCHANGED storeVars /\ UNCHANGED <<about, worldVars, clean>>
      /\ created' = created /\ repaired' = repaired
  BY DEF TypeOK, NextItem, Doing
<1>2. PICK item \in c.items :
          todo' = [todo EXCEPT ![h] = Body(c, item) \o Loop(c.function, c.guild, c.items \ {item}) \o Tail(@)]
  BY DEF NextItem
<1> DEFINE next == Body(c, item) \o Loop(c.function, c.guild, c.items \ {item})
<1>3. next \in Seq(Command)
  <2>1. Body(c, item) \in Seq(Command) /\ Loop(c.function, c.guild, c.items \ {item}) \in Seq(Command)
    BY <1>1, HarmlessBodies, HarmlessIsCommand
  <2> QED
    BY <2>1
<1>4. todo'[h] = next \o Tail(todo[h])
  BY <1>1, <1>2
<1>5. ASSUME NEW f \in Tracked
      PROVE  /\ Quiet(todo[h], f) => Quiet(todo'[h], f) /\ Entry(f)' = Entry(f)
             /\ \A e : Leads(todo[h], f, Entry(f), e) => Leads(todo'[h], f, Entry(f)', e)
  <2>1. Entry(f)' = Entry(f)
    BY <1>1, EntryUnchanged
  <2>2. /\ ~Touches(c, f) => Quiet(next, f)
        /\ Leads(next, f, Entry(f), Result(c, f, Entry(f)))
    BY <1>1, EachStep
  <2> HIDE DEF next
  <2>3. /\ Quiet(todo[h], f) => Quiet(next \o Tail(todo[h]), f)
        /\ \A e : Leads(todo[h], f, Entry(f), e) => Leads(next \o Tail(todo[h]), f, Entry(f), e)
    BY <1>1, <1>3, <2>2, HeadReplaced
  <2> QED
    BY <1>4, <2>1, <2>3
<1>6. Mending(h)' \subseteq Mending(h)
  BY <1>1, MendingGoesOn
<1> QED
  BY <1>1, <1>5, <1>6, WorkGoesOn

LEMMA ReadGoesOn ==
    ASSUME TypeOK, NEW h \in Handlers, ContentIsDue(h), Reads(h)
    PROVE  ContentIsDue(h)'
<1> DEFINE c == Head(todo[h])
<1>1. /\ todo \in [Handlers -> Seq(Command)] /\ todo[h] \in Seq(Command) /\ todo[h] # <<>> /\ c \in Read
      /\ StoreTypeOK /\ UNCHANGED storeVars /\ UNCHANGED <<about, worldVars, clean>>
      /\ created' = created /\ repaired' = Repaired(h)
  BY DEF TypeOK, Reads, Doing
<1>2. PICK next \in Then(c) : todo' = [todo EXCEPT ![h] = next \o Tail(@)]
  BY DEF Reads
<1>3. next \in Seq(Command) /\ todo'[h] = next \o Tail(todo[h])
  BY <1>1, <1>2, ThenTypes
<1>4. ASSUME NEW f \in Tracked
      PROVE  /\ Quiet(todo[h], f) => Quiet(todo'[h], f) /\ Entry(f)' = Entry(f)
             /\ \A e : Leads(todo[h], f, Entry(f), e) => Leads(todo'[h], f, Entry(f)', e)
  <2>1. Entry(f)' = Entry(f)
    BY <1>1, EntryUnchanged
  <2>2. /\ ~Touches(c, f) => Quiet(next, f)
        /\ Leads(next, f, Entry(f), Result(c, f, Entry(f)))
    BY <1>1, ReadStep DEF Follows
  <2>3. /\ Quiet(todo[h], f) => Quiet(next \o Tail(todo[h]), f)
        /\ \A e : Leads(todo[h], f, Entry(f), e) => Leads(next \o Tail(todo[h]), f, Entry(f), e)
    BY <1>1, <1>3, <2>2, HeadReplaced
  <2> QED
    BY <1>3, <2>1, <2>3
<1>5. Mending(h)' \subseteq Mending(h)
  BY <1>1, MendingGoesOn
<1> QED
  BY <1>1, <1>4, <1>5, WorkGoesOn

LEMMA WriteGoesOn ==
    ASSUME TypeOK, NEW h \in Handlers, ContentIsDue(h), Writes(h)
    PROVE  ContentIsDue(h)'
<1> DEFINE c == Head(todo[h])
<1>1. /\ todo \in [Handlers -> Seq(Command)] /\ todo[h] \in Seq(Command) /\ todo[h] # <<>> /\ c \in Write
      /\ StoreTypeOK /\ hash' = HashAfter(c) /\ sets' = SetsAfter(c) /\ UNCHANGED <<about, worldVars, clean>>
      /\ created' = created /\ repaired' = Repaired(h)
  BY DEF TypeOK, Writes, Doing
<1>2. todo'[h] = Tail(todo[h])
  BY <1>1 DEF Writes
<1>3. ASSUME NEW f \in Tracked
      PROVE  /\ Quiet(todo[h], f) => Quiet(todo'[h], f) /\ Entry(f)' = Entry(f)
             /\ \A e : Leads(todo[h], f, Entry(f), e) => Leads(todo'[h], f, Entry(f)', e)
  <2>1. Entry(f)' = Result(c, f, Entry(f))
    BY <1>1, WriteStep
  <2>2. Quiet(todo[h], f) => ~Touches(c, f) /\ Quiet(Tail(todo[h]), f)
    BY <1>1, QuietNext
  <2>3. ~Touches(c, f) => Result(c, f, Entry(f)) = Entry(f)
    BY DEF Result
  <2>4. ASSUME NEW e, Leads(todo[h], f, Entry(f), e)
        PROVE  Leads(Tail(todo[h]), f, Result(c, f, Entry(f)), e)
    BY <1>1, <2>4, LeadsTail
  <2> QED
    BY <1>2, <2>1, <2>2, <2>3, <2>4
<1>4. Mending(h)' \subseteq Mending(h)
  BY <1>1, MendingGoesOn
<1> QED
  BY <1>1, <1>3, <1>4, WorkGoesOn

\* An event given up says nothing any more of the guilds it is about; of the
\* others its commands say nothing.
LEMMA FailureIsAccountedFor ==
    ASSUME TypeOK, NEW h \in Handlers, ContentIsDue(h), Fails(h)
    PROVE  ContentIsDue(h)'
<1> DEFINE c == Head(todo[h])
<1>1. /\ todo \in [Handlers -> Seq(Command)] /\ todo[h] \in Seq(Command) /\ todo[h] # <<>>
      /\ StoreTypeOK /\ UNCHANGED worldVars /\ about' = about /\ created' = created
      /\ repaired' = repaired \ about[h] /\ clean' = clean \ about[h]
      /\ todo'[h] = <<>>
  BY DEF TypeOK, Fails, Doing
<1>2. ToldAreMembers' /\ status' = status /\ \A f : Actual(f)' = Actual(f)
  BY <1>1, WorldUnchanged DEF ContentIsDue
<1>3. Mending(h)' \subseteq Mending(h) /\ Mending(h)' \intersect about[h] = {}
  BY <1>1 DEF Mending
<1>4. ASSUME NEW f \in Tracked, HomeOf(f) \notin about[h] PROVE Entry(f)' = Entry(f)
  <2>1. CASE UNCHANGED storeVars
    BY <2>1, EntryUnchanged
  <2>2. CASE Doing(h, Write) /\ hash' = HashAfter(c) /\ sets' = SetsAfter(c)
    <3>1. c \in Write
      BY <2>2 DEF Doing
    <3>2. Entry(f)' = Result(c, f, Entry(f))
      BY <1>1, <2>2, <3>1, WriteStep
    <3>3. Quiet(todo[h], f)
      BY <1>4 DEF ContentIsDue
    <3>4. ~Touches(c, f)
      BY <1>1, <3>3, QuietNext
    <3> QED
      BY <3>2, <3>4 DEF Result
  <2> QED
    BY <2>1, <2>2 DEF Fails
<1>5. ASSUME NEW f \in Tracked PROVE \E e : Settles(h, f, e)' /\ Due(h, f, e)'
  <2>1. Leads(todo'[h], f, Entry(f)', Entry(f)')
    BY <1>1, LeadsNothing
  <2>2. PICK e : Settles(h, f, e) /\ Due(h, f, e)
    BY DEF ContentIsDue
  <2>3. ASSUME HomeOf(f) \notin about[h] PROVE Entry(f)' = e
    BY <1>4, <2>2, <2>3 DEF Settles
  <2>4. HomeOf(f) \in clean' => Clean(f[1], status'[HomeOf(f)], Actual(f)', Entry(f)')
    BY <1>1, <1>2, <2>2, <2>3 DEF Due
  <2>5. HomeOf(f) \in Mending(h)' => Mended(f[1], Actual(f)', Entry(f)')
    BY <1>2, <1>3, <2>2, <2>3 DEF Due
  <2>6. PICK now : now = Entry(f)'
    OBVIOUS
  <2>7. Settles(h, f, now)'
    BY <2>1, <2>6 DEF Settles
  <2>8. Due(h, f, now)'
    BY <2>4, <2>5, <2>6 DEF Due
  <2> QED
    BY <2>7, <2>8
<1>6. \A f \in Tracked : HomeOf(f) \notin about'[h] => Quiet(todo'[h], f)
  BY <1>1, QuietFew
<1>7. \A g \in Mending(h)' : status'[g] = "in"
  BY <1>2, <1>3 DEF ContentIsDue
<1> QED
  BY <1>2, <1>5, <1>6, <1>7 DEF ContentIsDue

-----------------------------------------------------------------------------
(* Events: what each makes due.                                            *)

\* Nothing is due of an object yet when a handler is idle.
LEMMA IdleIsDue ==
    ASSUME NEW h, ContentIsDue(h), todo[h] = <<>>, NEW f \in Tracked
    PROVE  Due(h, f, Entry(f)) /\ Mending(h) = repaired
<1>1. PICK e : Settles(h, f, e) /\ Due(h, f, e)
  BY DEF ContentIsDue
<1>2. e = Entry(f)
  BY <1>1, LeadsNothing DEF Settles
<1> QED
  BY <1>1, <1>2 DEF Mending

\* What follows an event for the objects of the guilds it is about.
LEMMA EventIsDue ==
    ASSUME TypeOK, NEW h \in Handlers, ContentIsDue(h), NEW guilds, NEW series \in Seq(Command),
           Takes(h, guilds, series), clean' \subseteq clean, ToldAreMembers',
           \A g \in Mending(h)' : status'[g] = "in",
           \A f \in Tracked : HomeOf(f) \notin guilds =>
               /\ Quiet(series, f)
               /\ Actual(f)' = Actual(f) /\ status'[HomeOf(f)] = status[HomeOf(f)]
               /\ HomeOf(f) \in Mending(h)' => HomeOf(f) \in repaired,
           \A f \in Tracked : HomeOf(f) \in guilds =>
               \E t : /\ Leads(series, f, Entry(f), t)
                      /\ HomeOf(f) \in clean' /\ Clean(f[1], status[HomeOf(f)], Actual(f), Entry(f))
                            => Clean(f[1], status'[HomeOf(f)], Actual(f)', t)
                      /\ HomeOf(f) \in Mending(h)'
                         /\ (HomeOf(f) \in repaired => Mended(f[1], Actual(f), Entry(f)))
                            => Mended(f[1], Actual(f)', t)
    PROVE  ContentIsDue(h)'
<1>1. /\ todo \in [Handlers -> Seq(Command)] /\ todo[h] = <<>> /\ about \in [Handlers -> SUBSET Guilds]
      /\ UNCHANGED storeVars /\ todo'[h] = series /\ about'[h] = guilds
  BY DEF TypeOK, WorldTypeOK, Takes
<1>2. \A f : Entry(f)' = Entry(f)
  BY <1>1, EntryUnchanged
<1>3. \A f \in Tracked : HomeOf(f) \notin about'[h] => Quiet(todo'[h], f)
  BY <1>1
<1>4. ASSUME NEW f \in Tracked PROVE \E e : Settles(h, f, e)' /\ Due(h, f, e)'
  <2>1. Due(h, f, Entry(f)) /\ Mending(h) = repaired
    BY <1>1, IdleIsDue
  <2>2. CASE HomeOf(f) \notin guilds
    <3>1. PICK e : e = Entry(f)
      OBVIOUS
    <3>2. Leads(series, f, e, e)
      BY <2>2, QuietLeads
    <3>3. Settles(h, f, e)'
      BY <1>1, <1>2, <3>1, <3>2 DEF Settles
    <3>4. Due(h, f, e)'
      BY <2>1, <2>2, <3>1 DEF Due
    <3> QED
      BY <3>3, <3>4
  <2>3. CASE HomeOf(f) \in guilds
    <3>1. PICK t : /\ Leads(series, f, Entry(f), t)
                   /\ HomeOf(f) \in clean' /\ Clean(f[1], status[HomeOf(f)], Actual(f), Entry(f))
                         => Clean(f[1], status'[HomeOf(f)], Actual(f)', t)
                   /\ HomeOf(f) \in Mending(h)'
                      /\ (HomeOf(f) \in repaired => Mended(f[1], Actual(f), Entry(f)))
                         => Mended(f[1], Actual(f)', t)
      BY <2>3
    <3>2. Settles(h, f, t)'
      BY <1>1, <1>2, <2>3, <3>1 DEF Settles
    <3>3. Due(h, f, t)'
      BY <2>1, <3>1 DEF Due
    <3> QED
      BY <3>2, <3>3
  <2> QED
    BY <2>2, <2>3
<1> QED
  BY <1>3, <1>4 DEF ContentIsDue

\* Changes in a guild the bot stays in.
LEMMA ChangeIsDue ==
    ASSUME TypeOK, NEW h \in Handlers, ContentIsDue(h), NEW g \in Guilds, NEW series \in Seq(Command),
           TakesChange(h, g, series), ToldAreMembers',
           \A f \in Tracked : HomeOf(f) # g => Quiet(series, f) /\ Actual(f)' = Actual(f),
           \A f \in Tracked : HomeOf(f) = g =>
               \E t : /\ Leads(series, f, Entry(f), t)
                      /\ Keeps(f[1], Actual(f), Entry(f), Actual(f)', t)
    PROVE  ContentIsDue(h)'
<1>1. /\ Takes(h, {g}, series) /\ status[g] = "in" /\ status' = status
      /\ repaired' = repaired /\ clean' = clean /\ todo[h] = <<>>
      /\ created \in [Handlers -> Guilds \union {None}] /\ created'[h] = None
  BY DEF TypeOK, WorldTypeOK, TakesChange, Takes
<1>2. Mending(h)' = repaired /\ Mending(h) = repaired
  BY <1>1 DEF Mending
<1>3. \A i \in Mending(h)' : status'[i] = "in"
  BY <1>1, <1>2 DEF ContentIsDue
<1>4. \A f \in Tracked : HomeOf(f) \notin {g} =>
               /\ Quiet(series, f)
               /\ Actual(f)' = Actual(f) /\ status'[HomeOf(f)] = status[HomeOf(f)]
               /\ HomeOf(f) \in Mending(h)' => HomeOf(f) \in repaired
  BY <1>1, <1>2
<1>5. ASSUME NEW f \in Tracked, HomeOf(f) \in {g}
      PROVE  \E t : /\ Leads(series, f, Entry(f), t)
                    /\ HomeOf(f) \in clean' /\ Clean(f[1], status[HomeOf(f)], Actual(f), Entry(f))
                          => Clean(f[1], status'[HomeOf(f)], Actual(f)', t)
                    /\ HomeOf(f) \in Mending(h)'
                       /\ (HomeOf(f) \in repaired => Mended(f[1], Actual(f), Entry(f)))
                          => Mended(f[1], Actual(f)', t)
  <2>1. HomeOf(f) = g
    BY <1>5
  <2>2. PICK t : Leads(series, f, Entry(f), t) /\ Keeps(f[1], Actual(f), Entry(f), Actual(f)', t)
    BY <2>1
  <2> QED
    BY <1>1, <1>2, <2>1, <2>2 DEF Keeps
<1> QED
  BY <1>1, <1>3, <1>4, <1>5, EventIsDue

LEMMA ThingLooks ==
    ASSUME WorldTypeOK, NEW i \in Things, NEW v, actual' = [actual EXCEPT ![i] = v],
           UNCHANGED <<joined, told>>, NEW f \in Tracked
    PROVE  /\ i \in Channels => Actual(f)' = IF f = Channel(i) THEN v ELSE Actual(f)
           /\ i \in Roles => Actual(f)' = IF f = Role(i) THEN v ELSE Actual(f)
           /\ i \in Emojis => Actual(f)' = IF f = Emoji(i) THEN v ELSE Actual(f)
<1>1. actual \in [Things -> Looks \union {None}] /\ joined' = joined /\ told' = told
  BY DEF WorldTypeOK
<1>2. f[1] \in {"channels", "roles", "emojis"} => Actual(f)' = IF f[2] = i THEN v ELSE Actual(f)
  BY <1>1, FieldCases DEF Actual, Things
<1>3. f[1] \in {"members", "guilds"} => Actual(f)' = Actual(f)
  BY <1>1 DEF Actual, Record, MembersOf
<1>4. \/ f[1] = "channels" /\ f[2] \in Channels
      \/ f[1] = "roles" /\ f[2] \in Roles
      \/ f[1] = "emojis" /\ f[2] \in Emojis
      \/ f[1] \in {"members", "guilds"}
  BY FieldCases
<1> QED
  BY <1>2, <1>3, <1>4, KindsApart, CacheAssumption

LEMMA ToldStay ==
    ASSUME NEW h, ContentIsDue(h), UNCHANGED <<status, joined, told>>
    PROVE  ToldAreMembers'
  BY DEF ContentIsDue, ToldAreMembers

LEMMA Homes ==
    ASSUME NEW f \in Tracked
    PROVE  /\ \A i : f = Channel(i) => HomeOf(f) = Home[i] /\ f[1] = "channels" /\ f[2] = i
           /\ \A i : f = Role(i) => HomeOf(f) = Home[i] /\ f[1] = "roles" /\ f[2] = i
           /\ \A i : f = Emoji(i) => HomeOf(f) = Home[i] /\ f[1] = "emojis" /\ f[2] = i
           /\ \A i : f = Guild(i) => HomeOf(f) = i /\ f[1] = "guilds" /\ f[2] = i
           /\ \A g, u : f = Member(g, u) => HomeOf(f) = g /\ f[1] = "members" /\ f[2] = <<g, u>>
  BY DEF HomeOf, Channel, Role, Emoji, Guild, Member

LEMMA ActualLooks ==
    ASSUME NEW f
    PROVE  /\ f[1] \in {"channels", "roles", "emojis"} => Actual(f) = actual[f[2]]
           /\ f[1] = "members" => Actual(f) = IF f[2] \in told THEN joined[f[2]] ELSE None
           /\ f[1] = "guilds" => Actual(f) = Record(f[2])
  BY DEF Actual

LEMMA HomesAreGuilds ==
    /\ \A i \in Channels : i \in Things /\ Home[i] \in Guilds /\ i \in At(Home[i], Channels)
    /\ \A i \in Roles : i \in Things /\ Home[i] \in Guilds /\ i \in At(Home[i], Roles)
    /\ \A i \in Emojis : i \in Things /\ Home[i] \in Guilds /\ i \in At(Home[i], Emojis)
  BY CacheAssumption DEF Things, At

LEMMA ChannelIsDue ==
    ASSUME TypeOK, NEW h \in Handlers, ContentIsDue(h), ChannelChanges(h) \/ PinsChange(h)
    PROVE  ContentIsDue(h)'
<1>1. CASE ChannelChanges(h)
  <2>1. PICK i \in Channels, v \in Looks \union {None} :
            /\ v # actual[i]
            /\ actual' = [actual EXCEPT ![i] = v]
            /\ TakesChange(h, Home[i], IF v = None THEN DeleteChannel(i) ELSE CacheChannel(i, v))
            /\ UNCHANGED <<joined, told>>
    BY <1>1 DEF ChannelChanges
  <2> DEFINE series == IF v = None THEN DeleteChannel(i) ELSE CacheChannel(i, v)
  <2>2. WorldTypeOK /\ Home[i] \in Guilds /\ i \in Things /\ status' = status
    BY <2>1, HomesAreGuilds DEF TypeOK, TakesChange
  <2>a. \E w : w \in Looks /\ (v # None => w = v)
    BY <2>1, <2>2 DEF WorldTypeOK
  <2>3. series \in Seq(Command)
    BY <2>a, HarmlessChannels, HarmlessIsCommand
  <2>4. ToldAreMembers'
    BY <2>1, <2>2, ToldStay
  <2>5. ASSUME NEW f \in Tracked, f # Channel(i)
        PROVE  Quiet(series, f) /\ Actual(f)' = Actual(f)
    BY <2>1, <2>2, <2>5, ChannelFunctions, ThingLooks
  <2>6. ASSUME NEW f \in Tracked, f = Channel(i)
        PROVE  \E t : Leads(series, f, Entry(f), t) /\ Keeps(f[1], Actual(f), Entry(f), Actual(f)', t)
    <3>a. f[1] = "channels" /\ f[2] = i
      BY <2>6, Homes
    <3>1. f[1] = "channels" /\ Actual(f) = actual[i] /\ Actual(f)' = v
      BY <2>1, <2>2, <2>6, <3>a, ActualLooks, ThingLooks
    <3>2. CASE v = None
      <4> DEFINE e == Entry(f)
                 t == Holds(None, IF e.value = None THEN e.mark ELSE "unlisted")
      <4>1. Leads(series, f, Entry(f), t)
        BY <2>6, <3>2, ChannelFunctions
      <4>2. Keeps("channels", actual[i], e, None, t)
        BY <2>1, <3>2, ThingGoes
      <4> QED
        BY <3>1, <3>2, <4>1, <4>2
    <3>3. CASE v # None
      <4>1. Leads(series, f, Entry(f), Holds(v, "listed"))
        BY <2>1, <2>6, <3>3, ChannelFunctions
      <4>2. Keeps("channels", actual[i], Entry(f), v, Holds(v, "listed"))
        BY <3>3, ThingKeeps
      <4> QED
        BY <3>1, <4>1, <4>2
    <3> QED
      BY <3>2, <3>3
  <2>7. TakesChange(h, Home[i], series)
    BY <2>1
  <2> HIDE DEF series
  <2>8. \A f \in Tracked : HomeOf(f) # Home[i] => f # Channel(i)
    BY Homes
  <2>9. ASSUME NEW f \in Tracked
        PROVE  \E t : Leads(series, f, Entry(f), t) /\ Keeps(f[1], Actual(f), Entry(f), Actual(f)', t)
    BY <2>3, <2>5, <2>6, QuietLeads, NothingChanges
  <2> QED
    BY <2>2, <2>3, <2>4, <2>5, <2>7, <2>8, <2>9, ChangeIsDue
<1>2. CASE PinsChange(h)
  <2>1. PICK i \in Channels : /\ actual[i] # None
                           /\ TakesChange(h, Home[i], UpdatePins(i)) /\ UNCHANGED <<actual, joined, told>>
    BY <1>2 DEF PinsChange
  <2>2. Home[i] \in Guilds /\ UNCHANGED worldVars
    BY <2>1, HomesAreGuilds DEF TakesChange, worldVars
  <2>3. ToldAreMembers' /\ \A f : Actual(f)' = Actual(f)
    BY <2>2, WorldUnchanged DEF ContentIsDue
  <2>4. UpdatePins(i) \in Seq(Command)
    <3>1. actual[i] \in Looks
      BY <2>1, HomesAreGuilds DEF TypeOK, WorldTypeOK
    <3> QED
      BY <3>1, HarmlessChannels, HarmlessIsCommand
  <2>5. \A f \in Tracked : HomeOf(f) # Home[i] => Quiet(UpdatePins(i), f)
    BY Homes, ChannelFunctions
  <2>6. \A f \in Tracked : Leads(UpdatePins(i), f, Entry(f), Entry(f))
    BY ChannelFunctions
  <2>7. ASSUME NEW f \in Tracked
        PROVE  \E t : Leads(UpdatePins(i), f, Entry(f), t) /\ Keeps(f[1], Actual(f), Entry(f), Actual(f)', t)
    BY <2>3, <2>6, NothingChanges
  <2> QED
    BY <2>1, <2>2, <2>3, <2>4, <2>5, <2>7, ChangeIsDue
<1> QED
  BY <1>1, <1>2

LEMMA EventSeries ==
    ASSUME TypeOK, NEW h \in Handlers, EventIsTaken(h), NEW guilds, NEW series, Takes(h, guilds, series)
    PROVE  series \in Seq(Command)
<1>1. WorldTypeOK /\ todo \in [Handlers -> Seq(Command)]
  BY DEF TypeOK
<1>2. PICK q \in Series : todo' = [todo EXCEPT ![h] = q]
  BY <1>1, EventTypes DEF TakesSeries, TakesOneOf
<1>3. todo'[h] = q /\ todo'[h] = series
  BY <1>1, <1>2 DEF Takes
<1> QED
  BY <1>1, <1>2, <1>3, SeriesTypes

\* What a list made of a set of ids says.
ListOf(items, S, a) == \A item : item \in items <=> \E i \in S : item = <<i, a[i]>>

LEMMA GivesLooks ==
    ASSUME NEW S, NEW a, NEW items, ListOf(items, S, a), NEW id
    PROVE  /\ Gives(items, id) <=> id \in S
           /\ id \in S => LookOf(items, id) = a[id]
<1> USE DEF ListOf
<1>1. Gives(items, id) <=> id \in S
  <2>1. ASSUME id \in S PROVE Gives(items, id)
    <3>1. <<id, a[id]>> \in items /\ <<id, a[id]>>[1] = id
      BY <2>1
    <3> QED
      BY <3>1 DEF Gives
  <2>2. ASSUME Gives(items, id) PROVE id \in S
    BY <2>2 DEF Gives
  <2> QED
    BY <2>1, <2>2
<1>2. ASSUME id \in S PROVE LookOf(items, id) = a[id]
  <2> DEFINE chosen == CHOOSE item \in items : item[1] = id
  <2>1. <<id, a[id]>> \in items /\ <<id, a[id]>>[1] = id
    BY <1>2
  <2>2. chosen \in items /\ chosen[1] = id
    BY <2>1
  <2> HIDE DEF chosen
  <2>3. PICK i \in S : chosen = <<i, a[i]>>
    BY <2>2
  <2>4. chosen[2] = a[id]
    BY <2>2, <2>3
  <2> QED
    BY <2>4 DEF LookOf, chosen
<1> QED
  BY <1>1, <1>2

LEMMA EmojisCallResult ==
    ASSUME NEW f, NEW e, NEW g, NEW items
    PROVE  Result(EmojisCall(g, items), f, e) =
               (IF f[1] = "emojis" /\ HomeOf(f) = g
               THEN (IF Gives(items, f[2]) THEN Stored(e, LookOf(items, f[2])) ELSE Removed(e))
               ELSE e)
<1>1. Touches(EmojisCall(g, items), f) <=> f[1] = "emojis" /\ HomeOf(f) = g
  BY GuildCallTouching
<1>2. EmojisCall(g, items).do = "cache_emojis" /\ EmojisCall(g, items).items = items
  BY DEF EmojisCall
<1>3. Effect(EmojisCall(g, items), f, e) = ReadEffect(EmojisCall(g, items), f, e)
  BY <1>2 DEF Effect
<1>4. ReadEffect(EmojisCall(g, items), f, e) = (IF Gives(items, f[2])
                                                THEN Stored(e, LookOf(items, f[2])) ELSE Removed(e))
  BY <1>2 DEF ReadEffect, MemberCalls
<1> QED
  BY <1>1, <1>3, <1>4 DEF Result

LEMMA RoleIsDue ==
    ASSUME TypeOK, NEW h \in Handlers, ContentIsDue(h), RoleChanges(h)
    PROVE  ContentIsDue(h)'
<1>1. PICK i \in Roles, v \in Looks \union {None} :
          /\ v # actual[i]
          /\ actual' = [actual EXCEPT ![i] = v]
          /\ TakesChange(h, Home[i], IF v = None THEN DeleteRole(Home[i], i) ELSE CacheRole(Home[i], i, v))
          /\ UNCHANGED <<joined, told>>
  BY DEF RoleChanges
<1> DEFINE g == Home[i]
           series == IF v = None THEN DeleteRole(g, i) ELSE CacheRole(g, i, v)
<1>2. /\ WorldTypeOK /\ g \in Guilds /\ i \in At(g, Roles) /\ i \in Things /\ status' = status
      /\ TakesChange(h, g, series)
  BY <1>1, HomesAreGuilds DEF TypeOK, TakesChange
<1>3. series \in Seq(Command)
  BY <1>2, HarmlessRoles, HarmlessIsCommand
<1>4. ToldAreMembers'
  BY <1>1, <1>2, ToldStay
<1>5. ASSUME NEW f \in Tracked, f # Role(i)
      PROVE  Quiet(series, f) /\ Actual(f)' = Actual(f)
  <2>1. Quiet(series, f)
    BY <1>2, <1>5, RoleFunctions
  <2>2. Actual(f)' = Actual(f)
    BY <1>1, <1>2, <1>5, ThingLooks
  <2> QED
    BY <2>1, <2>2
<1>6. ASSUME NEW f \in Tracked, f = Role(i)
      PROVE  \E t : Leads(series, f, Entry(f), t) /\ Keeps(f[1], Actual(f), Entry(f), Actual(f)', t)
  <2>a. f[1] = "roles" /\ f[2] = i
    BY <1>6, Homes
  <2>1. Actual(f)' = v
    BY <1>1, <1>2, <1>6, ThingLooks
  <2>2. CASE v = None
    <3>1. Leads(series, f, Entry(f), Holds(None, "unlisted"))
      BY <1>2, <1>6, <2>2, RoleFunctions
    <3>2. Keeps("roles", Actual(f), Entry(f), None, Holds(None, "unlisted"))
      BY ThingGoes
    <3> QED
      BY <2>a, <2>1, <2>2, <3>1, <3>2
  <2>3. CASE v # None
    <3>1. Leads(series, f, Entry(f), Holds(v, "listed"))
      BY <1>2, <1>6, <2>3, RoleFunctions
    <3>2. Keeps("roles", Actual(f), Entry(f), v, Holds(v, "listed"))
      BY <2>3, ThingKeeps
    <3> QED
      BY <2>a, <2>1, <3>1, <3>2
  <2> QED
    BY <2>2, <2>3
<1> HIDE DEF series
<1>7. \A f \in Tracked : HomeOf(f) # g => f # Role(i)
  BY Homes
<1>8. ASSUME NEW f \in Tracked
      PROVE  \E t : Leads(series, f, Entry(f), t) /\ Keeps(f[1], Actual(f), Entry(f), Actual(f)', t)
  BY <1>3, <1>5, <1>6, QuietLeads, NothingChanges
<1> QED
  BY <1>2, <1>3, <1>4, <1>5, <1>7, <1>8, ChangeIsDue

LEMMA EmojisAreDue ==
    ASSUME TypeOK, NEW h \in Handlers, ContentIsDue(h), EmojisChange(h)
    PROVE  ContentIsDue(h)'
<1>1. PICK i \in Emojis, v \in Looks \union {None} :
          /\ actual' = [actual EXCEPT ![i] = v]
          /\ TakesChange(h, Home[i], CacheEmojis(Home[i], EmojiList(Home[i])'))
          /\ UNCHANGED <<joined, told>>
  BY DEF EmojisChange
<1>p. PICK items : items = EmojiList(Home[i])'
  OBVIOUS
<1> DEFINE g == Home[i]
           series == CacheEmojis(g, items)
<1>2. /\ WorldTypeOK /\ g \in Guilds /\ i \in Things /\ status' = status
      /\ TakesChange(h, g, series) /\ Takes(h, {g}, series)
  BY <1>1, <1>p, HomesAreGuilds DEF TypeOK, TakesChange
<1>3. series \in Seq(Command)
  BY <1>2, EventSeries DEF EventIsTaken
<1>4. ToldAreMembers'
  BY <1>1, <1>2, ToldStay
<1> DEFINE S == {e \in Emojis : Home[e] = g /\ actual'[e] # None}
<1>5. ListOf(items, S, actual')
  BY <1>p DEF EmojiList, ThingsOf, ListOf
<1>6. ASSUME NEW f \in Tracked, ~(f[1] = "emojis" /\ HomeOf(f) = g)
      PROVE  Quiet(series, f) /\ Actual(f)' = Actual(f)
  <2>1. Quiet(series, f)
    BY <1>2, <1>6, EmojiFunctions
  <2>2. f # Emoji(i)
    BY <1>6, Homes
  <2>3. Actual(f)' = Actual(f)
    BY <1>1, <1>2, <2>2, ThingLooks
  <2> QED
    BY <2>1, <2>3
<1>7. ASSUME NEW f \in Tracked, f[1] = "emojis", HomeOf(f) = g
      PROVE  \E t : Leads(series, f, Entry(f), t) /\ Keeps(f[1], Actual(f), Entry(f), Actual(f)', t)
  <2>1. f[2] \in Emojis /\ Home[f[2]] = g /\ Actual(f)' = actual'[f[2]]
    BY <1>7, FieldCases DEF Actual
  <2>2. /\ Gives(items, f[2]) <=> actual'[f[2]] # None
        /\ actual'[f[2]] # None => LookOf(items, f[2]) = actual'[f[2]]
    <3>1. f[2] \in S <=> actual'[f[2]] # None
      BY <2>1
    <3> HIDE DEF S
    <3>2. (Gives(items, f[2]) <=> f[2] \in S) /\ (f[2] \in S => LookOf(items, f[2]) = actual'[f[2]])
      BY <1>5, GivesLooks
    <3> QED
      BY <3>1, <3>2
  <2>a. PICK t : t = Result(EmojisCall(g, items), f, Entry(f))
    OBVIOUS
  <2>3. Leads(series, f, Entry(f), t)
    BY <1>2, <2>a, EmojiFunctions
  <2>4. t = IF Gives(items, f[2]) THEN Stored(Entry(f), LookOf(items, f[2])) ELSE Removed(Entry(f))
    BY <1>7, <2>a, EmojisCallResult
  <2>5. Keeps("emojis", Actual(f), Entry(f), Actual(f)', t)
    BY <2>1, <2>2, <2>4, ThingKeeps, ThingGoes
  <2> QED
    BY <1>7, <2>3, <2>5
<1> HIDE DEF series
<1>8. ASSUME NEW f \in Tracked
      PROVE  \E t : Leads(series, f, Entry(f), t) /\ Keeps(f[1], Actual(f), Entry(f), Actual(f)', t)
  BY <1>3, <1>6, <1>7, QuietLeads, NothingChanges
<1> QED
  BY <1>2, <1>3, <1>4, <1>6, <1>8, ChangeIsDue

LEMMA GuildIsDue ==
    ASSUME TypeOK, NEW h \in Handlers, ContentIsDue(h), GuildChanges(h)
    PROVE  ContentIsDue(h)'
<1>1. PICK g \in Guilds : TakesChange(h, g, UpdateGuild(g)) /\ UNCHANGED <<actual, joined, told>>
  BY DEF GuildChanges
<1>2. UNCHANGED worldVars
  BY <1>1 DEF TakesChange, worldVars
<1>3. ToldAreMembers' /\ \A f : Actual(f)' = Actual(f)
  BY <1>2, WorldUnchanged DEF ContentIsDue
<1>4. UpdateGuild(g) \in Seq(Command)
  BY HarmlessGuilds, HarmlessIsCommand
<1>5. \A f \in Tracked : HomeOf(f) # g => Quiet(UpdateGuild(g), f)
  BY UpdateGuildLeads
<1>6. ASSUME NEW f \in Tracked
      PROVE  \E t : Leads(UpdateGuild(g), f, Entry(f), t) /\ Keeps(f[1], Actual(f), Entry(f), Actual(f)', t)
  BY <1>3, UpdateGuildLeads, NothingChanges
<1> QED
  BY <1>1, <1>3, <1>4, <1>5, <1>6, ChangeIsDue

\* Users are not of a guild.
LEMMA UserIsDue ==
    ASSUME TypeOK, NEW h \in Handlers, ContentIsDue(h), UserWrites(h)
    PROVE  ContentIsDue(h)'
<1>1. PICK u \in Users : /\ Takes(h, {}, CacheUser(u, None))
                         /\ created' = [created EXCEPT ![h] = None]
                         /\ UNCHANGED <<worldVars, repaired, clean>>
  BY DEF UserWrites
<1>2. CacheUser(u, None) \in Seq(Command)
  BY HarmlessUsers, HarmlessIsCommand
<1>3. status' = status /\ ToldAreMembers' /\ \A f : Actual(f)' = Actual(f)
  BY <1>1, WorldUnchanged DEF ContentIsDue
<1>4. Mending(h)' = repaired /\ Mending(h) = repaired
  BY <1>1 DEF Takes, Mending, TypeOK, WorldTypeOK
<1>5. \A g \in Mending(h)' : status'[g] = "in"
  BY <1>3, <1>4 DEF ContentIsDue
<1>6. \A f \in Tracked : Quiet(CacheUser(u, None), f)
  BY UsersQuiet
<1> QED
  BY <1>1, <1>2, <1>3, <1>4, <1>5, <1>6, EventIsDue

LEMMA MembersCounted ==
    ASSUME WorldTypeOK, NEW g \in Guilds
    PROVE  /\ MembersOf(g) \subseteq Users /\ IsFiniteSet(MembersOf(g)) /\ Cardinality(MembersOf(g)) \in Nat
           /\ \A u \in Users \ MembersOf(g) :
                 Cardinality(MembersOf(g) \union {u}) = Cardinality(MembersOf(g)) + 1
           /\ \A u \in MembersOf(g) : /\ Cardinality(MembersOf(g) \ {u}) = Cardinality(MembersOf(g)) - 1
                                      /\ Cardinality(MembersOf(g)) > 0
<1>1. MembersOf(g) \subseteq Users /\ IsFiniteSet(MembersOf(g))
  BY FS_Subset, CacheAssumption DEF MembersOf
<1>2. Cardinality(MembersOf(g)) \in Nat
  BY <1>1, FS_CardinalityType
<1>3. ASSUME NEW u \in Users \ MembersOf(g)
      PROVE  Cardinality(MembersOf(g) \union {u}) = Cardinality(MembersOf(g)) + 1
  BY <1>1, FS_AddElement
<1>4. ASSUME NEW u \in MembersOf(g)
      PROVE  Cardinality(MembersOf(g) \ {u}) = Cardinality(MembersOf(g)) - 1 /\ Cardinality(MembersOf(g)) > 0
  <2>1. Cardinality(MembersOf(g) \ {u}) = Cardinality(MembersOf(g)) - 1
    BY <1>1, FS_RemoveElement
  <2>2. Cardinality(MembersOf(g)) # 0
    BY <1>1, FS_EmptySet
  <2> QED
    BY <1>2, <2>1, <2>2
<1> QED
  BY <1>1, <1>2, <1>3, <1>4

\* One member who comes, goes or changes.
LEMMA MemberLooks ==
    ASSUME WorldTypeOK, NEW g \in Guilds, NEW u \in Users, NEW v, joined' = [joined EXCEPT ![<<g, u>>] = v],
           actual' = actual, told' \ {<<g, u>>} = told \ {<<g, u>>}, NEW f \in Tracked
    PROVE  /\ f = Member(g, u) => Actual(f)' = IF <<g, u>> \in told' THEN v ELSE None
           /\ f # Member(g, u) /\ f # Guild(g) => Actual(f)' = Actual(f)
           /\ MembersOf(g)' = IF v = None THEN MembersOf(g) \ {u} ELSE MembersOf(g) \union {u}
<1>1. joined \in [MemberIds -> Looks \union {None}] /\ <<g, u>> \in MemberIds
  BY DEF WorldTypeOK, MemberIds
<1>2. MembersOf(g)' = IF v = None THEN MembersOf(g) \ {u} ELSE MembersOf(g) \union {u}
  <2>1. \A i \in Users : <<g, i>> \in MemberIds /\ joined'[<<g, i>>] = IF i = u THEN v ELSE joined[<<g, i>>]
    BY <1>1 DEF MemberIds
  <2> QED
    BY <2>1 DEF MembersOf
<1>3. ASSUME NEW i \in Guilds, i # g PROVE Record(i)' = Record(i)
  <2>1. \A n \in Users : <<i, n>> \in MemberIds /\ joined'[<<i, n>>] = joined[<<i, n>>]
    BY <1>1, <1>3 DEF MemberIds
  <2>2. MembersOf(i)' = MembersOf(i)
    BY <2>1 DEF MembersOf
  <2> QED
    BY <2>2 DEF Record
<1>4. CASE f[1] = "members"
  <2>1. f[2] \in MemberIds /\ f = Member(f[2][1], f[2][2]) /\ f[2] = <<f[2][1], f[2][2]>>
    BY <1>4, FieldCases
  <2>2. f = Member(g, u) <=> f[2] = <<g, u>>
    BY <2>1 DEF Member
  <2>3. Actual(f)' = IF f[2] \in told' THEN joined'[f[2]] ELSE None
    BY <1>4 DEF Actual
  <2>4. Actual(f) = IF f[2] \in told THEN joined[f[2]] ELSE None
    BY <1>4 DEF Actual
  <2>5. joined'[f[2]] = IF f[2] = <<g, u>> THEN v ELSE joined[f[2]]
    BY <1>1, <2>1
  <2>6. f[2] # <<g, u>> => (f[2] \in told' <=> f[2] \in told)
    OBVIOUS
  <2>7. f[2] = <<g, u>> => Actual(f)' = IF <<g, u>> \in told' THEN v ELSE None
    BY <2>3, <2>5
  <2>8. f[2] # <<g, u>> => Actual(f)' = Actual(f)
    BY <2>3, <2>4, <2>5, <2>6
  <2> QED
    BY <1>2, <2>2, <2>7, <2>8
<1>5. CASE f[1] = "guilds"
  <2>1. f[2] \in Guilds /\ f = Guild(f[2]) /\ f # Member(g, u)
    BY <1>5, FieldCases, Homes
  <2>2. f # Guild(g) => f[2] # g
    BY <2>1
  <2>3. Actual(f) = Record(f[2]) /\ Actual(f)' = Record(f[2])'
    BY <1>5 DEF Actual
  <2> QED
    BY <1>2, <1>3, <2>1, <2>2, <2>3
<1>6. CASE f[1] \notin {"members", "guilds"}
  <2>1. f # Member(g, u) /\ f # Guild(g)
    BY <1>6, Homes
  <2>2. Actual(f)' = Actual(f)
    BY <1>6 DEF Actual
  <2> QED
    BY <1>2, <2>1, <2>2
<1> QED
  BY <1>4, <1>5, <1>6

\* Members told of.
LEMMA ToldLooks ==
    ASSUME UNCHANGED <<actual, joined>>, NEW f \in Tracked
    PROVE  /\ f[1] = "members" => Actual(f)' = IF f[2] \in told' THEN joined[f[2]] ELSE None
           /\ f[1] # "members" => Actual(f)' = Actual(f)
           /\ f[1] = "members" /\ (f[2] \in told' <=> f[2] \in told) => Actual(f)' = Actual(f)
<1>1. f[1] = "members" => Actual(f)' = IF f[2] \in told' THEN joined[f[2]] ELSE None
  BY DEF Actual
<1>2. f[1] = "guilds" => Actual(f)' = Actual(f)
  BY DEF Actual, Record, MembersOf
<1>3. f[1] \notin {"members", "guilds"} => Actual(f)' = Actual(f)
  BY DEF Actual
<1> QED
  BY <1>1, <1>2, <1>3, ActualLooks

LEMMA JoiningIsDue ==
    ASSUME TypeOK, NEW h \in Handlers, ContentIsDue(h), MemberJoins(h)
    PROVE  ContentIsDue(h)'
<1>1. PICK g \in Guilds, u \in Users, v \in Looks :
          /\ joined[<<g, u>>] = None
          /\ joined' = [joined EXCEPT ![<<g, u>>] = v] /\ told' = told \union {<<g, u>>}
          /\ TakesChange(h, g, AddMember(g, u, v))
          /\ actual' = actual
  BY DEF MemberJoins
<1> DEFINE series == AddMember(g, u, v)
           n == Cardinality(MembersOf(g))
<1>2. /\ WorldTypeOK /\ v # None /\ status[g] = "in" /\ status' = status
      /\ joined \in [MemberIds -> Looks \union {None}] /\ <<g, u>> \in MemberIds
  BY <1>1, CacheAssumption DEF TypeOK, WorldTypeOK, TakesChange, MemberIds
<1>3. series \in Seq(Command)
  BY HarmlessMembers, HarmlessIsCommand
<1>4. ToldAreMembers'
  BY <1>1, <1>2 DEF ContentIsDue, ToldAreMembers, WorldTypeOK
<1>5. u \in Users \ MembersOf(g) /\ n \in Nat /\ Cardinality(MembersOf(g) \union {u}) = n + 1
  BY <1>1, <1>2, MembersCounted DEF MembersOf
<1>6. ASSUME NEW f \in Tracked
      PROVE  /\ f = Member(g, u) => Actual(f)' = v
             /\ f # Member(g, u) /\ f # Guild(g) => Actual(f)' = Actual(f)
             /\ MembersOf(g)' = MembersOf(g) \union {u}
  <2>1. told' \ {<<g, u>>} = told \ {<<g, u>>} /\ <<g, u>> \in told'
    BY <1>1
  <2>2. /\ joined' = [joined EXCEPT ![<<g, u>>] = v] /\ actual' = actual /\ WorldTypeOK /\ v # None
    BY <1>1, <1>2
  <2> HIDE DEF series, n
  <2>3. /\ f = Member(g, u) => Actual(f)' = IF <<g, u>> \in told' THEN v ELSE None
        /\ f # Member(g, u) /\ f # Guild(g) => Actual(f)' = Actual(f)
        /\ MembersOf(g)' = IF v = None THEN MembersOf(g) \ {u} ELSE MembersOf(g) \union {u}
    BY <2>1, <2>2, MemberLooks
  <2> QED
    BY <2>1, <2>2, <2>3
<1>7. ASSUME NEW f \in Tracked
      PROVE  \E t : Leads(series, f, Entry(f), t) /\ Keeps(f[1], Actual(f), Entry(f), Actual(f)', t)
  <2>1. CASE f = Member(g, u)
    <3>1. f[1] = "members" /\ Actual(f)' = v
      BY <1>6, <2>1, Homes
    <3>2. Leads(series, f, Entry(f), Stored(Entry(f), v))
      BY <2>1, MemberFunctions
    <3>3. Keeps("members", Actual(f), Entry(f), v, Stored(Entry(f), v))
      BY <1>2, ThingKeeps
    <3> QED
      BY <3>1, <3>2, <3>3
  <2>2. CASE f = Guild(g)
    <3>1. f[1] = "guilds" /\ f[2] = g
      BY <2>2, Homes
    <3>2. Actual(f) = [member_count |-> n, unavailable |-> FALSE]
      BY <3>1 DEF Actual, Record
    <3>3. Actual(f)' = [member_count |-> n + 1, unavailable |-> FALSE]
      BY <1>5, <1>6, <3>1 DEF Actual, Record
    <3>4. Leads(series, f, Entry(f), Joined(Entry(f)))
      BY <2>2, MemberFunctions
    <3> HIDE DEF n
    <3>5. Keeps("guilds", Actual(f), Entry(f), Actual(f)', Joined(Entry(f)))
      BY <1>5, <3>2, <3>3, GuildCounts
    <3> QED
      BY <3>1, <3>4, <3>5
  <2>3. CASE f # Member(g, u) /\ f # Guild(g)
    <3>1. Quiet(series, f)
      BY <2>3, MemberFunctions
    <3> HIDE DEF series
    <3> QED
      BY <1>3, <1>6, <2>3, <3>1, QuietLeads, NothingChanges
  <2> QED
    BY <2>1, <2>2, <2>3
<1>8. ASSUME NEW f \in Tracked, HomeOf(f) # g PROVE Quiet(series, f) /\ Actual(f)' = Actual(f)
  <2>1. f # Member(g, u) /\ f # Guild(g)
    BY <1>8, Homes
  <2> QED
    BY <1>6, <2>1, MemberFunctions
<1> HIDE DEF series
<1>9. TakesChange(h, g, series)
  BY <1>1 DEF series
<1> QED
  BY <1>3, <1>4, <1>7, <1>8, <1>9, ChangeIsDue

LEMMA LeavingIsDue ==
    ASSUME TypeOK, NEW h \in Handlers, ContentIsDue(h), MemberLeaves(h)
    PROVE  ContentIsDue(h)'
<1>g. PICK g \in Guilds : \E u \in MembersOf(g) :
          /\ joined' = [joined EXCEPT ![<<g, u>>] = None] /\ told' = told \ {<<g, u>>}
          /\ TakesChange(h, g, RemoveMember(g, u))
          /\ actual' = actual
  BY DEF MemberLeaves
<1>1. PICK u \in MembersOf(g) :
          /\ joined' = [joined EXCEPT ![<<g, u>>] = None] /\ told' = told \ {<<g, u>>}
          /\ TakesChange(h, g, RemoveMember(g, u))
          /\ actual' = actual
  BY <1>g
<1> DEFINE series == RemoveMember(g, u)
           n == Cardinality(MembersOf(g))
           v == joined[<<g, u>>]
<1>2. /\ WorldTypeOK /\ status[g] = "in" /\ status' = status
      /\ joined \in [MemberIds -> Looks \union {None}]
      /\ TakesChange(h, g, series) /\ Takes(h, {g}, series)
  BY <1>1 DEF TypeOK, WorldTypeOK, TakesChange
<1>3. u \in Users /\ <<g, u>> \in MemberIds /\ v \in Looks
  BY <1>2, MemberOf
<1>4. series \in Seq(Command)
  BY <1>2, EventSeries DEF EventIsTaken
<1>5. ToldAreMembers'
  <2>1. \A m \in told' : m \in told /\ m \in MemberIds /\ m # <<g, u>>
    BY <1>1, <1>2 DEF WorldTypeOK
  <2>2. \A m \in told' : joined'[m] = joined[m]
    BY <1>1, <1>2, <2>1
  <2> QED
    BY <1>2, <2>1, <2>2 DEF ContentIsDue, ToldAreMembers
<1>6. n \in Nat /\ n > 0 /\ Cardinality(MembersOf(g) \ {u}) = n - 1
  BY <1>2, MembersCounted
<1>7. told' \ {<<g, u>>} = told \ {<<g, u>>} /\ <<g, u>> \notin told'
  BY <1>1
<1>8. ASSUME NEW f \in Tracked
      PROVE  /\ f = Member(g, u) => Actual(f)' = None
             /\ f # Member(g, u) /\ f # Guild(g) => Actual(f)' = Actual(f)
             /\ MembersOf(g)' = MembersOf(g) \ {u}
  <2>1. /\ f = Member(g, u) => Actual(f)' = IF <<g, u>> \in told' THEN None ELSE None
        /\ f # Member(g, u) /\ f # Guild(g) => Actual(f)' = Actual(f)
        /\ MembersOf(g)' = IF None = None THEN MembersOf(g) \ {u} ELSE MembersOf(g) \union {u}
    BY <1>1, <1>2, <1>3, <1>7, MemberLooks
  <2> QED
    BY <2>1
<1>9. ASSUME NEW f \in Tracked
      PROVE  /\ f # Member(g, u) /\ f # Guild(g) => Quiet(series, f)
             /\ f = Member(g, u) => Leads(series, f, Entry(f), Holds(None, "unlisted"))
             /\ f = Guild(g) => Leads(series, f, Entry(f), Left(Entry(f)))
  <2>1. /\ f # Member(g, u) /\ f # Guild(g) => Quiet(AddMember(g, u, v), f) /\ Quiet(RemoveMember(g, u), f)
        /\ f = Member(g, u) => \A e : /\ Leads(AddMember(g, u, v), f, e, Stored(e, v))
                                      /\ Leads(RemoveMember(g, u), f, e, Holds(None, "unlisted"))
        /\ f = Guild(g) => \A e : /\ Leads(AddMember(g, u, v), f, e, Joined(e))
                                  /\ Leads(RemoveMember(g, u), f, e, Left(e))
    BY <1>3, MemberFunctions
  <2> QED
    BY <2>1
<1> HIDE DEF series
<1>10. ASSUME NEW f \in Tracked
       PROVE  \E t : Leads(series, f, Entry(f), t) /\ Keeps(f[1], Actual(f), Entry(f), Actual(f)', t)
  <2>1. CASE f = Member(g, u)
    <3>1. f[1] = "members" /\ Actual(f)' = None
      BY <1>8, <2>1, Homes
    <3>2. Keeps("members", Actual(f), Entry(f), None, Holds(None, "unlisted"))
      BY ThingGoes
    <3> QED
      BY <1>9, <2>1, <3>1, <3>2
  <2>2. CASE f = Guild(g)
    <3>1. f[1] = "guilds" /\ f[2] = g
      BY <2>2, Homes
    <3>2. Actual(f) = [member_count |-> n, unavailable |-> FALSE]
      BY <3>1 DEF Actual, Record
    <3>3. Actual(f)' = [member_count |-> n - 1, unavailable |-> FALSE]
      BY <1>6, <1>8, <3>1 DEF Actual, Record
    <3> HIDE DEF n
    <3>4. Keeps("guilds", Actual(f), Entry(f), Actual(f)', Left(Entry(f)))
      BY <1>6, <3>2, <3>3, GuildCounts
    <3> QED
      BY <1>9, <2>2, <3>1, <3>4
  <2>3. CASE f # Member(g, u) /\ f # Guild(g)
    BY <1>4, <1>8, <1>9, <2>3, QuietLeads, NothingChanges
  <2> QED
    BY <2>1, <2>2, <2>3
<1>11. ASSUME NEW f \in Tracked, HomeOf(f) # g PROVE Quiet(series, f) /\ Actual(f)' = Actual(f)
  <2>1. f # Member(g, u) /\ f # Guild(g)
    BY <1>11, Homes
  <2> QED
    BY <1>8, <1>9, <2>1
<1> QED
  BY <1>2, <1>4, <1>5, <1>10, <1>11, ChangeIsDue

LEMMA MemberChangeIsDue ==
    ASSUME TypeOK, NEW h \in Handlers, ContentIsDue(h), MemberChanges(h)
    PROVE  ContentIsDue(h)'
<1>g. PICK g \in Guilds, v \in Looks : \E u \in MembersOf(g) :
          /\ joined' = [joined EXCEPT ![<<g, u>>] = v]
          /\ TakesChange(h, g, UpdateMember(g, u, v))
          /\ UNCHANGED <<actual, told>>
  BY DEF MemberChanges
<1>1. PICK u \in MembersOf(g) :
          /\ joined' = [joined EXCEPT ![<<g, u>>] = v]
          /\ TakesChange(h, g, UpdateMember(g, u, v))
          /\ UNCHANGED <<actual, told>>
  BY <1>g
<1> DEFINE series == UpdateMember(g, u, v)
<1>2. /\ WorldTypeOK /\ v # None /\ status[g] = "in" /\ status' = status
      /\ joined \in [MemberIds -> Looks \union {None}] /\ u \in Users /\ <<g, u>> \in MemberIds
      /\ joined[<<g, u>>] # None
  BY <1>1, CacheAssumption DEF TypeOK, WorldTypeOK, TakesChange, MemberIds, MembersOf
<1>3. series \in Seq(Command)
  BY <1>2, HarmlessMembers, HarmlessIsCommand
<1>4. ToldAreMembers'
  BY <1>1, <1>2 DEF ContentIsDue, ToldAreMembers, WorldTypeOK
<1>5. ASSUME NEW f \in Tracked
      PROVE  /\ f = Member(g, u) => Actual(f)' = IF <<g, u>> \in told THEN v ELSE None
             /\ f # Member(g, u) => Actual(f)' = Actual(f)
  <2>1. /\ f = Member(g, u) => Actual(f)' = IF <<g, u>> \in told' THEN v ELSE None
        /\ f # Member(g, u) /\ f # Guild(g) => Actual(f)' = Actual(f)
        /\ MembersOf(g)' = IF v = None THEN MembersOf(g) \ {u} ELSE MembersOf(g) \union {u}
    BY <1>1, <1>2, MemberLooks
  <2>2. MembersOf(g)' = MembersOf(g)
    BY <1>1, <1>2, <2>1
  <2>3. ASSUME f = Guild(g) PROVE Actual(f)' = Actual(f)
    <3>1. f[1] = "guilds" /\ f[2] = g
      BY <2>3, Homes
    <3> QED
      BY <2>2, <3>1 DEF Actual, Record
  <2> QED
    BY <1>1, <2>1, <2>3
<1>6. ASSUME NEW f \in Tracked
      PROVE  \E t : Leads(series, f, Entry(f), t) /\ Keeps(f[1], Actual(f), Entry(f), Actual(f)', t)
  <2>1. CASE f = Member(g, u)
    <3>1. f[1] = "members" /\ f[2] = <<g, u>>
      BY <2>1, Homes
    <3>2. Leads(series, f, Entry(f), Revised(Entry(f), v))
      BY <1>2, <2>1, MemberCallFunctions
    <3>3. Actual(f) = IF <<g, u>> \in told THEN joined[<<g, u>>] ELSE None
      BY <3>1, ActualLooks
    <3>4. Keeps("members", Actual(f), Entry(f), Actual(f)', Revised(Entry(f), v))
      BY <1>2, <1>5, <2>1, <3>3, MemberRevised
    <3> QED
      BY <3>1, <3>2, <3>4
  <2>2. CASE f # Member(g, u)
    <3>1. Quiet(series, f)
      BY <1>2, <2>2, MemberCallFunctions
    <3> HIDE DEF series
    <3> QED
      BY <1>3, <1>5, <2>2, <3>1, QuietLeads, NothingChanges
  <2> QED
    BY <2>1, <2>2
<1>7. ASSUME NEW f \in Tracked, HomeOf(f) # g PROVE Quiet(series, f) /\ Actual(f)' = Actual(f)
  <2>1. f # Member(g, u)
    BY <1>7, Homes
  <2> QED
    BY <1>2, <1>5, <2>1, MemberCallFunctions
<1>8. TakesChange(h, g, series)
  BY <1>1
<1> HIDE DEF series
<1> QED
  BY <1>3, <1>4, <1>6, <1>7, <1>8, ChangeIsDue

\* Members told of: the cache has, or gets, each as it is.
LEMMA TellingIsDue ==
    ASSUME TypeOK, NEW h \in Handlers, ContentIsDue(h), NEW g \in Guilds, NEW series \in Seq(Command),
           TakesChange(h, g, series), UNCHANGED <<actual, joined>>,
           NEW members \in SUBSET MembersOf(g), told' = told \union ({g} \X members),
           \A f \in Tracked : f[1] = "members" =>
               \/ Quiet(series, f) /\ ~(HomeOf(f) = g /\ IdOf(f) \in members)
               \/ HomeOf(f) = g /\ IdOf(f) \in members
                  /\ Leads(series, f, Entry(f), Stored(Entry(f), joined[f[2]])),
           \A f \in Tracked : f[1] # "members" =>
               \/ Quiet(series, f)
               \/ HomeOf(f) = g /\ \E t : /\ Leads(series, f, Entry(f), t)
                                          /\ Keeps(f[1], Actual(f), Entry(f), Actual(f), t)
    PROVE  ContentIsDue(h)'
<1>1. /\ WorldTypeOK /\ status[g] = "in" /\ status' = status /\ told \subseteq MemberIds
  BY DEF TypeOK, WorldTypeOK, TakesChange
<1>2. ToldAreMembers'
  <2>1. \A m \in {g} \X members : m[1] = g /\ joined[m] # None
    BY DEF MembersOf
  <2> QED
    BY <1>1, <2>1 DEF ContentIsDue, ToldAreMembers
<1>3. ASSUME NEW f \in Tracked, f[1] # "members"
      PROVE  /\ Actual(f)' = Actual(f)
             /\ HomeOf(f) # g => Quiet(series, f)
             /\ \E t : Leads(series, f, Entry(f), t) /\ Keeps(f[1], Actual(f), Entry(f), Actual(f)', t)
  BY <1>3, ToldLooks, QuietLeads, NothingChanges
<1>4. ASSUME NEW f \in Tracked, f[1] = "members"
      PROVE  /\ HomeOf(f) # g => Quiet(series, f) /\ Actual(f)' = Actual(f)
             /\ \E t : Leads(series, f, Entry(f), t) /\ Keeps(f[1], Actual(f), Entry(f), Actual(f)', t)
  <2>1. /\ f[2] = <<f[2][1], f[2][2]>> /\ HomeOf(f) = f[2][1] /\ IdOf(f) = f[2][2]
    BY <1>4, FieldCases
  <2>2. f[2] \in {g} \X members <=> HomeOf(f) = g /\ IdOf(f) \in members
    BY <2>1
  <2>3. CASE Quiet(series, f) /\ ~(HomeOf(f) = g /\ IdOf(f) \in members)
    <3>1. Actual(f)' = Actual(f)
      BY <1>4, <2>2, <2>3, ToldLooks
    <3> QED
      BY <2>3, <3>1, QuietLeads, NothingChanges
  <2>4. CASE HomeOf(f) = g /\ IdOf(f) \in members
             /\ Leads(series, f, Entry(f), Stored(Entry(f), joined[f[2]]))
    <3>1. f[2] \in told' /\ joined[f[2]] # None
      BY <2>1, <2>2, <2>4 DEF MembersOf
    <3>2. Actual(f)' = joined[f[2]]
      BY <1>4, <3>1, ToldLooks
    <3>3. Keeps("members", Actual(f), Entry(f), joined[f[2]], Stored(Entry(f), joined[f[2]]))
      BY <3>1, ThingKeeps
    <3> QED
      BY <1>4, <2>4, <3>2, <3>3
  <2> QED
    BY <1>4, <2>3, <2>4
<1> QED
  BY <1>2, <1>3, <1>4, ChangeIsDue

LEMMA SeeingIsDue ==
    ASSUME TypeOK, NEW h \in Handlers, ContentIsDue(h), MemberIsSeen(h)
    PROVE  ContentIsDue(h)'
<1>g. PICK g \in Guilds : \E u \in MembersOf(g) :
          /\ told' = told \union {<<g, u>>}
          /\ TakesChange(h, g, CacheMember(g, u, joined[<<g, u>>]))
          /\ UNCHANGED <<actual, joined>>
  BY DEF MemberIsSeen
<1>1. PICK u \in MembersOf(g) :
          /\ told' = told \union {<<g, u>>}
          /\ TakesChange(h, g, CacheMember(g, u, joined[<<g, u>>]))
          /\ UNCHANGED <<actual, joined>>
  BY <1>g
<1> DEFINE v == joined[<<g, u>>]
           series == CacheMember(g, u, v)
<1>2. u \in Users /\ v \in Looks
  BY MemberOf DEF TypeOK
<1>3. series \in Seq(Command) /\ TakesChange(h, g, series)
  BY <1>1, <1>2, HarmlessMembers, HarmlessIsCommand
<1>4. ASSUME NEW f \in Tracked, f # Member(g, u) PROVE Quiet(series, f)
  BY <1>2, <1>4, MemberCallFunctions
<1>5. ASSUME NEW f \in Tracked, f = Member(g, u)
      PROVE  Leads(series, f, Entry(f), Stored(Entry(f), v)) /\ f[2] = <<g, u>>
  BY <1>2, <1>5, MemberCallFunctions, Homes
<1> HIDE DEF series
<1>6. ASSUME NEW f \in Tracked, f[1] = "members"
      PROVE  \/ Quiet(series, f) /\ ~(HomeOf(f) = g /\ IdOf(f) \in {u})
             \/ HomeOf(f) = g /\ IdOf(f) \in {u} /\ Leads(series, f, Entry(f), Stored(Entry(f), joined[f[2]]))
  <2>1. f = Member(g, u) <=> HomeOf(f) = g /\ IdOf(f) = u
    BY <1>6, MembersApart
  <2> QED
    BY <1>4, <1>5, <2>1
<1>7. ASSUME NEW f \in Tracked, f[1] # "members" PROVE Quiet(series, f)
  BY <1>4, <1>7, Homes
<1>8. PICK members \in SUBSET MembersOf(g) : members = {u} /\ told' = told \union ({g} \X members)
  <2>1. {u} \in SUBSET MembersOf(g)
    BY <1>1
  <2>2. {g} \X {u} = {<<g, u>>}
    OBVIOUS
  <2>3. told' = told \union {<<g, u>>}
    BY <1>1
  <2>4. told' = told \union ({g} \X {u})
    BY <2>2, <2>3
  <2> QED
    BY <2>1, <2>4
<1>9. \A f \in Tracked : f[1] = "members" =>
         \/ Quiet(series, f) /\ ~(HomeOf(f) = g /\ IdOf(f) \in members)
         \/ HomeOf(f) = g /\ IdOf(f) \in members
            /\ Leads(series, f, Entry(f), Stored(Entry(f), joined[f[2]]))
  BY <1>6, <1>8
<1>10. UNCHANGED <<actual, joined>>
  BY <1>1
<1> QED
  BY <1>3, <1>7, <1>8, <1>9, <1>10, TellingIsDue

\* Those of some users who are members.
LEMMA MembersAmong ==
    ASSUME WorldTypeOK, NEW g \in Guilds, NEW users \in SUBSET Users
    PROVE  ({g} \X users) \ {m \in MemberIds : joined[m] = None} = {g} \X (users \intersect MembersOf(g))
  BY DEF MembersOf, MemberIds

\* What a mention makes of an entry: once more says nothing new.
LEMMA MentionedTwice ==
    ASSUME WorldTypeOK, NEW g \in Guilds, NEW u \in Users, NEW f \in Tracked
    PROVE  /\ Mentioned(g, u) \in Seq(Command)
           /\ f # Member(g, u) \/ u \notin MembersOf(g) => Quiet(Mentioned(g, u), f)
           /\ f = Member(g, u) /\ u \in MembersOf(g) =>
                 \A e : Leads(Mentioned(g, u), f, e, Stored(e, joined[f[2]]))
           /\ \A e, v : Stored(Stored(e, v), v) = Stored(e, v)
<1>1. /\ Mentioned(g, u) \in Seq(Command)
      /\ f # Member(g, u) \/ u \notin MembersOf(g) => Quiet(Mentioned(g, u), f)
      /\ f = Member(g, u) /\ u \in MembersOf(g) =>
            \A e : Leads(Mentioned(g, u), f, e, Stored(e, joined[<<g, u>>]))
  BY MentionedLeads
<1>2. f = Member(g, u) => f[2] = <<g, u>>
  BY Homes
<1>3. \A e, v : Stored(Stored(e, v), v) = Stored(e, v)
  BY DEF Stored, Holds
<1> QED
  BY <1>1, <1>2, <1>3

LEMMA SpeakingIsDue ==
    ASSUME TypeOK, NEW h \in Handlers, ContentIsDue(h), UserSpeaks(h)
    PROVE  ContentIsDue(h)'
<1>1. PICK g \in Guilds, u \in Users :
          /\ told' = told \union ({<<g, u>>} \ {m \in MemberIds : joined[m] = None})
          /\ TakesChange(h, g, Mentioned(g, u))
          /\ UNCHANGED <<actual, joined>>
  BY DEF UserSpeaks
<1>2. WorldTypeOK
  BY DEF TypeOK
<1> DEFINE series == Mentioned(g, u)
           members == {u} \intersect MembersOf(g)
<1>3. series \in Seq(Command) /\ TakesChange(h, g, series)
  BY <1>1, <1>2, MentionedLeads, FieldCases, MentionTypes
<1>4. members \in SUBSET MembersOf(g) /\ told' = told \union ({g} \X members)
  <2>1. ({g} \X {u}) \ {m \in MemberIds : joined[m] = None} = {g} \X ({u} \intersect MembersOf(g))
    BY <1>2, MembersAmong
  <2>2. {g} \X {u} = {<<g, u>>}
    OBVIOUS
  <2> QED
    BY <1>1, <2>1, <2>2
<1>5. ASSUME NEW f \in Tracked
      PROVE  /\ f # Member(g, u) \/ u \notin MembersOf(g) => Quiet(series, f)
             /\ f = Member(g, u) /\ u \in MembersOf(g) =>
                   Leads(series, f, Entry(f), Stored(Entry(f), joined[f[2]]))
  BY <1>2, MentionedTwice
<1> HIDE DEF series
<1>6. ASSUME NEW f \in Tracked, f[1] = "members"
      PROVE  \/ Quiet(series, f) /\ ~(HomeOf(f) = g /\ IdOf(f) \in members)
             \/ HomeOf(f) = g /\ IdOf(f) \in members
                /\ Leads(series, f, Entry(f), Stored(Entry(f), joined[f[2]]))
  <2>1. f = Member(g, u) <=> HomeOf(f) = g /\ IdOf(f) = u
    BY <1>6, MembersApart
  <2> QED
    BY <1>5, <2>1
<1>7. ASSUME NEW f \in Tracked, f[1] # "members" PROVE Quiet(series, f)
  BY <1>5, <1>7, Homes
<1>8. PICK told_members \in SUBSET MembersOf(g) : told_members = members /\ told' = told \union ({g} \X told_members)
  BY <1>4
<1> HIDE DEF members
<1>9. \A f \in Tracked : f[1] = "members" =>
         \/ Quiet(series, f) /\ ~(HomeOf(f) = g /\ IdOf(f) \in told_members)
         \/ HomeOf(f) = g /\ IdOf(f) \in told_members
            /\ Leads(series, f, Entry(f), Stored(Entry(f), joined[f[2]]))
  BY <1>6, <1>8
<1>10. UNCHANGED <<actual, joined>>
  BY <1>1
<1> QED
  BY <1>3, <1>7, <1>8, <1>9, <1>10, TellingIsDue

LEMMA CommandIsDue ==
    ASSUME TypeOK, NEW h \in Handlers, ContentIsDue(h), CommandIsGiven(h)
    PROVE  ContentIsDue(h)'
<1>g. PICK g \in Guilds, other \in Users : \E u \in MembersOf(g), r \in ThingsOf(Roles, g) :
          /\ told' = told \union ({<<g, u>>, <<g, other>>} \ {m \in MemberIds : joined[m] = None})
          /\ TakesChange(h, g, Mentioned(g, u) \o Mentioned(g, other)
                               \o Loop("cache_role", g, {<<r, actual[r]>>}))
          /\ UNCHANGED <<actual, joined>>
  BY DEF CommandIsGiven
<1>1. PICK u \in MembersOf(g), r \in ThingsOf(Roles, g) :
          /\ told' = told \union ({<<g, u>>, <<g, other>>} \ {m \in MemberIds : joined[m] = None})
          /\ TakesChange(h, g, Mentioned(g, u) \o Mentioned(g, other)
                               \o Loop("cache_role", g, {<<r, actual[r]>>}))
          /\ UNCHANGED <<actual, joined>>
  BY <1>g
<1> DEFINE first == Mentioned(g, u)
           second == Mentioned(g, other)
           items == {<<r, actual[r]>>}
           loop == Loop("cache_role", g, items)
           series == first \o second \o loop
           members == {u, other} \intersect MembersOf(g)
<1>2. /\ WorldTypeOK /\ u \in Users /\ r \in Roles /\ Home[r] = g /\ actual[r] # None
      /\ actual \in [Things -> Looks \union {None}] /\ joined \in [MemberIds -> Looks \union {None}]
  BY MemberOf DEF TypeOK, WorldTypeOK, ThingsOf
<1>3. first \in Seq(Command) /\ second \in Seq(Command) /\ loop \in Seq(Command)
  <2>1. first \in Seq(Command) /\ second \in Seq(Command)
    BY <1>2, MentionTypes
  <2>2. items \in Lists(At(g, Roles), Looks)
    BY <1>2 DEF Lists, At, Things
  <2> QED
    BY <2>1, <2>2, HarmlessLoops, HarmlessIsCommand
<1>4. members \in SUBSET MembersOf(g) /\ told' = told \union ({g} \X members)
  <2>1. {u, other} \in SUBSET Users
    BY <1>2
  <2>2. ({g} \X {u, other}) \ {m \in MemberIds : joined[m] = None} = {g} \X members
    BY <1>2, <2>1, MembersAmong
  <2>3. {g} \X {u, other} = {<<g, u>>, <<g, other>>}
    OBVIOUS
  <2> QED
    BY <1>1, <2>2, <2>3
<1>5. ASSUME NEW f \in Tracked
      PROVE  /\ f # Member(g, u) => Quiet(first, f)
             /\ f = Member(g, u) => \A e : Leads(first, f, e, Stored(e, joined[f[2]]))
             /\ f # Member(g, other) \/ other \notin MembersOf(g) => Quiet(second, f)
             /\ f = Member(g, other) /\ other \in MembersOf(g) =>
                    \A e : Leads(second, f, e, Stored(e, joined[f[2]]))
             /\ \A e, v : Stored(Stored(e, v), v) = Stored(e, v)
  BY <1>2, MentionedTwice
<1>6. ASSUME NEW f \in Tracked
      PROVE  /\ f # Role(r) => Quiet(loop, f)
             /\ f = Role(r) => Leads(loop, f, Entry(f), Holds(actual[r], "listed"))
  <2>1. Gives(items, f[2]) <=> f[2] = r
    BY DEF Gives
  <2>2. LookOf(items, r) = actual[r]
    <3> DEFINE chosen == CHOOSE item \in items : item[1] = r
    <3>1. <<r, actual[r]>> \in items /\ <<r, actual[r]>>[1] = r
      OBVIOUS
    <3>2. chosen \in items
      BY <3>1
    <3> HIDE DEF chosen
    <3>3. chosen[2] = actual[r]
      BY <3>2
    <3> QED
      BY <3>3 DEF LookOf, chosen
  <2>3. f = Role(r) <=> f[1] = "roles" /\ f[2] = r
    BY KindsApart
  <2>4. /\ ~(f[1] = "roles" /\ Gives(items, f[2])) => Quiet(loop, f)
        /\ \A e : Leads(loop, f, e, IF f[1] = "roles" /\ Gives(items, f[2])
                                    THEN Holds(LookOf(items, f[2]), "listed") ELSE e)
    BY RoleLoop
  <2> HIDE DEF items, loop
  <2> QED
    BY <2>1, <2>2, <2>3, <2>4
<1>7. TakesChange(h, g, series)
  BY <1>1
<1> HIDE DEF first, second, loop
<1>8. ASSUME NEW f
      PROVE  /\ series \in Seq(Command)
             /\ Quiet(series, f) <=> Quiet(first, f) /\ Quiet(second, f) /\ Quiet(loop, f)
             /\ \A s, t, v, w : Leads(first, f, s, t) /\ Leads(second, f, t, v) /\ Leads(loop, f, v, w)
                                   => Leads(series, f, s, w)
  BY <1>3, InARow
<1> HIDE DEF series
<1>9. ASSUME NEW f \in Tracked, f[1] = "members"
      PROVE  \/ Quiet(series, f) /\ ~(HomeOf(f) = g /\ IdOf(f) \in members)
             \/ HomeOf(f) = g /\ IdOf(f) \in members
                /\ Leads(series, f, Entry(f), Stored(Entry(f), joined[f[2]]))
  <2>1. \A i : f = Member(g, i) <=> HomeOf(f) = g /\ IdOf(f) = i
    BY <1>9, MembersApart
  <2>2. f # Role(r)
    BY <1>9, Homes
  <2>3. Quiet(loop, f) /\ \A e : Leads(loop, f, e, e)
    BY <1>3, <1>6, <2>2, QuietLeads
  <2> DEFINE look == joined[f[2]]
             e == Entry(f)
  <2>4. CASE f = Member(g, u) /\ f = Member(g, other)
    <3>a. HomeOf(f) = g /\ IdOf(f) = u
      BY <2>1, <2>4
    <3>b. IdOf(f) = other
      BY <2>1, <2>4
    <3>1. other \in MembersOf(g) /\ HomeOf(f) = g /\ IdOf(f) \in members
      BY <3>a, <3>b
    <3>2. Leads(first, f, e, Stored(e, look))
          /\ Leads(second, f, Stored(e, look), Stored(Stored(e, look), look))
      BY <1>5, <2>4, <3>1
    <3> QED
      BY <1>5, <1>8, <2>3, <3>1, <3>2
  <2>5. CASE f = Member(g, u) /\ f # Member(g, other)
    <3>1. HomeOf(f) = g /\ IdOf(f) \in members
      BY <2>1, <2>5
    <3>2. Leads(first, f, e, Stored(e, look)) /\ Leads(second, f, Stored(e, look), Stored(e, look))
      BY <1>3, <1>5, <2>5, QuietLeads
    <3> QED
      BY <1>8, <2>3, <3>1, <3>2
  <2>6. CASE f # Member(g, u) /\ f = Member(g, other) /\ other \in MembersOf(g)
    <3>1. HomeOf(f) = g /\ IdOf(f) \in members
      BY <2>1, <2>6
    <3>2. Leads(first, f, e, e) /\ Leads(second, f, e, Stored(e, look))
      BY <1>3, <1>5, <2>6, QuietLeads
    <3> QED
      BY <1>8, <2>3, <3>1, <3>2
  <2>7. CASE f # Member(g, u) /\ (f # Member(g, other) \/ other \notin MembersOf(g))
    <3>1. ~(HomeOf(f) = g /\ IdOf(f) \in members)
      BY <2>1, <2>7
    <3> QED
      BY <1>5, <1>8, <2>3, <2>7, <3>1
  <2> QED
    BY <2>4, <2>5, <2>6, <2>7
<1>10. ASSUME NEW f \in Tracked, f[1] # "members"
       PROVE  \/ Quiet(series, f)
              \/ HomeOf(f) = g /\ \E t : /\ Leads(series, f, Entry(f), t)
                                         /\ Keeps(f[1], Actual(f), Entry(f), Actual(f), t)
  <2>1. f # Member(g, u) /\ f # Member(g, other)
    BY <1>10, Homes
  <2>2. Quiet(first, f) /\ Quiet(second, f)
    BY <1>5, <2>1
  <2>3. CASE f = Role(r)
    <3>1. f[1] = "roles" /\ f[2] = r /\ HomeOf(f) = g
      BY <1>2, <2>3, Homes
    <3>2. Actual(f) = actual[r]
      BY <3>1, ActualLooks
    <3>3. Leads(series, f, Entry(f), Holds(actual[r], "listed"))
      BY <1>3, <1>6, <1>8, <2>2, <2>3, QuietLeads
    <3>4. Keeps("roles", actual[r], Entry(f), actual[r], Holds(actual[r], "listed"))
      BY <1>2, ThingKeeps
    <3> QED
      BY <3>1, <3>2, <3>3, <3>4
  <2>4. CASE f # Role(r)
    BY <1>6, <1>8, <2>2, <2>4
  <2> QED
    BY <2>3, <2>4
<1>11. series \in Seq(Command)
  BY <1>8
<1>12. PICK told_members \in SUBSET MembersOf(g) :
           told_members = members /\ told' = told \union ({g} \X told_members)
  BY <1>4
<1> HIDE DEF members
<1>13. \A f \in Tracked : f[1] = "members" =>
         \/ Quiet(series, f) /\ ~(HomeOf(f) = g /\ IdOf(f) \in told_members)
         \/ HomeOf(f) = g /\ IdOf(f) \in told_members
            /\ Leads(series, f, Entry(f), Stored(Entry(f), joined[f[2]]))
  BY <1>9, <1>12
<1>14. UNCHANGED <<actual, joined>>
  BY <1>1
<1> QED
  BY <1>7, <1>10, <1>11, <1>12, <1>13, <1>14, TellingIsDue

\* What cache_guild makes of an entry is what is to be held of it: in a guild
\* that was not available nothing was left but, at most, ids of roles.
LEMMA GuildFits ==
    ASSUME NEW f \in Tracked, NEW guild, NEW s, s # "in", NEW v, NEW w, NEW e,
           f[1] = "channels" => /\ Gives(guild.channels, f[2]) <=> w # None
                                /\ w # None => LookOf(guild.channels, f[2]) = w,
           f[1] = "roles" => /\ Gives(guild.roles, f[2]) <=> w # None
                             /\ w # None => LookOf(guild.roles, f[2]) = w,
           f[1] = "emojis" => /\ Gives(guild.emojis, f[2]) <=> w # None
                              /\ w # None => LookOf(guild.emojis, f[2]) = w,
           f[1] = "members" => /\ v = None
                               /\ Gives(guild.members, f[2][2]) <=> w # None
                               /\ w # None => LookOf(guild.members, f[2][2]) = w,
           f[1] = "guilds" => w = [member_count |-> guild.member_count, unavailable |-> FALSE]
    PROVE  /\ Clean(f[1], s, v, e) => Clean(f[1], "in", w, Made(guild, f, e))
           /\ Mended(f[1], w, Made(guild, f, e))
<1>1. f[1] \in {"channels", "roles", "emojis", "members", "guilds"}
  BY FieldCases
<1>2. CASE f[1] = "channels"
  BY <1>2 DEF Clean, Mended, Made, Holds
<1>3. CASE f[1] = "roles"
  BY <1>3 DEF Clean, Mended, Made, Holds
<1>4. CASE f[1] = "emojis"
  BY <1>4 DEF Clean, Mended, Made, Holds, Stored, Removed
<1>5. CASE f[1] = "members"
  BY <1>5 DEF Clean, Mended, Made, Holds, Stored
<1>6. CASE f[1] = "guilds"
  BY <1>6 DEF Clean, Mended, Made, Holds
<1> QED
  BY <1>1, <1>2, <1>3, <1>4, <1>5, <1>6

\* What a list of those there are in a guild says of each.
Existing(kind, g, look) == {i \in kind : Home[i] = g /\ look[i] # None}

LEMMA ListSays ==
    ASSUME NEW kind, NEW g, NEW look, NEW list, ListOf(list, Existing(kind, g, look), look),
           NEW i \in kind, Home[i] = g
    PROVE  /\ Gives(list, i) <=> look[i] # None
           /\ look[i] # None => LookOf(list, i) = look[i]
<1>1. i \in Existing(kind, g, look) <=> look[i] # None
  BY DEF Existing
<1>2. /\ Gives(list, i) <=> i \in Existing(kind, g, look)
      /\ i \in Existing(kind, g, look) => LookOf(list, i) = look[i]
  BY GivesLooks
<1> QED
  BY <1>1, <1>2

\* What changes untold is in the guild that appears.
LEMMA OthersSeen ==
    ASSUME WorldTypeOK, NEW g \in Guilds, Unseen(g), NEW listed \in SUBSET Users,
           told' = told \union ({g} \X listed)
    PROVE  /\ \A m \in MemberIds : m[1] # g => joined'[m] = joined[m]
           /\ \A f \in Tracked : HomeOf(f) # g => Actual(f)' = Actual(f)
<1>1. actual \in [Things -> Looks \union {None}] /\ joined \in [MemberIds -> Looks \union {None}]
  BY DEF WorldTypeOK
<1>2. \A t \in Things : Home[t] # g => actual'[t] = actual[t]
  BY <1>1 DEF Unseen
<1>3. ASSUME NEW m \in MemberIds, m[1] # g PROVE joined'[m] = joined[m]
  <2>1. \A u : m # <<g, u>>
    BY <1>3
  <2>2. joined' = joined \/ \E u, v : joined' = [joined EXCEPT ![<<g, u>>] = v]
    BY DEF Unseen
  <2> QED
    BY <1>1, <2>1, <2>2
<1>4. ASSUME NEW f \in Tracked, HomeOf(f) # g PROVE Actual(f)' = Actual(f)
  <2>1. CASE f[1] = "members"
    <3>1. f[2] \in MemberIds /\ f[2][1] # g
      BY <1>4, <2>1, FieldCases
    <3>2. joined'[f[2]] = joined[f[2]] /\ (f[2] \in told' <=> f[2] \in told)
      BY <1>3, <3>1
    <3> QED
      BY <2>1, <3>2 DEF Actual
  <2>2. CASE f[1] = "guilds"
    <3>1. f[2] \in Guilds /\ f[2] # g
      BY <1>4, <2>2, FieldCases
    <3>2. \A u \in Users : joined'[<<f[2], u>>] = joined[<<f[2], u>>]
      BY <1>3, <3>1 DEF MemberIds
    <3>3. MembersOf(f[2])' = MembersOf(f[2])
      BY <3>2 DEF MembersOf
    <3> QED
      BY <2>2, <3>3 DEF Actual, Record
  <2>3. CASE f[1] \notin {"members", "guilds"}
    <3>1. f[2] \in Things /\ Home[f[2]] # g
      BY <1>4, <2>3, FieldCases DEF Things
    <3> QED
      BY <1>2, <2>3, <3>1 DEF Actual
  <2> QED
    BY <2>1, <2>2, <2>3
<1> QED
  BY <1>3, <1>4

LEMMA AppearingIsDue ==
    ASSUME TypeOK, NEW h \in Handlers, ContentIsDue(h), GuildAppears(h)
    PROVE  ContentIsDue(h)'
<1>g. PICK g \in Guilds :
         /\ status[g] # "in"
         /\ status' = [status EXCEPT ![g] = "in"]
         /\ Unseen(g)
         /\ \E listed \in SUBSET MembersOf(g)' :
               /\ told' = told \union ({g} \X listed)
               /\ Takes(h, {g}, CacheGuild(g,
                     [channels |-> {<<c, actual'[c]>> : c \in ThingsOf(Channels, g)'},
                      emojis |-> EmojiList(g)',
                      members |-> {<<u, joined'[<<g, u>>]>> : u \in listed},
                      roles |-> {<<r, actual'[r]>> : r \in ThingsOf(Roles, g)'},
                      member_count |-> Cardinality(MembersOf(g)')]))
         /\ created' = [created EXCEPT ![h] = g]
         /\ UNCHANGED <<repaired, clean>>
  BY DEF GuildAppears
<1>l. PICK listed \in SUBSET MembersOf(g)' :
         /\ told' = told \union ({g} \X listed)
         /\ Takes(h, {g}, CacheGuild(g,
               [channels |-> {<<c, actual'[c]>> : c \in ThingsOf(Channels, g)'},
                emojis |-> EmojiList(g)',
                members |-> {<<u, joined'[<<g, u>>]>> : u \in listed},
                roles |-> {<<r, actual'[r]>> : r \in ThingsOf(Roles, g)'},
                member_count |-> Cardinality(MembersOf(g)')]))
  BY <1>g
<1>m. PICK guild : guild = [channels |-> {<<c, actual'[c]>> : c \in ThingsOf(Channels, g)'},
                            emojis |-> EmojiList(g)',
                            members |-> {<<u, joined'[<<g, u>>]>> : u \in listed},
                            roles |-> {<<r, actual'[r]>> : r \in ThingsOf(Roles, g)'},
                            member_count |-> Cardinality(MembersOf(g)')]
  OBVIOUS
<1> DEFINE series == CacheGuild(g, guild)
<1>1. /\ WorldTypeOK /\ WorldTypeOK' /\ Takes(h, {g}, series) /\ todo[h] = <<>>
  <2>1. WorldTypeOK'
    BY EventTypes DEF EventIsTaken, TypeOK
  <2> QED
    BY <1>l, <1>m, <2>1 DEF TypeOK, Takes
<1>2. guild \in GuildList(g)
  <2>1. GuildCreatesAreTyped'
    BY GuildListTypes, PTL
  <2>2. (GuildCreated(g, listed) \in GuildList(g))'
    BY <1>1, <2>1 DEF GuildCreatesAreTyped, WorldTypeOK
  <2> QED
    BY <1>m, <2>2 DEF GuildCreated, GuildList
<1>3. series \in Seq(Command)
  BY <1>1, EventSeries DEF EventIsTaken
<1>4. listed \in SUBSET Users /\ \A u \in listed : joined'[<<g, u>>] # None
  BY DEF MembersOf
<1>5. /\ \A m \in MemberIds : m[1] # g => joined'[m] = joined[m]
      /\ \A f \in Tracked : HomeOf(f) # g => Actual(f)' = Actual(f)
  BY <1>1, <1>4, <1>g, <1>l, OthersSeen
<1>6. \A m \in told : m[1] # g /\ m \in MemberIds
  BY <1>1, <1>g DEF ContentIsDue, ToldAreMembers, WorldTypeOK
<1>7. ToldAreMembers'
  <2>1. ASSUME NEW m \in told PROVE status'[m[1]] = "in" /\ joined'[m] # None
    <3>1. status[m[1]] = "in" /\ joined[m] # None /\ m[1] # g /\ m[1] \in Guilds
      BY <1>6 DEF ContentIsDue, ToldAreMembers, MemberIds
    <3>2. status'[m[1]] = status[m[1]]
      BY <1>1, <1>g, <3>1 DEF WorldTypeOK
    <3> QED
      BY <1>5, <1>6, <3>1, <3>2
  <2>2. ASSUME NEW m \in {g} \X listed PROVE status'[m[1]] = "in" /\ joined'[m] # None
    <3>1. m[1] = g /\ m = <<g, m[2]>> /\ m[2] \in listed
      OBVIOUS
    <3>2. status'[g] = "in"
      BY <1>1, <1>g DEF WorldTypeOK
    <3> QED
      BY <1>4, <3>1, <3>2
  <2> QED
    BY <1>l, <2>1, <2>2 DEF ToldAreMembers
<1>8. /\ clean' = clean /\ status'[g] = "in" /\ Mending(h)' \subseteq repaired \union {g}
      /\ \A i \in Guilds : i # g => status'[i] = status[i]
      /\ \A i \in repaired : i \in Guilds /\ status[i] = "in"
  BY <1>1, <1>g DEF Mending, ContentIsDue, WorldTypeOK
<1>9. \A i \in Mending(h)' : status'[i] = "in"
  BY <1>8
<1>10. ASSUME NEW f \in Tracked, HomeOf(f) \notin {g}
       PROVE  /\ Quiet(series, f)
              /\ Actual(f)' = Actual(f) /\ status'[HomeOf(f)] = status[HomeOf(f)]
              /\ HomeOf(f) \in Mending(h)' => HomeOf(f) \in repaired
  <2>1. HomeOf(f) # g /\ HomeOf(f) \in Guilds
    BY <1>10, FieldTypes
  <2>2. Quiet(series, f)
    BY <1>2, <2>1, CacheGuildLeads
  <2> QED
    BY <1>5, <1>8, <2>1, <2>2
<1>11. ASSUME NEW f \in Tracked, HomeOf(f) = g
       PROVE  /\ Clean(f[1], status[g], Actual(f), Entry(f)) =>
                     Clean(f[1], "in", Actual(f)', Made(guild, f, Entry(f)))
              /\ Mended(f[1], Actual(f)', Made(guild, f, Entry(f)))
  <2>1. f[1] = "channels" => /\ Gives(guild.channels, f[2]) <=> Actual(f)' # None
                             /\ Actual(f)' # None => LookOf(guild.channels, f[2]) = Actual(f)'
    <3> SUFFICES ASSUME f[1] = "channels"
                 PROVE  /\ Gives(guild.channels, f[2]) <=> Actual(f)' # None
                        /\ Actual(f)' # None => LookOf(guild.channels, f[2]) = Actual(f)'
      OBVIOUS
    <3>1. f[2] \in Channels /\ Home[f[2]] = g
      BY <1>11, FieldCases
    <3>2. Actual(f)' = actual'[f[2]]
      BY DEF Actual
    <3>3. ListOf(guild.channels, Existing(Channels, g, actual'), actual')
      BY <1>m DEF ThingsOf, ListOf, Existing
    <3>4. /\ Gives(guild.channels, f[2]) <=> actual'[f[2]] # None
          /\ actual'[f[2]] # None => LookOf(guild.channels, f[2]) = actual'[f[2]]
      BY <3>1, <3>3, ListSays
    <3> QED
      BY <3>2, <3>4
  <2>2. f[1] = "roles" => /\ Gives(guild.roles, f[2]) <=> Actual(f)' # None
                          /\ Actual(f)' # None => LookOf(guild.roles, f[2]) = Actual(f)'
    <3> SUFFICES ASSUME f[1] = "roles"
                 PROVE  /\ Gives(guild.roles, f[2]) <=> Actual(f)' # None
                        /\ Actual(f)' # None => LookOf(guild.roles, f[2]) = Actual(f)'
      OBVIOUS
    <3>1. f[2] \in Roles /\ Home[f[2]] = g
      BY <1>11, FieldCases
    <3>2. Actual(f)' = actual'[f[2]]
      BY DEF Actual
    <3>3. ListOf(guild.roles, Existing(Roles, g, actual'), actual')
      BY <1>m DEF ThingsOf, ListOf, Existing
    <3>4. /\ Gives(guild.roles, f[2]) <=> actual'[f[2]] # None
          /\ actual'[f[2]] # None => LookOf(guild.roles, f[2]) = actual'[f[2]]
      BY <3>1, <3>3, ListSays
    <3> QED
      BY <3>2, <3>4
  <2>3. f[1] = "emojis" => /\ Gives(guild.emojis, f[2]) <=> Actual(f)' # None
                           /\ Actual(f)' # None => LookOf(guild.emojis, f[2]) = Actual(f)'
    <3> SUFFICES ASSUME f[1] = "emojis"
                 PROVE  /\ Gives(guild.emojis, f[2]) <=> Actual(f)' # None
                        /\ Actual(f)' # None => LookOf(guild.emojis, f[2]) = Actual(f)'
      OBVIOUS
    <3>1. f[2] \in Emojis /\ Home[f[2]] = g
      BY <1>11, FieldCases
    <3>2. Actual(f)' = actual'[f[2]]
      BY DEF Actual
    <3>3. ListOf(guild.emojis, Existing(Emojis, g, actual'), actual')
      BY <1>m DEF EmojiList, ThingsOf, ListOf, Existing
    <3>4. /\ Gives(guild.emojis, f[2]) <=> actual'[f[2]] # None
          /\ actual'[f[2]] # None => LookOf(guild.emojis, f[2]) = actual'[f[2]]
      BY <3>1, <3>3, ListSays
    <3> QED
      BY <3>2, <3>4
  <2>4. f[1] = "members" => /\ Actual(f) = None
                            /\ Gives(guild.members, f[2][2]) <=> Actual(f)' # None
                            /\ Actual(f)' # None => LookOf(guild.members, f[2][2]) = Actual(f)'
    <3> SUFFICES ASSUME f[1] = "members"
                 PROVE  /\ Actual(f) = None
                        /\ Gives(guild.members, f[2][2]) <=> Actual(f)' # None
                        /\ Actual(f)' # None => LookOf(guild.members, f[2][2]) = Actual(f)'
      OBVIOUS
    <3>1. f[2] = <<g, f[2][2]>> /\ f[2][1] = g
      BY <1>11, FieldCases
    <3>2. f[2] \notin told /\ (f[2] \in told' <=> f[2][2] \in listed)
      BY <1>6, <1>l, <3>1
    <3>3. Actual(f) = None
      BY <3>2, ActualLooks
    <3>4. Actual(f)' = IF f[2][2] \in listed THEN joined'[<<g, f[2][2]>>] ELSE None
      BY <3>1, <3>2 DEF Actual
    <3>a. PICK look : look = [u \in Users |-> joined'[<<g, u>>]]
      OBVIOUS
    <3>5. ListOf(guild.members, listed, look)
      BY <1>4, <1>m, <3>a DEF ListOf
    <3>6. /\ Gives(guild.members, f[2][2]) <=> f[2][2] \in listed
          /\ f[2][2] \in listed => LookOf(guild.members, f[2][2]) = look[f[2][2]]
      BY <3>5, GivesLooks
    <3> QED
      BY <1>4, <3>3, <3>4, <3>6, <3>a
  <2>5. f[1] = "guilds" => Actual(f)' = [member_count |-> guild.member_count, unavailable |-> FALSE]
    <3>1. f[1] = "guilds" => f[2] = g
      BY <1>11, FieldCases
    <3>2. guild.member_count = Cardinality(MembersOf(g)')
      BY <1>m
    <3> QED
      BY <3>1, <3>2 DEF Actual, Record
  <2>6. PICK w : w = Actual(f)'
    OBVIOUS
  <2> QED
    BY <1>g, <2>1, <2>2, <2>3, <2>4, <2>5, <2>6, GuildFits
<1>12. ASSUME NEW f \in Tracked, HomeOf(f) \in {g}
       PROVE  \E t : /\ Leads(series, f, Entry(f), t)
                     /\ HomeOf(f) \in clean' /\ Clean(f[1], status[HomeOf(f)], Actual(f), Entry(f))
                           => Clean(f[1], status'[HomeOf(f)], Actual(f)', t)
                     /\ HomeOf(f) \in Mending(h)'
                        /\ (HomeOf(f) \in repaired => Mended(f[1], Actual(f), Entry(f)))
                           => Mended(f[1], Actual(f)', t)
  <2>1. HomeOf(f) = g
    BY <1>12
  <2>2. Leads(series, f, Entry(f), Made(guild, f, Entry(f)))
    BY <1>2, <2>1, CacheGuildLeads
  <2> QED
    BY <1>8, <1>11, <2>1, <2>2
<1> HIDE DEF series
<1>13. clean' \subseteq clean
  BY <1>8
<1> QED
  BY <1>1, <1>3, <1>7, <1>9, <1>10, <1>12, <1>13, EventIsDue

LEMMA ToldElsewhere ==
    ASSUME TypeOK, NEW h, ContentIsDue(h), NEW guilds, told' = ToldOutside(guilds),
           UNCHANGED <<actual, joined>>,
           \A g \in Guilds \ guilds : status'[g] = status[g]
    PROVE  /\ ToldAreMembers'
           /\ \A f \in Tracked : /\ HomeOf(f) \notin guilds => Actual(f)' = Actual(f)
                                 /\ f[1] = "members" /\ HomeOf(f) \in guilds => Actual(f)' = None
<1>1. \A m \in told' : m \in told /\ m[1] \in Guilds \ guilds
  BY DEF ToldOutside, TypeOK, WorldTypeOK, MemberIds
<1>2. ToldAreMembers'
  BY <1>1 DEF ContentIsDue, ToldAreMembers
<1>3. ASSUME NEW f \in Tracked
      PROVE  /\ HomeOf(f) \notin guilds => Actual(f)' = Actual(f)
             /\ f[1] = "members" /\ HomeOf(f) \in guilds => Actual(f)' = None
  <2>1. CASE f[1] = "members"
    <3>1. HomeOf(f) = f[2][1]
      BY <2>1, FieldCases
    <3>2. HomeOf(f) \notin guilds => (f[2] \in told' <=> f[2] \in told)
      BY <3>1 DEF ToldOutside
    <3>3. HomeOf(f) \in guilds => f[2] \notin told'
      BY <3>1 DEF ToldOutside
    <3> QED
      BY <2>1, <3>2, <3>3, ToldLooks
  <2>2. CASE f[1] # "members"
    BY <2>2, ToldLooks
  <2> QED
    BY <2>1, <2>2
<1> QED
  BY <1>2, <1>3

\* A guild that goes, for a while or for good.
LEMMA GoingIsDue ==
    ASSUME TypeOK, NEW h \in Handlers, ContentIsDue(h), NEW g \in Guilds, NEW s \in {"down", "out"},
           status' = [status EXCEPT ![g] = s], told' = ToldOutside({g}), NEW series \in Seq(Command),
           Takes(h, {g}, series), created' = [created EXCEPT ![h] = None], repaired' = repaired \ {g},
           UNCHANGED <<actual, joined, clean>>,
           \A f \in Tracked :
               /\ HomeOf(f) # g => Quiet(series, f)
               /\ HomeOf(f) = g /\ f[1] # "guilds" => Leads(series, f, Entry(f), Deleted(f, Entry(f)))
               /\ f = Guild(g) => \E t : Leads(series, f, Entry(f), t) /\ (s = "out" => t.value = None)
    PROVE  ContentIsDue(h)'
<1>1. WorldTypeOK
  BY DEF TypeOK
<1>2. /\ status'[g] = s /\ \A i \in Guilds : i # g => status'[i] = status[i]
      /\ Mending(h)' = repaired \ {g} /\ clean' = clean
      /\ \A i \in repaired : i \in Guilds /\ status[i] = "in"
  BY <1>1 DEF Mending, ContentIsDue, WorldTypeOK
<1>3. /\ ToldAreMembers'
      /\ \A f \in Tracked : /\ HomeOf(f) \notin {g} => Actual(f)' = Actual(f)
                            /\ f[1] = "members" /\ HomeOf(f) \in {g} => Actual(f)' = None
  BY <1>2, ToldElsewhere
<1>4. \A i \in Mending(h)' : status'[i] = "in"
  BY <1>2
<1>5. ASSUME NEW f \in Tracked, HomeOf(f) \notin {g}
      PROVE  /\ Quiet(series, f)
             /\ Actual(f)' = Actual(f) /\ status'[HomeOf(f)] = status[HomeOf(f)]
             /\ HomeOf(f) \in Mending(h)' => HomeOf(f) \in repaired
  BY <1>2, <1>3, <1>5, FieldTypes
<1>6. ASSUME NEW f \in Tracked, HomeOf(f) \in {g}
      PROVE  \E t : /\ Leads(series, f, Entry(f), t)
                    /\ HomeOf(f) \in clean' /\ Clean(f[1], status[HomeOf(f)], Actual(f), Entry(f))
                          => Clean(f[1], status'[HomeOf(f)], Actual(f)', t)
                    /\ HomeOf(f) \in Mending(h)'
                       /\ (HomeOf(f) \in repaired => Mended(f[1], Actual(f), Entry(f)))
                          => Mended(f[1], Actual(f)', t)
  <2>1. HomeOf(f) = g /\ HomeOf(f) \notin Mending(h)' /\ status'[HomeOf(f)] = s
    BY <1>2, <1>6
  <2>2. CASE f[1] = "guilds"
    <3>1. f = Guild(g)
      BY <2>1, <2>2, FieldCases
    <3>2. PICK t : Leads(series, f, Entry(f), t) /\ (s = "out" => t.value = None)
      BY <3>1
    <3>3. Clean(f[1], s, Actual(f)', t)
      BY <2>2, <3>2 DEF Clean
    <3> QED
      BY <2>1, <3>2, <3>3
  <2>3. CASE f[1] # "guilds"
    <3>1. f[1] = "members" => Actual(f)' = None
      BY <1>3, <1>6
    <3>2. PICK w : w = Actual(f)'
      OBVIOUS
    <3>3. Clean(f[1], status[g], Actual(f), Entry(f)) => Clean(f[1], s, w, Deleted(f, Entry(f)))
      BY <2>3, <3>1, <3>2, GuildGoes
    <3> QED
      BY <2>1, <2>3, <3>2, <3>3
  <2> QED
    BY <2>2, <2>3
<1>7. clean' \subseteq clean
  BY <1>2
<1> QED
  BY <1>3, <1>4, <1>5, <1>6, <1>7, EventIsDue

LEMMA FailureIsDue ==
    ASSUME TypeOK, NEW h \in Handlers, ContentIsDue(h), GuildFails(h)
    PROVE  ContentIsDue(h)'
<1>1. PICK g \in Guilds, deleted \in BOOLEAN :
         /\ status' = [status EXCEPT ![g] = "down"]
         /\ told' = ToldOutside({g})
         /\ Takes(h, {g}, IF deleted THEN DeleteGuild(g, FALSE) ELSE UnavailableGuild(g))
         /\ created' = [created EXCEPT ![h] = None]
         /\ repaired' = repaired \ {g} /\ UNCHANGED <<actual, joined, clean>>
  BY DEF GuildFails
<1> DEFINE series == IF deleted THEN DeleteGuild(g, FALSE) ELSE UnavailableGuild(g)
<1>2. series \in Seq(Command) /\ Takes(h, {g}, series)
  BY <1>1, HarmlessGuilds, HarmlessIsCommand
<1>3. ASSUME NEW f \in Tracked
      PROVE  /\ HomeOf(f) # g => Quiet(series, f)
             /\ HomeOf(f) = g /\ f[1] # "guilds" => Leads(series, f, Entry(f), Deleted(f, Entry(f)))
             /\ f = Guild(g) => \E t : Leads(series, f, Entry(f), t) /\ ("down" = "out" => t.value = None)
  <2>1. CASE deleted
    BY <2>1, DeleteGuildLeads
  <2>2. CASE ~deleted
    <3>1. /\ HomeOf(f) # g => Quiet(UnavailableGuild(g), f)
          /\ HomeOf(f) = g => \A e : Leads(UnavailableGuild(g), f, e, Outage(f, e))
      BY UnavailableGuildLeads
    <3>2. f[1] # "guilds" => Outage(f, Entry(f)) = Deleted(f, Entry(f))
      BY DEF Outage, Deleted
    <3>3. f = Guild(g) => HomeOf(f) = g
      BY Homes
    <3> QED
      BY <2>2, <3>1, <3>2, <3>3
  <2> QED
    BY <2>1, <2>2
<1> HIDE DEF series
<1> QED
  BY <1>1, <1>2, <1>3, GoingIsDue

LEMMA LossIsDue ==
    ASSUME TypeOK, NEW h \in Handlers, ContentIsDue(h), GuildIsLeft(h)
    PROVE  ContentIsDue(h)'
<1>1. PICK g \in Guilds :
         /\ status' = [status EXCEPT ![g] = "out"]
         /\ told' = ToldOutside({g})
         /\ Takes(h, {g}, DeleteGuild(g, FALSE))
         /\ created' = [created EXCEPT ![h] = None]
         /\ repaired' = repaired \ {g} /\ UNCHANGED <<actual, joined, clean>>
  BY DEF GuildIsLeft
<1> DEFINE series == DeleteGuild(g, FALSE)
<1>2. series \in Seq(Command) /\ Takes(h, {g}, series)
  BY <1>1, HarmlessGuilds, HarmlessIsCommand
<1>3. ASSUME NEW f \in Tracked
      PROVE  /\ HomeOf(f) # g => Quiet(series, f)
             /\ HomeOf(f) = g /\ f[1] # "guilds" => Leads(series, f, Entry(f), Deleted(f, Entry(f)))
             /\ f = Guild(g) => \E t : Leads(series, f, Entry(f), t) /\ ("out" = "out" => t.value = None)
  <2>1. Holds(None, Entry(f).mark).value = None
    BY DEF Holds
  <2> QED
    BY <2>1, DeleteGuildLeads
<1> HIDE DEF series
<1> QED
  BY <1>1, <1>2, <1>3, GoingIsDue

LEMMA SessionIsDue ==
    ASSUME TypeOK, NEW h \in Handlers, ContentIsDue(h), SessionBegins(h)
    PROVE  ContentIsDue(h)'
<1>1. PICK left \in SUBSET {g \in Guilds : status[g] \in {"in", "down"}} :
        LET kept == {g \in Guilds : status[g] \in {"in", "down"}} \ left
        IN  /\ status' = [g \in Guilds |-> IF g \in left THEN "lost"
                                           ELSE IF g \in kept THEN "down" ELSE status[g]]
            /\ told' = ToldOutside(left \union kept)
            /\ Takes(h, Guilds, Loop("unavailable_guild", None, {<<g, None>> : g \in kept}))
            /\ created' = [created EXCEPT ![h] = None]
            /\ repaired' = repaired \ (left \union kept) /\ clean' = clean \ left
            /\ UNCHANGED <<actual, joined>>
  BY DEF SessionBegins
<1>k. PICK kept : kept = {g \in Guilds : status[g] \in {"in", "down"}} \ left
  OBVIOUS
<1> DEFINE items == {<<g, None>> : g \in kept}
           series == Loop("unavailable_guild", None, items)
           gone == left \union kept
<1>2. /\ status' = [g \in Guilds |-> IF g \in left THEN "lost" ELSE IF g \in kept THEN "down" ELSE status[g]]
      /\ told' = ToldOutside(gone)
      /\ Takes(h, Guilds, series)
      /\ created' = [created EXCEPT ![h] = None]
      /\ repaired' = repaired \ gone /\ clean' = clean \ left
      /\ UNCHANGED <<actual, joined>>
  BY <1>1, <1>k
<1>3. series \in Seq(Command)
  BY <1>2, EventSeries DEF EventIsTaken
<1>4. ASSUME NEW f \in Tracked
      PROVE  /\ HomeOf(f) \in kept => Leads(series, f, Entry(f), Outage(f, Entry(f)))
             /\ HomeOf(f) \notin kept => Leads(series, f, Entry(f), Entry(f))
  <2>1. Gives(items, HomeOf(f)) <=> HomeOf(f) \in kept
    <3>1. ASSUME HomeOf(f) \in kept PROVE Gives(items, HomeOf(f))
      <4>1. <<HomeOf(f), None>> \in items /\ <<HomeOf(f), None>>[1] = HomeOf(f)
        BY <3>1
      <4> QED
        BY <4>1 DEF Gives
    <3>2. ASSUME Gives(items, HomeOf(f)) PROVE HomeOf(f) \in kept
      BY <3>2 DEF Gives
    <3> QED
      BY <3>1, <3>2
  <2>2. \A e : Leads(series, f, e, IF Gives(items, HomeOf(f)) THEN Outage(f, e) ELSE e)
    BY GuildLoop
  <2> HIDE DEF items, series
  <2> QED
    BY <2>1, <2>2
<1> HIDE DEF series
<1>5. \A g \in Guilds : status'[g] = IF g \in left THEN "lost" ELSE IF g \in kept THEN "down" ELSE status[g]
  BY <1>2
<1>6. /\ ToldAreMembers'
      /\ \A f \in Tracked : /\ HomeOf(f) \notin gone => Actual(f)' = Actual(f)
                            /\ f[1] = "members" /\ HomeOf(f) \in gone => Actual(f)' = None
  <2>1. \A g \in Guilds \ gone : status'[g] = status[g]
    BY <1>5
  <2> HIDE DEF gone
  <2> QED
    BY <1>2, <2>1, ToldElsewhere
<1>7. /\ Mending(h)' = repaired \ gone
      /\ \A g \in repaired : g \in Guilds /\ status[g] = "in"
  BY <1>2 DEF Mending, ContentIsDue, TypeOK, WorldTypeOK
<1>8. \A g \in Mending(h)' : status'[g] = "in"
  BY <1>5, <1>7
<1>9. ASSUME NEW f \in Tracked
      PROVE  \E t : /\ Leads(series, f, Entry(f), t)
                    /\ HomeOf(f) \in clean' /\ Clean(f[1], status[HomeOf(f)], Actual(f), Entry(f))
                          => Clean(f[1], status'[HomeOf(f)], Actual(f)', t)
                    /\ HomeOf(f) \in Mending(h)'
                       /\ (HomeOf(f) \in repaired => Mended(f[1], Actual(f), Entry(f)))
                          => Mended(f[1], Actual(f)', t)
  <2>0. HomeOf(f) \in Guilds
    BY FieldTypes
  <2>1. CASE HomeOf(f) \in left
    <3>1. HomeOf(f) \notin clean' /\ HomeOf(f) \notin Mending(h)' /\ HomeOf(f) \notin kept
      BY <1>2, <1>7, <1>k, <2>1
    <3> QED
      BY <1>4, <3>1
  <2>2. CASE HomeOf(f) \in kept
    <3>1. HomeOf(f) \notin Mending(h)' /\ HomeOf(f) \notin left
      BY <1>7, <1>k, <2>2
    <3>2. status'[HomeOf(f)] = "down"
      BY <1>5, <2>0, <2>2, <3>1
    <3>3. PICK w : w = Actual(f)'
      OBVIOUS
    <3>4. Clean(f[1], status[HomeOf(f)], Actual(f), Entry(f)) => Clean(f[1], "down", w, Outage(f, Entry(f)))
      <4>1. CASE f[1] = "guilds"
        BY <4>1 DEF Clean
      <4>2. CASE f[1] # "guilds"
        <5>1. f[1] = "members" => w = None
          BY <1>6, <2>2, <3>3
        <5>2. ASSUME Clean(f[1], status[HomeOf(f)], Actual(f), Entry(f))
              PROVE  Clean(f[1], "down", w, Deleted(f, Entry(f)))
                     /\ Deleted(f, Entry(f)) = Outage(f, Entry(f))
          BY <4>2, <5>1, <5>2, GuildGoes
        <5> QED
          BY <5>2
      <4> QED
        BY <4>1, <4>2
    <3> QED
      BY <1>4, <2>2, <3>1, <3>2, <3>3, <3>4
  <2>3. CASE HomeOf(f) \notin gone
    <3>1. status'[HomeOf(f)] = status[HomeOf(f)] /\ Actual(f)' = Actual(f)
      BY <1>5, <1>6, <2>0, <2>3
    <3> QED
      BY <1>4, <1>7, <2>3, <3>1
  <2> QED
    BY <2>1, <2>2, <2>3
<1> HIDE DEF gone
<1>10. \A f \in Tracked : HomeOf(f) \notin Guilds =>
               /\ Quiet(series, f)
               /\ Actual(f)' = Actual(f) /\ status'[HomeOf(f)] = status[HomeOf(f)]
               /\ HomeOf(f) \in Mending(h)' => HomeOf(f) \in repaired
  BY FieldTypes
<1>11. clean' \subseteq clean
  BY <1>2
<1> QED
  BY <1>2, <1>3, <1>6, <1>8, <1>9, <1>10, <1>11, EventIsDue

-----------------------------------------------------------------------------
(* The content of the cache.                                               *)

LEMMA NothingIsDue ==
    ASSUME NEW h \in Handlers, Init
    PROVE  ContentIsDue(h)
<1>1. /\ hash = [f \in Field |-> None] /\ sets = [k \in Key |-> {}] /\ todo[h] = <<>>
      /\ status = [g \in Guilds |-> "out"] /\ told = {} /\ repaired = {} /\ clean = Guilds
  BY DEF Init, StoreInit
<1>2. ToldAreMembers /\ Mending(h) = {}
  BY <1>1 DEF ToldAreMembers, Mending
<1>3. ASSUME NEW f \in Tracked
      PROVE  Quiet(todo[h], f) /\ Settles(h, f, Entry(f)) /\ Due(h, f, Entry(f))
  <2>1. f \in Field /\ KeyOf(f) \in Key /\ HomeOf(f) \in Guilds
    BY FieldTypes
  <2>2. Entry(f).value = None /\ Entry(f).mark # "listed"
    BY <1>1, <2>1, EntryParts
  <2>3. Clean(f[1], "out", Actual(f), Entry(f))
    BY <1>1, <2>2, FieldCases DEF Clean, Actual
  <2>4. Quiet(todo[h], f) /\ Leads(todo[h], f, Entry(f), Entry(f))
    BY <1>1, LeadsNothing, QuietFew
  <2> QED
    BY <1>1, <1>2, <2>1, <2>3, <2>4 DEF Settles, Due
<1> QED
  BY <1>2, <1>3 DEF ContentIsDue

LEMMA EventIsAccountedFor ==
    ASSUME TypeOK, NEW h \in Handlers, ContentIsDue(h), EventIsTaken(h)
    PROVE  ContentIsDue(h)'
  BY ChannelIsDue, RoleIsDue, EmojisAreDue, GuildIsDue, JoiningIsDue, LeavingIsDue, MemberChangeIsDue,
     SeeingIsDue, SpeakingIsDue, CommandIsDue, UserIsDue, AppearingIsDue, FailureIsDue, LossIsDue,
     SessionIsDue DEF EventIsTaken

LEMMA ContentStep ==
    ASSUME TypeOK, NEW h \in Handlers, Handlers = {h}, ContentIsDue(h), [Next]_vars
    PROVE  ContentIsDue(h)'
<1>1. CASE NextItem(h) \/ Writes(h) \/ Reads(h) \/ Fails(h)
  BY <1>1, NextItemGoesOn, WriteGoesOn, ReadGoesOn, FailureIsAccountedFor
<1>2. CASE UNCHANGED vars
  <2>1. UNCHANGED <<storeVars, todo, about, created, worldVars, repaired, clean>>
    BY <1>2 DEF vars, handlerVars
  <2>2. \A f : Entry(f)' = Entry(f)
    BY <2>1, EntryUnchanged
  <2>3. Mending(h)' \subseteq Mending(h)
    BY <2>1 DEF Mending
  <2> QED
    BY <2>1, <2>2, <2>3, WorkGoesOn
<1> QED
  BY <1>1, <1>2, EventIsAccountedFor DEF Next

\* Between events every object is as it is to be.
LEMMA ContentIsDone ==
    ASSUME NEW h, ContentIsDue(h), todo[h] = <<>>, NEW f \in Tracked
    PROVE  /\ HomeOf(f) \in clean => Clean(f[1], status[HomeOf(f)], Actual(f), Entry(f))
           /\ HomeOf(f) \in repaired => Mended(f[1], Actual(f), Entry(f))
  BY IdleIsDue DEF Due

LEMMA ChannelIsDone ==
    ASSUME NEW h, ContentIsDue(h), todo[h] = <<>>, NEW c \in Channels, NEW g, Home[c] = g
    PROVE  /\ g \in clean /\ status[g] = "in" =>
                 hash[Channel(c)] = actual[c] /\ (c \in sets[GuildChannels(g)] <=> actual[c] # None)
           /\ g \in clean /\ status[g] = "out" => hash[Channel(c)] = None
           /\ g \in repaired => /\ actual[c] # None => hash[Channel(c)] = actual[c]
                                /\ c \in sets[GuildChannels(g)] <=> actual[c] # None
<1> DEFINE f == Channel(c)
<1>1. f \in Tracked /\ f[1] = "channels" /\ f[2] = c /\ HomeOf(f) = g /\ IdOf(f) = c
      /\ KeyOf(f) = GuildChannels(g)
  BY DEF Tracked, ObjectFields, Channel, HomeOf, IdOf, KeyOf
<1>2. Actual(f) = actual[c]
  BY <1>1 DEF Actual
<1> HIDE DEF f
<1>3. /\ g \in clean => Clean("channels", status[g], actual[c], Entry(f))
      /\ g \in repaired => Mended("channels", actual[c], Entry(f))
  BY <1>1, <1>2, ContentIsDone
<1>4. Entry(f).value = hash[f] /\ (Entry(f).mark = "listed" <=> c \in sets[GuildChannels(g)])
  BY <1>1, EntryParts
<1>5. /\ g \in clean /\ status[g] = "in" =>
            hash[f] = actual[c] /\ (c \in sets[GuildChannels(g)] <=> actual[c] # None)
      /\ g \in clean /\ status[g] = "out" => hash[f] = None
      /\ g \in repaired => /\ actual[c] # None => hash[f] = actual[c]
                           /\ c \in sets[GuildChannels(g)] <=> actual[c] # None
  BY <1>3, <1>4 DEF Clean, Mended
<1> QED
  BY <1>5 DEF f

LEMMA RoleIsDone ==
    ASSUME NEW h, ContentIsDue(h), todo[h] = <<>>, NEW r \in Roles, NEW g, Home[r] = g
    PROVE  /\ g \in clean /\ status[g] = "in" =>
                 hash[Role(r)] = actual[r] /\ (actual[r] # None => r \in sets[GuildRoles(g)])
           /\ g \in clean /\ status[g] = "out" => hash[Role(r)] = None
           /\ g \in repaired /\ actual[r] # None => hash[Role(r)] = actual[r] /\ r \in sets[GuildRoles(g)]
<1> DEFINE f == Role(r)
<1>1. f \in Tracked /\ f[1] = "roles" /\ f[2] = r /\ HomeOf(f) = g /\ IdOf(f) = r /\ KeyOf(f) = GuildRoles(g)
  BY DEF Tracked, ObjectFields, Role, HomeOf, IdOf, KeyOf
<1>2. Actual(f) = actual[r]
  BY <1>1 DEF Actual
<1> HIDE DEF f
<1>3. /\ g \in clean => Clean("roles", status[g], actual[r], Entry(f))
      /\ g \in repaired => Mended("roles", actual[r], Entry(f))
  BY <1>1, <1>2, ContentIsDone
<1>4. Entry(f).value = hash[f] /\ (Entry(f).mark = "listed" <=> r \in sets[GuildRoles(g)])
  BY <1>1, EntryParts
<1>5. /\ g \in clean /\ status[g] = "in" =>
            hash[f] = actual[r] /\ (actual[r] # None => r \in sets[GuildRoles(g)])
      /\ g \in clean /\ status[g] = "out" => hash[f] = None
      /\ g \in repaired /\ actual[r] # None => hash[f] = actual[r] /\ r \in sets[GuildRoles(g)]
  BY <1>3, <1>4 DEF Clean, Mended, Holds
<1> QED
  BY <1>5 DEF f

LEMMA EmojiIsDone ==
    ASSUME NEW h, ContentIsDue(h), todo[h] = <<>>, NEW e \in Emojis, NEW g, Home[e] = g
    PROVE  /\ g \in clean /\ status[g] = "in" =>
                 hash[Emoji(e)] = actual[e] /\ (e \in sets[GuildEmojis(g)] <=> actual[e] # None)
           /\ g \in clean /\ status[g] = "out" => hash[Emoji(e)] = None
           /\ g \in repaired => /\ actual[e] # None => hash[Emoji(e)] = actual[e]
                                /\ e \in sets[GuildEmojis(g)] => actual[e] # None
<1> DEFINE f == Emoji(e)
<1>1. f \in Tracked /\ f[1] = "emojis" /\ f[2] = e /\ HomeOf(f) = g /\ IdOf(f) = e
      /\ KeyOf(f) = GuildEmojis(g)
  BY DEF Tracked, ObjectFields, Emoji, HomeOf, IdOf, KeyOf
<1>2. Actual(f) = actual[e]
  BY <1>1 DEF Actual
<1> HIDE DEF f
<1>3. /\ g \in clean => Clean("emojis", status[g], actual[e], Entry(f))
      /\ g \in repaired => Mended("emojis", actual[e], Entry(f))
  BY <1>1, <1>2, ContentIsDone
<1>4. Entry(f).value = hash[f] /\ (Entry(f).mark = "listed" <=> e \in sets[GuildEmojis(g)])
  BY <1>1, EntryParts
<1>5. /\ g \in clean /\ status[g] = "in" =>
            hash[f] = actual[e] /\ (e \in sets[GuildEmojis(g)] <=> actual[e] # None)
      /\ g \in clean /\ status[g] = "out" => hash[f] = None
      /\ g \in repaired => /\ actual[e] # None => hash[f] = actual[e]
                           /\ e \in sets[GuildEmojis(g)] => actual[e] # None
  BY <1>3, <1>4 DEF Clean, Mended
<1> QED
  BY <1>5 DEF f

LEMMA MemberIsDone ==
    ASSUME NEW h, ContentIsDue(h), todo[h] = <<>>, NEW g \in Guilds, NEW u \in Users
    PROVE  /\ g \in clean /\ <<g, u>> \in told =>
                 hash[Member(g, u)] = joined[<<g, u>>] /\ u \in sets[GuildMembers(g)]
           /\ g \in clean /\ <<g, u>> \notin told =>
                  hash[Member(g, u)] = None /\ u \notin sets[GuildMembers(g)]
           /\ g \in repaired /\ <<g, u>> \in told => hash[Member(g, u)] = joined[<<g, u>>]
           /\ <<g, u>> \in told => status[g] = "in"
<1> DEFINE f == Member(g, u)
           look == IF <<g, u>> \in told THEN joined[<<g, u>>] ELSE None
<1>1. f \in Tracked /\ f[1] = "members" /\ f[2] = <<g, u>> /\ HomeOf(f) = g /\ IdOf(f) = u
      /\ KeyOf(f) = GuildMembers(g)
  BY DEF Tracked, ObjectFields, MemberIds, Member, HomeOf, IdOf, KeyOf
<1>2. Actual(f) = look
  BY <1>1 DEF Actual
<1>3. <<g, u>> \in told => status[g] = "in" /\ look # None
  BY DEF ContentIsDue, ToldAreMembers
<1>t. /\ <<g, u>> \in told => look = joined[<<g, u>>]
      /\ <<g, u>> \notin told => look = None
  OBVIOUS
<1> HIDE DEF f, look
<1>4. /\ g \in clean => Clean("members", status[g], look, Entry(f))
      /\ g \in repaired => Mended("members", look, Entry(f))
  BY <1>1, <1>2, ContentIsDone
<1>5. Entry(f).value = hash[f] /\ (Entry(f).mark = "listed" <=> u \in sets[GuildMembers(g)])
  BY <1>1, EntryParts
<1>6. /\ g \in clean => hash[f] = look /\ (u \in sets[GuildMembers(g)] <=> look # None)
      /\ g \in repaired /\ look # None => hash[f] = look
  BY <1>4, <1>5 DEF Clean, Mended
<1>7. hash[f] = hash[Member(g, u)]
  BY DEF f
<1> QED
  BY <1>3, <1>t, <1>6, <1>7

LEMMA GuildIsDone ==
    ASSUME TypeOK, NEW h, ContentIsDue(h), todo[h] = <<>>, NEW g \in Guilds
    PROVE  /\ status[g] = "in" /\ g \in clean \union repaired => GuildIsCurrent(g)
           /\ g \in clean /\ status[g] = "out" => hash[Guild(g)] = None
<1> DEFINE f == Guild(g)
<1>1. f \in Tracked /\ f[1] = "guilds" /\ f[2] = g /\ HomeOf(f) = g /\ IdOf(f) = g
      /\ KeyOf(f) = UnavailableGuilds
  BY DEF Tracked, GuildFields, Guild, HomeOf, IdOf, KeyOf
<1>2. Actual(f) = Record(g)
  BY <1>1 DEF Actual
<1> HIDE DEF f
<1>3. /\ g \in clean => Clean("guilds", status[g], Record(g), Entry(f))
      /\ g \in repaired => Mended("guilds", Record(g), Entry(f))
  BY <1>1, <1>2, ContentIsDone
<1>4. Entry(f).value = hash[f] /\ (Entry(f).mark = "unlisted" <=> g \notin sets[UnavailableGuilds])
  BY <1>1, EntryParts
<1>5. /\ status[g] = "in" /\ g \in clean \union repaired =>
            hash[f] = Record(g) /\ g \notin sets[UnavailableGuilds]
      /\ g \in clean /\ status[g] = "out" => hash[f] = None
  BY <1>3, <1>4 DEF Clean, Mended, Holds
<1>6. /\ Record(g) # None /\ ~Record(g).unavailable
      /\ Record(g).member_count = Cardinality(MembersOf(g))
  <2>1. Cardinality(MembersOf(g)) \in Nat
    BY MembersCounted DEF TypeOK
  <2>2. Record(g) \in CachedGuild
    BY <2>1 DEF Record, CachedGuild
  <2> QED
    BY <2>2, RecordAssumption DEF Record
<1>7. hash[f] = hash[Guild(g)]
  BY DEF f
<1> QED
  BY <1>5, <1>6, <1>7 DEF GuildIsCurrent

LEMMA ContentMeansCurrent ==
    ASSUME TypeOK, NEW h \in Handlers, ContentIsDue(h)
    PROVE  CacheIsCurrent
<1> SUFFICES ASSUME todo[h] = <<>>, NEW g \in clean, status[g] = "in"
             PROVE  /\ GuildIsCurrent(g)
                    /\ \A c \in Channels : Home[c] = g =>
                          hash[Channel(c)] = actual[c] /\ (c \in sets[GuildChannels(g)] <=> actual[c] # None)
                    /\ \A e \in Emojis : Home[e] = g =>
                          hash[Emoji(e)] = actual[e] /\ (e \in sets[GuildEmojis(g)] <=> actual[e] # None)
                    /\ \A r \in Roles : Home[r] = g =>
                          hash[Role(r)] = actual[r] /\ (actual[r] # None => r \in sets[GuildRoles(g)])
                    /\ \A u \in Users :
                          IF <<g, u>> \in told
                          THEN hash[Member(g, u)] = joined[<<g, u>>] /\ u \in sets[GuildMembers(g)]
                          ELSE hash[Member(g, u)] = None /\ u \notin sets[GuildMembers(g)]
  BY DEF CacheIsCurrent, Idle
<1>1. g \in Guilds
  BY DEF TypeOK, WorldTypeOK
<1>2. GuildIsCurrent(g)
  BY <1>1, GuildIsDone
<1> QED
  BY <1>1, <1>2, ChannelIsDone, EmojiIsDone, RoleIsDone, MemberIsDone

LEMMA ContentMeansGone ==
    ASSUME TypeOK, NEW h \in Handlers, ContentIsDue(h)
    PROVE  LeftGuildIsGone
<1> SUFFICES ASSUME todo[h] = <<>>, NEW g \in clean, status[g] = "out"
             PROVE  /\ hash[Guild(g)] = None
                    /\ \A c \in Channels : Home[c] = g => hash[Channel(c)] = None
                    /\ \A e \in Emojis : Home[e] = g => hash[Emoji(e)] = None
                    /\ \A r \in Roles : Home[r] = g => hash[Role(r)] = None
                    /\ \A u \in Users : hash[Member(g, u)] = None
  BY DEF LeftGuildIsGone, Idle
<1>1. g \in Guilds
  BY DEF TypeOK, WorldTypeOK
<1>2. hash[Guild(g)] = None
  BY <1>1, GuildIsDone
<1>3. \A u \in Users : hash[Member(g, u)] = None
  BY <1>1, MemberIsDone
<1> QED
  BY <1>2, <1>3, ChannelIsDone, EmojiIsDone, RoleIsDone

LEMMA ContentMeansRepaired ==
    ASSUME TypeOK, NEW h \in Handlers, ContentIsDue(h)
    PROVE  CreateRepairs
<1> SUFFICES ASSUME todo[h] = <<>>, NEW g \in repaired, status[g] = "in"
             PROVE  /\ GuildIsCurrent(g)
                    /\ \A t \in Things : Home[t] = g /\ actual[t] # None =>
                          actual[t] = hash[CASE t \in Channels -> Channel(t)
                                             [] t \in Roles    -> Role(t)
                                             [] t \in Emojis   -> Emoji(t)]
                    /\ sets[GuildChannels(g)] = ThingsOf(Channels, g)
                    /\ ThingsOf(Roles, g) \subseteq sets[GuildRoles(g)]
                    /\ sets[GuildEmojis(g)] \subseteq ThingsOf(Emojis, g)
                    /\ \A u \in Users : <<g, u>> \in told => hash[Member(g, u)] = joined[<<g, u>>]
  BY DEF CreateRepairs, Idle
<1>1. g \in Guilds
  BY DEF TypeOK, WorldTypeOK
<1>2. GuildIsCurrent(g)
  BY <1>1, GuildIsDone
<1>3. \A u \in Users : <<g, u>> \in told => hash[Member(g, u)] = joined[<<g, u>>]
  BY <1>1, MemberIsDone
<1>4. ASSUME NEW t \in Things, Home[t] = g, actual[t] # None
      PROVE  actual[t] = hash[CASE t \in Channels -> Channel(t)
                                [] t \in Roles    -> Role(t)
                                [] t \in Emojis   -> Emoji(t)]
  <2>1. CASE t \in Channels
    <3>1. t \notin Roles /\ t \notin Emojis
      BY <2>1, CacheAssumption
    <3>2. actual[t] = hash[Channel(t)]
      BY <1>4, <2>1, ChannelIsDone
    <3> QED
      BY <2>1, <3>1, <3>2
  <2>2. CASE t \in Roles
    <3>1. t \notin Channels /\ t \notin Emojis
      BY <2>2, CacheAssumption
    <3>2. actual[t] = hash[Role(t)]
      BY <1>4, <2>2, RoleIsDone
    <3> QED
      BY <2>2, <3>1, <3>2
  <2>3. CASE t \in Emojis
    <3>1. t \notin Channels /\ t \notin Roles
      BY <2>3, CacheAssumption
    <3>2. actual[t] = hash[Emoji(t)]
      BY <1>4, <2>3, EmojiIsDone
    <3> QED
      BY <2>3, <3>1, <3>2
  <2> QED
    BY <2>1, <2>2, <2>3 DEF Things
<1>5. /\ sets[GuildChannels(g)] \subseteq At(g, Channels)
      /\ sets[GuildEmojis(g)] \subseteq At(g, Emojis)
  <2>1. GuildChannels(g) \in Key /\ GuildEmojis(g) \in Key
    BY <1>1 DEF Key, GuildChannels, GuildEmojis
  <2>2. IdsOf(GuildChannels(g)) = At(g, Channels) /\ IdsOf(GuildEmojis(g)) = At(g, Emojis)
    BY DEF IdsOf, GuildChannels, GuildEmojis
  <2> QED
    BY <2>1, <2>2 DEF TypeOK, StoreTypeOK
<1>6. sets[GuildChannels(g)] = ThingsOf(Channels, g)
  <2>1. \A c \in At(g, Channels) : c \in sets[GuildChannels(g)] <=> actual[c] # None
    BY ChannelIsDone DEF At
  <2> QED
    BY <1>5, <2>1 DEF At, ThingsOf
<1>7. ThingsOf(Roles, g) \subseteq sets[GuildRoles(g)]
  BY RoleIsDone DEF ThingsOf
<1>8. sets[GuildEmojis(g)] \subseteq ThingsOf(Emojis, g)
  <2>1. \A e \in At(g, Emojis) : e \in sets[GuildEmojis(g)] => actual[e] # None
    BY EmojiIsDone DEF At
  <2> QED
    BY <1>5, <2>1 DEF At, ThingsOf
<1> QED
  BY <1>2, <1>3, <1>4, <1>6, <1>7, <1>8

LEMMA ContentCorrect ==
    ASSUME NEW only \in Handlers, Handlers = {only}
    PROVE  Spec => [](TypeOK /\ ContentIsDue(only))
<1>1. Init => ContentIsDue(only)
  BY NothingIsDue
<1>2. TypeOK /\ ContentIsDue(only) /\ [Next]_vars => ContentIsDue(only)'
  BY ContentStep
<1> QED
  BY <1>1, <1>2, TypeCorrect, PTL DEF Spec

\* With one handler and between events, the cache has of a guild all of whose
\* events were carried out exactly what Discord told of it, found from either side:
\* the guild that is current and its count of members (models/guild.rs), and every
\* channel, emoji, role and member with the sets of their ids.
THEOREM WhatIsToldIsCached ==
    ASSUME NEW only \in Handlers, Handlers = {only}
    PROVE  Spec => []CacheIsCurrent
<1>1. TypeOK /\ ContentIsDue(only) => CacheIsCurrent
  BY ContentMeansCurrent
<1> QED
  BY <1>1, ContentCorrect, PTL

\* With one handler and between events, no object of a guild all of whose events
\* were carried out outlives the event that the guild is left: delete_guild finds
\* each by an id in a set of the guild, through all outages and sessions before.
THEOREM WhatIsLeftIsGone ==
    ASSUME NEW only \in Handlers, Handlers = {only}
    PROVE  Spec => []LeftGuildIsGone
<1>1. TypeOK /\ ContentIsDue(only) => LeftGuildIsGone
  BY ContentMeansGone
<1> QED
  BY <1>1, ContentCorrect, PTL

\* With one handler and between events, whatever commands failed before, a guild
\* whose GuildCreate was carried out, and every event since, is as Discord has it:
\* cache_guild replaces what a failure left.
THEOREM WhatIsCreatedIsRepaired ==
    ASSUME NEW only \in Handlers, Handlers = {only}
    PROVE  Spec => []CreateRepairs
<1>1. TypeOK /\ ContentIsDue(only) => CreateRepairs
  BY ContentMeansRepaired
<1> QED
  BY <1>1, ContentCorrect, PTL
=============================================================================
