----------------------------- MODULE GuildData -----------------------------
(***************************************************************************)
(* What the modules core and emoji keep of a guild: its row in the table   *)
(* guilds, the rows of emoji_uses that point to it, and the emojis the     *)
(* cache lists for it.  One operator per statement that the event handlers *)
(* and the task guilds:cleanup send to the database or the cache.          *)
(***************************************************************************)
EXTENDS Naturals, FiniteSets

CONSTANTS
    Guilds,      \* guilds the bot may be in
    Emojis       \* custom emojis a guild may have

ASSUME DataAssumption == IsFiniteSet(Guilds) /\ IsFiniteSet(Emojis)

VARIABLES
    row,           \* guilds: no row, deleted_at NULL, set, set over 7 days ago
    uses,          \* emoji_uses: the pairs of guild and emoji with a use
    guild_emojis   \* the cache's set of emojis of each guild

dataVars == <<row, uses, guild_emojis>>

Rows == {"absent", "present", "marked", "expired"}

\* emoji_uses.guild_id REFERENCES guilds ON DELETE CASCADE
Cascade(table, g) == {use \in table : use[1] # g}

TouchKeepingMark(g) ==
    row' = [row EXCEPT ![g] = IF @ = "absent" THEN "present" ELSE @]

\* INSERT ... ON CONFLICT DO UPDATE SET deleted_at = NULL
Touch(g) == row' = [row EXCEPT ![g] = "present"]

LeaveGuild(g) == row' = [row EXCEPT ![g] = IF @ = "absent" THEN @ ELSE "marked"]

\* deleted_at < NOW() - interval '7 days'
EligibleForDeletion == {g \in Guilds : row[g] = "expired"}

DeleteGuild(g) ==
    /\ row' = [row EXCEPT ![g] = "absent"]
    /\ uses' = Cascade(uses, g)

DeleteUsesInList(g, list) == uses' = {use \in uses : use[1] # g \/ use[2] \notin list}

DeleteUsesNotInList(g, list) == uses' = {use \in uses : use[1] # g \/ use[2] \in list}

\* refused by the foreign key when the guild has no row
SaveEmojiUse(g, e) ==
    uses' = IF row[g] = "absent" THEN uses ELSE uses \union {<<g, e>>}

\* cache_emojis: the list of the guild replaces what the cache had; the
\* removal of a guild leaves its set of emojis alone
CacheEmojis(g, list) == guild_emojis' = [guild_emojis EXCEPT ![g] = list]

\* Time goes by.
WeekPasses(g) ==
    /\ row[g] = "marked"
    /\ row' = [row EXCEPT ![g] = "expired"]
    /\ UNCHANGED <<uses, guild_emojis>>

DataTypeOK ==
    /\ row \in [Guilds -> Rows]
    /\ uses \subseteq Guilds \X Emojis
    /\ guild_emojis \in [Guilds -> SUBSET Emojis]
=============================================================================
