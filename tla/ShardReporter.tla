--------------------------- MODULE ShardReporter ---------------------------
(***************************************************************************)
(* The ShardReporter task of crates/tulpje-gateway: it takes the events of *)
(* one shard from a bounded channel, keeps the shard's statistics and      *)
(* writes them to redis after every event that changes them.  Between the  *)
(* change and the end of the write the rest of the process goes on.        *)
(*                                                                         *)
(* A message of the gateway is a record: what it is, its place among the   *)
(* dispatch events of the shard (0 for what is no dispatch event) and the  *)
(* guilds it names.                                                        *)
(***************************************************************************)
EXTENDS Naturals, Sequences, FiniteSets

CONSTANTS
    Guilds,       \* the guilds the bot may be in
    Capacity      \* of the channel to the reporter: 10 in the code

ASSUME ReporterAssumption ==
    /\ IsFiniteSet(Guilds)
    /\ Capacity \in Nat \ {0}

VARIABLES
    inbox,            \* receiver
    inboxOpen,        \* receiver.close() was not called
    reporterShutdown, \* the shutdown token of ShardReporterHandle
    reporting,        \* the task: "running" (in select!), "saving", "stopped"
    guild_ids,
    shard,            \* the ShardState in memory
    redis,            \* the shard's entry of tulpje:shard_status
    lastSave          \* history: how the last save_shard of this process went

reporterVars == <<inbox, inboxOpen, reporterShutdown, reporting,
                  guild_ids, shard, redis, lastSave>>

\* "Chat" stands for every dispatch event that only the handler wants.
DispatchKinds == {"Ready", "Resumed", "GuildCreate", "GuildDelete", "Chat"}
Kinds == DispatchKinds \union {"Hello", "HeartbeatAck", "Close"}

Message == [kind : Kinds, seq : Nat, guilds : SUBSET Guilds]

\* SHARD_REPORTER_EVENTS
ReporterKindsWithClose ==
    {"Hello", "Ready", "Resumed", "GuildCreate", "GuildDelete", "HeartbeatAck", "Close"}

ReporterKindsWithoutHello == {"Ready", "Resumed", "GuildCreate", "GuildDelete", "HeartbeatAck"}

ReporterKinds == {"Hello", "Ready", "Resumed", "GuildCreate", "GuildDelete", "HeartbeatAck"}

\* heartbeat_interval is 0 until a hello told it; it is taken to fit its u32, else
\* helloed returns an error and saves nothing.  Times and the latency are left out.
ShardState == [up : BOOLEAN, guild_count : Nat, disconnect_count : Nat,
               heartbeat_interval : {0, 1}]

NewShard == [up |-> FALSE, guild_count |-> 0, disconnect_count |-> 0,
             heartbeat_interval |-> 0]

-----------------------------------------------------------------------------
(* ShardReporterHandle::try_send, called by the shard manager.  An event    *)
(* the reporter has no use for is accepted and goes nowhere.                *)
Refused(m) == m.kind \in ReporterKinds /\ (~inboxOpen \/ Len(inbox) = Capacity)

TrySendUnbounded(m) == inbox' = Append(inbox, m)

TrySend(m) ==
    inbox' = IF m.kind \in ReporterKinds /\ ~Refused(m) THEN Append(inbox, m) ELSE inbox

-----------------------------------------------------------------------------
(* handle_event: what the reporter knows after event m.  A GuildCreate or a  *)
(* GuildDelete counts alike whether it is marked unavailable or not.        *)

GuildsAfterIgnoringDelete(m) ==
    IF m.kind \in {"Ready", "GuildCreate"} THEN guild_ids \union m.guilds ELSE guild_ids

GuildsAfter(m) ==
    CASE m.kind \in {"Ready", "GuildCreate"} -> guild_ids \union m.guilds
      [] m.kind = "GuildDelete"              -> guild_ids \ m.guilds
      [] OTHER                               -> guild_ids

\* guild_created and guild_deleted return before save_shard when the set stays
NothingToSaveForGuilds(m) == m.kind \in {"GuildCreate", "GuildDelete"}

NothingToSave(m) ==
    m.kind \in {"GuildCreate", "GuildDelete"} /\ GuildsAfter(m) = guild_ids

ShardAfter(m) ==
    CASE m.kind = "Hello" -> [shard EXCEPT !.heartbeat_interval = 1]
      [] m.kind = "Ready" -> [shard EXCEPT !.up = TRUE,
                                           !.guild_count = Cardinality(GuildsAfter(m))]
      [] m.kind \in {"Resumed", "HeartbeatAck"} -> [shard EXCEPT !.up = TRUE]
      [] m.kind \in {"GuildCreate", "GuildDelete"} ->
            [shard EXCEPT !.guild_count = Cardinality(GuildsAfter(m))]
      [] m.kind = "Close" -> [shard EXCEPT !.up = FALSE, !.disconnect_count = @ + 1]

HandleEvent ==
    /\ reporting = "running" /\ inbox # <<>>
    /\ inbox' = Tail(inbox)
    /\ guild_ids' = GuildsAfter(Head(inbox))
    /\ shard' = ShardAfter(Head(inbox))
    /\ reporting' = IF NothingToSave(Head(inbox)) THEN "running" ELSE "saving"
    /\ UNCHANGED <<inboxOpen, reporterShutdown, redis, lastSave>>

SaveOk ==
    /\ reporting = "saving"
    /\ reporting' = "running"
    /\ redis' = shard /\ lastSave' = "ok"
    /\ UNCHANGED <<inbox, inboxOpen, reporterShutdown, guild_ids, shard>>

\* The error is logged; a write whose answer timed out may have been done.
SaveFails ==
    /\ reporting = "saving"
    /\ reporting' = "running"
    /\ redis' \in {redis, shard} /\ lastSave' = "failed"
    /\ UNCHANGED <<inbox, inboxOpen, reporterShutdown, guild_ids, shard>>

CloseInbox ==
    /\ reporting = "running" /\ reporterShutdown /\ inboxOpen
    /\ inboxOpen' = FALSE
    /\ UNCHANGED <<inbox, reporterShutdown, reporting, guild_ids, shard, redis, lastSave>>

\* the else branch of select!: the receiver is closed and drained
ReporterEnds ==
    /\ reporting = "running" /\ ~inboxOpen /\ inbox = <<>>
    /\ reporting' = "stopped"
    /\ UNCHANGED <<inbox, inboxOpen, reporterShutdown, guild_ids, shard, redis, lastSave>>

ReporterStep == HandleEvent \/ SaveOk \/ SaveFails \/ CloseInbox \/ ReporterEnds

\* redis still holds the record of an earlier run of the process.
ReporterInit ==
    /\ inbox = <<>> /\ inboxOpen = TRUE
    /\ reporterShutdown = FALSE /\ reporting = "running"
    /\ guild_ids = {} /\ shard = NewShard
    /\ redis = [NewShard EXCEPT !.up = TRUE, !.heartbeat_interval = 1]
    /\ lastSave = "none"

-----------------------------------------------------------------------------
ReporterTypeOK ==
    /\ inbox \in Seq(Message) /\ Len(inbox) <= Capacity
    /\ \A i \in DOMAIN inbox : inbox[i].kind \in ReporterKinds
    /\ inboxOpen \in BOOLEAN /\ reporterShutdown \in BOOLEAN
    /\ reporting \in {"running", "saving", "stopped"}
    /\ guild_ids \subseteq Guilds
    /\ shard \in ShardState /\ redis \in ShardState
    /\ lastSave \in {"none", "ok", "failed"}

(* What redis holds is what the reporter knows, its count that of the       *)
(* guilds known, unless the last write failed or is under way: no handler   *)
(* changes anything and returns before it saves.                            *)
RecordIsCurrent ==
    (reporting # "saving" /\ lastSave = "ok") =>
        redis = shard /\ redis.guild_count = Cardinality(guild_ids)

(* A record this process wrote with up = TRUE has a heartbeat interval:     *)
(* without one is_up() can never be true, however often the shard beats.    *)
UpRecordIsUsable ==
    (lastSave = "ok" /\ redis.up) => redis.heartbeat_interval # 0
=============================================================================
