------------------------------ MODULE Handler ------------------------------
(***************************************************************************)
(* The primary handler process (crates/tulpje-handler): the AmqpHandle     *)
(* hands the events of the queue to the main loop, which updates the cache *)
(* and sends them to the framework; there each event gets a task of its    *)
(* own, so that handlers of different events run side by side, next to the *)
(* daily task guilds:cleanup and the services.  main starts it all and     *)
(* stops it in order on a signal.                                          *)
(*                                                                         *)
(* Events may be lost before they get here (AmqpConnection), so any        *)
(* sequence of events is one the handler can be given.                     *)
(***************************************************************************)
EXTENDS Framework, GuildData

CONSTANTS
    MaxEvents,     \* bound: events delivered in a behaviour
    MaxFailures    \* bound: calls of the database, redis and Discord that fail

ASSUME HandlerAssumption == MaxEvents \in Nat /\ MaxFailures \in Nat

VARIABLES
    main,          \* what main awaits
    signalled,     \* SIGINT or SIGTERM arrived
    amqpStart, amqpShutdown, amqpResult, amqpPhase,
    amqpRx,        \* amqp_rx: events received and not taken by the main loop
    loop,          \* the main loop: "receiving", "caching" or "done"
    cleanup,       \* the task guilds:cleanup: "idle" or "deleting"
    doomed,        \* the guilds it read and has not deleted yet
    emojis,        \* the emojis each guild has on Discord
    delivered,     \* events delivered so far
    \* history
    sent,          \* the seq of the last delivery sent to the framework or skipped
    failures,      \* calls that failed so far
    lastSeen,      \* per guild, the last event that says whether the bot is in
    lastList,      \* per guild, the last event that listed its emojis
    orderly        \* no two tasks ever worked on one guild at the same time

amqpVars == <<amqpStart, amqpShutdown, amqpResult, amqpPhase>>
loopVars == <<amqpRx, loop, sent>>
cleanupVars == <<cleanup, doomed>>
worldVars == <<emojis, delivered>>
historyVars == <<lastSeen, lastList>>
vars == <<frameworkVars, dataVars, main, signalled, amqpVars, loopVars, cleanupVars,
          worldVars, historyVars, failures, orderly>>

Amqp == INSTANCE AmqpHandle WITH
    startToken <- amqpStart, shutdownToken <- amqpShutdown,
    startResult <- amqpResult, phase <- amqpPhase

\* list: the emojis of the guild, or the one somebody used.
Event == [type : EventTypes, guild : Guilds, list : SUBSET Emojis,
          unavailable : BOOLEAN, seq : 1..MaxEvents]

\* What the queue holds: events, and what parse_delivery makes nothing of.
Delivery == [type : EventTypes \union {"Unreadable"}, guild : Guilds, list : SUBSET Emojis,
             unavailable : BOOLEAN, seq : 1..MaxEvents]

Readable(e) == e.type # "Unreadable"

\* Events that name the emojis a guild has, and events that use one.
ListsEmojis(e) == e.type = "GuildEmojisUpdate" \/ (e.type = "GuildCreate" /\ ~e.unavailable)
Mentions == {"MessageCreate", "MessageUpdate", "ReactionAdd"}

\* The event handlers; those of Mentions go on to save the use.
Steps == {"core:guild_create", "core:guild_delete", "emoji:guild_create",
          "emoji:guild_emojis_update", "emoji:handle_message", "emoji:message_update",
          "emoji:reaction_add", "emoji:save_emoji_use"}

Task == [event : Event, todo : Seq(Steps)]

ProcessRuns == main # "exited"

Fails ==
    /\ failures < MaxFailures
    /\ failures' = failures + 1

-----------------------------------------------------------------------------
(* The events of the queue. *)

\* Discord's change and the delivery of the event that tells of it are one step.
\* A guild need not have the emoji used: an edited message may be old.
Delivers(e) ==
    /\ ProcessRuns /\ amqpPhase = "active" /\ amqpResult = "ok" /\ delivered < MaxEvents
    /\ e.seq = delivered + 1 /\ delivered' = e.seq
    /\ e.unavailable => e.type \in {"GuildCreate", "GuildDelete"}
    /\ e.type \in Mentions => Cardinality(e.list) = 1
    /\ e.list # {} => ListsEmojis(e) \/ e.type \in Mentions
    /\ emojis' = IF ListsEmojis(e) THEN [emojis EXCEPT ![e.guild] = e.list] ELSE emojis
    /\ amqpRx' = Append(amqpRx, e)
    /\ UNCHANGED <<frameworkVars, dataVars, main, signalled, amqpVars, loop, sent,
                   cleanupVars, historyVars, failures, orderly>>

-----------------------------------------------------------------------------
(* The main loop. *)

LoopRuns == main \notin {"starting", "framework", "exited"}

LoopReceives ==
    /\ LoopRuns /\ loop = "receiving" /\ amqpRx # <<>> /\ Readable(Head(amqpRx))
    /\ loop' = "caching"
    /\ UNCHANGED <<frameworkVars, dataVars, main, signalled, amqpVars, amqpRx, sent,
                   cleanupVars, worldVars, historyVars, failures, orderly>>

\* parse_delivery failed: the loop continues with the next delivery
LoopSkips ==
    /\ LoopRuns /\ loop = "receiving" /\ amqpRx # <<>> /\ ~Readable(Head(amqpRx))
    /\ amqpRx' = Tail(amqpRx) /\ sent' = Head(amqpRx).seq
    /\ UNCHANGED <<frameworkVars, dataVars, main, signalled, amqpVars, loop,
                   cleanupVars, worldVars, historyVars, failures, orderly>>

\* cache.update
UpdateCache(e) ==
    IF ListsEmojis(e) THEN CacheEmojis(e.guild, e.list) ELSE UNCHANGED guild_emojis

Remember(e) ==
    /\ lastSeen' = CASE e.type = "GuildCreate" -> [lastSeen EXCEPT ![e.guild] = "in"]
                     [] e.type = "GuildDelete" /\ ~e.unavailable ->
                            [lastSeen EXCEPT ![e.guild] = "out"]
                     [] OTHER -> lastSeen
    /\ lastList' = IF ListsEmojis(e) THEN [lastList EXCEPT ![e.guild] = e.type] ELSE lastList

SendingFirst ==
    LET e == Head(amqpRx)
    IN  /\ loop = "caching"
        /\ \/ /\ sent < e.seq
              /\ queue' = Append(queue, e) /\ sent' = e.seq
              /\ Remember(e)
              /\ UNCHANGED <<guild_emojis, loop, amqpRx>>
           \/ /\ sent = e.seq
              /\ UpdateCache(e)
              /\ loop' = "receiving" /\ amqpRx' = Tail(amqpRx)
              /\ UNCHANGED <<queue, sent, historyVars>>
        /\ UNCHANGED <<dispatcher, tasks, timedOut, schedulerVars, service, frameworkShutdown,
                       row, uses, main, signalled, amqpVars, cleanupVars, worldVars,
                       failures, orderly>>

\* handle_message: the event is sent whether the cache could be updated or not
HandleMessage ==
    LET e == Head(amqpRx)
    IN  /\ loop = "caching"
        /\ \/ UpdateCache(e) /\ UNCHANGED failures
           \/ (UpdateCache(e) \/ UNCHANGED guild_emojis) /\ Fails
        /\ loop' = "receiving" /\ amqpRx' = Tail(amqpRx)
        /\ queue' = Append(queue, e) /\ sent' = e.seq
        /\ Remember(e)
        /\ UNCHANGED <<dispatcher, tasks, timedOut, schedulerVars, service, frameworkShutdown,
                       row, uses, main, signalled, amqpVars, cleanupVars, worldVars, orderly>>

\* amqp_tx went with the AMQP client, and what it sent has been read.
LoopEnds ==
    /\ LoopRuns /\ loop = "receiving" /\ amqpRx = <<>> /\ amqpPhase = "done"
    /\ loop' = "done"
    /\ UNCHANGED <<frameworkVars, dataVars, main, signalled, amqpVars, amqpRx, sent,
                   cleanupVars, worldVars, historyVars, failures, orderly>>

-----------------------------------------------------------------------------
(* The framework's tasks. *)

Busy(g) == (\E t \in tasks : t.event.guild = g) \/ g \in doomed

Dispatches ==
    /\ DispatchStep
    /\ orderly' = (orderly /\ \A t \in tasks' \ tasks : ~Busy(t.event.guild))
    /\ UNCHANGED <<dataVars, main, signalled, amqpVars, loopVars, cleanupVars, worldVars,
                   historyVars, failures>>

\* The handlers, in one statement each.
GuildCreated(e) == Touch(e.guild) /\ UNCHANGED uses

GuildDeleted(e) ==
    /\ IF e.unavailable THEN UNCHANGED row ELSE LeaveGuild(e.guild)
    /\ UNCHANGED uses

EmojisListed(e) ==
    /\ IF ListsEmojis(e) THEN DeleteUsesNotInList(e.guild, e.list) ELSE UNCHANGED uses
    /\ UNCHANGED row

EmojiUsed(e) == (\E emoji \in e.list : SaveEmojiUse(e.guild, emoji)) /\ UNCHANGED row

\* The handlers of a use look whether the guild has the emoji, and save afterwards.
RunHandler(step, e) ==
    /\ CASE step = "core:guild_create" -> GuildCreated(e)
         [] step = "core:guild_delete" -> GuildDeleted(e)
         [] step \in {"emoji:guild_create", "emoji:guild_emojis_update"} -> EmojisListed(e)
         [] step \in {"emoji:handle_message", "emoji:message_update", "emoji:reaction_add"} ->
                UNCHANGED <<row, uses>>
         [] step = "emoji:save_emoji_use" -> EmojiUsed(e)
    /\ UNCHANGED guild_emojis

\* is_guild_emoji: the cache knows the emoji, or Discord does
IsGuildEmoji(e) == e.list \subseteq guild_emojis[e.guild] \union emojis[e.guild]

\* message_update asks Discord for all emojis of the guild, and not the cache.
WillSave(step, e) ==
    \/ step \in {"emoji:handle_message", "emoji:reaction_add"} /\ IsGuildEmoji(e)
    \/ step = "emoji:message_update" /\ e.list \subseteq emojis[e.guild]

HandlerRuns ==
    /\ ProcessRuns
    /\ \E t \in tasks :
          /\ RunHandler(Head(t.todo), t.event)
          /\ IF WillSave(Head(t.todo), t.event)
             THEN ContinueWith(t, "emoji:save_emoji_use")
             ELSE FinishHandler(t)
    /\ UNCHANGED <<queue, dispatcher, timedOut, schedulerVars, service, frameworkShutdown, main,
                   signalled, amqpVars, loopVars, cleanupVars, worldVars, historyVars,
                   failures, orderly>>

\* Its error is logged; the handlers after it run all the same.
HandlerFails ==
    /\ ProcessRuns
    /\ \E t \in tasks : FinishHandler(t)
    /\ Fails
    /\ UNCHANGED <<queue, dispatcher, timedOut, schedulerVars, service, frameworkShutdown,
                   dataVars, main, signalled, amqpVars, loopVars, cleanupVars, worldVars,
                   historyVars, orderly>>

\* The cron scheduler spawns the task, which reads its list.  One run a day:
\* the next begins when this one is long over.
CleanupBegins ==
    /\ ProcessRuns /\ registered /\ cleanup = "idle"
    /\ EligibleForDeletion # {}
    /\ cleanup' = "deleting" /\ doomed' = EligibleForDeletion
    /\ orderly' = (orderly /\ \A t \in tasks : t.event.guild \notin EligibleForDeletion)
    /\ UNCHANGED <<frameworkVars, dataVars, main, signalled, amqpVars, loopVars, worldVars,
                   historyVars, failures>>

CleanupDeletes ==
    /\ ProcessRuns /\ cleanup = "deleting"
    /\ \E g \in doomed : DeleteGuild(g) /\ doomed' = doomed \ {g}
    /\ cleanup' = IF doomed' = {} THEN "idle" ELSE "deleting"
    /\ UNCHANGED <<frameworkVars, guild_emojis, main, signalled, amqpVars, loopVars, worldVars,
                   historyVars, failures, orderly>>

CleanupFails ==
    /\ ProcessRuns /\ cleanup = "deleting"
    /\ \E g \in doomed : doomed' = doomed \ {g}
    /\ cleanup' = IF doomed' = {} THEN "idle" ELSE "deleting"
    /\ Fails
    /\ UNCHANGED <<frameworkVars, dataVars, main, signalled, amqpVars, loopVars, worldVars,
                   historyVars, orderly>>

Scheduling ==
    /\ SchedulerStep
    /\ UNCHANGED <<dataVars, main, signalled, amqpVars, loopVars, cleanupVars, worldVars,
                   historyVars, failures, orderly>>

Serving ==
    /\ ServiceStep
    /\ UNCHANGED <<dataVars, main, signalled, amqpVars, loopVars, cleanupVars, worldVars,
                   historyVars, failures, orderly>>

-----------------------------------------------------------------------------
(* main *)

othersVars == <<dataVars, loopVars, cleanupVars, worldVars, historyVars, failures, orderly>>

Signal ==
    /\ ProcessRuns /\ ~signalled
    /\ signalled' = TRUE
    /\ UNCHANGED <<frameworkVars, main, amqpVars, othersVars>>

AmqpStep ==
    /\ Amqp!Begin \/ Amqp!ReportOk \/ Amqp!ReportError \/ Amqp!Stop
    /\ UNCHANGED <<frameworkVars, main, signalled, othersVars>>

\* wait_start answered; the tables are migrated and the framework is built, which
\* spawns its tasks.
MainBuilds ==
    /\ main = "starting" /\ amqpResult = "ok"
    /\ main' = "framework"
    /\ UNCHANGED <<frameworkVars, signalled, amqpVars, othersVars>>

MainServes ==
    /\ main = "framework"
    /\ main' = "serving"
    /\ FrameworkStart
    /\ UNCHANGED <<signalled, amqpVars, othersVars>>

\* expect("couldn't connect to amqp"); the migrations, or the commands the primary
\* registers: expect("error starting framework")
MainPanics ==
    /\ \/ main = "starting" /\ amqpResult \in {"error", "dropped"} /\ UNCHANGED failures
       \/ main = "framework" /\ Fails
    /\ main' = "exited"
    /\ UNCHANGED <<frameworkVars, signalled, amqpVars, dataVars, loopVars, cleanupVars,
                   worldVars, historyVars, orderly>>

MainStopsAmqp ==
    /\ main = "serving" /\ signalled
    /\ main' = "amqp"
    /\ Amqp!CallShutdown
    /\ UNCHANGED <<frameworkVars, signalled, othersVars>>

MainJoinsAmqp ==
    /\ main = "amqp" /\ amqpPhase = "done"
    /\ main' = "loop"
    /\ UNCHANGED <<frameworkVars, signalled, amqpVars, othersVars>>

MainAbandonsLoop ==
    /\ main = "loop"
    /\ main' = "scheduler"
    /\ FrameworkShutdown
    /\ UNCHANGED <<signalled, amqpVars, othersVars>>

\* the main loop is joined before the framework is shut down
MainStopsFramework ==
    /\ main = "loop" /\ loop = "done"
    /\ main' = "scheduler"
    /\ FrameworkShutdown
    /\ UNCHANGED <<signalled, amqpVars, othersVars>>

\* Framework::join, then main returns
MainJoins ==
    /\ \/ main = "scheduler" /\ scheduler = "stopped" /\ main' = "dispatch"
       \/ main = "dispatch" /\ dispatcher = "stopped" /\ main' = "services"
       \/ main = "services" /\ service \in {"off", "stopped"} /\ main' = "exited"
    /\ UNCHANGED <<frameworkVars, signalled, amqpVars, othersVars>>

-----------------------------------------------------------------------------
\* The tables, the cache and the emojis are as any earlier run left them.
DataInit ==
    /\ row \in [Guilds -> Rows]
    /\ emojis \in [Guilds -> SUBSET Emojis]
    /\ uses \in SUBSET {use \in Guilds \X Emojis :
                            row[use[1]] # "absent" /\ use[2] \in emojis[use[1]]}
    /\ guild_emojis = emojis

Init ==
    /\ FrameworkInit /\ DataInit
    /\ main = "starting" /\ signalled = FALSE
    /\ amqpStart = TRUE /\ amqpShutdown = FALSE
    /\ amqpResult = "pending" /\ amqpPhase = "idle"
    /\ amqpRx = <<>> /\ loop = "receiving" /\ sent = 0
    /\ cleanup = "idle" /\ doomed = {}
    /\ delivered = 0
    /\ failures = 0
    /\ lastSeen = [g \in Guilds |-> "none"] /\ lastList = [g \in Guilds |-> "none"]
    /\ orderly = TRUE

Loop == LoopReceives \/ LoopSkips \/ HandleMessage \/ LoopEnds

Handlers == HandlerRuns \/ HandlerFails

Cleanup == CleanupBegins \/ CleanupDeletes \/ CleanupFails

Main ==
    \/ MainBuilds \/ MainServes \/ MainPanics
    \/ MainStopsAmqp \/ MainJoinsAmqp \/ MainStopsFramework \/ MainJoins

TimePasses ==
    /\ \E g \in Guilds : WeekPasses(g)
    /\ UNCHANGED <<frameworkVars, main, signalled, amqpVars, loopVars, cleanupVars, worldVars,
                   historyVars, failures, orderly>>

World == TimePasses \/ \E e \in Delivery : Delivers(e)

Next ==
    \/ Loop \/ Dispatches \/ Handlers \/ Scheduling \/ Cleanup \/ Serving
    \/ AmqpStep \/ Main \/ Signal \/ World

Spec == Init /\ [][Next]_vars

\* The runtime polls every task; redis answers or times out; a tick of a service
\* ends, and its select! does not pass over the token for ever; the AmqpHandle
\* answers its start (AmqpConnection, StartIsAnswered).  Nothing is assumed of the
\* event handlers, nor that the AmqpHandle ends after its shutdown: with a dead
\* connection it may never do (ShutdownEnds).
FairSpec ==
    /\ Spec
    /\ WF_vars(Loop) /\ WF_vars(Dispatches) /\ WF_vars(Scheduling)
    /\ WF_vars(Serving) /\ WF_vars(AmqpStep /\ ~amqpShutdown) /\ WF_vars(Main)

-----------------------------------------------------------------------------
TypeOK ==
    /\ DataTypeOK
    /\ queue \in Seq(Event) /\ tasks \subseteq Task
    /\ \A t \in tasks : t.todo # <<>>
    /\ dispatcher \in {"running", "draining", "stopped"} /\ timedOut \in BOOLEAN
    /\ startJobs \in BOOLEAN /\ registered \in BOOLEAN
    /\ scheduler \in {"running", "stopped"}
    /\ service \in {"off", "running", "stopped"}
    /\ frameworkShutdown \in BOOLEAN
    /\ main \in {"starting", "framework", "serving", "amqp", "loop", "scheduler",
                 "dispatch", "services", "exited"}
    /\ signalled \in BOOLEAN
    /\ amqpRx \in Seq(Delivery) /\ loop \in {"receiving", "caching", "done"}
    /\ cleanup \in {"idle", "deleting"} /\ doomed \subseteq Guilds
    /\ emojis \in [Guilds -> SUBSET Emojis]
    /\ delivered \in 0..MaxEvents /\ sent \in 0..MaxEvents
    /\ failures \in 0..MaxFailures /\ orderly \in BOOLEAN

(* A handler never runs on an event the cache has not been updated for, nor *)
(* do events overtake each other on their way to the dispatcher.            *)
CacheBeforeHandlers ==
    \A i \in DOMAIN amqpRx :
        /\ \A t \in tasks : t.event.seq < amqpRx[i].seq
        /\ \A j \in DOMAIN queue : queue[j].seq < amqpRx[i].seq

Stopping == main \in {"scheduler", "dispatch", "services"}

(* The framework is shut down only when all that was received, and thereby  *)
(* removed from the queue of the broker, has been given to it, but for what *)
(* could not be read.                                                       *)
ReceivedIsSent == Stopping => amqpRx = <<>> /\ sent = delivered

Quiet ==
    /\ main = "serving" /\ amqpRx = <<>> /\ queue = <<>> /\ tasks = {}
    /\ cleanup = "idle" /\ failures = 0

(* When all events are handled, and no two tasks got in each other's way,   *)
(* the row of a guild tells what its last event told: an outage removes     *)
(* nothing, and coming back takes the mark of having left away.             *)
RowFollowsEvents ==
    (Quiet /\ orderly) =>
        \A g \in Guilds :
            /\ lastSeen[g] = "in"  => row[g] = "present"
            /\ lastSeen[g] = "out" => row[g] # "present"

(* And after an update of its emojis no use of an emoji the guild has no    *)
(* more is left.                                                            *)
UsesFollowUpdates ==
    (Quiet /\ orderly) =>
        \A use \in uses :
            lastList[use[1]] = "GuildEmojisUpdate" => use[2] \in emojis[use[1]]

\* The AMQP client was told to stop and does not; the framework still runs.
WaitsForAmqp ==
    /\ main = "amqp" /\ amqpPhase = "active"
    /\ dispatcher = "running" /\ scheduler = "running" /\ service # "stopped"

(* A signal ends the process: no event, handler or job keeps it, not even a *)
(* handler that never returns.  Or else main waits for ever for the AMQP    *)
(* client, with the framework running on, as it does when the connection of *)
(* that client died under it.                                               *)
ShutdownCompletes == signalled ~> (main = "exited" \/ []WaitsForAmqp)

-----------------------------------------------------------------------------
(* CHANGELOG.md:343, "Set `guilds.deleted_at` to NULL if we see a guild     *)
(* again": when all is handled, a guild whose last event was a GuildCreate  *)
(* has a row without deleted_at.                                            *)
SeenAgainIsKept ==
    Quiet => \A g \in Guilds : lastSeen[g] = "in" => row[g] = "present"
=============================================================================
