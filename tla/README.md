# Tulpje in TLA+

Tulpje is a Discord bot. One gateway process per shard turns the events of a
Discord connection into messages of an AMQP queue; handler processes read the
queue, keep a cache of Discord's state in redis and run the modules of the bot
(core, emoji, pluralkit, stats) against a postgres database. This directory holds
TLA+ models of the parts of that code where the order of things matters, the TLC
configurations that check them on small instances, and TLAPS proofs of the
properties that matter most.

* [Inventory](#inventory)
* [Modules and their correspondence to the code](#modules)
* [Runs](#runs)
* [Fairness](#fairness)
* [Proofs](#proofs)
* [Findings](#findings)
* [Not modelled](#not-modelled)
* [Plan](#plan)

Run a model with `tlc -workers 2 -config X.cfg Module`, a proof with
`tlapm Module.tla`. `PROJECT.json` maps every definition to the lines it models,
and lists the hazards of the code with the properties that guard against them.

## Inventory

```
Discord --websocket--> Shard -> ShardManager --try_send--> ShardReporter -> redis
                                     |                     (shard_status)     ^
                                     v sender()                               |
                               AmqpConnection                                 |
                                     |                                        |
                                 AMQP queue                                   |
                                     v                                        |
                               AmqpConnection --amqp_tx--> main loop -> Cache-+
                                                              |
                                                              v
                   Scheduler, ServiceManager, Dispatch -> modules -> postgres, Discord
```

### reconnecting-amqp (`crates/reconnecting-amqp`)

*State*: the enum `State` of the background task with the connection, channel,
event channel and close reason its variant owns; the send channel; the start
and shutdown tokens and the one-shot of the start result.
*Operations*: `start`, `wait_start`, `shutdown`, `join`, `sender`; the task
connects, opens a channel, declares the queue (and a consumer when it was
given a `recv_tx`), selects between events, messages to send and the shutdown,
closes, reconnects. amqprs calls the callbacks from its own tasks.
*Hard*: every await is a place where the broker can go away, close the channel,
delete the queue or return a message; events of one connection must not reach
the next; a failure before the first success is the caller's, a later one is
retried; messages are published with `mandatory` and requeued when returned,
and consumed without acknowledgement.
*Correct when*: the owner's view is that of `AmqpHandle`; it does not sit on a
dead channel; a message is not lost or sent twice by the client's own doing;
a shutdown ends the task.

### tulpje-gateway (`crates/tulpje-gateway`)

*State*: `ShardManager` has `ShardState` (Stopped, Running, Stopping, Done);
`ShardReporter` has a bounded channel of ten, the set of guilds, the record of the
shard and redis' copy of it; `main` has the order of start and shutdown.
*Operations*: the manager reads the shard and offers every message first to the
reporter, then (dispatch events) to AMQP; the reporter has a handler for each
kind of event it wants, which changes the record and saves it.
*Hard*: the channel fills up while redis is slow; connections are lost,
resumed or begun anew; the three tasks are stopped in an order.
*Correct when*: what redis holds is what the shard is; what the reporter counts
the handler hears of; nothing is left in a channel by the shutdown; a signal
ends the process (what [Fairness](#fairness) says of the AMQP client excepted).

### tulpje-handler and tulpje-framework (`crates/tulpje-handler`, `crates/tulpje-framework`)

*State*: the channels between AMQP client, main loop and dispatcher; the
tracker with a task per event; the scheduler's job map; the services' loops.
*Operations*: the main loop updates the cache, then sends the event to the
framework, and waits for neither handler nor job; `Dispatch` spawns a task per
event, which runs the handlers the `Registry` has for its type, in order;
`Scheduler` adds the modules' cron jobs after start; `ServiceManager` ticks the
services; shutdown goes AMQP client, main loop, framework.
*Hard*: handlers of two events of one guild run side by side and write in any
order; a handler hangs, or fails half way; a job fires during shutdown; a
backlog of the queue is delivered in one burst.
*Correct when*: an event is in the cache before its handlers run; what was
received is handed to the framework before it stops; shutdown waits for
handlers, but not for ever; data in the tables follow the events.

### The modules core and emoji (`crates/tulpje-mod-core`, `crates/tulpje-mod-emoji`)

*State*: the table `guilds` with `deleted_at`, `emoji_uses`, whose rows go with
their guild. *Operations*: `guild_create` and `guild_delete`, the daily
`guilds:cleanup`; the emoji module's handlers count uses of custom emojis and
remove those of emojis a guild no longer has; the commands read these tables or
copy emojis between guilds. *Correct when*: a guild's data go only after a
week's absence; no use of a deleted emoji is left.

### tulpje-cache (`crates/tulpje-cache`)

*State*: redis hashes of Discord's objects and sets of ids per guild and user. Its
readers are `/pk roles update`, the emoji module and the permission check of `tulpje-lib`.
*Operations*: one `UpdateCache` per event type, each a series of single
redis commands, many of which a read decides. *Hard*: the commands of two handlers interleave; redis fails
in the middle of a series; sets of ids outlive the objects they name and are read by the next `delete_guild`
or `cache_emojis`; an early return for equal emojis believes one half of an earlier write; a member is
stored in five ways. *Correct when*: between events it has of a guild what Discord told,
found by its id or in a set; nothing of a guild stays when it is left; a member's user is there; a
`GuildCreate` makes good what an error left.

### tulpje-mod-pluralkit (`crates/tulpje-mod-pluralkit`)

*State*: the `pk_*` tables: systems with their time of update, the guilds they
are set up in, systems followed for notifications and the notify channel per guild,
the fronter category per guild with its channels, fronters per system.
*Operations*: the services `pk:update-fronters` and `pk:update-systems`, each a
loop of ticks that takes the five systems longest not updated, asks
PluralKit, saves, and tells guilds and categories; the commands for setup,
notify add and remove, fronters update, role update (which keeps no table: it compares the
guild's roles with PluralKit's members and asks the user in up to two dialogs). *Hard*: a list is read, then
PluralKit and Discord are awaited, then rows are written that commands may have
removed; one step of several fails and the ones before it stay. *Correct when*: a
change of front is told to every following guild or seen again by the next tick; a
failing system does not starve the others; nothing is sent to a guild that stopped following; a role update that
says so has made roles and members agree, with what the user approved and nothing done twice.

### tulpje-mod-stats, tulpje-common, tulpje-lib

`tulpje-mod-stats` formats what redis holds. `tulpje-common` has `ShardState`
(its record is part of `ShardReporter`; `is_up` is a function of times) and the
metrics. `tulpje-lib` has the database access of `guilds`, the confirmation dialog,
formatting. `tulpje-utils`, `workspace-hack`, `tools`, `contrib` and `nix` hold no
state of the running bot. The manager the repository's README names has no source in the tree.

## Modules

| module | models | composes |
| --- | --- | --- |
| `AmqpHandle` | what the owner of an `AmqpHandle` may rely on (abstract) | |
| `AmqpConnection` | the crate `reconnecting-amqp`, with the broker around it | implements `AmqpHandle` |
| `ShardReporter` | the reporter's task and its channel | |
| `Gateway` | the manager and `main` of the gateway, Discord and the twilight shard | extends `ShardReporter`, instantiates `AmqpHandle` |
| `GuildData` | the rows and cache entries of a guild, one operator per statement | |
| `Framework` | registry, dispatcher, scheduler, service manager | |
| `Handler` | the main loop and `main` of the handler, the event handlers, `guilds:cleanup` | extends `Framework` and `GuildData`, instantiates `AmqpHandle` |
| `PkTables` | the `pk_*` tables with their foreign keys, and Discord's channels, one operator per statement | |
| `FrontService` | the service `pk:update-fronters` | extends `PkTables` |
| `PkCommands` | the commands setup, fronters setup and update, notify setup, add and remove | extends `FrontService` |
| `PluralKit` | service and commands with PluralKit, Discord and the clean-up tasks around them | extends `PkCommands` |
| `MCPluralKit` | the guilds, settings and follows its runs start from | extends `PluralKit` |
| `MemberRoles` | `/pk roles update` and the confirmation dialog, with Discord's roles, PluralKit and the cache | |
| `MCMemberRoles` | the symmetries its runs use | extends `MemberRoles` |
| `CacheStore` | the cache's hashes and sets in redis, and the commands that write them | |
| `CacheUpdates` | the series of commands each function of the cache sends, and what it goes on with after a read | extends `CacheStore` |
| `Cache` | handlers that carry out these series, with Discord's guilds around them | extends `CacheUpdates` |
| `MCCache` | the symmetry and the homes of its runs | extends `Cache` |
| `AmqpConnectionProofs`, `AmqpDeliveryProofs` | theorems about `AmqpConnection`: its control, and what becomes of the messages | |
| `GatewayProofs` | theorems about `Gateway`: its control and order, and the guilds the reporter knows | |
| `HandlerProofs`, `PluralKitProofs`, `MemberRolesProofs` | theorems about `Handler`, `PluralKit`, `MemberRoles` | |
| `CacheProofs`, `CacheContentProofs` | theorems about `Cache`: its types and the users of members, and what it holds of a guild | |

The gateway and the handler do not contain `AmqpConnection` but its abstraction
`AmqpHandle`; that the client implements it is checked (`HandleSpec`) and proved
(`ImplementsHandle`).

**AmqpConnection.** `state` is the variant of `State`; `reason`, `conn`, `chan`,
`events` are the fields the variant owns, which `TaskTypeOK` ties to it. An action
is the code between two awaits: a transition of `run` of a variant with each
of its outcomes. `OpeningChannel` awaits three calls: `chan` tells how far it is.
`Connected` is the `select!`, one action per branch and kind of event. The
environment may take down the broker or a connection, close the channel,
delete the queue or fail any call, `MaxFaults` times in all. A callback's event
is dropped when its receiver is gone. One thing is assumed of amqprs (`ConnectionDies`): it calls the connection's
close callback (`connection_callback.rs:19-36`) not only when the server sends a `Close` but also when the socket is
lost or the broker goes down; `DeadChannelIsNoticed`, `ConnectedReconnects` and the theorem `WakesUp` rest on it. Messages are numbers, in the order they are made.

**ShardReporter, Gateway.** `HandleMessage(m)` is `ShardManager::handle_message`
whole: the offer to the reporter, whose refusal returns at once, then AMQP, then
the look at `should_stop`. `HandleEvent` is the reporter's handler with its early
returns; the write to redis is a step of its own (`SaveOk`, `SaveFails`), since
the manager goes on meanwhile. Discord is modelled as twilight shows it: hello, then
identify or resume, the events of the session in order, a close frame answered
by a close message. A resumed session repeats nothing and omits nothing. A guild the bot is in may have an outage (`out`):
it begins with a `GuildDelete` that says "unavailable" and ends with a `GuildCreate`, and a new session may tell of it in either way.
The reporter does not look at the flag, so messages carry none. The interval of a hello is taken to fit the `u32` of
the record; the error `helloed` returns if it does not (`shard_reporter.rs:165`) is left out.

**GuildData, Framework, Handler.** `Registry` applies `Register` to the two modules with
event handlers in the order `main` adds them, as `HashMap::extend` does. A task is an event and the
handlers it has still to run; `HandlerRuns` runs one of them in one step, since each is
one statement to the database, except those of the uses of emojis: `handle_message` and `reaction_add` ask the
cache, then Discord, `message_update` asks Discord only, and all save in a second step. `HandlerFails` is the logged error.
What arrives is a `Delivery`: an event, or bytes `parse_delivery` makes nothing of, which the main loop drops (`LoopSkips`).
A change at Discord and the delivery of the event that tells of it are one step (`Delivers`); a message that is edited may use an emoji
the guild has no more.
`guilds:cleanup` reads its list in one step and deletes a guild per step. `row` has
four values: absent, present, `deleted_at` set, and set more than a week ago;
`WeekPasses` makes the third the fourth.

**PkTables, FrontService, PkCommands, PluralKit.** `pc` is what the service waits
for, an action the code up to its next wait: `AskPluralKit`, `DidFrontersChange`, `SaveFront`
or `StampOnly`, then per category `ReadCategory` and one channel at a time
(`ChangeCategory`), then per guild `FindNotifyChannel` and `SendNotification` or the two
deletes for an unknown channel. How an error ends a loop's turn, the system or nothing
is the difference between `AbandonCategory`, `AbandonGuild` and `SystemFails`. A command is a
record in a slot; its reads before the first change are one step. `updated_at` is the place in `stale` or `fresh`;
`MinutePasses` moves the oldest from one to the other. Foreign keys are guards of the inserts and parts
of the deletes. A front is a set of members: their order, and with it
the position of the channels, is left out, and so is everything only a user reads. A guild
whose row is marked is one the bot is not in: how the row gets its mark is `Handler`'s subject.

**MemberRoles.** `at` is the await the command is at, `run` its local variables: `ids` is
`role_name_id_map`, `ops` what is left of the operations and assignments, `total` and `done` the
`UpdateStats`. `RoleOps` is `get_role_ops` with the assignments. A prompt is posted (`ShowPrompt`), then waited
for (`WaitForComponent`); clicks travel as events of their own and are lost without a waiter. `Fails` ends the
command at any call, after Discord did what it was asked or before. The cache has its own copy of the user's
roles and follows when it hears of them. `quiet` and `approved` are history.

**CacheStore, CacheUpdates, Cache.** `todo[h]` is what the handler's `cache.update` has still to do: a sequence of redis
commands, the loops over a list of the event (`Loop`, taken in any order) and the functions that begin with a read
(`Call`). A write is one step; a read is one step that replaces the call by what the function goes on with (`Then`), computed from
redis at that moment, so anything may happen between a read and the write it leads to: `ChannelPinsUpdate`, `GuildUpdate`,
`MemberAdd` and `MemberRemove` read, change and write back. `Fails` ends a series at any command, carried out or not, as an
error or the end of the process does. An object has an id and one of two looks; what a user looks like is left
out, so that `cache_user` may find a difference or not. `users` is a field of its own, though the
code keeps users in the hash `cache:emojis`: ids of users and emojis are never equal. `SetRepository::is_empty` answers whether the
key exists, and `MemberRemove` negates it: the two cancel out, and `AfterTracksRead` is what they do together.
Discord's side: `status` is what the bot can be told of a guild. A guild it is removed from while it has no session is
`lost`: no event names its departure. `GuildFails` covers both forms of an outage; a `GuildDelete` that says "unavailable" is treated by
the code as a departure. `told` are the members the cache has been told of, since a `GuildCreate` lists only some.

## Runs

| run | constants | shows |
| --- | --- | --- |
| `amqp_publisher` | 2 messages, 3 faults of any kind | the publishing client keeps its promises, safety and liveness |
| `amqp_consumer` | 3 messages, 3 faults of any kind | a consumer gets each message at most once and in order, keeps its registration unless the queue is deleted, and `wait_start` is answered even if the broker never comes back |
| `amqp_reopen_hang` | 2 faults of connections | violation: see findings |
| `gateway` | 1 guild, channel of 2, 1 event, 1 lost connection | the gateway from start to exit |
| `handler` | primary handler, 1 guild, 1 emoji, 2 events, 1 failure | the handler from start to exit |
| `handler_reordered` | handler that is not primary, 2 events, no failure | violation: see findings |
| `pluralkit` | 2 guilds, 2 systems, one member who fronts or not, 2 channel ids, ticks of one system; a command, two changes of the world and an error, any three of them | tables, announcements and follows whatever interleaves; no system starves, categories catch up |
| `fronter_setup` | one `/pk fronters setup`, one switch | violation: see findings |
| `member_roles` | 2 members, 2 names, 2 colours, room for 3 roles with a warning at 2; 2 clicks a command, a change by others, an error | role updates one after the other |
| `roles_double_click` | the same without change and error | violation: see findings |
| `cache` | 1 handler, 2 guilds, 1 user, a channel, a role and an emoji in one of the guilds, 2 looks; 3 events, 1 error | the cache follows Discord, and recovers |
| `cache_two_handlers` | 2 handlers, 2 guilds, 1 user; 5 events, no error | violation: see findings |

Why the bounds are enough. *AMQP*: three faults cover a fault during the recovery
from another and one more on the way out; the violation of `ClosedConnectionReconnects`
needs two. Two messages are needed for one to overtake or repeat another; the
consumer has three. *Gateway*: the channel of two fills up with a hello and a ready;
guilds do not interact except by their number, and a single one is joined, left, in an outage, and
part of a session or not. The `seq` of an event is its place in the session, so order is visible.
An acknowledged heartbeat arrives only while the inbox is empty: any number of them
may, without this bound the inbox would be full of them in most states. What happens to the bot happens after the
first session began. One thing happens to it, at any moment of the first session, the second or between them; as the guild may be in an outage at first and
a session begins with an event for each guild, the reporter is told of it up to three times. For more events there are the theorems, which
cover every safety property of the run. *Handler*: the tables begin in any state an earlier run can have left, so two events reach
every pair of concurrent handlers; nothing in the handlers relates two guilds. One failing call at any
place is enough to break a series of calls at each of its points.
*PluralKit*: one guild shows a system, both follow it and one follows another, so one loop has two
guilds, one system two followers, and a tick of one system has to choose; what goes wrong between the service and
a command needs one command, and one event more to open the window, such as a
departure with the clean-up after it, a deleted channel, or a switch and its reverse.
*MemberRoles*: two members can share a name or have one each; one role of the guild's own and two members fill it, so
each branch of the limit is taken; commands follow one another without a bound, so whatever a
failed one left is where the next begins.
*Cache*: three events are a guild create, and two of a change, an outage, a departure, a new session or
a rejoin, or an error's event between two creates. Objects of one kind do not interact but through the loops, which one
object already enters with a list that has it or not; two guilds share the user. The second guild has members only, so that the user can be in two.
`CHECK_DEADLOCK FALSE` is in the configurations of AMQP, gateway, handler and cache because those processes end or the
bounded environments run out of events; the front service never ends, so its runs check for deadlock.

The properties are stated in the modules, each with a comment. Those that relate most:

* `DeadChannelIsNoticed`, `NoStaleConnectionClose`: an event channel lives exactly
  as long as its connection, and `Connected` over something dead has its wake-up waiting.
* `NothingLostByQueueDeletion`, `SentAtMostOnce`, `EveryMessageRouted`: the
  mandatory flag and the requeueing.
* `RecordIsCurrent`, `GuildsAreKnown`: redis against the reporter against Discord. Of a guild in an outage the second
  asks nothing.
* `NotedIsForwarded`, `ReporterOutlivesManager`: the order of the shutdown.
* `CacheBeforeHandlers`, `ReceivedIsSent`: the path of an event in the handler.
* `RowFollowsEvents`, `UsesFollowUpdates`: when all is quiet and no two tasks
  worked on a guild at the same time (`orderly`), the tables tell what the last events told.
  Without `orderly` they do not: that is `handler_reordered`.
* `ShutdownCompletes`: a task that is forgotten or waits for another that is stopped already keeps the process for
  ever. What it allows is that `main` waits in `amqp.join()` with everything behind the client still as it was.
* `SwitchIsAnnounced`: a debt to each follower when the switch is saved, paid by a message
  or lapsed when the guild cannot be told or follows no more.
* `FollowsAreKept`: no follow goes but by the guild's own command, with the guild's row, after it was told, or
  because there is no channel to tell it in.
* `NoDuplicateRoles`, `SuccessMeansMatch`: what a failed role update left, with a lost answer or a stale cache, is
  taken up by the next.
* `CacheIsCurrent`, `LeftGuildIsGone`: each way an object is stored also lists its id, and what outages and
  rejoins leave in the sets does no harm. Said of guilds without an error in their history and never `lost`: of a lost guild the
  cache keeps everything, and leftovers in its sets are still there when the bot comes back.
* `CreateRepairs`: what an error left is made good by the next `GuildCreate`. Not the id of an emoji whose object was stored
  when redis failed: `cache_emoji` returns early for the equal emoji, and the property asks for no more
  than what holds. Ids of roles may outlive the roles.
* `MembersHaveUsers`: at every command, not only between events.
* `NobodyStarves`, `CategoryFollowsFront`: the order of the ticks, and the chain from PluralKit to the
  category under switches at any moment.

## Fairness

Weak fairness of a task's steps says that tokio polls it and that every call it
awaits returns. For AMQP this is amqprs' own timeout or an error of the connection; for
redis the response timeout of the connection manager. A `select!` polls its ready
branches in random order, so the branches of `Connected` and the services' look
at their token are fair one by one. `FairSpec` of `AmqpConnection` also
assumes that a broker that is down comes back; `TaskFairSpec`, with which
`StartIsAnswered` is checked, does not. `Gateway` assumes that Discord accepts connections and answers a close
frame, not that it delivers anything else. Of the AMQP client `Gateway` and `Handler` assume that it answers its start, which
`StartIsAnswered` shows of it, and not that it ends after its shutdown: `ShutdownEnds` excepts a client whose connection is
dead, and in the states of the finding `amqp_reopen_hang` such a client goes on for ever. Then `amqp.join()` does
not return (`main.rs:145` of the gateway, `main.rs:209` of the handler), and with a signal the process does not end; so
`ShutdownCompletes` says "ends, or waits for the AMQP client alone for ever". `Handler` assumes nothing of the event
handlers, which may hang for ever: they do not keep the process because of the five
seconds of `DrainTimesOut`. It does assume that a tick of a service ends, for `ServiceManager::join`
has no timeout of its own. `PluralKit` assumes that the service gets its answers and that time passes; it
assumes nothing of commands, which may stay half done, and bounds the errors: a system whose
update fails at every tick, other than by being private or deleted, does keep its place in the list of five.
`MemberRoles` and `Cache` have safety properties only and assume no fairness.

## Proofs

All theorems hold for any values of the constants (any number of messages, faults,
guilds, events, any capacity), under the named assumptions of the modules, which say
little more than their types (a command is not `None`, no front is NULL, a guild has room for two channels and one follow).

`AmqpConnectionProofs`
: `TypeCorrect` is inductive with `TaskTypeOK`, the correspondence of fields to
  variants, as its core. `ReasonInv` strengthens `FinishedForAReason` and
  `StartFailsFast`: it says for each state which reasons it may carry given the start result, so
  that a `Shutdown` implies a started client on every way to `Finished`. `NoticeInv` strengthens
  `NoStaleConnectionClose` and `DeadChannelIsNoticed`: it must speak of all states with an event channel, where
  the event is queued long before `Connected` reads it, or the task is on its way out. `ImplementsHandle`: initial
  states map to initial states, and every step to one of `AmqpHandle` or a stutter: `TaskKeepsPromise` says which steps of the
  task the owner sees, `BrokerIsUnseen` that all else is a stutter. It needs
  `ReasonInv`, since only a reported start and a shutdown together allow `Stop`.

`AmqpDeliveryProofs`
: `MessageSteps` first: six actions handle messages, the others leave them or drop the event channel or the queue.
  `OnceInOrder` by `InOrder`: delivered < waiting in the event channel < queued < still to be produced, each part rising.
  `SentOnce` by `OneCopy`: waiting, returned and routed messages are pairwise different and all produced already; the
  property says nothing of returns that wait twice, so the invariant does (`ReturnedOnce`). `ConsumerIsKept` by
  `AttachedInv`, which leaves cancellations out, since the client reads and ignores them. `NothingLost`, for a client
  without `recv_tx`, by `KeptInv`: under deletions of the queue alone connection and channel live (`Undisturbed`), every closing
  of the channel is for a returned message, and so `event_rx`, where returns wait, is never dropped.

`GatewayProofs`
: `ReporterIsLast` by `OrderOfTasks`, which says where the manager and the reporter are in each state of `main`.
  `TypeCorrect` includes the bound of the channel. `RecordsAreUsable` by `HelloComesFirst`: the hello is ahead in
  the inbox of anything that sets `up`, or was handled, in any session.
  `NotedForwarded` by `InOrder`: the AMQP client lives while the manager polls, so what is noted is sent in the same step.
  `RecordsAreCurrent` by `CountIsRight`: the count in memory is right at every moment, so a handler that returns early changed nothing.
  `ReporterKnowsGuilds` by `LastWord`: of every guild that is not in an outage, the last message on its way, in the reporter's channel or in the
  session, tells the truth, and where none is on its way the reporter knows already. "Last" is by the number of the message
  (`InboxOrder` and `InOrder`: what waits in the channel comes before what the session has still to say). What a new
  session tells, `Ready` and an event for each guild, is `SessionTells`. Guilds left unseen while there was no session are
  why the second half is for the first session only.
  `ForwardedInOrder`, from `InOrder`, is the gateway's half of what `OnceInOrder` says of the client: events are handed to it once and in order.
  `NothingIsSkipped` by `Unbroken`: in the first session the events still to be read follow the last one handed on without a gap, as
  long as the reporter refuses nothing (`handle_message` returns before it forwards what the reporter's channel has no room for).

`HandlerProofs`
: Every safety property of the run `handler`. `TypeCorrect`, `CachedFirst` and `NothingLeftBehind` by `InTurn`: the events
  in the channel are numbered from `sent` on without a gap up to `delivered`, what is queued or at work has a number up to `sent`,
  and the loop ends only after the AMQP client, with nothing received. The others by `Apart`: events are queued in order, a task
  has the one handler its event's type is registered with (`Registered`: core's replaced that of the emoji module), and, as long as `orderly`, one task at most
  is at work on a guild and none on a guild the cleanup has read, whose row is therefore still expired; `GoneAfterAWeek` is the
  consequence, under the same condition: a guild that comes back between the list and its deletion loses a present row. `RowsFollow` by `LastWord`: the last event that told of a guild waits (and none after it), or is at work, or the row agrees with it;
  the property alone speaks of quiet states, which no step but the last leads to. `UsesFollow` by `LastList`, which
  says of each stage what it may know: the last list on its way is that of Discord; what the cache has of a guild its guild has, or a
  list is yet to be cached (`CacheIsKnown`), so a handler that finds an emoji saves one the guild has or that a list on its way will remove;
  a task, and a use, likewise. `RowFollowsEvents` does not hold without `orderly`:
  `handler_reordered` refutes `SeenAgainIsKept`, its first half with nothing assumed of the tasks.
  What does hold of the tasks with nothing assumed is `EventsHaveOneTask` and `EventsBeginInOrder`: events are taken up in order
  and by one task each, so that only the length of the handlers lets one overtake another.

`MemberRolesProofs`
: `NoRoleTwice` by `NamesInv`: up to the comparison the command knows every member role there is (`Knows`), so what
  it is to create is not there (`CreatesNew`), and the changes of others, as modelled, take names away only.
  `SuccessIsTrue` by `MatchInv`: while nothing disturbs it, what the command read is true (`ReadIsTrue`), and of its plan
  the operations that are left are all that is missing (`Enough`); each operation carried out, answered or not, leaves enough.
  So a plan with nothing left is a guild that matches. `TypeCorrect` by `TypeInv`, part by part: guild, command, dialog.
  `OtherRolesStay` by `OwnIds` and `IdsForOps`: until others change the guild, the ids the command has are of roles with the member's
  name, and each operation that needs an id has one. `ChangesTakeClicks` bounds what `roles_double_click` finds: clicks are
  counted and each is taken once (`ClicksInv`), so it takes two on the warning to pass over the list of changes, and one never does.

`PluralKitProofs`
: `FollowsHaveReasons` by `FollowsInv`: the channel the service is about to forget was found deleted, and channels do not come
  back, and the guilds the service unfollows are among those it reached (`ForgetsDeleted`), which rests on what the
  tables may hold for a channel (`ChannelsKnown`). `SwitchesAreAnnounced` by
  `OwedInv`: who is owed a switch follows, can be told, and is still in the list the service has in hand, from the save of the
  front to the last guild, so that commands and deletions, which take guilds out of `owed`, never leave one the list lacks.
  `TablesAndTypes` (`TypeOK`) by `TypesInv`. What every step does to the tables is one of a few statements (`TableStep`: `OneStatement`
  goes through the steps), and each keeps the foreign keys (`RowsInv`, `RowsStay`) and the order of `updated_at` (`OrderInv`,
  `OrderStays`): `stale` and `fresh` list each system with a saved front once and no other. `CleanupSystems` takes a system away
  while the service and the commands have it in hand: what they save then finds no row. `CommandInv` says what a command at each step must
  have (`CommandFits`): a guild, and a system or a notify channel. `ServiceTypeOK` is inductive with `FollowsInv`.

`CacheProofs`
: `TypeCorrect` for any number of handlers: every series is made of commands with ids and values of their kind, and
  so is what follows each read; `Below` is where a wrapping count would break it. `UsersAreKept` for one handler, by
  `UsersOutliveMembers`: `MembersHaveUsers` says nothing of what the handler is about to do, so the invariant adds that its
  series is `Prepared` (each command that stores a member finds its user known and its guild tracked, or comes after commands that
  see to it, and no command takes a user away) or `Removing` (what is left of `MemberRemove`, which deletes the member before it
  stops tracking the guild). The lemmas say of each function that what it sends is prepared, and of
  each command that the rest stays prepared when it is carried out. With two handlers the theorem is false, as
  `cache_two_handlers` shows: the other one's `MemberRemove` is no part of the series. `UsersAreKeptByAll` says that nothing else is to blame: with any number of
  handlers the property holds in every behaviour in which none of them is given a `MemberRemove`, since all other commands only add users and what they are tracked in.

`CacheContentProofs`
: `WhatIsToldIsCached`, `WhatIsLeftIsGone` and `WhatIsCreatedIsRepaired` for one handler. All three properties speak only of moments
  between events; the invariant `ContentIsDue` speaks of every moment, object by object. `Entry(f)` is what the cache holds of an
  object or a guild: its value, and whether its set lists its id. `Leads(todo, f, s, e)` says that the commands still to do turn the entry `s` into `e`,
  whatever way their loops and reads take; `Quiet` that none of them touches `f`. `Result` tells by cases what one command does to an
  entry, and one lemma per command shows that the step does that, or, for a read and for a turn of a loop, that what it goes on with
  leads there too (`WriteStep`, `ReadStep`, `EachStep`). The invariant then says of each object: what the commands lead to is what is due
  (`Due`: `Clean`, of a guild none of whose events failed; `Mended`, of a guild whose events were carried out since a `GuildCreate`), and nothing but
  the event's own guilds is touched. Steps of the handler keep this because `Leads` only loses its head; an error takes the guilds of the
  event out of both sets (`FailureIsAccountedFor`); of each event one lemma shows that its series leads from what was due before to what is due now.
  The cases that could go wrong are the ones the properties are about: `Clean` says of an object of a guild that is down or left that it
  has no value but not that its id is unlisted, so `CacheGuild` must deal with the ids it finds in the sets; `Mended` says nothing of
  values that should not be there, since `CacheGuild` removes none but through the list of emojis; members are only those
  told of, which are members (`ToldAreMembers`). The hypotheses are one handler, that ids of channels, roles and emojis differ,
  and that "no record" is no record (`RecordAssumption`).

The properties of `ForwardedInOrder`, `NothingIsSkipped`, `GoneAfterAWeek`, `EventsHaveOneTask`, `EventsBeginInOrder`, `OtherRolesStay`
and `ChangesTakeClicks` are defined beside their proofs and belong to no run.

Only model-checked: every liveness property (the prover has neither `ENABLED` nor liveness
under fairness). Every invariant and every action property of a passing run is a theorem. What a list is left with when systems are taken out of it is
written with ranks (`Among` of `PkTables`), not with the recursive operators on sequences, whose facts need induction (`AmongThem`).

## Findings

Each is a run whose property quotes what the repository says, and fails.

* `amqp_reopen_hang`: a connection that dies while a channel is reopened on it is
  never replaced; the client retries on it for ever.
* `handler_reordered`: the handlers of a `GuildDelete` and the following `GuildCreate`
  write in either order; a guild can stay marked for deletion with the bot in it.
* `fronter_setup`: a switch saved by the service while `/pk fronters setup` fills
  the new category never reaches it, though the code saves the category last to avoid this.

* `roles_double_click`: a second click on the warning about the role limit is taken for the approval of the
  list of changes, which replaced it on the same message.
* `cache_two_handlers`: one handler sees that no guild tracks a user and removes the user, after another
  found the user known and cached a member of another guild: a member without a user stays.

Without a run of their own: the broker's cancellation of the consumer, when the queue is deleted, is ignored
(`connection.rs:507`), and the client stays connected and receives nothing, which `ConsumerKept` excepts; the reporter is never offered the close event it has a handler for
(`SHARD_REPORTER_EVENTS`), so a lost shard stays up in redis; it takes the `GuildDelete` of an outage for a departure
(`shard_reporter.rs:226-230`; the handler looks at `unavailable`), so the gauge "Number Of Guilds Bot Is In" (`metrics.rs:27`) and `guild_count`
in redis leave the guild out meanwhile, and `GuildsAreKnown` asks nothing of it; `guilds:cleanup` deletes by the list it
read first (`tasks.rs:10`), so a guild whose mark a `GuildCreate` takes away in between loses its row and its data all the same; the emoji module's handler of `GuildCreate` is replaced in
the registry by that of core, which is last; a role update near the limit can be refused half way, because roles are created
and deleted in the order of a hash set; two role updates of one guild at the same time create its roles twice; `delete_guild` leaves
`user_guilds` alone, so that a user of a guild the bot left is never forgotten; and an emoji whose id was not stored
stays out of its guild's set (`models/emoji.rs:102`).

## Not modelled

Times and durations (heartbeat latency, `is_up`, the length of retries) beyond
"before" and "after"; logging, metrics and formatting; parsing of configuration; the commands of core and emoji,
which share no state but what the models have; the service `pk:update-systems`, which refreshes names and avatars; a panic in a task other than `main`; the restart of a process, which
except in `PluralKit` is an initial state as an earlier run left it; `enable_task` and `disable_task`
at run time; events of types that have no handler, which pass through the framework unseen; in the cache the resource types
the handler does not want (messages, presences, stickers, voice states, integrations and so on: their functions send nothing, or read what is
never written) and the current user.

## Plan

In this order. Each module comes with its configuration, its mutants and its rows in the map.

1. `AmqpHandle`, `AmqpConnection`, `ShardReporter`, `Gateway`, `GuildData`, `Framework`, `Handler`: done.
2. `PkTables`, `FrontService`, `PkCommands`, `PluralKit`, `MemberRoles`: done, for one command at a time. Next:
   two slots (the limit of follows, fronter channels created twice), the order of fronters, and what a
   switch saved by `/pk fronters update` or before a restart owes the followers.
3. `CacheStore`, `CacheUpdates`, `Cache`: done. Next: the events of one guild spread over two handlers, and what then
   remains true of it.
4. The pure functions with what calls them: the diff of the fronter
   channels, `is_up`, `count_emojis`, each against a reference definition.
5. Proofs: what the new modules and properties of 2 and 3 have.
