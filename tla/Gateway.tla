------------------------------ MODULE Gateway ------------------------------
(***************************************************************************)
(* The gateway process (crates/tulpje-gateway): the ShardManager reads the *)
(* messages of one Discord shard, tells the ShardReporter of some and      *)
(* hands the dispatch events to the AmqpHandle; main starts the three in   *)
(* order and stops them in order on SIGINT, SIGTERM or the end of the      *)
(* shard's stream.  The AmqpHandle keeps the promise of AmqpHandle, which  *)
(* AmqpConnection implements.                                              *)
(*                                                                         *)
(* Messages that change nothing (unknown or malformed ones, errors of the  *)
(* stream, opcodes decoded for their name only) are stuttering steps.      *)
(***************************************************************************)
EXTENDS ShardReporter

CONSTANTS
    MaxEvents,    \* bound: joins, leaves, outages and chats in a behaviour
    MaxLosses     \* bound: connections to Discord lost in a behaviour

ASSUME GatewayAssumption == MaxEvents \in Nat /\ MaxLosses \in Nat

VARIABLES
    \* ShardManager
    manager,         \* its ShardState, "Done" when run() has returned
    startSent,       \* ShardManagerMessage::Start waits in its receiver
    shutdownToken,   \* the shutdown token of ShardManagerHandle
    closeQueued,     \* shard.close() was called and is not answered yet
    lastForwarded,   \* the seq of the last event handed to amqp_tx
    \* main and the AmqpHandle
    main,            \* what main awaits
    amqpStart, amqpShutdown, amqpResult, amqpPhase,
    \* Discord
    link,            \* the websocket: "down", "greeted", "live", "dead"
    resumable,       \* Discord still keeps the session
    pending,         \* dispatch events of the session not yet delivered
    member,          \* the guilds the bot is in
    out,             \* those of them that are unavailable: an outage of Discord
    produced,        \* dispatch events made so far
    events, losses,  \* what happened to the bot, and connections lost, so far
    \* history
    identified,      \* sessions begun
    lastNoted,       \* the seq of the last dispatch event the reporter accepted
    refused          \* the kinds of dispatch events received and not forwarded

managerVars == <<manager, startSent, shutdownToken, closeQueued>>
amqpVars == <<amqpStart, amqpShutdown, amqpResult, amqpPhase>>
sessionVars == <<link, resumable, pending, produced, losses, identified>>
worldVars == <<member, out, events>>
pathVars == <<lastForwarded, lastNoted, refused>>
vars == <<reporterVars, managerVars, main, amqpVars, sessionVars, worldVars, pathVars>>

Amqp == INSTANCE AmqpHandle WITH
    startToken <- amqpStart, shutdownToken <- amqpShutdown,
    startResult <- amqpResult, phase <- amqpPhase

Plain(kind) == [kind |-> kind, seq |-> 0, guilds |-> {}]
Dispatch(kind, n, guilds) == [kind |-> kind, seq |-> n, guilds |-> guilds]
IsDispatch(m) == m.kind \in DispatchKinds

-----------------------------------------------------------------------------
(* ShardManager *)

\* shard.next() is polled in these states only.
Polling == manager \in {"Running", "Stopping"}

\* handle_message: a refusal of the reporter returns before the event is
\* forwarded and before should_stop is looked at; so does a closed amqp_tx.
HandleMessage(m) ==
    LET accepted == ~Refused(m)
        sent == accepted /\ IsDispatch(m) /\ amqpPhase # "done"
        shouldStop == m.kind = "Close" /\ manager = "Stopping"
    IN  /\ Polling
        /\ TrySend(m)
        /\ lastNoted' = IF accepted /\ IsDispatch(m) /\ m.kind \in ReporterKinds
                        THEN m.seq ELSE lastNoted
        /\ lastForwarded' = IF sent THEN m.seq ELSE lastForwarded
        /\ refused' = IF IsDispatch(m) /\ ~sent THEN refused \union {m.kind} ELSE refused
        /\ manager' = IF accepted /\ shouldStop THEN "Done" ELSE manager

\* The rest of the reporter's and the manager's state does not take part.
Unhandled ==
    UNCHANGED <<inboxOpen, reporterShutdown, reporting, guild_ids, shard, redis, lastSave,
                startSent, shutdownToken, main, amqpVars>>

ManagerStarts ==
    /\ manager = "Stopped" /\ startSent
    /\ manager' = "Running" /\ startSent' = FALSE
    /\ UNCHANGED <<reporterVars, shutdownToken, closeQueued, main, amqpVars,
                   sessionVars, worldVars, pathVars>>

ManagerCloses ==
    /\ manager = "Running" /\ shutdownToken
    /\ manager' = "Stopping" /\ closeQueued' = TRUE
    /\ UNCHANGED <<reporterVars, startSent, shutdownToken, main, amqpVars,
                   sessionVars, worldVars, pathVars>>

\* None: "connection irrecoverably closed"
StreamEnds ==
    /\ Polling /\ link = "dead"
    /\ manager' = "Done"
    /\ UNCHANGED <<reporterVars, startSent, shutdownToken, closeQueued, main, amqpVars,
                   sessionVars, worldVars, pathVars>>

-----------------------------------------------------------------------------
(* Discord and the twilight Shard.  A connection begins with a hello; the   *)
(* shard then resumes its session, and gets what it missed, or identifies.  *)

Connects ==
    /\ link = "down"
    /\ HandleMessage(Plain("Hello"))
    /\ link' = "greeted"
    /\ UNCHANGED <<closeQueued, resumable, pending, produced, losses, identified, worldVars>>
    /\ Unhandled

\* A new session: the guilds of the bot, then a GuildCreate for each; a guild
\* in an outage has one marked unavailable, or a GuildDelete so marked.
Identifies ==
    /\ Polling /\ link = "greeted"
    /\ link' = "live" /\ resumable' = TRUE
    /\ identified' = identified + 1
    /\ \E order \in [1..Cardinality(member) -> member], missing \in SUBSET out :
          /\ \A g \in member : \E i \in DOMAIN order : order[i] = g
          /\ pending' = <<Dispatch("Ready", produced + 1, member)>>
                \o [i \in DOMAIN order |->
                      Dispatch(IF order[i] \in missing THEN "GuildDelete" ELSE "GuildCreate",
                               produced + 1 + i, {order[i]})]
    /\ produced' = produced + 1 + Cardinality(member)
    /\ UNCHANGED <<reporterVars, managerVars, main, amqpVars, losses, worldVars, pathVars>>

Resumes ==
    /\ Polling /\ link = "greeted" /\ resumable
    /\ link' = "live"
    /\ pending' = Append(pending, Dispatch("Resumed", produced + 1, {}))
    /\ produced' = produced + 1
    /\ UNCHANGED <<reporterVars, managerVars, main, amqpVars, resumable, losses,
                   identified, worldVars, pathVars>>

Delivers ==
    /\ link = "live" /\ pending # <<>>
    /\ HandleMessage(Head(pending))
    /\ pending' = Tail(pending)
    /\ UNCHANGED <<closeQueued, link, resumable, produced, losses, identified, worldVars>>
    /\ Unhandled

\* Bound: an acknowledgement arrives only while nothing else waits.
AcksHeartbeat ==
    /\ link = "live" /\ inbox = <<>>
    /\ HandleMessage(Plain("HeartbeatAck"))
    /\ UNCHANGED <<closeQueued, sessionVars, worldVars>>
    /\ Unhandled

\* The connection is lost, with the session or without it, for good or not.
LosesConnection ==
    /\ link \in {"greeted", "live"} /\ losses < MaxLosses
    /\ HandleMessage(Plain("Close"))
    /\ losses' = losses + 1
    /\ link' \in {"down", "dead"}
    /\ \/ UNCHANGED <<resumable, pending>>
       \/ resumable' = FALSE /\ pending' = <<>>
    /\ UNCHANGED <<closeQueued, produced, identified, worldVars>>
    /\ Unhandled

\* A close frame of the shard is sent on the connection it has or on the next
\* one, and answered by Discord; the session stays, its code is RESUME.
AnswersClose ==
    /\ link \in {"greeted", "live"} /\ closeQueued
    /\ HandleMessage(Plain("Close"))
    /\ link' = "down" /\ closeQueued' = FALSE
    /\ UNCHANGED <<resumable, pending, produced, losses, identified, worldVars>>
    /\ Unhandled

\* Something happens to the bot, after its first session began; a session
\* hears of it.
Happens(kind, guilds) ==
    /\ identified > 0 /\ events < MaxEvents
    /\ events' = events + 1
    /\ IF resumable
       THEN /\ pending' = Append(pending, Dispatch(kind, produced + 1, guilds))
            /\ produced' = produced + 1
       ELSE UNCHANGED <<pending, produced>>
    /\ UNCHANGED <<reporterVars, managerVars, main, amqpVars, link, resumable, losses,
                   identified, pathVars>>

\* The GuildCreate may already be marked unavailable.
Joins(g) ==
    /\ g \notin member
    /\ member' = member \union {g} /\ out' \in {out, out \union {g}}
    /\ Happens("GuildCreate", {g})

Leaves(g) ==
    /\ g \in member
    /\ member' = member \ {g} /\ out' = out \ {g}
    /\ Happens("GuildDelete", {g})

\* A GuildDelete with unavailable set: the bot is still in the guild.
OutageBegins(g) ==
    /\ g \in member \ out
    /\ out' = out \union {g} /\ UNCHANGED member
    /\ Happens("GuildDelete", {g})

OutageEnds(g) ==
    /\ g \in out
    /\ out' = out \ {g} /\ UNCHANGED member
    /\ Happens("GuildCreate", {g})

Chats ==
    /\ resumable
    /\ UNCHANGED <<member, out>>
    /\ Happens("Chat", {})

-----------------------------------------------------------------------------
(* main *)

AmqpStep ==
    /\ Amqp!Begin \/ Amqp!ReportOk \/ Amqp!ReportError \/ Amqp!Stop
    /\ UNCHANGED <<reporterVars, managerVars, main, sessionVars, worldVars, pathVars>>

MainStartsEagerly ==
    /\ main = "starting"
    /\ main' = "manager" /\ startSent' = TRUE
    /\ UNCHANGED <<reporterVars, manager, shutdownToken, closeQueued, amqpVars,
                   sessionVars, worldVars, pathVars>>

\* wait_start answered; the tasks are made and the shard is started.
MainStarts ==
    /\ main = "starting" /\ amqpResult = "ok"
    /\ main' = "manager" /\ startSent' = TRUE
    /\ UNCHANGED <<reporterVars, manager, shutdownToken, closeQueued, amqpVars,
                   sessionVars, worldVars, pathVars>>

\* expect("couldn't connect to amqp")
MainPanics ==
    /\ main = "starting" /\ amqpResult \in {"error", "dropped"}
    /\ main' = "exited"
    /\ UNCHANGED <<reporterVars, managerVars, amqpVars, sessionVars, worldVars, pathVars>>

\* SIGINT or SIGTERM, at any time once the shard was started; nobody looks at
\* the token any more when the manager has returned.
Signal ==
    /\ main = "manager" /\ ~shutdownToken
    /\ shutdownToken' = TRUE
    /\ UNCHANGED <<reporterVars, manager, startSent, closeQueued, main, amqpVars,
                   sessionVars, worldVars, pathVars>>

MainStopsReporterEarly ==
    /\ main = "manager" /\ shutdownToken
    /\ main' = "reporter" /\ reporterShutdown' = TRUE
    /\ UNCHANGED <<inbox, inboxOpen, reporting, guild_ids, shard, redis, lastSave,
                   managerVars, amqpVars, sessionVars, worldVars, pathVars>>

MainStopsReporter ==
    /\ main = "manager" /\ manager = "Done"
    /\ main' = "reporter" /\ reporterShutdown' = TRUE
    /\ UNCHANGED <<inbox, inboxOpen, reporting, guild_ids, shard, redis, lastSave,
                   managerVars, amqpVars, sessionVars, worldVars, pathVars>>

MainStopsAmqp ==
    /\ main = "reporter" /\ reporting = "stopped"
    /\ main' = "amqp"
    /\ Amqp!CallShutdown
    /\ UNCHANGED <<reporterVars, managerVars, sessionVars, worldVars, pathVars>>

MainExits ==
    /\ main = "amqp" /\ amqpPhase = "done"
    /\ main' = "exited"
    /\ UNCHANGED <<reporterVars, managerVars, amqpVars, sessionVars, worldVars, pathVars>>

-----------------------------------------------------------------------------
Init ==
    /\ ReporterInit
    /\ manager = "Stopped" /\ startSent = FALSE /\ shutdownToken = FALSE
    /\ closeQueued = FALSE
    /\ lastForwarded = 0 /\ lastNoted = 0 /\ refused = {}
    /\ main = "starting"
    /\ amqpStart = TRUE /\ amqpShutdown = FALSE
    /\ amqpResult = "pending" /\ amqpPhase = "idle"
    /\ link = "down" /\ resumable = FALSE /\ pending = <<>>
    /\ member \in SUBSET Guilds /\ out \in SUBSET member
    /\ produced = 0 /\ events = 0 /\ losses = 0 /\ identified = 0

Reporter ==
    /\ ReporterStep
    /\ UNCHANGED <<managerVars, main, amqpVars, sessionVars, worldVars, pathVars>>

Manager == ManagerStarts \/ ManagerCloses \/ StreamEnds

Discord == Connects \/ Identifies \/ Resumes \/ Delivers \/ AcksHeartbeat \/ AnswersClose

World ==
    \/ \E g \in Guilds : Joins(g) \/ Leaves(g) \/ OutageBegins(g) \/ OutageEnds(g)
    \/ Chats \/ LosesConnection

Main ==
    \/ MainStarts \/ MainPanics \/ MainStopsReporter
    \/ MainStopsAmqp \/ MainExits

Next == Reporter \/ Manager \/ Discord \/ World \/ AmqpStep \/ Main \/ Signal

Spec == Init /\ [][Next]_vars

\* The runtime polls every task; redis answers or times out; Discord accepts
\* connections and answers a close frame; the AmqpHandle answers its start
\* (AmqpConnection, StartIsAnswered).  That it ends after its shutdown is not
\* assumed: with a dead connection it may never do (ShutdownEnds).
FairSpec ==
    /\ Spec
    /\ WF_vars(Reporter) /\ WF_vars(Manager) /\ WF_vars(Main)
    /\ WF_vars(AmqpStep /\ ~amqpShutdown)
    /\ WF_vars(Connects) /\ WF_vars(AnswersClose)

-----------------------------------------------------------------------------
ControlTypeOK ==
    /\ manager \in {"Stopped", "Running", "Stopping", "Done"}
    /\ main \in {"starting", "manager", "reporter", "amqp", "exited"}
    /\ link \in {"down", "greeted", "live", "dead"}

FlagTypeOK ==
    /\ startSent \in BOOLEAN /\ shutdownToken \in BOOLEAN
    /\ closeQueued \in BOOLEAN /\ resumable \in BOOLEAN

DataTypeOK ==
    /\ lastForwarded \in Nat /\ lastNoted \in Nat /\ refused \subseteq DispatchKinds
    /\ pending \in Seq(Message)
    /\ member \subseteq Guilds /\ out \subseteq member
    /\ produced \in Nat /\ events \in Nat /\ losses \in Nat /\ identified \in Nat

GatewayTypeOK == ControlTypeOK /\ FlagTypeOK /\ DataTypeOK

TypeOK == ReporterTypeOK /\ GatewayTypeOK

(* What the reporter counts, the handler hears of: an event the reporter    *)
(* accepted is always handed to a live amqp client, however the process is  *)
(* stopped.                                                                 *)
NotedIsForwarded == lastNoted <= lastForwarded

(* Only an event the reporter was to be told of can be kept back: what only *)
(* the handler wants never waits for the reporter or for redis.             *)
ChatIsNeverRefused == "Chat" \notin refused

(* The reporter outlives the manager and handles all it accepted: no event  *)
(* is refused because of the shutdown and none is left behind by it.        *)
ReporterOutlivesManager ==
    /\ ~inboxOpen => manager = "Done"
    /\ reporting = "stopped" => inbox = <<>>

\* Everything Discord had to say has been said, heard and counted.
Settled ==
    /\ link = "live" /\ pending = <<>> /\ inbox = <<>>
    /\ refused = {}

(* The reporter misses no guild: once it has caught up, it knows all the    *)
(* bot is in that are not in an outage, and none the bot is not in unless   *)
(* the shard had to identify again.  Of a guild in an outage it knows or    *)
(* does not know, as its last event was: guild_deleted does not look at     *)
(* unavailable.                                                             *)
GuildsAreKnown ==
    Settled => /\ member \ out \subseteq guild_ids
               /\ identified = 1 => guild_ids \subseteq member

\* All is stopped but the AMQP client, which was told to and does not end.
WaitsForAmqp ==
    /\ main = "amqp" /\ amqpPhase = "active"
    /\ manager = "Done" /\ reporting = "stopped"

(* A signal, or the final end of the stream, ends the process, also when    *)
(* the connection to Discord is lost at the same moment, the reporter is    *)
(* behind and redis is away; or else main waits for ever for the AMQP       *)
(* client alone, as it does when that client's connection died under it.    *)
ShutdownCompletes ==
    (shutdownToken \/ link = "dead") ~> (main = "exited" \/ []WaitsForAmqp)

=============================================================================
