----------------------------- MODULE Framework -----------------------------
(***************************************************************************)
(* The crate tulpje-framework as the handler process runs it: the Registry *)
(* of event handlers, the Dispatch task that gives every event a task of   *)
(* its own, the Scheduler of the cron jobs and the ServiceManager.  What a *)
(* handler, a job or a service does to the outside is in Handler.          *)
(***************************************************************************)
EXTENDS Naturals, Sequences

CONSTANT
    Primary       \* handler_id = 0: this handler runs the jobs and services

ASSUME PrimaryAssumption == Primary \in BOOLEAN

VARIABLES
    \* Dispatch
    queue,        \* events sent to the dispatcher and not taken yet
    dispatcher,   \* "running", "draining" (tracker.wait) or "stopped"
    tasks,        \* the tracker: events whose handlers still run
    timedOut,     \* history: the wait for the tasks was given up
    \* Scheduler
    startJobs,    \* SchedulerTaskMessage::Start waits in its receiver
    scheduler,    \* "running" or "stopped"
    registered,   \* guilds:cleanup is in the job map
    \* ServiceManager
    service,      \* the services' loops: "off", "running", "stopped"
    frameworkShutdown   \* the three shutdown tokens, cancelled together

frameworkVars == <<queue, dispatcher, tasks, timedOut, startJobs, scheduler,
                   registered, service, frameworkShutdown>>
dispatchVars == <<queue, dispatcher, tasks, timedOut>>
schedulerVars == <<startJobs, scheduler, registered>>

-----------------------------------------------------------------------------
(* Registry::register extends the map from event type to handlers: a module *)
(* that has handlers for a type replaces those of the modules before it.    *)

EventTypes == {"GuildCreate", "GuildDelete", "GuildEmojisUpdate",
               "MessageCreate", "MessageUpdate", "ReactionAdd"}

EmojiModule ==
    [type \in EventTypes |->
        CASE type = "GuildCreate"       -> <<"emoji:guild_create">>
          [] type = "GuildEmojisUpdate" -> <<"emoji:guild_emojis_update">>
          [] type = "MessageCreate"     -> <<"emoji:handle_message">>
          [] type = "MessageUpdate"     -> <<"emoji:message_update">>
          [] type = "ReactionAdd"       -> <<"emoji:reaction_add">>
          [] OTHER                      -> <<>>]

CoreModule ==
    [type \in EventTypes |->
        CASE type = "GuildCreate" -> <<"core:guild_create">>
          [] type = "GuildDelete" -> <<"core:guild_delete">>
          [] OTHER                -> <<>>]

Register(registry, module) ==
    [type \in EventTypes |-> IF module[type] # <<>> THEN module[type] ELSE registry[type]]

\* pluralkit and stats, registered between the two, have no event handlers.
Registry == Register(Register([type \in EventTypes |-> <<>>], EmojiModule), CoreModule)

-----------------------------------------------------------------------------
(* Dispatch: a task is an event and the handlers it has still to run. *)

\* tracker.spawn(handle(...)); a task without handlers is over at once
Take ==
    /\ dispatcher = "running" /\ queue # <<>>
    /\ queue' = Tail(queue)
    /\ tasks' = tasks \union {[event |-> Head(queue), todo |-> Registry[Head(queue).type]]}
    /\ UNCHANGED <<dispatcher, timedOut>>

\* select! may take this branch with events left in the queue; they are dropped
StopsTaking ==
    /\ dispatcher = "running" /\ frameworkShutdown
    /\ dispatcher' = "draining" /\ queue' = <<>>
    /\ UNCHANGED <<tasks, timedOut>>

Drained ==
    /\ dispatcher = "draining" /\ tasks = {}
    /\ dispatcher' = "stopped"
    /\ UNCHANGED <<queue, tasks, timedOut>>

DrainWaitsForTasks ==
    /\ dispatcher = "draining" /\ tasks = {}
    /\ dispatcher' = "stopped" /\ timedOut' = TRUE
    /\ UNCHANGED <<queue, tasks>>

\* five seconds after it stopped taking events
DrainTimesOut ==
    /\ dispatcher = "draining" /\ tasks # {}
    /\ dispatcher' = "stopped" /\ timedOut' = TRUE
    /\ UNCHANGED <<queue, tasks>>

FinishHandlerKeepingTask(t) == tasks' = (tasks \ {t}) \union {[t EXCEPT !.todo = Tail(@)]}

\* The tasks left behind at the timeout go on until the process exits.
FinishHandler(t) ==
    LET rest == [t EXCEPT !.todo = Tail(@)]
    IN  tasks' = (tasks \ {t}) \union (IF rest.todo = <<>> THEN {} ELSE {rest})

ContinueWith(t, step) == tasks' = (tasks \ {t}) \union {[t EXCEPT !.todo[1] = step]}

DispatchStep ==
    /\ Take \/ StopsTaking \/ Drained \/ DrainTimesOut
    /\ UNCHANGED <<schedulerVars, service, frameworkShutdown>>

-----------------------------------------------------------------------------
(* Scheduler *)

EnableTask ==
    /\ scheduler = "running" /\ startJobs
    /\ startJobs' = FALSE /\ registered' = TRUE
    /\ UNCHANGED scheduler

\* the jobs are removed, the cron scheduler is dropped and joined
SchedulerStops ==
    /\ scheduler = "running" /\ frameworkShutdown
    /\ scheduler' = "stopped" /\ registered' = FALSE
    /\ UNCHANGED startJobs

SchedulerStep ==
    /\ EnableTask \/ SchedulerStops
    /\ UNCHANGED <<dispatchVars, service, frameworkShutdown>>

-----------------------------------------------------------------------------
(* ServiceManager: the loops of pk:update-fronters and pk:update-systems,   *)
(* which look at their token between two ticks.                             *)

ServiceStops == service = "running" /\ frameworkShutdown /\ service' = "stopped"

ServiceStep ==
    /\ ServiceStops
    /\ UNCHANGED <<dispatchVars, schedulerVars, frameworkShutdown>>

-----------------------------------------------------------------------------
\* Framework::start after its setup function
FrameworkStart ==
    /\ startJobs' = Primary
    /\ service' = IF Primary THEN "running" ELSE "off"
    /\ UNCHANGED <<dispatchVars, scheduler, registered, frameworkShutdown>>

FrameworkShutdown ==
    /\ frameworkShutdown' = TRUE
    /\ UNCHANGED <<dispatchVars, schedulerVars, service>>

FrameworkInit ==
    /\ queue = <<>> /\ dispatcher = "running" /\ tasks = {} /\ timedOut = FALSE
    /\ startJobs = FALSE /\ scheduler = "running" /\ registered = FALSE
    /\ service = "off" /\ frameworkShutdown = FALSE
=============================================================================
