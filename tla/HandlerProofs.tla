---------------------------- MODULE HandlerProofs ----------------------------
(***************************************************************************)
(* Proofs about the handler process, for any sets of guilds and emojis,    *)
(* and any number of events and failures.                                  *)
(***************************************************************************)
EXTENDS Handler, SequenceTheorems, TLAPS

\* What registering the modules in turn comes to: core's handlers replace those
\* of the emoji module.
LEMMA Registered ==
    /\ Registry["GuildCreate"] = <<"core:guild_create">>
    /\ Registry["GuildDelete"] = <<"core:guild_delete">>
    /\ Registry["GuildEmojisUpdate"] = <<"emoji:guild_emojis_update">>
    /\ Registry["MessageCreate"] = <<"emoji:handle_message">>
    /\ Registry["MessageUpdate"] = <<"emoji:message_update">>
    /\ Registry["ReactionAdd"] = <<"emoji:reaction_add">>
<1> DEFINE first == Register([type \in EventTypes |-> <<>>], EmojiModule)
<1>1. /\ first["GuildEmojisUpdate"] = <<"emoji:guild_emojis_update">>
      /\ first["MessageCreate"] = <<"emoji:handle_message">>
      /\ first["MessageUpdate"] = <<"emoji:message_update">>
      /\ first["ReactionAdd"] = <<"emoji:reaction_add">>
  BY DEF Register, EmojiModule, EventTypes
<1>2. Registry = Register(first, CoreModule)
  BY DEF Registry
<1> HIDE DEF first
<1> QED
  BY <1>1, <1>2 DEF Register, CoreModule, EventTypes

LEMMA TaskFields ==
    /\ \A e \in Event, s \in Seq(Steps) : [event |-> e, todo |-> s] \in Task
    /\ \A t \in Task : t.event \in Event /\ t.todo \in Seq(Steps)
                      /\ t = [event |-> t.event, todo |-> t.todo]
  BY DEF Task

LEMMA EventNumbers ==
    /\ \A e \in Event : e.seq \in Nat /\ e.seq \in 1..MaxEvents
    /\ \A e \in Delivery : e.seq \in Nat /\ e.seq \in 1..MaxEvents
  BY HandlerAssumption DEF Event, Delivery

LEMMA ReadableEvents == \A e \in Delivery : Readable(e) => e \in Event
  BY DEF Delivery, Event, Readable

LEMMA EventTasks ==
    ASSUME NEW e \in Event
    PROVE  [event |-> e, todo |-> Registry[e.type]] \in Task /\ Registry[e.type] # <<>>
<1>1. e.type \in EventTypes
  BY DEF Event
<1>2. Registry[e.type] \in Seq(Steps) /\ Registry[e.type] # <<>>
  <2>1. \A s \in Steps : <<s>> \in Seq(Steps) /\ <<s>> # <<>>
    OBVIOUS
  <2>2. \E s \in Steps : Registry[e.type] = <<s>>
    BY <1>1, Registered DEF EventTypes, Steps
  <2> QED
    BY <2>1, <2>2, Zenon
<1> QED
  BY <1>2, TaskFields, Zenon

LEMMA HeadsAndTails ==
    ASSUME NEW S, NEW s \in Seq(S), s # <<>>
    PROVE  /\ Head(s) \in S /\ Tail(s) \in Seq(S)
           /\ Len(s) \in Nat \ {0} /\ Len(Tail(s)) = Len(s) - 1
           /\ s[1] = Head(s) /\ \A i \in 1..Len(Tail(s)) : Tail(s)[i] = s[i + 1]
  OBVIOUS

\* A task goes on with its event.
LEMMA TasksGoOn ==
    ASSUME TypeOK, NEW t \in tasks,
           FinishHandler(t) \/ ContinueWith(t, "emoji:save_emoji_use")
    PROVE  /\ tasks' \subseteq Task
           /\ \A u \in tasks' : u.todo # <<>>
           /\ \A u \in tasks' \ tasks : u.event = t.event
<1>1. t \in Task /\ t.todo # <<>>
  BY DEF TypeOK
<1> DEFINE rest == [t EXCEPT !.todo = Tail(@)]
           longer == [t.todo EXCEPT ![1] = "emoji:save_emoji_use"]
           next == [t EXCEPT !.todo = longer]
<1>2. rest \in Task /\ rest.event = t.event
  BY <1>1, HeadsAndTails DEF Task
<1>3. next \in Task /\ next.event = t.event /\ next.todo # <<>>
  <2>1. t.todo \in Seq(Steps) /\ Len(t.todo) \in Nat \ {0}
    BY <1>1, TaskFields, HeadsAndTails
  <2>2. longer \in Seq(Steps) /\ Len(longer) = Len(t.todo)
    <3>1. 1 \in 1..Len(t.todo) /\ "emoji:save_emoji_use" \in Steps
      BY <2>1 DEF Steps
    <3> QED
      BY <2>1, <3>1, ExceptSeq
  <2>3. longer # <<>>
    BY <2>1, <2>2
  <2> HIDE DEF longer
  <2>4. next = [event |-> t.event, todo |-> longer]
    BY <1>1, TaskFields
  <2> QED
    BY <2>2, <2>3, <2>4, <1>1, TaskFields
<1>4. CASE FinishHandler(t)
  BY <1>2, <1>4 DEF FinishHandler, TypeOK
<1>5. CASE ContinueWith(t, "emoji:save_emoji_use")
  BY <1>3, <1>5 DEF ContinueWith, TypeOK
<1> QED
  BY <1>4, <1>5

-----------------------------------------------------------------------------
(* The way of an event: received, cached, sent, taken.  The events wait in *)
(* the order of their numbers, and none is left out.                       *)
InTurn ==
    /\ loop = "caching" => amqpRx # <<>> /\ Readable(Head(amqpRx))
    /\ loop = "done" => amqpRx = <<>> /\ amqpPhase = "done"
    /\ Stopping => loop = "done"
    /\ sent + Len(amqpRx) = delivered
    /\ \A i \in 1..Len(amqpRx) : amqpRx[i].seq = sent + i
    /\ \A j \in 1..Len(queue) : queue[j].seq <= sent
    /\ \A t \in tasks : t.event.seq <= sent

LEMMA AmqpEnds ==
    ASSUME AmqpStep
    PROVE  /\ UNCHANGED <<frameworkVars, main, signalled, othersVars>>
           /\ amqpPhase = "done" => amqpPhase' = "done"
  BY DEF AmqpStep, Amqp!Begin, Amqp!ReportOk, Amqp!ReportError, Amqp!Stop

LEMMA TypesAtFirst == Init => TypeOK /\ InTurn
<1> SUFFICES ASSUME Init PROVE TypeOK /\ InTurn
  OBVIOUS
<1>1. DataTypeOK /\ emojis \in [Guilds -> SUBSET Emojis]
  BY DEF Init, DataInit, DataTypeOK
<1>2. /\ queue \in Seq(Event) /\ amqpRx \in Seq(Delivery)
      /\ delivered \in 0..MaxEvents /\ sent \in 0..MaxEvents /\ failures \in 0..MaxFailures
  BY HandlerAssumption DEF Init, FrameworkInit
<1>4. TypeOK
  BY <1>1, <1>2 DEF Init, FrameworkInit, TypeOK
<1>3. InTurn
  BY DEF Init, FrameworkInit, InTurn, Stopping
<1> QED
  BY <1>4, <1>3

\* The loop is done with the first delivery.
LEMMA HeadGone ==
    ASSUME TypeOK, InTurn, amqpRx # <<>>, amqpRx' = Tail(amqpRx), sent' = Head(amqpRx).seq,
           delivered' = delivered
    PROVE  /\ amqpRx' \in Seq(Delivery) /\ sent' \in 0..MaxEvents
           /\ Head(amqpRx) \in Delivery /\ sent \in Nat /\ sent' = sent + 1
           /\ sent' + Len(amqpRx') = delivered'
           /\ \A i \in 1..Len(amqpRx') : amqpRx'[i].seq = sent' + i
           /\ \A t \in tasks : t.event.seq <= sent'
           /\ \A j \in 1..Len(queue) : queue[j].seq \in Nat /\ queue[j].seq <= sent'
<1>1. /\ amqpRx' \in Seq(Delivery) /\ Head(amqpRx) \in Delivery
      /\ Len(amqpRx) \in Nat \ {0} /\ Len(amqpRx') = Len(amqpRx) - 1
      /\ amqpRx[1] = Head(amqpRx) /\ \A i \in 1..Len(amqpRx') : amqpRx'[i] = amqpRx[i + 1]
  BY HeadsAndTails DEF TypeOK
<1>2. sent' = sent + 1 /\ sent \in Nat /\ sent' \in 0..MaxEvents
  <2>1. 1 \in 1..Len(amqpRx) /\ sent \in Nat
    BY <1>1, HandlerAssumption DEF TypeOK
  <2>2. amqpRx[1].seq = sent + 1
    BY <2>1 DEF InTurn
  <2>3. sent' \in 1..MaxEvents /\ MaxEvents \in Nat
    BY <1>1, EventNumbers, HandlerAssumption
  <2> QED
    BY <1>1, <2>1, <2>2, <2>3
<1>3. sent' + Len(amqpRx') = delivered'
  <2>1. sent + Len(amqpRx) = delivered
    BY DEF InTurn
  <2>2. PICK n \in Nat \ {0} : Len(amqpRx) = n
    BY <1>1
  <2>3. Len(amqpRx') = n - 1
    BY <1>1, <2>2
  <2>4. sent' + Len(amqpRx') = sent + n
    BY <1>2, <2>3
  <2> QED
    BY <2>1, <2>2, <2>4
<1>4. \A i \in 1..Len(amqpRx') : amqpRx'[i].seq = sent' + i
  <2> SUFFICES ASSUME NEW i \in 1..Len(amqpRx') PROVE amqpRx[i + 1].seq = (sent + 1) + i
    BY <1>1, <1>2
  <2>1. i \in Nat /\ i + 1 \in 1..Len(amqpRx)
    BY <1>1
  <2>2. amqpRx[i + 1].seq = sent + (i + 1)
    BY <2>1 DEF InTurn
  <2> QED
    BY <1>2, <2>1, <2>2
<1>5. \A t \in tasks : t.event.seq <= sent'
  <2> SUFFICES ASSUME NEW t \in tasks PROVE t.event.seq <= sent'
    OBVIOUS
  <2>1. t.event.seq \in Nat /\ t.event.seq <= sent
    BY EventNumbers, TaskFields DEF TypeOK, InTurn
  <2> QED
    BY <1>2, <2>1
<1>6. \A j \in 1..Len(queue) : queue[j].seq \in Nat /\ queue[j].seq <= sent'
  <2> SUFFICES ASSUME NEW j \in 1..Len(queue)
               PROVE  queue[j].seq \in Nat /\ queue[j].seq <= sent'
    OBVIOUS
  <2>1. queue[j].seq \in Nat /\ queue[j].seq <= sent
    BY EventNumbers DEF TypeOK, InTurn
  <2> QED
    BY <1>2, <2>1
<1> QED
  BY <1>1, <1>2, <1>3, <1>4, <1>5, <1>6

LEMMA LoopSteps ==
    ASSUME TypeOK, InTurn, Loop
    PROVE  TypeOK' /\ InTurn'
<1>1. CASE LoopReceives
  <2>1. /\ UNCHANGED <<frameworkVars, dataVars, main, signalled, amqpVars, amqpRx, sent,
                       cleanupVars, worldVars, failures, orderly>>
        /\ loop = "receiving" /\ amqpRx # <<>> /\ loop' = "caching"
        /\ Readable(Head(amqpRx))
    BY <1>1 DEF LoopReceives
  <2>2. TypeOK'
    BY <2>1 DEF TypeOK, DataTypeOK, frameworkVars, dataVars, amqpVars, cleanupVars,
       worldVars
  <2>3. InTurn'
    BY <2>1 DEF InTurn, Stopping, frameworkVars, amqpVars, worldVars
  <2> QED
    BY <2>2, <2>3
<1>2. CASE HandleMessage
  <2>1. /\ amqpRx # <<>> /\ Readable(Head(amqpRx)) /\ queue \in Seq(Event)
        /\ loop = "caching" /\ loop' = "receiving" /\ UNCHANGED <<tasks, delivered>>
        /\ amqpRx' = Tail(amqpRx) /\ sent' = Head(amqpRx).seq
    BY <1>2 DEF HandleMessage, TypeOK, InTurn, worldVars
  <2>2. PICK e \in Event : e = Head(amqpRx)
    BY <2>1, HeadGone, ReadableEvents
  <2>3. /\ UNCHANGED <<dispatcher, tasks, timedOut, schedulerVars, service, frameworkShutdown,
                       row, uses, main, signalled, amqpVars, cleanupVars, worldVars, orderly>>
        /\ failures' = failures \/ (failures < MaxFailures /\ failures' = failures + 1)
        /\ guild_emojis' = guild_emojis \/ UpdateCache(e)
        /\ queue' = Append(queue, e)
    BY <1>2, <2>2 DEF HandleMessage, Fails
  <2>4. e.list \in SUBSET Emojis /\ e.seq \in Nat /\ e.guild \in Guilds /\ sent' = e.seq
    BY <2>1, <2>2, EventNumbers DEF Event
  <2>5. guild_emojis' \in [Guilds -> SUBSET Emojis]
    BY <2>3, <2>4 DEF UpdateCache, CacheEmojis, TypeOK, DataTypeOK
  <2>6. failures' \in 0..MaxFailures
    BY <2>3, HandlerAssumption DEF TypeOK
  <2>7. queue' \in Seq(Event)
    BY <2>1, <2>3
  <2>8. /\ amqpRx' \in Seq(Delivery) /\ sent' \in 0..MaxEvents
        /\ sent' + Len(amqpRx') = delivered'
        /\ \A i \in 1..Len(amqpRx') : amqpRx'[i].seq = sent' + i
        /\ \A t \in tasks : t.event.seq <= sent'
        /\ \A j \in 1..Len(queue) : queue[j].seq \in Nat /\ queue[j].seq <= sent'
    BY <2>1, HeadGone
  <2>9. \A j \in 1..Len(queue') : queue'[j].seq <= sent'
    <3>1. \A j \in 1..Len(queue') : queue'[j] = e \/ (j \in 1..Len(queue) /\ queue'[j] = queue[j])
      BY <2>1, <2>3
    <3> QED
      BY <2>4, <2>8, <3>1
  <2>10. TypeOK'
    <3>1. DataTypeOK'
      BY <2>3, <2>5 DEF TypeOK, DataTypeOK
    <3> QED
      BY <2>1, <2>3, <2>6, <2>7, <2>8, <3>1
      DEF TypeOK, amqpVars, cleanupVars, worldVars, schedulerVars
  <2>11. InTurn'
    BY <2>1, <2>3, <2>8, <2>9 DEF InTurn, Stopping, amqpVars, worldVars
  <2> QED
    BY <2>10, <2>11
<1>4. CASE LoopSkips
  <2>1. /\ UNCHANGED <<frameworkVars, dataVars, main, signalled, amqpVars, loop,
                       cleanupVars, worldVars, failures, orderly>>
        /\ loop = "receiving" /\ amqpRx # <<>>
        /\ amqpRx' = Tail(amqpRx) /\ sent' = Head(amqpRx).seq /\ delivered' = delivered
    BY <1>4 DEF LoopSkips, worldVars
  <2>2. /\ amqpRx' \in Seq(Delivery) /\ sent' \in 0..MaxEvents
        /\ sent' + Len(amqpRx') = delivered'
        /\ \A i \in 1..Len(amqpRx') : amqpRx'[i].seq = sent' + i
        /\ \A t \in tasks : t.event.seq <= sent'
        /\ \A j \in 1..Len(queue) : queue[j].seq \in Nat /\ queue[j].seq <= sent'
    BY <2>1, HeadGone
  <2>3. TypeOK'
    BY <2>1, <2>2 DEF TypeOK, DataTypeOK, frameworkVars, dataVars, amqpVars, cleanupVars,
       worldVars
  <2>4. InTurn'
    BY <2>1, <2>2 DEF InTurn, Stopping, frameworkVars, amqpVars, worldVars
  <2> QED
    BY <2>3, <2>4
<1>3. CASE LoopEnds
  <2>1. /\ UNCHANGED <<frameworkVars, dataVars, main, signalled, amqpVars, amqpRx, sent,
                       cleanupVars, worldVars, failures, orderly>>
        /\ loop = "receiving" /\ amqpRx = <<>> /\ amqpPhase = "done" /\ loop' = "done"
    BY <1>3 DEF LoopEnds
  <2>2. TypeOK'
    BY <2>1 DEF TypeOK, DataTypeOK, frameworkVars, dataVars, amqpVars, cleanupVars,
       worldVars
  <2>3. InTurn'
    BY <2>1 DEF InTurn, Stopping, frameworkVars, amqpVars, worldVars
  <2> QED
    BY <2>2, <2>3
<1> QED
  BY <1>1, <1>2, <1>3, <1>4 DEF Loop

LEMMA DispatchSteps ==
    ASSUME TypeOK, InTurn, Dispatches
    PROVE  TypeOK' /\ InTurn'
<1>1. /\ UNCHANGED <<dataVars, main, signalled, amqpVars, loopVars, cleanupVars, worldVars,
                     failures, schedulerVars, service, frameworkShutdown>>
      /\ orderly' \in BOOLEAN
  BY DEF Dispatches, DispatchStep, TypeOK
<1>2. /\ queue' \in Seq(Event) /\ tasks' \subseteq Task /\ \A t \in tasks' : t.todo # <<>>
      /\ dispatcher' \in {"running", "draining", "stopped"} /\ timedOut' \in BOOLEAN
      /\ \A j \in 1..Len(queue') : queue'[j].seq <= sent
      /\ \A t \in tasks' : t.event.seq <= sent
  <2>1. CASE Take
    <3> DEFINE task == [event |-> Head(queue), todo |-> Registry[Head(queue).type]]
    <3>1. queue \in Seq(Event) /\ queue # <<>> /\ queue' = Tail(queue) /\ tasks' = tasks \union {task}
      BY <2>1 DEF Take, TypeOK
    <3>2. /\ Head(queue) \in Event /\ Tail(queue) \in Seq(Event)
          /\ Head(queue).seq <= sent
          /\ \A j \in 1..Len(Tail(queue)) : Tail(queue)[j].seq <= sent
      <4>1. /\ Len(queue) \in Nat \ {0} /\ Len(Tail(queue)) = Len(queue) - 1
            /\ queue[1] = Head(queue) /\ \A j \in 1..Len(Tail(queue)) : Tail(queue)[j] = queue[j + 1]
            /\ Head(queue) \in Event /\ Tail(queue) \in Seq(Event)
        BY <3>1, HeadsAndTails
      <4>2. 1 \in 1..Len(queue) /\ \A j \in 1..Len(Tail(queue)) : j + 1 \in 1..Len(queue)
        BY <4>1
      <4> QED
        BY <4>1, <4>2 DEF InTurn
    <3>3. task \in Task /\ task.todo # <<>> /\ task.event = Head(queue)
      BY <3>2, EventTasks
    <3> HIDE DEF task
    <3> QED
      BY <2>1, <3>1, <3>2, <3>3 DEF Take, TypeOK, InTurn
  <2>2. CASE StopsTaking
    BY <2>2 DEF StopsTaking, TypeOK, InTurn
  <2>3. CASE Drained \/ DrainTimesOut
    BY <2>3 DEF Drained, DrainTimesOut, TypeOK, InTurn
  <2> QED
    BY <2>1, <2>2, <2>3 DEF Dispatches, DispatchStep
<1>3. TypeOK'
  BY <1>1, <1>2 DEF TypeOK, DataTypeOK, dataVars, amqpVars, loopVars, cleanupVars,
     worldVars,
                    schedulerVars
<1>4. InTurn'
  BY <1>1, <1>2 DEF InTurn, Stopping, amqpVars, loopVars, worldVars
<1> QED
  BY <1>3, <1>4

\* What a handler does to the tables.
LEMMA HandlerData ==
    ASSUME TypeOK, NEW t \in tasks, RunHandler(Head(t.todo), t.event)
    PROVE  DataTypeOK'
<1>1. t.event \in Event /\ Head(t.todo) \in Steps
  BY TaskFields, HeadsAndTails DEF TypeOK
<1> DEFINE e == t.event
<1>2. e.guild \in Guilds /\ e.list \in SUBSET Emojis
  BY <1>1 DEF Event
<1> HIDE DEF e
<1>3. DataTypeOK
  BY DEF TypeOK
<1>4. RunHandler(Head(t.todo), e)
  BY DEF e
<1>5. CASE GuildCreated(e) /\ UNCHANGED guild_emojis
  BY <1>2, <1>3, <1>5 DEF GuildCreated, Touch, DataTypeOK, Rows
<1>6. CASE GuildDeleted(e) /\ UNCHANGED guild_emojis
  BY <1>2, <1>3, <1>6 DEF GuildDeleted, LeaveGuild, DataTypeOK, Rows
<1>7. CASE EmojisListed(e) /\ UNCHANGED guild_emojis
  BY <1>2, <1>3, <1>7 DEF EmojisListed, DeleteUsesNotInList, DataTypeOK
<1>8. CASE EmojiUsed(e) /\ UNCHANGED guild_emojis
  BY <1>2, <1>3, <1>8 DEF EmojiUsed, SaveEmojiUse, DataTypeOK
<1>9. CASE UNCHANGED <<row, uses, guild_emojis>>
  BY <1>3, <1>9 DEF DataTypeOK
<1> QED
  BY <1>1, <1>4, <1>5, <1>6, <1>7, <1>8, <1>9 DEF RunHandler, Steps

LEMMA HandlerSteps ==
    ASSUME TypeOK, InTurn, Handlers
    PROVE  TypeOK' /\ InTurn'
<1>1. /\ UNCHANGED <<queue, dispatcher, timedOut, schedulerVars, service, frameworkShutdown, main,
                     signalled, amqpVars, loopVars, cleanupVars, worldVars, orderly>>
      /\ failures' = failures \/ (failures < MaxFailures /\ failures' = failures + 1)
  BY DEF Handlers, HandlerRuns, HandlerFails, Fails
<1>2. PICK t \in tasks :
          /\ FinishHandler(t) \/ ContinueWith(t, "emoji:save_emoji_use")
          /\ RunHandler(Head(t.todo), t.event) \/ UNCHANGED dataVars
  BY DEF Handlers, HandlerRuns, HandlerFails
<1>3. /\ tasks' \subseteq Task /\ \A u \in tasks' : u.todo # <<>>
      /\ \A u \in tasks' : u \in tasks \/ u.event = t.event
  BY <1>2, TasksGoOn
<1>4. DataTypeOK'
  BY <1>2, HandlerData DEF TypeOK, DataTypeOK, dataVars
<1>5. failures' \in 0..MaxFailures
  BY <1>1, HandlerAssumption DEF TypeOK
<1>6. TypeOK'
  BY <1>1, <1>3, <1>4, <1>5 DEF TypeOK, amqpVars, loopVars, cleanupVars, worldVars,
     schedulerVars
<1>7. \A u \in tasks' : u.event.seq <= sent
  BY <1>3 DEF InTurn
<1>8. InTurn'
  BY <1>1, <1>7 DEF InTurn, Stopping, amqpVars, loopVars, worldVars
<1> QED
  BY <1>6, <1>8

LEMMA CleanupSteps ==
    ASSUME TypeOK, InTurn, Cleanup
    PROVE  TypeOK' /\ InTurn'
<1>1. UNCHANGED <<frameworkVars, main, signalled, amqpVars, loopVars, worldVars>>
  BY DEF Cleanup, CleanupBegins, CleanupDeletes, CleanupFails
<1>2. doomed' \subseteq Guilds /\ cleanup' \in {"idle", "deleting"}
  BY DEF Cleanup, CleanupBegins, CleanupDeletes, CleanupFails, EligibleForDeletion, TypeOK
<1>3. DataTypeOK'
  <2>1. CASE CleanupDeletes
    BY <2>1 DEF CleanupDeletes, DeleteGuild, Cascade, TypeOK, DataTypeOK, Rows
  <2>2. CASE CleanupBegins \/ CleanupFails
    BY <2>2 DEF CleanupBegins, CleanupFails, dataVars, TypeOK, DataTypeOK
  <2> QED
    BY <2>1, <2>2 DEF Cleanup
<1>4. failures' \in 0..MaxFailures
  BY HandlerAssumption DEF Cleanup, CleanupBegins, CleanupDeletes, CleanupFails, Fails,
     TypeOK
<1>5. orderly' \in BOOLEAN
  BY DEF Cleanup, CleanupBegins, CleanupDeletes, CleanupFails, TypeOK
<1>6. TypeOK'
  BY <1>1, <1>2, <1>3, <1>4, <1>5 DEF TypeOK, frameworkVars, amqpVars, loopVars, worldVars
<1>7. InTurn'
  BY <1>1 DEF InTurn, Stopping, frameworkVars, amqpVars, loopVars, worldVars
<1> QED
  BY <1>6, <1>7

LEMMA OtherTasksSteps ==
    ASSUME TypeOK, InTurn, Scheduling \/ Serving \/ AmqpStep \/ Signal
    PROVE  TypeOK' /\ InTurn'
<1>1. /\ UNCHANGED <<dispatchVars, dataVars, main, loopVars, cleanupVars, worldVars, failures,
                     orderly, frameworkShutdown>>
      /\ amqpPhase = "done" => amqpPhase' = "done"
  BY AmqpEnds DEF Scheduling, SchedulerStep, Serving, ServiceStep, Signal, othersVars,
     frameworkVars, amqpVars, dispatchVars
<1>2. /\ startJobs' \in BOOLEAN /\ registered' \in BOOLEAN
      /\ scheduler' \in {"running", "stopped"}
      /\ service' \in {"off", "running", "stopped"} /\ signalled' \in BOOLEAN
  <2>1. CASE Scheduling
    BY <2>1 DEF Scheduling, SchedulerStep, EnableTask, SchedulerStops, TypeOK
  <2>2. CASE Serving
    BY <2>2 DEF Serving, ServiceStep, ServiceStops, schedulerVars, TypeOK
  <2>3. CASE AmqpStep
    BY <2>3, AmqpEnds DEF frameworkVars, TypeOK
  <2>4. CASE Signal
    BY <2>4 DEF Signal, frameworkVars, TypeOK
  <2> QED
    BY <2>1, <2>2, <2>3, <2>4
<1>3. TypeOK'
  BY <1>1, <1>2 DEF TypeOK, DataTypeOK, dispatchVars, dataVars, loopVars, cleanupVars,
     worldVars
<1>4. InTurn'
  BY <1>1 DEF InTurn, Stopping, dispatchVars, loopVars, worldVars
<1> QED
  BY <1>3, <1>4

LEMMA MainSteps ==
    ASSUME TypeOK, InTurn, Main
    PROVE  TypeOK' /\ InTurn'
<1>1. /\ UNCHANGED <<dispatchVars, scheduler, registered, dataVars, loopVars, cleanupVars,
                     worldVars, orderly, signalled, amqpPhase>>
      /\ failures' = failures \/ (failures < MaxFailures /\ failures' = failures + 1)
  BY DEF Main, MainBuilds, MainServes, FrameworkStart, MainPanics, MainStopsAmqp,
         Amqp!CallShutdown, MainJoinsAmqp, MainStopsFramework, FrameworkShutdown, MainJoins,
         Fails, othersVars, frameworkVars, schedulerVars, dispatchVars, amqpVars
<1>2. /\ startJobs' \in BOOLEAN /\ frameworkShutdown' \in BOOLEAN
      /\ service' \in {"off", "running", "stopped"}
      /\ main' \in {"starting", "framework", "serving", "amqp", "loop", "scheduler",
                    "dispatch", "services", "exited"}
      /\ Stopping' => loop = "done"
  <2>1. CASE MainServes
    BY <2>1, PrimaryAssumption DEF MainServes, FrameworkStart, TypeOK, Stopping
  <2>2. CASE MainStopsFramework
    BY <2>2 DEF MainStopsFramework, FrameworkShutdown, schedulerVars, TypeOK
  <2>3. CASE MainBuilds \/ MainPanics \/ MainStopsAmqp \/ MainJoinsAmqp
    BY <2>3 DEF MainBuilds, MainPanics, MainStopsAmqp, MainJoinsAmqp, frameworkVars, TypeOK,
                Stopping
  <2>4. CASE MainJoins
    BY <2>4 DEF MainJoins, frameworkVars, TypeOK, InTurn, Stopping
  <2> QED
    BY <2>1, <2>2, <2>3, <2>4 DEF Main
<1>3. failures' \in 0..MaxFailures
  BY <1>1, HandlerAssumption DEF TypeOK
<1>4. TypeOK'
  BY <1>1, <1>2, <1>3 DEF TypeOK, DataTypeOK, dispatchVars, dataVars, loopVars,
     cleanupVars, worldVars
<1>5. InTurn'
  BY <1>1, <1>2 DEF InTurn, dispatchVars, loopVars, worldVars
<1> QED
  BY <1>4, <1>5

LEMMA TimeSteps ==
    ASSUME TypeOK, InTurn, TimePasses
    PROVE  TypeOK' /\ InTurn'
<1>1. UNCHANGED <<frameworkVars, main, signalled, amqpVars, loopVars, cleanupVars, worldVars,
                  failures, orderly>>
  BY DEF TimePasses
<1>2. DataTypeOK'
  BY DEF TimePasses, WeekPasses, TypeOK, DataTypeOK, Rows
<1>3. TypeOK'
  BY <1>1, <1>2 DEF TypeOK, frameworkVars, amqpVars, loopVars, cleanupVars, worldVars
<1>4. InTurn'
  BY <1>1 DEF InTurn, Stopping, frameworkVars, amqpVars, loopVars, worldVars
<1> QED
  BY <1>3, <1>4

LEMMA DeliverySteps ==
    ASSUME TypeOK, InTurn, NEW e \in Delivery, Delivers(e)
    PROVE  TypeOK' /\ InTurn'
<1>1. /\ UNCHANGED <<frameworkVars, dataVars, main, signalled, amqpVars, loop, sent, cleanupVars,
                     failures, orderly>>
      /\ amqpRx' = Append(amqpRx, e) /\ amqpPhase = "active"
      /\ e.seq = delivered + 1 /\ delivered' = e.seq
  BY DEF Delivers
<1>2. emojis' \in [Guilds -> SUBSET Emojis]
  BY DEF Delivers, TypeOK, Delivery
<1>3. /\ amqpRx \in Seq(Delivery) /\ amqpRx' \in Seq(Delivery) /\ amqpRx' # <<>>
      /\ amqpRx # <<>> => Head(amqpRx') = Head(amqpRx)
      /\ Len(amqpRx) \in Nat /\ Len(amqpRx') = Len(amqpRx) + 1
      /\ \A i \in 1..Len(amqpRx) : amqpRx'[i] = amqpRx[i]
      /\ amqpRx'[Len(amqpRx) + 1] = e
  <2>1. amqpRx \in Seq(Delivery) /\ amqpRx' = Append(amqpRx, e)
    BY <1>1 DEF TypeOK
  <2>2. /\ amqpRx' \in Seq(Delivery)
        /\ Len(amqpRx) \in Nat /\ Len(amqpRx') = Len(amqpRx) + 1
        /\ \A i \in 1..Len(amqpRx) : amqpRx'[i] = amqpRx[i]
        /\ amqpRx'[Len(amqpRx) + 1] = e
    BY <2>1
  <2>3. amqpRx' # <<>>
    BY <2>2
  <2>4. amqpRx # <<>> => Head(amqpRx') = Head(amqpRx)
    <3> SUFFICES ASSUME amqpRx # <<>> PROVE Head(amqpRx') = Head(amqpRx)
      OBVIOUS
    <3>1. Head(amqpRx) = amqpRx[1] /\ 1 \in 1..Len(amqpRx)
      BY <2>1, HeadsAndTails
    <3>2. Head(amqpRx') = amqpRx'[1]
      BY <2>2, <2>3, HeadsAndTails
    <3> QED
      BY <2>2, <3>1, <3>2
  <2> QED
    BY <2>1, <2>2, <2>3, <2>4
<1>4. delivered' \in 0..MaxEvents
  BY <1>1, EventNumbers
<1>5. TypeOK'
  BY <1>1, <1>2, <1>3, <1>4 DEF TypeOK, DataTypeOK, frameworkVars, dataVars, amqpVars,
     cleanupVars
<1>6. sent \in Nat /\ delivered \in Nat /\ sent + Len(amqpRx) = delivered
  BY HandlerAssumption DEF TypeOK, InTurn
<1>11. delivered' = delivered + 1 /\ e.seq = delivered + 1
  BY <1>1
<1>7. sent + Len(amqpRx') = delivered'
  BY <1>11, <1>3, <1>6
<1>8. \A i \in 1..Len(amqpRx') : amqpRx'[i].seq = sent + i
  <2>1. \A i \in 1..Len(amqpRx') : i \in 1..Len(amqpRx) \/ i = Len(amqpRx) + 1
    BY <1>3
  <2>2. e.seq = sent + (Len(amqpRx) + 1)
    BY <1>11, <1>3, <1>6
  <2> QED
    BY <1>3, <2>1, <2>2 DEF InTurn
<1>9. loop # "done"
  BY <1>1 DEF InTurn
<1>10. InTurn'
  BY <1>1, <1>3, <1>7, <1>8, <1>9 DEF InTurn, Stopping, frameworkVars, amqpVars
<1> QED
  BY <1>5, <1>10

LEMMA EventsInTurn == Spec => [](TypeOK /\ InTurn)
<1>1. TypeOK /\ InTurn /\ [Next]_vars => TypeOK' /\ InTurn'
  <2> SUFFICES ASSUME TypeOK, InTurn, [Next]_vars PROVE TypeOK' /\ InTurn'
    OBVIOUS
  <2>1. CASE UNCHANGED vars
    <3>1. TypeOK'
      BY <2>1 DEF vars, TypeOK, DataTypeOK, frameworkVars, dataVars, amqpVars, loopVars,
         cleanupVars,
                  worldVars
    <3>2. InTurn'
      BY <2>1 DEF vars, InTurn, Stopping, frameworkVars, amqpVars, loopVars, worldVars
    <3> QED
      BY <3>1, <3>2
  <2> QED
    BY <2>1, LoopSteps, DispatchSteps, HandlerSteps, CleanupSteps, OtherTasksSteps,
       MainSteps,
       TimeSteps, DeliverySteps DEF Next, World
<1> QED
  BY <1>1, TypesAtFirst, PTL DEF Spec

(* Types of the process, with every task's handlers still to run and all    *)
(* counters within their bounds, whatever order the tasks work in.          *)
THEOREM TypeCorrect == Spec => []TypeOK
BY EventsInTurn, PTL

(* No handler runs on an event before the cache has it, and no event        *)
(* overtakes another on its way to the dispatcher.                          *)
THEOREM CachedFirst == Spec => []CacheBeforeHandlers
<1>1. TypeOK /\ InTurn => CacheBeforeHandlers
  <2> SUFFICES ASSUME TypeOK, InTurn, NEW i \in DOMAIN amqpRx
               PROVE  /\ \A t \in tasks : t.event.seq < amqpRx[i].seq
                      /\ \A j \in DOMAIN queue : queue[j].seq < amqpRx[i].seq
    BY DEF CacheBeforeHandlers
  <2>1. i \in Nat \ {0} /\ sent \in Nat /\ amqpRx[i].seq = sent + i
    <3>1. amqpRx \in Seq(Delivery) /\ sent \in Nat
      BY HandlerAssumption DEF TypeOK
    <3>2. i \in 1..Len(amqpRx)
      BY <3>1
    <3>3. i \in Nat \ {0}
      BY <3>1, <3>2
    <3> QED
      BY <3>1, <3>2, <3>3 DEF InTurn
  <2>2. \A t \in tasks : t.event.seq \in Nat /\ t.event.seq <= sent
    BY EventNumbers, TaskFields DEF TypeOK, InTurn
  <2>3. \A j \in DOMAIN queue : queue[j].seq \in Nat /\ queue[j].seq <= sent
    BY EventNumbers DEF TypeOK, InTurn
  <2> QED
    BY <2>1, <2>2, <2>3
<1> QED
  BY <1>1, EventsInTurn, PTL

(* The framework is shut down when all the broker has forgotten was given   *)
(* to it, but for what could not be read: main waits for the loop, and the  *)
(* loop for what is received.                                               *)
THEOREM NothingLeftBehind == Spec => []ReceivedIsSent
<1>1. TypeOK /\ InTurn => ReceivedIsSent
  BY HandlerAssumption DEF TypeOK, InTurn, ReceivedIsSent
<1> QED
  BY <1>1, EventsInTurn, PTL

-----------------------------------------------------------------------------
(* Who works on a guild.  As long as all is orderly, one task at most does. *)

TaskSteps ==
    \A t \in tasks : \/ t.todo = Registry[t.event.type]
                     \/ t.event.type \in Mentions /\ t.todo = <<"emoji:save_emoji_use">>

\* Nothing is queued twice, or after it was taken.
InOrder ==
    /\ \A i, j \in 1..Len(queue) : i < j => queue[i].seq < queue[j].seq
    /\ \A t \in tasks, j \in 1..Len(queue) : t.event.seq < queue[j].seq

OneAtATime ==
    orderly => /\ \A t, u \in tasks : t.event.guild = u.event.guild => t = u
               /\ \A g \in doomed : row[g] = "expired" /\ \A t \in tasks : t.event.guild # g

StopsLast ==
    /\ dispatcher # "running" => frameworkShutdown
    /\ frameworkShutdown => main \notin {"starting", "framework", "serving", "amqp", "loop"}

Apart == TaskSteps /\ InOrder /\ OneAtATime /\ StopsLast

\* What is left of a task that looks at the use of an emoji.
Uses(todo) ==
    \/ todo = <<"emoji:handle_message">> \/ todo = <<"emoji:message_update">>
    \/ todo = <<"emoji:reaction_add">> \/ todo = <<"emoji:save_emoji_use">>

LEMMA TaskCases ==
    ASSUME TypeOK, TaskSteps, NEW t \in tasks
    PROVE  \/ t.event.type = "GuildCreate" /\ t.todo = <<"core:guild_create">>
           \/ t.event.type = "GuildDelete" /\ t.todo = <<"core:guild_delete">>
           \/ t.event.type = "GuildEmojisUpdate" /\ t.todo = <<"emoji:guild_emojis_update">>
           \/ t.event.type \in Mentions /\ Uses(t.todo)
<1>1. t.event.type \in EventTypes
  BY TaskFields DEF TypeOK, Event
<1> QED
  BY <1>1, Registered DEF TaskSteps, EventTypes, Mentions, Uses

\* A task has one handler, so it ends with it or saves a use.
LEMMA TaskEnds ==
    ASSUME TypeOK, TaskSteps, NEW t \in tasks, FinishHandler(t)
    PROVE  tasks' = tasks \ {t}
<1> DEFINE rest == [t EXCEPT !.todo = Tail(@)]
<1>1. t.todo # <<>> /\ Len(t.todo) = 1
  <2>1. \E s : t.todo = <<s>>
    BY TaskCases DEF Uses
  <2>2. \A s : <<s>> # <<>> /\ Len(<<s>>) = 1
    OBVIOUS
  <2> QED
    BY <2>1, <2>2
<1>2. t \in Task /\ Tail(t.todo) = <<>>
  <2>1. t \in Task /\ t.todo \in Seq(Steps)
    BY TaskFields DEF TypeOK
  <2>2. Tail(t.todo) \in Seq(Steps) /\ Len(Tail(t.todo)) = 0
    BY <2>1, <1>1, HeadsAndTails
  <2>3. Tail(t.todo) = <<>>
    BY <2>2, EmptySeq
  <2> QED
    BY <2>1, <2>3
<1>3. rest.todo = <<>>
  BY <1>2, TaskFields
<1> QED
  BY <1>3 DEF FinishHandler

LEMMA TaskSaves ==
    ASSUME TypeOK, TaskSteps, NEW t \in tasks, ContinueWith(t, "emoji:save_emoji_use"),
           WillSave(Head(t.todo), t.event)
    PROVE  \E u : /\ u.event = t.event /\ u.todo = <<"emoji:save_emoji_use">>
                  /\ t.event.type \in Mentions /\ WillSave(Head(t.todo), t.event)
                  /\ tasks' = (tasks \ {t}) \union {u}
<1>1. t.event.type \in Mentions /\ \E s : t.todo = <<s>>
  <2>1. Head(t.todo) \in {"emoji:handle_message", "emoji:message_update", "emoji:reaction_add"}
    BY DEF WillSave
  <2> QED
    BY <2>1, TaskCases DEF Uses
<1>2. t = [event |-> t.event, todo |-> t.todo]
  BY TaskFields DEF TypeOK
<1> DEFINE u == [event |-> t.event, todo |-> <<"emoji:save_emoji_use">>]
<1>3. [t.todo EXCEPT ![1] = "emoji:save_emoji_use"] = <<"emoji:save_emoji_use">>
  <2>1. PICK s : t.todo = <<s>>
    BY <1>1
  <2> QED
    BY <2>1
<1>4. [t EXCEPT !.todo[1] = "emoji:save_emoji_use"] = u
  BY <1>2, <1>3
<1> QED
  BY <1>1, <1>4 DEF ContinueWith

\* What a handler does to the tasks and to the row of a guild.
LEMMA HandlerEffects ==
    ASSUME TypeOK, TaskSteps, HandlerRuns
    PROVE  \E t \in tasks :
              /\ RunHandler(Head(t.todo), t.event)
              /\ \/ tasks' = tasks \ {t}
                 \/ \E u : /\ u.event = t.event /\ u.todo = <<"emoji:save_emoji_use">>
                           /\ t.event.type \in Mentions /\ WillSave(Head(t.todo), t.event)
                           /\ tasks' = (tasks \ {t}) \union {u}
BY TaskEnds, TaskSaves DEF HandlerRuns

LEMMA RowEffects ==
    ASSUME TypeOK, TaskSteps, NEW t \in tasks, RunHandler(Head(t.todo), t.event)
    PROVE  /\ t.event.type = "GuildCreate" => row' = [row EXCEPT ![t.event.guild] = "present"]
           /\ t.event.type = "GuildDelete" /\ ~t.event.unavailable =>
                 row' = [row EXCEPT ![t.event.guild] = IF @ = "absent" THEN @ ELSE "marked"]
           /\ t.event.type = "GuildDelete" /\ t.event.unavailable => row' = row
           /\ t.event.type \notin {"GuildCreate", "GuildDelete"} => row' = row
<1> USE DEF RunHandler, GuildCreated, GuildDeleted, EmojisListed, EmojiUsed, Touch, LeaveGuild
<1>1. CASE t.event.type = "GuildCreate" /\ t.todo = <<"core:guild_create">>
  BY <1>1
<1>2. CASE t.event.type = "GuildDelete" /\ t.todo = <<"core:guild_delete">>
  BY <1>2
<1>3. CASE t.event.type = "GuildEmojisUpdate" /\ t.todo = <<"emoji:guild_emojis_update">>
  BY <1>3
<1>4. CASE t.event.type \in Mentions /\ Uses(t.todo)
  <2>1. t.event.type \notin {"GuildCreate", "GuildDelete"}
    BY <1>4 DEF Mentions
  <2>2. Head(t.todo) \in {"emoji:handle_message", "emoji:message_update",
                          "emoji:reaction_add", "emoji:save_emoji_use"}
    BY <1>4 DEF Uses
  <2>3. row' = row
    BY <2>2
  <2> QED
    BY <2>1, <2>3
<1> QED
  BY <1>1, <1>2, <1>3, <1>4, TaskCases

LEMMA ApartAtFirst == Init => Apart
BY DEF Init, FrameworkInit, Apart, TaskSteps, InOrder, OneAtATime, StopsLast

\* What the loop handles.
LEMMA HandledFirst ==
    ASSUME TypeOK, InTurn, HandleMessage
    PROVE  /\ amqpRx # <<>> /\ Head(amqpRx) \in Event
           /\ Head(amqpRx).seq = sent + 1 /\ amqpRx' = Tail(amqpRx)
<1>1. /\ amqpRx # <<>> /\ Readable(Head(amqpRx)) /\ amqpRx' = Tail(amqpRx)
      /\ sent' = Head(amqpRx).seq /\ delivered' = delivered
  BY DEF HandleMessage, InTurn, worldVars
<1> QED
  BY <1>1, HeadGone, ReadableEvents

LEMMA SendingApart ==
    ASSUME TypeOK, InTurn, Apart, HandleMessage
    PROVE  Apart'
<1>1. /\ amqpRx # <<>> /\ queue \in Seq(Event) /\ loop = "caching"
      /\ queue' = Append(queue, Head(amqpRx))
      /\ UNCHANGED <<tasks, row, doomed, orderly, dispatcher, frameworkShutdown, main>>
  BY DEF HandleMessage, TypeOK, InTurn, cleanupVars
<1>2. PICK e \in Event : e = Head(amqpRx) /\ e.seq = sent + 1
  BY HandledFirst
<1>3. /\ sent \in Nat
      /\ \A j \in 1..Len(queue) : queue[j].seq \in Nat /\ queue[j].seq < e.seq
      /\ \A t \in tasks : t.event.seq \in Nat /\ t.event.seq < e.seq
  <2>1. sent \in Nat /\ e.seq = sent + 1
    BY <1>2, HandlerAssumption DEF TypeOK
  <2>2. \A j \in 1..Len(queue) : queue[j].seq \in Nat /\ queue[j].seq <= sent
    BY <1>1, EventNumbers DEF InTurn
  <2>3. \A t \in tasks : t.event.seq \in Nat /\ t.event.seq <= sent
    BY EventNumbers, TaskFields DEF TypeOK, InTurn
  <2> QED
    BY <2>1, <2>2, <2>3
<1>4. /\ Len(queue) \in Nat /\ Len(queue') = Len(queue) + 1
      /\ \A j \in 1..Len(queue) : queue'[j] = queue[j]
      /\ queue'[Len(queue) + 1] = e
  BY <1>1, <1>2
<1>5. \A j \in 1..Len(queue') : j \in 1..Len(queue) \/ j = Len(queue) + 1
  BY <1>4
<1>6. \A i, j \in 1..Len(queue') : i < j => queue'[i].seq < queue'[j].seq
  <2> SUFFICES ASSUME NEW i \in 1..Len(queue'), NEW j \in 1..Len(queue'), i < j
               PROVE  queue'[i].seq < queue'[j].seq
    OBVIOUS
  <2>1. i \in 1..Len(queue)
    BY <1>4
  <2>2. CASE j \in 1..Len(queue)
    BY <2>1, <2>2, <1>4 DEF Apart, InOrder
  <2>3. CASE j = Len(queue) + 1
    BY <2>1, <2>3, <1>3, <1>4
  <2> QED
    BY <1>5, <2>2, <2>3
<1>7. \A t \in tasks, j \in 1..Len(queue') : t.event.seq < queue'[j].seq
  BY <1>3, <1>4, <1>5 DEF Apart, InOrder
<1>8. InOrder'
  BY <1>1, <1>6, <1>7 DEF InOrder
<1>9. TaskSteps' /\ OneAtATime' /\ StopsLast'
  BY <1>1 DEF Apart, TaskSteps, OneAtATime, StopsLast
<1> QED
  BY <1>8, <1>9 DEF Apart

LEMMA TakingApart ==
    ASSUME TypeOK, InTurn, Apart, Dispatches
    PROVE  /\ Apart'
           /\ Take => \E t : /\ t.event = Head(queue) /\ tasks' = tasks \union {t} /\ t \notin tasks
                             /\ t.todo = Registry[t.event.type]
                             /\ orderly' => \A u \in tasks : u.event.guild # t.event.guild
<1>1. /\ UNCHANGED <<dataVars, main, cleanupVars, frameworkShutdown>>
      /\ orderly' = (orderly /\ \A t \in tasks' \ tasks : ~Busy(t.event.guild))
  BY DEF Dispatches, DispatchStep
<1>2. CASE Take
  <2> DEFINE task == [event |-> Head(queue), todo |-> Registry[Head(queue).type]]
  <2>1. /\ queue \in Seq(Event) /\ queue # <<>> /\ queue' = Tail(queue)
        /\ tasks' = tasks \union {task} /\ dispatcher' = dispatcher
    BY <1>2 DEF Take, TypeOK
  <2>2. /\ Len(queue) \in Nat \ {0} /\ Len(queue') = Len(queue) - 1
        /\ queue[1] = Head(queue) /\ \A j \in 1..Len(queue') : queue'[j] = queue[j + 1]
    BY <2>1, HeadsAndTails
  <2>3. /\ 1 \in 1..Len(queue)
        /\ \A j \in 1..Len(queue') : j \in Nat /\ j + 1 \in 1..Len(queue) /\ 1 < j + 1
    BY <2>2
  <2>4. task.event = queue[1] /\ task.todo = Registry[task.event.type]
    BY <2>2
  <2> HIDE DEF task
  <2>5. task \notin tasks
    <3>1. queue[1].seq \in Nat
      BY <2>1, <2>3, EventNumbers
    <3>2. \A t \in tasks : t.event.seq < queue[1].seq
      BY <2>3 DEF Apart, InOrder
    <3> QED
      BY <2>4, <3>1, <3>2
  <2>6. InOrder'
    <3>1. \A i, j \in 1..Len(queue') : i < j => queue'[i].seq < queue'[j].seq
      <4> SUFFICES ASSUME NEW i \in 1..Len(queue'), NEW j \in 1..Len(queue'), i < j
                   PROVE  queue[i + 1].seq < queue[j + 1].seq
        BY <2>2
      <4>1. i + 1 \in 1..Len(queue) /\ j + 1 \in 1..Len(queue) /\ i + 1 < j + 1
        BY <2>3
      <4> QED
        BY <4>1 DEF Apart, InOrder
    <3>2. \A t \in tasks', j \in 1..Len(queue') : t.event.seq < queue'[j].seq
      BY <2>1, <2>2, <2>3, <2>4 DEF Apart, InOrder
    <3> QED
      BY <3>1, <3>2 DEF InOrder
  <2>7. orderly' => orderly /\ ~Busy(task.event.guild)
    BY <1>1, <2>1, <2>5
  <2>8. OneAtATime'
    <3> SUFFICES ASSUME orderly'
                 PROVE  /\ \A t, u \in tasks' : t.event.guild = u.event.guild => t = u
                        /\ \A g \in doomed : row[g] = "expired" /\ \A t \in tasks' : t.event.guild # g
      BY <1>1 DEF OneAtATime, dataVars, cleanupVars
    <3>1. /\ orderly /\ \A t \in tasks : t.event.guild # task.event.guild
          /\ task.event.guild \notin doomed
      BY <2>7 DEF Busy
    <3> QED
      BY <2>1, <3>1 DEF Apart, OneAtATime
  <2>9. TaskSteps' /\ StopsLast'
    BY <1>1, <2>1, <2>4 DEF Apart, TaskSteps, StopsLast
  <2>10. orderly' => \A u \in tasks : u.event.guild # task.event.guild
    BY <2>7 DEF Busy
  <2> QED
    BY <2>1, <2>2, <2>4, <2>5, <2>6, <2>8, <2>9, <2>10 DEF Apart
<1>3. CASE ~Take
  <2>1. /\ UNCHANGED tasks /\ queue' \in {queue, <<>>}
        /\ dispatcher' # "running" => dispatcher # "running" \/ frameworkShutdown
    BY <1>3 DEF Dispatches, DispatchStep, StopsTaking, Drained, DrainTimesOut
  <2>2. orderly' = orderly
    BY <1>1, <2>1 DEF TypeOK
  <2>3. InOrder'
    BY <2>1 DEF Apart, InOrder
  <2> QED
    BY <1>1, <1>3, <2>1, <2>2, <2>3
    DEF Apart, TaskSteps, OneAtATime, StopsLast, dataVars, cleanupVars
<1> QED
  BY <1>2, <1>3

\* A handler's task ends or saves a use; the row is that of its guild.
LEMMA HandlingApart ==
    ASSUME TypeOK, InTurn, Apart, Handlers
    PROVE  /\ Apart'
           /\ \A g \in Guilds : row'[g] = "absent" => row[g] = "absent"
<1>1. /\ UNCHANGED <<queue, dispatcher, frameworkShutdown, main, cleanupVars, orderly>>
      /\ queue \in Seq(Event)
  BY DEF Handlers, HandlerRuns, HandlerFails, TypeOK
<1>2. TypeOK /\ TaskSteps /\ InOrder /\ OneAtATime
  BY DEF Apart
<1>3. PICK t \in tasks :
          /\ \/ RunHandler(Head(t.todo), t.event)
             \/ row' = row
          /\ \/ tasks' = tasks \ {t}
             \/ \E u : /\ u.event = t.event /\ u.todo = <<"emoji:save_emoji_use">>
                       /\ t.event.type \in Mentions
                       /\ tasks' = (tasks \ {t}) \union {u}
  <2>1. CASE HandlerRuns
    BY <2>1, <1>2, HandlerEffects
  <2>2. CASE HandlerFails
    BY <2>2, <1>2, TaskEnds DEF HandlerFails, dataVars
  <2> QED
    BY <2>1, <2>2 DEF Handlers
<1>4. \A u \in tasks' : \/ u \in tasks /\ u # t
                        \/ /\ u.event = t.event /\ u.todo = <<"emoji:save_emoji_use">>
                           /\ u.event.type \in Mentions
                           /\ tasks' = (tasks \ {t}) \union {u}
  BY <1>3
<1>5. TaskSteps'
  BY <1>2, <1>4 DEF TaskSteps
<1>6. InOrder'
  BY <1>1, <1>2, <1>4 DEF InOrder
<1>7. \A g \in Guilds : /\ g # t.event.guild => row'[g] = row[g]
                        /\ row'[g] = "absent" => row[g] = "absent"
  <2>1. row \in [Guilds -> Rows] /\ t.event.guild \in Guilds /\ t.event.type \in EventTypes
        /\ t.event.unavailable \in BOOLEAN
    BY TaskFields DEF TypeOK, DataTypeOK, Event
  <2>2. \/ row' = row
        \/ row' = [row EXCEPT ![t.event.guild] = "present"]
        \/ row' = [row EXCEPT ![t.event.guild] = IF @ = "absent" THEN @ ELSE "marked"]
    BY <1>2, <1>3, <2>1, RowEffects
  <2> QED
    BY <2>1, <2>2
<1>8. OneAtATime'
  <2> SUFFICES ASSUME orderly'
               PROVE  /\ \A u, v \in tasks' : u.event.guild = v.event.guild => u = v
                      /\ \A g \in doomed : row'[g] = "expired" /\ \A u \in tasks' : u.event.guild # g
    BY <1>1 DEF OneAtATime, cleanupVars
  <2>1. /\ \A u, v \in tasks : u.event.guild = v.event.guild => u = v
        /\ \A g \in doomed : row[g] = "expired" /\ \A u \in tasks : u.event.guild # g
    BY <1>1, <1>2 DEF OneAtATime
  <2>2. doomed \subseteq Guilds
    BY DEF TypeOK
  <2> QED
    BY <1>3, <1>4, <1>7, <2>1, <2>2
<1> QED
  BY <1>1, <1>5, <1>6, <1>7, <1>8 DEF Apart, StopsLast

LEMMA CleaningApart ==
    ASSUME TypeOK, InTurn, Apart, Cleanup
    PROVE  /\ Apart'
           /\ orderly' => \A g \in Guilds :
                 row'[g] = row[g] \/ (row[g] = "expired" /\ row'[g] = "absent" /\ g \in doomed)
<1>1. UNCHANGED <<queue, tasks, dispatcher, frameworkShutdown, main>>
  BY DEF Cleanup, CleanupBegins, CleanupDeletes, CleanupFails, frameworkVars
<1>2. doomed \subseteq Guilds /\ row \in [Guilds -> Rows] /\ OneAtATime
  BY DEF TypeOK, DataTypeOK, Apart
<1>3. /\ OneAtATime'
      /\ orderly' => \A g \in Guilds :
            row'[g] = row[g] \/ (row[g] = "expired" /\ row'[g] = "absent" /\ g \in doomed)
  <2>1. CASE CleanupBegins
    BY <1>1, <1>2, <2>1 DEF CleanupBegins, EligibleForDeletion, dataVars, OneAtATime
  <2>2. CASE CleanupDeletes
    <3>1. PICK g \in doomed : row' = [row EXCEPT ![g] = "absent"] /\ doomed' = doomed \ {g}
      BY <2>2 DEF CleanupDeletes, DeleteGuild
    <3>2. orderly' = orderly
      BY <2>2 DEF CleanupDeletes
    <3> QED
      BY <1>1, <1>2, <3>1, <3>2 DEF OneAtATime
  <2>3. CASE CleanupFails
    BY <1>1, <1>2, <2>3 DEF CleanupFails, dataVars, OneAtATime
  <2> QED
    BY <2>1, <2>2, <2>3 DEF Cleanup
<1> QED
  BY <1>1, <1>3 DEF Apart, TaskSteps, InOrder, StopsLast

\* What the other actions leave to the tasks.
LEMMA OthersApart ==
    ASSUME TypeOK, InTurn, Apart,
           \/ LoopReceives \/ LoopSkips \/ LoopEnds \/ Scheduling \/ Serving \/ AmqpStep
           \/ Main \/ Signal \/ World \/ UNCHANGED vars
    PROVE  /\ Apart'
           /\ UNCHANGED <<queue, tasks, dispatcher, cleanupVars, orderly, lastSeen>>
           /\ failures' = failures \/ failures' = failures + 1
           /\ \A g \in Guilds : row'[g] = row[g] \/ (row[g] = "marked" /\ row'[g] = "expired")
<1>1. /\ UNCHANGED <<queue, tasks, dispatcher, cleanupVars, orderly, lastSeen>>
      /\ failures' = failures \/ failures' = failures + 1
      /\ row' = row \/ \E g \in Guilds : row[g] = "marked" /\ row' = [row EXCEPT ![g] = "expired"]
  <2>1. CASE LoopReceives \/ LoopSkips \/ LoopEnds
    BY <2>1 DEF LoopReceives, LoopSkips, LoopEnds, frameworkVars, dataVars, historyVars
  <2>2. CASE Scheduling \/ Serving
    BY <2>2 DEF Scheduling, Serving, SchedulerStep, ServiceStep, dispatchVars, dataVars,
       historyVars
  <2>3. CASE AmqpStep
    BY <2>3, AmqpEnds DEF frameworkVars, othersVars, dataVars, historyVars
  <2>4. CASE Main
    BY <2>4 DEF Main, MainBuilds, MainServes, MainPanics, MainStopsAmqp, MainJoinsAmqp,
       Fails,
       MainStopsFramework, MainJoins, FrameworkStart, FrameworkShutdown, frameworkVars,
       dispatchVars, othersVars, dataVars, historyVars
  <2>5. CASE Signal
    BY <2>5 DEF Signal, frameworkVars, othersVars, dataVars, historyVars
  <2>6. CASE World
    BY <2>6 DEF World, TimePasses, WeekPasses, Delivers, frameworkVars, dataVars,
       historyVars
  <2>7. CASE UNCHANGED vars
    BY <2>7 DEF vars, frameworkVars, dataVars, historyVars
  <2> QED
    BY <2>1, <2>2, <2>3, <2>4, <2>5, <2>6, <2>7
<1>2. StopsLast'
  <2>1. CASE Main
    <3>1. CASE MainStopsFramework
      BY <3>1, <1>1 DEF MainStopsFramework, FrameworkShutdown, StopsLast
    <3>2. CASE MainBuilds \/ MainServes \/ MainPanics \/ MainStopsAmqp \/ MainJoinsAmqp
               \/ MainJoins
      BY <3>2, <1>1 DEF MainBuilds, MainServes, MainPanics, MainStopsAmqp, MainJoinsAmqp,
         MainJoins, FrameworkStart, frameworkVars, Apart, StopsLast
    <3> QED
      BY <2>1, <3>1, <3>2 DEF Main
  <2>2. CASE ~Main
    <3>1. UNCHANGED <<dispatcher, frameworkShutdown, main>>
      BY <2>2, AmqpEnds DEF LoopReceives, LoopSkips, LoopEnds, Scheduling, Serving,
         SchedulerStep,
         ServiceStep, Signal, World, TimePasses, Delivers, vars, frameworkVars, dispatchVars
    <3> QED
      BY <3>1 DEF Apart, StopsLast
  <2> QED
    BY <2>1, <2>2
<1>3. row \in [Guilds -> Rows] /\ doomed \subseteq Guilds
  BY DEF TypeOK, DataTypeOK
<1>4. \A g \in Guilds : row'[g] = row[g] \/ (row[g] = "marked" /\ row'[g] = "expired")
  BY <1>1, <1>3
<1>5. OneAtATime'
  BY <1>1, <1>3, <1>4 DEF Apart, OneAtATime, cleanupVars
<1> QED
  BY <1>1, <1>2, <1>4, <1>5 DEF Apart, TaskSteps, InOrder

LEMMA StaysApart == Spec => [](TypeOK /\ InTurn /\ Apart)
<1>1. TypeOK /\ InTurn /\ Apart /\ [Next]_vars => Apart'
  BY SendingApart, TakingApart, HandlingApart, CleaningApart, OthersApart DEF Next, Loop
<1> QED
  BY <1>1, EventsInTurn, ApartAtFirst, PTL DEF Spec

\* As long as no two tasks worked on one guild at the same time, the data of a
\* guild goes only with a row that says the bot left it more than a week ago.
GoneOnlyWhenExpired ==
    [][orderly' => \A g \in Guilds :
          (row[g] # "absent" /\ row'[g] = "absent") => row[g] = "expired"]_vars

(* The cleanup deletes from a list it read before.  No task is at work on a *)
(* guild of the list, as long as all is orderly, so its row is still what   *)
(* was read.  A GuildCreate handled between the list and its deletion is    *)
(* the exception: it meets the cleanup, and a row goes that is not marked.  *)
THEOREM GoneAfterAWeek == Spec => GoneOnlyWhenExpired
<1>1. /\ TypeOK /\ InTurn /\ Apart
      /\ [Next]_vars
      => [orderly' => \A g \in Guilds :
            (row[g] # "absent" /\ row'[g] = "absent") => row[g] = "expired"]_vars
  <2> SUFFICES ASSUME TypeOK, InTurn, Apart, [Next]_vars, orderly', NEW g \in Guilds,
                      row[g] # "absent", row'[g] = "absent"
               PROVE  row[g] = "expired"
    OBVIOUS
  <2>1. CASE HandleMessage \/ Dispatches
    BY <2>1 DEF HandleMessage, Dispatches, dataVars
  <2>2. CASE Handlers
    BY <2>2, HandlingApart
  <2>3. CASE Cleanup
    BY <2>3, CleaningApart
  <2>4. CASE ~(HandleMessage \/ Dispatches \/ Handlers \/ Cleanup)
    BY <2>4, OthersApart DEF Next, Loop
  <2> QED
    BY <2>1, <2>2, <2>3, <2>4
<1> QED
  BY <1>1, StaysApart, PTL DEF Spec, GoneOnlyWhenExpired

-----------------------------------------------------------------------------
(* What the row of a guild follows: the last event that told whether the    *)
(* bot is in it, which waits, or is at work, or has left its word there.    *)

Says(e) == IF e.type = "GuildCreate" THEN "in"
           ELSE IF e.type = "GuildDelete" /\ ~e.unavailable THEN "out" ELSE "none"

Tells(e, g) == e.guild = g /\ Says(e) # "none"

NoneQueued(g) == \A j \in 1..Len(queue) : ~Tells(queue[j], g)

Waits(g) ==
    \E j \in 1..Len(queue) :
        /\ Tells(queue[j], g) /\ Says(queue[j]) = lastSeen[g]
        /\ \A k \in 1..Len(queue) : Tells(queue[k], g) => k <= j

AtWork(g) ==
    /\ NoneQueued(g)
    /\ \E t \in tasks : Tells(t.event, g) /\ Says(t.event) = lastSeen[g]

Written(g) ==
    /\ NoneQueued(g)
    /\ \A t \in tasks : ~Tells(t.event, g)
    /\ lastSeen[g] = "in"  => row[g] = "present"
    /\ lastSeen[g] = "out" => row[g] # "present"

LastWord ==
    /\ lastSeen \in [Guilds -> {"none", "in", "out"}]
    /\ (orderly /\ failures = 0 /\ dispatcher = "running") =>
          \A g \in Guilds : lastSeen[g] # "none" => Waits(g) \/ AtWork(g) \/ Written(g)

LEMMA SendingTells ==
    ASSUME TypeOK, InTurn, LastWord, HandleMessage
    PROVE  LastWord'
<1>1. /\ queue \in Seq(Event)
      /\ queue' = Append(queue, Head(amqpRx)) /\ Remember(Head(amqpRx))
      /\ UNCHANGED <<tasks, row, orderly, dispatcher>>
      /\ failures' = failures \/ failures' = failures + 1
  BY DEF HandleMessage, TypeOK, InTurn, Fails
<1>2. PICK e \in Event : e = Head(amqpRx)
  BY HandledFirst
<1>3. /\ e.guild \in Guilds /\ e.type \in EventTypes /\ Says(e) \in {"none", "in", "out"}
      /\ lastSeen \in [Guilds -> {"none", "in", "out"}] /\ failures \in Nat
  BY HandlerAssumption DEF Event, Says, LastWord, TypeOK
<1>4. lastSeen' = IF Says(e) # "none" THEN [lastSeen EXCEPT ![e.guild] = Says(e)] ELSE lastSeen
  <2>1. CASE e.type = "GuildCreate"
    BY <1>1, <1>2, <2>1 DEF Remember, Says
  <2>2. CASE e.type = "GuildDelete" /\ ~e.unavailable
    BY <1>1, <1>2, <2>2 DEF Remember, Says
  <2>3. CASE e.type # "GuildCreate" /\ ~(e.type = "GuildDelete" /\ ~e.unavailable)
    BY <1>1, <1>2, <2>3 DEF Remember, Says
  <2> QED
    BY <2>1, <2>2, <2>3
<1>5. /\ Len(queue) \in Nat /\ Len(queue') = Len(queue) + 1
      /\ \A j \in 1..Len(queue) : j \in 1..Len(queue') /\ queue'[j] = queue[j]
      /\ queue'[Len(queue) + 1] = e /\ Len(queue) + 1 \in 1..Len(queue')
      /\ \A j \in 1..Len(queue') : j \in 1..Len(queue) \/ j = Len(queue) + 1
      /\ \A j \in 1..Len(queue') : j <= Len(queue) + 1
  BY <1>1, <1>2
<1>6. ASSUME orderly', failures' = 0, dispatcher' = "running",
             NEW g \in Guilds, lastSeen'[g] # "none"
      PROVE  Waits(g)' \/ AtWork(g)' \/ Written(g)'
  <2>1. CASE Tells(e, g)
    <3>1. lastSeen'[g] = Says(e)
      BY <1>3, <1>4, <2>1 DEF Tells
    <3> QED
      BY <1>5, <2>1, <3>1 DEF Waits
  <2>2. CASE ~Tells(e, g)
    <3>1. lastSeen'[g] = lastSeen[g]
      BY <1>3, <1>4, <2>2 DEF Tells
    <3>2. Waits(g) \/ AtWork(g) \/ Written(g)
      BY <1>1, <1>3, <1>6, <3>1 DEF LastWord
    <3>3. NoneQueued(g) => NoneQueued(g)'
      BY <1>5, <2>2 DEF NoneQueued
    <3>4. Waits(g) => Waits(g)'
      BY <1>5, <2>2, <3>1 DEF Waits
    <3> QED
      BY <1>1, <3>1, <3>2, <3>3, <3>4 DEF AtWork, Written
  <2> QED
    BY <2>1, <2>2
<1> QED
  BY <1>3, <1>4, <1>6 DEF LastWord

LEMMA TakingTells ==
    ASSUME TypeOK, InTurn, Apart, LastWord, Dispatches
    PROVE  LastWord'
<1>1. UNCHANGED <<row, lastSeen, failures>> /\ (orderly' => orderly)
  BY DEF Dispatches, DispatchStep, dataVars, historyVars
<1>2. CASE Take
  <2>1. PICK t : t.event = Head(queue) /\ tasks' = tasks \union {t}
    BY <1>2, TakingApart
  <2>2. queue \in Seq(Event) /\ queue # <<>> /\ queue' = Tail(queue) /\ dispatcher' = dispatcher
    BY <1>2 DEF Take, TypeOK
  <2>3. /\ Len(queue) \in Nat \ {0} /\ Len(queue') = Len(queue) - 1
        /\ queue[1] = Head(queue) /\ \A j \in 1..Len(queue') : queue'[j] = queue[j + 1]
    BY <2>2, HeadsAndTails
  <2>4. /\ 1 \in 1..Len(queue) /\ t.event = queue[1]
        /\ \A j \in 1..Len(queue') : j \in Nat \ {0} /\ j + 1 \in 1..Len(queue)
        /\ \A j \in 1..Len(queue) : j # 1 => j - 1 \in 1..Len(queue') /\ queue'[j - 1] = queue[j]
    BY <2>1, <2>3
  <2> SUFFICES ASSUME orderly', failures' = 0, dispatcher' = "running",
                      NEW g \in Guilds, lastSeen'[g] # "none"
               PROVE  Waits(g)' \/ AtWork(g)' \/ Written(g)'
    BY <1>1 DEF LastWord
  <2>5. Waits(g) \/ AtWork(g) \/ Written(g)
    BY <1>1, <2>2 DEF LastWord
  <2>6. NoneQueued(g) => NoneQueued(g)' /\ ~Tells(t.event, g)
    BY <2>3, <2>4 DEF NoneQueued
  <2>7. CASE Waits(g)
    <3>1. PICK j \in 1..Len(queue) :
              /\ Tells(queue[j], g) /\ Says(queue[j]) = lastSeen[g]
              /\ \A k \in 1..Len(queue) : Tells(queue[k], g) => k <= j
      BY <2>7 DEF Waits
    <3>2. CASE j = 1
      <4>1. NoneQueued(g)'
        <5> SUFFICES ASSUME NEW k \in 1..Len(queue'), Tells(queue'[k], g) PROVE FALSE
          BY DEF NoneQueued
        <5>1. k + 1 \in 1..Len(queue) /\ Tells(queue[k + 1], g) /\ k \in Nat \ {0}
          BY <2>3, <2>4
        <5>2. k + 1 <= 1
          BY <3>1, <3>2, <5>1
        <5> QED
          BY <5>1, <5>2
      <4> QED
        BY <1>1, <2>1, <2>4, <3>1, <3>2, <4>1 DEF AtWork
    <3>3. CASE j # 1
      <4> DEFINE i == j - 1
      <4>1. i \in 1..Len(queue') /\ queue'[i] = queue[j]
        BY <2>4, <3>3
      <4>2. ASSUME NEW k \in 1..Len(queue'), Tells(queue'[k], g) PROVE k <= i
        <5>1. k + 1 \in 1..Len(queue) /\ Tells(queue[k + 1], g) /\ k \in Nat
          BY <2>3, <2>4, <4>2
        <5>2. k + 1 <= j
          BY <3>1, <5>1
        <5> QED
          BY <5>1, <5>2
      <4> HIDE DEF i
      <4> QED
        BY <1>1, <3>1, <4>1, <4>2 DEF Waits
    <3> QED
      BY <3>2, <3>3
  <2>8. CASE AtWork(g)
    BY <1>1, <2>1, <2>6, <2>8 DEF AtWork
  <2>9. CASE Written(g)
    BY <1>1, <2>1, <2>6, <2>9 DEF Written
  <2> QED
    BY <2>5, <2>7, <2>8, <2>9
<1>3. CASE ~Take
  BY <1>1, <1>3 DEF Dispatches, DispatchStep, StopsTaking, Drained, DrainTimesOut, LastWord
<1> QED
  BY <1>2, <1>3

LEMMA HandlingTells ==
    ASSUME TypeOK, InTurn, Apart, LastWord, Handlers
    PROVE  LastWord'
<1>1. UNCHANGED <<queue, dispatcher, lastSeen, orderly>>
  BY DEF Handlers, HandlerRuns, HandlerFails, historyVars
<1>2. CASE HandlerFails
  <2>1. failures' = failures + 1 /\ failures \in Nat
    BY <1>2, HandlerAssumption DEF HandlerFails, Fails, TypeOK
  <2> QED
    BY <1>1, <2>1 DEF LastWord
<1>3. CASE HandlerRuns
  <2>1. failures' = failures
    BY <1>3 DEF HandlerRuns
  <2>2. TypeOK /\ TaskSteps /\ OneAtATime
    BY DEF Apart
  <2>3. PICK t \in tasks :
          /\ RunHandler(Head(t.todo), t.event)
          /\ \/ tasks' = tasks \ {t}
             \/ \E u : /\ u.event = t.event /\ u.todo = <<"emoji:save_emoji_use">>
                       /\ t.event.type \in Mentions
                       /\ tasks' = (tasks \ {t}) \union {u}
    BY <1>3, <2>2, HandlerEffects
  <2>4. /\ row \in [Guilds -> Rows] /\ t.event.guild \in Guilds /\ t.event.type \in EventTypes
        /\ t.event.unavailable \in BOOLEAN
    BY TaskFields DEF TypeOK, DataTypeOK, Event
  <2>5. /\ Says(t.event) = "in"   => row' = [row EXCEPT ![t.event.guild] = "present"]
        /\ Says(t.event) = "out"  =>
              row' = [row EXCEPT ![t.event.guild] = IF @ = "absent" THEN @ ELSE "marked"]
        /\ Says(t.event) = "none" => row' = row
        /\ Says(t.event) # "none" => t.event.type \notin Mentions
        /\ Says(t.event) \in {"none", "in", "out"}
    BY <2>2, <2>3, <2>4, RowEffects DEF Says, Mentions
  <2>6. /\ \A u \in tasks' :
              \/ u \in tasks /\ u # t
              \/ u.event = t.event /\ ~Tells(t.event, t.event.guild)
        /\ \A u \in tasks : u # t => u \in tasks'
    BY <2>3, <2>5 DEF Tells
  <2> SUFFICES ASSUME orderly, failures = 0, dispatcher = "running",
                      NEW g \in Guilds, lastSeen[g] # "none"
               PROVE  Waits(g)' \/ AtWork(g)' \/ Written(g)'
    BY <1>1, <2>1 DEF LastWord
  <2>7. Waits(g) \/ AtWork(g) \/ Written(g)
    BY DEF LastWord
  <2>8. /\ Waits(g) => Waits(g)'
        /\ NoneQueued(g) => NoneQueued(g)'
    BY <1>1 DEF Waits, NoneQueued
  <2>9. CASE AtWork(g)
    <3>1. PICK w \in tasks : Tells(w.event, g) /\ Says(w.event) = lastSeen[g]
      BY <2>9 DEF AtWork
    <3>2. CASE w = t
      <4>1. \A u \in tasks' : ~Tells(u.event, g)
        BY <2>2, <2>6, <3>1, <3>2 DEF OneAtATime, Tells
      <4>2. /\ lastSeen[g] = "in"  => row'[g] = "present"
            /\ lastSeen[g] = "out" => row'[g] # "present"
        BY <2>4, <2>5, <3>1, <3>2 DEF Tells
      <4> QED
        BY <1>1, <2>8, <2>9, <4>1, <4>2 DEF Written, AtWork
    <3>3. CASE w # t
      BY <1>1, <2>6, <2>8, <2>9, <3>1, <3>3 DEF AtWork
    <3> QED
      BY <3>2, <3>3
  <2>10. CASE Written(g)
    <3>1. ~Tells(t.event, g)
      BY <2>10 DEF Written
    <3>2. row'[g] = row[g]
      BY <2>4, <2>5, <3>1 DEF Tells
    <3>3. \A u \in tasks' : ~Tells(u.event, g)
      BY <2>6, <2>10, <3>1 DEF Written
    <3> QED
      BY <1>1, <2>8, <2>10, <3>2, <3>3 DEF Written
  <2> QED
    BY <2>7, <2>8, <2>9, <2>10
<1> QED
  BY <1>2, <1>3 DEF Handlers

\* A step that leaves queue and tasks alone keeps the word, if the row only ages.
LEMMA OthersTell ==
    ASSUME TypeOK, LastWord, UNCHANGED <<queue, tasks, dispatcher, lastSeen>>,
           orderly' => orderly, failures' = 0 => failures = 0,
           orderly' => \A g \in Guilds :
               row'[g] = row[g] \/ (row[g] \in {"marked", "expired"} /\ row'[g] # "present")
    PROVE  LastWord'
<1> SUFFICES ASSUME orderly', failures' = 0, dispatcher' = "running",
                    NEW g \in Guilds, lastSeen'[g] # "none"
             PROVE  Waits(g)' \/ AtWork(g)' \/ Written(g)'
  BY DEF LastWord
<1>1. Waits(g) \/ AtWork(g) \/ Written(g)
  BY DEF LastWord
<1>2. /\ Waits(g) => Waits(g)'
      /\ NoneQueued(g) => NoneQueued(g)'
  BY DEF Waits, NoneQueued
<1>3. AtWork(g) => AtWork(g)'
  BY <1>2 DEF AtWork
<1>4. Written(g) => Written(g)'
  BY <1>2 DEF Written
<1> QED
  BY <1>1, <1>2, <1>3, <1>4

LEMMA LastWordHolds == Spec => []LastWord
<1>1. Init => LastWord
  BY DEF Init, LastWord
<1>2. TypeOK /\ InTurn /\ Apart /\ LastWord /\ [Next]_vars => LastWord'
  <2> SUFFICES ASSUME TypeOK, InTurn, Apart, LastWord, [Next]_vars PROVE LastWord'
    OBVIOUS
  <2>1. failures \in Nat
    BY HandlerAssumption DEF TypeOK
  <2>2. CASE Cleanup
    <3>1. /\ UNCHANGED <<queue, tasks, dispatcher, lastSeen>>
          /\ failures' = failures \/ failures' = failures + 1
      BY <2>2 DEF Cleanup, CleanupBegins, CleanupDeletes, CleanupFails, Fails,
         frameworkVars,
         historyVars
    <3>4. orderly' => orderly
      BY <2>2 DEF Cleanup, CleanupBegins, CleanupDeletes, CleanupFails, TypeOK
    <3>2. orderly' => \A g \in Guilds :
              row'[g] = row[g] \/ (row[g] \in {"marked", "expired"} /\ row'[g] # "present")
      BY <2>2, CleaningApart
    <3>3. failures' = 0 => failures = 0
      BY <2>1, <3>1
    <3> QED
      BY <3>1, <3>2, <3>3, <3>4, OthersTell
  <2>3. CASE ~(HandleMessage \/ Dispatches \/ Handlers \/ Cleanup)
    <3>1. /\ UNCHANGED <<queue, tasks, dispatcher, lastSeen, orderly>>
          /\ failures' = failures \/ failures' = failures + 1
          /\ \A g \in Guilds : row'[g] = row[g] \/ (row[g] = "marked" /\ row'[g] = "expired")
      BY <2>3, OthersApart DEF Next, Loop
    <3>2. failures' = 0 => failures = 0
      BY <2>1, <3>1
    <3> QED
      BY <3>1, <3>2, OthersTell
  <2> QED
    BY <2>2, <2>3, SendingTells, TakingTells, HandlingTells
<1> QED
  BY <1>1, <1>2, StaysApart, PTL DEF Spec

(* When all events are handled, and no two tasks got in each other's way,   *)
(* the row of a guild tells what its last event told, however many events,  *)
(* outages and runs of the cleanup there were in between.                   *)
THEOREM RowsFollow == Spec => []RowFollowsEvents
<1>1. TypeOK /\ Apart /\ LastWord => RowFollowsEvents
  <2> SUFFICES ASSUME TypeOK, Apart, LastWord, Quiet, orderly, NEW g \in Guilds
               PROVE  /\ lastSeen[g] = "in"  => row[g] = "present"
                      /\ lastSeen[g] = "out" => row[g] # "present"
    BY DEF RowFollowsEvents
  <2>1. dispatcher = "running" /\ failures = 0
    BY DEF Quiet, Apart, StopsLast
  <2>2. queue = <<>> /\ tasks = {} /\ Len(queue) = 0
    BY DEF Quiet
  <2>3. ~Waits(g) /\ ~AtWork(g)
    BY <2>2 DEF Waits, AtWork
  <2>4. lastSeen[g] # "none" => Written(g)
    BY <2>1, <2>3 DEF LastWord
  <2> QED
    BY <2>4 DEF Written
<1> QED
  BY <1>1, StaysApart, LastWordHolds, PTL

-----------------------------------------------------------------------------
(* What the uses of a guild follow: an event that lists the emojis of the   *)
(* guild and is still on its way will see to them, unless another comes     *)
(* after it; once none is, the last list was that of Discord.               *)

Queued == {queue[j] : j \in 1..Len(queue)}
Pending == Queued \union {amqpRx[i] : i \in 1..Len(amqpRx)}

Lists(e, g) == e.guild = g /\ ListsEmojis(e)

IsLast(l, g, events) ==
    /\ l \in events /\ Lists(l, g)
    /\ \A m \in events : Lists(m, g) => m.seq <= l.seq

Expected(g) == \E l \in Pending : Lists(l, g)

\* One of them is not even cached.
Coming(g) == \E i \in 1..Len(amqpRx) : Lists(amqpRx[i], g)

ListIsCurrent == \A g \in Guilds : \A l \in Pending : IsLast(l, g, Pending) => l.list = emojis[g]

ListIsRemembered == \A g \in Guilds : \A l \in Queued : IsLast(l, g, Queued) => lastList[g] = l.type

\* What the cache takes for an emoji of the guild is one, or a list is coming.
CacheIsKnown == \A g \in Guilds : guild_emojis[g] \subseteq emojis[g] \/ Coming(g)

\* What the task is to delete, or the use it is to save, fits the guild's emojis.
HasCurrentList(t) ==
    /\ t.event.type = "GuildEmojisUpdate" => t.event.list = emojis[t.event.guild]
    /\ t.todo = <<"emoji:save_emoji_use">> => t.event.list \subseteq emojis[t.event.guild]

TasksAreKnown ==
    \A t \in tasks :
        \/ Expected(t.event.guild)
        \/ HasCurrentList(t)

UsesAreKnown ==
    \A use \in uses :
        \/ use[2] \in emojis[use[1]]
        \/ Expected(use[1])
        \/ \E t \in tasks : t.event.guild = use[1] /\ t.event.type = "GuildEmojisUpdate"
        \/ lastList[use[1]] # "GuildEmojisUpdate"

Undisturbed == orderly /\ failures = 0 /\ dispatcher = "running"

LastList ==
    /\ lastList \in [Guilds -> {"none", "GuildCreate", "GuildEmojisUpdate"}]
    /\ Undisturbed => /\ ListIsCurrent /\ ListIsRemembered /\ CacheIsKnown
                      /\ TasksAreKnown /\ UsesAreKnown

\* Events are numbered in the order they wait.
LEMMA PendingOrder ==
    ASSUME TypeOK, InTurn
    PROVE  /\ sent \in Nat /\ delivered \in Nat
           /\ \A e \in Pending : e.guild \in Guilds /\ e.seq \in Nat /\ e.seq <= delivered
           /\ \A e \in Queued : e \in Event /\ e.seq \in Nat /\ e.seq <= sent /\ e \in Pending
           /\ \A i \in 1..Len(amqpRx) : amqpRx[i] \in Delivery /\ amqpRx[i].seq \in Nat
                                       /\ amqpRx[i].seq > sent /\ amqpRx[i] \in Pending
<1>1. /\ sent \in Nat /\ delivered \in Nat /\ Len(amqpRx) \in Nat
      /\ sent + Len(amqpRx) = delivered
  BY HandlerAssumption DEF TypeOK, InTurn
<1>2. \A j \in 1..Len(queue) : queue[j] \in Event /\ queue[j].seq \in Nat /\ queue[j].seq <= sent
  BY EventNumbers DEF TypeOK, InTurn
<1>3. \A i \in 1..Len(amqpRx) : /\ amqpRx[i] \in Delivery /\ amqpRx[i].seq \in Nat
                               /\ amqpRx[i].seq = sent + i
  BY EventNumbers DEF TypeOK, InTurn
<1>7. \A e \in Event \union Delivery : e.guild \in Guilds
  BY DEF Event, Delivery
<1>4. \A i \in 1..Len(amqpRx) : amqpRx[i].seq > sent /\ amqpRx[i].seq <= delivered
  BY <1>1, <1>3
<1>5. sent <= delivered
  BY <1>1
<1>6. \A e \in Queued : e \in Event /\ e.seq \in Nat /\ e.seq <= sent /\ e.seq <= delivered
  BY <1>1, <1>2, <1>5 DEF Queued
<1> QED
  BY <1>1, <1>3, <1>4, <1>6, <1>7 DEF Pending

LEMMA SendingLists ==
    ASSUME TypeOK, InTurn, LastList, HandleMessage
    PROVE  LastList'
<1>0. PICK e \in Event : e = Head(amqpRx)
  BY HandledFirst
<1>1. /\ amqpRx \in Seq(Delivery) /\ amqpRx # <<>> /\ queue \in Seq(Event)
      /\ queue' = Append(queue, e) /\ amqpRx' = Tail(amqpRx) /\ Remember(e)
      /\ UNCHANGED <<tasks, uses, emojis, orderly, dispatcher>>
      /\ \/ failures' = failures /\ UpdateCache(e)
         \/ failures' = failures + 1
  BY <1>0 DEF HandleMessage, TypeOK, InTurn, Fails, worldVars
<1>2. /\ Len(amqpRx) \in Nat \ {0} /\ Len(amqpRx') = Len(amqpRx) - 1
      /\ amqpRx[1] = e /\ \A i \in 1..Len(amqpRx') : amqpRx'[i] = amqpRx[i + 1]
  BY <1>0, <1>1, HeadsAndTails
<1>3. Queued' = Queued \union {e}
  <2>1. /\ Len(queue) \in Nat /\ Len(queue') = Len(queue) + 1 /\ queue'[Len(queue) + 1] = e
        /\ \A j \in 1..Len(queue) : queue'[j] = queue[j]
    BY <1>1, <1>2
  <2>2. /\ \A j \in 1..Len(queue') : j \in 1..Len(queue) \/ j = Len(queue) + 1
        /\ \A j \in 1..Len(queue) : j \in 1..Len(queue')
        /\ Len(queue) + 1 \in 1..Len(queue')
    BY <2>1
  <2> QED
    BY <2>1, <2>2 DEF Queued
<1>4. Pending' = Pending
  <2>1. /\ \A i \in 1..Len(amqpRx') : i + 1 \in 1..Len(amqpRx)
        /\ \A i \in 1..Len(amqpRx) : i = 1 \/ (i - 1 \in 1..Len(amqpRx') /\ amqpRx'[i - 1] = amqpRx[i])
        /\ 1 \in 1..Len(amqpRx)
    BY <1>2
  <2>2. {amqpRx[i] : i \in 1..Len(amqpRx)} = {amqpRx'[i] : i \in 1..Len(amqpRx')} \union {e}
    BY <1>2, <2>1
  <2> QED
    BY <1>3, <2>2 DEF Pending
<1>5. /\ e \in Pending /\ e.guild \in Guilds /\ e.seq \in Nat
      /\ \A l \in Queued : l.seq \in Nat /\ l.seq < e.seq
  <2>1. 1 \in 1..Len(amqpRx)
    BY <1>2
  <2> QED
    BY <1>2, <2>1, PendingOrder DEF Event
<1>6. /\ \A g \in Guilds : lastList'[g] = IF Lists(e, g) THEN e.type ELSE lastList[g]
      /\ lastList' \in [Guilds -> {"none", "GuildCreate", "GuildEmojisUpdate"}]
  BY <1>1, <1>5 DEF Remember, Lists, ListsEmojis, LastList
<1>7. ASSUME Undisturbed'
      PROVE  ListIsCurrent' /\ ListIsRemembered' /\ CacheIsKnown' /\ TasksAreKnown' /\ UsesAreKnown'
  <2>1. Undisturbed /\ UpdateCache(e)
    BY <1>1, <1>7, HandlerAssumption DEF Undisturbed, TypeOK
  <2>2. ListIsCurrent'
    BY <1>1, <1>4, <2>1 DEF LastList, ListIsCurrent, IsLast
  <2>3. ListIsRemembered'
    <3> SUFFICES ASSUME NEW g \in Guilds, NEW l \in Queued', IsLast(l, g, Queued')
                 PROVE  lastList'[g] = l.type
      BY DEF ListIsRemembered, IsLast
    <3>1. CASE Lists(e, g)
      BY <1>3, <1>5, <1>6, <3>1 DEF IsLast
    <3>2. CASE ~Lists(e, g)
      BY <1>3, <1>6, <2>1, <3>2 DEF IsLast, LastList, ListIsRemembered
    <3> QED
      BY <3>1, <3>2
  <2>4. TasksAreKnown'
    BY <1>1, <1>4, <2>1 DEF LastList, TasksAreKnown, HasCurrentList, Expected
  <2>6. CacheIsKnown'
    <3> SUFFICES ASSUME NEW g \in Guilds, ~Coming(g)'
                 PROVE  guild_emojis'[g] \subseteq emojis[g]
      BY <1>1 DEF CacheIsKnown
    <3>1. CASE Lists(e, g)
      <4>1. guild_emojis'[g] = e.list
        BY <2>1, <3>1 DEF UpdateCache, CacheEmojis, Lists, TypeOK, DataTypeOK
      <4>2. \A l \in Pending : Lists(l, g) => l \in Queued'
        BY <1>4 DEF Coming, Pending
      <4>3. IsLast(e, g, Pending)
        BY <1>3, <1>5, <3>1, <4>2 DEF IsLast
      <4> QED
        BY <1>5, <2>1, <4>1, <4>3 DEF LastList, ListIsCurrent
    <3>2. CASE ~Lists(e, g)
      <4>1. guild_emojis'[g] = guild_emojis[g]
        BY <1>5, <2>1, <3>2 DEF UpdateCache, CacheEmojis, Lists, TypeOK, DataTypeOK
      <4>2. \A i \in 1..Len(amqpRx) : i = 1 \/ (i - 1 \in 1..Len(amqpRx') /\ amqpRx'[i - 1] = amqpRx[i])
        BY <1>2
      <4>3. ~Coming(g)
        BY <1>2, <3>2, <4>2 DEF Coming
      <4> QED
        BY <2>1, <4>1, <4>3 DEF LastList, CacheIsKnown
    <3> QED
      BY <3>1, <3>2
  <2>5. UsesAreKnown'
    <3> SUFFICES ASSUME NEW use \in uses
                 PROVE  \/ use[2] \in emojis[use[1]]
                        \/ Expected(use[1])
                        \/ \E t \in tasks : t.event.guild = use[1] /\ t.event.type = "GuildEmojisUpdate"
                        \/ lastList'[use[1]] # "GuildEmojisUpdate"
      BY <1>1, <1>4 DEF UsesAreKnown, Expected
    <3>1. use[1] \in Guilds
      BY DEF TypeOK, DataTypeOK
    <3>2. Lists(e, use[1]) => Expected(use[1])
      BY <1>5 DEF Expected
    <3> QED
      BY <1>6, <2>1, <3>1, <3>2 DEF LastList, UsesAreKnown
  <2> QED
    BY <2>2, <2>3, <2>4, <2>5, <2>6
<1> QED
  BY <1>6, <1>7 DEF LastList

\* A step that leaves the lists on their way, the tasks and the emojis alone.
LEMMA OthersList ==
    ASSUME TypeOK, LastList,
           UNCHANGED <<queue, tasks, dispatcher, emojis, guild_emojis, lastList>>,
           \A l, g : Lists(l, g) => (l \in Pending' <=> l \in Pending),
           \A g : Coming(g) => Coming(g)',
           orderly' => orderly, failures' = 0 => failures = 0, uses' \subseteq uses
    PROVE  LastList'
<1>1. Undisturbed' => Undisturbed
  BY DEF Undisturbed
<1>2. Queued' = Queued /\ \A g : Expected(g)' <=> Expected(g)
  BY DEF Queued, Expected
<1>3. \A l, g : IsLast(l, g, Pending') <=> IsLast(l, g, Pending)
  BY DEF IsLast
<1>4. ASSUME Undisturbed
      PROVE  /\ ListIsCurrent' /\ ListIsRemembered' /\ CacheIsKnown'
             /\ TasksAreKnown' /\ UsesAreKnown'
  <2>1. ListIsCurrent'
    <3> SUFFICES ASSUME NEW g \in Guilds, NEW l \in Pending', IsLast(l, g, Pending')
                 PROVE  l.list = emojis[g]
      BY DEF ListIsCurrent, IsLast
    <3>1. IsLast(l, g, Pending) /\ l \in Pending
      BY <1>3 DEF IsLast
    <3> QED
      BY <1>4, <3>1 DEF LastList, ListIsCurrent
  <2>2. ListIsRemembered'
    BY <1>2, <1>4 DEF LastList, ListIsRemembered, IsLast
  <2>3. CacheIsKnown'
    BY <1>4 DEF LastList, CacheIsKnown
  <2>4. TasksAreKnown' /\ UsesAreKnown'
    BY <1>2, <1>4 DEF LastList, TasksAreKnown, HasCurrentList, UsesAreKnown
  <2> QED
    BY <2>1, <2>2, <2>3, <2>4
<1> QED
  BY <1>1, <1>4 DEF LastList

LEMMA TakingLists ==
    ASSUME TypeOK, InTurn, Apart, LastList, Dispatches
    PROVE  LastList'
<1>1. UNCHANGED <<uses, emojis, guild_emojis, amqpRx, lastList, failures>> /\ (orderly' => orderly)
  BY DEF Dispatches, DispatchStep, dataVars, worldVars, loopVars, historyVars
<1>2. CASE Take
  <2>1. PICK t : /\ t.event = Head(queue) /\ tasks' = tasks \union {t}
                 /\ t.todo = Registry[t.event.type]
                 /\ orderly' => \A u \in tasks : u.event.guild # t.event.guild
    BY <1>2, TakingApart
  <2> DEFINE h == t.event
  <2>2. queue \in Seq(Event) /\ queue # <<>> /\ queue' = Tail(queue) /\ dispatcher' = dispatcher
    BY <1>2 DEF Take, TypeOK
  <2>3. /\ Len(queue) \in Nat \ {0} /\ Len(queue') = Len(queue) - 1
        /\ queue[1] = h /\ \A j \in 1..Len(queue') : queue'[j] = queue[j + 1]
    BY <2>1, <2>2, HeadsAndTails
  <2>4. /\ 1 \in 1..Len(queue)
        /\ \A j \in 1..Len(queue') : j + 1 \in 1..Len(queue) /\ 1 < j + 1
        /\ \A j \in 1..Len(queue) : j = 1 \/ (j - 1 \in 1..Len(queue') /\ queue'[j - 1] = queue[j])
    BY <2>3
  <2>5. Queued = Queued' \union {h}
    BY <2>3, <2>4 DEF Queued
  <2> HIDE DEF h
  <2>6. h \in Queued /\ h \in Pending /\ h.seq \in Nat /\ h.seq <= sent /\ sent \in Nat /\ h.guild \in Guilds
    BY <2>5, PendingOrder DEF Event
  <2>7. \A x \in Queued' : h.seq < x.seq
    <3>1. \A j \in 1..Len(queue') : queue[1].seq < queue[j + 1].seq
      BY <2>4 DEF Apart, InOrder
    <3> QED
      BY <2>3, <3>1 DEF Queued
  <2>8. \A i \in 1..Len(amqpRx) : amqpRx[i].seq \in Nat /\ h.seq < amqpRx[i].seq
    BY <2>6, PendingOrder
  <2>9. /\ Pending = Pending' \union {h}
        /\ \A x \in Pending' : x.seq \in Nat /\ h.seq < x.seq
        /\ \A x \in Queued : x \in Pending /\ x.seq \in Nat
    BY <1>1, <2>5, <2>7, <2>8, PendingOrder DEF Pending
  <2>10. ASSUME Undisturbed'
         PROVE  /\ ListIsCurrent' /\ ListIsRemembered' /\ CacheIsKnown'
                /\ TasksAreKnown' /\ UsesAreKnown'
    <3>1. /\ ListIsCurrent /\ ListIsRemembered /\ CacheIsKnown /\ TasksAreKnown /\ UsesAreKnown
          /\ \A u \in tasks : u.event.guild # h.guild
      BY <1>1, <2>1, <2>2, <2>10 DEF Undisturbed, LastList, h
    <3>2. ListIsCurrent'
      <4> SUFFICES ASSUME NEW g \in Guilds, NEW l \in Pending', IsLast(l, g, Pending')
                   PROVE  l.list = emojis[g]
        BY <1>1 DEF ListIsCurrent, IsLast
      <4>1. IsLast(l, g, Pending)
        BY <2>6, <2>9 DEF IsLast
      <4> QED
        BY <2>9, <3>1, <4>1 DEF ListIsCurrent
    <3>3. ListIsRemembered'
      <4> SUFFICES ASSUME NEW g \in Guilds, NEW l \in Queued', IsLast(l, g, Queued')
                   PROVE  lastList[g] = l.type
        BY <1>1 DEF ListIsRemembered, IsLast
      <4>1. l.seq \in Nat /\ h.seq < l.seq
        BY <2>5, <2>7, <2>9
      <4>2. IsLast(l, g, Queued)
        BY <2>5, <2>6, <4>1 DEF IsLast
      <4> QED
        BY <2>5, <3>1, <4>2 DEF ListIsRemembered
    <3>4. CacheIsKnown'
      BY <1>1, <3>1 DEF CacheIsKnown, Coming
    <3>5. \A g \in Guilds : Expected(g) => Expected(g)' \/ Lists(h, g)
      BY <2>9 DEF Expected
    <3>6. \A g \in Guilds : Lists(h, g) /\ ~Expected(g)' => IsLast(h, g, Pending) /\ IsLast(h, g, Queued)
      BY <2>6, <2>9 DEF Expected, IsLast
    <3>7. TasksAreKnown'
      <4> SUFFICES ASSUME NEW u \in tasks'
                   PROVE  Expected(u.event.guild)' \/ HasCurrentList(u)
        BY <1>1 DEF TasksAreKnown, HasCurrentList, Expected
      <4>1. CASE u \in tasks
        <5>1. u.event.guild # h.guild /\ u.event.guild \in Guilds
          BY <3>1, <4>1, TaskFields DEF TypeOK, Event
        <5> QED
          BY <3>1, <3>5, <4>1, <5>1 DEF TasksAreKnown, Lists
      <4>2. CASE u = t
        <5>1. h.type \in EventTypes
          BY <2>6, PendingOrder DEF Event
        <5>2. t.todo # <<"emoji:save_emoji_use">>
          BY <2>1, <5>1, Registered DEF EventTypes, h
        <5>3. h.type = "GuildEmojisUpdate" => Lists(h, h.guild)
          BY DEF Lists, ListsEmojis
        <5>4. h.type = "GuildEmojisUpdate" => Expected(h.guild)' \/ h.list = emojis[h.guild]
          BY <2>6, <3>1, <3>6, <5>3 DEF ListIsCurrent
        <5> QED
          BY <4>2, <5>2, <5>4 DEF HasCurrentList, h
      <4> QED
        BY <2>1, <4>1, <4>2
    <3>8. UsesAreKnown'
      <4> SUFFICES ASSUME NEW use \in uses
                   PROVE  \/ use[2] \in emojis[use[1]]
                          \/ Expected(use[1])'
                          \/ \E u \in tasks' : u.event.guild = use[1] /\ u.event.type = "GuildEmojisUpdate"
                          \/ lastList[use[1]] # "GuildEmojisUpdate"
        BY <1>1 DEF UsesAreKnown, Expected
      <4>1. use[1] \in Guilds
        BY DEF TypeOK, DataTypeOK
      <4>2. CASE Expected(use[1])
        <5>1. CASE Lists(h, use[1]) /\ ~Expected(use[1])'
          <6>1. lastList[use[1]] = h.type
            BY <2>6, <3>1, <3>6, <4>1, <5>1 DEF ListIsRemembered
          <6>2. h.type = "GuildEmojisUpdate" => t \in tasks' /\ t.event.guild = use[1] /\ t.event.type = h.type
            BY <2>1, <5>1 DEF Lists, h
          <6> QED
            BY <6>1, <6>2
        <5> QED
          BY <3>5, <4>1, <4>2, <5>1
      <4>3. CASE ~Expected(use[1])
        BY <2>1, <3>1, <4>3 DEF UsesAreKnown
      <4> QED
        BY <4>2, <4>3
    <3> QED
      BY <3>2, <3>3, <3>4, <3>7, <3>8
  <2> QED
    BY <1>1, <2>10 DEF LastList
<1>3. CASE ~Take
  <2>1. \/ dispatcher' # "running"
        \/ UNCHANGED <<queue, tasks, dispatcher>>
    BY <1>3 DEF Dispatches, DispatchStep, StopsTaking, Drained, DrainTimesOut
  <2>2. dispatcher' = "running" => UNCHANGED <<queue, tasks, dispatcher>>
    BY <2>1
  <2>3. CASE dispatcher' # "running"
    BY <1>1, <2>3 DEF LastList, Undisturbed
  <2>4. CASE dispatcher' = "running"
    <3>1. Pending' = Pending /\ \A g : Coming(g)' <=> Coming(g)
      BY <1>1, <2>2, <2>4 DEF Pending, Queued, Coming
    <3> QED
      BY <1>1, <2>2, <2>4, <3>1, OthersList
  <2> QED
    BY <2>3, <2>4
<1> QED
  BY <1>2, <1>3

\* What a handler does to the uses.
LEMMA UseEffects ==
    ASSUME TypeOK, TaskSteps, NEW t \in tasks, RunHandler(Head(t.todo), t.event)
    PROVE  /\ t.event.type = "GuildEmojisUpdate" =>
                 uses' = {use \in uses : use[1] # t.event.guild \/ use[2] \in t.event.list}
           /\ t.event.type # "GuildEmojisUpdate" =>
                 \A use \in uses' : \/ use \in uses
                                   \/ /\ t.todo = <<"emoji:save_emoji_use">>
                                      /\ use[1] = t.event.guild /\ use[2] \in t.event.list
<1> USE DEF RunHandler, GuildCreated, GuildDeleted, EmojisListed, EmojiUsed,
            DeleteUsesNotInList, SaveEmojiUse
<1>1. CASE t.event.type = "GuildCreate" /\ t.todo = <<"core:guild_create">>
  BY <1>1
<1>2. CASE t.event.type = "GuildDelete" /\ t.todo = <<"core:guild_delete">>
  BY <1>2
<1>3. CASE t.event.type = "GuildEmojisUpdate" /\ t.todo = <<"emoji:guild_emojis_update">>
  BY <1>3 DEF ListsEmojis
<1>4. CASE t.event.type \in Mentions /\ Uses(t.todo)
  <2>1. t.event.type # "GuildEmojisUpdate"
    BY <1>4 DEF Mentions
  <2>2. CASE t.todo = <<"emoji:save_emoji_use">>
    <3>1. Head(t.todo) = "emoji:save_emoji_use"
      BY <2>2
    <3>2. EmojiUsed(t.event)
      BY <3>1
    <3> QED
      BY <2>1, <2>2, <3>2
  <2>3. CASE t.todo # <<"emoji:save_emoji_use">>
    <3>1. Head(t.todo) \in {"emoji:handle_message", "emoji:message_update", "emoji:reaction_add"}
      BY <1>4, <2>3 DEF Uses
    <3>2. uses' = uses
      BY <3>1
    <3> QED
      BY <2>1, <3>2
  <2> QED
    BY <2>2, <2>3
<1> QED
  BY <1>1, <1>2, <1>3, <1>4, TaskCases

LEMMA HandlingLists ==
    ASSUME TypeOK, InTurn, Apart, LastList, Handlers
    PROVE  LastList'
<1>1. UNCHANGED <<queue, amqpRx, emojis, dispatcher, lastList, orderly>>
  BY DEF Handlers, HandlerRuns, HandlerFails, historyVars, loopVars, worldVars
<1>2. CASE HandlerFails
  <2>1. failures' = failures + 1 /\ failures \in Nat
    BY <1>2, HandlerAssumption DEF HandlerFails, Fails, TypeOK
  <2> QED
    BY <1>1, <2>1 DEF LastList, Undisturbed
<1>3. CASE HandlerRuns
  <2>1. failures' = failures
    BY <1>3 DEF HandlerRuns
  <2>2. TypeOK /\ TaskSteps
    BY DEF Apart
  <2>3. PICK t \in tasks :
          /\ RunHandler(Head(t.todo), t.event)
          /\ \/ tasks' = tasks \ {t}
             \/ \E u : /\ u.event = t.event /\ u.todo = <<"emoji:save_emoji_use">>
                       /\ t.event.type \in Mentions /\ WillSave(Head(t.todo), t.event)
                       /\ tasks' = (tasks \ {t}) \union {u}
    BY <1>3, <2>2, HandlerEffects
  <2>4. /\ \A u \in tasks' : \/ u \in tasks
                             \/ /\ u.event = t.event
                                /\ t.event.type \in Mentions /\ WillSave(Head(t.todo), t.event)
        /\ \A u \in tasks : u # t => u \in tasks'
        /\ guild_emojis' = guild_emojis
    BY <2>3 DEF RunHandler
  <2>5. /\ Pending' = Pending /\ \A g : Expected(g)' <=> Expected(g)
        /\ Undisturbed' = Undisturbed
    BY <1>1, <2>1 DEF Pending, Queued, Expected, Undisturbed
  <2>6. ASSUME Undisturbed
        PROVE  TasksAreKnown' /\ UsesAreKnown'
    <3>1. CacheIsKnown /\ TasksAreKnown /\ UsesAreKnown
      BY <2>6 DEF LastList
    <3>2. TasksAreKnown'
      <4> SUFFICES ASSUME NEW u \in tasks'
                   PROVE  Expected(u.event.guild) \/ HasCurrentList(u)
        BY <1>1, <2>5 DEF TasksAreKnown, HasCurrentList
      <4>1. CASE u \in tasks
        BY <3>1, <4>1 DEF TasksAreKnown
      <4>2. CASE u.event = t.event /\ t.event.type \in Mentions /\ WillSave(Head(t.todo), t.event)
        <5>1. t.event.guild \in Guilds
          BY TaskFields DEF TypeOK, Event
        <5>2. \/ t.event.list \subseteq guild_emojis[t.event.guild] \union emojis[t.event.guild]
              \/ t.event.list \subseteq emojis[t.event.guild]
          BY <4>2 DEF WillSave, IsGuildEmoji
        <5>3. Coming(t.event.guild) => Expected(t.event.guild)
          BY DEF Coming, Expected, Pending
        <5>4. t.event.list \subseteq emojis[t.event.guild] \/ Expected(t.event.guild)
          BY <3>1, <5>1, <5>2, <5>3 DEF CacheIsKnown
        <5>5. t.event.type # "GuildEmojisUpdate"
          BY <4>2 DEF Mentions
        <5> QED
          BY <4>2, <5>4, <5>5 DEF HasCurrentList
      <4> QED
        BY <2>4, <4>1, <4>2
    <3>3. ASSUME NEW use \in uses'
          PROVE  \/ use[2] \in emojis[use[1]]
                 \/ Expected(use[1])
                 \/ \E u \in tasks' : u.event.guild = use[1] /\ u.event.type = "GuildEmojisUpdate"
                 \/ lastList[use[1]] # "GuildEmojisUpdate"
      <4>1. CASE t.event.type = "GuildEmojisUpdate"
        <5>1. use \in uses /\ (use[1] # t.event.guild \/ use[2] \in t.event.list)
          BY <2>2, <2>3, <3>3, <4>1, UseEffects
        <5>2. CASE use[1] = t.event.guild
          BY <3>1, <4>1, <5>1, <5>2 DEF TasksAreKnown, HasCurrentList
        <5>3. CASE use[1] # t.event.guild
          BY <2>4, <3>1, <5>1, <5>3 DEF UsesAreKnown
        <5> QED
          BY <5>2, <5>3
      <4>2. CASE t.event.type # "GuildEmojisUpdate"
        <5>1. use \in uses \/ ( /\ t.todo = <<"emoji:save_emoji_use">>
                               /\ use[1] = t.event.guild /\ use[2] \in t.event.list )
          BY <2>2, <2>3, <3>3, <4>2, UseEffects
        <5>2. CASE use \in uses
          BY <2>4, <3>1, <4>2, <5>2 DEF UsesAreKnown
        <5>3. CASE use \notin uses
          BY <3>1, <5>1, <5>3 DEF TasksAreKnown, HasCurrentList
        <5> QED
          BY <5>2, <5>3
      <4> QED
        BY <4>1, <4>2
    <3>4. UsesAreKnown'
      BY <1>1, <2>5, <3>3 DEF UsesAreKnown
    <3> QED
      BY <3>2, <3>4
  <2>7. Undisturbed => ListIsCurrent' /\ ListIsRemembered' /\ CacheIsKnown'
    BY <1>1, <2>4, <2>5 DEF LastList, ListIsCurrent, ListIsRemembered, CacheIsKnown, Coming,
       IsLast, Queued
  <2> QED
    BY <1>1, <2>5, <2>6, <2>7 DEF LastList
<1> QED
  BY <1>2, <1>3 DEF Handlers

LEMMA DeliveringLists ==
    ASSUME TypeOK, InTurn, LastList, NEW e \in Delivery, Delivers(e)
    PROVE  LastList'
<1>1. /\ UNCHANGED <<queue, tasks, dispatcher, uses, guild_emojis, lastList, failures, orderly>>
      /\ amqpRx' = Append(amqpRx, e) /\ e.seq = delivered + 1 /\ amqpRx \in Seq(Delivery)
      /\ delivered \in Nat
  BY PendingOrder DEF Delivers, frameworkVars, dataVars, historyVars, TypeOK
<1>2. /\ Lists(e, e.guild) => emojis' = [emojis EXCEPT ![e.guild] = e.list]
      /\ ~Lists(e, e.guild) => emojis' = emojis
      /\ e.guild \in Guilds /\ emojis \in [Guilds -> SUBSET Emojis]
  BY DEF Delivers, Lists, Delivery, TypeOK
<1>3. /\ Queued' = Queued /\ Pending' = Pending \union {e}
      /\ \A g : Coming(g) \/ Lists(e, g) => Coming(g)'
  <2>1. /\ Len(amqpRx) \in Nat /\ Len(amqpRx') = Len(amqpRx) + 1 /\ amqpRx'[Len(amqpRx) + 1] = e
        /\ \A j \in 1..Len(amqpRx) : amqpRx'[j] = amqpRx[j]
    BY <1>1
  <2>2. /\ \A j \in 1..Len(amqpRx') : j \in 1..Len(amqpRx) \/ j = Len(amqpRx) + 1
        /\ \A j \in 1..Len(amqpRx) : j \in 1..Len(amqpRx')
        /\ Len(amqpRx) + 1 \in 1..Len(amqpRx')
    BY <2>1
  <2>3. {amqpRx'[i] : i \in 1..Len(amqpRx')} = {amqpRx[i] : i \in 1..Len(amqpRx)} \union {e}
    BY <2>1, <2>2
  <2>4. \A g : Coming(g) \/ Lists(e, g) => Coming(g)'
    BY <2>1, <2>2 DEF Coming
  <2> QED
    BY <1>1, <2>3, <2>4 DEF Pending, Queued
<1>4. \A x \in Pending : x.guild \in Guilds /\ x.seq \in Nat /\ x.seq < e.seq
  BY <1>1, PendingOrder
<1>5. \A g \in Guilds : /\ Lists(e, g) => emojis'[g] = e.list /\ Expected(g)'
                        /\ ~Lists(e, g) => emojis'[g] = emojis[g]
                        /\ Expected(g) => Expected(g)'
  BY <1>2, <1>3 DEF Lists, Expected
<1>6. ASSUME Undisturbed
      PROVE  /\ ListIsCurrent' /\ ListIsRemembered' /\ CacheIsKnown'
             /\ TasksAreKnown' /\ UsesAreKnown'
  <2>1. ListIsCurrent /\ ListIsRemembered /\ CacheIsKnown /\ TasksAreKnown /\ UsesAreKnown
    BY <1>6 DEF LastList
  <2>2. ListIsCurrent'
    <3> SUFFICES ASSUME NEW g \in Guilds, NEW l \in Pending', IsLast(l, g, Pending')
                 PROVE  l.list = emojis'[g]
      BY DEF ListIsCurrent, IsLast
    <3>1. CASE Lists(e, g)
      <4>1. e.seq <= l.seq
        BY <1>3, <3>1 DEF IsLast
      <4>2. l = e
        BY <1>1, <1>3, <1>4, <4>1
      <4> QED
        BY <1>5, <3>1, <4>2
    <3>2. CASE ~Lists(e, g)
      <4>1. l \in Pending /\ IsLast(l, g, Pending)
        BY <1>3, <3>2 DEF IsLast
      <4> QED
        BY <1>5, <2>1, <3>2, <4>1 DEF ListIsCurrent
    <3> QED
      BY <3>1, <3>2
  <2>3. ListIsRemembered'
    BY <1>1, <1>3, <2>1 DEF ListIsRemembered, IsLast
  <2>4. CacheIsKnown'
    BY <1>1, <1>3, <1>5, <2>1 DEF CacheIsKnown
  <2>5. TasksAreKnown'
    <3> SUFFICES ASSUME NEW t \in tasks
                 PROVE  \/ Expected(t.event.guild)'
                        \/ /\ t.event.type = "GuildEmojisUpdate" => t.event.list = emojis'[t.event.guild]
                           /\ t.todo = <<"emoji:save_emoji_use">> =>
                                 t.event.list \subseteq emojis'[t.event.guild]
      BY <1>1 DEF TasksAreKnown, HasCurrentList
    <3>1. t.event.guild \in Guilds
      BY TaskFields DEF TypeOK, Event
    <3> QED
      BY <1>5, <2>1, <3>1 DEF TasksAreKnown, HasCurrentList
  <2>6. UsesAreKnown'
    <3> SUFFICES ASSUME NEW use \in uses
                 PROVE  \/ use[2] \in emojis'[use[1]]
                        \/ Expected(use[1])'
                        \/ \E t \in tasks : t.event.guild = use[1] /\ t.event.type = "GuildEmojisUpdate"
                        \/ lastList[use[1]] # "GuildEmojisUpdate"
      BY <1>1 DEF UsesAreKnown
    <3>1. use[1] \in Guilds
      BY DEF TypeOK, DataTypeOK
    <3> QED
      BY <1>5, <2>1, <3>1 DEF UsesAreKnown
  <2> QED
    BY <2>2, <2>3, <2>4, <2>5, <2>6
<1>7. Undisturbed' = Undisturbed
  BY <1>1 DEF Undisturbed
<1> QED
  BY <1>1, <1>6, <1>7 DEF LastList

LEMMA LastListHolds == Spec => []LastList
<1>1. Init => LastList
  <2> SUFFICES ASSUME Init PROVE LastList
    OBVIOUS
  <2>1. /\ Len(queue) = 0 /\ Len(amqpRx) = 0 /\ tasks = {}
        /\ guild_emojis = emojis /\ \A use \in uses : use[2] \in emojis[use[1]]
    BY DEF Init, FrameworkInit, DataInit
  <2>2. Pending = {} /\ Queued = {}
    BY <2>1 DEF Pending, Queued
  <2>3. ListIsCurrent /\ ListIsRemembered /\ CacheIsKnown /\ TasksAreKnown /\ UsesAreKnown
    BY <2>1, <2>2 DEF ListIsCurrent, ListIsRemembered, CacheIsKnown, TasksAreKnown,
       UsesAreKnown
  <2> QED
    BY <2>3 DEF Init, LastList
<1>2. TypeOK /\ InTurn /\ Apart /\ LastList /\ [Next]_vars => LastList'
  <2> SUFFICES ASSUME TypeOK, InTurn, Apart, LastList, [Next]_vars PROVE LastList'
    OBVIOUS
  <2>1. failures \in Nat
    BY HandlerAssumption DEF TypeOK
  <2>2. CASE Cleanup
    <3>1. /\ UNCHANGED <<queue, amqpRx, tasks, dispatcher, emojis, guild_emojis, lastList>>
          /\ uses' \subseteq uses
          /\ failures' = failures \/ failures' = failures + 1
      BY <2>2 DEF Cleanup, CleanupBegins, CleanupDeletes, CleanupFails, Fails,
         frameworkVars,
         historyVars, loopVars, worldVars, dataVars, DeleteGuild, Cascade
    <3>2. orderly' => orderly
      BY <2>2 DEF Cleanup, CleanupBegins, CleanupDeletes, CleanupFails, TypeOK
    <3>3. failures' = 0 => failures = 0
      BY <2>1, <3>1
    <3>4. Pending' = Pending /\ \A g : Coming(g)' <=> Coming(g)
      BY <3>1 DEF Pending, Queued, Coming
    <3> QED
      BY <3>1, <3>2, <3>3, <3>4, OthersList
  <2>3. CASE \E e \in Delivery : Delivers(e)
    BY <2>3, DeliveringLists
  <2>5. CASE LoopSkips
    <3>1. /\ UNCHANGED <<queue, tasks, dispatcher, emojis, guild_emojis, lastList, uses>>
          /\ UNCHANGED <<failures, orderly>>
          /\ amqpRx \in Seq(Delivery) /\ amqpRx # <<>> /\ amqpRx' = Tail(amqpRx)
          /\ ~Readable(Head(amqpRx))
      BY <2>5 DEF LoopSkips, frameworkVars, dataVars, worldVars, historyVars, TypeOK
    <3>2. PICK e : e = Head(amqpRx)
      OBVIOUS
    <3>3. /\ Len(amqpRx) \in Nat \ {0} /\ Len(amqpRx') = Len(amqpRx) - 1
          /\ amqpRx[1] = e /\ \A i \in 1..Len(amqpRx') : amqpRx'[i] = amqpRx[i + 1]
      BY <3>1, <3>2, HeadsAndTails
    <3>4. /\ \A i \in 1..Len(amqpRx') : i + 1 \in 1..Len(amqpRx)
          /\ \A i \in 1..Len(amqpRx) :
                i = 1 \/ (i - 1 \in 1..Len(amqpRx') /\ amqpRx'[i - 1] = amqpRx[i])
      BY <3>3
    <3>5. \A g : ~Lists(e, g)
      BY <3>1, <3>2 DEF Lists, ListsEmojis, Readable
    <3>6. \A g : Coming(g) => Coming(g)'
      BY <3>3, <3>4, <3>5 DEF Coming
    <3>7. \A l : l # e => (l \in Pending' <=> l \in Pending)
      <4>1. \A l : (\E i \in 1..Len(amqpRx') : l = amqpRx'[i])
                     => \E i \in 1..Len(amqpRx) : l = amqpRx[i]
        BY <3>3, <3>4
      <4>2. \A l : l # e /\ (\E i \in 1..Len(amqpRx) : l = amqpRx[i])
                     => \E i \in 1..Len(amqpRx') : l = amqpRx'[i]
        BY <3>3, <3>4
      <4>3. Queued' = Queued
        BY <3>1 DEF Queued
      <4> QED
        BY <4>1, <4>2, <4>3 DEF Pending
    <3>8. \A l, g : Lists(l, g) => (l \in Pending' <=> l \in Pending)
      BY <3>5, <3>7
    <3> QED
      BY <3>1, <3>6, <3>8, OthersList
  <2>4. CASE \/ LoopReceives \/ LoopEnds \/ Scheduling \/ Serving \/ AmqpStep
             \/ Main \/ Signal \/ TimePasses \/ UNCHANGED vars
    <3>1. /\ UNCHANGED <<queue, tasks, dispatcher, orderly>>
          /\ failures' = failures \/ failures' = failures + 1
      BY <2>4, OthersApart DEF World
    <3>2. UNCHANGED <<amqpRx, emojis, guild_emojis, lastList, uses>>
      <4>1. CASE LoopReceives \/ LoopEnds
        BY <4>1 DEF LoopReceives, LoopEnds, historyVars, worldVars, dataVars
      <4>2. CASE Scheduling \/ Serving
        BY <4>2 DEF Scheduling, Serving, historyVars, loopVars, worldVars, dataVars
      <4>3. CASE AmqpStep
        BY <4>3, AmqpEnds DEF othersVars, historyVars, loopVars, worldVars, dataVars
      <4>4. CASE Main
        BY <4>4 DEF Main, MainBuilds, MainServes, MainPanics, MainStopsAmqp, MainJoinsAmqp,
           MainStopsFramework, MainJoins, othersVars, historyVars, loopVars, worldVars,
           dataVars
      <4>5. CASE Signal
        BY <4>5 DEF Signal, othersVars, historyVars, loopVars, worldVars, dataVars
      <4>6. CASE TimePasses
        BY <4>6 DEF TimePasses, WeekPasses, historyVars, loopVars, worldVars
      <4>7. CASE UNCHANGED vars
        BY <4>7 DEF vars, historyVars, loopVars, worldVars, dataVars
      <4> QED
        BY <2>4, <4>1, <4>2, <4>3, <4>4, <4>5, <4>6, <4>7
    <3>3. failures' = 0 => failures = 0
      BY <2>1, <3>1
    <3>4. Pending' = Pending /\ \A g : Coming(g)' <=> Coming(g)
      BY <3>1, <3>2 DEF Pending, Queued, Coming
    <3> QED
      BY <3>1, <3>2, <3>3, <3>4, OthersList
  <2> QED
    BY <2>2, <2>3, <2>4, <2>5, SendingLists, TakingLists, HandlingLists DEF Next, Loop,
       World
<1> QED
  BY <1>1, <1>2, StaysApart, PTL DEF Spec

(* When all events are handled, and no two tasks got in each other's way,   *)
(* no use is left of an emoji that an update of the guild's emojis removed: *)
(* a message, an edit or a reaction was saved before the update, whose      *)
(* handler undid it, or found the emoji gone.                               *)
THEOREM UsesFollow == Spec => []UsesFollowUpdates
<1>1. TypeOK /\ Apart /\ LastList => UsesFollowUpdates
  <2> SUFFICES ASSUME TypeOK, Apart, LastList, Quiet, orderly, NEW use \in uses,
                      lastList[use[1]] = "GuildEmojisUpdate"
               PROVE  use[2] \in emojis[use[1]]
    BY DEF UsesFollowUpdates
  <2>1. Undisturbed
    BY DEF Quiet, Apart, StopsLast, Undisturbed
  <2>2. Len(queue) = 0 /\ Len(amqpRx) = 0 /\ tasks = {}
    BY DEF Quiet
  <2>3. Pending = {}
    BY <2>2 DEF Pending, Queued
  <2> QED
    BY <2>1, <2>2, <2>3 DEF LastList, UsesAreKnown, Expected
<1> QED
  BY <1>1, StaysApart, LastListHolds, PTL
-----------------------------------------------------------------------------
(* Who handles an event.                                                   *)

\* No event has two tasks: an error of a handler, a use that is saved in a second
\* step and a shutdown half way leave it with the one it has, or none.
OneTaskPerEvent == \A t, u \in tasks : t.event.seq = u.event.seq => t = u

\* A task begins in the order of the events, after all that still have tasks.
TasksBeginInOrder ==
    [][\A t \in tasks' : \/ \E u \in tasks : u.event = t.event
                         \/ \A u \in tasks : u.event.seq < t.event.seq]_vars

\* What a step does to the tasks.
LEMMA TasksMove ==
    ASSUME TypeOK, InTurn, Apart, [Next]_vars
    PROVE  \/ tasks' = tasks
           \/ \E t : tasks' = tasks \union {t} /\ \A u \in tasks : u.event.seq < t.event.seq
           \/ \E t \in tasks : \/ tasks' = tasks \ {t}
                               \/ \E u : u.event = t.event /\ tasks' = (tasks \ {t}) \union {u}
<1>1. CASE Dispatches
  <2>1. CASE Take
    <3>1. PICK t : t.event = Head(queue) /\ tasks' = tasks \union {t}
      BY <1>1, <2>1, TakingApart
    <3>2. queue \in Seq(Event) /\ queue # <<>>
      BY <2>1 DEF Take, TypeOK
    <3>3. Head(queue) = queue[1] /\ 1 \in 1..Len(queue)
      BY <3>2, HeadsAndTails
    <3>4. \A u \in tasks : u.event.seq < t.event.seq
      BY <3>1, <3>3 DEF Apart, InOrder
    <3> QED
      BY <3>1, <3>4
  <2>2. CASE StopsTaking \/ Drained \/ DrainTimesOut
    BY <2>2 DEF StopsTaking, Drained, DrainTimesOut
  <2> QED
    BY <1>1, <2>1, <2>2 DEF Dispatches, DispatchStep
<1>2. CASE Handlers
  BY <1>2, HandlerEffects, TaskEnds DEF Handlers, HandlerFails, Apart
<1>3. CASE HandleMessage \/ Cleanup
  BY <1>3 DEF HandleMessage, Cleanup, CleanupBegins, CleanupDeletes, CleanupFails,
     frameworkVars, dispatchVars
<1>4. CASE ~(HandleMessage \/ Dispatches \/ Handlers \/ Cleanup)
  BY <1>4, OthersApart DEF Next, Loop
<1> QED
  BY <1>1, <1>2, <1>3, <1>4

\* However handlers fail, are slow or are left behind by a shutdown, an event has
\* one task at a time.
THEOREM EventsHaveOneTask == Spec => []OneTaskPerEvent
<1>1. Init => OneTaskPerEvent
  BY DEF Init, FrameworkInit, OneTaskPerEvent
<1>2. TypeOK /\ TypeOK' /\ InTurn /\ Apart /\ OneTaskPerEvent /\ [Next]_vars => OneTaskPerEvent'
  <2> SUFFICES ASSUME TypeOK, TypeOK', InTurn, Apart, OneTaskPerEvent, [Next]_vars
               PROVE  OneTaskPerEvent'
    OBVIOUS
  <2>0. \A t \in tasks \union tasks' : t.event.seq \in Nat
    BY TaskFields, EventNumbers DEF TypeOK
  <2>1. CASE tasks' = tasks
    BY <2>1 DEF OneTaskPerEvent
  <2>2. ASSUME NEW t, tasks' = tasks \union {t}, \A u \in tasks : u.event.seq < t.event.seq
        PROVE  OneTaskPerEvent'
    BY <2>0, <2>2 DEF OneTaskPerEvent
  <2>3. ASSUME NEW t \in tasks,
               \/ tasks' = tasks \ {t}
               \/ \E u : u.event = t.event /\ tasks' = (tasks \ {t}) \union {u}
        PROVE  OneTaskPerEvent'
    BY <2>3 DEF OneTaskPerEvent
  <2> QED
    BY <2>1, <2>2, <2>3, TasksMove
<1> QED
  BY <1>1, <1>2, StaysApart, PTL DEF Spec

\* The tasks begin in the order in which the events came from the broker.
THEOREM EventsBeginInOrder == Spec => TasksBeginInOrder
<1>1. TypeOK /\ InTurn /\ Apart /\ [Next]_vars
         => [\A t \in tasks' : \/ \E u \in tasks : u.event = t.event
                               \/ \A u \in tasks : u.event.seq < t.event.seq]_vars
  BY TasksMove
<1> QED
  BY <1>1, StaysApart, PTL DEF Spec, TasksBeginInOrder
=============================================================================
