---------------------------- MODULE GatewayProofs ----------------------------
(***************************************************************************)
(* Proofs about the gateway process, for any set of guilds, any capacity   *)
(* of the reporter's channel and any number of events and lost             *)
(* connections.                                                            *)
(***************************************************************************)
EXTENDS Gateway, FiniteSetTheorems, SequenceTheorems, TLAPS

LEMMA GuildsCounted ==
    ASSUME NEW S, S \subseteq Guilds
    PROVE  IsFiniteSet(S) /\ Cardinality(S) \in Nat
BY ReporterAssumption, FS_Subset, FS_CardinalityType

\* What Discord tells of a guild.
GuildChanges(g) == Joins(g) \/ Leaves(g) \/ OutageBegins(g) \/ OutageEnds(g)

-----------------------------------------------------------------------------
(* Who may still be running: main starts the manager after the amqp client *)
(* and stops the manager before the reporter before the amqp client.       *)
OrderOfTasks ==
    /\ startSent => main = "manager" /\ manager = "Stopped"
    /\ Polling => main = "manager"
    /\ main = "starting" => ~amqpShutdown /\ manager = "Stopped"
    /\ main \in {"manager", "reporter"} => ~amqpShutdown /\ amqpResult = "ok"
    /\ (amqpResult = "ok" /\ ~amqpShutdown) => amqpPhase = "active"
    /\ amqpResult = "pending" => amqpPhase \in {"idle", "active"}
    /\ reporterShutdown => manager = "Done"
    /\ ~inboxOpen => reporterShutdown
    /\ reporting = "stopped" => ~inboxOpen /\ inbox = <<>>

LEMMA OrderOfTasksHolds == Spec => []OrderOfTasks
<1>1. Init => OrderOfTasks
  BY DEF Init, ReporterInit, OrderOfTasks, Polling
<1>2. OrderOfTasks /\ [Next]_vars => OrderOfTasks'
  <2> SUFFICES ASSUME OrderOfTasks, [Next]_vars PROVE OrderOfTasks'
    OBVIOUS
  <2> USE DEF OrderOfTasks, Polling, reporterVars, managerVars, amqpVars, sessionVars,
              worldVars, pathVars
  <2>1. CASE Reporter
    BY <2>1 DEF Reporter, ReporterStep, HandleEvent, SaveOk, SaveFails, CloseInbox,
                ReporterEnds
  <2>2. CASE Manager
    BY <2>2 DEF Manager, ManagerStarts, ManagerCloses, StreamEnds
  <2>3. CASE Connects \/ Delivers \/ AcksHeartbeat \/ AnswersClose \/ LosesConnection
    <3>1. /\ Polling /\ manager' \in {manager, "Done"}
          /\ UNCHANGED <<inboxOpen, reporterShutdown, reporting, startSent, main, amqpVars>>
      BY <2>3 DEF Connects, Delivers, AcksHeartbeat, AnswersClose, LosesConnection,
                  HandleMessage, Unhandled
    <3>2. QED
      BY <3>1
  <2>4. CASE Identifies \/ Resumes
    BY <2>4 DEF Identifies, Resumes
  <2>5. CASE Chats \/ \E g \in Guilds : GuildChanges(g)
    <3>1. UNCHANGED <<reporterVars, managerVars, main, amqpVars>>
      BY <2>5 DEF Chats, GuildChanges, Joins, Leaves, OutageBegins, OutageEnds, Happens
    <3>2. QED
      BY <3>1
  <2>6. CASE AmqpStep
    <3>1. UNCHANGED <<reporterVars, managerVars, main, sessionVars, worldVars, pathVars,
                      amqpShutdown>>
      BY <2>6 DEF AmqpStep, Amqp!Begin, Amqp!ReportOk, Amqp!ReportError, Amqp!Stop
    <3>2. \/ /\ amqpPhase = "idle" /\ amqpPhase' = "active" /\ amqpResult' = amqpResult
          \/ /\ amqpResult = "pending" /\ amqpResult' = "ok"
             /\ amqpPhase = "active" /\ amqpPhase' = "active"
          \/ amqpResult = "pending" /\ amqpResult' = "error"
          \/ amqpShutdown /\ amqpResult' = amqpResult /\ amqpResult = "ok"
      BY <2>6 DEF AmqpStep, Amqp!Begin, Amqp!ReportOk, Amqp!ReportError, Amqp!Stop
    <3>3. QED
      BY <3>1, <3>2
  <2>7. CASE Main
    <3>1. CASE MainStarts
      BY <3>1 DEF MainStarts
    <3>2. CASE MainPanics \/ MainStopsReporter \/ MainExits
      BY <3>2 DEF MainPanics, MainStopsReporter, MainExits
    <3>3. CASE MainStopsAmqp
      BY <3>3 DEF MainStopsAmqp, Amqp!CallShutdown
    <3>4. QED
      BY <2>7, <3>1, <3>2, <3>3 DEF Main
  <2>8. CASE Signal
    BY <2>8 DEF Signal
  <2>9. CASE UNCHANGED vars
    BY <2>9 DEF vars
  <2>10. QED
    BY <2>1, <2>2, <2>3, <2>4, <2>5, <2>6, <2>7, <2>8, <2>9 DEF Next, Discord, World,
       GuildChanges
<1>3. QED
  BY <1>1, <1>2, PTL DEF Spec

(* The reporter outlives the manager and leaves nothing behind.            *)
THEOREM ReporterIsLast == Spec => []ReporterOutlivesManager
<1>1. OrderOfTasks => ReporterOutlivesManager
  BY DEF OrderOfTasks, ReporterOutlivesManager
<1>2. QED
  BY <1>1, OrderOfTasksHolds, PTL

-----------------------------------------------------------------------------
(* Only events the reporter is to be told of are kept back.                *)
THEOREM ChatFlows == Spec => []ChatIsNeverRefused
<1>1. Init => ChatIsNeverRefused
  BY DEF Init, ChatIsNeverRefused
<1>2. OrderOfTasks /\ ChatIsNeverRefused /\ [Next]_vars => ChatIsNeverRefused'
  <2> SUFFICES ASSUME OrderOfTasks, ChatIsNeverRefused, [Next]_vars
               PROVE  ChatIsNeverRefused'
    OBVIOUS
  <2> USE DEF ChatIsNeverRefused, pathVars
  <2>1. ASSUME NEW m, HandleMessage(m)
        PROVE  ChatIsNeverRefused'
    <3>1. amqpPhase # "done"
      BY <2>1 DEF HandleMessage, OrderOfTasks
    <3>2. refused' = IF IsDispatch(m) /\ Refused(m) THEN refused \union {m.kind} ELSE refused
      BY <2>1, <3>1 DEF HandleMessage
    <3>3. Refused(m) => m.kind # "Chat"
      BY DEF Refused, ReporterKinds
    <3>4. QED
      BY <3>2, <3>3
  <2>2. CASE Connects \/ Delivers \/ AcksHeartbeat \/ AnswersClose \/ LosesConnection
    BY <2>1, <2>2 DEF Connects, Delivers, AcksHeartbeat, AnswersClose, LosesConnection
  <2>3. CASE UNCHANGED pathVars
    BY <2>3
  <2>4. QED
    BY <2>2, <2>3 DEF Next, Reporter, Manager, ManagerStarts, ManagerCloses, StreamEnds,
         Discord, Identifies, Resumes, World, Chats, GuildChanges, Joins, Leaves,
         OutageBegins, OutageEnds, Happens, AmqpStep, Main,
         MainStarts, MainPanics, MainStopsReporter, MainStopsAmqp, MainExits, Signal, vars
<1>3. QED
  BY <1>1, <1>2, OrderOfTasksHolds, PTL DEF Spec
-----------------------------------------------------------------------------
(* Types. *)

LEMMA ShardTyped ==
    ASSUME ReporterTypeOK, NEW m \in Message, m.kind \in ReporterKinds
    PROVE  GuildsAfter(m) \subseteq Guilds /\ ShardAfter(m) \in ShardState
<1>1. GuildsAfter(m) \subseteq Guilds
  BY DEF ReporterTypeOK, GuildsAfter, Message
<1>2. Cardinality(GuildsAfter(m)) \in Nat
  BY <1>1, GuildsCounted
<1>3. shard \in ShardState
  BY DEF ReporterTypeOK
<1>4. ShardAfter(m) \in ShardState
  BY <1>2, <1>3 DEF ShardAfter, ShardState, ReporterKinds
<1>5. QED
  BY <1>1, <1>4

LEMMA InboxTyped ==
    ASSUME NEW m \in Message, ReporterTypeOK, TrySend(m)
    PROVE  /\ inbox' \in Seq(Message) /\ Len(inbox') <= Capacity
           /\ \A i \in DOMAIN inbox' : inbox'[i].kind \in ReporterKinds
<1>1. /\ inbox \in Seq(Message) /\ Len(inbox) <= Capacity
      /\ \A i \in DOMAIN inbox : inbox[i].kind \in ReporterKinds
  BY DEF ReporterTypeOK
<1>2. CASE inbox' = inbox
  BY <1>1, <1>2
<1>3. CASE inbox' = Append(inbox, m) /\ m.kind \in ReporterKinds /\ Len(inbox) # Capacity
  <2>1. Len(inbox') = Len(inbox) + 1 /\ inbox' \in Seq(Message)
    BY <1>1, <1>3
  <2>2. \A i \in 1..Len(inbox') : inbox'[i] = IF i <= Len(inbox) THEN inbox[i] ELSE m
    BY <1>1, <1>3
  <2>3. QED
    BY <1>1, <1>3, <2>1, <2>2, ReporterAssumption
<1>4. QED
  BY <1>2, <1>3 DEF TrySend, Refused

LEMMA ReporterStepTyped ==
    ASSUME ReporterTypeOK, ReporterStep
    PROVE  ReporterTypeOK'
<1> USE DEF ReporterTypeOK
<1>1. CASE HandleEvent
  <2>1. Head(inbox) \in Message /\ Head(inbox).kind \in ReporterKinds
    BY <1>1 DEF HandleEvent
  <2>2. guild_ids' \subseteq Guilds /\ shard' \in ShardState
    BY <1>1, <2>1, ShardTyped DEF HandleEvent
  <2>3. /\ inbox' \in Seq(Message) /\ Len(inbox') <= Capacity
        /\ \A i \in DOMAIN inbox' : inbox'[i].kind \in ReporterKinds
    <3>1. inbox # <<>> /\ inbox' = Tail(inbox)
      BY <1>1 DEF HandleEvent
    <3>2. Len(inbox') = Len(inbox) - 1 /\ inbox' \in Seq(Message)
      BY <3>1
    <3>3. \A i \in 1..Len(inbox') : i + 1 \in DOMAIN inbox /\ inbox'[i] = inbox[i + 1]
      BY <3>1
    <3>4. DOMAIN inbox' = 1..Len(inbox') /\ Len(inbox) \in Nat
      BY <3>2
    <3>5. \A i \in DOMAIN inbox' : inbox'[i].kind \in ReporterKinds
      BY <3>3, <3>4
    <3>6. Len(inbox') <= Capacity
      BY <3>2, <3>4, ReporterAssumption
    <3>7. QED
      BY <3>2, <3>5, <3>6
  <2>4. QED
    BY <1>1, <2>2, <2>3 DEF HandleEvent
<1>2. CASE SaveOk \/ SaveFails
  BY <1>2 DEF SaveOk, SaveFails
<1>3. CASE CloseInbox \/ ReporterEnds
  BY <1>3 DEF CloseInbox, ReporterEnds
<1>4. QED
  BY <1>1, <1>2, <1>3 DEF ReporterStep

LEMMA EmptySequence == <<>> \in Seq(Message)
OBVIOUS

LEMMA PlainTyped ==
    ASSUME NEW kind \in Kinds
    PROVE  Plain(kind) \in Message
BY DEF Plain, Message

LEMMA DispatchTyped ==
    ASSUME NEW kind \in DispatchKinds, NEW n \in Nat, NEW gs \in SUBSET Guilds
    PROVE  Dispatch(kind, n, gs) \in Message
BY DEF Dispatch, Message, Kinds

\* The messages the manager handles in a step, if it handles one.
LEMMA StepHandles ==
    ASSUME DataTypeOK, [Next]_vars
    PROVE  \/ \E m \in Message : HandleMessage(m) /\ Unhandled
           \/ UNCHANGED <<inbox, pathVars>>
           \/ Reporter
<1>1. Plain("Hello") \in Message /\ Plain("HeartbeatAck") \in Message
      /\ Plain("Close") \in Message
  BY PlainTyped DEF Kinds
<1>2. CASE Delivers
  <2>1. Head(pending) \in Message
    BY <1>2 DEF Delivers, DataTypeOK
  <2>2. QED
    BY <1>2, <2>1 DEF Delivers
<1>3. CASE Connects \/ AcksHeartbeat \/ AnswersClose \/ LosesConnection
  BY <1>1, <1>3 DEF Connects, AcksHeartbeat, AnswersClose, LosesConnection
<1>4. CASE Manager \/ Identifies \/ Resumes \/ Chats \/ AmqpStep \/ Main \/ Signal
  BY <1>4 DEF Manager, ManagerStarts, ManagerCloses, StreamEnds, Identifies, Resumes,
              Chats, Happens, AmqpStep, Main, MainStarts, MainPanics, MainStopsReporter,
              MainStopsAmqp, MainExits, Signal, reporterVars
<1>5. CASE \E g \in Guilds : GuildChanges(g)
  BY <1>5 DEF GuildChanges, Joins, Leaves, OutageBegins, OutageEnds, Happens, reporterVars
<1>6. CASE UNCHANGED vars
  BY <1>6 DEF vars, reporterVars
<1>7. QED
  BY <1>2, <1>3, <1>4, <1>5, <1>6 DEF Next, Discord, World, GuildChanges

LEMMA ControlPreserved ==
    ASSUME ControlTypeOK, [Next]_vars
    PROVE  ControlTypeOK'
BY DEF ControlTypeOK, Next, Reporter, Manager, ManagerStarts, ManagerCloses, StreamEnds,
       Discord, Connects, Identifies, Resumes, Delivers, AcksHeartbeat, AnswersClose,
       HandleMessage, Unhandled, World, GuildChanges, Joins, Leaves, OutageBegins,
       OutageEnds, Chats, Happens, LosesConnection,
       AmqpStep, Main, MainStarts, MainPanics, MainStopsReporter, MainStopsAmqp, MainExits,
       Signal, vars, managerVars, sessionVars

LEMMA FlagsPreserved ==
    ASSUME FlagTypeOK, [Next]_vars
    PROVE  FlagTypeOK'
BY DEF FlagTypeOK, Next, Reporter, Manager, ManagerStarts, ManagerCloses, StreamEnds,
       Discord, Connects, Identifies, Resumes, Delivers, AcksHeartbeat, AnswersClose,
       Unhandled, World, GuildChanges, Joins, Leaves, OutageBegins, OutageEnds, Chats,
       Happens, LosesConnection,
       AmqpStep, Main, MainStarts, MainPanics, MainStopsReporter, MainStopsAmqp, MainExits,
       Signal, vars, managerVars, sessionVars

LEMMA PathPreserved ==
    ASSUME DataTypeOK, [Next]_vars
    PROVE  lastForwarded' \in Nat /\ lastNoted' \in Nat /\ refused' \subseteq DispatchKinds
<1>1. ASSUME NEW m \in Message, HandleMessage(m)
      PROVE  lastForwarded' \in Nat /\ lastNoted' \in Nat /\ refused' \subseteq DispatchKinds
  <2>1. m.seq \in Nat
    BY DEF Message
  <2>2. QED
    BY <1>1, <2>1 DEF HandleMessage, DataTypeOK, IsDispatch
<1>2. CASE UNCHANGED pathVars
  BY <1>2 DEF pathVars, DataTypeOK
<1>3. Reporter => UNCHANGED pathVars
  BY DEF Reporter
<1>4. QED
  BY <1>1, <1>2, <1>3, StepHandles

\* A sequence of the messages f makes of 1..n.
LEMMA MessagesOf ==
    ASSUME NEW n \in Nat, NEW f \in [1..n -> Message]
    PROVE  f \in Seq(Message) /\ Len(f) = n
<1>1. f \in Seq(Message)
  BY SeqDef
<1>2. QED
  BY <1>1, LenProperties

\* What a new session has to say: the messages are numbered one by one.
LEMMA SessionTyped ==
    ASSUME DataTypeOK, Identifies
    PROVE  /\ pending' \in Seq(Message) /\ produced' \in Nat
           /\ produced' = produced + Len(pending')
           /\ \A i \in 1..Len(pending') :
                 pending'[i].seq = produced + i /\ IsDispatch(pending'[i])
<1>0. /\ produced \in Nat /\ member \subseteq Guilds
      /\ produced' = produced + 1 + Cardinality(member)
  BY DEF DataTypeOK, Identifies
<1>1. PICK order \in [1..Cardinality(member) -> member], missing \in SUBSET out :
         pending' = <<Dispatch("Ready", produced + 1, member)>>
            \o [i \in DOMAIN order |->
                  Dispatch(IF order[i] \in missing THEN "GuildDelete" ELSE "GuildCreate",
                           produced + 1 + i, {order[i]})]
  BY DEF Identifies
<1> DEFINE n == Cardinality(member)
           ready == Dispatch("Ready", produced + 1, member)
           kind(i) == IF order[i] \in missing THEN "GuildDelete" ELSE "GuildCreate"
           news == [i \in 1..n |-> Dispatch(kind(i), produced + 1 + i, {order[i]})]
<1>2. n \in Nat
  BY <1>0, GuildsCounted
<1>3. ready \in Message /\ ready.seq = produced + 1 /\ IsDispatch(ready)
  BY <1>0, DispatchTyped DEF DispatchKinds, Dispatch, IsDispatch
<1>4. ASSUME NEW i \in 1..n
      PROVE  Dispatch(kind(i), produced + 1 + i, {order[i]}) \in Message
  <2>1. order[i] \in Guilds /\ produced + 1 + i \in Nat /\ kind(i) \in DispatchKinds
    BY <1>0, <1>1, <1>2, <1>4 DEF DispatchKinds
  <2> HIDE DEF kind
  <2>2. QED
    BY <2>1, DispatchTyped
<1>5. news \in Seq(Message) /\ Len(news) = n
  <2>1. news \in [1..n -> Message]
    BY <1>4
  <2>2. QED
    BY <1>2, <2>1, MessagesOf
<1>6. pending' = <<ready>> \o news
  BY <1>1
<1>7. \A i \in 1..n : news[i].seq = produced + 1 + i /\ IsDispatch(news[i])
  BY DEF Dispatch, DispatchKinds, IsDispatch
<1> HIDE DEF news, ready, n
<1>8. <<ready>> \in Seq(Message) /\ Len(<<ready>>) = 1 /\ <<ready>>[1] = ready
  BY <1>3
<1>9. pending' \in Seq(Message) /\ Len(pending') = 1 + n
  BY <1>2, <1>5, <1>6, <1>8
<1>10. ASSUME NEW i \in 1..Len(pending')
       PROVE  pending'[i].seq = produced + i /\ IsDispatch(pending'[i])
  <2>1. CASE i = 1
    <3>1. pending'[1] = ready
      BY <1>5, <1>6, <1>8
    <3>2. QED
      BY <1>3, <2>1, <3>1
  <2>2. CASE i # 1
    <3>1. i - 1 \in 1..n /\ i = 1 + (i - 1)
      BY <1>2, <1>9, <2>2
    <3>2. pending'[i] = news[i - 1]
      BY <1>2, <1>5, <1>6, <1>8, <1>9, <2>2
    <3>3. news[i - 1].seq = produced + 1 + (i - 1) /\ IsDispatch(news[i - 1])
      BY <1>7, <3>1
    <3>4. QED
      BY <1>0, <3>1, <3>2, <3>3
  <2>3. QED
    BY <2>1, <2>2
<1>11. produced' \in Nat /\ produced' = produced + Len(pending')
  <2>1. produced' = produced + 1 + n
    BY <1>0 DEF n
  <2>2. QED
    BY <1>0, <1>2, <1>9, <2>1
<1>12. QED
  BY <1>9, <1>10, <1>11

LEMMA WorldPreserved ==
    ASSUME DataTypeOK, [Next]_vars
    PROVE  /\ pending' \in Seq(Message) /\ member' \subseteq Guilds /\ out' \subseteq member'
           /\ produced' \in Nat /\ events' \in Nat /\ losses' \in Nat /\ identified' \in Nat
<1> USE DEF DataTypeOK
<1>1. CASE Reporter \/ Manager \/ AmqpStep \/ Main \/ Signal \/ UNCHANGED vars
  BY <1>1 DEF Reporter, Manager, ManagerStarts, ManagerCloses, StreamEnds, AmqpStep, Main,
              MainStarts, MainPanics, MainStopsReporter, MainStopsAmqp, MainExits, Signal,
              vars, sessionVars, worldVars
<1>2. CASE Connects \/ AcksHeartbeat \/ AnswersClose
  BY <1>2 DEF Connects, AcksHeartbeat, AnswersClose, sessionVars, worldVars
<1>3. CASE Delivers
  BY <1>3 DEF Delivers, worldVars
<1>4. CASE LosesConnection
  <2>1. /\ pending' \in {pending, <<>>} /\ losses' = losses + 1
        /\ UNCHANGED <<produced, identified, member, out, events>>
    BY <1>4 DEF LosesConnection, worldVars
  <2>2. pending' \in Seq(Message)
    BY <2>1, EmptySequence
  <2>3. QED
    BY <2>1, <2>2
<1>5. CASE Identifies
  <2>1. pending' \in Seq(Message) /\ produced' \in Nat
    BY <1>5, SessionTyped
  <2>2. identified' = identified + 1 /\ UNCHANGED <<losses, member, out, events>>
    BY <1>5 DEF Identifies, worldVars
  <2>3. QED
    BY <2>1, <2>2
<1>6. CASE Resumes
  <2>1. Dispatch("Resumed", produced + 1, {}) \in Message
    BY DispatchTyped DEF DispatchKinds
  <2>2. QED
    BY <1>6, <2>1 DEF Resumes, worldVars
<1>7. ASSUME NEW kind \in DispatchKinds, NEW gs \in SUBSET Guilds, Happens(kind, gs),
             member' \subseteq Guilds, out' \subseteq member'
      PROVE  /\ pending' \in Seq(Message) /\ member' \subseteq Guilds /\ out' \subseteq member'
             /\ produced' \in Nat /\ events' \in Nat /\ losses' \in Nat
             /\ identified' \in Nat
  <2>1. Dispatch(kind, produced + 1, gs) \in Message
    BY DispatchTyped
  <2>2. QED
    BY <1>7, <2>1 DEF Happens
<1>8. CASE Chats
  BY <1>7, <1>8 DEF Chats, DispatchKinds
<1>9. ASSUME NEW g \in Guilds, GuildChanges(g)
      PROVE  /\ pending' \in Seq(Message) /\ member' \subseteq Guilds /\ out' \subseteq member'
             /\ produced' \in Nat /\ events' \in Nat /\ losses' \in Nat
             /\ identified' \in Nat
  <2>1. member' \subseteq Guilds /\ out' \subseteq member' /\ {g} \in SUBSET Guilds
    BY <1>9 DEF GuildChanges, Joins, Leaves, OutageBegins, OutageEnds
  <2>2. QED
    BY <1>7, <1>9, <2>1 DEF GuildChanges, Joins, Leaves, OutageBegins, OutageEnds,
       DispatchKinds
<1>10. QED
  BY <1>1, <1>2, <1>3, <1>4, <1>5, <1>6, <1>8, <1>9 DEF Next, Discord, World, GuildChanges

LEMMA ReporterPreserved ==
    ASSUME ReporterTypeOK, DataTypeOK, [Next]_vars
    PROVE  ReporterTypeOK'
<1>1. ASSUME NEW m \in Message, HandleMessage(m), Unhandled
      PROVE  ReporterTypeOK'
  <2>1. /\ inbox' \in Seq(Message) /\ Len(inbox') <= Capacity
        /\ \A i \in DOMAIN inbox' : inbox'[i].kind \in ReporterKinds
    BY <1>1, InboxTyped DEF HandleMessage
  <2>2. QED
    BY <1>1, <2>1 DEF Unhandled, ReporterTypeOK
<1>2. CASE Reporter
  BY <1>2, ReporterStepTyped DEF Reporter
<1>3. CASE MainStopsReporter
  BY <1>3 DEF MainStopsReporter, ReporterTypeOK
<1>4. CASE UNCHANGED reporterVars
  BY <1>4 DEF reporterVars, ReporterTypeOK
<1>5. \/ UNCHANGED reporterVars \/ Reporter \/ MainStopsReporter
      \/ \E m \in Message : HandleMessage(m) /\ Unhandled
  <2>1. Plain("Hello") \in Message /\ Plain("HeartbeatAck") \in Message
        /\ Plain("Close") \in Message
    BY PlainTyped DEF Kinds
  <2>2. Delivers => Head(pending) \in Message
    BY DEF Delivers, DataTypeOK
  <2>3. CASE Connects \/ Delivers \/ AcksHeartbeat \/ AnswersClose \/ LosesConnection
    BY <2>1, <2>2, <2>3 DEF Connects, Delivers, AcksHeartbeat, AnswersClose, LosesConnection
  <2>4. QED
    BY <2>3 DEF Next, Discord, World, Manager, ManagerStarts, ManagerCloses, StreamEnds,
         Identifies, Resumes, Chats, GuildChanges, Joins, Leaves, OutageBegins, OutageEnds,
         Happens, AmqpStep, Main, MainStarts,
         MainPanics, MainStopsAmqp, MainExits, Signal, vars
<1>6. QED
  BY <1>1, <1>2, <1>3, <1>4, <1>5

(* Every variable of the gateway keeps its type, for any bounds.           *)
THEOREM TypeCorrect == Spec => []TypeOK
<1>1. Init => TypeOK
  <2> SUFFICES ASSUME Init PROVE TypeOK
    OBVIOUS
  <2>1. ReporterTypeOK
    <3>1. inbox \in Seq(Message) /\ Len(inbox) <= Capacity /\ DOMAIN inbox = {}
      BY EmptySequence, ReporterAssumption DEF Init, ReporterInit
    <3>2. shard \in ShardState /\ redis \in ShardState
      BY DEF Init, ReporterInit, NewShard, ShardState
    <3>3. QED
      BY <3>1, <3>2 DEF Init, ReporterInit, ReporterTypeOK
  <2>2. ControlTypeOK /\ FlagTypeOK
    BY DEF Init, ControlTypeOK, FlagTypeOK
  <2>3. DataTypeOK
    BY EmptySequence DEF Init, DataTypeOK
  <2>4. QED
    BY <2>1, <2>2, <2>3 DEF TypeOK, GatewayTypeOK
<1>2. TypeOK /\ [Next]_vars => TypeOK'
  <2> SUFFICES ASSUME TypeOK, [Next]_vars PROVE TypeOK'
    OBVIOUS
  <2>1. DataTypeOK'
    BY PathPreserved, WorldPreserved DEF TypeOK, GatewayTypeOK, DataTypeOK
  <2>2. QED
    BY <2>1, ControlPreserved, FlagsPreserved, ReporterPreserved DEF TypeOK, GatewayTypeOK
<1>3. QED
  BY <1>1, <1>2, PTL DEF Spec

-----------------------------------------------------------------------------
LEMMA AppendToInbox ==
    ASSUME NEW m, ReporterTypeOK, TrySend(m)
    PROVE  /\ inbox # <<>> => inbox' # <<>> /\ Head(inbox') = Head(inbox)
           /\ (inbox = <<>> /\ inboxOpen /\ m.kind \in ReporterKinds)
                 => inbox' # <<>> /\ Head(inbox') = m
<1>1. inbox \in Seq(Message)
  BY DEF ReporterTypeOK
<1>2. CASE inbox' = inbox /\ Refused(m)
  BY <1>1, <1>2, ReporterAssumption DEF Refused
<1>3. CASE inbox' = inbox /\ m.kind \notin ReporterKinds
  BY <1>1, <1>3
<1>4. CASE inbox' = Append(inbox, m)
  BY <1>1, <1>4
<1>5. QED
  BY <1>2, <1>3, <1>4 DEF TrySend

(* The first event the reporter takes is the hello of the first connection: *)
(* the channel is open and has room for it.                                 *)
HelloComesFirst ==
    shard.heartbeat_interval = 0 =>
        \/ inbox = <<>> /\ link = "down"
        \/ inbox # <<>> /\ Head(inbox).kind = "Hello"

LEMMA HandledEvent ==
    ASSUME ReporterTypeOK, HelloComesFirst, inbox # <<>>
    PROVE  ShardAfter(Head(inbox)).heartbeat_interval # 0
<1>1. Head(inbox).kind \in ReporterKinds /\ shard \in ShardState
  BY DEF ReporterTypeOK
<1>2. CASE Head(inbox).kind = "Hello"
  BY <1>1, <1>2 DEF ShardAfter, ShardState
<1>3. CASE Head(inbox).kind # "Hello"
  <2>1. shard.heartbeat_interval # 0
    BY <1>3 DEF HelloComesFirst
  <2>2. QED
    BY <1>1, <1>3, <2>1 DEF ShardAfter, ShardState, ReporterKinds
<1>4. QED
  BY <1>2, <1>3

LEMMA HelloComesFirstHolds == Spec => []HelloComesFirst
<1>1. Init => HelloComesFirst
  BY DEF Init, ReporterInit, HelloComesFirst
<1>2. TypeOK /\ OrderOfTasks /\ HelloComesFirst /\ [Next]_vars => HelloComesFirst'
  <2> SUFFICES ASSUME TypeOK, OrderOfTasks, HelloComesFirst, [Next]_vars
               PROVE  HelloComesFirst'
    OBVIOUS
  <2> USE DEF HelloComesFirst
  <2>0. ReporterTypeOK /\ shard \in ShardState
    BY DEF TypeOK, ReporterTypeOK
  <2>1. CASE Connects
    <3>1. TrySend(Plain("Hello")) /\ inboxOpen /\ UNCHANGED shard
      BY <2>1 DEF Connects, HandleMessage, Unhandled, OrderOfTasks, Polling
    <3>2. Plain("Hello").kind = "Hello" /\ "Hello" \in ReporterKinds
      BY DEF Plain, ReporterKinds
    <3>3. QED
      BY <2>0, <3>1, <3>2, AppendToInbox
  <2>2. CASE Delivers \/ AcksHeartbeat \/ AnswersClose \/ LosesConnection
    <3>1. link # "down" /\ UNCHANGED shard /\ \E m : TrySend(m)
      BY <2>2 DEF Delivers, AcksHeartbeat, AnswersClose, LosesConnection, HandleMessage,
                  Unhandled
    <3>2. QED
      BY <2>0, <3>1, AppendToInbox
  <2>3. CASE Reporter
    <3>1. CASE HandleEvent
      <4>1. inbox # <<>> /\ shard' = ShardAfter(Head(inbox))
        BY <3>1 DEF HandleEvent
      <4>2. shard'.heartbeat_interval # 0
        BY <2>0, <4>1, HandledEvent
      <4>3. QED
        BY <4>2
    <3>2. CASE SaveOk \/ SaveFails \/ CloseInbox \/ ReporterEnds
      BY <2>3, <3>2 DEF SaveOk, SaveFails, CloseInbox, ReporterEnds, Reporter, sessionVars
    <3>3. QED
      BY <2>3, <3>1, <3>2 DEF Reporter, ReporterStep
  <2>4. CASE Identifies \/ Resumes
    <3>1. link # "down" /\ UNCHANGED <<inbox, shard>>
      BY <2>4 DEF Identifies, Resumes, reporterVars
    <3>2. QED
      BY <3>1
  <2>5. CASE (World /\ ~LosesConnection) \/ Manager \/ AmqpStep \/ Main \/ Signal \/ UNCHANGED vars
    <3>1. UNCHANGED <<inbox, shard>> /\ (link' = link \/ link' = "down")
      BY <2>5 DEF World, Manager, ManagerStarts, ManagerCloses, StreamEnds, Chats,
         GuildChanges, Joins, Leaves, OutageBegins, OutageEnds,
         Happens, AmqpStep, Main, MainStarts, MainPanics, MainStopsReporter, MainStopsAmqp,
         MainExits, Signal, vars, reporterVars, sessionVars
    <3>2. QED
      BY <3>1
  <2> QED
    BY <2>1, <2>2, <2>3, <2>4, <2>5 DEF Discord, Next
<1>3. QED
  BY <1>1, <1>2, TypeCorrect, OrderOfTasksHolds, PTL DEF Spec

(* No record that says the shard is up goes to redis before the heartbeat  *)
(* interval is known, so a reader can tell how old it is.                   *)
UsableRecords ==
    /\ HelloComesFirst
    /\ shard.up => shard.heartbeat_interval # 0
    /\ UpRecordIsUsable

THEOREM RecordsAreUsable == Spec => []UpRecordIsUsable
<1>1. Init => UsableRecords
  BY DEF Init, ReporterInit, UsableRecords, UpRecordIsUsable, HelloComesFirst, NewShard
<1>2. TypeOK /\ HelloComesFirst' /\ UsableRecords /\ [Next]_vars => UsableRecords'
  <2> SUFFICES ASSUME TypeOK, HelloComesFirst', UsableRecords, [Next]_vars
               PROVE  UsableRecords'
    OBVIOUS
  <2> USE DEF UsableRecords, UpRecordIsUsable
  <2>0. shard \in ShardState
    BY DEF TypeOK, ReporterTypeOK
  <2>1. CASE HandleEvent
    <3>1. /\ inbox # <<>> /\ shard' = ShardAfter(Head(inbox))
          /\ UNCHANGED <<redis, lastSave>>
      BY <2>1 DEF HandleEvent
    <3>2. shard'.heartbeat_interval # 0
      BY <3>1, HandledEvent DEF TypeOK
    <3>3. QED
      BY <3>1, <3>2
  <2>2. CASE SaveOk \/ SaveFails
    BY <2>2 DEF SaveOk, SaveFails
  <2>3. CASE UNCHANGED <<shard, redis, lastSave>>
    BY <2>3
  <2>4. UNCHANGED <<shard, redis, lastSave>> \/ HandleEvent \/ SaveOk \/ SaveFails
    BY DEF Next, Discord, World, Reporter, ReporterStep, CloseInbox, ReporterEnds, Connects,
       Delivers, AcksHeartbeat, AnswersClose, LosesConnection, Unhandled, Identifies,
       Resumes,
       Manager, ManagerStarts, ManagerCloses, StreamEnds, Chats, GuildChanges, Joins,
       Leaves, OutageBegins, OutageEnds, Happens,
       AmqpStep, Main, MainStarts, MainPanics, MainStopsReporter, MainStopsAmqp, MainExits,
       Signal, vars, reporterVars
  <2>5. QED
    BY <2>1, <2>2, <2>3, <2>4
<1>3. UsableRecords => UpRecordIsUsable
  BY DEF UsableRecords
<1>4. QED
  BY <1>1, <1>2, <1>3, TypeCorrect, HelloComesFirstHolds, PTL DEF Spec

-----------------------------------------------------------------------------
(* What the session has still to say comes after all that was noted or     *)
(* forwarded, in order.                                                     *)
InOrder ==
    /\ lastNoted <= lastForwarded /\ lastForwarded <= produced
    /\ \A i \in DOMAIN pending : lastForwarded < pending[i].seq /\ pending[i].seq <= produced
    /\ \A i, j \in DOMAIN pending : i < j => pending[i].seq < pending[j].seq

LEMMA HandledInOrder ==
    ASSUME TypeOK, OrderOfTasks, InOrder, NEW m \in Message, HandleMessage(m),
           IsDispatch(m) => lastForwarded <= m.seq
    PROVE  /\ lastNoted' <= lastForwarded' /\ lastForwarded' \in {lastForwarded, m.seq}
           /\ ~IsDispatch(m) => lastForwarded' = lastForwarded
<1>1. amqpPhase # "done"
  BY DEF HandleMessage, OrderOfTasks
<1>2. lastNoted \in Nat /\ lastForwarded \in Nat /\ m.seq \in Nat
  BY DEF TypeOK, GatewayTypeOK, DataTypeOK, Message
<1>3. QED
  BY <1>1, <1>2 DEF HandleMessage, InOrder

LEMMA InOrderHolds == Spec => []InOrder
<1>1. Init => InOrder
  BY DEF Init, InOrder
<1>2. TypeOK /\ TypeOK' /\ OrderOfTasks /\ InOrder /\ [Next]_vars => InOrder'
  <2> SUFFICES ASSUME TypeOK, TypeOK', OrderOfTasks, InOrder, [Next]_vars
               PROVE  InOrder'
    OBVIOUS
  <2>0. /\ pending \in Seq(Message) /\ produced \in Nat
        /\ lastNoted \in Nat /\ lastForwarded \in Nat
        /\ \A i \in DOMAIN pending : pending[i].seq \in Nat
    <3>1. /\ pending \in Seq(Message) /\ produced \in Nat
          /\ lastNoted \in Nat /\ lastForwarded \in Nat
      BY DEF TypeOK, GatewayTypeOK, DataTypeOK
    <3>2. \A i \in DOMAIN pending : pending[i] \in Message
      BY <3>1
    <3>3. QED
      BY <3>1, <3>2 DEF Message
  <2>1. CASE Connects \/ AcksHeartbeat \/ AnswersClose \/ LosesConnection
    <3>1. \E kind \in Kinds \ DispatchKinds : HandleMessage(Plain(kind))
      BY <2>1 DEF Connects, AcksHeartbeat, AnswersClose, LosesConnection, Kinds,
                  DispatchKinds
    <3>2. lastNoted' <= lastForwarded' /\ lastForwarded' = lastForwarded
      <4>1. PICK kind \in Kinds \ DispatchKinds : HandleMessage(Plain(kind))
        BY <3>1
      <4>2. Plain(kind) \in Message /\ ~IsDispatch(Plain(kind))
        BY PlainTyped DEF IsDispatch, Plain
      <4>3. QED
        BY <4>1, <4>2, HandledInOrder
    <3>3. produced' = produced /\ pending' \in {pending, <<>>}
      BY <2>1 DEF Connects, AcksHeartbeat, AnswersClose, LosesConnection, sessionVars
    <3>4. CASE pending' = pending
      BY <3>2, <3>3, <3>4 DEF InOrder
    <3>5. CASE pending' = <<>>
      BY <3>2, <3>3, <3>5 DEF InOrder
    <3>6. QED
      BY <3>3, <3>4, <3>5
  <2>2. CASE Delivers
    <3>1. /\ pending # <<>> /\ HandleMessage(Head(pending)) /\ pending' = Tail(pending)
          /\ produced' = produced
      BY <2>2 DEF Delivers
    <3>2. Head(pending) \in Message /\ Head(pending) = pending[1] /\ 1 \in DOMAIN pending
      BY <2>0, <3>1
    <3>3. lastForwarded < Head(pending).seq /\ Head(pending).seq <= produced
      BY <3>2 DEF InOrder
    <3>4. /\ lastNoted' <= lastForwarded'
          /\ lastForwarded' \in {lastForwarded, Head(pending).seq}
      BY <2>0, <3>1, <3>2, <3>3, HandledInOrder
    <3>5. \A i \in DOMAIN pending' : i + 1 \in DOMAIN pending /\ pending'[i] = pending[i + 1]
      BY <2>0, <3>1
    <3>6. \A i \in DOMAIN pending' : i \in Nat /\ 1 < i + 1
      BY <2>0, <3>1
    <3>7. \A i \in DOMAIN pending' :
             lastForwarded' < pending'[i].seq /\ pending'[i].seq <= produced'
      BY <2>0, <3>1, <3>2, <3>3, <3>4, <3>5, <3>6 DEF InOrder
    <3>8. \A i, j \in DOMAIN pending' : i < j => pending'[i].seq < pending'[j].seq
      BY <3>5, <3>6 DEF InOrder
    <3>9. lastForwarded' <= produced'
      BY <2>0, <3>1, <3>2, <3>3, <3>4 DEF InOrder
    <3>10. QED
      BY <3>4, <3>7, <3>8, <3>9 DEF InOrder
  <2>3. CASE Identifies
    <3>1. /\ pending' \in Seq(Message) /\ produced' = produced + Len(pending')
          /\ \A i \in 1..Len(pending') : pending'[i].seq = produced + i
      BY <2>3, SessionTyped DEF TypeOK, GatewayTypeOK
    <3>2. UNCHANGED <<lastNoted, lastForwarded>>
      BY <2>3 DEF Identifies, pathVars
    <3>3. DOMAIN pending' = 1..Len(pending') /\ Len(pending') \in Nat
      BY <3>1
    <3>4. QED
      BY <2>0, <3>1, <3>2, <3>3 DEF InOrder
  <2>4. ASSUME NEW kind \in DispatchKinds, NEW gs \in SUBSET Guilds,
               pending' = Append(pending, Dispatch(kind, produced + 1, gs)),
               produced' = produced + 1, UNCHANGED <<lastNoted, lastForwarded>>
        PROVE  InOrder'
    <3>1. Dispatch(kind, produced + 1, gs).seq = produced + 1
      BY DEF Dispatch
    <3>2. DOMAIN pending' = 1..Len(pending) + 1 /\ DOMAIN pending = 1..Len(pending)
          /\ Len(pending) \in Nat
      BY <2>0, <2>4
    <3>3. \A i \in DOMAIN pending' :
             pending'[i].seq = IF i = Len(pending) + 1 THEN produced + 1 ELSE pending[i].seq
      BY <2>0, <2>4, <3>1
    <3>4. QED
      BY <2>0, <2>4, <3>2, <3>3 DEF InOrder
  <2>5. CASE Resumes
    BY <2>4, <2>5 DEF Resumes, pathVars, DispatchKinds
  <2>6. ASSUME NEW kind \in DispatchKinds, NEW gs \in SUBSET Guilds, Happens(kind, gs)
        PROVE  InOrder'
    <3>1. CASE UNCHANGED <<pending, produced>>
      BY <2>6, <3>1 DEF Happens, InOrder, pathVars
    <3>2. QED
      BY <2>4, <2>6, <3>1 DEF Happens, pathVars
  <2>7. CASE Chats \/ \E g \in Guilds : GuildChanges(g)
    <3>1. \A g \in Guilds : {g} \in SUBSET Guilds
      OBVIOUS
    <3>2. QED
      BY <2>6, <2>7, <3>1 DEF Chats, GuildChanges, Joins, Leaves, OutageBegins, OutageEnds,
         DispatchKinds
  <2>8. CASE UNCHANGED <<pending, produced, lastNoted, lastForwarded>>
    BY <2>8 DEF InOrder
  <2>9. QED
    BY <2>1, <2>2, <2>3, <2>5, <2>7, <2>8 DEF Next, Discord, World, GuildChanges, Reporter,
       Manager,
       ManagerStarts, ManagerCloses, StreamEnds, AmqpStep, Main, MainStarts, MainPanics,
       MainStopsReporter, MainStopsAmqp, MainExits, Signal, vars, sessionVars, pathVars
<1>3. QED
  BY <1>1, <1>2, TypeCorrect, OrderOfTasksHolds, PTL DEF Spec

(* What the reporter counts, the handler hears of.                         *)
THEOREM NotedForwarded == Spec => []NotedIsForwarded
<1>1. InOrder => NotedIsForwarded
  BY DEF InOrder, NotedIsForwarded
<1>2. QED
  BY <1>1, InOrderHolds, PTL

-----------------------------------------------------------------------------
(* What the reporter knows. *)

\* The count is right at every moment, also while it is not saved; a handler
\* that returns before it saves therefore changed nothing.
CountIsRight == shard.guild_count = Cardinality(guild_ids)

LEMMA HandledCount ==
    ASSUME ReporterTypeOK, CountIsRight, inbox # <<>>
    PROVE  /\ ShardAfter(Head(inbox)).guild_count = Cardinality(GuildsAfter(Head(inbox)))
           /\ NothingToSave(Head(inbox)) => /\ GuildsAfter(Head(inbox)) = guild_ids
                                           /\ ShardAfter(Head(inbox)) = shard
<1> DEFINE m == Head(inbox)
<1>1. m.kind \in ReporterKinds /\ shard \in ShardState
  BY DEF ReporterTypeOK
<1> HIDE DEF m
<1>2. CASE m.kind \in {"Hello", "Resumed", "HeartbeatAck"}
  <2>1. GuildsAfter(m) = guild_ids /\ ~NothingToSave(m)
    BY <1>2 DEF GuildsAfter, NothingToSave
  <2>2. ShardAfter(m) \in {[shard EXCEPT !.heartbeat_interval = 1], [shard EXCEPT !.up = TRUE]}
    BY <1>2 DEF ShardAfter
  <2>3. ShardAfter(m).guild_count = shard.guild_count
    BY <1>1, <2>2 DEF ShardState
  <2> QED
    BY <2>1, <2>3 DEF CountIsRight, m
<1>3. CASE m.kind = "Ready"
  <2>1. ShardAfter(m) = [shard EXCEPT !.up = TRUE, !.guild_count = Cardinality(GuildsAfter(m))]
    BY <1>3 DEF ShardAfter
  <2>2. ~NothingToSave(m)
    BY <1>3 DEF NothingToSave
  <2> QED
    BY <1>1, <2>1, <2>2 DEF ShardState, m
<1>4. CASE m.kind \in {"GuildCreate", "GuildDelete"}
  <2>1. ShardAfter(m) = [shard EXCEPT !.guild_count = Cardinality(GuildsAfter(m))]
    BY <1>4 DEF ShardAfter
  <2>2. shard = [shard EXCEPT !.guild_count = shard.guild_count]
    BY <1>1 DEF ShardState
  <2>3. NothingToSave(m) => GuildsAfter(m) = guild_ids
    BY DEF NothingToSave
  <2> QED
    BY <1>1, <2>1, <2>2, <2>3 DEF ShardState, CountIsRight, m
<1> QED
  BY <1>1, <1>2, <1>3, <1>4 DEF ReporterKinds, m

(* What redis holds is what the reporter knows, unless the last write failed *)
(* or is under way.                                                          *)
THEOREM RecordsAreCurrent == Spec => []RecordIsCurrent
<1>1. Init => CountIsRight /\ RecordIsCurrent
  BY FS_EmptySet DEF Init, ReporterInit, NewShard, CountIsRight, RecordIsCurrent
<1>2. TypeOK /\ CountIsRight /\ RecordIsCurrent /\ [Next]_vars
          => CountIsRight' /\ RecordIsCurrent'
  <2> SUFFICES ASSUME TypeOK, CountIsRight, RecordIsCurrent, [Next]_vars
               PROVE  CountIsRight' /\ RecordIsCurrent'
    OBVIOUS
  <2>1. CASE HandleEvent
    <3>1. /\ inbox # <<>> /\ reporting = "running"
          /\ guild_ids' = GuildsAfter(Head(inbox)) /\ shard' = ShardAfter(Head(inbox))
          /\ reporting' = IF NothingToSave(Head(inbox)) THEN "running" ELSE "saving"
          /\ UNCHANGED <<redis, lastSave>>
      BY <2>1 DEF HandleEvent
    <3>2. CountIsRight'
      BY <3>1, HandledCount DEF TypeOK, CountIsRight
    <3>3. NothingToSave(Head(inbox)) => guild_ids' = guild_ids /\ shard' = shard
      BY <3>1, HandledCount DEF TypeOK
    <3> QED
      BY <3>1, <3>2, <3>3 DEF RecordIsCurrent
  <2>2. CASE SaveOk \/ SaveFails
    BY <2>2 DEF SaveOk, SaveFails, CountIsRight, RecordIsCurrent
  <2>3. CASE UNCHANGED <<guild_ids, shard, redis, lastSave>> /\ (reporting' = "saving" <=> reporting = "saving")
    BY <2>3 DEF CountIsRight, RecordIsCurrent
  <2>4. \/ UNCHANGED <<guild_ids, shard, redis, lastSave>> /\ (reporting' = "saving" <=> reporting = "saving")
        \/ HandleEvent \/ SaveOk \/ SaveFails
    BY DEF Next, Discord, World, Reporter, ReporterStep, CloseInbox, ReporterEnds, Connects,
       Delivers, AcksHeartbeat, AnswersClose, LosesConnection, Unhandled, Identifies,
       Resumes,
       Manager, ManagerStarts, ManagerCloses, StreamEnds, Chats, GuildChanges, Joins,
       Leaves, OutageBegins, OutageEnds, Happens,
       AmqpStep, Main, MainStarts, MainPanics, MainStopsReporter, MainStopsAmqp, MainExits,
       Signal, vars, reporterVars
  <2> QED
    BY <2>1, <2>2, <2>3, <2>4
<1> QED
  BY <1>1, <1>2, TypeCorrect, PTL DEF Spec

-----------------------------------------------------------------------------
(***************************************************************************)
(* The guilds the reporter knows are those the bot is in.                  *)
(***************************************************************************)

(* Sequences of messages, as what is in them. *)

LEMMA AppendedMessage ==
    ASSUME NEW s \in Seq(Message), NEW m \in Message
    PROVE  /\ Len(s) \in Nat /\ DOMAIN s = 1..Len(s)
           /\ DOMAIN Append(s, m) = 1..(Len(s) + 1)
           /\ \A i \in DOMAIN s : Append(s, m)[i] = s[i] /\ s[i] \in Message
           /\ Append(s, m)[Len(s) + 1] = m
           /\ \A i : i \in DOMAIN Append(s, m) <=> i \in DOMAIN s \/ i = Len(s) + 1
OBVIOUS

LEMMA TakenMessage ==
    ASSUME NEW s \in Seq(Message), s # <<>>
    PROVE  /\ 1 \in DOMAIN s /\ Head(s) = s[1] /\ Head(s) \in Message
           /\ \A i \in DOMAIN Tail(s) : i \in Nat \ {0} /\ i + 1 \in DOMAIN s /\ 1 < i + 1 /\ Tail(s)[i] = s[i + 1]
           /\ \A i \in DOMAIN s : i = 1 \/ (i - 1 \in DOMAIN Tail(s) /\ Tail(s)[i - 1] = s[i])
<1>1. /\ Len(s) \in Nat \ {0} /\ Head(s) = s[1] /\ Head(s) \in Message /\ DOMAIN s = 1..Len(s)
      /\ DOMAIN Tail(s) = 1..(Len(s) - 1)
      /\ \A i \in 1..(Len(s) - 1) : Tail(s)[i] = s[i + 1]
  OBVIOUS
<1> QED
  BY <1>1

InSequence(m, s) == \E i \in DOMAIN s : s[i] = m

LEMMA InAppended ==
    ASSUME NEW s \in Seq(Message), NEW x \in Message
    PROVE  \A m : InSequence(m, Append(s, x)) <=> InSequence(m, s) \/ m = x
<1>1. /\ \A i \in DOMAIN s : Append(s, x)[i] = s[i]
      /\ Append(s, x)[Len(s) + 1] = x
      /\ \A i : i \in DOMAIN Append(s, x) <=> i \in DOMAIN s \/ i = Len(s) + 1
  BY AppendedMessage
<1> QED
  BY <1>1, Zenon DEF InSequence

LEMMA InTail ==
    ASSUME NEW s \in Seq(Message), s # <<>>
    PROVE  \A m : InSequence(m, s) <=> InSequence(m, Tail(s)) \/ m = Head(s)
<1>1. ASSUME NEW m, InSequence(m, s) PROVE InSequence(m, Tail(s)) \/ m = Head(s)
  <2>1. PICK i \in DOMAIN s : s[i] = m
    BY <1>1, Zenon DEF InSequence
  <2> QED
    BY <2>1, TakenMessage, Zenon DEF InSequence
<1>2. ASSUME NEW m, InSequence(m, Tail(s)) PROVE InSequence(m, s)
  <2>1. PICK i \in DOMAIN Tail(s) : Tail(s)[i] = m
    BY <1>2, Zenon DEF InSequence
  <2>2. i + 1 \in DOMAIN s /\ s[i + 1] = m
    BY <2>1, TakenMessage, Zenon
  <2> QED
    BY <2>2, Zenon DEF InSequence
<1>3. InSequence(Head(s), s)
  BY TakenMessage, Zenon DEF InSequence
<1> QED
  BY <1>1, <1>2, <1>3, Zenon

-----------------------------------------------------------------------------
(* What waits for the reporter comes before what the session still has.     *)

InboxOrder ==
    \A i \in DOMAIN inbox : IsDispatch(inbox[i]) =>
        /\ inbox[i].seq <= lastForwarded
        /\ \A j \in DOMAIN inbox : (i < j /\ IsDispatch(inbox[j])) => inbox[i].seq < inbox[j].seq

LEMMA InboxOrderOfHandled ==
    ASSUME TypeOK, OrderOfTasks, InboxOrder, NEW m \in Message, HandleMessage(m),
           IsDispatch(m) => lastForwarded < m.seq
    PROVE  InboxOrder'
<1>1. /\ inbox \in Seq(Message) /\ lastForwarded \in Nat /\ m.seq \in Nat
      /\ \A i \in DOMAIN inbox : inbox[i].seq \in Nat /\ i \in Nat
  <2>1. inbox \in Seq(Message) /\ lastForwarded \in Nat
    BY DEF TypeOK, ReporterTypeOK, GatewayTypeOK, DataTypeOK
  <2>2. \A i \in DOMAIN inbox : inbox[i] \in Message /\ i \in Nat
    BY <2>1
  <2> QED
    BY <2>1, <2>2 DEF Message
<1>2. /\ \/ inbox' = inbox
         \/ inbox' = Append(inbox, m) /\ (IsDispatch(m) => lastForwarded' = m.seq)
      /\ lastForwarded' = lastForwarded \/ (IsDispatch(m) /\ lastForwarded' = m.seq)
  BY DEF HandleMessage, TrySend, OrderOfTasks
<1>3. lastForwarded' \in Nat /\ lastForwarded <= lastForwarded'
  BY <1>1, <1>2
<1>4. \A i \in DOMAIN inbox : IsDispatch(inbox[i]) =>
          inbox[i].seq <= lastForwarded /\ inbox[i].seq <= lastForwarded'
  BY <1>1, <1>3 DEF InboxOrder
<1>5. CASE inbox' = inbox
  BY <1>4, <1>5 DEF InboxOrder
<1>6. CASE inbox' = Append(inbox, m) /\ (IsDispatch(m) => lastForwarded' = m.seq)
  <2>1. /\ Len(inbox) \in Nat /\ \A i \in DOMAIN inbox : i < Len(inbox) + 1 /\ inbox'[i] = inbox[i]
        /\ inbox'[Len(inbox) + 1] = m
        /\ \A i : i \in DOMAIN inbox' <=> i \in DOMAIN inbox \/ i = Len(inbox) + 1
    BY <1>1, <1>6, AppendedMessage
  <2>2. \A i \in DOMAIN inbox : (IsDispatch(inbox[i]) /\ IsDispatch(m)) => inbox[i].seq < m.seq
    BY <1>1, <1>4
  <2>3. IsDispatch(m) => m.seq <= lastForwarded'
    BY <1>1, <1>6
  <2>4. \A j \in DOMAIN inbox' : ~(Len(inbox) + 1 < j)
    BY <1>1, <2>1
  <2> SUFFICES ASSUME NEW i \in DOMAIN inbox', IsDispatch(inbox'[i])
               PROVE  /\ inbox'[i].seq <= lastForwarded'
                      /\ \A j \in DOMAIN inbox' :
                            (i < j /\ IsDispatch(inbox'[j])) => inbox'[i].seq < inbox'[j].seq
    BY Zenon DEF InboxOrder
  <2>5. CASE i \in DOMAIN inbox
    <3>1. inbox'[i] = inbox[i] /\ IsDispatch(inbox[i]) /\ inbox[i].seq <= lastForwarded'
      BY <1>4, <2>1, <2>5, Zenon
    <3>2. ASSUME NEW j \in DOMAIN inbox', i < j, IsDispatch(inbox'[j])
          PROVE  inbox[i].seq < inbox'[j].seq
      <4>1. CASE j \in DOMAIN inbox
        BY <2>1, <2>5, <3>1, <3>2, <4>1, Zenon DEF InboxOrder
      <4>2. CASE j = Len(inbox) + 1
        BY <2>1, <2>2, <2>5, <3>1, <3>2, <4>2, Zenon
      <4> QED
        BY <2>1, <3>2, <4>1, <4>2, Zenon
    <3> QED
      BY <3>1, <3>2, Zenon
  <2>6. CASE i = Len(inbox) + 1
    <3>1. inbox'[i] = m /\ IsDispatch(m) /\ m.seq <= lastForwarded'
      BY <2>1, <2>3, <2>6
    <3>2. \A j \in DOMAIN inbox' : ~(i < j)
      BY <2>4, <2>6
    <3> QED
      BY <3>1, <3>2
  <2>7. i \in DOMAIN inbox \/ i = Len(inbox) + 1
    BY <2>1, Zenon
  <2> QED
    BY <2>5, <2>6, <2>7
<1> QED
  BY <1>2, <1>5, <1>6

LEMMA InboxOrderHolds == Spec => []InboxOrder
<1>1. Init => InboxOrder
  BY DEF Init, ReporterInit, InboxOrder
<1>2. TypeOK /\ OrderOfTasks /\ InOrder /\ InboxOrder /\ [Next]_vars => InboxOrder'
  <2> SUFFICES ASSUME TypeOK, OrderOfTasks, InOrder, InboxOrder, [Next]_vars PROVE InboxOrder'
    OBVIOUS
  <2>1. CASE Connects \/ AcksHeartbeat \/ AnswersClose \/ LosesConnection
    <3>1. PICK kind \in {"Hello", "HeartbeatAck", "Close"} : HandleMessage(Plain(kind))
      BY <2>1 DEF Connects, AcksHeartbeat, AnswersClose, LosesConnection
    <3>2. Plain(kind) \in Message /\ ~IsDispatch(Plain(kind))
      BY PlainTyped DEF IsDispatch, Plain, Kinds, DispatchKinds
    <3> QED
      BY <3>1, <3>2, InboxOrderOfHandled
  <2>2. CASE Delivers
    <3>1. pending # <<>> /\ HandleMessage(Head(pending)) /\ pending \in Seq(Message)
      BY <2>2 DEF Delivers, TypeOK, GatewayTypeOK, DataTypeOK
    <3>2. Head(pending) \in Message /\ lastForwarded < Head(pending).seq
      BY <3>1, TakenMessage DEF InOrder
    <3> QED
      BY <3>1, <3>2, InboxOrderOfHandled
  <2>3. CASE inbox # <<>> /\ inbox' = Tail(inbox) /\ lastForwarded' = lastForwarded
    <3>1. \A i \in DOMAIN inbox' : i \in Nat /\ i + 1 \in DOMAIN inbox /\ inbox'[i] = inbox[i + 1]
      BY <2>3, TakenMessage DEF TypeOK, ReporterTypeOK
    <3>2. \A i, j \in DOMAIN inbox' : i < j => i + 1 < j + 1
      BY <3>1
    <3> QED
      BY <2>3, <3>1, <3>2, Zenon DEF InboxOrder
  <2>4. CASE UNCHANGED <<inbox, lastForwarded>>
    BY <2>4 DEF InboxOrder
  <2> QED
    BY <2>1, <2>2, <2>3, <2>4 DEF Next, Discord, World, Reporter, ReporterStep, HandleEvent,
       SaveOk, SaveFails, CloseInbox, ReporterEnds, Manager, ManagerStarts,
       ManagerCloses, StreamEnds, Identifies, Resumes, Chats, GuildChanges, Joins, Leaves,
       OutageBegins, OutageEnds, Happens, AmqpStep, Main,
       MainStarts, MainPanics, MainStopsReporter, MainStopsAmqp, MainExits, Signal, vars,
       reporterVars, pathVars
<1> QED
  BY <1>1, <1>2, TypeCorrect, OrderOfTasksHolds, InOrderHolds, PTL DEF Spec

-----------------------------------------------------------------------------
(* A new session tells of all guilds of the bot and of no other.            *)
IsNews(m) ==
    \/ m.kind \in {"Ready", "GuildCreate"} /\ m.guilds \subseteq member
    \/ m.kind = "GuildDelete" /\ m.guilds \subseteq out

LEMMA SessionTells ==
    ASSUME DataTypeOK, Identifies
    PROVE  /\ \A m : InSequence(m, pending') => IsNews(m) /\ produced < m.seq
           /\ \E m \in Message :
                  InSequence(m, pending') /\ m.kind = "Ready" /\ m.guilds = member
<1>1. PICK order \in [1..Cardinality(member) -> member], missing \in SUBSET out :
         pending' = <<Dispatch("Ready", produced + 1, member)>>
            \o [i \in DOMAIN order |->
                  Dispatch(IF order[i] \in missing THEN "GuildDelete" ELSE "GuildCreate",
                           produced + 1 + i, {order[i]})]
  BY DEF Identifies
<1> DEFINE n == Cardinality(member)
           ready == Dispatch("Ready", produced + 1, member)
           kind(i) == IF order[i] \in missing THEN "GuildDelete" ELSE "GuildCreate"
           news == [i \in 1..n |-> Dispatch(kind(i), produced + 1 + i, {order[i]})]
<1>2. produced \in Nat /\ member \subseteq Guilds /\ n \in Nat
  BY GuildsCounted DEF DataTypeOK
<1>3. ready \in Message /\ ready.kind = "Ready" /\ ready.guilds = member
  BY <1>2, DispatchTyped DEF DispatchKinds, Dispatch
<1>4. ASSUME NEW i \in 1..n
      PROVE  /\ news[i] = Dispatch(kind(i), produced + 1 + i, {order[i]})
             /\ order[i] \in member /\ order[i] \in Guilds /\ produced + 1 + i \in Nat
             /\ \/ kind(i) = "GuildCreate"
                \/ kind(i) = "GuildDelete" /\ order[i] \in out
  BY <1>1, <1>2, <1>4
<1>5. \A i \in 1..n : news[i] \in Message /\ IsNews(news[i])
  <2> HIDE DEF news, kind
  <2> TAKE i \in 1..n
  <2>1. kind(i) \in DispatchKinds /\ {order[i]} \in SUBSET Guilds
    BY <1>4 DEF DispatchKinds
  <2>2. news[i] \in Message
    BY <1>4, <2>1, DispatchTyped
  <2>3. news[i].kind = kind(i) /\ news[i].guilds = {order[i]}
    <3>1. news[i] = Dispatch(kind(i), produced + 1 + i, {order[i]})
      BY <1>4
    <3> QED
      BY <3>1 DEF Dispatch
  <2> QED
    BY <1>4, <2>2, <2>3 DEF IsNews
<1>6. news \in Seq(Message) /\ Len(news) = n
  <2>1. news \in [1..n -> Message]
    BY <1>5
  <2> QED
    BY <1>2, <2>1, MessagesOf
<1>7. pending' = <<ready>> \o news
  BY <1>1
<1> HIDE DEF news, ready, n
<1>8. <<ready>> \in Seq(Message) /\ Len(<<ready>>) = 1 /\ <<ready>>[1] = ready
  BY <1>3
<1>9. /\ DOMAIN pending' = 1..(1 + n) /\ 1 \in DOMAIN pending' /\ pending'[1] = ready
      /\ \A i \in 2..(1 + n) : pending'[i] = news[i - 1] /\ i - 1 \in 1..n
  BY <1>2, <1>6, <1>7, <1>8
<1>10. \A i \in DOMAIN pending' : produced < pending'[i].seq
  <2>1. \A i \in 1..Len(pending') : pending'[i].seq = produced + i
    BY SessionTyped
  <2>2. pending' \in Seq(Message)
    BY SessionTyped
  <2>3. DOMAIN pending' = 1..Len(pending')
    BY <2>2
  <2>4. \A i \in 1..Len(pending') : produced < produced + i
    BY <1>2
  <2> QED
    BY <2>1, <2>3, <2>4
<1>11. \A i \in DOMAIN pending' : IsNews(pending'[i])
  <2> TAKE i \in DOMAIN pending'
  <2>1. CASE i = 1
    BY <1>3, <1>9, <2>1 DEF IsNews
  <2>2. CASE i \in 2..(1 + n)
    BY <1>5, <1>9, <2>2, Zenon
  <2>3. i = 1 \/ i \in 2..(1 + n)
    BY <1>2, <1>9
  <2> QED
    BY <2>1, <2>2, <2>3
<1>12. InSequence(ready, pending')
  BY <1>9, Zenon DEF InSequence
<1> QED
  BY <1>3, <1>10, <1>11, <1>12, Zenon DEF InSequence

-----------------------------------------------------------------------------
(* The word that is on its way of a guild: the last one is right, and where *)
(* there is none the reporter knows.                                        *)

TellsIn(m, g) == m.kind \in {"Ready", "GuildCreate"} /\ g \in m.guilds
TellsOut(m, g) == m.kind = "GuildDelete" /\ g \in m.guilds

OnItsWay(m) == InSequence(m, inbox) \/ InSequence(m, pending)

WordIsIn(g) ==
    /\ \A o : (OnItsWay(o) /\ TellsOut(o, g)) =>
                 \E m : OnItsWay(m) /\ TellsIn(m, g) /\ o.seq < m.seq
    /\ g \in guild_ids \/ \E m : OnItsWay(m) /\ TellsIn(m, g)

WordIsOut(g) ==
    /\ \A o : (OnItsWay(o) /\ TellsIn(o, g)) =>
                 \E m : OnItsWay(m) /\ TellsOut(m, g) /\ o.seq < m.seq
    /\ g \notin guild_ids \/ \E m : OnItsWay(m) /\ TellsOut(m, g)

Unidentified ==
    /\ ~resumable /\ guild_ids = {}
    /\ \A m : OnItsWay(m) => ~IsDispatch(m)

LastWord ==
    /\ link = "live" => resumable
    /\ refused = {} =>
         /\ identified = 0 => Unidentified
         /\ resumable => \A g \in member \ out : WordIsIn(g)
         /\ (resumable /\ identified = 1) => \A g \in Guilds \ member : WordIsOut(g)

Telling(m) == m.kind \in {"Ready", "GuildCreate", "GuildDelete"}

LEMMA TellingKinds ==
    ASSUME NEW m, NEW g
    PROVE  (TellsIn(m, g) \/ TellsOut(m, g)) => Telling(m)
BY DEF TellsIn, TellsOut, Telling

\* A step that tells nothing new of a guild and takes nothing of it away.
LEMMA WordKept ==
    ASSUME LastWord, \A m : Telling(m) => (OnItsWay(m)' <=> OnItsWay(m)),
           (refused = {} /\ identified = 0) => \A m : OnItsWay(m)' => ~IsDispatch(m),
           UNCHANGED <<member, out, guild_ids, identified>>,
           resumable' => resumable, link' = "live" => resumable', refused' = {} => refused = {}
    PROVE  LastWord'
<1> SUFFICES ASSUME refused' = {}
             PROVE  /\ identified' = 0 => Unidentified'
                    /\ resumable' => \A g \in (member \ out)' : WordIsIn(g)'
                    /\ (resumable' /\ identified' = 1) => \A g \in Guilds \ member' : WordIsOut(g)'
  BY DEF LastWord
<1>1. /\ identified = 0 => Unidentified
      /\ resumable => \A g \in member \ out : WordIsIn(g)
      /\ (resumable /\ identified = 1) => \A g \in Guilds \ member : WordIsOut(g)
  BY DEF LastWord
<1>2. identified' = 0 => Unidentified'
  BY <1>1 DEF Unidentified
<1>3. ASSUME NEW g, WordIsIn(g) PROVE WordIsIn(g)'
  <2>1. \A m : (TellsIn(m, g) \/ TellsOut(m, g)) => (OnItsWay(m)' <=> OnItsWay(m))
    BY TellingKinds
  <2> QED
    BY <1>3, <2>1, Zenon DEF WordIsIn
<1>4. ASSUME NEW g, WordIsOut(g) PROVE WordIsOut(g)'
  <2>1. \A m : (TellsIn(m, g) \/ TellsOut(m, g)) => (OnItsWay(m)' <=> OnItsWay(m))
    BY TellingKinds
  <2> QED
    BY <1>4, <2>1, Zenon DEF WordIsOut
<1> QED
  BY <1>1, <1>2, <1>3, <1>4

\* The reporter takes the first message: what it says holds until the next.
LEMMA WordHandled ==
    ASSUME TypeOK, InOrder, InboxOrder, LastWord, HandleEvent,
           UNCHANGED <<member, out, identified, resumable, link, refused, pending>>
    PROVE  LastWord'
<1> DEFINE h == Head(inbox)
<1>1. /\ inbox # <<>> /\ inbox' = Tail(inbox) /\ inbox \in Seq(Message)
      /\ guild_ids' = GuildsAfter(h) /\ h.kind \in ReporterKinds
      /\ guild_ids \subseteq Guilds /\ lastForwarded \in Nat
      /\ pending \in Seq(Message)
  BY TakenMessage
  DEF HandleEvent, TypeOK, ReporterTypeOK, GatewayTypeOK, DataTypeOK
<1>2. h \in Message /\ h = inbox[1] /\ 1 \in DOMAIN inbox
  BY <1>1, TakenMessage
<1> HIDE DEF h
<1>3. \A m : OnItsWay(m) <=> OnItsWay(m)' \/ m = h
  BY <1>1, InTail, Zenon DEF OnItsWay, h
<1>4. ASSUME NEW m, IsDispatch(h), IsDispatch(m), OnItsWay(m)'
      PROVE  h.seq < m.seq /\ ~(m.seq < h.seq)
  <2>0. InSequence(m, inbox) \/ InSequence(m, pending)
    BY <1>3, <1>4, Zenon DEF OnItsWay
  <2>1. m \in Message /\ h.seq \in Nat
    <3>1. m \in Message
      BY <1>1, <2>0 DEF InSequence
    <3>2. h.seq \in Nat
      BY <1>2 DEF Message
    <3> QED
      BY <3>1, <3>2
  <2>2. CASE InSequence(m, inbox')
    <3>1. PICK i \in DOMAIN inbox' : inbox'[i] = m
      BY <2>2, Zenon DEF InSequence
    <3>2. i + 1 \in DOMAIN inbox /\ 1 < i + 1 /\ inbox[i + 1] = m
      BY <1>1, <3>1, TakenMessage
    <3> QED
      BY <1>2, <1>4, <2>1, <3>2 DEF InboxOrder, Message
  <2>3. CASE InSequence(m, pending)
    <3>1. PICK i \in DOMAIN pending : pending[i] = m
      BY <2>3, Zenon DEF InSequence
    <3>2. h.seq <= lastForwarded /\ lastForwarded < m.seq
      BY <1>2, <1>4, <3>1 DEF InboxOrder, InOrder
    <3> QED
      BY <1>1, <2>1, <3>2 DEF Message
  <2> QED
    BY <1>4, <2>2, <2>3 DEF OnItsWay
<1>5. \A m, g : TellsIn(m, g) \/ TellsOut(m, g) => IsDispatch(m)
  BY DEF TellsIn, TellsOut, IsDispatch, DispatchKinds
<1>6. \A g : g \in guild_ids' <=> TellsIn(h, g) \/ (g \in guild_ids /\ ~TellsOut(h, g))
  BY <1>1 DEF GuildsAfter, TellsIn, TellsOut
<1>7. \A g : ~(TellsIn(h, g) /\ TellsOut(h, g))
  BY DEF TellsIn, TellsOut
<1>8. ~(h.seq < h.seq)
  BY <1>2 DEF Message
<1>9. ASSUME NEW g, WordIsIn(g) PROVE WordIsIn(g)'
  <2>1. ASSUME NEW o, OnItsWay(o)', TellsOut(o, g)
        PROVE  \E m : OnItsWay(m)' /\ TellsIn(m, g) /\ o.seq < m.seq
    <3>1. PICK m : OnItsWay(m) /\ TellsIn(m, g) /\ o.seq < m.seq
      BY <1>3, <1>9, <2>1, Zenon DEF WordIsIn
    <3>2. m # h
      BY <1>4, <1>5, <2>1, <3>1, Zenon
    <3> QED
      BY <1>3, <3>1, <3>2, Zenon
  <2>2. g \in guild_ids' \/ \E m : OnItsWay(m)' /\ TellsIn(m, g)
    <3>1. CASE TellsIn(h, g)
      BY <1>6, <3>1
    <3>2. CASE TellsOut(h, g)
      <4>1. PICK m : OnItsWay(m) /\ TellsIn(m, g) /\ h.seq < m.seq
        BY <1>3, <1>9, <3>2, Zenon DEF WordIsIn
      <4>2. m # h
        BY <1>8, <4>1, Zenon
      <4> QED
        BY <1>3, <4>1, <4>2, Zenon
    <3>3. CASE ~TellsIn(h, g) /\ ~TellsOut(h, g)
      BY <1>3, <1>6, <1>9, <3>3, Zenon DEF WordIsIn
    <3> QED
      BY <3>1, <3>2, <3>3
  <2> QED
    BY <2>1, <2>2, Zenon DEF WordIsIn
<1>10. ASSUME NEW g, WordIsOut(g) PROVE WordIsOut(g)'
  <2>1. ASSUME NEW o, OnItsWay(o)', TellsIn(o, g)
        PROVE  \E m : OnItsWay(m)' /\ TellsOut(m, g) /\ o.seq < m.seq
    <3>1. PICK m : OnItsWay(m) /\ TellsOut(m, g) /\ o.seq < m.seq
      BY <1>3, <1>10, <2>1, Zenon DEF WordIsOut
    <3>2. m # h
      BY <1>4, <1>5, <2>1, <3>1, Zenon
    <3> QED
      BY <1>3, <3>1, <3>2, Zenon
  <2>2. g \notin guild_ids' \/ \E m : OnItsWay(m)' /\ TellsOut(m, g)
    <3>1. CASE TellsOut(h, g)
      BY <1>6, <1>7, <3>1
    <3>2. CASE TellsIn(h, g)
      <4>1. PICK m : OnItsWay(m) /\ TellsOut(m, g) /\ h.seq < m.seq
        BY <1>3, <1>10, <3>2, Zenon DEF WordIsOut
      <4>2. m # h
        BY <1>8, <4>1, Zenon
      <4> QED
        BY <1>3, <4>1, <4>2, Zenon
    <3>3. CASE ~TellsIn(h, g) /\ ~TellsOut(h, g)
      BY <1>3, <1>6, <1>10, <3>3, Zenon DEF WordIsOut
    <3> QED
      BY <3>1, <3>2, <3>3
  <2> QED
    BY <2>1, <2>2, Zenon DEF WordIsOut
<1>11. ASSUME Unidentified PROVE Unidentified'
  <2>1. ~IsDispatch(h)
    BY <1>3, <1>11, Zenon DEF Unidentified
  <2>2. \A g : g \notin guild_ids'
    BY <1>5, <1>6, <1>11, <2>1 DEF Unidentified
  <2>3. \A m : OnItsWay(m)' => ~IsDispatch(m)
    BY <1>3, <1>11, Zenon DEF Unidentified
  <2>4. guild_ids' = {}
    BY <2>2, Zenon
  <2> QED
    BY <1>11, <2>3, <2>4 DEF Unidentified
<1> QED
  BY <1>9, <1>10, <1>11 DEF LastWord

\* What is handed to the reporter is still on its way; a message that tells of
\* a guild is refused or accepted, never let pass without a word.
LEMMA TidingsMoved ==
    ASSUME TypeOK, OrderOfTasks, NEW m \in Message, HandleMessage(m), refused' = {}
    PROVE  /\ refused = {}
           /\ \A x : InSequence(x, inbox') => InSequence(x, inbox) \/ x = m
           /\ \A x : InSequence(x, inbox) => InSequence(x, inbox')
           /\ Telling(m) => InSequence(m, inbox')
<1>1. inbox \in Seq(Message)
  BY DEF TypeOK, ReporterTypeOK
<1>2. amqpPhase # "done"
  BY DEF HandleMessage, OrderOfTasks
<1>3. refused' = IF IsDispatch(m) /\ Refused(m) THEN refused \union {m.kind} ELSE refused
  BY <1>2 DEF HandleMessage
<1>4. refused = {} /\ ~(IsDispatch(m) /\ Refused(m))
  BY <1>3
<1>5. Telling(m) => IsDispatch(m) /\ m.kind \in ReporterKinds
  BY DEF Telling, IsDispatch, DispatchKinds, ReporterKinds
<1>6. /\ inbox' = inbox \/ inbox' = Append(inbox, m)
      /\ Telling(m) => inbox' = Append(inbox, m)
  BY <1>4, <1>5 DEF HandleMessage, TrySend
<1>7. \A x : InSequence(x, Append(inbox, m)) <=> InSequence(x, inbox) \/ x = m
  BY <1>1, InAppended
<1> QED
  BY <1>4, <1>6, <1>7

\* Something of guild g comes last, after all that is on its way.
LEMMA TidingsAdded ==
    ASSUME TypeOK, TypeOK', InOrder, InboxOrder, LastWord, refused = {}, resumable, identified > 0,
           NEW g \in Guilds, NEW kind \in {"GuildCreate", "GuildDelete"},
           pending' = Append(pending, Dispatch(kind, produced + 1, {g})),
           UNCHANGED <<inbox, guild_ids, identified, resumable, link, refused>>,
           \A f \in (member \ out)' :
              (f \in member \ out /\ f # g) \/ (f = g /\ kind = "GuildCreate"),
           \A f \in Guilds \ member' :
              (f \in Guilds \ member /\ f # g) \/ (f = g /\ kind = "GuildDelete")
    PROVE  LastWord'
<1>0. PICK x \in Message : x = Dispatch(kind, produced + 1, {g})
  <2>1. produced + 1 \in Nat /\ kind \in DispatchKinds /\ {g} \in SUBSET Guilds
    BY DEF TypeOK, GatewayTypeOK, DataTypeOK, DispatchKinds
  <2> QED
    BY <2>1, DispatchTyped
<1>1. x \in Message /\ x.kind = kind /\ x.seq = produced + 1 /\ x.guilds = {g}
  BY <1>0 DEF Dispatch
<1>2. /\ pending' = Append(pending, x) /\ pending \in Seq(Message) /\ inbox \in Seq(Message)
      /\ produced \in Nat /\ lastForwarded \in Nat /\ identified \in Nat
  BY <1>0 DEF TypeOK, GatewayTypeOK, DataTypeOK, ReporterTypeOK
<1>3. \A m : OnItsWay(m)' <=> OnItsWay(m) \/ m = x
  BY <1>1, <1>2, InAppended DEF OnItsWay
<1>4. ASSUME NEW o, OnItsWay(o), IsDispatch(o) PROVE o.seq < x.seq
  <2>1. CASE InSequence(o, inbox)
    <3>1. PICK i \in DOMAIN inbox : inbox[i] = o
      BY <2>1, Zenon DEF InSequence
    <3>2. o.seq <= lastForwarded /\ lastForwarded <= produced /\ o \in Message
      BY <1>2, <1>4, <3>1 DEF InboxOrder, InOrder
    <3>3. o.seq \in Nat
      BY <3>2 DEF Message
    <3> QED
      BY <1>1, <1>2, <3>2, <3>3
  <2>2. CASE InSequence(o, pending)
    <3>1. PICK i \in DOMAIN pending : pending[i] = o
      BY <2>2, Zenon DEF InSequence
    <3>2. o.seq <= produced /\ o \in Message
      BY <1>2, <3>1 DEF InOrder
    <3>3. o.seq \in Nat
      BY <3>2 DEF Message
    <3> QED
      BY <1>1, <1>2, <3>2, <3>3
  <2> QED
    BY <1>4, <2>1, <2>2 DEF OnItsWay
<1>5. /\ \A f : TellsIn(x, f) <=> kind = "GuildCreate" /\ f = g
      /\ \A f : TellsOut(x, f) <=> kind = "GuildDelete" /\ f = g
      /\ \A o, f : TellsIn(o, f) \/ TellsOut(o, f) => IsDispatch(o)
  BY <1>1 DEF TellsIn, TellsOut, IsDispatch, DispatchKinds
<1>6. ASSUME NEW f, WordIsIn(f), f # g PROVE WordIsIn(f)'
  BY <1>3, <1>5, <1>6, Zenon DEF WordIsIn
<1>7. ASSUME NEW f, WordIsOut(f), f # g PROVE WordIsOut(f)'
  BY <1>3, <1>5, <1>7, Zenon DEF WordIsOut
<1>8. ASSUME kind = "GuildCreate" PROVE WordIsIn(g)'
  <2>1. OnItsWay(x)' /\ TellsIn(x, g)
    BY <1>3, <1>5, <1>8
  <2>2. ASSUME NEW o, OnItsWay(o)', TellsOut(o, g) PROVE o.seq < x.seq
    BY <1>3, <1>4, <1>5, <1>8, <2>2
  <2> QED
    BY <2>1, <2>2, Zenon DEF WordIsIn
<1>9. ASSUME kind = "GuildDelete" PROVE WordIsOut(g)'
  <2>1. OnItsWay(x)' /\ TellsOut(x, g)
    BY <1>3, <1>5, <1>9
  <2>2. ASSUME NEW o, OnItsWay(o)', TellsIn(o, g) PROVE o.seq < x.seq
    BY <1>3, <1>4, <1>5, <1>9, <2>2
  <2> QED
    BY <2>1, <2>2, Zenon DEF WordIsOut
<1>10. \A f \in (member \ out)' : WordIsIn(f)'
  BY <1>6, <1>8 DEF LastWord
<1>11. identified = 1 => \A f \in Guilds \ member' : WordIsOut(f)'
  BY <1>7, <1>9 DEF LastWord
<1> QED
  BY <1>2, <1>10, <1>11 DEF LastWord

LEMMA WordOfSession ==
    ASSUME TypeOK, InOrder, InboxOrder, LastWord, Identifies
    PROVE  LastWord'
<1>1. /\ UNCHANGED <<inbox, guild_ids, member, out, refused>>
      /\ resumable' /\ identified' = identified + 1
      /\ inbox \in Seq(Message) /\ identified \in Nat /\ lastForwarded \in Nat /\ produced \in Nat
      /\ lastForwarded <= produced
  BY DEF Identifies, reporterVars, worldVars, pathVars, TypeOK, GatewayTypeOK, DataTypeOK,
         ReporterTypeOK, InOrder
<1>2. \A m : InSequence(m, pending') => IsNews(m) /\ produced < m.seq
  BY SessionTells DEF TypeOK, GatewayTypeOK
<1>3. PICK r \in Message : InSequence(r, pending') /\ r.kind = "Ready" /\ r.guilds = member
  BY SessionTells DEF TypeOK, GatewayTypeOK
<1>4. \A m : OnItsWay(m)' <=> InSequence(m, inbox) \/ InSequence(m, pending')
  BY <1>1 DEF OnItsWay
<1>5. ASSUME NEW g \in member \ out PROVE WordIsIn(g)'
  <2>1. OnItsWay(r)' /\ TellsIn(r, g)
    BY <1>3, <1>4 DEF TellsIn
  <2>2. ASSUME NEW o, OnItsWay(o)', TellsOut(o, g) PROVE o.seq < r.seq
    <3>1. InSequence(o, inbox)
      BY <1>2, <1>4, <2>2 DEF TellsOut, IsNews
    <3>2. PICK i \in DOMAIN inbox : inbox[i] = o
      BY <3>1, Zenon DEF InSequence
    <3>3. IsDispatch(o)
      BY <2>2 DEF TellsOut, IsDispatch, DispatchKinds
    <3>6. o \in Message
      BY <1>1, <3>2
    <3>4. o.seq <= lastForwarded /\ produced < r.seq
      BY <1>2, <1>3, <3>2, <3>3, Zenon DEF InboxOrder
    <3>5. o.seq \in Nat /\ r.seq \in Nat
      BY <3>6 DEF Message
    <3> QED
      BY <1>1, <3>4, <3>5
  <2> QED
    BY <2>1, <2>2, Zenon DEF WordIsIn
<1>6. ASSUME refused = {}, identified = 0, NEW g \in Guilds \ member PROVE WordIsOut(g)'
  <2>1. Unidentified
    BY <1>6 DEF LastWord
  <2>2. g \notin guild_ids'
    BY <1>1, <2>1 DEF Unidentified
  <2>3. ASSUME NEW o, OnItsWay(o)', TellsIn(o, g) PROVE FALSE
    <3>1. ~InSequence(o, pending')
      BY <1>2, <1>6, <2>3 DEF TellsIn, IsNews
    <3>2. OnItsWay(o)
      BY <1>4, <2>3, <3>1, Zenon DEF OnItsWay
    <3>3. IsDispatch(o)
      BY <2>3 DEF TellsIn, IsDispatch, DispatchKinds
    <3> QED
      BY <2>1, <3>2, <3>3, Zenon DEF Unidentified
  <2> QED
    BY <2>2, <2>3, Zenon DEF WordIsOut
<1> QED
  BY <1>1, <1>5, <1>6 DEF LastWord

LEMMA LastWordHolds == Spec => []LastWord
<1>1. Init => LastWord
  BY DEF Init, ReporterInit, LastWord, Unidentified, OnItsWay, InSequence
<1>2. TypeOK /\ TypeOK' /\ OrderOfTasks /\ InOrder /\ InboxOrder /\ LastWord /\ [Next]_vars
         => LastWord'
  <2> SUFFICES ASSUME TypeOK, TypeOK', OrderOfTasks, InOrder, InboxOrder, LastWord, [Next]_vars
               PROVE  LastWord'
    OBVIOUS
  <2>0. /\ pending \in Seq(Message) /\ inbox \in Seq(Message) /\ identified \in Nat
        /\ \A m : (refused = {} /\ identified = 0 /\ OnItsWay(m)) => ~IsDispatch(m)
    BY DEF TypeOK, GatewayTypeOK, DataTypeOK, ReporterTypeOK, LastWord, Unidentified
  <2>1. CASE Connects \/ AcksHeartbeat \/ AnswersClose \/ LosesConnection
    <3>1. PICK kind \in {"Hello", "HeartbeatAck", "Close"} : HandleMessage(Plain(kind))
      BY <2>1 DEF Connects, AcksHeartbeat, AnswersClose, LosesConnection
    <3>2. PICK x \in Message : x = Plain(kind)
      BY PlainTyped DEF Kinds
    <3>3. ~IsDispatch(x) /\ ~Telling(x) /\ HandleMessage(x)
      BY <3>1, <3>2 DEF IsDispatch, Plain, DispatchKinds, Telling
    <3>4. /\ UNCHANGED <<member, out, guild_ids, identified>>
          /\ link' = "live" => link = "live" /\ UNCHANGED <<resumable, pending>>
          /\ \/ UNCHANGED <<resumable, pending>>
             \/ resumable' = FALSE /\ pending' = <<>>
      BY <2>1 DEF Connects, AcksHeartbeat, AnswersClose, LosesConnection, Unhandled,
                  worldVars, sessionVars
    <3>5. CASE UNCHANGED <<resumable, pending>>
      <4> SUFFICES ASSUME refused' = {} PROVE LastWord'
        BY <3>4, <3>5 DEF LastWord
      <4>1. /\ refused = {}
            /\ \A m : InSequence(m, inbox') => InSequence(m, inbox) \/ m = x
            /\ \A m : InSequence(m, inbox) => InSequence(m, inbox')
        BY <3>3, TidingsMoved
      <4>2. /\ \A m : Telling(m) => (OnItsWay(m)' <=> OnItsWay(m))
            /\ \A m : OnItsWay(m)' => OnItsWay(m) \/ m = x
        BY <3>3, <3>5, <4>1 DEF OnItsWay
      <4>3. identified = 0 => \A m : OnItsWay(m)' => ~IsDispatch(m)
        BY <2>0, <3>3, <4>1, <4>2, Zenon
      <4> QED
        BY <3>4, <3>5, <4>1, <4>2, <4>3, WordKept DEF LastWord
    <3>6. CASE resumable' = FALSE /\ pending' = <<>> /\ link' # "live"
      <4> SUFFICES ASSUME refused' = {}, identified' = 0 PROVE Unidentified'
        BY <3>6 DEF LastWord
      <4>1. refused = {} /\ \A m : InSequence(m, inbox') => InSequence(m, inbox) \/ m = x
        BY <3>3, TidingsMoved
      <4>2. \A m : ~InSequence(m, pending')
        BY <3>6 DEF InSequence
      <4>3. \A m : OnItsWay(m)' => ~IsDispatch(m)
        BY <2>0, <3>3, <3>4, <4>1, <4>2, Zenon DEF OnItsWay
      <4> QED
        BY <3>4, <3>6, <4>1, <4>3 DEF LastWord, Unidentified
    <3> QED
      BY <3>4, <3>5, <3>6
  <2>2. CASE Delivers
    <3>1. PICK x \in Message : x = Head(pending)
      BY <2>0, <2>2, TakenMessage DEF Delivers
    <3>2. /\ pending # <<>> /\ HandleMessage(x) /\ pending' = Tail(pending)
          /\ UNCHANGED <<member, out, guild_ids, identified, link, resumable>>
      BY <2>2, <3>1 DEF Delivers, Unhandled, worldVars
    <3> SUFFICES ASSUME refused' = {} PROVE LastWord'
      BY <3>2 DEF LastWord
    <3>3. /\ refused = {}
          /\ \A m : InSequence(m, inbox') => InSequence(m, inbox) \/ m = x
          /\ \A m : InSequence(m, inbox) => InSequence(m, inbox')
          /\ Telling(x) => InSequence(x, inbox')
      BY <3>2, TidingsMoved
    <3>4. \A m : InSequence(m, pending) <=> InSequence(m, pending') \/ m = x
      BY <2>0, <3>1, <3>2, InTail
    <3>5. /\ \A m : OnItsWay(m)' => OnItsWay(m)
          /\ \A m : Telling(m) /\ OnItsWay(m) => OnItsWay(m)'
      BY <3>3, <3>4, Zenon DEF OnItsWay
    <3> QED
      BY <2>0, <3>2, <3>3, <3>5, WordKept DEF LastWord
  <2>3. CASE Identifies
    BY <2>3, WordOfSession
  <2>4. CASE Resumes
    <3>1. PICK x \in Message : x = Dispatch("Resumed", produced + 1, {})
      <4>1. produced + 1 \in Nat
        BY DEF TypeOK, GatewayTypeOK, DataTypeOK
      <4> QED
        BY <4>1, DispatchTyped DEF DispatchKinds
    <3>2. /\ pending' = Append(pending, x) /\ resumable /\ ~Telling(x)
          /\ UNCHANGED <<inbox, member, out, guild_ids, identified, resumable, refused>>
      BY <2>4, <3>1 DEF Resumes, reporterVars, worldVars, pathVars, Telling, Dispatch
    <3>3. \A m : OnItsWay(m)' <=> OnItsWay(m) \/ m = x
      BY <2>0, <3>2, InAppended DEF OnItsWay
    <3>4. \A m : Telling(m) => (OnItsWay(m)' <=> OnItsWay(m))
      BY <3>2, <3>3, Zenon
    <3>5. ~(refused = {} /\ identified = 0)
      BY <3>2 DEF LastWord, Unidentified
    <3> QED
      BY <3>2, <3>4, <3>5, WordKept
  <2>5. CASE Chats
    <3>1. PICK x \in Message : x = Dispatch("Chat", produced + 1, {})
      <4>1. produced + 1 \in Nat
        BY DEF TypeOK, GatewayTypeOK, DataTypeOK
      <4> QED
        BY <4>1, DispatchTyped DEF DispatchKinds
    <3>2. /\ pending' = Append(pending, x) /\ resumable /\ ~Telling(x)
          /\ UNCHANGED <<inbox, member, out, guild_ids, identified, resumable, refused, link>>
      BY <2>5, <3>1 DEF Chats, Happens, reporterVars, pathVars, Telling, Dispatch
    <3>3. \A m : OnItsWay(m)' <=> OnItsWay(m) \/ m = x
      BY <2>0, <3>2, InAppended DEF OnItsWay
    <3>4. \A m : Telling(m) => (OnItsWay(m)' <=> OnItsWay(m))
      BY <3>2, <3>3, Zenon
    <3>5. ~(refused = {} /\ identified = 0)
      BY <3>2 DEF LastWord, Unidentified
    <3> QED
      BY <3>2, <3>4, <3>5, WordKept DEF LastWord
  <2>6. ASSUME NEW g \in Guilds, GuildChanges(g) PROVE LastWord'
    <3>1. /\ identified > 0 /\ UNCHANGED <<inbox, guild_ids, identified, resumable, link, refused>>
      BY <2>6 DEF GuildChanges, Joins, Leaves, OutageBegins, OutageEnds, Happens,
         reporterVars, pathVars
    <3>2. CASE ~resumable
      BY <2>0, <3>1, <3>2 DEF LastWord
    <3>3. CASE refused # {}
      BY <3>1, <3>3 DEF LastWord
    <3>4. CASE resumable /\ refused = {}
      <4>1. PICK kind \in {"GuildCreate", "GuildDelete"} :
               /\ Happens(kind, {g})
               /\ \A f \in (member \ out)' :
                     (f \in member \ out /\ f # g) \/ (f = g /\ kind = "GuildCreate")
               /\ \A f \in Guilds \ member' :
                     (f \in Guilds \ member /\ f # g) \/ (f = g /\ kind = "GuildDelete")
        <5>0. out \subseteq member
          BY DEF TypeOK, GatewayTypeOK, DataTypeOK
        <5>1. CASE Joins(g) \/ OutageEnds(g)
          BY <5>0, <5>1 DEF Joins, OutageEnds
        <5>2. CASE Leaves(g) \/ OutageBegins(g)
          BY <5>0, <5>2 DEF Leaves, OutageBegins
        <5> QED
          BY <2>6, <5>1, <5>2 DEF GuildChanges
      <4>2. pending' = Append(pending, Dispatch(kind, produced + 1, {g}))
        BY <3>4, <4>1 DEF Happens
      <4> QED
        BY <3>1, <3>4, <4>1, <4>2, TidingsAdded
    <3> QED
      BY <3>2, <3>3, <3>4
  <2>7. CASE Reporter /\ HandleEvent
    BY <2>7, WordHandled DEF Reporter, sessionVars, worldVars, pathVars
  <2>8. CASE UNCHANGED <<inbox, pending, member, out, guild_ids, identified, resumable, link,
                       refused>>
    <3>1. \A m : OnItsWay(m)' <=> OnItsWay(m)
      BY <2>8 DEF OnItsWay
    <3> QED
      BY <2>0, <2>8, <3>1, WordKept DEF LastWord
  <2> QED
    BY <2>1, <2>2, <2>3, <2>4, <2>5, <2>6, <2>7, <2>8
    DEF Next, Discord, World, GuildChanges, Reporter, ReporterStep, SaveOk, SaveFails,
    CloseInbox,
        ReporterEnds, Manager, ManagerStarts, ManagerCloses, StreamEnds, AmqpStep, Main,
        MainStarts, MainPanics, MainStopsReporter, MainStopsAmqp, MainExits, Signal, vars,
        reporterVars, sessionVars, worldVars, pathVars
<1> QED
  BY <1>1, <1>2, TypeCorrect, OrderOfTasksHolds, InOrderHolds, InboxOrderHolds, PTL DEF Spec

(* Once the reporter has caught up with a live session it knows every guild *)
(* the bot is in that is not in an outage, and no other guild unless the    *)
(* shard had to identify again, provided that its channel never was full.   *)
(* Guilds join, leave, go away in outages and come back in any order, over  *)
(* connections lost, resumed and begun anew.                                *)
THEOREM ReporterKnowsGuilds == Spec => []GuildsAreKnown
<1>1. TypeOK /\ LastWord => GuildsAreKnown
  <2> SUFFICES ASSUME TypeOK, LastWord, Settled
               PROVE  /\ member \ out \subseteq guild_ids
                      /\ identified = 1 => guild_ids \subseteq member
    BY DEF GuildsAreKnown
  <2>1. \A m : ~OnItsWay(m)
    BY DEF Settled, OnItsWay, InSequence
  <2>2. resumable /\ refused = {} /\ guild_ids \subseteq Guilds /\ member \subseteq Guilds
    BY DEF Settled, LastWord, TypeOK, ReporterTypeOK, GatewayTypeOK, DataTypeOK
  <2>3. \A g \in member \ out : g \in guild_ids
    BY <2>1, <2>2, Zenon DEF LastWord, WordIsIn
  <2>4. identified = 1 => \A g \in Guilds \ member : g \notin guild_ids
    BY <2>1, <2>2, Zenon DEF LastWord, WordIsOut
  <2> QED
    BY <2>2, <2>3, <2>4
<1> QED
  BY <1>1, TypeCorrect, LastWordHolds, PTL
-----------------------------------------------------------------------------
(* What is handed on. *)

\* The client of amqp is handed every event at most once and in the order Discord
\* made them, over connections lost and resumed and over new sessions.
EventsForwardedInOrder == [][lastForwarded' # lastForwarded => lastForwarded' > lastForwarded]_vars

\* Lost frames, resumed connections and new sessions never make forward_event
\* hand over an event again or behind a later one.
THEOREM ForwardedInOrder == Spec => EventsForwardedInOrder
<1>1. TypeOK /\ OrderOfTasks /\ InOrder /\ [Next]_vars
         => [lastForwarded' # lastForwarded => lastForwarded' > lastForwarded]_vars
  <2> SUFFICES ASSUME TypeOK, OrderOfTasks, InOrder, [Next]_vars, lastForwarded' # lastForwarded
               PROVE  lastForwarded' > lastForwarded
    OBVIOUS
  <2>0. lastForwarded \in Nat /\ pending \in Seq(Message)
    BY DEF TypeOK, GatewayTypeOK, DataTypeOK
  <2>1. ASSUME NEW m \in Message, HandleMessage(m), ~IsDispatch(m)
        PROVE  FALSE
    BY <2>1 DEF HandleMessage
  <2>2. \A kind \in {"Hello", "HeartbeatAck", "Close"} :
           Plain(kind) \in Message /\ ~IsDispatch(Plain(kind))
    BY PlainTyped DEF Plain, IsDispatch, DispatchKinds, Kinds
  <2>3. ~(Connects \/ AcksHeartbeat \/ AnswersClose \/ LosesConnection)
    BY <2>1, <2>2 DEF Connects, AcksHeartbeat, AnswersClose, LosesConnection
  <2>4. CASE Delivers
    <3>1. pending # <<>> /\ HandleMessage(Head(pending))
      BY <2>4 DEF Delivers
    <3>2. Head(pending) \in Message /\ Head(pending) = pending[1] /\ 1 \in DOMAIN pending
      BY <2>0, <3>1, TakenMessage
    <3>3. lastForwarded < Head(pending).seq /\ Head(pending).seq \in Nat
      BY <3>2 DEF InOrder, Message
    <3>4. lastForwarded' \in {lastForwarded, Head(pending).seq}
      BY <3>1 DEF HandleMessage
    <3> QED
      BY <2>0, <3>3, <3>4
  <2>5. CASE UNCHANGED lastForwarded
    BY <2>5
  <2> QED
    BY <2>3, <2>4, <2>5 DEF Next, Discord, World, Identifies, Resumes, GuildChanges, Joins,
       Leaves, OutageBegins, OutageEnds, Chats,
       Happens, Reporter, Manager, ManagerStarts, ManagerCloses, StreamEnds, AmqpStep, Main,
       MainStarts, MainPanics, MainStopsReporter, MainStopsAmqp, MainExits, Signal, vars,
       pathVars
<1> QED
  BY <1>1, TypeCorrect, OrderOfTasksHolds, InOrderHolds, PTL DEF Spec,
     EventsForwardedInOrder

\* Nothing is lost between Discord and the client of amqp while the first session
\* lives and the reporter refuses nothing: what is not handed on yet is still to
\* be delivered, also over connections lost and resumed.
NothingSkipped ==
    identified = 1 /\ resumable /\ refused = {} => lastForwarded + Len(pending) = produced

\* The events to be delivered follow the last one handed on without a gap.
Unbroken ==
    /\ \A i \in DOMAIN pending : IsDispatch(pending[i])
    /\ identified = 0 => ~resumable /\ pending = <<>> /\ produced = 0 /\ lastForwarded = 0
    /\ identified = 1 /\ resumable /\ refused = {} =>
          /\ produced = lastForwarded + Len(pending)
          /\ \A i \in DOMAIN pending : pending[i].seq = lastForwarded + i

\* Whatever connections of the first session are lost, an event the shard has not
\* forwarded is still to be read.
THEOREM NothingIsSkipped == Spec => []NothingSkipped
<1>1. Init => Unbroken
  BY DEF Init, Unbroken
<1>2. TypeOK /\ OrderOfTasks /\ Unbroken /\ [Next]_vars => Unbroken'
  <2> SUFFICES ASSUME TypeOK, OrderOfTasks, Unbroken, [Next]_vars
               PROVE  Unbroken'
    OBVIOUS
  <2>0. /\ pending \in Seq(Message) /\ produced \in Nat /\ lastForwarded \in Nat
        /\ identified \in Nat /\ resumable \in BOOLEAN
        /\ Len(pending) \in Nat /\ DOMAIN pending = 1..Len(pending)
    <3>1. /\ pending \in Seq(Message) /\ produced \in Nat /\ lastForwarded \in Nat
          /\ identified \in Nat /\ resumable \in BOOLEAN
      BY DEF TypeOK, GatewayTypeOK, FlagTypeOK, DataTypeOK
    <3> QED
      BY <3>1
  <2>m. \A m : HandleMessage(m) => refused \subseteq refused'
    BY DEF HandleMessage
  <2>1. CASE Connects \/ AcksHeartbeat \/ AnswersClose \/ LosesConnection
    <3>1. \A kind \in {"Hello", "HeartbeatAck", "Close"} : ~IsDispatch(Plain(kind))
      BY DEF Plain, IsDispatch, DispatchKinds
    <3>2. lastForwarded' = lastForwarded /\ refused \subseteq refused'
      BY <2>1, <2>m, <3>1 DEF Connects, AcksHeartbeat, AnswersClose, LosesConnection,
         HandleMessage
    <3>3. /\ produced' = produced /\ identified' = identified
          /\ \/ pending' = pending /\ resumable' = resumable
             \/ pending' = <<>> /\ resumable' = FALSE
      BY <2>1 DEF Connects, AcksHeartbeat, AnswersClose, LosesConnection, sessionVars
    <3>4. CASE pending' = pending /\ resumable' = resumable
      BY <3>2, <3>3, <3>4 DEF Unbroken
    <3>5. CASE pending' = <<>> /\ resumable' = FALSE
      BY <3>2, <3>3, <3>5 DEF Unbroken
    <3> QED
      BY <3>3, <3>4, <3>5
  <2>2. CASE Delivers
    <3>1. /\ pending # <<>> /\ HandleMessage(Head(pending)) /\ pending' = Tail(pending)
          /\ UNCHANGED <<produced, identified, resumable>>
      BY <2>2 DEF Delivers
    <3>2. /\ Head(pending) = pending[1] /\ 1 \in DOMAIN pending
          /\ Len(pending') = Len(pending) - 1
      BY <2>0, <3>1
    <3>3. \A i \in DOMAIN pending' :
             i \in Nat /\ i + 1 \in DOMAIN pending /\ pending'[i] = pending[i + 1]
      BY <2>0, <3>1, TakenMessage
    <3>4. IsDispatch(Head(pending)) /\ amqpPhase # "done" /\ identified # 0
      BY <3>1, <3>2 DEF Unbroken, HandleMessage, OrderOfTasks
    <3>5. refused' = {} => refused = {} /\ lastForwarded' = Head(pending).seq
      BY <3>1, <3>4 DEF HandleMessage
    <3>6. \A i \in DOMAIN pending' : IsDispatch(pending'[i])
      BY <3>3 DEF Unbroken
    <3>7. ASSUME identified = 1, resumable, refused' = {}
          PROVE  /\ produced = lastForwarded' + Len(pending')
                 /\ \A i \in DOMAIN pending' : pending'[i].seq = lastForwarded' + i
      <4>1. lastForwarded' = lastForwarded + 1
        BY <3>2, <3>5, <3>7 DEF Unbroken
      <4>2. /\ produced = lastForwarded + Len(pending)
            /\ \A i \in DOMAIN pending : pending[i].seq = lastForwarded + i
        BY <3>5, <3>7 DEF Unbroken
      <4>3. ASSUME NEW i \in DOMAIN pending'
            PROVE  pending'[i].seq = lastForwarded' + i
        <5>1. i \in Nat /\ i + 1 \in DOMAIN pending /\ pending'[i] = pending[i + 1]
          BY <3>3
        <5>2. pending[i + 1].seq = lastForwarded + (i + 1)
          BY <4>2, <5>1
        <5> QED
          BY <2>0, <4>1, <5>1, <5>2
      <4> QED
        BY <2>0, <3>2, <4>1, <4>2, <4>3
    <3> QED
      BY <3>1, <3>4, <3>6, <3>7 DEF Unbroken
  <2>3. CASE Identifies
    <3>1. /\ pending' \in Seq(Message) /\ produced' = produced + Len(pending')
          /\ \A i \in 1..Len(pending') :
                pending'[i].seq = produced + i /\ IsDispatch(pending'[i])
      BY <2>3, SessionTyped DEF TypeOK, GatewayTypeOK
    <3>2. identified' = identified + 1 /\ lastForwarded' = lastForwarded
      BY <2>3 DEF Identifies, pathVars
    <3>3. DOMAIN pending' = 1..Len(pending')
      BY <3>1
    <3>4. CASE identified = 0
      BY <3>1, <3>2, <3>3, <3>4 DEF Unbroken
    <3>5. CASE identified # 0
      <4>1. identified' \notin {0, 1}
        BY <2>0, <3>2, <3>5
      <4> QED
        BY <3>1, <3>3, <4>1 DEF Unbroken
    <3> QED
      BY <3>4, <3>5
  <2>4. ASSUME NEW kind \in DispatchKinds, NEW gs \in SUBSET Guilds, resumable,
               pending' = Append(pending, Dispatch(kind, produced + 1, gs)),
               produced' = produced + 1,
               UNCHANGED <<lastForwarded, identified, resumable, refused>>
        PROVE  Unbroken'
    <3>1. Dispatch(kind, produced + 1, gs).seq = produced + 1
          /\ IsDispatch(Dispatch(kind, produced + 1, gs))
      BY DEF Dispatch, IsDispatch
    <3>2. DOMAIN pending' = 1..(Len(pending) + 1) /\ Len(pending') = Len(pending) + 1
      BY <2>0, <2>4
    <3>3. \A i \in DOMAIN pending' :
             pending'[i] = IF i = Len(pending) + 1 THEN Dispatch(kind, produced + 1, gs)
                                                   ELSE pending[i]
      BY <2>0, <2>4
    <3>4. \A i \in DOMAIN pending' : i = Len(pending) + 1 \/ i \in DOMAIN pending
      BY <2>0, <3>2
    <3>5. \A i \in DOMAIN pending' : IsDispatch(pending'[i])
      BY <3>1, <3>3, <3>4 DEF Unbroken
    <3>6. identified # 0
      BY <2>4 DEF Unbroken
    <3>7. ASSUME identified = 1, refused = {}
          PROVE  /\ produced' = lastForwarded + Len(pending')
                 /\ \A i \in DOMAIN pending' : pending'[i].seq = lastForwarded + i
      <4>1. /\ produced = lastForwarded + Len(pending)
            /\ \A i \in DOMAIN pending : pending[i].seq = lastForwarded + i
        BY <2>4, <3>7 DEF Unbroken
      <4>2. produced + 1 = lastForwarded + (Len(pending) + 1)
        BY <2>0, <4>1
      <4>3. ASSUME NEW i \in DOMAIN pending'
            PROVE  pending'[i].seq = lastForwarded + i
        <5>1. CASE i = Len(pending) + 1
          BY <3>1, <3>3, <4>2, <5>1
        <5>2. CASE i # Len(pending) + 1
          BY <3>3, <3>4, <4>1, <5>2
        <5> QED
          BY <5>1, <5>2
      <4> QED
        BY <2>4, <3>2, <4>2, <4>3
    <3> QED
      BY <2>4, <3>5, <3>6, <3>7 DEF Unbroken
  <2>5. CASE Resumes
    BY <2>4, <2>5 DEF Resumes, pathVars, DispatchKinds
  <2>6. ASSUME NEW kind \in DispatchKinds, NEW gs \in SUBSET Guilds, Happens(kind, gs)
        PROVE  Unbroken'
    <3>1. CASE ~resumable
      BY <2>6, <3>1 DEF Happens, Unbroken, pathVars
    <3>2. CASE resumable
      BY <2>4, <2>6, <3>2 DEF Happens, pathVars
    <3> QED
      BY <3>1, <3>2
  <2>7. CASE Chats \/ \E g \in Guilds : GuildChanges(g)
    <3>1. \A g \in Guilds : {g} \in SUBSET Guilds
      OBVIOUS
    <3> QED
      BY <2>6, <2>7, <3>1 DEF Chats, GuildChanges, Joins, Leaves, OutageBegins, OutageEnds,
         DispatchKinds
  <2>8. CASE UNCHANGED <<pending, produced, lastForwarded, identified, resumable, refused>>
    BY <2>8 DEF Unbroken
  <2> QED
    BY <2>1, <2>2, <2>3, <2>5, <2>7, <2>8 DEF Next, Discord, World, GuildChanges, Reporter,
       Manager,
       ManagerStarts, ManagerCloses, StreamEnds, AmqpStep, Main, MainStarts, MainPanics,
       MainStopsReporter, MainStopsAmqp, MainExits, Signal, vars, sessionVars, pathVars
<1>3. Unbroken /\ TypeOK => NothingSkipped
  BY DEF Unbroken, NothingSkipped
<1> QED
  BY <1>1, <1>2, <1>3, TypeCorrect, OrderOfTasksHolds, PTL DEF Spec
=============================================================================
