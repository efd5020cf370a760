----------------------- MODULE AmqpConnectionProofs -----------------------
(***************************************************************************)
(* Theorems about AmqpConnection for every number of messages and of       *)
(* faults, every set of fault kinds and both kinds of client.              *)
(***************************************************************************)
EXTENDS AmqpConnection, TLAPS

-----------------------------------------------------------------------------
(* Types *)

LEMMA EmptyQueues == <<>> \in Seq(Event) /\ <<>> \in Seq(Msgs)
OBVIOUS

LEMMA QueuedMessages ==
    ASSUME NEW m \in Msgs, NEW s \in Seq(Msgs)
    PROVE  Append(s, m) \in Seq(Msgs)
OBVIOUS

LEMMA PushType ==
    ASSUME NEW e \in Event, events \in Seq(Event)
    PROVE  Push(e) \in Seq(Event)
BY DEF Push

\* A callback finds nobody to tell once the event channel is gone.
LEMMA PushDropped ==
    ASSUME NEW e, state \notin HoldsEvents, events = <<>>
    PROVE  Push(e) = <<>>
BY DEF Push

LEMMA EventsOfEnvironment ==
    /\ [kind |-> "ConnectionClose"] \in Event
    /\ [kind |-> "ChannelClose"] \in Event
    /\ [kind |-> "ChannelCancel"] \in Event
    /\ \A m \in Msgs : /\ [kind |-> "PublishReturn", msg |-> m] \in Event
                       /\ [kind |-> "MessageReceived", msg |-> m] \in Event
BY DEF Event

LEMMA TaskTypePreserved ==
    ASSUME TypeOK, [Next]_vars
    PROVE  TaskTypeOK'
<1> USE PushDropped
    DEF TypeOK, TaskTypeOK, FlagTypeOK, States, Reasons, HoldsReason, HoldsChannel,
        HoldsEvents, HoldsConnection, StartErrorOr, CloseConnection, CloseChannel,
        Starting, Alive, taskVars, ownerVars, brokerVars, dataVars
<1>1. CASE Owner
  BY <1>1 DEF Owner, Start, Shutdown, Send
<1>2. CASE Advance
  <2>1. CASE Begin \/ Disconnected
    BY <2>1 DEF Begin, Disconnected
  <2>2. CASE ConnectOk \/ ConnectFails \/ ConnectionCallbackFails \/ Reconnecting
    BY <2>2 DEF ConnectOk, ConnectFails, ConnectionCallbackFails, Reconnecting
  <2>3. CASE OpenChannelOk \/ OpenChannelFails \/ ReopeningChannel
    BY <2>3 DEF OpenChannelOk, OpenChannelFails, ReopeningChannel
  <2>4. CASE DeclareQueueOk \/ DeclareQueueFails
    BY <2>4 DEF DeclareQueueOk, DeclareQueueFails
  <2>5. CASE ConsumeOk \/ ConsumeFails \/ ReportStarted
    BY <2>5 DEF ConsumeOk, ConsumeFails, ReportStarted
  <2>6. CASE CloseChannelOk \/ CloseChannelFails
    BY <2>6 DEF CloseChannelOk, CloseChannelFails
  <2>7. CASE ClosingConnection \/ Reconnect \/ Finish \/ FinishStartError
    BY <2>7 DEF ClosingConnection, Reconnect, Finish, FinishStartError
  <2>8. QED
    BY <1>2, <2>1, <2>2, <2>3, <2>4, <2>5, <2>6, <2>7 DEF Advance
<1>3. CASE SelectShutdown \/ Publish
  BY <1>3 DEF SelectShutdown, Publish, Selecting
<1>4. CASE Select
  BY <1>4 DEF Select, NextEventIs, Selecting, SelectChannelClose, SelectConnectionClose,
              SelectPublishReturn, SelectMessageReceived, SelectIgnored
<1>5. CASE Environment
  BY <1>5 DEF Environment, BrokerGoesDown, BrokerComesUp, ServerClosesConnection,
              ServerClosesChannel, QueueDeleted, QueueRedeclared, OthersPublish, Deliver,
              ConnectionDies
<1>6. CASE UNCHANGED vars
  BY <1>6 DEF vars
<1>7. QED
  BY <1>1, <1>2, <1>3, <1>4, <1>5, <1>6 DEF Next

LEMMA FlagTypePreserved ==
    ASSUME FlagTypeOK, [Next]_vars
    PROVE  FlagTypeOK'
<1> USE DEF FlagTypeOK, CloseConnection, CloseChannel,
            taskVars, ownerVars, brokerVars, dataVars
<1>1. CASE Owner
  BY <1>1 DEF Owner, Start, Shutdown, Send
<1>2. CASE Advance
  BY <1>2 DEF Advance, Begin, Disconnected, ConnectOk, ConnectFails,
              ConnectionCallbackFails, Reconnecting, OpenChannelOk, OpenChannelFails,
              DeclareQueueOk, DeclareQueueFails, ReopeningChannel, ConsumeOk, ConsumeFails,
              ReportStarted, CloseChannelOk, CloseChannelFails, ClosingConnection,
              Reconnect, Finish, FinishStartError
<1>3. CASE SelectShutdown \/ Publish
  BY <1>3 DEF SelectShutdown, Publish
<1>4. CASE Select
  BY <1>4 DEF Select, SelectChannelClose, SelectConnectionClose,
              SelectPublishReturn, SelectMessageReceived, SelectIgnored
<1>5. CASE Environment
  BY <1>5 DEF Environment, BrokerGoesDown, BrokerComesUp, ServerClosesConnection,
              ServerClosesChannel, QueueDeleted, QueueRedeclared, OthersPublish, Deliver,
              ConnectionDies
<1>6. CASE UNCHANGED vars
  BY <1>6 DEF vars
<1>7. QED
  BY <1>1, <1>2, <1>3, <1>4, <1>5, <1>6 DEF Next

\* A fault is counted under its kind.
LEMMA FaultsCounted ==
    ASSUME NEW kind, faults \in [FaultKinds -> Nat], Inject(kind)
    PROVE  faults' \in [FaultKinds -> Nat]
<1>1. faults' = [faults EXCEPT ![kind] = faults[kind] + 1] /\ kind \in FaultKinds
  BY ConstantsAssumption DEF Inject
<1>2. faults[kind] + 1 \in Nat
  BY <1>1
<1>3. QED
  BY <1>1, <1>2

LEMMA FaultTypePreserved ==
    ASSUME faults \in [FaultKinds -> Nat], [Next]_vars
    PROVE  faults' \in [FaultKinds -> Nat]
<1>1. \/ UNCHANGED faults
      \/ \E kind \in FaultKinds : Inject(kind)
  BY DEF Next, Owner, Start, Shutdown, Send, Advance, Begin, Disconnected, ConnectOk,
         ConnectFails, ConnectionCallbackFails, Reconnecting, OpenChannelOk,
         OpenChannelFails, DeclareQueueOk, DeclareQueueFails, ReopeningChannel, ConsumeOk,
         ConsumeFails, ReportStarted, CloseChannelOk, CloseChannelFails, ClosingConnection,
         Reconnect, Finish, FinishStartError, SelectShutdown, Select, SelectChannelClose,
         SelectConnectionClose, SelectPublishReturn, SelectMessageReceived, SelectIgnored,
         Publish, Environment, BrokerGoesDown, BrokerComesUp, ServerClosesConnection,
         ServerClosesChannel, QueueDeleted, QueueRedeclared, OthersPublish, Deliver,
         NoFault, FaultKinds, vars
<1>2. QED
  BY <1>1, FaultsCounted

LEMMA QueueTypePreserved ==
    ASSUME QueueTypeOK, [Next]_vars
    PROVE  QueueTypeOK'
<1>0. faults' \in [FaultKinds -> Nat]
  BY FaultTypePreserved DEF QueueTypeOK
<1> USE <1>0, ConstantsAssumption, EmptyQueues, QueuedMessages, PushType, EventsOfEnvironment
    DEF QueueTypeOK, CloseConnection, CloseChannel,
        taskVars, ownerVars, brokerVars, dataVars
<1>1. CASE Owner
  <2>1. CASE Send
    <3>1. next \in Msgs /\ next' = next + 1 /\ sendQ' = Append(sendQ, next)
      BY <2>1 DEF Send
    <3>2. sendQ' \in Seq(Msgs)
      BY <3>1
    <3>3. next' \in 1..(MaxMsgs + 1)
      BY <3>1 DEF Msgs
    <3>4. QED
      BY <2>1, <3>2, <3>3 DEF Send
  <2>2. QED
    BY <1>1, <2>1 DEF Owner, Start, Shutdown
<1>2. CASE Advance
  <2>1. /\ events' \in {events, <<>>}
        /\ UNCHANGED <<dataVars, queued>>
    BY <1>2 DEF Advance, Begin, Disconnected, ConnectOk, ConnectFails,
                ConnectionCallbackFails, Reconnecting, OpenChannelOk, OpenChannelFails,
                DeclareQueueOk, DeclareQueueFails, ReopeningChannel, ConsumeOk, ConsumeFails,
                ReportStarted, CloseChannelOk, CloseChannelFails, ClosingConnection,
                Reconnect, Finish, FinishStartError
  <2>2. QED
    BY <2>1
<1>3. CASE SelectShutdown
  BY <1>3 DEF SelectShutdown
<1>4. CASE Publish
  <2>1. Head(sendQ) \in Msgs /\ Tail(sendQ) \in Seq(Msgs)
    BY <1>4 DEF Publish
  <2>2. QED
    BY <1>4, <2>1 DEF Publish
<1>5. CASE Select
  <2>1. Head(events) \in Event /\ Tail(events) \in Seq(Event)
    BY <1>5 DEF Select, NextEventIs, SelectChannelClose, SelectConnectionClose,
                SelectPublishReturn, SelectMessageReceived, SelectIgnored
  <2>2. CASE SelectPublishReturn
    <3>1. Head(events).msg \in Msgs
      BY <2>1, <2>2 DEF SelectPublishReturn, NextEventIs, Event
    <3>2. QED
      BY <2>1, <2>2, <3>1 DEF SelectPublishReturn
  <2>3. CASE SelectMessageReceived
    <3>1. Head(events).msg \in Msgs
      BY <2>1, <2>3 DEF SelectMessageReceived, NextEventIs, Event
    <3>2. QED
      BY <2>1, <2>3, <3>1 DEF SelectMessageReceived
  <2>4. QED
    BY <1>5, <2>1, <2>2, <2>3
    DEF Select, SelectChannelClose, SelectConnectionClose, SelectIgnored
<1>6. CASE Environment
  <2>1. CASE OthersPublish
    <3>1. next \in Msgs /\ next' = next + 1 /\ queued' = Append(queued, next)
      BY <2>1 DEF OthersPublish
    <3>2. queued' \in Seq(Msgs)
      BY <3>1
    <3>3. next' \in 1..(MaxMsgs + 1)
      BY <3>1 DEF Msgs
    <3>4. QED
      BY <2>1, <3>2, <3>3 DEF OthersPublish
  <2>2. CASE Deliver
    <3>1. Head(queued) \in Msgs /\ Tail(queued) \in Seq(Msgs)
      BY <2>2 DEF Deliver
    <3>2. QED
      BY <2>2, <3>1 DEF Deliver
  <2>3. CASE BrokerGoesDown
    <3>1. events' \in {events, Push([kind |-> "ConnectionClose"])}
      BY <2>3 DEF BrokerGoesDown, ConnectionDies
    <3>2. queued' \in {queued, <<>>} /\ UNCHANGED dataVars
      BY <2>3 DEF BrokerGoesDown
    <3>3. events' \in Seq(Event) /\ queued' \in Seq(Msgs)
      BY <3>1, <3>2
    <3>4. QED
      BY <3>2, <3>3
  <2>4. CASE ServerClosesConnection \/ ServerClosesChannel
    BY <2>4 DEF ServerClosesConnection, ServerClosesChannel, ConnectionDies
  <2>5. CASE QueueDeleted
    BY <2>5 DEF QueueDeleted
  <2>6. CASE BrokerComesUp \/ QueueRedeclared
    BY <2>6 DEF BrokerComesUp, QueueRedeclared
  <2>7. QED
    BY <1>6, <2>1, <2>2, <2>3, <2>4, <2>5, <2>6 DEF Environment
<1>7. CASE UNCHANGED vars
  BY <1>7 DEF vars
<1>8. QED
  BY <1>1, <1>2, <1>3, <1>4, <1>5, <1>6, <1>7 DEF Next

(* Every state of the task carries the fields of its variant of State, an  *)
(* event channel lives no longer than its state, and the queues hold what  *)
(* their types say.                                                        *)
THEOREM TypeCorrect == Spec => []TypeOK
<1>1. Init => TypeOK
  <2> SUFFICES ASSUME Init PROVE TypeOK
    OBVIOUS
  <2>1. TaskTypeOK
    BY DEF Init, TaskTypeOK, States, HoldsReason, HoldsChannel, HoldsEvents, HoldsConnection
  <2>2. FlagTypeOK
    BY DEF Init, FlagTypeOK
  <2>3. QueueTypeOK
    BY EmptyQueues, ConstantsAssumption DEF Init, QueueTypeOK
  <2>4. QED
    BY <2>1, <2>2, <2>3 DEF TypeOK
<1>2. TypeOK /\ [Next]_vars => TypeOK'
  BY TaskTypePreserved, FlagTypePreserved, QueueTypePreserved DEF TypeOK
<1>3. QED
  BY <1>1, <1>2, PTL DEF Spec

-----------------------------------------------------------------------------
(* Starting and finishing *)

\* How the reason a state carries, the start result and the shutdown token
\* depend on one another.  FinishedForAReason alone is not inductive: what a
\* task finishes with is decided when it begins to close.
ReasonInv ==
    /\ startResult = "dropped" <=> state = "Returned"
    /\ startResult = "error" => state = "Finished"
    /\ state \in {"Waiting", "Disconnected"} => Starting
    /\ state \in {"Reconnecting", "ReopeningChannel"} => startResult = "ok"
    /\ reason = "StartError" => Starting
    /\ Starting => reason \in {"none", "StartError"}
    /\ reason = "Shutdown" => shutdownToken /\ startResult = "ok"
    /\ reason = "Fatal" => state = "Finished" /\ startResult = "error"
    /\ state = "Finished" => reason \in {"Shutdown", "Fatal"}

LEMMA ReasonInvPreserved ==
    ASSUME TypeOK, ReasonInv, [Next]_vars
    PROVE  ReasonInv'
<1> USE DEF TypeOK, TaskTypeOK, FlagTypeOK, ReasonInv, States, Reasons, HoldsReason,
            StartErrorOr, CloseConnection, CloseChannel, Starting,
            taskVars, ownerVars, brokerVars, dataVars
<1>1. CASE Owner
  BY <1>1 DEF Owner, Start, Shutdown, Send
<1>2. CASE Advance
  <2>1. CASE Begin \/ Disconnected
    BY <2>1 DEF Begin, Disconnected
  <2>2. CASE ConnectOk \/ ConnectFails \/ ConnectionCallbackFails \/ Reconnecting
    BY <2>2 DEF ConnectOk, ConnectFails, ConnectionCallbackFails, Reconnecting
  <2>3. CASE OpenChannelOk \/ OpenChannelFails \/ ReopeningChannel
    BY <2>3 DEF OpenChannelOk, OpenChannelFails, ReopeningChannel
  <2>4. CASE DeclareQueueOk \/ DeclareQueueFails
    BY <2>4 DEF DeclareQueueOk, DeclareQueueFails
  <2>5. CASE ConsumeOk \/ ConsumeFails \/ ReportStarted
    BY <2>5 DEF ConsumeOk, ConsumeFails, ReportStarted
  <2>6. CASE CloseChannelOk \/ CloseChannelFails
    BY <2>6 DEF CloseChannelOk, CloseChannelFails, ReopenReasons
  <2>7. CASE ClosingConnection \/ Reconnect
    BY <2>7 DEF ClosingConnection, Reconnect, ReconnectReasons
  <2>8. CASE Finish \/ FinishStartError
    BY <2>8 DEF Finish, FinishStartError
  <2>9. QED
    BY <1>2, <2>1, <2>2, <2>3, <2>4, <2>5, <2>6, <2>7, <2>8 DEF Advance
<1>3. CASE SelectShutdown \/ Publish
  BY <1>3 DEF SelectShutdown, Publish, Selecting
<1>4. CASE Select
  BY <1>4 DEF Select, NextEventIs, Selecting, SelectChannelClose, SelectConnectionClose,
              SelectPublishReturn, SelectMessageReceived, SelectIgnored
<1>5. CASE Environment
  BY <1>5 DEF Environment, BrokerGoesDown, BrokerComesUp, ServerClosesConnection,
              ServerClosesChannel, QueueDeleted, QueueRedeclared, OthersPublish, Deliver,
              ConnectionDies
<1>6. CASE UNCHANGED vars
  BY <1>6 DEF vars
<1>7. QED
  BY <1>1, <1>2, <1>3, <1>4, <1>5, <1>6 DEF Next

LEMMA ReasonInvariant == Spec => []ReasonInv
<1>1. Init => ReasonInv
  BY DEF Init, ReasonInv, Starting
<1>2. TypeOK /\ ReasonInv /\ [Next]_vars => ReasonInv'
  BY ReasonInvPreserved
<1>3. QED
  BY <1>1, <1>2, TypeCorrect, PTL DEF Spec

(* Whatever fails, a finished task either reported the error of its first  *)
(* attempt or was asked to stop: the panic of CloseReason's Display and    *)
(* the branches marked "shouldn't happen" are unreachable.                 *)
THEOREM FinishReason == Spec => []FinishedForAReason
<1>1. TypeOK /\ ReasonInv => FinishedForAReason
  BY DEF ReasonInv, FinishedForAReason
<1>2. QED
  BY <1>1, TypeCorrect, ReasonInvariant, PTL

(* Until the first success every failure goes to whoever awaits wait_start *)
(* and none is retried behind its back.                                    *)
THEOREM StartFailure == Spec => []StartFailsFast
<1>1. TypeOK /\ ReasonInv => StartFailsFast
  BY DEF ReasonInv, StartFailsFast, Starting
<1>2. QED
  BY <1>1, TypeCorrect, ReasonInvariant, PTL

\* What the broker does and what the task reads while connected stays behind the
\* handle.
LEMMA BrokerIsUnseen ==
    ASSUME TypeOK, SelectShutdown \/ Select \/ Publish \/ Environment \/ UNCHANGED vars
    PROVE  UNCHANGED Handle!vars
<1> USE DEF TypeOK, TaskTypeOK, States, Handle!vars, Terminated, taskVars, ownerVars, brokerVars, dataVars
<1>1. CASE UNCHANGED vars \/ SelectShutdown \/ Publish
  BY <1>1 DEF vars, SelectShutdown, Publish, Selecting, CloseChannel
<1>2. CASE Select
  BY <1>2 DEF Selecting, Select, NextEventIs, SelectChannelClose, SelectConnectionClose,
              SelectPublishReturn, SelectMessageReceived, SelectIgnored, CloseChannel
<1>3. CASE Environment
  BY <1>3 DEF Environment, BrokerGoesDown, BrokerComesUp, ServerClosesConnection,
              ServerClosesChannel, QueueDeleted, QueueRedeclared, OthersPublish, Deliver,
              ConnectionDies
<1> QED
  BY <1>1, <1>2, <1>3

\* The owner sees of the task that it begins or refuses to, reports once, and stops
\* when asked to; connecting and reconnecting are steps of its own.
LEMMA TaskKeepsPromise ==
    ASSUME TypeOK, ReasonInv, Advance
    PROVE  \/ Handle!Begin \/ Handle!Refuse \/ Handle!ReportOk \/ Handle!ReportError \/ Handle!Stop
           \/ UNCHANGED Handle!vars
<1> USE DEF TypeOK, TaskTypeOK, States, ReasonInv, Starting, Terminated, Handle!vars,
            taskVars, ownerVars, brokerVars, dataVars, CloseConnection, CloseChannel
<1>1. CASE Begin
  BY <1>1 DEF Begin, Handle!Begin, Handle!Refuse
<1>2. CASE Disconnected \/ ConnectOk \/ ConnectFails \/ ConnectionCallbackFails \/ Reconnecting
  BY <1>2 DEF Disconnected, ConnectOk, ConnectFails, ConnectionCallbackFails, Reconnecting
<1>3. CASE OpenChannelOk \/ OpenChannelFails \/ DeclareQueueOk \/ DeclareQueueFails
  BY <1>3 DEF OpenChannelOk, OpenChannelFails, DeclareQueueOk, DeclareQueueFails
<1>4. CASE ReopeningChannel \/ ConsumeOk \/ ConsumeFails
  BY <1>4 DEF ReopeningChannel, ConsumeOk, ConsumeFails
<1>5. CASE CloseChannelOk \/ CloseChannelFails \/ ClosingConnection \/ Reconnect
  BY <1>5 DEF CloseChannelOk, CloseChannelFails, ClosingConnection, Reconnect
<1>6. CASE ReportStarted
  BY <1>6 DEF ReportStarted, Handle!ReportOk
<1>7. CASE Finish \/ FinishStartError
  BY <1>7 DEF Finish, FinishStartError, Handle!Stop, Handle!ReportError
<1> QED
  BY <1>1, <1>2, <1>3, <1>4, <1>5, <1>6, <1>7 DEF Advance

(* The task keeps the promise made to the owner of its handle: every step  *)
(* is a step of AmqpHandle or leaves what the owner sees unchanged.        *)
THEOREM ImplementsHandle == Spec => HandleSpec
<1>1. Init => Handle!Init
  BY DEF Init, Handle!Init, Terminated
<1>2. ASSUME TypeOK, ReasonInv, [Next]_vars
      PROVE  [Handle!Next]_Handle!vars
  <2>1. Owner => Handle!CallStart \/ Handle!CallShutdown \/ UNCHANGED Handle!vars
    BY DEF Owner, Start, Shutdown, Send, Handle!CallStart, Handle!CallShutdown, Handle!vars,
           Terminated, taskVars, ownerVars, brokerVars, dataVars
  <2> QED
    BY <1>2, <2>1, TaskKeepsPromise, BrokerIsUnseen DEF Next, Handle!Next
<1>3. QED
  BY <1>1, <1>2, TypeCorrect, ReasonInvariant, PTL DEF Spec, HandleSpec, Handle!Spec

-----------------------------------------------------------------------------
(* The event channel *)

Pending(kind) == \E i \in DOMAIN events : events[i].kind = kind

\* A started or starting task that still means to use its connection has the
\* end of that connection before it; so has one that uses a dead channel.
NoticeInv ==
    /\ Pending("ConnectionClose") => conn = "closed"
    /\ conn = "closed" =>
          \/ Pending("ConnectionClose")
          \/ state = "ClosingConnection"
          \/ state = "ClosingChannel" /\ reason \notin ReopenReasons
    /\ chan = "closed" => Pending("ChannelClose") \/ state = "ClosingChannel"

LEMMA PendingAfterPush ==
    ASSUME events \in Seq(Event), NEW e \in Event, events' = Push(e), NEW k
    PROVE  /\ Pending(k) => Pending(k)'
           /\ Pending(k)' => Pending(k) \/ e.kind = k
           /\ state \in HoldsEvents => Pending(e.kind)'
<1>1. CASE state \in HoldsEvents
  <2>1. events' = Append(events, e)
    BY <1>1 DEF Push
  <2>2. /\ DOMAIN events' = 1..(Len(events) + 1) /\ DOMAIN events = 1..Len(events)
        /\ Len(events) \in Nat
        /\ events'[Len(events) + 1] = e
        /\ \A i \in DOMAIN events : events'[i] = events[i]
    BY <2>1
  <2>3. QED
    BY <2>2 DEF Pending
<1>2. CASE state \notin HoldsEvents
  BY <1>2 DEF Push, Pending
<1>3. QED
  BY <1>1, <1>2

LEMMA PendingAfterTail ==
    ASSUME events \in Seq(Event), events # <<>>, events' = Tail(events), NEW k
    PROVE  /\ Pending(k)' => Pending(k)
           /\ Pending(k) => Pending(k)' \/ Head(events).kind = k
<1>1. /\ DOMAIN events' = 1..(Len(events) - 1) /\ DOMAIN events = 1..Len(events)
      /\ Len(events) \in Nat \ {0}
      /\ Head(events) = events[1]
      /\ \A i \in DOMAIN events' : events'[i] = events[i + 1]
  OBVIOUS
<1>2. Pending(k)' => Pending(k)
  <2>1. ASSUME NEW i \in DOMAIN events', events'[i].kind = k
        PROVE  i + 1 \in DOMAIN events /\ events[i + 1].kind = k
    BY <1>1, <2>1
  <2>2. QED
    BY <2>1 DEF Pending
<1>3. Pending(k) => Pending(k)' \/ Head(events).kind = k
  <2>1. ASSUME NEW i \in DOMAIN events, events[i].kind = k, i # 1
        PROVE  i - 1 \in DOMAIN events' /\ events'[i - 1].kind = k
    BY <1>1, <2>1
  <2>2. QED
    BY <1>1, <2>1 DEF Pending
<1>4. QED
  BY <1>2, <1>3

LEMMA NothingPending ==
    ASSUME NEW k PROVE events = <<>> => ~Pending(k)
BY DEF Pending

LEMMA NoticeInvPreserved ==
    ASSUME TypeOK, NoticeInv, [Next]_vars
    PROVE  NoticeInv'
<1> USE EventsOfEnvironment, NothingPending
    DEF TypeOK, TaskTypeOK, FlagTypeOK, QueueTypeOK, NoticeInv, HoldsEvents, HoldsReason,
        HoldsConnection, HoldsChannel, ReopenReasons, StartErrorOr, Alive,
        CloseConnection, CloseChannel, taskVars, ownerVars, brokerVars, dataVars
<1>1. ASSUME UNCHANGED events PROVE \A k : Pending(k)' <=> Pending(k)
  BY <1>1 DEF Pending
<1>2. ASSUME events' = <<>> PROVE \A k : ~Pending(k)'
  BY <1>2 DEF Pending
<1>3. CASE Owner
  BY <1>1, <1>3 DEF Owner, Start, Shutdown, Send
<1>4. CASE Advance
  <2>1. CASE Begin \/ Disconnected \/ ConnectFails \/ Reconnecting
    BY <1>1, <2>1 DEF Begin, Disconnected, ConnectFails, Reconnecting
  <2>2. CASE ConnectOk \/ ConnectionCallbackFails
    BY <1>1, <2>2 DEF ConnectOk, ConnectionCallbackFails
  <2>3. CASE OpenChannelOk \/ OpenChannelFails \/ ReopeningChannel
    BY <1>1, <1>2, <2>3 DEF OpenChannelOk, OpenChannelFails, ReopeningChannel
  <2>4. CASE DeclareQueueOk \/ DeclareQueueFails
    BY <1>1, <2>4 DEF DeclareQueueOk, DeclareQueueFails
  <2>5. CASE ConsumeOk \/ ConsumeFails \/ ReportStarted
    BY <1>1, <2>5 DEF ConsumeOk, ConsumeFails, ReportStarted
  <2>6. CASE CloseChannelOk \/ CloseChannelFails
    BY <1>1, <1>2, <2>6 DEF CloseChannelOk, CloseChannelFails
  <2>7. CASE ClosingConnection \/ Reconnect \/ Finish \/ FinishStartError
    BY <1>1, <2>7 DEF ClosingConnection, Reconnect, Finish, FinishStartError
  <2>8. QED
    BY <1>4, <2>1, <2>2, <2>3, <2>4, <2>5, <2>6, <2>7 DEF Advance
<1>5. CASE SelectShutdown
  BY <1>1, <1>5 DEF SelectShutdown, Selecting
<1>6. CASE Publish
  <2>1. Head(sendQ) \in Msgs
    BY <1>6 DEF Publish
  <2>2. UNCHANGED events \/ events' = Push([kind |-> "PublishReturn", msg |-> Head(sendQ)])
    BY <1>6 DEF Publish
  <2>3. /\ Pending("ConnectionClose")' <=> Pending("ConnectionClose")
        /\ Pending("ChannelClose") => Pending("ChannelClose")'
    BY <1>1, <2>1, <2>2, PendingAfterPush
  <2>4. QED
    BY <1>6, <2>3 DEF Publish, Selecting
<1>7. CASE Select
  <2>1. events # <<>> /\ events' = Tail(events) /\ state = "Connected"
    BY <1>7 DEF Select, NextEventIs, Selecting, SelectChannelClose, SelectConnectionClose,
                SelectPublishReturn, SelectMessageReceived, SelectIgnored
  <2>2. \A k : /\ Pending(k)' => Pending(k)
               /\ Pending(k) => Pending(k)' \/ Head(events).kind = k
    BY <2>1, PendingAfterTail
  <2>3. QED
    BY <1>7, <2>1, <2>2
    DEF Select, NextEventIs, SelectChannelClose, SelectConnectionClose,
        SelectPublishReturn, SelectMessageReceived, SelectIgnored
<1>8. CASE Environment
  <2>1. CASE BrokerGoesDown \/ ServerClosesConnection
    <3>1. \/ conn = "open" /\ conn' = "closed" /\ events' = Push([kind |-> "ConnectionClose"])
          \/ conn # "open" /\ UNCHANGED <<conn, events>>
      BY <2>1 DEF BrokerGoesDown, ServerClosesConnection, ConnectionDies
    <3>2. UNCHANGED <<state, reason, chan>>
      BY <2>1 DEF BrokerGoesDown, ServerClosesConnection, ConnectionDies
    <3>3. CASE conn = "open" /\ conn' = "closed" /\ events' = Push([kind |-> "ConnectionClose"])
      <4>1. /\ state \in HoldsEvents => Pending("ConnectionClose")'
            /\ Pending("ChannelClose") => Pending("ChannelClose")'
        BY <3>3, PendingAfterPush
      <4>2. QED
        BY <3>2, <3>3, <4>1
    <3>4. QED
      BY <1>1, <3>1, <3>2, <3>3
  <2>2. CASE ServerClosesChannel
    <3>1. state \in HoldsEvents
      BY <2>2 DEF ServerClosesChannel
    <3>2. /\ Pending("ConnectionClose")' <=> Pending("ConnectionClose")
          /\ Pending("ChannelClose")'
      BY <2>2, <3>1, PendingAfterPush DEF ServerClosesChannel
    <3>3. QED
      BY <2>2, <3>2 DEF ServerClosesChannel
  <2>3. CASE QueueDeleted
    <3>1. UNCHANGED events \/ events' = Push([kind |-> "ChannelCancel"])
      BY <2>3 DEF QueueDeleted
    <3>2. /\ Pending("ConnectionClose")' <=> Pending("ConnectionClose")
          /\ Pending("ChannelClose") => Pending("ChannelClose")'
      BY <1>1, <3>1, PendingAfterPush
    <3>3. QED
      BY <2>3, <3>2 DEF QueueDeleted
  <2>4. CASE Deliver
    <3>1. Head(queued) \in Msgs
      BY <2>4 DEF Deliver
    <3>2. /\ Pending("ConnectionClose")' <=> Pending("ConnectionClose")
          /\ Pending("ChannelClose") => Pending("ChannelClose")'
      BY <2>4, <3>1, PendingAfterPush DEF Deliver
    <3>3. QED
      BY <2>4, <3>2 DEF Deliver
  <2>5. CASE BrokerComesUp \/ QueueRedeclared \/ OthersPublish
    BY <1>1, <2>5 DEF BrokerComesUp, QueueRedeclared, OthersPublish
  <2>6. QED
    BY <1>8, <2>1, <2>2, <2>3, <2>4, <2>5 DEF Environment
<1>9. CASE UNCHANGED vars
  BY <1>1, <1>9 DEF vars
<1>10. QED
  BY <1>3, <1>4, <1>5, <1>6, <1>7, <1>8, <1>9 DEF Next

LEMMA NoticeInvariant == Spec => []NoticeInv
<1>1. Init => NoticeInv
  BY DEF Init, NoticeInv, Pending
<1>2. TypeOK /\ NoticeInv /\ [Next]_vars => NoticeInv'
  BY NoticeInvPreserved
<1>3. QED
  BY <1>1, <1>2, TypeCorrect, PTL DEF Spec

(* The close event of one connection never closes its successor.           *)
THEOREM FreshEvents == Spec => []NoStaleConnectionClose
<1>1. NoticeInv => NoStaleConnectionClose
  BY DEF NoticeInv, NoStaleConnectionClose, Pending
<1>2. QED
  BY <1>1, NoticeInvariant, PTL

(* The task is never left in select! over a connection or channel that is  *)
(* dead, with nothing in event_rx to tell it so.                           *)
THEOREM WakesUp == Spec => []DeadChannelIsNoticed
<1>1. TypeOK /\ NoticeInv => DeadChannelIsNoticed
  BY DEF TypeOK, TaskTypeOK, HoldsConnection, HoldsChannel, HoldsEvents, NoticeInv,
         DeadChannelIsNoticed, Pending, Alive
<1>2. QED
  BY <1>1, TypeCorrect, NoticeInvariant, PTL
=============================================================================
