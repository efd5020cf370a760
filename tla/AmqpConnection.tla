--------------------------- MODULE AmqpConnection ---------------------------
(***************************************************************************)
(* The state machine of crates/reconnecting-amqp: one background task owns *)
(* the connection to the broker and walks the states of the enum State.    *)
(* An action is the code between two await points; the broker, the network *)
(* and the owner of the AmqpHandle act in between.                         *)
(*                                                                         *)
(* Messages are the numbers 1..MaxMsgs in the order their producer made    *)
(* them.  A client made without a recv_tx (the gateway) publishes them; a  *)
(* client made with one (the handler) consumes what others published.      *)
(***************************************************************************)
EXTENDS Naturals, Sequences

CONSTANTS
    HasConsumer,   \* was AmqpHandle::new given a recv_tx?
    MaxMsgs,       \* bound: messages produced in a behaviour
    Faults,        \* the kinds of fault the environment may inject
    MaxFaults      \* bound: faults injected in a behaviour

FaultKinds == {"connection", "channel", "queue", "call"}

ASSUME ConstantsAssumption ==
    /\ HasConsumer \in BOOLEAN
    /\ MaxMsgs \in Nat
    /\ Faults \subseteq FaultKinds
    /\ MaxFaults \in Nat

VARIABLES
    \* the background task
    state,         \* the variant of the enum State, or where run() stands
    reason,        \* the CloseReason the state carries, "none" if it has none
    conn,          \* the Connection the state owns: "none", "open", "closed"
    chan,          \* the Channel the state owns: "none", "open", "closed"
    consumer,      \* a consumer is registered on the channel
    events,        \* event_rx, empty when the state owns no event channel
    sendQ,         \* send_rx
    \* the owner's side of AmqpHandle
    startToken, shutdownToken,
    startResult,   \* the start one-shot; "pending" = shared.start_tx is Some
    \* the environment
    brokerUp,      \* the broker accepts connections
    queue,         \* the queue is declared
    queued,        \* its messages, kept only for a consuming client
    next,          \* the next message to be produced
    delivered,     \* messages handed to recv_tx, in order
    routed,        \* history: messages the queue accepted from this client
    faults         \* history: faults injected so far, by kind

taskVars == <<state, reason, conn, chan, consumer, events>>
ownerVars == <<startToken, shutdownToken>>
brokerVars == <<brokerUp, queue, queued>>
dataVars == <<sendQ, next, delivered, routed>>
vars == <<taskVars, ownerVars, startResult, brokerVars, dataVars, faults>>

States == {"Waiting", "Disconnected", "Connecting", "Reconnecting",
           "OpeningChannel", "ReopeningChannel", "DeclaringConsumer",
           "Connected", "ClosingChannel", "ClosingConnection",
           "ClosedConnection", "Finished", "Returned"}

Reasons == {"Shutdown", "ChannelClosed", "ConnectionClosed", "PublishNoRoute",
            "Fatal", "Other", "StartError"}

\* Which variants of State have which fields.
HoldsReason == {"ClosingChannel", "ClosingConnection", "ClosedConnection", "Finished"}
HoldsChannel == {"DeclaringConsumer", "Connected", "ClosingChannel"}
HoldsEvents == HoldsChannel \union {"OpeningChannel", "ReopeningChannel"}
HoldsConnection == HoldsEvents \union {"ClosingConnection"}

Terminated == state \in {"Finished", "Returned"}

Msgs == 1..MaxMsgs
Event == [kind : {"ConnectionClose", "ChannelClose", "ChannelCancel"}]
         \union [kind : {"PublishReturn", "MessageReceived"}, msg : Msgs]

Alive == conn = "open" /\ chan = "open"
Starting == startResult = "pending"

\* A callback of amqprs sends on event_tx; nobody is there to receive the
\* event once the state that owns event_rx is gone, and it is dropped.
Push(e) == IF state \in HoldsEvents THEN Append(events, e) ELSE events

Inject(kind) ==
    /\ kind \in Faults
    /\ faults["connection"] + faults["channel"] + faults["queue"] + faults["call"] < MaxFaults
    /\ faults' = [faults EXCEPT ![kind] = @ + 1]

NoFault == UNCHANGED faults

-----------------------------------------------------------------------------
(* The owner of the AmqpHandle. *)

Start ==
    /\ ~startToken
    /\ startToken' = TRUE
    /\ UNCHANGED <<taskVars, shutdownToken, startResult, brokerVars, dataVars, faults>>

Shutdown ==
    /\ ~shutdownToken
    /\ shutdownToken' = TRUE
    /\ UNCHANGED <<taskVars, startToken, startResult, brokerVars, dataVars, faults>>

\* sender().send(m): unbounded, refused only once the task has ended.
Send ==
    /\ ~HasConsumer /\ next \in Msgs /\ ~Terminated
    /\ sendQ' = Append(sendQ, next)
    /\ next' = next + 1
    /\ UNCHANGED <<taskVars, ownerVars, startResult, brokerVars, delivered, routed, faults>>

-----------------------------------------------------------------------------
(* The background task. *)

BeginUnchecked ==
    /\ state = "Waiting" /\ startToken
    /\ state' = "Disconnected"
    /\ UNCHANGED <<reason, conn, chan, consumer, events, ownerVars, startResult,
                   brokerVars, dataVars, faults>>

\* AmqpConnection::run up to its loop; returning drops start_tx unused.
Begin ==
    /\ state = "Waiting" /\ startToken
    /\ IF shutdownToken
       THEN state' = "Returned" /\ startResult' = "dropped"
       ELSE state' = "Disconnected" /\ UNCHANGED startResult
    /\ UNCHANGED <<reason, conn, chan, consumer, events, ownerVars, brokerVars, dataVars, faults>>

Disconnected ==
    /\ state = "Disconnected"
    /\ state' = "Connecting"
    /\ UNCHANGED <<reason, conn, chan, consumer, events, ownerVars, startResult,
                   brokerVars, dataVars, faults>>

AlwaysStartError(r) == "StartError"

\* While the owner still waits for the start result, a failure is its answer.
StartErrorOr(r) == IF Starting THEN "StartError" ELSE r

CloseConnectionKeepingEvents(r) ==
    /\ state' = "ClosingConnection" /\ reason' = r
    /\ chan' = "none" /\ consumer' = FALSE
    /\ UNCHANGED <<conn, events>>

\* ClosingConnection::new: the channel and event_rx are dropped with the state.
CloseConnection(r) ==
    /\ state' = "ClosingConnection" /\ reason' = r
    /\ chan' = "none" /\ consumer' = FALSE
    /\ events' = <<>>
    /\ UNCHANGED conn

\* ClosingChannel::new
CloseChannel(r) == state' = "ClosingChannel" /\ reason' = r

\* The event channel is fresh: the last one went with CloseConnection.
ConnectOk ==
    /\ state = "Connecting" /\ brokerUp
    /\ state' = "OpeningChannel" /\ conn' = "open"
    /\ UNCHANGED <<reason, chan, consumer, events, ownerVars, startResult,
                   brokerVars, dataVars, faults>>

ConnectFails ==
    /\ state = "Connecting"
    /\ (~brokerUp /\ NoFault) \/ Inject("call")
    /\ IF Starting
       THEN state' = "ClosedConnection" /\ reason' = "StartError"
       ELSE state' = "Reconnecting" /\ UNCHANGED reason
    /\ UNCHANGED <<conn, chan, consumer, events, ownerVars, startResult,
                   brokerVars, dataVars>>

ConnectionCallbackFails ==
    /\ state = "Connecting" /\ brokerUp /\ Inject("call")
    /\ state' = "ClosingConnection" /\ reason' = StartErrorOr("Other")
    /\ conn' = "open"
    /\ UNCHANGED <<chan, consumer, events, ownerVars, startResult, brokerVars, dataVars>>

\* Reconnecting::run: only the reconnect_delay is awaited, not the shutdown.
Reconnecting ==
    /\ state = "Reconnecting"
    /\ state' = "Connecting"
    /\ UNCHANGED <<reason, conn, chan, consumer, events, ownerVars, startResult,
                   brokerVars, dataVars, faults>>

\* OpeningChannel::run awaits open_channel, then register_callback, then
\* queue_declare: chan tells how far it is.
OpenChannelOk ==
    /\ state = "OpeningChannel" /\ chan = "none" /\ conn = "open"
    /\ chan' = "open"
    /\ UNCHANGED <<state, reason, conn, consumer, events, ownerVars, startResult,
                   brokerVars, dataVars, faults>>

OpenChannelFails ==
    /\ state = "OpeningChannel" /\ chan = "none"
    /\ (conn # "open" /\ NoFault) \/ Inject("call")
    /\ IF Starting
       THEN CloseConnection("StartError")
       ELSE /\ state' = "ReopeningChannel"
            /\ UNCHANGED <<reason, conn, chan, consumer, events>>
    /\ UNCHANGED <<ownerVars, startResult, brokerVars, dataVars>>

DeclareQueueOk ==
    /\ state = "OpeningChannel" /\ Alive
    /\ queue' = TRUE
    /\ state' = IF HasConsumer THEN "DeclaringConsumer" ELSE "Connected"
    /\ UNCHANGED <<reason, conn, chan, consumer, events, ownerVars, startResult,
                   brokerUp, queued, dataVars, faults>>

\* registering the channel callback or declaring the queue failed
DeclareQueueFails ==
    /\ state = "OpeningChannel" /\ chan # "none"
    /\ (~Alive /\ NoFault) \/ Inject("call")
    /\ CloseChannel(StartErrorOr("Other"))
    /\ UNCHANGED <<conn, chan, consumer, events, ownerVars, startResult,
                   brokerVars, dataVars>>

\* ReopeningChannel::run: the same connection and event_rx are used again.
ReopeningChannel ==
    /\ state = "ReopeningChannel"
    /\ state' = "OpeningChannel"
    /\ UNCHANGED <<reason, conn, chan, consumer, events, ownerVars, startResult,
                   brokerVars, dataVars, faults>>

ConsumeOk ==
    /\ state = "DeclaringConsumer" /\ Alive /\ queue
    /\ consumer' = TRUE
    /\ state' = "Connected"
    /\ UNCHANGED <<reason, conn, chan, events, ownerVars, startResult,
                   brokerVars, dataVars, faults>>

\* the consumer was refused; on a queue that is gone the server also closes
\* the channel, whose event nobody reads any more (reason Other)
ConsumeFails ==
    /\ state = "DeclaringConsumer"
    /\ (~(Alive /\ queue) /\ NoFault) \/ Inject("call")
    /\ CloseChannel(StartErrorOr("Other"))
    /\ chan' \in {chan, IF queue THEN chan ELSE "closed"}
    /\ UNCHANGED <<conn, consumer, events, ownerVars, startResult, brokerVars, dataVars>>

-----------------------------------------------------------------------------
(* Connected::run: report the start, then select! over three branches.  The *)
(* event and send channels cannot be closed, the task owns a sender of      *)
(* both, so the Fatal branches for a None cannot be taken.                  *)

ReportStarted ==
    /\ state = "Connected" /\ Starting
    /\ startResult' = "ok"
    /\ UNCHANGED <<taskVars, ownerVars, brokerVars, dataVars, faults>>

Selecting == state = "Connected" /\ ~Starting

SelectShutdown ==
    /\ Selecting /\ shutdownToken
    /\ CloseChannel("Shutdown")
    /\ UNCHANGED <<conn, chan, consumer, events, ownerVars, startResult,
                   brokerVars, dataVars, faults>>

NextEventIs(kind) == Selecting /\ events # <<>> /\ Head(events).kind = kind

SelectConnectionClose ==
    /\ NextEventIs("ConnectionClose")
    /\ events' = Tail(events)
    /\ CloseChannel("ConnectionClosed")
    /\ UNCHANGED <<conn, chan, consumer, ownerVars, startResult, brokerVars, dataVars, faults>>

SelectChannelCloseIgnored ==
    /\ NextEventIs("ChannelClose")
    /\ events' = Tail(events)
    /\ UNCHANGED <<state, reason, conn, chan, consumer, ownerVars, startResult,
                   brokerVars, dataVars, faults>>

SelectChannelClose ==
    /\ NextEventIs("ChannelClose")
    /\ events' = Tail(events)
    /\ CloseChannel("ChannelClosed")
    /\ UNCHANGED <<conn, chan, consumer, ownerVars, startResult, brokerVars, dataVars, faults>>

SelectPublishReturnDropping ==
    /\ NextEventIs("PublishReturn")
    /\ events' = Tail(events)
    /\ CloseChannel("PublishNoRoute")
    /\ UNCHANGED <<conn, chan, consumer, ownerVars, startResult, brokerVars, dataVars, faults>>

SelectPublishReturnStaying ==
    /\ NextEventIs("PublishReturn")
    /\ events' = Tail(events)
    /\ sendQ' = Append(sendQ, Head(events).msg)
    /\ UNCHANGED <<state, reason, conn, chan, consumer, ownerVars, startResult, brokerVars,
                   next, delivered, routed, faults>>

\* reply code 312: requeue the message behind what is waiting, then redeclare
SelectPublishReturn ==
    /\ NextEventIs("PublishReturn")
    /\ events' = Tail(events)
    /\ sendQ' = Append(sendQ, Head(events).msg)
    /\ CloseChannel("PublishNoRoute")
    /\ UNCHANGED <<conn, chan, consumer, ownerVars, startResult, brokerVars,
                   next, delivered, routed, faults>>

SelectMessageReceived ==
    /\ NextEventIs("MessageReceived")
    /\ events' = Tail(events)
    /\ delivered' = IF HasConsumer THEN Append(delivered, Head(events).msg) ELSE delivered
    /\ UNCHANGED <<state, reason, conn, chan, consumer, ownerVars, startResult,
                   brokerVars, sendQ, next, routed, faults>>

\* every other event, a cancelled consumer among them, is ignored
SelectIgnored ==
    /\ NextEventIs("ChannelCancel")
    /\ events' = Tail(events)
    /\ UNCHANGED <<state, reason, conn, chan, consumer, ownerVars, startResult,
                   brokerVars, dataVars, faults>>

PublishRetrying ==
    /\ Selecting /\ sendQ # <<>>
    /\ sendQ' = IF Alive /\ queue THEN Tail(sendQ) ELSE sendQ
    /\ routed' = IF Alive /\ queue THEN Append(routed, Head(sendQ)) ELSE routed
    /\ events' = IF Alive /\ ~queue
                 THEN Push([kind |-> "PublishReturn", msg |-> Head(sendQ)]) ELSE events
    /\ UNCHANGED <<state, reason, conn, chan, consumer, ownerVars, startResult,
                   brokerVars, next, delivered, faults>>

\* basic_publish with the mandatory flag: the broker routes the message to the
\* queue or returns it; on a dead channel the error is logged and it is lost.
Publish ==
    /\ Selecting /\ sendQ # <<>>
    /\ sendQ' = Tail(sendQ)
    /\ routed' = IF Alive /\ queue THEN Append(routed, Head(sendQ)) ELSE routed
    /\ events' = IF Alive /\ ~queue
                 THEN Push([kind |-> "PublishReturn", msg |-> Head(sendQ)]) ELSE events
    /\ UNCHANGED <<state, reason, conn, chan, consumer, ownerVars, startResult,
                   brokerVars, next, delivered, faults>>

-----------------------------------------------------------------------------
(* Closing. *)

ReopenReasonsWithConnection == {"ChannelClosed", "PublishNoRoute", "ConnectionClosed"}

ReopenReasons == {"ChannelClosed", "PublishNoRoute"}

\* Channel::close() answers Ok at once for a channel the server closed already
CloseChannelOk ==
    /\ state = "ClosingChannel"
    /\ IF reason \in ReopenReasons
       THEN /\ state' = "ReopeningChannel" /\ reason' = "none"
            /\ chan' = "none" /\ consumer' = FALSE
            /\ UNCHANGED <<conn, events>>
       ELSE CloseConnection(reason)
    /\ UNCHANGED <<ownerVars, startResult, brokerVars, dataVars, faults>>

CloseChannelFails ==
    /\ state = "ClosingChannel"
    /\ (~Alive /\ NoFault) \/ Inject("call")
    /\ CloseConnection(reason)
    /\ UNCHANGED <<ownerVars, startResult, brokerVars, dataVars>>

\* an error of Connection::close() is only logged
ClosingConnection ==
    /\ state = "ClosingConnection"
    /\ state' = "ClosedConnection"
    /\ conn' = "none"
    /\ UNCHANGED <<reason, chan, consumer, events, ownerVars, startResult,
                   brokerVars, dataVars, faults>>

ReconnectReasonsWithShutdown ==
    {"ChannelClosed", "PublishNoRoute", "ConnectionClosed", "Other", "Shutdown"}

ReconnectReasons == {"ChannelClosed", "PublishNoRoute", "ConnectionClosed", "Other"}

ReconnectKeepingReason ==
    /\ state = "ClosedConnection" /\ reason \in ReconnectReasons
    /\ state' = "Reconnecting"
    /\ UNCHANGED <<reason, conn, chan, consumer, events, ownerVars, startResult,
                   brokerVars, dataVars, faults>>

Reconnect ==
    /\ state = "ClosedConnection" /\ reason \in ReconnectReasons
    /\ state' = "Reconnecting" /\ reason' = "none"
    /\ UNCHANGED <<conn, chan, consumer, events, ownerVars, startResult,
                   brokerVars, dataVars, faults>>

Finish ==
    /\ state = "ClosedConnection" /\ reason \in {"Fatal", "Shutdown"}
    /\ state' = "Finished"
    /\ UNCHANGED <<reason, conn, chan, consumer, events, ownerVars, startResult,
                   brokerVars, dataVars, faults>>

FinishStartErrorSilently ==
    /\ state = "ClosedConnection" /\ reason = "StartError"
    /\ state' = "Finished" /\ reason' = "Fatal"
    /\ UNCHANGED <<conn, chan, consumer, events, startResult, ownerVars, brokerVars,
                   dataVars, faults>>

\* Taking start_tx a second time ends in Fatal too, without a report.
FinishStartError ==
    /\ state = "ClosedConnection" /\ reason = "StartError"
    /\ state' = "Finished" /\ reason' = "Fatal"
    /\ startResult' = IF Starting THEN "error" ELSE startResult
    /\ UNCHANGED <<conn, chan, consumer, events, ownerVars, brokerVars, dataVars, faults>>

-----------------------------------------------------------------------------
(* The broker, the network and the other clients of the queue. *)

\* The connection ends under the client, which learns of it by an event.  That
\* amqprs calls the client's close callback not only for the server's Close but
\* also when the socket is lost or the broker goes down is assumed.
ConnectionDies ==
    /\ IF conn = "open"
       THEN /\ conn' = "closed" /\ consumer' = FALSE
            /\ events' = Push([kind |-> "ConnectionClose"])
       ELSE UNCHANGED <<conn, consumer, events>>
    /\ UNCHANGED <<state, reason, chan>>

\* Messages are published without a delivery mode, so a restart of the broker
\* may lose those it holds; the queue is durable and stays declared.
BrokerGoesDown ==
    /\ brokerUp /\ Inject("connection")
    /\ brokerUp' = FALSE
    /\ queued' \in {queued, <<>>}
    /\ ConnectionDies
    /\ UNCHANGED <<ownerVars, startResult, queue, dataVars>>

BrokerComesUp ==
    /\ ~brokerUp
    /\ brokerUp' = TRUE
    /\ UNCHANGED <<taskVars, ownerVars, startResult, queue, queued, dataVars, faults>>

ServerClosesConnection ==
    /\ conn = "open" /\ Inject("connection")
    /\ ConnectionDies
    /\ UNCHANGED <<ownerVars, startResult, brokerVars, dataVars>>

ServerClosesChannel ==
    /\ Alive /\ Inject("channel")
    /\ chan' = "closed" /\ consumer' = FALSE
    /\ events' = Push([kind |-> "ChannelClose"])
    /\ UNCHANGED <<state, reason, conn, ownerVars, startResult, brokerVars, dataVars>>

\* Somebody deletes the queue: its messages are gone and its consumer, if
\* there is one, is cancelled.
QueueDeleted ==
    /\ brokerUp /\ queue /\ Inject("queue")
    /\ queue' = FALSE /\ queued' = <<>>
    /\ consumer' = FALSE
    /\ events' = IF consumer THEN Push([kind |-> "ChannelCancel"]) ELSE events
    /\ UNCHANGED <<state, reason, conn, chan, ownerVars, startResult, brokerUp, dataVars>>

\* The publisher on the other side declares the queue again.
QueueRedeclared ==
    /\ HasConsumer /\ brokerUp /\ ~queue
    /\ queue' = TRUE
    /\ UNCHANGED <<taskVars, ownerVars, startResult, brokerUp, queued, dataVars, faults>>

OthersPublish ==
    /\ HasConsumer /\ brokerUp /\ queue /\ next \in Msgs
    /\ queued' = Append(queued, next)
    /\ next' = next + 1
    /\ UNCHANGED <<taskVars, ownerVars, startResult, brokerUp, queue,
                   sendQ, delivered, routed, faults>>

DeliverKeepingCopy ==
    /\ brokerUp /\ Alive /\ consumer /\ queued # <<>>
    /\ queued' \in {queued, Tail(queued)}
    /\ events' = Push([kind |-> "MessageReceived", msg |-> Head(queued)])
    /\ UNCHANGED <<state, reason, conn, chan, consumer, ownerVars, startResult,
                   brokerUp, queue, dataVars, faults>>

\* The consumer is declared with manual_ack(false): a message leaves the queue
\* when the broker hands it over.
Deliver ==
    /\ brokerUp /\ Alive /\ consumer /\ queued # <<>>
    /\ queued' = Tail(queued)
    /\ events' = Push([kind |-> "MessageReceived", msg |-> Head(queued)])
    /\ UNCHANGED <<state, reason, conn, chan, consumer, ownerVars, startResult,
                   brokerUp, queue, dataVars, faults>>

-----------------------------------------------------------------------------
Init ==
    /\ state = "Waiting" /\ reason = "none"
    /\ conn = "none" /\ chan = "none" /\ consumer = FALSE
    /\ events = <<>> /\ sendQ = <<>>
    /\ startToken = FALSE /\ shutdownToken = FALSE /\ startResult = "pending"
    /\ brokerUp \in BOOLEAN /\ queue \in BOOLEAN /\ queued = <<>>
    /\ next = 1 /\ delivered = <<>> /\ routed = <<>>
    /\ faults = [kind \in FaultKinds |-> 0]

Owner == Start \/ Shutdown \/ Send

Select ==
    \/ SelectConnectionClose \/ SelectChannelClose
    \/ SelectPublishReturn \/ SelectMessageReceived \/ SelectIgnored

\* One step of State::run outside of the select! of Connected.
Advance ==
    \/ Begin \/ Disconnected
    \/ ConnectOk \/ ConnectFails \/ ConnectionCallbackFails \/ Reconnecting
    \/ OpenChannelOk \/ OpenChannelFails
    \/ DeclareQueueOk \/ DeclareQueueFails \/ ReopeningChannel
    \/ ConsumeOk \/ ConsumeFails \/ ReportStarted
    \/ CloseChannelOk \/ CloseChannelFails
    \/ ClosingConnection \/ Reconnect \/ Finish \/ FinishStartError

Environment ==
    \/ BrokerGoesDown \/ BrokerComesUp
    \/ ServerClosesConnection \/ ServerClosesChannel
    \/ QueueDeleted \/ QueueRedeclared \/ OthersPublish \/ Deliver

Next == Owner \/ Advance \/ SelectShutdown \/ Select \/ Publish \/ Environment

Spec == Init /\ [][Next]_vars

\* The runtime polls the task; every awaited call of the broker returns, with
\* an answer or an error; select! polls its ready branches in random order, so
\* none of them waits for ever.
TaskFairness ==
    /\ WF_vars(Advance)
    /\ WF_vars(SelectShutdown) /\ WF_vars(Select) /\ WF_vars(Publish)

TaskFairSpec == Spec /\ TaskFairness

\* Besides, a broker that is down comes back in the end.
FairSpec == Spec /\ TaskFairness /\ WF_vars(BrokerComesUp)

-----------------------------------------------------------------------------
(* Types: each state carries the fields its variant of State has. *)
TaskTypeOK ==
    /\ state \in States
    /\ reason \in Reasons \union {"none"}
    /\ reason # "none" <=> state \in HoldsReason
    /\ conn \in {"none", "open", "closed"}
    /\ conn # "none" <=> state \in HoldsConnection
    /\ chan \in {"none", "open", "closed"}
    /\ state \in HoldsChannel => chan # "none"
    /\ chan # "none" => state \in HoldsChannel \union {"OpeningChannel"}
    /\ state \notin HoldsEvents => events = <<>>
    /\ startResult \in {"pending", "ok", "error", "dropped"}

FlagTypeOK ==
    /\ consumer \in BOOLEAN
    /\ startToken \in BOOLEAN /\ shutdownToken \in BOOLEAN
    /\ brokerUp \in BOOLEAN /\ queue \in BOOLEAN

QueueTypeOK ==
    /\ events \in Seq(Event)
    /\ sendQ \in Seq(Msgs) /\ queued \in Seq(Msgs)
    /\ delivered \in Seq(Msgs) /\ routed \in Seq(Msgs)
    /\ next \in 1..(MaxMsgs + 1)
    /\ faults \in [FaultKinds -> Nat]

TypeOK == TaskTypeOK /\ FlagTypeOK /\ QueueTypeOK

(* Printing the reason of a finished task panics for any reason but         *)
(* Shutdown and Fatal.  A task that ran ends with Shutdown only when its    *)
(* owner asked for it and had been told that it started; it ends with Fatal *)
(* only by reporting the error of its first attempt; the branches marked    *)
(* "shouldn't happen" of ClosedConnection::run are never taken.             *)
FinishedForAReason ==
    state = "Finished" =>
        \/ reason = "Shutdown" /\ shutdownToken /\ startResult = "ok"
        \/ reason = "Fatal" /\ startResult = "error"

(* A failure before the first success is reported to whoever awaits         *)
(* wait_start and never retried in silence, and a StartError is only made   *)
(* while somebody can be told.                                              *)
StartFailsFast ==
    /\ reason = "StartError" => Starting
    /\ Starting => state \notin {"Reconnecting", "ReopeningChannel"}
    /\ Starting => reason \in {"none", "StartError"}

(* A close event of a connection is never applied to its successor: an      *)
(* event channel lives exactly as long as its connection.                   *)
NoStaleConnectionClose ==
    \A i \in DOMAIN events :
        events[i].kind = "ConnectionClose" => conn = "closed"

(* The task never sits in select! over a dead connection or channel without *)
(* an event that will wake it up waiting in event_rx.                       *)
DeadChannelIsNoticed ==
    (state = "Connected" /\ ~Alive) =>
        \E i \in DOMAIN events : events[i].kind \in {"ConnectionClose", "ChannelClose"}

(* A connected consumer is registered with the broker, or the event that    *)
(* tells of its end is still to be read.                                    *)
ConsumerAttached ==
    (state = "Connected" /\ HasConsumer /\ ~consumer) =>
        \E i \in DOMAIN events :
            events[i].kind \in {"ConnectionClose", "ChannelClose", "ChannelCancel"}

(* As long as nobody deletes the queue, no other fault detaches a connected *)
(* consumer unnoticed, in whatever order the channel and the connection go. *)
ConsumerKept == faults["queue"] = 0 => ConsumerAttached

(* At most once, in order: whatever is lost on the way, the handler never   *)
(* sees a message twice nor a message after a later one.                    *)
DeliveredInOrder ==
    \A i, j \in DOMAIN delivered : i < j => delivered[i] < delivered[j]

Returned == {events[i].msg : i \in {k \in DOMAIN events : events[k].kind = "PublishReturn"}}
Waiting == {sendQ[i] : i \in DOMAIN sendQ}
Routed == {routed[i] : i \in DOMAIN routed}

(* A message is in one place at a time, and the broker accepts it at most   *)
(* once, whatever is returned and requeued in between.                      *)
SentAtMostOnce ==
    /\ Returned \intersect Waiting = {}
    /\ Routed \intersect (Returned \union Waiting) = {}
    /\ \A i, j \in DOMAIN routed : i # j => routed[i] # routed[j]
    /\ \A i, j \in DOMAIN sendQ : i # j => sendQ[i] # sendQ[j]

OnlyQueueFaults == \A kind \in FaultKinds \ {"queue"} : faults[kind] = 0

(* While nothing but deletions of the queue happened and the client is not  *)
(* shut down, every message handed to the sender is waiting, returned or    *)
(* routed: the mandatory flag and the requeueing lose nothing.              *)
NothingLostByQueueDeletion ==
    (OnlyQueueFaults /\ ~shutdownToken) =>
        1..(next - 1) = Waiting \union Returned \union Routed

-----------------------------------------------------------------------------
(* Liveness *)

(* Whoever awaits wait_start gets an answer, also while the broker is away. *)
StartIsAnswered == startToken ~> ~Starting

(* After shutdown() a started client ends, so that join() returns, whatever *)
(* calls fail and wherever it stands, unless its connection dies under it.  *)
ShutdownEnds == (shutdownToken /\ startToken) ~> (Terminated \/ conn = "closed")

(* Every message handed to the sender of a started client reaches the queue *)
(* however often the queue is deleted, unless something else goes wrong.    *)
EveryMessageRouted ==
    \A m \in Msgs :
        (m \in Waiting /\ startResult = "ok")
            ~> (m \in Routed \/ shutdownToken \/ ~OnlyQueueFaults)

(* A connection that dies under a connected client is replaced, unless a    *)
(* channel or the queue was lost as well.                                   *)
ConnectedReconnects ==
    (state = "Connected" /\ conn = "closed" /\ ~Starting)
        ~> (\/ state \in {"Reconnecting", "Finished"}
            \/ faults["channel"] + faults["queue"] > 0)

(* "the connection was closed for whatever reason, attempting to restore":  *)
(* wherever a started client is when its connection dies, it reconnects.    *)
ClosedConnectionReconnects ==
    (conn = "closed" /\ startResult = "ok") ~> (state \in {"Reconnecting", "Finished"})

-----------------------------------------------------------------------------
(* The promise to the owner of the handle. *)
Handle == INSTANCE AmqpHandle WITH
    phase <- IF state = "Waiting" THEN "idle"
             ELSE IF Terminated THEN "done" ELSE "active"

HandleSpec == Handle!Spec
=============================================================================
