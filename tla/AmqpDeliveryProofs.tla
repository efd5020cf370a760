------------------------- MODULE AmqpDeliveryProofs -------------------------
(***************************************************************************)
(* What the AMQP client does to the messages, for every number of messages *)
(* and of faults: the handler gets each once and in order, the gateway's   *)
(* are sent once, and none is lost to a deletion of the queue.             *)
(***************************************************************************)
EXTENDS AmqpConnectionProofs

Telling == {"ConnectionClose", "ChannelClose", "ChannelCancel"}

\* Six actions handle messages; the others leave them where they are, or drop
\* what waits in the event channel or in the queue.
MovesMessage ==
    \/ Send \/ Publish \/ SelectPublishReturn \/ SelectMessageReceived
    \/ OthersPublish \/ Deliver

LeavesMessages ==
    /\ UNCHANGED dataVars
    /\ queued' = queued \/ queued' = <<>>
    /\ \/ events' = events
       \/ events' = <<>>
       \/ events # <<>> /\ events' = Tail(events)
       \/ \E e \in Event : e.kind \in Telling /\ events' = Push(e)

LEMMA MessageSteps == ASSUME [Next]_vars PROVE MovesMessage \/ LeavesMessages
<1> USE DEF MovesMessage, LeavesMessages, CloseConnection, CloseChannel, taskVars, ownerVars,
            brokerVars, dataVars
<1>1. CASE Owner
  BY <1>1 DEF Owner, Start, Shutdown
<1>2. CASE Advance
  BY <1>2 DEF Advance, Begin, Disconnected, ConnectOk, ConnectFails,
              ConnectionCallbackFails, Reconnecting, OpenChannelOk, OpenChannelFails,
              DeclareQueueOk, DeclareQueueFails, ReopeningChannel, ConsumeOk, ConsumeFails,
              ReportStarted, CloseChannelOk, CloseChannelFails, ClosingConnection,
              Reconnect, Finish, FinishStartError
<1>3. CASE SelectShutdown
  BY <1>3 DEF SelectShutdown
<1>4. CASE Select
  BY <1>4 DEF Select, NextEventIs, SelectChannelClose, SelectConnectionClose, SelectIgnored
<1>5. CASE Environment
  <2>1. /\ [kind |-> "ConnectionClose"] \in Event /\ [kind |-> "ChannelClose"] \in Event
        /\ [kind |-> "ChannelCancel"] \in Event
    BY EventsOfEnvironment
  <2>2. CASE BrokerGoesDown \/ ServerClosesConnection
    BY <2>1, <2>2 DEF BrokerGoesDown, ServerClosesConnection, ConnectionDies, Telling
  <2>3. CASE ServerClosesChannel \/ QueueDeleted
    BY <2>1, <2>3 DEF ServerClosesChannel, QueueDeleted, Telling
  <2>4. CASE BrokerComesUp \/ QueueRedeclared \/ OthersPublish \/ Deliver
    BY <2>4 DEF BrokerComesUp, QueueRedeclared
  <2> QED
    BY <1>5, <2>2, <2>3, <2>4 DEF Environment
<1>6. CASE UNCHANGED vars
  BY <1>6 DEF vars
<1> QED
  BY <1>1, <1>2, <1>3, <1>4, <1>5, <1>6 DEF Next

LEMMA Appended ==
    ASSUME NEW S, NEW s \in Seq(S), NEW x \in S
    PROVE  /\ Len(s) \in Nat /\ Len(Append(s, x)) = Len(s) + 1
           /\ DOMAIN s = 1..Len(s) /\ DOMAIN Append(s, x) = 1..(Len(s) + 1)
           /\ \A i \in 1..Len(s) : Append(s, x)[i] = s[i] /\ s[i] \in S
           /\ Append(s, x)[Len(s) + 1] = x
  OBVIOUS

LEMMA Shortened ==
    ASSUME NEW S, NEW s \in Seq(S), s # <<>>
    PROVE  /\ Len(s) \in Nat \ {0} /\ Head(s) = s[1] /\ Head(s) \in S
           /\ DOMAIN s = 1..Len(s) /\ DOMAIN Tail(s) = 1..(Len(s) - 1)
           /\ \A i \in 1..(Len(s) - 1) : Tail(s)[i] = s[i + 1] /\ i + 1 \in 1..Len(s) /\ i \in Nat \ {0}
           /\ \A i \in 1..Len(s) : s[i] \in S
  OBVIOUS

\* Where an event of some kind stands in the event channel.
At(kind) == {i \in DOMAIN events : events[i].kind = kind}

LEMMA ShiftedByOne ==
    ASSUME events \in Seq(Event), events # <<>>, events' = Tail(events), NEW kind
    PROVE  /\ events[1] = Head(events) /\ 1 \in DOMAIN events
           /\ \A i \in At(kind)' :
                i \in Nat \ {0} /\ i + 1 \in At(kind) /\ i + 1 > 1 /\ events'[i] = events[i + 1]
  BY Shortened DEF At

\* An event channel that loses its first event, or all, or gets one of another
\* kind, keeps the others in order: shift is how far they moved.
LEMMA Shifted ==
    ASSUME events \in Seq(Event), NEW kind,
           \/ events' = events
           \/ events' = <<>>
           \/ events # <<>> /\ events' = Tail(events)
           \/ \E e \in Event : e.kind # kind /\ events' = Push(e)
    PROVE  \E shift \in {0, 1} : \A i \in At(kind)' :
               i \in Nat /\ i + shift \in At(kind) /\ events'[i] = events[i + shift]
<1>1. CASE events # <<>> /\ events' = Tail(events)
  BY <1>1, ShiftedByOne
<1>2. CASE events' = <<>>
  <2>1. DOMAIN events' = {}
    BY <1>2
  <2> QED
    BY <2>1 DEF At
<1>3. CASE events' = events
  BY <1>3 DEF At
<1>4. CASE \E e \in Event : e.kind # kind /\ events' = Append(events, e)
  <2>1. PICK e \in Event : e.kind # kind /\ events' = Append(events, e)
    BY <1>4
  <2>2. \A i \in At(kind)' : i \in Nat /\ i + 0 = i /\ i \in At(kind) /\ events'[i] = events[i]
    BY <2>1, Appended DEF At
  <2> QED
    BY <2>2
<1> QED
  BY <1>1, <1>2, <1>3, <1>4 DEF Push

\* The event of a callback comes last, if somebody is there for it.
LEMMA Pushed ==
    ASSUME events \in Seq(Event), NEW e \in Event, events' = Push(e)
    PROVE  \A i \in At(e.kind)' :
               /\ i \in Nat
               /\ \/ i \in At(e.kind) /\ events'[i] = events[i] /\ i < Len(events) + 1
                  \/ i = Len(events) + 1 /\ events'[i] = e
<1>1. CASE events' = events
  BY <1>1 DEF At
<1>2. CASE events' = Append(events, e)
  BY <1>2, Appended DEF At
<1> QED
  BY <1>1, <1>2 DEF Push

-----------------------------------------------------------------------------
(* The order of what a consumer gets: what was delivered came before what   *)
(* waits in the event channel, that before what is queued, that before what *)
(* is still to be produced.                                                 *)

Rising(s) == \A i, j \in 1..Len(s) : i < j => s[i] < s[j]

Received == At("MessageReceived")

InOrder ==
    /\ Rising(delivered) /\ Rising(queued)
    /\ \A i, j \in Received : i < j => events[i].msg < events[j].msg
    /\ \A d \in 1..Len(delivered) :
          /\ \A i \in Received : delivered[d] < events[i].msg
          /\ \A k \in 1..Len(queued) : delivered[d] < queued[k]
          /\ delivered[d] < next
    /\ \A i \in Received :
          /\ events[i].msg \in Msgs
          /\ \A k \in 1..Len(queued) : events[i].msg < queued[k]
          /\ events[i].msg < next
    /\ \A k \in 1..Len(queued) : queued[k] < next

LEMMA Numbers ==
    ASSUME TypeOK
    PROVE  /\ next \in Nat /\ \A m \in Msgs : m \in Nat
           /\ \A d \in 1..Len(delivered) : delivered[d] \in Nat
           /\ \A k \in 1..Len(queued) : queued[k] \in Nat
<1>1. next \in Nat /\ \A m \in Msgs : m \in Nat
  BY ConstantsAssumption DEF TypeOK, QueueTypeOK, Msgs
<1>2. delivered \in Seq(Msgs) /\ queued \in Seq(Msgs)
  BY DEF TypeOK, QueueTypeOK
<1> QED
  BY <1>1, <1>2

LEMMA OrderKept ==
    ASSUME TypeOK, InOrder, events' = events \/ events' = <<>>
                          \/ (events # <<>> /\ events' = Tail(events))
                          \/ \E e \in Event : e.kind # "MessageReceived" /\ events' = Push(e),
           delivered' = delivered, queued' = queued \/ queued' = <<>>,
           next' = next \/ next' = next + 1
    PROVE  InOrder'
<1>1. PICK shift \in {0, 1} : \A i \in Received' :
          i \in Nat /\ i + shift \in Received /\ events'[i] = events[i + shift]
  BY Shifted DEF TypeOK, QueueTypeOK, Received
<1>2. \A i, j \in Received' : i < j => i + shift < j + shift
  BY <1>1
<1>3. Rising(queued') /\ \A k \in 1..Len(queued') : k \in 1..Len(queued) /\ queued'[k] = queued[k]
  <2>1. CASE queued' = queued
    BY <2>1 DEF InOrder, Rising
  <2>2. CASE queued' = <<>>
    <3>1. 1..Len(queued') = {}
      BY <2>2
    <3> QED
      BY <3>1 DEF Rising
  <2> QED
    BY <2>1, <2>2
<1>4. /\ next \in Nat /\ next' \in Nat
      /\ \A d \in 1..Len(delivered) : delivered[d] \in Nat /\ delivered[d] < next
      /\ \A k \in 1..Len(queued) : queued[k] \in Nat /\ queued[k] < next
      /\ \A i \in Received : events[i].msg \in Nat /\ events[i].msg < next
  BY Numbers DEF InOrder
<1>5. /\ \A d \in 1..Len(delivered) : delivered[d] < next'
      /\ \A k \in 1..Len(queued) : queued[k] < next'
      /\ \A i \in Received : events[i].msg < next'
  <2>1. \A a \in Nat : a < next => a < next'
    BY <1>4
  <2> QED
    BY <1>4, <2>1, Zenon
<1>6. \A i, j \in Received' : i < j => events'[i].msg < events'[j].msg
  BY <1>1, <1>2 DEF InOrder
<1> QED
  BY <1>1, <1>3, <1>5, <1>6 DEF InOrder

LEMMA OrderOfMoves ==
    ASSUME TypeOK, InOrder, MovesMessage
    PROVE  InOrder'
<1>1. events \in Seq(Event) /\ queued \in Seq(Msgs) /\ delivered \in Seq(Msgs) /\ next \in Nat
  BY ConstantsAssumption DEF TypeOK, QueueTypeOK, Msgs
<1>2. CASE Send
  BY <1>2, OrderKept DEF Send, taskVars, brokerVars
<1>3. CASE Publish
  <2>1. events' = events \/ \E e \in Event : e.kind # "MessageReceived" /\ events' = Push(e)
    <3>1. Head(sendQ) \in Msgs
      BY <1>3 DEF Publish, TypeOK, QueueTypeOK
    <3>2. [kind |-> "PublishReturn", msg |-> Head(sendQ)] \in Event
      BY <3>1, EventsOfEnvironment
    <3> QED
      BY <1>3, <3>2 DEF Publish
  <2> QED
    BY <1>3, <2>1, OrderKept DEF Publish, brokerVars
<1>4. CASE SelectPublishReturn
  BY <1>4, OrderKept DEF SelectPublishReturn, NextEventIs, brokerVars
<1>5. CASE SelectMessageReceived /\ ~HasConsumer
  BY <1>5, OrderKept DEF SelectMessageReceived, NextEventIs, brokerVars
<1>6. CASE SelectMessageReceived /\ HasConsumer
  <2>1. /\ events # <<>> /\ events' = Tail(events) /\ Head(events).kind = "MessageReceived"
        /\ delivered' = Append(delivered, Head(events).msg)
        /\ UNCHANGED <<queued, next>>
    BY <1>6 DEF SelectMessageReceived, NextEventIs, brokerVars
  <2>2. /\ 1 \in Received /\ events[1] = Head(events)
        /\ \A i \in Received' : i \in Nat \ {0} /\ i + 1 \in Received /\ 1 < i + 1 /\ events'[i] = events[i + 1]
    BY <1>1, <2>1, ShiftedByOne DEF Received, At
  <2> DEFINE m == Head(events).msg
  <2>3. m \in Msgs
    BY <2>2 DEF InOrder
  <2>4. /\ Len(delivered) \in Nat /\ Len(delivered') = Len(delivered) + 1
        /\ \A d \in 1..Len(delivered) : delivered'[d] = delivered[d]
        /\ delivered'[Len(delivered) + 1] = m
    BY <1>1, <2>1, <2>3, Appended
  <2> HIDE DEF m
  <2>5. \A d \in 1..Len(delivered') : d \in 1..Len(delivered) \/ d = Len(delivered) + 1
    BY <2>4
  <2>6. /\ \A d \in 1..Len(delivered) : delivered[d] < m
        /\ \A i \in Received' : m < events'[i].msg
        /\ \A k \in 1..Len(queued) : m < queued[k]
        /\ m < next
    BY <2>2 DEF InOrder, m
  <2>7. Rising(delivered')
    <3> SUFFICES ASSUME NEW i \in 1..Len(delivered'), NEW j \in 1..Len(delivered'), i < j
                 PROVE  delivered'[i] < delivered'[j]
      BY DEF Rising
    <3>1. i \in 1..Len(delivered)
      BY <2>4
    <3> QED
      BY <2>4, <2>5, <2>6, <3>1 DEF InOrder, Rising
  <2>8. \A i, j \in Received' : i < j => events'[i].msg < events'[j].msg
    <3>1. \A i, j \in Received' : i < j => i + 1 < j + 1
      BY <2>2
    <3> QED
      BY <2>2, <3>1 DEF InOrder
  <2>9. \A d \in 1..Len(delivered') :
          /\ \A i \in Received' : delivered'[d] < events'[i].msg
          /\ \A k \in 1..Len(queued) : delivered'[d] < queued[k]
          /\ delivered'[d] < next
    BY <2>2, <2>4, <2>5, <2>6 DEF InOrder
  <2>10. \A i \in Received' :
          /\ events'[i].msg \in Msgs
          /\ \A k \in 1..Len(queued) : events'[i].msg < queued[k]
          /\ events'[i].msg < next
    BY <2>2 DEF InOrder
  <2> QED
    BY <2>1, <2>7, <2>8, <2>9, <2>10 DEF InOrder, Rising
<1>7. CASE OthersPublish
  <2>1. /\ UNCHANGED <<events, delivered>> /\ next \in Msgs
        /\ queued' = Append(queued, next) /\ next' = next + 1
    BY <1>7 DEF OthersPublish, taskVars
  <2>2. /\ Len(queued) \in Nat /\ Len(queued') = Len(queued) + 1
        /\ \A k \in 1..Len(queued) : queued'[k] = queued[k]
        /\ queued'[Len(queued) + 1] = next
    BY <1>1, <2>1, Appended
  <2>3. \A k \in 1..Len(queued') : k \in 1..Len(queued) \/ k = Len(queued) + 1
    BY <2>2
  <2>4. /\ \A d \in 1..Len(delivered) : delivered[d] \in Nat /\ delivered[d] < next
        /\ \A k \in 1..Len(queued) : queued[k] \in Nat /\ queued[k] < next
        /\ \A i \in Received : events[i].msg \in Nat /\ events[i].msg < next
    BY <1>1, ConstantsAssumption DEF InOrder, Msgs
  <2>5. Rising(queued')
    <3> SUFFICES ASSUME NEW i \in 1..Len(queued'), NEW j \in 1..Len(queued'), i < j
                 PROVE  queued'[i] < queued'[j]
      BY DEF Rising
    <3>1. i \in 1..Len(queued)
      BY <2>2
    <3> QED
      BY <2>2, <2>3, <2>4, <3>1 DEF InOrder, Rising
  <2>6. Received' = Received
    BY <2>1 DEF Received, At
  <2>8. next' \in Nat /\ next' = next + 1 /\ next < next'
    BY <1>1, <2>1
  <2>9. /\ \A d \in 1..Len(delivered) : delivered[d] < next'
        /\ \A i \in Received : events[i].msg < next'
        /\ \A k \in 1..Len(queued) : queued[k] < next'
    <3>1. \A a \in Nat : a < next => a < next'
      BY <1>1, <2>8
    <3> QED
      BY <2>4, <3>1, Zenon
  <2>7. /\ \A d \in 1..Len(delivered) : delivered[d] < next'
        /\ \A k \in 1..Len(queued') : queued'[k] < next'
        /\ \A i \in Received : events[i].msg < next'
    BY <2>2, <2>3, <2>8, <2>9, Zenon
  <2> QED
    BY <2>1, <2>2, <2>3, <2>4, <2>5, <2>6, <2>7 DEF InOrder
<1>8. CASE Deliver
  <2> DEFINE m == Head(queued)
             e == [kind |-> "MessageReceived", msg |-> m]
  <2>1. queued # <<>> /\ queued' = Tail(queued) /\ events' = Push(e) /\ UNCHANGED <<delivered, next>>
    BY <1>8 DEF Deliver, dataVars
  <2>2. /\ Len(queued) \in Nat \ {0} /\ Len(queued') = Len(queued) - 1
        /\ m = queued[1] /\ m \in Msgs
        /\ \A k \in 1..Len(queued') : queued'[k] = queued[k + 1]
    BY <1>1, <2>1, Shortened
  <2>3. /\ 1 \in 1..Len(queued)
        /\ \A k \in 1..Len(queued') : k \in Nat \ {0} /\ k + 1 \in 1..Len(queued) /\ 1 < k + 1
    BY <2>2
  <2>4. e \in Event /\ e.kind = "MessageReceived" /\ e.msg = m
    BY <2>2, EventsOfEnvironment
  <2> HIDE DEF e, m
  <2>5. \A i \in Received' :
          /\ i \in Nat
          /\ \/ i \in Received /\ events'[i] = events[i] /\ i < Len(events) + 1
             \/ i = Len(events) + 1 /\ events'[i] = e
    BY <1>1, <2>1, <2>4, Pushed DEF Received
  <2>6. /\ \A d \in 1..Len(delivered) : delivered[d] < m
        /\ \A i \in Received : events[i].msg < m
        /\ \A k \in 1..Len(queued') : m < queued'[k]
        /\ m < next
    BY <2>2, <2>3 DEF InOrder, Rising
  <2>7. Rising(queued')
    <3> SUFFICES ASSUME NEW i \in 1..Len(queued'), NEW j \in 1..Len(queued'), i < j
                 PROVE  queued[i + 1] < queued[j + 1]
      BY <2>2 DEF Rising
    <3>1. i + 1 < j + 1
      BY <2>3
    <3> QED
      BY <2>3, <3>1 DEF InOrder, Rising
  <2>8. \A i, j \in Received' : i < j => events'[i].msg < events'[j].msg
    <3> SUFFICES ASSUME NEW i \in Received', NEW j \in Received', i < j
                 PROVE  events'[i].msg < events'[j].msg
      OBVIOUS
    <3>1. i \in Received /\ events'[i] = events[i]
      <4>1. Len(events) \in Nat
        BY <1>1
      <4> QED
        BY <2>5, <4>1
    <3> QED
      BY <2>4, <2>5, <2>6, <3>1 DEF InOrder
  <2>9. \A d \in 1..Len(delivered) :
          /\ \A i \in Received' : delivered[d] < events'[i].msg
          /\ \A k \in 1..Len(queued') : delivered[d] < queued'[k]
          /\ delivered[d] < next
    BY <2>2, <2>3, <2>4, <2>5, <2>6 DEF InOrder
  <2>10. \A i \in Received' :
          /\ events'[i].msg \in Msgs
          /\ \A k \in 1..Len(queued') : events'[i].msg < queued'[k]
          /\ events'[i].msg < next
    BY <2>2, <2>3, <2>4, <2>5, <2>6 DEF InOrder
  <2>11. \A k \in 1..Len(queued') : queued'[k] < next
    BY <2>2, <2>3 DEF InOrder
  <2> QED
    BY <2>1, <2>7, <2>8, <2>9, <2>10, <2>11 DEF InOrder, Rising
<1> QED
  BY <1>2, <1>3, <1>4, <1>5, <1>6, <1>7, <1>8 DEF MovesMessage

(* At most once, in order, to the handler: a message taken back from an     *)
(* event channel that was dropped is lost, never seen after a later one.    *)
THEOREM OnceInOrder == Spec => []DeliveredInOrder
<1>1. Init => InOrder
  BY DEF Init, InOrder, Rising, Received, At
<1>2. TypeOK /\ InOrder /\ [Next]_vars => InOrder'
  <2> SUFFICES ASSUME TypeOK, InOrder, [Next]_vars PROVE InOrder'
    OBVIOUS
  <2>1. CASE LeavesMessages
    BY <2>1, OrderKept DEF LeavesMessages, Telling, dataVars
  <2> QED
    BY <2>1, MessageSteps, OrderOfMoves
<1>3. TypeOK /\ InOrder => DeliveredInOrder
  <2> SUFFICES ASSUME TypeOK, InOrder PROVE DeliveredInOrder
    OBVIOUS
  <2>1. DOMAIN delivered = 1..Len(delivered)
    BY DEF TypeOK, QueueTypeOK
  <2> QED
    BY <2>1 DEF InOrder, Rising, DeliveredInOrder
<1> QED
  BY <1>1, <1>2, <1>3, TypeCorrect, PTL DEF Spec

-----------------------------------------------------------------------------
(* Where a message is that the gateway gave to the sender.                  *)

Distinct(s) == \A i, j \in DOMAIN s : i # j => s[i] # s[j]
Elements(s) == {s[i] : i \in DOMAIN s}

ReturnedAt == At("PublishReturn")
ReturnedOnce == \A i, j \in ReturnedAt : i # j => events[i].msg # events[j].msg

LEMMA AppendedElements ==
    ASSUME NEW S, NEW s \in Seq(S), NEW x \in S
    PROVE  /\ Elements(Append(s, x)) = Elements(s) \union {x}
           /\ (Distinct(s) /\ x \notin Elements(s)) => Distinct(Append(s, x))
<1> DEFINE t == Append(s, x)
<1>1. /\ Len(s) \in Nat /\ DOMAIN s = 1..Len(s) /\ DOMAIN t = 1..(Len(s) + 1)
      /\ \A i \in DOMAIN s : t[i] = s[i] /\ i # Len(s) + 1
      /\ t[Len(s) + 1] = x
  BY Appended
<1> HIDE DEF t
<1>2. \A i : i \in DOMAIN t <=> i \in DOMAIN s \/ i = Len(s) + 1
  BY <1>1
<1>3. Elements(t) = Elements(s) \union {x}
  BY <1>1, <1>2 DEF Elements
<1>4. Distinct(s) /\ x \notin Elements(s) => Distinct(t)
  BY <1>1, <1>2 DEF Elements, Distinct
<1> QED
  BY <1>3, <1>4 DEF t

LEMMA ShortenedElements ==
    ASSUME NEW S, NEW s \in Seq(S), s # <<>>
    PROVE  /\ Elements(s) = Elements(Tail(s)) \union {Head(s)}
           /\ Distinct(s) => Distinct(Tail(s)) /\ Head(s) \notin Elements(Tail(s))
<1> DEFINE t == Tail(s)
<1>1. /\ Len(s) \in Nat \ {0} /\ Head(s) = s[1] /\ DOMAIN s = 1..Len(s) /\ DOMAIN t = 1..(Len(s) - 1)
      /\ \A i \in DOMAIN t : i \in Nat \ {0} /\ i + 1 \in DOMAIN s /\ t[i] = s[i + 1]
  BY Shortened
<1> HIDE DEF t
<1>2. /\ 1 \in DOMAIN s
      /\ \A i \in DOMAIN t : i + 1 # 1
      /\ \A i, j \in DOMAIN t : i # j => i + 1 # j + 1
      /\ \A i \in DOMAIN s : i = 1 \/ (i - 1 \in DOMAIN t /\ t[i - 1] = s[i])
  BY <1>1
<1>3. Elements(s) = Elements(t) \union {Head(s)}
  BY <1>1, <1>2 DEF Elements
<1>4. Distinct(s) => Distinct(t) /\ Head(s) \notin Elements(t)
  BY <1>1, <1>2 DEF Elements, Distinct
<1> QED
  BY <1>3, <1>4 DEF t

LEMMA ReturnedMembers ==
    \A x : x \in Returned <=> \E i \in ReturnedAt : events[i].msg = x
BY DEF Returned, ReturnedAt, At

LEMMA ReturnedMembersNext ==
    \A x : x \in Returned' <=> \E i \in ReturnedAt' : events'[i].msg = x
BY DEF Returned, ReturnedAt, At

\* The returned messages, when no return is pushed or read ...
LEMMA ReturnsKept ==
    ASSUME events \in Seq(Event),
           \/ events' = events
           \/ events # <<>> /\ events' = Tail(events) /\ Head(events).kind # "PublishReturn"
           \/ \E e \in Event : e.kind # "PublishReturn" /\ events' = Push(e)
    PROVE  /\ \A x : x \in Returned' <=> x \in Returned
           /\ ReturnedOnce => ReturnedOnce'
<1>1. PICK shift \in {0, 1} :
          /\ \A i \in ReturnedAt' : i \in Nat /\ i + shift \in ReturnedAt /\ events'[i] = events[i + shift]
          /\ \A i \in ReturnedAt : i - shift \in ReturnedAt' /\ events'[i - shift] = events[i]
  <2>1. CASE events' = events
    <3>1. \A i \in ReturnedAt : i \in Nat /\ i + 0 = i /\ i - 0 = i
      BY DEF ReturnedAt, At
    <3>2. ReturnedAt' = ReturnedAt
      BY <2>1 DEF ReturnedAt, At
    <3> QED
      BY <2>1, <3>1, <3>2
  <2>2. CASE events # <<>> /\ events' = Tail(events) /\ Head(events).kind # "PublishReturn"
    <3>1. /\ Len(events) \in Nat \ {0} /\ Head(events) = events[1] /\ DOMAIN events = 1..Len(events)
          /\ DOMAIN events' = 1..(Len(events) - 1)
          /\ \A i \in DOMAIN events' : events'[i] = events[i + 1] /\ i + 1 \in DOMAIN events /\ i \in Nat
      BY <2>2, Shortened
    <3>2. \A i \in DOMAIN events : i = 1 \/ (i - 1 \in DOMAIN events' /\ events'[i - 1] = events[i])
      BY <3>1
    <3> QED
      BY <2>2, <3>1, <3>2 DEF ReturnedAt, At
  <2>3. CASE \E e \in Event : e.kind # "PublishReturn" /\ events' = Append(events, e)
    <3>1. PICK e \in Event : e.kind # "PublishReturn" /\ events' = Append(events, e)
      BY <2>3
    <3>2. /\ \A i \in ReturnedAt : i \in Nat /\ i + 0 = i /\ i - 0 = i /\ i \in ReturnedAt' /\ events'[i] = events[i]
          /\ \A i \in ReturnedAt' : i \in ReturnedAt
      BY <3>1, Appended DEF ReturnedAt, At
    <3> QED
      BY <3>2
  <2> QED
    BY <2>1, <2>2, <2>3 DEF Push
<1>2. \A x : x \in Returned' <=> x \in Returned
  BY <1>1, ReturnedMembers, ReturnedMembersNext
<1>3. ReturnedOnce => ReturnedOnce'
  <2>1. \A i, j \in ReturnedAt' : i # j => i + shift # j + shift
    BY <1>1
  <2> SUFFICES ASSUME ReturnedOnce, NEW i \in ReturnedAt', NEW j \in ReturnedAt', i # j
               PROVE  events'[i].msg # events'[j].msg
    BY Zenon DEF ReturnedOnce
  <2>2. events[i + shift].msg # events[j + shift].msg
    BY <1>1, <2>1, Zenon DEF ReturnedOnce
  <2> QED
    BY <1>1, <2>2, Zenon
<1> QED
  BY <1>2, <1>3

\* ... when one is read ...
LEMMA ReturnRead ==
    ASSUME events \in Seq(Event), events # <<>>, events' = Tail(events),
           Head(events).kind = "PublishReturn"
    PROVE  /\ \A x : x \in Returned <=> x \in Returned' \/ x = Head(events).msg
           /\ ReturnedOnce => ReturnedOnce' /\ Head(events).msg \notin Returned'
<1>1. /\ Len(events) \in Nat \ {0} /\ Head(events) = events[1] /\ DOMAIN events = 1..Len(events)
      /\ DOMAIN events' = 1..(Len(events) - 1)
      /\ \A i \in DOMAIN events' : events'[i] = events[i + 1] /\ i + 1 \in DOMAIN events /\ i \in Nat \ {0}
  BY Shortened
<1>2. /\ 1 \in ReturnedAt
      /\ \A i \in ReturnedAt' : i + 1 \in ReturnedAt /\ i + 1 # 1 /\ events'[i] = events[i + 1] /\ i \in Nat
      /\ \A i \in ReturnedAt : i = 1 \/ (i - 1 \in ReturnedAt' /\ events'[i - 1] = events[i])
  BY <1>1 DEF ReturnedAt, At
<1>3. \A i, j \in ReturnedAt' : i # j => i + 1 # j + 1
  BY <1>2
<1>4. \A x : x \in Returned <=> x \in Returned' \/ x = Head(events).msg
  <2>1. ASSUME NEW x, x \in Returned PROVE x \in Returned' \/ x = Head(events).msg
    <3>1. PICK i \in ReturnedAt : events[i].msg = x
      BY <2>1, ReturnedMembers, Zenon
    <3>2. CASE i = 1
      BY <1>1, <3>1, <3>2, Zenon
    <3>3. CASE i - 1 \in ReturnedAt' /\ events'[i - 1] = events[i]
      BY <3>1, <3>3, ReturnedMembersNext, Zenon
    <3> QED
      BY <1>2, <3>2, <3>3, Zenon
  <2>2. ASSUME NEW x, x \in Returned' PROVE x \in Returned
    <3>1. PICK i \in ReturnedAt' : events'[i].msg = x
      BY <2>2, ReturnedMembersNext, Zenon
    <3>2. i + 1 \in ReturnedAt /\ events[i + 1].msg = x
      BY <1>2, <3>1, Zenon
    <3> QED
      BY <3>2, ReturnedMembers, Zenon
  <2>3. Head(events).msg \in Returned
    BY <1>1, <1>2, ReturnedMembers, Zenon
  <2> QED
    BY <2>1, <2>2, <2>3, Zenon
<1>5. ReturnedOnce => ReturnedOnce'
  <2> SUFFICES ASSUME ReturnedOnce, NEW i \in ReturnedAt', NEW j \in ReturnedAt', i # j
               PROVE  events'[i].msg # events'[j].msg
    BY Zenon DEF ReturnedOnce
  <2>1. events[i + 1].msg # events[j + 1].msg
    BY <1>2, <1>3, Zenon DEF ReturnedOnce
  <2> QED
    BY <1>2, <2>1, Zenon
<1>6. ReturnedOnce => Head(events).msg \notin Returned'
  <2> SUFFICES ASSUME ReturnedOnce, NEW i \in ReturnedAt'
               PROVE  events'[i].msg # Head(events).msg
    BY ReturnedMembersNext, Zenon
  <2>1. events[i + 1].msg # events[1].msg
    BY <1>2, Zenon DEF ReturnedOnce
  <2> QED
    BY <1>1, <1>2, <2>1, Zenon
<1> QED
  BY <1>4, <1>5, <1>6

\* ... and when one is pushed.
LEMMA ReturnPushed ==
    ASSUME events \in Seq(Event), NEW m \in Msgs,
           events' = Append(events, [kind |-> "PublishReturn", msg |-> m])
    PROVE  /\ \A x : x \in Returned' <=> x \in Returned \/ x = m
           /\ (ReturnedOnce /\ m \notin Returned) => ReturnedOnce'
<1> DEFINE e == [kind |-> "PublishReturn", msg |-> m]
<1>1. e \in Event /\ e.kind = "PublishReturn" /\ e.msg = m
  BY EventsOfEnvironment
<1>2. events' = Append(events, e)
  OBVIOUS
<1> HIDE DEF e
<1>3. /\ Len(events) \in Nat /\ DOMAIN events = 1..Len(events) /\ DOMAIN events' = 1..(Len(events) + 1)
      /\ \A i \in DOMAIN events : events'[i] = events[i] /\ i # Len(events) + 1
      /\ events'[Len(events) + 1] = e
  BY <1>1, <1>2, Appended
<1>4. \A i : i \in DOMAIN events' <=> i \in DOMAIN events \/ i = Len(events) + 1
  BY <1>3
<1>5. \A i : i \in ReturnedAt' <=> i \in ReturnedAt \/ i = Len(events) + 1
  BY <1>1, <1>3, <1>4 DEF ReturnedAt, At
<1>6. \A i \in ReturnedAt : events'[i] = events[i] /\ i # Len(events) + 1
  BY <1>3 DEF ReturnedAt, At
<1>7. \A x : x \in Returned' <=> x \in Returned \/ x = m
  <2>1. ASSUME NEW x, x \in Returned' PROVE x \in Returned \/ x = m
    <3>1. PICK i \in ReturnedAt' : events'[i].msg = x
      BY <2>1, ReturnedMembersNext, Zenon
    <3>2. CASE i \in ReturnedAt
      BY <1>6, <3>1, <3>2, ReturnedMembers, Zenon
    <3>3. CASE i = Len(events) + 1
      BY <1>1, <1>3, <3>1, <3>3, Zenon
    <3> QED
      BY <1>5, <3>2, <3>3, Zenon
  <2>2. ASSUME NEW x, x \in Returned PROVE x \in Returned'
    BY <1>5, <1>6, <2>2, ReturnedMembers, ReturnedMembersNext, Zenon
  <2>3. m \in Returned'
    BY <1>1, <1>3, <1>5, ReturnedMembersNext, Zenon
  <2> QED
    BY <2>1, <2>2, <2>3, Zenon
<1>8. ReturnedOnce /\ m \notin Returned => ReturnedOnce'
  <2> SUFFICES ASSUME ReturnedOnce, m \notin Returned,
                      NEW i \in ReturnedAt', NEW j \in ReturnedAt', i # j
               PROVE  events'[i].msg # events'[j].msg
    BY Zenon DEF ReturnedOnce
  <2>1. \A k \in ReturnedAt : events'[k].msg = events[k].msg /\ events[k].msg # m
    BY <1>6, ReturnedMembers, Zenon
  <2>2. events'[Len(events) + 1].msg = m
    BY <1>1, <1>3, Zenon
  <2> QED
    BY <1>5, <2>1, <2>2, Zenon DEF ReturnedOnce
<1> QED
  BY <1>7, <1>8

\* One copy of each message, and none of what is still to be produced.
OneCopy ==
    /\ Distinct(sendQ) /\ Distinct(routed) /\ ReturnedOnce
    /\ \A m : m \in Returned => m \notin Waiting
    /\ \A m : m \in Routed => m \notin Waiting /\ m \notin Returned
    /\ \A m : m \in Waiting \/ m \in Returned \/ m \in Routed => m \in Msgs /\ m < next

LEMMA SentElements == Waiting = Elements(sendQ) /\ Routed = Elements(routed)
BY DEF Waiting, Routed, Elements

LEMMA SentElementsNext == Waiting' = Elements(sendQ') /\ Routed' = Elements(routed')
BY DEF Waiting, Routed, Elements

\* Whatever else becomes of the event channel, a returned message stays where
\* it is or is lost.
LEMMA ReturnsOfOthers ==
    ASSUME TypeOK,
           \/ events' = events
           \/ events' = <<>>
           \/ events # <<>> /\ events' = Tail(events)
           \/ \E e \in Event : e.kind # "PublishReturn" /\ events' = Push(e)
    PROVE  /\ \A x : x \in Returned' => x \in Returned
           /\ ReturnedOnce => ReturnedOnce'
<1>1. events \in Seq(Event)
  BY DEF TypeOK, QueueTypeOK
<1>2. CASE events' = <<>>
  <2>1. ReturnedAt' = {}
    BY <1>2 DEF ReturnedAt, At
  <2> QED
    BY <2>1, ReturnedMembersNext, Zenon DEF ReturnedOnce
<1>3. CASE events # <<>> /\ events' = Tail(events) /\ Head(events).kind = "PublishReturn"
  BY <1>1, <1>3, ReturnRead
<1>4. CASE \/ events' = events
           \/ events # <<>> /\ events' = Tail(events) /\ Head(events).kind # "PublishReturn"
           \/ \E e \in Event : e.kind # "PublishReturn" /\ events' = Push(e)
  BY <1>1, <1>4, ReturnsKept
<1> QED
  BY <1>2, <1>3, <1>4

LEMMA OneCopyKept ==
    ASSUME TypeOK, OneCopy, [Next]_vars
    PROVE  OneCopy'
<1>1. /\ events \in Seq(Event) /\ sendQ \in Seq(Msgs) /\ routed \in Seq(Msgs)
      /\ next \in Nat /\ next + 1 \in Nat /\ \A m \in Msgs : m \in Nat
  BY ConstantsAssumption DEF TypeOK, QueueTypeOK, Msgs
<1>2. /\ \A m \in Msgs : m < next => m < next + 1
      /\ ~(next < next) /\ next < next + 1
  BY <1>1
<1>3. ASSUME UNCHANGED <<sendQ, routed>>, next' = next \/ next' = next + 1,
             \A x : x \in Returned' => x \in Returned, ReturnedOnce'
      PROVE  OneCopy'
  <2>1. Waiting' = Waiting /\ Routed' = Routed /\ Distinct(sendQ') /\ Distinct(routed')
    BY <1>3, SentElements, SentElementsNext DEF OneCopy
  <2>2. \A m \in Msgs : m < next => m < next'
    BY <1>2, <1>3
  <2> QED
    BY <1>3, <2>1, <2>2, Zenon DEF OneCopy
<1>4. CASE LeavesMessages
  <2>1. /\ \A x : x \in Returned' => x \in Returned
        /\ ReturnedOnce => ReturnedOnce'
    BY <1>4, ReturnsOfOthers DEF LeavesMessages, Telling
  <2> QED
    BY <1>3, <1>4, <2>1 DEF LeavesMessages, dataVars, OneCopy
<1>5. CASE Send
  <2>1. /\ next \in Msgs /\ sendQ' = Append(sendQ, next) /\ next' = next + 1
        /\ UNCHANGED <<events, routed>>
    BY <1>5 DEF Send, taskVars
  <2>2. /\ \A x : x \in Returned' <=> x \in Returned
        /\ ReturnedOnce'
    BY <1>1, <2>1, ReturnsKept DEF OneCopy
  <2>3. next \notin Waiting /\ next \notin Returned /\ next \notin Routed
    BY <1>2, Zenon DEF OneCopy
  <2>4. /\ \A x : x \in Waiting' <=> x \in Waiting \/ x = next
        /\ Distinct(sendQ')
    BY <1>1, <2>1, <2>3, AppendedElements, SentElements, SentElementsNext DEF OneCopy
  <2>5. Routed' = Routed /\ Distinct(routed')
    BY <2>1, SentElements, SentElementsNext DEF OneCopy
  <2> QED
    BY <1>2, <2>1, <2>2, <2>3, <2>4, <2>5, Zenon DEF OneCopy
<1>6. CASE Publish
  <2> DEFINE m == Head(sendQ)
  <2>1. /\ sendQ # <<>> /\ sendQ' = Tail(sendQ) /\ next' = next
        /\ \/ routed' = Append(routed, m) /\ events' = events
           \/ routed' = routed /\ events' = Append(events, [kind |-> "PublishReturn", msg |-> m])
           \/ routed' = routed /\ events' = events
    BY <1>6 DEF Publish, Push
  <2>2. m \in Msgs
    BY <1>1, <2>1
  <2> HIDE DEF m
  <2>3. /\ \A x : x \in Waiting <=> x \in Waiting' \/ x = m
        /\ m \notin Waiting' /\ Distinct(sendQ')
    BY <1>1, <2>1, ShortenedElements, SentElements, SentElementsNext DEF OneCopy, m
  <2>4. m \notin Returned /\ m \notin Routed /\ m < next
    BY <2>3, Zenon DEF OneCopy
  <2>5. ASSUME events' = events
        PROVE  (\A x : x \in Returned' <=> x \in Returned) /\ ReturnedOnce'
    BY <1>1, <2>5, ReturnsKept DEF OneCopy
  <2>6. ASSUME routed' = routed PROVE Routed' = Routed /\ Distinct(routed')
    BY <2>6, SentElements, SentElementsNext DEF OneCopy
  <2>7. CASE routed' = Append(routed, m) /\ events' = events
    <3>1. /\ \A x : x \in Routed' <=> x \in Routed \/ x = m
          /\ Distinct(routed')
      BY <1>1, <2>2, <2>4, <2>7, AppendedElements, SentElements, SentElementsNext DEF OneCopy
    <3> QED
      BY <2>1, <2>2, <2>3, <2>4, <2>5, <2>7, <3>1, Zenon DEF OneCopy
  <2>8. CASE routed' = routed /\ events' = Append(events, [kind |-> "PublishReturn", msg |-> m])
    <3>1. /\ \A x : x \in Returned' <=> x \in Returned \/ x = m
          /\ ReturnedOnce'
      BY <1>1, <2>2, <2>4, <2>8, ReturnPushed DEF OneCopy
    <3> QED
      BY <2>1, <2>2, <2>3, <2>4, <2>6, <2>8, <3>1, Zenon DEF OneCopy
  <2>9. CASE routed' = routed /\ events' = events
    BY <2>1, <2>2, <2>3, <2>5, <2>6, <2>9, Zenon DEF OneCopy
  <2> QED
    BY <2>1, <2>7, <2>8, <2>9
<1>7. CASE SelectPublishReturn
  <2> DEFINE m == Head(events).msg
  <2>1. /\ events # <<>> /\ events' = Tail(events) /\ Head(events).kind = "PublishReturn"
        /\ sendQ' = Append(sendQ, m) /\ UNCHANGED <<next, routed>>
    BY <1>7 DEF SelectPublishReturn, NextEventIs
  <2>2. /\ \A x : x \in Returned <=> x \in Returned' \/ x = m
        /\ ReturnedOnce' /\ m \notin Returned'
    BY <1>1, <2>1, ReturnRead DEF OneCopy
  <2> HIDE DEF m
  <2>3. m \in Msgs /\ m \notin Waiting /\ m \notin Routed /\ m < next
    BY <2>2, Zenon DEF OneCopy
  <2>4. /\ \A x : x \in Waiting' <=> x \in Waiting \/ x = m
        /\ Distinct(sendQ')
    BY <1>1, <2>1, <2>3, AppendedElements, SentElements, SentElementsNext DEF OneCopy
  <2>5. Routed' = Routed /\ Distinct(routed')
    BY <2>1, SentElements, SentElementsNext DEF OneCopy
  <2> QED
    BY <2>1, <2>2, <2>3, <2>4, <2>5, Zenon DEF OneCopy
<1>8. CASE SelectMessageReceived
  BY <1>3, <1>8, ReturnsOfOthers DEF SelectMessageReceived, NextEventIs, OneCopy
<1>9. CASE OthersPublish
  BY <1>3, <1>9, ReturnsOfOthers DEF OthersPublish, taskVars, OneCopy
<1>10. CASE Deliver
  <2>1. Head(queued) \in Msgs
    BY <1>10 DEF Deliver, TypeOK, QueueTypeOK
  <2>2. [kind |-> "MessageReceived", msg |-> Head(queued)] \in Event
    BY <2>1, EventsOfEnvironment
  <2>3. \E e \in Event : e.kind # "PublishReturn" /\ events' = Push(e)
    BY <1>10, <2>2 DEF Deliver
  <2> QED
    BY <1>3, <1>10, <2>3, ReturnsOfOthers DEF Deliver, dataVars, OneCopy
<1> QED
  BY <1>4, <1>5, <1>6, <1>7, <1>8, <1>9, <1>10, MessageSteps DEF MovesMessage

LEMMA OneCopyInvariant == Spec => []OneCopy
<1>1. Init => OneCopy
  BY DEF Init, OneCopy, Distinct, ReturnedOnce, ReturnedAt, At, Returned, Waiting, Routed
<1>2. TypeOK /\ OneCopy /\ [Next]_vars => OneCopy'
  BY OneCopyKept
<1> QED
  BY <1>1, <1>2, TypeCorrect, PTL DEF Spec

(* The broker accepts each message of the gateway at most once: one that is *)
(* returned and requeued leaves no copy behind.                             *)
THEOREM SentOnce == Spec => []SentAtMostOnce
<1>1. OneCopy => SentAtMostOnce
  BY DEF OneCopy, SentAtMostOnce, Distinct
<1> QED
  BY <1>1, OneCopyInvariant, PTL

-----------------------------------------------------------------------------
(* What the history of the faults tells of a step.                          *)

LEMMA InjectedIsCounted ==
    ASSUME TypeOK, NEW kind, Inject(kind)
    PROVE  /\ kind \in FaultKinds /\ faults'[kind] # 0
           /\ \A k \in FaultKinds : faults'[k] = 0 => faults[k] = 0
<1>1. /\ faults' = [faults EXCEPT ![kind] = faults[kind] + 1] /\ kind \in FaultKinds
      /\ faults \in [FaultKinds -> Nat]
  BY ConstantsAssumption DEF Inject, TypeOK, QueueTypeOK
<1>2. faults[kind] \in Nat /\ faults'[kind] = faults[kind] + 1
  BY <1>1
<1>3. faults'[kind] # 0
  BY <1>2
<1>4. \A k \in FaultKinds : k = kind \/ faults'[k] = faults[k]
  BY <1>1
<1> QED
  BY <1>1, <1>3, <1>4, Zenon

LEMMA FaultsStay ==
    ASSUME TypeOK, [Next]_vars, NEW k \in FaultKinds, faults'[k] = 0
    PROVE  faults[k] = 0
<1>1. \/ UNCHANGED faults
      \/ \E kind \in FaultKinds : Inject(kind)
  BY DEF Next, Owner, Start, Shutdown, Send, Advance, Begin, Disconnected, ConnectOk,
         ConnectFails, ConnectionCallbackFails, Reconnecting, OpenChannelOk,
         OpenChannelFails, DeclareQueueOk, DeclareQueueFails, ReopeningChannel, ConsumeOk,
         ConsumeFails, ReportStarted, CloseChannelOk, CloseChannelFails, ClosingConnection,
         Reconnect, Finish, FinishStartError, SelectShutdown, Select, SelectChannelClose,
         SelectConnectionClose, SelectPublishReturn, SelectMessageReceived, SelectIgnored,
         Publish, Environment, BrokerGoesDown, BrokerComesUp, ServerClosesConnection,
         ServerClosesChannel, QueueDeleted, QueueRedeclared, OthersPublish, Deliver,
         NoFault, FaultKinds, vars
<1> QED
  BY <1>1, InjectedIsCounted

-----------------------------------------------------------------------------
(* The consumer                                                             *)

\* A cancellation is read and ignored, so that it cannot be what tells of the
\* end of a consumer: unless the queue was deleted, a close event does.
AttachedInv ==
    (faults["queue"] = 0 /\ state = "Connected" /\ HasConsumer /\ ~consumer) =>
        Pending("ConnectionClose") \/ Pending("ChannelClose")

LEMMA AttachedInvPreserved ==
    ASSUME TypeOK, AttachedInv, [Next]_vars
    PROVE  AttachedInv'
<1>0. faults'["queue"] = 0 => faults["queue"] = 0
  BY FaultsStay DEF FaultKinds
<1> SUFFICES ASSUME faults'["queue"] = 0, faults["queue"] = 0,
                    state' = "Connected", HasConsumer, ~consumer'
             PROVE  Pending("ConnectionClose")' \/ Pending("ChannelClose")'
  BY <1>0 DEF AttachedInv
<1> USE DEF AttachedInv, CloseConnection, CloseChannel, taskVars, ownerVars, brokerVars, dataVars
<1>1. CASE UNCHANGED <<state, consumer, events>>
  BY <1>1 DEF Pending
<1>2. CASE Owner
  BY <1>1, <1>2 DEF Owner, Start, Shutdown, Send
<1>3. CASE Advance
  BY <1>1, <1>3
  DEF Advance, Begin, Disconnected, ConnectOk, ConnectFails, ConnectionCallbackFails,
      Reconnecting, OpenChannelOk, OpenChannelFails, DeclareQueueOk, DeclareQueueFails,
      ReopeningChannel, ConsumeOk, ConsumeFails, ReportStarted, CloseChannelOk,
      CloseChannelFails, ClosingConnection, Reconnect, Finish, FinishStartError
<1>4. CASE SelectShutdown
  BY <1>4 DEF SelectShutdown
<1>5. CASE Publish
  <2>1. /\ UNCHANGED <<state, consumer>>
        /\ \/ UNCHANGED events
           \/ events' = Push([kind |-> "PublishReturn", msg |-> Head(sendQ)])
    BY <1>5 DEF Publish
  <2>2. Head(sendQ) \in Msgs /\ events \in Seq(Event)
    BY <1>5 DEF Publish, TypeOK, QueueTypeOK
  <2>3. [kind |-> "PublishReturn", msg |-> Head(sendQ)] \in Event
    BY <2>2, EventsOfEnvironment
  <2> QED
    BY <1>1, <2>1, <2>2, <2>3, PendingAfterPush
<1>6. CASE Select
  <2>1. /\ state = "Connected" /\ UNCHANGED consumer
        /\ events # <<>> /\ events' = Tail(events) /\ events \in Seq(Event)
        /\ Head(events).kind # "ConnectionClose" /\ Head(events).kind # "ChannelClose"
    BY <1>6 DEF Select, NextEventIs, Selecting, SelectChannelClose, SelectConnectionClose,
                SelectPublishReturn, SelectMessageReceived, SelectIgnored, TypeOK, QueueTypeOK
  <2> QED
    BY <2>1, PendingAfterTail
<1>7. CASE Environment
  <2>1. /\ events \in Seq(Event) /\ [kind |-> "ConnectionClose"] \in Event
        /\ [kind |-> "ChannelClose"] \in Event
        /\ state = "Connected" => state \in HoldsEvents
    BY EventsOfEnvironment DEF TypeOK, QueueTypeOK, HoldsEvents, HoldsChannel
  <2>2. CASE BrokerGoesDown \/ ServerClosesConnection
    <3>1. \/ UNCHANGED <<state, consumer, events>>
          \/ UNCHANGED state /\ events' = Push([kind |-> "ConnectionClose"])
      BY <2>2 DEF BrokerGoesDown, ServerClosesConnection, ConnectionDies
    <3> QED
      BY <1>1, <2>1, <3>1, PendingAfterPush
  <2>3. CASE ServerClosesChannel
    BY <2>1, <2>3, PendingAfterPush DEF ServerClosesChannel
  <2>4. CASE QueueDeleted
    BY <2>4, InjectedIsCounted DEF QueueDeleted
  <2>5. CASE BrokerComesUp \/ QueueRedeclared \/ OthersPublish
    BY <1>1, <2>5 DEF BrokerComesUp, QueueRedeclared, OthersPublish
  <2>6. CASE Deliver
    BY <2>6 DEF Deliver
  <2> QED
    BY <1>7, <2>2, <2>3, <2>4, <2>5, <2>6 DEF Environment
<1>8. CASE UNCHANGED vars
  BY <1>1, <1>8 DEF vars
<1> QED
  BY <1>2, <1>3, <1>4, <1>5, <1>6, <1>7, <1>8 DEF Next

(* Unless the queue is deleted, a connected client never loses its consumer *)
(* without the event that makes it declare another one waiting to be read.  *)
THEOREM ConsumerIsKept == Spec => []ConsumerKept
<1>1. Init => AttachedInv
  BY DEF Init, AttachedInv
<1>2. TypeOK /\ AttachedInv /\ [Next]_vars => AttachedInv'
  BY AttachedInvPreserved
<1>3. AttachedInv => ConsumerKept
  BY DEF AttachedInv, ConsumerKept, ConsumerAttached, Pending
<1> QED
  BY <1>1, <1>2, <1>3, TypeCorrect, PTL DEF Spec

-----------------------------------------------------------------------------
(* A gateway's client whose queue is deleted, and nothing else happens.     *)

LEMMA OnlyQueueFaultsStay ==
    ASSUME TypeOK, [Next]_vars, OnlyQueueFaults'
    PROVE  /\ OnlyQueueFaults
           /\ \A kind : Inject(kind) => kind = "queue"
<1>1. \A k \in FaultKinds \ {"queue"} : faults'[k] = 0
  BY DEF OnlyQueueFaults
<1>2. \A k \in FaultKinds \ {"queue"} : faults[k] = 0
  BY <1>1, FaultsStay
<1>3. \A kind : Inject(kind) => kind = "queue"
  BY <1>1, InjectedIsCounted
<1> QED
  BY <1>2, <1>3 DEF OnlyQueueFaults

\* Its connection and its channel live, and a channel it closes was left for a
\* returned message, so that event_rx is never dropped.
Undisturbed ==
    /\ conn # "closed" /\ chan # "closed" /\ ~Pending("ChannelClose")
    /\ reason \in {"none", "PublishNoRoute", "StartError", "Fatal"}
    /\ state = "ClosingChannel" => reason = "PublishNoRoute"
    /\ state # "ClosingConnection" /\ state # "DeclaringConsumer"

AllKept ==
    \A m \in Msgs : m < next => m \in Waiting \/ m \in Returned \/ m \in Routed

KeptInv == (OnlyQueueFaults /\ ~shutdownToken) => Undisturbed /\ AllKept

KeepsReturns ==
    /\ UNCHANGED <<sendQ, routed, next>>
    /\ \/ events' = events
       \/ events # <<>> /\ events' = Tail(events) /\ Head(events).kind # "PublishReturn"
       \/ \E e \in Event : /\ e.kind # "PublishReturn" /\ e.kind # "ChannelClose"
                          /\ events' = Push(e)

LEMMA UndisturbedStep ==
    ASSUME TypeOK, NoticeInv, Undisturbed, ~shutdownToken, ~HasConsumer, [Next]_vars,
           \A kind : Inject(kind) => kind = "queue"
    PROVE  /\ Undisturbed'
           /\ Send \/ Publish \/ SelectPublishReturn \/ KeepsReturns
<1>1. /\ events \in Seq(Event)
      /\ state \in {"OpeningChannel", "ReopeningChannel", "Connected", "ClosingChannel"} => conn = "open"
      /\ state \in {"Connected", "ClosingChannel"} => chan = "open"
  BY DEF TypeOK, TaskTypeOK, QueueTypeOK, HoldsConnection, HoldsEvents, HoldsChannel, Undisturbed
<1>2. ASSUME UNCHANGED <<dataVars, events>> PROVE KeepsReturns /\ (Pending("ChannelClose")' <=> Pending("ChannelClose"))
  BY <1>2 DEF KeepsReturns, dataVars, Pending
<1> USE DEF taskVars, ownerVars, brokerVars, CloseChannel, CloseConnection
<1>3. CASE Send
  BY <1>3 DEF Send, Undisturbed, Pending
<1>4. CASE Start \/ Shutdown
  BY <1>2, <1>4 DEF Start, Shutdown, Undisturbed
<1>5. CASE Advance
  <2>1. CASE Begin \/ Disconnected \/ ConnectOk \/ Reconnecting
    BY <1>2, <2>1 DEF Begin, Disconnected, ConnectOk, Reconnecting, Undisturbed
  <2>2. CASE ConnectFails \/ ConnectionCallbackFails
    BY <1>2, <2>2 DEF ConnectFails, ConnectionCallbackFails, Undisturbed
  <2>3. CASE OpenChannelOk \/ OpenChannelFails \/ ReopeningChannel
    BY <1>1, <1>2, <2>3 DEF OpenChannelOk, OpenChannelFails, ReopeningChannel, Undisturbed
  <2>4. CASE DeclareQueueOk \/ DeclareQueueFails
    BY <1>1, <1>2, <2>4 DEF DeclareQueueOk, DeclareQueueFails, Alive, Undisturbed, TypeOK, TaskTypeOK
  <2>5. CASE ConsumeOk \/ ConsumeFails \/ ReportStarted
    BY <1>2, <2>5 DEF ConsumeOk, ConsumeFails, ReportStarted, Undisturbed
  <2>6. CASE CloseChannelOk \/ CloseChannelFails
    BY <1>1, <1>2, <2>6 DEF CloseChannelOk, CloseChannelFails, ReopenReasons, Alive, Undisturbed
  <2>7. CASE ClosingConnection \/ Reconnect \/ Finish \/ FinishStartError
    BY <1>2, <2>7 DEF ClosingConnection, Reconnect, Finish, FinishStartError, Undisturbed
  <2> QED
    BY <1>5, <2>1, <2>2, <2>3, <2>4, <2>5, <2>6, <2>7 DEF Advance
<1>6. CASE SelectShutdown
  BY <1>6 DEF SelectShutdown
<1>7. CASE Publish
  <2>1. Head(sendQ) \in Msgs
    BY <1>7 DEF Publish, TypeOK, QueueTypeOK
  <2>2. [kind |-> "PublishReturn", msg |-> Head(sendQ)] \in Event
    BY <2>1, EventsOfEnvironment
  <2>3. \/ UNCHANGED events
        \/ events' = Push([kind |-> "PublishReturn", msg |-> Head(sendQ)])
    BY <1>7 DEF Publish
  <2>4. ~Pending("ChannelClose")'
    BY <1>1, <2>2, <2>3, PendingAfterPush DEF Undisturbed, Pending
  <2> QED
    BY <1>7, <2>4 DEF Publish, Undisturbed
<1>8. CASE Select
  <2>1. /\ events # <<>> /\ events' = Tail(events) /\ state = "Connected"
        /\ Head(events) = events[1] /\ 1 \in DOMAIN events
    BY <1>1, <1>8, ShiftedByOne
    DEF Select, NextEventIs, Selecting, SelectChannelClose, SelectConnectionClose,
        SelectPublishReturn, SelectMessageReceived, SelectIgnored
  <2>2. ~Pending("ChannelClose")' /\ ~Pending("ConnectionClose")
    BY <1>1, <2>1, PendingAfterTail DEF Undisturbed, NoticeInv
  <2>3. Head(events).kind # "ChannelClose" /\ Head(events).kind # "ConnectionClose"
    BY <2>1, <2>2 DEF Undisturbed, Pending
  <2>4. CASE SelectMessageReceived \/ SelectIgnored
    BY <2>1, <2>2, <2>4
    DEF SelectMessageReceived, SelectIgnored, NextEventIs, Undisturbed, KeepsReturns, dataVars
  <2>5. CASE SelectPublishReturn
    BY <2>1, <2>2, <2>5 DEF SelectPublishReturn, Undisturbed
  <2>6. ~SelectChannelClose /\ ~SelectConnectionClose
    BY <2>3 DEF SelectChannelClose, SelectConnectionClose, NextEventIs
  <2> QED
    BY <1>8, <2>4, <2>5, <2>6 DEF Select
<1>9. CASE Environment
  <2>1. CASE BrokerGoesDown \/ ServerClosesConnection \/ ServerClosesChannel
    BY <2>1 DEF BrokerGoesDown, ServerClosesConnection, ServerClosesChannel
  <2>2. CASE BrokerComesUp
    BY <1>2, <2>2 DEF BrokerComesUp, Undisturbed
  <2>3. CASE QueueRedeclared \/ OthersPublish
    BY <2>3 DEF QueueRedeclared, OthersPublish
  <2>4. CASE QueueDeleted
    <3>1. UNCHANGED events \/ events' = Push([kind |-> "ChannelCancel"])
      BY <2>4 DEF QueueDeleted
    <3>2. [kind |-> "ChannelCancel"] \in Event
      BY EventsOfEnvironment
    <3>3. ~Pending("ChannelClose")'
      BY <1>1, <3>1, <3>2, PendingAfterPush DEF Undisturbed, Pending
    <3> QED
      BY <2>4, <3>1, <3>2, <3>3 DEF QueueDeleted, Undisturbed, KeepsReturns, dataVars
  <2>5. CASE Deliver
    <3>1. Head(queued) \in Msgs
      BY <2>5 DEF Deliver, TypeOK, QueueTypeOK
    <3>2. [kind |-> "MessageReceived", msg |-> Head(queued)] \in Event
      BY <3>1, EventsOfEnvironment
    <3>3. events' = Push([kind |-> "MessageReceived", msg |-> Head(queued)])
      BY <2>5 DEF Deliver
    <3>4. ~Pending("ChannelClose")'
      BY <1>1, <3>2, <3>3, PendingAfterPush DEF Undisturbed
    <3> QED
      BY <2>5, <3>2, <3>3, <3>4 DEF Deliver, Undisturbed, KeepsReturns, dataVars
  <2> QED
    BY <1>9, <2>1, <2>2, <2>3, <2>4, <2>5 DEF Environment
<1>10. CASE UNCHANGED vars
  BY <1>2, <1>10 DEF vars, dataVars, Undisturbed
<1> QED
  BY <1>3, <1>4, <1>5, <1>6, <1>7, <1>8, <1>9, <1>10 DEF Next, Owner

LEMMA KeptStep ==
    ASSUME TypeOK, OneCopy, AllKept, Undisturbed, [Next]_vars,
           Send \/ Publish \/ SelectPublishReturn \/ KeepsReturns
    PROVE  AllKept'
<1>1. /\ events \in Seq(Event) /\ sendQ \in Seq(Msgs) /\ routed \in Seq(Msgs)
      /\ \A m \in Msgs : m < next + 1 => m < next \/ m = next
  BY ConstantsAssumption DEF TypeOK, QueueTypeOK, Msgs
<1>2. CASE KeepsReturns
  <2>1. \A x : x \in Returned' <=> x \in Returned
    BY <1>1, <1>2, ReturnsKept DEF KeepsReturns
  <2>2. Waiting' = Waiting /\ Routed' = Routed /\ next' = next
    BY <1>2 DEF KeepsReturns, Waiting, Routed
  <2> QED
    BY <2>1, <2>2, Zenon DEF AllKept
<1>3. CASE Send
  <2>1. /\ next \in Msgs /\ sendQ' = Append(sendQ, next) /\ next' = next + 1
        /\ UNCHANGED <<events, routed>>
    BY <1>3 DEF Send, taskVars
  <2>2. \A x : x \in Returned' <=> x \in Returned
    BY <1>1, <2>1, ReturnsKept
  <2>3. \A x : x \in Waiting' <=> x \in Waiting \/ x = next
    BY <1>1, <2>1, AppendedElements, SentElements, SentElementsNext
  <2>4. Routed' = Routed
    BY <2>1 DEF Routed
  <2> QED
    BY <1>1, <2>1, <2>2, <2>3, <2>4, Zenon DEF AllKept
<1>4. CASE Publish
  <2> DEFINE m == Head(sendQ)
  <2>1. state = "Connected" /\ Alive
    BY <1>4
    DEF Publish, Selecting, Alive, Undisturbed, TypeOK, TaskTypeOK, HoldsConnection,
        HoldsEvents, HoldsChannel
  <2>2. /\ sendQ # <<>> /\ sendQ' = Tail(sendQ) /\ next' = next
        /\ \/ routed' = Append(routed, m) /\ events' = events
           \/ routed' = routed /\ events' = Append(events, [kind |-> "PublishReturn", msg |-> m])
    BY <1>4, <2>1 DEF Publish, Push, HoldsEvents, HoldsChannel
  <2>3. m \in Msgs
    BY <1>1, <2>2
  <2> HIDE DEF m
  <2>4. \A x : x \in Waiting <=> x \in Waiting' \/ x = m
    BY <1>1, <2>2, ShortenedElements, SentElements, SentElementsNext DEF m
  <2>5. CASE routed' = Append(routed, m) /\ events' = events
    <3>1. \A x : x \in Routed' <=> x \in Routed \/ x = m
      BY <1>1, <2>3, <2>5, AppendedElements, SentElements, SentElementsNext
    <3>2. \A x : x \in Returned' <=> x \in Returned
      BY <1>1, <2>5, ReturnsKept
    <3> QED
      BY <2>2, <2>4, <3>1, <3>2, Zenon DEF AllKept
  <2>6. CASE routed' = routed /\ events' = Append(events, [kind |-> "PublishReturn", msg |-> m])
    <3>1. \A x : x \in Returned' <=> x \in Returned \/ x = m
      BY <1>1, <2>3, <2>6, ReturnPushed
    <3>2. Routed' = Routed
      BY <2>6 DEF Routed
    <3> QED
      BY <2>2, <2>4, <3>1, <3>2, Zenon DEF AllKept
  <2> QED
    BY <2>2, <2>5, <2>6
<1>5. CASE SelectPublishReturn
  <2> DEFINE m == Head(events).msg
  <2>1. /\ events # <<>> /\ events' = Tail(events) /\ Head(events).kind = "PublishReturn"
        /\ sendQ' = Append(sendQ, m) /\ UNCHANGED <<next, routed>>
    BY <1>5 DEF SelectPublishReturn, NextEventIs
  <2>2. \A x : x \in Returned <=> x \in Returned' \/ x = m
    BY <1>1, <2>1, ReturnRead
  <2> HIDE DEF m
  <2>3. m \in Msgs
    BY <2>2, Zenon DEF OneCopy
  <2>4. \A x : x \in Waiting' <=> x \in Waiting \/ x = m
    BY <1>1, <2>1, <2>3, AppendedElements, SentElements, SentElementsNext
  <2>5. Routed' = Routed /\ next' = next
    BY <2>1 DEF Routed
  <2> QED
    BY <2>2, <2>4, <2>5, Zenon DEF AllKept
<1> QED
  BY <1>2, <1>3, <1>4, <1>5

LEMMA KeptInvPreserved ==
    ASSUME TypeOK, NoticeInv, OneCopy, KeptInv, ~HasConsumer, [Next]_vars
    PROVE  KeptInv'
<1> SUFFICES ASSUME OnlyQueueFaults', ~shutdownToken'
             PROVE  Undisturbed' /\ AllKept'
  BY DEF KeptInv
<1>1. OnlyQueueFaults /\ \A kind : Inject(kind) => kind = "queue"
  BY OnlyQueueFaultsStay
<1>2. ~shutdownToken
  BY DEF Next, Owner, Start, Shutdown, Send, Advance, Begin, Disconnected, ConnectOk,
         ConnectFails, ConnectionCallbackFails, Reconnecting, OpenChannelOk,
         OpenChannelFails, DeclareQueueOk, DeclareQueueFails, ReopeningChannel, ConsumeOk,
         ConsumeFails, ReportStarted, CloseChannelOk, CloseChannelFails, ClosingConnection,
         Reconnect, Finish, FinishStartError, SelectShutdown, Select, SelectChannelClose,
         SelectConnectionClose, SelectPublishReturn, SelectMessageReceived, SelectIgnored,
         Publish, Environment, BrokerGoesDown, BrokerComesUp, ServerClosesConnection,
         ServerClosesChannel, QueueDeleted, QueueRedeclared, OthersPublish, Deliver,
         ownerVars, vars
<1>3. Undisturbed /\ AllKept
  BY <1>1, <1>2 DEF KeptInv
<1>4. Undisturbed' /\ (Send \/ Publish \/ SelectPublishReturn \/ KeepsReturns)
  BY <1>1, <1>2, <1>3, UndisturbedStep
<1> QED
  BY <1>3, <1>4, KeptStep

(* However often the queue is deleted under the gateway's client, a message *)
(* given to its sender is waiting, returned or in the queue's hands.        *)
THEOREM NothingLost == ASSUME ~HasConsumer PROVE Spec => []NothingLostByQueueDeletion
<1>1. Init => KeptInv
  <2> SUFFICES ASSUME Init PROVE Undisturbed /\ AllKept
    BY DEF KeptInv
  <2>1. Undisturbed
    BY DEF Init, Undisturbed, Pending
  <2>2. AllKept
    BY ConstantsAssumption DEF Init, AllKept, Msgs
  <2> QED
    BY <2>1, <2>2
<1>2. TypeOK /\ NoticeInv /\ OneCopy /\ KeptInv /\ [Next]_vars => KeptInv'
  BY KeptInvPreserved
<1>3. TypeOK /\ OneCopy /\ KeptInv => NothingLostByQueueDeletion
  <2> SUFFICES ASSUME TypeOK, OneCopy, AllKept
               PROVE  1..(next - 1) = Waiting \union Returned \union Routed
    BY DEF KeptInv, NothingLostByQueueDeletion
  <2>1. next \in 1..(MaxMsgs + 1) /\ MaxMsgs \in Nat
    BY ConstantsAssumption DEF TypeOK, QueueTypeOK
  <2>2. \A m : m \in 1..(next - 1) <=> m \in Msgs /\ m < next
    BY <2>1 DEF Msgs
  <2>3. \A m : m \in Msgs /\ m < next <=> m \in Waiting \/ m \in Returned \/ m \in Routed
    BY Zenon DEF OneCopy, AllKept
  <2>4. \A m : m \in 1..(next - 1) <=> m \in Waiting \union Returned \union Routed
    BY <2>2, <2>3, Zenon
  <2> QED
    BY <2>4, Zenon
<1> QED
  BY <1>1, <1>2, <1>3, TypeCorrect, NoticeInvariant, OneCopyInvariant, PTL DEF Spec
=============================================================================
