--------------------------- MODULE ClientIdProofs ---------------------------
(***************************************************************************)
(* Theorems about ClientId, for every value of its constants: ClientId is  *)
(* Transport with buffers beside it; the will of a session is its own, for *)
(* the buffers a session is made from are filled by the thread that makes  *)
(* it while no session exists; and a session keeps the topics that it has  *)
(* subscribed, for no attempt is left once MQTT_CONNECTED is entered.      *)
(***************************************************************************)
EXTENDS ClientId, TransportProofs

USE ClientIdAssumption
-----------------------------------------------------------------------------
(* Transport under the buffers.                                            *)

\* The buffers restrict nothing that the device does.
LEMMA IdStepIsStep == [IdNext]_<<vars, idVars>> => [Next]_vars
BY DEF IdNext

\* ClientId implements Transport, so that what holds of Transport holds here.
THEOREM ImplementsTransport == IdSpec => Spec
<1>1. IdInit => Init
  BY DEF IdInit
<1> QED
  BY <1>1, IdStepIsStep, PTL DEF IdSpec, Spec

\* transport_task's copy of the network status is the channel's value here too.
THEOREM IdKnowsNetwork ==
  ASSUME RebootOnFatal
  PROVE  IdSpec => []KnowsNetwork
BY NetworkIsKnown, ImplementsTransport, PTL
-----------------------------------------------------------------------------
(* Where an attempt is and what it has done to the session.                *)

\* What a step does not do: begin an attempt elsewhere than at its beginning, go
\* to mqtt_connect() without having resolved the name, open a session otherwise
\* than by mqtt_connect(), have transport_task start again without a reboot.
AttemptInOrder ==
  /\ Restarts => Reboot
  /\ pc'[Queue] = "getaddrinfo" => session' = "closed" \/ pc[Queue] = "getaddrinfo"
  /\ pc'[Queue] = "getaddrinfo" => pc[Queue] \in {"client_id", "getaddrinfo"}
  /\ pc'[Queue] = "mqtt_connect" => pc[Queue] \in {"getaddrinfo", "mqtt_connect"}
  /\ session = "closed" /\ session' # "closed" =>
       pc[Queue] = "mqtt_connect" /\ pc'[Queue] = "transport_connected"

\* The poll thread opens no session and does not move the attempt.
LEMMA PollInOrder ==
  ASSUME TypeOK, PollStep \/ PollFault
  PROVE  AttemptInOrder
<1> USE DEF AttemptInOrder, Restarts, TypeOK, TaskReturns, Threads, Poll, Task, Queue, At, Goto, Call, Return,
  Disconnected, clientVars
<1>1. CASE PollClient \/ PollError \/ ConnectionLost \/ ConnackRefused
  BY <1>1 DEF PollClient, SemTake, PollCheck, KeptAlive, PollLeaves, ConnackAccepted,
    RefusedClose, PublishReceived, InputDone, PollExit, PollError, ConnectionLost, ConnackRefused
<1>2. CASE PollCallback \/ WriteError(Poll)
  BY <1>2 DEF PollCallback, Callback, OnMqttConnack, SetFlag, SetConnected, ConnectedEntry,
    OnMqttConnackRefused, SetDisconnected, RefusedCheck, OnMqttPublish, RetryConnectToBroker,
    OnMqttDisconnect, DisconnectedEntry, Write, WriteReturns, WriteError, WriteFails
<1> QED
  BY <1>1, <1>2 DEF PollStep, PollFault

\* Neither does transport_task.
LEMMA TaskInOrder ==
  ASSUME TypeOK, TaskStep \/ TaskFault
  PROVE  AttemptInOrder
<1> USE DEF AttemptInOrder, Restarts, TypeOK, TaskReturns, Threads, Poll, Task, Queue, At, Goto, Call, Return,
  Disconnected, clientVars
<1>1. CASE TaskDisconnect \/ DisconnectWriteFails(Task)
  BY <1>1 DEF TaskDisconnect, DisconnectSent, DisconnectRefused, DisconnectFailed,
    DisconnectWriteFails
<1>2. CASE Callback(Task)
  BY <1>2 DEF Callback, RetryConnectToBroker, OnMqttDisconnect, SetDisconnected,
    DisconnectedEntry
<1>3. CASE Write(Task) \/ WriteError(Task)
  <2>1. \A l : AfterSent(l) # "start" /\ AfterFailure(l) # "start"
    BY DEF AfterSent, AfterFailure, IfConnected
  <2> QED
    BY <1>3, <2>1 DEF Write, WriteReturns, WriteError, WriteFails
<1>4. CASE TaskStarts \/ TaskTakesNetwork \/ TaskTakesData \/ TaskReadsNetwork
             \/ DisconnectedRun \/ ConnectedRun
  BY <1>4 DEF TaskStarts, LibInit, TaskTakesNetwork, TaskTakesData, TaskReadsNetwork,
    DisconnectedRun, ConnectedRun, DisconnectBegins, IfConnected
<1> QED
  BY <1>1, <1>2, <1>3, <1>4 DEF TaskStep, TaskFault

\* transport_queue takes the attempt through its places in order.
LEMMA QueueInOrder ==
  ASSUME TypeOK, QueueStep \/ QueueFault
  PROVE  AttemptInOrder
<1> USE DEF AttemptInOrder, Restarts, TypeOK, TaskReturns, Threads, Poll, Task, Queue, At, Goto, Call, Return,
  Disconnected, clientVars
<1>1. CASE QueueClient \/ QueueFault
  BY <1>1 DEF QueueClient, Resolved, TransportConnects, ConnectRequested, SemGive,
    ConnectFailed, QueueFault, ResolveFails, TransportConnectFails, ConnectWriteFails
<1>2. CASE WorkBegins \/ WorkConnects \/ WorkRetry \/ WorkDone
  BY <1>2 DEF WorkBegins, WorkConnects, ConnectBegins, WorkRetry, WorkDone
<1>3. CASE Callback(Queue)
  BY <1>3 DEF Callback, RetryConnectToBroker, OnMqttDisconnect, SetDisconnected,
    DisconnectedEntry, QueueReturns
<1> QED
  BY <1>1, <1>2, <1>3 DEF QueueStep

\* So does every step of the device.
LEMMA StepInOrder ==
  ASSUME TypeOK, Next
  PROVE  AttemptInOrder
<1>1. CASE TimerExpires \/ GnssData \/ NetworkEvent
  BY <1>1 DEF AttemptInOrder, Restarts, TimerExpires, GnssData, NetworkEvent, control, clientVars
<1>2. CASE ClientIdFails \/ NetworkFatalError
  <2>1. CASE Reboot
    BY <2>1 DEF AttemptInOrder, Restarts, Reboot, FirstLabel, Threads, Poll, Task, Queue
  <2>2. CASE ClientIdFails /\ ~Reboot
    <3>1. Goto(Queue, "work_done") /\ UNCHANGED clientVars
      BY <2>2, Zenon DEF ClientIdFails
    <3> QED
      BY <3>1 DEF AttemptInOrder, Restarts, TypeOK, Goto, Threads, clientVars
  <2>3. CASE NetworkEventOverflows /\ ~Reboot
    <3>1. UNCHANGED <<clientVars, control>>
      BY <2>3, Zenon DEF NetworkEventOverflows
    <3> QED
      BY <3>1 DEF AttemptInOrder, Restarts, control, clientVars
  <2> QED
    BY <1>2, <2>1, <2>2, <2>3 DEF NetworkFatalError
<1> QED
  BY <1>1, <1>2, PollInOrder, TaskInOrder, QueueInOrder DEF Next, Step, Fault
-----------------------------------------------------------------------------
(* The names.                                                              *)

\* No session exists while the buffers are filled for the next one.
NoSessionYet == pc[Queue] \in {"getaddrinfo", "mqtt_connect"} => session = "closed"

\* The will topic and the id of a session are those its attempt has found in the
\* buffer, which no other attempt writes before mqtt_connect() has returned.
NamedAlike ==
  /\ pc[Queue] = "mqtt_connect" => will_topic = client_id
  /\ session # "closed" => will_topic = session_id

NameInv == NoSessionYet /\ NamedAlike

\* The program starts without a session and without names.
LEMMA NameInit == IdInit => NameInv
BY DEF IdInit, Init, FirstLabel, Threads, Poll, Task, Queue, NameInv, NoSessionYet, NamedAlike

\* Every step of the device and its buffers keeps NameInv.
LEMMA NameStep == TypeOK /\ NameInv /\ [IdNext]_<<vars, idVars>> => NameInv'
<1> SUFFICES ASSUME TypeOK, NameInv, [IdNext]_<<vars, idVars>> PROVE NameInv'
  OBVIOUS
<1>1. CASE UNCHANGED <<vars, idVars>>
  BY <1>1 DEF NameInv, NoSessionYet, NamedAlike, vars, idVars, clientVars, control
<1>2. CASE IdNext
  <2>1. AttemptInOrder
    BY <1>2, StepInOrder DEF IdNext
  <2>2. NoSessionYet'
    BY <2>1 DEF NameInv, NoSessionYet, AttemptInOrder
  <2>3. CASE Restarts
    <3>1. client_id' = "none" /\ will_topic' = "none" /\ session_id' = "none"
      BY <1>2, <2>3 DEF IdNext
    <3>2. pc'[Queue] = "idle" /\ session' = "closed"
      BY <2>1, <2>3 DEF AttemptInOrder, Reboot, FirstLabel, Threads, Poll, Task, Queue
    <3> QED
      BY <3>1, <3>2, <2>2 DEF NameInv, NamedAlike
  <2>4. CASE ~Restarts
    <3>1. client_id' \in NewId /\ will_topic' = WillTopic /\ session_id' = SessionId
      BY <1>2, <2>4 DEF IdNext
    <3>2. NamedAlike'
      BY <2>1, <2>2, <3>1 DEF NameInv, NamedAlike, NoSessionYet, AttemptInOrder, NewId, WillTopic,
        SessionId, Moves
    <3> QED
      BY <2>2, <3>2 DEF NameInv
  <2> QED
    BY <2>3, <2>4
<1> QED
  BY <1>1, <1>2

\* The invariant, with the types that Transport keeps.
LEMMA NameInvariance == IdSpec => []NameInv
BY NameInit, NameStep, TypeCorrectness, ImplementsTransport, PTL DEF IdSpec

\* The will of a session names the client that the session belongs to, whatever
\* attempts have filled the buffers since.
THEOREM WillIsOfSession == IdSpec => []WillIsSessions
<1>1. NameInv => WillIsSessions
  BY DEF NameInv, NamedAlike, WillIsSessions
<1> QED
  BY <1>1, NameInvariance, PTL

-----------------------------------------------------------------------------
(* The topics of a session.                                                *)

\* Where the poll thread is from the CONNACK to the first write of subscribe().
Beginning ==
  {"on_connack", "connack_flag", "lwt_online", "set_connected", "connected_entry", "subscribe"}

\* A session that has subscribed is up and past its beginning, and the buffers are as
\* they were when it subscribed.
Subscribed ==
  subscribed_as # "none" =>
    session = "up" /\ pc[Poll] \notin Beginning /\ client_id = subscribed_as

\* The program starts without a session.
LEMMA SubscribedInit == IdInit => Subscribed
BY DEF IdInit, Subscribed

\* A session that is up stays past its beginning: the poll thread gets to those labels
\* from the CONNACK only, or from a callback, which finds the session closed.
LEMMA PollPastEntry ==
  ASSUME TypeOK, CallbackInv, PollStep \/ PollFault, session = "up",
         pc[Poll] \notin Beginning \ {"subscribe"}
  PROVE  pc'[Poll] \notin Beginning
<1> USE DEF Beginning, TypeOK, CallbackInv, CallbackAlone, Refusing, CallbackLabels, Threads, Poll,
  Task, Queue, At, Goto, Call, Return, Disconnected
<1>1. CASE PollClient \/ PollError \/ ConnectionLost \/ ConnackRefused
  BY <1>1 DEF PollClient, SemTake, PollCheck, KeptAlive, PollLeaves, ConnackAccepted,
    RefusedClose, PublishReceived, InputDone, PollExit, PollError, ConnectionLost, ConnackRefused
<1>2. CASE PollCallback \/ WriteError(Poll)
  <2>1. CASE OnMqttConnack \/ SetFlag \/ SetConnected \/ ConnectedEntry \/ OnMqttConnackRefused
               \/ RefusedCheck \/ OnMqttPublish
    BY <2>1 DEF OnMqttConnack, SetFlag, SetConnected, ConnectedEntry, OnMqttConnackRefused,
      SetDisconnected, RefusedCheck, OnMqttPublish
  <2>2. CASE Callback(Poll)
    BY <2>2 DEF Callback, RetryConnectToBroker, OnMqttDisconnect, DisconnectedEntry
  <2>3. CASE Write(Poll) \/ WriteError(Poll)
    BY <2>3 DEF Write, WriteReturns, WriteError, WriteFails, AfterSent, AfterFailure, IfConnected,
      WriteLabels
  <2> QED
    BY <1>2, <2>1, <2>2, <2>3 DEF PollCallback
<1> QED
  BY <1>1, <1>2 DEF PollStep, PollFault

\* The other threads and the environment do not move the poll thread, unless they
\* restart the device.
LEMMA OthersLeavePoll ==
  ASSUME TypeOK, Next, ~(PollStep \/ PollFault), session' = "up"
  PROVE  pc'[Poll] = pc[Poll]
<1> USE DEF TypeOK, Threads, Poll, Task, Queue, At, Goto, Call, Return, Disconnected
<1>1. CASE TaskStep \/ TaskFault
  BY <1>1 DEF TaskStep, TaskFault, TaskStarts, LibInit, TaskTakesNetwork, TaskTakesData,
    TaskReadsNetwork, DisconnectedRun, ConnectedRun, DisconnectBegins, TaskDisconnect, DisconnectSent,
    DisconnectRefused, DisconnectFailed, DisconnectWriteFails, Write, WriteReturns, WriteError,
    WriteFails, Callback, RetryConnectToBroker, OnMqttDisconnect, SetDisconnected, DisconnectedEntry
<1>2. CASE QueueStep \/ QueueFault
  BY <1>2 DEF QueueStep, QueueFault, QueueClient, Resolved, TransportConnects, ConnectRequested,
    SemGive, ConnectFailed, ResolveFails, TransportConnectFails, ConnectWriteFails, WorkBegins,
    WorkConnects, ConnectBegins, WorkRetry, WorkDone, Callback, RetryConnectToBroker,
    OnMqttDisconnect, SetDisconnected, DisconnectedEntry
<1>3. CASE TimerExpires \/ GnssData \/ NetworkEvent
  BY <1>3 DEF TimerExpires, GnssData, NetworkEvent, control
<1>4. CASE ClientIdFails \/ NetworkFatalError
  <2>1. ~Reboot
    BY DEF Reboot
  <2>2. CASE ClientIdFails
    <3>1. Goto(Queue, "work_done")
      BY <2>1, <2>2, Zenon DEF ClientIdFails
    <3> QED
      BY <3>1
  <2>3. CASE NetworkEventOverflows
    <3>1. UNCHANGED control
      BY <2>1, <2>3, Zenon DEF NetworkEventOverflows
    <3> QED
      BY <3>1 DEF control
  <2> QED
    BY <1>4, <2>1, <2>2, <2>3 DEF NetworkFatalError
<1> QED
  BY <1>1, <1>2, <1>3, <1>4 DEF Next, Step, Fault

\* The write of SUBSCRIBE leaves the session up only if it was, and no other thread
\* where it is not.
LEMMA SubscribeMoves ==
  ASSUME TypeOK, PollStep \/ PollFault, pc[Poll] = "subscribe", session' = "up"
  PROVE  session = "up" /\ pc'[Queue] = pc[Queue]
<1>1. Write(Poll) \/ WriteError(Poll)
  BY DEF PollStep, PollFault, PollClient, PollCallback, Callback, SemTake, PollCheck, KeptAlive,
    PollLeaves, ConnackAccepted, RefusedClose, PublishReceived, InputDone, PollExit, PollError,
    ConnectionLost, ConnackRefused, OnMqttConnack, SetFlag, SetConnected, ConnectedEntry,
    OnMqttConnackRefused, RefusedCheck, OnMqttPublish, RetryConnectToBroker, OnMqttDisconnect,
    DisconnectedEntry, At
<1> QED
  BY <1>1 DEF Write, WriteReturns, WriteError, WriteFails, Goto, Disconnected, Call, clientVars,
    TypeOK, Threads, Poll, Queue

\* While a session is subscribed no attempt runs, so nothing writes the buffers.
LEMMA SubscribedStep ==
  TypeOK /\ CallbackInv /\ PlanInv /\ Subscribed /\ [IdNext]_<<vars, idVars>> => Subscribed'
<1> SUFFICES ASSUME TypeOK, CallbackInv, PlanInv, Subscribed, [IdNext]_<<vars, idVars>>,
                    subscribed_as' # "none"
             PROVE  Subscribed'
  BY DEF Subscribed
<1>1. CASE UNCHANGED <<vars, idVars>>
  BY <1>1 DEF Subscribed, vars, idVars, clientVars, control
<1>2. CASE IdNext
  <2>1. session' = "up" /\ Next /\ subscribed_as' = SubscribedAs
    BY <1>2 DEF IdNext, SubscribedAs
  <2>2. ~Restarts
    BY <2>1, StepInOrder DEF AttemptInOrder, Reboot
  <2>3. client_id' \in NewId
    BY <1>2, <2>2 DEF IdNext
  <2>4. CASE pc[Poll] = "subscribe" /\ pc'[Poll] # "subscribe"
    <3>1. PollStep \/ PollFault
      BY <2>1, <2>4, OthersLeavePoll
    <3>2. session = "up" /\ pc'[Queue] = pc[Queue]
      BY <2>1, <2>4, <3>1, SubscribeMoves
    <3>3. pc'[Poll] \notin Beginning
      BY <2>4, <3>1, <3>2, PollPastEntry
    <3>4. client_id' = client_id
      BY <2>3, <3>2 DEF NewId, Moves
    <3> QED
      BY <2>1, <2>4, <3>3, <3>4 DEF Subscribed, SubscribedAs
  <2>5. CASE ~(pc[Poll] = "subscribe" /\ pc'[Poll] # "subscribe")
    <3>1. subscribed_as' = subscribed_as /\ subscribed_as # "none"
      BY <2>1, <2>5 DEF SubscribedAs
    <3>2. session = "up" /\ pc[Poll] \notin Beginning /\ client_id = subscribed_as
      BY <3>1 DEF Subscribed
    <3>3. pc'[Poll] \notin Beginning
      BY <2>1, <3>2, OthersLeavePoll, PollPastEntry
    <3>4. pc[Queue] = "idle"
      BY <3>2 DEF CallbackInv, Flagged, PlanInv, ConnectedQuiet, Beginning, TypeOK
    <3>5. client_id' = client_id
      BY <2>3, <3>4 DEF NewId, Moves
    <3> QED
      BY <2>1, <3>1, <3>2, <3>3, <3>5 DEF Subscribed
  <2> QED
    BY <2>4, <2>5
<1> QED
  BY <1>1, <1>2

\* A session keeps the topics that it has subscribed, with random ids as with fixed
\* ones, whatever attempts were planned or rejected before it came up.
THEOREM TopicsAreKept ==
  ASSUME "timer" \in SlowSources
  PROVE  IdSpec => []TopicsKept
<1>1. Subscribed => TopicsKept
  BY DEF Subscribed, TopicsKept
<1> QED
  BY <1>1, SubscribedInit, SubscribedStep, PlanInvariance, ImplementsTransport, PTL DEF IdSpec
=============================================================================
