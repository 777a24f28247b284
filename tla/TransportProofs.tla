--------------------------- MODULE TransportProofs ---------------------------
(***************************************************************************)
(* Theorems about Transport, for every value of its constants: type        *)
(* correctness, and, when no timer expires while a thread has code to run, *)
(* that the library implements MqttLifecycle, loses no open socket, polls  *)
(* every connection it asks for and comes to rest in the state of the      *)
(* session (from IInv), that the transport's flag and state follow it and  *)
(* its failures are counted by one thread at a time (CallbackInv), and     *)
(* that a lost connection is followed by a plan (PlanInv).                 *)
(***************************************************************************)
EXTENDS Transport, TLAPS

USE MaxAttemptsAssumption, QueueSizeAssumption, SwitchesAssumption
-----------------------------------------------------------------------------
(* Type correctness.                                                       *)

\* The program starts with well-typed variables.
LEMMA TypeInit == Init => TypeOK
<1> SUFFICES ASSUME Init PROVE TypeOK
  OBVIOUS
<1>1. /\ pc[Poll] = "sem_take" /\ pc[Task] = "start" /\ pc[Queue] = "idle"
      /\ ret[Poll] = "sem_take" /\ ret[Task] = "sub_wait" /\ ret[Queue] = "work_done"
  BY DEF Init, FirstLabel, LoopHead, Threads, Poll, Task, Queue
<1>2. \A t \in Threads : /\ pc[t] \in PollLabels \cup TaskLabels \cup QueueLabels
                         /\ ret[t] \in PollReturns \cup TaskReturns \cup QueueReturns
  BY <1>1 DEF Threads, PollLabels, PollReturns, TaskLabels, TaskReturns, QueueLabels,
  QueueReturns, CallbackLabels, WriteLabels
<1>3. /\ pc \in [Threads -> PollLabels \cup TaskLabels \cup QueueLabels]
      /\ ret \in [Threads -> PollReturns \cup TaskReturns \cup QueueReturns]
  BY <1>2 DEF Init
<1>4. charged \in BOOLEAN /\ dropped \in BOOLEAN
  BY Zenon DEF Init
<1>5. subscription \in Seq(Channels) /\ Len(subscription) <= QueueSize
  BY DEF Init
<1>6. /\ mqtt_state \in Lifecycle!States /\ session \in Sessions
      /\ connection_poll_sem \in 0..1 /\ transport_mqtt_connected \in 0..1
      /\ smf_state \in {"MQTT_CONNECTED", "MQTT_DISCONNECTED"}
      /\ network_connection_status \in NetworkStatuses /\ NETWORK_CHAN \in NetworkStatuses
      /\ failures \in 0..MaxAttempts
      /\ work \subseteq {"DELAYED", "QUEUED", "RUNNING", "CANCELING"}
  BY DEF Init, Lifecycle!States, Sessions, NetworkStatuses
<1> QED
  BY <1>1, <1>3, <1>4, <1>5, <1>6 DEF TypeOK, PollLabels, PollReturns, TaskLabels, TaskReturns, QueueLabels,
  QueueReturns, CallbackLabels, WriteLabels

\* A reboot brings every variable back to its initial value.
LEMMA RebootInit == Reboot => Init'
BY DEF Reboot, Init

\* So the variables are well typed after it.
LEMMA TypeReboot == Reboot => TypeOK'
BY TypeInit, RebootInit, PTL

\* The poll loop and the library calls it makes.
LEMMA TypePoll ==
  ASSUME TypeOK, UNCHANGED <<transportVars, busVars>>,
         SemTake \/ PollCheck \/ KeptAlive \/ PollLeaves \/ ConnackAccepted \/ RefusedClose
           \/ PublishReceived \/ InputDone \/ PollExit \/ PollError \/ ConnectionLost
           \/ ConnackRefused
  PROVE  TypeOK'
<1> USE DEF TypeOK, Lifecycle!States, Sessions, NetworkStatuses, Channels,
  PollLabels, PollReturns, TaskLabels, TaskReturns, QueueLabels,
  QueueReturns, CallbackLabels, WriteLabels,
  Threads, Poll, Task, Queue, At, Goto, Call, Return, Disconnected, MutexFree,
  IfConnected, Online, clientVars, control, transportVars, busVars
<1>1. CASE SemTake
  BY <1>1 DEF SemTake
<1>2. CASE PollCheck
  BY <1>2 DEF PollCheck
<1>3. CASE KeptAlive
  BY <1>3 DEF KeptAlive
<1>4. CASE PollLeaves
  BY <1>4 DEF PollLeaves
<1>5. CASE ConnackAccepted
  BY <1>5 DEF ConnackAccepted
<1>6. CASE RefusedClose
  BY <1>6 DEF RefusedClose
<1>7. CASE PublishReceived
  BY <1>7 DEF PublishReceived
<1>8. CASE InputDone
  BY <1>8 DEF InputDone
<1>9. CASE PollExit
  BY <1>9 DEF PollExit
<1>10. CASE PollError
  BY <1>10 DEF PollError
<1>11. CASE ConnectionLost
  BY <1>11 DEF ConnectionLost
<1>12. CASE ConnackRefused
  BY <1>12 DEF ConnackRefused
<1> QED BY <1>1, <1>2, <1>3, <1>4, <1>5, <1>6, <1>7, <1>8, <1>9, <1>10, <1>11, <1>12

\* The callbacks that only the poll thread runs.
LEMMA TypePollCallback ==
  ASSUME TypeOK, UNCHANGED busVars,
         OnMqttConnack \/ SetFlag \/ SetConnected \/ ConnectedEntry \/ OnMqttConnackRefused
           \/ RefusedCheck \/ OnMqttPublish
  PROVE  TypeOK'
<1> USE DEF TypeOK, Lifecycle!States, Sessions, NetworkStatuses, Channels,
  PollLabels, PollReturns, TaskLabels, TaskReturns, QueueLabels,
  QueueReturns, CallbackLabels, WriteLabels,
  Threads, Poll, Task, Queue, At, Goto, Call, Return, Disconnected, MutexFree,
  IfConnected, Online, clientVars, control, transportVars, busVars
<1>1. CASE OnMqttConnack
  <2>1. charged' \in BOOLEAN
    BY <1>1, Zenon DEF OnMqttConnack
  <2>2. failures' \in 0..MaxAttempts
    BY <1>1 DEF OnMqttConnack
  <2> QED
    BY <1>1, <2>1, <2>2 DEF OnMqttConnack
<1>2. CASE SetFlag
  BY <1>2 DEF SetFlag
<1>3. CASE SetConnected
  BY <1>3 DEF SetConnected
<1>4. CASE ConnectedEntry
  <2>1. dropped' \in BOOLEAN
    BY <1>4, Zenon DEF ConnectedEntry
  <2>2. work' \subseteq {"DELAYED", "QUEUED", "RUNNING", "CANCELING"}
    BY <1>4 DEF ConnectedEntry, Cancel
  <2> QED
    BY <1>4, <2>1, <2>2 DEF ConnectedEntry
<1>5. CASE OnMqttConnackRefused
  BY <1>5 DEF OnMqttConnackRefused, SetDisconnected
<1>6. CASE RefusedCheck
  BY <1>6 DEF RefusedCheck
<1>7. CASE OnMqttPublish
  BY <1>7 DEF OnMqttPublish
<1> QED BY <1>1, <1>2, <1>3, <1>4, <1>5, <1>6, <1>7

\* mqtt_client_disconnect(), called by transport_task.
LEMMA TypeTaskDisconnect ==
  ASSUME TypeOK, UNCHANGED <<transportVars, busVars>>,
         DisconnectSent(Task, "sub_wait") \/ DisconnectRefused(Task)
           \/ DisconnectFailed(Task, "sub_wait") \/ DisconnectWriteFails(Task)
  PROVE  TypeOK'
<1> USE DEF TypeOK, Lifecycle!States, Sessions, NetworkStatuses, Channels,
  PollLabels, PollReturns, TaskLabels, TaskReturns, QueueLabels,
  QueueReturns, CallbackLabels, WriteLabels,
  Threads, Poll, Task, Queue, At, Goto, Call, Return, Disconnected, MutexFree,
  IfConnected, Online, clientVars, control, transportVars, busVars
<1>1. CASE DisconnectSent(Task, "sub_wait")
  BY <1>1 DEF DisconnectSent
<1>2. CASE DisconnectRefused(Task)
  BY <1>2 DEF DisconnectRefused
<1>3. CASE DisconnectFailed(Task, "sub_wait")
  BY <1>3 DEF DisconnectFailed
<1>4. CASE DisconnectWriteFails(Task)
  BY <1>4 DEF DisconnectWriteFails
<1> QED BY <1>1, <1>2, <1>3, <1>4

\* The loop of transport_task.
LEMMA TypeTask ==
  ASSUME TypeOK,
         TaskStarts \/ TaskTakesNetwork \/ TaskTakesData \/ TaskReadsNetwork
           \/ DisconnectedRun \/ ConnectedRun
  PROVE  TypeOK'
<1> USE DEF TypeOK, Lifecycle!States, Sessions, NetworkStatuses, Channels,
  PollLabels, PollReturns, TaskLabels, TaskReturns, QueueLabels,
  QueueReturns, CallbackLabels, WriteLabels,
  Threads, Poll, Task, Queue, At, Goto, Call, Return, Disconnected, MutexFree,
  IfConnected, Online, clientVars, control, transportVars, busVars
<1>1. CASE TaskStarts
  BY <1>1 DEF TaskStarts, LibInit
<1>2. CASE TaskTakesNetwork
  BY <1>2 DEF TaskTakesNetwork
<1>3. CASE TaskTakesData
  BY <1>3 DEF TaskTakesData
<1>4. CASE TaskReadsNetwork
  BY <1>4 DEF TaskReadsNetwork
<1>5. CASE DisconnectedRun
  <2>1. work' \subseteq {"DELAYED", "QUEUED", "RUNNING", "CANCELING"}
    BY <1>5 DEF DisconnectedRun, Reschedule, Cancel
  <2>2. dropped' \in BOOLEAN
    BY <1>5, Zenon DEF DisconnectedRun, Reschedule
  <2> QED
    BY <1>5, <2>1, <2>2 DEF DisconnectedRun
<1>6. CASE ConnectedRun
  BY <1>6 DEF ConnectedRun, DisconnectBegins
<1> QED BY <1>1, <1>2, <1>3, <1>4, <1>5, <1>6

\* mqtt_client_connect(), called by the work item.
LEMMA TypeQueueClient ==
  ASSUME TypeOK, UNCHANGED <<transportVars, busVars>>,
         Resolved(Queue) \/ TransportConnects(Queue) \/ ConnectRequested(Queue)
           \/ SemGive(Queue, "work_done") \/ ConnectFailed(Queue, "retry", "work_done")
           \/ ResolveFails(Queue) \/ TransportConnectFails(Queue)
           \/ ConnectWriteFails(Queue)
  PROVE  TypeOK'
<1> USE DEF TypeOK, Lifecycle!States, Sessions, NetworkStatuses, Channels,
  PollLabels, PollReturns, TaskLabels, TaskReturns, QueueLabels,
  QueueReturns, CallbackLabels, WriteLabels,
  Threads, Poll, Task, Queue, At, Goto, Call, Return, Disconnected, MutexFree,
  IfConnected, Online, clientVars, control, transportVars, busVars
<1>1. CASE Resolved(Queue)
  BY <1>1 DEF Resolved
<1>2. CASE TransportConnects(Queue)
  BY <1>2 DEF TransportConnects
<1>3. CASE ConnectRequested(Queue)
  BY <1>3 DEF ConnectRequested
<1>4. CASE SemGive(Queue, "work_done")
  BY <1>4 DEF SemGive
<1>5. CASE ConnectFailed(Queue, "retry", "work_done")
  BY <1>5 DEF ConnectFailed
<1>6. CASE ResolveFails(Queue)
  BY <1>6 DEF ResolveFails
<1>7. CASE TransportConnectFails(Queue)
  BY <1>7 DEF TransportConnectFails
<1>8. CASE ConnectWriteFails(Queue)
  BY <1>8 DEF ConnectWriteFails
<1> QED BY <1>1, <1>2, <1>3, <1>4, <1>5, <1>6, <1>7, <1>8

\* The rest of the work item's function.
LEMMA TypeWork ==
  ASSUME TypeOK, UNCHANGED busVars,
         WorkBegins \/ WorkConnects \/ WorkRetry \/ WorkDone
  PROVE  TypeOK'
<1> USE DEF TypeOK, Lifecycle!States, Sessions, NetworkStatuses, Channels,
  PollLabels, PollReturns, TaskLabels, TaskReturns, QueueLabels,
  QueueReturns, CallbackLabels, WriteLabels,
  Threads, Poll, Task, Queue, At, Goto, Call, Return, Disconnected, MutexFree,
  IfConnected, Online, clientVars, control, transportVars, busVars
<1>1. CASE WorkBegins
  <2>1. charged' \in BOOLEAN
    BY <1>1, Zenon DEF WorkBegins
  <2>2. work' \subseteq {"DELAYED", "QUEUED", "RUNNING", "CANCELING"}
    BY <1>1 DEF WorkBegins
  <2> QED
    BY <1>1, <2>1, <2>2 DEF WorkBegins
<1>2. CASE WorkConnects
  BY <1>2 DEF WorkConnects, ConnectBegins
<1>3. CASE WorkRetry
  BY <1>3 DEF WorkRetry
<1>4. CASE WorkDone
  BY <1>4 DEF WorkDone
<1> QED BY <1>1, <1>2, <1>3, <1>4

\* The callbacks and writes that several threads run.
LEMMA TypeCallback ==
  ASSUME NEW t \in Threads, TypeOK, UNCHANGED busVars,
         RetryConnectToBroker(t) \/ OnMqttDisconnect(t) \/ DisconnectedEntry(t) \/ Write(t)
           \/ WriteError(t)
  PROVE  TypeOK'
<1> USE DEF TypeOK, Lifecycle!States, Sessions, NetworkStatuses, Channels,
  PollLabels, PollReturns, TaskLabels, TaskReturns, QueueLabels,
  QueueReturns, CallbackLabels, WriteLabels,
  Threads, Poll, Task, Queue, At, Goto, Call, Return, Disconnected, MutexFree,
  IfConnected, Online, clientVars, control, transportVars, busVars
<1>1. CASE RetryConnectToBroker(t)
  <2>1. charged' \in BOOLEAN /\ dropped' \in BOOLEAN
    BY <1>1, Zenon DEF RetryConnectToBroker, Reschedule
  <2>2. work' \subseteq {"DELAYED", "QUEUED", "RUNNING", "CANCELING"}
    BY <1>1 DEF RetryConnectToBroker, Reschedule
  <2>3. failures' \in 0..MaxAttempts
    BY <1>1 DEF RetryConnectToBroker
  <2> QED
    BY <1>1, <2>1, <2>2, <2>3 DEF RetryConnectToBroker
<1>2. CASE OnMqttDisconnect(t)
  BY <1>2 DEF OnMqttDisconnect, SetDisconnected
<1>3. CASE DisconnectedEntry(t)
  BY <1>3 DEF DisconnectedEntry
<1>4. CASE Write(t)
  BY <1>4 DEF Write, WriteReturns, AfterSent, AfterFailure
<1>5. CASE WriteError(t)
  BY <1>5 DEF WriteError, WriteFails, AfterSent, AfterFailure
<1> QED BY <1>1, <1>2, <1>3, <1>4, <1>5

\* The timer and the publishers.
LEMMA TypeEnvironment ==
  ASSUME TypeOK,
         TimerExpires \/ GnssData \/ NetworkEvent
  PROVE  TypeOK'
<1> USE DEF TypeOK, Lifecycle!States, Sessions, NetworkStatuses, Channels,
  PollLabels, PollReturns, TaskLabels, TaskReturns, QueueLabels,
  QueueReturns, CallbackLabels, WriteLabels,
  Threads, Poll, Task, Queue, At, Goto, Call, Return, Disconnected, MutexFree,
  IfConnected, Online, clientVars, control, transportVars, busVars
<1>1. CASE TimerExpires
  BY <1>1 DEF TimerExpires, Submitted
<1>2. CASE GnssData
  BY <1>2 DEF GnssData
<1>3. CASE NetworkEvent
  BY <1>3 DEF NetworkEvent
<1> QED BY <1>1, <1>2, <1>3

\* The two places where a fatal error may or may not reboot the device.
LEMMA TypeFatal ==
  ASSUME TypeOK, ClientIdFails \/ NetworkFatalError
  PROVE  TypeOK'
<1>1. CASE Reboot
  BY <1>1, TypeReboot
<1>2. CASE ClientIdFails /\ ~Reboot
  <2>1. /\ Goto(Queue, "work_done")
        /\ UNCHANGED <<clientVars, busVars, smf_state, network_connection_status,
                       transport_mqtt_connected, failures, work, charged>>
    BY <1>2, Zenon DEF ClientIdFails
  <2>2. dropped' \in BOOLEAN
    BY <1>2, Zenon DEF ClientIdFails
  <2> QED
    BY <2>1, <2>2 DEF TypeOK, Lifecycle!States, Sessions, NetworkStatuses, Channels,
      PollLabels, PollReturns, TaskLabels, TaskReturns, QueueLabels,
      QueueReturns, CallbackLabels, WriteLabels,
      Threads, Poll, Task, Queue, At, Goto, Call, Return, Disconnected, MutexFree,
      IfConnected, Online, clientVars, control, transportVars, busVars
<1>3. CASE NetworkEventOverflows /\ ~Reboot
  <2>1. /\ NETWORK_CHAN' \in NetworkStatuses
        /\ UNCHANGED <<clientVars, control, transportVars, subscription>>
    BY <1>3, Zenon DEF NetworkEventOverflows
  <2> QED
    BY <2>1 DEF TypeOK, Lifecycle!States, Sessions, NetworkStatuses, Channels,
      PollLabels, PollReturns, TaskLabels, TaskReturns, QueueLabels,
      QueueReturns, CallbackLabels, WriteLabels,
      Threads, Poll, Task, Queue, At, Goto, Call, Return, Disconnected, MutexFree,
      IfConnected, Online, clientVars, control, transportVars, busVars
<1> QED
  BY <1>1, <1>2, <1>3 DEF NetworkFatalError

\* No step of the program takes a variable out of its type.
LEMMA TypeStep == TypeOK /\ [Next]_vars => TypeOK'
<1> SUFFICES ASSUME TypeOK, [Next]_vars PROVE TypeOK'
  OBVIOUS
<1>1. CASE (PollStep \/ PollFault) /\ UNCHANGED busVars
  BY <1>1, TypePoll, TypePollCallback, TypeCallback
  DEF PollStep, PollClient, PollCallback, Callback, PollFault, Threads, transportVars, busVars
<1>2. CASE TaskStep \/ TaskFault
  BY <1>2, TypeTask, TypeTaskDisconnect, TypeCallback
  DEF TaskStep, TaskDisconnect, Callback, TaskFault, Threads, transportVars, busVars
<1>3. CASE (QueueStep \/ QueueFault) /\ UNCHANGED busVars
  BY <1>3, TypeQueueClient, TypeWork, TypeCallback
  DEF QueueStep, QueueClient, Callback, QueueFault, Threads, transportVars, busVars
<1>4. CASE TimerExpires \/ GnssData \/ NetworkEvent
  BY <1>4, TypeEnvironment
<1>5. CASE ClientIdFails \/ NetworkFatalError
  BY <1>5, TypeFatal
<1>6. CASE UNCHANGED vars
  BY <1>6 DEF TypeOK, vars, clientVars, control, transportVars, busVars
<1> QED
  BY <1>1, <1>2, <1>3, <1>4, <1>5, <1>6 DEF Next, Step, Fault

\* Type correctness: no thread gets to a place in another thread's code, the
\* semaphore stays binary, the failure counter within the configured attempts
\* and the subscriber's queue within its size, whatever the scheduling.
THEOREM TypeCorrectness == Spec => []TypeOK
BY TypeInit, TypeStep, PTL DEF Spec
-----------------------------------------------------------------------------
(* The inductive invariant.                                                *)

\* The work item is about to run or running.
Active == "QUEUED" \in work \/ pc[Queue] # "idle"

\* The broker refused the connection and the client has not closed it yet.
Refusing ==
  \/ pc[Poll] \in {"on_connack_refused", "refused_check", "refused_close"}
  \/ pc[Poll] \in CallbackLabels /\ ret[Poll] \in {"refused_check", "refused_close"}

\* The poll thread has left, or is leaving, the loop that serves a session.
Leaving ==
  \/ pc[Poll] = "sem_take"
  \/ pc[Poll] \in CallbackLabels /\ ret[Poll] = "sem_take"

\* mqtt_disconnect() failed, and mqtt_client_disconnect() is still going to
\* declare the library DISCONNECTED.
FailurePending ==
  \/ pc[Task] = "disconnect_failed"
  \/ pc[Task] \in CallbackLabels /\ ret[Task] = "disconnect_failed"

\* The same of mqtt_connect() and mqtt_client_connect().
ConnectPending ==
  \/ pc[Queue] = "connect_failed"
  \/ pc[Queue] \in CallbackLabels /\ ret[Queue] = "connect_failed"

\* Nothing happens before mqtt_client_lib_init() has run.
Booting ==
  pc[Task] = "start"
  => /\ mqtt_state = "UNINIT" /\ session = "closed" /\ connection_poll_sem = 0
     /\ pc[Poll] = "sem_take" /\ pc[Queue] = "idle" /\ work = {}

\* No other thread touches the library's state while an attempt is under way.
Connecting ==
  /\ pc[Queue] = "getaddrinfo" => mqtt_state = "DISCONNECTED" /\ session = "closed"
  /\ pc[Queue] = "mqtt_connect" => mqtt_state = "TRANSPORT_CONNECTING" /\ session = "closed"
  /\ pc[Queue] = "transport_connected" => mqtt_state = "TRANSPORT_CONNECTED" /\ session = "opened"
  /\ ConnectPending => session = "closed"

\* A session that exists is known to the library, except one being refused.
SessionKnown ==
  /\ session = "opened" => \/ mqtt_state = "CONNECTING"
                           \/ pc[Queue] = "transport_connected"
                           \/ mqtt_state = "DISCONNECTED" /\ Refusing
  /\ session = "up" => mqtt_state \in {"CONNECTED", "DISCONNECTING"}

\* A state of the library has its session, or the thread that is passing
\* through it.
StateExplained ==
  /\ mqtt_state = "UNINIT" => pc[Task] = "start"
  /\ mqtt_state = "TRANSPORT_CONNECTING" => pc[Queue] \in {"mqtt_connect", "connect_failed"}
  /\ mqtt_state = "TRANSPORT_CONNECTED" => pc[Queue] = "transport_connected"
  /\ mqtt_state = "CONNECTING" => session = "opened"
  /\ mqtt_state = "CONNECTED" => session = "up"
  /\ mqtt_state = "DISCONNECTING" => session = "up" /\ pc[Task] = "mqtt_disconnect"

\* A work item that runs during a disconnection finds the library
\* DISCONNECTING and is turned away; once the session is closed none runs
\* before the disconnection is over.
Disconnecting ==
  /\ pc[Task] = "mqtt_disconnect" =>
       /\ session # "opened" /\ (session = "up" => mqtt_state = "DISCONNECTING")
       /\ Active => /\ session = "up"
                    /\ pc[Queue] \in {"idle", "client_id", "work_retry", "retry", "work_done"}
                    /\ pc[Queue] = "retry" => ret[Queue] = "work_done"
  /\ FailurePending => session = "closed" /\ ~Active

\* While a refused session is being torn down no work item runs.
RefusedAlone == Refusing => ~Active

\* SessionIsServed, from the moment the poll thread leaves its loop.
Served ==
  Leaving /\ mqtt_state \in {"CONNECTING", "CONNECTED"}
  => connection_poll_sem = 1 \/ pc[Queue] = "sem_give"

IInv ==
  /\ Booting /\ Connecting /\ SessionKnown /\ StateExplained /\ Disconnecting
  /\ RefusedAlone /\ Served
-----------------------------------------------------------------------------
(* Where a thread waits when it is not ready.                              *)

\* transport_queue: for the work item, or inside connect() for the peer.
LEMMA QueueWaits ==
  ASSUME TypeOK, ~Ready(Queue)
  PROVE  /\ pc[Queue] \in {"idle", "getaddrinfo", "mqtt_connect"}
         /\ pc[Queue] = "idle" => "QUEUED" \notin work
BY DEF TypeOK, Ready, Threads, Poll, Task, Queue, QueueLabels, QueueReturns, CallbackLabels,
  WriteLabels

\* transport_task: for a message, or inside a library call.
LEMMA TaskWaits ==
  ASSUME TypeOK, ~Ready(Task)
  PROVE  /\ pc[Task] \in {"sub_wait", "publish", "mqtt_disconnect"}
         /\ pc[Task] = "mqtt_disconnect" => session = "up" \/ ~MutexFree
BY DEF TypeOK, Ready, Threads, Poll, Task, Queue, TaskLabels, TaskReturns, CallbackLabels,
  WriteLabels

\* mqtt_client_thread: for a connection, in poll(), in a write, or for the mutex.
LEMMA PollWaits ==
  ASSUME TypeOK, ~Ready(Poll)
  PROVE  /\ pc[Poll] \in {"sem_take", "poll", "refused_close", "poll_exit"} \cup WriteLabels
         /\ pc[Poll] = "refused_close" => ~MutexFree
BY DEF TypeOK, Ready, Threads, Poll, Task, Queue, PollLabels, PollReturns, CallbackLabels,
  WriteLabels
-----------------------------------------------------------------------------
(* IInv is inductive.                                                      *)

\* The program starts in IInv.
LEMMA InvInit == Init => IInv
<1> SUFFICES ASSUME Init PROVE IInv
  OBVIOUS
<1>1. pc[Poll] = "sem_take" /\ pc[Task] = "start" /\ pc[Queue] = "idle"
  BY DEF Init, FirstLabel, LoopHead, Threads, Poll, Task, Queue
<1> QED
  BY <1>1 DEF Init, IInv, Booting, Connecting, SessionKnown, StateExplained, Disconnecting,
  RefusedAlone, Served, Active, Refusing, Leaving, FailurePending, ConnectPending, CallbackLabels

\* So a reboot ends in it.
LEMMA InvReboot == Reboot => IInv'
BY InvInit, RebootInit, PTL

\* The poll loop leaves a session only when it is closed or will be aborted.
LEMMA InvPoll ==
  ASSUME TypeOK, TypeOK', IInv, MayRun(Poll), UNCHANGED <<transportVars, busVars>>,
         SemTake \/ PollCheck \/ KeptAlive \/ PollLeaves \/ ConnackAccepted \/ RefusedClose
           \/ PublishReceived \/ InputDone \/ PollExit \/ PollError \/ ConnectionLost
           \/ ConnackRefused
  PROVE  IInv'
<1> USE DEF IInv, Booting, Connecting, SessionKnown, StateExplained, Disconnecting,
  RefusedAlone, Served, Active, Refusing, Leaving, FailurePending, ConnectPending,
  TypeOK, Lifecycle!States, Sessions, NetworkStatuses, Channels,
  PollLabels, PollReturns, TaskLabels, TaskReturns, QueueLabels,
  QueueReturns, CallbackLabels, WriteLabels,
  Threads, Poll, Task, Queue, At, Goto, Call, Return, Disconnected, MutexFree,
  IfConnected, Online, clientVars, control, transportVars, busVars, MayRun, Ready
<1>1. CASE SemTake
  BY <1>1 DEF SemTake
<1>2. CASE PollCheck
  BY <1>2 DEF PollCheck
<1>3. CASE KeptAlive
  BY <1>3 DEF KeptAlive
<1>4. CASE PollLeaves
  BY <1>4 DEF PollLeaves
<1>5. CASE ConnackAccepted
  BY <1>5 DEF ConnackAccepted
<1>6. CASE RefusedClose
  BY <1>6 DEF RefusedClose
<1>7. CASE PublishReceived
  BY <1>7 DEF PublishReceived
<1>8. CASE InputDone
  BY <1>8 DEF InputDone
<1>9. CASE PollExit
  BY <1>9 DEF PollExit
<1>10. CASE PollError
  BY <1>10 DEF PollError
<1>11. CASE ConnectionLost
  BY <1>11 DEF ConnectionLost
<1>12. CASE ConnackRefused
  BY <1>12 DEF ConnackRefused
<1> QED BY <1>1, <1>2, <1>3, <1>4, <1>5, <1>6, <1>7, <1>8, <1>9, <1>10, <1>11, <1>12

\* The callbacks of the poll thread run while no connection is being made.
LEMMA InvPollCallback ==
  ASSUME TypeOK, TypeOK', IInv, MayRun(Poll), UNCHANGED busVars,
         OnMqttConnack \/ SetFlag \/ SetConnected \/ ConnectedEntry \/ OnMqttConnackRefused
           \/ RefusedCheck \/ OnMqttPublish
  PROVE  IInv'
<1> USE DEF IInv, Booting, Connecting, SessionKnown, StateExplained, Disconnecting,
  RefusedAlone, Served, Active, Refusing, Leaving, FailurePending, ConnectPending,
  TypeOK, Lifecycle!States, Sessions, NetworkStatuses, Channels,
  PollLabels, PollReturns, TaskLabels, TaskReturns, QueueLabels,
  QueueReturns, CallbackLabels, WriteLabels,
  Threads, Poll, Task, Queue, At, Goto, Call, Return, Disconnected, MutexFree,
  IfConnected, Online, clientVars, control, transportVars, busVars, MayRun, Ready
<1>1. CASE OnMqttConnack
  BY <1>1 DEF OnMqttConnack
<1>2. CASE SetFlag
  BY <1>2 DEF SetFlag
<1>3. CASE SetConnected
  BY <1>3 DEF SetConnected
<1>4. CASE ConnectedEntry
  BY <1>4 DEF ConnectedEntry, Cancel
<1>5. CASE OnMqttConnackRefused
  BY <1>5 DEF OnMqttConnackRefused, SetDisconnected
<1>6. CASE RefusedCheck
  BY <1>6 DEF RefusedCheck
<1>7. CASE OnMqttPublish
  BY <1>7 DEF OnMqttPublish
<1> QED BY <1>1, <1>2, <1>3, <1>4, <1>5, <1>6, <1>7

\* A disconnection ends with the session closed before a new attempt begins.
LEMMA InvTaskDisconnect ==
  ASSUME TypeOK, TypeOK', IInv, MayRun(Task), UNCHANGED <<transportVars, busVars>>,
         DisconnectSent(Task, "sub_wait") \/ DisconnectRefused(Task)
           \/ DisconnectFailed(Task, "sub_wait") \/ DisconnectWriteFails(Task)
  PROVE  IInv'
<1> USE DEF IInv, Booting, Connecting, SessionKnown, StateExplained, Disconnecting,
  RefusedAlone, Served, Active, Refusing, Leaving, FailurePending, ConnectPending,
  TypeOK, Lifecycle!States, Sessions, NetworkStatuses, Channels,
  PollLabels, PollReturns, TaskLabels, TaskReturns, QueueLabels,
  QueueReturns, CallbackLabels, WriteLabels,
  Threads, Poll, Task, Queue, At, Goto, Call, Return, Disconnected, MutexFree,
  IfConnected, Online, clientVars, control, transportVars, busVars, MayRun, Ready
<1>1. CASE DisconnectSent(Task, "sub_wait")
  BY <1>1 DEF DisconnectSent
<1>2. CASE DisconnectRefused(Task)
  BY <1>2 DEF DisconnectRefused
<1>3. CASE DisconnectFailed(Task, "sub_wait")
  BY <1>3 DEF DisconnectFailed
<1>4. CASE DisconnectWriteFails(Task)
  BY <1>4 DEF DisconnectWriteFails
<1> QED BY <1>1, <1>2, <1>3, <1>4

\* The loop of transport_task starts a disconnection only of a session that is up.
LEMMA InvTask ==
  ASSUME TypeOK, TypeOK', IInv, MayRun(Task),
         TaskStarts \/ TaskTakesNetwork \/ TaskTakesData \/ TaskReadsNetwork
           \/ DisconnectedRun \/ ConnectedRun
  PROVE  IInv'
<1> USE DEF IInv, Booting, Connecting, SessionKnown, StateExplained, Disconnecting,
  RefusedAlone, Served, Active, Refusing, Leaving, FailurePending, ConnectPending,
  TypeOK, Lifecycle!States, Sessions, NetworkStatuses, Channels,
  PollLabels, PollReturns, TaskLabels, TaskReturns, QueueLabels,
  QueueReturns, CallbackLabels, WriteLabels,
  Threads, Poll, Task, Queue, At, Goto, Call, Return, Disconnected, MutexFree,
  IfConnected, Online, clientVars, control, transportVars, busVars, MayRun, Ready
<1>1. CASE TaskStarts
  BY <1>1 DEF TaskStarts, LibInit
<1>2. CASE TaskTakesNetwork
  BY <1>2 DEF TaskTakesNetwork
<1>3. CASE TaskTakesData
  BY <1>3 DEF TaskTakesData
<1>4. CASE TaskReadsNetwork
  BY <1>4 DEF TaskReadsNetwork
<1>5. CASE DisconnectedRun
  BY <1>5 DEF DisconnectedRun, Reschedule, Cancel
<1>6. CASE ConnectedRun
  BY <1>6 DEF ConnectedRun, DisconnectBegins
<1> QED BY <1>1, <1>2, <1>3, <1>4, <1>5, <1>6

\* A connection attempt takes the library through its states one by one.
LEMMA InvQueueClient ==
  ASSUME TypeOK, TypeOK', IInv, UNCHANGED <<transportVars, busVars>>,
         Resolved(Queue) \/ TransportConnects(Queue) \/ ConnectRequested(Queue)
           \/ SemGive(Queue, "work_done") \/ ConnectFailed(Queue, "retry", "work_done")
           \/ ResolveFails(Queue) \/ TransportConnectFails(Queue)
           \/ ConnectWriteFails(Queue)
  PROVE  IInv'
<1> USE DEF IInv, Booting, Connecting, SessionKnown, StateExplained, Disconnecting,
  RefusedAlone, Served, Active, Refusing, Leaving, FailurePending, ConnectPending,
  TypeOK, Lifecycle!States, Sessions, NetworkStatuses, Channels,
  PollLabels, PollReturns, TaskLabels, TaskReturns, QueueLabels,
  QueueReturns, CallbackLabels, WriteLabels,
  Threads, Poll, Task, Queue, At, Goto, Call, Return, Disconnected, MutexFree,
  IfConnected, Online, clientVars, control, transportVars, busVars
<1>1. CASE Resolved(Queue)
  BY <1>1 DEF Resolved
<1>2. CASE TransportConnects(Queue)
  BY <1>2 DEF TransportConnects
<1>3. CASE ConnectRequested(Queue)
  BY <1>3 DEF ConnectRequested
<1>4. CASE SemGive(Queue, "work_done")
  BY <1>4 DEF SemGive
<1>5. CASE ConnectFailed(Queue, "retry", "work_done")
  BY <1>5 DEF ConnectFailed
<1>6. CASE ResolveFails(Queue)
  BY <1>6 DEF ResolveFails
<1>7. CASE TransportConnectFails(Queue)
  BY <1>7 DEF TransportConnectFails
<1>8. CASE ConnectWriteFails(Queue)
  BY <1>8 DEF ConnectWriteFails
<1> QED BY <1>1, <1>2, <1>3, <1>4, <1>5, <1>6, <1>7, <1>8

\* An attempt begins only in DISCONNECTED, with the old session closed.
LEMMA InvWork ==
  ASSUME TypeOK, TypeOK', IInv, UNCHANGED busVars,
         WorkBegins \/ WorkConnects \/ WorkRetry \/ WorkDone
  PROVE  IInv'
<1> USE DEF IInv, Booting, Connecting, SessionKnown, StateExplained, Disconnecting,
  RefusedAlone, Served, Active, Refusing, Leaving, FailurePending, ConnectPending,
  TypeOK, Lifecycle!States, Sessions, NetworkStatuses, Channels,
  PollLabels, PollReturns, TaskLabels, TaskReturns, QueueLabels,
  QueueReturns, CallbackLabels, WriteLabels,
  Threads, Poll, Task, Queue, At, Goto, Call, Return, Disconnected, MutexFree,
  IfConnected, Online, clientVars, control, transportVars, busVars
<1>1. CASE WorkBegins
  BY <1>1 DEF WorkBegins
<1>2. CASE WorkConnects
  BY <1>2 DEF WorkConnects, ConnectBegins
<1>3. CASE WorkRetry
  BY <1>3 DEF WorkRetry
<1>4. CASE WorkDone
  BY <1>4 DEF WorkDone
<1> QED BY <1>1, <1>2, <1>3, <1>4

\* The shared callbacks in mqtt_client_thread.
LEMMA InvCallbackPoll ==
  ASSUME TypeOK, TypeOK', IInv, MayRun(Poll), UNCHANGED busVars,
         RetryConnectToBroker(Poll) \/ OnMqttDisconnect(Poll) \/ DisconnectedEntry(Poll)
           \/ Write(Poll) \/ WriteError(Poll)
  PROVE  IInv'
<1> USE DEF IInv, Booting, Connecting, SessionKnown, StateExplained, Disconnecting,
  RefusedAlone, Served, Active, Refusing, Leaving, FailurePending, ConnectPending,
  TypeOK, Lifecycle!States, Sessions, NetworkStatuses, Channels,
  PollLabels, PollReturns, TaskLabels, TaskReturns, QueueLabels,
  QueueReturns, CallbackLabels, WriteLabels,
  Threads, Poll, Task, Queue, At, Goto, Call, Return, Disconnected, MutexFree,
  IfConnected, Online, clientVars, control, transportVars, busVars, MayRun, Ready
<1>1. CASE RetryConnectToBroker(Poll)
  BY <1>1 DEF RetryConnectToBroker, Reschedule
<1>2. CASE OnMqttDisconnect(Poll)
  BY <1>2 DEF OnMqttDisconnect, SetDisconnected
<1>3. CASE DisconnectedEntry(Poll)
  BY <1>3 DEF DisconnectedEntry
<1>4. CASE Write(Poll)
  BY <1>4 DEF Write, WriteReturns, AfterSent, AfterFailure
<1>5. CASE WriteError(Poll)
  BY <1>5 DEF WriteError, WriteFails, AfterSent, AfterFailure
<1> QED BY <1>1, <1>2, <1>3, <1>4, <1>5

\* The shared callbacks in transport_task.
LEMMA InvCallbackTask ==
  ASSUME TypeOK, TypeOK', IInv, MayRun(Task), UNCHANGED busVars,
         RetryConnectToBroker(Task) \/ OnMqttDisconnect(Task) \/ DisconnectedEntry(Task)
           \/ Write(Task) \/ WriteError(Task)
  PROVE  IInv'
<1> USE DEF IInv, Booting, Connecting, SessionKnown, StateExplained, Disconnecting,
  RefusedAlone, Served, Active, Refusing, Leaving, FailurePending, ConnectPending,
  TypeOK, Lifecycle!States, Sessions, NetworkStatuses, Channels,
  PollLabels, PollReturns, TaskLabels, TaskReturns, QueueLabels,
  QueueReturns, CallbackLabels, WriteLabels,
  Threads, Poll, Task, Queue, At, Goto, Call, Return, Disconnected, MutexFree,
  IfConnected, Online, clientVars, control, transportVars, busVars, MayRun, Ready
<1>1. CASE RetryConnectToBroker(Task)
  BY <1>1 DEF RetryConnectToBroker, Reschedule
<1>2. CASE OnMqttDisconnect(Task)
  BY <1>2 DEF OnMqttDisconnect, SetDisconnected
<1>3. CASE DisconnectedEntry(Task)
  BY <1>3 DEF DisconnectedEntry
<1>4. CASE Write(Task)
  BY <1>4 DEF Write, WriteReturns, AfterSent, AfterFailure
<1>5. CASE WriteError(Task)
  BY <1>5 DEF WriteError, WriteFails, AfterSent, AfterFailure
<1> QED BY <1>1, <1>2, <1>3, <1>4, <1>5

\* The shared callbacks in transport_queue.
LEMMA InvCallbackQueue ==
  ASSUME TypeOK, TypeOK', IInv, UNCHANGED busVars,
         RetryConnectToBroker(Queue) \/ OnMqttDisconnect(Queue) \/ DisconnectedEntry(Queue)
  PROVE  IInv'
<1> USE DEF IInv, Booting, Connecting, SessionKnown, StateExplained, Disconnecting,
  RefusedAlone, Served, Active, Refusing, Leaving, FailurePending, ConnectPending,
  TypeOK, Lifecycle!States, Sessions, NetworkStatuses, Channels,
  PollLabels, PollReturns, TaskLabels, TaskReturns, QueueLabels,
  QueueReturns, CallbackLabels, WriteLabels,
  Threads, Poll, Task, Queue, At, Goto, Call, Return, Disconnected, MutexFree,
  IfConnected, Online, clientVars, control, transportVars, busVars
<1>1. CASE RetryConnectToBroker(Queue)
  BY <1>1 DEF RetryConnectToBroker, Reschedule
<1>2. CASE OnMqttDisconnect(Queue)
  BY <1>2 DEF OnMqttDisconnect, SetDisconnected
<1>3. CASE DisconnectedEntry(Queue)
  BY <1>3 DEF DisconnectedEntry
<1> QED BY <1>1, <1>2, <1>3

\* The timer submits the work item only when every thread waits.
LEMMA InvEnvironment ==
  ASSUME TypeOK, TypeOK', IInv, "timer" \in SlowSources,
         TimerExpires \/ GnssData \/ NetworkEvent
  PROVE  IInv'
<1> USE DEF IInv, Booting, Connecting, SessionKnown, StateExplained, Disconnecting,
  RefusedAlone, Served, Active, Refusing, Leaving, FailurePending, ConnectPending,
  TypeOK, Lifecycle!States, Sessions, NetworkStatuses, Channels,
  PollLabels, PollReturns, TaskLabels, TaskReturns, QueueLabels,
  QueueReturns, CallbackLabels, WriteLabels,
  Threads, Poll, Task, Queue, At, Goto, Call, Return, Disconnected, MutexFree,
  IfConnected, Online, clientVars, control, transportVars, busVars
<1>1. CASE TimerExpires
  <2>1. ~Ready(Poll) /\ ~Ready(Task) /\ ~Ready(Queue)
    BY <1>1 DEF TimerExpires, MayCome
  <2> QED
    BY <1>1, <2>1, QueueWaits, TaskWaits, PollWaits DEF TimerExpires, Submitted
<1>2. CASE GnssData
  BY <1>2 DEF GnssData
<1>3. CASE NetworkEvent
  BY <1>3 DEF NetworkEvent
<1> QED BY <1>1, <1>2, <1>3

\* Fatal errors: a reboot, or a work item that just ends, or a lost notification.
LEMMA InvFatal ==
  ASSUME TypeOK, TypeOK', IInv, ClientIdFails \/ NetworkFatalError
  PROVE  IInv'
<1>1. CASE Reboot
  BY <1>1, InvReboot
<1>2. CASE ClientIdFails /\ ~Reboot
  <2>1. /\ At(Queue, "client_id") /\ Goto(Queue, "work_done") /\ dropped' = TRUE
        /\ UNCHANGED <<clientVars, busVars, smf_state, network_connection_status,
                       transport_mqtt_connected, failures, work, charged>>
    BY <1>2, Zenon DEF ClientIdFails
  <2> QED
    BY <2>1 DEF IInv, Booting, Connecting, SessionKnown, StateExplained, Disconnecting,
      RefusedAlone, Served, Active, Refusing, Leaving, FailurePending, ConnectPending,
      TypeOK, Lifecycle!States, Sessions, NetworkStatuses, Channels,
      PollLabels, PollReturns, TaskLabels, TaskReturns, QueueLabels,
      QueueReturns, CallbackLabels, WriteLabels,
      Threads, Poll, Task, Queue, At, Goto, Call, Return, Disconnected, MutexFree,
      IfConnected, Online, clientVars, control, transportVars, busVars
<1>3. CASE NetworkEventOverflows /\ ~Reboot
  <2>1. UNCHANGED <<clientVars, control, transportVars>>
    BY <1>3, Zenon DEF NetworkEventOverflows
  <2> QED
    BY <2>1 DEF IInv, Booting, Connecting, SessionKnown, StateExplained, Disconnecting,
      RefusedAlone, Served, Active, Refusing, Leaving, FailurePending, ConnectPending,
    clientVars, control, transportVars
<1> QED
  BY <1>1, <1>2, <1>3 DEF NetworkFatalError

\* Every step keeps IInv, provided that the timer is slow.
LEMMA InvStep ==
  ASSUME "timer" \in SlowSources
  PROVE  TypeOK /\ IInv /\ [Next]_vars => IInv'
<1> SUFFICES ASSUME TypeOK, IInv, [Next]_vars PROVE IInv'
  OBVIOUS
<1>0. TypeOK'
  BY TypeStep
<1>1. CASE MayRun(Poll) /\ (PollStep \/ PollFault) /\ UNCHANGED busVars
  BY <1>0, <1>1, InvPoll, InvPollCallback, InvCallbackPoll
  DEF PollStep, PollClient, PollCallback, Callback, PollFault, transportVars, busVars
<1>2. CASE MayRun(Task) /\ (TaskStep \/ TaskFault)
  BY <1>0, <1>2, InvTask, InvTaskDisconnect, InvCallbackTask
  DEF TaskStep, TaskDisconnect, Callback, TaskFault, transportVars, busVars
<1>3. CASE (QueueStep \/ QueueFault) /\ UNCHANGED busVars
  BY <1>0, <1>3, InvQueueClient, InvWork, InvCallbackQueue
  DEF QueueStep, QueueClient, Callback, QueueFault, transportVars, busVars
<1>4. CASE TimerExpires \/ GnssData \/ NetworkEvent
  BY <1>0, <1>4, InvEnvironment
<1>5. CASE ClientIdFails \/ NetworkFatalError
  BY <1>0, <1>5, InvFatal
<1>6. CASE UNCHANGED vars
  BY <1>6 DEF IInv, Booting, Connecting, SessionKnown, StateExplained, Disconnecting,
    RefusedAlone, Served, Active, Refusing, Leaving, FailurePending, ConnectPending,
  vars, clientVars, control, transportVars
<1> QED
  BY <1>1, <1>2, <1>3, <1>4, <1>5, <1>6 DEF Next, Step, Fault

\* IInv holds in every state the device reaches with a slow timer.
THEOREM Invariance ==
  ASSUME "timer" \in SlowSources
  PROVE  Spec => [](TypeOK /\ IInv)
BY TypeInit, TypeStep, InvInit, InvStep, PTL DEF Spec
-----------------------------------------------------------------------------
(* What IInv gives.                                                        *)

\* No attempt that passes the state check of mqtt_client_connect() finds an
\* open socket, which mqtt_client_init() would forget.
THEOREM NoSessionIsLeaked ==
  ASSUME "timer" \in SlowSources
  PROVE  Spec => []NoSessionLeak
<1>1. TypeOK /\ IInv => NoSessionLeak
  BY DEF TypeOK, IInv, NoSessionLeak, SessionKnown, RefusedAlone, Active, Sessions, At
<1> QED
  BY <1>1, Invariance, PTL

\* Whenever the poll thread waits while a connection is asked for or made, the
\* semaphore that wakes it is given or about to be.
THEOREM EverySessionIsServed ==
  ASSUME "timer" \in SlowSources
  PROVE  Spec => []SessionIsServed
<1>1. IInv => SessionIsServed
  BY DEF IInv, SessionIsServed, Served, Leaving, At
<1> QED
  BY <1>1, Invariance, PTL

\* When every thread waits, the library's state is the state of the session.
THEOREM RestMatchesSession ==
  ASSUME "timer" \in SlowSources
  PROVE  Spec => []StateMatchesSession
<1>1. TypeOK /\ IInv => StateMatchesSession
  BY DEF TypeOK, IInv, StateMatchesSession, Quiescent, SessionKnown, StateExplained,
    Lifecycle!States, Sessions, Refusing, CallbackLabels, At
<1> QED
  BY <1>1, Invariance, PTL

\* mqtt_state_set() is never asked for a transition that its assertion rejects:
\* every step of the device is a move of MqttLifecycle, a reboot, or leaves the
\* library's state as it is.
THEOREM TransitionsAreLegal ==
  ASSUME "timer" \in SlowSources
  PROVE  Spec => LegalTransitions
<1> USE DEF Lifecycle!Next, Lifecycle!Move, Lifecycle!Reboot, Lifecycle!LegalMoves
<1>1. Init => Lifecycle!Init
  BY DEF Init, Lifecycle!Init
<1>2. ASSUME TypeOK, IInv, [Next]_vars
      PROVE  [Lifecycle!Next]_mqtt_state
  <2> USE <1>2 DEF TypeOK, IInv, Connecting, SessionKnown, StateExplained, Disconnecting,
    Booting, RefusedAlone, Active, Refusing, FailurePending, ConnectPending,
    Lifecycle!States, Sessions, CallbackLabels, At, Disconnected, clientVars
  <2>1. CASE MayRun(Poll) /\ (PollStep \/ PollFault)
    <3>1. CASE PollClient \/ PollError \/ ConnectionLost \/ ConnackRefused
      <4>1. pc[Queue] # "transport_connected"
        BY <2>1, QueueWaits DEF MayRun, Threads
      <4> QED
        BY <3>1, <4>1 DEF PollClient, SemTake, PollCheck, KeptAlive, PollLeaves,
          ConnackAccepted, RefusedClose, PublishReceived, InputDone, PollExit, PollError,
          ConnectionLost, ConnackRefused
    <3>2. CASE PollCallback \/ WriteError(Poll)
      BY <3>2 DEF PollCallback, Callback, OnMqttConnack, SetFlag, SetConnected, ConnectedEntry,
        OnMqttConnackRefused, RefusedCheck, OnMqttPublish, RetryConnectToBroker, OnMqttDisconnect,
        DisconnectedEntry, Write, WriteReturns, WriteError, WriteFails
    <3> QED
      BY <2>1, <3>1, <3>2 DEF PollStep, PollFault
  <2>2. CASE MayRun(Task) /\ (TaskStep \/ TaskFault)
    <3>1. CASE TaskDisconnect \/ DisconnectWriteFails(Task)
      BY <3>1 DEF TaskDisconnect, DisconnectSent, DisconnectRefused, DisconnectFailed,
        DisconnectWriteFails
    <3>2. CASE Write(Task) \/ Callback(Task) \/ WriteError(Task)
      BY <3>2 DEF Callback, RetryConnectToBroker, OnMqttDisconnect, DisconnectedEntry,
        Write, WriteReturns, WriteError, WriteFails
    <3>3. CASE TaskStarts \/ TaskTakesNetwork \/ TaskTakesData \/ TaskReadsNetwork
                 \/ DisconnectedRun \/ ConnectedRun
      BY <3>3 DEF TaskStarts, LibInit, TaskTakesNetwork, TaskTakesData, TaskReadsNetwork,
        DisconnectedRun, ConnectedRun, DisconnectBegins
    <3> QED
      BY <2>2, <3>1, <3>2, <3>3 DEF TaskStep, TaskFault
  <2>3. CASE QueueStep \/ QueueFault
    <3>1. CASE QueueClient \/ QueueFault
      BY <3>1 DEF QueueClient, Resolved, TransportConnects, ConnectRequested, SemGive,
        ConnectFailed, QueueFault, ResolveFails, TransportConnectFails, ConnectWriteFails
    <3>2. CASE WorkBegins \/ WorkConnects \/ WorkRetry \/ WorkDone \/ Callback(Queue)
      BY <3>2 DEF WorkBegins, WorkConnects, ConnectBegins, WorkRetry, WorkDone, Callback,
        RetryConnectToBroker, OnMqttDisconnect, DisconnectedEntry
    <3> QED
      BY <2>3, <3>1, <3>2 DEF QueueStep, QueueFault
  <2>4. CASE TimerExpires \/ GnssData \/ NetworkEvent
    BY <2>4 DEF TimerExpires, GnssData, NetworkEvent
  <2>5. CASE ClientIdFails \/ NetworkFatalError
    <3>1. Reboot \/ UNCHANGED mqtt_state
      BY <2>5, Zenon DEF ClientIdFails, NetworkEventOverflows, NetworkFatalError
    <3> QED
      BY <3>1 DEF Reboot
  <2> QED
    BY <2>1, <2>2, <2>3, <2>4, <2>5 DEF Next, Step, Fault, vars
<1> QED
  BY <1>1, <1>2, Invariance, PTL DEF Spec, LegalTransitions, Lifecycle!Spec
-----------------------------------------------------------------------------
(* What transport_task knows of the network.                               *)

\* KnowsNetwork at every place of transport_task but the one between
\* zbus_sub_wait() and zbus_chan_read().
NetworkTracked ==
  ~At(Task, "chan_read") /\ (\A i \in DOMAIN subscription : subscription[i] # "NETWORK_CHAN")
  => network_connection_status = NETWORK_CHAN

\* Every step keeps it, when a lost notification reboots the device.
LEMMA TrackedStep ==
  ASSUME RebootOnFatal
  PROVE  TypeOK /\ NetworkTracked /\ [Next]_vars => NetworkTracked'
<1> SUFFICES ASSUME TypeOK, NetworkTracked, [Next]_vars PROVE NetworkTracked'
  OBVIOUS
<1> USE DEF TypeOK, NetworkTracked, Threads, Poll, Task, Queue, At, Goto, Call, Return,
  Disconnected, transportVars, busVars, control, clientVars
<1>1. CASE (PollStep \/ PollFault) /\ UNCHANGED busVars
  <2>1. UNCHANGED network_connection_status
    BY <1>1 DEF PollStep, PollCallback, Callback, OnMqttConnack, SetFlag, SetConnected,
      ConnectedEntry, OnMqttConnackRefused, RefusedCheck, OnMqttPublish, Write, RetryConnectToBroker,
      OnMqttDisconnect, DisconnectedEntry, PollFault, WriteError
  <2>2. pc'[Task] = pc[Task]
    <3>1. CASE PollClient \/ PollError \/ ConnectionLost \/ ConnackRefused
      BY <3>1 DEF PollClient, SemTake, PollCheck, KeptAlive, PollLeaves, ConnackAccepted,
        RefusedClose, PublishReceived, InputDone, PollExit, PollError, ConnectionLost,
        ConnackRefused
    <3>2. CASE PollCallback \/ WriteError(Poll)
      BY <3>2 DEF PollCallback, Callback, OnMqttConnack, SetFlag, SetConnected, ConnectedEntry,
        OnMqttConnackRefused, SetDisconnected, RefusedCheck, OnMqttPublish, RetryConnectToBroker,
        OnMqttDisconnect, DisconnectedEntry, Write, WriteReturns, WriteError, WriteFails
    <3> QED
      BY <1>1, <3>1, <3>2 DEF PollStep, PollFault
  <2> QED
    BY <1>1, <2>1, <2>2
<1>2. CASE (QueueStep \/ QueueFault) /\ UNCHANGED busVars
  <2>1. UNCHANGED network_connection_status
    BY <1>2 DEF QueueStep, WorkBegins, WorkConnects, WorkRetry, WorkDone, Callback,
      RetryConnectToBroker, OnMqttDisconnect, DisconnectedEntry, QueueFault
  <2>2. pc'[Task] = pc[Task]
    <3>1. CASE QueueClient \/ QueueFault
      BY <3>1 DEF QueueClient, Resolved, TransportConnects, ConnectRequested, SemGive,
        ConnectFailed, QueueFault, ResolveFails, TransportConnectFails, ConnectWriteFails
    <3>2. CASE WorkBegins \/ WorkConnects \/ WorkRetry \/ WorkDone \/ Callback(Queue)
      BY <3>2 DEF WorkBegins, WorkConnects, ConnectBegins, WorkRetry, WorkDone, Callback,
        RetryConnectToBroker, OnMqttDisconnect, SetDisconnected, DisconnectedEntry
    <3> QED
      BY <1>2, <3>1, <3>2 DEF QueueStep
  <2> QED
    BY <1>2, <2>1, <2>2
<1>3. CASE (TaskDisconnect \/ DisconnectWriteFails(Task)) /\ UNCHANGED <<transportVars, busVars>>
  BY <1>3 DEF TaskDisconnect, DisconnectSent, DisconnectRefused, DisconnectFailed,
    DisconnectWriteFails
<1>4. CASE (Write(Task) \/ Callback(Task) \/ WriteError(Task)) /\ UNCHANGED busVars
  <2>1. UNCHANGED network_connection_status
    BY <1>4 DEF Write, WriteError, Callback, RetryConnectToBroker, OnMqttDisconnect,
      DisconnectedEntry
  <2>2. ~At(Task, "chan_read")
    BY <1>4 DEF Write, WriteError, Callback, RetryConnectToBroker, OnMqttDisconnect,
      DisconnectedEntry, WriteLabels
  <2> QED
    BY <1>4, <2>1, <2>2
<1>5. CASE TaskStarts \/ ConnectedRun \/ DisconnectedRun
  BY <1>5 DEF TaskStarts, LibInit, ConnectedRun, DisconnectBegins, DisconnectedRun
<1>6. CASE TaskTakesNetwork
  BY <1>6 DEF TaskTakesNetwork
<1>7. CASE TaskTakesData
  <2>1. /\ subscription # <<>> /\ Head(subscription) # "NETWORK_CHAN"
        /\ subscription' = Tail(subscription)
        /\ UNCHANGED <<network_connection_status, NETWORK_CHAN>> /\ ~At(Task, "chan_read")
    BY <1>7 DEF TaskTakesData
  <2>2. ASSUME NEW i \in DOMAIN subscription, subscription[i] = "NETWORK_CHAN"
        PROVE  \E j \in DOMAIN subscription' : subscription'[j] = "NETWORK_CHAN"
    <3>1. i # 1 /\ i \in 1..Len(subscription)
      BY <2>1, <2>2
    <3>2. i - 1 \in DOMAIN Tail(subscription) /\ Tail(subscription)[i - 1] = subscription[i]
      BY <2>1, <3>1
    <3> QED
      BY <2>1, <2>2, <3>2
  <2> QED
    BY <2>1, <2>2
<1>8. CASE TaskReadsNetwork
  BY <1>8 DEF TaskReadsNetwork
<1>9. CASE NetworkEvent
  <2>1. subscription' = Append(subscription, "NETWORK_CHAN")
    BY <1>9 DEF NetworkEvent
  <2>2. /\ Len(subscription) + 1 \in DOMAIN subscription'
        /\ subscription'[Len(subscription) + 1] = "NETWORK_CHAN"
    BY <2>1
  <2> QED
    BY <2>2
<1>10. CASE GnssData
  <2>1. /\ subscription' = Append(subscription, "GPS_DATA_CHAN")
        /\ UNCHANGED <<control, transportVars, NETWORK_CHAN>>
    BY <1>10 DEF GnssData
  <2>2. \A i \in DOMAIN subscription :
           i \in DOMAIN subscription' /\ subscription'[i] = subscription[i]
    BY <2>1
  <2> QED
    BY <2>1, <2>2
<1>11. CASE TimerExpires
  BY <1>11 DEF TimerExpires
<1>12. CASE ClientIdFails \/ NetworkFatalError
  BY <1>12 DEF ClientIdFails, NetworkEventOverflows, NetworkFatalError, Reboot
<1>13. CASE UNCHANGED vars
  BY <1>13 DEF vars
<1> QED
  BY <1>1, <1>2, <1>3, <1>4, <1>5, <1>6, <1>7, <1>8, <1>9, <1>10, <1>11, <1>12, <1>13
  DEF Next, Step, Fault, TaskStep, TaskFault

\* Once its queue holds no status, transport_task has the status that the
\* channel has, however notifications, readings and GNSS data interleave.
THEOREM NetworkIsKnown ==
  ASSUME RebootOnFatal
  PROVE  Spec => []KnowsNetwork
<1>1. Init => NetworkTracked
  BY DEF Init, NetworkTracked
<1>2. NetworkTracked => KnowsNetwork
  BY DEF NetworkTracked, KnowsNetwork, At
<1> QED
  BY <1>1, <1>2, TypeInit, TypeStep, TrackedStep, PTL DEF Spec
-----------------------------------------------------------------------------
(* The callbacks: one thread at a time plans a retry, and the flag and the *)
(* state follow the session.                                               *)

\* A callback runs after the session is gone and while no work item runs; the
\* poll thread gets to the retry only when transport_task is not in a callback
\* and has no disconnection left whose failure would take it into one.
CallbackAlone ==
  /\ pc[Poll] \in CallbackLabels \/ pc[Task] \in CallbackLabels => ~Active /\ session # "up"
  /\ Refusing => session # "up"
  /\ pc[Queue] \in {"on_disconnect", "disconnected_entry"} => ret[Queue] = "connect_failed"
  /\ pc[Poll] = "retry" =>
       pc[Task] \notin CallbackLabels \cup {"disconnect_failed", "mqtt_disconnect"}

\* In MQTT_DISCONNECTED the flag is set, or a session up, only while the poll
\* thread is on its way from the CONNACK to MQTT_CONNECTED.
Flagged ==
  smf_state = "MQTT_DISCONNECTED" =>
    /\ transport_mqtt_connected = 1 =>
         \/ pc[Poll] \in {"lwt_online", "set_connected"}
         \/ pc[Poll] = "on_disconnect" /\ ret[Poll] = "set_connected"
    /\ session = "up" =>
         pc[Poll] \in {"on_connack", "connack_flag", "lwt_online", "set_connected"}

CallbackInv == CallbackAlone /\ Flagged

\* The program starts in CallbackInv.
LEMMA CallbackInit == Init => CallbackInv
<1> SUFFICES ASSUME Init PROVE CallbackInv
  OBVIOUS
<1>1. pc[Poll] = "sem_take" /\ pc[Task] = "start" /\ pc[Queue] = "idle"
  BY DEF Init, FirstLabel, LoopHead, Threads, Poll, Task, Queue
<1> QED
  BY <1>1 DEF Init, CallbackInv, CallbackAlone, Flagged, Refusing, CallbackLabels

\* So a reboot ends in it.
LEMMA CallbackReboot == Reboot => CallbackInv'
BY CallbackInit, RebootInit, PTL

\* The poll loop reports a loss once the session is closed, and only while no work
\* item runs.
LEMMA AlonePoll ==
  ASSUME TypeOK, TypeOK', IInv, IInv', CallbackInv,
         MayRun(Poll), UNCHANGED <<transportVars, busVars>>,
         SemTake \/ PollCheck \/ KeptAlive \/ PollLeaves \/ ConnackAccepted
           \/ RefusedClose \/ PublishReceived \/ InputDone \/ PollExit \/ PollError
           \/ ConnectionLost \/ ConnackRefused
  PROVE  CallbackInv'
<1> USE DEF CallbackInv, CallbackAlone, Flagged,
  IInv, Booting, Connecting, SessionKnown, StateExplained, Disconnecting,
  RefusedAlone, Served, Active, Refusing, Leaving, FailurePending, ConnectPending,
  TypeOK, Lifecycle!States, Sessions, NetworkStatuses, Channels,
  PollLabels, PollReturns, TaskLabels, TaskReturns, QueueLabels,
  QueueReturns, CallbackLabels, WriteLabels,
  Threads, Poll, Task, Queue, At, Goto, Call, Return, Disconnected, MutexFree,
  IfConnected, Online, clientVars, control, transportVars, busVars,
  MayRun, Ready
<1>1. CASE SemTake
  BY <1>1 DEF SemTake
<1>2. CASE PollCheck
  BY <1>2 DEF PollCheck
<1>3. CASE KeptAlive
  BY <1>3 DEF KeptAlive
<1>4. CASE PollLeaves
  BY <1>4 DEF PollLeaves
<1>5. CASE ConnackAccepted
  BY <1>5 DEF ConnackAccepted
<1>6. CASE RefusedClose
  BY <1>6 DEF RefusedClose
<1>7. CASE PublishReceived
  BY <1>7 DEF PublishReceived
<1>8. CASE InputDone
  BY <1>8 DEF InputDone
<1>9. CASE PollExit
  BY <1>9 DEF PollExit
<1>10. CASE PollError
  BY <1>10 DEF PollError
<1>11. CASE ConnectionLost
  BY <1>11 DEF ConnectionLost
<1>12. CASE ConnackRefused
  BY <1>12 DEF ConnackRefused
<1> QED BY <1>1, <1>2, <1>3, <1>4, <1>5, <1>6, <1>7, <1>8, <1>9, <1>10, <1>11, <1>12

\* The flag and then the state follow the CONNACK, in the poll thread.
LEMMA AlonePollCallback ==
  ASSUME TypeOK, TypeOK', IInv, IInv', CallbackInv,
         MayRun(Poll), UNCHANGED busVars,
         OnMqttConnack \/ SetFlag \/ SetConnected \/ ConnectedEntry
           \/ OnMqttConnackRefused \/ RefusedCheck \/ OnMqttPublish
  PROVE  CallbackInv'
<1> USE DEF CallbackInv, CallbackAlone, Flagged,
  IInv, Booting, Connecting, SessionKnown, StateExplained, Disconnecting,
  RefusedAlone, Served, Active, Refusing, Leaving, FailurePending, ConnectPending,
  TypeOK, Lifecycle!States, Sessions, NetworkStatuses, Channels,
  PollLabels, PollReturns, TaskLabels, TaskReturns, QueueLabels,
  QueueReturns, CallbackLabels, WriteLabels,
  Threads, Poll, Task, Queue, At, Goto, Call, Return, Disconnected, MutexFree,
  IfConnected, Online, clientVars, control, transportVars, busVars,
  MayRun, Ready
<1>1. CASE OnMqttConnack
  BY <1>1 DEF OnMqttConnack
<1>2. CASE SetFlag
  BY <1>2 DEF SetFlag
<1>3. CASE SetConnected
  BY <1>3 DEF SetConnected
<1>4. CASE ConnectedEntry
  BY <1>4 DEF ConnectedEntry, Cancel
<1>5. CASE OnMqttConnackRefused
  BY <1>5 DEF OnMqttConnackRefused, SetDisconnected
<1>6. CASE RefusedCheck
  BY <1>6 DEF RefusedCheck
<1>7. CASE OnMqttPublish
  BY <1>7 DEF OnMqttPublish
<1> QED BY <1>1, <1>2, <1>3, <1>4, <1>5, <1>6, <1>7

\* A disconnection calls back once the session is closed.
LEMMA AloneTaskDisconnect ==
  ASSUME TypeOK, TypeOK', IInv, IInv', CallbackInv,
         MayRun(Task), UNCHANGED <<transportVars, busVars>>,
         DisconnectSent(Task, "sub_wait") \/ DisconnectRefused(Task)
           \/ DisconnectFailed(Task, "sub_wait") \/ DisconnectWriteFails(Task)
  PROVE  CallbackInv'
<1> USE DEF CallbackInv, CallbackAlone, Flagged,
  IInv, Booting, Connecting, SessionKnown, StateExplained, Disconnecting,
  RefusedAlone, Served, Active, Refusing, Leaving, FailurePending, ConnectPending,
  TypeOK, Lifecycle!States, Sessions, NetworkStatuses, Channels,
  PollLabels, PollReturns, TaskLabels, TaskReturns, QueueLabels,
  QueueReturns, CallbackLabels, WriteLabels,
  Threads, Poll, Task, Queue, At, Goto, Call, Return, Disconnected, MutexFree,
  IfConnected, Online, clientVars, control, transportVars, busVars,
  MayRun, Ready
<1>1. CASE DisconnectSent(Task, "sub_wait")
  BY <1>1 DEF DisconnectSent
<1>2. CASE DisconnectRefused(Task)
  BY <1>2 DEF DisconnectRefused
<1>3. CASE DisconnectFailed(Task, "sub_wait")
  BY <1>3 DEF DisconnectFailed
<1>4. CASE DisconnectWriteFails(Task)
  BY <1>4 DEF DisconnectWriteFails
<1> QED BY <1>1, <1>2, <1>3, <1>4

\* transport_task begins no disconnection while the poll thread plans a retry: there
\* is no session left.
LEMMA AloneTask ==
  ASSUME TypeOK, TypeOK', IInv, IInv', CallbackInv,
         MayRun(Task),
         TaskStarts \/ TaskTakesNetwork \/ TaskTakesData \/ TaskReadsNetwork
           \/ DisconnectedRun \/ ConnectedRun
  PROVE  CallbackInv'
<1> USE DEF CallbackInv, CallbackAlone, Flagged,
  IInv, Booting, Connecting, SessionKnown, StateExplained, Disconnecting,
  RefusedAlone, Served, Active, Refusing, Leaving, FailurePending, ConnectPending,
  TypeOK, Lifecycle!States, Sessions, NetworkStatuses, Channels,
  PollLabels, PollReturns, TaskLabels, TaskReturns, QueueLabels,
  QueueReturns, CallbackLabels, WriteLabels,
  Threads, Poll, Task, Queue, At, Goto, Call, Return, Disconnected, MutexFree,
  IfConnected, Online, clientVars, control, transportVars, busVars,
  MayRun, Ready
<1>1. CASE TaskStarts
  BY <1>1 DEF TaskStarts, LibInit
<1>2. CASE TaskTakesNetwork
  BY <1>2 DEF TaskTakesNetwork
<1>3. CASE TaskTakesData
  BY <1>3 DEF TaskTakesData
<1>4. CASE TaskReadsNetwork
  BY <1>4 DEF TaskReadsNetwork
<1>5. CASE DisconnectedRun
  BY <1>5 DEF DisconnectedRun, Reschedule, Cancel
<1>6. CASE ConnectedRun
  BY <1>6 DEF ConnectedRun, DisconnectBegins
<1> QED BY <1>1, <1>2, <1>3, <1>4, <1>5, <1>6

\* An attempt that fails calls back with the session closed.
LEMMA AloneQueueClient ==
  ASSUME TypeOK, TypeOK', IInv, IInv', CallbackInv,
         UNCHANGED <<transportVars, busVars>>,
         Resolved(Queue) \/ TransportConnects(Queue) \/ ConnectRequested(Queue)
           \/ SemGive(Queue, "work_done")
           \/ ConnectFailed(Queue, "retry", "work_done") \/ ResolveFails(Queue)
           \/ TransportConnectFails(Queue) \/ ConnectWriteFails(Queue)
  PROVE  CallbackInv'
<1> USE DEF CallbackInv, CallbackAlone, Flagged,
  IInv, Booting, Connecting, SessionKnown, StateExplained, Disconnecting,
  RefusedAlone, Served, Active, Refusing, Leaving, FailurePending, ConnectPending,
  TypeOK, Lifecycle!States, Sessions, NetworkStatuses, Channels,
  PollLabels, PollReturns, TaskLabels, TaskReturns, QueueLabels,
  QueueReturns, CallbackLabels, WriteLabels,
  Threads, Poll, Task, Queue, At, Goto, Call, Return, Disconnected, MutexFree,
  IfConnected, Online, clientVars, control, transportVars, busVars
<1>1. CASE Resolved(Queue)
  BY <1>1 DEF Resolved
<1>2. CASE TransportConnects(Queue)
  BY <1>2 DEF TransportConnects
<1>3. CASE ConnectRequested(Queue)
  BY <1>3 DEF ConnectRequested
<1>4. CASE SemGive(Queue, "work_done")
  BY <1>4 DEF SemGive
<1>5. CASE ConnectFailed(Queue, "retry", "work_done")
  BY <1>5 DEF ConnectFailed
<1>6. CASE ResolveFails(Queue)
  BY <1>6 DEF ResolveFails
<1>7. CASE TransportConnectFails(Queue)
  BY <1>7 DEF TransportConnectFails
<1>8. CASE ConnectWriteFails(Queue)
  BY <1>8 DEF ConnectWriteFails
<1> QED BY <1>1, <1>2, <1>3, <1>4, <1>5, <1>6, <1>7, <1>8

\* A work item begins while no other thread is in a callback.
LEMMA AloneWork ==
  ASSUME TypeOK, TypeOK', IInv, IInv', CallbackInv,
         UNCHANGED busVars,
         WorkBegins \/ WorkConnects \/ WorkRetry \/ WorkDone
  PROVE  CallbackInv'
<1> USE DEF CallbackInv, CallbackAlone, Flagged,
  IInv, Booting, Connecting, SessionKnown, StateExplained, Disconnecting,
  RefusedAlone, Served, Active, Refusing, Leaving, FailurePending, ConnectPending,
  TypeOK, Lifecycle!States, Sessions, NetworkStatuses, Channels,
  PollLabels, PollReturns, TaskLabels, TaskReturns, QueueLabels,
  QueueReturns, CallbackLabels, WriteLabels,
  Threads, Poll, Task, Queue, At, Goto, Call, Return, Disconnected, MutexFree,
  IfConnected, Online, clientVars, control, transportVars, busVars
<1>1. CASE WorkBegins
  BY <1>1 DEF WorkBegins
<1>2. CASE WorkConnects
  BY <1>2 DEF WorkConnects, ConnectBegins
<1>3. CASE WorkRetry
  BY <1>3 DEF WorkRetry
<1>4. CASE WorkDone
  BY <1>4 DEF WorkDone
<1> QED BY <1>1, <1>2, <1>3, <1>4

\* The shared callbacks in mqtt_client_thread.
LEMMA AloneCallbackPoll ==
  ASSUME TypeOK, TypeOK', IInv, IInv', CallbackInv,
         MayRun(Poll), UNCHANGED busVars,
         RetryConnectToBroker(Poll) \/ OnMqttDisconnect(Poll)
           \/ DisconnectedEntry(Poll) \/ Write(Poll) \/ WriteError(Poll)
  PROVE  CallbackInv'
<1> USE DEF CallbackInv, CallbackAlone, Flagged,
  IInv, Booting, Connecting, SessionKnown, StateExplained, Disconnecting,
  RefusedAlone, Served, Active, Refusing, Leaving, FailurePending, ConnectPending,
  TypeOK, Lifecycle!States, Sessions, NetworkStatuses, Channels,
  PollLabels, PollReturns, TaskLabels, TaskReturns, QueueLabels,
  QueueReturns, CallbackLabels, WriteLabels,
  Threads, Poll, Task, Queue, At, Goto, Call, Return, Disconnected, MutexFree,
  IfConnected, Online, clientVars, control, transportVars, busVars,
  MayRun, Ready
<1>1. CASE RetryConnectToBroker(Poll)
  BY <1>1 DEF RetryConnectToBroker, Reschedule
<1>2. CASE OnMqttDisconnect(Poll)
  BY <1>2 DEF OnMqttDisconnect, SetDisconnected
<1>3. CASE DisconnectedEntry(Poll)
  BY <1>3 DEF DisconnectedEntry
<1>4. CASE Write(Poll)
  BY <1>4 DEF Write, WriteReturns, AfterSent, AfterFailure
<1>5. CASE WriteError(Poll)
  BY <1>5 DEF WriteError, WriteFails, AfterSent, AfterFailure
<1> QED BY <1>1, <1>2, <1>3, <1>4, <1>5

\* The shared callbacks in transport_task.
LEMMA AloneCallbackTask ==
  ASSUME TypeOK, TypeOK', IInv, IInv', CallbackInv,
         MayRun(Task), UNCHANGED busVars,
         RetryConnectToBroker(Task) \/ OnMqttDisconnect(Task)
           \/ DisconnectedEntry(Task) \/ Write(Task) \/ WriteError(Task)
  PROVE  CallbackInv'
<1> USE DEF CallbackInv, CallbackAlone, Flagged,
  IInv, Booting, Connecting, SessionKnown, StateExplained, Disconnecting,
  RefusedAlone, Served, Active, Refusing, Leaving, FailurePending, ConnectPending,
  TypeOK, Lifecycle!States, Sessions, NetworkStatuses, Channels,
  PollLabels, PollReturns, TaskLabels, TaskReturns, QueueLabels,
  QueueReturns, CallbackLabels, WriteLabels,
  Threads, Poll, Task, Queue, At, Goto, Call, Return, Disconnected, MutexFree,
  IfConnected, Online, clientVars, control, transportVars, busVars,
  MayRun, Ready
<1>1. CASE RetryConnectToBroker(Task)
  BY <1>1 DEF RetryConnectToBroker, Reschedule
<1>2. CASE OnMqttDisconnect(Task)
  BY <1>2 DEF OnMqttDisconnect, SetDisconnected
<1>3. CASE DisconnectedEntry(Task)
  BY <1>3 DEF DisconnectedEntry
<1>4. CASE Write(Task)
  BY <1>4 DEF Write, WriteReturns, AfterSent, AfterFailure
<1>5. CASE WriteError(Task)
  BY <1>5 DEF WriteError, WriteFails, AfterSent, AfterFailure
<1> QED BY <1>1, <1>2, <1>3, <1>4, <1>5

\* The shared callbacks in transport_queue.
LEMMA AloneCallbackQueue ==
  ASSUME TypeOK, TypeOK', IInv, IInv', CallbackInv,
         UNCHANGED busVars,
         RetryConnectToBroker(Queue) \/ OnMqttDisconnect(Queue)
           \/ DisconnectedEntry(Queue)
  PROVE  CallbackInv'
<1> USE DEF CallbackInv, CallbackAlone, Flagged,
  IInv, Booting, Connecting, SessionKnown, StateExplained, Disconnecting,
  RefusedAlone, Served, Active, Refusing, Leaving, FailurePending, ConnectPending,
  TypeOK, Lifecycle!States, Sessions, NetworkStatuses, Channels,
  PollLabels, PollReturns, TaskLabels, TaskReturns, QueueLabels,
  QueueReturns, CallbackLabels, WriteLabels,
  Threads, Poll, Task, Queue, At, Goto, Call, Return, Disconnected, MutexFree,
  IfConnected, Online, clientVars, control, transportVars, busVars
<1>1. CASE RetryConnectToBroker(Queue)
  BY <1>1 DEF RetryConnectToBroker, Reschedule
<1>2. CASE OnMqttDisconnect(Queue)
  BY <1>2 DEF OnMqttDisconnect, SetDisconnected
<1>3. CASE DisconnectedEntry(Queue)
  BY <1>3 DEF DisconnectedEntry
<1> QED BY <1>1, <1>2, <1>3

\* The timer and the publishers: the timer waits until no callback is under way.
LEMMA CallbackEnvironment ==
  ASSUME TypeOK, TypeOK', IInv, CallbackInv, "timer" \in SlowSources,
         TimerExpires \/ GnssData \/ NetworkEvent
  PROVE  CallbackInv'
<1> USE DEF CallbackInv, CallbackAlone, Flagged, Active, Refusing, CallbackLabels,
  clientVars, control, transportVars
<1>1. CASE TimerExpires
  <2>1. ~Ready(Poll) /\ ~Ready(Task) /\ ~Ready(Queue)
    BY <1>1 DEF TimerExpires, MayCome, Threads
  <2> QED
    BY <1>1, <2>1, QueueWaits, TaskWaits, PollWaits DEF TimerExpires, WriteLabels
<1>2. CASE GnssData
  BY <1>2 DEF GnssData
<1>3. CASE NetworkEvent
  BY <1>3 DEF NetworkEvent
<1> QED BY <1>1, <1>2, <1>3

\* Fatal errors.
LEMMA CallbackFatal ==
  ASSUME TypeOK, CallbackInv, ClientIdFails \/ NetworkFatalError
  PROVE  CallbackInv'
<1>1. CASE Reboot
  BY <1>1, CallbackReboot
<1>2. CASE ClientIdFails /\ ~Reboot
  <2>1. /\ At(Queue, "client_id") /\ Goto(Queue, "work_done") /\ dropped' = TRUE
        /\ UNCHANGED <<clientVars, busVars, smf_state, network_connection_status,
                       transport_mqtt_connected, failures, work, charged>>
    BY <1>2, Zenon DEF ClientIdFails
  <2> QED
    BY <2>1 DEF CallbackInv, CallbackAlone, Flagged, Active, Refusing, CallbackLabels, TypeOK,
      Threads, Poll, Task, Queue, At, Goto, clientVars, transportVars
<1>3. CASE NetworkEventOverflows /\ ~Reboot
  <2>1. UNCHANGED <<clientVars, control, transportVars>>
    BY <1>3, Zenon DEF NetworkEventOverflows
  <2> QED
    BY <2>1 DEF CallbackInv, CallbackAlone, Flagged, Active, Refusing, clientVars, control,
      transportVars
<1> QED
  BY <1>1, <1>2, <1>3 DEF NetworkFatalError

\* Every step keeps CallbackInv, provided that the timer is slow.
LEMMA CallbackStep ==
  ASSUME "timer" \in SlowSources
  PROVE  TypeOK /\ IInv /\ CallbackInv /\ [Next]_vars => CallbackInv'
<1> SUFFICES ASSUME TypeOK, IInv, CallbackInv, [Next]_vars PROVE CallbackInv'
  OBVIOUS
<1>0. TypeOK' /\ IInv'
  BY TypeStep, InvStep
<1>1. CASE MayRun(Poll) /\ (PollStep \/ PollFault) /\ UNCHANGED busVars
  BY <1>0, <1>1, AlonePoll, AlonePollCallback, AloneCallbackPoll
  DEF PollStep, PollClient, PollCallback, Callback, PollFault, transportVars, busVars
<1>2. CASE MayRun(Task) /\ (TaskStep \/ TaskFault)
  BY <1>0, <1>2, AloneTask, AloneTaskDisconnect, AloneCallbackTask
  DEF TaskStep, TaskDisconnect, Callback, TaskFault, transportVars, busVars
<1>3. CASE (QueueStep \/ QueueFault) /\ UNCHANGED busVars
  BY <1>0, <1>3, AloneQueueClient, AloneWork, AloneCallbackQueue
  DEF QueueStep, QueueClient, Callback, QueueFault, transportVars, busVars
<1>4. CASE TimerExpires \/ GnssData \/ NetworkEvent
  BY <1>0, <1>4, CallbackEnvironment
<1>5. CASE ClientIdFails \/ NetworkFatalError
  BY <1>5, CallbackFatal
<1>6. CASE UNCHANGED vars
  BY <1>6 DEF CallbackInv, CallbackAlone, Flagged, Active, Refusing, vars, clientVars, control,
  transportVars
<1> QED
  BY <1>1, <1>2, <1>3, <1>4, <1>5, <1>6 DEF Next, Step, Fault

\* The failures are counted by one thread at a time, although callbacks in three
\* threads lead to the unprotected increment.
THEOREM RetriesAreApart ==
  ASSUME "timer" \in SlowSources
  PROVE  Spec => []RetriesApart
<1>1. TypeOK /\ CallbackInv => RetriesApart
  BY DEF RetriesApart, CallbackInv, CallbackAlone, Active, CallbackLabels, Threads, At
<1> QED
  BY <1>1, TypeInit, TypeStep, InvInit, InvStep, CallbackInit, CallbackStep, PTL DEF Spec

\* At rest in MQTT_DISCONNECTED no session is up and the flag says so.
THEOREM DisconnectedIsDown ==
  ASSUME "timer" \in SlowSources
  PROVE  Spec => []DisconnectedMeansDown
<1>1. TypeOK /\ CallbackInv => DisconnectedMeansDown
  BY DEF TypeOK, DisconnectedMeansDown, CallbackInv, Flagged, Quiescent, At
<1> QED
  BY <1>1, TypeInit, TypeStep, InvInit, InvStep, CallbackInit, CallbackStep, PTL DEF Spec
-----------------------------------------------------------------------------
(* The plan: what cancels it and what makes another.                       *)

\* The flags of the work item against the place of the thread that runs it.
Working ==
  /\ "RUNNING" \in work <=> pc[Queue] # "idle"
  /\ "CANCELING" \in work => "RUNNING" \in work
  /\ pc[Queue] = "sem_give" => session = "opened"

\* The poll thread is on its way from the CONNACK to MQTT_CONNECTED.
Accepting ==
  \/ pc[Poll] \in {"on_connack", "connack_flag", "lwt_online", "set_connected"}
  \/ pc[Poll] \in CallbackLabels /\ ret[Poll] = "set_connected"

\* An attempt meanwhile is one that the session's library state rejects: once the
\* session is lost the poll thread goes on before the timer comes.
Handshake ==
  Accepting => /\ smf_state = "MQTT_DISCONNECTED"
               /\ session = "up" \/ (session = "closed" /\ ~Active)

\* In MQTT_CONNECTED no attempt runs, nothing is planned after the cancellation on
\* entry, and no thread is on its way to the code that plans.
ConnectedQuiet ==
  smf_state = "MQTT_CONNECTED" =>
    /\ pc[Queue] = "idle" /\ session # "opened"
    /\ work \subseteq {"DELAYED"}
    /\ pc[Poll] # "connected_entry" => work = {}
    /\ pc[Poll] \notin {"disconnected_entry", "retry"} /\ ~Refusing
    /\ pc[Task] \notin {"disconnected_entry", "retry", "disconnected_run"}

\* PlanKept in every state: an attempt is planned or running, or a thread is on its
\* way to the code that plans one, or to MQTT_CONNECTED, or the plan was dropped.
Planned ==
  Online /\ session = "closed" /\ smf_state = "MQTT_DISCONNECTED" /\ failures < MaxAttempts
  => \/ "DELAYED" \in work \/ "QUEUED" \in work
     \/ pc[Queue] \notin {"idle", "work_done"}
     \/ pc[Poll] \in CallbackLabels \/ pc[Task] \in CallbackLabels
     \/ pc[Task] \in {"disconnect_failed", "mqtt_disconnect", "disconnected_run"}
     \/ pc[Poll] \in {"on_connack", "connack_flag", "lwt_online", "set_connected"}
     \/ dropped

PlanInv == Working /\ Handshake /\ ConnectedQuiet /\ Planned

\* The program starts in PlanInv.
LEMMA PlanInit == Init => PlanInv
<1> SUFFICES ASSUME Init PROVE PlanInv
  OBVIOUS
<1>1. pc[Poll] = "sem_take" /\ pc[Task] = "start" /\ pc[Queue] = "idle"
  BY DEF Init, FirstLabel, LoopHead, Threads, Poll, Task, Queue
<1> QED
  BY <1>1 DEF Init, PlanInv, Working, Handshake, Accepting, ConnectedQuiet, Planned, Refusing,
    CallbackLabels, Online

\* So a reboot ends in it.
LEMMA PlanReboot == Reboot => PlanInv'
BY PlanInit, RebootInit, PTL

\* A retry is planned as long as attempts are left, in whichever thread.
LEMMA PlanRetry ==
  ASSUME TypeOK, PlanInv, NEW t \in Threads, RetryConnectToBroker(t)
  PROVE  PlanInv'
<1>1. /\ \/ work' = work \cup {"DELAYED"}
         \/ failures >= MaxAttempts /\ failures' = failures /\ work' = work
      /\ At(t, "retry") /\ Return(t)
      /\ UNCHANGED <<clientVars, smf_state, network_connection_status>>
  BY DEF RetryConnectToBroker, Reschedule, TypeOK
<1>2. ~(failures' < MaxAttempts) \/ work' = work \cup {"DELAYED"}
  BY <1>1, MaxAttemptsAssumption DEF TypeOK
<1> USE DEF PlanInv, Working, Handshake, Accepting, ConnectedQuiet, Active, Refusing, TypeOK,
  PollReturns, TaskReturns, QueueReturns, CallbackLabels, Threads, Poll, Task, Queue, At, Goto,
  Return, clientVars
<1>3. Working'
  BY <1>1
<1>4. Handshake'
  BY <1>1
<1>5. ConnectedQuiet'
  BY <1>1
<1>6. Planned'
  BY <1>2 DEF Planned
<1> QED
  BY <1>3, <1>4, <1>5, <1>6

\* The poll loop leaves a session that is closed only by way of a callback.
LEMMA PlanPoll ==
  ASSUME TypeOK, TypeOK', IInv, IInv', PlanInv,
         MayRun(Poll), UNCHANGED <<transportVars, busVars>>,
         SemTake \/ PollCheck \/ KeptAlive \/ PollLeaves \/ ConnackAccepted
           \/ RefusedClose \/ PublishReceived \/ InputDone \/ PollExit \/ PollError
           \/ ConnectionLost \/ ConnackRefused
  PROVE  PlanInv'
<1> USE DEF PlanInv, Working, Handshake, Accepting, ConnectedQuiet, Planned,
  IInv, Booting, Connecting, SessionKnown, StateExplained, Disconnecting,
  RefusedAlone, Served, Active, Refusing, Leaving, FailurePending, ConnectPending,
  TypeOK, Lifecycle!States, Sessions, NetworkStatuses, Channels,
  PollLabels, PollReturns, TaskLabels, TaskReturns, QueueLabels,
  QueueReturns, CallbackLabels, WriteLabels,
  Threads, Poll, Task, Queue, At, Goto, Call, Return, Disconnected, MutexFree,
  IfConnected, Online, clientVars, control, transportVars, busVars,
  MayRun, Ready
<1>1. CASE SemTake
  BY <1>1 DEF SemTake
<1>2. CASE PollCheck
  BY <1>2 DEF PollCheck
<1>3. CASE KeptAlive
  BY <1>3 DEF KeptAlive
<1>4. CASE PollLeaves
  BY <1>4 DEF PollLeaves
<1>5. CASE ConnackAccepted
  BY <1>5 DEF ConnackAccepted
<1>6. CASE RefusedClose
  BY <1>6 DEF RefusedClose
<1>7. CASE PublishReceived
  BY <1>7 DEF PublishReceived
<1>8. CASE InputDone
  BY <1>8 DEF InputDone
<1>9. CASE PollExit
  BY <1>9 DEF PollExit
<1>10. CASE PollError
  BY <1>10 DEF PollError
<1>11. CASE ConnectionLost
  BY <1>11 DEF ConnectionLost
<1>12. CASE ConnackRefused
  BY <1>12 DEF ConnackRefused
<1> QED BY <1>1, <1>2, <1>3, <1>4, <1>5, <1>6, <1>7, <1>8, <1>9, <1>10, <1>11, <1>12

\* The cancellation in mqtt_connected_entry() drops the plan of a loss that came before it.
LEMMA PlanPollCallback ==
  ASSUME TypeOK, TypeOK', IInv, IInv', PlanInv,
         MayRun(Poll), UNCHANGED busVars,
         OnMqttConnack \/ SetFlag \/ SetConnected \/ ConnectedEntry
           \/ OnMqttConnackRefused \/ RefusedCheck \/ OnMqttPublish
  PROVE  PlanInv'
<1> USE DEF PlanInv, Working, Handshake, Accepting, ConnectedQuiet, Planned,
  IInv, Booting, Connecting, SessionKnown, StateExplained, Disconnecting,
  RefusedAlone, Served, Active, Refusing, Leaving, FailurePending, ConnectPending,
  TypeOK, Lifecycle!States, Sessions, NetworkStatuses, Channels,
  PollLabels, PollReturns, TaskLabels, TaskReturns, QueueLabels,
  QueueReturns, CallbackLabels, WriteLabels,
  Threads, Poll, Task, Queue, At, Goto, Call, Return, Disconnected, MutexFree,
  IfConnected, Online, clientVars, control, transportVars, busVars,
  MayRun, Ready
<1>1. CASE OnMqttConnack
  BY <1>1 DEF OnMqttConnack
<1>2. CASE SetFlag
  BY <1>2 DEF SetFlag
<1>3. CASE SetConnected
  BY <1>3 DEF SetConnected
<1>4. CASE ConnectedEntry
  <2>1. smf_state' = "MQTT_DISCONNECTED" => dropped'
    BY <1>4, Zenon DEF ConnectedEntry
  <2>2. Planned'
    BY <2>1
  <2>3. Working' /\ Handshake' /\ ConnectedQuiet'
    BY <1>4 DEF ConnectedEntry, Cancel
  <2> QED BY <2>2, <2>3
<1>5. CASE OnMqttConnackRefused
  BY <1>5 DEF OnMqttConnackRefused, SetDisconnected
<1>6. CASE RefusedCheck
  BY <1>6 DEF RefusedCheck
<1>7. CASE OnMqttPublish
  BY <1>7 DEF OnMqttPublish
<1> QED BY <1>1, <1>2, <1>3, <1>4, <1>5, <1>6, <1>7

\* A disconnection ends in a callback.
LEMMA PlanTaskDisconnect ==
  ASSUME TypeOK, TypeOK', IInv, IInv', PlanInv,
         MayRun(Task), UNCHANGED <<transportVars, busVars>>,
         DisconnectSent(Task, "sub_wait") \/ DisconnectRefused(Task)
           \/ DisconnectFailed(Task, "sub_wait") \/ DisconnectWriteFails(Task)
  PROVE  PlanInv'
<1> USE DEF PlanInv, Working, Handshake, Accepting, ConnectedQuiet, Planned,
  IInv, Booting, Connecting, SessionKnown, StateExplained, Disconnecting,
  RefusedAlone, Served, Active, Refusing, Leaving, FailurePending, ConnectPending,
  TypeOK, Lifecycle!States, Sessions, NetworkStatuses, Channels,
  PollLabels, PollReturns, TaskLabels, TaskReturns, QueueLabels,
  QueueReturns, CallbackLabels, WriteLabels,
  Threads, Poll, Task, Queue, At, Goto, Call, Return, Disconnected, MutexFree,
  IfConnected, Online, clientVars, control, transportVars, busVars,
  MayRun, Ready
<1>1. CASE DisconnectSent(Task, "sub_wait")
  BY <1>1 DEF DisconnectSent
<1>2. CASE DisconnectRefused(Task)
  BY <1>2 DEF DisconnectRefused
<1>3. CASE DisconnectFailed(Task, "sub_wait")
  BY <1>3 DEF DisconnectFailed
<1>4. CASE DisconnectWriteFails(Task)
  BY <1>4 DEF DisconnectWriteFails
<1> QED BY <1>1, <1>2, <1>3, <1>4

\* A status that arrives in MQTT_DISCONNECTED plans, or cancels without a network.
LEMMA PlanTask ==
  ASSUME TypeOK, TypeOK', IInv, IInv', PlanInv,
         MayRun(Task),
         TaskStarts \/ TaskTakesNetwork \/ TaskTakesData \/ TaskReadsNetwork
           \/ DisconnectedRun \/ ConnectedRun
  PROVE  PlanInv'
<1> USE DEF PlanInv, Working, Handshake, Accepting, ConnectedQuiet, Planned,
  IInv, Booting, Connecting, SessionKnown, StateExplained, Disconnecting,
  RefusedAlone, Served, Active, Refusing, Leaving, FailurePending, ConnectPending,
  TypeOK, Lifecycle!States, Sessions, NetworkStatuses, Channels,
  PollLabels, PollReturns, TaskLabels, TaskReturns, QueueLabels,
  QueueReturns, CallbackLabels, WriteLabels,
  Threads, Poll, Task, Queue, At, Goto, Call, Return, Disconnected, MutexFree,
  IfConnected, Online, clientVars, control, transportVars, busVars,
  MayRun, Ready
<1>1. CASE TaskStarts
  BY <1>1 DEF TaskStarts, LibInit
<1>2. CASE TaskTakesNetwork
  BY <1>2 DEF TaskTakesNetwork
<1>3. CASE TaskTakesData
  BY <1>3 DEF TaskTakesData
<1>4. CASE TaskReadsNetwork
  BY <1>4 DEF TaskReadsNetwork
<1>5. CASE DisconnectedRun
  BY <1>5 DEF DisconnectedRun, Reschedule, Cancel
<1>6. CASE ConnectedRun
  BY <1>6 DEF ConnectedRun, DisconnectBegins
<1> QED BY <1>1, <1>2, <1>3, <1>4, <1>5, <1>6

\* An attempt that fails goes on to the retry.
LEMMA PlanQueueClient ==
  ASSUME TypeOK, TypeOK', IInv, IInv', PlanInv,
         UNCHANGED <<transportVars, busVars>>,
         Resolved(Queue) \/ TransportConnects(Queue) \/ ConnectRequested(Queue)
           \/ SemGive(Queue, "work_done")
           \/ ConnectFailed(Queue, "retry", "work_done") \/ ResolveFails(Queue)
           \/ TransportConnectFails(Queue) \/ ConnectWriteFails(Queue)
  PROVE  PlanInv'
<1> USE DEF PlanInv, Working, Handshake, Accepting, ConnectedQuiet, Planned,
  IInv, Booting, Connecting, SessionKnown, StateExplained, Disconnecting,
  RefusedAlone, Served, Active, Refusing, Leaving, FailurePending, ConnectPending,
  TypeOK, Lifecycle!States, Sessions, NetworkStatuses, Channels,
  PollLabels, PollReturns, TaskLabels, TaskReturns, QueueLabels,
  QueueReturns, CallbackLabels, WriteLabels,
  Threads, Poll, Task, Queue, At, Goto, Call, Return, Disconnected, MutexFree,
  IfConnected, Online, clientVars, control, transportVars, busVars
<1>1. CASE Resolved(Queue)
  BY <1>1 DEF Resolved
<1>2. CASE TransportConnects(Queue)
  BY <1>2 DEF TransportConnects
<1>3. CASE ConnectRequested(Queue)
  BY <1>3 DEF ConnectRequested
<1>4. CASE SemGive(Queue, "work_done")
  BY <1>4 DEF SemGive
<1>5. CASE ConnectFailed(Queue, "retry", "work_done")
  BY <1>5 DEF ConnectFailed
<1>6. CASE ResolveFails(Queue)
  BY <1>6 DEF ResolveFails
<1>7. CASE TransportConnectFails(Queue)
  BY <1>7 DEF TransportConnectFails
<1>8. CASE ConnectWriteFails(Queue)
  BY <1>8 DEF ConnectWriteFails
<1> QED BY <1>1, <1>2, <1>3, <1>4, <1>5, <1>6, <1>7, <1>8

\* A work item ends after it has connected or retried.
LEMMA PlanWork ==
  ASSUME TypeOK, TypeOK', IInv, IInv', PlanInv,
         UNCHANGED busVars,
         WorkBegins \/ WorkConnects \/ WorkRetry \/ WorkDone
  PROVE  PlanInv'
<1> USE DEF PlanInv, Working, Handshake, Accepting, ConnectedQuiet, Planned,
  IInv, Booting, Connecting, SessionKnown, StateExplained, Disconnecting,
  RefusedAlone, Served, Active, Refusing, Leaving, FailurePending, ConnectPending,
  TypeOK, Lifecycle!States, Sessions, NetworkStatuses, Channels,
  PollLabels, PollReturns, TaskLabels, TaskReturns, QueueLabels,
  QueueReturns, CallbackLabels, WriteLabels,
  Threads, Poll, Task, Queue, At, Goto, Call, Return, Disconnected, MutexFree,
  IfConnected, Online, clientVars, control, transportVars, busVars
<1>1. CASE WorkBegins
  BY <1>1 DEF WorkBegins
<1>2. CASE WorkConnects
  BY <1>2 DEF WorkConnects, ConnectBegins
<1>3. CASE WorkRetry
  BY <1>3 DEF WorkRetry
<1>4. CASE WorkDone
  BY <1>4 DEF WorkDone
<1> QED BY <1>1, <1>2, <1>3, <1>4

\* The other shared callbacks in mqtt_client_thread.
LEMMA PlanCallbackPoll ==
  ASSUME TypeOK, TypeOK', IInv, IInv', PlanInv,
         MayRun(Poll), UNCHANGED busVars,
         OnMqttDisconnect(Poll) \/ DisconnectedEntry(Poll) \/ Write(Poll)
           \/ WriteError(Poll)
  PROVE  PlanInv'
<1> USE DEF PlanInv, Working, Handshake, Accepting, ConnectedQuiet, Planned,
  IInv, Booting, Connecting, SessionKnown, StateExplained, Disconnecting,
  RefusedAlone, Served, Active, Refusing, Leaving, FailurePending, ConnectPending,
  TypeOK, Lifecycle!States, Sessions, NetworkStatuses, Channels,
  PollLabels, PollReturns, TaskLabels, TaskReturns, QueueLabels,
  QueueReturns, CallbackLabels, WriteLabels,
  Threads, Poll, Task, Queue, At, Goto, Call, Return, Disconnected, MutexFree,
  IfConnected, Online, clientVars, control, transportVars, busVars,
  MayRun, Ready
<1>1. CASE OnMqttDisconnect(Poll)
  BY <1>1 DEF OnMqttDisconnect, SetDisconnected
<1>2. CASE DisconnectedEntry(Poll)
  BY <1>2 DEF DisconnectedEntry
<1>3. CASE Write(Poll)
  BY <1>3 DEF Write, WriteReturns, AfterSent, AfterFailure
<1>4. CASE WriteError(Poll)
  BY <1>4 DEF WriteError, WriteFails, AfterSent, AfterFailure
<1> QED BY <1>1, <1>2, <1>3, <1>4

\* The other shared callbacks in transport_task.
LEMMA PlanCallbackTask ==
  ASSUME TypeOK, TypeOK', IInv, IInv', PlanInv,
         MayRun(Task), UNCHANGED busVars,
         OnMqttDisconnect(Task) \/ DisconnectedEntry(Task) \/ Write(Task)
           \/ WriteError(Task)
  PROVE  PlanInv'
<1> USE DEF PlanInv, Working, Handshake, Accepting, ConnectedQuiet, Planned,
  IInv, Booting, Connecting, SessionKnown, StateExplained, Disconnecting,
  RefusedAlone, Served, Active, Refusing, Leaving, FailurePending, ConnectPending,
  TypeOK, Lifecycle!States, Sessions, NetworkStatuses, Channels,
  PollLabels, PollReturns, TaskLabels, TaskReturns, QueueLabels,
  QueueReturns, CallbackLabels, WriteLabels,
  Threads, Poll, Task, Queue, At, Goto, Call, Return, Disconnected, MutexFree,
  IfConnected, Online, clientVars, control, transportVars, busVars,
  MayRun, Ready
<1>1. CASE OnMqttDisconnect(Task)
  BY <1>1 DEF OnMqttDisconnect, SetDisconnected
<1>2. CASE DisconnectedEntry(Task)
  BY <1>2 DEF DisconnectedEntry
<1>3. CASE Write(Task)
  BY <1>3 DEF Write, WriteReturns, AfterSent, AfterFailure
<1>4. CASE WriteError(Task)
  BY <1>4 DEF WriteError, WriteFails, AfterSent, AfterFailure
<1> QED BY <1>1, <1>2, <1>3, <1>4

\* The other shared callbacks in transport_queue.
LEMMA PlanCallbackQueue ==
  ASSUME TypeOK, TypeOK', IInv, IInv', PlanInv,
         UNCHANGED busVars,
         OnMqttDisconnect(Queue) \/ DisconnectedEntry(Queue)
  PROVE  PlanInv'
<1> USE DEF PlanInv, Working, Handshake, Accepting, ConnectedQuiet, Planned,
  IInv, Booting, Connecting, SessionKnown, StateExplained, Disconnecting,
  RefusedAlone, Served, Active, Refusing, Leaving, FailurePending, ConnectPending,
  TypeOK, Lifecycle!States, Sessions, NetworkStatuses, Channels,
  PollLabels, PollReturns, TaskLabels, TaskReturns, QueueLabels,
  QueueReturns, CallbackLabels, WriteLabels,
  Threads, Poll, Task, Queue, At, Goto, Call, Return, Disconnected, MutexFree,
  IfConnected, Online, clientVars, control, transportVars, busVars
<1>1. CASE OnMqttDisconnect(Queue)
  BY <1>1 DEF OnMqttDisconnect, SetDisconnected
<1>2. CASE DisconnectedEntry(Queue)
  BY <1>2 DEF DisconnectedEntry
<1> QED BY <1>1, <1>2

\* The timer submits the work item unless it is being cancelled, and then it runs.
LEMMA PlanEnvironment ==
  ASSUME TypeOK, PlanInv, "timer" \in SlowSources, TimerExpires \/ GnssData \/ NetworkEvent
  PROVE  PlanInv'
<1> USE DEF PlanInv, Working, Handshake, Accepting, ConnectedQuiet, Planned, Active, Refusing,
  CallbackLabels, Online, clientVars, control, transportVars
<1>1. CASE TimerExpires
  <2>1. ~Ready(Poll) /\ ~Ready(Queue)
    BY <1>1 DEF TimerExpires, MayCome, Threads
  <2>2. pc[Queue] # "idle" /\ Accepting => session = "up"
    OBVIOUS
  <2>3. pc[Poll] = "lwt_online" => session = "up" \/ pc[Queue] # "idle"
    BY <2>1 DEF Ready, MutexFree, WriteLabels, At
  <2> QED
    BY <1>1, <2>1, <2>2, <2>3, QueueWaits, PollWaits DEF TimerExpires, Submitted, WriteLabels
<1>2. CASE GnssData
  BY <1>2 DEF GnssData
<1>3. CASE NetworkEvent
  BY <1>3 DEF NetworkEvent
<1> QED BY <1>1, <1>2, <1>3

\* Fatal errors: without the reboot the work function ends, and drops the plan.
LEMMA PlanFatal ==
  ASSUME TypeOK, PlanInv, ClientIdFails \/ NetworkFatalError
  PROVE  PlanInv'
<1>1. CASE Reboot
  BY <1>1, PlanReboot
<1>2. CASE ClientIdFails /\ ~Reboot
  <2>1. /\ At(Queue, "client_id") /\ Goto(Queue, "work_done") /\ dropped' = TRUE
        /\ UNCHANGED <<clientVars, work, smf_state>>
    BY <1>2, Zenon DEF ClientIdFails
  <2> QED
    BY <2>1, Zenon DEF PlanInv, Working, Handshake, Accepting, ConnectedQuiet, Planned, Active,
      Refusing, TypeOK, Threads, Poll, Task, Queue, At, Goto, clientVars
<1>3. CASE NetworkEventOverflows /\ ~Reboot
  <2>1. UNCHANGED <<clientVars, control, transportVars>>
    BY <1>3, Zenon DEF NetworkEventOverflows
  <2> QED
    BY <2>1 DEF PlanInv, Working, Handshake, Accepting, ConnectedQuiet, Planned, Active,
      Refusing, Online, clientVars, control, transportVars
<1> QED
  BY <1>1, <1>2, <1>3 DEF NetworkFatalError

\* Every step keeps PlanInv, provided that the timer is slow.
LEMMA PlanStep ==
  ASSUME "timer" \in SlowSources
  PROVE  TypeOK /\ IInv /\ PlanInv /\ [Next]_vars => PlanInv'
<1> SUFFICES ASSUME TypeOK, IInv, PlanInv, [Next]_vars PROVE PlanInv'
  OBVIOUS
<1>0. TypeOK' /\ IInv'
  BY TypeStep, InvStep
<1>1. CASE MayRun(Poll) /\ (PollStep \/ PollFault) /\ UNCHANGED busVars
  BY <1>0, <1>1, PlanPoll, PlanPollCallback, PlanCallbackPoll, PlanRetry
  DEF PollStep, PollClient, PollCallback, Callback, PollFault, Threads, transportVars, busVars
<1>2. CASE MayRun(Task) /\ (TaskStep \/ TaskFault)
  BY <1>0, <1>2, PlanTask, PlanTaskDisconnect, PlanCallbackTask, PlanRetry
  DEF TaskStep, TaskDisconnect, Callback, TaskFault, Threads, transportVars, busVars
<1>3. CASE (QueueStep \/ QueueFault) /\ UNCHANGED busVars
  BY <1>0, <1>3, PlanQueueClient, PlanWork, PlanCallbackQueue, PlanRetry
  DEF QueueStep, QueueClient, Callback, QueueFault, Threads, transportVars, busVars
<1>4. CASE TimerExpires \/ GnssData \/ NetworkEvent
  BY <1>4, PlanEnvironment
<1>5. CASE ClientIdFails \/ NetworkFatalError
  BY <1>5, PlanFatal
<1>6. CASE UNCHANGED vars
  BY <1>6 DEF PlanInv, Working, Handshake, Accepting, ConnectedQuiet, Planned, Active, Refusing,
  Online, vars, clientVars, control, transportVars
<1> QED
  BY <1>1, <1>2, <1>3, <1>4, <1>5, <1>6 DEF Next, Step, Fault

\* The invariants together.
LEMMA PlanInvariance ==
  ASSUME "timer" \in SlowSources
  PROVE  Spec => [](TypeOK /\ IInv /\ CallbackInv /\ PlanInv)
<1>1. TypeOK /\ IInv /\ [Next]_vars => IInv'
  BY InvStep
<1>2. TypeOK /\ IInv /\ CallbackInv /\ [Next]_vars => CallbackInv'
  BY CallbackStep
<1>3. TypeOK /\ IInv /\ PlanInv /\ [Next]_vars => PlanInv'
  BY PlanStep
<1> QED
  BY <1>1, <1>2, <1>3, TypeInit, TypeStep, InvInit, CallbackInit, PlanInit, PTL DEF Spec

\* No order in which the threads run loses the plan of a reconnection, other than
\* the two that PlanKept names; with and without GNSS data and the reboot, and
\* however fast the network changes.
THEOREM PlanIsKept ==
  ASSUME "timer" \in SlowSources
  PROVE  Spec => []PlanKept
<1>1. TypeOK /\ PlanInv => PlanKept
  BY DEF PlanKept, ShouldReconnect, PlanInv, Planned, Quiescent, CallbackLabels, At
<1> QED
  BY <1>1, PlanInvariance, PTL
=============================================================================
