---------------------------- MODULE StatusProofs ----------------------------
(***************************************************************************)
(* Theorems about Status, for every value of its constants: a device with  *)
(* a session is shown as online and subscribed to its topics.  The         *)
(* argument is that packets arrive in order in a session, and that the     *)
(* poll thread, which alone opens one, writes them next.                   *)
(***************************************************************************)
EXTENDS Status, TransportProofs

-----------------------------------------------------------------------------
(* The inductive invariants.                                               *)

InWire(p) == \E i \in 1 .. Len(wire) : wire[i] = p

\* The types of what the broker holds.
BrokerType ==
  /\ wire \in Seq(Packets) /\ will \in BOOLEAN
  /\ subscribed \subseteq Topics

\* The broker holds the will of a session that is up.
SessionIsHeld == session = "up" => will /\ ~InWire("DISCONNECT")

\* Where the poll thread is before it has written packet p of a new session.
Before(p) ==
  {"on_connack", "connack_flag", "lwt_online"}
    \cup (IF p = "lwt_online" THEN {} ELSE {"set_connected", "connected_entry", "subscribe"})
    \cup (IF p = "subscribe_gps" THEN {"subscribe_gps"} ELSE {})

\* Packet p of a session that the library takes for connected has been handled, is
\* on its way, or is going to be written.
Announced(p, handled) ==
  session = "up" /\ mqtt_state = "CONNECTED" => pc[Poll] \in Before(p) \/ InWire(p) \/ handled

OnlineInv == Announced("lwt_online", retained = "online")
SubscribedInv == \A p \in Topics : Announced(p, p \in subscribed)

SessionInv == BrokerType /\ SessionIsHeld /\ OnlineInv /\ SubscribedInv
-----------------------------------------------------------------------------
(* Transport under the broker.                                             *)

\* The broker restricts nothing that the device does.
LEMMA StatusStepIsStep == [StatusNext]_statusVars => [Next]_vars
BY DEF StatusNext, DeviceStep, Handle, NoticesLoss, statusVars

\* Status implements Transport, so that what holds of Transport holds here.
THEOREM DeviceIsTransport == StatusSpec => Spec
<1>1. StatusInit => Init
  BY DEF StatusInit
<1> QED
  BY <1>1, StatusStepIsStep, PTL DEF StatusSpec, Spec

\* The device at rest agrees with the library about its session here too.
LEMMA RestMatchesHere ==
  ASSUME "timer" \in SlowSources
  PROVE  StatusSpec => []StateMatchesSession
BY RestMatchesSession, DeviceIsTransport, PTL
-----------------------------------------------------------------------------
(* The packets of a session.                                               *)

\* A packet that is appended is in the wire, and so is what was there.
LEMMA WireGrows ==
  ASSUME BrokerType, NEW q \in Packets, wire' = Append(wire, q)
  PROVE  /\ wire' \in Seq(Packets)
         /\ \A p : InWire(p)' <=> InWire(p) \/ p = q
<1>1. /\ wire \in Seq(Packets) /\ wire' \in Seq(Packets)
      /\ Len(wire') = Len(wire) + 1 /\ Len(wire) \in Nat
      /\ \A i \in 1 .. Len(wire) : wire'[i] = wire[i]
      /\ wire'[Len(wire) + 1] = q
  BY DEF BrokerType
<1>2. 1 .. Len(wire') = (1 .. Len(wire)) \cup {Len(wire) + 1}
  BY <1>1
<1> QED
  BY <1>1, <1>2, Zenon DEF InWire

\* The packet that is handled is the first one, and the others remain.
LEMMA WireShrinks ==
  ASSUME BrokerType, wire # <<>>, wire' = Tail(wire)
  PROVE  /\ wire' \in Seq(Packets) /\ Head(wire) \in Packets
         /\ InWire(Head(wire))
         /\ \A p : InWire(p)' => InWire(p)
         /\ \A p : InWire(p) => p = Head(wire) \/ InWire(p)'
<1>1. /\ wire \in Seq(Packets) /\ wire' \in Seq(Packets)
      /\ Len(wire) \in Nat /\ Len(wire) > 0 /\ Len(wire') = Len(wire) - 1
      /\ \A i \in 1 .. Len(wire') : wire'[i] = wire[i + 1]
      /\ Head(wire) = wire[1] /\ Head(wire) \in Packets
  BY DEF BrokerType
<1>2. \A p : InWire(p)' => InWire(p)
  BY <1>1 DEF InWire
<1>3. ASSUME NEW p, InWire(p), p # Head(wire) PROVE InWire(p)'
  <2>1. PICK i \in 1 .. Len(wire) : wire[i] = p
    BY <1>3 DEF InWire
  <2>2. i - 1 \in 1 .. Len(wire') /\ wire'[i - 1] = wire[i]
    BY <1>1, <1>3, <2>1
  <2> QED
    BY <2>1, <2>2 DEF InWire
<1> QED
  BY <1>1, <1>2, <1>3 DEF InWire

\* A device's step leaves the wire, or appends one packet to it.
LEMMA WritesAppend ==
  ASSUME TypeOK, BrokerType, Writes
  PROVE  /\ BrokerType'
         /\ \A p : InWire(p)' => InWire(p) \/ (p = "DISCONNECT" /\ Disconnects)
                                 \/ (p # "DISCONNECT" /\ p \in Packets)
         /\ \A p : InWire(p) => InWire(p)'
         /\ ~Disconnects => \A p \in Packets : Sent(p) => InWire(p)'
         /\ will' = will
         /\ retained' = retained /\ subscribed' = subscribed
<1>0. /\ wire' = IF Disconnects THEN Append(wire, "DISCONNECT")
                 ELSE IF \E l \in Packets : Sent(l) THEN Append(wire, pc[Poll]) ELSE wire
      /\ UNCHANGED <<will, retained, subscribed>>
  BY DEF Writes
<1>1. will' \in BOOLEAN /\ subscribed' \subseteq Topics
  BY <1>0, Zenon DEF BrokerType
<1>2. CASE Disconnects
  <2>1. wire' = Append(wire, "DISCONNECT") /\ "DISCONNECT" \in Packets
    BY <1>0, <1>2 DEF Packets
  <2>2. wire' \in Seq(Packets) /\ \A p : InWire(p)' <=> InWire(p) \/ p = "DISCONNECT"
    BY <2>1, WireGrows
  <2> QED
    BY <1>0, <1>1, <1>2, <2>2, Zenon DEF BrokerType
<1>3. CASE ~Disconnects /\ \E l \in Packets : Sent(l)
  <2>1. PICK l \in Packets : Sent(l)
    BY <1>3
  <2>2. wire' = Append(wire, l) /\ l = pc[Poll]
    BY <1>0, <1>3, <2>1 DEF Sent
  <2>3. l # "DISCONNECT"
    BY <2>2 DEF TypeOK, PollLabels, CallbackLabels, PollReturns, WriteLabels
  <2>4. wire' \in Seq(Packets) /\ \A p : InWire(p)' <=> InWire(p) \/ p = l
    BY <2>2, WireGrows
  <2>5. \A p \in Packets : Sent(p) => p = l
    BY <2>2 DEF Sent
  <2> QED
    BY <1>0, <1>1, <1>3, <2>3, <2>4, <2>5, Zenon DEF BrokerType
<1>4. CASE ~Disconnects /\ ~\E l \in Packets : Sent(l)
  <2>1. wire' = wire
    BY <1>0, <1>4
  <2> QED
    BY <1>0, <1>1, <1>4, <2>1 DEF BrokerType, InWire
<1> QED
  BY <1>2, <1>3, <1>4
-----------------------------------------------------------------------------
(* What a step of the device does to its session.                          *)

Announcements == {"lwt_online"} \cup Topics

\* Only a CONNACK brings a session up, and then the poll thread, and nobody else,
\* takes the session from one packet to the next.
SessionMoves ==
  /\ SessionUp => pc'[Poll] = "on_connack"
  /\ session' = "up" => session = "up" \/ SessionUp
  /\ Disconnects => session' = "closed"
  /\ session = "up" /\ session' = "up" /\ mqtt_state' = "CONNECTED" =>
       /\ mqtt_state = "CONNECTED"
       /\ \A p \in Announcements :
            pc[Poll] \in Before(p) => pc'[Poll] \in Before(p) \/ Sent(p)

\* What a packet, and what comes before it, is called.
LEMMA BeforeIs ==
  /\ Before("lwt_online") = {"on_connack", "connack_flag", "lwt_online"}
  /\ Before("subscribe") = {"on_connack", "connack_flag", "lwt_online", "set_connected",
                            "connected_entry", "subscribe"}
  /\ Before("subscribe_gps") = {"on_connack", "connack_flag", "lwt_online", "set_connected",
                                "connected_entry", "subscribe", "subscribe_gps"}
BY DEF Before

\* A thread that is not the poll thread moves neither the session up nor the poll
\* thread on.
LEMMA OthersMove ==
  ASSUME session' \in {session, "closed", "opened"},
         session' = "opened" => session # "up" \/ mqtt_state' # "CONNECTED",
         pc'[Poll] = pc[Poll], mqtt_state' = "CONNECTED" => mqtt_state = "CONNECTED",
         Disconnects => session' = "closed"
  PROVE  SessionMoves
BY DEF SessionMoves, SessionUp

\* transport_task does not: what it sends is DISCONNECT, with the session closed.
LEMMA TaskMoves ==
  ASSUME TypeOK, TaskStep \/ TaskFault
  PROVE  SessionMoves
<1> USE DEF TypeOK, Threads, Poll, Task, Queue, At, Goto, Call, Return, Disconnected, clientVars,
  Disconnects
<1> SUFFICES /\ session' \in {session, "closed"} /\ pc'[Poll] = pc[Poll]
             /\ mqtt_state' = "CONNECTED" => mqtt_state = "CONNECTED"
             /\ Disconnects => session' = "closed"
  BY OthersMove
<1>1. CASE TaskDisconnect \/ DisconnectWriteFails(Task)
  BY <1>1 DEF TaskDisconnect, DisconnectSent, DisconnectRefused, DisconnectFailed,
    DisconnectWriteFails
<1>2. CASE Callback(Task)
  BY <1>2 DEF Callback, RetryConnectToBroker, OnMqttDisconnect, SetDisconnected,
    DisconnectedEntry
<1>3. CASE Write(Task) \/ WriteError(Task)
  BY <1>3 DEF Write, WriteReturns, WriteError, WriteFails, WriteLabels
<1>4. CASE TaskStarts \/ TaskTakesNetwork \/ TaskTakesData \/ TaskReadsNetwork
             \/ DisconnectedRun \/ ConnectedRun
  BY <1>4 DEF TaskStarts, LibInit, TaskTakesNetwork, TaskTakesData, TaskReadsNetwork,
    DisconnectedRun, ConnectedRun, DisconnectBegins
<1> QED
  BY <1>1, <1>2, <1>3, <1>4 DEF TaskStep, TaskFault

\* Nor does transport_queue: what it opens is not up, and the library is not
\* connected then.
LEMMA QueueMoves ==
  ASSUME TypeOK, QueueStep \/ QueueFault
  PROVE  SessionMoves
<1> USE DEF TypeOK, Threads, Poll, Task, Queue, At, Goto, Call, Return, Disconnected, clientVars,
  Disconnects
<1> SUFFICES /\ session' \in {session, "closed", "opened"} /\ pc'[Poll] = pc[Poll]
             /\ session' = "opened" => session' = session \/ mqtt_state' # "CONNECTED"
             /\ mqtt_state' = "CONNECTED" => mqtt_state = "CONNECTED"
             /\ pc'[Task] = pc[Task]
  BY OthersMove
<1>1. CASE QueueClient \/ QueueFault
  BY <1>1 DEF QueueClient, Resolved, TransportConnects, ConnectRequested, SemGive,
    ConnectFailed, QueueFault, ResolveFails, TransportConnectFails, ConnectWriteFails
<1>2. CASE WorkBegins \/ WorkConnects \/ WorkRetry \/ WorkDone
  BY <1>2 DEF WorkBegins, WorkConnects, ConnectBegins, WorkRetry, WorkDone
<1>3. CASE Callback(Queue)
  BY <1>3 DEF Callback, RetryConnectToBroker, OnMqttDisconnect, SetDisconnected,
    DisconnectedEntry
<1> QED
  BY <1>1, <1>2, <1>3 DEF QueueStep

\* The poll thread does not leave the places before a packet without sending it.
LEMMA PollMoves ==
  ASSUME TypeOK, PollStep \/ PollFault
  PROVE  SessionMoves
<1> USE DEF TypeOK, Threads, Poll, Task, Queue, At, Goto, Call, Return, Disconnected, clientVars
<1>0. ~Disconnects
  BY DEF PollStep, PollFault, PollClient, SemTake, PollCheck, KeptAlive, PollLeaves,
    ConnackAccepted, RefusedClose, PublishReceived, InputDone, PollExit, PollError, ConnectionLost,
    ConnackRefused, PollCallback, Callback, OnMqttConnack, SetFlag, SetConnected, ConnectedEntry,
    OnMqttConnackRefused, SetDisconnected, RefusedCheck, OnMqttPublish, RetryConnectToBroker,
    OnMqttDisconnect, DisconnectedEntry, Write, WriteReturns, WriteError, WriteFails, Disconnects
<1>1. CASE ConnackAccepted
  BY <1>0, <1>1 DEF ConnackAccepted, SessionMoves, SessionUp
<1>2. CASE PollClient /\ ~ConnackAccepted
  <2>1. /\ session' \in {session, "closed"}
        /\ mqtt_state' = "CONNECTED" => mqtt_state = "CONNECTED"
        /\ pc[Poll] \in {"sem_take", "poll_check", "poll", "refused_close", "input_done", "poll_exit"}
    BY <1>2 DEF PollClient, SemTake, PollCheck, KeptAlive, PollLeaves, RefusedClose,
      PublishReceived, InputDone, PollExit
  <2> QED
    BY <1>0, <2>1, BeforeIs DEF SessionMoves, SessionUp, Announcements, Topics
<1>3. CASE PollError \/ ConnectionLost \/ ConnackRefused
  BY <1>0, <1>3, BeforeIs DEF PollError, ConnectionLost, ConnackRefused, SessionMoves, SessionUp,
    Announcements, Topics
<1>4. CASE PollCallback /\ ~Write(Poll)
  <2>1. UNCHANGED <<session, mqtt_state>>
    BY <1>4 DEF PollCallback, Callback, OnMqttConnack, SetFlag, SetConnected, ConnectedEntry,
      OnMqttConnackRefused, SetDisconnected, RefusedCheck, OnMqttPublish, RetryConnectToBroker,
      OnMqttDisconnect, DisconnectedEntry
  <2>2. ASSUME mqtt_state = "CONNECTED"
        PROVE  \/ pc[Poll] = "on_connack" /\ pc'[Poll] = "connack_flag"
               \/ pc[Poll] = "connack_flag" /\ pc'[Poll] = "lwt_online"
               \/ pc[Poll] = "set_connected" /\ pc'[Poll] = "connected_entry"
               \/ pc[Poll] = "connected_entry" /\ pc'[Poll] = "subscribe"
               \/ pc[Poll] \in {"on_connack_refused", "refused_check", "on_publish"} \cup CallbackLabels
    BY <1>4, <2>2 DEF PollCallback, Callback, OnMqttConnack, SetFlag, SetConnected, ConnectedEntry,
      OnMqttConnackRefused, SetDisconnected, RefusedCheck, OnMqttPublish, RetryConnectToBroker,
      OnMqttDisconnect, DisconnectedEntry, IfConnected, CallbackLabels
  <2> QED
    BY <1>0, <2>1, <2>2, BeforeIs DEF SessionMoves, SessionUp, Announcements, Topics, CallbackLabels
<1>5. CASE Write(Poll)
  <2>1. UNCHANGED <<session, mqtt_state>>
    BY <1>5 DEF Write, WriteReturns
  <2>2. ASSUME mqtt_state = "CONNECTED", session = "up"
        PROVE  \/ pc[Poll] = "lwt_online" /\ pc'[Poll] = "set_connected"
               \/ pc[Poll] = "subscribe" /\ pc'[Poll] = "subscribe_gps"
               \/ pc[Poll] = "subscribe" /\ pc'[Poll] = "input_done" /\ ~SampleGnss
               \/ pc[Poll] = "subscribe_gps" /\ pc'[Poll] = "input_done"
               \/ pc[Poll] \in {"puback", "publish"}
    BY <1>5, <2>2 DEF Write, WriteReturns, WriteLabels, AfterSent, IfConnected
  <2> QED
    BY <1>0, <2>1, <2>2, BeforeIs DEF SessionMoves, SessionUp, Announcements, Topics, Sent
<1>6. CASE WriteError(Poll)
  BY <1>0, <1>6 DEF WriteError, WriteFails, SessionMoves, SessionUp
<1> QED
  BY <1>1, <1>2, <1>3, <1>4, <1>5, <1>6 DEF PollStep, PollFault

\* No step of the device does otherwise.
LEMMA StepMoves ==
  ASSUME TypeOK, Next
  PROVE  SessionMoves
<1>1. CASE TimerExpires \/ GnssData \/ NetworkEvent
  <2>1. UNCHANGED <<session, mqtt_state, pc>>
    BY <1>1 DEF TimerExpires, GnssData, NetworkEvent, control, clientVars
  <2> QED
    BY <2>1, OthersMove DEF Disconnects
<1>2. CASE ClientIdFails \/ NetworkFatalError
  <2>1. CASE Reboot
    <3>1. session' = "closed"
      BY <2>1 DEF Reboot
    <3> QED
      BY <3>1 DEF SessionMoves, SessionUp
  <2>2. CASE ClientIdFails /\ ~Reboot
    <3>1. Goto(Queue, "work_done") /\ UNCHANGED clientVars
      BY <2>2, Zenon DEF ClientIdFails
    <3> QED
      BY <3>1, OthersMove DEF TypeOK, Goto, Threads, Poll, Task, Queue, clientVars, Disconnects
  <2>3. CASE NetworkEventOverflows /\ ~Reboot
    <3>1. UNCHANGED <<clientVars, control>>
      BY <2>3, Zenon DEF NetworkEventOverflows
    <3> QED
      BY <3>1, OthersMove DEF control, clientVars, Disconnects
  <2> QED
    BY <1>2, <2>1, <2>2, <2>3 DEF NetworkFatalError
<1> QED
  BY <1>1, <1>2, PollMoves, TaskMoves, QueueMoves DEF Next, Step, Fault
-----------------------------------------------------------------------------
(* Online and subscribed.                                                  *)

\* A new session is held by the broker, whose wire and subscriptions are empty, and
\* all its packets are still to be written.
LEMMA ConnectsKeeps ==
  ASSUME TypeOK, SessionInv, Next, Connects
  PROVE  SessionInv'
<1>1. /\ wire' = <<>> /\ will' = TRUE /\ subscribed' = {}
      /\ pc'[Poll] = "on_connack"
  BY StepMoves DEF Connects, SessionMoves
<1>2. \A p : ~InWire(p)' /\ "on_connack" \in Before(p)
  BY <1>1 DEF InWire, Before
<1>3. will' \in BOOLEAN
  BY <1>1, Zenon
<1>4. BrokerType'
  BY <1>1, <1>3 DEF BrokerType
<1>5. \A p : pc'[Poll] \in Before(p)
  BY <1>1, <1>2
<1> QED
  BY <1>1, <1>2, <1>4, <1>5, Zenon DEF SessionInv, SessionIsHeld, OnlineInv, SubscribedInv, Announced

\* What the device writes in a session comes after what it has written, and it does
\* not skip a packet.
LEMMA WritesKeeps ==
  ASSUME TypeOK, SessionInv, Next, Writes
  PROVE  SessionInv'
<1>0. BrokerType /\ SessionIsHeld /\ OnlineInv /\ SubscribedInv /\ SessionMoves /\ ~SessionUp
  BY StepMoves DEF SessionInv, Writes
<1>1. /\ BrokerType'
      /\ InWire("DISCONNECT")' => InWire("DISCONNECT") \/ Disconnects
      /\ \A p : InWire(p) => InWire(p)'
      /\ ~Disconnects => \A p \in Packets : Sent(p) => InWire(p)'
      /\ will' = will /\ retained' = retained /\ subscribed' = subscribed
  BY <1>0, WritesAppend, Zenon
<1>2. CASE session' # "up"
  BY <1>1, <1>2 DEF SessionInv, SessionIsHeld, OnlineInv, SubscribedInv, Announced
<1>3. CASE session' = "up"
  <2>1. session = "up" /\ ~Disconnects
    BY <1>0, <1>3 DEF SessionMoves
  <2>2. SessionIsHeld'
    BY <1>0, <1>1, <2>1 DEF SessionIsHeld
  <2>3. ASSUME NEW p \in Announcements, mqtt_state' = "CONNECTED"
        PROVE  /\ mqtt_state = "CONNECTED"
               /\ pc[Poll] \in Before(p) \/ InWire(p) => pc'[Poll] \in Before(p) \/ InWire(p)'
    <3>1. /\ mqtt_state = "CONNECTED"
          /\ pc[Poll] \in Before(p) => pc'[Poll] \in Before(p) \/ Sent(p)
      BY <1>0, <1>3, <2>1, <2>3 DEF SessionMoves
    <3>2. p \in Packets
      BY DEF Announcements, Topics, Packets
    <3> QED
      BY <1>1, <2>1, <3>1, <3>2
  <2>4. OnlineInv'
    BY <1>0, <1>1, <2>1, <2>3 DEF OnlineInv, Announced, Announcements
  <2>5. SubscribedInv'
    <3>1. SUFFICES ASSUME NEW p \in Topics, mqtt_state' = "CONNECTED"
                   PROVE  pc'[Poll] \in Before(p) \/ InWire(p)' \/ p \in subscribed'
      BY DEF SubscribedInv, Announced, Topics
    <3>2. p \in Announcements
      BY DEF Announcements
    <3>3. mqtt_state = "CONNECTED"
      BY <2>3, <3>1, <3>2
    <3>4. pc[Poll] \in Before(p) \/ InWire(p) \/ p \in subscribed
      BY <1>0, <2>1, <3>3 DEF SubscribedInv, Announced
    <3> QED
      BY <1>1, <2>3, <3>1, <3>2, <3>4
  <2> QED
    BY <1>1, <2>2, <2>4, <2>5 DEF SessionInv
<1> QED
  BY <1>2, <1>3

\* The broker handles the packets of a session in their order.
LEMMA HandleKeeps ==
  ASSUME TypeOK, SessionInv, Handle
  PROVE  SessionInv'
<1>0. BrokerType /\ SessionIsHeld /\ OnlineInv /\ SubscribedInv
  BY DEF SessionInv
<1>1. /\ wire # <<>> /\ wire' = Tail(wire)
      /\ will' = (Head(wire) # "DISCONNECT")
      /\ retained' = IF Head(wire) = "lwt_online" THEN "online" ELSE retained
      /\ subscribed' = IF Head(wire) \in Topics THEN subscribed \cup {Head(wire)} ELSE subscribed
      /\ UNCHANGED <<session, mqtt_state, pc>>
  BY DEF Handle, vars, clientVars, control
<1>2. /\ wire' \in Seq(Packets) /\ InWire(Head(wire))
      /\ \A p : InWire(p)' => InWire(p)
      /\ \A p : InWire(p) => p = Head(wire) \/ InWire(p)'
  BY <1>0, <1>1, WireShrinks
<1>3. BrokerType'
  <2>1. will' \in BOOLEAN
    BY <1>0, <1>1, Zenon DEF BrokerType
  <2> QED
    BY <1>0, <1>1, <1>2, <2>1 DEF BrokerType
<1>4. SessionIsHeld'
  BY <1>0, <1>1, <1>2 DEF SessionIsHeld
<1>5. OnlineInv'
  BY <1>0, <1>1, <1>2 DEF OnlineInv, Announced
<1>6. SubscribedInv'
  BY <1>0, <1>1, <1>2 DEF SubscribedInv, Announced, Topics
<1> QED
  BY <1>3, <1>4, <1>5, <1>6 DEF SessionInv

\* Every step of the device and the broker keeps SessionInv.
LEMMA SessionStep ==
  ASSUME TypeOK, SessionInv, [StatusNext]_statusVars
  PROVE  SessionInv'
<1>1. CASE NoticesLoss
  <2>1. /\ session' # "up"
        /\ wire' = <<>> /\ will' = FALSE /\ subscribed' = {}
    BY <1>1 DEF NoticesLoss, vars, clientVars
  <2>2. will' \in BOOLEAN
    BY <2>1, Zenon DEF SessionInv, BrokerType
  <2>3. BrokerType'
    BY <2>1, <2>2 DEF BrokerType
  <2> QED
    BY <2>1, <2>3 DEF SessionInv, SessionIsHeld, OnlineInv, SubscribedInv, Announced
<1>2. CASE UNCHANGED statusVars
  BY <1>2 DEF statusVars, brokerVars, vars, clientVars, control, SessionInv, BrokerType, SessionIsHeld,
    OnlineInv, SubscribedInv, Announced, InWire, Topics
<1> QED
  BY <1>1, <1>2, ConnectsKeeps, WritesKeeps, HandleKeeps DEF StatusNext, DeviceStep

\* There is no session at first.
LEMMA SessionInit == StatusInit => SessionInv
<1> SUFFICES ASSUME StatusInit PROVE SessionInv
  OBVIOUS
<1>1. will \in BOOLEAN
  BY Zenon DEF StatusInit
<1>2. BrokerType
  BY <1>1 DEF StatusInit, BrokerType
<1> QED
  BY <1>2 DEF StatusInit, Init, SessionInv, SessionIsHeld, OnlineInv, SubscribedInv, Announced

\* The inductive invariant behind the next two theorems.
LEMMA SessionInvariance == StatusSpec => []SessionInv
<1>1. TypeOK /\ SessionInv /\ [StatusNext]_statusVars => SessionInv'
  BY SessionStep
<1>2. StatusSpec => []TypeOK
  BY TypeCorrectness, DeviceIsTransport, PTL
<1> QED
  BY <1>1, <1>2, SessionInit, PTL DEF StatusSpec

\* At rest with a session every packet of it has been handled.
LEMMA RestIsHandled ==
  ASSUME SessionInv, StateMatchesSession, Settled, session = "up"
  PROVE  retained = "online" /\ subscribed = Topics
<1>1. mqtt_state = "CONNECTED" /\ wire = <<>> /\ pc[Poll] \in {"sem_take", "poll"}
  BY DEF Settled, StateMatchesSession, Quiescent, At
<1>2. \A p : ~InWire(p) /\ pc[Poll] \notin Before(p)
  BY <1>1 DEF InWire, Before
<1> QED
  BY <1>1, <1>2 DEF SessionInv, BrokerType, OnlineInv, SubscribedInv, Announced

\* When no timer expires while a thread has code to run, a device with a session is
\* shown as online: the will of the session before never comes after it
\* (transport.c:118-126).
THEOREM SessionsAreOnline ==
  ASSUME "timer" \in SlowSources
  PROVE  StatusSpec => []UpIsOnline
<1>1. SessionInv /\ StateMatchesSession => UpIsOnline
  BY RestIsHandled DEF UpIsOnline
<1>2. StatusSpec => []StateMatchesSession
  BY RestMatchesHere
<1> QED
  BY <1>1, <1>2, SessionInvariance, PTL

\* And it is subscribed to its topics, whichever thread lost or closed the session
\* before (transport.c:341-386).
THEOREM SessionsAreSubscribed ==
  ASSUME "timer" \in SlowSources
  PROVE  StatusSpec => []UpIsSubscribed
<1>1. SessionInv /\ StateMatchesSession => UpIsSubscribed
  BY RestIsHandled DEF UpIsSubscribed
<1>2. StatusSpec => []StateMatchesSession
  BY RestMatchesHere
<1> QED
  BY <1>1, <1>2, SessionInvariance, PTL
=============================================================================
