----------------------------- MODULE Transport -----------------------------
(***************************************************************************)
(* The transport module, transport.c, around the MQTT client library: the  *)
(* callbacks it registers, its two-state machine, the delayable work item  *)
(* that connects and reconnects, and the zbus subscription through which   *)
(* network status and GNSS data reach it.  network.c is the source of the  *)
(* status, error.c the sink of fatal errors.                               *)
(*                                                                         *)
(* Three threads share this state.  mqtt_client_thread runs the library's  *)
(* poll loop and with it most callbacks, at the lowest priority;           *)
(* transport_task handles the subscription; transport_queue, at the        *)
(* highest priority, runs the work item.  A step of the model is the code  *)
(* between two places where another thread can get in between.             *)
(***************************************************************************)
EXTENDS MqttClient, Sequences

CONSTANTS
  MaxAttempts,           \* CONFIG_MQTT_SAMPLE_TRANSPORT_RECONNECT_MAX_ATTEMPTS
  QueueSize,             \* CONFIG_MQTT_SAMPLE_TRANSPORT_MESSAGE_QUEUE_SIZE
  SampleGnss,            \* CONFIG_MQTT_SAMPLE_GNSS
  RebootOnFatal,         \* CONFIG_MQTT_SAMPLE_ERROR_REBOOT_ON_FATAL
  SlowSources            \* what never comes while a thread still has code to run

ASSUME MaxAttemptsAssumption == MaxAttempts \in 0..255
ASSUME QueueSizeAssumption == QueueSize \in Nat \ {0}
ASSUME SwitchesAssumption ==
  SampleGnss \in BOOLEAN /\ RebootOnFatal \in BOOLEAN
ASSUME SlowSourcesAssumption == SlowSources \subseteq {"timer", "network", "data"}

VARIABLES
  smf_state,                 \* s_obj.ctx.current
  network_connection_status, \* s_obj.network_connection_status
  transport_mqtt_connected,
  failures,                  \* mqtt_broker_reconnect_failures
  work,                      \* flags of mqtt_connect_work
  charged,                   \* history: this attempt or session is counted in failures
  dropped,                   \* history: the last plan was lost, see PlanKept
  NETWORK_CHAN,              \* the value the channel holds
  subscription               \* channels waiting in the subscriber's queue

transportVars == <<smf_state, network_connection_status, transport_mqtt_connected,
                   failures, work, charged, dropped>>
busVars == <<NETWORK_CHAN, subscription>>
vars == <<clientVars, control, transportVars, busVars>>

NetworkStatuses == {"NETWORK_DISCONNECTED", "NETWORK_CONNECTED"}
Channels == {"NETWORK_CHAN", "GPS_DATA_CHAN"}

FirstLabel(t) ==
  CASE t = Poll -> "sem_take" [] t = Task -> "start" [] t = Queue -> "idle"
LoopHead(t) ==
  CASE t = Poll -> "sem_take" [] t = Task -> "sub_wait" [] t = Queue -> "work_done"

Init ==
  /\ mqtt_state = "UNINIT"
  /\ session = "closed"
  /\ connection_poll_sem = 0
  /\ pc = [t \in Threads |-> FirstLabel(t)]
  /\ ret = [t \in Threads |-> LoopHead(t)]
  /\ smf_state = "MQTT_DISCONNECTED"
  /\ network_connection_status = "NETWORK_DISCONNECTED"
  /\ transport_mqtt_connected = 0
  /\ failures = 0
  /\ work = {}
  /\ charged = FALSE
  /\ dropped = FALSE
  /\ NETWORK_CHAN = "NETWORK_DISCONNECTED"
  /\ subscription = <<>>

\* sys_reboot(): every variable gets its initial value again.
Reboot ==
  /\ mqtt_state' = "UNINIT"
  /\ session' = "closed"
  /\ connection_poll_sem' = 0
  /\ pc' = [t \in Threads |-> FirstLabel(t)]
  /\ ret' = [t \in Threads |-> LoopHead(t)]
  /\ smf_state' = "MQTT_DISCONNECTED"
  /\ network_connection_status' = "NETWORK_DISCONNECTED"
  /\ transport_mqtt_connected' = 0
  /\ failures' = 0
  /\ work' = {}
  /\ charged' = FALSE
  /\ dropped' = FALSE
  /\ NETWORK_CHAN' = "NETWORK_DISCONNECTED"
  /\ subscription' = <<>>

Online == network_connection_status = "NETWORK_CONNECTED"
-----------------------------------------------------------------------------
(* The work item mqtt_connect_work, a k_work_delayable of Zephyr.          *)

Reschedule == work' = work \cup {"DELAYED"} /\ dropped' = FALSE

\* Neither a running function is stopped nor a later reschedule prevented:
\* CANCELING only makes the timer's submission fail until the function ends.
Cancel ==
  work' = (work \ {"DELAYED", "QUEUED"})
            \cup (IF "RUNNING" \in work THEN {"CANCELING"} ELSE {})

Submitted == IF "CANCELING" \in work THEN {} ELSE {"QUEUED"}
-----------------------------------------------------------------------------
(* Scheduling: preemptive, by the priorities that transport.c (lines 533   *)
(* and 691) and mqtt_client.c (line 879) give the threads.                 *)

WriteLabels == {"publish", "lwt_online", "subscribe", "subscribe_gps", "puback"}
CallbackLabels == {"on_disconnect", "disconnected_entry", "retry"}

PollReturns ==
  {"sem_take", "poll_exit", "on_publish", "input_done", "set_connected", "refused_check",
   "refused_close"}
PollLabels ==
  CallbackLabels \cup PollReturns \cup (WriteLabels \ {"publish"})
    \cup {"poll_check", "poll", "on_connack", "connack_flag", "connected_entry", "on_connack_refused"}

TaskReturns == {"sub_wait", "disconnect_failed"}
TaskLabels ==
  CallbackLabels \cup TaskReturns
    \cup {"start", "chan_read", "disconnected_run", "connected_run", "mqtt_disconnect", "publish"}

QueueReturns == {"work_done", "connect_failed"}
QueueLabels ==
  CallbackLabels \cup QueueReturns
    \cup {"idle", "client_id", "work_retry", "getaddrinfo", "mqtt_connect",
          "transport_connected", "sem_give"}

\* Thread t has code to run: it is neither waiting for something nor inside
\* a socket call that waits for the peer.
Ready(t) ==
  CASE pc[t] = "idle" -> "QUEUED" \in work
    [] pc[t] = "sub_wait" -> subscription # <<>>
    [] pc[t] = "sem_take" -> connection_poll_sem = 1
    [] pc[t] = "poll" -> session = "closed" /\ MutexFree
    [] pc[t] \in WriteLabels \cup {"mqtt_disconnect"} -> session # "up" /\ MutexFree
    [] pc[t] \in {"refused_close", "poll_exit"} -> MutexFree
    [] pc[t] \in {"getaddrinfo", "mqtt_connect"} -> FALSE
    [] OTHER -> TRUE

\* Mutated form: the threads share one priority.
MayRun_OnePriority(t) == TRUE

MayRun(t) ==
  /\ t \in {Poll, Task} => ~Ready(Queue)
  /\ t = Poll => ~Ready(Task)

MayCome(source) == source \in SlowSources => \A t \in Threads : ~Ready(t)
-----------------------------------------------------------------------------
(* Callbacks and state handlers.  They run in the thread whose call into   *)
(* the library delivered the event.                                        *)

\* Mutated form: one attempt more than configured.
RetryConnectToBroker_OneTooMany(t) ==
  /\ At(t, "retry")
  /\ Return(t)
  /\ IF failures > MaxAttempts
     THEN UNCHANGED <<failures, work, charged, dropped>>
     ELSE failures' = failures + 1 /\ Reschedule /\ charged' = TRUE
  /\ UNCHANGED <<clientVars, smf_state, network_connection_status,
                 transport_mqtt_connected>>

\* retry_connect_to_broker()
RetryConnectToBroker(t) ==
  /\ At(t, "retry")
  /\ Return(t)
  /\ IF failures >= MaxAttempts
     THEN UNCHANGED <<failures, work, charged, dropped>>
     ELSE failures' = failures + 1 /\ Reschedule /\ charged' = TRUE
  /\ UNCHANGED <<clientVars, smf_state, network_connection_status,
                 transport_mqtt_connected>>

\* smf_set_state(..., &state[MQTT_DISCONNECTED]) returning to r.  Zephyr runs
\* the exit action of the current state and the entry action of the new one on
\* every call, also when the two are the same state.  The exit actions only log.
SetDisconnected(t, r) ==
  /\ smf_state' = "MQTT_DISCONNECTED"
  /\ Call(t, "disconnected_entry", r)

\* Mutated form: the flag is left set.
OnMqttDisconnect_FlagKept(t) ==
  /\ At(t, "on_disconnect")
  /\ SetDisconnected(t, ret[t])
  /\ UNCHANGED <<clientVars, network_connection_status, transport_mqtt_connected,
                 failures, work, charged, dropped>>

OnMqttDisconnect(t) ==
  /\ At(t, "on_disconnect")
  /\ transport_mqtt_connected' = 0
  /\ SetDisconnected(t, ret[t])
  /\ UNCHANGED <<clientVars, network_connection_status, failures, work, charged, dropped>>

\* Mutated form: nothing is planned on entry.
DisconnectedEntry_NoRetry(t) ==
  /\ At(t, "disconnected_entry")
  /\ Return(t)
  /\ UNCHANGED <<clientVars, transportVars>>

\* mqtt_disconnected_entry()
DisconnectedEntry(t) ==
  /\ At(t, "disconnected_entry")
  /\ IF Online THEN Goto(t, "retry") ELSE Return(t)
  /\ UNCHANGED <<clientVars, transportVars>>

\* on_mqtt_connack() of an accepted connection.
OnMqttConnack ==
  /\ At(Poll, "on_connack")
  /\ failures' = 0
  /\ charged' = FALSE
  /\ Goto(Poll, "connack_flag")
  /\ UNCHANGED <<clientVars, smf_state, network_connection_status,
                 transport_mqtt_connected, work, dropped>>

\* Mutated form: "online" is not published.
SetFlag_Unpublished ==
  /\ At(Poll, "connack_flag")
  /\ transport_mqtt_connected' = 1
  /\ Goto(Poll, "set_connected")
  /\ UNCHANGED <<clientVars, smf_state, network_connection_status, failures, work, charged, dropped>>

\* Up to the write of transport_mqtt_publish_lwt_online().
SetFlag ==
  /\ At(Poll, "connack_flag")
  /\ transport_mqtt_connected' = 1
  /\ Goto(Poll, IfConnected("lwt_online", "set_connected"))
  /\ UNCHANGED <<clientVars, smf_state, network_connection_status, failures, work, charged, dropped>>

SetConnected ==
  /\ At(Poll, "set_connected")
  /\ smf_state' = "MQTT_CONNECTED"
  /\ Goto(Poll, "connected_entry")
  /\ UNCHANGED <<clientVars, network_connection_status, transport_mqtt_connected,
                 failures, work, charged, dropped>>

\* Mutated form: what is planned stays planned.
ConnectedEntry_NotCancelled ==
  /\ At(Poll, "connected_entry")
  /\ Goto(Poll, IfConnected("subscribe", "input_done"))
  /\ UNCHANGED <<clientVars, transportVars>>

\* mqtt_connected_entry() up to the first write of subscribe().  When a loss has
\* overtaken it, the plan that it cancels is the one made for that loss.
ConnectedEntry ==
  /\ At(Poll, "connected_entry")
  /\ Cancel
  /\ dropped' = (smf_state = "MQTT_DISCONNECTED")
  /\ Goto(Poll, IfConnected("subscribe", "input_done"))
  /\ UNCHANGED <<clientVars, smf_state, network_connection_status,
                 transport_mqtt_connected, failures, charged>>

OnMqttConnackRefused ==
  /\ At(Poll, "on_connack_refused")
  /\ transport_mqtt_connected' = 0
  /\ SetDisconnected(Poll, "refused_check")
  /\ UNCHANGED <<clientVars, network_connection_status, failures, work, charged, dropped>>

RefusedCheck ==
  /\ At(Poll, "refused_check")
  /\ IF Online THEN Call(Poll, "retry", "refused_close") ELSE Goto(Poll, "refused_close")
  /\ UNCHANGED <<clientVars, transportVars>>

\* on_mqtt_publish(): a command goes to GNSS_CMD_CHAN, nothing here changes.
OnMqttPublish ==
  /\ At(Poll, "on_publish")
  /\ Goto(Poll, "input_done")
  /\ UNCHANGED <<clientVars, transportVars>>

\* Mutated form: the GPS topic is forgotten.
AfterSent_OneTopic(l) ==
  CASE l = "publish" -> "sub_wait"
    [] l = "lwt_online" -> "set_connected"
    [] l = "puback" -> "on_publish"
    [] OTHER -> "input_done"

\* Where a thread goes on after a write that was sent, and after one that was not.
AfterSent(l) ==
  CASE l = "publish" -> "sub_wait"
    [] l = "lwt_online" -> "set_connected"
    [] l = "puback" -> "on_publish"
    [] l = "subscribe" /\ SampleGnss -> IfConnected("subscribe_gps", "input_done")
    [] OTHER -> "input_done"

AfterFailure(l) == IF l = "subscribe" THEN "input_done" ELSE AfterSent(l)

Write(t) ==
  /\ pc[t] \in WriteLabels
  /\ WriteReturns(t, AfterSent(pc[t]), AfterFailure(pc[t]))
  /\ UNCHANGED transportVars

WriteError(t) ==
  /\ pc[t] \in WriteLabels
  /\ WriteFails(t, AfterFailure(pc[t]))
  /\ UNCHANGED transportVars
-----------------------------------------------------------------------------
(* transport_queue: the work item's timer and mqtt_connect_work_fn()       *)

TimerExpires ==
  /\ "DELAYED" \in work
  /\ MayCome("timer")
  /\ work' = (work \ {"DELAYED"}) \cup Submitted
  /\ UNCHANGED <<clientVars, control, busVars, smf_state, network_connection_status,
                 transport_mqtt_connected, failures, charged, dropped>>

WorkBegins ==
  /\ At(Queue, "idle")
  /\ "QUEUED" \in work
  /\ work' = (work \ {"QUEUED"}) \cup {"RUNNING"}
  /\ charged' = FALSE
  /\ Goto(Queue, "client_id")
  /\ UNCHANGED <<clientVars, smf_state, network_connection_status,
                 transport_mqtt_connected, failures, dropped>>

\* client_id_get() and topics_prefix() succeed.
WorkConnects ==
  /\ At(Queue, "client_id")
  /\ ConnectBegins(Queue, "work_retry")
  /\ UNCHANGED transportVars

WorkRetry ==
  /\ At(Queue, "work_retry")
  /\ Call(Queue, "retry", "work_done")
  /\ UNCHANGED <<clientVars, transportVars>>

WorkDone ==
  /\ At(Queue, "work_done")
  /\ work' = work \ {"RUNNING", "CANCELING"}
  /\ Goto(Queue, "idle")
  /\ UNCHANGED <<clientVars, smf_state, network_connection_status,
                 transport_mqtt_connected, failures, charged, dropped>>

\* SEND_FATAL_ERROR() and return.  Without the reboot the function just ends, and
\* with it the attempt that was planned.
ClientIdFails ==
  /\ At(Queue, "client_id")
  /\ IF RebootOnFatal
     THEN Reboot
     ELSE /\ Goto(Queue, "work_done")
          /\ dropped' = TRUE
          /\ UNCHANGED <<clientVars, busVars, smf_state, network_connection_status,
                         transport_mqtt_connected, failures, work, charged>>
-----------------------------------------------------------------------------
(* transport_task()                                                        *)

TaskStarts ==
  /\ At(Task, "start")
  /\ LibInit(Task, "sub_wait")
  /\ UNCHANGED <<transportVars, busVars>>

\* zbus_sub_wait().  Data is published only while the network is connected.
TaskTakesNetwork ==
  /\ At(Task, "sub_wait")
  /\ subscription # <<>> /\ Head(subscription) = "NETWORK_CHAN"
  /\ subscription' = Tail(subscription)
  /\ Goto(Task, "chan_read")
  /\ UNCHANGED <<clientVars, transportVars, NETWORK_CHAN>>

TaskTakesData ==
  /\ At(Task, "sub_wait")
  /\ subscription # <<>> /\ Head(subscription) # "NETWORK_CHAN"
  /\ subscription' = Tail(subscription)
  /\ Goto(Task, IF Online THEN IfConnected("publish", "sub_wait") ELSE "sub_wait")
  /\ UNCHANGED <<clientVars, transportVars, NETWORK_CHAN>>

\* zbus_chan_read() gets the channel's latest value, then smf_run_state().
TaskReadsNetwork ==
  /\ At(Task, "chan_read")
  /\ network_connection_status' = NETWORK_CHAN
  /\ Goto(Task, IF smf_state = "MQTT_DISCONNECTED" THEN "disconnected_run" ELSE "connected_run")
  /\ UNCHANGED <<clientVars, busVars, smf_state, transport_mqtt_connected, failures,
                 work, charged, dropped>>

DisconnectedRun ==
  /\ At(Task, "disconnected_run")
  /\ IF Online THEN Reschedule ELSE Cancel /\ UNCHANGED dropped
  /\ Goto(Task, "sub_wait")
  /\ UNCHANGED <<clientVars, busVars, smf_state, network_connection_status,
                 transport_mqtt_connected, failures, charged>>

ConnectedRun ==
  /\ At(Task, "connected_run")
  /\ IF Online
     THEN Goto(Task, "sub_wait") /\ UNCHANGED clientVars
     ELSE DisconnectBegins(Task, "sub_wait")
  /\ UNCHANGED <<transportVars, busVars>>
-----------------------------------------------------------------------------
(* The environment: net_mgmt events, the GNSS module's publications.       *)

\* l4_event_handler(): zbus_chan_pub() stores the value, then queues the
\* channel for the subscriber.
NetworkEvent ==
  MayCome("network") /\
  \E status \in NetworkStatuses :
    /\ NETWORK_CHAN' = status
    /\ Len(subscription) < QueueSize
    /\ subscription' = Append(subscription, "NETWORK_CHAN")
    /\ UNCHANGED <<clientVars, control, transportVars>>

\* The queue stays full for the second that l4_event_handler() waits: only a
\* blocked transport_task lets it.
NetworkEventOverflows ==
  /\ Len(subscription) = QueueSize
  /\ ~At(Task, "sub_wait") /\ ~Ready(Task)
  /\ NETWORK_CHAN' \in NetworkStatuses
  /\ UNCHANGED <<clientVars, control, transportVars, subscription>>

\* Mutated form: l4_event_handler() does not look at what zbus_chan_pub() returned.
NetworkFatalError_Unchecked ==
  IF RebootOnFatal /\ Len(subscription) < QueueSize THEN Reboot ELSE NetworkEventOverflows

\* SEND_FATAL_ERROR() of network.c: the connectivity layer failed, which it may at
\* any time, network_task() did, or a notification is lost.  When it does not
\* reboot the device, only the last of them leaves a trace.
NetworkFatalError == IF RebootOnFatal THEN Reboot ELSE NetworkEventOverflows

\* GPS_DATA_CHAN and GNSS_ERROR_CHAN: each message becomes one publication.
GnssData ==
  /\ SampleGnss /\ MayCome("data")
  /\ Len(subscription) < QueueSize
  /\ subscription' = Append(subscription, "GPS_DATA_CHAN")
  /\ UNCHANGED <<clientVars, control, transportVars, NETWORK_CHAN>>
-----------------------------------------------------------------------------
(* What each thread does, the broker being willing and the network kind,   *)
(* and what can go wrong under it.                                         *)

Callback(t) == RetryConnectToBroker(t) \/ OnMqttDisconnect(t) \/ DisconnectedEntry(t)

PollClient ==
  \/ SemTake \/ PollCheck \/ KeptAlive \/ PollLeaves \/ ConnackAccepted \/ RefusedClose
  \/ PublishReceived \/ InputDone \/ PollExit

PollCallback ==
  \/ OnMqttConnack \/ SetFlag \/ SetConnected \/ ConnectedEntry \/ OnMqttConnackRefused \/ RefusedCheck
  \/ OnMqttPublish \/ Write(Poll) \/ Callback(Poll)

PollStep == (PollClient /\ UNCHANGED transportVars) \/ PollCallback

PollFault ==
  \/ (PollError \/ ConnectionLost \/ ConnackRefused) /\ UNCHANGED transportVars
  \/ WriteError(Poll)

TaskDisconnect ==
  \/ DisconnectSent(Task, "sub_wait")
  \/ DisconnectRefused(Task)
  \/ DisconnectFailed(Task, "sub_wait")

TaskStep ==
  \/ TaskStarts \/ TaskTakesNetwork \/ TaskTakesData \/ TaskReadsNetwork
  \/ DisconnectedRun \/ ConnectedRun
  \/ TaskDisconnect /\ UNCHANGED <<transportVars, busVars>>
  \/ (Write(Task) \/ Callback(Task)) /\ UNCHANGED busVars

TaskFault ==
  \/ DisconnectWriteFails(Task) /\ UNCHANGED <<transportVars, busVars>>
  \/ WriteError(Task) /\ UNCHANGED busVars

QueueClient ==
  \/ Resolved(Queue) \/ TransportConnects(Queue) \/ ConnectRequested(Queue)
  \/ SemGive(Queue, "work_done")
  \/ ConnectFailed(Queue, "retry", "work_done")

QueueStep ==
  \/ QueueClient /\ UNCHANGED transportVars
  \/ WorkBegins \/ WorkConnects \/ WorkRetry \/ WorkDone \/ Callback(Queue)

QueueFault ==
  (ResolveFails(Queue) \/ TransportConnectFails(Queue) \/ ConnectWriteFails(Queue))
    /\ UNCHANGED transportVars

Step(t) ==
  /\ MayRun(t)
  /\ \/ t = Poll /\ PollStep /\ UNCHANGED busVars
     \/ t = Task /\ TaskStep
     \/ t = Queue /\ QueueStep /\ UNCHANGED busVars

Fault ==
  \/ MayRun(Poll) /\ PollFault /\ UNCHANGED busVars
  \/ MayRun(Task) /\ TaskFault
  \/ QueueFault /\ UNCHANGED busVars
  \/ ClientIdFails
  \/ NetworkEvent
  \/ NetworkFatalError

Next == (\E t \in Threads : Step(t)) \/ TimerExpires \/ GnssData \/ Fault

Spec == Init /\ [][Next]_vars
-----------------------------------------------------------------------------
(* Properties.                                                             *)

\* Type invariant.  pc and ret are typed thread by thread: no thread ever gets
\* to a place in another thread's code.
TypeOK ==
  /\ mqtt_state \in Lifecycle!States
  /\ session \in Sessions
  /\ connection_poll_sem \in 0..1
  /\ pc \in [Threads -> PollLabels \cup TaskLabels \cup QueueLabels]
  /\ pc[Poll] \in PollLabels /\ pc[Task] \in TaskLabels /\ pc[Queue] \in QueueLabels
  /\ ret \in [Threads -> PollReturns \cup TaskReturns \cup QueueReturns]
  /\ ret[Poll] \in PollReturns /\ ret[Task] \in TaskReturns /\ ret[Queue] \in QueueReturns
  /\ smf_state \in {"MQTT_CONNECTED", "MQTT_DISCONNECTED"}
  /\ network_connection_status \in NetworkStatuses
  /\ transport_mqtt_connected \in 0..1
  /\ failures \in 0..MaxAttempts
  /\ work \subseteq {"DELAYED", "QUEUED", "RUNNING", "CANCELING"}
  /\ charged \in BOOLEAN /\ dropped \in BOOLEAN
  /\ NETWORK_CHAN \in NetworkStatuses
  /\ subscription \in Seq(Channels) /\ Len(subscription) <= QueueSize

\* Nothing is under way: every thread waits, for a message, a connection to
\* serve, a packet on an open session, or the timer.
Quiescent ==
  /\ At(Task, "sub_wait") /\ subscription = <<>>
  /\ At(Queue, "idle") /\ "QUEUED" \notin work
  /\ \/ At(Poll, "sem_take") /\ connection_poll_sem = 0
     \/ At(Poll, "poll") /\ session # "closed"

\* Whatever the order in which the three threads enter the library, none of
\* them asks mqtt_state_set() for a transition that its assertion rejects
\* (mqtt_client.c:133).
LegalTransitions == Lifecycle!Spec

\* mqtt_client_init() never clears a client that still has its socket open:
\* a connection attempt that passes the state check (mqtt_client.c:618) finds
\* the previous session closed, not merely reported as disconnected.
NoSessionLeak ==
  At(Queue, "client_id") /\ mqtt_state = "DISCONNECTED" => session = "closed"

\* A connection that was requested is always polled: while the poll thread
\* waits for connection_poll_sem, a CONNECTING or CONNECTED library means that
\* the semaphore is there to be taken or about to be given (mqtt_client.c:634,
\* 778).  Otherwise no CONNACK would be read and no keepalive sent.
SessionIsServed ==
  At(Poll, "sem_take") /\ mqtt_state \in {"CONNECTING", "CONNECTED"}
  => connection_poll_sem = 1 \/ At(Queue, "sem_give")

\* At rest the library's state, which guards every public call, is the state
\* of the session below it: neither a session the application believes lost,
\* nor a library left in a state that rejects the next mqtt_client_connect().
StateMatchesSession ==
  Quiescent => mqtt_state = (CASE session = "up" -> "CONNECTED"
                               [] session = "opened" -> "CONNECTING"
                               [] session = "closed" -> "DISCONNECTED")

\* At rest in MQTT_DISCONNECTED no session is up and the flag read by
\* transport_mqtt_clean_offline() says so, although the flag and the state
\* machine are written by callbacks in three threads (transport.c:124-142).
DisconnectedMeansDown ==
  Quiescent /\ smf_state = "MQTT_DISCONNECTED"
  => transport_mqtt_connected = 0 /\ session # "up"

\* No two threads are in retry_connect_to_broker() together, where the failures are
\* counted with a read and a write of a plain variable (transport.c:75): callbacks
\* in three threads lead there, and an increment between the two would be lost.
RetriesApart ==
  \A t, u \in Threads : At(t, "retry") /\ At(u, "retry") => t = u

\* transport_task acts on the last status the network had: when no status is
\* left in its queue, its copy (transport.c:559) is the channel's value.  The
\* copy could be older since the channel keeps only the latest value, and the
\* notification of a change is lost when the queue is full.
KnowsNetwork ==
  At(Task, "sub_wait") /\ (\A i \in DOMAIN subscription : subscription[i] # "NETWORK_CHAN")
  => network_connection_status = NETWORK_CHAN

\* At rest, with the network up and attempts left but no session.
ShouldReconnect ==
  Quiescent /\ Online /\ session = "closed" /\ smf_state = "MQTT_DISCONNECTED"
    /\ failures < MaxAttempts

\* At rest in MQTT_DISCONNECTED with the network up and attempts left, an
\* attempt is scheduled: "Reschedule a connection attempt if we are connected
\* to network and we enter the disconnected state" (transport.c:432).
ReconnectPlanned == ShouldReconnect => "DELAYED" \in work

\* A plan is lost in two ways only: the entry of MQTT_CONNECTED cancels it after
\* a loss has taken the state machine out of that state again (transport.c:474),
\* or the attempt ends at the fatal error of its client id (transport.c:401).
\* Cancellations for other reasons, attempts that run meanwhile, rejected and
\* failing attempts, and statuses that come at any time do not lose it.
PlanKept == ShouldReconnect => "DELAYED" \in work \/ dropped

\* The same in either state of the state machine: without a session, with the
\* network up and attempts left, the device is going to try again.
NeverStranded ==
  Quiescent /\ Online /\ session = "closed" /\ failures < MaxAttempts
  => "DELAYED" \in work

\* An attempt that the broker refuses costs one of the attempts counted in
\* mqtt_broker_reconnect_failures: on_mqtt_connack() adds the only retry itself,
\* "SMF entry does not run again" (transport.c:132-135).
RefusalChargedOnce ==
  [][At(Poll, "retry") /\ ret[Poll] = "refused_close" /\ failures' > failures => ~charged]_vars

\* At rest without a network no session is left up: losing the network
\* disconnects it explicitly (transport.c:485-489).
NoSessionWithoutNetwork ==
  Quiescent /\ ~Online => session # "up"

\* A thread that may run does run, and a delay ends.  Fault is under no
\* fairness: that no CONNACK comes, or that a call fails, is never certain.
Fairness ==
  /\ \A t \in Threads : WF_vars(Step(t))
  /\ WF_vars(TimerExpires)

FairSpec == Spec /\ Fairness

Connected ==
  session = "up" /\ mqtt_state = "CONNECTED" /\ smf_state = "MQTT_CONNECTED"

\* Down for good, for want of a network or of attempts, without the plan that
\* was dropped, or stranded in MQTT_CONNECTED (see NeverStranded).
GivenUp ==
  /\ session = "closed" /\ mqtt_state = "DISCONNECTED" /\ work = {}
  /\ ~Online \/ failures = MaxAttempts \/ dropped \/ smf_state = "MQTT_CONNECTED"

\* Once nothing fails any more, the network stays as it is and no answer of the
\* GNSS module keeps transport_task busy, the threads come to agree on a
\* connection that lasts, or on none: no two of them go on undoing each other's
\* work.
SettlesWhenFaultsEnd == (<>[][~Fault /\ ~GnssData]_vars) => <>[](Connected \/ GivenUp)
=============================================================================
