----------------------------- MODULE MqttClient -----------------------------
(***************************************************************************)
(* The MQTT client library, mqtt_client.c, as the three threads that enter *)
(* it see it: mqtt_client_thread, which runs mqtt_client_poll_loop(), and  *)
(* the two application threads that call mqtt_client_connect(),            *)
(* mqtt_client_disconnect(), mqtt_client_publish() and                     *)
(* mqtt_client_subscribe().                                                *)
(*                                                                         *)
(* Zephyr's MQTT library, which mqtt_client.c calls, is external.  What is *)
(* modelled of it is how far the session has come, and that it reports the *)
(* loss of a session by MQTT_EVT_DISCONNECT, delivered in the thread whose *)
(* call met the loss before that call returns.  A callback is a jump to    *)
(* the callback's first control point; ret[t] is where thread t goes on    *)
(* once the callback is done.  A module that extends this one supplies the *)
(* callbacks, the order in which threads run and Next.                     *)
(***************************************************************************)
EXTENDS Naturals

VARIABLES
  mqtt_state,           \* the library's own state
  session,              \* Zephyr's side: no socket, socket open, MQTT session up
  connection_poll_sem,  \* binary semaphore that starts the poll loop
  pc, ret               \* control point of each thread, and its pending return

clientVars == <<mqtt_state, session, connection_poll_sem>>
control == <<pc, ret>>

Lifecycle == INSTANCE MqttLifecycle

Poll == "mqtt_client_thread"
Task == "transport_task"
Queue == "transport_queue"
Threads == {Poll, Task, Queue}

Sessions == {"closed", "opened", "up"}

At(t, l) == pc[t] = l
Goto(t, l) == pc' = [pc EXCEPT ![t] = l] /\ UNCHANGED ret
Call(t, l, r) == pc' = [pc EXCEPT ![t] = l] /\ ret' = [ret EXCEPT ![t] = r]
Return(t) == Goto(t, ret[t])

\* mqtt_connect() holds the client's mutex while it blocks on the network.
MutexFree == ~At(Queue, "mqtt_connect")

\* The guard of the public calls: mqtt_state_verify(MQTT_STATE_CONNECTED).
IfConnected(go, skip) == IF mqtt_state = "CONNECTED" THEN go ELSE skip

\* The session is gone: the client closes the socket and mqtt_evt_handler()
\* gets MQTT_EVT_DISCONNECT in thread t, which goes on at r after the callback.
Disconnected(t, r) ==
  /\ session' = "closed"
  /\ mqtt_state' = "DISCONNECTED"
  /\ UNCHANGED connection_poll_sem
  /\ Call(t, "on_disconnect", r)
-----------------------------------------------------------------------------
(* Calls that write on the session: publish, subscribe and PUBACK.         *)

WriteReturns(t, sent, failed) ==
  /\ MutexFree
  /\ Goto(t, IF session = "up" THEN sent ELSE failed)
  /\ UNCHANGED clientVars

\* The transport reports an error: the client closes the connection itself.
WriteFails(t, failed) ==
  /\ MutexFree
  /\ session = "up"
  /\ Disconnected(t, failed)
-----------------------------------------------------------------------------
(* mqtt_client_lib_init(), mqtt_client_connect(), mqtt_client_disconnect() *)

LibInit(t, done) ==
  /\ mqtt_state \in {"UNINIT", "DISCONNECTED"}
  /\ mqtt_state' = "DISCONNECTED"
  /\ Goto(t, done)
  /\ UNCHANGED <<session, connection_poll_sem>>

\* Mutated form: the state is not checked.
ConnectBegins_Unchecked(t, refused) ==
  /\ session' = "closed"
  /\ Goto(t, "getaddrinfo")
  /\ UNCHANGED <<mqtt_state, connection_poll_sem>>

\* From the check of the state to getaddrinfo().  mqtt_client_init() clears
\* the client: a socket it still had open is lost.
ConnectBegins(t, refused) ==
  IF mqtt_state = "DISCONNECTED"
  THEN /\ session' = "closed"
       /\ Goto(t, "getaddrinfo")
       /\ UNCHANGED <<mqtt_state, connection_poll_sem>>
  ELSE Goto(t, refused) /\ UNCHANGED clientVars

Resolved(t) ==
  /\ At(t, "getaddrinfo")
  /\ mqtt_state' = "TRANSPORT_CONNECTING"
  /\ Goto(t, "mqtt_connect")
  /\ UNCHANGED <<session, connection_poll_sem>>

ResolveFails(t) ==
  /\ At(t, "getaddrinfo")
  /\ Goto(t, "connect_failed")
  /\ UNCHANGED clientVars

TransportConnects(t) ==
  /\ At(t, "mqtt_connect")
  /\ session' = "opened"
  /\ mqtt_state' = "TRANSPORT_CONNECTED"
  /\ Goto(t, "transport_connected")
  /\ UNCHANGED connection_poll_sem

ConnectRequested(t) ==
  /\ At(t, "transport_connected")
  /\ mqtt_state' = "CONNECTING"
  /\ Goto(t, "sem_give")
  /\ UNCHANGED <<session, connection_poll_sem>>

\* Mutated form: the poll loop is not woken.
SemGive_Forgotten(t, done) ==
  /\ At(t, "sem_give")
  /\ Goto(t, done)
  /\ UNCHANGED clientVars

SemGive(t, done) ==
  /\ At(t, "sem_give")
  /\ connection_poll_sem' = 1
  /\ Goto(t, done)
  /\ UNCHANGED <<mqtt_state, session>>

TransportConnectFails(t) ==
  /\ At(t, "mqtt_connect")
  /\ Goto(t, "connect_failed")
  /\ UNCHANGED clientVars

\* The CONNECT packet itself cannot be written: the event comes first, the
\* error return after it.
ConnectWriteFails(t) ==
  /\ At(t, "mqtt_connect")
  /\ Disconnected(t, "connect_failed")

\* Mutated form: the error is returned without resetting the state.
ConnectFailed_StateKept(t, callback, r) ==
  /\ At(t, "connect_failed")
  /\ Call(t, callback, r)
  /\ UNCHANGED clientVars

ConnectFailed(t, callback, r) ==
  /\ At(t, "connect_failed")
  /\ mqtt_state' = "DISCONNECTED"
  /\ Call(t, callback, r)
  /\ UNCHANGED <<session, connection_poll_sem>>

\* mqtt_client_disconnect() up to mqtt_disconnect().
DisconnectBegins(t, done) ==
  IF mqtt_state = "CONNECTED"
  THEN /\ mqtt_state' = "DISCONNECTING"
       /\ Goto(t, "mqtt_disconnect")
       /\ UNCHANGED <<session, connection_poll_sem>>
  ELSE Goto(t, done) /\ UNCHANGED clientVars

DisconnectSent(t, done) ==
  /\ At(t, "mqtt_disconnect") /\ MutexFree
  /\ session = "up"
  /\ Disconnected(t, done)

\* The write of DISCONNECT fails: the client reports the loss, and then
\* mqtt_disconnect() returns the error.
DisconnectWriteFails(t) ==
  /\ At(t, "mqtt_disconnect") /\ MutexFree
  /\ session = "up"
  /\ Disconnected(t, "disconnect_failed")

\* There was no session left to disconnect (-ENOTCONN, no event).
DisconnectRefused(t) ==
  /\ At(t, "mqtt_disconnect") /\ MutexFree
  /\ session # "up"
  /\ Goto(t, "disconnect_failed")
  /\ UNCHANGED clientVars

\* "Treat the situation as an ungraceful disconnect": on_disconnect is called
\* from here, whether or not the client called it already.
DisconnectFailed(t, done) ==
  /\ At(t, "disconnect_failed")
  /\ mqtt_state' = "DISCONNECTED"
  /\ Call(t, "on_disconnect", done)
  /\ UNCHANGED <<session, connection_poll_sem>>
-----------------------------------------------------------------------------
(* mqtt_client_poll_loop()                                                 *)

SemTake ==
  /\ At(Poll, "sem_take")
  /\ connection_poll_sem = 1
  /\ connection_poll_sem' = 0
  /\ Goto(Poll, "poll_check")
  /\ UNCHANGED <<mqtt_state, session>>

PollCheck ==
  /\ At(Poll, "poll_check")
  /\ Goto(Poll, IF mqtt_state \in {"CONNECTING", "CONNECTED"}
                THEN "poll" ELSE "poll_exit")
  /\ UNCHANGED clientVars

\* The keepalive time is over and mqtt_live() is content.
KeptAlive ==
  /\ At(Poll, "poll") /\ MutexFree
  /\ session = "up"
  /\ Goto(Poll, "poll_check")
  /\ UNCHANGED clientVars

\* Another thread closed the session: poll() reports POLLNVAL, or mqtt_input()
\* or mqtt_live() that there is no connection.
PollLeaves ==
  /\ At(Poll, "poll") /\ MutexFree
  /\ session = "closed"
  /\ Goto(Poll, "poll_exit")
  /\ UNCHANGED clientVars

\* poll() fails or reports POLLHUP or POLLERR, no CONNACK came within the
\* keepalive time and mqtt_live() has no session to ping on, or mqtt_input()
\* meets the rest of a PUBLISH that did not fit the payload buffer.
PollError ==
  /\ At(Poll, "poll")
  /\ session # "closed"
  /\ Goto(Poll, "poll_exit")
  /\ UNCHANGED clientVars

\* mqtt_input() or mqtt_live() meets the end of the connection: the client
\* reports it, returns an error, and the loop is left.
ConnectionLost ==
  /\ At(Poll, "poll") /\ MutexFree
  /\ session # "closed"
  /\ Disconnected(Poll, "poll_exit")

ConnackAccepted ==
  /\ At(Poll, "poll") /\ MutexFree
  /\ session = "opened"
  /\ session' = "up"
  /\ mqtt_state' = "CONNECTED"
  /\ Goto(Poll, "on_connack")
  /\ UNCHANGED connection_poll_sem

\* The library is DISCONNECTED from here on, the client closes the socket
\* only after the callback has returned (RefusedClose).
ConnackRefused ==
  /\ At(Poll, "poll") /\ MutexFree
  /\ session = "opened"
  /\ mqtt_state' = "DISCONNECTED"
  /\ Goto(Poll, "on_connack_refused")
  /\ UNCHANGED <<session, connection_poll_sem>>

RefusedClose ==
  /\ At(Poll, "refused_close") /\ MutexFree
  /\ Disconnected(Poll, "poll_exit")

\* PUBLISH: a message that fits payload_buf is handed to the application, and
\* acknowledged before if it is of QoS 1; one that does not is dropped.
PublishReceived ==
  /\ At(Poll, "poll") /\ MutexFree
  /\ session = "up"
  /\ \E l \in {"puback", "on_publish", "input_done"} : Goto(Poll, l)
  /\ UNCHANGED clientVars

InputDone ==
  /\ At(Poll, "input_done")
  /\ Goto(Poll, IF mqtt_state \in {"DISCONNECTED", "UNINIT"}
                THEN "poll_exit" ELSE "poll_check")
  /\ UNCHANGED clientVars

\* Mutated form: the loop declares the connection lost without mqtt_abort().
PollExit_NoAbort ==
  /\ At(Poll, "poll_exit")
  /\ mqtt_state' = "DISCONNECTED"
  /\ Call(Poll, "on_disconnect", "sem_take")
  /\ UNCHANGED <<session, connection_poll_sem>>

\* mqtt_abort() only reports a session it closes.
PollExit ==
  /\ At(Poll, "poll_exit")
  /\ \/ /\ mqtt_state # "DISCONNECTING" /\ MutexFree
        /\ session # "closed"
        /\ Disconnected(Poll, "sem_take")
     \/ /\ mqtt_state = "DISCONNECTING" \/ (session = "closed" /\ MutexFree)
        /\ Goto(Poll, "sem_take")
        /\ UNCHANGED clientVars
=============================================================================
