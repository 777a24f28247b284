------------------------------- MODULE Status -------------------------------
(***************************************************************************)
(* The device seen from the broker: Transport composed with the broker's   *)
(* side of a session.  The device keeps a retained message on the last     *)
(* will topic, "online" from transport_mqtt_publish_lwt_online(), and      *)
(* leaves the broker a will, given in client_connect(), that replaces it.  *)
(*                                                                         *)
(* The broker is external.  It handles the packets of a session in order,  *)
(* some time after they were written; it notices some time later that a    *)
(* connection is gone, at the latest when the device connects again; and   *)
(* it publishes the will of a session that does not end with DISCONNECT.   *)
(* PUBLISH packets with data, and acknowledgements, are left out.          *)
(***************************************************************************)
EXTENDS Transport

VARIABLES
  wire,         \* packets of the latest session that the broker has not handled
  will,         \* the broker holds the will of a session it takes for alive
  retained,     \* the message on the last will topic
  subscribed    \* topics the broker has the session subscribed to

brokerVars == <<wire, will, retained, subscribed>>
statusVars == <<vars, brokerVars>>

Topics == {"subscribe"} \cup (IF SampleGnss THEN {"subscribe_gps"} ELSE {})
Packets == {"lwt_online", "subscribe", "subscribe_gps", "DISCONNECT"}

StatusInit ==
  /\ Init
  /\ wire = <<>> /\ will = FALSE /\ retained = "none"
  /\ subscribed = {}

\* will_message and will_retain: what the last will topic holds afterwards.
Will == "offline_unexpected"
-----------------------------------------------------------------------------
(* What a step of the device writes.                                       *)

SessionUp == session = "opened" /\ session' = "up"

\* The write that a thread was about to make succeeded.
Sent(l) == pc[Poll] = l /\ pc'[Poll] # l /\ session = "up" /\ session' = "up"

Disconnects ==
  pc[Task] = "mqtt_disconnect" /\ pc'[Task] = "on_disconnect" /\ ret'[Task] = "sub_wait"

\* CONNECT: a session of the same client that the broker takes for alive ends.
Connects ==
  /\ SessionUp
  /\ retained' = IF will THEN Will ELSE retained
  /\ will' = TRUE
  /\ wire' = <<>> /\ subscribed' = {}

Writes ==
  /\ ~SessionUp
  /\ wire' = IF Disconnects THEN Append(wire, "DISCONNECT")
             ELSE IF \E l \in Packets : Sent(l) THEN Append(wire, pc[Poll]) ELSE wire
  /\ UNCHANGED <<will, retained, subscribed>>

DeviceStep == Next /\ (Connects \/ Writes)
-----------------------------------------------------------------------------
(* The broker.                                                             *)

Handle ==
  /\ will /\ wire # <<>>
  /\ wire' = Tail(wire)
  /\ retained' = IF Head(wire) = "lwt_online" THEN "online" ELSE retained
  /\ subscribed' = IF Head(wire) \in Topics THEN subscribed \cup {Head(wire)} ELSE subscribed
  /\ will' = (Head(wire) # "DISCONNECT")
  /\ UNCHANGED vars

\* The connection is gone.  What was still under way is lost, DISCONNECT too.
NoticesLoss ==
  /\ will /\ session # "up"
  /\ will' = FALSE
  /\ retained' = Will
  /\ wire' = <<>> /\ subscribed' = {}
  /\ UNCHANGED vars

StatusNext == DeviceStep \/ Handle \/ NoticesLoss

StatusSpec == StatusInit /\ [][StatusNext]_statusVars
-----------------------------------------------------------------------------
(* Properties.                                                             *)

\* Nothing is under way at the device nor on its way to the broker, and the
\* broker has noticed the end of what has ended.
Settled == Quiescent /\ wire = <<>> /\ (session = "up" <=> will)

\* A device with a session is shown as online, whichever thread lost or closed the
\* session before, and although the result of publishing it is not looked at
\* (transport.c:118-126).
UpIsOnline == Settled /\ session = "up" => retained = "online"

\* A device with a session can be reached: it is subscribed to its topics,
\* whichever thread lost or closed the session before (transport.c:341-386).
UpIsSubscribed == Settled /\ session = "up" => subscribed = Topics
=============================================================================
