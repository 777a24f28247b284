------------------------------ MODULE ClientId ------------------------------
(***************************************************************************)
(* The names a session goes by: Transport composed with the buffers that   *)
(* hold them.  mqtt_connect_work_fn() fills client_id, and from it every   *)
(* topic, on each attempt, before it knows whether the library accepts the *)
(* attempt; client_connect() takes the client id and the will topic from   *)
(* it only when it does.                                                   *)
(*                                                                         *)
(* The id stands for itself and for the topics it prefixes.  That hw_id    *)
(* has none, or that a name does not fit, is ClientIdFails of Transport.   *)
(***************************************************************************)
EXTENDS Transport

CONSTANTS
  Ids,              \* what sys_rand32_get() may make of an id
  CustomId,         \* CONFIG_MQTT_SAMPLE_TRANSPORT_CLIENT_ID, when it is not empty
  HwId              \* what hw_id_get() returns on this device

ASSUME ClientIdAssumption ==
  CustomId \in Ids /\ HwId \in Ids /\ "none" \notin Ids

VARIABLES
  id_source,        \* where the build takes the id from
  client_id,        \* the buffer, and the prefix of the topics of transport.c
  will_topic,       \* the prefix in last_will_topic_buf
  session_id,       \* the id in the CONNECT packet of the latest session
  subscribed_as     \* the prefix of the topic that the session has subscribed

idVars == <<id_source, client_id, will_topic, session_id, subscribed_as>>

IdInit ==
  /\ Init
  /\ id_source \in {"custom", "random", "hw_id"}
  /\ client_id = "none" /\ will_topic = "none" /\ session_id = "none" /\ subscribed_as = "none"
-----------------------------------------------------------------------------
\* A step of transport_queue from one place in its code to another.
Moves(from, to) == pc[Queue] = from /\ pc'[Queue] = to

Restarts == pc[Task] # "start" /\ pc'[Task] = "start"

\* client_id_get(): the first source that the build has.
ClientIdGet ==
  CASE id_source = "custom" -> {CustomId}
    [] id_source = "random" -> Ids
    [] id_source = "hw_id" -> {HwId}

\* The first thing an attempt does is to call it, and topics_prefix() after it; when
\* one of them fails the buffer may have been written or not.
NewId ==
  IF Moves("client_id", "getaddrinfo") \/ Moves("client_id", "work_retry") THEN ClientIdGet
  ELSE IF Moves("client_id", "work_done") THEN ClientIdGet \cup {client_id}
  ELSE {client_id}

\* Mutated form: the will topic is formatted for the first session only.
WillTopic_Once ==
  IF Moves("getaddrinfo", "mqtt_connect") /\ will_topic = "none" THEN client_id ELSE will_topic

\* client_connect(), after the broker's name was resolved.
WillTopic == IF Moves("getaddrinfo", "mqtt_connect") THEN client_id ELSE will_topic

\* mqtt_connect() sends the id that mqtt_client points to.
SessionId == IF Moves("mqtt_connect", "transport_connected") THEN client_id ELSE session_id

\* subscribe() reads sub_topic as it is when the packet is written.
SubscribedAs ==
  IF session' # "up" THEN "none"
  ELSE IF pc[Poll] = "subscribe" /\ pc'[Poll] # "subscribe" THEN client_id
  ELSE subscribed_as

IdNext ==
  /\ Next
  /\ UNCHANGED id_source
  /\ subscribed_as' = SubscribedAs
  /\ IF Restarts
     THEN client_id' = "none" /\ will_topic' = "none" /\ session_id' = "none"
     ELSE client_id' \in NewId /\ will_topic' = WillTopic /\ session_id' = SessionId

IdSpec == IdInit /\ [][IdNext]_<<vars, idVars>>
-----------------------------------------------------------------------------
(* Properties.                                                             *)

\* The will of a session is about the session's own client, even when attempts
\* that the library rejected have put another name in the buffer it was made
\* from (mqtt_client.c:491-507).
WillIsSessions == session # "closed" => will_topic = session_id

\* Once a session has subscribed, the topics that the device publishes on keep the
\* prefix it has subscribed with: no attempt formats them anew as long as the session
\* is up, whatever was planned before it came up (transport.c:474, 397-413).  With random
\* ids an attempt that the library rejects would take the device out of its own topics.
TopicsKept ==
  session = "up" /\ subscribed_as # "none" => client_id = subscribed_as
=============================================================================
