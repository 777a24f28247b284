--------------------------- MODULE MqttLifecycle ---------------------------
(***************************************************************************)
(* What the MQTT client library promises about its own state: it only ever *)
(* takes the transitions that mqtt_state_set() in                          *)
(* src/app/src/modules/mqtt_client/mqtt_client.c accepts.  An attempt at   *)
(* any other one ends in __ASSERT(false, "Illegal state transition") (line *)
(* 133; prj.conf sets CONFIG_ASSERT=y), so a caller order that asks for    *)
(* one stops the device.  MqttClient and Transport are shown to implement  *)
(* this module.                                                            *)
(***************************************************************************)
VARIABLE mqtt_state

States == {"UNINIT", "DISCONNECTED", "TRANSPORT_CONNECTING",
           "TRANSPORT_CONNECTED", "CONNECTING", "CONNECTED", "DISCONNECTING"}

\* The states that mqtt_state_set() accepts after each state.  A request for
\* the current state is skipped (line 73): it is a stuttering step here.
LegalMoves ==
  [UNINIT               |-> {"DISCONNECTED"},
   DISCONNECTED         |-> {"CONNECTING", "UNINIT", "TRANSPORT_CONNECTING"},
   TRANSPORT_CONNECTING |-> {"TRANSPORT_CONNECTED", "DISCONNECTED"},
   CONNECTING           |-> {"CONNECTED", "DISCONNECTED"},
   TRANSPORT_CONNECTED  |-> {"CONNECTING", "DISCONNECTED"},
   CONNECTED            |-> {"DISCONNECTING", "DISCONNECTED"},
   DISCONNECTING        |-> {"DISCONNECTED"}]

Init == mqtt_state = "UNINIT"

Move == mqtt_state' \in LegalMoves[mqtt_state]

\* The device restarts and the variable gets its initial value again.
Reboot == mqtt_state' = "UNINIT"

Next == Move \/ Reboot

Spec == Init /\ [][Next]_mqtt_state
=============================================================================
