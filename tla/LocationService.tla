-------------------------- MODULE LocationService --------------------------
(***************************************************************************)
(* What gnss_task promises to whoever asks for a location: a request that  *)
(* is taken from GNSS_CMD_CHAN ends once, before the next one is taken,    *)
(* and it does end: with a position, with an error, or with either lost,   *)
(* when the publication times out (gnss.c:60 and 237).                     *)
(*                                                                         *)
(* It does not promise that nothing else is published.  Before the end of  *)
(* a request comes STOP_FAILED, once, if the receiver cannot be stopped,   *)
(* also when a position follows; PVT_READ_FAILED comes at any time, even   *)
(* between requests.  Gnss is shown to implement this module.              *)
(***************************************************************************)
VARIABLES service, answer, beside

serviceVars == <<service, answer, beside>>

Answers == {"position", "error", "lost"}

Init == service = "idle" /\ answer = "none" /\ beside = {}

Accept ==
  /\ service = "idle"
  /\ service' = "busy"
  /\ answer' = "none" /\ beside' = {}

Answer ==
  /\ service = "busy"
  /\ service' = "idle"
  /\ answer' \in Answers
  /\ UNCHANGED beside

\* After STOP_FAILED the request is about to end: there is no second one.
StopFailed ==
  /\ service = "busy" /\ "stop_failed" \notin beside
  /\ beside' = beside \cup {"stop_failed"}
  /\ UNCHANGED <<service, answer>>

PvtReadFailed ==
  /\ beside' = beside \cup {"pvt_read_failed"}
  /\ UNCHANGED <<service, answer>>

Next == Accept \/ Answer \/ StopFailed \/ PvtReadFailed

Safety == Init /\ [][Next]_serviceVars

Spec == Safety /\ WF_serviceVars(Answer)
=============================================================================
