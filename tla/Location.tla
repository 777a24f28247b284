------------------------------ MODULE Location ------------------------------
(***************************************************************************)
(* A location on its way to the broker: Gnss composed with the message     *)
(* that transport_task makes of each position it finds in GPS_DATA_CHAN.   *)
(*                                                                         *)
(* One number stands for the latitude, the longitude and the accuracy of   *)
(* a position: the two coordinates are printed alike.  A message is looked *)
(* at until the next request begins.                                       *)
(***************************************************************************)
EXTENDS Gnss, GpsMessage

CONSTANT Degrees   \* coordinates are taken from -Degrees .. Degrees

ASSUME LocationAssumption == Degrees \in Nat \ {0}

VARIABLES
  coordinate,   \* history: the position that was published, in units
  message       \* what was printed of it

locationVars == <<vars, coordinate, message>>

Coordinates == -(Degrees * Parts * Scale) .. Degrees * Parts * Scale
AccuracyOf(n) == Distance(n, 0)
Nothing == [neg |-> FALSE, whole |-> 0, fraction |-> <<>>, accuracy |-> <<0, 0>>]

LocationInit == Init /\ coordinate = 0 /\ message = Nothing

\* publish_gps_data(), for a position that got into the channel's queue.
publish_gps_data ==
  /\ Publish /\ answer' = "position"
  /\ coordinate' \in Coordinates
  /\ message' = Printed(coordinate', AccuracyOf(coordinate'))

\* Any other step: the message is forgotten when a request begins.
OtherStep ==
  /\ Next /\ ~(answer # "position" /\ answer' = "position")
  /\ IF answer' = "none"
     THEN coordinate' = 0 /\ message' = Nothing
     ELSE UNCHANGED <<coordinate, message>>

LocationNext == publish_gps_data \/ OtherStep

\* Gnss's scheduling: gnss_task runs, the modem returns, time passes.
LocationSpec == LocationInit /\ [][LocationNext]_locationVars /\ Fairness
-----------------------------------------------------------------------------
(* Properties.                                                             *)

\* The coordinate that is read from the message is a decimal nearest to the one
\* that was measured, on either side of zero (publish_msg_factory.c:111-129,
\* :149-152).
NearestCoordinate ==
  message # Nothing => 2 * Distance(ReadCoordinate(message), coordinate) <= Parts

\* And so is the accuracy (publish_msg_factory.c:144-147).
NearestAccuracy ==
  message # Nothing => 2 * Distance(ReadAccuracy(message), AccuracyOf(coordinate)) <= Parts
=============================================================================
