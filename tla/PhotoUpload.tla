---------------------------- MODULE PhotoUpload ----------------------------
(***************************************************************************)
(* What a subscriber of the photo topics is promised: a photo is announced *)
(* with the number of its chunks, and then its chunks come, each one once, *)
(* in order, and no chunk of any other photo.  A photo may be abandoned:   *)
(* the next thing the subscriber hears of is another announcement.         *)
(* A promise may be weakened while a photo is on its way: to the order of  *)
(* its chunks, when one is lost on the way or overwritten before it is     *)
(* read; or to nothing, when the announcement of the next one is.  The next*)
(* announcement renews it.  Camera is shown to implement this module.      *)
(***************************************************************************)
EXTENDS Naturals

VARIABLES
  chunks,     \* announced for the photo under way, 0 before the first
  next,       \* number of the chunk that follows the latest one
  promise     \* "all", "order" or "nothing"

Init == chunks = 0 /\ next = 0 /\ promise = "all"

Announce ==
  /\ chunks' \in Nat \ {0}
  /\ next' = 0
  /\ promise' \in {"all", "order", "nothing"}

\* With the order alone, chunks may be missing, and the latest one may be repeated.
Send ==
  /\ next' \in Nat \ {0}
  /\ promise = "all" => next' = next + 1
  /\ promise = "order" => next' >= next
  /\ promise # "nothing" => next' <= chunks
  /\ UNCHANGED <<chunks, promise>>

Weaken ==
  /\ promise' \in IF promise = "all" THEN {"order", "nothing"} ELSE {"nothing"}
  /\ UNCHANGED <<chunks, next>>

Next == Announce \/ Send \/ Weaken

Spec == Init /\ [][Next]_<<chunks, next, promise>>
=============================================================================
