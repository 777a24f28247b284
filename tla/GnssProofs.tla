----------------------------- MODULE GnssProofs -----------------------------
(***************************************************************************)
(* Theorems about Gnss, for every value of its constants: type             *)
(* correctness, that the receiver is never searching unknown to the        *)
(* module, that it is left running only by a stop that failed, that no     *)
(* frame that was read undisturbed answers two requests, and that the task *)
(* implements the safety part of LocationService.                          *)
(***************************************************************************)
EXTENDS Gnss, TLAPS

USE TimeAssumption, GnssAssumption
-----------------------------------------------------------------------------
(* Type correctness.                                                       *)

\* The deadline is a time that is not over when a request begins.
LEMMA DeadlineType == Deadline \in Nat /\ Deadline > 0 /\ Overrun \in Nat
BY DEF Deadline

\* gnss_task is at one of its control points when the device starts.
LEMMA TypeInit == Init => TypeOK
<1> SUFFICES ASSUME Init PROVE TypeOK
  OBVIOUS
<1>1. /\ gnss_initialized \in BOOLEAN /\ gnss_running \in BOOLEAN
      /\ hasty \in BOOLEAN
  BY Zenon DEF Init
<1>2. last_pvt \in Frames
  BY DEF Init, Frames
<1> QED
  BY <1>1, <1>2, DeadlineType DEF Init, TypeOK, Labels

\* Each step of the task, up to the wait, keeps the types.
LEMMA TypeStart ==
  ASSUME TypeOK, Begin \/ StartSingleFix \/ CallSucceeds \/ CallFails
  PROVE  TypeOK'
<1> USE DeadlineType DEF TypeOK, Labels, ModemCalls, NextCall, StopCalls, shared, Goto
<1>1. CASE Begin
  BY <1>1 DEF Begin
<1>2. CASE StartSingleFix
  BY <1>2 DEF StartSingleFix
<1>3. CASE CallSucceeds
  <2>1. gnss_initialized' \in BOOLEAN /\ gnss_running' \in BOOLEAN
    BY <1>3, Zenon DEF CallSucceeds
  <2> QED
    BY <1>3, <2>1 DEF CallSucceeds
<1>4. CASE CallFails
  BY <1>4 DEF CallFails
<1> QED
  BY <1>1, <1>2, <1>3, <1>4

\* So does each later one.
LEMMA TypeFix ==
  ASSUME TypeOK, Wait \/ Extract \/ StopSucceeds \/ StopFails \/ PublishStopFailed \/ Answer
  PROVE  TypeOK'
<1> USE DeadlineType DEF TypeOK, Labels, ModemCalls, NextCall, StopCalls, shared, Goto,
        StopFailed, AfterStop, Frames
<1>1. CASE Loop
  BY <1>1 DEF Loop
<1>2. CASE TakeFrame
  BY <1>2 DEF TakeFrame
<1>3. CASE WaitTimesOut
  BY <1>3 DEF WaitTimesOut
<1>4. CASE CheckFlags
  BY <1>4 DEF CheckFlags
<1>5. CASE Extract
  BY <1>5 DEF Extract
<1>6. CASE PublishStopFailed
  BY <1>6 DEF PublishStopFailed
<1>7. CASE StopSucceeds
  <2>1. gnss_running' \in BOOLEAN
    BY <1>7, Zenon DEF StopSucceeds
  <2> QED
    BY <1>7, <2>1 DEF StopSucceeds
<1>8. CASE StopFails
  BY <1>8 DEF StopFails
<1>9. CASE Publish
  BY <1>9 DEF Publish
<1>10. CASE PublishTimesOut
  BY <1>10 DEF PublishTimesOut
<1> QED
  BY <1>1, <1>2, <1>3, <1>4, <1>5, <1>6, <1>7, <1>8, <1>9, <1>10 DEF Wait, Answer

\* So do the callback, the receiver, time and the requests.
LEMMA TypeEnvironment ==
  ASSUME TypeOK, Callback \/ ReceiverGivesUp \/ Tick \/ GetLocation
  PROVE  TypeOK'
<1> USE DeadlineType DEF TypeOK, shared, Frames
<1>1. CASE PvtEvent
  <2>1. hasty' \in BOOLEAN
    BY <1>1, Zenon DEF PvtEvent, Copied
  <2> QED
    BY <1>1, <2>1 DEF PvtEvent, FrameComes, Copied
<1>2. CASE PvtReadFails
  BY <1>2 DEF PvtReadFails, FrameComes
<1>3. CASE ReceiverGivesUp
  BY <1>3 DEF ReceiverGivesUp
<1>4. CASE Tick
  BY <1>4 DEF Tick
<1>5. CASE GetLocation
  BY <1>5 DEF GetLocation
<1> QED
  BY <1>1, <1>2, <1>3, <1>4, <1>5 DEF Callback

\* Every step keeps the types.
LEMMA TypeNext == TypeOK /\ [Next]_vars => TypeOK'
<1>1. ASSUME TypeOK, Next PROVE TypeOK'
  BY <1>1, TypeStart, TypeFix, TypeEnvironment DEF Next, TaskStep, ModemReturns
<1>2. ASSUME TypeOK, UNCHANGED vars PROVE TypeOK'
  BY <1>2 DEF TypeOK, vars, shared
<1> QED
  BY <1>1, <1>2

\* The variables of gnss.c have their types, the semaphore its limit of one
\* (gnss.c:26), and the task is always at a control point of its own.
THEOREM TypeCorrect == Spec => []TypeOK
BY TypeInit, TypeNext, PTL DEF Spec
-----------------------------------------------------------------------------
(* The receiver.                                                           *)

\* No step leaves the receiver searching with gnss_running cleared: it is
\* started by the call that sets the flag and stopped by the one that clears it.
LEMMA ReceiverNext == TypeOK /\ ReceiverIsKnown /\ [Next]_vars => ReceiverIsKnown'
<1> SUFFICES ASSUME TypeOK, ReceiverIsKnown, [Next]_vars PROVE ReceiverIsKnown'
  OBVIOUS
<1> USE DEF ReceiverIsKnown, shared
<1>1. CASE Begin \/ StartSingleFix \/ CallFails
  BY <1>1 DEF Begin, StartSingleFix, CallFails
<1>2. CASE CallSucceeds
  BY <1>2 DEF CallSucceeds
<1>3. CASE StopSucceeds \/ StopFails
  BY <1>3 DEF StopSucceeds, StopFails
<1>4. CASE Wait
  BY <1>4 DEF Wait, Loop, TakeFrame, WaitTimesOut, CheckFlags
<1>5. CASE Extract \/ PublishStopFailed \/ Answer
  BY <1>5 DEF Extract, PublishStopFailed, Answer, Publish, PublishTimesOut
<1>6. CASE Callback \/ ReceiverGivesUp \/ Tick \/ GetLocation
  BY <1>6 DEF Callback, PvtEvent, PvtReadFails, FrameComes, ReceiverGivesUp, Tick, GetLocation
<1>7. CASE UNCHANGED vars
  BY <1>7 DEF vars
<1> QED
  BY <1>1, <1>2, <1>3, <1>4, <1>5, <1>6, <1>7 DEF Next, TaskStep, ModemReturns

\* A receiver that a failed stop left searching is known to be (gnss.c:170): the
\* next request that ends tries to stop it again, and none starts it twice.
THEOREM ReceiverKnown == Spec => []ReceiverIsKnown
<1>1. Init => ReceiverIsKnown
  BY DEF Init, ReceiverIsKnown
<1> QED
  BY <1>1, ReceiverNext, TypeCorrect, PTL DEF Spec
-----------------------------------------------------------------------------
(* What a request leaves behind.                                           *)

\* The labels at which a request has stopped the receiver, or tried to.
Ended == {"sub_wait", "publish_position", "publish_error"}

\* A receiver that runs is stopped on every way to the end of a request, and there
\* is one attempt to do so.  The calls before the wait are made with a receiver
\* that does not run, so that their errors leave none running.
StoppedInv ==
  /\ gnss_running => gnss_initialized
  /\ pc \in {"start_single_fix", "fix_retry", "fix_interval", "start"} => gnss_initialized
  /\ pc \in ModemCalls => ~gnss_running
  /\ pc \in Ended /\ gnss_running => "stop_failed" \in beside
  /\ pc \notin Ended => "stop_failed" \notin beside

\* Every step keeps it.
LEMMA StoppedNext == TypeOK /\ StoppedInv /\ [Next]_vars => StoppedInv'
<1> SUFFICES ASSUME TypeOK, StoppedInv, [Next]_vars PROVE StoppedInv'
  OBVIOUS
<1> USE DEF StoppedInv, Ended, ModemCalls, NextCall, StopCalls, Goto, shared
<1>1. CASE Begin \/ StartSingleFix
  BY <1>1 DEF Begin, StartSingleFix
<1>2. CASE CallSucceeds
  <2>1. ~gnss_running /\ pc' = NextCall[pc] /\ beside' = beside /\ pc' \notin Ended
    BY <1>2 DEF CallSucceeds
  <2>2. gnss_running' => pc = "start"
    BY <1>2, <2>1, Zenon DEF CallSucceeds
  <2>3. gnss_initialized => gnss_initialized'
    BY <1>2, Zenon DEF CallSucceeds
  <2>4. pc = "power_mode" => gnss_initialized'
    BY <1>2, Zenon DEF CallSucceeds
  <2>5. gnss_running' => pc' \notin ModemCalls
    BY <1>2, <2>1, <2>2
  <2>6. pc \in ModemCalls
    BY <1>2, Zenon DEF CallSucceeds, ModemCalls
  <2> QED
    BY <2>1, <2>2, <2>3, <2>4, <2>5, <2>6
<1>9. CASE CallFails
  BY <1>9 DEF CallFails
<1>3. CASE StopSucceeds \/ StopFails \/ PublishStopFailed
  BY <1>3 DEF StopSucceeds, StopFails, PublishStopFailed, StopFailed, AfterStop
<1>4. CASE Wait \/ Extract
  BY <1>4 DEF Wait, Loop, TakeFrame, WaitTimesOut, CheckFlags, Extract
<1>5. CASE Answer
  BY <1>5 DEF Answer, Publish, PublishTimesOut
<1>6. CASE Callback
  BY <1>6 DEF Callback, PvtEvent, PvtReadFails, FrameComes, Copied
<1>7. CASE ReceiverGivesUp \/ Tick \/ GetLocation
  BY <1>7 DEF ReceiverGivesUp, Tick, GetLocation
<1>8. CASE UNCHANGED vars
  BY <1>8 DEF vars
<1> QED
  BY <1>1, <1>2, <1>3, <1>4, <1>5, <1>6, <1>7, <1>8, <1>9 DEF Next, TaskStep, ModemReturns

\* The invariant, with the types.
LEMMA StoppedInvariance == Spec => []StoppedInv
<1>1. Init => StoppedInv
  BY DEF Init, StoppedInv, Ended, ModemCalls, NextCall
<1> QED
  BY <1>1, StoppedNext, TypeCorrect, PTL DEF Spec

\* A request finds the receiver running, and does not start it, only if the request
\* just before it could not stop it (gnss.c:126, 204-217, 234).
THEOREM StoppedEachTime == Spec => []StoppedUnlessFailed
<1>1. StoppedInv => StoppedUnlessFailed
  BY DEF StoppedInv, StoppedUnlessFailed, Ended
<1> QED
  BY <1>1, StoppedInvariance, PTL
-----------------------------------------------------------------------------
(* The frame, when none is copied between the semaphore and the reads.     *)

\* The semaphore is given for a frame that is not yet an answer, and it is taken
\* from the moment the flags are checked until the last field has been read.
FrameInv ==
  ~hasty =>
    /\ last_pvt.answered => pvt_data_sem = 0
    /\ pc \in {"check", "extract"} => pvt_data_sem = 0 /\ ~last_pvt.answered

\* The task: only TakeFrame leads to the checks, and it takes the semaphore.
LEMMA FrameTask ==
  ASSUME TypeOK, FrameInv, TaskStep
  PROVE  FrameInv'
<1> USE DEF TypeOK, FrameInv, Frames, Goto, shared
<1>1. CASE Begin \/ StartSingleFix
  BY <1>1 DEF Begin, StartSingleFix
<1>2. CASE CallSucceeds \/ CallFails
  BY <1>2 DEF CallSucceeds, CallFails, ModemCalls, NextCall
<1>3. CASE StopSucceeds \/ StopFails \/ PublishStopFailed
  BY <1>3 DEF StopSucceeds, StopFails, PublishStopFailed, StopCalls, StopFailed, AfterStop
<1>4. CASE Loop \/ WaitTimesOut
  BY <1>4 DEF Loop, WaitTimesOut
<1>5. CASE TakeFrame
  BY <1>5 DEF TakeFrame
<1>6. CASE CheckFlags
  BY <1>6 DEF CheckFlags
<1>7. CASE Extract
  BY <1>7 DEF Extract
<1>8. CASE Answer
  BY <1>8 DEF Answer, Publish, PublishTimesOut
<1> QED
  BY <1>1, <1>2, <1>3, <1>4, <1>5, <1>6, <1>7, <1>8 DEF TaskStep, ModemReturns, Wait

\* Every step: a frame that is copied while the task checks or reads one is hasty.
LEMMA FrameNext == TypeOK /\ FrameInv /\ [Next]_vars => FrameInv'
<1> SUFFICES ASSUME TypeOK, FrameInv, [Next]_vars PROVE FrameInv'
  OBVIOUS
<1> USE DEF TypeOK, FrameInv, Frames, shared
<1>1. CASE TaskStep
  BY <1>1, FrameTask
<1>2. CASE PvtEvent
  <2>1. ~hasty' => ~hasty /\ pc \notin {"check", "extract"}
    BY <1>2 DEF PvtEvent, Copied
  <2>2. pc' = pc /\ ~last_pvt'.answered
    BY <1>2 DEF PvtEvent, FrameComes, Copied
  <2> QED
    BY <2>1, <2>2
<1>3. CASE PvtReadFails \/ ReceiverGivesUp \/ Tick \/ GetLocation
  BY <1>3 DEF PvtReadFails, FrameComes, ReceiverGivesUp, Tick, GetLocation
<1>4. CASE UNCHANGED vars
  BY <1>4 DEF vars
<1> QED
  BY <1>1, <1>2, <1>3, <1>4 DEF Next, Callback

\* No frame answers a second request, unless one was copied between the semaphore
\* and the reads (gnss.c:211-229).
THEOREM OneRequestPerFrame == Spec => []NoPositionTwice
<1>1. Init => FrameInv
  BY DEF Init, FrameInv
<1>2. FrameInv => NoPositionTwice
  BY DEF FrameInv, NoPositionTwice
<1> QED
  BY <1>1, <1>2, FrameNext, TypeCorrect, PTL DEF Spec
-----------------------------------------------------------------------------
(* The implementation of LocationService.                                  *)

\* Taking a request is Accept and its last publication is Answer; between the two
\* the task neither answers nor becomes idle, whichever call fails, and it reports
\* at most one stop that failed.
LEMMA ServiceNext ==
  TypeOK /\ StoppedInv /\ [Next]_vars =>
    [Service!Next]_<<IF pc = "sub_wait" THEN "idle" ELSE "busy", answer, beside>>
<1> SUFFICES ASSUME TypeOK, StoppedInv, [Next]_vars
             PROVE  \/ Service!Next
                    \/ UNCHANGED <<answer, beside>> /\ (pc = "sub_wait" <=> pc' = "sub_wait")
  OBVIOUS
<1> USE DEF TypeOK, Goto, shared
<1>1. CASE Begin
  BY <1>1 DEF Begin, Service!Accept, Service!Next
<1>2. CASE StartSingleFix
  BY <1>2 DEF StartSingleFix
<1>3. CASE CallSucceeds \/ CallFails
  BY <1>3 DEF CallSucceeds, CallFails, ModemCalls, NextCall
<1>4. CASE StopSucceeds \/ StopFails
  BY <1>4 DEF StopSucceeds, StopFails, StopCalls, StopFailed, AfterStop
<1>5. CASE PublishStopFailed
  BY <1>5 DEF PublishStopFailed, AfterStop, StoppedInv, Ended, Service!StopFailed, Service!Next
<1>6. CASE Wait \/ Extract
  BY <1>6 DEF Wait, Loop, TakeFrame, WaitTimesOut, CheckFlags, Extract
<1>7. CASE Answer
  BY <1>7 DEF Answer, Publish, PublishTimesOut, Service!Answer, Service!Answers, Service!Next
<1>8. CASE Callback
  BY <1>8 DEF Callback, PvtEvent, PvtReadFails, FrameComes, Copied, Service!PvtReadFailed,
    Service!Next
<1>9. CASE ReceiverGivesUp \/ Tick \/ GetLocation
  BY <1>9 DEF ReceiverGivesUp, Tick, GetLocation
<1>10. CASE UNCHANGED vars
  BY <1>10 DEF vars
<1> QED
  BY <1>1, <1>2, <1>3, <1>4, <1>5, <1>6, <1>7, <1>8, <1>9, <1>10
  DEF Next, TaskStep, ModemReturns

\* gnss_task implements LocationService but for its liveness: a request ends once,
\* before the next one is taken, and the errors published beside it are those that
\* the service names, STOP_FAILED at most once and before the end.
THEOREM ImplementsLocationService == Spec => Service!Safety
<1>1. Init => Service!Init
  BY DEF Init, Service!Init
<1>2. TypeOK /\ StoppedInv /\ [Next]_vars =>
        [Service!Next]_<<IF pc = "sub_wait" THEN "idle" ELSE "busy", answer, beside>>
  BY ServiceNext
<1> QED
  BY <1>1, <1>2, StoppedInvariance, TypeCorrect, PTL DEF Spec, Service!Safety, Service!serviceVars
=============================================================================
