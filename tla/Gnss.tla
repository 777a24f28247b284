-------------------------------- MODULE Gnss --------------------------------
(***************************************************************************)
(* The GNSS module, gnss.c: gnss_task answers one location request after   *)
(* the other, and gnss_event_handler(), which the modem calls from its own *)
(* context, copies each position frame to last_pvt and gives pvt_data_sem. *)
(* The two share both without a lock.                                      *)
(*                                                                         *)
(* The receiver is external: while it searches it delivers frames, some of *)
(* them with a valid fix, and in single-fix mode it stops by itself after  *)
(* the first valid one or after a time of its own.  Of a frame the model   *)
(* keeps whether the fix is valid and, as history, whether it was already  *)
(* the answer to a request.                                                *)
(*                                                                         *)
(* Time is counted from the beginning of a request, in the unit of         *)
(* k_uptime_get(), up to Overrun past the deadline.  A step of the task is *)
(* the code between two points where the callback matters: a call to the   *)
(* modem, the semaphore, a publication, a read of last_pvt.                *)
(*                                                                         *)
(* A request ends with one publication: its position, TIMEOUT, or the      *)
(* error of the call that failed.  Two errors are published beside it:     *)
(* STOP_FAILED by gnss_stop(), whose callers go on, and PVT_READ_FAILED by *)
(* the callback.                                                           *)
(***************************************************************************)
EXTENDS Naturals

CONSTANTS
  FixTimeout,      \* CONFIG_MQTT_SAMPLE_GNSS_FIX_TIMEOUT, in seconds
  TicksPerSecond,  \* CONFIG_SYS_CLOCK_TICKS_PER_SEC
  MsPerSecond,     \* units of k_uptime_get() in a second: 1000 in the code
  Overrun,         \* bound: how far past the deadline time is counted
  QueueSize        \* CONFIG_MQTT_SAMPLE_GNSS_MESSAGE_QUEUE_SIZE

ASSUME TimeAssumption ==
  /\ FixTimeout \in Nat \ {0}
  /\ TicksPerSecond \in Nat \ {0}
  /\ MsPerSecond \in Nat \ {0}
  /\ Overrun \in Nat
ASSUME GnssAssumption == QueueSize \in Nat \ {0}

VARIABLES
  gnss_initialized, gnss_running,
  last_pvt,       \* flags of the latest frame; history: it was an answer
  pvt_data_sem,
  pc,             \* control point of gnss_task
  subscription,   \* commands waiting in the subscriber's queue
  elapsed,        \* time since the request began
  receiver,       \* external: what the modem's receiver is doing
  hasty,          \* history: a frame came after its semaphore was taken, before it was read
  answer,         \* history: how the latest request ended
  beside          \* history: errors published since it began that did not end it

shared == <<last_pvt, pvt_data_sem, receiver, hasty>>
vars == <<gnss_initialized, gnss_running, shared, pc, subscription, elapsed, answer, beside>>

Frames == [valid : BOOLEAN, answered : BOOLEAN]

Init ==
  /\ gnss_initialized = FALSE /\ gnss_running = FALSE
  /\ last_pvt = [valid |-> FALSE, answered |-> FALSE]
  /\ pvt_data_sem = 0
  /\ pc = "sub_wait"
  /\ subscription = 0
  /\ elapsed = 0
  /\ receiver = "off"
  /\ hasty = FALSE
  /\ answer = "none" /\ beside = {}

\* deadline_ms - k_uptime_get() at the beginning: a number of ticks that is
\* used as a number of milliseconds (line 188).
Deadline == FixTimeout * TicksPerSecond

Goto(l) == pc' = l
-----------------------------------------------------------------------------
(* The calls into the modem before the wait, in the order gnss_init() and  *)
(* gnss_start_single_fix() make them.  The use case is not critical.       *)

NextCall ==
  [activate |-> "event_handler", event_handler |-> "use_case", use_case |-> "power_mode",
   power_mode |-> "start_single_fix", fix_retry |-> "fix_interval", fix_interval |-> "start",
   start |-> "loop"]
ModemCalls == DOMAIN NextCall
StopCalls == {"stop_fix", "stop_timeout"}
StopFailed == [stop_fix |-> "stop_fix_failed", stop_timeout |-> "stop_timeout_failed"]

Begin ==
  /\ pc = "sub_wait" /\ subscription > 0
  /\ subscription' = subscription - 1
  /\ elapsed' = 0
  /\ answer' = "none" /\ beside' = {}
  /\ Goto(IF gnss_initialized THEN "start_single_fix" ELSE "activate")
  /\ UNCHANGED <<gnss_initialized, gnss_running, shared>>

StartSingleFix ==
  /\ pc = "start_single_fix"
  /\ Goto(IF gnss_running THEN "loop" ELSE "fix_retry")
  /\ UNCHANGED <<gnss_initialized, gnss_running, shared, subscription, elapsed, answer, beside>>

CallSucceeds ==
  /\ pc \in ModemCalls
  /\ Goto(NextCall[pc])
  /\ gnss_initialized' = (gnss_initialized \/ pc = "power_mode")
  /\ gnss_running' = (gnss_running \/ pc = "start")
  /\ receiver' = IF pc = "start" THEN "searching" ELSE receiver
  /\ UNCHANGED <<last_pvt, pvt_data_sem, hasty, subscription, elapsed, answer, beside>>

\* Mutated form: the error is returned without being published.
CallFails_Silent ==
  /\ pc \in ModemCalls
  /\ Goto(IF pc = "use_case" THEN "power_mode" ELSE "sub_wait")
  /\ UNCHANGED <<gnss_initialized, gnss_running, shared, subscription, elapsed, answer, beside>>

CallFails ==
  /\ pc \in ModemCalls
  /\ Goto(IF pc = "use_case" THEN "power_mode" ELSE "publish_error")
  /\ UNCHANGED <<gnss_initialized, gnss_running, shared, subscription, elapsed, answer, beside>>
-----------------------------------------------------------------------------
(* handle_get_location() from the start of the receiver on.                *)

Loop ==
  /\ pc = "loop"
  /\ Goto(IF elapsed >= Deadline THEN "stop_timeout" ELSE "sem_take")
  /\ UNCHANGED <<gnss_initialized, gnss_running, shared, subscription, elapsed, answer, beside>>

\* Mutated form: the frame is looked at but the semaphore is not taken.
TakeFrame_Peek ==
  /\ pc = "sem_take" /\ pvt_data_sem > 0
  /\ Goto("check")
  /\ UNCHANGED <<gnss_initialized, gnss_running, shared, subscription, elapsed, answer, beside>>

TakeFrame ==
  /\ pc = "sem_take" /\ pvt_data_sem > 0
  /\ pvt_data_sem' = pvt_data_sem - 1
  /\ Goto("check")
  /\ UNCHANGED <<gnss_initialized, gnss_running, last_pvt, receiver, hasty,
                 subscription, elapsed, answer, beside>>

\* Mutated form: the receiver is left on.
WaitTimesOut_NotStopped ==
  /\ pc = "sem_take" /\ elapsed >= Deadline
  /\ Goto("publish_error")
  /\ UNCHANGED <<gnss_initialized, gnss_running, shared, subscription, elapsed, answer, beside>>

WaitTimesOut ==
  /\ pc = "sem_take" /\ elapsed >= Deadline
  /\ Goto("stop_timeout")
  /\ UNCHANGED <<gnss_initialized, gnss_running, shared, subscription, elapsed, answer, beside>>

CheckFlags ==
  /\ pc = "check"
  /\ Goto(IF last_pvt.valid THEN "extract" ELSE "loop")
  /\ UNCHANGED <<gnss_initialized, gnss_running, shared, subscription, elapsed, answer, beside>>

\* The latitude, the longitude and the accuracy are read without a lock.
Extract ==
  /\ pc = "extract"
  /\ last_pvt' = [last_pvt EXCEPT !.answered = TRUE]
  /\ Goto("stop_fix")
  /\ UNCHANGED <<gnss_initialized, gnss_running, pvt_data_sem, receiver, hasty,
                 subscription, elapsed, answer, beside>>

\* gnss_stop(), whose result both callers ignore.
AfterStop ==
  IF pc \in {"stop_fix", "stop_fix_failed"} THEN "publish_position" ELSE "publish_error"

StopSucceeds ==
  /\ pc \in StopCalls
  /\ gnss_running' = FALSE
  /\ receiver' = IF gnss_running THEN "off" ELSE receiver
  /\ Goto(AfterStop)
  /\ UNCHANGED <<gnss_initialized, last_pvt, pvt_data_sem, hasty, subscription, elapsed,
                 answer, beside>>

\* Mutated form: the module believes that the receiver is off.
StopFails_FlagCleared ==
  /\ pc \in StopCalls /\ gnss_running
  /\ gnss_running' = FALSE
  /\ Goto(StopFailed[pc])
  /\ UNCHANGED <<gnss_initialized, shared, subscription, elapsed, answer, beside>>

StopFails ==
  /\ pc \in StopCalls /\ gnss_running
  /\ Goto(StopFailed[pc])
  /\ UNCHANGED <<gnss_initialized, gnss_running, shared, subscription, elapsed, answer, beside>>

\* publish_gnss_error(GNSS_ERROR_STOP_FAILED).  It is published, or only logged when
\* the subscriber's queue stays full for a second; the request goes on.
PublishStopFailed ==
  /\ pc \in {"stop_fix_failed", "stop_timeout_failed"}
  /\ beside' = beside \cup {"stop_failed"}
  /\ Goto(AfterStop)
  /\ UNCHANGED <<gnss_initialized, gnss_running, shared, subscription, elapsed, answer>>

\* zbus_chan_pub() of the answer, on GPS_DATA_CHAN or GNSS_ERROR_CHAN.
Publish ==
  /\ pc \in {"publish_position", "publish_error"}
  /\ answer' = IF pc = "publish_position" THEN "position" ELSE "error"
  /\ Goto("sub_wait")
  /\ UNCHANGED <<gnss_initialized, gnss_running, shared, subscription, elapsed, beside>>

\* The subscriber's queue stays full for a second: the answer is only logged.
PublishTimesOut ==
  /\ pc \in {"publish_position", "publish_error"}
  /\ answer' = "lost"
  /\ Goto("sub_wait")
  /\ UNCHANGED <<gnss_initialized, gnss_running, shared, subscription, elapsed, beside>>
-----------------------------------------------------------------------------
(* gnss_event_handler() and the receiver.                                  *)

\* The value given to gnss_modem_fix_interval_set(): 0 is single-fix mode.
FixInterval == 0

FrameComes(valid) ==
  /\ receiver = "searching"
  /\ receiver' = IF valid /\ FixInterval = 0 THEN "off" ELSE "searching"
  /\ UNCHANGED <<gnss_initialized, gnss_running, pc, subscription, elapsed, answer>>

\* A frame that is copied while gnss_task is between the semaphore and its reads.
Copied(valid) ==
  /\ last_pvt' = [valid |-> valid, answered |-> FALSE]
  /\ hasty' = (hasty \/ pc \in {"check", "extract"})
  /\ UNCHANGED beside

\* Mutated form: a counting semaphore.
PvtEvent_Counting ==
  \E valid \in BOOLEAN :
    /\ FrameComes(valid) /\ Copied(valid)
    /\ pvt_data_sem < 3
    /\ pvt_data_sem' = pvt_data_sem + 1

PvtEvent ==
  \E valid \in BOOLEAN :
    /\ FrameComes(valid) /\ Copied(valid)
    /\ pvt_data_sem' = 1

\* The frame cannot be read and is gone.  publish_gnss_error() is called from the
\* callback, with the same second to wait; a request goes on waiting.
PvtReadFails ==
  \E valid \in BOOLEAN :
    /\ FrameComes(valid)
    /\ beside' = beside \cup {"pvt_read_failed"}
    /\ UNCHANGED <<last_pvt, pvt_data_sem, hasty>>

\* The time given to gnss_modem_fix_retry_set() is over.
ReceiverGivesUp ==
  /\ receiver = "searching"
  /\ receiver' = "off"
  /\ UNCHANGED <<gnss_initialized, gnss_running, last_pvt, pvt_data_sem, hasty,
                 pc, subscription, elapsed, answer, beside>>

\* Time passes in calls to the modem and in publications, also past the deadline;
\* the wait itself ends at the deadline.
Tick ==
  /\ pc # "sub_wait"
  /\ elapsed < IF pc = "sem_take" THEN Deadline ELSE Deadline + Overrun
  /\ elapsed' = elapsed + 1
  /\ UNCHANGED <<gnss_initialized, gnss_running, shared, pc, subscription, answer, beside>>

\* on_mqtt_publish() publishes GNSS_CMD_GET_LOCATION.  With the queue full it
\* waits for a second and gives up: the request is never taken.
GetLocation ==
  /\ subscription < QueueSize
  /\ subscription' = subscription + 1
  /\ UNCHANGED <<gnss_initialized, gnss_running, shared, pc, elapsed, answer, beside>>
-----------------------------------------------------------------------------
ModemReturns == CallSucceeds \/ CallFails \/ StopSucceeds \/ StopFails

Wait == Loop \/ TakeFrame \/ WaitTimesOut \/ CheckFlags

Answer == Publish \/ PublishTimesOut

TaskStep ==
  Begin \/ StartSingleFix \/ ModemReturns \/ Wait \/ Extract \/ PublishStopFailed \/ Answer

Callback == PvtEvent \/ PvtReadFails

Next == TaskStep \/ Callback \/ ReceiverGivesUp \/ Tick \/ GetLocation

Spec == Init /\ [][Next]_vars

\* gnss_task runs when it can, the modem returns from a call, and time passes.
\* Frames and requests are under no fairness.
Fairness == WF_vars(TaskStep) /\ WF_vars(Tick)

FairSpec == Spec /\ Fairness
-----------------------------------------------------------------------------
(* Properties.                                                             *)

Labels ==
  ModemCalls \cup StopCalls
    \cup {"sub_wait", "start_single_fix", "loop", "sem_take", "check", "extract",
          "stop_fix_failed", "stop_timeout_failed", "publish_position", "publish_error"}

\* Type invariant: the task only gets to places of its own, and gnss_event_handler()
\* gives a semaphore that holds one (gnss.c:26).
TypeOK ==
  /\ gnss_initialized \in BOOLEAN /\ gnss_running \in BOOLEAN
  /\ last_pvt \in Frames
  /\ pvt_data_sem \in 0..1
  /\ pc \in Labels
  /\ subscription \in 0..QueueSize
  /\ elapsed \in 0..Deadline + Overrun
  /\ receiver \in {"off", "searching"}
  /\ hasty \in BOOLEAN
  /\ answer \in {"none", "position", "error", "lost"}
  /\ beside \subseteq {"stop_failed", "pvt_read_failed"}

\* A frame is the answer to one request only, unless it is copied between the
\* semaphore and the reads: a later request does not find the semaphore still given
\* for a frame that has been answered, whether the requests between found a fix,
\* timed out or failed (gnss.c:211-229).
NoPositionTwice == ~hasty /\ pc = "extract" => ~last_pvt.answered

\* A receiver that is still searching after its request has ended is known to
\* be: the next request that ends will try to stop it again (gnss.c:170), and
\* none starts it a second time (gnss.c:126).
ReceiverIsKnown == receiver = "searching" => gnss_running

\* A request takes the receiver for running, and does not start it, only if the
\* request just before could not stop it: every way out of a request, with a fix or
\* with either timeout, stops it again (gnss.c:126, 204-217, 234).
StoppedUnlessFailed ==
  pc = "sub_wait" /\ gnss_running => "stop_failed" \in beside

\* Each request ends once and in the end, with a position or an error, whichever
\* call fails and whenever frames come; other errors come beside that
\* (gnss.c:38-44, 170-174, 183-244).
Service == INSTANCE LocationService
  WITH service <- IF pc = "sub_wait" THEN "idle" ELSE "busy"
AnswersEachRequest == Service!Spec

\* The wait for a fix is no longer than the configured time: "Maximum time to
\* wait for a GPS fix before timing out." (Kconfig.gnss:33).
WaitIsBounded == pc = "sem_take" => elapsed <= FixTimeout * MsPerSecond
=============================================================================
