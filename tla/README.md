# TLA+ verification of the RemoteGuard controller

The controller is a Zephyr application (`src/app`) that keeps an MQTT session with a broker,
answers location requests from a GNSS receiver and sends photos of a camera. This directory
holds TLA+ modules of it, TLC configurations that model-check them, and theorems checked by
TLAPS. Four groups of modules stand side by side:

- the connection: the MQTT client library, the transport module around it, the network and
  error modules that feed them, and on top of these what the broker sees and which names a
  session goes by;
- location requests, from the modem's callback to the decimal in the message;
- photos, from the SPI transfer to the chunk at the broker;
- what stands apart: the message identifiers and the TLS credentials.

## Inventory

| Component | State | Operations | Hard part | Correct when |
|---|---|---|---|---|
| `modules/mqtt_client` | `mqtt_state`, `connection_poll_sem`, message id counter, the Zephyr client it wraps | `lib_init`, `connect`, `disconnect`, `publish*`, `subscribe`, `msg_id_get`, poll loop, event handler | entered by three threads without a lock of its own; callbacks run inside calls | only legal state transitions; no socket is forgotten; every connection is polled; the state is that of the session |
| `modules/transport` | SMF state, copy of the network status, flag `transport_mqtt_connected`, failure counter, delayable work item | `on_mqtt_connack`, `on_mqtt_disconnect`, `on_mqtt_publish`, `on_mqtt_suback`, state handlers, connect work, `transport_task`, `clean_offline` | callbacks in three threads; a work item that is cancelled while it runs | a lost connection is followed by an attempt; flag, state and session agree; the counter counts failures |
| `modules/network` | none | `l4_event_handler`, `connectivity_event_handler`, `network_task` | its publication may find the subscriber's queue full | the status reaches the transport |
| `modules/error` | none | `error_callback` | reboot in the middle of anything | the device starts over |
| `common/message_channel` | eight zbus channels, each with its latest value and observers | publish, read, wait | the value and the notification are separate | the last status, and the last command, wins |
| `transport/publish_msg_factory` | `meta_published`, `last_sequence` (written, never read) | publish GNSS data and errors, photo chunks | conversion of fixed-point numbers; binary data handled as a string | what is published is what was measured |
| `transport/client_id` | buffers of the id and the topics | once per attempt | filled before the library accepts the attempt | the will is the session's; its topics stay |
| `transport/credentials_provision` and `certificates_provision()` | what the modem keeps, Zephyr's TLS credentials, `certs_added` | once at boot; before the first connection | failures and restarts half-way | no connection without all credentials |
| `modules/gnss` | `gnss_initialized`, `gnss_running`, `last_pvt`, `pvt_data_sem` | location request, modem callback | callback against task; deadline; failure of stop | each request ends once; the receiver is stopped; no position is reported twice |
| `modules/camera` (off in `prj.conf`) | none across commands | commands, capture in chunks | chunks pass through a latest-value channel | every chunk is published once, in order; what is lost is lost to its photo only |
| `drivers/esp32cam` (off in `prj.conf`) | none | SPI command and answer | status and length checks | errors are told apart |
| tests, boards, scripts | | | | |

Threads: `mqtt_client_thread` (lowest application priority, `mqtt_client.c:877`), `transport_task`,
`network_task`, `gnss_task`, `camera_task` (priority 3), `transport_queue` (highest,
`transport.c:531`). Calls go from the transport into the library and from the library back
through callbacks, in whichever thread met the event. Everything else goes through zbus:
`network` to `NETWORK_CHAN`, `gnss` to `GPS_DATA_CHAN` and `GNSS_ERROR_CHAN`, every module to
`FATAL_ERROR_CHAN`, `on_mqtt_publish` to `GNSS_CMD_CHAN` and `CAMERA_CMD_CHAN`.

`PROJECT.json` lists the places where this goes wrong easily ("hazards"), with the property
that watches each.

## Modules

| Module | What it is |
|---|---|
| `MqttLifecycle` | Abstract specification of the library: the transitions that `mqtt_state_set()` accepts. |
| `MqttClient` | The library as seen by three threads: state, Zephyr's session below it, semaphore, control points. Action operators, no `Next`. |
| `Transport` | `MqttClient` with the callbacks of `transport.c`, the connect work, `transport_task`, network status, reboot, the scheduler, `Next`, `Spec`, and its properties. |
| `Status` | `Transport` composed with the broker: packets under way, the will, the retained status, subscriptions. |
| `ClientId` | `Transport` composed with the buffers of the client id, the last will topic and the topics a session subscribes. |
| `LocationService` | Abstract specification of `gnss_task`: each request ends once, and which errors come beside that. |
| `Gnss` | `gnss_task`, the modem's callback and receiver, the deadline, and what each publishes. |
| `GpsMessage` | The conversion of numbers in `publish_gps_data()`: operators only. |
| `Location` | `Gnss` composed with the message made of each position. |
| `PhotoUpload` | Abstract specification of photo uploads, as a subscriber sees them: what is promised, and what is left of it after a loss. |
| `Esp32Cam` | What the calls of the camera's driver return: operators only. |
| `Camera` | `camera_task`, its channels, and the part of `transport_task` that publishes photos. |
| `MsgId` | `mqtt_client_msg_id_get()` in two threads. |
| `Credentials` | Both ways of provisioning, with restarts and updates. |
| `TransportProofs`, `ClientIdProofs`, `StatusProofs` | Theorems about the connection, its names and what the broker shows of it, with their invariants and lemmas. |
| `GnssProofs`, `LocationProofs` | The same for location requests and the numbers in their answers. |
| `CameraProofs` | The same for photos. |
| `MsgIdProofs`, `CredentialsProofs` | The same for identifiers and credentials. |

Refinements: `Transport` implements `MqttLifecycle` (`LegalTransitions`), `Gnss` implements
`LocationService` (`AnswersEachRequest`), `Camera` implements `PhotoUpload` (`UploadsPhotos`). The
compositions add variables and restrict nothing: `ClientId` and `Status` implement `Transport`, `Location`
implements `Gnss`, so what is proved of the parts holds of the wholes.

### State of the connection

| Code | Model |
|---|---|
| `mqtt_state` (`mqtt_client.c:48`) | `mqtt_state` |
| the Zephyr client's socket and MQTT session | `session`: `closed`, `opened` (CONNECT sent), `up` (CONNACK accepted) |
| `connection_poll_sem` (`mqtt_client.c:46`) | `connection_poll_sem` in 0..1 |
| where each thread is, and where a callback returns to | `pc`, `ret` |
| `s_obj.ctx.current`, `s_obj.network_connection_status` | `smf_state`, `network_connection_status` |
| `transport_mqtt_connected`, `mqtt_broker_reconnect_failures` | `transport_mqtt_connected`, `failures` |
| flags of `mqtt_connect_work` in Zephyr's `k_work` | `work`, a subset of `DELAYED`, `QUEUED`, `RUNNING`, `CANCELING` |
| value of `NETWORK_CHAN`, message queue of the subscriber `transport` | `NETWORK_CHAN`, `subscription` |
| (history) this attempt or session is already in the counter | `charged`, read only by `RefusalChargedOnce` |
| (history) the last plan was cancelled at `transport.c:474`, or its attempt ended at `transport.c:401` | `dropped`, read by `PlanKept` and `GivenUp` |

### Steps of the connection

A step is the code between two points where another thread can get in between: a blocking
call, a write on the session, a callback boundary, or a variable that two threads share. The
steps are grouped by the thread that takes them (`PollStep`, `TaskStep`, `QueueStep`) and what
can go wrong is kept apart (`PollFault`, `TaskFault`, `QueueFault`, `Fault`), since only the
former are under fairness. Callbacks are labels that any thread may jump to (`Call`,
`Return`), so `on_mqtt_disconnect()` runs in the thread whose write or read met the loss, as it
does in the code.

`SEND_FATAL_ERROR()` of `network.c` is `NetworkFatalError`: with the reboot it may come at any time, from the connectivity
layer; without it, only the lost notification of `l4_event_handler()` shows, in `NETWORK_CHAN`.
The two fatal paths of `transport_task` that no state reaches are left out: `mqtt_client_lib_init()` runs once, in
`UNINIT`, and `smf_run_state()` returns an error only for a terminated machine. So is the
time-out of `zbus_chan_read()`, which needs a publisher to hold the channel for a second.

### Scheduling

Zephyr's scheduler is preemptive by priority, and the code relies on it. `Ready(t)` says that
thread `t` has code to run, that is, it neither waits for something nor sits in a socket call
that waits for the peer; `MayRun(t)` lets a thread step only while no thread of higher priority
is ready. A thread that waits for the peer (`getaddrinfo`, `connect`, a write on a live
session) is not ready, so the others go on in the meantime.

`SlowSources` names what never happens while a thread still has code to run: `timer` (the delay
of 5 or 60 s ends), `network` (a status change), `data` (a GNSS publication). Runs choose it as
weak as their property allows. `LegalTransitions` and `NoSessionLeak` do need `timer`: a thread
that is preempted in the middle of a few instructions for the whole reconnection delay could
meet the next attempt. The delays are configured; `CONFIG_MQTT_SAMPLE_TRANSPORT_RECONNECTION_TIMEOUT_SECONDS`
set to 0 would void that assumption.

### Zephyr

Modelled from how `src/` uses it and marked external in the map: the MQTT library (when it
closes, when it reports, its mutex, held during `mqtt_connect()`), `k_work_delayable`
(cancelling does not stop a running function, and only makes a submission fail until the function
ends), `smf_set_state()` (which runs the entry action also when the state does not change), the
scheduler.

### The broker and the names (`Status`, `ClientId`)

Both compose by conjunction: a step of the device is a step of `Transport!Next`, and what it
writes is read off the control points it leaves (`Sent`, `Disconnects`, `Moves`). The broker
handles packets in order but late, and notices late that a connection is gone, at the latest when the
client connects again; then it publishes the will. That it does so before the packets of the new
session is what brokers do, and assumed here.

The id stands for itself and for the topics it prefixes. `id_source` is where the build takes it from, a
configured name, the random generator or the hardware, and stays; `ClientIdGet` chooses by it as
`client_id_get()` does. `subscribed_as` is the prefix the session has subscribed with. An attempt
writes the buffers before the library decides whether it is accepted, so a rejected
attempt with a random id gives the buffers another name.

### Location requests (`Gnss`, `Location`)

| Code | Model |
|---|---|
| `gnss_initialized`, `gnss_running`, `pvt_data_sem` | the same |
| `last_pvt` | whether the fix is valid, and (history) whether it has been an answer |
| `k_uptime_get()` against `deadline_ms` | `elapsed` since the request began, also past `Deadline` |
| queue of the subscriber `gnss` | the number `subscription` |
| the modem's receiver (external) | `receiver`: frames come while it is searching |
| (history) | `hasty`: a frame was ever copied between the semaphore and the reads of `last_pvt`; `answer`: how the request ended; `beside`: which errors were published that did not end it |

A step of the task ends at a call into the modem, at the semaphore, before each publication and before
`last_pvt` is read, since `gnss_event_handler()` may run there. Every call into the modem may fail, a frame
may come at any point and may be unreadable, the receiver may give up by itself, and the publication of an
answer may time out. Time passes in calls to the modem and publications too, so that the deadline may be
over before the wait begins.

A request ends with one publication: its position, `TIMEOUT`, or the error of the call that failed.
`STOP_FAILED` comes beside it, since both callers of `gnss_stop()` go on, and `PVT_READ_FAILED` comes from the
callback at any time; `LocationService` says so, and promises no more. `Location` adds the text of the
message. One number stands for latitude, longitude and accuracy. That the channels keep only the latest
value is left out there.

### Photos (`Camera`, `Esp32Cam`)

The three channels have a value and the queues have notifications, apart: a notification handled
late finds a later value. Both tasks have the same priority and run until they wait, so a
step is the code between two waits: an SPI transfer, room in a queue, a write. A photo is its length, a
chunk its place and the number of chunks announced. `zbus_chan_pub()` sets the value
(`PublishChunk`) before it waits for room in the queue (`NotifyChunk`), so a chunk is overwritten as soon as
the next one is in the channel, also when the publication then times out.

`broker` is what a subscriber has received: the chunks announced and the place after the latest chunk. Two histories say what
went missing: `lost`, since the latest announcement was sent, and `overwritten`, a chunk of the photo in the channel. From
both follows `promise`, which is all that `PhotoUpload` knows of a failure: everything, the order of the chunks only, or nothing
until the next announcement. Each announcement renews it.

The camera is compiled out by `prj.conf`
(`CONFIG_MQTT_SAMPLE_CAMERA=n`); it is modelled as it is when compiled in.

### Identifiers and credentials (`MsgId`, `Credentials`)

`MsgId` has one step for each access to the static counter, and the alternative that the build keeps it
in a register between the first and the last; `transport_task` preempts the poll thread and never the
other way round. `Credentials` has one step for each call to `modem_key_mgmt_write()` and
`tls_credential_add()`. An image has files for some of the six names, all of one issue (`version`); the modem keeps, for each
name, the issue last written there, and the loop passes over a name that the image has no file for. A restart may come
between any two calls, with the same image or another, which may have other files; the modem keeps what it has, RAM does not.
An attempt to connect runs when one is planned: by a network that comes, or by `retry_connect_to_broker()`, which counts the
failures and gives up at `MaxAttempts`.

## Runs

| Run | Module and constants | Properties | Distinct states |
|---|---|---|---|
| `threads` | `Transport` as shipped: GNSS, no reboot; timer slow, 2 attempts, queue of 2 | `TypeOK`, `NoSessionLeak`, `SessionIsServed`, `StateMatchesSession`, `DisconnectedMeansDown`, `RetriesApart`, `PlanKept`, `LegalTransitions`, `SettlesWhenFaultsEnd` | 221 946 |
| `reboot` | `ClientId`: GNSS, reboot, timer slow, 2 attempts, queue of 2, two ids, each source | `KnowsNetwork`, `WillIsSessions`, `TopicsKept` | 1 021 473 |
| `broker` | `Status`: GNSS, reboot, timer slow, 1 attempt, queue of 1 | `UpIsOnline`, `UpIsSubscribed` | 820 514 |
| `location` | `Location`: time-out of 2 s at 2 ticks, 1 past it, queue of 2; 2 decimals, quarters of the last one, -1 to 1 degree | `TypeOK`, `ReceiverIsKnown`, `StoppedUnlessFailed`, `NoPositionTwice`, `NearestCoordinate`, `NearestAccuracy`, `AnswersEachRequest` | 613 797 |
| `camera` | `Camera`: images of 0 (rejected), 2 and 5 bytes in chunks of 2, queue of 2, one command | `TypeOK`, `ChunksCoverImage`, `BufferFreed`, `LatestCommandWins`, `FinishedPhotoArrives`, `UploadsPhotos` | 1 805 082 |
| `msg_id` | `MsgId`: a counter of 5 values, 3 calls in between | `TypeOK`, `NeverZero` | 3 915 |
| `provision` | `Credentials`: two issues, two sets of files that overlap, 2 attempts | `TypeOK`, `ConnectsWithCertificates`, `ModemMatchesImage`, `ReachesConnect` | 47 496 |
| `cancelled`, `stranded`, `refused`, `offline`, `gnss_ticks` | see the cfg | one statement of the repository each, violated | |

**What they show beyond the obvious.** `PlanKept` says that in a device that should reconnect, the plan is lost in two ways
only, both known: the cancellation at `transport.c:474` (run `cancelled`) and the fatal error of an attempt's client id
(`transport.c:401`). Cancellations that meet a running attempt, rejected and failing attempts, and statuses that come at any
time do not lose it. `RetriesApart` is the condition under which the unprotected `mqtt_broker_reconnect_failures++`
counts right; it holds by the priorities alone, which its mutant shows. `TopicsKept` holds of random ids too, because
nothing is planned any more when a session subscribes; without the cancellation at `transport.c:474` it does not, which its mutant
shows. `UpIsOnline` and `UpIsSubscribed` cover a session that one thread loses or closes while another
is still writing its first packets, and the next one made in the meantime. `StoppedUnlessFailed` says which requests may find the
receiver running without having started it: those after a stop that failed, and no others. `NoPositionTwice` says that the
semaphore is never left given for a frame that was answered. `ModemMatchesImage` covers a provisioning cut short by a restart and
an update. `LatestCommandWins` covers commands that overwrite each other in the channel while the queue is full. `UploadsPhotos`
confines each loss to its photo, and `FinishedPhotoArrives` ties the end of the loop in `camera_task` to what the subscriber has: a
photo that was given up half-way is never taken for a whole one.

**Bounds.** `MaxAttempts` and `QueueSize` are the program's own limits, so nothing is cut off: the
state space is finite as it stands. Two attempts are enough for a first, a repeated and a
last failure; a queue of two holds a network change with data before or behind it and
overflows. `broker` has the smallest of both, for the packets under
way multiply the states; a session lost and made again needs no more than one attempt. Only the
value in `NETWORK_CHAN` and the kind of each queued message are kept of the data. In `location` time
is counted to `Overrun` past the deadline, which is far enough for frames before, at and after it and for calls that outlast it. 5 is a
length with a shorter last chunk and of more than two chunks, 2 is one chunk exactly; a queue of two for `transport_task` lets chunks
wait behind each other and behind errors. `Burst` bounds how often
`transport_task` calls during one call of the poll thread; it must stay below the number of identifiers,
since going once round them in between (65534 publications) would make `NeverZero` false. Two
issues are an old one and a new one; the two sets of files of `provision` have names in common and names that the other lacks.

**Constants that a run does not set as shipped.** `threads` has the values that `prj.conf` and Kconfig give: GNSS, and no reboot, since
`MQTT_SAMPLE_ERROR_REBOOT_ON_FATAL` follows `CONFIG_REBOOT`, which nothing sets. `reboot` and `broker` set the reboot: it multiplies the states
from which a device connects, and `KnowsNetwork` fails without it, since a notification that is lost stays lost. `cancelled` sets it to
leave the other way to lose a plan out of its trace. `stranded`, `refused` and `offline` have no GNSS data, and a network that waits for the
threads: each needs neither for its violation. The conditions `hasty` and `promise` stand in the properties, so that one run has both sides.

**Fairness.** `Transport!FairSpec` has weak fairness of each thread's own steps (a thread that may run is
run by the scheduler) and of the timer. `Fault` has none: a CONNACK, a write that goes
through, a lookup that succeeds are steps of a willing peer, and the property concerns what
happens once faults have ended. GNSS data has none either, and `SettlesWhenFaultsEnd` is about the time after the
last of it (`<>[][~Fault /\ ~GnssData]_vars`): publications without end would keep `transport_task` ready, and the poll thread, of lower
priority, from running at all. `GivenUp` there counts a device as settled whose plan was dropped or which is stranded; that the code gets there is what
`cancelled` and `stranded` show. `Gnss!Fairness` is that
of `gnss_task`, including that the modem returns from a call with success or an error, and of time; frames
have none, so a request is answered also when none comes. `Credentials` has that of an attempt that is planned or under way, and nothing else: no
network has to come, and after `MaxAttempts` failures none is planned. `ReachesConnect` is about attempts that are planned when calls no
longer fail, which need not come to pass.

**Deadlock** is checked in every run. A violating run ends at its first counterexample.

### Disagreements between the code and what the repository says

Shown by a run:

- `cancelled`: `on_mqtt_connack()` sets the state in the poll thread and then runs the entry of `MQTT_CONNECTED`. If `transport_task` meets the
  loss of the session in between, by publishing GNSS data, its plan to reconnect is cancelled at `transport.c:474`. The device is left
  in `MQTT_DISCONNECTED` with the network up and nothing planned, against the comment at `transport.c:432`.
- `stranded`: if the `online` publication inside `on_mqtt_connack()` loses the connection, the
  plan that `on_mqtt_disconnect()` makes is cancelled by the entry into `MQTT_CONNECTED`. The
  device stays in `MQTT_CONNECTED` with neither session nor plan. Toggling the network does not
  help: `mqtt_client_disconnect()` returns `-EOPNOTSUPP` without calling the callback.
  `tests/integration/test_disconnection.py:53` expects it to reconnect.
- `refused`: one refused CONNACK costs up to three attempts, because the entry action does run
  again (`transport.c:132`).
- `offline`: a session completed after the loss of the network was handled is never
  taken down (`transport.c:485`).
- `gnss_ticks`: the deadline adds ticks to milliseconds (`gnss.c:188`), so with a tick rate above
  1000 Hz a request waits longer than `Kconfig.gnss:33` says.

Met while modelling, outside of what the runs' properties claim:

- After a failed `client_id_get()` or `topics_prefix()` the work function ends without a retry (`transport.c:401`), and without the reboot nothing
  plans another. `PlanKept` and `GivenUp` allow for it (`dropped`).
- An attempt that is running is not cancelled by the loss of the network, and plans its retry without
  looking at it (`transport.c:421`, against the comment at 446).
- A session that the device ends itself leaves `online` on the last will topic: the broker drops the will,
  and `transport_mqtt_clean_offline()` has no caller.
- With random ids, an attempt that the library rejects gives `client_id` and the topics another name than the session that is
  coming up has sent in its CONNECT (`transport.c:397`): the session subscribes and publishes under that name, and its will is under the first.
- A frame that is copied between `k_sem_take()` and the reads of the fields is read with its semaphore given again, so that the next request
  reports the same position (`gnss.c:211-229`). When the frame before was left from an earlier request, so that the receiver is
  still searching, the fields may even be of two frames. `NoPositionTwice` excludes both by `~hasty`.
- A frame that comes after its request has timed out, while the receiver is being stopped or because the stop failed, leaves the semaphore given, and the
  next request takes it for its own position, however old (`gnss.c:211`).
- When the receiver cannot be stopped, a request publishes `STOP_FAILED` and a position, or `STOP_FAILED` and `TIMEOUT` (`gnss.c:172`); the next one takes the
  receiver for running, and times out if it has gone off by itself.
- `CAMERA_CHUNK_CHAN` keeps one chunk: when transport waits for the network longer than an SPI transfer takes,
  one chunk is never published and another one twice (`camera.c:114`). When the meta of a photo
  cannot be written its first chunk is left out too, and the others are published all the same (`publish_msg_factory.c:43-47`).
- A chunk is cut at its first zero byte, since
  `mqtt_client_publish_str()` measures it with `strlen()` (`publish_msg_factory.c:61`). Every JPEG has one in its first chunk. The model keeps a
  chunk's place and not its bytes, so nothing here speaks of them.
- An image that has no file for a name leaves what an earlier image wrote under it in the modem, under the same
  security tag (`credentials_provision.c:66-128`): nothing deletes credentials. `ModemMatchesImage` is about the names that the image has.
- Two threads may get the same message identifier, or a lower one after a higher (`mqtt_client.c:745`), against
  "increment by one for each call" (`mqtt_client.h:155`).
- `on_modem_lib_init()` ignores what `credentials_provision()` returns: the device connects with a credential that is
  missing or of an earlier image (`credentials_provision.c:139`).

## Proofs

Every invariant, every action property and the safety part of every refinement that a passing run checks is
also a theorem. They hold for every value of the constants that the modules' named assumptions admit, and
for no scheduling in particular unless the table says so.

| Theorem | Assumes | States |
|---|---|---|
| `TransportProofs!TypeCorrectness` | | `Spec => []TypeOK` |
| `Invariance` | `"timer" \in SlowSources` | `Spec => [](TypeOK /\ IInv)` |
| `NoSessionIsLeaked` | the same | `Spec => []NoSessionLeak` |
| `EverySessionIsServed` | the same | `Spec => []SessionIsServed` |
| `RestMatchesSession` | the same | `Spec => []StateMatchesSession` |
| `TransitionsAreLegal` | the same | `Spec => LegalTransitions`: the system implements `MqttLifecycle` |
| `RetriesAreApart` | the same | `Spec => []RetriesApart` |
| `DisconnectedIsDown` | the same | `Spec => []DisconnectedMeansDown` |
| `PlanIsKept` | the same | `Spec => []PlanKept` |
| `NetworkIsKnown` | `RebootOnFatal` | `Spec => []KnowsNetwork` |
| `ClientIdProofs!ImplementsTransport` | | `IdSpec => Spec` |
| `IdKnowsNetwork` | `RebootOnFatal` | `IdSpec => []KnowsNetwork` |
| `WillIsOfSession` | | `IdSpec => []WillIsSessions` |
| `TopicsAreKept` | `"timer" \in SlowSources` | `IdSpec => []TopicsKept` |
| `StatusProofs!DeviceIsTransport` | | `StatusSpec => Spec` |
| `SessionsAreOnline`, `SessionsAreSubscribed` | `"timer" \in SlowSources` | `StatusSpec => []UpIsOnline`, `StatusSpec => []UpIsSubscribed` |
| `GnssProofs!TypeCorrect` | | `Spec => []TypeOK` |
| `ReceiverKnown` | | `Spec => []ReceiverIsKnown` |
| `StoppedEachTime` | | `Spec => []StoppedUnlessFailed` |
| `OneRequestPerFrame` | | `Spec => []NoPositionTwice` |
| `ImplementsLocationService` | | `Spec => Service!Safety` |
| `LocationProofs!ImplementsGnss`, `GnssHolds` | | `LocationSpec => Spec`, and what follows for `Location` |
| `CoordinateIsNearest`, `AccuracyIsNearest` | | `LocationSpec => []NearestCoordinate`, `LocationSpec => []NearestAccuracy` |
| `CameraProofs!TypeCorrect`, `ChunksAreOfImage` | | `Spec => []TypeOK`, `Spec => []ChunksCoverImage` |
| `BufferIsFreed`, `LatestCommandIsCarriedOut` | | `Spec => []BufferFreed`, `Spec => []LatestCommandWins` |
| `FinishedPhotosArrive` | | `Spec => []FinishedPhotoArrives` |
| `ImplementsPhotoUpload` | | `Spec => UploadsPhotos`: `Camera` implements `PhotoUpload` |
| `MsgIdProofs!TypeCorrect`, `IdsAreValid` | | `Spec => []TypeOK`, `Spec => []NeverZero` |
| `CredentialsProofs!TypeCorrect`, `CertificatesComeFirst`, `ModemIsOfImage` | | `[]TypeOK`, `[]ConnectsWithCertificates`, `[]ModemMatchesImage` |

The inductive invariants were checked with TLC on the instance of the component's run, and with other
constants where those could matter, before they were proved. Each group of actions has its lemma with one case per action; the lemma of the
step puts them together along `Next`.

**`TransportProofs`.** None of the invariants is inductive, since each speaks of a moment when one
thread looks at what another is changing. `IInv` adds who may be changing it: which states of
the library belong to the connecting thread (`Connecting`, `StateExplained`), which session the
library knows (`SessionKnown`), and above all that a work item never runs together with the two
windows in which another thread has yet to write `DISCONNECTED`, which are the failure of a
disconnection (`Disconnecting`) and a refused session being torn down (`RefusedAlone`). The
second part is kept because the timer submits the work item only when no thread is ready
(lemmas `QueueWaits`, `TaskWaits`, `PollWaits` say where each thread then is), and because
`transport_queue` runs before the others do. Without the assumption on the timer `TransitionsAreLegal` and
`NoSessionIsLeaked` are false, as TLC shows when `timer` is removed from `SlowSources`.

Two invariants stand on top of `IInv`. `CallbackInv` says that a callback runs once the session is gone and never beside
a running work item, that the poll thread gets to the retry only when `transport_task` is not on its way there (`CallbackAlone`), and where the
flag or a session may be up in `MQTT_DISCONNECTED` (`Flagged`); `RetriesAreApart` and `DisconnectedIsDown` follow. `PlanInv` follows a plan through the three
threads: a device that is online, closed, disconnected and has attempts left has a plan, or a thread
that is about to make one, or the plan was dropped (`Planned`). It needs the flags of the work item to agree with the thread that runs it (`Working`), what
`transport_task` may do while the poll thread goes from the CONNACK to `MQTT_CONNECTED` (`Handshake`), and
nothing to be planned while connected (`ConnectedQuiet`). It holds with or without GNSS data and the reboot; the two ways to drop a plan are the only ones the
proof leaves open, so a third one in the code would show as a step that cannot be proved.

`NetworkTracked` strengthens `KnowsNetwork` by the step between `zbus_sub_wait()` and
`zbus_chan_read()`. A reboot is the initial state primed (`RebootInit`), so it needs no case of its own.

**`ClientIdProofs`.** `AttemptInOrder` lists what no step of `Transport` does: begin an attempt in the middle, or open a session
anywhere but in `mqtt_connect()` of the thread that filled the buffers. `NameInv` then ties the will topic to the id from the check of the library's state to the
end of the session. `TopicsAreKept` rests on `PlanInv`: the poll thread is past the entry of `MQTT_CONNECTED` when a session has
subscribed (`Subscribed`, `PollPastEntry`), nothing is planned or running then (`ConnectedQuiet`), and only an attempt fills the buffers. It makes no assumption on
where the id comes from.

**`StatusProofs`.** `SessionInv` says of each packet of a new session that the poll
thread has it still to write (`Before`), or it is in the wire, or the broker has handled it. At rest
the first two are out, and `RestMatchesSession` makes the library agree with the session; from there comes
the assumption on the timer.

**`GnssProofs`.** `StoppedInv` says where a request is with respect to the stop of the receiver: the calls before the wait are made
with a receiver that does not run, `gnss_stop()` is tried once on every way to the end, and `STOP_FAILED` is published from then on only. From
it follows also that `STOP_FAILED` comes at most once, as `LocationService` says. `FrameInv` ties the
semaphore to the frame: from the check of the flags to the reads it is taken and the frame is
unanswered, and a frame that was answered has no semaphore given. It is claimed while
`~hasty`, which a frame that is copied in between ends. `ServiceNext` maps each step to an action of `LocationService` or a stutter.

**`LocationProofs`.** `RoundedIsNearest` is the arithmetic of `split_fixed()`: adding half with the sign and casting towards
zero gives a nearest integer. `ReadsBack` says that the digits of a number below the scale are read
back as that number, for any number of digits, by induction over the digits with `NextDigit` as its step. The
library's induction theorems take an operator; `NatInduct` proves what is needed here for a set, from the least element of its complement.

**`CameraProofs`.** `ChunksLeft` and the lemmas around it are the arithmetic of the rounded-up division. `Progress` is the invariant of the loop:
what is read and what remains make up the image. `Written` says which chunk is in the channel, seen from the loop: the one before `sequence`, of the
photo under way, or the last one of a photo that was finished. `UploadInv` follows the numbers from the loop to the subscriber, under every failure: what
`transport_task` has at hand fits what is announced, as far as the promise goes (`Fit`); while nothing is overwritten at most one chunk waits
(`OneWaits`); a chunk at hand continues the photo (`Continues`); and so does the one that comes after it (`Upcoming`), also when a photo was given up in
between, since the next one begins with an announcement. `ImplementsPhotoUpload` maps each loss to `Weaken`, and `FinishedPhotosArrive` follows at the end of the loop.

**`MsgIdProofs`.** `NeverZero` is not inductive: what makes it true is that while the poll thread is about to leave zero
behind (`store_again`), the counter is at most the number of calls made by the other thread since,
and that this number cannot reach the last value (`IdInv`, `BurstAssumption`).

**`CredentialsProofs`.** The two flags say "all calls made"; the invariant adds that each call made so far
has left its credential behind (`Added_Prefix`, `Written_Prefix`), if the image has one, and the lemma `OrdersAreComplete`
that the two orders pass each of the six names, so a prefix that is complete is everything the image has.

**Only model-checked.** What must eventually happen: `SettlesWhenFaultsEnd`, `ReachesConnect`, and of `AnswersEachRequest`
that each request ends at all (that it ends once, before the next, is proved). Liveness under fairness and `ENABLED` are out of the prover's
reach. The statements that the violating runs refute have no theorem, of course.

## Not modelled

- The counter `mqtt_broker_reconnect_failures` is incremented in one step; `RetriesApart` says why that is right.
- `transport_mqtt_clean_offline()` and `mqtt_client_deinit()`: nothing calls them.
- Loss, duplication and retransmission of MQTT packets: QoS 1 publications are never sent again
  by this code. A refused SUBACK is only logged, and the broker of `Status` refuses none.
- The semaphore of a zbus channel, which only a copy of its value holds. A publication that
  times out does so on the observer's queue.
- `GNSS_ERROR_CHAN` keeps the latest error: `STOP_FAILED` may be overwritten by `TIMEOUT`. `Gnss` says which errors are published
  beside the end of a request, and of those that end it only that they are errors.
- The bytes of a photo: a chunk is its place. The fields of a position: a frame is valid or not, and answered or not.
- A write to the session that fails for want of memory (`-ENOMEM`), which leaves the session up.
- The rounding of `double` arithmetic itself, the words for errors, JSON layout, logging.
- The ESP32's own program, the modem, the broker and Zephyr, beyond what the code relies on.
- Tests, mocks, boards and build files: read, not modelled. Kconfig values are constants.

## Plan

Done: the connection with its broker and names, location requests, photos, identifiers, credentials; a theorem for each
safety property of the passing runs. Left, in this order:

1. `Gnss` with `GNSS_ERROR_CHAN` and `GPS_DATA_CHAN`, each with its latest value, and `FrameInv` carried over to it.
2. A refused SUBACK, and a write that fails with `-ENOMEM`, in `Status`: the session goes on without its subscription until it is lost.
3. An abstract specification of the connection as the broker sees it (online, lost, ended), which `Status`
   implements, so that `SessionInv` has one statement above it.
