------------------------------- MODULE Camera -------------------------------
(***************************************************************************)
(* A photo on its way from the camera module to the broker: camera_task    *)
(* (camera.c) takes commands from CAMERA_CMD_CHAN, reads the image over    *)
(* SPI and puts it chunk by chunk into CAMERA_CHUNK_CHAN; transport_task   *)
(* is told by its queue, reads the channel and publishes.  A channel holds *)
(* one value, the latest: a notification that is handled late finds the    *)
(* value of a later publication.                                           *)
(*                                                                         *)
(* Both tasks have the same priority, so that each runs until it waits: the*)
(* camera for an SPI transfer or for room in the queue, transport for the  *)
(* network.  What a photo consists of is abstracted: a chunk is its number *)
(* and the number of chunks announced.                                     *)
(***************************************************************************)
EXTENDS Esp32Cam, Sequences

CONSTANTS
  ChunkSize,       \* CONFIG_MQTT_SAMPLE_CAMERA_CHUNK_SIZE
  Lengths,         \* lengths of images that the camera may return
  Requests,        \* commands that the broker may send
  QueueSize,       \* CONFIG_MQTT_SAMPLE_TRANSPORT_MESSAGE_QUEUE_SIZE
  CommandQueue     \* CONFIG_MQTT_SAMPLE_CAMERA_MESSAGE_QUEUE_SIZE

Commands == {"take_photo", "flash_on", "flash_off", "camera_on", "camera_off"}

ASSUME CameraAssumption ==
  /\ ChunkSize \in Nat \ {0} /\ Lengths \subseteq Nat /\ Requests \subseteq Commands
  /\ QueueSize \in Nat \ {0} /\ CommandQueue \in Nat \ {0}

VARIABLES
  CAMERA_CMD_CHAN, CAMERA_CHUNK_CHAN, CAMERA_ERROR_CHAN,  \* values the channels hold
  commands,        \* notifications in the queue of camera_task
  subscription,    \* channels in the queue of transport_task
  pc, cmd,         \* camera_task and its locals
  image_length, remaining, sequence,
  read_buf,        \* the buffer is allocated
  error,
  transport,       \* control point of transport_task
  chunk,           \* its copy of the chunk it publishes
  broker,          \* history: what a subscriber of the photo topics has seen
  lost,            \* history: the worst that went missing since the latest announcement
  overwritten      \* history: the worst that was overwritten in CAMERA_CHUNK_CHAN, not
                   \* yet read, since the first chunk of the latest photo was put there

channels == <<CAMERA_CMD_CHAN, CAMERA_CHUNK_CHAN, CAMERA_ERROR_CHAN>>
photo == <<image_length, remaining, sequence, read_buf>>
camera == <<pc, cmd, photo, error>>
upload == <<broker, lost, overwritten>>
vars == <<channels, commands, subscription, camera, transport, chunk, upload>>

NoChunk == [sequence |-> 0, total_chunks |-> 0]

Init ==
  /\ CAMERA_CMD_CHAN = "take_photo"
  /\ CAMERA_CHUNK_CHAN = NoChunk
  /\ CAMERA_ERROR_CHAN = "NRF_INTERNAL"
  /\ commands = 0 /\ subscription = <<>>
  /\ pc = "start" /\ cmd = "none"
  /\ image_length = 0 /\ remaining = 0 /\ sequence = 0
  /\ read_buf = FALSE
  /\ error = "none"
  /\ transport = "sub_wait" /\ chunk = NoChunk
  /\ broker = [chunks |-> 0, next |-> 0]
  /\ lost = "nothing" /\ overwritten = "nothing"

\* Mutated form: the driver's error is published as it is.
MapError_Raw(ret) == ret

\* map_esp32cam_error()
MapError(ret) ==
  CASE ret = "-ENODEV" -> "ESP32_NOT_RESPONDING"
    [] ret = "-EIO" -> "ESP32_CAMERA_ACCESS_FAILED"
    [] OTHER -> "NRF_INTERNAL"

Fail(e) == error' = e /\ pc' = "publish_error"

\* Mutated form: commands that came while this one was handled are purged.
Finish_Purge == pc' = "sub_wait" /\ commands' = 0

\* handle_camera_cmd() returns.
Finish == pc' = "sub_wait" /\ UNCHANGED commands

\* The worse of two losses: without its announcement nothing of a photo can be placed.
Worst(a, b) ==
  IF "announcement" \in {a, b} THEN "announcement" ELSE IF a = "nothing" THEN b ELSE a

\* What is lost with a chunk: the announcement goes with the first one.
LossOf(c) == IF c.sequence = 0 THEN "announcement" ELSE "chunk"

\* transport_task has been told of a chunk that it has not read.
ChunkWaits == \E i \in 1..Len(subscription) : subscription[i] = "CAMERA_CHUNK_CHAN"
-----------------------------------------------------------------------------
(* camera_task() and handle_camera_cmd()                                   *)

CameraStarts ==
  /\ pc = "start"
  /\ pc' = "sub_wait"
  /\ UNCHANGED <<channels, commands, subscription, cmd, photo, error, transport, chunk, upload>>

\* The driver is not ready: the task ends once the error is published.
DeviceNotReady ==
  /\ pc = "start"
  /\ CAMERA_ERROR_CHAN' = "NRF_INTERNAL"
  /\ subscription' = Append(subscription, "CAMERA_ERROR_CHAN")
  /\ pc' = "ended"
  /\ UNCHANGED <<CAMERA_CMD_CHAN, CAMERA_CHUNK_CHAN, commands, cmd, photo, error,
                 transport, chunk, upload>>

TakeCommand ==
  /\ pc = "sub_wait" /\ commands > 0
  /\ commands' = commands - 1
  /\ cmd' = CAMERA_CMD_CHAN
  /\ pc' = IF cmd' = "take_photo" THEN "capture_length" ELSE "switch"
  /\ UNCHANGED <<channels, subscription, photo, error, transport, chunk, upload>>

SwitchEnds ==
  /\ pc = "switch"
  /\ \E transfer \in Transfers, status \in Statuses :
       LET ret == Switch(transfer, status) IN
       IF ret = "0" THEN Finish /\ UNCHANGED error ELSE Fail(MapError(ret)) /\ UNCHANGED commands
  /\ UNCHANGED <<channels, subscription, cmd, photo, transport, chunk, upload>>

CaptureLengthEnds ==
  /\ pc = "capture_length"
  /\ \E length \in Lengths : \E ret \in CaptureLengths(length) :
       IF ret = "0"
       THEN /\ image_length' = length /\ remaining' = length /\ sequence' = 0
            /\ pc' = "malloc"
            /\ UNCHANGED error
       ELSE Fail(MapError(ret)) /\ UNCHANGED <<image_length, remaining, sequence>>
  /\ UNCHANGED <<channels, commands, subscription, cmd, read_buf, transport, chunk, upload>>

Malloc ==
  /\ pc = "malloc"
  /\ \/ read_buf' = TRUE /\ pc' = "read" /\ UNCHANGED error
     \/ Fail("NRF_INTERNAL") /\ UNCHANGED read_buf
  /\ UNCHANGED <<channels, commands, subscription, cmd, image_length, remaining, sequence,
                 transport, chunk, upload>>

\* Mutated form: the chunks of a length that is no multiple are one too few.
TotalChunks_NotRounded == image_length \div ChunkSize

TotalChunks == (image_length + ChunkSize - 1) \div ChunkSize

ToRead == IF remaining > ChunkSize THEN ChunkSize ELSE remaining

ReadEnds ==
  /\ pc = "read"
  /\ \E transfer \in Transfers :
       LET ret == CaptureRead(transfer) IN
       IF ret = "0"
       THEN pc' = "publish_chunk" /\ UNCHANGED <<read_buf, error>>
       ELSE Fail(MapError(ret)) /\ read_buf' = FALSE
  /\ UNCHANGED <<channels, commands, subscription, cmd, image_length, remaining, sequence,
                 transport, chunk, upload>>

\* Mutated form: chunks are numbered from one.
SetChunkChannel_FromOne ==
  CAMERA_CHUNK_CHAN' = [sequence |-> sequence + 1, total_chunks |-> TotalChunks]

SetChunkChannel ==
  CAMERA_CHUNK_CHAN' = [sequence |-> sequence, total_chunks |-> TotalChunks]

\* zbus_chan_pub() sets the value of the channel before it waits for room in the queue:
\* a chunk that transport_task has been told of and has not read is gone.
PublishChunk ==
  /\ pc = "publish_chunk"
  /\ SetChunkChannel
  /\ \/ /\ ChunkWaits
        /\ overwritten' = Worst(overwritten, LossOf(CAMERA_CHUNK_CHAN))
        /\ UNCHANGED lost
     \/ /\ ~ChunkWaits /\ sequence = 0
        /\ lost' = Worst(lost, overwritten) /\ overwritten' = "nothing"
     \/ ~ChunkWaits /\ sequence > 0 /\ UNCHANGED <<lost, overwritten>>
  /\ pc' = "notify_chunk"
  /\ UNCHANGED <<CAMERA_CMD_CHAN, CAMERA_ERROR_CHAN, commands, subscription, cmd, photo,
                 error, transport, chunk, broker>>

\* The loop goes on after a chunk has been published.
Advance ==
  /\ remaining' = remaining - ToRead
  /\ sequence' = sequence + 1
  /\ IF remaining' > 0
     THEN pc' = "read" /\ UNCHANGED <<read_buf, commands>>
     ELSE Finish /\ read_buf' = FALSE

NotifyChunk ==
  /\ pc = "notify_chunk" /\ Len(subscription) < QueueSize
  /\ subscription' = Append(subscription, "CAMERA_CHUNK_CHAN")
  /\ Advance
  /\ UNCHANGED <<channels, cmd, image_length, error, transport, chunk, upload>>

\* transport_task has been waiting for the network for a second.
TransportBlocked == Len(subscription) = QueueSize /\ transport # "sub_wait"

\* Mutated form: the buffer is not freed.
NotifyChunkTimesOut_Leak ==
  /\ pc = "notify_chunk" /\ TransportBlocked
  /\ Fail("NRF_INTERNAL")
  /\ UNCHANGED <<channels, commands, subscription, cmd, photo, transport, chunk, upload>>

\* Mutated form: the result of zbus_chan_pub() is not looked at.
NotifyChunkTimesOut_Ignored ==
  /\ pc = "notify_chunk" /\ TransportBlocked
  /\ Advance
  /\ UNCHANGED <<channels, subscription, cmd, image_length, error, transport, chunk, upload>>

\* The chunk is in the channel, its notification is not in the queue.
NotifyChunkTimesOut ==
  /\ pc = "notify_chunk" /\ TransportBlocked
  /\ read_buf' = FALSE
  /\ Fail("NRF_INTERNAL")
  /\ UNCHANGED <<channels, commands, subscription, cmd, image_length, remaining, sequence,
                 transport, chunk, upload>>

\* The result of this publication is not looked at.
PublishError ==
  /\ pc = "publish_error"
  /\ Len(subscription) < QueueSize \/ TransportBlocked
  /\ CAMERA_ERROR_CHAN' = error
  /\ subscription' = IF Len(subscription) < QueueSize
                     THEN Append(subscription, "CAMERA_ERROR_CHAN") ELSE subscription
  /\ Finish /\ error' = "none"
  /\ UNCHANGED <<CAMERA_CMD_CHAN, CAMERA_CHUNK_CHAN, cmd, photo, transport, chunk, upload>>
-----------------------------------------------------------------------------
(* transport_task() and publish_camera_chunk(), publish_camera_error().    *)

\* Reading the channel may fail, when its lock is not free within a second.
TakeChunk ==
  /\ transport = "sub_wait"
  /\ subscription # <<>> /\ Head(subscription) = "CAMERA_CHUNK_CHAN"
  /\ subscription' = Tail(subscription)
  /\ \/ /\ chunk' = CAMERA_CHUNK_CHAN
        /\ transport' = IF chunk'.sequence = 0 THEN "meta" ELSE "chunk"
        /\ UNCHANGED lost
     \/ /\ lost' = Worst(lost, LossOf(CAMERA_CHUNK_CHAN))
        /\ UNCHANGED <<transport, chunk>>
  /\ UNCHANGED <<channels, commands, camera, broker, overwritten>>

TakeError ==
  /\ transport = "sub_wait"
  /\ subscription # <<>> /\ Head(subscription) = "CAMERA_ERROR_CHAN"
  /\ subscription' = Tail(subscription)
  /\ transport' \in {"error", transport}
  /\ UNCHANGED <<channels, commands, camera, chunk, upload>>

MetaSent ==
  /\ transport = "meta"
  /\ broker' = [chunks |-> chunk.total_chunks, next |-> 0]
  /\ lost' = overwritten
  /\ transport' = "chunk"
  /\ UNCHANGED <<channels, commands, subscription, camera, chunk, overwritten>>

ChunkSent ==
  /\ transport = "chunk"
  /\ broker' = [broker EXCEPT !.next = chunk.sequence + 1]
  /\ transport' = "sub_wait" /\ chunk' = NoChunk
  /\ UNCHANGED <<channels, commands, subscription, camera, lost, overwritten>>

ErrorSent ==
  /\ transport = "error"
  /\ transport' = "sub_wait"
  /\ UNCHANGED <<channels, commands, subscription, camera, chunk, upload>>

\* The rest of the message is given up, whichever write it is.
WriteFails ==
  /\ transport \in {"meta", "chunk", "error"}
  /\ lost' = CASE transport = "meta" -> "announcement"
               [] transport = "chunk" -> Worst(lost, "chunk")
               [] OTHER -> lost
  /\ transport' = "sub_wait" /\ chunk' = NoChunk
  /\ UNCHANGED <<channels, commands, subscription, camera, broker, overwritten>>
-----------------------------------------------------------------------------
(* on_mqtt_publish(): a command from the broker.                           *)

CommandComes ==
  /\ commands < CommandQueue
  /\ CAMERA_CMD_CHAN' \in Requests
  /\ commands' = commands + 1
  /\ UNCHANGED <<CAMERA_CHUNK_CHAN, CAMERA_ERROR_CHAN, subscription, camera, transport,
                 chunk, upload>>

\* The queue of camera_task stays full for a second.
CommandTimesOut ==
  /\ commands = CommandQueue /\ pc # "sub_wait"
  /\ CAMERA_CMD_CHAN' \in Requests
  /\ UNCHANGED <<CAMERA_CHUNK_CHAN, CAMERA_ERROR_CHAN, commands, subscription, camera,
                 transport, chunk, upload>>

Capture ==
  \/ CaptureLengthEnds \/ Malloc \/ ReadEnds
  \/ PublishChunk \/ NotifyChunk \/ NotifyChunkTimesOut

CameraTask ==
  CameraStarts \/ DeviceNotReady \/ TakeCommand \/ SwitchEnds \/ Capture \/ PublishError

TransportTask ==
  TakeChunk \/ TakeError \/ MetaSent \/ ChunkSent \/ ErrorSent \/ WriteFails

Next == CameraTask \/ TransportTask \/ CommandComes \/ CommandTimesOut

Spec == Init /\ [][Next]_vars
-----------------------------------------------------------------------------
(* Properties.                                                             *)

MapErrors == {"ESP32_NOT_RESPONDING", "ESP32_CAMERA_ACCESS_FAILED", "NRF_INTERNAL"}
Losses == {"nothing", "chunk", "announcement"}
Chunks == [sequence : Nat, total_chunks : Nat]

\* Type invariant: only errors of enum camera_error_type get into the channel, and
\* the queues of both subscribers keep their bounds.
TypeOK ==
  /\ CAMERA_CMD_CHAN \in Commands
  /\ CAMERA_CHUNK_CHAN \in Chunks /\ chunk \in Chunks
  /\ CAMERA_ERROR_CHAN \in MapErrors /\ error \in MapErrors \cup {"none"}
  /\ commands \in 0..CommandQueue
  /\ subscription \in Seq({"CAMERA_CHUNK_CHAN", "CAMERA_ERROR_CHAN"})
  /\ Len(subscription) <= QueueSize
  /\ pc \in {"start", "ended", "sub_wait", "switch", "capture_length", "malloc", "read",
             "publish_chunk", "notify_chunk", "publish_error"}
  /\ cmd \in Commands \cup {"none"}
  /\ image_length \in 0..MaxLength /\ remaining \in 0..MaxLength /\ sequence \in Nat
  /\ read_buf \in BOOLEAN
  /\ transport \in {"sub_wait", "meta", "chunk", "error"}
  /\ broker \in [chunks : Nat, next : Nat]
  /\ lost \in Losses /\ overwritten \in Losses

\* Each chunk says truly where it belongs (camera.c:82-127): with what follows
\* it in the image it makes up the length that was announced, its number is
\* below the announced number of chunks, and only the last one is that number
\* less one.
ChunksCoverImage ==
  pc \in {"read", "publish_chunk", "notify_chunk"} =>
    /\ sequence * ChunkSize + remaining = image_length
    /\ sequence < TotalChunks
    /\ sequence = TotalChunks - 1 <=> remaining <= ChunkSize

\* The buffer of a chunk is allocated only while a photo is read: every way out
\* of the loop frees it (camera.c:101, 117, 129).
BufferFreed == read_buf => pc \in {"read", "publish_chunk", "notify_chunk"}

\* When camera_task has no command left, the one it carried out last is the last
\* one the broker gave (camera.c:157-166), although the channel keeps only one
\* value and its queue may have been full.
LatestCommandWins ==
  pc = "sub_wait" /\ commands = 0 => cmd \in {CAMERA_CMD_CHAN, "none"}

\* What the subscriber may rely on for the photo that was announced last.
promise ==
  CASE Worst(lost, overwritten) = "nothing" -> "all"
    [] Worst(lost, overwritten) = "chunk" -> "order"
    [] OTHER -> "nothing"

\* A loss is confined to its photo.  Each photo that is announced is promised in full
\* again: its chunks come once, in order, and none of another one; a chunk that is lost
\* on the way, or overwritten before transport_task reads it, leaves a gap or a repeat
\* and never an earlier chunk or one beyond those announced; without the announcement
\* nothing is promised until the next one (camera.c:95-127, publish_msg_factory.c:31-75).
Upload == INSTANCE PhotoUpload WITH chunks <- broker.chunks, next <- broker.next
UploadsPhotos == Upload!Spec

\* Once camera_task has come to the end of a photo and transport_task has dealt with
\* what it was told of, the subscriber has every chunk of it, unless one was lost or
\* overwritten (camera.c:95-130): a photo that camera_task could not finish is never
\* taken for one that it did.
FinishedPhotoArrives ==
  /\ remaining = 0 /\ image_length > 0
  /\ transport = "sub_wait" /\ ~ChunkWaits
  /\ promise = "all"
  => broker.chunks = TotalChunks /\ broker.next = TotalChunks
=============================================================================
