---------------------------- MODULE CameraProofs ----------------------------
(***************************************************************************)
(* Theorems about Camera, for every size of the images, of the chunks and  *)
(* of the queues: type correctness, the arithmetic of the chunks, the      *)
(* buffer, the commands, that Camera implements PhotoUpload, and that a    *)
(* photo that is finished without a loss has arrived.                      *)
(***************************************************************************)
EXTENDS Camera, TLAPS

USE CameraAssumption, MaxLengthAssumption
-----------------------------------------------------------------------------
(* The inductive invariants.                                               *)

\* An error waits to be published only when there is one.
ErrorIsSet == pc = "publish_error" => error \in MapErrors

\* The loop of handle_camera_cmd() ends with what remains of the image.
Progress ==
  pc \in {"malloc", "read", "publish_chunk", "notify_chunk"} =>
    /\ remaining > 0
    /\ sequence * ChunkSize + remaining = image_length

\* With no command left, the one at hand is the value of the channel.
CommandIsLatest == commands = 0 => cmd \in {CAMERA_CMD_CHAN, "none"}

\* camera_task has published the chunks before sequence and goes on, or is done.
InLoop == pc \in {"read", "publish_chunk"} \/ remaining = 0

\* What the channel holds while camera_task is in the loop, and once it is done.
Written ==
  /\ pc = "malloc" => sequence = 0
  /\ pc = "notify_chunk" =>
       CAMERA_CHUNK_CHAN.sequence = sequence /\ CAMERA_CHUNK_CHAN.total_chunks = TotalChunks
  /\ InLoop /\ sequence > 0 =>
       CAMERA_CHUNK_CHAN.sequence + 1 = sequence /\ CAMERA_CHUNK_CHAN.total_chunks = TotalChunks
  /\ remaining = 0 /\ image_length > 0 => sequence = TotalChunks

\* What is lost of the photo announced, and of the one that will have been announced
\* once transport_task is done with the chunk it has.
Level == Worst(lost, overwritten)
Ahead == IF transport = "meta" THEN overwritten ELSE Level

\* transport_task publishes a chunk; it has not read the one in the channel.
AtHand == transport \in {"meta", "chunk"}
Owed == ChunkWaits \/ pc = "notify_chunk"

\* At most one notification of a chunk is in the queue s.
AtMostOne(s) ==
  \A i, j \in 1..Len(s) : s[i] = "CAMERA_CHUNK_CHAN" /\ s[j] = "CAMERA_CHUNK_CHAN" => i = j

\* The number of the chunk that transport_task will read next.
NextNumber ==
  IF Owed THEN CAMERA_CHUNK_CHAN.sequence ELSE CAMERA_CHUNK_CHAN.sequence + 1

\* That chunk is not the first one of its photo.
Goes == IF Owed THEN CAMERA_CHUNK_CHAN.sequence > 0 ELSE InLoop /\ sequence > 0

\* It follows the one at hand, or else the one the subscriber has seen last.
Upcoming ==
  IF AtHand
  THEN /\ CAMERA_CHUNK_CHAN.total_chunks = chunk.total_chunks
       /\ NextNumber >= chunk.sequence
       /\ Ahead = "nothing" => NextNumber = chunk.sequence + 1
  ELSE /\ CAMERA_CHUNK_CHAN.total_chunks = broker.chunks
       /\ NextNumber + 1 >= broker.next
       /\ Ahead = "nothing" => NextNumber = broker.next

\* Each chunk has its place in its photo.
Fit ==
  /\ ChunkWaits => CAMERA_CHUNK_CHAN.sequence < CAMERA_CHUNK_CHAN.total_chunks
  /\ AtHand => chunk.sequence < chunk.total_chunks
  /\ transport = "meta" => chunk.sequence = 0

\* As long as nothing is overwritten, one chunk waits at a time.
OneWaits == overwritten = "nothing" =>
  AtMostOne(subscription) /\ (pc = "notify_chunk" => ~ChunkWaits)

\* The chunk that is published continues the photo announced.
Continues == transport = "chunk" /\ Level # "announcement" =>
  /\ chunk.total_chunks = broker.chunks
  /\ chunk.sequence + 1 >= broker.next
  /\ Level = "nothing" => chunk.sequence = broker.next

UploadInv == Fit /\ OneWaits /\ Continues /\ (Goes /\ Ahead # "announcement" => Upcoming)
-----------------------------------------------------------------------------
(* The arithmetic of the chunks.                                           *)

\* A division that rounds up.
LEMMA RoundedUp ==
  ASSUME NEW n \in Nat, NEW c \in Nat, c > 0
  PROVE  LET q == (n + c - 1) \div c IN q \in Nat /\ q * c >= n /\ q * c < n + c
OBVIOUS

\* One chunk more.
LEMMA OneMore ==
  ASSUME NEW s \in Nat, NEW c \in Nat
  PROVE  (s + 1) * c = s * c + c
OBVIOUS

\* A greater number of chunks has at least one chunk more.
LEMMA ChunksGrow ==
  ASSUME NEW s \in Nat, NEW t \in Nat, NEW c \in Nat, s < t
  PROVE  t * c >= s * c + c
<1>1. PICK d \in Nat : t = s + 1 + d
  BY t - s - 1 \in Nat
<1>2. t * c = s * c + c + d * c
  BY <1>1
<1>3. d * c >= 0
  OBVIOUS
<1>4. d * c \in Nat /\ s * c \in Nat /\ t * c \in Nat
  OBVIOUS
<1> QED
  BY <1>2, <1>3, <1>4

\* What the chunks before s leave of an image tells how many chunks there are.
LEMMA ChunksLeft ==
  ASSUME NEW n \in Nat, NEW s \in Nat, NEW r \in Nat, r > 0,
         s * ChunkSize + r = n
  PROVE  LET total == (n + ChunkSize - 1) \div ChunkSize IN
         /\ total \in Nat
         /\ s < total
         /\ s = total - 1 <=> r <= ChunkSize
<1> DEFINE total == (n + ChunkSize - 1) \div ChunkSize
<1>1. total \in Nat /\ total * ChunkSize >= n /\ total * ChunkSize < n + ChunkSize
  BY RoundedUp
<1>2. s * ChunkSize \in Nat /\ total * ChunkSize \in Nat /\ (s + 1) * ChunkSize \in Nat
  BY <1>1
<1> HIDE DEF total
<1>3. s < total
  <2>1. SUFFICES ASSUME total <= s PROVE FALSE
    BY <1>1
  <2>2. s * ChunkSize >= total * ChunkSize
    <3>1. CASE total = s
      BY <3>1, <1>2
    <3>2. CASE total < s
      BY <3>2, <1>1, <1>2, ChunksGrow
    <3> QED
      BY <2>1, <3>1, <3>2, <1>1
  <2> QED
    BY <2>2, <1>1, <1>2
<1>4. (s + 1) * ChunkSize = s * ChunkSize + ChunkSize
  BY OneMore
<1>5. s + 1 = total => r <= ChunkSize
  BY <1>1, <1>2, <1>4
<1>6. r <= ChunkSize => s + 1 = total
  <2>1. SUFFICES ASSUME r <= ChunkSize, s + 1 < total PROVE FALSE
    BY <1>1, <1>3
  <2>2. total * ChunkSize >= (s + 1) * ChunkSize + ChunkSize
    BY <2>1, <1>1, ChunksGrow
  <2> QED
    BY <2>1, <2>2, <1>1, <1>2, <1>4
<1> QED
  BY <1>1, <1>3, <1>5, <1>6 DEF total
-----------------------------------------------------------------------------
(* Type correctness.                                                       *)

\* Nothing is published before camera_task has started.
NothingYet == pc = "start" => subscription = <<>>

TypeInv == TypeOK /\ ErrorIsSet /\ NothingYet

\* Only errors of enum camera_error_type come out of map_esp32cam_error().
LEMMA ErrorsAreMapped == \A ret : MapError(ret) \in MapErrors
BY DEF MapError, MapErrors

\* The length of an accepted image is between 1 and MaxLength.
LEMMA LengthAccepted ==
  ASSUME NEW transfer, NEW status, NEW second, NEW length,
         CaptureLength(transfer, status, second, length) = "0"
  PROVE  length \in 1..MaxLength
BY DEF CaptureLength, SpiRead

\* The chunk put into the channel is a chunk, and what remains is of the image.
LEMMA ChunkType ==
  ASSUME TypeOK
  PROVE  /\ ToRead \in 0..ChunkSize
         /\ remaining - ToRead \in 0..MaxLength
         /\ TotalChunks \in Nat
         /\ [sequence |-> sequence, total_chunks |-> TotalChunks] \in Chunks
<1>1. ToRead \in 0..ChunkSize /\ remaining - ToRead \in 0..MaxLength
  BY DEF ToRead, TypeOK
<1>2. TotalChunks \in Nat
  BY RoundedUp DEF TotalChunks, TypeOK
<1> QED
  BY <1>1, <1>2 DEF Chunks, TypeOK

\* Appending keeps the type of the queue and of its length.
LEMMA QueueGrows ==
  ASSUME TypeOK, NEW c \in {"CAMERA_CHUNK_CHAN", "CAMERA_ERROR_CHAN"}
  PROVE  /\ Append(subscription, c) \in Seq({"CAMERA_CHUNK_CHAN", "CAMERA_ERROR_CHAN"})
         /\ Len(Append(subscription, c)) = Len(subscription) + 1
         /\ Len(subscription) \in Nat
BY DEF TypeOK

\* So does taking the first notification.
LEMMA QueueShrinks ==
  ASSUME TypeOK, subscription # <<>>
  PROVE  /\ Tail(subscription) \in Seq({"CAMERA_CHUNK_CHAN", "CAMERA_ERROR_CHAN"})
         /\ Len(Tail(subscription)) <= QueueSize
BY DEF TypeOK

\* The worse of two losses is a loss, none only when both are none.
LEMMA WorstOf ==
  \A a, b \in Losses :
    /\ Worst(a, b) \in Losses
    /\ Worst(a, b) = "nothing" <=> a = "nothing" /\ b = "nothing"
    /\ Worst(a, b) = "announcement" <=> a = "announcement" \/ b = "announcement"
BY DEF Worst, Losses

\* So is what is lost with a chunk.
LEMMA LossIsOne == \A c : LossOf(c) \in Losses /\ LossOf(c) # "nothing"
BY DEF LossOf, Losses

\* The program starts with values of these types.
LEMMA TypeInit == Init => TypeInv
<1> SUFFICES ASSUME Init PROVE TypeInv
  OBVIOUS
<1>1. read_buf \in BOOLEAN
  BY Zenon DEF Init
<1>2. CAMERA_CHUNK_CHAN \in Chunks /\ chunk \in Chunks
  BY DEF Init, Chunks, NoChunk
<1>3. broker \in [chunks : Nat, next : Nat] /\ lost \in Losses /\ overwritten \in Losses
  BY DEF Init, Losses
<1> QED
  BY <1>1, <1>2, <1>3 DEF Init, TypeInv, TypeOK, ErrorIsSet, NothingYet, Commands, MapErrors

\* Each step of camera_task outside the loop keeps the types.
LEMMA TypeCommand ==
  ASSUME TypeInv,
         CameraStarts \/ DeviceNotReady \/ TakeCommand \/ SwitchEnds \/ PublishError
  PROVE  TypeInv'
<1> USE DEF TypeInv, TypeOK, ErrorIsSet, NothingYet, channels, photo, upload, Finish, Fail
<1>1. CASE CameraStarts
  BY <1>1 DEF CameraStarts
<1>2. CASE DeviceNotReady
  <2>1. subscription' \in Seq({"CAMERA_CHUNK_CHAN", "CAMERA_ERROR_CHAN"}) /\ Len(subscription') <= QueueSize
    BY <1>2, QueueGrows DEF DeviceNotReady
  <2> QED
    BY <1>2, <2>1 DEF DeviceNotReady, MapErrors
<1>3. CASE TakeCommand
  BY <1>3 DEF TakeCommand
<1>4. CASE SwitchEnds
  BY <1>4, ErrorsAreMapped DEF SwitchEnds
<1>5. CASE PublishError
  <2>1. subscription' \in Seq({"CAMERA_CHUNK_CHAN", "CAMERA_ERROR_CHAN"}) /\ Len(subscription') <= QueueSize
    BY <1>5, QueueGrows DEF PublishError
  <2> QED
    BY <1>5, <2>1 DEF PublishError
<1> QED
  BY <1>1, <1>2, <1>3, <1>4, <1>5

\* So does the way to the next chunk.
LEMMA AdvanceType ==
  ASSUME TypeInv, Advance
  PROVE  /\ remaining' \in 0..MaxLength /\ sequence' \in Nat /\ read_buf' \in BOOLEAN
         /\ pc' \in {"read", "sub_wait"} /\ commands' = commands
<1>1. remaining' \in 0..MaxLength /\ sequence' \in Nat
  BY ChunkType DEF Advance, TypeInv, TypeOK
<1>2. read_buf \in BOOLEAN
  BY DEF TypeInv, TypeOK
<1>3. read_buf' \in BOOLEAN
  BY <1>2, Zenon DEF Advance
<1>4. pc' \in {"read", "sub_wait"} /\ commands' = commands
  BY DEF Advance, Finish
<1> QED
  BY <1>1, <1>3, <1>4

\* So does each step of the loop.
LEMMA TypeCapture == TypeInv /\ Capture => TypeInv'
<1> SUFFICES ASSUME TypeInv, Capture PROVE TypeInv'
  OBVIOUS
<1> USE DEF TypeInv, TypeOK, ErrorIsSet, NothingYet, channels, photo, upload, Fail
<1>1. CASE CaptureLengthEnds
  <2>0. PICK length \in Lengths : \E ret \in CaptureLengths(length) :
          IF ret = "0"
          THEN /\ image_length' = length /\ remaining' = length /\ sequence' = 0
               /\ pc' = "malloc"
               /\ UNCHANGED error
          ELSE Fail(MapError(ret)) /\ UNCHANGED <<image_length, remaining, sequence>>
    BY <1>1, Zenon DEF CaptureLengthEnds
  <2>1. PICK ret \in CaptureLengths(length) :
          IF ret = "0"
          THEN /\ image_length' = length /\ remaining' = length /\ sequence' = 0
               /\ pc' = "malloc"
               /\ UNCHANGED error
          ELSE Fail(MapError(ret)) /\ UNCHANGED <<image_length, remaining, sequence>>
    BY <2>0, Zenon
  <2>2. CASE ret = "0"
    <3>1. length \in 0..MaxLength
      BY <2>2, LengthAccepted DEF CaptureLengths
    <3> QED
      BY <1>1, <2>1, <2>2, <3>1 DEF CaptureLengthEnds
  <2>3. CASE ret # "0"
    BY <1>1, <2>1, <2>3, ErrorsAreMapped DEF CaptureLengthEnds
  <2> QED
    BY <2>2, <2>3
<1>2. CASE Malloc
  BY <1>2 DEF Malloc, MapErrors
<1>3. CASE ReadEnds
  BY <1>3, ErrorsAreMapped DEF ReadEnds
<1>4. CASE PublishChunk
  <2>1. CAMERA_CHUNK_CHAN' \in Chunks
    BY <1>4, ChunkType DEF PublishChunk, SetChunkChannel
  <2>2. lost' \in Losses /\ overwritten' \in Losses
    <3>1. "nothing" \in Losses
      BY DEF Losses
    <3> QED
      BY <1>4, <3>1, WorstOf, LossIsOne DEF PublishChunk
  <2> QED
    BY <1>4, <2>1, <2>2 DEF PublishChunk
<1>5. CASE NotifyChunk
  <2>1. subscription' \in Seq({"CAMERA_CHUNK_CHAN", "CAMERA_ERROR_CHAN"}) /\ Len(subscription') <= QueueSize
    BY <1>5, QueueGrows DEF NotifyChunk
  <2> QED
    BY <1>5, <2>1, AdvanceType DEF NotifyChunk
<1>6. CASE NotifyChunkTimesOut
  BY <1>6 DEF NotifyChunkTimesOut, MapErrors
<1> QED
  BY <1>1, <1>2, <1>3, <1>4, <1>5, <1>6 DEF Capture

\* So does each step of transport_task.
LEMMA TypeTransport == TypeInv /\ TransportTask => TypeInv'
<1> SUFFICES ASSUME TypeInv, TransportTask PROVE TypeInv'
  OBVIOUS
<1> USE DEF TypeInv, TypeOK, ErrorIsSet, NothingYet, channels, camera, photo, upload
<1>0. NoChunk \in Chunks
  BY DEF NoChunk, Chunks
<1>1. CASE TakeChunk
  <2>1. lost' \in Losses
    BY <1>1, WorstOf, LossIsOne DEF TakeChunk
  <2> QED
    BY <1>1, <2>1, QueueShrinks DEF TakeChunk
<1>2. CASE TakeError
  BY <1>2, QueueShrinks DEF TakeError
<1>3. CASE MetaSent
  BY <1>3 DEF MetaSent, Chunks
<1>4. CASE ChunkSent
  <2>1. broker' \in [chunks : Nat, next : Nat]
    <3>1. chunk.sequence + 1 \in Nat /\ broker \in [chunks : Nat, next : Nat]
      BY DEF Chunks
    <3>2. broker' = [broker EXCEPT !.next = chunk.sequence + 1]
      BY <1>4 DEF ChunkSent
    <3> HIDE DEF TypeInv, TypeOK
    <3> QED
      BY <3>1, <3>2
  <2> QED
    BY <1>0, <1>4, <2>1 DEF ChunkSent
<1>5. CASE ErrorSent
  BY <1>5 DEF ErrorSent
<1>6. CASE WriteFails
  <2>1. lost' \in Losses
    <3>1. "announcement" \in Losses /\ "chunk" \in Losses
      BY DEF Losses
    <3> QED
      BY <1>6, <3>1, WorstOf DEF WriteFails
  <2> QED
    BY <1>0, <1>6, <2>1 DEF WriteFails
<1> QED
  BY <1>1, <1>2, <1>3, <1>4, <1>5, <1>6 DEF TransportTask

\* Every step keeps the types.
LEMMA TypeNext == TypeInv /\ [Next]_vars => TypeInv'
<1>1. ASSUME TypeInv, CommandComes \/ CommandTimesOut PROVE TypeInv'
  BY <1>1 DEF TypeInv, TypeOK, ErrorIsSet, NothingYet, CommandComes, CommandTimesOut, camera,
    photo, upload
<1>2. ASSUME TypeInv, UNCHANGED vars PROVE TypeInv'
  BY <1>2 DEF TypeInv, TypeOK, ErrorIsSet, NothingYet, vars, channels, camera, photo, upload
<1> QED
  BY <1>1, <1>2, TypeCommand, TypeCapture, TypeTransport DEF Next, CameraTask

\* Only errors of enum camera_error_type get into CAMERA_ERROR_CHAN, and the
\* queues of both subscribers keep their bounds.
THEOREM TypeCorrect == Spec => []TypeOK
<1>1. TypeInv => TypeOK
  BY DEF TypeInv
<1> QED
  BY <1>1, TypeInit, TypeNext, PTL DEF Spec
-----------------------------------------------------------------------------
(* The loop of handle_camera_cmd().                                        *)

\* An image that is accepted is all remaining, and its first chunk is number 0.
LEMMA ProgressBegins == TypeInv /\ CaptureLengthEnds => Progress'
<1> SUFFICES ASSUME TypeInv, CaptureLengthEnds PROVE Progress'
  OBVIOUS
<1>1. CASE pc' = "malloc"
  <2>1. PICK length \in Lengths :
          /\ length \in 1..MaxLength
          /\ image_length' = length /\ remaining' = length /\ sequence' = 0
    BY <1>1, LengthAccepted DEF CaptureLengthEnds, CaptureLengths, Fail
  <2>2. 0 * ChunkSize = 0
    OBVIOUS
  <2> QED
    BY <2>1, <2>2 DEF Progress
<1>2. CASE pc' # "malloc"
  <2>1. pc' = "publish_error"
    BY <1>2, Zenon DEF CaptureLengthEnds, Fail
  <2> QED
    BY <2>1 DEF Progress
<1> QED
  BY <1>1, <1>2

\* A chunk takes its size from what remains, and all of it only when it is the last.
LEMMA ProgressGoesOn == TypeInv /\ Progress /\ NotifyChunk => Progress'
<1> SUFFICES ASSUME TypeInv, Progress, NotifyChunk, remaining' > 0 PROVE Progress'
  BY DEF Progress, NotifyChunk, Advance, Finish
<1>1. remaining > ChunkSize /\ remaining' = remaining - ChunkSize
  BY DEF NotifyChunk, Advance, ToRead, TypeInv, TypeOK
<1>2. sequence' * ChunkSize = sequence * ChunkSize + ChunkSize
  BY OneMore DEF NotifyChunk, Advance, TypeInv, TypeOK
<1>3. sequence * ChunkSize \in Nat /\ sequence * ChunkSize + remaining = image_length
  BY DEF Progress, NotifyChunk, TypeInv, TypeOK
<1>4. image_length' = image_length /\ remaining \in Nat
  BY DEF NotifyChunk, TypeInv, TypeOK
<1> QED
  BY <1>1, <1>2, <1>3, <1>4 DEF Progress

\* Every step keeps the loop's count.
LEMMA ProgressNext == TypeInv /\ Progress /\ [Next]_vars => Progress'
<1> SUFFICES ASSUME TypeInv, Progress, [Next]_vars PROVE Progress'
  OBVIOUS
<1> USE DEF Progress, photo, Fail, Finish
<1>1. CASE CameraStarts \/ DeviceNotReady \/ TakeCommand \/ PublishError
  BY <1>1 DEF CameraStarts, DeviceNotReady, TakeCommand, PublishError
<1>2. CASE SwitchEnds
  BY <1>2 DEF SwitchEnds
<1>3. CASE Malloc \/ PublishChunk \/ NotifyChunkTimesOut
  BY <1>3 DEF Malloc, PublishChunk, NotifyChunkTimesOut
<1>4. CASE ReadEnds
  BY <1>4 DEF ReadEnds
<1>5. CASE TransportTask \/ CommandComes \/ CommandTimesOut \/ UNCHANGED vars
  BY <1>5 DEF TransportTask, TakeChunk, TakeError, MetaSent, ChunkSent, ErrorSent, WriteFails,
    CommandComes, CommandTimesOut, vars, camera
<1> QED
  BY <1>1, <1>2, <1>3, <1>4, <1>5, ProgressBegins, ProgressGoesOn DEF Next, CameraTask, Capture

\* Whatever the size of the image and of the chunks, each chunk says truly where
\* it belongs (camera.c:82-127).
THEOREM ChunksAreOfImage == Spec => []ChunksCoverImage
<1>1. Init => Progress
  BY DEF Init, Progress
<1>2. TypeInv /\ Progress => ChunksCoverImage
  <2> SUFFICES ASSUME TypeInv, Progress, pc \in {"read", "publish_chunk", "notify_chunk"}
               PROVE  /\ sequence * ChunkSize + remaining = image_length
                      /\ sequence < TotalChunks
                      /\ sequence = TotalChunks - 1 <=> remaining <= ChunkSize
    BY DEF ChunksCoverImage
  <2> QED
    BY ChunksLeft DEF Progress, TotalChunks, TypeInv, TypeOK
<1> QED
  BY <1>1, <1>2, TypeInit, TypeNext, ProgressNext, PTL DEF Spec

\* Every step keeps the buffer to the loop that reads into it.
LEMMA BufferNext == BufferFreed /\ [Next]_vars => BufferFreed'
<1> SUFFICES ASSUME BufferFreed, [Next]_vars PROVE BufferFreed'
  OBVIOUS
<1> USE DEF BufferFreed, photo, Fail, Finish
<1>1. CASE CameraStarts \/ DeviceNotReady \/ TakeCommand \/ PublishError
  BY <1>1 DEF CameraStarts, DeviceNotReady, TakeCommand, PublishError
<1>2. CASE SwitchEnds
  BY <1>2 DEF SwitchEnds
<1>3. CASE CaptureLengthEnds
  BY <1>3 DEF CaptureLengthEnds
<1>4. CASE Malloc \/ PublishChunk \/ NotifyChunk \/ NotifyChunkTimesOut
  BY <1>4 DEF Malloc, PublishChunk, NotifyChunk, NotifyChunkTimesOut, Advance
<1>5. CASE ReadEnds
  BY <1>5 DEF ReadEnds
<1>6. CASE TransportTask \/ CommandComes \/ CommandTimesOut \/ UNCHANGED vars
  BY <1>6 DEF TransportTask, TakeChunk, TakeError, MetaSent, ChunkSent, ErrorSent, WriteFails,
    CommandComes, CommandTimesOut, vars, camera
<1> QED
  BY <1>1, <1>2, <1>3, <1>4, <1>5, <1>6 DEF Next, CameraTask, Capture

\* Every way out of the loop frees the buffer (camera.c:101, 117, 129).
THEOREM BufferIsFreed == Spec => []BufferFreed
<1>1. Init => BufferFreed
  BY DEF Init, BufferFreed
<1> QED
  BY <1>1, BufferNext, PTL DEF Spec

\* Every step that empties the queue of camera_task takes the channel's value, and
\* every step that changes the value leaves a notification in the queue.
LEMMA CommandNext == TypeInv /\ CommandIsLatest /\ [Next]_vars => CommandIsLatest'
<1> SUFFICES ASSUME TypeInv, CommandIsLatest, [Next]_vars PROVE CommandIsLatest'
  OBVIOUS
<1> USE DEF CommandIsLatest, photo, channels, Fail, Finish
<1>1. CASE CameraStarts \/ DeviceNotReady \/ TakeCommand \/ PublishError
  BY <1>1 DEF CameraStarts, DeviceNotReady, TakeCommand, PublishError
<1>2. CASE SwitchEnds
  BY <1>2 DEF SwitchEnds
<1>3. CASE CaptureLengthEnds
  BY <1>3 DEF CaptureLengthEnds
<1>4. CASE Malloc \/ PublishChunk \/ NotifyChunk \/ NotifyChunkTimesOut
  BY <1>4 DEF Malloc, PublishChunk, NotifyChunk, NotifyChunkTimesOut, Advance
<1>5. CASE ReadEnds
  BY <1>5 DEF ReadEnds
<1>6. CASE CommandComes \/ CommandTimesOut
  BY <1>6 DEF CommandComes, CommandTimesOut, TypeInv, TypeOK
<1>7. CASE TransportTask \/ UNCHANGED vars
  BY <1>7 DEF TransportTask, TakeChunk, TakeError, MetaSent, ChunkSent, ErrorSent, WriteFails,
    vars, camera
<1> QED
  BY <1>1, <1>2, <1>3, <1>4, <1>5, <1>6, <1>7 DEF Next, CameraTask, Capture

\* A command is never forgotten for an older one: with none left, the one that
\* was carried out last is the last one that came (camera.c:157-166).
THEOREM LatestCommandIsCarriedOut == Spec => []LatestCommandWins
<1>1. Init => CommandIsLatest
  BY DEF Init, CommandIsLatest
<1>2. CommandIsLatest => LatestCommandWins
  BY DEF CommandIsLatest, LatestCommandWins
<1> QED
  BY <1>1, <1>2, TypeInit, TypeNext, CommandNext, PTL DEF Spec
-----------------------------------------------------------------------------
(* What the channel holds.                                                 *)

LoopInv == TypeInv /\ Progress /\ Written

\* The sequence numbers are natural.
LEMMA Numbers ==
  ASSUME TypeInv
  PROVE  /\ sequence \in Nat /\ remaining \in Nat /\ image_length \in Nat
         /\ TotalChunks \in Nat
         /\ CAMERA_CHUNK_CHAN.sequence \in Nat /\ CAMERA_CHUNK_CHAN.total_chunks \in Nat
         /\ chunk.sequence \in Nat /\ chunk.total_chunks \in Nat
         /\ broker.next \in Nat /\ broker.chunks \in Nat
BY ChunkType DEF TypeInv, TypeOK, Chunks

\* A step that leaves the channel and the loop's variables alone, and leads neither
\* into the loop nor to its end.
LEMMA WrittenStays ==
  ASSUME Written, UNCHANGED <<CAMERA_CHUNK_CHAN, image_length, remaining, sequence>>,
         pc' \in {pc, "sub_wait", "ended", "capture_length", "switch", "publish_error"}
           \/ pc = "malloc" \/ (pc = "read" /\ pc' = "publish_chunk"),
         pc' \notin {"malloc", "notify_chunk"} \/ pc' = pc
  PROVE  Written'
BY DEF Written, InLoop, TotalChunks

\* Every step keeps it so.
LEMMA WrittenNext == LoopInv /\ [Next]_vars => Written'
<1> SUFFICES ASSUME LoopInv, [Next]_vars PROVE Written'
  OBVIOUS
<1> USE DEF photo, channels
<1>1. CASE CameraStarts \/ DeviceNotReady \/ TakeCommand \/ SwitchEnds \/ Malloc \/ ReadEnds
           \/ NotifyChunkTimesOut \/ PublishError
  <2>1. UNCHANGED <<CAMERA_CHUNK_CHAN, image_length, remaining, sequence>>
    BY <1>1 DEF CameraStarts, DeviceNotReady, TakeCommand, SwitchEnds, Malloc, ReadEnds,
      NotifyChunkTimesOut, PublishError
  <2>2. \/ pc' \in {"sub_wait", "ended", "capture_length", "switch", "publish_error"}
        \/ pc = "malloc" /\ pc' = "read"
        \/ pc = "read" /\ pc' = "publish_chunk"
    BY <1>1 DEF CameraStarts, DeviceNotReady, TakeCommand, SwitchEnds, Malloc, ReadEnds,
      NotifyChunkTimesOut, PublishError, Finish, Fail
  <2> QED
    BY <2>1, <2>2, WrittenStays DEF LoopInv
<1>2. CASE CaptureLengthEnds
  <2>1. \/ /\ sequence' = 0 /\ pc' = "malloc" /\ remaining' \in 1..MaxLength
        \/ pc' = "publish_error" /\ UNCHANGED <<image_length, remaining, sequence>>
    BY <1>2, LengthAccepted DEF CaptureLengthEnds, CaptureLengths, Fail
  <2>2. CAMERA_CHUNK_CHAN' = CAMERA_CHUNK_CHAN
    BY <1>2 DEF CaptureLengthEnds
  <2>3. CASE sequence' = 0 /\ pc' = "malloc" /\ remaining' \in 1..MaxLength
    BY <2>3 DEF Written
  <2> QED
    BY <2>1, <2>2, <2>3, WrittenStays DEF LoopInv
<1>3. CASE PublishChunk
  <2>1. /\ CAMERA_CHUNK_CHAN'.sequence = sequence
        /\ CAMERA_CHUNK_CHAN'.total_chunks = TotalChunks
        /\ UNCHANGED <<sequence, remaining, image_length>>
        /\ pc' = "notify_chunk" /\ remaining > 0
    BY <1>3 DEF PublishChunk, SetChunkChannel, LoopInv, Progress
  <2> QED
    BY <2>1 DEF Written, InLoop, TotalChunks
<1>4. CASE NotifyChunk
  <2>1. /\ pc = "notify_chunk" /\ pc' \in {"read", "sub_wait"}
        /\ UNCHANGED <<CAMERA_CHUNK_CHAN, image_length>>
        /\ sequence' = sequence + 1 /\ remaining' = remaining - ToRead
    BY <1>4 DEF NotifyChunk, Advance, Finish
  <2>2. TotalChunks' = TotalChunks
    BY <2>1 DEF TotalChunks
  <2>3. remaining' = 0 => sequence' = TotalChunks
    <3>1. sequence = TotalChunks - 1 <=> remaining <= ChunkSize
      BY <2>1, ChunksLeft, Numbers DEF LoopInv, Progress, TotalChunks
    <3>2. remaining' = 0 => remaining <= ChunkSize
      BY <2>1, Numbers DEF ToRead, LoopInv
    <3> QED
      BY <2>1, <3>1, <3>2, Numbers DEF LoopInv
  <2> QED
    BY <2>1, <2>2, <2>3 DEF Written, InLoop, LoopInv
<1>5. CASE TransportTask \/ CommandComes \/ CommandTimesOut \/ UNCHANGED vars
  <2>1. UNCHANGED <<CAMERA_CHUNK_CHAN, image_length, remaining, sequence, pc>>
    BY <1>5 DEF TransportTask, TakeChunk, TakeError, MetaSent, ChunkSent, ErrorSent, WriteFails,
      CommandComes, CommandTimesOut, vars, camera
  <2> QED
    BY <2>1, WrittenStays DEF LoopInv
<1> QED
  BY <1>1, <1>2, <1>3, <1>4, <1>5 DEF Next, CameraTask, Capture
-----------------------------------------------------------------------------
(* What transport_task publishes next.                                     *)

InOrderInv == LoopInv /\ UploadInv

\* One notification more.
LEMMA Appended ==
  ASSUME TypeInv, NEW c \in {"CAMERA_CHUNK_CHAN", "CAMERA_ERROR_CHAN"},
         subscription' = Append(subscription, c)
  PROVE  /\ ChunkWaits' <=> ChunkWaits \/ c = "CAMERA_CHUNK_CHAN"
         /\ AtMostOne(subscription) /\ (c = "CAMERA_ERROR_CHAN" \/ ~ChunkWaits)
              => AtMostOne(subscription')
<1> DEFINE n == Len(subscription)
<1>1. n \in Nat /\ Len(subscription') = n + 1
      /\ \A i \in 1..n : subscription'[i] = subscription[i]
  BY DEF TypeInv, TypeOK
<1>2. subscription'[n + 1] = c
  BY DEF TypeInv, TypeOK
<1>3. ChunkWaits' <=> ChunkWaits \/ c = "CAMERA_CHUNK_CHAN"
  <2>1. ChunkWaits => ChunkWaits'
    BY <1>1 DEF ChunkWaits
  <2>2. c = "CAMERA_CHUNK_CHAN" => ChunkWaits'
    BY <1>1, <1>2 DEF ChunkWaits
  <2>3. ASSUME ChunkWaits', c # "CAMERA_CHUNK_CHAN" PROVE ChunkWaits
    <3>1. PICK i \in 1..(n + 1) : subscription'[i] = "CAMERA_CHUNK_CHAN"
      BY <1>1, <2>3 DEF ChunkWaits
    <3>2. i \in 1..n
      BY <1>1, <1>2, <2>3, <3>1
    <3> QED
      BY <1>1, <3>1, <3>2 DEF ChunkWaits
  <2> QED
    BY <2>1, <2>2, <2>3
<1>4. ASSUME AtMostOne(subscription), c = "CAMERA_ERROR_CHAN" \/ ~ChunkWaits,
             NEW i \in 1..(n + 1), NEW j \in 1..(n + 1),
             subscription'[i] = "CAMERA_CHUNK_CHAN", subscription'[j] = "CAMERA_CHUNK_CHAN"
      PROVE  i = j
  <2>1. CASE c = "CAMERA_ERROR_CHAN"
    <3>1. i \in 1..n /\ j \in 1..n
      BY <1>1, <1>2, <1>4, <2>1
    <3> QED
      BY <1>1, <1>4, <3>1 DEF AtMostOne
  <2>2. CASE ~ChunkWaits
    <3>1. i \notin 1..n /\ j \notin 1..n
      BY <1>1, <1>4, <2>2 DEF ChunkWaits
    <3> QED
      BY <1>1, <3>1
  <2> QED
    BY <1>4, <2>1, <2>2
<1>5. AtMostOne(subscription) /\ (c = "CAMERA_ERROR_CHAN" \/ ~ChunkWaits)
        => AtMostOne(subscription')
  BY <1>1, <1>4 DEF AtMostOne
<1> QED
  BY <1>3, <1>5

\* One notification less.
LEMMA Taken ==
  ASSUME TypeInv, subscription # <<>>, subscription' = Tail(subscription)
  PROVE  /\ ChunkWaits' => ChunkWaits
         /\ Head(subscription) = "CAMERA_CHUNK_CHAN" => ChunkWaits
         /\ Head(subscription) # "CAMERA_CHUNK_CHAN" => (ChunkWaits' <=> ChunkWaits)
         /\ AtMostOne(subscription) => AtMostOne(subscription')
         /\ AtMostOne(subscription) /\ Head(subscription) = "CAMERA_CHUNK_CHAN" => ~ChunkWaits'
<1> DEFINE n == Len(subscription)
<1>1. /\ n \in Nat \ {0} /\ Len(subscription') = n - 1
      /\ \A i \in 1..(n - 1) : subscription'[i] = subscription[i + 1]
      /\ Head(subscription) = subscription[1]
  BY DEF TypeInv, TypeOK
<1>2. ASSUME ChunkWaits'
      PROVE  \E i \in 2..n : subscription[i] = "CAMERA_CHUNK_CHAN"
  <2>1. PICK i \in 1..(n - 1) : subscription'[i] = "CAMERA_CHUNK_CHAN"
    BY <1>1, <1>2 DEF ChunkWaits
  <2>2. i + 1 \in 2..n
    BY <1>1
  <2> QED
    BY <1>1, <2>1, <2>2
<1>3. ChunkWaits' => ChunkWaits
  BY <1>1, <1>2 DEF ChunkWaits
<1>4. Head(subscription) = "CAMERA_CHUNK_CHAN" => ChunkWaits
  BY <1>1 DEF ChunkWaits
<1>5. ASSUME Head(subscription) # "CAMERA_CHUNK_CHAN", ChunkWaits PROVE ChunkWaits'
  <2>1. PICK i \in 1..n : subscription[i] = "CAMERA_CHUNK_CHAN"
    BY <1>5 DEF ChunkWaits
  <2>2. i # 1
    BY <1>1, <1>5, <2>1
  <2>3. i - 1 \in 1..(n - 1) /\ (i - 1) + 1 = i
    BY <1>1, <2>2
  <2>4. subscription'[i - 1] = "CAMERA_CHUNK_CHAN"
    BY <1>1, <2>1, <2>3
  <2> QED
    BY <1>1, <2>3, <2>4 DEF ChunkWaits
<1>6. ASSUME AtMostOne(subscription) PROVE AtMostOne(subscription')
  <2>1. SUFFICES ASSUME NEW i \in 1..(n - 1), NEW j \in 1..(n - 1),
                        subscription'[i] = "CAMERA_CHUNK_CHAN",
                        subscription'[j] = "CAMERA_CHUNK_CHAN"
                 PROVE  i = j
    BY <1>1 DEF AtMostOne
  <2>2. i + 1 \in 1..n /\ j + 1 \in 1..n
    BY <1>1
  <2>3. i + 1 = j + 1
    BY <1>1, <1>6, <2>1, <2>2 DEF AtMostOne
  <2> QED
    BY <2>3
<1>7. ASSUME AtMostOne(subscription), Head(subscription) = "CAMERA_CHUNK_CHAN" PROVE ~ChunkWaits'
  <2>1. SUFFICES ASSUME ChunkWaits' PROVE FALSE
    OBVIOUS
  <2>2. PICK i \in 2..n : subscription[i] = "CAMERA_CHUNK_CHAN"
    BY <1>2, <2>1
  <2>3. 1 \in 1..n /\ i \in 1..n /\ i # 1
    BY <1>1
  <2> QED
    BY <1>1, <1>7, <2>2, <2>3 DEF AtMostOne
<1> QED
  BY <1>3, <1>4, <1>5, <1>6, <1>7

\* A step that moves no chunk: whatever goes on was going on, from the same place.
LEMMA NothingMoves ==
  ASSUME UploadInv,
         UNCHANGED <<CAMERA_CHUNK_CHAN, transport, chunk, broker, lost, overwritten>>,
         ChunkWaits' <=> ChunkWaits,
         AtMostOne(subscription) => AtMostOne(subscription'),
         pc' = "notify_chunk" => pc = "notify_chunk",
         (InLoop /\ sequence > 0)' => InLoop /\ sequence > 0 /\ pc # "notify_chunk"
  PROVE  UploadInv'
<1> USE DEF AtHand, Level, Ahead
<1>1. Fit' /\ OneWaits' /\ Continues'
  BY DEF UploadInv, Fit, OneWaits, Continues
<1>2. Goes' => Goes /\ (Owed' <=> Owed)
  BY DEF Goes, Owed
<1>3. ASSUME (Goes /\ Ahead # "announcement")' PROVE Upcoming'
  <2>1. Upcoming
    BY <1>2, <1>3 DEF UploadInv
  <2>2. NextNumber' = NextNumber
    BY <1>2, <1>3 DEF NextNumber
  <2> QED
    BY <2>1, <2>2 DEF Upcoming
<1> QED
  BY <1>1, <1>3 DEF UploadInv

\* What camera_task does outside of zbus_chan_pub(), and commands that come.
LEMMA CameraInOrder ==
  ASSUME InOrderInv,
         \/ CameraStarts \/ DeviceNotReady \/ TakeCommand \/ SwitchEnds \/ CaptureLengthEnds
         \/ Malloc \/ ReadEnds \/ NotifyChunkTimesOut \/ PublishError
         \/ CommandComes \/ CommandTimesOut \/ UNCHANGED vars
  PROVE  UploadInv'
<1> USE DEF photo, channels, upload, camera, vars, Fail, Finish
<1>0. InOrderInv /\ UploadInv /\ LoopInv /\ TypeInv /\ Progress /\ Written
  BY DEF InOrderInv, LoopInv
<1>1. UNCHANGED <<CAMERA_CHUNK_CHAN, transport, chunk, broker, lost, overwritten>>
  BY DEF CameraStarts, DeviceNotReady, TakeCommand, SwitchEnds, CaptureLengthEnds, Malloc,
    ReadEnds, NotifyChunkTimesOut, PublishError, CommandComes, CommandTimesOut
<1>2. subscription' \in {subscription, Append(subscription, "CAMERA_ERROR_CHAN")}
  BY DEF CameraStarts, DeviceNotReady, TakeCommand, SwitchEnds, CaptureLengthEnds, Malloc,
    ReadEnds, NotifyChunkTimesOut, PublishError, CommandComes, CommandTimesOut
<1>3. /\ ChunkWaits' <=> ChunkWaits
      /\ AtMostOne(subscription) => AtMostOne(subscription')
  <2>1. CASE subscription' = subscription
    BY <2>1 DEF ChunkWaits
  <2>2. CASE subscription' = Append(subscription, "CAMERA_ERROR_CHAN")
    BY <1>0, <2>2, Appended
  <2> QED
    BY <1>2, <2>1, <2>2
<1>4. /\ pc' = "notify_chunk" => pc = "notify_chunk"
      /\ (InLoop /\ sequence > 0)' => InLoop /\ sequence > 0 /\ pc # "notify_chunk"
  <2>1. CASE CaptureLengthEnds
    <3>1. \/ sequence' = 0 /\ pc' = "malloc"
          \/ pc' = "publish_error" /\ UNCHANGED <<remaining, sequence>>
      BY <2>1 DEF CaptureLengthEnds
    <3> QED
      BY <2>1, <3>1 DEF CaptureLengthEnds, InLoop
  <2>2. CASE Malloc \/ ReadEnds \/ NotifyChunkTimesOut
    <3>1. /\ UNCHANGED <<remaining, sequence>>
          /\ remaining > 0
          /\ \/ pc = "malloc" /\ sequence = 0 /\ pc' \in {"read", "publish_error"}
             \/ pc = "read" /\ pc' \in {"publish_chunk", "publish_error"}
             \/ pc = "notify_chunk" /\ pc' = "publish_error"
      BY <1>0, <2>2 DEF Malloc, ReadEnds, NotifyChunkTimesOut, Progress, Written
    <3>2. remaining # 0
      BY <1>0, <3>1, Numbers
    <3> QED
      BY <3>1, <3>2 DEF InLoop
  <2>3. CASE CameraStarts \/ DeviceNotReady \/ TakeCommand \/ SwitchEnds \/ PublishError
    <3>1. /\ UNCHANGED <<remaining, sequence>> /\ pc # "notify_chunk"
          /\ pc' \in {"sub_wait", "ended", "capture_length", "switch", "publish_error"}
      BY <2>3 DEF CameraStarts, DeviceNotReady, TakeCommand, SwitchEnds, PublishError
    <3> QED
      BY <3>1 DEF InLoop
  <2>4. CASE CommandComes \/ CommandTimesOut \/ UNCHANGED vars
    <3>1. UNCHANGED <<remaining, sequence, pc>>
      BY <2>4 DEF CommandComes, CommandTimesOut
    <3>2. pc = "notify_chunk" => ~InLoop
      BY <1>0, Numbers DEF Progress, InLoop
    <3> QED
      BY <3>1, <3>2 DEF InLoop
  <2> QED
    BY <2>1, <2>2, <2>3, <2>4
<1> QED
  BY <1>0, <1>1, <1>3, <1>4, NothingMoves

\* A chunk put into the channel follows the one it takes the place of.
LEMMA PublishInOrder == InOrderInv /\ PublishChunk => UploadInv'
<1> SUFFICES ASSUME InOrderInv, PublishChunk PROVE UploadInv'
  OBVIOUS
<1> DEFINE c == CAMERA_CHUNK_CHAN
<1>0. InOrderInv /\ UploadInv /\ LoopInv /\ TypeInv /\ Progress /\ Written
  BY DEF InOrderInv, LoopInv
<1>1. /\ pc = "publish_chunk" /\ pc' = "notify_chunk"
      /\ UNCHANGED <<subscription, transport, chunk, broker, sequence, image_length, remaining>>
      /\ c'.sequence = sequence /\ c'.total_chunks = TotalChunks
  BY DEF PublishChunk, SetChunkChannel, photo
<1>2. /\ ChunkWaits' <=> ChunkWaits
      /\ AtMostOne(subscription') <=> AtMostOne(subscription)
      /\ Owed' /\ (AtHand' <=> AtHand) /\ NextNumber' = sequence
  BY <1>1 DEF ChunkWaits, Owed, AtHand, NextNumber
<1>3. sequence < TotalChunks
  BY <1>0, <1>1, ChunksLeft, Numbers DEF Progress, TotalChunks
<1>4. Fit'
  BY <1>0, <1>1, <1>2, <1>3 DEF Fit, UploadInv, AtHand
<1>5. lost \in Losses /\ overwritten \in Losses /\ "nothing" \in Losses
  BY <1>0 DEF TypeInv, TypeOK, Losses
<1>6. ASSUME ChunkWaits
      PROVE  /\ overwritten' \in Losses /\ overwritten' # "nothing" /\ lost' = lost
             /\ overwritten = "announcement" => overwritten' = "announcement"
             /\ c.sequence = 0 => overwritten' = "announcement"
  <2>1. overwritten' = Worst(overwritten, LossOf(c)) /\ lost' = lost
    BY <1>6, Zenon DEF PublishChunk
  <2>2. c.sequence = 0 => LossOf(c) = "announcement"
    BY DEF LossOf
  <2> QED
    BY <1>5, <2>1, <2>2, WorstOf, LossIsOne
<1>7. ASSUME ~ChunkWaits
      PROVE  /\ Level' = Level
             /\ sequence > 0 => overwritten' = overwritten
  <2>1. \/ lost' = Worst(lost, overwritten) /\ overwritten' = "nothing" /\ sequence = 0
        \/ lost' = lost /\ overwritten' = overwritten
    BY <1>7, Zenon DEF PublishChunk
  <2> QED
    BY <2>1 DEF Level, Worst
<1>8. OneWaits'
  <2>1. CASE ChunkWaits
    BY <1>6, <2>1 DEF OneWaits
  <2>2. CASE ~ChunkWaits
    <3>1. AtMostOne(subscription)
      BY <2>2 DEF AtMostOne, ChunkWaits
    <3> QED
      BY <1>2, <2>2, <3>1 DEF OneWaits
  <2> QED
    BY <2>1, <2>2
<1>9. ASSUME ChunkWaits
      PROVE  /\ Level' # "nothing" /\ Ahead' # "nothing"
             /\ Level = "announcement" => Level' = "announcement"
             /\ Ahead = "announcement" => Ahead' = "announcement"
  BY <1>1, <1>5, <1>6, <1>9, WorstOf DEF Level, Ahead
<1>10. Continues'
  BY <1>0, <1>1, <1>7, <1>9 DEF Continues, UploadInv
<1>11. ASSUME (Goes /\ Ahead # "announcement")' PROVE Upcoming'
  <2>1. sequence > 0 /\ c.sequence + 1 = sequence /\ c.total_chunks = TotalChunks
    BY <1>0, <1>1, <1>2, <1>11 DEF Goes, Written, InLoop
  <2>2. CASE ChunkWaits
    <3>1. Ahead' # "announcement" /\ Ahead' # "nothing"
      BY <1>9, <1>11, <2>2
    <3>2. c.sequence > 0
      BY <1>0, <1>1, <1>5, <1>6, <2>2, <3>1, Numbers, WorstOf DEF Ahead, Level
    <3>3. Upcoming /\ NextNumber = c.sequence
      BY <1>0, <1>9, <2>2, <3>1, <3>2 DEF UploadInv, Goes, Owed, NextNumber
    <3> QED
      BY <1>0, <1>1, <1>2, <2>1, <3>1, <3>3, Numbers DEF Upcoming
  <2>3. CASE ~ChunkWaits
    <3>1. Ahead' = Ahead
      BY <1>1, <1>7, <2>1, <2>3 DEF Ahead
    <3>2. Upcoming /\ NextNumber = sequence
      BY <1>0, <1>1, <1>11, <2>1, <2>3, <3>1 DEF UploadInv, Goes, Owed, NextNumber, InLoop
    <3> QED
      BY <1>1, <1>2, <2>1, <3>1, <3>2 DEF Upcoming
  <2> QED
    BY <2>2, <2>3
<1> QED
  BY <1>4, <1>8, <1>10, <1>11 DEF UploadInv

\* Once transport_task has been told of it, the chunk in the channel is still the next.
LEMMA NotifyInOrder == InOrderInv /\ NotifyChunk => UploadInv'
<1> SUFFICES ASSUME InOrderInv, NotifyChunk PROVE UploadInv'
  OBVIOUS
<1>0. InOrderInv /\ UploadInv /\ LoopInv /\ TypeInv /\ Progress /\ Written
  BY DEF InOrderInv, LoopInv
<1>1. /\ pc = "notify_chunk" /\ pc' # "notify_chunk"
      /\ UNCHANGED <<CAMERA_CHUNK_CHAN, transport, chunk, broker, lost, overwritten>>
      /\ subscription' = Append(subscription, "CAMERA_CHUNK_CHAN")
  BY DEF NotifyChunk, Advance, Finish, channels, upload
<1>2. ChunkWaits' /\ (AtMostOne(subscription) /\ ~ChunkWaits => AtMostOne(subscription'))
  BY <1>0, <1>1, Appended
<1>3. sequence < TotalChunks
  BY <1>0, <1>1, ChunksLeft, Numbers DEF Progress, TotalChunks
<1>4. Fit'
  BY <1>0, <1>1, <1>3 DEF Fit, UploadInv, AtHand, Written
<1>5. OneWaits' /\ Continues'
  BY <1>0, <1>1, <1>2 DEF OneWaits, Continues, UploadInv, Level
<1>6. (Goes' <=> Goes) /\ NextNumber' = NextNumber /\ Ahead' = Ahead /\ (AtHand' <=> AtHand)
  BY <1>1, <1>2 DEF Goes, Owed, NextNumber, Ahead, Level, AtHand
<1>7. Goes' /\ Ahead' # "announcement" => Upcoming'
  BY <1>0, <1>1, <1>6 DEF UploadInv, Upcoming
<1> QED
  BY <1>4, <1>5, <1>7 DEF UploadInv

\* What a failed read of the channel, or a failed write, leaves of the promise.
LEMMA LossWeakens ==
  ASSUME TypeInv, NEW l \in Losses, lost' = Worst(lost, l), overwritten' = overwritten
  PROVE  /\ lost' \in Losses
         /\ Level = "announcement" => Level' = "announcement"
         /\ Level' = "nothing" => Level = "nothing" /\ l = "nothing"
         /\ l = "announcement" => Level' = "announcement"
<1>1. lost \in Losses /\ overwritten \in Losses
  BY DEF TypeInv, TypeOK
<1> QED
  BY <1>1, WorstOf DEF Level

\* The chunk that transport_task takes is the next one, and the one after it goes on.
LEMMA TakeChunkInOrder == InOrderInv /\ TakeChunk => UploadInv'
<1> SUFFICES ASSUME InOrderInv, TakeChunk PROVE UploadInv'
  OBVIOUS
<1> DEFINE c == CAMERA_CHUNK_CHAN
<1>0. InOrderInv /\ UploadInv /\ LoopInv /\ TypeInv /\ Progress /\ Written
  BY DEF InOrderInv, LoopInv
<1>1. /\ transport = "sub_wait" /\ ~AtHand
      /\ UNCHANGED <<c, broker, overwritten, pc, sequence, remaining, image_length>>
      /\ subscription # <<>> /\ Head(subscription) = "CAMERA_CHUNK_CHAN"
      /\ subscription' = Tail(subscription)
  BY DEF TakeChunk, channels, camera, photo, AtHand
<1>2. /\ ChunkWaits
      /\ AtMostOne(subscription) => AtMostOne(subscription') /\ ~ChunkWaits'
  BY <1>0, <1>1, Taken
<1>3. c.sequence < c.total_chunks /\ OneWaits'
  BY <1>0, <1>1, <1>2 DEF UploadInv, Fit, OneWaits
<1>4. Owed /\ NextNumber = c.sequence /\ NextNumber' \in {c.sequence, c.sequence + 1}
  BY <1>1, <1>2 DEF Owed, NextNumber
<1>5. Goes' => c.sequence > 0 \/ NextNumber' = c.sequence + 1
  BY <1>1 DEF Goes, NextNumber
<1>6. overwritten = "nothing" => NextNumber' = c.sequence + 1
  BY <1>0, <1>1, <1>2 DEF UploadInv, OneWaits, NextNumber, Owed
<1>7. c.sequence > 0 /\ Level # "announcement" =>
        /\ c.total_chunks = broker.chunks /\ c.sequence + 1 >= broker.next
        /\ Level = "nothing" => c.sequence = broker.next
  BY <1>0, <1>1, <1>4 DEF UploadInv, Goes, Upcoming, Ahead
<1>8. lost \in Losses /\ overwritten \in Losses
  BY <1>0 DEF TypeInv, TypeOK
<1>9. CASE chunk' = c /\ transport' = (IF c.sequence = 0 THEN "meta" ELSE "chunk") /\ lost' = lost
  <2>1. Fit'
    BY <1>0, <1>1, <1>3, <1>9 DEF Fit
  <2>2. Level' = Level
    BY <1>1, <1>9 DEF Level
  <2>3. Continues'
    BY <1>0, <1>1, <1>7, <1>9, <2>2, Numbers DEF Continues
  <2>4. Ahead' = "nothing" => overwritten = "nothing"
    BY <1>1, <1>8, <1>9, WorstOf DEF Ahead, Level
  <2>5. Upcoming'
    BY <1>0, <1>1, <1>4, <1>6, <1>9, <2>4, Numbers DEF Upcoming, AtHand
  <2> QED
    BY <1>3, <2>1, <2>3, <2>5 DEF UploadInv
<1>10. CASE lost' = Worst(lost, LossOf(c)) /\ UNCHANGED <<transport, chunk>>
  <2>1. /\ Level = "announcement" => Level' = "announcement"
        /\ Level' # "nothing"
        /\ c.sequence = 0 => Level' = "announcement"
    BY <1>0, <1>1, <1>10, LossWeakens, LossIsOne DEF LossOf
  <2>2. Fit' /\ Continues' /\ Ahead' = Level' /\ ~AtHand'
    BY <1>1, <1>3, <1>10 DEF Fit, Continues, Ahead, Level, AtHand
  <2>3. Ahead' # "announcement" => Upcoming'
    BY <1>0, <1>1, <1>4, <1>7, <2>1, <2>2, Numbers DEF Upcoming
  <2> QED
    BY <1>3, <2>2, <2>3 DEF UploadInv
<1> QED
  BY <1>9, <1>10, Zenon DEF TakeChunk

\* Errors pass through the queue beside the chunks.
LEMMA ErrorsInOrder == InOrderInv /\ (TakeError \/ ErrorSent) => UploadInv'
<1> SUFFICES ASSUME InOrderInv, TakeError \/ ErrorSent PROVE UploadInv'
  OBVIOUS
<1>0. InOrderInv /\ UploadInv /\ LoopInv /\ TypeInv /\ Progress /\ Written
  BY DEF InOrderInv, LoopInv
<1>1. /\ UNCHANGED <<CAMERA_CHUNK_CHAN, chunk, broker, lost, overwritten>>
      /\ UNCHANGED <<pc, sequence, remaining, image_length>>
      /\ transport \in {"sub_wait", "error"} /\ transport' \in {"sub_wait", "error"}
  BY DEF TakeError, ErrorSent, channels, camera, photo, upload
<1>2. /\ ChunkWaits' <=> ChunkWaits
      /\ AtMostOne(subscription) => AtMostOne(subscription')
  <2>1. CASE TakeError
    <3>1. /\ subscription # <<>> /\ subscription' = Tail(subscription)
          /\ Head(subscription) # "CAMERA_CHUNK_CHAN"
      BY <2>1 DEF TakeError
    <3> QED
      BY <1>0, <3>1, Taken
  <2>2. CASE ErrorSent
    BY <2>2 DEF ErrorSent, ChunkWaits
  <2> QED
    BY <2>1, <2>2
<1>3. /\ ~AtHand /\ ~AtHand' /\ Ahead = Level /\ Ahead' = Level' /\ Level' = Level
      /\ (Owed' <=> Owed) /\ NextNumber' = NextNumber /\ (Goes' <=> Goes)
  BY <1>1, <1>2 DEF AtHand, Ahead, Level, Owed, NextNumber, Goes, InLoop
<1>4. Fit' /\ OneWaits' /\ Continues'
  BY <1>0, <1>1, <1>2, <1>3 DEF UploadInv, Fit, OneWaits, Continues
<1>5. Goes' /\ Ahead' # "announcement" => Upcoming'
  BY <1>0, <1>1, <1>3 DEF UploadInv, Upcoming
<1> QED
  BY <1>4, <1>5 DEF UploadInv

\* What is published, or given up, leaves the chunks behind it in order.
LEMMA SendInOrder == InOrderInv /\ (MetaSent \/ ChunkSent \/ WriteFails) => UploadInv'
<1> SUFFICES ASSUME InOrderInv, MetaSent \/ ChunkSent \/ WriteFails PROVE UploadInv'
  OBVIOUS
<1> DEFINE c == CAMERA_CHUNK_CHAN
<1>0. InOrderInv /\ UploadInv /\ LoopInv /\ TypeInv /\ Progress /\ Written
  BY DEF InOrderInv, LoopInv
<1>1. UNCHANGED <<c, overwritten, subscription, pc, sequence, remaining, image_length>>
  BY DEF MetaSent, ChunkSent, WriteFails, channels, camera, photo
<1>2. /\ ChunkWaits' <=> ChunkWaits
      /\ (Owed' <=> Owed) /\ NextNumber' = NextNumber /\ (Goes' <=> Goes)
  BY <1>1 DEF ChunkWaits, Owed, NextNumber, Goes, InLoop
<1>3. NextNumber \in Nat
  BY <1>0, Numbers DEF NextNumber
<1>4. OneWaits'
  BY <1>0, <1>1, <1>2 DEF UploadInv, OneWaits
<1>5. lost \in Losses /\ overwritten \in Losses /\ "chunk" \in Losses
  BY <1>0 DEF TypeInv, TypeOK, Losses
<1>6. Worst(overwritten, overwritten) = overwritten
  BY DEF Worst
<1>7. CASE MetaSent
  <2>1. /\ transport = "meta" /\ transport' = "chunk" /\ chunk' = chunk
        /\ lost' = overwritten /\ chunk.sequence = 0
        /\ broker'.chunks = chunk.total_chunks /\ broker'.next = 0
    BY <1>0, <1>7 DEF MetaSent, UploadInv, Fit
  <2>2. AtHand /\ AtHand' /\ Ahead' = Ahead
    BY <1>1, <1>6, <2>1 DEF AtHand, Ahead, Level
  <2>3. Fit' /\ Continues'
    BY <1>0, <1>1, <1>2, <2>1, <2>2 DEF UploadInv, Fit, Continues
  <2>4. Goes' /\ Ahead' # "announcement" => Upcoming'
    BY <1>0, <1>1, <1>2, <2>1, <2>2 DEF UploadInv, Upcoming
  <2> QED
    BY <1>4, <2>3, <2>4 DEF UploadInv
<1>8. CASE ChunkSent
  <2>1. /\ transport = "chunk" /\ transport' = "sub_wait" /\ lost' = lost
        /\ broker'.chunks = broker.chunks /\ broker'.next = chunk.sequence + 1
    BY <1>0, <1>8 DEF ChunkSent, TypeInv, TypeOK
  <2>2. AtHand /\ ~AtHand' /\ Ahead = Level /\ Ahead' = Level
    BY <1>1, <2>1 DEF AtHand, Ahead, Level
  <2>3. Fit' /\ Continues'
    BY <1>0, <1>1, <1>2, <2>1, <2>2 DEF UploadInv, Fit, Continues
  <2>4. ASSUME Goes', Ahead' # "announcement" PROVE Upcoming'
    <3>1. /\ c.total_chunks = chunk.total_chunks /\ NextNumber >= chunk.sequence
          /\ Level = "nothing" => NextNumber = chunk.sequence + 1
      BY <1>0, <1>2, <2>2, <2>4 DEF UploadInv, Upcoming
    <3>2. chunk.total_chunks = broker.chunks
      BY <1>0, <2>1, <2>2, <2>4 DEF UploadInv, Continues
    <3> QED
      BY <1>0, <1>1, <1>2, <1>3, <2>1, <2>2, <3>1, <3>2, Numbers DEF Upcoming
  <2> QED
    BY <1>4, <2>3, <2>4 DEF UploadInv
<1>9. CASE WriteFails
  <2>1. /\ transport \in {"meta", "chunk", "error"} /\ transport' = "sub_wait"
        /\ broker' = broker
        /\ transport = "meta" => lost' = "announcement"
        /\ transport = "chunk" => lost' = Worst(lost, "chunk")
        /\ transport = "error" => lost' = lost
    BY <1>9 DEF WriteFails
  <2>2. ~AtHand' /\ Ahead' = Level'
    BY <2>1 DEF AtHand, Ahead
  <2>3. Fit' /\ Continues'
    BY <1>0, <1>1, <1>2, <2>1, <2>2 DEF UploadInv, Fit, Continues
  <2>4. ASSUME Goes', Ahead' # "announcement" PROVE Upcoming'
    <3>1. CASE transport = "meta"
      BY <1>1, <1>5, <2>1, <2>2, <2>4, <3>1 DEF Level, Worst
    <3>2. CASE transport = "chunk"
      <4>1. Level # "announcement" /\ Level' # "nothing" /\ AtHand /\ Ahead = Level
        BY <1>0, <1>1, <1>5, <2>1, <2>2, <2>4, <3>2, LossWeakens DEF AtHand, Ahead
      <4>2. /\ c.total_chunks = chunk.total_chunks /\ NextNumber >= chunk.sequence
            /\ chunk.total_chunks = broker.chunks /\ chunk.sequence + 1 >= broker.next
        BY <1>0, <1>2, <2>4, <3>2, <4>1 DEF UploadInv, Upcoming, Continues
      <4> QED
        BY <1>0, <1>1, <1>2, <1>3, <2>1, <2>2, <4>1, <4>2, Numbers DEF Upcoming
    <3>3. CASE transport = "error"
      <4>1. ~AtHand /\ Ahead = Level /\ Level' = Level
        BY <1>1, <2>1, <3>3 DEF AtHand, Ahead, Level
      <4>2. Upcoming
        BY <1>0, <1>2, <2>2, <2>4, <4>1 DEF UploadInv
      <4> QED
        BY <1>1, <1>2, <2>1, <2>2, <4>1, <4>2 DEF Upcoming
    <3> QED
      BY <2>1, <3>1, <3>2, <3>3
  <2> QED
    BY <1>4, <2>3, <2>4 DEF UploadInv
<1> QED
  BY <1>7, <1>8, <1>9

\* Every step keeps the chunks in order.
LEMMA InOrderNext == InOrderInv /\ [Next]_vars => InOrderInv'
<1> SUFFICES ASSUME InOrderInv, [Next]_vars PROVE InOrderInv'
  OBVIOUS
<1>1. LoopInv'
  BY TypeNext, ProgressNext, WrittenNext DEF InOrderInv, LoopInv
<1>2. UploadInv'
  BY CameraInOrder, PublishInOrder, NotifyInOrder, TakeChunkInOrder, ErrorsInOrder, SendInOrder
  DEF Next, CameraTask, Capture, TransportTask
<1> QED
  BY <1>1, <1>2 DEF InOrderInv

\* The program starts with nothing under way.
LEMMA InOrderInit == Init => InOrderInv
<1> SUFFICES ASSUME Init PROVE InOrderInv
  OBVIOUS
<1>1. Progress /\ Written
  BY DEF Init, Progress, Written
<1>2. ~ChunkWaits /\ AtMostOne(subscription)
  BY DEF Init, ChunkWaits, AtMostOne
<1>3. UploadInv
  BY <1>2 DEF Init, UploadInv, Fit, OneWaits, Continues, Goes, Owed, AtHand
<1> QED
  BY <1>1, <1>3, TypeInit DEF InOrderInv, LoopInv

\* The inductive invariant behind the next two theorems.
LEMMA InOrderInvariance == Spec => []InOrderInv
BY InOrderInit, InOrderNext, PTL DEF Spec

\* A photo that camera_task has finished, and that transport_task has dealt with, has
\* arrived in full, for every length of it and every size of the chunks and the queues,
\* unless a chunk was lost or overwritten.
THEOREM FinishedPhotosArrive == Spec => []FinishedPhotoArrives
<1>1. InOrderInv => FinishedPhotoArrives
  <2> SUFFICES ASSUME InOrderInv, remaining = 0, image_length > 0, transport = "sub_wait",
                      ~ChunkWaits, promise = "all"
               PROVE  broker.chunks = TotalChunks /\ broker.next = TotalChunks
    BY DEF FinishedPhotoArrives
  <2>0. UploadInv /\ TypeInv /\ Progress /\ Written
    BY DEF InOrderInv, LoopInv
  <2>1. Level = "nothing" /\ Ahead = "nothing" /\ ~AtHand
    <3>1. Level = "nothing"
      BY DEF promise, Level
    <3> QED
      BY <3>1 DEF Ahead, AtHand
  <2>2. pc # "notify_chunk" /\ ~Owed
    BY <2>0 DEF Progress, Owed
  <2>3. sequence = TotalChunks /\ sequence > 0
    <3>1. TotalChunks * ChunkSize >= image_length
      BY <2>0, RoundedUp, Numbers DEF TotalChunks
    <3>2. 0 * ChunkSize = 0
      OBVIOUS
    <3>3. TotalChunks # 0
      BY <2>0, <3>1, <3>2, Numbers
    <3> QED
      BY <2>0, <3>3, Numbers DEF Written
  <2>4. CAMERA_CHUNK_CHAN.sequence + 1 = sequence /\ CAMERA_CHUNK_CHAN.total_chunks = TotalChunks
    BY <2>0, <2>3 DEF Written, InLoop
  <2>5. Goes /\ NextNumber = TotalChunks
    BY <2>2, <2>3, <2>4 DEF Goes, InLoop, NextNumber
  <2>6. Upcoming
    BY <2>0, <2>1, <2>5 DEF UploadInv
  <2> QED
    BY <2>1, <2>4, <2>5, <2>6 DEF Upcoming
<1> QED
  BY <1>1, InOrderInvariance, PTL

\* What is lost tells what is promised.
LEMMA PromiseOfLevel ==
  ASSUME NEW l \in Losses, NEW o \in Losses
  PROVE  /\ Worst(l, o) \in Losses
         /\ (CASE Worst(l, o) = "nothing" -> "all"
               [] Worst(l, o) = "chunk" -> "order"
               [] OTHER -> "nothing")
            = IF Worst(l, o) = "nothing" THEN "all"
              ELSE IF Worst(l, o) = "chunk" THEN "order" ELSE "nothing"
BY WorstOf

\* A loss weakens the promise, or leaves it as it is.
LEMMA LossIsWeaker ==
  ASSUME TypeInv, TypeInv', UNCHANGED broker,
         Level = "announcement" => Level' = "announcement",
         Level' = "nothing" => Level = "nothing"
  PROVE  Upload!Weaken \/ UNCHANGED <<broker.chunks, broker.next, promise>>
<1>1. /\ Level \in Losses
      /\ promise = IF Level = "nothing" THEN "all"
                   ELSE IF Level = "chunk" THEN "order" ELSE "nothing"
  BY PromiseOfLevel DEF promise, Level, TypeInv, TypeOK
<1>2. /\ Level' \in Losses
      /\ promise' = IF Level' = "nothing" THEN "all"
                    ELSE IF Level' = "chunk" THEN "order" ELSE "nothing"
  BY PromiseOfLevel DEF promise, Level, TypeInv, TypeOK
<1> QED
  BY <1>1, <1>2 DEF Upload!Weaken, Losses

\* Camera implements PhotoUpload, for every size of the images, of the chunks and of the
\* queues: each photo that is announced is promised in full, and a loss weakens what is
\* promised of that photo alone.
THEOREM ImplementsPhotoUpload == Spec => UploadsPhotos
<1>1. Init => Upload!Init
  BY DEF Init, Upload!Init, promise, Worst
<1>2. InOrderInv /\ InOrderInv' /\ [Next]_vars =>
        [Upload!Next]_<<broker.chunks, broker.next, promise>>
  <2> SUFFICES ASSUME InOrderInv, InOrderInv', [Next]_vars
               PROVE  Upload!Next \/ UNCHANGED <<broker.chunks, broker.next, promise>>
    OBVIOUS
  <2>0. UploadInv /\ TypeInv /\ TypeInv'
    BY DEF InOrderInv, LoopInv
  <2>1. CASE UNCHANGED upload
    BY <2>1 DEF upload, promise, Worst
  <2>2. CASE MetaSent
    <3>1. /\ broker'.chunks = chunk.total_chunks /\ broker'.next = 0
          /\ chunk.sequence < chunk.total_chunks
      BY <2>0, <2>2 DEF MetaSent, UploadInv, Fit, AtHand
    <3>2. promise' \in {"all", "order", "nothing"}
      BY DEF promise
    <3>3. chunk.total_chunks \in Nat \ {0}
      BY <2>0, <3>1, Numbers
    <3> QED
      BY <3>1, <3>2, <3>3 DEF Upload!Next, Upload!Announce
  <2>3. CASE ChunkSent
    <3>1. /\ broker'.chunks = broker.chunks /\ broker'.next = chunk.sequence + 1
          /\ transport = "chunk" /\ promise' = promise
          /\ chunk.sequence < chunk.total_chunks
      BY <2>0, <2>3
      DEF ChunkSent, TypeInv, TypeOK, promise, Worst, UploadInv, Fit, AtHand
    <3>2. promise = "all" => Level = "nothing"
      BY DEF promise, Level
    <3>3. promise # "nothing" => Level # "announcement"
      BY DEF promise, Level
    <3>4. Level # "announcement" =>
            /\ chunk.total_chunks = broker.chunks /\ chunk.sequence + 1 >= broker.next
            /\ Level = "nothing" => chunk.sequence = broker.next
      BY <2>0, <3>1 DEF UploadInv, Continues
    <3>5. chunk.sequence + 1 \in Nat \ {0} /\ chunk.sequence + 1 <= chunk.total_chunks
      BY <2>0, <3>1, Numbers
    <3>6. Upload!Send
      BY <2>0, <3>1, <3>2, <3>3, <3>4, <3>5, Numbers DEF Upload!Send
    <3> QED
      BY <3>6 DEF Upload!Next
  <2>4. CASE PublishChunk
    <3>1. \/ overwritten' = Worst(overwritten, LossOf(CAMERA_CHUNK_CHAN)) /\ lost' = lost
          \/ lost' = Worst(lost, overwritten) /\ overwritten' = "nothing"
          \/ lost' = lost /\ overwritten' = overwritten
      BY <2>4, Zenon DEF PublishChunk
    <3>2. lost \in Losses /\ overwritten \in Losses /\ "nothing" \in Losses
      BY <2>0 DEF TypeInv, TypeOK, Losses
    <3>3. /\ Level = "announcement" => Level' = "announcement"
          /\ Level' = "nothing" => Level = "nothing"
      BY <3>1, <3>2, WorstOf, LossIsOne DEF Level
    <3>4. UNCHANGED broker
      BY <2>4 DEF PublishChunk
    <3> QED
      BY <2>0, <3>3, <3>4, LossIsWeaker DEF Upload!Next
  <2>5. CASE TakeChunk \/ WriteFails
    <3>1. \/ lost' \in {lost, "announcement"}
          \/ lost' = Worst(lost, LossOf(CAMERA_CHUNK_CHAN))
          \/ lost' = Worst(lost, "chunk")
      BY <2>5 DEF TakeChunk, WriteFails
    <3>2. lost \in Losses /\ overwritten \in Losses /\ "chunk" \in Losses /\ "announcement" \in Losses
      BY <2>0 DEF TypeInv, TypeOK, Losses
    <3>3. UNCHANGED <<broker, overwritten>>
      BY <2>5 DEF TakeChunk, WriteFails
    <3>4. /\ Level = "announcement" => Level' = "announcement"
          /\ Level' = "nothing" => Level = "nothing"
      BY <3>1, <3>2, <3>3, WorstOf, LossIsOne DEF Level
    <3> QED
      BY <2>0, <3>3, <3>4, LossIsWeaker DEF Upload!Next
  <2>6. CASE TakeError \/ ErrorSent \/ CommandComes \/ CommandTimesOut \/ UNCHANGED vars
    BY <2>1, <2>6 DEF TakeError, ErrorSent, CommandComes, CommandTimesOut, vars
  <2>7. CASE CameraStarts \/ DeviceNotReady \/ TakeCommand \/ SwitchEnds \/ CaptureLengthEnds
             \/ Malloc \/ ReadEnds \/ NotifyChunk \/ NotifyChunkTimesOut \/ PublishError
    BY <2>1, <2>7 DEF CameraStarts, DeviceNotReady, TakeCommand, SwitchEnds, CaptureLengthEnds,
      Malloc, ReadEnds, NotifyChunk, NotifyChunkTimesOut, PublishError
  <2> QED
    BY <2>2, <2>3, <2>4, <2>5, <2>6, <2>7 DEF Next, CameraTask, Capture, TransportTask
<1> QED
  BY <1>1, <1>2, InOrderInvariance, PTL DEF Spec, UploadsPhotos, Upload!Spec
=============================================================================
