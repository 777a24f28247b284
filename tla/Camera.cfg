SPECIFICATION Spec
CONSTANTS
  MaxLength = 5
  ChunkSize = 2
  Lengths = {0, 2, 5}
  Requests = {"take_photo", "flash_on"}
  QueueSize = 2
  CommandQueue = 1
INVARIANT TypeOK
INVARIANT ChunksCoverImage
INVARIANT BufferFreed
INVARIANT LatestCommandWins
INVARIANT FinishedPhotoArrives
PROPERTY UploadsPhotos
