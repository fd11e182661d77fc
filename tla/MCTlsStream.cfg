CONSTANTS
  Question <- MCQuestion
  Answer <- MCAnswer
  Room = 2
SPECIFICATION Spec
INVARIANTS TypeOK FlushedIsSent
PROPERTIES UpIsByteStream DownIsByteStream ConnectionEnds
CHECK_DEADLOCK FALSE
