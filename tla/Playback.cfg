\* A recording of two segments, two meetings opened one after the other.
SPECIFICATION Spec
CONSTANTS
  Recording <- TwoSegments
  MaxLength = 4
  MaxCount = 2
  Capacity = 1
  MaxMeetings = 2
  MaxOperations = 2
  MaxDisturbances = 1
  None = None
INVARIANTS Inv SeekFindsSample HeardInOrder EndedIsWhole OneStream
\* Nobody has to use the player.
CHECK_DEADLOCK FALSE
