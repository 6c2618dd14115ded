\* A seek to a time inside a recording is refused only when something fails.
SPECIFICATION Spec
CONSTANTS
  Recording <- TwoSegments
  MaxLength = 1
  MaxCount = 1
  Capacity = 1
  MaxMeetings = 1
  MaxOperations = 2
  MaxDisturbances = 1
  None = None
PROPERTIES SeekInsideWorks
\* Nobody has to use the player.
CHECK_DEADLOCK FALSE
