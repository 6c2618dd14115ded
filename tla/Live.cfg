\* Two connections, three chunks, one restart of the backend.  The window may be
\* reloaded, but no connection is opened beside the dispatcher of the one before:
\* the constraint cuts steps of Connect only, which no fairness concerns.
SPECIFICATION FairSpec
CONSTANTS
  MaxConnections = 2
  MaxAudio = 3
  MaxRequests = 3
  MaxRestarts = 1
  MaxEnded = 1
  MaxViolations = 2
  MaxOverlap = 2
  MaxWord = 6
  Transcriptions <- MCTranscriptions
  Reloads = TRUE
CONSTRAINT OneDispatcher
INVARIANTS Inv SequenceOnce RowsFollowOn AckedIsProcessed EndedIsShown
PROPERTIES MeetingSpec ClosedIsCleanedUp
\* Connections, chunks and requests are bounded, and nobody has to press a button.
CHECK_DEADLOCK FALSE
