\* Two requests, three rows of two lengths, batches of two characters.
SPECIFICATION FairSpec
CONSTANTS
  Requests = {1, 2}
  MaxBatchCharacters = 2
  OverlapSegments = 1
  Lengths = {1, 2}
  Times = {1, 2}
  MaxRows = 3
  MaxMounts = 2
  MaxFailures = 1
  None = None
INVARIANTS Inv CompletedIsWhole ProcessingIsWorkedOn ShownIsFinished
PROPERTIES ServedNeverGoesBack GenerationEnds
\* The user and the requests are bounded: the behaviours end.
CHECK_DEADLOCK FALSE
