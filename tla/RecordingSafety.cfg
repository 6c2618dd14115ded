\* Two recordings of one meeting, every store fallible, the process mortal.
SPECIFICATION Spec
CONSTANTS
  Recs = {r1, r2}
  Meetings = {m1}
  NoRec = NoRec
  NoMeeting = NoMeeting
  MaxSegments = 2
  MaxNow = 1
  Faults = {"commit", "key", "file", "crash"}
SYMMETRY Symmetry
INVARIANTS StoresAgree ExpiredIsAccountedFor
PROPERTIES CompletedIsWhole AudioGoesByDeletionOnly ImplementsService
\* The bounds on recordings, segments and time end the behaviours.
CHECK_DEADLOCK FALSE
