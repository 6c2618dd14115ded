\* No store fails: the lookup by meeting alone lets a second recording in.
SPECIFICATION Spec
CONSTANTS
  Recs = {r1, r2, r3}
  Meetings = {m1}
  NoRec = NoRec
  NoMeeting = NoMeeting
  MaxSegments = 1
  MaxNow = 0
  Faults = {}
INVARIANT OneRecordingPerMeeting
CHECK_DEADLOCK FALSE
