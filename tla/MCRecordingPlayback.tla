------------------------- MODULE MCRecordingPlayback -------------------------
(* RecordingPlayback with a recording of two segments. *)
EXTENDS RecordingPlayback

TwoSegments == <<1, 1>>
=============================================================================
