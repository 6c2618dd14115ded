------------------------ MODULE MCRecordingLifecycle ------------------------
(* RecordingLifecycle on two recordings of one meeting. *)
EXTENDS RecordingLifecycle, TLC

Symmetry == Permutations(Recs)
=============================================================================
