-------------------------- MODULE RecordingService --------------------------
(***************************************************************************)
(* What the backend promises about its recordings, whatever happens to     *)
(* their files, their keys and the process between two requests: the life  *)
(* of a metadata row as the other parts of the program may rely on it.     *)
(*                                                                         *)
(* RecordingLifecycle implements it.                                       *)
(***************************************************************************)
EXTENDS Naturals

CONSTANT Recs

VARIABLES
    state,      \* RecordingState of each row, "none" before it exists
    count       \* segments of each recording whose metadata is committed

States == {"none", "pending", "recording", "completed",
           "failed", "missing", "deleted"}

TypeOK == state \in [Recs -> States] /\ count \in [Recs -> Nat]

Init == /\ state = [r \in Recs |-> "none"]
        /\ count = [r \in Recs |-> 0]

Become(r, s) == state' = [state EXCEPT ![r] = s] /\ UNCHANGED count

Prepare(r) == state[r] = "none" /\ Become(r, "pending")

Start(r) == state[r] = "pending" /\ Become(r, "recording")

\* Segments are committed one after the other and only while recording.
AppendSegment(r) == /\ state[r] = "recording"
                    /\ count' = [count EXCEPT ![r] = @ + 1]
                    /\ UNCHANGED state

\* A completed recording has audio.
Complete(r) == /\ state[r] = "recording"
               /\ count[r] > 0
               /\ Become(r, "completed")

Fail(r) == state[r] \notin {"none", "deleted"} /\ Become(r, "failed")

\* Neither reconciliation nor deletion touches a recording in progress, and
\* a deleted recording never comes back.
Settled(r) == state[r] \notin {"none", "recording", "deleted"}

Lose(r) == Settled(r) /\ Become(r, "missing")

Delete(r) == Settled(r) /\ Become(r, "deleted")

Next == \E r \in Recs : \/ Prepare(r) \/ Start(r) \/ AppendSegment(r)
                        \/ Complete(r) \/ Fail(r) \/ Lose(r) \/ Delete(r)

Spec == Init /\ [][Next]_<<state, count>>

=============================================================================
