----------------------------- MODULE AssistDisplay -----------------------------
(***************************************************************************)
(* What Assist Mode promises the desktop client about one session: the     *)
(* sequence of updates a transcript row may see.  Enrichment is sequential *)
(* and in the order of the transcript, every cell ends at most once, and   *)
(* nothing moves after the session is closed.                              *)
(***************************************************************************)
EXTENDS Integers

CONSTANTS
    Segments,       \* the transcript segments, in transcript order
    Capabilities    \* the assist capabilities

VARIABLES
    shown,  \* the last update received, by segment and capability
    open    \* whether the session is still open

vars == <<shown, open>>

Init ==
    /\ shown = [s \in Segments |-> [c \in Capabilities |-> "none"]]
    /\ open = TRUE

Shows(s, c, v) == shown' = [shown EXCEPT ![s][c] = v]

(* One capability of one segment is in progress at any time, and never one *)
(* of a segment older than another already enriched.                       *)
Start(s, c) ==
    /\ shown[s][c] = "none"
    /\ \A t \in Segments, d \in Capabilities : shown[t][d] # "processing"
    /\ \A t \in Segments, d \in Capabilities :
          t > s => shown[t][d] \in {"none", "unavailable"}
    /\ Shows(s, c, "processing")

Resolve(s, c) ==
    /\ shown[s][c] = "processing"
    /\ \E v \in {"ready", "failed", "unavailable"} : Shows(s, c, v)

(* Dropped or superseded before it was started.                            *)
Skip(s, c) == shown[s][c] = "none" /\ Shows(s, c, "unavailable")

(* Too long for the reply context.                                         *)
Reject(s) == shown[s]["reply_coaching"] = "none" /\ Shows(s, "reply_coaching", "failed")

Update ==
    /\ open
    /\ \E s \in Segments :
          \/ Reject(s)
          \/ \E c \in Capabilities : Start(s, c) \/ Resolve(s, c) \/ Skip(s, c)
    /\ UNCHANGED open

Close == open /\ open' = FALSE /\ UNCHANGED shown

Next == Update \/ Close

Spec == Init /\ [][Next]_vars
=============================================================================
