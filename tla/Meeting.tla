------------------------------ MODULE Meeting ------------------------------
(***************************************************************************)
(* What the Meeting aggregate promises to everything that is kept about a   *)
(* meeting: domain/entities/meeting.py as the use cases create_meeting,     *)
(* start_meeting, end_meeting and add_transcript drive it, each of them one *)
(* transaction.  A meeting goes from draft to active to ended and never     *)
(* back, its transcript only grows at the end, and an ended meeting has the *)
(* transcript it ended with for ever.  Names, speakers and times are left   *)
(* out, and with them rename_meeting, which changes nothing else.           *)
(***************************************************************************)
EXTENDS Naturals, Sequences, SequencesExt

CONSTANTS Meetings,  \* the meetings that may be created
          Rows       \* what a row of a transcript may be

VARIABLES mstatus,    \* "absent", "draft", "active" or "ended"
          transcript  \* the rows of each meeting, in the order of their sequence column

mvars == <<mstatus, transcript>>

MInit ==
  /\ mstatus = [m \in Meetings |-> "absent"]
  /\ transcript = [m \in Meetings |-> <<>>]

CreateMeeting(m) ==
  /\ mstatus[m] = "absent"
  /\ mstatus' = [mstatus EXCEPT ![m] = "draft"]
  /\ UNCHANGED transcript

StartMeeting(m) ==
  /\ mstatus[m] = "draft"
  /\ mstatus' = [mstatus EXCEPT ![m] = "active"]
  /\ UNCHANGED transcript

EndMeeting(m) ==
  /\ mstatus[m] = "active"
  /\ mstatus' = [mstatus EXCEPT ![m] = "ended"]
  /\ UNCHANGED transcript

\* One call adds one row; a step of a detailed specification may be several
\* calls one after the other.
AddTranscripts(m) ==
  /\ mstatus[m] \in {"draft", "active"}
  /\ transcript'[m] \in Seq(Rows)
  /\ IsStrictPrefix(transcript[m], transcript'[m])
  /\ transcript' = [transcript EXCEPT ![m] = transcript'[m]]
  /\ UNCHANGED mstatus

MNext == \E m \in Meetings :
  CreateMeeting(m) \/ StartMeeting(m) \/ EndMeeting(m) \/ AddTranscripts(m)

MSpec == MInit /\ [][MNext]_mvars
=============================================================================
