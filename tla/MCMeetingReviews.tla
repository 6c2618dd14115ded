-------------------------- MODULE MCMeetingReviews --------------------------
(* MeetingReviews on a few requests for one meeting. *)
EXTENDS MeetingReviews
=============================================================================
