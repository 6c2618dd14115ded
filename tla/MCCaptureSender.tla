--------------------------- MODULE MCCaptureSender ---------------------------
(* CaptureSender with the bounds its .cfg files give. *)
EXTENDS CaptureSender
=============================================================================
