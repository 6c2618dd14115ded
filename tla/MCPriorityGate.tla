---------------------------- MODULE MCPriorityGate ----------------------------
(***************************************************************************)
(* Small instances of PriorityGate for TLC.                                *)
(***************************************************************************)
EXTENDS PriorityGate

CONSTANTS s1, s2

OneSession  == {s1}
TwoSessions == {s1, s2}

OneEstimate  == {2}
TwoEstimates == {1, 2}
=============================================================================
