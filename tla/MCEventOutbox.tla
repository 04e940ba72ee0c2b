--------------------------- MODULE MCEventOutbox ---------------------------
(* Instances of EventOutbox for TLC.                                       *)
EXTENDS EventOutbox, TLC

CONSTANTS p1, p2
============================================================================
