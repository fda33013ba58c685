--------------------------- MODULE MCEmergencyStop ---------------------------
(* Bounded instances of EmergencyStop for TLC.                             *)
EXTENDS EmergencyStop

CONSTANTS c1, c2, c3    \* calls of emergency_stop, in any order

MCCalls == {c1, c2, c3}
=============================================================================
