--------------------------- MODULE MCObservation ---------------------------
(* Instance of Observation for TLC: three launches.                         *)
EXTENDS Observation
=============================================================================
