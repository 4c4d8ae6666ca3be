--------------------------- MODULE MCAmSensorLog ---------------------------
(* Model-checking instances of AmSensorLog: a ring of three entries that   *)
(* fills, overwrites and empties.                                          *)
EXTENDS AmSensorLog
=============================================================================
