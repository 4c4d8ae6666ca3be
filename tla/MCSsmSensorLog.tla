-------------------------- MODULE MCSsmSensorLog --------------------------
(* Model-checking instances of SsmSensorLog: a ring of three entries that  *)
(* wraps, fills and overwrites.                                            *)
EXTENDS SsmSensorLog
=============================================================================
