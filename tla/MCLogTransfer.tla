--------------------------- MODULE MCLogTransfer ---------------------------
(* Model-checking instances of LogTransfer: a queue of three logs that can *)
(* overflow, and failures on all days but the last.                        *)
EXTENDS LogTransfer
=============================================================================
