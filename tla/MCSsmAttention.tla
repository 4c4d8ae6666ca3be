--------------------------- MODULE MCSsmAttention ---------------------------
(* The instance of SsmAttention that TLC checks; see the .cfg files for     *)
(* the bounds.                                                             *)
EXTENDS SsmAttention
=============================================================================
