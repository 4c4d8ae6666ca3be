---------------------------- MODULE MCAmSession ----------------------------
(* AmSession for TLC: the first job may be of any type, the second one only  *)
(* reports and asks on, as four of the types do.                           *)
EXTENDS AmSession

MCJobRequests == <<Requests, {"CONFIGURE"}>>
=============================================================================
