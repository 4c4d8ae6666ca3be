----------------------------- MODULE MCFwImages -----------------------------
(* Model-checking instances of FwImages: a factory image and up to three   *)
(* downloads, with a start limit of one and a fallback after two resets.   *)
EXTENDS FwImages
=============================================================================
