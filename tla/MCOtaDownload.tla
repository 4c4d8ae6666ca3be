--------------------------- MODULE MCOtaDownload ---------------------------
(***************************************************************************)
(* OtaDownload with the sizes of Ota.cfg.                                  *)
(***************************************************************************)
EXTENDS OtaDownload
=============================================================================
