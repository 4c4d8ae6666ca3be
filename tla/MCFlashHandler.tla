--------------------------- MODULE MCFlashHandler ---------------------------
(* Two tasks and two blocks of two pages: writes of the same page, of two  *)
(* pages of a block and of two blocks overlap with each other and reads.   *)
EXTENDS FlashHandler
=============================================================================
