--------------------------- MODULE MCWebRequester ---------------------------
(* Small instances of WebRequester.                                         *)
EXTENDS WebRequester
=============================================================================
