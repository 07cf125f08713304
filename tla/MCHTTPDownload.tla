-------------------------- MODULE MCHTTPDownload ---------------------------
(* Instances of HTTPDownload: two workers, a clock of a few ticks. *)
EXTENDS HTTPDownload
=============================================================================
