--------------------------- MODULE MCTaskExecutor ---------------------------
(* Small instances of TaskExecutor: an asynchronous measurement, one that   *)
(* blocks in start() and is not allowed on a mobile connection, one the     *)
(* factory does not know.                                                   *)
EXTENDS TaskExecutor

MCAllowed == [t \in Tests |-> IF t = "upnp" THEN Modes \ {Mobile} ELSE Modes]
=============================================================================
