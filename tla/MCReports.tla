----------------------------- MODULE MCReports -----------------------------
(* Small instances of Reports: two tasks of the server and one of the user. *)
EXTENDS Reports

ServerAndToolbox == {1, 2, -2}
=============================================================================
