------------------------------ MODULE MCImport ------------------------------
(* Two jobs for TLC: the first imports two documents, one of which the second *)
(* asks for as well.                                                         *)
EXTENDS ImportJob, TLC

CONSTANTS j1, j2, d1, d2

OneShared == (j1 :> {d1, d2}) @@ (j2 :> {d2})
=============================================================================
