---------------------------- MODULE MCRequestPath ---------------------------
(* Small instances of RequestPath for TLC.                                 *)
EXTENDS RequestPath

CONSTANT r1
=============================================================================
