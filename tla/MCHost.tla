------------------------------- MODULE MCHost -------------------------------
(* Two migrations and two passwords; three days, of which two are kept. *)
EXTENDS Host
=============================================================================
