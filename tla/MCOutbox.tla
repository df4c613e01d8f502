------------------------------ MODULE MCOutbox ------------------------------
(* Small outboxes for TLC.  The attempt cap and the backoff schedule are the
   code's own; rows, handlers and faults are bounded. *)
EXTENDS Outbox
=============================================================================
