------------------------------- MODULE MCRsvp -------------------------------
(* A small session for TLC: three people, at most one guest each, up to
   three places.  The people are interchangeable. *)
EXTENDS RsvpBooking, TLC

Interchangeable == Permutations(Players)
=============================================================================
