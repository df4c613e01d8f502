----------------------------- MODULE MCRequests -----------------------------
(* Two people and two requests at a time, with places for two bodies: a pair
   and a single already compete.  People and goroutines are interchangeable. *)
EXTENDS Requests, TLC

Interchangeable == Permutations(Players) \cup Permutations(Requests)
=============================================================================
