----------------------------- MODULE MCLimiter ------------------------------
(* Two clients, so that one may cause the other's bucket to be swept, and two
   goroutines, so that they may overtake each other. *)
EXTENDS Limiter, TLC

Interchangeable == Permutations(Clients) \cup Permutations(Requests)
=============================================================================
