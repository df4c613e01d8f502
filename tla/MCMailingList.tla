--------------------------- MODULE MCMailingList ----------------------------
(* Two addresses and three ids, so that ids are handed out again, and two
   requests or open pages at a time. *)
EXTENDS MailingList, TLC

Interchangeable == Permutations(Addresses) \cup Permutations(Requests)
=============================================================================
