----------------------------- MODULE MCMailing ------------------------------
(* Two people who come without guests, places for one of them, and two
   requests at a time.  People are interchangeable; goroutines are only where
   all of them may be of the same kinds. *)
EXTENDS Mailing, TLC

CONSTANTS r1, r2

(* One that mails everybody or cancels, while another cancels or deletes. *)
MixedKinds == r1 :> {"invite", "remind", "cancel"} @@ r2 :> {"cancel", "delete"}
Invitations == [r \in Requests |-> {"invite"}]

(* The signup deadline has not passed.  Nothing here lets it pass, and past it
   participants can do less and everybody else the same. *)
MCInit == MailingInit /\ ~late

(* Whether an invitation was sent decides nothing but what the page of the next
   one shows. *)
UpToMark == <<vars, [r \in Requests |-> [req[r] EXCEPT !.resend = FALSE]],
              listed, mailHistory>>

PeopleAlike == Permutations(Players)
Interchangeable == PeopleAlike \cup Permutations(Requests)
=============================================================================
