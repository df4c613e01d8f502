-------------------------------- MODULE Rsvp --------------------------------
(***************************************************************************)
(* One session and its RSVPs as the store keeps them: internal/store/      *)
(* rsvp.go with the parts of session.go and player.go that change who is   *)
(* coming.  Every action is one committed transaction: WithTx wraps each   *)
(* operation of rsvp.go, the single-statement operations are transactions  *)
(* of their own, and the pool holds one connection (store.Open), so        *)
(* committed operations are totally ordered.  The handlers, which put      *)
(* several of these together, interleave at this granularity.              *)
(*                                                                         *)
(*   rsvp        player -> entry; NoRow where there is no row              *)
(*   players     the players that exist                                    *)
(*   status      session.status                                            *)
(*   maxPlayers  session.max_players                                       *)
(*   late        the signup deadline has passed or the session started     *)
(***************************************************************************)
EXTENDS Roster

CONSTANTS
    Players,      \* the people the organizer may ever know
    GuestLimit,   \* bound: most guests anybody asks to bring
    Capacity,     \* bound: largest max_players the organizer enters
    LastPosition  \* bound: waitlist positions are handed out up to this one

ASSUME RsvpAssumption ==
    /\ IsFiniteSet(Players)
    /\ GuestLimit \in Nat
    /\ Capacity \in Nat \ {0}
    /\ LastPosition \in Nat /\ LastPosition < Unplaced

VARIABLES rsvp, players, status, maxPlayers, late

vars == <<rsvp, players, status, maxPlayers, late>>

GuestCounts == 0 .. GuestLimit
SessionStatus == {"draft", "open", "closed", "cancelled"}
Entry == [status : RsvpStatus \cup {"none"},
          guests : GuestCounts,
          pos    : 0 .. LastPosition]

TypeOK ==
    /\ rsvp \in [Players -> Entry]
    /\ players \subseteq Players
    /\ status \in SessionStatus
    /\ maxPlayers \in 1 .. Capacity
    /\ late \in BOOLEAN

HasRow(p) == rsvp[p].status # "none"

(***************************************************************************)
(* CreateSession stores a draft or an open session with a deadline ahead   *)
(* of its start and at least one place; nobody has been invited yet.       *)
(***************************************************************************)
Init ==
    /\ rsvp = [p \in Players |-> NoRow]
    /\ players \in SUBSET Players
    /\ status \in {"draft", "open"}
    /\ maxPlayers \in 1 .. Capacity
    /\ late \in BOOLEAN

SignupsOpen == status = "open" /\ ~late

-----------------------------------------------------------------------------
(* Invitations *)

InvitedRow == [status |-> "invited", guests |-> 0, pos |-> 0]

(* A variant with INSERT OR REPLACE instead of the existence check. *)
EnsureInvites_Replaces(S) ==
    /\ S \subseteq players
    /\ rsvp' = [p \in Players |-> IF p \in S THEN InvitedRow ELSE rsvp[p]]
    /\ UNCHANGED <<players, status, maxPlayers, late>>

(* EnsureInvites: rows for the given players who have none yet.  The foreign
   key to player fails the whole transaction if one of them is gone. *)
EnsureInvites(S) ==
    /\ S \subseteq players
    /\ rsvp' = [p \in Players |->
                  IF p \in S /\ ~HasRow(p) THEN InvitedRow ELSE rsvp[p]]
    /\ UNCHANGED <<players, status, maxPlayers, late>>

(* EnsureEntry: the same for one player, for the public link and for a
   player added by hand, whatever state the session is in. *)
EnsureEntry(p) == ~HasRow(p) /\ EnsureInvites({p})

-----------------------------------------------------------------------------
(* Signing up, changing guests, cancelling *)

(* A variant that admits a party when there is any room at all. *)
SignupRow_AnyRoom(p, g) ==
    LET others == Others(rsvp, p)
    IN  IF ~IsFull(others, maxPlayers)
        THEN [status |-> "confirmed", guests |-> g, pos |-> 0]
        ELSE [status |-> "waitlist", guests |-> g,
              pos |-> NextWaitlistPosition(others)]

(* The row Signup writes for p: all of the party or none of it. *)
SignupRow(p, g) ==
    LET others == Others(rsvp, p)
    IN  IF Fits(others, maxPlayers, 1 + g)
        THEN [status |-> "confirmed", guests |-> g, pos |-> 0]
        ELSE [status |-> "waitlist", guests |-> g,
              pos |-> NextWaitlistPosition(others)]

(* Signup: by the participant, refused once signups are closed, or by the
   organizer (enforce = FALSE), who may add anybody at any time. *)
Signup(p, g, enforce) ==
    /\ HasRow(p)
    /\ enforce => SignupsOpen
    /\ SignupRow(p, g).pos <= LastPosition
    /\ rsvp' = [rsvp EXCEPT ![p] = SignupRow(p, g)]
    /\ UNCHANGED <<players, status, maxPlayers, late>>

(* A variant that does not ask whether the larger party fits. *)
MaySetGuests_Unchecked(p, g) == HasRow(p) /\ SignupsOpen

(* What SetGuestCount requires; a confirmed party must still fit. *)
MaySetGuests(p, g) ==
    /\ HasRow(p)
    /\ SignupsOpen
    /\ rsvp[p].status = "confirmed" => Fits(Others(rsvp, p), maxPlayers, 1 + g)

SetGuestCount(p, g) ==
    /\ MaySetGuests(p, g)
    /\ rsvp' = [rsvp EXCEPT ![p].guests = g]
    /\ UNCHANGED <<players, status, maxPlayers, late>>

(* Cancelling and promoting set a status and clear the position; the guest
   count stays.  The variant forgets to clear it. *)
OffWaitlist_KeepsPosition(e, new) == [e EXCEPT !.status = new]
OffWaitlist(e, new) == [status |-> new, guests |-> e.guests, pos |-> 0]

(* Cancel asks nothing: an invited or already cancelled row, a closed
   session and a past deadline are all the same to it. *)
Cancel(p) ==
    /\ HasRow(p)
    /\ rsvp' = [rsvp EXCEPT ![p] = OffWaitlist(rsvp[p], "cancelled")]
    /\ UNCHANGED <<players, status, maxPlayers, late>>

(* PromoteNext: the organizer takes the first waiting party that fits off
   the waitlist, in any state of the session. *)
Promote(q) ==
    /\ q \in NextPromotable(rsvp, maxPlayers)
    /\ rsvp' = [rsvp EXCEPT ![q] = OffWaitlist(rsvp[q], "confirmed")]
    /\ UNCHANGED <<players, status, maxPlayers, late>>

PromoteNext == \E q \in Players : Promote(q)

-----------------------------------------------------------------------------
(* The session row, the mailing list and the clock *)

(* A variant of saving that accepts a limit of no players at all. *)
UpdateSession_ZeroPlayers(max, isLate) ==
    /\ maxPlayers' = max - 1
    /\ late' = isLate
    /\ UNCHANGED <<rsvp, players, status>>

(* UpdateSession saves new limits without looking at who is signed up.  The
   form lets the deadline and the start move either way. *)
UpdateSession(max, isLate) ==
    /\ maxPlayers' = max
    /\ late' = isLate
    /\ UNCHANGED <<rsvp, players, status>>

(* handleSessionStatus accepts each of the four values from each of them. *)
SetSessionStatus(new) ==
    /\ status' = new
    /\ UNCHANGED <<rsvp, players, maxPlayers, late>>

CreatePlayer(p) ==
    /\ p \notin players
    /\ players' = players \cup {p}
    /\ UNCHANGED <<rsvp, status, maxPlayers, late>>

(* DeletePlayer: the rsvp rows go with the player (ON DELETE CASCADE). *)
DeletePlayer(p) ==
    /\ p \in players
    /\ players' = players \ {p}
    /\ rsvp' = [rsvp EXCEPT ![p] = NoRow]
    /\ UNCHANGED <<status, maxPlayers, late>>

(* The signup deadline passes. *)
DeadlinePasses ==
    /\ ~late
    /\ late' = TRUE
    /\ UNCHANGED <<rsvp, players, status, maxPlayers>>

ParticipantStep(p) ==
    \/ EnsureEntry(p)
    \/ \E g \in GuestCounts : Signup(p, g, TRUE) \/ SetGuestCount(p, g)
    \/ Cancel(p)

OrganizerStep ==
    \/ \E S \in SUBSET players : EnsureInvites(S)
    \/ \E p \in Players, g \in GuestCounts : Signup(p, g, FALSE)
    \/ PromoteNext
    \/ \E max \in 1 .. Capacity, isLate \in BOOLEAN : UpdateSession(max, isLate)
    \/ \E new \in SessionStatus : SetSessionStatus(new)
    \/ \E p \in Players : CreatePlayer(p) \/ DeletePlayer(p)

Next ==
    \/ \E p \in Players : ParticipantStep(p)
    \/ OrganizerStep
    \/ DeadlinePasses

Spec == Init /\ [][Next]_vars

-----------------------------------------------------------------------------
(* Safety *)

(* A row has a waitlist position exactly while it is on the waitlist.  The
   status and the position are separate columns, written by four different
   statements; a position left behind would distort the next one handed out
   and one missing would send its owner to the end of the queue. *)
WaitlistPlaced == \A p \in Players :
    rsvp[p].status = "waitlist" <=> rsvp[p].pos # 0

(* No two people share a place in the queue, however often people leave it
   and join again; promotion order would otherwise fall to row ids. *)
DistinctPositions == \A p, q \in Waitlisted(rsvp) :
    p # q => rsvp[p].pos # rsvp[q].pos

(* The headcount never grows past max_players: a step that adds bodies ends
   within the limit then in force, also when the organizer has lowered that
   limit below the headcount, promotes, or adds people by hand.  Signup's
   comment: "two people cannot both take the last slot". *)
NeverOverbooks ==
    [][Headcount(rsvp') > Headcount(rsvp) => Headcount(rsvp') <= maxPlayers']_vars

(* Signing up again with no larger a party keeps the place somebody already
   has, in a session that is not over its limit: "re-confirming an existing
   RSVP is not blocked by the spots they already hold". *)
ReconfirmKeepsPlace ==
    [][\A p \in Players, g \in GuestCounts, enforce \in BOOLEAN :
         /\ Signup(p, g, enforce)
         /\ rsvp[p].status = "confirmed" /\ g <= rsvp[p].guests
         /\ Headcount(rsvp) <= maxPlayers
         => rsvp'[p].status = "confirmed"]_vars

(* An answer is never lost: once somebody has answered, no later invitation,
   reminder or manual addition resets the row to "invited" or removes it,
   short of the player being deleted.  EnsureInvites is "safe to call
   repeatedly". *)
AnswersKept ==
    [][\A p \in Players :
         /\ rsvp[p].status \in {"confirmed", "waitlist", "cancelled"}
         /\ rsvp'[p].status \in {"invited", "none"}
         => p \notin players']_vars

(* Nobody gets ahead of somebody who stays in the queue: as long as p waits
   with the position it was given, whoever is ahead of p afterwards was ahead
   of p before.  Positions freed by people who leave are never handed out
   again in front of others. *)
Ahead(t, p) == {q \in Waitlisted(t) : WaitPos(t[q]) < WaitPos(t[p])}

QueueNeverReordered ==
    [][\A p \in Players :
         /\ p \in Waitlisted(rsvp) /\ p \in Waitlisted(rsvp')
         /\ rsvp'[p].pos = rsvp[p].pos
         => Ahead(rsvp', p) \subseteq Ahead(rsvp, p)]_vars
=============================================================================
