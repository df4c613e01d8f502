---------------------------- MODULE RsvpBooking -----------------------------
(***************************************************************************)
(* The rsvp table implements the signup sheet of Booking: the queue is the *)
(* waitlist by position, which is how BuildRoster lists it, and the places *)
(* are those of the confirmed parties.                                     *)
(***************************************************************************)
EXTENDS Rsvp

SeatsOf(e) == IF e.status = "confirmed" THEN PartySize(e) ELSE 0
WantsOf(e) == IF e.status = "waitlist" THEN PartySize(e) ELSE 0

WaitingInOrder ==
    {pair \in Waitlisted(rsvp) \X Waitlisted(rsvp) :
        WaitPos(rsvp[pair[1]]) < WaitPos(rsvp[pair[2]])}

Sheet == INSTANCE Booking WITH
    People     <- Players,
    PartySizes <- {1 + g : g \in GuestCounts},
    Capacities <- 1 .. Capacity,
    seats      <- [p \in Players |-> SeatsOf(rsvp[p])],
    ahead      <- WaitingInOrder,
    wants      <- [p \in Players |-> WantsOf(rsvp[p])],
    capacity   <- maxPlayers

(* Every transaction of the store is a step of the signup sheet or changes
   nothing it shows: in particular no sequence of signups, cancellations,
   guest changes and promotions ever reorders those who wait, although the
   rows hold positions that are neither contiguous nor reused in order. *)
ImplementsBooking == Sheet!BookingSpec
=============================================================================
