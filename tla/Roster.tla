------------------------------- MODULE Roster -------------------------------
(***************************************************************************)
(* The computed view of one session's RSVPs: internal/model/roster.go.     *)
(*                                                                         *)
(* A table t is a function from players to entries.  An entry is the part  *)
(* of an rsvp row that capacity and order depend on: its status, its guest *)
(* count and its waitlist position, 0 standing for NULL.  A player without *)
(* a row has the entry NoRow.                                              *)
(*                                                                         *)
(* Bodies are modelled as a set, so that the headcount is a cardinality:   *)
(* player p with g guests is the set {p} \X 0..g.                          *)
(***************************************************************************)
EXTENDS Integers, FiniteSets

RsvpStatus == {"invited", "confirmed", "waitlist", "cancelled"}

NoRow == [status |-> "none", guests |-> 0, pos |-> 0]

PartySize(e) == 1 + e.guests

Confirmed(t)  == {p \in DOMAIN t : t[p].status = "confirmed"}
Waitlisted(t) == {p \in DOMAIN t : t[p].status = "waitlist"}

Party(t, p) == {p} \X (0 .. t[p].guests)
Bodies(t) == UNION {Party(t, p) : p \in Confirmed(t)}
Headcount(t) == Cardinality(Bodies(t))

SpotsLeft(t, max) == IF max > Headcount(t) THEN max - Headcount(t) ELSE 0
Fits(t, max, size) == size <= SpotsLeft(t, max)
IsFull(t, max) == SpotsLeft(t, max) <= 0

(* waitPos: a waitlist row without a position sorts after all the others. *)
Unplaced == 1073741824
WaitPos(e) == IF e.pos = 0 THEN Unplaced ELSE e.pos

LargestOf(S) == CHOOSE m \in S : \A k \in S : k <= m
PositionsTaken(t) == {WaitPos(t[q]) : q \in Waitlisted(t)} \ {Unplaced}

(* Two variants: counting those who wait, and filling the first gap. *)
NextWaitlistPosition_Counts(t) == 1 + Cardinality(Waitlisted(t))
NextWaitlistPosition_FillsGap(t) ==
    CHOOSE n \in 1 .. 1 + Cardinality(PositionsTaken(t)) :
        n \notin PositionsTaken(t) /\ 1 .. n - 1 \subseteq PositionsTaken(t)

NextWaitlistPosition(t) == 1 + LargestOf(PositionsTaken(t) \cup {0})

(* The players NextPromotable may return: at most one when positions are
   distinct, none when nobody who waits fits. *)
NextPromotable(t, max) ==
    LET fitting == {q \in Waitlisted(t) : Fits(t, max, PartySize(t[q]))}
    IN  {q \in fitting : \A x \in fitting : WaitPos(t[q]) <= WaitPos(t[x])}

(* A variant that forgets to release them. *)
Others_Included(t, p) == t

(* excludeSelf: the table with p's own slots released. *)
Others(t, p) == [t EXCEPT ![p] = NoRow]
=============================================================================
