------------------------------ MODULE Booking -------------------------------
(***************************************************************************)
(* What one session's signup sheet promises, without rows, statuses or     *)
(* positions: places are given to whole parties and only while there is    *)
(* room, and those who find no room stand in one queue which is joined at  *)
(* its end and never reordered.                                            *)
(*                                                                         *)
(*   seats     bodies admitted with each person, 0 for none                *)
(*   ahead     the queue: <<p, q>> says that p stands ahead of q           *)
(*   wants     party size of each person waiting, 0 for the others         *)
(*   capacity  places for bodies; it may be changed under the admitted     *)
(***************************************************************************)
EXTENDS Integers, FiniteSets

CONSTANTS
    People,      \* finitely many
    PartySizes,  \* how many bodies may come together, at least one
    Capacities   \* how many places there may be

VARIABLES seats, ahead, wants, capacity

bookingVars == <<seats, ahead, wants, capacity>>

BookingInit ==
    /\ seats = [p \in People |-> 0]
    /\ ahead = {}
    /\ wants = [p \in People |-> 0]
    /\ capacity \in Capacities

Waiting == {p \in People : wants[p] > 0}

(* As in Roster, bodies are a set and how many there are a cardinality. *)
Admitted(q) == {q} \X (0 .. seats[q] - 1)
TakenByOthers(p) == Cardinality(UNION {Admitted(q) : q \in People \ {p}})

RoomFor(p, n) == n + TakenByOthers(p) <= capacity

(* The queue when p steps out of it. *)
AheadWithout(p) == {pair \in ahead : pair[1] # p /\ pair[2] # p}

(* p's party of n is given places, whether it waited or had fewer or more. *)
Admit(p, n) ==
    /\ RoomFor(p, n)
    /\ seats' = [seats EXCEPT ![p] = n]
    /\ wants' = [wants EXCEPT ![p] = 0]
    /\ ahead' = AheadWithout(p)
    /\ UNCHANGED capacity

(* p's party of n finds no room: any places it had are given up and it
   stands behind all the others who wait. *)
Wait(p, n) ==
    /\ ~RoomFor(p, n)
    /\ seats' = [seats EXCEPT ![p] = 0]
    /\ wants' = [wants EXCEPT ![p] = n]
    /\ ahead' = AheadWithout(p) \cup ((Waiting \ {p}) \X {p})
    /\ UNCHANGED capacity

(* A waiting party changes size without losing its place in the queue. *)
Resize(p, n) ==
    /\ wants[p] > 0
    /\ wants' = [wants EXCEPT ![p] = n]
    /\ UNCHANGED <<seats, ahead, capacity>>

Leave(p) ==
    /\ seats' = [seats EXCEPT ![p] = 0]
    /\ wants' = [wants EXCEPT ![p] = 0]
    /\ ahead' = AheadWithout(p)
    /\ UNCHANGED capacity

SetCapacity(c) ==
    /\ capacity' = c
    /\ UNCHANGED <<seats, ahead, wants>>

BookingNext ==
    \/ \E p \in People :
          \/ Leave(p)
          \/ \E n \in PartySizes : Admit(p, n) \/ Wait(p, n) \/ Resize(p, n)
    \/ \E c \in Capacities : SetCapacity(c)

BookingSpec == BookingInit /\ [][BookingNext]_bookingVars

(* The queue is one line: of two people who wait exactly one is ahead, and
   being ahead carries over.  Nobody stands in it who has places. *)
InLine ==
    /\ ahead \subseteq Waiting \X Waiting
    /\ \A p, q \in Waiting : p # q => (<<p, q>> \in ahead <=> <<q, p>> \notin ahead)
    /\ \A p \in Waiting : <<p, p>> \notin ahead /\ seats[p] = 0
    /\ \A p, q, r \in Waiting :
         <<p, q>> \in ahead /\ <<q, r>> \in ahead => <<p, r>> \in ahead
=============================================================================
