----------------------------- MODULE RsvpProofs -----------------------------
(***************************************************************************)
(* Safety of the rsvp table for any set of players and any bounds.  First  *)
(* facts about the operators of Roster, for any finite set P of players    *)
(* and any bounds G on guests and L on positions.  Then the invariant: the *)
(* three state invariants of Rsvp are inductive together (RsvpInv).  The   *)
(* action properties follow from it and from the facts on headcounts and   *)
(* positions.  Last, the table implements the signup sheet of Booking,     *)
(* step by step.                                                           *)
(***************************************************************************)
EXTENDS RsvpBooking, FiniteSetTheorems, TLAPS

TableOver(P, G, L) ==
    [P -> [status : RsvpStatus \cup {"none"}, guests : 0 .. G, pos : 0 .. L]]

(* A non-empty finite set of numbers has a largest element.  The subsets
   without one are well-founded under inclusion; a minimal one would still
   lack a largest element after losing any of its elements. *)
LEMMA LargestExists ==
    ASSUME NEW S \in SUBSET Nat, IsFiniteSet(S), S # {}
    PROVE  \E m \in S : \A k \in S : k <= m
<1> DEFINE Top(T) == \E m \in T : \A k \in T : k <= m
           Bad == {T \in FiniteSubsetsOf(S) : T # {} /\ ~Top(T)}
<1>1. SUFFICES ASSUME Bad # {} PROVE FALSE
  <2>1. S \in FiniteSubsetsOf(S)
    BY DEF FiniteSubsetsOf
  <2> QED BY <2>1
<1>2. PICK T \in Bad : \A U \in Bad : <<U, T>> \notin StrictSubsetOrdering(S)
  <2>1. IsWellFoundedOn(StrictSubsetOrdering(S), FiniteSubsetsOf(S))
    BY FS_StrictSubsetOrderingWellFounded
  <2>2. Bad \subseteq FiniteSubsetsOf(S)
    OBVIOUS
  <2> QED BY <1>1, <2>1, <2>2, WFMin
<1>3. T \subseteq Nat /\ IsFiniteSet(T) /\ T # {} /\ ~Top(T) /\ T \subseteq S
  BY <1>2 DEF FiniteSubsetsOf
<1>4. PICK x \in T : TRUE
  BY <1>3
<1>5. T \ {x} # {}
  <2>1. SUFFICES ASSUME T = {x} PROVE FALSE
    BY <1>4
  <2>2. \A k \in T : k <= x
    BY <2>1, <1>3
  <2> QED BY <1>3, <1>4, <2>2
<1>6. T \ {x} \in FiniteSubsetsOf(S)
  BY <1>3, FS_RemoveElement DEF FiniteSubsetsOf
<1>7. <<T \ {x}, T>> \in StrictSubsetOrdering(S)
  BY <1>3, <1>4 DEF StrictSubsetOrdering
<1>8. Top(T \ {x})
  BY <1>2, <1>5, <1>6, <1>7
<1>9. PICK m \in T \ {x} : \A k \in T \ {x} : k <= m
  BY <1>8
<1>10. CASE x <= m
  BY <1>3, <1>9, <1>10
<1>11. CASE ~(x <= m)
  <2>1. \A k \in T : k <= x
    BY <1>3, <1>4, <1>9, <1>11
  <2> QED BY <1>3, <1>4, <2>1
<1> QED BY <1>10, <1>11

(* The next position is a positive number above every position in use. *)
LEMMA NextPositionIsLast ==
    ASSUME NEW P, NEW G \in Nat, NEW L \in Nat, L < Unplaced,
           NEW t \in TableOver(P, G, L)
    PROVE  /\ NextWaitlistPosition(t) \in Nat \ {0}
           /\ \A q \in Waitlisted(t) : t[q].pos < NextWaitlistPosition(t)
<1> DEFINE S == PositionsTaken(t) \cup {0}
<1>1. \A q \in P : t[q].pos \in 0 .. L
  BY DEF TableOver
<1>2. Waitlisted(t) \subseteq P
  BY DEF Waitlisted, TableOver
<1>3. S \subseteq 0 .. L
  BY <1>1, <1>2 DEF PositionsTaken, WaitPos
<1>4. S \in SUBSET Nat /\ IsFiniteSet(S) /\ S # {}
  <2>1. IsFiniteSet(0 .. L)
    BY FS_Interval
  <2>2. IsFiniteSet(S)
    BY <1>3, <2>1, FS_Subset
  <2> QED BY <1>3, <2>2
<1>5. \E m \in S : \A k \in S : k <= m
  BY <1>4, LargestExists
<1>6. LargestOf(S) \in S /\ \A k \in S : k <= LargestOf(S)
  BY <1>5 DEF LargestOf
<1>7. NextWaitlistPosition(t) = 1 + LargestOf(S)
  BY DEF NextWaitlistPosition
<1>8. ASSUME NEW q \in Waitlisted(t), t[q].pos # 0
      PROVE  t[q].pos \in S
  BY <1>1, <1>2, <1>8 DEF PositionsTaken, WaitPos, Unplaced
<1>9. LargestOf(S) \in Nat
  BY <1>4, <1>6
<1> HIDE DEF S
<1>10. ASSUME NEW q \in Waitlisted(t)
       PROVE  t[q].pos < NextWaitlistPosition(t)
  <2>1. CASE t[q].pos = 0
    BY <2>1, <1>7, <1>9
  <2>2. CASE t[q].pos # 0
    <3>1. t[q].pos <= LargestOf(S)
      BY <1>6, <1>8, <2>2
    <3>2. t[q].pos \in Nat
      BY <1>1, <1>2
    <3> QED BY <1>7, <1>9, <3>1, <3>2
  <2> QED BY <2>1, <2>2
<1> QED BY <1>7, <1>9, <1>10

-----------------------------------------------------------------------------
(* Headcounts *)

LEMMA PartyCardinality ==
    ASSUME NEW p, NEW g \in Nat
    PROVE  /\ IsFiniteSet({p} \X (0 .. g))
           /\ Cardinality({p} \X (0 .. g)) = 1 + g
<1>1. IsFiniteSet({p}) /\ Cardinality({p}) = 1
  BY FS_Singleton
<1>2. IsFiniteSet(0 .. g) /\ Cardinality(0 .. g) = 1 + g
  BY FS_Interval
<1>3. Cardinality({p} \X (0 .. g)) = Cardinality({p}) * Cardinality(0 .. g)
  BY <1>1, <1>2, FS_Product
<1>4. IsFiniteSet({p} \X (0 .. g))
  BY <1>1, <1>2, FS_Product
<1> QED BY <1>1, <1>2, <1>3, <1>4

LEMMA BodiesFinite ==
    ASSUME NEW P, IsFiniteSet(P), NEW G \in Nat, NEW L \in Nat,
           NEW t \in TableOver(P, G, L)
    PROVE  /\ IsFiniteSet(Bodies(t))
           /\ Headcount(t) \in Nat
<1>1. Bodies(t) \subseteq P \X (0 .. G)
  BY DEF Bodies, Party, Confirmed, TableOver
<1>2. IsFiniteSet(0 .. G)
  BY FS_Interval
<1>3. IsFiniteSet(P \X (0 .. G))
  BY <1>2, FS_Product
<1>4. IsFiniteSet(Bodies(t))
  BY <1>1, <1>3, FS_Subset
<1> QED BY <1>4, FS_CardinalityType DEF Headcount

(* Releasing p's places leaves a table of the same kind. *)
LEMMA OthersTable ==
    ASSUME NEW P, NEW G \in Nat, NEW L \in Nat,
           NEW t \in TableOver(P, G, L), NEW p \in P
    PROVE  Others(t, p) \in TableOver(P, G, L)
BY DEF Others, NoRow, TableOver

(* Writing a row for p changes the headcount by p's party alone. *)
LEMMA HeadcountOfWrite ==
    ASSUME NEW P, IsFiniteSet(P), NEW G \in Nat, NEW L \in Nat,
           NEW t \in TableOver(P, G, L), NEW p \in P,
           NEW u \in TableOver(P, G, L),
           \A q \in P \ {p} : u[q] = t[q]
    PROVE  Headcount(u) = Headcount(Others(t, p))
              + (IF u[p].status = "confirmed" THEN PartySize(u[p]) ELSE 0)
<1> DEFINE o == Others(t, p)
           mine == {p} \X (0 .. u[p].guests)
<1>1. o \in TableOver(P, G, L)
  BY OthersTable
<1>2. /\ DOMAIN t = P /\ DOMAIN o = P /\ DOMAIN u = P
      /\ o[p] = NoRow /\ \A q \in P \ {p} : o[q] = t[q]
      /\ u[p].guests \in Nat
  BY DEF Others, TableOver
<1>3. o[p].status # "confirmed"
  BY <1>2 DEF NoRow
<1>4. IsFiniteSet(Bodies(o)) /\ Cardinality(Bodies(o)) \in Nat
  BY <1>1, BodiesFinite DEF Headcount
<1>5. CASE u[p].status = "confirmed"
  <2>1. Confirmed(u) = Confirmed(o) \cup {p} /\ p \notin Confirmed(o)
    BY <1>2, <1>3, <1>5 DEF Confirmed
  <2>2. \A q \in Confirmed(o) : Party(u, q) = Party(o, q)
    BY <1>2, <2>1 DEF Party, Confirmed
  <2>3. Bodies(u) = Bodies(o) \cup mine
    <3>1. Party(u, p) = mine
      BY DEF Party
    <3> HIDE DEF o, mine
    <3> QED BY <2>1, <2>2, <3>1 DEF Bodies
  <2>4. Bodies(o) \cap mine = {}
    <3>1. \A b \in Bodies(o) : b[1] # p
      BY <2>1 DEF Bodies, Party
    <3>2. \A b \in mine : b[1] = p
      OBVIOUS
    <3> QED BY <3>1, <3>2
  <2>5. IsFiniteSet(mine) /\ Cardinality(mine) = 1 + u[p].guests
    BY <1>2, PartyCardinality
  <2>6. Cardinality(Bodies(u)) = Cardinality(Bodies(o)) + Cardinality(mine)
                                 - Cardinality(Bodies(o) \cap mine)
    BY <1>4, <2>3, <2>5, FS_Union
  <2>7. Cardinality({}) = 0
    BY FS_EmptySet
  <2> QED BY <1>2, <1>4, <1>5, <2>4, <2>5, <2>6, <2>7 DEF Headcount, PartySize
<1>6. CASE u[p].status # "confirmed"
  <2>1. Confirmed(u) = Confirmed(o)
    BY <1>2, <1>3, <1>6 DEF Confirmed
  <2>2. \A q \in Confirmed(o) : Party(u, q) = Party(o, q)
    BY <1>2, <1>3, <2>1 DEF Party, Confirmed
  <2>3. Bodies(u) = Bodies(o)
    <3> HIDE DEF o
    <3> QED BY <2>1, <2>2 DEF Bodies
  <2> QED BY <1>4, <1>6, <2>3 DEF Headcount
<1> QED BY <1>5, <1>6

(* The table itself is such a write: p's own party is what Others releases. *)
LEMMA HeadcountSplit ==
    ASSUME NEW P, IsFiniteSet(P), NEW G \in Nat, NEW L \in Nat,
           NEW t \in TableOver(P, G, L), NEW p \in P
    PROVE  /\ Headcount(t) = Headcount(Others(t, p))
                 + (IF t[p].status = "confirmed" THEN PartySize(t[p]) ELSE 0)
           /\ Headcount(Others(t, p)) \in Nat
           /\ Headcount(t) \in Nat
BY HeadcountOfWrite, OthersTable, BodiesFinite

-----------------------------------------------------------------------------
(* The invariant of the table *)

RsvpInv == TypeOK /\ WaitlistPlaced /\ DistinctPositions

USE RsvpAssumption

Table == TableOver(Players, GuestLimit, LastPosition)

LEMMA TableIsTyped == Table = [Players -> Entry]
BY DEF Table, TableOver, Entry, GuestCounts

(* What Signup writes, and why the position it hands out is new. *)
LEMMA SignupRowFacts ==
    ASSUME RsvpInv, NEW p \in Players, NEW g \in GuestCounts,
           SignupRow(p, g).pos <= LastPosition
    PROVE  /\ SignupRow(p, g) \in Entry
           /\ SignupRow(p, g).status \in {"confirmed", "waitlist"}
           /\ SignupRow(p, g).guests = g
           /\ SignupRow(p, g).status = "waitlist" <=> SignupRow(p, g).pos # 0
           /\ SignupRow(p, g).status = "waitlist" =>
                \A q \in Waitlisted(rsvp) \ {p} :
                    rsvp[q].pos < SignupRow(p, g).pos
           /\ SignupRow(p, g).status = "confirmed" <=>
                Fits(Others(rsvp, p), maxPlayers, 1 + g)
<1> DEFINE o == Others(rsvp, p)
<1>1. rsvp \in Table
  BY TableIsTyped DEF RsvpInv, TypeOK
<1>2. o \in Table
  BY <1>1, OthersTable DEF Table
<1>3. /\ NextWaitlistPosition(o) \in Nat \ {0}
      /\ \A q \in Waitlisted(o) : o[q].pos < NextWaitlistPosition(o)
  BY <1>2, NextPositionIsLast DEF Table
<1>4. \A q \in Waitlisted(rsvp) \ {p} : q \in Waitlisted(o) /\ o[q] = rsvp[q]
  BY <1>1 DEF Waitlisted, Others, Table, TableOver
<1> HIDE DEF o
<1>5. SignupRow(p, g) = IF Fits(o, maxPlayers, 1 + g)
        THEN [status |-> "confirmed", guests |-> g, pos |-> 0]
        ELSE [status |-> "waitlist", guests |-> g,
              pos |-> NextWaitlistPosition(o)]
  BY DEF SignupRow, o
<1>6. CASE Fits(o, maxPlayers, 1 + g)
  BY <1>5, <1>6 DEF Entry, RsvpStatus, o
<1>7. CASE ~Fits(o, maxPlayers, 1 + g)
  BY <1>3, <1>4, <1>5, <1>7 DEF Entry, RsvpStatus, o
<1> QED BY <1>6, <1>7

LEMMA InitInv == Init => RsvpInv
BY DEF Init, RsvpInv, TypeOK, WaitlistPlaced, DistinctPositions, NoRow, Entry,
       RsvpStatus, SessionStatus, GuestCounts, Waitlisted

(* Writing a row that is off the waitlist, or on it behind everybody else,
   keeps the invariant. *)
LEMMA WriteKeepsInv ==
    ASSUME RsvpInv, NEW p \in Players, NEW e \in Entry,
           rsvp' = [rsvp EXCEPT ![p] = e],
           e.status = "waitlist" <=> e.pos # 0,
           e.status = "waitlist" =>
               \A q \in Waitlisted(rsvp) \ {p} : rsvp[q].pos # e.pos,
           players' \subseteq Players, status' \in SessionStatus,
           maxPlayers' \in 1 .. Capacity, late' \in BOOLEAN
    PROVE  RsvpInv'
<1>1. rsvp \in [Players -> Entry]
  BY DEF RsvpInv, TypeOK
<1>2. rsvp' \in [Players -> Entry] /\ rsvp'[p] = e
      /\ \A q \in Players \ {p} : rsvp'[q] = rsvp[q]
  BY <1>1
<1>3. TypeOK'
  BY <1>2 DEF TypeOK
<1>4. WaitlistPlaced'
  BY <1>2 DEF WaitlistPlaced, RsvpInv
<1>5. DistinctPositions'
  <2>1. Waitlisted(rsvp') \ {p} = Waitlisted(rsvp) \ {p}
    BY <1>1, <1>2 DEF Waitlisted
  <2>2. Waitlisted(rsvp') \subseteq Players
    BY <1>2 DEF Waitlisted
  <2>3. p \in Waitlisted(rsvp') => e.status = "waitlist"
    BY <1>2 DEF Waitlisted
  <2> QED BY <1>2, <2>1, <2>2, <2>3 DEF DistinctPositions, RsvpInv
<1> QED BY <1>3, <1>4, <1>5 DEF RsvpInv

(* Every transaction preserves the invariant. *)
LEMMA StepInv == RsvpInv /\ [Next]_vars => RsvpInv'
<1> SUFFICES ASSUME RsvpInv, [Next]_vars PROVE RsvpInv'
  OBVIOUS
<1>a. rsvp \in [Players -> Entry] /\ TypeOK /\ WaitlistPlaced
  BY DEF RsvpInv, TypeOK
<1>1. ASSUME NEW S \in SUBSET Players, EnsureInvites(S) PROVE RsvpInv'
  <2>1. InvitedRow \in Entry
    BY DEF InvitedRow, Entry, RsvpStatus, GuestCounts
  <2>2. rsvp' \in [Players -> Entry]
    BY <1>a, <1>1, <2>1 DEF EnsureInvites
  <2>3. \A p \in Players : rsvp'[p] = rsvp[p] \/ (rsvp'[p] = InvitedRow)
    BY <1>1 DEF EnsureInvites
  <2>4. TypeOK'
    BY <1>a, <1>1, <2>2 DEF TypeOK, EnsureInvites
  <2>5. WaitlistPlaced'
    BY <1>a, <2>3 DEF WaitlistPlaced, InvitedRow
  <2>6. \A p \in Waitlisted(rsvp') : p \in Waitlisted(rsvp) /\ rsvp'[p] = rsvp[p]
    BY <1>a, <2>2, <2>3 DEF Waitlisted, InvitedRow
  <2> QED BY <2>4, <2>5, <2>6 DEF RsvpInv, DistinctPositions
<1>2. ASSUME NEW p \in Players, NEW g \in GuestCounts, NEW enforce \in BOOLEAN,
             Signup(p, g, enforce)
      PROVE  RsvpInv'
  <2>1. SignupRow(p, g).pos <= LastPosition
    BY <1>2 DEF Signup
  <2>2. \A q \in Waitlisted(rsvp) \ {p} : rsvp[q].pos \in Nat
    BY <1>a DEF Waitlisted, Entry
  <2>3. /\ SignupRow(p, g) \in Entry
        /\ SignupRow(p, g).status = "waitlist" <=> SignupRow(p, g).pos # 0
        /\ SignupRow(p, g).status = "waitlist" =>
              \A q \in Waitlisted(rsvp) \ {p} : rsvp[q].pos < SignupRow(p, g).pos
    BY <2>1, SignupRowFacts
  <2>4. SignupRow(p, g).pos \in Nat
    BY <2>3 DEF Entry
  <2>5. SignupRow(p, g).status = "waitlist" =>
          \A q \in Waitlisted(rsvp) \ {p} : rsvp[q].pos # SignupRow(p, g).pos
    BY <2>2, <2>3, <2>4
  <2> QED BY <1>a, <1>2, <2>3, <2>5, WriteKeepsInv DEF Signup, TypeOK
<1>3. ASSUME NEW p \in Players, NEW g \in GuestCounts, SetGuestCount(p, g)
      PROVE  RsvpInv'
  <2> DEFINE e == [rsvp[p] EXCEPT !.guests = g]
  <2>1. e \in Entry /\ e.status = rsvp[p].status /\ e.pos = rsvp[p].pos
    BY <1>a DEF Entry
  <2>2. rsvp' = [rsvp EXCEPT ![p] = e]
    BY <1>3 DEF SetGuestCount
  <2>3. e.status = "waitlist" =>
          \A q \in Waitlisted(rsvp) \ {p} : rsvp[q].pos # e.pos
    BY <1>a, <2>1 DEF RsvpInv, DistinctPositions, Waitlisted
  <2>4. e.status = "waitlist" <=> e.pos # 0
    BY <1>a, <2>1 DEF WaitlistPlaced
  <2> HIDE DEF e
  <2> QED BY <1>a, <1>3, <2>1, <2>2, <2>3, <2>4, WriteKeepsInv DEF SetGuestCount, TypeOK
<1>4. ASSUME NEW p \in Players, Cancel(p) PROVE RsvpInv'
  <2> DEFINE e == OffWaitlist(rsvp[p], "cancelled")
  <2>1. e \in Entry /\ e.status = "cancelled" /\ e.pos = 0
    BY <1>a DEF OffWaitlist, Entry, RsvpStatus
  <2>2. rsvp' = [rsvp EXCEPT ![p] = e]
    BY <1>4 DEF Cancel
  <2> HIDE DEF e
  <2> QED BY <1>a, <1>4, <2>1, <2>2, WriteKeepsInv DEF Cancel, TypeOK
<1>5. ASSUME NEW q \in Players, Promote(q) PROVE RsvpInv'
  <2> DEFINE e == OffWaitlist(rsvp[q], "confirmed")
  <2>1. e \in Entry /\ e.status = "confirmed" /\ e.pos = 0
    BY <1>a DEF OffWaitlist, Entry, RsvpStatus
  <2>2. rsvp' = [rsvp EXCEPT ![q] = e]
    BY <1>5 DEF Promote
  <2> HIDE DEF e
  <2> QED BY <1>a, <1>5, <2>1, <2>2, WriteKeepsInv DEF Promote, TypeOK
<1>6. ASSUME NEW p \in Players, DeletePlayer(p) PROVE RsvpInv'
  <2>1. NoRow \in Entry /\ NoRow.status # "waitlist" /\ NoRow.pos = 0
    BY DEF NoRow, Entry, RsvpStatus, GuestCounts
  <2> QED BY <1>a, <1>6, <2>1, WriteKeepsInv DEF DeletePlayer, TypeOK
<1>7. ASSUME UNCHANGED rsvp, TypeOK' PROVE RsvpInv'
  BY <1>a, <1>7 DEF RsvpInv, WaitlistPlaced, DistinctPositions, Waitlisted
<1>8. ASSUME NEW p \in Players, CreatePlayer(p) PROVE RsvpInv'
  BY <1>a, <1>7, <1>8 DEF CreatePlayer, TypeOK
<1>9. ASSUME NEW max \in 1 .. Capacity, NEW isLate \in BOOLEAN,
             UpdateSession(max, isLate)
      PROVE  RsvpInv'
  BY <1>a, <1>7, <1>9 DEF UpdateSession, TypeOK
<1>10. ASSUME NEW new \in SessionStatus, SetSessionStatus(new) PROVE RsvpInv'
  BY <1>a, <1>7, <1>10 DEF SetSessionStatus, TypeOK
<1>11. CASE DeadlinePasses
  BY <1>a, <1>7, <1>11 DEF DeadlinePasses, TypeOK
<1>12. CASE UNCHANGED vars
  BY <1>a, <1>7, <1>12 DEF vars, TypeOK
<1>13. CASE OrganizerStep
  <2>1. \A S \in SUBSET players : S \in SUBSET Players
    BY <1>a DEF TypeOK
  <2> QED BY <1>1, <1>2, <1>5, <1>6, <1>8, <1>9, <1>10, <1>13, <2>1
          DEF OrganizerStep, PromoteNext
<1>14. CASE \E p \in Players : ParticipantStep(p)
  BY <1>1, <1>2, <1>3, <1>4, <1>14 DEF ParticipantStep, EnsureEntry
<1> QED BY <1>11, <1>12, <1>13, <1>14 DEF Next

(* In every reachable state the table is well typed, exactly the waitlisted
   rows have a position and no two share one. *)
THEOREM RsvpInvariant == Spec => []RsvpInv
<1>1. Init => RsvpInv
  BY InitInv
<1>2. RsvpInv /\ [Next]_vars => RsvpInv'
  BY StepInv
<1> QED BY <1>1, <1>2, PTL DEF Spec

(* Type correctness, for any players and bounds. *)
THEOREM TypeCorrect == Spec => []TypeOK
<1>1. RsvpInv => TypeOK
  BY DEF RsvpInv
<1> QED BY <1>1, RsvpInvariant, PTL

(* A row has a waitlist position exactly while it is on the waitlist. *)
THEOREM PlacedWhileWaiting == Spec => []WaitlistPlaced
<1>1. RsvpInv => WaitlistPlaced
  BY DEF RsvpInv
<1> QED BY <1>1, RsvpInvariant, PTL

(* No two people ever share a waitlist position. *)
THEOREM PositionsAreDistinct == Spec => []DistinctPositions
<1>1. RsvpInv => DistinctPositions
  BY DEF RsvpInv
<1> QED BY <1>1, RsvpInvariant, PTL

-----------------------------------------------------------------------------
(* Capacity *)

LEMMA Split ==
    ASSUME TypeOK, NEW p \in Players
    PROVE  /\ Headcount(rsvp) = Headcount(Others(rsvp, p))
                 + (IF rsvp[p].status = "confirmed" THEN 1 + rsvp[p].guests ELSE 0)
           /\ Headcount(Others(rsvp, p)) \in Nat
           /\ Headcount(rsvp) \in Nat
<1>1. rsvp \in TableOver(Players, GuestLimit, LastPosition)
  BY TableIsTyped DEF TypeOK, Table
<1> QED BY <1>1, HeadcountSplit DEF PartySize

LEMMA Write ==
    ASSUME TypeOK, TypeOK', NEW p \in Players,
           \A q \in Players \ {p} : rsvp'[q] = rsvp[q]
    PROVE  Headcount(rsvp') = Headcount(Others(rsvp, p))
              + (IF rsvp'[p].status = "confirmed" THEN 1 + rsvp'[p].guests ELSE 0)
<1>1. /\ rsvp \in TableOver(Players, GuestLimit, LastPosition)
      /\ rsvp' \in TableOver(Players, GuestLimit, LastPosition)
  BY TableIsTyped DEF TypeOK, Table
<1> QED BY <1>1, HeadcountOfWrite DEF PartySize

(* A party that fits beside a headcount of n leaves it within the limit. *)
LEMMA FitsMeansRoom ==
    ASSUME NEW t, Headcount(t) \in Nat, NEW max \in Nat, NEW n \in Nat \ {0}
    PROVE  Fits(t, max, n) <=> Headcount(t) + n <= max
BY DEF Fits, SpotsLeft

LEMMA StepNeverOverbooks ==
    ASSUME RsvpInv, RsvpInv', [Next]_vars
    PROVE  Headcount(rsvp') > Headcount(rsvp) => Headcount(rsvp') <= maxPlayers'
<1> DEFINE Safe == Headcount(rsvp') > Headcount(rsvp) => Headcount(rsvp') <= maxPlayers'
<1>a. /\ TypeOK /\ TypeOK' /\ rsvp \in [Players -> Entry] /\ maxPlayers \in Nat
      /\ rsvp' \in [Players -> Entry]
  BY DEF RsvpInv, TypeOK
<1>b. \A p \in Players : rsvp[p].guests \in Nat
  BY <1>a DEF Entry, GuestCounts
<1>c. \A g \in GuestCounts : g \in Nat /\ 1 + g \in Nat \ {0}
  BY DEF GuestCounts
<1>1. ASSUME NEW S \in SUBSET Players, EnsureInvites(S) PROVE Safe
  <2>1. \A p \in Players : \/ rsvp'[p] = rsvp[p]
                           \/ /\ rsvp[p].status # "confirmed"
                              /\ rsvp'[p].status # "confirmed"
    BY <1>1 DEF EnsureInvites, InvitedRow, HasRow
  <2>2. /\ Confirmed(rsvp') = Confirmed(rsvp)
        /\ \A p \in Confirmed(rsvp) : Party(rsvp', p) = Party(rsvp, p)
    BY <1>a, <2>1 DEF Confirmed, Party
  <2>3. Bodies(rsvp') = Bodies(rsvp)
    BY <2>2 DEF Bodies
  <2>4. Headcount(rsvp) \in Nat
    <3>1. rsvp \in TableOver(Players, GuestLimit, LastPosition)
      BY <1>a, TableIsTyped DEF Table
    <3> QED BY <3>1, BodiesFinite
  <2> QED BY <2>3, <2>4 DEF Headcount
<1>2. ASSUME NEW p \in Players, NEW g \in GuestCounts, NEW enforce \in BOOLEAN,
             Signup(p, g, enforce)
      PROVE  Safe
  <2>1. rsvp' = [rsvp EXCEPT ![p] = SignupRow(p, g)] /\ maxPlayers' = maxPlayers
        /\ SignupRow(p, g).pos <= LastPosition
    BY <1>2 DEF Signup
  <2>2. /\ rsvp'[p] = SignupRow(p, g)
        /\ \A q \in Players \ {p} : rsvp'[q] = rsvp[q]
    BY <1>a, <2>1
  <2>3. /\ SignupRow(p, g).guests = g
        /\ SignupRow(p, g).status = "confirmed" <=>
             Fits(Others(rsvp, p), maxPlayers, 1 + g)
    BY <2>1, SignupRowFacts
  <2>4. SignupRow(p, g).status = "confirmed" <=>
          Headcount(Others(rsvp, p)) + (1 + g) <= maxPlayers
    BY <1>a, <1>c, <2>3, Split, FitsMeansRoom
  <2>5. SignupRow(p, g).guests \in Nat
    BY <1>c, <2>3
  <2>6. Headcount(rsvp') = Headcount(Others(rsvp, p))
          + (IF SignupRow(p, g).status = "confirmed" THEN 1 + g ELSE 0)
    BY <1>a, <2>2, <2>3, Write
  <2>7. Headcount(rsvp) >= Headcount(Others(rsvp, p))
        /\ Headcount(Others(rsvp, p)) \in Nat /\ Headcount(rsvp) \in Nat
    BY <1>a, <1>b, Split
  <2>8. maxPlayers \in Nat /\ g \in Nat
    BY <1>a, <1>c
  <2>9. CASE SignupRow(p, g).status = "confirmed"
    BY <2>1, <2>4, <2>6, <2>7, <2>8, <2>9
  <2>10. CASE SignupRow(p, g).status # "confirmed"
    BY <2>6, <2>7, <2>10
  <2> QED BY <2>9, <2>10
<1>3. ASSUME NEW p \in Players, NEW g \in GuestCounts, SetGuestCount(p, g)
      PROVE  Safe
  <2>1. /\ rsvp'[p].guests = g /\ rsvp'[p].status = rsvp[p].status
        /\ \A q \in Players \ {p} : rsvp'[q] = rsvp[q]
        /\ maxPlayers' = maxPlayers
    BY <1>a, <1>3 DEF SetGuestCount, Entry
  <2>2. rsvp[p].status = "confirmed" => Fits(Others(rsvp, p), maxPlayers, 1 + g)
    BY <1>3 DEF SetGuestCount, MaySetGuests
  <2>3. rsvp[p].status = "confirmed" =>
          Headcount(Others(rsvp, p)) + (1 + g) <= maxPlayers
    BY <1>a, <1>c, <2>2, Split, FitsMeansRoom
  <2> QED BY <1>a, <1>b, <1>c, <2>1, <2>3, Split, Write
<1>4. ASSUME NEW p \in Players, Cancel(p) PROVE Safe
  <2>1. /\ rsvp'[p].status = "cancelled"
        /\ \A q \in Players \ {p} : rsvp'[q] = rsvp[q]
    BY <1>a, <1>4 DEF Cancel, OffWaitlist
  <2> QED BY <1>a, <1>b, <2>1, Split, Write
<1>5. ASSUME NEW q \in Players, Promote(q) PROVE Safe
  <2>1. /\ rsvp'[q].status = "confirmed" /\ rsvp'[q].guests = rsvp[q].guests
        /\ \A p \in Players \ {q} : rsvp'[p] = rsvp[p]
        /\ maxPlayers' = maxPlayers
    BY <1>a, <1>5 DEF Promote, OffWaitlist
  <2>2. rsvp[q].status = "waitlist" /\ Fits(rsvp, maxPlayers, 1 + rsvp[q].guests)
    BY <1>5 DEF Promote, NextPromotable, Waitlisted, PartySize
  <2>3. Headcount(rsvp) + (1 + rsvp[q].guests) <= maxPlayers
    <3>1. 1 + rsvp[q].guests \in Nat \ {0}
      BY <1>b
    <3> QED BY <1>a, <2>2, <3>1, Split, FitsMeansRoom
  <2> QED BY <1>a, <1>b, <2>1, <2>2, <2>3, Split, Write
<1>6. ASSUME NEW p \in Players, DeletePlayer(p) PROVE Safe
  <2>1. /\ rsvp'[p].status # "confirmed"
        /\ \A q \in Players \ {p} : rsvp'[q] = rsvp[q]
    BY <1>a, <1>6 DEF DeletePlayer, NoRow
  <2> QED BY <1>a, <1>b, <2>1, Split, Write
<1>7. ASSUME UNCHANGED rsvp PROVE Safe
  <2>1. Headcount(rsvp) \in Nat
    <3>1. rsvp \in TableOver(Players, GuestLimit, LastPosition)
      BY <1>a, TableIsTyped DEF Table
    <3> QED BY <3>1, BodiesFinite
  <2> QED BY <1>7, <2>1
<1>8. ASSUME OrganizerStep PROVE Safe
  <2>1. \A S \in SUBSET players : S \in SUBSET Players
    BY <1>a DEF TypeOK
  <2> HIDE DEF Safe
  <2> QED BY <1>1, <1>2, <1>5, <1>6, <1>7, <1>8, <2>1
          DEF OrganizerStep, PromoteNext, UpdateSession, SetSessionStatus,
              CreatePlayer
<1>9. ASSUME NEW p \in Players, ParticipantStep(p) PROVE Safe
  <2> HIDE DEF Safe
  <2> QED BY <1>1, <1>2, <1>3, <1>4, <1>9 DEF ParticipantStep, EnsureEntry
<1>10. ASSUME DeadlinePasses \/ UNCHANGED vars PROVE Safe
  BY <1>7, <1>10 DEF DeadlinePasses, vars
<1> QED BY <1>8, <1>9, <1>10 DEF Next

(* For any number of players, guests and places: no step makes the headcount
   grow past the limit in force, whatever the organizer did to that limit. *)
THEOREM CapacityHolds == Spec => NeverOverbooks
<1>1. RsvpInv /\ RsvpInv' /\ [Next]_vars =>
        [Headcount(rsvp') > Headcount(rsvp) => Headcount(rsvp') <= maxPlayers']_vars
  BY StepNeverOverbooks
<1> QED BY <1>1, RsvpInvariant, PTL DEF Spec, NeverOverbooks

-----------------------------------------------------------------------------
(* Places kept, order kept, answers kept *)

(* For any bounds: signing up again with no larger a party keeps a confirmed
   place, in a session that is not over its limit. *)
THEOREM ReconfirmationHolds == Spec => ReconfirmKeepsPlace
<1> DEFINE Keeps(p, g, enforce) ==
        /\ Signup(p, g, enforce)
        /\ rsvp[p].status = "confirmed" /\ g <= rsvp[p].guests
        /\ Headcount(rsvp) <= maxPlayers
        => rsvp'[p].status = "confirmed"
<1>1. ASSUME RsvpInv, NEW p \in Players, NEW g \in GuestCounts,
             NEW enforce \in BOOLEAN
      PROVE  Keeps(p, g, enforce)
  <2> SUFFICES ASSUME Signup(p, g, enforce), rsvp[p].status = "confirmed",
                      g <= rsvp[p].guests, Headcount(rsvp) <= maxPlayers
               PROVE  rsvp'[p].status = "confirmed"
    OBVIOUS
  <2>1. /\ TypeOK /\ rsvp \in [Players -> Entry] /\ maxPlayers \in Nat
        /\ rsvp[p].guests \in Nat /\ g \in Nat /\ 1 + g \in Nat \ {0}
    BY <1>1 DEF RsvpInv, TypeOK, Entry, GuestCounts
  <2>2. /\ Headcount(rsvp) = Headcount(Others(rsvp, p)) + (1 + rsvp[p].guests)
        /\ Headcount(Others(rsvp, p)) \in Nat
    BY <2>1, Split
  <2>3. Headcount(Others(rsvp, p)) + (1 + g) <= maxPlayers
    BY <2>1, <2>2
  <2>4. Fits(Others(rsvp, p), maxPlayers, 1 + g)
    BY <2>1, <2>2, <2>3, FitsMeansRoom
  <2>5. SignupRow(p, g).status = "confirmed"
    BY <1>1, <2>4, SignupRowFacts DEF Signup
  <2> QED BY <2>1, <2>5 DEF Signup
<1>2. RsvpInv => [\A p \in Players, g \in GuestCounts, enforce \in BOOLEAN :
                    Keeps(p, g, enforce)]_vars
  BY <1>1
<1> QED BY <1>2, RsvpInvariant, PTL DEF ReconfirmKeepsPlace

(* For any number of people and any history of joining and leaving: nobody
   gets ahead of somebody who keeps waiting. *)
THEOREM OrderHolds == Spec => QueueNeverReordered
<1> DEFINE Ordered(p) ==
        /\ p \in Waitlisted(rsvp) /\ p \in Waitlisted(rsvp')
        /\ rsvp'[p].pos = rsvp[p].pos
        => Ahead(rsvp', p) \subseteq Ahead(rsvp, p)
<1>1. ASSUME RsvpInv, RsvpInv', [Next]_vars, NEW p \in Players
      PROVE  Ordered(p)
  <2> SUFFICES ASSUME p \in Waitlisted(rsvp), rsvp'[p].pos = rsvp[p].pos,
                      NEW q \in Ahead(rsvp', p)
               PROVE  q \in Ahead(rsvp, p)
    OBVIOUS
  <2>a. /\ rsvp \in [Players -> Entry] /\ rsvp' \in [Players -> Entry]
        /\ q \in Players /\ rsvp'[q].status = "waitlist"
        /\ WaitPos(rsvp'[q]) < WaitPos(rsvp'[p])
    BY <1>1 DEF RsvpInv, TypeOK, Ahead, Waitlisted
  <2>b. /\ rsvp[p].pos \in Nat /\ rsvp'[q].pos \in Nat
        /\ rsvp[p].pos # 0 /\ rsvp'[q].pos # 0
    BY <1>1, <2>a DEF RsvpInv, WaitlistPlaced, Waitlisted, Entry
  <2>c. rsvp'[q].pos < rsvp[p].pos
    BY <2>a, <2>b DEF WaitPos
  <2>1. CASE rsvp'[q].status = rsvp[q].status /\ rsvp'[q].pos = rsvp[q].pos
    BY <2>a, <2>b, <2>1 DEF Ahead, Waitlisted, WaitPos
  <2>2. ASSUME NEW g \in GuestCounts, NEW enforce \in BOOLEAN,
               Signup(q, g, enforce)
        PROVE  FALSE
    <3>1. rsvp'[q] = SignupRow(q, g) /\ SignupRow(q, g).pos <= LastPosition
      BY <2>2, <2>a DEF Signup
    <3>2. \A r \in Waitlisted(rsvp) \ {q} : rsvp[r].pos < SignupRow(q, g).pos
      BY <1>1, <2>a, <3>1, SignupRowFacts
    <3>3. p # q
      BY <2>a, <2>b, <2>c
    <3> QED BY <2>b, <2>c, <3>1, <3>2, <3>3
  <2>3. ASSUME ~(\E g \in GuestCounts, enforce \in BOOLEAN : Signup(q, g, enforce))
        PROVE  rsvp'[q].status = rsvp[q].status /\ rsvp'[q].pos = rsvp[q].pos
    <3>1. ASSUME NEW S, EnsureInvites(S) PROVE rsvp'[q] = rsvp[q]
      BY <2>a, <3>1 DEF EnsureInvites, InvitedRow
    <3>2. ASSUME NEW r \in Players, NEW g \in GuestCounts,
                 NEW enforce \in BOOLEAN, Signup(r, g, enforce)
          PROVE  rsvp'[q] = rsvp[q]
      BY <2>a, <2>3, <3>2 DEF Signup
    <3>3. ASSUME NEW r \in Players, NEW g \in GuestCounts, SetGuestCount(r, g)
          PROVE  rsvp'[q].status = rsvp[q].status /\ rsvp'[q].pos = rsvp[q].pos
      BY <2>a, <3>3 DEF SetGuestCount, Entry
    <3>4. ASSUME NEW r \in Players, Cancel(r) \/ Promote(r) \/ DeletePlayer(r)
          PROVE  rsvp'[q] = rsvp[q]
      BY <2>a, <3>4 DEF Cancel, Promote, DeletePlayer, OffWaitlist, NoRow
    <3>5. ASSUME NEW r \in Players, ParticipantStep(r)
          PROVE  rsvp'[q].status = rsvp[q].status /\ rsvp'[q].pos = rsvp[q].pos
      BY <3>1, <3>2, <3>3, <3>4, <3>5 DEF ParticipantStep, EnsureEntry
    <3>6. ASSUME OrganizerStep
          PROVE  rsvp'[q].status = rsvp[q].status /\ rsvp'[q].pos = rsvp[q].pos
      BY <3>1, <3>2, <3>4, <3>6 DEF OrganizerStep, PromoteNext, UpdateSession,
                                   SetSessionStatus, CreatePlayer
    <3>7. ASSUME DeadlinePasses \/ UNCHANGED vars PROVE rsvp'[q] = rsvp[q]
      BY <3>7 DEF DeadlinePasses, vars
    <3> QED BY <1>1, <3>5, <3>6, <3>7 DEF Next
  <2> QED BY <2>1, <2>2, <2>3
<1>2. RsvpInv /\ RsvpInv' /\ [Next]_vars => [\A p \in Players : Ordered(p)]_vars
  BY <1>1
<1> QED BY <1>2, RsvpInvariant, PTL DEF Spec, QueueNeverReordered

(* For any number of people: an answer stays an answer as long as the player
   exists, however often invitations and reminders go over the table. *)
THEOREM AnswersHold == Spec => AnswersKept
<1> DEFINE Kept(p) ==
        /\ rsvp[p].status \in {"confirmed", "waitlist", "cancelled"}
        /\ rsvp'[p].status \in {"invited", "none"}
        => p \notin players'
<1>1. ASSUME RsvpInv, [Next]_vars, NEW p \in Players
      PROVE  Kept(p)
  <2> SUFFICES ASSUME rsvp[p].status \in {"confirmed", "waitlist", "cancelled"},
                      rsvp'[p].status \in {"invited", "none"}
               PROVE  p \notin players'
    OBVIOUS
  <2>a. rsvp \in [Players -> Entry] /\ players \subseteq Players
    BY <1>1 DEF RsvpInv, TypeOK
  <2>b. rsvp'[p] # rsvp[p] /\ rsvp'[p].status # rsvp[p].status
    OBVIOUS
  <2>1. ASSUME NEW S \in SUBSET Players, EnsureInvites(S) PROVE FALSE
    BY <2>1, <2>b DEF EnsureInvites, HasRow
  <2>2. ASSUME NEW q \in Players, NEW g \in GuestCounts,
               NEW enforce \in BOOLEAN, Signup(q, g, enforce)
        PROVE  FALSE
    BY <2>2, <2>a, <2>b DEF Signup, SignupRow
  <2>3. ASSUME NEW q \in Players, NEW g \in GuestCounts, SetGuestCount(q, g)
        PROVE  FALSE
    BY <2>3, <2>a, <2>b DEF SetGuestCount, Entry
  <2>4. ASSUME NEW q \in Players, Cancel(q) \/ Promote(q) PROVE FALSE
    BY <2>4, <2>a, <2>b DEF Cancel, Promote, OffWaitlist
  <2>5. ASSUME NEW q \in Players, DeletePlayer(q) PROVE p \notin players'
    BY <2>5, <2>a, <2>b DEF DeletePlayer
  <2>6. CASE UNCHANGED rsvp
    BY <2>6, <2>b
  <2>7. CASE OrganizerStep
    <3>1. \A S \in SUBSET players : S \in SUBSET Players
      BY <2>a
    <3> QED BY <2>1, <2>2, <2>4, <2>5, <2>6, <2>7, <3>1
            DEF OrganizerStep, PromoteNext, UpdateSession, SetSessionStatus,
                CreatePlayer
  <2>8. ASSUME NEW q \in Players, ParticipantStep(q) PROVE FALSE
    BY <2>1, <2>2, <2>3, <2>4, <2>8 DEF ParticipantStep, EnsureEntry
  <2>9. CASE DeadlinePasses \/ UNCHANGED vars
    BY <2>6, <2>9 DEF DeadlinePasses, vars
  <2> QED BY <1>1, <2>7, <2>8, <2>9 DEF Next
<1>2. RsvpInv /\ [Next]_vars => [\A p \in Players : Kept(p)]_vars
  BY <1>1
<1> QED BY <1>2, RsvpInvariant, PTL DEF Spec, AnswersKept

-----------------------------------------------------------------------------
(* Rows and players *)

(* The foreign key from rsvp to player. *)
RowsHavePlayers == \A p \in Players : HasRow(p) => p \in players

(* No transaction leaves a row without its player. *)
LEMMA RowsStep ==
    ASSUME TypeOK, RowsHavePlayers, [Next]_vars
    PROVE  RowsHavePlayers'
<1>a. rsvp \in [Players -> Entry]
  BY DEF TypeOK
<1>1. ASSUME NEW S \in SUBSET players, EnsureInvites(S) PROVE RowsHavePlayers'
  BY <1>a, <1>1 DEF EnsureInvites, RowsHavePlayers, HasRow
<1>2. ASSUME NEW p \in Players, HasRow(p), players' = players,
             NEW e, rsvp' = [rsvp EXCEPT ![p] = e]
      PROVE  RowsHavePlayers'
  BY <1>a, <1>2 DEF RowsHavePlayers, HasRow
<1>3. ASSUME NEW p \in Players, NEW g, NEW enforce, Signup(p, g, enforce)
      PROVE  RowsHavePlayers'
  BY <1>2, <1>3 DEF Signup
<1>4. ASSUME NEW p \in Players, NEW g, SetGuestCount(p, g)
      PROVE  RowsHavePlayers'
  BY <1>2, <1>4 DEF SetGuestCount, MaySetGuests
<1>5. ASSUME NEW p \in Players, Cancel(p) PROVE RowsHavePlayers'
  BY <1>2, <1>5 DEF Cancel
<1>6. ASSUME NEW p \in Players, Promote(p) PROVE RowsHavePlayers'
  <2>1. HasRow(p)
    BY <1>6 DEF Promote, NextPromotable, Waitlisted, HasRow
  <2> QED BY <1>2, <1>6, <2>1 DEF Promote
<1>7. ASSUME NEW p \in Players, DeletePlayer(p) PROVE RowsHavePlayers'
  BY <1>a, <1>7 DEF DeletePlayer, RowsHavePlayers, HasRow, NoRow
<1>8. ASSUME UNCHANGED rsvp, players \subseteq players' PROVE RowsHavePlayers'
  BY <1>8 DEF RowsHavePlayers, HasRow
<1>9. CASE OrganizerStep
  BY <1>1, <1>3, <1>6, <1>7, <1>8, <1>9
     DEF OrganizerStep, PromoteNext, UpdateSession, SetSessionStatus, CreatePlayer
<1>10. ASSUME NEW p \in Players, EnsureEntry(p) PROVE RowsHavePlayers'
  BY <1>1, <1>10 DEF EnsureEntry, EnsureInvites
<1>11. CASE \E p \in Players : ParticipantStep(p)
  BY <1>3, <1>4, <1>5, <1>10, <1>11 DEF ParticipantStep
<1>12. CASE DeadlinePasses \/ UNCHANGED vars
  BY <1>8, <1>12 DEF DeadlinePasses, vars
<1> QED BY <1>9, <1>11, <1>12 DEF Next

(* A row stays as long as its player does. *)
LEMMA RowsStay ==
    ASSUME TypeOK, RowsHavePlayers, [Next]_vars,
           NEW q \in Players, HasRow(q), q \in players'
    PROVE  HasRow(q)'
<1>a. rsvp \in [Players -> Entry]
  BY DEF TypeOK
<1>1. ASSUME NEW S, EnsureInvites(S) PROVE HasRow(q)'
  BY <1>a, <1>1 DEF EnsureInvites, HasRow
<1>2. ASSUME NEW p \in Players, NEW e, e.status # "none",
             rsvp' = [rsvp EXCEPT ![p] = e]
      PROVE  HasRow(q)'
  BY <1>a, <1>2 DEF HasRow
<1>3. ASSUME NEW p \in Players, NEW g, NEW enforce, Signup(p, g, enforce)
      PROVE  HasRow(q)'
  <2>1. SignupRow(p, g).status # "none"
    BY DEF SignupRow
  <2> QED BY <1>2, <1>3, <2>1 DEF Signup
<1>4. ASSUME NEW p \in Players, NEW g, SetGuestCount(p, g) PROVE HasRow(q)'
  <2>1. [rsvp[p] EXCEPT !.guests = g].status # "none"
    BY <1>a, <1>4 DEF SetGuestCount, MaySetGuests, HasRow, Entry
  <2> QED BY <1>2, <1>4, <2>1 DEF SetGuestCount
<1>5. ASSUME NEW p \in Players, Cancel(p) PROVE HasRow(q)'
  BY <1>2, <1>5 DEF Cancel, OffWaitlist
<1>6. ASSUME NEW p \in Players, Promote(p) PROVE HasRow(q)'
  BY <1>2, <1>6 DEF Promote, OffWaitlist
<1>7. ASSUME NEW p \in Players, DeletePlayer(p) PROVE HasRow(q)'
  BY <1>a, <1>7 DEF DeletePlayer, HasRow
<1>8. ASSUME UNCHANGED rsvp PROVE HasRow(q)'
  BY <1>8 DEF HasRow
<1>9. CASE OrganizerStep
  BY <1>1, <1>3, <1>6, <1>7, <1>8, <1>9
     DEF OrganizerStep, PromoteNext, UpdateSession, SetSessionStatus, CreatePlayer
<1>10. CASE \E p \in Players : ParticipantStep(p)
  BY <1>1, <1>3, <1>4, <1>5, <1>10 DEF ParticipantStep, EnsureEntry
<1>11. CASE DeadlinePasses \/ UNCHANGED vars
  BY <1>8, <1>11 DEF DeadlinePasses, vars
<1> QED BY <1>9, <1>10, <1>11 DEF Next

(* No row outlives its player: deleting one takes the rows along, and no
   transaction writes a row for a player who is gone. *)
THEOREM RowsInvariant == Spec => []RowsHavePlayers
<1>1. Init => RowsHavePlayers
  BY DEF Init, RowsHavePlayers, HasRow, NoRow
<1>2. TypeOK /\ RowsHavePlayers /\ [Next]_vars => RowsHavePlayers'
  BY RowsStep
<1> QED BY <1>1, <1>2, TypeCorrect, PTL DEF Spec
-----------------------------------------------------------------------------
(* The signup sheet *)

USE DEF SeatsOf, WantsOf

Seats == [p \in Players |-> SeatsOf(rsvp[p])]
Wants == [p \in Players |-> WantsOf(rsvp[p])]

(* Everybody else's row stays as it is. *)
Alone(p) == \A q \in Players \ {p} : rsvp'[q] = rsvp[q]

LEMMA SheetOfWrite ==
    ASSUME TypeOK, TypeOK', NEW p \in Players, Alone(p)
    PROVE  /\ Seats' = [Seats EXCEPT ![p] = SeatsOf(rsvp'[p])]
           /\ Wants' = [Wants EXCEPT ![p] = WantsOf(rsvp'[p])]
BY DEF Seats, Wants, Alone

(* The bodies admitted with others are those counted with p's row released. *)
LEMMA TakenIsHeadcount ==
    ASSUME TypeOK, NEW p \in Players
    PROVE  Sheet!TakenByOthers(p) = Headcount(Others(rsvp, p))
<1> DEFINE o == Others(rsvp, p)
           Admitted(q) == {q} \X (0 .. Seats[q] - 1)
<1>1. /\ DOMAIN o = Players /\ o[p] = NoRow
      /\ \A q \in Players \ {p} : o[q] = rsvp[q]
      /\ \A q \in Players : rsvp[q].guests \in Nat
  BY DEF TypeOK, Others, Entry, GuestCounts
<1>2. Confirmed(o) = {q \in Players \ {p} : rsvp[q].status = "confirmed"}
  BY <1>1 DEF Confirmed, NoRow
<1>3. ASSUME NEW q \in Players \ {p}
      PROVE  Admitted(q) = IF q \in Confirmed(o) THEN Party(o, q) ELSE {}
  <2>1. CASE q \in Confirmed(o)
    <3>1. Seats[q] - 1 = o[q].guests
      BY <1>1, <1>2, <2>1 DEF Seats, PartySize
    <3> QED BY <2>1, <3>1 DEF Party
  <2>2. CASE q \notin Confirmed(o)
    <3>1. Seats[q] = 0
      BY <1>2, <2>2 DEF Seats
    <3> QED BY <2>2, <3>1
  <2> QED BY <2>1, <2>2
<1> HIDE DEF o, Admitted
<1>4. UNION {Admitted(q) : q \in Players \ {p}} = Bodies(o)
  BY <1>2, <1>3 DEF Bodies
<1>5. Sheet!TakenByOthers(p) = Sheet!Cardinality(UNION {Admitted(q) : q \in Players \ {p}})
  BY DEF Sheet!TakenByOthers, Sheet!Admitted, Admitted, Seats
<1>6. \A S : Sheet!Cardinality(S) = Cardinality(S)
  BY DEF Sheet!Cardinality, Cardinality
<1> QED BY <1>4, <1>5, <1>6 DEF Headcount, o

LEMMA RoomIsFit ==
    ASSUME TypeOK, NEW p \in Players, NEW n \in Nat \ {0}
    PROVE  Sheet!RoomFor(p, n) <=> Fits(Others(rsvp, p), maxPlayers, n)
<1>1. maxPlayers \in Nat /\ Headcount(Others(rsvp, p)) \in Nat
  BY Split DEF TypeOK
<1> QED BY <1>1, TakenIsHeadcount, FitsMeansRoom DEF Sheet!RoomFor

(* Whoever leaves the waitlist, or was never on it, leaves the order of the
   others alone. *)
LEMMA OutOfLine ==
    ASSUME TypeOK, TypeOK', NEW p \in Players, Alone(p),
           rsvp'[p].status # "waitlist"
    PROVE  WaitingInOrder' = Sheet!AheadWithout(p)
<1>1. Waitlisted(rsvp') = Waitlisted(rsvp) \ {p}
  BY DEF Waitlisted, TypeOK, Alone
<1>2. Waitlisted(rsvp) \subseteq Players
  BY DEF Waitlisted, TypeOK
<1> QED BY <1>1, <1>2 DEF WaitingInOrder, Sheet!AheadWithout, Alone

(* A row written with a position behind all the others' is at the end. *)
LEMMA EndOfLine ==
    ASSUME RsvpInv, RsvpInv', NEW p \in Players, Alone(p),
           rsvp'[p].status = "waitlist",
           \A q \in Waitlisted(rsvp) \ {p} : rsvp[q].pos < rsvp'[p].pos
    PROVE  WaitingInOrder' =
             Sheet!AheadWithout(p) \cup ((Sheet!Waiting \ {p}) \X {p})
<1>1. /\ rsvp \in [Players -> Entry] /\ rsvp' \in [Players -> Entry]
      /\ WaitlistPlaced /\ WaitlistPlaced'
  BY DEF RsvpInv, TypeOK
<1>2. /\ Waitlisted(rsvp') = Waitlisted(rsvp) \cup {p}
      /\ Waitlisted(rsvp) \subseteq Players
  BY <1>1 DEF Waitlisted, Alone
<1>3. \A q \in Waitlisted(rsvp) : rsvp[q].pos \in Nat /\ WaitPos(rsvp[q]) = rsvp[q].pos
  BY <1>1, <1>2 DEF WaitlistPlaced, Waitlisted, WaitPos, Entry
<1>4. rsvp'[p].pos \in Nat /\ WaitPos(rsvp'[p]) = rsvp'[p].pos
  BY <1>1 DEF WaitlistPlaced, WaitPos, Entry
<1>5. \A q \in Waitlisted(rsvp) \ {p} :
         WaitPos(rsvp'[q]) = rsvp[q].pos /\ rsvp[q].pos < rsvp'[p].pos
  BY <1>2, <1>3 DEF Alone
<1>6. Sheet!Waiting = Waitlisted(rsvp)
  BY <1>1 DEF Sheet!Waiting, Waitlisted, PartySize, Entry, GuestCounts
<1>7. ASSUME NEW q \in Players, NEW r \in Players
      PROVE  <<q, r>> \in WaitingInOrder' <=>
               \/ <<q, r>> \in WaitingInOrder /\ q # p /\ r # p
               \/ q \in Waitlisted(rsvp) \ {p} /\ r = p
  <2>1. CASE q # p /\ r # p
    BY <1>2, <2>1 DEF WaitingInOrder, Alone
  <2>2. CASE q = p
    BY <1>2, <1>4, <1>5, <1>3, <2>2 DEF WaitingInOrder
  <2>3. CASE q # p /\ r = p
    BY <1>2, <1>4, <1>5, <2>3 DEF WaitingInOrder
  <2> QED BY <2>1, <2>2, <2>3
<1>8. WaitingInOrder \subseteq Players \X Players
      /\ WaitingInOrder' \subseteq Players \X Players
  BY <1>2 DEF WaitingInOrder
<1> QED BY <1>2, <1>6, <1>7, <1>8 DEF Sheet!AheadWithout

(* As long as statuses and positions stay, so does the order. *)
LEMMA SameLine ==
    ASSUME TypeOK, TypeOK',
           \A p \in Players : /\ rsvp'[p].status = rsvp[p].status
                              /\ rsvp'[p].pos = rsvp[p].pos
    PROVE  WaitingInOrder' = WaitingInOrder
<1>1. Waitlisted(rsvp') = Waitlisted(rsvp) /\ Waitlisted(rsvp) \subseteq Players
  BY DEF Waitlisted, TypeOK
<1> QED BY <1>1 DEF WaitingInOrder, WaitPos

LEMMA SheetInit == Init => Sheet!BookingInit
<1> SUFFICES ASSUME Init PROVE Sheet!BookingInit
  OBVIOUS
<1>1. \A p \in Players : SeatsOf(rsvp[p]) = 0 /\ WantsOf(rsvp[p]) = 0
  BY DEF Init, NoRow
<1>2. WaitingInOrder = {}
  BY DEF Init, NoRow, WaitingInOrder, Waitlisted
<1> QED BY <1>1, <1>2 DEF Init, Sheet!BookingInit

SheetStep == [Sheet!BookingNext]_(Sheet!bookingVars)

(* p's party of n is given places. *)
LEMMA AdmitStep ==
    ASSUME TypeOK, TypeOK', NEW p \in Players, NEW g \in GuestCounts,
           Alone(p), maxPlayers' = maxPlayers,
           rsvp'[p].status = "confirmed", rsvp'[p].guests = g,
           Fits(Others(rsvp, p), maxPlayers, 1 + g)
    PROVE  SheetStep
<1>1. 1 + g \in Nat \ {0}
  BY DEF GuestCounts
<1>2. /\ Seats' = [Seats EXCEPT ![p] = 1 + g]
      /\ Wants' = [Wants EXCEPT ![p] = 0]
  BY SheetOfWrite DEF PartySize
<1>3. Sheet!Admit(p, 1 + g)
  BY <1>1, <1>2, RoomIsFit, OutOfLine DEF Sheet!Admit, Seats, Wants
<1>4. 1 + g \in {1 + h : h \in GuestCounts}
  OBVIOUS
<1> QED BY <1>3, <1>4 DEF SheetStep, Sheet!BookingNext

(* p leaves the confirmed or the waitlist, or was on neither. *)
LEMMA LeaveStep ==
    ASSUME TypeOK, TypeOK', NEW p \in Players,
           Alone(p), maxPlayers' = maxPlayers,
           rsvp'[p].status \notin {"confirmed", "waitlist"}
    PROVE  SheetStep
<1>1. /\ Seats' = [Seats EXCEPT ![p] = 0]
      /\ Wants' = [Wants EXCEPT ![p] = 0]
  BY SheetOfWrite
<1>2. Sheet!Leave(p)
  BY <1>1, OutOfLine DEF Sheet!Leave, Seats, Wants
<1> QED BY <1>2 DEF SheetStep, Sheet!BookingNext

(* Invitations, the session's status, the clock and new players do not show
   on the sheet. *)
LEMMA Unseen ==
    ASSUME TypeOK, TypeOK', maxPlayers' = maxPlayers,
           \A p \in Players :
              \/ rsvp'[p] = rsvp[p]
              \/ /\ rsvp[p].status \notin {"confirmed", "waitlist"}
                 /\ rsvp'[p].status \notin {"confirmed", "waitlist"}
    PROVE  SheetStep
<1>1. Seats' = Seats /\ Wants' = Wants
  BY DEF Seats, Wants
<1>2. Waitlisted(rsvp') = Waitlisted(rsvp) /\ Waitlisted(rsvp) \subseteq Players
      /\ \A p \in Waitlisted(rsvp) : rsvp'[p] = rsvp[p]
  BY DEF Waitlisted, TypeOK
<1>3. WaitingInOrder' = WaitingInOrder
  BY <1>2 DEF WaitingInOrder
<1> QED BY <1>1, <1>3 DEF SheetStep, Sheet!bookingVars, Seats, Wants

LEMMA SignupOnSheet ==
    ASSUME RsvpInv, RsvpInv', NEW p \in Players, NEW g \in GuestCounts,
           NEW enforce \in BOOLEAN, Signup(p, g, enforce)
    PROVE  SheetStep
<1>1. TypeOK /\ TypeOK'
  BY DEF RsvpInv
<1>2. /\ rsvp'[p] = SignupRow(p, g) /\ Alone(p)
      /\ maxPlayers' = maxPlayers /\ SignupRow(p, g).pos <= LastPosition
  BY <1>1 DEF Signup, Alone, TypeOK
<1>3. /\ rsvp'[p].status \in {"confirmed", "waitlist"} /\ rsvp'[p].guests = g
      /\ rsvp'[p].status = "waitlist" =>
           \A q \in Waitlisted(rsvp) \ {p} : rsvp[q].pos < rsvp'[p].pos
      /\ rsvp'[p].status = "confirmed" <=> Fits(Others(rsvp, p), maxPlayers, 1 + g)
  BY <1>2, SignupRowFacts
<1>4. CASE rsvp'[p].status = "confirmed"
  BY <1>1, <1>2, <1>3, <1>4, AdmitStep
<1>5. CASE rsvp'[p].status = "waitlist"
  <2>1. 1 + g \in Nat \ {0} /\ 1 + g \in {1 + h : h \in GuestCounts}
    BY DEF GuestCounts
  <2>2. /\ Seats' = [Seats EXCEPT ![p] = 0]
        /\ Wants' = [Wants EXCEPT ![p] = 1 + g]
    BY <1>1, <1>2, <1>3, <1>5, SheetOfWrite DEF PartySize
  <2>3. ~Sheet!RoomFor(p, 1 + g)
    BY <1>1, <1>3, <1>5, <2>1, RoomIsFit
  <2>4. Sheet!Wait(p, 1 + g)
    BY <1>2, <1>3, <1>5, <2>2, <2>3, EndOfLine DEF Sheet!Wait, Seats, Wants
  <2> QED BY <2>1, <2>4 DEF SheetStep, Sheet!BookingNext
<1> QED BY <1>3, <1>4, <1>5

LEMMA SetGuestsOnSheet ==
    ASSUME RsvpInv, RsvpInv', NEW p \in Players, NEW g \in GuestCounts,
           SetGuestCount(p, g)
    PROVE  SheetStep
<1>1. TypeOK /\ TypeOK'
  BY DEF RsvpInv
<1>2. /\ rsvp'[p].guests = g /\ rsvp'[p].status = rsvp[p].status
      /\ rsvp'[p].pos = rsvp[p].pos
      /\ Alone(p) /\ maxPlayers' = maxPlayers
      /\ rsvp[p].status = "confirmed" => Fits(Others(rsvp, p), maxPlayers, 1 + g)
  BY <1>1 DEF SetGuestCount, MaySetGuests, Alone, TypeOK, Entry
<1>3. CASE rsvp[p].status = "confirmed"
  BY <1>1, <1>2, <1>3, AdmitStep
<1>4. CASE rsvp[p].status = "waitlist"
  <2>1. 1 + g \in {1 + h : h \in GuestCounts}
    OBVIOUS
  <2>2. /\ Seats' = [Seats EXCEPT ![p] = 0] /\ Seats[p] = 0
        /\ Wants' = [Wants EXCEPT ![p] = 1 + g]
    BY <1>1, <1>2, <1>4, SheetOfWrite DEF PartySize, Seats
  <2>3. Seats' = Seats
    BY <2>2 DEF Seats
  <2>4. WaitingInOrder' = WaitingInOrder
    BY <1>1, <1>2, SameLine DEF Alone
  <2>5. Wants[p] > 0
    BY <1>1, <1>4 DEF Wants, PartySize, TypeOK, Entry, GuestCounts
  <2>6. Sheet!Resize(p, 1 + g)
    BY <1>2, <2>2, <2>3, <2>4, <2>5 DEF Sheet!Resize, Seats, Wants
  <2> QED BY <2>1, <2>6 DEF SheetStep, Sheet!BookingNext
<1>5. CASE rsvp[p].status \notin {"confirmed", "waitlist"}
  BY <1>1, <1>2, <1>5, LeaveStep
<1> QED BY <1>3, <1>4, <1>5

LEMMA PromoteOnSheet ==
    ASSUME RsvpInv, RsvpInv', NEW q \in Players, Promote(q)
    PROVE  SheetStep
<1>1. TypeOK /\ TypeOK' /\ rsvp \in [Players -> Entry] /\ maxPlayers \in Nat
  BY DEF RsvpInv, TypeOK
<1> DEFINE g == rsvp[q].guests
<1>2. /\ rsvp'[q].status = "confirmed" /\ rsvp'[q].guests = g
      /\ Alone(q) /\ maxPlayers' = maxPlayers
  BY <1>1 DEF Promote, OffWaitlist, Alone
<1>3. rsvp[q].status = "waitlist" /\ Fits(rsvp, maxPlayers, 1 + g)
  BY DEF Promote, NextPromotable, Waitlisted, PartySize
<1>4. g \in GuestCounts /\ 1 + g \in Nat \ {0}
  BY <1>1 DEF Entry, GuestCounts
<1>5. Headcount(rsvp) = Headcount(Others(rsvp, q)) /\ Headcount(rsvp) \in Nat
  BY <1>1, <1>3, Split
<1>6. Fits(Others(rsvp, q), maxPlayers, 1 + g)
  BY <1>3, <1>5 DEF Fits, SpotsLeft
<1> QED BY <1>1, <1>2, <1>4, <1>6, AdmitStep

LEMMA StepOnSheet ==
    ASSUME RsvpInv, RsvpInv', [Next]_vars
    PROVE  SheetStep
<1>a. TypeOK /\ TypeOK' /\ rsvp \in [Players -> Entry]
  BY DEF RsvpInv, TypeOK
<1>1. ASSUME NEW S \in SUBSET players, EnsureInvites(S) PROVE SheetStep
  BY <1>a, <1>1, Unseen DEF EnsureInvites, HasRow, InvitedRow
<1>2. ASSUME NEW p \in Players, Cancel(p) \/ DeletePlayer(p) PROVE SheetStep
  <2>1. /\ rsvp'[p].status \notin {"confirmed", "waitlist"}
        /\ Alone(p) /\ maxPlayers' = maxPlayers
    BY <1>a, <1>2 DEF Cancel, DeletePlayer, OffWaitlist, NoRow, Alone
  <2> QED BY <1>a, <2>1, LeaveStep
<1>3. ASSUME NEW max \in 1 .. Capacity, NEW isLate, UpdateSession(max, isLate)
      PROVE  SheetStep
  <2>1. Seats' = Seats /\ Wants' = Wants /\ WaitingInOrder' = WaitingInOrder
    BY <1>3 DEF UpdateSession, Seats, Wants, WaitingInOrder
  <2>2. Sheet!SetCapacity(max)
    BY <1>3, <2>1 DEF UpdateSession, Sheet!SetCapacity, Seats, Wants
  <2> QED BY <2>2 DEF SheetStep, Sheet!BookingNext
<1>4. ASSUME rsvp' = rsvp, maxPlayers' = maxPlayers PROVE SheetStep
  BY <1>a, <1>4, Unseen
<1>5. CASE OrganizerStep
  BY <1>1, <1>2, <1>3, <1>4, <1>5, SignupOnSheet, PromoteOnSheet
     DEF OrganizerStep, PromoteNext, SetSessionStatus, CreatePlayer
<1>6. ASSUME NEW p \in Players, ParticipantStep(p) PROVE SheetStep
  <2>1. ASSUME EnsureEntry(p) PROVE SheetStep
    BY <1>1, <2>1 DEF EnsureEntry, EnsureInvites
  <2> QED BY <1>2, <1>6, <2>1, SignupOnSheet, SetGuestsOnSheet DEF ParticipantStep
<1>7. CASE DeadlinePasses \/ UNCHANGED vars
  BY <1>4, <1>7 DEF DeadlinePasses, vars
<1> QED BY <1>5, <1>6, <1>7 DEF Next

(* For any number of people, guests and places the store implements the
   signup sheet: people are admitted while there is room, wait in one line
   that is joined at its end, and nothing ever reorders it. *)
THEOREM RsvpImplementsBooking == Spec => ImplementsBooking
<1>1. RsvpInv /\ RsvpInv' /\ [Next]_vars => [Sheet!BookingNext]_(Sheet!bookingVars)
  BY StepOnSheet DEF SheetStep
<1> QED BY <1>1, SheetInit, RsvpInvariant, PTL
        DEF Spec, ImplementsBooking, Sheet!BookingSpec

(* What the table shows as a queue is always one line, in which nobody stands
   who has places. *)
THEOREM QueueIsLine == Spec => []Sheet!InLine
<1>1. RsvpInv => Sheet!InLine
  <2> SUFFICES ASSUME RsvpInv PROVE Sheet!InLine
    OBVIOUS
  <2>1. /\ rsvp \in [Players -> Entry] /\ WaitlistPlaced /\ DistinctPositions
    BY DEF RsvpInv, TypeOK
  <2>2. Sheet!Waiting = Waitlisted(rsvp) /\ Waitlisted(rsvp) \subseteq Players
    BY <2>1 DEF Sheet!Waiting, Waitlisted, PartySize, Entry, GuestCounts
  <2>3. \A p \in Waitlisted(rsvp) :
          WaitPos(rsvp[p]) = rsvp[p].pos /\ rsvp[p].pos \in Nat
    BY <2>1, <2>2 DEF WaitlistPlaced, Waitlisted, WaitPos, Entry
  <2>4. \A p, q \in Waitlisted(rsvp) :
          <<p, q>> \in WaitingInOrder <=> rsvp[p].pos < rsvp[q].pos
    BY <2>3 DEF WaitingInOrder
  <2>5. \A p \in Waitlisted(rsvp) : [r \in Players |-> SeatsOf(rsvp[r])][p] = 0
    BY <2>2 DEF Waitlisted
  <2>6. WaitingInOrder \subseteq Waitlisted(rsvp) \X Waitlisted(rsvp)
    BY DEF WaitingInOrder
  <2>7. \A p, q \in Waitlisted(rsvp) : p # q =>
          (<<p, q>> \in WaitingInOrder <=> <<q, p>> \notin WaitingInOrder)
    BY <2>1, <2>3, <2>4 DEF DistinctPositions
  <2>8. \A p \in Waitlisted(rsvp) : <<p, p>> \notin WaitingInOrder
    BY <2>3, <2>4
  <2>9. \A p, q, r \in Waitlisted(rsvp) :
          <<p, q>> \in WaitingInOrder /\ <<q, r>> \in WaitingInOrder
            => <<p, r>> \in WaitingInOrder
    BY <2>3, <2>4
  <2> HIDE DEF WaitingInOrder
  <2> QED BY <2>2, <2>5, <2>6, <2>7, <2>8, <2>9 DEF Sheet!InLine
<1> QED BY <1>1, RsvpInvariant, PTL

=============================================================================
