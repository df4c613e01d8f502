---------------------------- MODULE DeskProofs ----------------------------
(* What module Desk says of one session and its forms, for every clock, every
   form and every number of courts, heads and requests. *)
EXTENDS Desk, TLAPS

-----------------------------------------------------------------------------
(* Arithmetic *)

(* The quotient of a division by a positive number. *)
LEMMA Quotient ==
    ASSUME NEW a \in Int, NEW b \in Nat \ {0}
    PROVE  /\ a \div b \in Int
           /\ (a \div b) * b <= a
           /\ a < (a \div b) * b + b
  BY SMT

(* Multiplying by what is not negative keeps the order. *)
LEMMA Products ==
    ASSUME NEW a \in Int, NEW b \in Int, NEW c \in Nat, a <= b
    PROVE  a * c <= b * c
  BY SMT

LEMMA ProductsAreNat ==
    ASSUME NEW a \in Nat, NEW b \in Nat
    PROVE  a * b \in Nat
  BY SMT

-----------------------------------------------------------------------------
(* Times and money of one form *)

(* An evening ends after it starts and within a day of it. *)
LEMMA EndsAfterStart ==
    ASSUME NEW f \in Form
    PROVE  /\ StartAt(f) \in Nat /\ EndAt(f) \in Nat
           /\ StartAt(f) < EndAt(f) /\ EndAt(f) <= StartAt(f) + Day
  <1>1. /\ f.day \in Nat /\ f.start \in Nat /\ f.end \in Nat
        /\ f.start < Day /\ f.end < Day /\ Day \in Nat \ {0}
    BY DeskAssumption DEF Form, Clock
  <1>2. f.day * Day \in Nat
    BY <1>1, ProductsAreNat
  <1>3. CASE f.end > f.start
    BY <1>1, <1>2, <1>3 DEF StartAt, EndAt
  <1>4. CASE ~(f.end > f.start)
    BY <1>1, <1>2, <1>4 DEF StartAt, EndAt
  <1> QED
    BY <1>3, <1>4

(* So the length of an evening is never refused. *)
LEMMA MinutesPositive ==
    ASSUME NEW f \in Form
    PROVE  Minutes(f) \in Nat /\ Minutes(f) > 0
  <1> DEFINE d == EndAt(f) - StartAt(f)
  <1>1. d \in Nat \ {0}
    BY EndsAfterStart
  <1>2. TickMinutes \in Nat \ {0}
    BY DeskAssumption
  <1>3. d * TickMinutes \in Nat
    BY <1>1, <1>2, ProductsAreNat
  <1>4. 1 * TickMinutes <= d * TickMinutes
    BY <1>1, <1>2, Products
  <1> QED
    BY <1>2, <1>3, <1>4 DEF Minutes

(* The exact cost of an accepted form in sixtieths of a cent. *)
LEMMA ExactCost ==
    ASSUME NEW f \in Form, f.courts >= 0
    PROVE  /\ f.courts \in Nat /\ f.rate \in Nat /\ Minutes(f) \in Nat
           /\ f.courts * f.rate * Minutes(f) \in Nat
  <1>1. f.courts \in Nat /\ f.rate \in Nat
    BY DEF Form
  <1>2. f.courts * f.rate \in Nat
    BY <1>1, ProductsAreNat
  <1> QED
    BY <1>1, <1>2, MinutesPositive, ProductsAreNat

(* The total is the exact cost to the nearest cent. *)
LEMMA TotalNearest ==
    ASSUME NEW f \in Form, f.courts >= 0
    PROVE  /\ TotalCents(f) \in Nat
           /\ 60 * TotalCents(f) <= f.courts * f.rate * Minutes(f) + 30
           /\ f.courts * f.rate * Minutes(f) < 60 * TotalCents(f) + 30
  <1> DEFINE x == f.courts * f.rate * Minutes(f)
  <1>1. /\ x \in Nat /\ f.courts \in Nat /\ f.rate \in Nat
        /\ Minutes(f) \in Nat /\ Minutes(f) > 0
    BY ExactCost, MinutesPositive
  <1>2. CASE f.courts <= 0 \/ f.rate <= 0
    <2>1. TotalCents(f) = 0
      BY <1>2 DEF TotalCents
    <2>2. f.courts * f.rate = 0
      BY <1>1, <1>2, SMT
    <2>3. x = 0
      BY <1>1, <2>2, SMT
    <2> QED
      BY <2>1, <2>3
  <1>3. CASE ~(f.courts <= 0 \/ f.rate <= 0)
    <2>1. TotalCents(f) = (x + 30) \div 60
      BY <1>1, <1>3 DEF TotalCents
    <2> HIDE DEF x
    <2>2. /\ (x + 30) \div 60 \in Int
          /\ ((x + 30) \div 60) * 60 <= x + 30
          /\ x + 30 < ((x + 30) \div 60) * 60 + 60
      BY <1>1, Quotient
    <2>3. (x + 30) \div 60 \in Nat
      BY <1>1, <2>2
    <2> QED
      BY <1>1, <2>1, <2>2, <2>3 DEF x
  <1> QED
    BY <1>2, <1>3

(* The share is the least amount that covers the total. *)
LEMMA ShareCovers ==
    ASSUME NEW f \in Form, f.courts >= 0, NEW h \in Nat \ {0}
    PROVE  /\ PerPlayerCents(f, h) \in Nat
           /\ TotalCents(f) <= PerPlayerCents(f, h) * h
           /\ PerPlayerCents(f, h) * h < TotalCents(f) + h
  <1> DEFINE t == TotalCents(f)
             q == (t + h - 1) \div h
  <1>1. t \in Nat
    BY TotalNearest
  <1>2. PerPlayerCents(f, h) = q
    BY DEF PerPlayerCents
  <1> HIDE DEF t
  <1>3. q \in Int /\ q * h <= t + h - 1 /\ t + h - 1 < q * h + h
    <2>1. t + h - 1 \in Int
      BY <1>1
    <2> QED
      BY <2>1, Quotient
  <1>4. t <= q * h /\ q * h < t + h
    <2> HIDE DEF q
    <2> q * h \in Int
      BY <1>3
    <2> QED
      BY <1>1, <1>3
  <1>5. q >= 0
    <2> SUFFICES ASSUME q < 0 PROVE FALSE
      BY <1>3
    <2> HIDE DEF q
    <2>1. q + 1 <= 0 /\ q + 1 \in Int
      BY <1>3
    <2>2. (q + 1) * h <= 0 * h
      BY <2>1, Products
    <2>3. (q + 1) * h = q * h + h
      BY <1>3, SMT
    <2> QED
      BY <1>1, <1>3, <2>2, <2>3
  <1> QED
    BY <1>2, <1>3, <1>4, <1>5 DEF t

(* What covers a total with some heads covers it with more, and a smaller
   one: it is at least the share. *)
LEMMA ShareIsLeast ==
    ASSUME NEW f \in Form, f.courts >= 0, NEW h \in Nat \ {0}, NEW p \in Nat,
           TotalCents(f) <= p * h
    PROVE  PerPlayerCents(f, h) <= p
  <1> DEFINE q == PerPlayerCents(f, h)
  <1>1. q \in Nat /\ q * h < TotalCents(f) + h /\ TotalCents(f) \in Nat
    BY ShareCovers, TotalNearest
  <1> SUFFICES ASSUME p + 1 <= q PROVE FALSE
    BY <1>1
  <1> HIDE DEF q
  <1>2. (p + 1) * h <= q * h
    BY <1>1, Products
  <1>3. (p + 1) * h = p * h + h
    BY SMT
  <1> QED
    BY <1>1, <1>2, <1>3

(* Fewer courts at the same rate and times cost no more. *)
LEMMA FewerCourtsCostLess ==
    ASSUME NEW f \in Form, NEW g \in Form, f.courts >= 0, g.courts >= 0,
           g = [f EXCEPT !.courts = g.courts], g.courts <= f.courts
    PROVE  TotalCents(g) <= TotalCents(f)
  <1>1. /\ g.rate = f.rate /\ g.start = f.start /\ g.end = f.end /\ g.day = f.day
    BY DEF Form
  <1>2. Minutes(g) = Minutes(f)
    BY <1>1 DEF Minutes, StartAt, EndAt
  <1> DEFINE x == f.courts * f.rate * Minutes(f)
             y == g.courts * f.rate * Minutes(f)
  <1>3. /\ x \in Nat /\ y \in Nat
        /\ f.courts \in Nat /\ g.courts \in Nat /\ f.rate \in Nat /\ Minutes(f) \in Nat
    BY <1>1, <1>2, ExactCost
  <1>4. y <= x
    <2>1. g.courts * f.rate <= f.courts * f.rate
      BY <1>3, Products
    <2>2. g.courts * f.rate \in Int /\ f.courts * f.rate \in Int
      BY <1>3
    <2> QED
      BY <1>3, <2>1, <2>2, Products
  <1>5. /\ TotalCents(f) \in Nat /\ TotalCents(g) \in Nat
        /\ x < 60 * TotalCents(f) + 30 /\ 60 * TotalCents(g) <= y + 30
    BY <1>1, <1>2, TotalNearest
  <1> HIDE DEF x, y
  <1> QED
    BY <1>3, <1>4, <1>5

-----------------------------------------------------------------------------
(* The invariant *)

(* Unless it was torn, either the last save is complete or it is the only one
   under way and still has to write what was entered. *)
Whole ==
    ~torn => \/ UnderWay = {} /\ release = entered
             \/ \E r \in Requests : UnderWay = {r} /\ saves[r].courts = entered

IInv == TypeOK /\ Whole

Save == [busy : BOOLEAN, courts : SUBSET (1 .. Courts)]

(* The deadlines of a form are deadlines of courts there are. *)
LEMMA EntriesAreCourts ==
    ASSUME NEW f \in Form, NEW C \in Entries(f)
    PROVE  C \subseteq 1 .. Courts
  BY DeskAssumption DEF Form, Entries

LEMMA InitInvariant == Init => IInv
  <1> SUFFICES ASSUME Init PROVE IInv
    OBVIOUS
  <1>1. /\ details \in Form /\ Accepted(details) /\ details.max <= Capacity
    BY DeskAssumption DEF Init
  <1>2. PICK C \in Entries(details) :
          /\ entered = C
          /\ IF C = {} THEN saves = [r \in Requests |-> Rest]
             ELSE \E r \in Requests : saves = [x \in Requests |-> IF x = r THEN Writing(C)
                                                                  ELSE Rest]
    BY DEF Init
  <1>3. C \subseteq 1 .. Courts
    BY <1>1, EntriesAreCourts
  <1>4. Rest \in Save /\ Writing(C) \in Save
    BY <1>3 DEF Rest, Writing, Save
  <1>5. ASSUME saves \in [Requests -> Save] PROVE TypeOK
    <2>1. /\ status \in {"draft", "open"} /\ release = {} /\ headcount = 0
          /\ now \in 0 .. Horizon /\ settings = Fallback /\ torn = FALSE
      BY DEF Init
    <2>2. entered \subseteq 1 .. Courts
      BY <1>2, <1>3
    <2>3. saves \in [Requests -> [busy : BOOLEAN, courts : SUBSET (1 .. Courts)]]
      BY <1>5 DEF Save
    <2>4. headcount \in 0 .. HeadLimit /\ settings \in Defaults /\ release \subseteq 1 .. Courts
      BY <2>1, DeskAssumption
    <2> QED
      BY <1>1, <2>1, <2>2, <2>3, <2>4 DEF TypeOK
  <1>6. CASE C = {}
    <2>1. saves = [r \in Requests |-> Rest]
      BY <1>2, <1>6
    <2>2. UnderWay = {}
      BY <2>1 DEF UnderWay, Rest
    <2>3. saves \in [Requests -> Save]
      BY <1>4, <2>1
    <2>4. TypeOK
      BY <1>5, <2>3
    <2>5. release = {} /\ entered = C
      BY <1>2 DEF Init
    <2>6. Whole
      BY <1>6, <2>2, <2>5 DEF Whole
    <2> QED
      BY <2>4, <2>6 DEF IInv
  <1>7. CASE C # {}
    <2>1. PICK r \in Requests :
            saves = [x \in Requests |-> IF x = r THEN Writing(C) ELSE Rest]
      BY <1>2, <1>7
    <2>2. UnderWay = {r} /\ saves[r].courts = C
      BY <2>1 DEF UnderWay, Rest, Writing
    <2>3. saves \in [Requests -> Save]
      BY <1>4, <2>1
    <2>4. TypeOK
      BY <1>5, <2>3
    <2>5. Whole
      BY <1>2, <2>2 DEF Whole
    <2> QED
      BY <2>4, <2>5 DEF IInv
  <1> QED
    BY <1>6, <1>7

(* Steps that leave the saves and the deadlines alone keep Whole. *)
LEMMA WholeKept ==
    ASSUME Whole, UNCHANGED <<saves, release, history>>
    PROVE  Whole'
  BY DEF Whole, UnderWay, history

(* Ending a save. *)
LEMMA SaveEnds ==
    ASSUME TypeOK, NEW r \in Requests, saves[r].busy,
           saves' = [saves EXCEPT ![r] = Rest]
    PROVE  saves' \in [Requests -> Save] /\ UnderWay' = UnderWay \ {r}
  <1>1. saves \in [Requests -> Save] /\ Rest \in Save
    BY DEF TypeOK, Rest, Save
  <1> QED
    BY <1>1 DEF UnderWay, Rest

LEMMA UpdateKeepsInvariant ==
    ASSUME IInv, NEW r \in Requests, NEW f \in Forms, NEW C \in SUBSET (1 .. Courts),
           UpdateSession(r, f, C)
    PROVE  IInv'
  <1>1. saves \in [Requests -> Save] /\ Writing(C) \in Save
    BY DEF IInv, TypeOK, Writing, Save
  <1>2. saves' \in [Requests -> Save]
    BY <1>1 DEF UpdateSession
  <1>3. details' \in Form /\ Accepted(details') /\ details'.max <= Capacity
    BY DeskAssumption DEF UpdateSession
  <1>4. TypeOK'
    BY <1>2, <1>3 DEF IInv, TypeOK, UpdateSession, Save
  <1>5. Whole'
    <2> SUFFICES ASSUME ~torn' PROVE UnderWay' = {r} /\ saves'[r].courts = entered'
      BY DEF Whole
    <2>1. UnderWay = {}
      BY DEF UpdateSession
    <2> QED
      BY <1>1, <2>1 DEF UpdateSession, UnderWay, Writing
  <1> QED
    BY <1>4, <1>5 DEF IInv

LEMMA ReplaceKeepsInvariant ==
    ASSUME IInv, NEW r \in Requests, ReplaceCourtDeadlines(r)
    PROVE  IInv'
  <1>1. saves' \in [Requests -> Save] /\ UnderWay' = UnderWay \ {r} /\ r \in UnderWay
    BY SaveEnds DEF IInv, ReplaceCourtDeadlines, UnderWay
  <1>2. saves[r].courts \subseteq 1 .. Courts
    BY DEF IInv, TypeOK
  <1>3. TypeOK'
    BY <1>1, <1>2 DEF IInv, TypeOK, ReplaceCourtDeadlines, history, Save
  <1>4. Whole'
    <2> SUFFICES ASSUME ~torn' PROVE UnderWay' = {} /\ release' = entered'
      BY DEF Whole
    <2>1. PICK x \in Requests : UnderWay = {x} /\ saves[x].courts = entered
      BY <1>1 DEF IInv, Whole, ReplaceCourtDeadlines, history
    <2>2. x = r
      BY <1>1, <2>1
    <2> QED
      BY <1>1, <2>1, <2>2 DEF ReplaceCourtDeadlines, history
  <1> QED
    BY <1>3, <1>4 DEF IInv

LEMMA LapseKeepsInvariant ==
    ASSUME IInv, NEW r \in Requests, Lapse(r)
    PROVE  IInv'
  <1>1. saves' \in [Requests -> Save]
    BY SaveEnds DEF IInv, Lapse
  <1> QED
    BY <1>1 DEF IInv, TypeOK, Whole, Lapse, Save

LEMMA NextKeepsInvariant == IInv /\ [Next]_vars => IInv'
  <1> SUFFICES ASSUME IInv, [Next]_vars PROVE IInv'
    OBVIOUS
  <1> USE DEF IInv
  <1>1. ASSUME NEW r \in Requests, NEW f \in Forms, NEW C \in SUBSET (1 .. Courts),
               UpdateSession(r, f, C)
        PROVE  IInv'
    BY <1>1, UpdateKeepsInvariant
  <1>2. ASSUME NEW r \in Requests, ReplaceCourtDeadlines(r) PROVE IInv'
    BY <1>2, ReplaceKeepsInvariant
  <1>3. ASSUME NEW r \in Requests, Lapse(r) PROVE IInv'
    BY <1>3, LapseKeepsInvariant
  <1>4. ASSUME NEW n \in 0 .. Courts, SetCourts(n) PROVE IInv'
    <2>1. Whole'
      BY <1>4, WholeKept DEF SetCourts
    <2>2. /\ details' \in Form /\ details'.courts = n /\ n >= 1
          /\ details'.max = details.max /\ details'.deadline = details.deadline
          /\ details'.start = details.start /\ details'.end = details.end
          /\ details'.day = details.day
      BY <1>4, DeskAssumption DEF SetCourts, TypeOK, Form
    <2>3. Accepted(details') /\ details'.max <= Capacity
      BY <2>2 DEF TypeOK, Accepted, Minutes, StartAt, EndAt
    <2> QED
      BY <1>4, <2>1, <2>2, <2>3 DEF TypeOK, SetCourts, history
  <1>5. ASSUME NEW new \in {"draft", "open", "closed", "cancelled"}, SetSessionStatus(new)
        PROVE  IInv'
    BY <1>5, WholeKept DEF TypeOK, SetSessionStatus, history
  <1>6. ASSUME NEW d \in Settings, SaveDefaults(d) PROVE IInv'
    BY <1>6, WholeKept, DeskAssumption
    DEF TypeOK, SaveDefaults, history
  <1>7. ASSUME NEW n \in 0 .. HeadLimit, HeadcountMoves(n) PROVE IInv'
    BY <1>7, WholeKept DEF TypeOK, HeadcountMoves, history
  <1>8. ASSUME Tick PROVE IInv'
    BY <1>8, WholeKept, DeskAssumption
    DEF TypeOK, Tick, history
  <1>9. ASSUME UNCHANGED vars PROVE IInv'
    BY <1>9, WholeKept DEF TypeOK, vars, history
  <1> QED
    BY <1>1, <1>2, <1>3, <1>4, <1>5, <1>6, <1>7, <1>8, <1>9 DEF Next

THEOREM DeskAlways == Spec => []IInv
  BY InitInvariant, NextKeepsInvariant, PTL DEF Spec

(* Every session the desk shows is one the form would accept, whatever is
   saved, closed, given back or left half done. *)
THEOREM DeskTypeCorrect == Spec => []TypeOK
  BY DeskAlways, PTL DEF IInv

(* A save that is neither interrupted nor overlapped ends with the row and
   the court deadlines of one form. *)
THEOREM SavesAreWhole == Spec => []SavedWhole
  <1>1. IInv => SavedWhole
    BY DEF IInv, Whole, SavedWhole
  <1> QED
    BY <1>1, DeskAlways, PTL

-----------------------------------------------------------------------------
(* The status shown *)

(* What the comparisons of DisplayStatus and SignupsOpen compare. *)
LEMMA Times ==
    ASSUME TypeOK
    PROVE  /\ now \in Nat /\ headcount \in Nat /\ details.max \in Int
           /\ details.deadline \in Int /\ StartAt(details) \in Nat /\ EndAt(details) \in Nat
           /\ details.deadline < StartAt(details) /\ StartAt(details) < EndAt(details)
           /\ status \in {"draft", "open", "closed", "cancelled"}
  BY DeskAssumption, EndsAfterStart DEF TypeOK, Form, Accepted

LEMMA ShownFacts == TypeOK => ShownAsOpen
  <1> SUFFICES ASSUME TypeOK PROVE ShownAsOpen
    OBVIOUS
  <1> QED
    BY Times DEF ShownAsOpen, DisplayStatus, SignupsOpen

(* The page offers to sign up exactly while the store accepts it. *)
THEOREM ShownRight == Spec => []ShownAsOpen
  BY ShownFacts, DeskTypeCorrect, PTL

LEMMA TimeStep ==
    ASSUME TypeOK, Next, now' # now
    PROVE  \/ DisplayStatus' = DisplayStatus
           \/ <<DisplayStatus, DisplayStatus'>> \in Stages
  <1>1. Tick
    BY DEF Next, UpdateSession, ReplaceCourtDeadlines, Lapse, SetCourts, SetSessionStatus,
           SaveDefaults, HeadcountMoves
  <1>2. now' = now + 1 /\ UNCHANGED <<details, status, headcount>>
    BY <1>1 DEF Tick
  <1> DEFINE e == EndAt(details)
  <1>3. EndAt(details)' = EndAt(details)
    BY <1>2 DEF EndAt
  <1>4. /\ now \in Nat /\ headcount \in Nat /\ details.max \in Int
        /\ details.deadline \in Int /\ EndAt(details) \in Nat
        /\ status \in {"draft", "open", "closed", "cancelled"}
    BY Times
  <1>5. CASE status = "open"
    BY <1>2, <1>3, <1>4, <1>5 DEF DisplayStatus, Stages
  <1>6. CASE status # "open"
    BY <1>2, <1>3, <1>4, <1>6 DEF DisplayStatus, Stages
  <1> QED
    BY <1>5, <1>6

(* Nothing opens again by waiting: not at the deadline, not at midnight. *)
THEOREM OnlyClosing == Spec => TimeOnlyCloses
  <1>1. TypeOK /\ [Next]_vars =>
          [now' # now => \/ DisplayStatus' = DisplayStatus
                         \/ <<DisplayStatus, DisplayStatus'>> \in Stages]_vars
    BY TimeStep
  <1> QED
    BY <1>1, DeskTypeCorrect, PTL DEF Spec, TimeOnlyCloses

-----------------------------------------------------------------------------
(* What everybody pays *)

LEMMA SharesFacts == TypeOK => SharesCoverCost
  <1> SUFFICES ASSUME TypeOK PROVE SharesCoverCost
    OBVIOUS
  <1>1. details \in Form /\ details.courts >= 0 /\ headcount \in Nat
    BY DeskAssumption DEF TypeOK, Accepted, Form
  <1>2. headcount > 0 =>
          /\ PerPlayerCents(details, headcount) * headcount >= TotalCents(details)
          /\ PerPlayerCents(details, headcount) * headcount < TotalCents(details) + headcount
    <2> SUFFICES ASSUME headcount > 0
                 PROVE  /\ TotalCents(details) <= PerPlayerCents(details, headcount) * headcount
                        /\ PerPlayerCents(details, headcount) * headcount
                              < TotalCents(details) + headcount
                        /\ TotalCents(details) \in Int
                        /\ PerPlayerCents(details, headcount) * headcount \in Int
      OBVIOUS
    <2>1. headcount \in Nat \ {0}
      BY <1>1
    <2>2. PerPlayerCents(details, headcount) \in Nat /\ TotalCents(details) \in Nat
      BY <1>1, <2>1, ShareCovers, TotalNearest
    <2>3. PerPlayerCents(details, headcount) * headcount \in Nat
      BY <2>1, <2>2, ProductsAreNat
    <2> QED
      BY <1>1, <2>1, <2>2, <2>3, ShareCovers
  <1>3. /\ 60 * TotalCents(details) <= details.courts * details.rate * Minutes(details) + 30
        /\ details.courts * details.rate * Minutes(details) < 60 * TotalCents(details) + 30
    BY <1>1, TotalNearest
  <1> QED
    BY <1>2, <1>3 DEF SharesCoverCost

(* The organizer is never short, and by less than a cent a head over. *)
THEOREM CostCovered == Spec => []SharesCoverCost
  BY SharesFacts, DeskTypeCorrect, PTL

(* Nobody's share rises when a court is given back or somebody joins. *)
THEOREM GivingBackHelps == Spec => ShareNeverRises
  <1> DEFINE Rises ==
        LET fewer == details'.courts <= details.courts
            same == details' = [details EXCEPT !.courts = details'.courts]
        IN  headcount > 0 /\ headcount' >= headcount /\ fewer /\ same
            => PerPlayerCents(details', headcount') <= PerPlayerCents(details, headcount)
  <1>1. TypeOK /\ TypeOK' => Rises
    <2> SUFFICES ASSUME TypeOK, TypeOK', headcount > 0, headcount' >= headcount,
                        details'.courts <= details.courts,
                        details' = [details EXCEPT !.courts = details'.courts]
                 PROVE  PerPlayerCents(details', headcount') <= PerPlayerCents(details, headcount)
      OBVIOUS
    <2>1. /\ details \in Form /\ details' \in Form
          /\ details.courts >= 0 /\ details'.courts >= 0
          /\ headcount \in Nat \ {0} /\ headcount' \in Nat \ {0}
      BY DeskAssumption DEF TypeOK, Accepted, Form
    <2> DEFINE p == PerPlayerCents(details, headcount)
               t == TotalCents(details)
               u == TotalCents(details')
    <2>2. p \in Nat /\ t <= p * headcount /\ t \in Nat /\ u \in Nat
      BY <2>1, ShareCovers, TotalNearest
    <2>3. u <= t
      BY <2>1, FewerCourtsCostLess
    <2> HIDE DEF p, t, u
    <2>4. p * headcount <= p * headcount'
      BY <2>1, <2>2, SMT
    <2>5. p * headcount \in Nat /\ p * headcount' \in Nat
      BY <2>1, <2>2, ProductsAreNat
    <2>6. u <= p * headcount'
      BY <2>2, <2>3, <2>4, <2>5
    <2>7. PerPlayerCents(details', headcount') <= p
      BY <2>1, <2>2, <2>6, ShareIsLeast DEF u
    <2> QED
      BY <2>7 DEF p
  <1> QED
    BY <1>1, DeskTypeCorrect, PTL DEF Spec, ShareNeverRises

-----------------------------------------------------------------------------
(* The form that is offered *)

(* A deadline some days before is before the start. *)
LEMMA DaysBefore ==
    ASSUME NEW day \in Int, NEW days \in Nat, NEW time \in Clock, NEW start \in Clock
    PROVE  (day - days) * Day + time < day * Day + start <=> days > 0 \/ time < start
  <1>1. Day \in Nat \ {0} /\ time \in Nat /\ start \in Nat /\ time < Day /\ start < Day
    BY DeskAssumption DEF Clock
  <1>2. (day - days) * Day = day * Day - days * Day
    BY <1>1, SMT
  <1>3. days * Day \in Nat /\ day * Day \in Int
    BY <1>1, ProductsAreNat
  <1>4. CASE days = 0
    BY <1>1, <1>2, <1>3, <1>4
  <1>5. CASE days > 0
    <2>1. 1 * Day <= days * Day
      BY <1>1, <1>5, Products
    <2> QED
      BY <1>1, <1>2, <1>3, <1>5, <2>1
  <1> QED
    BY <1>4, <1>5

(* What Store.Defaults returns can be used. *)
LEMMA LoadedUsable ==
    ASSUME TypeOK
    PROVE  LET d == Loaded(settings)
           IN  /\ d \in Defaults /\ d.courts >= 1 /\ d.max >= 1 /\ d.days \in Nat
               /\ d.days > 0 <=> settings.days # 0
               /\ d.time = settings.time
  <1> DEFINE d == Loaded(settings)
  <1>1. settings \in Defaults /\ Fallback \in Defaults
    BY DeskAssumption DEF TypeOK
  <1>2. /\ d.start = settings.start /\ d.end = settings.end
        /\ d.rate = settings.rate /\ d.time = settings.time
        /\ d.courts = (IF settings.courts > 0 THEN settings.courts ELSE Fallback.courts)
        /\ d.max = (IF settings.max > 0 THEN settings.max ELSE Fallback.max)
        /\ d.days = (IF settings.days >= 0 THEN settings.days ELSE Fallback.days)
    BY <1>1 DEF Loaded, Defaults
  <1>3. d \in Defaults
    BY <1>1 DEF Loaded, Defaults
  <1>4. d.courts >= 1 /\ d.max >= 1
    BY <1>1, <1>2, DeskAssumption DEF Defaults
  <1>5. settings.days \in Int /\ Fallback.days \in Int /\ Fallback.days >= 1
    BY <1>1, DeskAssumption DEF Defaults
  <1>6. d.days \in Nat /\ (d.days > 0 <=> settings.days # 0)
    BY <1>2, <1>5
  <1> QED
    BY <1>2, <1>3, <1>4, <1>6

LEMMA PrefillFacts == TypeOK => PrefillAccepted
  <1> SUFFICES ASSUME TypeOK, NEW duplicate \in BOOLEAN
               PROVE  LET f == Prefilled(duplicate)
                      IN  Accepted(f) <=> settings.days # 0 \/ settings.time < f.start
    BY DEF PrefillAccepted
  <1> DEFINE d == Loaded(settings)
             like == IF duplicate THEN details ELSE d
             day == 7 + (IF duplicate THEN details.day ELSE now \div Day)
             f == Prefilled(duplicate)
  <1>1. /\ d \in Defaults /\ d.courts >= 1 /\ d.max >= 1 /\ d.days \in Nat
        /\ d.days > 0 <=> settings.days # 0
        /\ d.time = settings.time
    BY LoadedUsable
  <1>2. day \in Nat
    <2>1. now \in Nat /\ Day \in Nat \ {0} /\ details.day \in Nat
      BY DeskAssumption DEF TypeOK, Form
    <2>2. now \div Day \in Nat
      BY <2>1, SMT
    <2> QED
      BY <2>1, <2>2
  <1>3. /\ like.start \in Clock /\ like.end \in Clock /\ like.courts \in Int /\ like.rate \in Nat
        /\ like.max \in Int /\ like.courts >= 1 /\ like.max >= 1
    BY <1>1 DEF TypeOK, Form, Defaults, Accepted
  <1>4. f = [day |-> day, start |-> like.start, end |-> like.end,
             courts |-> like.courts, rate |-> like.rate, max |-> like.max,
             deadline |-> (day - d.days) * Day + d.time]
    BY DEF Prefilled
  <1>5. d.time \in Clock /\ d.time \in Int /\ Day \in Int
    <2>1. d.time \in Clock
      BY <1>1 DEF Defaults
    <2> QED
      BY <2>1, DeskAssumption DEF Clock
  <1> HIDE DEF d, day, like, f
  <1>6. (day - d.days) * Day + d.time \in Int
    <2>1. day - d.days \in Int /\ d.time \in Int
      BY <1>1, <1>2, <1>5
    <2>2. (day - d.days) * Day \in Int
      BY <1>5, <2>1, SMT
    <2> QED
      BY <2>1, <2>2
  <1>7. f \in Form
    BY <1>2, <1>3, <1>4, <1>6 DEF Form
  <1>8. Accepted(f) <=> f.deadline < StartAt(f)
    BY <1>3, <1>4, <1>7, MinutesPositive DEF Accepted
  <1>9. f.deadline = (day - d.days) * Day + d.time /\ StartAt(f) = day * Day + f.start
    BY <1>4 DEF StartAt
  <1>10. f.start \in Clock
    BY <1>3, <1>4
  <1>11. f.deadline < StartAt(f) <=> d.days > 0 \/ d.time < f.start
    <2> DEFINE n == d.days
               time == d.time
               start == f.start
    <2> HIDE DEF n, time, start
    <2>1. (day - n) * Day + time < day * Day + start <=> n > 0 \/ time < start
      <3>1. day \in Int /\ n \in Nat /\ time \in Clock /\ start \in Clock
        BY <1>1, <1>2, <1>5, <1>10 DEF n, time, start
      <3> QED
        BY <3>1, DaysBefore
    <2> QED
      BY <1>9, <2>1 DEF n, time, start
  <1> QED
    BY <1>1, <1>8, <1>11 DEF f

(* The form prefilled with any saved defaults, or duplicated from any session,
   is refused for one reason only. *)
THEOREM PrefillWorks == Spec => []PrefillAccepted
  BY PrefillFacts, DeskTypeCorrect, PTL

-----------------------------------------------------------------------------
(* The session of module Rsvp *)

LEMMA SeenInit == Init /\ TypeOK => Seen!Init
  BY DeskAssumption DEF Init, TypeOK, Form, Accepted, Seen!Init, Seen!NoRow

LEMMA SeenNext == TypeOK /\ TypeOK' /\ [Next]_vars => [Seen!Next]_(Seen!vars)
  <1> DEFINE late == now > details.deadline \/ now >= StartAt(details)
             rows == [p \in {} |-> 0]
  <1> SUFFICES ASSUME TypeOK, TypeOK', [Next]_vars
               PROVE  Seen!Next \/ UNCHANGED Seen!vars
    OBVIOUS
  <1>1. late \in BOOLEAN /\ late' \in BOOLEAN
    OBVIOUS
  <1>2. ASSUME UNCHANGED status PROVE Seen!Next \/ UNCHANGED Seen!vars
    <2>1. details'.max \in 1 .. Capacity
      BY DeskAssumption DEF TypeOK, Form, Accepted
    <2>2. Seen!UpdateSession(details'.max, late')
      BY <1>2 DEF Seen!UpdateSession
    <2> QED
      BY <1>1, <2>1, <2>2 DEF Seen!Next, Seen!OrganizerStep
  <1>3. ASSUME NEW new \in {"draft", "open", "closed", "cancelled"}, SetSessionStatus(new)
        PROVE  Seen!Next
    <2>1. UNCHANGED <<details, now>> /\ StartAt(details)' = StartAt(details)
      BY <1>3 DEF SetSessionStatus, StartAt
    <2>2. Seen!SetSessionStatus(new)
      BY <1>3, <2>1 DEF SetSessionStatus, Seen!SetSessionStatus
    <2> QED
      BY <2>2 DEF Seen!Next, Seen!OrganizerStep, Seen!SessionStatus
  <1> QED
    BY <1>2, <1>3 DEF Next, vars, UpdateSession, ReplaceCourtDeadlines, Lapse, SetCourts,
                      SaveDefaults, HeadcountMoves, Tick

(* A session changes only as module Rsvp lets it: what is proved there of
   signing up holds however the organizer edits the session and time goes. *)
THEOREM SessionRefines == Spec => SessionAsInRsvp
  <1>1. Init => TypeOK
    BY InitInvariant DEF IInv
  <1> QED
    BY <1>1, SeenInit, SeenNext, DeskTypeCorrect, PTL DEF Spec, SessionAsInRsvp, Seen!Spec
=============================================================================
