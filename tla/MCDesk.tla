------------------------------- MODULE MCDesk -------------------------------
(* Days of six ticks of 25 minutes, so that an evening may end on the next
   day and amounts have to be rounded. *)
EXTENDS Desk, TLC

Evening(d, s, e, c, r, m, dl) ==
    [day |-> d, start |-> s, end |-> e, courts |-> c, rate |-> r, max |-> m,
     deadline |-> dl]

(* An evening, one over midnight, one around the clock; the deadline just
   before the start, the day before, before all time; and forms that are
   refused: no court, no place, a deadline at the start. *)
SmallForms ==
    {Evening(0, 3, 5, 2, 7, 1, 2), Evening(1, 3, 0, 1, 10, 2, 5),
     Evening(0, 4, 4, 2, 0, 2, 3), Evening(1, 1, 3, 1, 7, 2, -1),
     Evening(0, 2, 3, 0, 7, 1, 1), Evening(0, 2, 3, 1, 7, 0, 1),
     Evening(1, 0, 2, 1, 7, 1, 6)}

SmallDefaults(days, time) ==
    [start |-> 3, end |-> 5, courts |-> 2, max |-> 2, rate |-> 7,
     days |-> days, time |-> time]

DefaultDefaults == SmallDefaults(3, 2)
SmallSettings == {SmallDefaults(0, 3), SmallDefaults(-1, 5),
                  [SmallDefaults(1, 5) EXCEPT !.courts = 0]}

Interchangeable == Permutations(Requests)
=============================================================================
