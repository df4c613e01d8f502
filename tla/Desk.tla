-------------------------------- MODULE Desk --------------------------------
(***************************************************************************)
(* One session as the organizer's desk keeps and shows it: its details     *)
(* and court deadlines (internal/store/session.go), the forms that create  *)
(* and edit it (internal/web/handlers_sessions.go), the defaults they are  *)
(* filled with (internal/store/setting.go), and what is derived from them  *)
(* as time goes by: the status shown, whether signups are open and what    *)
(* everybody pays (internal/model/roster.go).                              *)
(*                                                                         *)
(*   details    the row of the session                                     *)
(*   status     its stored status                                          *)
(*   release    the courts that have a release deadline                    *)
(*   headcount  the bodies confirmed: module Rsvp says how they change     *)
(*   now        the clock, in ticks                                        *)
(*   settings   the defaults as stored                                     *)
(*   saves      the saves of the form that are under way, each with the    *)
(*              courts it still has to write deadlines for                 *)
(*   entered    what the last saved form had there, history                *)
(*   torn       since that save began another overlapped it or it failed,  *)
(*              history                                                    *)
(***************************************************************************)
EXTENDS Integers, FiniteSets

CONSTANTS
    Day,          \* ticks in a day
    TickMinutes,  \* minutes in a tick
    Forms,        \* bound: what the organizer types into the session form
    Settings,     \* bound: what the organizer types into the settings form
    Fallback,     \* DefaultDefaults
    Courts,       \* bound: courts there are
    Capacity,     \* bound: largest number of places entered
    HeadLimit,    \* bound: most bodies
    Horizon,      \* bound: the end of time
    Requests      \* saves under way at a time

Clock == 0 .. Day - 1
Form == [day : Nat, start : Clock, end : Clock, courts : Int, rate : Nat,
         max : Int, deadline : Int]
Defaults == [start : Clock, end : Clock, courts : Int, max : Int, rate : Nat,
             days : Int, time : Clock]

ASSUME DeskAssumption ==
    /\ Day \in Nat \ {0} /\ TickMinutes \in Nat \ {0}
    /\ Forms \subseteq {f \in Form : f.max <= Capacity}
    /\ Settings \subseteq Defaults
    /\ Fallback \in Defaults
    /\ Fallback.courts >= 1 /\ Fallback.max >= 1 /\ Fallback.days >= 1
    /\ Courts \in Nat /\ Capacity \in Nat \ {0}
    /\ HeadLimit \in Nat /\ Horizon \in Nat

VARIABLES details, status, release, headcount, now, settings, saves, entered, torn

history == <<entered, torn>>
vars == <<details, status, release, headcount, now, settings, saves, entered, torn>>

-----------------------------------------------------------------------------
(* What is derived from the row *)

StartAt(s) == s.day * Day + s.start

(* The next day if the end is not after the start. *)
EndAt(s) == s.day * Day + s.end + (IF s.end > s.start THEN 0 ELSE Day)

Minutes(s) == (EndAt(s) - StartAt(s)) * TickMinutes

(* Courts x rate x minutes / 60 to the nearest cent. *)
TotalCents(s) ==
    IF Minutes(s) <= 0 \/ s.courts <= 0 \/ s.rate <= 0 THEN 0
    ELSE (s.courts * s.rate * Minutes(s) + 30) \div 60

(* A variant that rounds down, and one that adds a cent a head. *)
PerPlayerCents_Down(s, heads) == IF heads = 0 THEN 0 ELSE TotalCents(s) \div heads

PerPlayerCents_Overcharge(s, heads) ==
    IF heads = 0 THEN 0 ELSE TotalCents(s) \div heads + heads

(* The share, rounded up to the cent; nobody, no share. *)
PerPlayerCents(s, heads) ==
    IF heads = 0 THEN 0 ELSE (TotalCents(s) + heads - 1) \div heads

SignupsOpen == status = "open" /\ now <= details.deadline /\ now < StartAt(details)

(* A variant that compares with the deadline the wrong way round. *)
DisplayStatus_Before ==
    CASE status = "cancelled" -> "Cancelled"
      [] status # "cancelled" /\ now > EndAt(details) -> "Completed"
      [] status = "draft" /\ now <= EndAt(details) -> "Draft"
      [] status = "closed" /\ now <= EndAt(details) -> "Closed"
      [] OTHER -> IF now < details.deadline THEN "Closed"
                  ELSE IF headcount >= details.max THEN "Full" ELSE "Open"

DisplayStatus ==
    CASE status = "cancelled" -> "Cancelled"
      [] status # "cancelled" /\ now > EndAt(details) -> "Completed"
      [] status = "draft" /\ now <= EndAt(details) -> "Draft"
      [] status = "closed" /\ now <= EndAt(details) -> "Closed"
      [] OTHER -> IF now > details.deadline THEN "Closed"
                  ELSE IF headcount >= details.max THEN "Full" ELSE "Open"

-----------------------------------------------------------------------------
(* Forms *)

(* A variant that takes a deadline at the start. *)
Accepted_ToTheStart(f) ==
    /\ f.courts >= 1 /\ f.max >= 1
    /\ Minutes(f) > 0
    /\ f.deadline <= StartAt(f)

(* parseSessionForm *)
Accepted(f) ==
    /\ f.courts >= 1 /\ f.max >= 1
    /\ Minutes(f) > 0
    /\ f.deadline < StartAt(f)

(* A variant that takes the days as they are stored. *)
Loaded_AsStored(d) == d

(* Store.Defaults: what cannot be is taken from DefaultDefaults. *)
Loaded(d) ==
    [d EXCEPT !.courts = IF d.courts > 0 THEN @ ELSE Fallback.courts,
              !.max    = IF d.max > 0 THEN @ ELSE Fallback.max,
              !.days   = IF d.days >= 0 THEN @ ELSE Fallback.days]

(* The new-session form as it is offered: a week from today with the defaults,
   or a week after this session and like it.  defaultDeadline counts back from
   that day in either case. *)
Prefilled(duplicate) ==
    LET d == Loaded(settings)
        day == 7 + (IF duplicate THEN details.day ELSE now \div Day)
        like == IF duplicate THEN details ELSE d
    IN  [day |-> day, start |-> like.start, end |-> like.end,
         courts |-> like.courts, rate |-> like.rate, max |-> like.max,
         deadline |-> (day - d.days) * Day + d.time]

-----------------------------------------------------------------------------
TypeOK ==
    /\ details \in Form /\ Accepted(details) /\ details.max <= Capacity
    /\ status \in {"draft", "open", "closed", "cancelled"}
    /\ release \subseteq 1 .. Courts
    /\ headcount \in 0 .. HeadLimit
    /\ now \in 0 .. Horizon
    /\ settings \in Defaults
    /\ saves \in [Requests -> [busy : BOOLEAN, courts : SUBSET (1 .. Courts)]]
    /\ entered \subseteq 1 .. Courts
    /\ torn \in BOOLEAN

Rest == [busy |-> FALSE, courts |-> {}]
Writing(C) == [busy |-> TRUE, courts |-> C]
UnderWay == {r \in Requests : saves[r].busy}

(* The courts of a form for which it has a deadline. *)
Entries(f) == SUBSET (1 .. (IF f.courts < Courts THEN f.courts ELSE Courts))

(* handleSessionCreate: the row, and if there are any the deadlines next. *)
Init ==
    /\ details \in {f \in Forms : Accepted(f)}
    /\ status \in {"draft", "open"}
    /\ release = {}
    /\ \E C \in Entries(details) :
          /\ entered = C
          /\ IF C = {} THEN saves = [r \in Requests |-> Rest]
             ELSE \E r \in Requests : saves = [x \in Requests |-> IF x = r THEN Writing(C)
                                                                  ELSE Rest]
    /\ headcount = 0
    /\ now \in 0 .. Horizon
    /\ settings = Fallback
    /\ torn = FALSE

(* A variant that opens the session it saves. *)
UpdateSession_Opens(r, f, C) ==
    /\ ~saves[r].busy /\ Accepted(f) /\ C \in Entries(f)
    /\ details' = f
    /\ status' = "open"
    /\ saves' = [saves EXCEPT ![r] = Writing(C)]
    /\ entered' = C
    /\ torn' = (UnderWay # {})
    /\ UNCHANGED <<release, headcount, now, settings>>

(* handleSessionUpdate saves the row whatever was there ... *)
UpdateSession(r, f, C) ==
    /\ ~saves[r].busy /\ Accepted(f) /\ C \in Entries(f)
    /\ details' = f
    /\ saves' = [saves EXCEPT ![r] = Writing(C)]
    /\ entered' = C
    /\ torn' = (UnderWay # {})
    /\ UNCHANGED <<status, release, headcount, now, settings>>

(* A variant that, as for a new session, writes nothing if there is none. *)
ReplaceCourtDeadlines_IfAny(r) ==
    /\ saves[r].busy
    /\ release' = IF saves[r].courts = {} THEN release ELSE saves[r].courts
    /\ saves' = [saves EXCEPT ![r] = Rest]
    /\ UNCHANGED <<details, status, headcount, now, settings, history>>

(* ... and then replaces the deadlines, in a transaction of its own. *)
ReplaceCourtDeadlines(r) ==
    /\ saves[r].busy
    /\ release' = saves[r].courts
    /\ saves' = [saves EXCEPT ![r] = Rest]
    /\ UNCHANGED <<details, status, headcount, now, settings, history>>

(* The request or the process dies between the two. *)
Lapse(r) ==
    /\ saves[r].busy
    /\ saves' = [saves EXCEPT ![r] = Rest]
    /\ torn' = TRUE
    /\ UNCHANGED <<details, status, release, headcount, now, settings, entered>>

(* A variant that takes any number of courts. *)
SetCourts_Any(n) ==
    /\ details' = [details EXCEPT !.courts = n]
    /\ UNCHANGED <<status, release, headcount, now, settings, saves, history>>

(* handleSetCourts: the deadlines stay. *)
SetCourts(n) ==
    /\ n >= 1
    /\ details' = [details EXCEPT !.courts = n]
    /\ UNCHANGED <<status, release, headcount, now, settings, saves, history>>

SetSessionStatus(new) ==
    /\ status' = new
    /\ UNCHANGED <<details, release, headcount, now, settings, saves, history>>

(* handleSettingsSave and SaveDefaults, one transaction. *)
SaveDefaults(d) ==
    /\ d.courts >= 1 /\ d.max >= 1
    /\ settings' = d
    /\ UNCHANGED <<details, status, release, headcount, now, saves, history>>

HeadcountMoves(n) ==
    /\ headcount' = n
    /\ UNCHANGED <<details, status, release, now, settings, saves, history>>

Tick ==
    /\ now < Horizon
    /\ now' = now + 1
    /\ UNCHANGED <<details, status, release, headcount, settings, saves, history>>

Next ==
    \/ \E r \in Requests :
          \/ \E f \in Forms, C \in SUBSET (1 .. Courts) : UpdateSession(r, f, C)
          \/ ReplaceCourtDeadlines(r) \/ Lapse(r)
    \/ \E n \in 0 .. Courts : SetCourts(n)
    \/ \E new \in {"draft", "open", "closed", "cancelled"} : SetSessionStatus(new)
    \/ \E d \in Settings : SaveDefaults(d)
    \/ \E n \in 0 .. HeadLimit : HeadcountMoves(n)
    \/ Tick

Spec == Init /\ [][Next]_vars

-----------------------------------------------------------------------------
(* The status shown and the test that lets signups in are computed apart, by
   DisplayStatus and SignupsOpen: a session is shown as open or full exactly
   while signups are taken.  The first looks at the deadline and the end, the
   second at the deadline and the start, so this rests on what forms accept
   and on the day an evening over midnight ends. *)
ShownAsOpen == DisplayStatus \in {"Open", "Full"} <=> SignupsOpen

(* Time alone only closes and completes a session, and it does so without any
   job: nothing that was shown as closed or over is open later on. *)
Stages == {<<"Open", "Closed">>, <<"Full", "Closed">>, <<"Open", "Completed">>,
           <<"Full", "Completed">>, <<"Closed", "Completed">>, <<"Draft", "Completed">>}
TimeOnlyCloses ==
    [][now' # now => \/ DisplayStatus' = DisplayStatus
                     \/ <<DisplayStatus, DisplayStatus'>> \in Stages]_vars

(* "The per-player amount is rounded up to the cent so the organizer is never
   short at the desk": the shares add up to the total, by less than a cent a
   head too much, and the total is within half a cent of the exact cost. *)
SharesCoverCost ==
    LET total == TotalCents(details)
        share == PerPlayerCents(details, headcount)
        exact == details.courts * details.rate * Minutes(details)
    IN  /\ headcount > 0 => /\ share * headcount >= total
                            /\ share * headcount < total + headcount
        /\ 60 * total <= exact + 30 /\ exact < 60 * total + 30

(* Nobody pays more because a court is given back or somebody joins. *)
ShareNeverRises ==
    [][LET fewer == details'.courts <= details.courts
           same == details' = [details EXCEPT !.courts = details'.courts]
       IN  headcount > 0 /\ headcount' >= headcount /\ fewer /\ same
           => PerPlayerCents(details', headcount') <= PerPlayerCents(details, headcount)]_vars

(* A save is the row and then the deadlines: they are of one form when none is
   under way, unless two overlapped or one failed in between. *)
SavedWhole == UnderWay = {} /\ ~torn => release = entered

(* The form that is offered for a new session would be accepted as it is,
   whatever was saved as defaults: only defaults that put the deadline on the
   day of the session may put it at or after the start. *)
PrefillAccepted ==
    \A duplicate \in BOOLEAN :
        LET f == Prefilled(duplicate)
        IN  Accepted(f) <=> settings.days # 0 \/ settings.time < f.start

(* What module Rsvp and those built on it know of a session is right: as far
   as status, places and lateness go, all this is steps of it. *)
Seen == INSTANCE Rsvp WITH
    Players <- {}, GuestLimit <- 0, LastPosition <- 0,
    Capacity <- Capacity,
    rsvp <- [p \in {} |-> 0], players <- {}, maxPlayers <- details.max,
    late <- now > details.deadline \/ now >= StartAt(details)

SessionAsInRsvp == Seen!Spec
=============================================================================
