------------------------------ MODULE Requests ------------------------------
(***************************************************************************)
(* HTTP requests about one person's RSVP: the participant's own (internal/ *)
(* web/handlers_participant.go) and the organizer's (handlePromote,        *)
(* handleAddParticipant, handleRemoveParticipant).  Each handler makes     *)
(* several store calls, and only each call is atomic: it reads the entry,  *)
(* runs one transaction of Rsvp, queues the mail that tells the person the *)
(* outcome and queues a notice to the organizer.  Requests interleave      *)
(* between the calls, and one can end between any two of them: the client  *)
(* went away (which cancels its context), a call failed, the process died. *)
(*                                                                         *)
(*   req        the request each handler goroutine is in the middle of     *)
(*   lastWord   what the last outcome mail queued for each person says     *)
(*   ledger     confirmed spots each person holds by the organizer's       *)
(*              account: the changes in the notices and the organizer's    *)
(*              own actions added up                                       *)
(*   muddled    people two of whose requests overlapped, whose request     *)
(*              ended early, or of whom the public page gave the wrong     *)
(*              notice: nothing is claimed of their mails and notices      *)
(*                                                                         *)
(* The last three are history: the program keeps none of them.             *)
(***************************************************************************)
EXTENDS Rsvp

CONSTANTS
    Requests,     \* handler goroutines at work at the same time
    Statuses,     \* bound: the session statuses the organizer picks meanwhile
    MuddledLimit  \* bound: people of whom nothing is claimed any more

ASSUME RequestsAssumption ==
    /\ Statuses \subseteq SessionStatus
    /\ MuddledLimit \in Nat

VARIABLES req, lastWord, ledger, muddled

history == <<lastWord, ledger, muddled>>
requestVars == <<vars, req, history>>

Kinds == {"signup", "public", "guest", "cancel", "add", "promote"}
Spots == 0 .. 1 + GuestLimit

Local == [kind   : Kinds \cup {"none"},
          at     : {"idle", "loaded", "written", "mailed"},
          who    : SUBSET Players,
          before : Spots,
          after  : Spots,
          word   : RsvpStatus \cup {"none"}]

Idle == [kind |-> "none", at |-> "idle", who |-> {}, before |-> 0,
         after |-> 0, word |-> "none"]

RequestsTypeOK ==
    /\ TypeOK
    /\ req \in [Requests -> Local]
    /\ lastWord \in [Players -> {"none", "confirmed", "waitlist"}]
    /\ ledger \in [Players -> Int]
    /\ muddled \subseteq Players

RequestsInit ==
    /\ Init
    /\ req = [r \in Requests |-> Idle]
    /\ lastWord = [p \in Players |-> "none"]
    /\ ledger = [p \in Players |-> 0]
    /\ muddled = {}

(* Variants: the waitlisted hold spots too; guests are counted twice. *)
Held_AnyStatus(e) == IF e.status = "none" THEN 0 ELSE PartySize(e)
Held_GuestsTwice(e) ==
    IF e.status = "confirmed" THEN PartySize(e) + e.guests ELSE 0

(* heldSpots: the confirmed capacity an entry occupies. *)
Held(e) == IF e.status = "confirmed" THEN PartySize(e) ELSE 0

Busy(p) == \E r \in Requests : p \in req[r].who

(* The history after a step, with nothing kept of the muddled. *)
Remember(m, words, account) ==
    /\ Cardinality(m) <= MuddledLimit
    /\ muddled' = m
    /\ lastWord' = [p \in Players |-> IF p \in m THEN "none" ELSE words[p]]
    /\ ledger' = [p \in Players |-> IF p \in m THEN 0 ELSE account[p]]

(* Something happens to p's RSVP, perhaps with a request about p under way. *)
Overlapping(p) == IF Busy(p) THEN muddled \cup {p} ELSE muddled

Finish(r) == req' = [req EXCEPT ![r] = Idle]
OnToNotice(r) == req' = [req EXCEPT ![r].at = "mailed", ![r].word = "none"]

-----------------------------------------------------------------------------
(* The first store call of each handler *)

(* rsvpFromToken: the handler goes on with the entry as it is now. *)
Load(r, p, kind) ==
    /\ req[r].at = "idle" /\ kind \in {"signup", "guest", "cancel"}
    /\ HasRow(p)
    /\ req' = [req EXCEPT ![r] = [Idle EXCEPT
                  !.kind = kind, !.at = "loaded", !.who = {p},
                  !.before = Held(rsvp[p]), !.word = rsvp[p].status]]
    /\ Remember(Overlapping(p), lastWord, ledger)
    /\ UNCHANGED vars

(* EnsureEntry, for the public page and for AddParticipant.  Neither handler
   looks at the entry it gets for what p held before. *)
Arrive(r, p, kind) ==
    /\ req[r].at = "idle" /\ kind \in {"public", "add"}
    /\ p \in players
    /\ EnsureEntry(p) \/ (HasRow(p) /\ UNCHANGED vars)
    /\ req' = [req EXCEPT ![r] = [Idle EXCEPT
                  !.kind = kind, !.at = "loaded", !.who = {p}]]
    /\ Remember(Overlapping(p), lastWord, ledger)

-----------------------------------------------------------------------------
(* The transaction *)

Enforced(r) == req[r].kind \in {"signup", "public"}

CommitSignup(r, p, g) ==
    /\ req[r].at = "loaded" /\ req[r].kind \in {"signup", "public", "add"}
    /\ req[r].who = {p}
    /\ Signup(p, g, Enforced(r))
    /\ req' = [req EXCEPT ![r].at = "written", ![r].word = rsvp'[p].status,
                          ![r].after = IF Enforced(r) THEN Held(rsvp'[p]) ELSE 0]
    /\ IF req[r].kind = "add"
       THEN Remember(muddled, lastWord, [ledger EXCEPT ![p] = Held(rsvp'[p])])
       ELSE UNCHANGED history

(* A variant that writes back the entry it was loaded with. *)
CommitGuests_WritesBack(r, p, g) ==
    /\ req[r].at = "loaded" /\ req[r].kind = "guest" /\ req[r].who = {p}
    /\ MaySetGuests(p, g)
    /\ rsvp' = [rsvp EXCEPT ![p].guests = g, ![p].status = req[r].word]
    /\ req' = [req EXCEPT ![r].at = "mailed", ![r].after = Held(rsvp'[p]),
                          ![r].word = "none"]
    /\ UNCHANGED <<players, status, maxPlayers, late, history>>

CommitGuests(r, p, g) ==
    /\ req[r].at = "loaded" /\ req[r].kind = "guest" /\ req[r].who = {p}
    /\ SetGuestCount(p, g)
    /\ req' = [req EXCEPT ![r].at = "mailed", ![r].after = Held(rsvp'[p]),
                          ![r].word = "none"]
    /\ UNCHANGED history

(* Whether the organizer hears of it depends on the entry as it was loaded. *)
CommitCancel(r, p) ==
    /\ req[r].at = "loaded" /\ req[r].kind = "cancel" /\ req[r].who = {p}
    /\ Cancel(p)
    /\ IF req[r].word \in {"confirmed", "waitlist"}
       THEN OnToNotice(r) ELSE Finish(r)
    /\ UNCHANGED history

(* Signups are closed, there is no room for the guests, or the row is gone. *)
Refused(r, p) ==
    /\ req[r].at = "loaded" /\ req[r].who = {p}
    /\ \/ ~HasRow(p)
       \/ Enforced(r) /\ ~SignupsOpen
       \/ req[r].kind = "guest" /\ \E g \in GuestCounts : ~MaySetGuests(p, g)
    /\ Finish(r)
    /\ UNCHANGED <<vars, history>>

(* handlePromote.  The variant mails whoever heads the queue afterwards. *)
CommitPromote_MailsNext(r, q) ==
    /\ req[r].at = "idle"
    /\ Promote(q)
    /\ req' = [req EXCEPT ![r] = [Idle EXCEPT
                  !.kind = "promote", !.at = "written",
                  !.who = NextPromotable(rsvp', maxPlayers'),
                  !.word = "confirmed"]]
    /\ Remember(Overlapping(q), lastWord, [ledger EXCEPT ![q] = Held(rsvp'[q])])

CommitPromote(r, q) ==
    /\ req[r].at = "idle"
    /\ Promote(q)
    /\ req' = [req EXCEPT ![r] = [Idle EXCEPT
                  !.kind = "promote", !.at = "written", !.who = {q},
                  !.word = "confirmed"]]
    /\ Remember(Overlapping(q), lastWord, [ledger EXCEPT ![q] = Held(rsvp'[q])])

(* handleRemoveParticipant is one call and tells nobody. *)
Remove(p) ==
    /\ Cancel(p)
    /\ Remember(Overlapping(p), lastWord, [ledger EXCEPT ![p] = 0])
    /\ UNCHANGED req

-----------------------------------------------------------------------------
(* Mail *)

(* sendConfirmation and the promotion mail: the organizer's requests end
   there, the participant's go on to the notice. *)
MailOutcome(r, p) ==
    /\ req[r].at = "written" /\ req[r].who = {p}
    /\ p \in players
    /\ Remember(muddled, [lastWord EXCEPT ![p] = req[r].word], ledger)
    /\ IF Enforced(r) THEN OnToNotice(r) ELSE Finish(r)
    /\ UNCHANGED vars

(* The player has been deleted: read as absent the mail is left out, and a
   foreign key that fails ends the request. *)
MailNobody(r, p) ==
    /\ req[r].at = "written" /\ req[r].who = {p}
    /\ p \notin players
    /\ Finish(r) \/ (Enforced(r) /\ OnToNotice(r))
    /\ UNCHANGED <<vars, history>>

(* announce, with the organizer asking for every change (NotifyAll).  The
   public page states no spots held before, which is wrong of somebody who
   holds some. *)
Announce(r, p) ==
    /\ req[r].at = "mailed" /\ req[r].who = {p}
    /\ Remember(IF req[r].kind = "public" /\ ledger[p] # 0
                THEN muddled \cup {p} ELSE muddled,
                lastWord,
                [ledger EXCEPT ![p] = @ - req[r].before + req[r].after])
    /\ Finish(r)
    /\ UNCHANGED vars

(* The request ends between two calls. *)
Lapse(r) ==
    /\ req[r].at # "idle"
    /\ Remember(IF req[r].at = "loaded" THEN muddled ELSE muddled \cup req[r].who,
                lastWord, ledger)
    /\ Finish(r)
    /\ UNCHANGED vars

-----------------------------------------------------------------------------
(* What else goes on.  A deleted player takes the history along. *)

Delete(p) ==
    /\ DeletePlayer(p)
    /\ Remember(IF Busy(p) THEN muddled \cup {p} ELSE muddled \ {p},
                [lastWord EXCEPT ![p] = "none"], [ledger EXCEPT ![p] = 0])
    /\ UNCHANGED req

Elsewhere ==
    /\ \/ \E S \in SUBSET players : EnsureInvites(S)
       \/ \E max \in 1 .. Capacity : UpdateSession(max, late)
       \/ \E new \in Statuses : SetSessionStatus(new)
       \/ \E p \in Players : CreatePlayer(p)
    /\ UNCHANGED <<req, history>>

RequestStep(r) ==
    \/ \E p \in Players :
          \/ \E kind \in Kinds : Load(r, p, kind) \/ Arrive(r, p, kind)
          \/ \E g \in GuestCounts : CommitSignup(r, p, g) \/ CommitGuests(r, p, g)
          \/ CommitCancel(r, p) \/ Refused(r, p) \/ CommitPromote(r, p)
          \/ MailOutcome(r, p) \/ MailNobody(r, p) \/ Announce(r, p)
    \/ Lapse(r)

RequestsNext ==
    \/ \E r \in Requests : RequestStep(r)
    \/ \E p \in Players : Remove(p) \/ Delete(p)
    \/ Elsewhere

RequestsSpec == RequestsInit /\ [][RequestsNext]_requestVars

-----------------------------------------------------------------------------
(* Safety *)

(* The spots p really has. *)
OnCourt(p) == Cardinality({b \in Bodies(rsvp) : b[1] = p})

Settled(p) == ~Busy(p) /\ p \notin muddled

(* The last mail about the outcome of a signup or promotion tells the truth:
   whoever is confirmed or waiting, with no request of theirs under way, was
   last told exactly that, however the requests of others interleaved. *)
LastWordTrue == \A p \in Confirmed(rsvp) \cup Waitlisted(rsvp) :
    Settled(p) => lastWord[p] = rsvp[p].status

(* The organizer's account adds up: spots taken and given back in notices and
   by the organizer's own doing amount to the spots each person holds. *)
LedgerTrue == \A p \in Players : Settled(p) => ledger[p] = OnCourt(p)

-----------------------------------------------------------------------------
(* What comments and the README say and the program does not do *)

(* "The organizer decides who comes off the waitlist": no participant's own
   request turns a waitlisted entry into a confirmed one. *)
OrganizerPromotes ==
    [][\A r \in Requests, p \in Players, g \in GuestCounts :
         CommitSignup(r, p, g) /\ Enforced(r) /\ rsvp[p].status = "waitlist"
         => rsvp'[p].status # "confirmed"]_requestVars
=============================================================================
