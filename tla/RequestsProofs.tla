--------------------------- MODULE RequestsProofs ---------------------------
(***************************************************************************)
(* What the handlers of Requests tell people and the organizer is true:    *)
(* the inductive invariant RequestsInv follows the one request that is     *)
(* about a person of whom something is claimed from stage to stage         *)
(* (OnTrack).  That their steps are store transactions carries over what   *)
(* is proved of Rsvp.                                                      *)
(***************************************************************************)
EXTENDS Requests, RsvpProofs

(* Every step of a request is one transaction of the store or none.  That
   the form leaves the deadline as it is needs its type. *)
LEMMA StepIsTransaction ==
    ASSUME TypeOK, [RequestsNext]_requestVars
    PROVE  [Next]_vars
<1>1. ASSUME NEW r \in Requests, RequestStep(r) PROVE [Next]_vars
  <2>1. ASSUME NEW p \in Players, NEW kind \in Kinds, Load(r, p, kind)
        PROVE  [Next]_vars
    BY <2>1 DEF Load
  <2>2. ASSUME NEW p \in Players, NEW kind \in Kinds, Arrive(r, p, kind)
        PROVE  [Next]_vars
    BY <2>2 DEF Arrive, Next, ParticipantStep
  <2>3. ASSUME NEW p \in Players, NEW g \in GuestCounts, CommitSignup(r, p, g)
        PROVE  [Next]_vars
    <3>1. Enforced(r) \in BOOLEAN
      BY DEF Enforced
    <3>2. CASE Enforced(r) = TRUE
      BY <2>3, <3>2 DEF CommitSignup, Next, ParticipantStep
    <3>3. CASE Enforced(r) = FALSE
      BY <2>3, <3>3 DEF CommitSignup, Next, OrganizerStep
    <3> QED BY <3>1, <3>2, <3>3
  <2>4. ASSUME NEW p \in Players, NEW g \in GuestCounts, CommitGuests(r, p, g)
        PROVE  [Next]_vars
    BY <2>4 DEF CommitGuests, Next, ParticipantStep
  <2>5. ASSUME NEW p \in Players, CommitCancel(r, p) PROVE [Next]_vars
    BY <2>5 DEF CommitCancel, Next, ParticipantStep
  <2>6. ASSUME NEW p \in Players, CommitPromote(r, p) PROVE [Next]_vars
    BY <2>6 DEF CommitPromote, Next, OrganizerStep, PromoteNext
  <2>7. ASSUME NEW p \in Players,
               Refused(r, p) \/ MailOutcome(r, p) \/ MailNobody(r, p) \/ Announce(r, p)
        PROVE  [Next]_vars
    BY <2>7 DEF Refused, MailOutcome, MailNobody, Announce
  <2>8. CASE Lapse(r)
    BY <2>8 DEF Lapse
  <2> QED BY <1>1, <2>1, <2>2, <2>3, <2>4, <2>5, <2>6, <2>7, <2>8 DEF RequestStep
<1>2. ASSUME NEW p \in Players, Remove(p) PROVE [Next]_vars
  BY <1>2 DEF Remove, Next, ParticipantStep
<1>3. ASSUME NEW p \in Players, Delete(p) PROVE [Next]_vars
  BY <1>3 DEF Delete, Next, OrganizerStep
<1>4. CASE Elsewhere
  <2>1. ASSUME NEW S \in SUBSET players, EnsureInvites(S) PROVE [Next]_vars
    BY <2>1 DEF Next, OrganizerStep
  <2>2. ASSUME NEW max \in 1 .. Capacity, UpdateSession(max, late)
        PROVE  [Next]_vars
    <3>1. late \in BOOLEAN
      BY DEF TypeOK
    <3> QED BY <2>2, <3>1 DEF Next, OrganizerStep
  <2>3. ASSUME NEW new \in Statuses, SetSessionStatus(new) PROVE [Next]_vars
    <3>1. new \in SessionStatus
      BY RequestsAssumption
    <3> QED BY <2>3, <3>1 DEF Next, OrganizerStep
  <2>4. ASSUME NEW p \in Players, CreatePlayer(p) PROVE [Next]_vars
    BY <2>4 DEF Next, OrganizerStep
  <2> QED BY <1>4, <2>1, <2>2, <2>3, <2>4 DEF Elsewhere
<1>5. CASE UNCHANGED requestVars
  BY <1>5 DEF requestVars
<1> QED BY <1>1, <1>2, <1>3, <1>4, <1>5 DEF RequestsNext

(* The invariant of the store holds between the calls of requests. *)
THEOREM RequestsInvariant == RequestsSpec => []RsvpInv
<1>1. RequestsInit => RsvpInv
  BY InitInv DEF RequestsInit
<1>2. RsvpInv /\ [RequestsNext]_requestVars => RsvpInv'
  <2>1. RsvpInv => TypeOK
    BY DEF RsvpInv
  <2> QED BY <2>1, StepIsTransaction, StepInv
<1> QED BY <1>1, <1>2, PTL DEF RequestsSpec

(* Requests are modelled as sequences of whole store transactions, so every
   behaviour of theirs is one of the store: what is proved of Rsvp carries
   over. *)
LEMMA RequestsAreTransactions == RequestsSpec => Spec
<1>1. RequestsInit => Init
  BY DEF RequestsInit
<1>2. RsvpInv /\ [RequestsNext]_requestVars => [Next]_vars
  <2>1. RsvpInv => TypeOK
    BY DEF RsvpInv
  <2> QED BY <2>1, StepIsTransaction
<1> QED BY <1>1, <1>2, RequestsInvariant, PTL DEF RequestsSpec, Spec

(* Hence no interleaving of requests lets the headcount grow past
   max_players. *)
THEOREM RequestsNeverOverbook == RequestsSpec => NeverOverbooks
  BY RequestsAreTransactions, CapacityHolds, PTL

(* And through all requests that interleave the signup sheet of Booking holds:
   one line, joined at its end. *)
THEOREM RequestsKeepSheet == RequestsSpec => ImplementsBooking
  BY RequestsAreTransactions, RsvpImplementsBooking, PTL

-----------------------------------------------------------------------------
(* What people and the organizer are told *)

Answered(p) == rsvp[p].status \in {"confirmed", "waitlist"}

Told(p) == Answered(p) => lastWord[p] = rsvp[p].status
Booked(p) == ledger[p] = Held(rsvp[p])

OwnKinds == {"signup", "guest", "cancel"}

(* What a request in progress looks like, whatever happens around it. *)
WellFormed(e) ==
    \/ e = Idle
    \/ /\ e.at # "idle" /\ \E p \in Players : e.who = {p}
       /\ e.at = "loaded" =>
            e.kind \in OwnKinds \cup {"public", "add"} /\ e.after = 0
       /\ e.at = "written" =>
            /\ e.kind \in {"signup", "public", "add", "promote"}
            /\ e.word \in {"confirmed", "waitlist"}
       /\ e.at = "mailed" => e.kind \in OwnKinds \cup {"public"}
       /\ e.kind = "public" => e.before = 0

(* What is true while r, and no other request, is about p: before the
   transaction all is as it was and the entry in hand is the one in the table;
   after it the request holds what it still has to say. *)
OnTrack(r, p) ==
    /\ req[r].at = "loaded" =>
         /\ Told(p) /\ Booked(p)
         /\ req[r].kind \in OwnKinds =>
              /\ HasRow(p) /\ req[r].word = rsvp[p].status
              /\ req[r].before = Held(rsvp[p])
    /\ req[r].at = "written" =>
         /\ Answered(p) /\ req[r].word = rsvp[p].status
         /\ req[r].kind \in {"add", "promote"} => Booked(p)
    /\ req[r].at = "mailed" => Told(p)
    /\ req[r].at \in {"written", "mailed"}
       /\ req[r].kind \in OwnKinds \cup {"public"} =>
         /\ req[r].after = Held(rsvp[p])
         /\ req[r].kind # "public" => ledger[p] = req[r].before

Clear(p) ==
    p \notin muddled =>
      /\ \A r, s \in Requests : p \in req[r].who /\ p \in req[s].who => r = s
      /\ \A r \in Requests : p \in req[r].who => OnTrack(r, p)
      /\ ~Busy(p) => Told(p) /\ Booked(p)

RequestsInv ==
    /\ RsvpInv /\ RequestsTypeOK /\ RowsHavePlayers
    /\ \A r \in Requests : WellFormed(req[r])
    /\ \A p \in Players : Clear(p)

Words == {"none", "confirmed", "waitlist"}

LEMMA SpotsHeld ==
    ASSUME NEW e \in Entry
    PROVE  Held(e) \in Spots
BY RsvpAssumption DEF Held, PartySize, Spots, Entry, GuestCounts

(* The history of nobody but p changes, or it is given up. *)
HistoryAbout(p) ==
    /\ muddled' \subseteq Players
    /\ lastWord' \in [Players -> Words] /\ ledger' \in [Players -> Int]
    /\ \A q \in Players \ {p} :
         q \notin muddled' => /\ q \notin muddled
                             /\ lastWord'[q] = lastWord[q]
                             /\ ledger'[q] = ledger[q]

LEMMA Remembered ==
    ASSUME RequestsTypeOK, NEW p \in Players, NEW m \in SUBSET Players,
           muddled \subseteq m \cup {p},
           NEW words \in [Players -> Words], NEW account \in [Players -> Int],
           \A q \in Players \ {p} :
               words[q] = lastWord[q] /\ account[q] = ledger[q],
           Remember(m, words, account)
    PROVE  /\ HistoryAbout(p) /\ muddled' = m
           /\ p \notin m => lastWord'[p] = words[p] /\ ledger'[p] = account[p]
<1>1. /\ muddled' = m
      /\ lastWord' = [q \in Players |-> IF q \in m THEN "none" ELSE words[q]]
      /\ ledger' = [q \in Players |-> IF q \in m THEN 0 ELSE account[q]]
  BY DEF Remember
<1>2. lastWord' \in [Players -> Words] /\ ledger' \in [Players -> Int]
  BY <1>1 DEF Words
<1> QED BY <1>1, <1>2 DEF HistoryAbout

LEMMA Unmuddling ==
    ASSUME RequestsTypeOK, NEW p \in Players
    PROVE  /\ lastWord \in [Players -> Words] /\ ledger \in [Players -> Int]
           /\ Overlapping(p) \in SUBSET Players /\ muddled \subseteq Overlapping(p)
           /\ p \notin Overlapping(p) => p \notin muddled /\ ~Busy(p)
           /\ UNCHANGED history => HistoryAbout(p)
BY DEF RequestsTypeOK, Overlapping, HistoryAbout, Words, history

(* The organizer's account of p is set. *)
LEMMA Accounted ==
    ASSUME RequestsTypeOK, NEW p \in Players, NEW m \in SUBSET Players,
           muddled \subseteq m \cup {p}, NEW n \in Int,
           Remember(m, lastWord, [ledger EXCEPT ![p] = n])
    PROVE  /\ HistoryAbout(p) /\ muddled' = m
           /\ p \notin m => lastWord'[p] = lastWord[p] /\ ledger'[p] = n
<1> DEFINE account == [ledger EXCEPT ![p] = n]
<1>1. /\ account \in [Players -> Int] /\ account[p] = n
      /\ \A q \in Players \ {p} : account[q] = ledger[q]
  BY DEF RequestsTypeOK
<1> HIDE DEF account
<1>2. lastWord \in [Players -> Words]
  BY DEF RequestsTypeOK, Words
<1>3. Remember(m, lastWord, account)
  BY DEF account
<1> QED BY <1>1, <1>2, <1>3, Remembered

(* The last word given to p is set, and perhaps the account of p. *)
LEMMA WordGiven ==
    ASSUME RequestsTypeOK, NEW p \in Players, NEW m \in SUBSET Players,
           muddled \subseteq m \cup {p}, NEW w \in Words,
           NEW account \in [Players -> Int],
           \A q \in Players \ {p} : account[q] = ledger[q],
           Remember(m, [lastWord EXCEPT ![p] = w], account)
    PROVE  /\ HistoryAbout(p) /\ muddled' = m
           /\ p \notin m => lastWord'[p] = w /\ ledger'[p] = account[p]
<1> DEFINE words == [lastWord EXCEPT ![p] = w]
<1>1. /\ words \in [Players -> Words] /\ words[p] = w
      /\ \A q \in Players \ {p} : words[q] = lastWord[q]
  BY DEF RequestsTypeOK, Words
<1> HIDE DEF words
<1>2. Remember(m, words, account)
  BY DEF words
<1> QED BY <1>1, <1>2, Remembered

(* Nothing happens to q, or no more than an invitation. *)
LEMMA Untouched ==
    ASSUME NEW q \in Players, Clear(q),
           rsvp'[q] = rsvp[q] \/ (~HasRow(q) /\ rsvp'[q] = InvitedRow),
           q \notin muddled' => /\ q \notin muddled
                               /\ lastWord'[q] = lastWord[q]
                               /\ ledger'[q] = ledger[q],
           \A r \in Requests :
               q \in req[r].who \/ q \in req'[r].who => req'[r] = req[r]
    PROVE  Clear(q)'
<1> SUFFICES ASSUME q \notin muddled' PROVE Clear(q)'
  BY DEF Clear
<1>1. \A r \in Requests : q \in req'[r].who <=> q \in req[r].who
  OBVIOUS
<1>2. Busy(q)' <=> Busy(q)
  BY <1>1 DEF Busy
<1>3. /\ Told(q) => Told(q)'
      /\ Booked(q) => Booked(q)'
  BY DEF Told, Booked, Answered, Held, HasRow, InvitedRow
<1>4. Held(rsvp'[q]) = Held(rsvp[q])
  BY DEF Held, HasRow, InvitedRow
<1>5. ASSUME NEW r \in Requests, q \in req'[r].who PROVE OnTrack(r, q)'
  <2>1. OnTrack(r, q) /\ req'[r] = req[r]
    BY <1>5 DEF Clear
  <2>2. CASE rsvp'[q] = rsvp[q]
    BY <2>1, <2>2, <1>3, <1>4 DEF OnTrack, Answered, HasRow
  <2>3. CASE ~HasRow(q) /\ rsvp'[q] = InvitedRow
    BY <2>1, <2>3, <1>3, <1>4 DEF OnTrack, Answered, HasRow, InvitedRow
  <2> QED BY <2>2, <2>3
<1> QED BY <1>1, <1>2, <1>3, <1>5 DEF Clear

(* A step about p and of requests about nobody else. *)
LEMMA OnlyAbout ==
    ASSUME RequestsInv, RsvpInv', RowsHavePlayers', NEW p \in Players,
           req' \in [Requests -> Local],
           \A s \in Requests :
               \/ req'[s] = req[s]
               \/ /\ req[s].who \subseteq {p} /\ req'[s].who \subseteq {p}
                  /\ WellFormed(req'[s]),
           HistoryAbout(p), \A q \in Players \ {p} : rsvp'[q] = rsvp[q],
           Clear(p)'
    PROVE  RequestsInv'
<1>1. RequestsTypeOK'
  BY DEF RequestsTypeOK, RsvpInv, Words, HistoryAbout
<1>2. \A s \in Requests : WellFormed(req'[s])
  BY DEF RequestsInv
<1>3. ASSUME NEW q \in Players \ {p} PROVE Clear(q)'
  <2>1. \A s \in Requests : q \in req[s].who \/ q \in req'[s].who => req'[s] = req[s]
    BY <1>3
  <2>2. Clear(q)
    BY DEF RequestsInv
  <2> QED BY <2>1, <2>2, Untouched DEF HistoryAbout
<1>4. (\A s \in Requests : WellFormed(req[s]))'
  BY <1>2 DEF WellFormed, Idle
<1>5. (\A q \in Players : Clear(q))'
  BY <1>3
<1> QED BY <1>1, <1>4, <1>5 DEF RequestsInv

LEMMA OneRequest ==
    ASSUME RequestsInv, RsvpInv', RowsHavePlayers', NEW p \in Players,
           NEW r \in Requests, NEW e \in Local, WellFormed(e),
           req' = [req EXCEPT ![r] = e],
           req[r].who \subseteq {p}, e.who \subseteq {p},
           HistoryAbout(p), \A q \in Players \ {p} : rsvp'[q] = rsvp[q],
           Clear(p)'
    PROVE  RequestsInv'
<1>1. req \in [Requests -> Local]
  BY DEF RequestsInv, RequestsTypeOK
<1>2. /\ req' \in [Requests -> Local] /\ req'[r] = e
      /\ \A s \in Requests \ {r} : req'[s] = req[s]
  BY <1>1
<1> QED BY <1>2, OnlyAbout

(* The request of p's own that is under way. *)
LEMMA UnderWay ==
    ASSUME RequestsInv, NEW r \in Requests
    PROVE  /\ req \in [Requests -> Local] /\ req[r] \in Local
           /\ WellFormed(req[r])
           /\ req[r].at = "idle" <=> req[r] = Idle
           /\ Idle.who = {} /\ Idle \in Local /\ WellFormed(Idle)
           /\ \A p \in Players : p \in req[r].who /\ p \notin muddled => OnTrack(r, p)
<1>1. Idle.at = "idle" /\ Idle.who = {} /\ Idle \in Local
  BY RsvpAssumption DEF Idle, Local, Spots
<1> QED BY <1>1 DEF RequestsInv, RequestsTypeOK, WellFormed, Clear

LEMMA Begun ==
    ASSUME RequestsInv, NEW r \in Requests, NEW p \in Players, NEW e,
           req[r].at = "idle", req' = [req EXCEPT ![r] = e], e.who = {p},
           muddled' = Overlapping(p),
           p \notin muddled /\ ~Busy(p) => OnTrack(r, p)'
    PROVE  Clear(p)'
<1> SUFFICES ASSUME p \notin muddled' PROVE Clear(p)'
  BY DEF Clear
<1>1. p \notin muddled /\ ~Busy(p)
  BY DEF Overlapping
<1>2. \A s \in Requests : p \in req'[s].who => s = r
  BY <1>1, UnderWay DEF Busy
<1>3. Busy(p)'
  BY UnderWay DEF Busy
<1> QED BY <1>1, <1>2, <1>3 DEF Clear

LEMMA Continued ==
    ASSUME RequestsInv, NEW r \in Requests, NEW p \in Players, NEW e,
           req[r].who = {p}, req' = [req EXCEPT ![r] = e], e.who = {p},
           p \notin muddled' => p \notin muddled /\ OnTrack(r, p)'
    PROVE  Clear(p)'
<1> SUFFICES ASSUME p \notin muddled' PROVE Clear(p)'
  BY DEF Clear
<1>1. Clear(p) /\ p \notin muddled
  BY DEF RequestsInv
<1>2. \A s \in Requests : p \in req'[s].who => s = r
  BY <1>1, UnderWay DEF Clear
<1>3. Busy(p)'
  BY UnderWay DEF Busy
<1> QED BY <1>2, <1>3 DEF Clear

LEMMA Ended ==
    ASSUME RequestsInv, NEW r \in Requests, NEW p \in Players,
           req[r].who = {p}, req' = [req EXCEPT ![r] = Idle],
           p \notin muddled' => p \notin muddled /\ Told(p)' /\ Booked(p)'
    PROVE  Clear(p)'
<1> SUFFICES ASSUME p \notin muddled' PROVE Clear(p)'
  BY DEF Clear
<1>1. Clear(p) /\ p \notin muddled
  BY DEF RequestsInv
<1>2. \A s \in Requests : p \notin req'[s].who
  BY <1>1, UnderWay DEF Clear
<1> QED BY <1>2 DEF Clear, Busy

-----------------------------------------------------------------------------
(* The steps of a request *)

LEMMA LoadKeeps ==
    ASSUME RequestsInv, RsvpInv', RowsHavePlayers', NEW r \in Requests,
           NEW p \in Players, NEW kind \in Kinds, Load(r, p, kind)
    PROVE  RequestsInv'
<1> DEFINE e == [Idle EXCEPT !.kind = kind, !.at = "loaded", !.who = {p},
                             !.before = Held(rsvp[p]), !.word = rsvp[p].status]
<1>a. /\ kind \in OwnKinds /\ HasRow(p) /\ req[r].at = "idle"
      /\ req' = [req EXCEPT ![r] = e] /\ UNCHANGED vars
      /\ Remember(Overlapping(p), lastWord, ledger)
  BY DEF Load, OwnKinds
<1>b. RequestsTypeOK /\ rsvp[p] \in Entry /\ rsvp' = rsvp
  BY <1>a DEF RequestsInv, RequestsTypeOK, TypeOK, vars
<1>1. e \in Local
  <2>1. Held(rsvp[p]) \in Spots /\ rsvp[p].status \in RsvpStatus \cup {"none"}
    BY <1>b, SpotsHeld DEF Entry
  <2> QED BY <2>1, UnderWay DEF Local
<1>c. /\ e.kind = kind /\ e.at = "loaded" /\ e.who = {p} /\ e.after = 0
      /\ e.before = Held(rsvp[p]) /\ e.word = rsvp[p].status
  BY DEF Idle
<1> HIDE DEF e
<1>2. /\ HistoryAbout(p) /\ muddled' = Overlapping(p)
      /\ p \notin muddled' => lastWord'[p] = lastWord[p] /\ ledger'[p] = ledger[p]
  BY <1>a, <1>b, Unmuddling, Remembered
<1>3. WellFormed(e) /\ e.who = {p}
  BY <1>a, <1>c DEF WellFormed, OwnKinds
<1>4. req[r].who = {} /\ req \in [Requests -> Local] /\ req'[r] = e
  BY <1>a, UnderWay
<1>5. ASSUME p \notin muddled, ~Busy(p) PROVE OnTrack(r, p)'
  <2>1. Told(p) /\ Booked(p) /\ p \notin muddled'
    BY <1>2, <1>5 DEF RequestsInv, Clear, Overlapping
  <2>2. Told(p)' /\ Booked(p)'
    BY <2>1, <1>2, <1>b DEF Told, Booked, Answered
  <2> QED BY <1>a, <1>b, <1>c, <1>4, <2>2 DEF OnTrack, HasRow
<1>6. Clear(p)'
  BY <1>a, <1>2, <1>3, <1>5, Begun
<1> QED BY <1>a, <1>b, <1>1, <1>2, <1>3, <1>4, <1>6, OneRequest

LEMMA ArriveKeeps ==
    ASSUME RequestsInv, RsvpInv', RowsHavePlayers', NEW r \in Requests,
           NEW p \in Players, NEW kind \in Kinds, Arrive(r, p, kind)
    PROVE  RequestsInv'
<1> DEFINE e == [Idle EXCEPT !.kind = kind, !.at = "loaded", !.who = {p}]
<1>a. /\ kind \in {"public", "add"} /\ req[r].at = "idle"
      /\ req' = [req EXCEPT ![r] = e]
      /\ Remember(Overlapping(p), lastWord, ledger)
      /\ EnsureEntry(p) \/ UNCHANGED rsvp
  BY DEF Arrive, vars
<1>b. RequestsTypeOK /\ rsvp \in [Players -> Entry]
  BY DEF RequestsInv, RequestsTypeOK, TypeOK
<1>c. /\ e.kind = kind /\ e.at = "loaded" /\ e.who = {p} /\ e.after = 0
      /\ e.before = 0 /\ e.word = "none"
  BY DEF Idle
<1>1. e \in Local
  BY UnderWay DEF Local
<1> HIDE DEF e
<1>2. /\ HistoryAbout(p) /\ muddled' = Overlapping(p)
      /\ p \notin muddled' => lastWord'[p] = lastWord[p] /\ ledger'[p] = ledger[p]
  BY <1>a, <1>b, Unmuddling, Remembered
<1>3. WellFormed(e) /\ e.who = {p}
  BY <1>a, <1>c DEF WellFormed, OwnKinds
<1>4. req[r].who = {} /\ req \in [Requests -> Local] /\ req'[r] = e
  BY <1>a, UnderWay
<1>5. /\ \A q \in Players \ {p} : rsvp'[q] = rsvp[q]
      /\ rsvp'[p] = rsvp[p] \/ (~HasRow(p) /\ rsvp'[p] = InvitedRow)
  BY <1>a, <1>b DEF EnsureEntry, EnsureInvites
<1>6. ASSUME p \notin muddled, ~Busy(p) PROVE OnTrack(r, p)'
  <2>1. Told(p) /\ Booked(p) /\ p \notin muddled'
    BY <1>2, <1>6 DEF RequestsInv, Clear, Overlapping
  <2>2. Told(p)' /\ Booked(p)'
    BY <2>1, <1>2, <1>5 DEF Told, Booked, Answered, Held, HasRow, InvitedRow
  <2> QED BY <1>a, <1>c, <1>4, <2>2 DEF OnTrack, OwnKinds
<1>7. Clear(p)'
  BY <1>a, <1>2, <1>3, <1>6, Begun
<1> QED BY <1>a, <1>1, <1>2, <1>3, <1>4, <1>5, <1>7, OneRequest

LEMMA CommitSignupKeeps ==
    ASSUME RequestsInv, RsvpInv', RowsHavePlayers', NEW r \in Requests,
           NEW p \in Players, NEW g \in GuestCounts, CommitSignup(r, p, g)
    PROVE  RequestsInv'
<1> DEFINE after == IF Enforced(r) THEN Held(rsvp'[p]) ELSE 0
           e == [req[r] EXCEPT !.at = "written", !.word = rsvp'[p].status,
                               !.after = after]
<1>a. /\ req[r].at = "loaded" /\ req[r].kind \in {"signup", "public", "add"}
      /\ req[r].who = {p} /\ req' = [req EXCEPT ![r] = e]
      /\ Signup(p, g, Enforced(r))
  BY DEF CommitSignup
<1>b. /\ RsvpInv /\ RequestsTypeOK /\ rsvp \in [Players -> Entry]
      /\ rsvp' \in [Players -> Entry]
  BY DEF RequestsInv, RequestsTypeOK, RsvpInv, TypeOK
<1>c. req[r] \in Local /\ WellFormed(req[r]) /\ req \in [Requests -> Local]
  BY UnderWay
<1>d. p \notin muddled => OnTrack(r, p)
  BY <1>a, UnderWay
<1>1. /\ rsvp'[p].status \in {"confirmed", "waitlist"}
      /\ Held(rsvp'[p]) \in Spots
      /\ \A q \in Players \ {p} : rsvp'[q] = rsvp[q]
  <2>1. rsvp'[p] = SignupRow(p, g) /\ SignupRow(p, g).pos <= LastPosition
    BY <1>a, <1>b DEF Signup
  <2>2. rsvp'[p].status \in {"confirmed", "waitlist"}
    BY <1>b, <2>1, SignupRowFacts
  <2> QED BY <1>a, <1>b, <2>2, SpotsHeld DEF Signup
<1>2. after \in Spots
  BY <1>1, RsvpAssumption DEF Spots
<1> HIDE DEF after
<1>3. e \in Local
  BY <1>1, <1>2, <1>c DEF Local, RsvpStatus
<1>e. /\ e.kind = req[r].kind /\ e.at = "written" /\ e.who = {p}
      /\ e.before = req[r].before /\ e.after = after /\ e.word = rsvp'[p].status
  BY <1>a, <1>c DEF Local
<1> HIDE DEF e
<1>4. WellFormed(e)
  <2>1. req[r] # Idle
    BY <1>a DEF Idle
  <2>2. req[r].kind = "public" => req[r].before = 0
    BY <1>c, <2>1 DEF WellFormed
  <2> QED BY <1>a, <1>e, <1>1, <2>2 DEF WellFormed
<1>5. req'[r] = e
  BY <1>a, <1>c
<1>6. CASE req[r].kind = "add"
  <2>1. Remember(muddled, lastWord, [ledger EXCEPT ![p] = Held(rsvp'[p])])
    BY <1>6 DEF CommitSignup
  <2>2. Held(rsvp'[p]) \in Int /\ muddled \in SUBSET Players
    BY <1>1, <1>b, RsvpAssumption DEF RequestsTypeOK, Spots
  <2>3. /\ HistoryAbout(p) /\ muddled' = muddled
        /\ p \notin muddled' => ledger'[p] = Held(rsvp'[p])
    BY <1>b, <2>1, <2>2, Accounted
  <2>4. p \notin muddled' => OnTrack(r, p)'
    BY <2>3, <1>6, <1>1, <1>5, <1>e DEF OnTrack, Answered, Booked, OwnKinds
  <2>5. Clear(p)'
    BY <1>a, <1>e, <2>3, <2>4, Continued
  <2> QED BY <1>a, <1>1, <1>3, <1>4, <1>e, <2>3, <2>5, OneRequest
<1>7. CASE req[r].kind # "add"
  <2>1. UNCHANGED history /\ Enforced(r)
    BY <1>a, <1>7 DEF CommitSignup, Enforced
  <2>2. HistoryAbout(p) /\ muddled' = muddled /\ ledger' = ledger
    BY <1>b, <2>1, Unmuddling DEF history
  <2>3. p \notin muddled' => OnTrack(r, p)'
    <3> SUFFICES ASSUME p \notin muddled PROVE OnTrack(r, p)'
      BY <2>2
    <3>1. after = Held(rsvp'[p])
      BY <2>1 DEF after
    <3>2. req[r].kind # "public" => ledger[p] = req[r].before
      BY <1>a, <1>d, <1>7 DEF OnTrack, Booked, OwnKinds
    <3> QED BY <1>a, <1>7, <1>1, <1>5, <1>e, <2>2, <3>1, <3>2 DEF OnTrack, Answered
  <2>4. Clear(p)'
    BY <1>a, <1>e, <2>2, <2>3, Continued
  <2> QED BY <1>a, <1>1, <1>3, <1>4, <1>e, <2>2, <2>4, OneRequest
<1> QED BY <1>6, <1>7

(* A request with its transaction and its mail behind it. *)
LEMMA NoticeEntry ==
    ASSUME RequestsInv, NEW r \in Requests, NEW p \in Players,
           req[r].at # "idle", req[r].who = {p},
           req[r].kind \in OwnKinds \cup {"public"},
           NEW e, e.at = "mailed", e.who = {p}, e.kind = req[r].kind,
           e.before = req[r].before
    PROVE  WellFormed(e)
<1>1. req[r].kind = "public" => req[r].before = 0
  BY UnderWay DEF WellFormed, Idle
<1> QED BY <1>1 DEF WellFormed

LEMMA CommitGuestsKeeps ==
    ASSUME RequestsInv, RsvpInv', RowsHavePlayers', NEW r \in Requests,
           NEW p \in Players, NEW g \in GuestCounts, CommitGuests(r, p, g)
    PROVE  RequestsInv'
<1> DEFINE after == Held(rsvp'[p])
           e == [req[r] EXCEPT !.at = "mailed", !.after = after, !.word = "none"]
<1>a. /\ req[r].at = "loaded" /\ req[r].kind = "guest" /\ req[r].who = {p}
      /\ req' = [req EXCEPT ![r] = e]
      /\ SetGuestCount(p, g) /\ UNCHANGED history
  BY DEF CommitGuests
<1>b. /\ RequestsTypeOK /\ rsvp \in [Players -> Entry]
      /\ rsvp' \in [Players -> Entry] /\ req \in [Requests -> Local]
  BY DEF RequestsInv, RequestsTypeOK, RsvpInv, TypeOK
<1>c. p \notin muddled => OnTrack(r, p)
  BY <1>a, UnderWay
<1>1. /\ rsvp'[p].status = rsvp[p].status
      /\ \A q \in Players \ {p} : rsvp'[q] = rsvp[q]
  BY <1>a, <1>b DEF SetGuestCount, Entry
<1>2. after \in Spots
  BY <1>b, SpotsHeld
<1>d. e \in Local
  BY <1>2, UnderWay DEF Local
<1> HIDE DEF after
<1>e. /\ e.at = "mailed" /\ e.who = {p} /\ e.kind = req[r].kind
      /\ e.before = req[r].before /\ e.after = after
  BY <1>a, UnderWay DEF Local
<1> HIDE DEF e
<1>3. WellFormed(e)
  BY <1>a, <1>e, NoticeEntry DEF OwnKinds
<1>4. req'[r] = e
  BY <1>a, <1>b
<1>5. HistoryAbout(p) /\ UNCHANGED <<lastWord, ledger, muddled>>
  BY <1>a, <1>b, Unmuddling DEF history
<1>6. ASSUME p \notin muddled PROVE OnTrack(r, p)'
  <2>1. Told(p)' /\ ledger'[p] = req[r].before
    BY <1>a, <1>c, <1>1, <1>5, <1>6 DEF OnTrack, Told, Booked, Answered, OwnKinds
  <2> QED BY <1>e, <1>4, <2>1 DEF OnTrack, after
<1>7. Clear(p)'
  BY <1>a, <1>e, <1>5, <1>6, Continued
<1> QED BY <1>a, <1>d, <1>e, <1>1, <1>3, <1>5, <1>7, OneRequest

LEMMA CommitCancelKeeps ==
    ASSUME RequestsInv, RsvpInv', RowsHavePlayers', NEW r \in Requests,
           NEW p \in Players, CommitCancel(r, p)
    PROVE  RequestsInv'
<1> DEFINE e == [req[r] EXCEPT !.at = "mailed", !.word = "none"]
<1>a. /\ req[r].at = "loaded" /\ req[r].kind = "cancel" /\ req[r].who = {p}
      /\ Cancel(p) /\ UNCHANGED history
  BY DEF CommitCancel
<1>b. /\ RequestsTypeOK /\ rsvp \in [Players -> Entry]
      /\ req \in [Requests -> Local] /\ WellFormed(Idle) /\ Idle \in Local
      /\ Idle.who = {}
  BY UnderWay DEF RequestsInv, RequestsTypeOK, RsvpInv, TypeOK
<1>c. p \notin muddled => OnTrack(r, p)
  BY <1>a, UnderWay
<1>1. /\ rsvp'[p].status = "cancelled" /\ Held(rsvp'[p]) = 0
      /\ \A q \in Players \ {p} : rsvp'[q] = rsvp[q]
  BY <1>a, <1>b DEF Cancel, OffWaitlist, Held
<1>2. HistoryAbout(p) /\ UNCHANGED <<lastWord, ledger, muddled>>
  BY <1>a, <1>b, Unmuddling DEF history
<1>3. Told(p)'
  BY <1>1 DEF Told, Answered
<1>4. CASE req[r].word \in {"confirmed", "waitlist"}
  <2>1. req' = [req EXCEPT ![r] = e]
    BY <1>4 DEF CommitCancel, OnToNotice
  <2>2. req[r].after = 0 /\ 0 \in Spots
    BY <1>a, UnderWay, RsvpAssumption DEF WellFormed, Idle, Spots
  <2>a. e \in Local
    BY UnderWay DEF Local
  <2>3. /\ e.at = "mailed" /\ e.who = {p} /\ e.kind = req[r].kind
        /\ e.before = req[r].before /\ e.after = 0
    BY <1>a, <2>2, UnderWay DEF Local
  <2> HIDE DEF e
  <2>b. WellFormed(e)
    BY <1>a, <2>3, NoticeEntry DEF OwnKinds
  <2>4. req'[r] = e
    BY <1>b, <2>1
  <2>5. ASSUME p \notin muddled PROVE OnTrack(r, p)'
    <3>1. ledger'[p] = req[r].before
      BY <1>a, <1>c, <1>2, <2>5 DEF OnTrack, Booked, OwnKinds
    <3> QED BY <1>1, <1>3, <2>3, <2>4, <3>1 DEF OnTrack
  <2>6. Clear(p)'
    BY <1>a, <1>2, <2>1, <2>3, <2>5, Continued
  <2> QED BY <1>a, <1>1, <1>2, <2>1, <2>3, <2>6, <2>a, <2>b, OneRequest
<1>5. CASE req[r].word \notin {"confirmed", "waitlist"}
  <2>1. req' = [req EXCEPT ![r] = Idle]
    BY <1>5 DEF CommitCancel, Finish
  <2>2. ASSUME p \notin muddled PROVE Booked(p)'
    BY <1>a, <1>c, <1>1, <1>2, <1>5, <2>2 DEF OnTrack, Booked, Held, OwnKinds
  <2>3. Clear(p)'
    BY <1>a, <1>2, <1>3, <2>1, <2>2, Ended
  <2> QED BY <1>a, <1>b, <1>1, <1>2, <2>1, <2>3, OneRequest
<1> QED BY <1>4, <1>5

LEMMA RefusedKeeps ==
    ASSUME RequestsInv, RsvpInv', RowsHavePlayers', NEW r \in Requests,
           NEW p \in Players, Refused(r, p)
    PROVE  RequestsInv'
<1>1. /\ req[r].at = "loaded" /\ req[r].who = {p}
      /\ req' = [req EXCEPT ![r] = Idle] /\ UNCHANGED <<vars, history>>
  BY DEF Refused, Finish
<1>2. /\ RequestsTypeOK /\ WellFormed(Idle) /\ Idle \in Local /\ Idle.who = {}
      /\ p \notin muddled => OnTrack(r, p)
  BY <1>1, UnderWay DEF RequestsInv
<1>3. HistoryAbout(p) /\ UNCHANGED <<lastWord, ledger, muddled, rsvp>>
  BY <1>1, <1>2, Unmuddling DEF history, vars
<1>4. ASSUME p \notin muddled PROVE Told(p)' /\ Booked(p)'
  BY <1>1, <1>2, <1>3, <1>4 DEF OnTrack, Told, Booked, Answered
<1>5. Clear(p)'
  BY <1>1, <1>3, <1>4, Ended
<1> QED BY <1>1, <1>2, <1>3, <1>5, OneRequest

LEMMA CommitPromoteKeeps ==
    ASSUME RequestsInv, RsvpInv', RowsHavePlayers', NEW r \in Requests,
           NEW q \in Players, CommitPromote(r, q)
    PROVE  RequestsInv'
<1> DEFINE e == [Idle EXCEPT !.kind = "promote", !.at = "written", !.who = {q},
                             !.word = "confirmed"]
<1>a. /\ req[r].at = "idle" /\ Promote(q) /\ req' = [req EXCEPT ![r] = e]
      /\ Remember(Overlapping(q), lastWord, [ledger EXCEPT ![q] = Held(rsvp'[q])])
  BY DEF CommitPromote
<1>b. /\ RequestsTypeOK /\ rsvp \in [Players -> Entry]
      /\ rsvp' \in [Players -> Entry]
  BY DEF RequestsInv, RequestsTypeOK, RsvpInv, TypeOK
<1>c. /\ e.kind = "promote" /\ e.at = "written" /\ e.who = {q}
      /\ e.word = "confirmed"
  BY DEF Idle
<1>1. e \in Local
  BY UnderWay DEF Local, Kinds, RsvpStatus
<1> HIDE DEF e
<1>2. WellFormed(e)
  BY <1>c DEF WellFormed
<1>3. /\ rsvp'[q].status = "confirmed" /\ Held(rsvp'[q]) \in Int
      /\ \A p \in Players \ {q} : rsvp'[p] = rsvp[p]
  <2>1. Held(rsvp'[q]) \in Int
    BY <1>b, SpotsHeld, RsvpAssumption DEF Spots
  <2> QED BY <1>a, <1>b, <2>1 DEF Promote, OffWaitlist
<1>4. /\ HistoryAbout(q) /\ muddled' = Overlapping(q)
      /\ q \notin muddled' => ledger'[q] = Held(rsvp'[q])
  BY <1>a, <1>b, <1>3, Unmuddling, Accounted
<1>5. req[r].who = {} /\ req'[r] = e
  BY <1>a, UnderWay
<1>6. ASSUME q \notin muddled, ~Busy(q) PROVE OnTrack(r, q)'
  <2>1. q \notin muddled'
    BY <1>4, <1>6 DEF Overlapping
  <2> QED BY <1>c, <1>3, <1>4, <1>5, <2>1 DEF OnTrack, Answered, Booked, OwnKinds
<1>7. Clear(q)'
  BY <1>a, <1>c, <1>4, <1>6, Begun
<1> QED BY <1>a, <1>c, <1>1, <1>2, <1>3, <1>4, <1>5, <1>7, OneRequest

LEMMA MailOutcomeKeeps ==
    ASSUME RequestsInv, RsvpInv', RowsHavePlayers', NEW r \in Requests,
           NEW p \in Players, MailOutcome(r, p)
    PROVE  RequestsInv'
<1> DEFINE e == [req[r] EXCEPT !.at = "mailed", !.word = "none"]
<1>a. /\ req[r].at = "written" /\ req[r].who = {p} /\ UNCHANGED vars
      /\ Remember(muddled, [lastWord EXCEPT ![p] = req[r].word], ledger)
  BY DEF MailOutcome
<1>b. /\ RequestsTypeOK /\ req \in [Requests -> Local] /\ req[r] \in Local
      /\ WellFormed(req[r]) /\ WellFormed(Idle) /\ Idle \in Local
      /\ Idle.who = {}
      /\ p \notin muddled => OnTrack(r, p)
  BY <1>a, UnderWay DEF RequestsInv
<1>c. /\ req[r].kind \in {"signup", "public", "add", "promote"}
      /\ req[r].word \in Words
  BY <1>a, <1>b DEF WellFormed, Idle, Words
<1>1. /\ HistoryAbout(p) /\ muddled' = muddled /\ rsvp' = rsvp
      /\ p \notin muddled => lastWord'[p] = req[r].word /\ ledger'[p] = ledger[p]
  <2>1. ledger \in [Players -> Int] /\ muddled \in SUBSET Players
    BY <1>b DEF RequestsTypeOK
  <2>2. muddled \subseteq muddled \cup {p} /\ rsvp' = rsvp
    BY <1>a DEF vars
  <2> QED BY <1>a, <1>b, <1>c, <2>1, <2>2, WordGiven
<1>2. p \notin muddled => Told(p)'
  BY <1>a, <1>b, <1>1 DEF OnTrack, Told
<1>3. CASE Enforced(r)
  <2>1. req' = [req EXCEPT ![r] = e]
    BY <1>3 DEF MailOutcome, OnToNotice
  <2>2. e \in Local
    BY <1>b DEF Local
  <2>3. /\ e.at = "mailed" /\ e.who = {p} /\ e.kind = req[r].kind
        /\ e.before = req[r].before /\ e.after = req[r].after
    BY <1>a, <1>b DEF Local
  <2> HIDE DEF e
  <2>4. req[r].kind \in OwnKinds \cup {"public"}
    BY <1>3 DEF Enforced, OwnKinds
  <2>5. WellFormed(e) /\ req'[r] = e
    BY <1>a, <1>b, <2>1, <2>3, <2>4, NoticeEntry
  <2>6. ASSUME p \notin muddled PROVE OnTrack(r, p)'
    BY <1>a, <1>b, <1>1, <1>2, <2>3, <2>4, <2>5, <2>6 DEF OnTrack
  <2>7. Clear(p)'
    BY <1>a, <1>1, <2>1, <2>3, <2>6, Continued
  <2> QED BY <1>a, <1>1, <2>1, <2>2, <2>3, <2>5, <2>7, OneRequest
<1>4. CASE ~Enforced(r)
  <2>1. req' = [req EXCEPT ![r] = Idle]
    BY <1>4 DEF MailOutcome, Finish
  <2>2. ASSUME p \notin muddled PROVE Booked(p)'
    BY <1>a, <1>b, <1>c, <1>1, <1>4, <2>2 DEF OnTrack, Booked, Enforced
  <2>3. Clear(p)'
    BY <1>a, <1>1, <1>2, <2>1, <2>2, Ended
  <2> QED BY <1>a, <1>b, <1>1, <2>1, <2>3, OneRequest
<1> QED BY <1>3, <1>4

(* Of a player who is gone nothing is claimed: a row would still be there. *)
LEMMA MailNobodyKeeps ==
    ASSUME RequestsInv, RsvpInv', RowsHavePlayers', NEW r \in Requests,
           NEW p \in Players, MailNobody(r, p)
    PROVE  RequestsInv'
<1> DEFINE e == [req[r] EXCEPT !.at = "mailed", !.word = "none"]
<1>a. /\ req[r].at = "written" /\ req[r].who = {p} /\ p \notin players
      /\ UNCHANGED vars /\ UNCHANGED history
  BY DEF MailNobody
<1>b. /\ RequestsTypeOK /\ req \in [Requests -> Local] /\ req[r] \in Local
      /\ WellFormed(Idle) /\ Idle \in Local
      /\ Idle.who = {}
      /\ p \notin muddled => OnTrack(r, p)
  BY <1>a, UnderWay DEF RequestsInv
<1>1. p \in muddled
  BY <1>a, <1>b DEF RequestsInv, RowsHavePlayers, HasRow, OnTrack, Answered
<1>2. HistoryAbout(p) /\ p \in muddled' /\ rsvp' = rsvp
  BY <1>a, <1>b, <1>1, Unmuddling DEF history, vars
<1>3. Clear(p)'
  BY <1>2 DEF Clear
<1>4. CASE Finish(r)
  BY <1>a, <1>b, <1>2, <1>3, <1>4, OneRequest DEF Finish
<1>5. CASE Enforced(r) /\ OnToNotice(r)
  <2>1. req' = [req EXCEPT ![r] = e]
    BY <1>5 DEF OnToNotice
  <2>2. e \in Local
    BY <1>b DEF Local
  <2>3. /\ e.at = "mailed" /\ e.who = {p} /\ e.kind = req[r].kind
        /\ e.before = req[r].before
    BY <1>a, <1>b DEF Local
  <2> HIDE DEF e
  <2>4. WellFormed(e)
    BY <1>a, <1>5, <2>3, NoticeEntry DEF Enforced, OwnKinds
  <2> QED BY <1>a, <1>2, <1>3, <2>1, <2>2, <2>3, <2>4, OneRequest
<1> QED BY <1>4, <1>5 DEF MailNobody

LEMMA AnnounceKeeps ==
    ASSUME RequestsInv, RsvpInv', RowsHavePlayers', NEW r \in Requests,
           NEW p \in Players, Announce(r, p)
    PROVE  RequestsInv'
<1> DEFINE m == IF req[r].kind = "public" /\ ledger[p] # 0
                THEN muddled \cup {p} ELSE muddled
           n == ledger[p] - req[r].before + req[r].after
<1>a. /\ req[r].at = "mailed" /\ req[r].who = {p}
      /\ req' = [req EXCEPT ![r] = Idle] /\ UNCHANGED vars
      /\ Remember(m, lastWord, [ledger EXCEPT ![p] = n])
  BY DEF Announce, Finish
<1>b. /\ RequestsTypeOK /\ req[r] \in Local /\ WellFormed(req[r])
      /\ WellFormed(Idle) /\ Idle \in Local
      /\ Idle.who = {}
      /\ p \notin muddled => OnTrack(r, p)
  BY <1>a, UnderWay DEF RequestsInv
<1>c. /\ req[r].before \in Int /\ req[r].after \in Int /\ ledger[p] \in Int
      /\ rsvp \in [Players -> Entry]
  BY <1>b, RsvpAssumption DEF RequestsTypeOK, TypeOK, Local, Spots
<1>1. m \in SUBSET Players /\ muddled \subseteq m /\ n \in Int
  BY <1>b, <1>c DEF RequestsTypeOK
<1>d. p \notin m => p \notin muddled /\ (req[r].kind = "public" => ledger[p] = 0)
  OBVIOUS
<1>e. /\ req[r].kind \in OwnKinds \cup {"public"}
      /\ req[r].kind = "public" => req[r].before = 0
  BY <1>a, <1>b DEF WellFormed, Idle
<1>2. ASSUME p \notin m PROVE n = Held(rsvp[p])
  <2>1. req[r].after = Held(rsvp[p]) /\ ledger[p] = req[r].before
    BY <1>a, <1>b, <1>d, <1>e, <1>2 DEF OnTrack
  <2> QED BY <1>c, <2>1
<1> HIDE DEF m, n
<1>3. /\ HistoryAbout(p) /\ muddled' = m /\ rsvp' = rsvp
      /\ p \notin m => lastWord'[p] = lastWord[p] /\ ledger'[p] = n
  BY <1>a, <1>b, <1>1, Accounted DEF vars
<1>4. p \notin muddled' => p \notin muddled /\ Told(p)' /\ Booked(p)'
  BY <1>a, <1>b, <1>1, <1>2, <1>3 DEF OnTrack, Told, Booked, Answered
<1>5. Clear(p)'
  BY <1>a, <1>4, Ended
<1> QED BY <1>a, <1>b, <1>3, <1>5, OneRequest

LEMMA LapseKeeps ==
    ASSUME RequestsInv, RsvpInv', RowsHavePlayers', NEW r \in Requests, Lapse(r)
    PROVE  RequestsInv'
<1> DEFINE m == IF req[r].at = "loaded" THEN muddled ELSE muddled \cup req[r].who
<1>a. /\ req[r].at # "idle" /\ req' = [req EXCEPT ![r] = Idle]
      /\ Remember(m, lastWord, ledger) /\ UNCHANGED vars
  BY DEF Lapse, Finish
<1>b. /\ RequestsTypeOK /\ WellFormed(req[r]) /\ req[r] # Idle
      /\ WellFormed(Idle) /\ Idle \in Local /\ Idle.who = {}
  BY <1>a, UnderWay DEF RequestsInv
<1>1. PICK p \in Players : req[r].who = {p}
  BY <1>b DEF WellFormed
<1>c. p \notin muddled => OnTrack(r, p)
  BY <1>1, UnderWay
<1>2. m \in SUBSET Players /\ muddled \subseteq m
  BY <1>b, <1>1 DEF RequestsTypeOK
<1>3. p \notin m => p \notin muddled /\ req[r].at = "loaded"
  BY <1>1
<1> HIDE DEF m
<1>4. /\ HistoryAbout(p) /\ muddled' = m /\ rsvp' = rsvp
      /\ p \notin m => lastWord'[p] = lastWord[p] /\ ledger'[p] = ledger[p]
  BY <1>a, <1>b, <1>2, Unmuddling, Remembered DEF vars
<1>5. p \notin muddled' => p \notin muddled /\ Told(p)' /\ Booked(p)'
  BY <1>c, <1>3, <1>4 DEF OnTrack, Told, Booked, Answered
<1>6. Clear(p)'
  BY <1>a, <1>1, <1>5, Ended
<1> QED BY <1>a, <1>b, <1>1, <1>4, <1>6, OneRequest

-----------------------------------------------------------------------------
(* What else goes on *)

LEMMA RemoveKeeps ==
    ASSUME RequestsInv, RsvpInv', RowsHavePlayers', NEW p \in Players, Remove(p)
    PROVE  RequestsInv'
<1>a. /\ RequestsTypeOK /\ rsvp \in [Players -> Entry]
      /\ req' = req /\ req \in [Requests -> Local]
  BY DEF RequestsInv, RequestsTypeOK, TypeOK, Remove
<1>1. /\ Held(rsvp'[p]) = 0 /\ rsvp'[p].status = "cancelled"
      /\ \A q \in Players \ {p} : rsvp'[q] = rsvp[q]
  BY <1>a DEF Remove, Cancel, OffWaitlist, Held
<1>2. Remember(Overlapping(p), lastWord, [ledger EXCEPT ![p] = 0])
  BY DEF Remove
<1>3. /\ HistoryAbout(p) /\ muddled' = Overlapping(p)
      /\ p \notin muddled' => ledger'[p] = 0
  BY <1>a, <1>2, Unmuddling, Accounted
<1>4. Told(p)' /\ (p \notin muddled' => Booked(p)')
  BY <1>1, <1>3 DEF Told, Booked, Answered
<1>5. p \notin muddled' => ~Busy(p) /\ ~Busy(p)'
  BY <1>a, <1>3, Unmuddling DEF Busy
<1>6. Clear(p)'
  BY <1>a, <1>4, <1>5 DEF Clear, Busy
<1> QED BY <1>a, <1>1, <1>3, <1>6, OnlyAbout

LEMMA DeleteKeeps ==
    ASSUME RequestsInv, RsvpInv', RowsHavePlayers', NEW p \in Players, Delete(p)
    PROVE  RequestsInv'
<1> DEFINE m == IF Busy(p) THEN muddled \cup {p} ELSE muddled \ {p}
           account == [ledger EXCEPT ![p] = 0]
<1>a. /\ RequestsTypeOK /\ rsvp \in [Players -> Entry]
      /\ req' = req /\ req \in [Requests -> Local]
  BY DEF RequestsInv, RequestsTypeOK, TypeOK, Delete
<1>1. /\ Held(rsvp'[p]) = 0 /\ rsvp'[p].status = "none"
      /\ \A q \in Players \ {p} : rsvp'[q] = rsvp[q]
  BY <1>a DEF Delete, DeletePlayer, NoRow, Held
<1>2. Remember(m, [lastWord EXCEPT ![p] = "none"], account)
  BY DEF Delete
<1>3. /\ account \in [Players -> Int] /\ account[p] = 0
      /\ \A q \in Players \ {p} : account[q] = ledger[q]
  BY <1>a DEF RequestsTypeOK
<1>4. /\ m \in SUBSET Players /\ muddled \subseteq m \cup {p}
      /\ p \notin m => ~Busy(p)
  BY <1>a DEF RequestsTypeOK
<1> HIDE DEF m, account
<1>5. /\ HistoryAbout(p) /\ muddled' = m
      /\ p \notin muddled' => ledger'[p] = 0
  <2>1. "none" \in Words
    BY DEF Words
  <2> QED BY <1>a, <1>2, <1>3, <1>4, <2>1, WordGiven
<1>6. Told(p)' /\ (p \notin muddled' => Booked(p)')
  BY <1>1, <1>5 DEF Told, Booked, Answered
<1>7. Clear(p)'
  BY <1>a, <1>4, <1>5, <1>6 DEF Clear, Busy
<1> QED BY <1>a, <1>1, <1>5, <1>7, OnlyAbout

LEMMA ElsewhereKeeps ==
    ASSUME RequestsInv, RsvpInv', RowsHavePlayers', Elsewhere
    PROVE  RequestsInv'
<1>a. /\ RequestsTypeOK /\ rsvp \in [Players -> Entry]
      /\ UNCHANGED <<req, lastWord, ledger, muddled>>
  BY DEF RequestsInv, RequestsTypeOK, TypeOK, Elsewhere, history
<1>1. ASSUME NEW q \in Players
      PROVE  rsvp'[q] = rsvp[q] \/ (~HasRow(q) /\ rsvp'[q] = InvitedRow)
  BY <1>a DEF Elsewhere, EnsureInvites, UpdateSession, SetSessionStatus, CreatePlayer
<1>2. ASSUME NEW q \in Players PROVE Clear(q)'
  <2>1. Clear(q)
    BY DEF RequestsInv
  <2> QED BY <1>a, <1>1, <2>1, Untouched
<1>3. RequestsTypeOK'
  BY <1>a DEF RequestsTypeOK, RsvpInv
<1>4. (\A r \in Requests : WellFormed(req[r]))'
  BY <1>a DEF RequestsInv, WellFormed, Idle
<1>5. (\A q \in Players : Clear(q))'
  BY <1>2
<1> QED BY <1>3, <1>4, <1>5 DEF RequestsInv

-----------------------------------------------------------------------------

LEMMA RequestsStepInv ==
    RequestsInv /\ [RequestsNext]_requestVars => RequestsInv'
<1> SUFFICES ASSUME RequestsInv, [RequestsNext]_requestVars PROVE RequestsInv'
  OBVIOUS
<1>1. RsvpInv' /\ RowsHavePlayers'
  BY StepIsTransaction, StepInv, RowsStep DEF RequestsInv, RsvpInv
<1>2. ASSUME NEW r \in Requests, RequestStep(r) PROVE RequestsInv'
  BY <1>1, <1>2, LoadKeeps, ArriveKeeps, CommitSignupKeeps, CommitGuestsKeeps,
     CommitCancelKeeps, RefusedKeeps, CommitPromoteKeeps, MailOutcomeKeeps,
     MailNobodyKeeps, AnnounceKeeps, LapseKeeps DEF RequestStep
<1>3. CASE UNCHANGED requestVars
  <2>1. /\ UNCHANGED <<rsvp, req, lastWord, ledger, muddled>>
        /\ RequestsTypeOK
    BY <1>3 DEF requestVars, vars, history, RequestsInv
  <2>2. (\A q \in Players : Clear(q))'
    <3>1. ASSUME NEW q \in Players PROVE Clear(q)'
      BY <2>1, Untouched DEF RequestsInv
    <3> QED BY <3>1
  <2>3. (\A r \in Requests : WellFormed(req[r]))'
    BY <2>1 DEF RequestsInv, WellFormed, Idle
  <2>4. RequestsTypeOK'
    BY <1>1, <2>1 DEF RequestsTypeOK, RsvpInv
  <2> QED BY <1>1, <2>2, <2>3, <2>4 DEF RequestsInv
<1> QED BY <1>1, <1>2, <1>3, RemoveKeeps, DeleteKeeps, ElsewhereKeeps DEF RequestsNext

LEMMA RequestsInitInv == RequestsInit => RequestsInv
<1> SUFFICES ASSUME RequestsInit PROVE RequestsInv
  OBVIOUS
<1>1. RsvpInv /\ TypeOK
  BY InitInv DEF RequestsInit, RsvpInv
<1>2. Idle \in Local /\ Idle.who = {} /\ WellFormed(Idle)
  BY RsvpAssumption DEF Idle, Local, Spots, WellFormed
<1>3. /\ \A r \in Requests : req[r] = Idle
      /\ req \in [Requests -> Local]
  BY <1>2 DEF RequestsInit
<1>4. RequestsTypeOK
  BY <1>1, <1>3 DEF RequestsInit, RequestsTypeOK
<1>5. RowsHavePlayers
  BY DEF RequestsInit, Init, RowsHavePlayers, HasRow, NoRow
<1>6. ASSUME NEW p \in Players PROVE Clear(p)
  <2>1. rsvp[p] = NoRow /\ ledger[p] = 0
    BY DEF RequestsInit, Init
  <2>2. Told(p) /\ Booked(p)
    BY <2>1 DEF Told, Booked, Answered, Held, NoRow
  <2> QED BY <1>2, <1>3, <2>2 DEF Clear
<1> QED BY <1>1, <1>2, <1>3, <1>4, <1>5, <1>6 DEF RequestsInv

(* The spots somebody has are those of a confirmed entry. *)
LEMMA OnCourtIsHeld ==
    ASSUME TypeOK, NEW p \in Players
    PROVE  OnCourt(p) = Held(rsvp[p])
<1> DEFINE mine == {b \in Bodies(rsvp) : b[1] = p}
<1>1. rsvp \in [Players -> Entry] /\ rsvp[p].guests \in Nat
  BY RsvpAssumption DEF TypeOK, Entry, GuestCounts
<1>2. CASE rsvp[p].status = "confirmed"
  <2>1. p \in Confirmed(rsvp)
    BY <1>1, <1>2 DEF Confirmed
  <2>2. mine = {p} \X (0 .. rsvp[p].guests)
    BY <2>1 DEF Bodies, Party
  <2> QED BY <1>1, <1>2, <2>2, PartyCardinality DEF OnCourt, Held, PartySize
<1>3. CASE rsvp[p].status # "confirmed"
  <2>1. p \notin Confirmed(rsvp)
    BY <1>1, <1>3 DEF Confirmed
  <2>2. mine = {}
    BY <2>1 DEF Bodies, Party
  <2> QED BY <1>3, <2>2, FS_EmptySet DEF OnCourt, Held
<1> QED BY <1>2, <1>3

(* The inductive invariant: every request is where its stage says, whatever
   the others do, fail to do and delete. *)
THEOREM RequestsFollowed == RequestsSpec => []RequestsInv
BY RequestsInitInv, RequestsStepInv, PTL DEF RequestsSpec

(* Type correctness, for any number of people and of requests at a time. *)
THEOREM RequestsTypeCorrect == RequestsSpec => []RequestsTypeOK
<1>1. RequestsInv => RequestsTypeOK
  BY DEF RequestsInv
<1> QED BY <1>1, RequestsFollowed, PTL

(* For any number of people and of requests at a time: whoever is confirmed
   or waiting was last mailed exactly that, unless requests about this very
   person overlapped or one broke off. *)
THEOREM LastWordHolds == RequestsSpec => []LastWordTrue
<1>1. ASSUME RequestsInv, NEW p \in Confirmed(rsvp) \cup Waitlisted(rsvp),
             Settled(p)
      PROVE  lastWord[p] = rsvp[p].status
  <2>1. p \in Players /\ Answered(p)
    BY <1>1 DEF RequestsInv, RequestsTypeOK, TypeOK, Confirmed, Waitlisted, Answered
  <2> QED BY <1>1, <2>1 DEF RequestsInv, Clear, Settled, Told
<1>2. RequestsInv => LastWordTrue
  BY <1>1 DEF LastWordTrue
<1> QED BY <1>2, RequestsFollowed, PTL

(* For any number of people and of requests at a time: the changes told to
   the organizer add up to the spots each person really has. *)
THEOREM LedgerHolds == RequestsSpec => []LedgerTrue
<1>1. ASSUME RequestsInv, NEW p \in Players, Settled(p)
      PROVE  ledger[p] = OnCourt(p)
  <2>1. Booked(p)
    BY <1>1 DEF RequestsInv, Clear, Settled
  <2> QED BY <2>1, <1>1, OnCourtIsHeld DEF Booked, RequestsInv, RequestsTypeOK
<1>2. RequestsInv => LedgerTrue
  BY <1>1 DEF LedgerTrue
<1> QED BY <1>2, RequestsFollowed, PTL
=============================================================================
