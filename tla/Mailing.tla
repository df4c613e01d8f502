------------------------------- MODULE Mailing ------------------------------
(***************************************************************************)
(* The organizer's requests that concern everybody at once (internal/web/  *)
(* handlers_sessions.go: handleSendInvitation, handleSendReminder and      *)
(* handleSessionStatus) and the one that takes a player off the list       *)
(* (handlers_players.go: handlePlayerDelete).  Each is a sequence of store *)
(* calls in which an early call's result decides later ones; participants, *)
(* other requests and failures come in between.                            *)
(*                                                                         *)
(*   req             what each handler goroutine is in the middle of       *)
(*   listed          the players MailablePlayers returns: active and not   *)
(*                   unsubscribed                                          *)
(*   invitationSent  session.invitation_sent_at is set                     *)
(*   linked          people who were sent a link to their row, history     *)
(*   informed        while the session is cancelled, the people who were   *)
(*                   told so, history                                      *)
(*   untold          and those whose mail a failing call cost, history     *)
(*   live            the links of an invitation went out to work, and the  *)
(*                   organizer has not made the session a draft since,     *)
(*                   history                                               *)
(***************************************************************************)
EXTENDS Rsvp

CONSTANTS
    Requests,  \* handler goroutines at work at the same time
    Kinds      \* bound: the kinds of request each of them may be

VARIABLES req, listed, invitationSent, linked, informed, untold, live

listVars == <<listed, invitationSent>>
cancelHistory == <<informed, untold>>
mailHistory == <<linked, cancelHistory, live>>
mailingVars == <<vars, req, listVars, mailHistory>>

Local == [kind   : {"none", "invite", "remind", "cancel", "delete"},
          at     : {"idle", "loaded", "listed", "ensured", "composed",
                    "queued", "marked", "unanswered", "answered"},
          who    : SUBSET Players,
          gone   : SUBSET Players,  \* history: those of who deleted since
          resend : BOOLEAN,
          draft  : BOOLEAN]

Idle == [kind |-> "none", at |-> "idle", who |-> {}, gone |-> {},
         resend |-> FALSE, draft |-> FALSE]

MailingTypeOK ==
    /\ TypeOK
    /\ req \in [Requests -> Local]
    /\ listed \subseteq players
    /\ invitationSent \in BOOLEAN
    /\ linked \subseteq Players
    /\ informed \subseteq Players
    /\ untold \subseteq Players
    /\ live \in BOOLEAN

MailingInit ==
    /\ Init
    /\ req = [r \in Requests |-> Idle]
    /\ listed \in SUBSET players
    /\ invitationSent = FALSE
    /\ linked = {}
    /\ informed = {}
    /\ untold = {}
    /\ live = FALSE

At(r, kind, at) == req[r].kind = kind /\ req[r].at = at
ToList(r) == req[r].kind \in {"invite", "remind"}

Start(kind) == [Idle EXCEPT !.kind = kind, !.at = "loaded"]
GoOn(r, at) == req' = [req EXCEPT ![r].at = at]
GoOnWith(r, at, S) ==
    req' = [req EXCEPT ![r].at = at, ![r].who = S, ![r].gone = @ \cap S]
Finish(r) == req' = [req EXCEPT ![r] = Idle]

(* Of a session that is cancelled it is remembered who was told, and who was
   to be told and was missed. *)
Informs(told, missed) ==
    IF status = "cancelled"
    THEN /\ informed' = informed \cup told
         /\ untold' = (untold \cup missed) \ (informed \cup told)
    ELSE UNCHANGED cancelHistory

NoLongerCancelled == informed' = {} /\ untold' = {}

(* An invitation is out and the session, a draft when its handler loaded it,
   is still to be opened by that handler. *)
Opening(r) ==
    /\ req[r].kind = "invite" /\ req[r].draft
    /\ req[r].at \in {"queued", "marked"}

-----------------------------------------------------------------------------
(* Invitations and reminders *)

(* The guard against a double click reads the session as it is loaded, and
   wants the resend box ticked once an invitation was sent; the page shows the
   box only then. *)
LoadInvitation(r) ==
    /\ "invite" \in Kinds[r]
    /\ req[r].at = "idle"
    /\ req' = [req EXCEPT ![r] = [Start("invite") EXCEPT
                  !.resend = invitationSent, !.draft = (status = "draft")]]
    /\ UNCHANGED <<vars, listVars, mailHistory>>

LoadReminder(r) ==
    /\ "remind" \in Kinds[r]
    /\ req[r].at = "idle"
    /\ req' = [req EXCEPT ![r] = Start("remind")]
    /\ UNCHANGED <<vars, listVars, mailHistory>>

(* MailablePlayers; with nobody on the list neither mails anybody. *)
ReadList(r) ==
    /\ ToList(r) /\ req[r].at = "loaded"
    /\ IF listed = {} THEN Finish(r) ELSE GoOnWith(r, "listed", listed)
    /\ UNCHANGED <<vars, listVars, mailHistory>>

EnsureRows(r) ==
    /\ ToList(r) /\ req[r].at = "listed"
    /\ EnsureInvites(req[r].who)
    /\ GoOn(r, "ensured")
    /\ UNCHANGED <<listVars, mailHistory>>

(* A variant that composes for the list as it is now. *)
ReadEntries_Relist(r) ==
    /\ ToList(r) /\ req[r].at = "ensured"
    /\ GoOnWith(r, "composed", listed)
    /\ UNCHANGED <<vars, listVars, mailHistory>>

(* The entries are read after the transaction.  Who has no row by now gets
   no mail; a reminder leaves out those who answered unless it is for all. *)
ReadEntries(r) ==
    /\ ToList(r) /\ req[r].at = "ensured"
    /\ LET rows == {p \in req[r].who : HasRow(p)}
           open == rows \ (Confirmed(rsvp) \cup Waitlisted(rsvp))
       IN  \/ GoOnWith(r, "composed", rows)
           \/ req[r].kind = "remind" /\ GoOnWith(r, "composed", open)
    /\ UNCHANGED <<vars, listVars, mailHistory>>

(* Enqueue is one transaction; nobody to remind ends a reminder before it.
   The foreign key refuses a player who is gone, but not one created since
   under the same id, which SQLite may hand out again: the mail and its link
   are then for the former one. *)
QueueForList(r) ==
    /\ ToList(r) /\ req[r].at = "composed"
    /\ req[r].who \subseteq players
    /\ linked' = linked \cup (req[r].who \ req[r].gone)
    /\ IF req[r].kind = "remind" THEN Finish(r) ELSE GoOnWith(r, "queued", {})
    /\ live' = (live \/ (req[r].kind = "invite"
                         /\ (req[r].draft \/ status # "draft")))
    /\ UNCHANGED <<vars, listVars, cancelHistory>>

(* A variant that forgets to open the draft. *)
MarkInvitationSent_StaysDraft(r) ==
    /\ At(r, "invite", "queued")
    /\ invitationSent' = TRUE
    /\ Finish(r)
    /\ UNCHANGED <<vars, listed, mailHistory>>

MarkInvitationSent(r) ==
    /\ At(r, "invite", "queued")
    /\ invitationSent' = TRUE
    /\ IF req[r].draft THEN GoOn(r, "marked") ELSE Finish(r)
    /\ UNCHANGED <<vars, listed, mailHistory>>

(* The session was a draft when it was loaded, so it is opened. *)
OpenDraft(r) ==
    /\ At(r, "invite", "marked")
    /\ SetSessionStatus("open")
    /\ Finish(r)
    /\ NoLongerCancelled
    /\ UNCHANGED <<listVars, linked, live>>

-----------------------------------------------------------------------------
(* The status form *)

SetStatus(r, new) ==
    /\ new = "cancelled" => "cancel" \in Kinds[r]
    /\ req[r].at = "idle"
    /\ SetSessionStatus(new)
    /\ IF new = "cancelled"
       THEN /\ req' = [req EXCEPT ![r] = Start("cancel")]
            /\ UNCHANGED cancelHistory
       ELSE req' = req /\ NoLongerCancelled
    /\ live' = (live /\ new # "draft")
    /\ UNCHANGED <<listVars, linked>>

(* A variant that forgets those who wait. *)
ReadRoster_Confirmed(r) ==
    /\ At(r, "cancel", "loaded")
    /\ GoOnWith(r, "composed", Confirmed(rsvp))
    /\ UNCHANGED <<vars, listVars, mailHistory>>

(* "Cancelling has to tell the people who were coming." *)
ReadRoster(r) ==
    /\ At(r, "cancel", "loaded")
    /\ GoOnWith(r, "composed", Confirmed(rsvp) \cup Waitlisted(rsvp))
    /\ UNCHANGED <<vars, listVars, mailHistory>>

(* Each player is looked up before the mails are queued in one transaction.
   One deleted before the lookup is left out, and so is one whose lookup fails
   for any other reason: the request goes on and succeeds without them. *)
QueueCancelled(r) ==
    /\ At(r, "cancel", "composed")
    /\ \E missed \in SUBSET (req[r].who \cap players) :
          Informs((req[r].who \cap players) \ missed, missed)
    /\ Finish(r)
    /\ UNCHANGED <<vars, listVars, linked, live>>

-----------------------------------------------------------------------------
(* Taking a player off the list *)

LoadPlayer(r, p) ==
    /\ "delete" \in Kinds[r]
    /\ req[r].at = "idle"
    /\ p \in players
    /\ req' = [req EXCEPT ![r] = [Start("delete") EXCEPT !.who = {p}]]
    /\ UNCHANGED <<vars, listVars, mailHistory>>

CheckHistory(r, p) ==
    /\ At(r, "delete", "loaded") /\ req[r].who = {p}
    /\ GoOn(r, IF rsvp[p].status \in {"none", "invited"} THEN "unanswered"
               ELSE "answered")
    /\ UNCHANGED <<vars, listVars, mailHistory>>

Deactivate(r, p) ==
    /\ At(r, "delete", "answered") /\ req[r].who = {p}
    /\ listed' = listed \ {p}
    /\ Finish(r)
    /\ UNCHANGED <<vars, invitationSent, mailHistory>>

(* Requests under way do not learn of it; the history field does. *)
FinishWithout(r, p) ==
    req' = [x \in Requests |->
              IF x = r THEN Idle
              ELSE [req[x] EXCEPT !.gone = @ \cup ({p} \cap req[x].who)]]

(* A variant in which the deleted player stays on the list. *)
DeleteNow_KeepsListed(r, p) ==
    /\ At(r, "delete", "unanswered") /\ req[r].who = {p}
    /\ DeletePlayer(p) \/ (p \notin players /\ UNCHANGED vars)
    /\ linked' = linked \ {p}
    /\ FinishWithout(r, p)
    /\ UNCHANGED <<listVars, cancelHistory, live>>

DeleteNow(r, p) ==
    /\ At(r, "delete", "unanswered") /\ req[r].who = {p}
    /\ DeletePlayer(p) \/ (p \notin players /\ UNCHANGED vars)
    /\ listed' = listed \ {p}
    /\ linked' = linked \ {p}
    /\ FinishWithout(r, p)
    /\ UNCHANGED <<invitationSent, cancelHistory, live>>

-----------------------------------------------------------------------------
(* Failure: a foreign key refuses a player deleted meanwhile, the client goes
   away, a call fails or the process dies.  A request ends between any two of
   its calls, and whom it was to tell of a cancellation is not told. *)
Lapse(r) ==
    /\ req[r].at # "idle"
    /\ Informs({}, CASE At(r, "cancel", "loaded") ->
                         Confirmed(rsvp) \cup Waitlisted(rsvp)
                    [] At(r, "cancel", "composed") -> req[r].who
                    [] OTHER -> {})
    /\ live' = (live /\ ~(Opening(r) /\ status = "draft"))
    /\ Finish(r)
    /\ UNCHANGED <<vars, listVars, linked>>

RequestStep(r) ==
    \/ LoadInvitation(r) \/ LoadReminder(r) \/ ReadList(r) \/ EnsureRows(r) \/ ReadEntries(r)
    \/ QueueForList(r) \/ MarkInvitationSent(r) \/ OpenDraft(r)
    \/ \E new \in SessionStatus : SetStatus(r, new)
    \/ ReadRoster(r) \/ QueueCancelled(r)
    \/ \E p \in Players : \/ LoadPlayer(r, p) \/ CheckHistory(r, p)
                          \/ Deactivate(r, p) \/ DeleteNow(r, p)
    \/ Lapse(r)

-----------------------------------------------------------------------------
(* What participants and the organizer do meanwhile, one call at a time. *)

Participant ==
    /\ \E p \in Players : ParticipantStep(p)
    /\ UNCHANGED <<req, listVars, mailHistory>>

(* AddParticipant: the organizer's confirmation tells people what they are
   added to, unless it fails after the transaction. *)
AddByHand(p, g) ==
    /\ Signup(p, g, FALSE)
    /\ Informs({p}, {}) \/ Informs({}, {p})
    /\ UNCHANGED <<req, listVars, linked, live>>

PromoteByHand ==
    /\ PromoteNext
    /\ UNCHANGED <<req, listVars, mailHistory>>

(* A new player is on the list, or not if the public page made the row. *)
NewPlayer(p, active) ==
    /\ CreatePlayer(p)
    /\ listed' = IF active THEN listed \cup {p} ELSE listed
    /\ UNCHANGED <<req, invitationSent, mailHistory>>

(* SetUnsubscribed, and whatever else takes people off the list or back. *)
Unsubscribe(p) ==
    /\ listed' = listed \ {p}
    /\ UNCHANGED <<vars, req, invitationSent, mailHistory>>

Resubscribe(p) ==
    /\ p \in players
    /\ listed' = listed \cup {p}
    /\ UNCHANGED <<vars, req, invitationSent, mailHistory>>

MailingNext ==
    \/ \E r \in Requests : RequestStep(r)
    \/ Participant \/ PromoteByHand
    \/ \E p \in Players :
          \/ \E g \in GuestCounts : AddByHand(p, g)
          \/ \E active \in BOOLEAN : NewPlayer(p, active)
          \/ Unsubscribe(p) \/ Resubscribe(p)

MailingSpec == MailingInit /\ [][MailingNext]_mailingVars

-----------------------------------------------------------------------------
(* Safety *)

(* Nobody comes to a cancelled session unawares: while it is cancelled and no
   request is still about to tell people, everybody confirmed or waiting was
   sent the news, was added and mailed afterwards by the organizer, or is one
   whose own mail a failing call cost.  Signups race with the form: this needs
   the status set before the roster is read. *)
NobodyUninformed ==
    status = "cancelled" /\ (\A r \in Requests : req[r].kind # "cancel")
    => Confirmed(rsvp) \cup Waitlisted(rsvp) \subseteq informed \cup untold

(* Every link that was mailed to a player who still exists finds a row, also
   for players who join or leave between the calls of the request. *)
LinksWork == \A p \in linked : HasRow(p)

(* "A draft that has just been invited must accept signups, or every link in
   the email that just went out is dead": once the links are out the session
   is a draft only until the handlers that mailed them have opened it, unless
   one of those failed on the way or the organizer made it a draft again.
   Invitations, status forms and failures come in any order, and whether to
   open is decided by the status as it was loaded. *)
InvitationOpens == live /\ status = "draft" => \E r \in Requests : Opening(r)

-----------------------------------------------------------------------------
(* What comments and pages say and the program does not do *)

(* "Guard against a double click turning 32 emails into 64": an invitation
   is queued without the resend box ticked only if none was sent before. *)
DoubleClickGuarded ==
    [][\A r \in Requests :
         QueueForList(r) /\ req[r].kind = "invite" /\ ~req[r].resend
         => ~invitationSent]_mailingVars
=============================================================================
