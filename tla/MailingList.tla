----------------------------- MODULE MailingList ----------------------------
(***************************************************************************)
(* The table of players and who of them gets the weekly mail (internal/    *)
(* store/player.go, internal/web/handlers_players.go and the parts of the  *)
(* participant handlers that create players or let them opt out).  Rows    *)
(* are named by their id in pages and between the calls of a handler; the  *)
(* id of the last row is handed out again once that row is deleted.        *)
(*                                                                         *)
(*   table    the rows: address, whether on the list, whether opted out    *)
(*   req      what each request holds; a page of the organizer that is     *)
(*            open in a browser counts as one                              *)
(*   chosen   addresses the organizer's last decision put on the list,     *)
(*            history                                                      *)
(*   out      addresses whose owner opted out since they or the organizer  *)
(*            last said otherwise, history                                 *)
(*   crossed  addresses set aside, history: a request failed or an opt-out *)
(*            came in the middle of a save, or a request used the id of a  *)
(*            row deleted since                                            *)
(***************************************************************************)
EXTENDS Integers, FiniteSets

CONSTANTS
    Addresses,  \* email addresses, letters in either case being the same
    LastId,     \* bound: ids handed out
    Requests    \* requests and open pages at the same time

ASSUME MailingListAssumption == LastId \in Nat /\ "none" \notin Addresses

VARIABLES table, req, chosen, out, crossed

history == <<chosen, out, crossed>>
vars == <<table, req, chosen, out, crossed>>

Ids == 1..LastId
Nobody == [address |-> "none", active |-> FALSE, unsubscribed |-> FALSE]
Player == [address : Addresses, active : BOOLEAN, unsubscribed : BOOLEAN]

Idle == [at |-> "idle", id |-> 0, address |-> "none", shown |-> FALSE,
         stale |-> FALSE]
Local == [at      : {"idle", "page", "saved", "loaded", "answered",
                     "unanswered", "link", "absent"},
          id      : Ids \cup {0},
          address : Addresses \cup {"none"},
          shown   : BOOLEAN,   \* the box on the page, or to be ticked
          stale   : BOOLEAN]   \* history: the row was deleted since

Rows == {i \in Ids : table[i] # Nobody}
RowOf(e) == {i \in Rows : table[i].address = e}
Known == {table[i].address : i \in Rows}

(* INTEGER PRIMARY KEY without AUTOINCREMENT: ids go on from the largest. *)
NextIds(I) == \A i \in I : /\ \A j \in Rows : j < i
                           /\ i = 1 \/ i - 1 \in Rows \cup I

(* MailablePlayers: active = 1 AND unsubscribed_at IS NULL *)
Mailable == {table[i].address :
               i \in {j \in Rows : table[j].active /\ ~table[j].unsubscribed}}

NewPlayer(e, listed) == [address |-> e, active |-> listed, unsubscribed |-> FALSE]

TypeOK ==
    /\ table \in [Ids -> Player \cup {Nobody}]
    /\ \A i, j \in Rows : table[i].address = table[j].address => i = j
    /\ req \in [Requests -> Local]
    /\ chosen \subseteq Known
    /\ out \subseteq Known
    /\ crossed \subseteq Addresses

Init ==
    /\ table = [i \in Ids |-> Nobody]
    /\ req = [r \in Requests |-> Idle]
    /\ chosen = {} /\ out = {} /\ crossed = {}

Finish(r) == req' = [req EXCEPT ![r] = Idle]
GoOn(r, at) == req' = [req EXCEPT ![r].at = at]
Hold(r, at, i) ==
    req' = [req EXCEPT ![r] = [at |-> at, id |-> i, address |-> table[i].address,
                               shown |-> table[i].active, stale |-> FALSE]]

(* What was known of one address is known of another. *)
Renamed(S, e, f) == IF e \in S THEN (S \ {e}) \cup {f} ELSE S \ {f}

(* A save of the row of i is between its two statements. *)
Saving(i) == \E r \in Requests : req[r].at = "saved" /\ req[r].id = i

-----------------------------------------------------------------------------
(* Statements on the table *)

(* The unique index: CreatePlayer fails with ErrDuplicateEmail. *)
CreatePlayer(e, listed) ==
    IF e \in Known THEN UNCHANGED <<table, history>>
    ELSE /\ \E i \in Ids : /\ NextIds({i})
                           /\ table' = [table EXCEPT ![i] = NewPlayer(e, listed)]
         /\ chosen' = IF listed THEN chosen \cup {e} ELSE chosen
         /\ UNCHANGED <<out, crossed>>

(* UpdatePlayer writes address and membership; without the row it changes
   nothing, and an address of somebody else is refused.  A save that ticks the
   box is also the decision to overrule an opt-out. *)
UpdatePlayer(r, e, listed) ==
    LET i == req[r].id
        was == table[i].address
    IN  /\ table' = [table EXCEPT ![i].address = e, ![i].active = listed]
        /\ chosen' = IF listed THEN (chosen \ {was}) \cup {e} ELSE chosen \ {was, e}
        /\ out' = IF listed THEN out \ {was, e} ELSE Renamed(out, was, e)
        /\ crossed' = IF req[r].stale \/ was \in crossed THEN crossed \cup {was, e}
                      ELSE crossed \ {e}

(* The variant lets two players have one address. *)
Refused_Never(r, e) == FALSE

Refused(r, e) == req[r].id \in Rows /\ RowOf(e) \ {req[r].id} # {}

(* SetUnsubscribed, of a row that exists. *)
SetUnsubscribed(i, value) == table' = [table EXCEPT ![i].unsubscribed = value]

(* DeletePlayer, and every other request that knows the id is out of date. *)
DeletePlayer(r) ==
    LET i == req[r].id
        was == table[i].address
    IN  /\ table' = [table EXCEPT ![i] = Nobody]
        /\ req' = [x \in Requests |-> IF x = r THEN Idle
                      ELSE [req[x] EXCEPT !.stale = @ \/ req[x].id = i]]
        /\ chosen' = chosen \ {was} /\ out' = out \ {was}
        /\ crossed' = IF req[r].stale THEN crossed \cup {was} ELSE crossed \ {was}

(* ImportPlayers, one transaction: who is there is on the list again, but an
   opt-out stays; everybody else is added.  The variant clears opt-outs. *)
ImportPlayers_ClearsOptOut(S) ==
    LET new == S \ Known IN
    \E id \in [new -> Ids] :
        LET I == {id[e] : e \in new} IN
        /\ NextIds(I) /\ \A e, f \in new : id[e] = id[f] => e = f
        /\ table' = [i \in Ids |->
             IF i \in I THEN NewPlayer(CHOOSE e \in new : id[e] = i, TRUE)
             ELSE IF table[i].address \in S
             THEN NewPlayer(table[i].address, TRUE)
             ELSE table[i]]
        /\ chosen' = chosen \cup S
        /\ UNCHANGED <<req, out, crossed>>

ImportPlayers(S) ==
    LET new == S \ Known IN
    \E id \in [new -> Ids] :
        LET I == {id[e] : e \in new} IN
        /\ NextIds(I) /\ \A e, f \in new : id[e] = id[f] => e = f
        /\ table' = [i \in Ids |->
             IF i \in I THEN NewPlayer(CHOOSE e \in new : id[e] = i, TRUE)
             ELSE IF table[i].address \in S THEN [table[i] EXCEPT !.active = TRUE]
             ELSE table[i]]
        /\ chosen' = chosen \cup S
        /\ UNCHANGED <<req, out, crossed>>

-----------------------------------------------------------------------------
(* The page of the mailing list: its forms hold what it showed of a row. *)

OpenPage(r, i) ==
    /\ req[r].at = "idle" /\ i \in Rows
    /\ Hold(r, "page", i)
    /\ UNCHANGED <<table, history>>

(* handlePlayerCreate *)
AddPlayer(r, e) ==
    /\ req[r].at = "idle"
    /\ CreatePlayer(e, TRUE)
    /\ UNCHANGED req

(* handlePlayerUpdate: the whole row as the form has it, then the opt-out. *)
SaveRow(r, e, listed) ==
    /\ req[r].at = "page"
    /\ IF listed /\ ~Refused(r, e) THEN GoOn(r, "saved") ELSE Finish(r)
    /\ IF req[r].id \in Rows /\ ~Refused(r, e) THEN UpdatePlayer(r, e, listed)
       ELSE UNCHANGED <<table, history>>

UndoOptOut(r) ==
    /\ req[r].at = "saved"
    /\ Finish(r)
    /\ IF req[r].id \in Rows
       THEN /\ SetUnsubscribed(req[r].id, FALSE)
            /\ crossed' = IF req[r].stale
                          THEN crossed \cup {table[req[r].id].address} ELSE crossed
       ELSE UNCHANGED <<table, crossed>>
    /\ UNCHANGED <<chosen, out>>

(* handlePlayerDelete looks the row up, asks for history (what there is of it
   is for Rsvp to say), and then deletes the row or writes it back as it was
   looked up, off the list. *)
Remove(r) ==
    /\ req[r].at = "page"
    /\ IF req[r].id \in Rows
       THEN req' = [req EXCEPT ![r].at = "loaded",
                               ![r].address = table[req[r].id].address]
       ELSE Finish(r)
    /\ UNCHANGED <<table, history>>

AskHistory(r, answer) ==
    /\ req[r].at = "loaded"
    /\ GoOn(r, answer)
    /\ UNCHANGED <<table, history>>

Deactivate(r) ==
    /\ req[r].at = "answered"
    /\ Finish(r)
    /\ IF req[r].id \in Rows /\ ~Refused(r, req[r].address)
       THEN UpdatePlayer(r, req[r].address, FALSE)
       ELSE UNCHANGED <<table, history>>

DeleteNow(r) ==
    /\ req[r].at = "unanswered"
    /\ IF req[r].id \in Rows THEN DeletePlayer(r)
       ELSE Finish(r) /\ UNCHANGED <<table, history>>

Import(r, S) ==
    /\ req[r].at = "idle"
    /\ ImportPlayers(S)

-----------------------------------------------------------------------------
(* Participants *)

(* handleUnsubscribePost: the token of the link names the row, and is gone
   with it; what follows uses the id. *)
FollowLink(r, i) ==
    /\ req[r].at = "idle" /\ i \in Rows
    /\ Hold(r, "link", i)
    /\ UNCHANGED <<table, history>>

OptOutOrIn(r, leave) ==
    /\ req[r].at = "link"
    /\ Finish(r)
    /\ IF req[r].id \in Rows
       THEN LET i == req[r].id
                e == table[i].address
            IN  /\ SetUnsubscribed(i, leave)
                /\ out' = IF leave THEN out \cup {e} ELSE out \ {e}
                /\ crossed' = IF req[r].stale \/ (leave /\ Saving(i))
                              THEN crossed \cup {e} ELSE crossed
       ELSE UNCHANGED <<table, out, crossed>>
    /\ UNCHANGED chosen

(* handlePublicSignupPost and handleAddParticipant: nothing is created for an
   address that is found, whatever the organizer's box says. *)
LookUp(r, e, listed) ==
    /\ req[r].at = "idle" /\ e \notin Known
    /\ req' = [req EXCEPT ![r] = [Idle EXCEPT !.at = "absent", !.address = e,
                                             !.shown = listed]]
    /\ UNCHANGED <<table, history>>

(* The second of two at once gets ErrDuplicateEmail and an error page. *)
CreateAbsent(r) ==
    /\ req[r].at = "absent"
    /\ CreatePlayer(req[r].address, req[r].shown)
    /\ Finish(r)

-----------------------------------------------------------------------------
(* A page is closed, a call fails or the process dies. *)
Lapse(r) ==
    /\ req[r].at # "idle"
    /\ Finish(r)
    /\ crossed' = IF req[r].at = "saved" /\ req[r].id \in Rows
                  THEN crossed \cup {table[req[r].id].address} ELSE crossed
    /\ UNCHANGED <<table, chosen, out>>

OrganizerStep(r) ==
    \/ \E i \in Ids : OpenPage(r, i)
    \/ \E e \in Addresses : AddPlayer(r, e) \/ \E listed \in BOOLEAN : SaveRow(r, e, listed)
    \/ UndoOptOut(r) \/ Remove(r) \/ Deactivate(r) \/ DeleteNow(r)
    \/ \E answer \in {"answered", "unanswered"} : AskHistory(r, answer)
    \/ \E S \in (SUBSET Addresses) \ {{}} : Import(r, S)

ParticipantStep(r) ==
    \/ \E i \in Ids : FollowLink(r, i)
    \/ \E leave \in BOOLEAN : OptOutOrIn(r, leave)
    \/ \E e \in Addresses, listed \in BOOLEAN : LookUp(r, e, listed)
    \/ CreateAbsent(r)

Next == \E r \in Requests : OrganizerStep(r) \/ ParticipantStep(r) \/ Lapse(r)

Spec == Init /\ [][Next]_vars

-----------------------------------------------------------------------------
(* Who gets the weekly mail is who was last put on the list by the organizer
   and has not opted out since, through any mixture of forms, imports, signups
   and deletions: a signup lists nobody, an import overrules no opt-out, a
   save does, and a removal takes away only whom it names.  Not so in the
   middle of a save and for the addresses set aside. *)
ListedAsDecided ==
    \A e \in Addresses :
        e \notin crossed /\ (\A i \in RowOf(e) : ~Saving(i))
        => (e \in Mailable <=> e \in chosen /\ e \notin out)

(* "Editing someone back onto the list should also undo an old unsubscribe":
   one that was there before is undone only if the save puts its owner back, on
   a page that showed the box without a tick. *)
OnlyThosePutBack ==
    [][\A r \in Requests :
         UndoOptOut(r) /\ (\E i \in Rows : /\ i = req[r].id
                                           /\ table[i].unsubscribed
                                           /\ table[i].address \notin crossed)
         => ~req[r].shown]_vars
=============================================================================
