--------------------------- MODULE MailingProofs ----------------------------
(***************************************************************************)
(* The organizer's many-step requests of Mailing: nobody stays uninformed  *)
(* of a cancelled session unnoticed; the links that were mailed lead to    *)
(* rows; a draft that was invited is opened.  The inductive invariant      *)
(* MailingInv says, beside the types,                                      *)
(*   RowsHavePlayers  no row outlives its player (from RsvpProofs)         *)
(*   ToldOrTelling    who has to be told has been, was missed by a failing *)
(*                    call, or is still to be found or already listed by a *)
(*                    request under way                                    *)
(*   LinksKept        who a composed mail is for still has a row, unless   *)
(*                    deleted since the request read it                    *)
(***************************************************************************)
EXTENDS Mailing, RsvpProofs

Coming == Confirmed(rsvp) \cup Waitlisted(rsvp)

Telling(p) == \E r \in Requests :
    /\ req[r].kind = "cancel"
    /\ req[r].at = "loaded" \/ (req[r].at = "composed" /\ p \in req[r].who)

ToldOrTelling ==
    status = "cancelled" =>
        \A p \in Coming : p \in informed \cup untold \/ Telling(p)

LinksKept == \A r \in Requests :
    ToList(r) /\ req[r].at = "composed" =>
        \A p \in req[r].who \ req[r].gone : HasRow(p)

MailingInv ==
    /\ RsvpInv /\ MailingTypeOK
    /\ RowsHavePlayers /\ ToldOrTelling /\ LinksKept /\ LinksWork
    /\ InvitationOpens

(* Every step of these requests is one transaction of the store or none. *)
LEMMA MailingStepIsTransaction ==
    ASSUME [MailingNext]_mailingVars
    PROVE  [Next]_vars
<1>1. ASSUME NEW r \in Requests, RequestStep(r) PROVE [Next]_vars
  <2>1. CASE LoadInvitation(r) \/ LoadReminder(r) \/ ReadList(r) \/ ReadEntries(r)
             \/ QueueForList(r) \/ MarkInvitationSent(r) \/ ReadRoster(r)
             \/ QueueCancelled(r) \/ Lapse(r)
    BY <2>1 DEF LoadInvitation, LoadReminder, ReadList, ReadEntries, QueueForList,
                MarkInvitationSent, ReadRoster, QueueCancelled, Lapse
  <2>2. CASE EnsureRows(r)
    <3>1. req[r].who \subseteq players /\ EnsureInvites(req[r].who)
      BY <2>2 DEF EnsureRows, EnsureInvites
    <3> QED BY <3>1 DEF Next, OrganizerStep
  <2>3. CASE OpenDraft(r)
    <3>1. "open" \in SessionStatus /\ SetSessionStatus("open")
      BY <2>3 DEF OpenDraft, SessionStatus
    <3> QED BY <3>1 DEF Next, OrganizerStep
  <2>4. ASSUME NEW new \in SessionStatus, SetStatus(r, new) PROVE [Next]_vars
    BY <2>4 DEF SetStatus, Next, OrganizerStep
  <2>5. ASSUME NEW p \in Players,
               LoadPlayer(r, p) \/ CheckHistory(r, p) \/ Deactivate(r, p)
        PROVE  [Next]_vars
    BY <2>5 DEF LoadPlayer, CheckHistory, Deactivate
  <2>6. ASSUME NEW p \in Players, DeleteNow(r, p) PROVE [Next]_vars
    BY <2>6 DEF DeleteNow, Next, OrganizerStep
  <2> QED BY <1>1, <2>1, <2>2, <2>3, <2>4, <2>5, <2>6 DEF RequestStep
<1>2. CASE Participant
  BY <1>2 DEF Participant, Next
<1>3. CASE PromoteByHand
  BY <1>3 DEF PromoteByHand, Next, OrganizerStep
<1>4. ASSUME NEW p \in Players, NEW g \in GuestCounts, AddByHand(p, g)
      PROVE  [Next]_vars
  BY <1>4 DEF AddByHand, Next, OrganizerStep
<1>5. ASSUME NEW p \in Players, NEW active \in BOOLEAN, NewPlayer(p, active)
      PROVE  [Next]_vars
  BY <1>5 DEF NewPlayer, Next, OrganizerStep
<1>6. ASSUME NEW p \in Players, Unsubscribe(p) \/ Resubscribe(p) PROVE [Next]_vars
  BY <1>6 DEF Unsubscribe, Resubscribe
<1>7. CASE UNCHANGED mailingVars
  BY <1>7 DEF mailingVars
<1> QED BY <1>1, <1>2, <1>3, <1>4, <1>5, <1>6, <1>7 DEF MailingNext

-----------------------------------------------------------------------------
(* Types *)

LEMMA LocalFields ==
    ASSUME NEW e \in Local
    PROVE  /\ \A at \in {"idle", "loaded", "listed", "ensured", "composed",
                         "queued", "marked", "unanswered", "answered"} :
                [e EXCEPT !.at = at] \in Local
           /\ \A at \in {"composed", "listed", "queued"}, S \in SUBSET Players :
                [e EXCEPT !.at = at, !.who = S, !.gone = @ \cap S] \in Local
           /\ \A p \in Players : [e EXCEPT !.gone = @ \cup ({p} \cap e.who)] \in Local
BY DEF Local

LEMMA StartsAreTyped ==
    /\ Idle \in Local
    /\ Start("remind") \in Local /\ Start("cancel") \in Local
    /\ \A p \in Players : [Start("delete") EXCEPT !.who = {p}] \in Local
    /\ \A b, d \in BOOLEAN :
         [Start("invite") EXCEPT !.resend = b, !.draft = d] \in Local
BY DEF Start, Idle, Local

LEMMA MailingInitTyped == MailingInit => MailingTypeOK
<1> SUFFICES ASSUME MailingInit PROVE MailingTypeOK
  OBVIOUS
<1>1. TypeOK
  BY InitInv DEF MailingInit, RsvpInv
<1> QED BY <1>1, StartsAreTyped DEF MailingInit, MailingTypeOK

(* What it does to remember who was told and who was missed. *)
LEMMA InformsTyped ==
    ASSUME NEW told \in SUBSET Players, NEW missed \in SUBSET Players,
           informed \subseteq Players, untold \subseteq Players,
           Informs(told, missed)
    PROVE  informed' \subseteq Players /\ untold' \subseteq Players
BY DEF Informs, cancelHistory

LEMMA InformsCovers ==
    ASSUME status = "cancelled", NEW told, NEW missed, Informs(told, missed)
    PROVE  informed' \cup untold' = informed \cup untold \cup told \cup missed
BY DEF Informs

LEMMA TypeStep ==
    ASSUME RsvpInv, MailingTypeOK, [MailingNext]_mailingVars
    PROVE  RsvpInv' /\ MailingTypeOK'
<1>1. RsvpInv' /\ TypeOK'
  BY MailingStepIsTransaction, StepInv DEF RsvpInv
<1>2. players \subseteq Players /\ players' \subseteq Players
  BY <1>1 DEF RsvpInv, TypeOK
<1>a. req \in [Requests -> Local] /\ listed \subseteq players
      /\ invitationSent \in BOOLEAN /\ linked \subseteq Players
      /\ informed \subseteq Players /\ untold \subseteq Players /\ live \in BOOLEAN
  BY DEF MailingTypeOK
<1>b. Confirmed(rsvp) \subseteq Players /\ Waitlisted(rsvp) \subseteq Players
  BY DEF Confirmed, Waitlisted, RsvpInv, TypeOK
<1>3. ASSUME NEW r \in Requests, NEW e \in Local, req' = [req EXCEPT ![r] = e]
      PROVE  req' \in [Requests -> Local]
  BY <1>a, <1>3
<1>4. ASSUME NEW r \in Requests, RequestStep(r) PROVE MailingTypeOK'
  <2>a. req[r] \in Local /\ req[r].who \subseteq Players
    BY <1>a DEF Local
  <2>b. ASSUME Finish(r) PROVE req' \in [Requests -> Local]
    BY <1>3, <2>b, StartsAreTyped DEF Finish
  <2>c. ASSUME NEW at \in {"ensured", "marked", "unanswered", "answered"}, GoOn(r, at)
        PROVE  req' \in [Requests -> Local]
    <3>1. [req[r] EXCEPT !.at = at] \in Local
      BY <2>a, LocalFields
    <3>2. req' = [req EXCEPT ![r] = [req[r] EXCEPT !.at = at]]
      BY <2>c, <1>a DEF GoOn
    <3> QED BY <1>3, <3>1, <3>2
  <2>d. ASSUME NEW at \in {"composed", "listed", "queued"},
               NEW S \in SUBSET Players, GoOnWith(r, at, S)
        PROVE  req' \in [Requests -> Local]
    <3> DEFINE e == [req[r] EXCEPT !.at = at, !.who = S, !.gone = @ \cap S]
    <3>1. e \in Local
      BY <2>a, LocalFields
    <3>2. req' = [req EXCEPT ![r] = e]
      BY <2>d, <1>a DEF GoOnWith
    <3> QED BY <1>3, <3>1, <3>2
  <2>1. CASE LoadInvitation(r)
    <3>1. (status = "draft") \in BOOLEAN
      OBVIOUS
    <3>2. req' \in [Requests -> Local]
      BY <1>3, <1>a, <2>1, <3>1, StartsAreTyped DEF LoadInvitation
    <3> QED BY <1>1, <1>a, <2>1, <3>2
            DEF LoadInvitation, MailingTypeOK, vars, listVars, mailHistory, cancelHistory
  <2>2. CASE LoadReminder(r)
    BY <1>1, <1>3, <1>a, <2>2, StartsAreTyped
       DEF LoadReminder, MailingTypeOK, vars, listVars, mailHistory, cancelHistory
  <2>3. CASE ReadList(r)
    BY <1>1, <1>2, <1>a, <2>3, <2>b, <2>d
       DEF ReadList, MailingTypeOK, vars, listVars, mailHistory, cancelHistory
  <2>4. CASE EnsureRows(r)
    BY <1>1, <1>a, <2>4, <2>c
       DEF EnsureRows, EnsureInvites, MailingTypeOK, listVars, mailHistory, cancelHistory
  <2>5. CASE ReadEntries(r)
    <3>1. PICK S \in SUBSET Players : GoOnWith(r, "composed", S)
      BY <2>5, <2>a DEF ReadEntries
    <3> QED BY <1>1, <1>a, <2>5, <2>d, <3>1
            DEF ReadEntries, MailingTypeOK, vars, listVars, mailHistory, cancelHistory
  <2>6. CASE QueueForList(r)
    <3>1. live' \in BOOLEAN
      BY <1>a, <2>6 DEF QueueForList
    <3> QED BY <1>1, <1>a, <2>6, <2>a, <2>b, <2>d, <3>1
       DEF QueueForList, MailingTypeOK, vars, listVars, cancelHistory
  <2>7. CASE MarkInvitationSent(r)
    BY <1>1, <1>a, <2>7, <2>b, <2>c
       DEF MarkInvitationSent, MailingTypeOK, vars, mailHistory, cancelHistory
  <2>8. CASE OpenDraft(r)
    BY <1>1, <1>a, <2>8, <2>b
       DEF OpenDraft, NoLongerCancelled, SetSessionStatus, MailingTypeOK, listVars
  <2>9. ASSUME NEW new \in SessionStatus, SetStatus(r, new) PROVE MailingTypeOK'
    <3>1. live' \in BOOLEAN
      BY <1>a, <2>9 DEF SetStatus
    <3>2. informed' \subseteq Players /\ untold' \subseteq Players
      BY <1>a, <2>9 DEF SetStatus, NoLongerCancelled, cancelHistory
    <3> QED BY <1>1, <1>3, <1>a, <2>9, <3>1, <3>2, StartsAreTyped
            DEF SetStatus, SetSessionStatus, MailingTypeOK, listVars
  <2>10. CASE ReadRoster(r)
    BY <1>1, <1>a, <1>b, <2>10, <2>d
       DEF ReadRoster, MailingTypeOK, vars, listVars, mailHistory, cancelHistory
  <2>11. CASE QueueCancelled(r)
    <3>1. PICK missed \in SUBSET (req[r].who \cap players) :
             Informs((req[r].who \cap players) \ missed, missed)
      BY <2>11 DEF QueueCancelled
    <3>2. informed' \subseteq Players /\ untold' \subseteq Players
      BY <1>a, <2>a, <3>1, InformsTyped
    <3> QED BY <1>1, <1>a, <2>11, <2>b, <3>2
            DEF QueueCancelled, MailingTypeOK, vars, listVars
  <2>12. ASSUME NEW p \in Players, LoadPlayer(r, p) PROVE MailingTypeOK'
    BY <1>1, <1>3, <1>a, <2>12, StartsAreTyped
       DEF LoadPlayer, MailingTypeOK, vars, listVars, mailHistory, cancelHistory
  <2>13. ASSUME NEW p \in Players, CheckHistory(r, p) PROVE MailingTypeOK'
    <3>1. GoOn(r, "unanswered") \/ GoOn(r, "answered")
      BY <2>13 DEF CheckHistory
    <3> QED BY <1>1, <1>a, <2>13, <2>c, <3>1
            DEF CheckHistory, MailingTypeOK, vars, listVars, mailHistory, cancelHistory
  <2>14. ASSUME NEW p \in Players, Deactivate(r, p) PROVE MailingTypeOK'
    BY <1>1, <1>a, <2>14, <2>b
       DEF Deactivate, MailingTypeOK, vars, mailHistory, cancelHistory
  <2>15. ASSUME NEW p \in Players, DeleteNow(r, p) PROVE MailingTypeOK'
    <3>1. req' \in [Requests -> Local]
      <4>1. \A x \in Requests :
               [req[x] EXCEPT !.gone = @ \cup ({p} \cap req[x].who)] \in Local
        BY <1>a, LocalFields
      <4> QED BY <2>15, <4>1, StartsAreTyped DEF DeleteNow, FinishWithout
    <3>2. listed' \subseteq players'
      BY <1>a, <2>15 DEF DeleteNow, DeletePlayer, vars
    <3> QED BY <1>1, <1>a, <2>15, <3>1, <3>2 DEF DeleteNow, MailingTypeOK, cancelHistory
  <2>16. CASE Lapse(r)
    <3>1. live' \in BOOLEAN
      BY <1>a, <2>16 DEF Lapse
    <3>2. PICK missed \in SUBSET Players : Informs({}, missed)
      BY <1>b, <2>16, <2>a DEF Lapse
    <3>3. informed' \subseteq Players /\ untold' \subseteq Players
      BY <1>a, <3>2, InformsTyped
    <3> QED BY <1>1, <1>a, <2>16, <2>b, <3>1, <3>3
            DEF Lapse, MailingTypeOK, vars, listVars
  <2> QED BY <1>4, <2>1, <2>2, <2>3, <2>4, <2>5, <2>6, <2>7, <2>8, <2>9, <2>10,
             <2>11, <2>12, <2>13, <2>14, <2>15, <2>16 DEF RequestStep
<1>5. CASE Participant
  <2>1. players' = players
    BY <1>5 DEF Participant, ParticipantStep, EnsureEntry, EnsureInvites, Signup,
                SetGuestCount, Cancel
  <2> QED BY <1>1, <1>a, <1>5, <2>1
          DEF Participant, MailingTypeOK, listVars, mailHistory, cancelHistory
<1>6. CASE PromoteByHand
  BY <1>1, <1>a, <1>6
     DEF PromoteByHand, PromoteNext, Promote, MailingTypeOK, listVars, mailHistory,
         cancelHistory
<1>7. ASSUME NEW p \in Players, NEW g \in GuestCounts, AddByHand(p, g)
      PROVE  MailingTypeOK'
  <2>1. PICK told \in SUBSET Players, missed \in SUBSET Players : Informs(told, missed)
    BY <1>7 DEF AddByHand
  <2>2. informed' \subseteq Players /\ untold' \subseteq Players
    BY <1>a, <2>1, InformsTyped
  <2> QED BY <1>1, <1>a, <1>7, <2>2 DEF AddByHand, Signup, MailingTypeOK, listVars
<1>8. ASSUME NEW p \in Players, NEW active \in BOOLEAN, NewPlayer(p, active)
      PROVE  MailingTypeOK'
  BY <1>1, <1>a, <1>8 DEF NewPlayer, CreatePlayer, MailingTypeOK, mailHistory, cancelHistory
<1>9. ASSUME NEW p \in Players, Unsubscribe(p) \/ Resubscribe(p)
      PROVE  MailingTypeOK'
  BY <1>1, <1>a, <1>9
     DEF Unsubscribe, Resubscribe, MailingTypeOK, vars, mailHistory, cancelHistory
<1>10. CASE UNCHANGED mailingVars
  BY <1>1, <1>a, <1>10
     DEF mailingVars, MailingTypeOK, vars, listVars, mailHistory, cancelHistory
<1> QED BY <1>1, <1>4, <1>5, <1>6, <1>7, <1>8, <1>9, <1>10 DEF MailingNext

-----------------------------------------------------------------------------
(* Links *)

(* A player who is linked, or meant by a composed mail and not deleted since,
   keeps the row in every step but the deletion. *)
LEMMA LinksStep ==
    ASSUME MailingInv, [MailingNext]_mailingVars
    PROVE  LinksKept' /\ LinksWork'
<1> DEFINE Meant(r) == IF ToList(r) /\ req[r].at = "composed"
                       THEN req[r].who \ req[r].gone ELSE {}
<1>1. TypeOK /\ RowsHavePlayers /\ [Next]_vars
  BY MailingStepIsTransaction DEF MailingInv, RsvpInv
<1>2. ASSUME NEW q \in Players, HasRow(q), q \in players' PROVE HasRow(q)'
  BY <1>1, <1>2, RowsStay
<1>a. req \in [Requests -> Local] /\ linked \subseteq Players
  BY DEF MailingInv, MailingTypeOK
<1>b. \A r \in Requests : req[r].who \subseteq Players
  BY <1>a DEF Local
<1>c. /\ \A q \in linked : HasRow(q) /\ q \in players
      /\ \A r \in Requests : \A q \in Meant(r) : HasRow(q) /\ q \in players
  <2>1. /\ \A q \in linked : HasRow(q)
        /\ \A r \in Requests : \A q \in Meant(r) : HasRow(q)
    BY DEF MailingInv, LinksKept, LinksWork
  <2> QED BY <1>a, <1>b, <2>1 DEF MailingInv, RowsHavePlayers
<1>d. (\A r \in Requests : \A q \in Meant(r)' : HasRow(q)') => LinksKept'
  BY DEF LinksKept, ToList
<1>3. ASSUME players \subseteq players', linked' = linked,
             \A r \in Requests : Meant(r)' \subseteq Meant(r)
      PROVE  LinksKept' /\ LinksWork'
  BY <1>2, <1>3, <1>a, <1>b, <1>c, <1>d DEF LinksWork
<1>4. ASSUME NEW r \in Requests, NEW e, req' = [req EXCEPT ![r] = e],
             ~(e.kind \in {"invite", "remind"} /\ e.at = "composed")
      PROVE  \A x \in Requests : Meant(x)' \subseteq Meant(x)
  BY <1>4, <1>a DEF ToList
<1>5. ASSUME NEW r \in Requests, RequestStep(r) PROVE LinksKept' /\ LinksWork'
  <2>a. ASSUME Finish(r) PROVE \A x \in Requests : Meant(x)' \subseteq Meant(x)
    BY <1>4, <2>a DEF Finish, Idle
  <2>b. ASSUME NEW at, at # "composed", GoOn(r, at)
        PROVE  \A x \in Requests : Meant(x)' \subseteq Meant(x)
    <3>1. req' = [req EXCEPT ![r] = [req[r] EXCEPT !.at = at]]
      BY <2>b, <1>a DEF GoOn
    <3>2. [req[r] EXCEPT !.at = at].at = at
      BY <1>a DEF Local
    <3> QED BY <1>4, <2>b, <3>1, <3>2
  <2>c. ASSUME NEW at, NEW S, at # "composed" \/ ~ToList(r), GoOnWith(r, at, S)
        PROVE  \A x \in Requests : Meant(x)' \subseteq Meant(x)
    <3> DEFINE e == [req[r] EXCEPT !.at = at, !.who = S, !.gone = @ \cap S]
    <3>1. req' = [req EXCEPT ![r] = e]
      BY <2>c, <1>a DEF GoOnWith
    <3>2. e.at = at /\ e.kind = req[r].kind
      BY <1>a DEF Local
    <3> QED BY <1>4, <2>c, <3>1, <3>2 DEF ToList
  <2>1. CASE LoadInvitation(r) \/ LoadReminder(r) \/ (\E p \in Players : LoadPlayer(r, p))
    <3>1. \A x \in Requests : Meant(x)' \subseteq Meant(x)
      <4>1. CASE LoadInvitation(r)
        <5> DEFINE e == [Start("invite") EXCEPT
                           !.resend = invitationSent, !.draft = (status = "draft")]
        <5>1. e.at = "loaded"
          BY DEF Start, Idle
        <5>2. req' = [req EXCEPT ![r] = e]
          BY <4>1 DEF LoadInvitation
        <5> HIDE DEF e
        <5> QED BY <1>4, <5>1, <5>2
      <4>2. CASE LoadReminder(r)
        BY <1>4, <4>2 DEF LoadReminder, Start, Idle
      <4>3. ASSUME NEW p \in Players, LoadPlayer(r, p)
            PROVE  \A x \in Requests : Meant(x)' \subseteq Meant(x)
        <5> DEFINE e == [Start("delete") EXCEPT !.who = {p}]
        <5>1. e.at = "loaded"
          BY DEF Start, Idle
        <5>2. req' = [req EXCEPT ![r] = e]
          BY <4>3 DEF LoadPlayer
        <5> HIDE DEF e
        <5> QED BY <1>4, <5>1, <5>2
      <4> QED BY <2>1, <4>1, <4>2, <4>3
    <3>2. players' = players /\ linked' = linked
      BY <2>1 DEF LoadInvitation, LoadReminder, LoadPlayer, vars, mailHistory
    <3> QED BY <1>3, <3>1, <3>2
  <2>2. CASE ReadList(r)
    BY <1>3, <2>2, <2>a, <2>c DEF ReadList, vars, mailHistory
  <2>3. CASE EnsureRows(r)
    BY <1>3, <2>3, <2>b DEF EnsureRows, EnsureInvites, mailHistory
  <2>4. CASE ReadEntries(r)
    <3>1. PICK S : /\ GoOnWith(r, "composed", S)
                   /\ S \subseteq {p \in req[r].who : HasRow(p)}
      BY <2>4 DEF ReadEntries
    <3>2. \A x \in Requests \ {r} : Meant(x)' = Meant(x)
      BY <1>a, <3>1 DEF GoOnWith, ToList
    <3>3. Meant(r)' \subseteq S
      BY <1>a, <3>1 DEF GoOnWith, ToList
    <3>4. UNCHANGED <<rsvp, linked>>
      BY <2>4 DEF ReadEntries, vars, mailHistory
    <3> QED BY <1>c, <1>d, <3>1, <3>2, <3>3, <3>4 DEF LinksWork, HasRow
  <2>5. CASE QueueForList(r)
    <3>1. UNCHANGED rsvp /\ linked' = linked \cup Meant(r)
      BY <2>5 DEF QueueForList, vars
    <3>2. \A x \in Requests : Meant(x)' \subseteq Meant(x)
      BY <2>5, <2>a, <2>c DEF QueueForList
    <3> QED BY <1>c, <1>d, <3>1, <3>2 DEF LinksWork, HasRow
  <2>6. CASE MarkInvitationSent(r)
    BY <1>3, <2>6, <2>a, <2>b DEF MarkInvitationSent, vars, mailHistory
  <2>7. CASE OpenDraft(r)
    BY <1>3, <2>7, <2>a DEF OpenDraft, SetSessionStatus
  <2>8. ASSUME NEW new \in SessionStatus, SetStatus(r, new)
        PROVE  LinksKept' /\ LinksWork'
    <3>1. \A x \in Requests : Meant(x)' \subseteq Meant(x)
      <4>1. CASE req' = [req EXCEPT ![r] = Start("cancel")]
        BY <1>4, <4>1 DEF Start, Idle
      <4>2. CASE req' = req
        BY <4>2 DEF ToList
      <4> QED BY <2>8, <4>1, <4>2 DEF SetStatus
    <3> QED BY <1>3, <2>8, <3>1 DEF SetStatus, SetSessionStatus
  <2>9. CASE ReadRoster(r)
    BY <1>3, <2>9, <2>c DEF ReadRoster, At, ToList, vars, mailHistory
  <2>10. CASE QueueCancelled(r)
    BY <1>3, <2>10, <2>a DEF QueueCancelled, vars
  <2>11. ASSUME NEW p \in Players, CheckHistory(r, p)
         PROVE  LinksKept' /\ LinksWork'
    BY <1>3, <2>11, <2>b DEF CheckHistory, vars, mailHistory
  <2>12. ASSUME NEW p \in Players, Deactivate(r, p)
         PROVE  LinksKept' /\ LinksWork'
    BY <1>3, <2>12, <2>a DEF Deactivate, vars, mailHistory
  <2>13. ASSUME NEW p \in Players, DeleteNow(r, p)
         PROVE  LinksKept' /\ LinksWork'
    <3>1. \A q \in players \ {p} : q \in players'
      BY <2>13 DEF DeleteNow, DeletePlayer, vars
    <3>2. linked' = linked \ {p}
      BY <2>13 DEF DeleteNow
    <3>3. \A x \in Requests : Meant(x)' \subseteq Meant(x) \ {p}
      BY <1>a, <2>13 DEF DeleteNow, FinishWithout, Idle, ToList, Local
    <3> QED BY <1>2, <1>a, <1>b, <1>c, <1>d, <3>1, <3>2, <3>3 DEF LinksWork
  <2>14. CASE Lapse(r)
    BY <1>3, <2>14, <2>a DEF Lapse, vars
  <2> QED BY <1>5, <2>1, <2>2, <2>3, <2>4, <2>5, <2>6, <2>7, <2>8, <2>9, <2>10,
             <2>11, <2>12, <2>13, <2>14 DEF RequestStep
<1>6. ASSUME req' = req, players \subseteq players', linked' = linked
      PROVE  LinksKept' /\ LinksWork'
  BY <1>3, <1>6 DEF ToList
<1>7. CASE Participant
  <2>1. players' = players
    BY <1>7 DEF Participant, ParticipantStep, EnsureEntry, EnsureInvites, Signup,
                SetGuestCount, Cancel
  <2> QED BY <1>6, <1>7, <2>1 DEF Participant, mailHistory
<1>8. CASE PromoteByHand
  BY <1>6, <1>8 DEF PromoteByHand, PromoteNext, Promote, mailHistory
<1>9. ASSUME NEW p \in Players, NEW g \in GuestCounts, AddByHand(p, g)
      PROVE  LinksKept' /\ LinksWork'
  BY <1>6, <1>9 DEF AddByHand, Signup
<1>10. ASSUME NEW p \in Players, NEW active \in BOOLEAN, NewPlayer(p, active)
       PROVE  LinksKept' /\ LinksWork'
  BY <1>6, <1>10 DEF NewPlayer, CreatePlayer, mailHistory
<1>11. ASSUME NEW p \in Players, Unsubscribe(p) \/ Resubscribe(p)
       PROVE  LinksKept' /\ LinksWork'
  BY <1>6, <1>11 DEF Unsubscribe, Resubscribe, vars, mailHistory
<1>12. CASE UNCHANGED mailingVars
  BY <1>6, <1>12 DEF mailingVars, vars, mailHistory
<1> QED BY <1>5, <1>7, <1>8, <1>9, <1>10, <1>11, <1>12 DEF MailingNext

-----------------------------------------------------------------------------
(* Who has to be told *)

(* While the session is cancelled only the organizer's adding brings in
   anybody. *)
LEMMA NobodyJoins ==
    ASSUME TypeOK, status = "cancelled",
           \/ \E p \in Players : ParticipantStep(p) \/ DeletePlayer(p)
           \/ \E S \in SUBSET players : EnsureInvites(S)
           \/ PromoteNext
    PROVE  Coming' \subseteq Coming
<1>a. rsvp \in [Players -> Entry]
  BY DEF TypeOK
<1>1. ASSUME NEW S, EnsureInvites(S) PROVE Coming' \subseteq Coming
  BY <1>a, <1>1 DEF EnsureInvites, InvitedRow, Coming, Confirmed, Waitlisted
<1>2. ASSUME NEW p \in Players, Cancel(p) PROVE Coming' \subseteq Coming
  BY <1>a, <1>2 DEF Cancel, OffWaitlist, Coming, Confirmed, Waitlisted
<1>3. ASSUME NEW p \in Players, NEW g \in GuestCounts,
             Signup(p, g, TRUE) \/ SetGuestCount(p, g)
      PROVE  FALSE
  BY <1>3 DEF Signup, SetGuestCount, MaySetGuests, SignupsOpen
<1>4. ASSUME NEW p \in Players, DeletePlayer(p) PROVE Coming' \subseteq Coming
  BY <1>a, <1>4 DEF DeletePlayer, NoRow, Coming, Confirmed, Waitlisted
<1>5. ASSUME NEW p \in Players, Promote(p) PROVE Coming' \subseteq Coming
  BY <1>a, <1>5 DEF Promote, NextPromotable, OffWaitlist, Coming, Confirmed, Waitlisted
<1> QED BY <1>1, <1>2, <1>3, <1>4, <1>5 DEF ParticipantStep, EnsureEntry, PromoteNext

(* Who is coming to a cancelled session was told, or a request is still going
   to: setting the status comes before reading the roster. *)
LEMMA ToldStep ==
    ASSUME MailingInv, [MailingNext]_mailingVars
    PROVE  ToldOrTelling'
<1> DEFINE Tells(x, p) ==
        /\ req[x].kind = "cancel"
        /\ req[x].at = "loaded" \/ (req[x].at = "composed" /\ p \in req[x].who)
<1>a. req \in [Requests -> Local] /\ TypeOK /\ RowsHavePlayers /\ ToldOrTelling
  BY DEF MailingInv, MailingTypeOK
<1>b. Coming \subseteq Players /\ \A p \in Coming : p \in players
  <2>1. Coming \subseteq {p \in Players : HasRow(p)}
    BY <1>a DEF TypeOK, Coming, Confirmed, Waitlisted, HasRow
  <2> QED BY <1>a, <2>1 DEF RowsHavePlayers
<1> DEFINE Known == informed \cup untold
<1> SUFFICES ASSUME status' = "cancelled"
             PROVE  \A p \in Coming' : p \in Known' \/ \E x \in Requests : Tells(x, p)'
  BY DEF ToldOrTelling, Telling
<1> DEFINE Goal == \A p \in Coming' : p \in Known' \/ \E x \in Requests : Tells(x, p)'
<1>1. ASSUME status = "cancelled", NEW p \in Coming
      PROVE  p \in Known \/ \E x \in Requests : Tells(x, p)
  BY <1>1, <1>a DEF ToldOrTelling, Telling
<1>2. ASSUME status' = status, Coming' \subseteq Coming, Known \subseteq Known',
             \A x \in Requests, p \in Coming : Tells(x, p) => Tells(x, p)' \/ p \in Known'
      PROVE  Goal
  BY <1>1, <1>2
<1>3. ASSUME NEW r \in Requests, NEW e, req' = [req EXCEPT ![r] = e],
             req[r].kind # "cancel"
      PROVE  \A x \in Requests, p \in Coming : Tells(x, p) => Tells(x, p)'
  BY <1>3, <1>a
<1>4. ASSUME UNCHANGED rsvp PROVE Coming' = Coming
  BY <1>4 DEF Coming, Confirmed, Waitlisted
<1>5. ASSUME NEW r \in Requests, RequestStep(r) PROVE Goal
  <2>z. Idle.kind = "none" /\ Idle.at = "idle"
    BY DEF Idle
  <2>a. ASSUME req[r].at = "idle" PROVE \A p : ~Tells(r, p)
    BY <2>a
  <2>b. ASSUME NEW e, req' = [req EXCEPT ![r] = e], \A p : ~Tells(r, p)
        PROVE  \A x \in Requests, p \in Coming : Tells(x, p) => Tells(x, p)'
    BY <2>b, <1>a
  <2>1. CASE LoadInvitation(r) \/ LoadReminder(r) \/ (\E p \in Players : LoadPlayer(r, p))
    <3>1. UNCHANGED <<vars, informed, untold>> /\ req[r].at = "idle"
      BY <2>1 DEF LoadInvitation, LoadReminder, LoadPlayer, mailHistory, cancelHistory
    <3>2. \A x \in Requests, p \in Coming : Tells(x, p) => Tells(x, p)'
      <4>1. CASE LoadInvitation(r)
        <5> DEFINE e == [Start("invite") EXCEPT
                           !.resend = invitationSent, !.draft = (status = "draft")]
        <5>1. req' = [req EXCEPT ![r] = e]
          BY <4>1 DEF LoadInvitation
        <5> HIDE DEF e
        <5> QED BY <2>a, <2>b, <3>1, <5>1
      <4>2. CASE LoadReminder(r)
        BY <2>a, <2>b, <3>1, <4>2 DEF LoadReminder
      <4>3. ASSUME NEW q \in Players, LoadPlayer(r, q)
            PROVE  \A x \in Requests, p \in Coming : Tells(x, p) => Tells(x, p)'
        <5> DEFINE e == [Start("delete") EXCEPT !.who = {q}]
        <5>1. req' = [req EXCEPT ![r] = e]
          BY <4>3 DEF LoadPlayer
        <5> HIDE DEF e
        <5> QED BY <2>a, <2>b, <3>1, <5>1
      <4> QED BY <2>1, <4>1, <4>2, <4>3
    <3> QED BY <1>2, <1>4, <3>1, <3>2 DEF vars
  <2>2. ASSUME req[r].kind # "cancel", Finish(r) \/ (\E at : GoOn(r, at))
               \/ (\E at, S : GoOnWith(r, at, S))
        PROVE  \A x \in Requests, p \in Coming : Tells(x, p) => Tells(x, p)'
    <3>1. CASE Finish(r)
      BY <1>3, <2>2, <3>1 DEF Finish
    <3>2. ASSUME NEW at, GoOn(r, at)
          PROVE  \A x \in Requests, p \in Coming : Tells(x, p) => Tells(x, p)'
      <4>1. req' = [req EXCEPT ![r] = [req[r] EXCEPT !.at = at]]
        BY <3>2, <1>a DEF GoOn
      <4> QED BY <1>3, <2>2, <4>1
    <3>3. ASSUME NEW at, NEW S, GoOnWith(r, at, S)
          PROVE  \A x \in Requests, p \in Coming : Tells(x, p) => Tells(x, p)'
      <4> DEFINE e == [req[r] EXCEPT !.at = at, !.who = S, !.gone = @ \cap S]
      <4>1. req' = [req EXCEPT ![r] = e]
        BY <3>3, <1>a DEF GoOnWith
      <4> HIDE DEF e
      <4> QED BY <1>3, <2>2, <4>1
    <3> QED BY <2>2, <3>1, <3>2, <3>3
  <2>3. CASE ReadList(r) \/ ReadEntries(r) \/ QueueForList(r) \/ MarkInvitationSent(r)
             \/ (\E p \in Players : CheckHistory(r, p) \/ Deactivate(r, p))
    <3>1. req[r].kind # "cancel" /\ UNCHANGED <<vars, informed, untold>>
      BY <2>3 DEF ReadList, ReadEntries, QueueForList, MarkInvitationSent,
                  CheckHistory, Deactivate, ToList, At, mailHistory, cancelHistory
    <3>2. Finish(r) \/ (\E at : GoOn(r, at)) \/ (\E at, S : GoOnWith(r, at, S))
      BY <2>3 DEF ReadList, ReadEntries, QueueForList, MarkInvitationSent,
                  CheckHistory, Deactivate
    <3> QED BY <1>2, <1>4, <2>2, <3>1, <3>2 DEF vars
  <2>4. CASE EnsureRows(r)
    <3>1. req[r].kind # "cancel" /\ GoOn(r, "ensured")
          /\ UNCHANGED <<status, informed, untold>>
      BY <2>4 DEF EnsureRows, EnsureInvites, ToList, mailHistory, cancelHistory
    <3>2. \E S \in SUBSET players : EnsureInvites(S)
      BY <2>4 DEF EnsureRows, EnsureInvites
    <3>3. Coming' \subseteq Coming
      BY <1>a, <3>1, <3>2, NobodyJoins
    <3> QED BY <1>2, <2>2, <3>1, <3>3
  <2>5. CASE OpenDraft(r)
    BY <2>5 DEF OpenDraft, SetSessionStatus
  <2>6. ASSUME NEW new \in SessionStatus, SetStatus(r, new) PROVE Goal
    <3>1. req' = [req EXCEPT ![r] = Start("cancel")]
      BY <2>6 DEF SetStatus, SetSessionStatus
    <3>2. req'[r].kind = "cancel" /\ req'[r].at = "loaded"
      BY <1>a, <3>1 DEF Start, Idle
    <3> QED BY <3>2
  <2>7. CASE ReadRoster(r)
    <3>1. UNCHANGED <<vars, informed, untold>> /\ req[r].kind = "cancel"
      BY <2>7 DEF ReadRoster, At, mailHistory, cancelHistory
    <3>2. GoOnWith(r, "composed", Coming)
      BY <2>7 DEF ReadRoster, Coming
    <3>3. \A x \in Requests \ {r} : req'[x] = req[x]
      BY <1>a, <3>2 DEF GoOnWith
    <3>4. req'[r].kind = "cancel" /\ req'[r].at = "composed" /\ req'[r].who = Coming
      BY <1>a, <3>1, <3>2 DEF GoOnWith, Local
    <3>5. \A p \in Coming : Tells(r, p)'
      BY <3>4
    <3>6. \A x \in Requests, p \in Coming : Tells(x, p) => Tells(x, p)'
      BY <3>3, <3>5
    <3> QED BY <1>2, <1>4, <3>1, <3>6 DEF vars
  <2>8. CASE QueueCancelled(r)
    <3>1. UNCHANGED vars /\ status = "cancelled" /\ req[r].at = "composed"
      BY <2>8 DEF QueueCancelled, At, vars
    <3>2. Known' = Known \cup (req[r].who \cap players)
      <4>1. PICK missed \in SUBSET (req[r].who \cap players) :
               Informs((req[r].who \cap players) \ missed, missed)
        BY <2>8 DEF QueueCancelled
      <4> QED BY <3>1, <4>1, InformsCovers
    <3>3. \A x \in Requests \ {r} : req'[x] = req[x]
      BY <1>a, <2>8 DEF QueueCancelled, Finish
    <3>4. \A p \in Coming : Tells(r, p) => p \in Known'
      BY <1>b, <3>1, <3>2
    <3> QED BY <1>2, <1>4, <3>1, <3>2, <3>3, <3>4 DEF vars
  <2>9. ASSUME NEW q \in Players, DeleteNow(r, q) PROVE Goal
    <3>1. req[r].kind = "delete" /\ UNCHANGED <<status, informed, untold>>
      BY <2>9 DEF DeleteNow, DeletePlayer, At, vars, cancelHistory
    <3>2. Coming' \subseteq Coming
      BY <1>4, <1>a, <2>9, <3>1, NobodyJoins DEF DeleteNow, vars
    <3>3. \A x \in Requests \ {r} :
             /\ req'[x].kind = req[x].kind /\ req'[x].at = req[x].at
             /\ req'[x].who = req[x].who
      BY <1>a, <2>9 DEF DeleteNow, FinishWithout, Local
    <3>4. \A x \in Requests, p \in Coming : Tells(x, p) => Tells(x, p)'
      BY <3>1, <3>3
    <3> QED BY <1>2, <3>1, <3>2, <3>4
  <2>10. CASE Lapse(r)
    <3>1. UNCHANGED vars /\ status = "cancelled"
      BY <2>10 DEF Lapse, vars
    <3>2. \A y \in Requests \ {r} : req'[y] = req[y]
      BY <1>a, <2>10 DEF Lapse, Finish
    <3>3. PICK missed : /\ Informs({}, missed)
                        /\ At(r, "cancel", "loaded") => missed = Coming
                        /\ At(r, "cancel", "composed") => missed = req[r].who
      BY <2>10 DEF Lapse, At, Coming
    <3>4. Known' = Known \cup missed
      BY <3>1, <3>3, InformsCovers
    <3>5. \A p \in Coming : Tells(r, p) => p \in Known'
      BY <3>3, <3>4 DEF At
    <3> QED BY <1>2, <1>4, <3>1, <3>2, <3>4, <3>5 DEF vars
  <2> QED BY <1>5, <2>1, <2>3, <2>4, <2>5, <2>6, <2>7, <2>8, <2>9, <2>10
          DEF RequestStep
<1>6. ASSUME UNCHANGED <<req, status, informed, untold>>, Coming' \subseteq Coming
      PROVE  Goal
  BY <1>2, <1>6
<1>7. CASE Participant
  <2>1. status' = status
    BY <1>7 DEF Participant, ParticipantStep, EnsureEntry, EnsureInvites, Signup,
                SetGuestCount, Cancel
  <2>2. Coming' \subseteq Coming
    BY <1>7, <1>a, <2>1, NobodyJoins DEF Participant
  <2> QED BY <1>6, <1>7, <2>1, <2>2 DEF Participant, mailHistory, cancelHistory
<1>8. CASE PromoteByHand
  <2>1. status' = status
    BY <1>8 DEF PromoteByHand, PromoteNext, Promote
  <2>2. Coming' \subseteq Coming
    BY <1>8, <1>a, <2>1, NobodyJoins DEF PromoteByHand
  <2> QED BY <1>6, <1>8, <2>1, <2>2 DEF PromoteByHand, mailHistory, cancelHistory
<1>9. ASSUME NEW q \in Players, NEW g \in GuestCounts, AddByHand(q, g) PROVE Goal
  <2>1. UNCHANGED <<req, status>>
    BY <1>9 DEF AddByHand, Signup
  <2>2. Known' = Known \cup {q}
    <3>1. PICK told, missed : Informs(told, missed) /\ told \cup missed = {q}
      BY <1>9 DEF AddByHand
    <3> QED BY <2>1, <3>1, InformsCovers
  <2>3. Coming' \subseteq Coming \cup {q}
    BY <1>9, <1>a DEF AddByHand, Signup, TypeOK, Coming, Confirmed, Waitlisted
  <2> QED BY <1>1, <2>1, <2>2, <2>3
<1>10. ASSUME NEW q \in Players, NEW active \in BOOLEAN, NewPlayer(q, active) PROVE Goal
  BY <1>4, <1>6, <1>10 DEF NewPlayer, CreatePlayer, mailHistory, cancelHistory
<1>11. ASSUME NEW q \in Players, Unsubscribe(q) \/ Resubscribe(q) PROVE Goal
  BY <1>4, <1>6, <1>11 DEF Unsubscribe, Resubscribe, vars, mailHistory, cancelHistory
<1>12. CASE UNCHANGED mailingVars
  BY <1>4, <1>6, <1>12 DEF mailingVars, vars, mailHistory, cancelHistory
<1> QED BY <1>5, <1>7, <1>8, <1>9, <1>10, <1>11, <1>12 DEF MailingNext

-----------------------------------------------------------------------------
(* Whether the links lead anywhere *)

(* The handler that mails a draft's links opens it, whatever the others and
   the status form do meanwhile. *)
LEMMA OpensStep ==
    ASSUME MailingTypeOK, InvitationOpens, [MailingNext]_mailingVars
    PROVE  InvitationOpens'
<1> SUFFICES ASSUME live', status' = "draft"
             PROVE  \E x \in Requests : Opening(x)'
  BY DEF InvitationOpens
<1> DEFINE Goal == \E x \in Requests : Opening(x)'
<1>a. req \in [Requests -> Local]
  BY DEF MailingTypeOK
<1>1. ASSUME live, status = "draft",
             \A x \in Requests : Opening(x) => Opening(x)'
      PROVE  Goal
  BY <1>1 DEF InvitationOpens
<1>2. ASSUME NEW r \in Requests, ~Opening(r),
             \A x \in Requests \ {r} :
                /\ req'[x].kind = req[x].kind /\ req'[x].at = req[x].at
                /\ req'[x].draft = req[x].draft
      PROVE  \A x \in Requests : Opening(x) => Opening(x)'
  BY <1>2 DEF Opening
<1>3. ASSUME NEW r \in Requests, RequestStep(r) PROVE Goal
  <2>a. ASSUME Finish(r) \/ (\E at : GoOn(r, at)) \/ (\E at, S : GoOnWith(r, at, S))
               \/ (\E e : req' = [req EXCEPT ![r] = e])
        PROVE  \A x \in Requests \ {r} : req'[x] = req[x]
    BY <1>a, <2>a DEF Finish, GoOn, GoOnWith
  <2>1. CASE LoadInvitation(r) \/ LoadReminder(r) \/ ReadList(r) \/ EnsureRows(r)
             \/ ReadEntries(r)
    <3>1. live' = live /\ status' = status /\ ~Opening(r)
      BY <2>1 DEF LoadInvitation, LoadReminder, ReadList, EnsureRows, ReadEntries,
                  EnsureInvites, Opening, vars, mailHistory
    <3>2. \A x \in Requests \ {r} : req'[x] = req[x]
      BY <2>1, <2>a DEF LoadInvitation, LoadReminder, ReadList, EnsureRows, ReadEntries
    <3> QED BY <1>1, <1>2, <3>1, <3>2
  <2>2. CASE ReadRoster(r) \/ QueueCancelled(r)
             \/ (\E p \in Players : LoadPlayer(r, p) \/ CheckHistory(r, p)
                                    \/ Deactivate(r, p))
    <3>1. live' = live /\ status' = status /\ ~Opening(r)
      BY <2>2 DEF ReadRoster, QueueCancelled, LoadPlayer, CheckHistory, Deactivate,
                  At, Opening, vars, mailHistory
    <3>2. \A x \in Requests \ {r} : req'[x] = req[x]
      BY <2>2, <2>a DEF ReadRoster, QueueCancelled, LoadPlayer, CheckHistory, Deactivate
    <3> QED BY <1>1, <1>2, <3>1, <3>2
  <2>3. CASE QueueForList(r)
    <3>1. req[r].at = "composed" /\ status' = status /\ ~Opening(r)
      BY <2>3 DEF QueueForList, Opening, vars
    <3>2. \A x \in Requests \ {r} : req'[x] = req[x]
      BY <2>3, <2>a DEF QueueForList
    <3>3. CASE req[r].kind = "invite" /\ req[r].draft
      <4>1. GoOnWith(r, "queued", {})
        BY <2>3, <3>3 DEF QueueForList
      <4>2. /\ req'[r].kind = req[r].kind /\ req'[r].draft = req[r].draft
            /\ req'[r].at = "queued"
        BY <1>a, <4>1 DEF GoOnWith, Local
      <4> QED BY <3>3, <4>2 DEF Opening
    <3>4. CASE ~(req[r].kind = "invite" /\ req[r].draft)
      <4>1. live
        BY <2>3, <3>1, <3>4 DEF QueueForList
      <4> QED BY <1>1, <1>2, <3>1, <3>2, <4>1
    <3> QED BY <3>3, <3>4
  <2>4. CASE MarkInvitationSent(r)
    <3>1. /\ live' = live /\ status' = status
          /\ req[r].kind = "invite" /\ req[r].at = "queued"
      BY <2>4 DEF MarkInvitationSent, At, vars, mailHistory
    <3>2. \A x \in Requests \ {r} : req'[x] = req[x]
      BY <2>4, <2>a DEF MarkInvitationSent
    <3>3. CASE req[r].draft
      <4>1. GoOn(r, "marked")
        BY <2>4, <3>3 DEF MarkInvitationSent
      <4>2. /\ req'[r].kind = req[r].kind /\ req'[r].draft = req[r].draft
            /\ req'[r].at = "marked"
        BY <1>a, <4>1 DEF GoOn, Local
      <4> QED BY <3>1, <3>3, <4>2 DEF Opening
    <3>4. CASE ~req[r].draft
      <4>1. ~Opening(r)
        BY <3>4 DEF Opening
      <4> QED BY <1>1, <1>2, <3>1, <3>2, <4>1
    <3> QED BY <3>3, <3>4
  <2>5. CASE OpenDraft(r)
    BY <2>5 DEF OpenDraft, SetSessionStatus
  <2>6. ASSUME NEW new \in SessionStatus, SetStatus(r, new) PROVE FALSE
    BY <2>6 DEF SetStatus, SetSessionStatus
  <2>7. ASSUME NEW p \in Players, DeleteNow(r, p) PROVE Goal
    <3>1. live' = live /\ status' = status /\ ~Opening(r)
      BY <2>7 DEF DeleteNow, DeletePlayer, At, Opening, vars
    <3>2. \A x \in Requests \ {r} :
             /\ req'[x].kind = req[x].kind /\ req'[x].at = req[x].at
             /\ req'[x].draft = req[x].draft
      BY <1>a, <2>7 DEF DeleteNow, FinishWithout, Local
    <3> QED BY <1>1, <1>2, <3>1, <3>2
  <2>8. CASE Lapse(r)
    <3>1. status' = status
      BY <2>8 DEF Lapse, vars
    <3>2. live /\ ~Opening(r)
      BY <2>8, <3>1 DEF Lapse
    <3>3. \A x \in Requests \ {r} : req'[x] = req[x]
      BY <2>8, <2>a DEF Lapse
    <3> QED BY <1>1, <1>2, <3>1, <3>2, <3>3
  <2> QED BY <1>3, <2>1, <2>2, <2>3, <2>4, <2>5, <2>6, <2>7, <2>8 DEF RequestStep
<1>4. ASSUME req' = req, status' = status, live' = live PROVE Goal
  BY <1>1, <1>4 DEF Opening
<1>5. CASE Participant
  <2>1. status' = status
    BY <1>5 DEF Participant, ParticipantStep, EnsureEntry, EnsureInvites, Signup,
                SetGuestCount, Cancel
  <2> QED BY <1>4, <1>5, <2>1 DEF Participant, mailHistory
<1>6. CASE PromoteByHand
  BY <1>4, <1>6 DEF PromoteByHand, PromoteNext, Promote, mailHistory
<1>7. ASSUME NEW p \in Players, NEW g \in GuestCounts, AddByHand(p, g) PROVE Goal
  BY <1>4, <1>7 DEF AddByHand, Signup
<1>8. ASSUME NEW p \in Players, NEW active \in BOOLEAN, NewPlayer(p, active) PROVE Goal
  BY <1>4, <1>8 DEF NewPlayer, CreatePlayer, mailHistory
<1>9. ASSUME NEW p \in Players, Unsubscribe(p) \/ Resubscribe(p) PROVE Goal
  BY <1>4, <1>9 DEF Unsubscribe, Resubscribe, vars, mailHistory
<1>10. CASE UNCHANGED mailingVars
  BY <1>4, <1>10 DEF mailingVars, vars, mailHistory
<1> QED BY <1>3, <1>5, <1>6, <1>7, <1>8, <1>9, <1>10 DEF MailingNext

-----------------------------------------------------------------------------
(* Results *)

THEOREM MailingInvariant == MailingSpec => []MailingInv
<1>1. MailingInit => MailingInv
  <2> SUFFICES ASSUME MailingInit PROVE MailingInv
    OBVIOUS
  <2>1. RsvpInv /\ MailingTypeOK
    BY InitInv, MailingInitTyped DEF MailingInit
  <2>2. RowsHavePlayers
    BY DEF MailingInit, Init, RowsHavePlayers, HasRow, NoRow
  <2>3. ToldOrTelling
    BY DEF MailingInit, Init, ToldOrTelling
  <2>4. LinksKept /\ LinksWork /\ InvitationOpens
    BY DEF MailingInit, LinksKept, LinksWork, InvitationOpens, Idle
  <2> QED BY <2>1, <2>2, <2>3, <2>4 DEF MailingInv
<1>2. MailingInv /\ [MailingNext]_mailingVars => MailingInv'
  <2> SUFFICES ASSUME MailingInv, [MailingNext]_mailingVars PROVE MailingInv'
    OBVIOUS
  <2>1. RsvpInv' /\ MailingTypeOK'
    BY TypeStep DEF MailingInv
  <2>2. RowsHavePlayers'
    BY MailingStepIsTransaction, RowsStep DEF MailingInv, RsvpInv
  <2>3. ToldOrTelling' /\ LinksKept' /\ LinksWork' /\ InvitationOpens'
    BY ToldStep, LinksStep, OpensStep DEF MailingInv
  <2> QED BY <2>1, <2>2, <2>3 DEF MailingInv
<1> QED BY <1>1, <1>2, PTL DEF MailingSpec

THEOREM MailingTypeCorrect == MailingSpec => []MailingTypeOK
<1>1. MailingInv => MailingTypeOK
  BY DEF MailingInv
<1> QED BY <1>1, MailingInvariant, PTL

(* Nobody confirmed or waiting stays uninformed of a cancellation once the
   requests that announce it are done, but for those whose own mail a failing
   call cost, for any number of people and of requests at work. *)
THEOREM CancellationsReachAll == MailingSpec => []NobodyUninformed
<1>1. MailingInv => NobodyUninformed
  BY DEF MailingInv, ToldOrTelling, Telling, Coming, NobodyUninformed
<1> QED BY <1>1, MailingInvariant, PTL

(* Links in invitations and reminders find their rows, whoever joins or is
   deleted between the calls of the requests that send them. *)
THEOREM MailedLinksWork == MailingSpec => []LinksWork
<1>1. MailingInv => LinksWork
  BY DEF MailingInv
<1> QED BY <1>1, MailingInvariant, PTL

(* An invited draft is opened by the handlers that invited, for any number of
   them, unless one fails first or the organizer makes it a draft again. *)
THEOREM InvitedDraftsOpen == MailingSpec => []InvitationOpens
<1>1. MailingInv => InvitationOpens
  BY DEF MailingInv
<1> QED BY <1>1, MailingInvariant, PTL
=============================================================================
