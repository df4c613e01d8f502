------------------------- MODULE MailingListProofs --------------------------
(***************************************************************************)
(* The mailing list is what organizer and players last decided, for any    *)
(* number of players and requests.  The inductive invariant adds to the    *)
(* types what each row says by itself:                                     *)
(*   Marks   unless its address is set aside, a row is active when the     *)
(*           organizer chose it and opted out when its owner is out; while *)
(*           a save of it is under way nobody counts as out                *)
(***************************************************************************)
EXTENDS MailingList, TLAPS

MarkedRight(i) ==
    table[i].address \notin crossed =>
        /\ table[i].active <=> table[i].address \in chosen
        /\ Saving(i) => table[i].address \notin out
        /\ ~Saving(i) => (table[i].unsubscribed <=> table[i].address \in out)

Marks == \A i \in Rows : MarkedRight(i)

ListInv == TypeOK /\ Marks

(* A request that may write its address has one. *)
Named == \A r \in Requests :
    req[r].at \in {"page", "loaded", "answered", "unanswered", "absent"}
    => req[r].address \in Addresses

USE MailingListAssumption

(* Rows are players, and the empty row is none. *)
LEMMA RowsArePlayers ==
    ASSUME TypeOK, NEW i \in Rows
    PROVE  i \in Ids /\ table[i] \in Player /\ table[i].address \in Known
BY DEF TypeOK, Rows, Known

LEMMA NobodyIsNoPlayer == Nobody \notin Player
BY DEF Nobody, Player

LEMMA InitList == Init => ListInv
<1> SUFFICES ASSUME Init PROVE ListInv
  OBVIOUS
<1>1. Rows = {}
  BY DEF Init, Rows
<1>2. TypeOK
  <2>1. table \in [Ids -> Player \cup {Nobody}]
    BY DEF Init
  <2>2. req \in [Requests -> Local]
    BY DEF Init, Idle, Local
  <2> QED BY <1>1, <2>1, <2>2 DEF Init, TypeOK
<1> QED BY <1>1, <1>2 DEF ListInv, Marks

-----------------------------------------------------------------------------
(* The requests by themselves. *)

LEMMA FinishTyped ==
    ASSUME TypeOK, NEW r \in Requests, Finish(r)
    PROVE  req' \in [Requests -> Local]
<1>1. Idle \in Local
  BY DEF Idle, Local
<1> QED BY <1>1 DEF TypeOK, Finish

LEMMA GoOnTyped ==
    ASSUME TypeOK, NEW r \in Requests,
           NEW at \in {"saved", "answered", "unanswered"}, GoOn(r, at)
    PROVE  req' \in [Requests -> Local]
<1>1. req[r] \in Local
  BY DEF TypeOK
<1>2. [req[r] EXCEPT !.at = at] \in Local
  BY <1>1 DEF Local
<1> QED BY <1>2 DEF TypeOK, GoOn

LEMMA HoldTyped ==
    ASSUME TypeOK, NEW r \in Requests, NEW i \in Rows,
           NEW at \in {"page", "link"}, Hold(r, at, i)
    PROVE  req' \in [Requests -> Local]
<1>1. i \in Ids /\ table[i].address \in Addresses /\ table[i].active \in BOOLEAN
  BY RowsArePlayers DEF Player
<1>2. [at |-> at, id |-> i, address |-> table[i].address,
       shown |-> table[i].active, stale |-> FALSE] \in Local
  BY <1>1 DEF Local
<1> QED BY <1>2 DEF TypeOK, Hold

(* Nothing but the requests changes, and none of them begins or ends a save. *)
LEMMA SameList ==
    ASSUME ListInv, UNCHANGED <<table, history>>, req' \in [Requests -> Local],
           \A i \in Rows : Saving(i)' <=> Saving(i)
    PROVE  ListInv'
<1>1. Rows' = Rows /\ Known' = Known
  BY DEF history, Rows, Known
<1>2. TypeOK'
  BY <1>1 DEF ListInv, TypeOK, history
<1>3. ASSUME NEW i \in Rows PROVE MarkedRight(i)'
  <2>1. MarkedRight(i) /\ (Saving(i)' <=> Saving(i))
    BY DEF ListInv, Marks
  <2> QED BY <2>1 DEF MarkedRight, history
<1> QED BY <1>1, <1>2, <1>3 DEF ListInv, Marks

-----------------------------------------------------------------------------
(* The statements on the table. *)

LEMMA CreateKeepsList ==
    ASSUME ListInv, NEW e \in Addresses, NEW listed \in BOOLEAN,
           CreatePlayer(e, listed), req' \in [Requests -> Local],
           \A i \in Ids : Saving(i)' <=> Saving(i)
    PROVE  ListInv'
<1>1. CASE e \in Known
  BY <1>1, SameList DEF CreatePlayer, Rows
<1>2. CASE e \notin Known
  <2>1. PICK k \in Ids : /\ \A j \in Rows : j < k
                         /\ table' = [table EXCEPT ![k] = NewPlayer(e, listed)]
    BY <1>2 DEF CreatePlayer, NextIds
  <2>2. chosen' = (IF listed THEN chosen \cup {e} ELSE chosen)
        /\ out' = out /\ crossed' = crossed
    BY <1>2 DEF CreatePlayer
  <2>3. NewPlayer(e, listed) \in Player /\ NewPlayer(e, listed).address = e
        /\ NewPlayer(e, listed).active = listed
        /\ NewPlayer(e, listed).unsubscribed = FALSE
    BY DEF NewPlayer, Player
  <2>4. table \in [Ids -> Player \cup {Nobody}]
    BY DEF ListInv, TypeOK
  <2>5. k \notin Rows
    BY <2>1 DEF Ids
  <2>6. table'[k] = NewPlayer(e, listed) /\ \A i \in Ids \ {k} : table'[i] = table[i]
    BY <2>1, <2>4
  <2>7. Rows' = Rows \cup {k}
    BY <2>3, <2>6, NobodyIsNoPlayer DEF Rows
  <2>8. \A i \in Rows : table'[i] = table[i] /\ table[i].address # e
    BY <1>2, <2>5, <2>6 DEF Rows, Known
  <2>9. Known' = Known \cup {e}
    BY <2>3, <2>5, <2>6, <2>7, <2>8 DEF Known
  <2>10. TypeOK'
    <3>1. table' \in [Ids -> Player \cup {Nobody}]
      BY <2>1, <2>3, <2>4
    <3>2. \A i, j \in Rows' : table'[i].address = table'[j].address => i = j
      BY <2>3, <2>6, <2>7, <2>8 DEF ListInv, TypeOK
    <3>3. chosen' \subseteq Known' /\ out' \subseteq Known' /\ crossed' \subseteq Addresses
      BY <2>2, <2>9 DEF ListInv, TypeOK
    <3> QED BY <3>1, <3>2, <3>3 DEF TypeOK
  <2>11. ASSUME NEW i \in Rows PROVE MarkedRight(i)'
    <3>1. MarkedRight(i) /\ (Saving(i)' <=> Saving(i))
      BY DEF ListInv, Marks, Rows
    <3> QED BY <2>2, <2>8, <3>1 DEF MarkedRight
  <2>12. MarkedRight(k)'
    <3>1. e \notin chosen /\ e \notin out
      BY <1>2 DEF ListInv, TypeOK
    <3> QED BY <2>2, <2>3, <2>6, <3>1 DEF MarkedRight
  <2> QED BY <2>7, <2>10, <2>11, <2>12 DEF ListInv, Marks
<1> QED BY <1>1, <1>2

(* A row is written and nobody's address taken: the others say what they said. *)
LEMMA UpdateKeepsList ==
    ASSUME ListInv, NEW r \in Requests, NEW e \in Addresses, NEW listed \in BOOLEAN,
           NEW k \in Rows, req[r].id = k, ~Refused(r, e), UpdatePlayer(r, e, listed),
           req' \in [Requests -> Local],
           \A i \in Ids : Saving(i)' <=> Saving(i) \/ (listed /\ i = k)
    PROVE  ListInv'
<1> DEFINE was == table[k].address
<1>1. /\ table' = [table EXCEPT ![k].address = e, ![k].active = listed]
      /\ chosen' = IF listed THEN (chosen \ {was}) \cup {e} ELSE chosen \ {was, e}
      /\ out' = IF listed THEN out \ {was, e} ELSE Renamed(out, was, e)
      /\ crossed' = IF req[r].stale \/ was \in crossed THEN crossed \cup {was, e}
                    ELSE crossed \ {e}
  BY DEF UpdatePlayer
<1>2. k \in Ids /\ table[k] \in Player /\ was \in Addresses
  BY RowsArePlayers DEF ListInv, Player
<1>3. table \in [Ids -> Player \cup {Nobody}]
  BY DEF ListInv, TypeOK
<1>4. /\ table'[k] = [table[k] EXCEPT !.address = e, !.active = listed]
      /\ \A i \in Ids \ {k} : table'[i] = table[i]
  BY <1>1, <1>2, <1>3
<1>5. /\ table'[k] \in Player /\ table'[k].address = e /\ table'[k].active = listed
      /\ table'[k].unsubscribed = table[k].unsubscribed
  BY <1>2, <1>4 DEF Player
<1>6. Rows' = Rows
  BY <1>2, <1>4, <1>5, NobodyIsNoPlayer DEF Rows
<1>7. \A i \in Rows \ {k} : /\ table'[i] = table[i]
                            /\ table[i].address # e /\ table[i].address # was
  <2> TAKE i \in Rows \ {k}
  <2>1. table[i].address # e
    BY DEF Refused, RowOf
  <2>2. table[i].address # was
    BY <1>2 DEF ListInv, TypeOK
  <2> QED BY <1>4, <2>1, <2>2 DEF Rows
<1>8. TypeOK'
  <2>1. table' \in [Ids -> Player \cup {Nobody}]
    <3>1. DOMAIN table' = Ids /\ table' = [i \in Ids |-> table'[i]]
      BY <1>1, <1>3
    <3>2. \A i \in Ids : table'[i] \in Player \cup {Nobody}
      BY <1>3, <1>4, <1>5
    <3> QED BY <3>1, <3>2
  <2>2. \A i, j \in Rows' : table'[i].address = table'[j].address => i = j
    BY <1>5, <1>6, <1>7 DEF ListInv, TypeOK
  <2>3. (Known \ {was}) \cup {e} \subseteq Known'
    BY <1>5, <1>6, <1>7 DEF Known
  <2>4. chosen' \subseteq Known' /\ out' \subseteq Known' /\ crossed' \subseteq Addresses
    BY <1>1, <1>2, <2>3 DEF ListInv, TypeOK, Renamed
  <2> QED BY <2>1, <2>2, <2>4 DEF TypeOK
<1>9. ASSUME NEW i \in Rows \ {k} PROVE MarkedRight(i)'
  <2>1. MarkedRight(i) /\ (Saving(i)' <=> Saving(i))
    BY DEF ListInv, Marks, Rows
  <2>2. LET f == table[i].address IN
          /\ f \in chosen' <=> f \in chosen
          /\ f \in out' <=> f \in out
          /\ f \in crossed' <=> f \in crossed
    BY <1>1, <1>7 DEF Renamed
  <2> QED BY <1>7, <2>1, <2>2 DEF MarkedRight
<1>10. MarkedRight(k)'
  <2> SUFFICES ASSUME e \notin crossed'
               PROVE  /\ listed <=> e \in chosen'
                      /\ Saving(k)' => e \notin out'
                      /\ ~Saving(k)' => (table[k].unsubscribed <=> e \in out')
    BY <1>5 DEF MarkedRight
  <2>1. was \notin crossed /\ MarkedRight(k)
    BY <1>1 DEF ListInv, Marks
  <2>2. Saving(k)' <=> Saving(k) \/ listed
    BY <1>2
  <2>3. listed <=> e \in chosen'
    BY <1>1
  <2>4. CASE listed
    BY <1>1, <2>2, <2>3, <2>4
  <2>5. CASE ~listed
    <3>1. e \in out' <=> was \in out
      BY <1>1, <2>5 DEF Renamed
    <3> QED BY <2>1, <2>2, <2>3, <2>5, <3>1 DEF MarkedRight
  <2> QED BY <2>4, <2>5
<1> QED BY <1>6, <1>8, <1>9, <1>10 DEF ListInv, Marks

(* One mark of one row changes. *)
LEMMA UnsubscribedWritten ==
    ASSUME ListInv, NEW k \in Rows, NEW value \in BOOLEAN,
           SetUnsubscribed(k, value)
    PROVE  /\ Rows' = Rows /\ Known' = Known
           /\ table' \in [Ids -> Player \cup {Nobody}]
           /\ \A i \in Rows : /\ table'[i].address = table[i].address
                              /\ table'[i].active = table[i].active
           /\ table'[k].unsubscribed = value
           /\ \A i \in Rows \ {k} : table'[i] = table[i]
<1>1. k \in Ids /\ table[k] \in Player
  BY RowsArePlayers DEF ListInv
<1>2. table \in [Ids -> Player \cup {Nobody}]
  BY DEF ListInv, TypeOK
<1>3. table' = [table EXCEPT ![k].unsubscribed = value]
  BY DEF SetUnsubscribed
<1>4. /\ table'[k] = [table[k] EXCEPT !.unsubscribed = value]
      /\ \A i \in Ids \ {k} : table'[i] = table[i]
  BY <1>1, <1>2, <1>3
<1>5. /\ table'[k] \in Player /\ table'[k].unsubscribed = value
      /\ table'[k].address = table[k].address /\ table'[k].active = table[k].active
  BY <1>1, <1>4 DEF Player
<1>6. Rows' = Rows
  BY <1>1, <1>4, <1>5, NobodyIsNoPlayer DEF Rows
<1>7. table' \in [Ids -> Player \cup {Nobody}]
  <2>1. DOMAIN table' = Ids /\ table' = [i \in Ids |-> table'[i]]
    BY <1>2, <1>3
  <2>2. \A i \in Ids : table'[i] \in Player \cup {Nobody}
    BY <1>2, <1>4, <1>5
  <2> QED BY <2>1, <2>2
<1>8. \A i \in Rows : /\ table'[i].address = table[i].address
                      /\ table'[i].active = table[i].active
  BY <1>4, <1>5 DEF Rows
<1>9. Known' = Known
  BY <1>6, <1>8 DEF Known
<1> QED BY <1>4, <1>5, <1>6, <1>7, <1>8, <1>9 DEF Rows

LEMMA UndoKeepsList ==
    ASSUME ListInv, NEW r \in Requests, UndoOptOut(r)
    PROVE  ListInv'
<1>1. req' \in [Requests -> Local]
  BY FinishTyped DEF UndoOptOut, ListInv
<1>2. req' = [req EXCEPT ![r] = Idle] /\ req[r].at = "saved"
  BY DEF UndoOptOut, Finish
<1>3. \A i \in Ids : i # req[r].id => (Saving(i)' <=> Saving(i))
  BY <1>2 DEF Saving, ListInv, TypeOK, Idle
<1>4. CASE req[r].id \notin Rows
  <2>1. \A i \in Rows : Saving(i)' <=> Saving(i)
    BY <1>3, <1>4 DEF Rows
  <2> QED BY <1>1, <1>4, <2>1, SameList DEF UndoOptOut, history
<1>5. ASSUME NEW k \in Rows, req[r].id = k PROVE ListInv'
  <2>1. /\ SetUnsubscribed(k, FALSE) /\ UNCHANGED <<chosen, out>>
        /\ crossed' = IF req[r].stale THEN crossed \cup {table[k].address} ELSE crossed
    BY <1>5 DEF UndoOptOut
  <2>2. /\ Rows' = Rows /\ Known' = Known
        /\ table' \in [Ids -> Player \cup {Nobody}]
        /\ \A i \in Rows : /\ table'[i].address = table[i].address
                           /\ table'[i].active = table[i].active
        /\ table'[k].unsubscribed = FALSE
        /\ \A i \in Rows \ {k} : table'[i] = table[i]
    BY <2>1, UnsubscribedWritten
  <2>3. table[k].address \in Addresses
    BY RowsArePlayers DEF ListInv, Player
  <2>4. TypeOK'
    BY <1>1, <2>1, <2>2, <2>3 DEF ListInv, TypeOK
  <2>5. ASSUME NEW i \in Rows \ {k} PROVE MarkedRight(i)'
    <3>1. MarkedRight(i) /\ (Saving(i)' <=> Saving(i))
      BY <1>3, <1>5 DEF ListInv, Marks, Rows
    <3> QED BY <2>1, <2>2, <3>1 DEF MarkedRight
  <2>6. MarkedRight(k)'
    <3>1. MarkedRight(k) /\ Saving(k)
      BY <1>2, <1>5 DEF ListInv, Marks, Saving
    <3> QED BY <2>1, <2>2, <3>1 DEF MarkedRight
  <2> QED BY <2>2, <2>4, <2>5, <2>6 DEF ListInv, Marks
<1> QED BY <1>4, <1>5

LEMMA OptOutOrInKeepsList ==
    ASSUME ListInv, NEW r \in Requests, NEW leave \in BOOLEAN, OptOutOrIn(r, leave)
    PROVE  ListInv'
<1>1. req' \in [Requests -> Local]
  BY FinishTyped DEF OptOutOrIn, ListInv
<1>2. \A i \in Ids : Saving(i)' <=> Saving(i)
  BY DEF OptOutOrIn, Finish, Saving, ListInv, TypeOK, Idle
<1>3. CASE req[r].id \notin Rows
  <2>1. \A i \in Rows : Saving(i)' <=> Saving(i)
    BY <1>2 DEF Rows
  <2> QED BY <1>1, <1>3, <2>1, SameList DEF OptOutOrIn, history
<1>4. ASSUME NEW k \in Rows, req[r].id = k PROVE ListInv'
  <2> DEFINE e == table[k].address
  <2>1. /\ SetUnsubscribed(k, leave) /\ chosen' = chosen
        /\ out' = IF leave THEN out \cup {e} ELSE out \ {e}
        /\ crossed' = IF req[r].stale \/ (leave /\ Saving(k))
                      THEN crossed \cup {e} ELSE crossed
    BY <1>4 DEF OptOutOrIn
  <2>2. /\ Rows' = Rows /\ Known' = Known
        /\ table' \in [Ids -> Player \cup {Nobody}]
        /\ \A i \in Rows : /\ table'[i].address = table[i].address
                           /\ table'[i].active = table[i].active
        /\ table'[k].unsubscribed = leave
        /\ \A i \in Rows \ {k} : table'[i] = table[i]
    BY <2>1, UnsubscribedWritten
  <2>3. e \in Addresses /\ e \in Known
    BY RowsArePlayers DEF ListInv, Player
  <2>4. TypeOK'
    BY <1>1, <2>1, <2>2, <2>3 DEF ListInv, TypeOK
  <2>5. ASSUME NEW i \in Rows \ {k} PROVE MarkedRight(i)'
    <3>1. MarkedRight(i) /\ (Saving(i)' <=> Saving(i))
      BY <1>2 DEF ListInv, Marks, Rows
    <3>2. table[i].address # e
      BY DEF ListInv, TypeOK
    <3> QED BY <2>1, <2>2, <3>1, <3>2 DEF MarkedRight
  <2>6. MarkedRight(k)'
    <3>1. MarkedRight(k) /\ (Saving(k)' <=> Saving(k))
      BY <1>2 DEF ListInv, Marks, Rows
    <3> QED BY <2>1, <2>2, <3>1 DEF MarkedRight
  <2> QED BY <2>2, <2>4, <2>5, <2>6 DEF ListInv, Marks
<1> QED BY <1>3, <1>4

LEMMA DeleteKeepsList ==
    ASSUME ListInv, NEW r \in Requests, NEW k \in Rows, req[r].id = k,
           req[r].at = "unanswered", DeletePlayer(r)
    PROVE  ListInv'
<1> DEFINE was == table[k].address
<1>1. /\ table' = [table EXCEPT ![k] = Nobody]
      /\ req' = [x \in Requests |-> IF x = r THEN Idle
                    ELSE [req[x] EXCEPT !.stale = @ \/ req[x].id = k]]
      /\ chosen' = chosen \ {was} /\ out' = out \ {was}
      /\ crossed' = IF req[r].stale THEN crossed \cup {was} ELSE crossed \ {was}
  BY DEF DeletePlayer
<1>2. k \in Ids /\ was \in Addresses
  BY RowsArePlayers DEF ListInv, Player
<1>3. table' \in [Ids -> Player \cup {Nobody}]
  BY <1>1 DEF ListInv, TypeOK
<1>4. table'[k] = Nobody /\ \A i \in Ids \ {k} : table'[i] = table[i]
  BY <1>1, <1>2 DEF ListInv, TypeOK
<1>5. Rows' = Rows \ {k}
  BY <1>4 DEF Rows
<1>6. \A i \in Rows' : table'[i] = table[i] /\ table[i].address # was
  BY <1>4, <1>5 DEF ListInv, TypeOK, Rows
<1>7. Known \ {was} \subseteq Known'
  BY <1>5, <1>6 DEF Known
<1>8. req' \in [Requests -> Local]
  <2>1. Idle \in Local
    BY DEF Idle, Local
  <2>2. ASSUME NEW x \in Requests, x # r PROVE req'[x] \in Local
    <3>1. req[x] \in Local /\ req'[x] = [req[x] EXCEPT !.stale = req[x].stale \/ req[x].id = k]
      BY <1>1, <2>2 DEF ListInv, TypeOK
    <3> QED BY <3>1 DEF Local
  <2> QED BY <1>1, <2>1, <2>2
<1>9. TypeOK'
  <2>1. \A i, j \in Rows' : table'[i].address = table'[j].address => i = j
    BY <1>5, <1>6 DEF ListInv, TypeOK
  <2>2. chosen' \subseteq Known' /\ out' \subseteq Known' /\ crossed' \subseteq Addresses
    BY <1>1, <1>2, <1>7 DEF ListInv, TypeOK
  <2> QED BY <1>3, <1>8, <2>1, <2>2 DEF TypeOK
<1>10. \A i \in Ids : Saving(i)' <=> Saving(i)
  <2>1. \A x \in Requests : /\ req'[x].at = "saved" <=> req[x].at = "saved"
                            /\ req[x].at = "saved" => req'[x].id = req[x].id
    <3> TAKE x \in Requests
    <3>1. CASE x = r
      <4>1. req'[r].at = "idle"
        BY <1>1 DEF Idle
      <4> QED BY <3>1, <4>1
    <3>2. CASE x # r
      <4>1. req[x] \in Local /\ req'[x] = [req[x] EXCEPT !.stale = req[x].stale \/ req[x].id = k]
        BY <1>1, <3>2 DEF ListInv, TypeOK
      <4> QED BY <4>1 DEF Local
    <3> QED BY <3>1, <3>2
  <2> QED BY <2>1 DEF Saving
<1>11. ASSUME NEW i \in Rows' PROVE MarkedRight(i)'
  <2>1. MarkedRight(i) /\ (Saving(i)' <=> Saving(i))
    BY <1>5, <1>10 DEF ListInv, Marks, Rows
  <2>2. table'[i] = table[i] /\ table[i].address # was
    BY <1>6
  <2> QED BY <1>1, <2>1, <2>2 DEF MarkedRight
<1> QED BY <1>9, <1>11 DEF ListInv, Marks

LEMMA ImportKeepsList ==
    ASSUME ListInv, NEW S \in SUBSET Addresses, ImportPlayers(S)
    PROVE  ListInv'
<1> DEFINE new == S \ Known
<1>1. PICK id \in [new -> Ids] :
        /\ NextIds({id[e] : e \in new}) /\ \A e, f \in new : id[e] = id[f] => e = f
        /\ table' = [i \in Ids |->
             IF i \in {id[e] : e \in new} THEN NewPlayer(CHOOSE e \in new : id[e] = i, TRUE)
             ELSE IF table[i].address \in S THEN [table[i] EXCEPT !.active = TRUE]
             ELSE table[i]]
        /\ chosen' = chosen \cup S
        /\ UNCHANGED <<req, out, crossed>>
  BY DEF ImportPlayers
<1> DEFINE I == {id[e] : e \in new}
<1>2. I \subseteq Ids /\ I \cap Rows = {}
  <2>1. \A i \in I : \A j \in Rows : j < i
    BY <1>1 DEF NextIds
  <2>2. I \subseteq Ids /\ Rows \subseteq Ids
    BY <1>1 DEF Rows
  <2>3. \A i \in Ids : ~(i < i)
    BY DEF Ids
  <2> QED BY <2>1, <2>2, <2>3
<1>3. \A e \in new : table'[id[e]] = NewPlayer(e, TRUE)
  <2> TAKE e \in new
  <2>1. (CHOOSE f \in new : id[f] = id[e]) = e
    BY <1>1
  <2> QED BY <1>1, <2>1
<1>4. \A i \in Rows : table'[i] = IF table[i].address \in S
                                 THEN [table[i] EXCEPT !.active = TRUE] ELSE table[i]
  BY <1>1, <1>2 DEF Rows
<1>5. \A i \in Ids \ (Rows \cup I) : table'[i] = Nobody
  <2>1. Nobody.address = "none"
    BY DEF Nobody
  <2> QED BY <1>1, <2>1, MailingListAssumption DEF Rows
<1>6. \A i \in Rows : /\ table'[i] \in Player /\ table'[i].address = table[i].address
                      /\ table'[i].unsubscribed = table[i].unsubscribed
                      /\ table'[i].active <=> table[i].active \/ table[i].address \in S
  <2> TAKE i \in Rows
  <2>1. table[i] \in Player
    BY RowsArePlayers DEF ListInv
  <2>2. CASE table[i].address \in S
    BY <1>4, <2>1, <2>2 DEF Player
  <2>3. CASE table[i].address \notin S
    BY <1>4, <2>1, <2>3 DEF Player
  <2> QED BY <2>2, <2>3
<1>7. \A e \in new : /\ table'[id[e]] \in Player /\ table'[id[e]].address = e
                     /\ table'[id[e]].active = TRUE /\ table'[id[e]].unsubscribed = FALSE
  <2> TAKE e \in new
  <2>1. NewPlayer(e, TRUE) \in Player /\ NewPlayer(e, TRUE).address = e
        /\ NewPlayer(e, TRUE).active = TRUE /\ NewPlayer(e, TRUE).unsubscribed = FALSE
    BY DEF NewPlayer, Player
  <2> QED BY <1>3, <2>1
<1>8. Rows' = Rows \cup I
  BY <1>2, <1>5, <1>6, <1>7, NobodyIsNoPlayer DEF Rows
<1>9. Known \subseteq Known' /\ S \subseteq Known'
  <2>1. Known \subseteq Known'
    BY <1>6, <1>8 DEF Known
  <2>2. new \subseteq Known'
    BY <1>7, <1>8 DEF Known
  <2> QED BY <2>1, <2>2
<1>10. TypeOK'
  <2>1. table' \in [Ids -> Player \cup {Nobody}]
    <3>1. \A i \in Ids : table'[i] \in Player \cup {Nobody}
      BY <1>5, <1>6, <1>7
    <3> QED BY <1>1, <3>1
  <2>2. \A i, j \in Rows' : table'[i].address = table'[j].address => i = j
    <3>1. \A i \in Rows : table'[i].address \in Known
      BY <1>6, RowsArePlayers DEF ListInv
    <3> QED BY <1>6, <1>7, <1>8, <3>1 DEF ListInv, TypeOK
  <2>3. chosen' \subseteq Known' /\ out' \subseteq Known' /\ crossed' \subseteq Addresses
    BY <1>1, <1>9 DEF ListInv, TypeOK
  <2> QED BY <1>1, <2>1, <2>2, <2>3 DEF ListInv, TypeOK
<1>11. \A i \in Ids : Saving(i)' <=> Saving(i)
  BY <1>1 DEF Saving
<1>12. ASSUME NEW i \in Rows PROVE MarkedRight(i)'
  <2>1. MarkedRight(i) /\ (Saving(i)' <=> Saving(i))
    BY <1>11 DEF ListInv, Marks, Rows
  <2>2. /\ table'[i].address = table[i].address
        /\ table'[i].unsubscribed = table[i].unsubscribed
        /\ table'[i].active <=> table[i].active \/ table[i].address \in S
    BY <1>6
  <2>3. /\ table[i].address \in chosen' <=> table[i].address \in chosen \/ table[i].address \in S
        /\ out' = out /\ crossed' = crossed
    BY <1>1
  <2> QED BY <2>1, <2>2, <2>3 DEF MarkedRight
<1>13. ASSUME NEW e \in new, NEW i \in I, i = id[e] PROVE MarkedRight(i)'
  <2>1. e \in chosen' /\ e \notin out'
    BY <1>1 DEF ListInv, TypeOK
  <2> QED BY <1>7, <1>13, <2>1 DEF MarkedRight
<1>14. \A i \in I : MarkedRight(i)'
  BY <1>13
<1> QED BY <1>8, <1>10, <1>12, <1>14 DEF ListInv, Marks

LEMMA LapseKeepsList ==
    ASSUME ListInv, NEW r \in Requests, Lapse(r)
    PROVE  ListInv'
<1>1. req' \in [Requests -> Local]
  BY FinishTyped DEF Lapse, ListInv
<1>2. req' = [req EXCEPT ![r] = Idle] /\ UNCHANGED <<table, chosen, out>>
  BY DEF Lapse, Finish
<1>3. \A i \in Ids : i # req[r].id \/ req[r].at # "saved" => (Saving(i)' <=> Saving(i))
  BY <1>2 DEF Saving, ListInv, TypeOK, Idle
<1>4. Rows' = Rows /\ Known' = Known
  BY <1>2 DEF Rows, Known
<1>5. /\ crossed \subseteq crossed' /\ crossed' \subseteq Addresses
      /\ req[r].at = "saved" /\ req[r].id \in Rows => table[req[r].id].address \in crossed'
  <2>1. req[r].id \in Rows => table[req[r].id].address \in Addresses
    BY RowsArePlayers DEF ListInv, Player
  <2> QED BY <2>1 DEF Lapse, ListInv, TypeOK
<1>6. TypeOK'
  BY <1>1, <1>2, <1>4, <1>5 DEF ListInv, TypeOK
<1>7. ASSUME NEW i \in Rows PROVE MarkedRight(i)'
  <2>1. CASE i = req[r].id /\ req[r].at = "saved"
    BY <1>2, <1>5, <2>1 DEF MarkedRight
  <2>2. CASE ~(i = req[r].id /\ req[r].at = "saved")
    <3>1. MarkedRight(i) /\ (Saving(i)' <=> Saving(i))
      BY <1>3, <2>2 DEF ListInv, Marks, Rows
    <3> QED BY <1>2, <1>5, <3>1 DEF MarkedRight
  <2> QED BY <2>1, <2>2
<1> QED BY <1>4, <1>6, <1>7 DEF ListInv, Marks

-----------------------------------------------------------------------------
(* The requests. *)

(* Ends a request that saves nothing. *)
LEMMA SavingAfterFinish ==
    ASSUME ListInv, NEW r \in Requests, Finish(r), req[r].at # "saved"
    PROVE  \A i \in Ids : Saving(i)' <=> Saving(i)
BY DEF Finish, Saving, ListInv, TypeOK, Idle

LEMMA SaveRowKeepsList ==
    ASSUME ListInv, NEW r \in Requests, NEW e \in Addresses, NEW listed \in BOOLEAN,
           SaveRow(r, e, listed)
    PROVE  ListInv'
<1>1. req' \in [Requests -> Local]
  BY FinishTyped, GoOnTyped DEF SaveRow, ListInv
<1>2. req[r] \in Local /\ req[r].at = "page"
  BY DEF SaveRow, ListInv, TypeOK
<1>3. CASE listed /\ ~Refused(r, e)
  <2>1. req' = [req EXCEPT ![r].at = "saved"]
    BY <1>3 DEF SaveRow, GoOn
  <2>2. /\ req'[r].at = "saved" /\ req'[r].id = req[r].id
        /\ \A x \in Requests \ {r} : req'[x] = req[x]
    BY <1>2, <2>1 DEF ListInv, TypeOK, Local
  <2>3. \A i \in Ids : Saving(i)' <=> Saving(i) \/ i = req[r].id
    BY <1>2, <2>2 DEF Saving
  <2>4. CASE req[r].id \notin Rows
    <3>1. \A i \in Rows : Saving(i)' <=> Saving(i)
      BY <2>3, <2>4 DEF Rows
    <3> QED BY <1>1, <2>4, <3>1, SameList DEF SaveRow
  <2>5. ASSUME NEW k \in Rows, req[r].id = k PROVE ListInv'
    <3>1. UpdatePlayer(r, e, listed)
      BY <1>3, <2>5 DEF SaveRow
    <3>2. \A i \in Ids : Saving(i)' <=> Saving(i) \/ (listed /\ i = k)
      BY <1>3, <2>3, <2>5
    <3> QED BY <1>1, <1>3, <2>5, <3>1, <3>2, UpdateKeepsList
  <2> QED BY <2>4, <2>5
<1>4. CASE ~(listed /\ ~Refused(r, e))
  <2>1. Finish(r)
    BY <1>4 DEF SaveRow
  <2>2. \A i \in Ids : Saving(i)' <=> Saving(i)
    BY <1>2, <2>1, SavingAfterFinish
  <2>3. CASE req[r].id \notin Rows \/ Refused(r, e)
    BY <1>1, <2>2, <2>3, SameList DEF SaveRow, Rows
  <2>4. ASSUME NEW k \in Rows, req[r].id = k, ~Refused(r, e) PROVE ListInv'
    <3>1. UpdatePlayer(r, e, listed) /\ ~listed
      BY <1>4, <2>4 DEF SaveRow
    <3> QED BY <1>1, <2>2, <2>4, <3>1, UpdateKeepsList
  <2> QED BY <2>3, <2>4
<1> QED BY <1>3, <1>4

LEMMA DeactivateKeepsList ==
    ASSUME ListInv, Named, NEW r \in Requests, Deactivate(r)
    PROVE  ListInv'
<1> DEFINE e == req[r].address
<1>1. Finish(r) /\ req[r].at = "answered"
  BY DEF Deactivate
<1>2. req' \in [Requests -> Local] /\ \A i \in Ids : Saving(i)' <=> Saving(i)
  BY <1>1, FinishTyped, SavingAfterFinish DEF ListInv
<1>3. CASE ~(req[r].id \in Rows /\ ~Refused(r, e))
  BY <1>2, <1>3, SameList DEF Deactivate, Rows
<1>4. ASSUME NEW k \in Rows, req[r].id = k, ~Refused(r, e) PROVE ListInv'
  <2>1. UpdatePlayer(r, e, FALSE)
    BY <1>4 DEF Deactivate
  <2>2. e \in Addresses
    BY <1>1 DEF Named
  <2> QED BY <1>2, <1>4, <2>1, <2>2, UpdateKeepsList
<1> QED BY <1>3, <1>4

(* Requests that only look, begin or end. *)
LEMMA LookingKeepsList ==
    ASSUME ListInv, NEW r \in Requests,
           \/ \E i \in Ids : OpenPage(r, i) \/ FollowLink(r, i)
           \/ Remove(r)
           \/ \E answer \in {"answered", "unanswered"} : AskHistory(r, answer)
           \/ \E e \in Addresses, listed \in BOOLEAN : LookUp(r, e, listed)
    PROVE  ListInv'
<1>1. req[r] \in Local
  BY DEF ListInv, TypeOK
<1>2. ASSUME NEW i \in Rows, NEW at \in {"page", "link"}, Hold(r, at, i), req[r].at = "idle"
      PROVE  /\ req' \in [Requests -> Local]
             /\ \A j \in Ids : Saving(j)' <=> Saving(j)
  <2>1. req' \in [Requests -> Local]
    BY <1>2, HoldTyped DEF ListInv
  <2>2. req'[r].at # "saved" /\ \A x \in Requests \ {r} : req'[x] = req[x]
    BY <1>2 DEF Hold, ListInv, TypeOK
  <2> QED BY <1>2, <2>1, <2>2 DEF Saving
<1>3. CASE \E i \in Ids : OpenPage(r, i) \/ FollowLink(r, i)
  BY <1>2, <1>3, SameList DEF OpenPage, FollowLink, Rows
<1>4. CASE Remove(r)
  <2>1. CASE req[r].id \notin Rows
    <3>1. Finish(r) /\ req[r].at # "saved" /\ UNCHANGED <<table, history>>
      BY <1>4, <2>1 DEF Remove
    <3> QED BY <3>1, FinishTyped, SavingAfterFinish, SameList DEF ListInv, Rows
  <2>2. CASE req[r].id \in Rows
    <3>1. table[req[r].id].address \in Addresses
      BY <2>2, RowsArePlayers DEF ListInv, Player
    <3>2. req' = [req EXCEPT ![r].at = "loaded", ![r].address = table[req[r].id].address]
      BY <1>4, <2>2 DEF Remove
    <3>3. /\ req'[r] = [req[r] EXCEPT !.at = "loaded", !.address = table[req[r].id].address]
          /\ \A x \in Requests \ {r} : req'[x] = req[x]
      BY <3>2 DEF ListInv, TypeOK
    <3>4. req'[r] \in Local /\ req'[r].at = "loaded"
      BY <1>1, <3>1, <3>3 DEF Local
    <3>5. req' \in [Requests -> Local]
      BY <3>2, <3>3, <3>4 DEF ListInv, TypeOK
    <3>6. \A j \in Ids : Saving(j)' <=> Saving(j)
      BY <1>4, <3>3, <3>4 DEF Saving, Remove
    <3> QED BY <1>4, <3>5, <3>6, SameList DEF Remove, Rows
  <2> QED BY <2>1, <2>2
<1>5. ASSUME NEW answer \in {"answered", "unanswered"}, AskHistory(r, answer) PROVE ListInv'
  <2>1. req' \in [Requests -> Local]
    BY <1>5, GoOnTyped DEF AskHistory, ListInv
  <2>2. req'[r].at # "saved" /\ \A x \in Requests \ {r} : req'[x] = req[x]
    BY <1>1, <1>5 DEF AskHistory, GoOn, ListInv, TypeOK, Local
  <2>3. \A j \in Ids : Saving(j)' <=> Saving(j)
    BY <1>5, <2>2 DEF Saving, AskHistory
  <2> QED BY <1>5, <2>1, <2>3, SameList DEF AskHistory, Rows
<1>6. ASSUME NEW e \in Addresses, NEW listed \in BOOLEAN, LookUp(r, e, listed) PROVE ListInv'
  <2> DEFINE held == [Idle EXCEPT !.at = "absent", !.address = e, !.shown = listed]
  <2>1. held \in Local /\ held.at = "absent"
    BY DEF Idle, Local
  <2>2. req' = [req EXCEPT ![r] = held] /\ req[r].at = "idle"
    BY <1>6 DEF LookUp
  <2> HIDE DEF held
  <2>3. req' \in [Requests -> Local]
    BY <2>1, <2>2 DEF ListInv, TypeOK
  <2>4. \A j \in Ids : Saving(j)' <=> Saving(j)
    BY <2>1, <2>2 DEF Saving, ListInv, TypeOK
  <2> QED BY <1>6, <2>3, <2>4, SameList DEF LookUp, Rows
<1> QED BY <1>3, <1>4, <1>5, <1>6

LEMMA CreatingKeepsList ==
    ASSUME ListInv, Named, NEW r \in Requests,
           CreateAbsent(r) \/ \E e \in Addresses : AddPlayer(r, e)
    PROVE  ListInv'
<1>1. CASE CreateAbsent(r)
  <2>1. Finish(r) /\ req[r].at = "absent" /\ CreatePlayer(req[r].address, req[r].shown)
    BY <1>1 DEF CreateAbsent
  <2>2. req[r].address \in Addresses /\ req[r].shown \in BOOLEAN
    BY <2>1 DEF Named, ListInv, TypeOK, Local
  <2>3. req' \in [Requests -> Local] /\ \A i \in Ids : Saving(i)' <=> Saving(i)
    BY <2>1, FinishTyped, SavingAfterFinish DEF ListInv
  <2> QED BY <2>1, <2>2, <2>3, CreateKeepsList
<1>2. ASSUME NEW e \in Addresses, AddPlayer(r, e) PROVE ListInv'
  <2>1. req' \in [Requests -> Local] /\ \A i \in Ids : Saving(i)' <=> Saving(i)
    BY <1>2 DEF AddPlayer, ListInv, TypeOK, Saving
  <2> QED BY <1>2, <2>1, CreateKeepsList DEF AddPlayer
<1> QED BY <1>1, <1>2

LEMMA DeletingKeepsList ==
    ASSUME ListInv, NEW r \in Requests, DeleteNow(r)
    PROVE  ListInv'
<1>1. CASE req[r].id \notin Rows
  <2>1. Finish(r) /\ req[r].at # "saved" /\ UNCHANGED <<table, history>>
    BY <1>1 DEF DeleteNow
  <2> QED BY <2>1, FinishTyped, SavingAfterFinish, SameList DEF ListInv, Rows
<1>2. CASE req[r].id \in Rows
  BY <1>2, DeleteKeepsList DEF DeleteNow
<1> QED BY <1>1, <1>2

LEMMA StepKeepsList ==
    ASSUME ListInv, Named, [Next]_vars
    PROVE  ListInv'
<1>1. ASSUME NEW r \in Requests, OrganizerStep(r) PROVE ListInv'
  <2>1. ASSUME NEW S \in SUBSET Addresses, Import(r, S) PROVE ListInv'
    BY <2>1, ImportKeepsList DEF Import
  <2>2. CASE UndoOptOut(r) \/ Deactivate(r) \/ DeleteNow(r)
    BY <2>2, UndoKeepsList, DeactivateKeepsList, DeletingKeepsList
  <2>3. ASSUME NEW e \in Addresses, NEW listed \in BOOLEAN, SaveRow(r, e, listed) PROVE ListInv'
    BY <2>3, SaveRowKeepsList
  <2> QED BY <1>1, <2>1, <2>2, <2>3, LookingKeepsList, CreatingKeepsList DEF OrganizerStep
<1>2. ASSUME NEW r \in Requests, ParticipantStep(r) PROVE ListInv'
  BY <1>2, LookingKeepsList, CreatingKeepsList, OptOutOrInKeepsList DEF ParticipantStep
<1>3. ASSUME NEW r \in Requests, Lapse(r) PROVE ListInv'
  BY <1>3, LapseKeepsList
<1>4. CASE UNCHANGED vars
  BY <1>4, SameList DEF vars, history, ListInv, TypeOK, Saving
<1> QED BY <1>1, <1>2, <1>3, <1>4 DEF Next

(* Addresses come from forms that were looked at or typed in, and are kept. *)
LEMMA StepKeepsNames ==
    ASSUME ListInv, Named, [Next]_vars
    PROVE  Named'
<1> DEFINE Fine(q) == q.at \in {"page", "loaded", "answered", "unanswered", "absent"}
                      => q.address \in Addresses
<1>1. \A x \in Requests : req[x] \in Local /\ Fine(req[x])
  BY DEF ListInv, TypeOK, Named
<1>2. Fine(Idle)
  BY DEF Idle
<1>3. ASSUME NEW r \in Requests, Finish(r) PROVE \A x \in Requests : Fine(req'[x])
  <2>1. req'[r] = Idle /\ \A x \in Requests \ {r} : req'[x] = req[x]
    BY <1>3 DEF Finish, ListInv, TypeOK
  <2> QED BY <1>1, <1>2, <2>1
<1>4. ASSUME NEW r \in Requests, NEW q, Fine(q), req' = [req EXCEPT ![r] = q]
      PROVE  \A x \in Requests : Fine(req'[x])
  <2>1. req'[r] = q /\ \A x \in Requests \ {r} : req'[x] = req[x]
    BY <1>4 DEF ListInv, TypeOK
  <2> QED BY <1>1, <1>4, <2>1
<1>5. ASSUME NEW r \in Requests, NEW at \in {"page", "link"}, NEW i \in Rows, Hold(r, at, i)
      PROVE  \A x \in Requests : Fine(req'[x])
  <2>1. table[i].address \in Addresses
    BY RowsArePlayers DEF ListInv, Player
  <2> QED BY <1>4, <1>5, <2>1 DEF Hold
<1>6. ASSUME NEW r \in Requests, OrganizerStep(r) PROVE \A x \in Requests : Fine(req'[x])
  <2>1. ASSUME NEW i \in Ids, OpenPage(r, i) PROVE \A x \in Requests : Fine(req'[x])
    BY <1>5, <2>1 DEF OpenPage
  <2>2. ASSUME NEW e \in Addresses, AddPlayer(r, e) PROVE \A x \in Requests : Fine(req'[x])
    BY <1>1, <2>2 DEF AddPlayer
  <2>3. ASSUME NEW e \in Addresses, NEW listed \in BOOLEAN, SaveRow(r, e, listed)
        PROVE  \A x \in Requests : Fine(req'[x])
    <3>1. CASE Finish(r)
      BY <1>3, <3>1
    <3>2. CASE GoOn(r, "saved")
      <4>1. req'[r].at = "saved" /\ \A x \in Requests \ {r} : req'[x] = req[x]
        BY <1>1, <3>2 DEF GoOn, ListInv, TypeOK, Local
      <4> QED BY <1>1, <4>1
    <3> QED BY <2>3, <3>1, <3>2 DEF SaveRow
  <2>4. CASE UndoOptOut(r) \/ Deactivate(r)
    BY <1>3, <2>4 DEF UndoOptOut, Deactivate
  <2>5. CASE Remove(r)
    <3>1. CASE Finish(r)
      BY <1>3, <3>1
    <3>2. CASE req[r].id \in Rows
      <4>1. table[req[r].id].address \in Addresses
        BY <3>2, RowsArePlayers DEF ListInv, Player
      <4>2. /\ req'[r].address = table[req[r].id].address
            /\ \A x \in Requests \ {r} : req'[x] = req[x]
        BY <1>1, <2>5, <3>2 DEF Remove, ListInv, TypeOK, Local
      <4> QED BY <1>1, <4>1, <4>2
    <3> QED BY <2>5, <3>1, <3>2 DEF Remove
  <2>6. CASE DeleteNow(r)
    <3>1. CASE Finish(r)
      BY <1>3, <3>1
    <3>2. CASE DeletePlayer(r)
      <4>1. \A x \in Requests \ {r} :
              /\ req'[x].at = req[x].at /\ req'[x].address = req[x].address
        BY <1>1, <3>2 DEF DeletePlayer, Local
      <4>2. req'[r] = Idle
        BY <3>2 DEF DeletePlayer
      <4> QED BY <1>1, <1>2, <4>1, <4>2
    <3> QED BY <2>6, <3>1, <3>2 DEF DeleteNow
  <2>7. ASSUME NEW answer \in {"answered", "unanswered"}, AskHistory(r, answer)
        PROVE  \A x \in Requests : Fine(req'[x])
    <3>1. req[r].address \in Addresses
      BY <1>1, <2>7 DEF AskHistory
    <3>2. /\ req'[r].address = req[r].address
          /\ \A x \in Requests \ {r} : req'[x] = req[x]
      BY <1>1, <2>7 DEF AskHistory, GoOn, ListInv, TypeOK, Local
    <3> QED BY <1>1, <3>1, <3>2
  <2>8. ASSUME NEW S \in SUBSET Addresses, Import(r, S) PROVE \A x \in Requests : Fine(req'[x])
    <3>1. req' = req
      BY <2>8 DEF Import, ImportPlayers
    <3> QED BY <1>1, <3>1
  <2> QED BY <1>6, <2>1, <2>2, <2>3, <2>4, <2>5, <2>6, <2>7, <2>8 DEF OrganizerStep
<1>7. ASSUME NEW r \in Requests, ParticipantStep(r) PROVE \A x \in Requests : Fine(req'[x])
  <2>1. ASSUME NEW i \in Ids, FollowLink(r, i) PROVE \A x \in Requests : Fine(req'[x])
    BY <1>5, <2>1 DEF FollowLink
  <2>2. CASE CreateAbsent(r) \/ \E leave \in BOOLEAN : OptOutOrIn(r, leave)
    BY <1>3, <2>2 DEF CreateAbsent, OptOutOrIn
  <2>3. ASSUME NEW e \in Addresses, NEW listed \in BOOLEAN, LookUp(r, e, listed)
        PROVE  \A x \in Requests : Fine(req'[x])
    <3> DEFINE held == [Idle EXCEPT !.at = "absent", !.address = e, !.shown = listed]
    <3>1. Fine(held)
      BY DEF Idle
    <3> QED BY <1>4, <2>3, <3>1 DEF LookUp
  <2> QED BY <1>7, <2>1, <2>2, <2>3 DEF ParticipantStep
<1>8. ASSUME NEW r \in Requests, Lapse(r) PROVE \A x \in Requests : Fine(req'[x])
  BY <1>3, <1>8 DEF Lapse
<1>9. ASSUME UNCHANGED vars PROVE \A x \in Requests : Fine(req'[x])
  BY <1>1, <1>9 DEF vars
<1>10. \A x \in Requests : Fine(req'[x])
  BY <1>6, <1>7, <1>8, <1>9 DEF Next
<1> QED BY <1>10 DEF Named

-----------------------------------------------------------------------------
THEOREM ListAlways == Spec => [](ListInv /\ Named)
<1>1. Init => ListInv /\ Named
  <2>1. Init => Named
    BY DEF Init, Named, Idle
  <2> QED BY <2>1, InitList
<1>2. ListInv /\ Named /\ [Next]_vars => (ListInv /\ Named)'
  BY StepKeepsList, StepKeepsNames
<1> QED BY <1>1, <1>2, PTL DEF Spec

(* Rows are well formed and no two have one address, whatever requests do with
   what they read before. *)
THEOREM ListTypeCorrect == Spec => []TypeOK
BY ListAlways, PTL DEF ListInv

(* The weekly mail goes to whom the organizer chose and who did not opt out. *)
THEOREM DecisionsHold == Spec => []ListedAsDecided
<1>1. ListInv => ListedAsDecided
  <2> SUFFICES ASSUME ListInv, NEW e \in Addresses, e \notin crossed,
                      \A i \in RowOf(e) : ~Saving(i)
               PROVE  e \in Mailable <=> e \in chosen /\ e \notin out
    BY DEF ListedAsDecided
  <2>1. CASE e \in Known
    <3>1. PICK i \in Rows : table[i].address = e
      BY <2>1 DEF Known
    <3>2. MarkedRight(i) /\ ~Saving(i)
      BY <3>1 DEF ListInv, Marks, RowOf
    <3>3. e \in Mailable <=> table[i].active /\ ~table[i].unsubscribed
      BY <3>1 DEF Mailable, ListInv, TypeOK
    <3> QED BY <3>1, <3>2, <3>3 DEF MarkedRight
  <2>2. CASE e \notin Known
    <3>1. e \notin chosen
      BY <2>2 DEF ListInv, TypeOK
    <3>2. e \notin Mailable
      BY <2>2 DEF Mailable, Known
    <3> QED BY <3>1, <3>2
  <2> QED BY <2>1, <2>2
<1> QED BY <1>1, ListAlways, PTL
=============================================================================
