---------------------------- MODULE OutboxProofs ----------------------------
(***************************************************************************)
(* Safety of the outbox for any number of messages, batch size and number  *)
(* of faults.  The heart is that a claimed row cannot change under the     *)
(* worker (ClaimsAreFresh): the attempt cap, the schedule and the count of *)
(* copies all rest on it.                                                  *)
(***************************************************************************)
EXTENDS Outbox, FiniteSetTheorems, TLAPS

(* The worker holds a batch exactly while it delivers, and an outcome
   exactly while it is about to record one. *)
WorkerConsistent ==
    /\ pc \in {"deliver", "record"} <=> batch # {}
    /\ pc = "record" <=> outcome # "none"

(* The server has accepted m and the worker has not recorded it yet. *)
InFlight(m) == pc = "record" /\ outcome = "ok" /\ IsFirst(m)

(* Each copy beyond those of sent or in-flight messages is a fault's. *)
CopiesAccounted == \A m \in Ids :
    /\ copies[m] <= 1 + faults
    /\ outbox[m].status # "sent" /\ ~InFlight(m) => copies[m] <= faults
    /\ outbox[m].status = "sent" \/ InFlight(m) => copies[m] > 0

OutboxInv ==
    /\ TypeOK
    /\ WorkerConsistent
    /\ ClaimsAreFresh
    /\ ScheduleFollowed
    /\ CopiesAccounted

USE OutboxAssumption DEF OutboxAssumption, maxAttempts, backoffLength

(* What a handler may be holding. *)
LEMMA IdleErrand == Idle \in Errand
BY Zenon DEF Idle, Errand

LEMMA NewErrand ==
    ASSUME NEW S \in SUBSET Ids, NEW marks \in BOOLEAN
    PROVE  [mail |-> S, marks |-> marks] \in Errand
BY Zenon DEF Errand

(* Every step leaves handlers and unheard mail well typed. *)
LEMMA HandlersStep ==
    ASSUME TypeOK, [Next]_vars
    PROVE  handler' \in [Handlers -> Errand] /\ unheard' \subseteq Ids
<1>1. handler \in [Handlers -> Errand] /\ unheard \subseteq Ids
  BY DEF TypeOK
<1>2. ASSUME NEW h \in Handlers, NEW S \in SUBSET Ids, NEW marks \in BOOLEAN,
             Enqueue(h, S, marks)
      PROVE  handler' \in [Handlers -> Errand] /\ unheard' = unheard
  BY <1>1, <1>2, NewErrand DEF Enqueue
<1>3. ASSUME NEW h \in Handlers, NEW m \in Ids, RetryMessage(h, m)
      PROVE  handler' \in [Handlers -> Errand] /\ unheard' = unheard
  <2>1. [mail |-> {m}, marks |-> FALSE] \in Errand
    BY NewErrand
  <2> QED BY <1>1, <1>3, <2>1 DEF RetryMessage
<1>4. ASSUME NEW h \in Handlers, GiveUp(h)
      PROVE  handler' \in [Handlers -> Errand] /\ unheard' \subseteq Ids
  <2>1. handler[h].mail \subseteq Ids
    BY <1>1 DEF Errand
  <2> QED BY <1>1, <1>4, <2>1, IdleErrand DEF GiveUp
<1>5. ASSUME NEW h \in Handlers, Wake(h)
      PROVE  handler' \in [Handlers -> Errand] /\ unheard' = unheard
  BY <1>1, <1>5, IdleErrand DEF Wake
<1>6. CASE Restart
  BY <1>6, IdleErrand DEF Restart
<1>7. CASE ClaimDue
  BY <1>1, <1>7 DEF ClaimDue
<1>8. ASSUME NEW m \in Ids,
             \/ BackoffElapses(m) \/ SendAccepted(m) \/ SendRefused(m)
             \/ SendReplyLost(m) \/ Record(m) \/ RecordFails(m)
      PROVE  UNCHANGED handlerVars
  BY <1>8 DEF BackoffElapses, SendAccepted, SendRefused, SendReplyLost, Send,
              Record, RecordFails
<1>9. CASE Park \/ Woken \/ Tick \/ ClaimFails \/ UNCHANGED vars
  BY <1>1, <1>9 DEF Park, Woken, Tick, ClaimFails, vars, handlerVars
<1> QED BY <1>1, <1>2, <1>3, <1>4, <1>5, <1>6, <1>7, <1>8, <1>9
        DEF Next, Worker, handlerVars

LEMMA OutboxInit == Init => OutboxInv
<1> SUFFICES ASSUME Init PROVE OutboxInv
  OBVIOUS
<1>1. TypeOK
  <2>1. [status |-> "none", attempts |-> 0, delay |-> 0] \in Row
    BY DEF Row
  <2>2. outbox \in [Ids -> Row] /\ copies \in [Ids -> Nat]
        /\ seen \in [Ids -> 0 .. maxAttempts]
    BY <2>1 DEF Init
  <2>3. batch \subseteq Ids /\ pc = "drain" /\ outcome = "none"
        /\ unheard = {} /\ faults = 0
    BY DEF Init
  <2>4. handler \in [Handlers -> Errand] /\ faults \in 0 .. FaultLimit
    BY <2>3, IdleErrand DEF Init
  <2>5. wake \in BOOLEAN
    BY Zenon DEF Init
  <2> QED BY <2>2, <2>3, <2>4, <2>5 DEF TypeOK
<1>2. WorkerConsistent /\ ClaimsAreFresh
  BY DEF Init, WorkerConsistent, ClaimsAreFresh
<1>3. \A m \in Ids : /\ outbox[m].status = "none" /\ outbox[m].delay = 0
                     /\ copies[m] = 0 /\ ~InFlight(m)
  BY DEF Init, InFlight
<1>4. ScheduleFollowed
  BY <1>3 DEF ScheduleFollowed
<1>5. CopiesAccounted
  BY <1>3 DEF Init, CopiesAccounted
<1> QED BY <1>1, <1>2, <1>4, <1>5 DEF OutboxInv

(* Steps that change neither a row nor what the worker holds. *)
LEMMA QuietStep ==
    ASSUME OutboxInv, UNCHANGED <<outbox, batch, seen, outcome, copies, faults>>,
           wake' \in BOOLEAN, handler' \in [Handlers -> Errand],
           unheard' \subseteq Ids,
           pc' = pc \/ /\ pc \in {"drain", "parking", "idle", "erred"}
                       /\ pc' \in {"drain", "parking", "idle", "erred"}
    PROVE  OutboxInv'
BY DEF OutboxInv, TypeOK, WorkerConsistent, ClaimsAreFresh, ScheduleFollowed,
       CopiesAccounted, InFlight, IsFirst

LEMMA EnqueueStep ==
    ASSUME OutboxInv, NEW h \in Handlers, NEW S \in SUBSET Ids,
           NEW marks \in BOOLEAN, Enqueue(h, S, marks)
    PROVE  OutboxInv'
<1>1. NewRow \in Row /\ NewRow.status = "pending" /\ NewRow.attempts = 0
      /\ NewRow.delay = 0
  BY DEF NewRow, Row
<1>2. \A m \in Ids : outbox'[m] = IF m \in S THEN NewRow ELSE outbox[m]
  BY DEF Enqueue
<1>3. \A m \in S : outbox[m].status = "none"
  BY DEF Enqueue, Queued
<1>4. \A m \in batch : m \notin S
  BY <1>3 DEF OutboxInv, ClaimsAreFresh
<1>5. UNCHANGED <<pc, batch, seen, outcome, wake, unheard, copies, faults>>
      /\ handler' = [handler EXCEPT ![h] = [mail |-> S, marks |-> marks]]
  BY DEF Enqueue, workerVars
<1>6. TypeOK'
  <2>1. handler' \in [Handlers -> Errand]
    BY <1>5, NewErrand DEF OutboxInv, TypeOK
  <2>2. outbox' \in [Ids -> Row]
    BY <1>1 DEF OutboxInv, TypeOK, Enqueue
  <2> QED BY <1>5, <2>1, <2>2 DEF OutboxInv, TypeOK
<1>7. WorkerConsistent'
  BY <1>5 DEF OutboxInv, WorkerConsistent
<1>8. ClaimsAreFresh'
  BY <1>2, <1>4, <1>5 DEF OutboxInv, ClaimsAreFresh, TypeOK
<1>9. ScheduleFollowed'
  BY <1>1, <1>2 DEF OutboxInv, ScheduleFollowed
<1>10. CopiesAccounted'
  BY <1>1, <1>2, <1>3, <1>5 DEF OutboxInv, CopiesAccounted, InFlight, IsFirst
<1> QED BY <1>6, <1>7, <1>8, <1>9, <1>10 DEF OutboxInv

LEMMA RetryStep ==
    ASSUME OutboxInv, NEW h \in Handlers, NEW m \in Ids, RetryMessage(h, m)
    PROVE  OutboxInv'
<1>1. NewRow \in Row /\ NewRow.status = "pending" /\ NewRow.attempts = 0
      /\ NewRow.delay = 0
  BY DEF NewRow, Row
<1>2. /\ outbox[m].status = "failed" /\ outbox'[m] = NewRow
      /\ \A k \in Ids \ {m} : outbox'[k] = outbox[k]
  BY DEF RetryMessage, OutboxInv, TypeOK
<1>3. m \notin batch
  BY <1>2 DEF OutboxInv, ClaimsAreFresh
<1>4. UNCHANGED <<pc, batch, seen, outcome, wake, unheard, copies, faults>>
      /\ handler' = [handler EXCEPT ![h] = [mail |-> {m}, marks |-> FALSE]]
  BY DEF RetryMessage, workerVars
<1>5. TypeOK'
  <2>1. [mail |-> {m}, marks |-> FALSE] \in Errand
    BY NewErrand
  <2>2. handler' \in [Handlers -> Errand]
    BY <1>4, <2>1 DEF OutboxInv, TypeOK
  <2>3. outbox' \in [Ids -> Row]
    BY <1>1 DEF OutboxInv, TypeOK, RetryMessage
  <2> QED BY <1>4, <2>2, <2>3 DEF OutboxInv, TypeOK
<1>6. WorkerConsistent'
  BY <1>4 DEF OutboxInv, WorkerConsistent
<1>7. ClaimsAreFresh'
  BY <1>2, <1>3, <1>4 DEF OutboxInv, ClaimsAreFresh, TypeOK
<1>8. ScheduleFollowed'
  BY <1>1, <1>2 DEF OutboxInv, ScheduleFollowed
<1>9. CopiesAccounted'
  BY <1>1, <1>2, <1>4 DEF OutboxInv, CopiesAccounted, InFlight, IsFirst
<1> QED BY <1>5, <1>6, <1>7, <1>8, <1>9 DEF OutboxInv

LEMMA BackoffStepInv ==
    ASSUME OutboxInv, NEW m \in Ids, BackoffElapses(m)
    PROVE  OutboxInv'
<1>1. /\ outbox'[m] = [outbox[m] EXCEPT !.delay = 0]
      /\ \A k \in Ids \ {m} : outbox'[k] = outbox[k]
      /\ outbox[m].delay > 0
      /\ UNCHANGED <<pc, batch, seen, outcome, wake, handler, unheard, copies, faults>>
  BY DEF BackoffElapses, OutboxInv, TypeOK, workerVars, handlerVars
<1>2. outbox[m] \in Row
  BY DEF OutboxInv, TypeOK
<1>3. /\ outbox'[m] \in Row /\ outbox'[m].status = outbox[m].status
      /\ outbox'[m].attempts = outbox[m].attempts /\ outbox'[m].delay = 0
  BY <1>1, <1>2 DEF Row
<1>4. TypeOK'
  BY <1>1, <1>3 DEF OutboxInv, TypeOK, BackoffElapses
<1>5. WorkerConsistent'
  BY <1>1 DEF OutboxInv, WorkerConsistent
<1>6. m \notin batch
  BY <1>1 DEF OutboxInv, ClaimsAreFresh
<1>7. ClaimsAreFresh'
  BY <1>1, <1>6 DEF OutboxInv, ClaimsAreFresh, TypeOK
<1>8. ScheduleFollowed'
  <2>1. ASSUME NEW k \in Ids, k # m
        PROVE  /\ outbox'[k].status = "pending" => outbox'[k].attempts < maxAttempts
               /\ outbox'[k].delay > 0 => /\ outbox'[k].status = "pending"
                                          /\ outbox'[k].delay = outbox'[k].attempts
    BY <1>1, <2>1 DEF OutboxInv, ScheduleFollowed
  <2>2. outbox'[m].status = "pending" => outbox'[m].attempts < maxAttempts
    BY <1>3 DEF OutboxInv, ScheduleFollowed
  <2>3. ~(outbox'[m].delay > 0)
    BY <1>3
  <2> QED BY <2>1, <2>2, <2>3 DEF ScheduleFollowed
<1>9. CopiesAccounted'
  BY <1>1, <1>3 DEF OutboxInv, CopiesAccounted, InFlight, IsFirst
<1> QED BY <1>4, <1>5, <1>7, <1>8, <1>9 DEF OutboxInv

LEMMA ClaimStep ==
    ASSUME OutboxInv, ClaimDue
    PROVE  OutboxInv'
<1>1. Claimable \subseteq Ids
      /\ \A m \in Claimable : outbox[m].status = "pending" /\ outbox[m].delay = 0
  BY DEF Claimable, Due
<1>2. /\ pc = "drain" /\ batch' = Claimable
      /\ pc' = IF Claimable = {} THEN "parking" ELSE "deliver"
      /\ seen' = [m \in Ids |-> IF m \in Claimable THEN outbox[m].attempts ELSE 0]
      /\ unheard' = {}
      /\ UNCHANGED <<outbox, outcome, wake, handler, copies, faults>>
  BY DEF ClaimDue
<1>3. \A m \in Ids : outbox[m].attempts \in 0 .. maxAttempts
  BY DEF OutboxInv, TypeOK, Row
<1>4. TypeOK'
  BY <1>1, <1>2, <1>3 DEF OutboxInv, TypeOK
<1>5. WorkerConsistent'
  BY <1>2 DEF OutboxInv, WorkerConsistent
<1>6. ClaimsAreFresh'
  BY <1>1, <1>2 DEF ClaimsAreFresh
<1>7. ScheduleFollowed'
  BY <1>2 DEF OutboxInv, ScheduleFollowed
<1>8. CopiesAccounted'
  BY <1>2 DEF OutboxInv, CopiesAccounted, InFlight
<1> QED BY <1>4, <1>5, <1>6, <1>7, <1>8 DEF OutboxInv

LEMMA SendStep ==
    ASSUME OutboxInv, NEW m \in Ids,
           SendAccepted(m) \/ SendRefused(m) \/ SendReplyLost(m)
    PROVE  OutboxInv'
<1>1. PICK r \in {"ok", "transient", "permanent"}, a \in BOOLEAN : Send(m, r, a)
  BY DEF SendAccepted, SendRefused, SendReplyLost
<1>2. /\ pc = "deliver" /\ IsFirst(m) /\ pc' = "record"
      /\ outcome' \in {"ok", "transient", "permanent"}
      /\ UNCHANGED <<outbox, batch, seen, wake, handler, unheard>>
  BY <1>1 DEF Send, handlerVars
<1>3. \/ /\ outcome' = "ok" /\ faults' = faults
         /\ copies' = [copies EXCEPT ![m] = @ + 1]
      \/ outcome' # "ok" /\ faults' = faults /\ copies' = copies
      \/ /\ outcome' # "ok" /\ faults < FaultLimit /\ faults' = faults + 1
         /\ copies' = [copies EXCEPT ![m] = @ + 1]
  BY DEF SendAccepted, SendRefused, SendReplyLost, Send, Fault
<1>4. copies \in [Ids -> Nat] /\ faults \in Nat
  BY DEF OutboxInv, TypeOK
<1>5. TypeOK'
  BY <1>2, <1>3 DEF OutboxInv, TypeOK
<1>6. WorkerConsistent'
  BY <1>2 DEF OutboxInv, WorkerConsistent
<1>7. ClaimsAreFresh' /\ ScheduleFollowed'
  BY <1>2 DEF OutboxInv, ClaimsAreFresh, ScheduleFollowed
<1>8. CopiesAccounted'
  <2>1. outbox[m].status = "pending" /\ copies[m] <= faults /\ ~InFlight(m)
    BY <1>2 DEF OutboxInv, ClaimsAreFresh, CopiesAccounted, IsFirst, InFlight
  <2>2. \A k \in Ids : ~InFlight(k)
    BY <1>2 DEF InFlight
  <2>3. \A k \in Ids \ {m} : ~InFlight(k)' /\ copies'[k] = copies[k]
    <3>1. \A k \in Ids \ {m} : copies'[k] = copies[k]
      BY <1>3, <1>4
    <3>2. \A k \in Ids \ {m} : ~IsFirst(k)'
      BY <1>2 DEF IsFirst, Ids
    <3> QED BY <3>1, <3>2 DEF InFlight
  <2>4. InFlight(m)' <=> outcome' = "ok"
    BY <1>2 DEF InFlight, IsFirst
  <2>5. faults' \in Nat /\ faults' >= faults
    BY <1>3, <1>4
  <2>6. ASSUME NEW k \in Ids, k # m
        PROVE  /\ copies'[k] <= 1 + faults'
               /\ outbox'[k].status # "sent" /\ ~InFlight(k)' => copies'[k] <= faults'
               /\ outbox'[k].status = "sent" \/ InFlight(k)' => copies'[k] > 0
    BY <1>2, <1>4, <2>2, <2>3, <2>5, <2>6 DEF OutboxInv, CopiesAccounted
  <2>7. /\ copies'[m] <= 1 + faults'
        /\ outbox'[m].status # "sent" /\ ~InFlight(m)' => copies'[m] <= faults'
        /\ outbox'[m].status = "sent" \/ InFlight(m)' => copies'[m] > 0
    BY <1>2, <1>3, <1>4, <2>1, <2>4
  <2> QED BY <2>6, <2>7 DEF CopiesAccounted
<1> QED BY <1>5, <1>6, <1>7, <1>8 DEF OutboxInv

(* Whether or not the outcome is recorded, the rest of the batch stands. *)
LEMMA NextMessageFacts ==
    ASSUME OutboxInv, NEW m \in Ids, pc = "record", IsFirst(m), NextMessage(m)
    PROVE  /\ batch' \subseteq Ids /\ batch' \subseteq batch /\ m \notin batch'
           /\ seen' \in [Ids -> 0 .. maxAttempts]
           /\ \A k \in batch' : seen'[k] = seen[k]
           /\ outcome' = "none" /\ pc' \in {"drain", "deliver"}
           /\ WorkerConsistent'
           /\ \A k \in Ids : ~InFlight(k)'
<1>1. m \in batch
  BY DEF IsFirst
<1>2. batch' = batch \ {m} /\ seen' = [seen EXCEPT ![m] = 0] /\ outcome' = "none"
      /\ pc' = IF batch = {m} THEN "drain" ELSE "deliver"
  BY DEF NextMessage
<1>3. seen \in [Ids -> 0 .. maxAttempts] /\ batch \subseteq Ids
  BY DEF OutboxInv, TypeOK
<1>4. WorkerConsistent'
  BY <1>1, <1>2 DEF WorkerConsistent
<1> QED BY <1>2, <1>3, <1>4 DEF InFlight

LEMMA RecordStep ==
    ASSUME OutboxInv, NEW m \in Ids, Record(m)
    PROVE  OutboxInv'
<1>1. /\ pc = "record" /\ IsFirst(m) /\ NextMessage(m)
      /\ outbox' = [outbox EXCEPT ![m] = Recorded(m)]
      /\ UNCHANGED <<wake, handler, unheard, copies, faults>>
  BY DEF Record, handlerVars
<1>2. /\ batch' \subseteq Ids /\ batch' \subseteq batch /\ m \notin batch'
      /\ seen' \in [Ids -> 0 .. maxAttempts]
      /\ \A k \in batch' : seen'[k] = seen[k]
      /\ outcome' = "none" /\ pc' \in {"drain", "deliver"}
      /\ WorkerConsistent'
      /\ \A k \in Ids : ~InFlight(k)'
  BY <1>1, NextMessageFacts
<1>3. /\ outbox[m] \in Row /\ outbox[m].status = "pending"
      /\ outbox[m].delay = 0 /\ outbox[m].attempts = seen[m]
      /\ seen[m] \in 0 .. 4
  BY <1>1 DEF OutboxInv, TypeOK, ClaimsAreFresh, ScheduleFollowed, IsFirst, Row
<1>4. outcome \in {"ok", "transient", "permanent"}
  BY <1>1 DEF OutboxInv, TypeOK, WorkerConsistent
<1>5. /\ outbox' \in [Ids -> Row] /\ outbox'[m] = Recorded(m)
      /\ \A k \in Ids \ {m} : outbox'[k] = outbox[k]
  <2>1. BackoffStep(m) \in 1 .. 4
    BY <1>3 DEF BackoffStep
  <2>2. Recorded(m) \in Row
    BY <1>3, <2>1 DEF Recorded, Row
  <2> QED BY <1>1, <2>2 DEF OutboxInv, TypeOK
<1>6. TypeOK'
  BY <1>1, <1>2, <1>5 DEF OutboxInv, TypeOK
<1>7. ClaimsAreFresh'
  BY <1>2, <1>5 DEF OutboxInv, TypeOK, ClaimsAreFresh
<1>8. ScheduleFollowed'
  <2>1. /\ Recorded(m).status = "pending" => Recorded(m).attempts < 5
        /\ Recorded(m).delay > 0 => /\ Recorded(m).status = "pending"
                                    /\ Recorded(m).delay = Recorded(m).attempts
    BY <1>3, <1>4 DEF Recorded, GivesUp, BackoffStep
  <2> QED BY <1>5, <2>1 DEF OutboxInv, ScheduleFollowed
<1>9. CopiesAccounted'
  <2>1. ASSUME NEW k \in Ids, k # m
        PROVE  /\ copies'[k] <= 1 + faults'
               /\ outbox'[k].status # "sent" => copies'[k] <= faults'
               /\ outbox'[k].status = "sent" => copies'[k] > 0
    <3>1. ~InFlight(k)
      BY <1>1, <2>1 DEF InFlight, IsFirst, Ids
    <3> QED BY <1>1, <1>5, <2>1, <3>1 DEF OutboxInv, CopiesAccounted
  <2>2. /\ outcome = "ok" => Recorded(m).status = "sent" /\ InFlight(m)
        /\ outcome # "ok" => Recorded(m).status # "sent" /\ ~InFlight(m)
    BY <1>1, <1>3 DEF Recorded, InFlight
  <2>3. /\ copies'[m] <= 1 + faults'
        /\ outbox'[m].status # "sent" => copies'[m] <= faults'
        /\ outbox'[m].status = "sent" => copies'[m] > 0
    BY <1>1, <1>3, <1>5, <2>2 DEF OutboxInv, CopiesAccounted
  <2> QED BY <1>2, <2>1, <2>3 DEF CopiesAccounted
<1> QED BY <1>2, <1>6, <1>7, <1>8, <1>9 DEF OutboxInv

(* A fault that drops what the worker holds, in part or altogether. *)
LEMMA DropStep ==
    ASSUME OutboxInv, Restart \/ \E m \in Ids : RecordFails(m)
    PROVE  OutboxInv'
<1>1. /\ outbox' = outbox /\ copies' = copies
      /\ faults < FaultLimit /\ faults' = faults + 1
      /\ wake' \in BOOLEAN /\ handler' \in [Handlers -> Errand]
      /\ unheard' \subseteq Ids
  <2>1. /\ wake \in BOOLEAN /\ handler \in [Handlers -> Errand]
        /\ unheard \subseteq Ids
    BY DEF OutboxInv, TypeOK
  <2>2. CASE Restart
    <3>1. wake' \in BOOLEAN
      BY <2>2, Zenon DEF Restart
    <3>2. handler' \in [Handlers -> Errand] /\ unheard' \subseteq Ids
      BY <2>2, IdleErrand DEF Restart
    <3>3. /\ outbox' = outbox /\ copies' = copies
          /\ faults < FaultLimit /\ faults' = faults + 1
      BY <2>2 DEF Restart, Fault
    <3> QED BY <3>1, <3>2, <3>3
  <2>3. ASSUME NEW m \in Ids, RecordFails(m)
        PROVE  /\ outbox' = outbox /\ copies' = copies
               /\ faults < FaultLimit /\ faults' = faults + 1
               /\ wake' = wake /\ handler' = handler /\ unheard' = unheard
    BY <2>3 DEF RecordFails, Fault, handlerVars
  <2> QED BY <2>1, <2>2, <2>3
<1>2. /\ batch' \subseteq Ids /\ batch' \subseteq batch
      /\ seen' \in [Ids -> 0 .. maxAttempts]
      /\ \A k \in batch' : seen'[k] = seen[k]
      /\ outcome' = "none" /\ pc' \in {"drain", "deliver"}
      /\ WorkerConsistent'
      /\ \A k \in Ids : ~InFlight(k)'
  <2>1. CASE Restart
    BY <2>1 DEF Restart, WorkerConsistent, InFlight
  <2>2. ASSUME NEW m \in Ids, RecordFails(m)
        PROVE  /\ pc = "record" /\ IsFirst(m) /\ NextMessage(m)
    BY <2>2 DEF RecordFails
  <2> QED BY <2>1, <2>2, NextMessageFacts
<1>3. TypeOK'
  BY <1>1, <1>2 DEF OutboxInv, TypeOK
<1>4. ClaimsAreFresh' /\ ScheduleFollowed'
  BY <1>1, <1>2 DEF OutboxInv, ClaimsAreFresh, ScheduleFollowed
<1>5. CopiesAccounted'
  <2>1. copies \in [Ids -> Nat] /\ faults \in Nat
    BY DEF OutboxInv, TypeOK
  <2> QED BY <1>1, <1>2, <2>1 DEF OutboxInv, CopiesAccounted
<1> QED BY <1>2, <1>3, <1>4, <1>5 DEF OutboxInv

LEMMA WakeStep ==
    ASSUME OutboxInv, [Next]_vars,
           \/ \E h \in Handlers : GiveUp(h) \/ Wake(h)
           \/ Park \/ Woken \/ Tick
    PROVE  OutboxInv'
<1>1. wake \in BOOLEAN
  BY DEF OutboxInv, TypeOK
<1>2. UNCHANGED <<outbox, batch, seen, outcome, copies, faults>>
  BY DEF GiveUp, Wake, Park, Woken, Tick, workerVars
<1>3. wake' = wake \/ wake' = TRUE \/ wake' = FALSE
  BY DEF GiveUp, Wake, Park, Woken, Tick
<1>4. wake' \in BOOLEAN
  BY <1>1, <1>3, Zenon
<1>5. handler' \in [Handlers -> Errand] /\ unheard' \subseteq Ids
  BY HandlersStep DEF OutboxInv
<1>6. \/ pc' = pc
      \/ /\ pc \in {"drain", "parking", "idle", "erred"}
         /\ pc' \in {"drain", "parking", "idle", "erred"}
  BY DEF GiveUp, Wake, Park, Woken, Tick, workerVars
<1> QED BY <1>2, <1>4, <1>5, <1>6, QuietStep

LEMMA ClaimFailsStep ==
    ASSUME OutboxInv, ClaimFails
    PROVE  OutboxInv'
<1>1. /\ pc = "drain" /\ pc' = "erred" /\ faults' = faults + 1
      /\ faults < FaultLimit
      /\ UNCHANGED <<outbox, batch, seen, outcome, wake, handler, unheard, copies>>
  BY DEF ClaimFails, Fault, handlerVars
<1>2. copies \in [Ids -> Nat] /\ faults \in Nat
  BY DEF OutboxInv, TypeOK
<1>3. TypeOK' /\ WorkerConsistent'
  BY <1>1 DEF OutboxInv, TypeOK, WorkerConsistent
<1>4. ClaimsAreFresh' /\ ScheduleFollowed'
  BY <1>1 DEF OutboxInv, ClaimsAreFresh, ScheduleFollowed
<1>5. CopiesAccounted'
  BY <1>1, <1>2 DEF OutboxInv, CopiesAccounted, InFlight, IsFirst
<1> QED BY <1>3, <1>4, <1>5 DEF OutboxInv

LEMMA OutboxStep ==
    ASSUME OutboxInv, [Next]_vars
    PROVE  OutboxInv'
<1>1. CASE UNCHANGED vars
  BY <1>1 DEF vars, workerVars, handlerVars, OutboxInv, TypeOK, WorkerConsistent, ClaimsAreFresh,
              ScheduleFollowed, CopiesAccounted, InFlight, IsFirst
<1>2. ASSUME NEW h \in Handlers, NEW S \in (SUBSET Ids) \ {{}},
             NEW marks \in BOOLEAN, Enqueue(h, S, marks)
      PROVE  OutboxInv'
  BY <1>2, EnqueueStep
<1>3. ASSUME NEW m \in Ids,
             (\E h \in Handlers : RetryMessage(h, m)) \/ BackoffElapses(m)
      PROVE  OutboxInv'
  BY <1>3, RetryStep, BackoffStepInv
<1>4. CASE \/ \E h \in Handlers : GiveUp(h) \/ Wake(h)
           \/ Park \/ Woken \/ Tick
  BY <1>4, WakeStep
<1>5. CASE ClaimDue
  BY <1>5, ClaimStep
<1>6. ASSUME NEW m \in Ids, SendAccepted(m) \/ SendRefused(m) \/ SendReplyLost(m)
      PROVE  OutboxInv'
  BY <1>6, SendStep
<1>7. ASSUME NEW m \in Ids, Record(m)
      PROVE  OutboxInv'
  BY <1>7, RecordStep
<1>8. CASE ClaimFails
  BY <1>8, ClaimFailsStep
<1>9. CASE Restart \/ \E m \in Ids : RecordFails(m)
  BY <1>9, DropStep
<1> QED BY <1>1, <1>2, <1>3, <1>4, <1>5, <1>6, <1>7, <1>8, <1>9 DEF Next, Worker

(* The inductive invariant holds in every reachable state. *)
THEOREM OutboxInvariant == Spec => []OutboxInv
<1>1. Init => OutboxInv
  BY OutboxInit
<1>2. OutboxInv /\ [Next]_vars => OutboxInv'
  BY OutboxStep
<1> QED BY <1>1, <1>2, PTL DEF Spec

(* Rows, worker, channel and counters stay within their types. *)
THEOREM OutboxTypeCorrect == Spec => []TypeOK
<1>1. OutboxInv => TypeOK
  BY DEF OutboxInv
<1> QED BY <1>1, OutboxInvariant, PTL

(* A claimed row is as it was when claimed until the worker records it. *)
THEOREM ClaimsStayFresh == Spec => []ClaimsAreFresh
<1>1. OutboxInv => ClaimsAreFresh
  BY DEF OutboxInv
<1> QED BY <1>1, OutboxInvariant, PTL

(* No queued message has used up its attempts, and each backoff waited out
   is the one of the last attempt. *)
THEOREM ScheduleHolds == Spec => []ScheduleFollowed
<1>1. OutboxInv => ScheduleFollowed
  BY DEF OutboxInv
<1> QED BY <1>1, OutboxInvariant, PTL

(* A sent message reached the server, and every further copy is a fault's. *)
THEOREM CopiesBounded == Spec => []SentOnceBarFaults
<1>1. OutboxInv => SentOnceBarFaults
  BY DEF OutboxInv, CopiesAccounted, SentOnceBarFaults
<1> QED BY <1>1, OutboxInvariant, PTL

-----------------------------------------------------------------------------
(* Wake-ups *)

(* A set of ids that is not empty has a smallest.  Its subsets without one are
   well-founded under inclusion; a minimal one would still lack a smallest
   element after losing any of its elements. *)
LEMMA SmallestExists ==
    ASSUME NEW S \in SUBSET Ids, S # {}
    PROVE  \E m \in S : \A k \in S : m <= k
<1>a. Ids \subseteq Nat /\ IsFiniteSet(Ids)
  BY FS_Interval DEF Ids
<1>b. IsFiniteSet(S)
  BY <1>a, FS_Subset
<1> DEFINE Low(T) == \E m \in T : \A k \in T : m <= k
           Bad == {T \in FiniteSubsetsOf(S) : T # {} /\ ~Low(T)}
<1>1. SUFFICES ASSUME Bad # {} PROVE FALSE
  <2>1. S \in FiniteSubsetsOf(S)
    BY <1>b DEF FiniteSubsetsOf
  <2> QED BY <2>1
<1>2. PICK T \in Bad : \A U \in Bad : <<U, T>> \notin StrictSubsetOrdering(S)
  <2>1. IsWellFoundedOn(StrictSubsetOrdering(S), FiniteSubsetsOf(S))
    BY <1>b, FS_StrictSubsetOrderingWellFounded
  <2>2. Bad \subseteq FiniteSubsetsOf(S)
    OBVIOUS
  <2> QED BY <1>1, <2>1, <2>2, WFMin
<1>3. T \subseteq Nat /\ IsFiniteSet(T) /\ T # {} /\ ~Low(T) /\ T \subseteq S
  BY <1>a, <1>2 DEF FiniteSubsetsOf
<1>4. PICK x \in T : TRUE
  BY <1>3
<1>5. T \ {x} # {}
  <2>1. SUFFICES ASSUME T = {x} PROVE FALSE
    BY <1>4
  <2>2. \A k \in T : x <= k
    BY <2>1, <1>3
  <2> QED BY <1>3, <1>4, <2>2
<1>6. T \ {x} \in FiniteSubsetsOf(S)
  BY <1>3, FS_RemoveElement DEF FiniteSubsetsOf
<1>7. <<T \ {x}, T>> \in StrictSubsetOrdering(S)
  BY <1>3, <1>4 DEF StrictSubsetOrdering
<1>8. Low(T \ {x})
  BY <1>2, <1>5, <1>6, <1>7
<1>9. PICK m \in T \ {x} : \A k \in T \ {x} : m <= k
  BY <1>8
<1>10. CASE m <= x
  BY <1>3, <1>9, <1>10
<1>11. CASE ~(m <= x)
  <2>1. \A k \in T : x <= k
    BY <1>3, <1>4, <1>9, <1>11
  <2> QED BY <1>3, <1>4, <2>1
<1> QED BY <1>10, <1>11

(* Claiming finds something whenever something is due. *)
LEMMA ClaimFinds ==
    ASSUME Due # {}
    PROVE  Claimable # {}
<1>1. PICK m \in Due : \A k \in Due : m <= k
  BY SmallestExists DEF Due
<1>2. {k \in Due : k < m} = {}
  BY <1>1 DEF Due, Ids
<1>3. Cardinality({k \in Due : k < m}) = 0
  BY <1>2, FS_EmptySet
<1> QED BY <1>1, <1>3 DEF Claimable

(* For any number of messages, handlers and batch size: mail that was never
   tried waits with a waiting worker only if a wake-up is on its way or its
   handler ended before it could send one. *)
THEOREM NoWakeIsLost == Spec => []NoLostWake
<1> DEFINE Held(m) == \E h \in Handlers : m \in handler[h].mail
           Fresh(m) == m \in Due /\ outbox[m].attempts = 0
<1>1. Init => NoLostWake
  BY DEF Init, NoLostWake
<1>2. ASSUME OutboxInv, NoLostWake, [Next]_vars
      PROVE  NoLostWake'
  <2>1. /\ outbox \in [Ids -> Row] /\ handler \in [Handlers -> Errand]
        /\ unheard \subseteq Ids
    BY <1>2 DEF OutboxInv, TypeOK
  <2>2. CASE pc' \notin {"parking", "idle"}
    BY <2>2 DEF NoLostWake
  <2>3. CASE ClaimDue
    <3>1. CASE Due = {}
      BY <2>3, <3>1 DEF ClaimDue, NoLostWake, Due
    <3>2. CASE Due # {}
      BY <2>3, <3>2, ClaimFinds DEF ClaimDue, NoLostWake
    <3> QED BY <3>1, <3>2
  <2>4. ASSUME pc' \in {"parking", "idle"}, ~ClaimDue,
               NEW m \in Ids, Fresh(m)'
        PROVE  wake' \/ m \in unheard' \/ Held(m)'
    <3>1. ASSUME pc \in {"parking", "idle"}, Fresh(m)
          PROVE  wake \/ m \in unheard \/ Held(m)
      BY <1>2, <3>1 DEF NoLostWake
    <3>2. ASSUME NEW h \in Handlers, NEW S \in SUBSET Ids,
                 NEW marks \in BOOLEAN, Enqueue(h, S, marks)
          PROVE  wake' \/ m \in unheard' \/ Held(m)'
      <4>1. /\ pc' = pc /\ wake' = wake /\ unheard' = unheard
            /\ handler[h].mail = {} /\ handler'[h].mail = S
            /\ \A g \in Handlers \ {h} : handler'[g] = handler[g]
        BY <2>1, <3>2 DEF Enqueue, Idle, workerVars
      <4>2. m \notin S => Fresh(m)
        BY <2>4, <3>2 DEF Enqueue, Due
      <4>3. CASE m \in S
        BY <4>1, <4>3
      <4>4. CASE m \notin S
        <5>1. Held(m) => Held(m)'
          BY <4>1
        <5> QED BY <2>4, <3>1, <4>1, <4>2, <4>4, <5>1
      <4> QED BY <4>3, <4>4
    <3>3. ASSUME NEW h \in Handlers, NEW k \in Ids, RetryMessage(h, k)
          PROVE  wake' \/ m \in unheard' \/ Held(m)'
      <4>1. /\ pc' = pc /\ wake' = wake /\ unheard' = unheard
            /\ handler[h].mail = {} /\ handler'[h].mail = {k}
            /\ \A g \in Handlers \ {h} : handler'[g] = handler[g]
        BY <2>1, <3>3 DEF RetryMessage, Idle, workerVars
      <4>2. m # k => Fresh(m)
        BY <2>1, <2>4, <3>3 DEF RetryMessage, Due
      <4>3. CASE m = k
        BY <4>1, <4>3
      <4>4. CASE m # k
        <5>1. Held(m) => Held(m)'
          BY <4>1
        <5> QED BY <2>4, <3>1, <4>1, <4>2, <4>4, <5>1
      <4> QED BY <4>3, <4>4
    <3>4. ASSUME NEW h \in Handlers, GiveUp(h)
          PROVE  wake' \/ m \in unheard' \/ Held(m)'
      <4>1. /\ pc' = pc /\ wake' = wake /\ outbox' = outbox
            /\ unheard' = unheard \cup handler[h].mail
            /\ \A g \in Handlers \ {h} : handler'[g] = handler[g]
        BY <2>1, <3>4 DEF GiveUp, workerVars
      <4>2. Fresh(m)
        BY <2>4, <4>1 DEF Due
      <4> QED BY <2>4, <3>1, <4>1, <4>2
    <3>5. ASSUME NEW h \in Handlers, Wake(h)
          PROVE  wake' \/ m \in unheard' \/ Held(m)'
      BY <3>5 DEF Wake
    <3>6. ASSUME NEW k \in Ids, BackoffElapses(k)
          PROVE  wake' \/ m \in unheard' \/ Held(m)'
      <4>1. /\ pc' = pc /\ wake' = wake /\ UNCHANGED <<handler, unheard>>
        BY <3>6 DEF BackoffElapses, workerVars, handlerVars
      <4>2. /\ outbox'[k].attempts = outbox[k].attempts /\ outbox[k].attempts > 0
            /\ \A j \in Ids \ {k} : outbox'[j] = outbox[j]
        BY <1>2, <2>1, <3>6 DEF BackoffElapses, OutboxInv, ScheduleFollowed, Row
      <4>3. Fresh(m)
        BY <2>4, <4>2 DEF Due
      <4> QED BY <2>4, <3>1, <4>1, <4>3
    <3>7. CASE Park \/ UNCHANGED vars
      <4>1. /\ pc \in {"parking", "idle"} /\ wake' = wake
            /\ UNCHANGED <<outbox, handler, unheard>>
        BY <2>4, <3>7 DEF Park, vars, workerVars, handlerVars
      <4>2. Fresh(m)
        BY <2>4, <4>1 DEF Due
      <4> QED BY <3>1, <4>1, <4>2
    <3>8. ~(Woken \/ Tick \/ ClaimFails \/ Restart)
      BY <2>4 DEF Woken, Tick, ClaimFails, Restart
    <3>9. \A k \in Ids : ~(SendAccepted(k) \/ SendRefused(k) \/ SendReplyLost(k))
      BY <2>4 DEF SendAccepted, SendRefused, SendReplyLost, Send
    <3>10. \A k \in Ids : ~(Record(k) \/ RecordFails(k))
      BY <2>4 DEF Record, RecordFails, NextMessage
    <3> QED BY <1>2, <2>4, <3>2, <3>3, <3>4, <3>5, <3>6, <3>7, <3>8, <3>9, <3>10
            DEF Next, Worker
  <2>5. Due' \subseteq Ids
    BY DEF Due, Ids
  <2> QED BY <2>2, <2>3, <2>4, <2>5 DEF NoLostWake
<1> QED BY <1>1, <1>2, OutboxInvariant, PTL DEF Spec

-----------------------------------------------------------------------------
(* Each step of the outbox as a step of Delivery. *)

(* What each action does to the rows and to the copies. *)
LEMMA EffectOnMail ==
    ASSUME OutboxInv, [Next]_vars
    PROVE  \/ UNCHANGED <<outbox, copies>>
           \/ \E S \in SUBSET Ids :
                 /\ \A m \in S : outbox[m].status = "none"
                 /\ outbox' = [m \in Ids |-> IF m \in S THEN NewRow ELSE outbox[m]]
                 /\ copies' = copies
           \/ \E m \in Ids :
                 \/ /\ outbox[m].status = "failed"
                    /\ outbox' = [outbox EXCEPT ![m] = NewRow]
                    /\ copies' = copies
                 \/ /\ outbox[m].delay > 0
                    /\ outbox' = [outbox EXCEPT ![m].delay = 0]
                    /\ copies' = copies
                 \/ /\ outbox[m].status = "pending"
                    /\ copies' = [copies EXCEPT ![m] = @ + 1]
                    /\ outbox' = outbox
                 \/ /\ outbox[m].status = "pending"
                    /\ Recorded(m).status = "sent" => copies[m] > 0
                    /\ Recorded(m).status \in {"pending", "sent", "failed"}
                    /\ outbox' = [outbox EXCEPT ![m] = Recorded(m)]
                    /\ copies' = copies
<1>1. ASSUME NEW h \in Handlers, NEW S \in SUBSET Ids, NEW marks \in BOOLEAN,
             Enqueue(h, S, marks)
      PROVE  /\ \A m \in S : outbox[m].status = "none"
             /\ outbox' = [m \in Ids |-> IF m \in S THEN NewRow ELSE outbox[m]]
             /\ copies' = copies
  BY <1>1 DEF Enqueue, Queued
<1>2. ASSUME NEW h \in Handlers, NEW m \in Ids, RetryMessage(h, m)
      PROVE  /\ outbox[m].status = "failed" /\ copies' = copies
             /\ outbox' = [outbox EXCEPT ![m] = NewRow]
  BY <1>2 DEF RetryMessage
<1>3. ASSUME NEW m \in Ids, BackoffElapses(m)
      PROVE  /\ outbox[m].delay > 0 /\ copies' = copies
             /\ outbox' = [outbox EXCEPT ![m].delay = 0]
  BY <1>3 DEF BackoffElapses
<1>4. ASSUME NEW m \in Ids,
             SendAccepted(m) \/ SendRefused(m) \/ SendReplyLost(m)
      PROVE  /\ outbox[m].status = "pending" /\ outbox' = outbox
             /\ copies' \in {copies, [copies EXCEPT ![m] = @ + 1]}
  <2>1. IsFirst(m) /\ outbox' = outbox
        /\ copies' \in {copies, [copies EXCEPT ![m] = @ + 1]}
    BY <1>4 DEF SendAccepted, SendRefused, SendReplyLost, Send
  <2> QED BY <2>1 DEF IsFirst, OutboxInv, ClaimsAreFresh
<1>5. ASSUME NEW m \in Ids, Record(m)
      PROVE  /\ outbox[m].status = "pending" /\ copies' = copies
             /\ Recorded(m).status = "sent" => copies[m] > 0
             /\ Recorded(m).status \in {"pending", "sent", "failed"}
             /\ outbox' = [outbox EXCEPT ![m] = Recorded(m)]
  <2>1. pc = "record" /\ IsFirst(m) /\ copies' = copies
        /\ outbox' = [outbox EXCEPT ![m] = Recorded(m)]
    BY <1>5 DEF Record
  <2>2. outbox[m].status = "pending"
    BY <2>1 DEF IsFirst, OutboxInv, ClaimsAreFresh
  <2>3. Recorded(m).status = "sent" => InFlight(m)
    BY <2>1, <2>2 DEF Recorded, InFlight
  <2>4. InFlight(m) => copies[m] > 0
    BY DEF OutboxInv, CopiesAccounted
  <2>5. Recorded(m).status \in {"pending", "sent", "failed"}
    BY <2>2 DEF Recorded
  <2> QED BY <2>1, <2>2, <2>3, <2>4, <2>5
<1>6. ASSUME \/ \E h \in Handlers : GiveUp(h) \/ Wake(h)
             \/ Park \/ Woken \/ Tick \/ ClaimDue \/ ClaimFails
             \/ Restart \/ \E m \in Ids : RecordFails(m)
             \/ UNCHANGED vars
      PROVE  UNCHANGED <<outbox, copies>>
  BY <1>6 DEF GiveUp, Wake, Park, Woken, Tick, ClaimDue, ClaimFails, Restart,
              RecordFails, vars
<1> QED BY <1>1, <1>2, <1>3, <1>4, <1>5, <1>6 DEF Next, Worker

(* A message that is sent stays sent, and no further copy of it leaves. *)
THEOREM SentStaysSent == Spec => SentIsFinal
<1>1. ASSUME OutboxInv, [Next]_vars, NEW k \in Ids, outbox[k].status = "sent"
      PROVE  outbox'[k] = outbox[k] /\ copies'[k] = copies[k]
  <2>1. outbox \in [Ids -> Row] /\ copies \in [Ids -> Nat]
        /\ outbox[k].delay = 0
    <3>1. outbox \in [Ids -> Row] /\ copies \in [Ids -> Nat]
      BY <1>1 DEF OutboxInv, TypeOK
    <3>2. outbox[k].delay \in Nat /\ ~(outbox[k].delay > 0)
      BY <1>1, <3>1 DEF OutboxInv, ScheduleFollowed, Row
    <3> QED BY <3>1, <3>2
  <2> QED BY <1>1, <2>1, EffectOnMail
<1>2. OutboxInv /\ [Next]_vars =>
        [\A m \in Ids : outbox[m].status = "sent"
            => outbox'[m] = outbox[m] /\ copies'[m] = copies[m]]_vars
  BY <1>1
<1> QED BY <1>2, OutboxInvariant, PTL DEF Spec, SentIsFinal

(* The outbox keeps the safety part of what Delivery promises: every step of
   handlers, worker, mail server, clock and crashes queues new messages,
   delivers a copy of a queued one, settles it or puts a failed one back. *)
THEOREM OutboxDelivers == Spec => Promise!DeliverySafety
<1>1. Init => Promise!DeliveryInit
  BY DEF Init, Promise!DeliveryInit
<1>2. ASSUME OutboxInv, [Next]_vars
      PROVE  [Promise!DeliveryNext]_(Promise!deliveryVars)
  <2> DEFINE Mail == [m \in Ids |-> IF outbox[m].status = "pending"
                                    THEN "queued" ELSE outbox[m].status]
  <2>1. outbox \in [Ids -> Row] /\ copies \in [Ids -> Nat]
    BY <1>2 DEF OutboxInv, TypeOK
  <2>2. CASE UNCHANGED <<outbox, copies>>
    BY <2>2 DEF Promise!deliveryVars
  <2>3. ASSUME NEW S \in SUBSET Ids, \A m \in S : outbox[m].status = "none",
               outbox' = [m \in Ids |-> IF m \in S THEN NewRow ELSE outbox[m]],
               copies' = copies
        PROVE  Promise!Queue(S)
    BY <2>3 DEF Promise!Queue, NewRow
  <2>4. ASSUME NEW m \in Ids, outbox[m].status = "failed",
               outbox' = [outbox EXCEPT ![m] = NewRow], copies' = copies
        PROVE  Promise!Requeue(m)
    <3>1. Mail' = [Mail EXCEPT ![m] = "queued"]
      BY <2>1, <2>4 DEF NewRow
    <3> QED BY <2>4, <3>1 DEF Promise!Requeue
  <2>5. ASSUME NEW m \in Ids, outbox' = [outbox EXCEPT ![m].delay = 0],
               copies' = copies
        PROVE  UNCHANGED Promise!deliveryVars
    <3>1. \A k \in Ids : outbox'[k].status = outbox[k].status
      BY <2>1, <2>5 DEF Row
    <3> QED BY <2>5, <3>1 DEF Promise!deliveryVars
  <2>6. ASSUME NEW m \in Ids, outbox[m].status = "pending",
               copies' = [copies EXCEPT ![m] = @ + 1], outbox' = outbox
        PROVE  Promise!Reach(m)
    BY <2>6 DEF Promise!Reach
  <2>7. ASSUME NEW m \in Ids, outbox[m].status = "pending",
               Recorded(m).status = "sent" => copies[m] > 0,
               Recorded(m).status \in {"pending", "sent", "failed"},
               outbox' = [outbox EXCEPT ![m] = Recorded(m)], copies' = copies
        PROVE  Promise!Settle(m) \/ UNCHANGED Promise!deliveryVars
    <3>1. outbox'[m] = Recorded(m)
          /\ \A k \in Ids \ {m} : outbox'[k] = outbox[k]
      BY <2>1, <2>7
    <3>2. CASE Recorded(m).status = "pending"
      <4>1. \A k \in Ids : outbox'[k].status = outbox[k].status
        BY <2>7, <3>1, <3>2
      <4> QED BY <2>7, <4>1 DEF Promise!deliveryVars
    <3>3. CASE Recorded(m).status # "pending"
      <4>1. Mail' = [Mail EXCEPT ![m] = Recorded(m).status]
        BY <3>1, <3>3
      <4> QED BY <2>7, <3>3, <4>1 DEF Promise!Settle, Promise!SettleSent,
                                      Promise!SettleFailed
    <3> QED BY <3>2, <3>3
  <2>8. Promise!DeliveryNext \/ UNCHANGED Promise!deliveryVars
    BY <1>2, <2>2, <2>3, <2>4, <2>5, <2>6, <2>7, EffectOnMail
       DEF Promise!DeliveryNext
  <2> QED BY <2>8
<1> QED BY <1>1, <1>2, OutboxInvariant, PTL DEF Spec, Promise!DeliverySafety
=============================================================================
