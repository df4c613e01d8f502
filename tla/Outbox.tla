------------------------------- MODULE Outbox -------------------------------
(***************************************************************************)
(* The email outbox (internal/store/outbox.go) and the one worker that     *)
(* drains it (internal/mail/worker.go), with the handlers that queue, wake *)
(* and retry, the mail server, and the process dying at any point.         *)
(*                                                                         *)
(*   outbox   id -> row; status "none" for rows not inserted yet           *)
(*   pc       where the worker is: about to claim, delivering a batch,     *)
(*            about to record an outcome, about to wait having found       *)
(*            nothing due, waiting, waiting after an error                 *)
(*   batch    ids of the rows claimed and not yet attempted                *)
(*   seen     the attempts of those rows as they were when claimed         *)
(*   outcome  what Send returned for the first of the batch                *)
(*   wake     the worker's one-slot channel holds a token                  *)
(*   handler  per handler that has changed the queue and not called Wake   *)
(*            yet: the mail it put there, and whether it still has the     *)
(*            session to mark, so that it may end before it gets to Wake   *)
(*   unheard  mail whose handler ended without waking the worker, since    *)
(*            the worker last looked (history, which no step reads)        *)
(*   copies   how often the mail server accepted each message              *)
(*   faults   crashes, database errors of the worker and lost replies      *)
(*                                                                         *)
(* Time is reduced to how long a row still has to wait: delay 0 is due,    *)
(* d > 0 is waiting out the d-th entry of the backoff schedule.            *)
(***************************************************************************)
EXTENDS Integers, FiniteSets

CONSTANTS
    Messages,     \* bound: rows ever queued; ids are 1 .. Messages
    BatchLimit,   \* rows ClaimDue returns at most (20 in the code)
    Handlers,     \* bound: handlers that may be between Enqueue and Wake
    FaultLimit    \* bound: faults of any kind

ASSUME OutboxAssumption ==
    /\ Messages \in Nat
    /\ BatchLimit \in Nat \ {0}
    /\ FaultLimit \in Nat

VARIABLES outbox, pc, batch, seen, outcome, wake, handler, unheard, copies,
          faults

workerVars == <<pc, batch, seen, outcome>>
handlerVars == <<handler, unheard>>
vars == <<outbox, workerVars, wake, handlerVars, copies, faults>>

Ids == 1 .. Messages
maxAttempts == 5
backoffLength == 4

Row == [status   : {"none", "pending", "sent", "failed"},
        attempts : 0 .. maxAttempts,
        delay    : 0 .. backoffLength]

Errand == [mail : SUBSET Ids, marks : BOOLEAN]
Idle == [mail |-> {}, marks |-> FALSE]

TypeOK ==
    /\ outbox \in [Ids -> Row]
    /\ pc \in {"drain", "deliver", "record", "parking", "idle", "erred"}
    /\ batch \subseteq Ids
    /\ seen \in [Ids -> 0 .. maxAttempts]
    /\ outcome \in {"none", "ok", "transient", "permanent"}
    /\ wake \in BOOLEAN
    /\ handler \in [Handlers -> Errand]
    /\ unheard \subseteq Ids
    /\ copies \in [Ids -> Nat]
    /\ faults \in 0 .. FaultLimit

(* Run drains before it waits for the first time. *)
Init ==
    /\ outbox = [m \in Ids |-> [status |-> "none", attempts |-> 0, delay |-> 0]]
    /\ pc = "drain"
    /\ batch = {}
    /\ seen = [m \in Ids |-> 0]
    /\ outcome = "none"
    /\ wake = FALSE
    /\ handler = [h \in Handlers |-> Idle]
    /\ unheard = {}
    /\ copies = [m \in Ids |-> 0]
    /\ faults = 0

Fault == faults < FaultLimit /\ faults' = faults + 1

-----------------------------------------------------------------------------
(* Handlers *)

NewRow == [status |-> "pending", attempts |-> 0, delay |-> 0]

Queued == {m \in Ids : outbox[m].status # "none"}

(* Enqueue: the messages S in one transaction, with the next ids.  After an
   invitation or a reminder the handler has the session to mark before it
   wakes the worker; every other handler wakes it at once. *)
Enqueue(h, S, marks) ==
    /\ handler[h] = Idle
    /\ S \subseteq Ids \ Queued
    /\ \A m \in S, k \in Ids \ S : k < m <=> k \in Queued
    /\ outbox' = [m \in Ids |-> IF m \in S THEN NewRow ELSE outbox[m]]
    /\ handler' = [handler EXCEPT ![h] = [mail |-> S, marks |-> marks]]
    /\ UNCHANGED <<workerVars, wake, unheard, copies, faults>>

(* handleOutboxRetry: a failed message starts again from nothing. *)
RetryMessage(h, m) ==
    /\ handler[h] = Idle
    /\ outbox[m].status = "failed"
    /\ outbox' = [outbox EXCEPT ![m] = NewRow]
    /\ handler' = [handler EXCEPT ![h] = [mail |-> {m}, marks |-> FALSE]]
    /\ UNCHANGED <<workerVars, wake, unheard, copies, faults>>

(* MarkInvitationSent, SetSessionStatus or MarkReminderSent fails, or the
   client has gone and its context with it: the handler returns with its mail
   committed and the worker not woken. *)
GiveUp(h) ==
    /\ handler[h].marks
    /\ handler' = [handler EXCEPT ![h] = Idle]
    /\ unheard' = unheard \cup handler[h].mail
    /\ UNCHANGED <<outbox, workerVars, wake, copies, faults>>

(* A variant with an unbuffered channel: only a waiting worker hears it. *)
Wake_Unbuffered(h) ==
    /\ handler[h].mail # {}
    /\ handler' = [handler EXCEPT ![h] = Idle]
    /\ wake' = (pc \in {"idle", "erred"})
    /\ UNCHANGED <<outbox, workerVars, unheard, copies, faults>>

(* The session is marked, if that was to be done, and Wake is called.  It
   never blocks: if the slot is taken a wake-up is already pending. *)
Wake(h) ==
    /\ handler[h].mail # {}
    /\ handler' = [handler EXCEPT ![h] = Idle]
    /\ wake' = TRUE
    /\ UNCHANGED <<outbox, workerVars, unheard, copies, faults>>

-----------------------------------------------------------------------------
(* The worker *)

(* A variant that forgets the status column. *)
Due_AnyStatus == {m \in Ids : outbox[m].status # "none" /\ outbox[m].delay = 0}

Due == {m \in Ids : outbox[m].status = "pending" /\ outbox[m].delay = 0}

(* ORDER BY id LIMIT BatchLimit: the due rows with the smallest ids. *)
Claimable == {m \in Due : Cardinality({k \in Due : k < m}) < BatchLimit}

ClaimDue ==
    /\ pc = "drain"
    /\ pc' = IF Claimable = {} THEN "parking" ELSE "deliver"
    /\ batch' = Claimable
    /\ seen' = [m \in Ids |-> IF m \in Claimable THEN outbox[m].attempts ELSE 0]
    /\ unheard' = {}
    /\ UNCHANGED <<outbox, outcome, wake, handler, copies, faults>>

(* Having found nothing, drain returns and Run gets to its select. *)
Park ==
    /\ pc = "parking"
    /\ pc' = "idle"
    /\ UNCHANGED <<outbox, batch, seen, outcome, wake, handlerVars, copies, faults>>

ClaimFails ==
    /\ pc = "drain"
    /\ Fault
    /\ pc' = "erred"
    /\ UNCHANGED <<outbox, batch, seen, outcome, wake, handlerVars, copies>>

(* The batch is worked through in the order in which it was read. *)
IsFirst(m) == m \in batch /\ \A k \in batch : m <= k

(* Send: the server accepts the message, or does not, or accepts it and the
   reply is lost, which Send reports as an ordinary error. *)
Send(m, result, accepted) ==
    /\ pc = "deliver"
    /\ IsFirst(m)
    /\ pc' = "record"
    /\ outcome' = result
    /\ copies' = IF accepted THEN [copies EXCEPT ![m] = @ + 1] ELSE copies
    /\ UNCHANGED <<outbox, batch, seen, wake, handlerVars>>

SendAccepted(m) == Send(m, "ok", TRUE) /\ UNCHANGED faults
SendRefused(m) == \E r \in {"transient", "permanent"} :
                      Send(m, r, FALSE) /\ UNCHANGED faults
SendReplyLost(m) == Send(m, "transient", TRUE) /\ Fault

(* The row as MarkSent, MarkFailed or MarkRetry leaves it: what to do depends
   on the attempts seen when the row was claimed, the UPDATE adds one to the
   attempts in the row.  Variants: no cap on the attempts; the schedule one
   entry ahead; a sent row left pending; an error taken for a delivery. *)
GivesUp_Uncapped(m) == outcome = "permanent"
GivesUp(m) == outcome = "permanent" \/ seen[m] + 1 >= maxAttempts

BackoffStep_NextAttempt(m) ==
    1 + (IF seen[m] + 1 < backoffLength - 1 THEN seen[m] + 1
         ELSE backoffLength - 1)
BackoffStep(m) == 1 + (IF seen[m] < backoffLength - 1 THEN seen[m]
                       ELSE backoffLength - 1)

Recorded_StaysPending(m) ==
    [status   |-> IF outcome # "ok" /\ GivesUp(m) THEN "failed"
                  ELSE outbox[m].status,
     attempts |-> outbox[m].attempts + 1,
     delay    |-> IF outcome = "ok" \/ GivesUp(m) THEN outbox[m].delay
                  ELSE BackoffStep(m)]

Recorded_ErrorIgnored(m) ==
    [status |-> "sent", attempts |-> outbox[m].attempts + 1, delay |-> 0]

Recorded(m) ==
    [status   |-> IF outcome = "ok" THEN "sent"
                  ELSE IF GivesUp(m) THEN "failed" ELSE outbox[m].status,
     attempts |-> outbox[m].attempts + 1,
     delay    |-> IF outcome = "ok" \/ GivesUp(m) THEN outbox[m].delay
                  ELSE BackoffStep(m)]

(* On to the next message of the batch, or back to claiming. *)
NextMessage(m) ==
    /\ batch' = batch \ {m}
    /\ seen' = [seen EXCEPT ![m] = 0]
    /\ outcome' = "none"
    /\ pc' = IF batch = {m} THEN "drain" ELSE "deliver"

Record(m) ==
    /\ pc = "record"
    /\ IsFirst(m)
    /\ outbox' = [outbox EXCEPT ![m] = Recorded(m)]
    /\ NextMessage(m)
    /\ UNCHANGED <<wake, handlerVars, copies, faults>>

(* The UPDATE fails: that is logged, and the worker goes on. *)
RecordFails(m) ==
    /\ pc = "record"
    /\ IsFirst(m)
    /\ Fault
    /\ NextMessage(m)
    /\ UNCHANGED <<outbox, wake, handlerVars, copies>>

Woken ==
    /\ pc \in {"idle", "erred"}
    /\ wake
    /\ wake' = FALSE
    /\ pc' = "drain"
    /\ UNCHANGED <<outbox, batch, seen, outcome, handlerVars, copies, faults>>

(* The fallback poll, without which a message waiting out a backoff would
   need some other mail to wake the worker; the variant polls only after an
   error. *)
Tick_AfterError ==
    /\ pc = "erred"
    /\ pc' = "drain"
    /\ UNCHANGED <<outbox, batch, seen, outcome, wake, handlerVars, copies, faults>>

Tick ==
    /\ pc \in {"idle", "erred"}
    /\ pc' = "drain"
    /\ UNCHANGED <<outbox, batch, seen, outcome, wake, handlerVars, copies, faults>>

-----------------------------------------------------------------------------
(* Time and failure *)

BackoffElapses(m) ==
    /\ outbox[m].delay > 0
    /\ outbox' = [outbox EXCEPT ![m].delay = 0]
    /\ UNCHANGED <<workerVars, wake, handlerVars, copies, faults>>

(* The process dies or is stopped (a cancelled context fails the UPDATE that
   was about to run) and comes up again; rows survive, all else is lost. *)
Restart ==
    /\ Fault
    /\ pc' = "drain"
    /\ batch' = {}
    /\ seen' = [m \in Ids |-> 0]
    /\ outcome' = "none"
    /\ wake' = FALSE
    /\ handler' = [h \in Handlers |-> Idle]
    /\ unheard' = {}
    /\ UNCHANGED <<outbox, copies>>

Worker ==
    \/ ClaimDue \/ Park \/ Woken \/ Tick
    \/ \E m \in Ids : SendAccepted(m) \/ SendRefused(m) \/ Record(m)

Next ==
    \/ \E h \in Handlers, S \in (SUBSET Ids) \ {{}}, marks \in BOOLEAN :
           Enqueue(h, S, marks)
    \/ \E h \in Handlers, m \in Ids : RetryMessage(h, m)
    \/ \E h \in Handlers : GiveUp(h) \/ Wake(h)
    \/ \E m \in Ids : BackoffElapses(m)
    \/ Worker
    \/ ClaimFails \/ Restart
    \/ \E m \in Ids : SendReplyLost(m) \/ RecordFails(m)

(* The goroutine keeps running, its ticker fires and time passes.  Nothing
   makes handlers queue mail, and faults only happen. *)
Fairness == WF_vars(Worker) /\ \A m \in Ids : WF_vars(BackoffElapses(m))

Spec == Init /\ [][Next]_vars /\ Fairness

(* The organizer does not go on retrying failed messages for ever.  ClaimDue
   takes the smallest ids first, so BatchLimit low ids that fail and are put
   back without end would keep every later message waiting. *)
OrganizerRests ==
    <>[][\A h \in Handlers, m \in Ids : ~RetryMessage(h, m)]_vars

RestingSpec == Spec /\ OrganizerRests

-----------------------------------------------------------------------------
(* Safety *)

(* What the worker read when it claimed a row is still so when it acts on it,
   a whole batch of slow sends later: the row is pending, due and has the
   same attempts.  The three UPDATEs name only the id, and the give-up rule
   and the backoff use the old count, so both are right only because of
   this: nobody else touches a pending row and only failed rows are reset. *)
ClaimsAreFresh == \A m \in batch :
    outbox[m].status = "pending" /\ outbox[m].delay = 0
    /\ outbox[m].attempts = seen[m]

(* The retry schedule: a message still queued has been tried less often than
   the cap, and each wait it is in is the one of its last attempt. *)
ScheduleFollowed == \A m \in Ids :
    /\ outbox[m].status = "pending" => outbox[m].attempts < maxAttempts
    /\ outbox[m].delay > 0 => /\ outbox[m].status = "pending"
                              /\ outbox[m].delay = outbox[m].attempts

(* A message reported as sent reached the server, and nobody is sent more
   copies than one and one more for each fault there has been. *)
SentOnceBarFaults == \A m \in Ids :
    /\ outbox[m].status = "sent" => copies[m] > 0
    /\ copies[m] <= 1 + faults

(* No wake-up is lost: while the worker waits because it found nothing due, a
   message that has never been tried is there only if the worker has been
   woken since, the message's own handler is still about to wake it, or that
   handler ended before it could.  Mail from a click that succeeds goes out at
   once, not at the next tick, although Wake and drain share one slot. *)
NoLostWake ==
    pc \in {"parking", "idle"} =>
        \A m \in Due : outbox[m].attempts = 0 =>
            \/ wake
            \/ m \in unheard
            \/ \E h \in Handlers : m \in handler[h].mail

(* A message that is sent stays sent and no further copy leaves: part of what
   ImplementsDelivery says, stated for the proofs. *)
SentIsFinal ==
    [][\A m \in Ids : outbox[m].status = "sent"
          => outbox'[m] = outbox[m] /\ copies'[m] = copies[m]]_vars

-----------------------------------------------------------------------------
(* Liveness *)

(* Every queued message is eventually sent or given up on, whatever order
   errors, restarts, backoffs and new mail come in. *)
EventuallySettled == \A m \in Ids :
    outbox[m].status = "pending" ~> outbox[m].status \in {"sent", "failed"}

-----------------------------------------------------------------------------
(* Refinement: batches, backoff, wake-ups and restarts are ways to deliver. *)
Promise == INSTANCE Delivery WITH
    Ids  <- Ids,
    mail <- [m \in Ids |-> IF outbox[m].status = "pending" THEN "queued"
                           ELSE outbox[m].status]

ImplementsDelivery == Promise!DeliverySpec
=============================================================================
