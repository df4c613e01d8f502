------------------------------ MODULE Limiter -------------------------------
(***************************************************************************)
(* The rate limiter in front of the participant pages and the login        *)
(* (internal/web/ratelimit.go): one token bucket per client address,       *)
(* created full when an address is first seen and dropped by a sweep when  *)
(* it has not been used for a while.                                       *)
(*                                                                         *)
(* allow reads the clock before it takes the mutex, so requests may get at *)
(* the buckets in another order than that of their times, and a bucket's   *)
(* time may go backwards.  The unit of the buckets is what one tick of the *)
(* clock refills; a request costs Price of them.  The code's limiters are  *)
(* Price 30, Burst 300 (login) and Price 1, Burst 60 (participants), with  *)
(* a sweep of 600, all for ticks of a second.                              *)
(*                                                                         *)
(*   clock    the time                                                     *)
(*   buckets  client -> bucket, NoBucket where the map has none            *)
(*   lastGC   when the last sweep was                                      *)
(*   req      what each handler goroutine waiting for the mutex read       *)
(*   credit   client -> what an ideal bucket, never swept, that holds      *)
(*            Burst + Delay would have left of it, history                 *)
(*   due      the same of an ideal bucket that holds Burst, history        *)
(***************************************************************************)
EXTENDS Integers

CONSTANTS
    Clients,   \* client addresses
    Requests,  \* handler goroutines
    Price,     \* refill units per token
    Burst,     \* capacity, in refill units
    Idle,      \* ticks without use after which a bucket is swept
    Delay,     \* bound: ticks a goroutine waits for the mutex
    Horizon    \* bound: the last tick

ASSUME LimiterAssumption ==
    /\ Price \in Nat \ {0} /\ Burst \in Nat /\ Idle \in Nat
    /\ Delay \in Nat /\ Horizon \in Nat
    /\ Price <= Burst
    /\ Burst + 2 * Delay <= Idle

VARIABLES clock, buckets, lastGC, req, credit, due

vars == <<clock, buckets, lastGC, req, credit, due>>

NoBucket == [tokens |-> 0, seen |-> -1]
Waiting == [who |-> {}, now |-> 0]

TypeOK ==
    /\ clock \in 0 .. Horizon
    /\ buckets \in [Clients -> [tokens : -Delay .. Burst, seen : -1 .. clock]]
    /\ lastGC \in 0 .. clock
    /\ req \in [Requests -> [who : SUBSET Clients, now : 0 .. clock]]
    /\ credit \in [Clients -> Int]
    /\ due \in [Clients -> Int]

Init ==
    /\ clock = 0
    /\ buckets = [c \in Clients |-> NoBucket]
    /\ lastGC = 0
    /\ req = [r \in Requests |-> Waiting]
    /\ credit = [c \in Clients |-> Burst + Delay]
    /\ due = [c \in Clients |-> Burst]

AtMost(limit, n) == IF n > limit THEN limit ELSE n

(* The request gets to allow, which reads the clock before anything else. *)
Arrive(r, c) ==
    /\ req[r].who = {}
    /\ req' = [req EXCEPT ![r] = [who |-> {c}, now |-> clock]]
    /\ UNCHANGED <<clock, buckets, lastGC, credit, due>>

(* A variant that sweeps whatever is there. *)
Swept_All(c, now) == now - lastGC > Idle

(* The sweep runs when the last one is long ago, and takes the buckets that
   have not been used for as long. *)
Swept(c, now) ==
    now - lastGC > Idle /\ now - buckets[c].seen > Idle

(* The bucket c's request finds: a new one is full. *)
Found(c, now) ==
    IF Swept(c, now) \/ buckets[c].seen = -1
    THEN [tokens |-> Burst, seen |-> now]
    ELSE buckets[c]

(* A variant without the cap. *)
Filled_Uncapped(c, now) ==
    Found(c, now).tokens + (now - Found(c, now).seen)

(* Negative if the request was overtaken by one that emptied the bucket. *)
Filled(c, now) ==
    AtMost(Burst, Found(c, now).tokens + (now - Found(c, now).seen))

(* A variant that charges a refused request too. *)
Left_Charged(c, now) == Filled(c, now) - Price

Left(c, now) ==
    IF Filled(c, now) < Price THEN Filled(c, now) ELSE Filled(c, now) - Price

Updated(c, now) ==
    [x \in Clients |->
        IF x = c THEN [tokens |-> Left(c, now), seen |-> now]
        ELSE IF Swept(x, now) THEN NoBucket ELSE buckets[x]]

Take(r, c) ==
    /\ req[r].who = {c}
    /\ buckets' = Updated(c, req[r].now)
    /\ lastGC' = IF req[r].now - lastGC > Idle THEN req[r].now ELSE lastGC
    /\ req' = [req EXCEPT ![r] = Waiting]
    /\ UNCHANGED clock

Allow(r, c) ==
    /\ Take(r, c)
    /\ Filled(c, req[r].now) >= Price
    /\ credit' = [credit EXCEPT ![c] = @ - Price]
    /\ due' = [due EXCEPT ![c] = @ - Price]

Refuse(r, c) ==
    /\ Take(r, c)
    /\ Filled(c, req[r].now) < Price
    /\ UNCHANGED <<credit, due>>

Tick ==
    /\ clock < Horizon
    /\ \A r \in Requests : req[r].who # {} => clock < req[r].now + Delay
    /\ clock' = clock + 1
    /\ credit' = [c \in Clients |-> AtMost(Burst + Delay, credit[c] + 1)]
    /\ due' = [c \in Clients |-> AtMost(Burst, due[c] + 1)]
    /\ UNCHANGED <<buckets, lastGC, req>>

Next ==
    \/ \E r \in Requests, c \in Clients :
          Arrive(r, c) \/ Allow(r, c) \/ Refuse(r, c)
    \/ Tick

Spec == Init /\ [][Next]_vars

-----------------------------------------------------------------------------
(* Safety *)

(* Nobody gets more than the limit: in any stretch of T ticks a client makes
   at most (Burst + Delay + T) / Price requests that pass, however often its
   bucket is swept and made anew and in whatever order requests get the
   mutex.  Without the sweep being slower than the refill it would fail. *)
NeverAhead == \A c \in Clients : credit[c] >= 0

(* And nobody gets less: a request is refused only if the ideal bucket holds
   less than a request and the longest wait for the mutex are worth. *)
RefusedForCause ==
    [][\A r \in Requests, c \in Clients :
         Refuse(r, c) => due[c] < Price + Delay]_vars
=============================================================================
