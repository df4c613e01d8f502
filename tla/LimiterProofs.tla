--------------------------- MODULE LimiterProofs ----------------------------
(***************************************************************************)
(* The limiter lets nobody make more requests than an ideal bucket of a    *)
(* slightly larger size would, and refuses only what the ideal bucket      *)
(* nearly would, for any prices, sizes, sweep intervals and delays within  *)
(* LimiterAssumption.                                                      *)
(***************************************************************************)
EXTENDS Limiter, TLAPS

(* No goroutine waits longer for the mutex than Delay. *)
SoonServed == \A r \in Requests : req[r].who # {} => clock <= req[r].now + Delay

(* What c's bucket would hold now, but for the cap. *)
Projected(c) == buckets[c].tokens + (clock - buckets[c].seen)

(* The ideal buckets enclose the real one; a client without a bucket could
   have a full one.  That a bucket never falls behind the clock (Projected
   is not negative) is what makes it full by the time it is swept. *)
Enclosed(c) ==
    /\ credit[c] <= Burst + Delay
    /\ due[c] <= Burst
    /\ buckets[c].seen = -1 => credit[c] = Burst + Delay
    /\ buckets[c].seen # -1 => /\ Projected(c) >= 0
                               /\ AtMost(Burst + Delay, Projected(c)) <= credit[c]
                               /\ due[c] <= Projected(c)

LimiterInv == TypeOK /\ SoonServed /\ \A c \in Clients : Enclosed(c)

-----------------------------------------------------------------------------
LEMMA InitInv == Init => LimiterInv
BY LimiterAssumption
DEF Init, LimiterInv, TypeOK, SoonServed, Enclosed, NoBucket, Waiting, AtMost

(* The bucket c finds is full or its own, and holds at most Burst. *)
LEMMA TakeFacts ==
    ASSUME LimiterInv, NEW r \in Requests, NEW c \in Clients, req[r].who = {c}
    PROVE  LET now == req[r].now
           IN  /\ now \in 0 .. clock /\ clock <= now + Delay
               /\ \A x \in Clients :
                     /\ buckets[x].tokens \in -Delay .. Burst
                     /\ buckets[x].seen \in -1 .. clock
                     /\ credit[x] \in Int /\ due[x] \in Int
               /\ Filled(c, now) \in Int
               /\ Filled(c, now) <= Burst
               /\ Left(c, now) \in Int
<1> DEFINE now == req[r].now
<1>1. now \in 0 .. clock /\ clock <= now + Delay
  BY DEF LimiterInv, TypeOK, SoonServed
<1>2. ASSUME NEW x \in Clients
      PROVE  /\ buckets[x].tokens \in -Delay .. Burst
             /\ buckets[x].seen \in -1 .. clock
             /\ credit[x] \in Int /\ due[x] \in Int
  BY DEF LimiterInv, TypeOK
<1>3. Found(c, now).tokens \in Int /\ Found(c, now).seen \in Int
  BY <1>1, <1>2, LimiterAssumption DEF Found
<1>4. Filled(c, now) \in Int /\ Filled(c, now) <= Burst
  BY <1>1, <1>3, LimiterAssumption DEF Filled, AtMost
<1>5. Left(c, now) \in Int
  BY <1>4, LimiterAssumption DEF Left
<1> QED
  BY <1>1, <1>2, <1>4, <1>5

(* A bucket that is swept has been full for a while. *)
LEMMA SweptFull ==
    ASSUME LimiterInv, NEW r \in Requests, NEW c \in Clients, req[r].who = {c},
           NEW x \in Clients, Swept(x, req[r].now)
    PROVE  credit[x] = Burst + Delay
<1>1. /\ buckets[x].tokens \in Int /\ -Delay <= buckets[x].tokens
      /\ buckets[x].seen \in Int /\ credit[x] \in Int
      /\ clock \in Int /\ req[r].now \in Int /\ req[r].now <= clock
  BY TakeFacts, LimiterAssumption DEF LimiterInv, TypeOK
<1>2. Enclosed(x)
  BY DEF LimiterInv
<1>3. CASE buckets[x].seen = -1
  BY <1>2, <1>3 DEF Enclosed
<1>4. CASE buckets[x].seen # -1
  <2>1. Projected(x) > Burst + Delay
    BY <1>1, LimiterAssumption DEF Swept, Projected
  <2> QED
    BY <1>1, <1>2, <1>4, <2>1, LimiterAssumption DEF Enclosed, AtMost
<1> QED
  BY <1>3, <1>4

(* Each request that gets the mutex keeps the types. *)
LEMMA TakeType ==
    ASSUME LimiterInv, NEW r \in Requests, NEW c \in Clients, Take(r, c),
           credit' \in [Clients -> Int], due' \in [Clients -> Int]
    PROVE  TypeOK' /\ SoonServed'
<1> DEFINE now == req[r].now
<1>1. /\ req[r].who = {c} /\ clock' = clock
      /\ buckets' = Updated(c, now)
      /\ lastGC' = IF now - lastGC > Idle THEN now ELSE lastGC
      /\ req' = [req EXCEPT ![r] = Waiting]
  BY DEF Take
<1>2. now \in 0 .. clock /\ clock <= now + Delay
  BY <1>1, TakeFacts
<1>3. Left(c, now) \in -Delay .. Burst
  <2>1. /\ Filled(c, now) \in Int /\ Filled(c, now) <= Burst
    BY <1>1, TakeFacts
  <2>2. CASE Filled(c, now) >= Price
    BY <2>1, <2>2, LimiterAssumption DEF Left
  <2>3. CASE Filled(c, now) < Price
    <3>1. Found(c, now) = buckets[c] /\ buckets[c].seen # -1
      BY <1>2, <2>3, LimiterAssumption DEF Filled, Found, AtMost
    <3>2. Projected(c) >= 0
      BY <3>1 DEF LimiterInv, Enclosed
    <3>3. Filled(c, now) >= -Delay
      BY <1>1, <1>2, <3>1, <3>2, TakeFacts, LimiterAssumption
      DEF Filled, AtMost, Projected, LimiterInv, TypeOK
    <3> QED
      BY <2>1, <2>3, <3>3, LimiterAssumption DEF Left
  <2> QED
    BY <2>1, <2>2, <2>3, LimiterAssumption
<1>4. buckets' \in [Clients -> [tokens : -Delay .. Burst, seen : -1 .. clock]]
  <2>1. NoBucket \in [tokens : -Delay .. Burst, seen : -1 .. clock]
    BY LimiterAssumption DEF NoBucket, LimiterInv, TypeOK
  <2>2. [tokens |-> Left(c, now), seen |-> now]
            \in [tokens : -Delay .. Burst, seen : -1 .. clock]
    BY <1>2, <1>3, LimiterAssumption
  <2> QED
    BY <1>1, <2>1, <2>2 DEF Updated, LimiterInv, TypeOK
<1>5. Waiting \in [who : SUBSET Clients, now : 0 .. clock]
  BY DEF Waiting, LimiterInv, TypeOK
<1>6. TypeOK'
  BY <1>1, <1>2, <1>4, <1>5, LimiterAssumption DEF LimiterInv, TypeOK
<1>7. SoonServed'
  BY <1>1 DEF LimiterInv, TypeOK, SoonServed, Waiting
<1> QED
  BY <1>6, <1>7

(* The buckets of the others stay or are swept. *)
LEMMA TakeOthers ==
    ASSUME LimiterInv, NEW r \in Requests, NEW c \in Clients, Take(r, c),
           NEW x \in Clients \ {c}, credit'[x] = credit[x], due'[x] = due[x]
    PROVE  Enclosed(x)'
<1>1. /\ req[r].who = {c} /\ clock' = clock
      /\ buckets'[x] = IF Swept(x, req[r].now) THEN NoBucket ELSE buckets[x]
  BY DEF Take, Updated
<1>2. Enclosed(x)
  BY DEF LimiterInv
<1>3. CASE Swept(x, req[r].now)
  <2>1. credit[x] = Burst + Delay
    BY <1>1, <1>3, SweptFull
  <2> QED
    BY <1>1, <1>2, <1>3, <2>1, LimiterAssumption DEF Enclosed, NoBucket
<1>4. CASE ~Swept(x, req[r].now)
  BY <1>1, <1>2, <1>4 DEF Enclosed, Projected
<1> QED
  BY <1>3, <1>4

(* The bucket that a request is served from, whether it is found or made. *)
LEMMA FoundEnclosed ==
    ASSUME LimiterInv, NEW r \in Requests, NEW c \in Clients, req[r].who = {c}
    PROVE  LET now   == req[r].now
               ahead == Filled(c, now) + (clock - now)
           IN  /\ ahead <= credit[c]
               /\ due[c] <= ahead
<1> DEFINE now == req[r].now
<1>1. /\ now \in Int /\ clock \in Int /\ now <= clock /\ clock <= now + Delay
      /\ buckets[c].tokens \in Int /\ buckets[c].seen \in Int
      /\ credit[c] \in Int /\ due[c] \in Int
  BY TakeFacts, LimiterAssumption DEF LimiterInv, TypeOK
<1>2. Enclosed(c)
  BY DEF LimiterInv
<1>3. CASE Swept(c, now) \/ buckets[c].seen = -1
  <2>1. credit[c] = Burst + Delay
    BY <1>2, <1>3, SweptFull DEF Enclosed
  <2>2. Filled(c, now) = Burst
    BY <1>1, <1>3, LimiterAssumption DEF Filled, Found, AtMost
  <2> QED
    BY <1>1, <1>2, <2>1, <2>2, LimiterAssumption DEF Enclosed
<1>4. CASE ~Swept(c, now) /\ buckets[c].seen # -1
  <2>1. Found(c, now) = buckets[c]
    BY <1>4 DEF Found
  <2> QED
    BY <1>1, <1>2, <1>4, <2>1, LimiterAssumption
    DEF Enclosed, Projected, Filled, AtMost
<1> QED
  BY <1>3, <1>4

LEMMA StepInv == LimiterInv /\ [Next]_vars => LimiterInv'
<1> SUFFICES ASSUME LimiterInv, [Next]_vars PROVE LimiterInv'
  OBVIOUS
<1>1. ASSUME NEW r \in Requests, NEW c \in Clients, Arrive(r, c)
      PROVE  LimiterInv'
  <2>1. TypeOK' /\ SoonServed'
    BY <1>1, LimiterAssumption DEF Arrive, LimiterInv, TypeOK, SoonServed
  <2>2. ASSUME NEW x \in Clients PROVE Enclosed(x)'
    BY <1>1 DEF Arrive, LimiterInv, Enclosed, Projected
  <2> QED
    BY <2>1, <2>2 DEF LimiterInv
<1>2. ASSUME NEW r \in Requests, NEW c \in Clients, Allow(r, c)
      PROVE  LimiterInv'
  <2> DEFINE now == req[r].now
  <2>1. /\ Take(r, c) /\ req[r].who = {c} /\ clock' = clock
        /\ Filled(c, now) >= Price
        /\ credit' = [credit EXCEPT ![c] = @ - Price]
        /\ due' = [due EXCEPT ![c] = @ - Price]
    BY <1>2 DEF Allow, Take
  <2>2. TypeOK' /\ SoonServed'
    BY <2>1, TakeType, LimiterAssumption DEF LimiterInv, TypeOK
  <2>3. ASSUME NEW x \in Clients \ {c} PROVE Enclosed(x)'
    BY <2>1, TakeOthers DEF LimiterInv, TypeOK
  <2>4. Enclosed(c)'
    <3>1. /\ buckets'[c] = [tokens |-> Filled(c, now) - Price, seen |-> now]
          /\ credit'[c] = credit[c] - Price /\ due'[c] = due[c] - Price
      BY <2>1, TakeFacts, LimiterAssumption
      DEF Take, Updated, Left, LimiterInv, TypeOK
    <3>2. /\ Filled(c, now) + (clock - now) <= credit[c]
          /\ due[c] <= Filled(c, now) + (clock - now)
      BY <2>1, FoundEnclosed
    <3>3. /\ now \in Int /\ clock \in Int /\ now <= clock /\ 0 <= now
          /\ Filled(c, now) \in Int /\ credit[c] \in Int /\ due[c] \in Int
      BY <2>1, TakeFacts DEF LimiterInv, TypeOK
    <3>4. Projected(c)' = Filled(c, now) + (clock - now) - Price
      BY <2>1, <3>1, <3>3, LimiterAssumption DEF Projected
    <3>5. credit[c] <= Burst + Delay /\ due[c] <= Burst
      BY DEF LimiterInv, Enclosed
    <3> QED
      BY <2>1, <3>1, <3>2, <3>3, <3>4, <3>5, LimiterAssumption
      DEF Enclosed, AtMost
  <2> QED
    BY <2>2, <2>3, <2>4 DEF LimiterInv
<1>3. ASSUME NEW r \in Requests, NEW c \in Clients, Refuse(r, c)
      PROVE  LimiterInv'
  <2> DEFINE now == req[r].now
  <2>1. /\ Take(r, c) /\ req[r].who = {c} /\ clock' = clock
        /\ Filled(c, now) < Price
        /\ credit' = credit /\ due' = due
    BY <1>3 DEF Refuse, Take
  <2>2. TypeOK' /\ SoonServed'
    BY <2>1, TakeType DEF LimiterInv, TypeOK
  <2>3. ASSUME NEW x \in Clients \ {c} PROVE Enclosed(x)'
    BY <2>1, TakeOthers
  <2>4. Enclosed(c)'
    <3>1. buckets'[c] = [tokens |-> Filled(c, now), seen |-> now]
      BY <2>1 DEF Take, Updated, Left
    <3>2. /\ now \in Int /\ clock \in Int /\ now <= clock /\ 0 <= now
          /\ Filled(c, now) \in Int /\ credit[c] \in Int /\ due[c] \in Int
          /\ buckets[c].tokens \in Int /\ buckets[c].seen \in Int
      BY <2>1, TakeFacts, LimiterAssumption DEF LimiterInv, TypeOK
    <3>3. Found(c, now) = buckets[c] /\ buckets[c].seen # -1
      BY <2>1, <3>2, LimiterAssumption DEF Filled, Found, AtMost
    <3>4. Filled(c, now) = buckets[c].tokens + (now - buckets[c].seen)
      BY <2>1, <3>2, <3>3, LimiterAssumption DEF Filled, AtMost
    <3>5. Projected(c)' = Projected(c)
      BY <2>1, <3>1, <3>2, <3>4 DEF Projected
    <3> QED
      BY <2>1, <3>1, <3>2, <3>3, <3>5 DEF LimiterInv, Enclosed
  <2> QED
    BY <2>2, <2>3, <2>4 DEF LimiterInv
<1>4. CASE Tick
  <2>1. TypeOK' /\ SoonServed'
    BY <1>4, LimiterAssumption DEF Tick, LimiterInv, TypeOK, SoonServed, AtMost
  <2>2. ASSUME NEW x \in Clients PROVE Enclosed(x)'
    <3>1. /\ buckets'[x] = buckets[x] /\ clock' = clock + 1
          /\ credit'[x] = AtMost(Burst + Delay, credit[x] + 1)
          /\ due'[x] = AtMost(Burst, due[x] + 1)
      BY <1>4 DEF Tick
    <3>2. /\ buckets[x].tokens \in Int /\ buckets[x].seen \in Int
          /\ clock \in Int /\ credit[x] \in Int /\ due[x] \in Int
      BY LimiterAssumption DEF LimiterInv, TypeOK
    <3>3. Projected(x)' = Projected(x) + 1
      BY <3>1, <3>2 DEF Projected
    <3>4. Projected(x) \in Int
      BY <3>2 DEF Projected
    <3> QED
      BY <3>1, <3>2, <3>3, <3>4, LimiterAssumption
      DEF LimiterInv, Enclosed, AtMost
  <2> QED
    BY <2>1, <2>2 DEF LimiterInv
<1>5. CASE UNCHANGED vars
  BY <1>5 DEF vars, LimiterInv, TypeOK, SoonServed, Enclosed, Projected
<1> QED
  BY <1>1, <1>2, <1>3, <1>4, <1>5 DEF Next

-----------------------------------------------------------------------------
(* The limiter's buckets always enclose and are enclosed by ideal ones. *)
THEOREM LimiterInvariant == Spec => []LimiterInv
<1> QED
  BY InitInv, StepInv, PTL DEF Spec

(* The buckets of allow stay well typed, within the cap and at most Delay in
   debt. *)
THEOREM LimiterTypeCorrect == Spec => []TypeOK
<1>1. LimiterInv => TypeOK
  BY DEF LimiterInv
<1> QED
  BY LimiterInvariant, <1>1, PTL

(* In any stretch of T ticks nobody makes more than (Burst + Delay + T) / Price
   requests that allow lets pass, sweeps or not. *)
THEOREM AllowanceHolds == Spec => []NeverAhead
<1>1. LimiterInv => NeverAhead
  <2> SUFFICES ASSUME LimiterInv, NEW c \in Clients PROVE credit[c] >= 0
    BY DEF NeverAhead
  <2>1. /\ buckets[c].tokens \in Int /\ buckets[c].seen \in Int
        /\ clock \in Int /\ credit[c] \in Int
    BY LimiterAssumption DEF LimiterInv, TypeOK
  <2>2. Projected(c) \in Int
    BY <2>1 DEF Projected
  <2> QED
    BY <2>1, <2>2, LimiterAssumption DEF LimiterInv, Enclosed, AtMost
<1> QED
  BY LimiterInvariant, <1>1, PTL

(* allow refuses a request only if the client has nearly used up what an ideal
   bucket would grant. *)
THEOREM RefusalsJustified == Spec => RefusedForCause
<1>1. LimiterInv /\ [Next]_vars =>
        [\A r \in Requests, c \in Clients :
           Refuse(r, c) => due[c] < Price + Delay]_vars
  <2> SUFFICES ASSUME LimiterInv, NEW r \in Requests, NEW c \in Clients,
                      Refuse(r, c)
               PROVE  due[c] < Price + Delay
    OBVIOUS
  <2> DEFINE now == req[r].now
  <2>1. req[r].who = {c} /\ Filled(c, now) < Price
    BY DEF Refuse, Take
  <2>2. due[c] <= Filled(c, now) + (clock - now)
    BY <2>1, FoundEnclosed
  <2>3. /\ now \in Int /\ clock \in Int /\ clock <= now + Delay
        /\ Filled(c, now) \in Int /\ due[c] \in Int
    BY <2>1, TakeFacts DEF LimiterInv, TypeOK
  <2> QED
    BY <2>1, <2>2, <2>3, LimiterAssumption
<1> QED
  BY LimiterInvariant, <1>1, PTL DEF Spec, RefusedForCause
=============================================================================
