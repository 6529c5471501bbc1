------------------------- MODULE RateLimiterProofs -------------------------
(***************************************************************************)
(* Proofs about RateLimiter, for any visitors and any amounts that Amounts *)
(* and IdleMeansFull allow: the shape of the state, the bound on every     *)
(* window, the bound on how long a visitor is remembered, and that the     *)
(* limiter implements TokenBucket.                                         *)
(***************************************************************************)
EXTENDS RateLimiter, TLAPS

Buckets == [tokens : 0 .. Capacity, lastRefill : 0 .. now]

(* What a bucket holds is between nothing and its capacity. *)
LEMMA RefilledType ==
  ASSUME TypeOK, NEW b \in Buckets
  PROVE  Refilled(b) \in 0 .. Capacity
<1>1. b.tokens \in 0 .. Capacity /\ b.lastRefill \in 0 .. now
  BY DEF Buckets
<1>2. now - b.lastRefill \in Nat
  BY <1>1 DEF TypeOK
<1>3. (now - b.lastRefill) * Refill \in Nat
  BY <1>2, Amounts
<1>4. QED
  BY <1>1, <1>3, Amounts DEF Refilled

(* A new bucket is full. *)
LEMMA NewBucketFull ==
  ASSUME TypeOK
  PROVE  NewBucket \in Buckets /\ Refilled(NewBucket) = Capacity
<1>1. NewBucket \in Buckets /\ NewBucket.tokens = Capacity
      /\ NewBucket.lastRefill = now
  BY Amounts DEF NewBucket, Buckets, TypeOK
<1>2. (now - now) * Refill = 0
  BY Amounts DEF TypeOK
<1>3. QED
  BY <1>1, <1>2, Amounts DEF Refilled

LEMMA BucketType ==
  ASSUME TypeOK, NEW v \in Visitors
  PROVE  Bucket(v) \in Buckets
BY NewBucketFull DEF Bucket, TypeOK, Buckets

LEMMA LevelType ==
  ASSUME TypeOK, NEW v \in Visitors
  PROVE  Level(v) \in 0 .. Capacity
BY BucketType, RefilledType DEF Level

-----------------------------------------------------------------------------
(* What Allow does to the bucket of the visitor who asks.                  *)

Paid(tokens) == IF tokens >= Cost THEN tokens - Cost ELSE tokens

LEMMA PaidType ==
  ASSUME NEW t \in 0 .. Capacity
  PROVE  Paid(t) \in 0 .. Capacity
BY Amounts DEF Paid

LEMMA AllowEffect ==
  ASSUME TypeOK, NEW addr \in Addresses, Allow(addr)
  PROVE  /\ addr[1] \in Visitors
         /\ Known' = Known \cup {addr[1]}
         /\ buckets' = [i \in Known' |->
              IF i = addr[1]
              THEN [tokens |-> Paid(Level(addr[1])), lastRefill |-> now]
              ELSE buckets[i]]
         /\ answer' = [visitor |-> addr[1], ok |-> Level(addr[1]) >= Cost]
         /\ passed' = IF Level(addr[1]) >= Cost /\ now >= from
                      THEN [passed EXCEPT ![addr[1]] = @ + 1] ELSE passed
BY DEF Allow, Addresses, getClientIP, Level, Known, Paid

-----------------------------------------------------------------------------
(* The shape of the state. *)

LEMMA InitType == Init => TypeOK
<1> SUFFICES ASSUME Init PROVE TypeOK
  OBVIOUS
<1>1. Known = {}
  BY DEF Init, Known
<1>2. buckets \in [Known -> [tokens : 0 .. Capacity, lastRefill : 0 .. now]]
  BY <1>1 DEF Init
<1>3. nextTick \in Nat /\ now < nextTick /\ nextTick <= now + CleanupPeriod
  BY Amounts DEF Init
<1>4. passed \in [Visitors -> Nat] /\ from \in Nat
  BY DEF Init
<1>5. answer \in [visitor : Visitors, ok : BOOLEAN]
  BY DEF Init
<1>6. QED
  BY <1>1, <1>2, <1>3, <1>4, <1>5 DEF Init, TypeOK

LEMMA AllowType ==
  ASSUME TypeOK, NEW addr \in Addresses, Allow(addr)
  PROVE  TypeOK'
<1> DEFINE ip == addr[1]
           bucket == [tokens |-> Paid(Level(ip)), lastRefill |-> now]
<1>1. /\ ip \in Visitors
      /\ Known' = Known \cup {ip}
      /\ buckets' = [i \in Known' |-> IF i = ip THEN bucket ELSE buckets[i]]
      /\ answer' = [visitor |-> ip, ok |-> Level(ip) >= Cost]
      /\ passed' = IF Level(ip) >= Cost /\ now >= from
                   THEN [passed EXCEPT ![ip] = @ + 1] ELSE passed
  BY AllowEffect
<1>2. bucket \in Buckets
  BY <1>1, LevelType, PaidType DEF Buckets, TypeOK
<1> HIDE DEF bucket
<1>3. buckets \in [Known -> Buckets]
  BY DEF TypeOK, Buckets
<1>4. buckets' \in [Known' -> Buckets]
  BY <1>1, <1>2, <1>3
<1>5. answer' \in [visitor : Visitors, ok : BOOLEAN]
  BY <1>1
<1>6. passed \in [Visitors -> Nat]
  BY DEF TypeOK
<1>7. passed' \in [Visitors -> Nat]
  BY <1>1, <1>6
<1>8. Known' \subseteq Visitors
  BY <1>1 DEF TypeOK
<1>9. UNCHANGED <<clock, cleaning, from>>
  BY DEF Allow
<1>10. QED
  BY <1>4, <1>5, <1>7, <1>8, <1>9 DEF TypeOK, Buckets, clock, cleaning

(* The ticker's next tick is never past and at most a period away. *)
LEMMA TickerStep ==
  ASSUME TypeOK, Tick
  PROVE  /\ nextTick' \in Nat
         /\ now' < nextTick'
         /\ nextTick' <= now' + CleanupPeriod
<1>1. /\ now \in Nat /\ nextTick \in Nat /\ now < nextTick
      /\ nextTick <= now + CleanupPeriod /\ CleanupPeriod \in Nat \ {0}
  BY Amounts DEF TypeOK
<1>2. CASE now + 1 = nextTick
  <2>1. now' = now + 1 /\ nextTick' = nextTick + CleanupPeriod
    BY <1>2 DEF Tick
  <2>2. QED
    BY <1>1, <1>2, <2>1
<1>3. CASE now + 1 # nextTick
  <2>1. now' = now + 1 /\ nextTick' = nextTick
    BY <1>3 DEF Tick
  <2>2. QED
    BY <1>1, <1>3, <2>1
<1>4. QED
  BY <1>2, <1>3

LEMMA TickType ==
  ASSUME TypeOK, Tick
  PROVE  TypeOK'
<1>1. now' = now + 1 /\ Known' = Known /\ now' \in Nat
  BY DEF Tick, Known, TypeOK
<1>2. buckets' \in [Known' -> [tokens : 0 .. Capacity, lastRefill : 0 .. now']]
  <2>1. \A v \in Known : buckets[v] \in [tokens : 0 .. Capacity, lastRefill : 0 .. now']
    <3>1. \A v \in Known : buckets[v] \in [tokens : 0 .. Capacity, lastRefill : 0 .. now]
      BY DEF TypeOK
    <3>2. 0 .. now \subseteq 0 .. now'
      BY <1>1 DEF TypeOK
    <3>3. QED
      BY <3>1, <3>2
  <2>2. buckets' = [v \in Known |-> buckets[v]]
    BY DEF Tick, TypeOK
  <2>3. QED
    BY <1>1, <2>1, <2>2
<1>3. nextTick' \in Nat /\ now' < nextTick' /\ nextTick' <= now' + CleanupPeriod
  BY <1>1, TickerStep
<1>4. due' \in BOOLEAN
  <2>1. CASE now' = nextTick
    BY <2>1 DEF Tick
  <2>2. CASE now' # nextTick
    BY <2>2 DEF Tick, TypeOK
  <2>3. QED
    BY <2>1, <2>2
<1>5. QED
  BY <1>1, <1>2, <1>3, <1>4 DEF Tick, TypeOK

LEMMA CleanupType ==
  ASSUME TypeOK, Cleanup
  PROVE  TypeOK'
<1>1. Known' \subseteq Known
  BY DEF Cleanup, Known
<1>2. buckets' = [i \in Known' |-> buckets[i]]
  BY DEF Cleanup, Known
<1>3. buckets' \in [Known' -> [tokens : 0 .. Capacity, lastRefill : 0 .. now]]
  BY <1>1, <1>2 DEF TypeOK
<1>4. QED
  BY <1>1, <1>3 DEF Cleanup, TypeOK, clock

LEMMA NextType == TypeOK /\ [Next]_vars => TypeOK'
<1> SUFFICES ASSUME TypeOK, [Next]_vars PROVE TypeOK'
  OBVIOUS
<1>1. ASSUME NEW addr \in Addresses, Allow(addr) PROVE TypeOK'
  BY <1>1, AllowType
<1>2. CASE Tick
  BY <1>2, TickType
<1>3. CASE Cleanup
  BY <1>3, CleanupType
<1>4. CASE Stop
  BY <1>4 DEF Stop, TypeOK, Known, clock
<1>5. CASE EndCleanup
  BY <1>5 DEF EndCleanup, TypeOK, Known, clock
<1>6. CASE UNCHANGED vars
  BY <1>6 DEF vars, TypeOK, Known, clock, cleaning
<1>7. QED
  BY <1>1, <1>2, <1>3, <1>4, <1>5, <1>6 DEF Next

(* The state of the limiter always has the declared shape, and no bucket   *)
(* ever holds more than its capacity.                                      *)
THEOREM TypeCorrect == Spec => []TypeOK
BY InitType, NextType, PTL DEF Spec

-----------------------------------------------------------------------------
(* How long a visitor is remembered. *)

\* The pass that took the last tick left nobody who had been away for longer
\* than MaxIdle by then.
SweptAtLastTick ==
  cleaner = "running" /\ ~due =>
    \A v \in Known :
      nextTick <= buckets[v].lastRefill + MaxIdle + CleanupPeriod

LEMMA NextSwept ==
  TypeOK /\ SweptAtLastTick /\ [Next]_vars => SweptAtLastTick'
<1> SUFFICES ASSUME TypeOK, SweptAtLastTick, [Next]_vars,
                    cleaner' = "running", ~due', NEW v \in Known'
             PROVE  nextTick' <= buckets'[v].lastRefill + MaxIdle + CleanupPeriod
  BY DEF SweptAtLastTick
<1> USE Amounts
<1>1. ASSUME NEW addr \in Addresses, Allow(addr)
      PROVE  nextTick' <= buckets'[v].lastRefill + MaxIdle + CleanupPeriod
  <2>1. cleaner = "running" /\ ~due /\ nextTick' = nextTick
    BY <1>1 DEF Allow, clock, cleaning
  <2>2. CASE v = addr[1]
    <3>1. buckets'[v].lastRefill = now
      BY <1>1, <2>2, AllowEffect
    <3>2. QED
      BY <2>1, <3>1 DEF TypeOK
  <2>3. CASE v # addr[1]
    <3>1. v \in Known /\ buckets'[v] = buckets[v]
      BY <1>1, <2>3, AllowEffect
    <3>2. QED
      BY <2>1, <3>1 DEF SweptAtLastTick
  <2>4. QED
    BY <2>2, <2>3
<1>2. CASE Tick
  <2>1. now' # nextTick
    BY <1>2 DEF Tick
  <2>2. QED
    BY <1>2, <2>1 DEF Tick, Known, SweptAtLastTick
<1>3. CASE Cleanup
  <2>1. v \in Known /\ buckets'[v] = buckets[v] /\ ~Forgettable(buckets[v])
    BY <1>3 DEF Cleanup, Known
  <2>2. buckets[v].lastRefill \in Nat /\ now <= buckets[v].lastRefill + MaxIdle
    BY <2>1 DEF TypeOK, Forgettable
  <2>3. nextTick' = nextTick /\ nextTick <= now + CleanupPeriod
    BY <1>3 DEF Cleanup, clock, TypeOK
  <2>4. QED
    BY <2>1, <2>2, <2>3 DEF TypeOK
<1>4. CASE Stop
  BY <1>4 DEF Stop, clock, Known, SweptAtLastTick
<1>5. CASE EndCleanup
  BY <1>5 DEF EndCleanup
<1>6. CASE UNCHANGED vars
  BY <1>6 DEF vars, clock, cleaning, Known, SweptAtLastTick
<1>7. QED
  BY <1>1, <1>2, <1>3, <1>4, <1>5, <1>6 DEF Next

LEMMA SweptForgotten == TypeOK /\ SweptAtLastTick => AbsentForgotten
<1> SUFFICES ASSUME TypeOK, SweptAtLastTick,
                    cleaner = "running", ~due, NEW v \in Known
             PROVE  now - buckets[v].lastRefill < MaxIdle + CleanupPeriod
  BY DEF AbsentForgotten
<1>1. nextTick <= buckets[v].lastRefill + MaxIdle + CleanupPeriod
  BY DEF SweptAtLastTick
<1>2. buckets[v].lastRefill \in Nat
  BY DEF TypeOK
<1>3. QED
  BY <1>1, <1>2, Amounts DEF TypeOK

(* While the cleanup goroutine takes its ticks, the limiter remembers      *)
(* nobody who has been away for MaxIdle and a period.                      *)
THEOREM VisitorsForgotten == Spec => []AbsentForgotten
<1>1. Init => SweptAtLastTick
  BY DEF Init, SweptAtLastTick, Known
<1>2. QED
  BY <1>1, InitType, NextType, NextSwept, SweptForgotten, PTL DEF Spec

-----------------------------------------------------------------------------
(* How each step changes the levels.                                       *)

LEMMA LevelOfAsker ==
  ASSUME TypeOK, NEW addr \in Addresses, Allow(addr)
  PROVE  Level(addr[1])' = Paid(Level(addr[1]))
<1> DEFINE ip == addr[1]
           paid == Paid(Level(ip))
<1>1. /\ ip \in Visitors /\ ip \in Known' /\ now' = now
      /\ buckets'[ip] = [tokens |-> paid, lastRefill |-> now]
  BY AllowEffect DEF Allow, clock
<1>2. paid \in 0 .. Capacity
  BY <1>1, LevelType, PaidType
<1> HIDE DEF paid
<1>3. Bucket(ip)' = [tokens |-> paid, lastRefill |-> now]
  BY <1>1 DEF Bucket
<1>4. (now' - now) * Refill = 0
  BY <1>1, Amounts DEF TypeOK
<1>5. Level(ip)' = IF paid > Capacity THEN Capacity ELSE paid
  BY <1>1, <1>2, <1>3, <1>4 DEF Level, Refilled
<1>6. QED
  BY <1>2, <1>5, Amounts DEF paid

LEMMA LevelOfOthers ==
  ASSUME TypeOK, NEW addr \in Addresses, Allow(addr),
         NEW v \in Visitors, v # addr[1]
  PROVE  Level(v)' = Level(v)
<1>1. now' = now
  BY DEF Allow, clock
<1>2. Known' = Known \cup {addr[1]}
      /\ (v \in Known => buckets'[v] = buckets[v])
  BY AllowEffect
<1>3. Bucket(v)' = Bucket(v)
  BY <1>1, <1>2 DEF Bucket, NewBucket
<1>4. QED
  BY <1>1, <1>3 DEF Level, Refilled

Min2(a, b) == IF a > b THEN b ELSE a

LEMMA LevelAtTick ==
  ASSUME TypeOK, Tick, NEW v \in Visitors
  PROVE  Level(v)' = Min2(Level(v) + Refill, Capacity)
<1>1. now' = now + 1 /\ buckets' = buckets /\ Known' = Known
  BY DEF Tick, Known
<1>2. CASE v \notin Known
  <2>1. Bucket(v) = NewBucket /\ Bucket(v)' = NewBucket'
    BY <1>1, <1>2 DEF Bucket
  <2>2. Level(v) = Capacity /\ Level(v)' = Capacity
    <3>1. Refilled(NewBucket) = Capacity
      BY NewBucketFull
    <3>2. (Refilled(NewBucket))' = Capacity
      <4>1. NewBucket' = [tokens |-> Capacity, lastRefill |-> now']
        BY DEF NewBucket
      <4>2. (now' - now') * Refill = 0
        <5>1. (now + 1) - (now + 1) = 0
          BY DEF TypeOK
        <5>2. QED
          BY <1>1, <5>1, Amounts
      <4>3. QED
        BY <4>1, <4>2, Amounts DEF Refilled
    <3>3. QED
      BY <2>1, <3>1, <3>2 DEF Level
  <2>3. QED
    BY <2>2, Amounts DEF Min2
<1>3. CASE v \in Known
  <2> DEFINE b == buckets[v]
             gain == (now - b.lastRefill) * Refill
  <2>1. Bucket(v) = b /\ Bucket(v)' = b
    BY <1>1, <1>3 DEF Bucket
  <2>2. b.tokens \in 0 .. Capacity /\ b.lastRefill \in 0 .. now
    BY <1>3 DEF TypeOK
  <2>3. gain \in Nat
    BY <2>2, Amounts DEF TypeOK
  <2>4. (now' - b.lastRefill) * Refill = gain + Refill
    <3>1. now' - b.lastRefill = (now - b.lastRefill) + 1
      BY <1>1, <2>2 DEF TypeOK
    <3>2. QED
      BY <3>1, <2>2, Amounts DEF TypeOK
  <2>5. Level(v) = Min2(b.tokens + gain, Capacity)
    BY <2>1 DEF Level, Refilled, Min2
  <2>6. Level(v)' = Min2(b.tokens + gain + Refill, Capacity)
    <3>1. b.tokens + (gain + Refill) = b.tokens + gain + Refill
      BY <2>2, <2>3, Amounts
    <3>2. QED
      BY <1>1, <2>1, <2>4, <3>1 DEF Level, Refilled, Min2
  <2> HIDE DEF b, gain
  <2>7. QED
    BY <2>2, <2>3, <2>5, <2>6, Amounts DEF Min2
<1>4. QED
  BY <1>2, <1>3

LEMMA LevelAtCleanup ==
  ASSUME TypeOK, Cleanup, NEW v \in Visitors
  PROVE  Level(v)' = Level(v)
<1>1. now' = now /\ Known' \subseteq Known
  BY DEF Cleanup, clock, Known
<1>2. CASE v \in Known'
  <2>1. buckets'[v] = buckets[v]
    BY <1>2 DEF Cleanup, Known
  <2>2. QED
    BY <1>1, <1>2, <2>1 DEF Level, Refilled, Bucket
<1>3. CASE v \notin Known
  <2>1. Bucket(v)' = Bucket(v)
    BY <1>1, <1>3 DEF Bucket, NewBucket
  <2>2. QED
    BY <1>1, <2>1 DEF Level, Refilled
<1>4. CASE v \in Known /\ v \notin Known'
  <2> DEFINE b == buckets[v]
  <2>1. b.tokens \in 0 .. Capacity /\ b.lastRefill \in 0 .. now
    BY <1>4 DEF TypeOK
  <2>2. now - b.lastRefill > MaxIdle
    BY <1>4 DEF Cleanup, Known, Forgettable
  <2>3. Level(v) = Capacity
    <3>1. Refill * MaxIdle <= (now - b.lastRefill) * Refill
      <4>1. ASSUME NEW m \in Nat, NEW n \in Nat, m <= n, NEW k \in Nat
            PROVE  k * m <= n * k
        BY <4>1
      <4>2. now - b.lastRefill \in Nat /\ MaxIdle <= now - b.lastRefill
        BY <2>1, <2>2, Amounts DEF TypeOK
      <4>3. QED
        BY <4>1, <4>2, Amounts
    <3>2. (now - b.lastRefill) * Refill \in Nat
      BY <2>1, Amounts DEF TypeOK
    <3>3. Refill * MaxIdle \in Nat
      BY Amounts
    <3>4. Bucket(v) = b
      BY <1>4 DEF Bucket
    <3>5. Level(v) = Min2(b.tokens + (now - b.lastRefill) * Refill, Capacity)
      BY <3>4 DEF Level, Refilled, Min2
    <3> HIDE DEF b
    <3>6. QED
      BY <2>1, <3>1, <3>2, <3>3, <3>5, IdleMeansFull, Amounts DEF Min2
  <2>4. Level(v)' = Capacity
    <3>1. Bucket(v)' = NewBucket
      BY <1>1, <1>4 DEF Bucket, NewBucket
    <3>2. QED
      BY <1>1, <3>1, NewBucketFull DEF Level, Refilled
  <2>5. QED
    BY <2>3, <2>4
<1>5. QED
  BY <1>1, <1>2, <1>3, <1>4

LEMMA LevelUnchanged ==
  ASSUME UNCHANGED <<now, buckets>>, NEW v \in Visitors
  PROVE  Level(v)' = Level(v)
BY DEF Level, Refilled, Bucket, NewBucket, Known

-----------------------------------------------------------------------------
(* The limiter and the ideal bucket. *)

LEMMA InitLevel ==
  ASSUME Init, TypeOK, NEW v \in Visitors
  PROVE  Level(v) = Capacity
<1>1. Bucket(v) = NewBucket
  BY DEF Init, Known, Bucket
<1>2. QED
  BY <1>1, NewBucketFull DEF Level

LEMMA InitIdeal == Init => Ideal!Init
<1> SUFFICES ASSUME Init PROVE Ideal!Init
  OBVIOUS
<1>1. \A v \in Visitors : Level(v) = Capacity
  BY InitType, InitLevel
<1>2. QED
  BY <1>1 DEF Init, Ideal!Init

LEMMA AllowIsAsk ==
  ASSUME TypeOK, NEW addr \in Addresses, Allow(addr)
  PROVE  Ideal!Ask(addr[1])
<1> DEFINE ip == addr[1]
<1>1. ip \in Visitors /\ answer' = [visitor |-> ip, ok |-> Level(ip) >= Cost]
  BY AllowEffect
<1>2. Level(ip)' = Paid(Level(ip))
  BY LevelOfAsker
<1>3. \A v \in Visitors : v # ip => Level(v)' = Level(v)
  BY LevelOfOthers
<1> HIDE DEF ip
<1>4. [v \in Visitors |-> Level(v)'] =
        [[v \in Visitors |-> Level(v)] EXCEPT ![ip] = Paid(Level(ip))]
  BY <1>1, <1>2, <1>3
<1>5. Ideal!Ask(ip)
  BY <1>1, <1>4 DEF Ideal!Ask, Paid
<1>6. QED
  BY <1>5 DEF ip

LEMMA TickIsTick ==
  ASSUME TypeOK, Tick
  PROVE  Ideal!Tick
<1>1. \A v \in Visitors : Level(v)' = Min2(Level(v) + Refill, Capacity)
  BY LevelAtTick
<1>2. answer' = answer
  BY DEF Tick
<1>3. QED
  BY <1>1, <1>2 DEF Ideal!Tick, Ideal!Capped, Min2

LEMMA OthersStutter ==
  ASSUME TypeOK, Cleanup \/ Stop \/ EndCleanup \/ UNCHANGED vars
  PROVE  UNCHANGED Ideal!vars
<1>1. \A v \in Visitors : Level(v)' = Level(v)
  <2>1. CASE Cleanup
    BY <2>1, LevelAtCleanup
  <2>2. CASE Stop \/ EndCleanup \/ UNCHANGED vars
    <3>1. UNCHANGED <<now, buckets>>
      BY <2>2 DEF Stop, EndCleanup, vars, clock
    <3>2. QED
      BY <3>1, LevelUnchanged
  <2>3. QED
    BY <2>1, <2>2
<1>2. answer' = answer
  BY DEF Cleanup, Stop, EndCleanup, vars
<1>3. QED
  BY <1>1, <1>2 DEF Ideal!vars

(* The limiter implements the ideal bucket: every request is answered as   *)
(* if each visitor's bucket had existed and been refilled all along, and   *)
(* so forgetting a visitor and refilling only when asked never show.       *)
THEOREM ImplementsIdealBucket == Spec => IdealBucket
<1>1. TypeOK /\ [Next]_vars => [Ideal!Next]_(Ideal!vars)
  <2> SUFFICES ASSUME TypeOK, [Next]_vars
               PROVE  Ideal!Next \/ UNCHANGED Ideal!vars
    OBVIOUS
  <2>1. ASSUME NEW addr \in Addresses, Allow(addr) PROVE Ideal!Next
    BY <2>1, AllowIsAsk, AllowEffect DEF Ideal!Next
  <2>2. CASE Tick
    BY <2>2, TickIsTick DEF Ideal!Next
  <2>3. CASE Cleanup \/ Stop \/ EndCleanup \/ UNCHANGED vars
    BY <2>3, OthersStutter
  <2>4. QED
    BY <2>1, <2>2, <2>3 DEF Next
<1>2. QED
  BY <1>1, InitIdeal, TypeCorrect, PTL DEF Spec, IdealBucket, Ideal!Spec

-----------------------------------------------------------------------------
(* The bound on every window. *)

\* What a visitor got in the window and what is left in the bucket together
\* never exceed a full bucket and the window's refill.
WithinBudget ==
  \A v \in Visitors :
    IF now >= from
    THEN passed[v] * Cost + Level(v) <= Capacity + Refill * (now - from)
    ELSE passed[v] = 0

LEMMA AllowBudget ==
  ASSUME TypeOK, WithinBudget, NEW addr \in Addresses, Allow(addr)
  PROVE  WithinBudget'
<1> SUFFICES ASSUME NEW v \in Visitors
             PROVE  IF now >= from
                    THEN passed'[v] * Cost + Level(v)' <= Capacity + Refill * (now - from)
                    ELSE passed'[v] = 0
  BY DEF WithinBudget, Allow, clock
<1> DEFINE bound == Capacity + Refill * (now - from)
<1>1. /\ now \in Nat /\ from \in Nat /\ passed \in [Visitors -> Nat]
      /\ passed[v] \in Nat
      /\ Level(v) \in 0 .. Capacity
  BY LevelType DEF TypeOK
<1>2. passed' = IF Level(addr[1]) >= Cost /\ now >= from
                THEN [passed EXCEPT ![addr[1]] = @ + 1] ELSE passed
  BY AllowEffect
<1>3. CASE v # addr[1]
  <2>1. passed'[v] = passed[v] /\ Level(v)' = Level(v)
    BY <1>1, <1>2, <1>3, LevelOfOthers
  <2>2. QED
    BY <2>1 DEF WithinBudget
<1>4. CASE v = addr[1]
  <2>1. Level(v)' = Paid(Level(v))
    BY <1>4, LevelOfAsker
  <2>2. CASE now < from
    <3>1. passed'[v] = passed[v] /\ ~(now >= from)
      BY <1>1, <1>2, <2>2
    <3>2. QED
      BY <3>1 DEF WithinBudget
  <2>3. CASE now >= from /\ Level(v) >= Cost
    <3>1. passed'[v] = passed[v] + 1
      BY <1>1, <1>2, <1>4, <2>3
    <3>2. (passed[v] + 1) * Cost = passed[v] * Cost + Cost
      BY <1>1, Amounts
    <3>3. Level(v)' = Level(v) - Cost
      BY <2>1, <2>3 DEF Paid
    <3>4. passed[v] * Cost + Level(v) <= bound
      BY <2>3 DEF WithinBudget
    <3>5. passed[v] * Cost \in Nat
      BY <1>1, Amounts
    <3>6. passed'[v] * Cost + Level(v)' = passed[v] * Cost + Level(v)
      BY <1>1, <3>1, <3>2, <3>3, <3>5, Amounts
    <3>7. QED
      BY <2>3, <3>4, <3>6
  <2>4. CASE now >= from /\ ~(Level(v) >= Cost)
    <3>1. passed'[v] = passed[v] /\ Level(v)' = Level(v)
      BY <1>2, <1>4, <2>1, <2>4 DEF Paid
    <3>2. QED
      BY <2>4, <3>1 DEF WithinBudget
  <2>5. QED
    BY <1>1, <2>2, <2>3, <2>4
<1>5. QED
  BY <1>3, <1>4

LEMMA TickBudget ==
  ASSUME TypeOK, WithinBudget, Tick
  PROVE  WithinBudget'
<1>1. now' = now + 1 /\ from' = from /\ passed' = passed
  BY DEF Tick
<1> SUFFICES ASSUME NEW v \in Visitors
             PROVE  IF now' >= from'
                    THEN passed'[v] * Cost + Level(v)' <= Capacity + Refill * (now' - from')
                    ELSE passed'[v] = 0
  BY DEF WithinBudget
<1>2. /\ now \in Nat /\ from \in Nat /\ passed[v] \in Nat
      /\ Level(v) \in 0 .. Capacity
  BY LevelType DEF TypeOK
<1>3. Level(v)' = Min2(Level(v) + Refill, Capacity)
  BY LevelAtTick
<1>4. CASE now >= from
  <2>1. passed[v] * Cost + Level(v) <= Capacity + Refill * (now - from)
    BY <1>4 DEF WithinBudget
  <2>2. Refill * (now + 1 - from) = Refill * (now - from) + Refill
    <3>1. ASSUME NEW d \in Nat PROVE Refill * (d + 1) = Refill * d + Refill
      BY Amounts
    <3>2. now - from \in Nat /\ now + 1 - from = (now - from) + 1
      BY <1>2, <1>4
    <3>3. QED
      BY <3>1, <3>2
  <2>3. Level(v)' <= Level(v) + Refill /\ Level(v)' \in Nat
    BY <1>2, <1>3, Amounts DEF Min2
  <2>4. passed[v] * Cost \in Nat /\ Refill * (now - from) \in Nat
    BY <1>2, <1>4, Amounts
  <2>5. passed[v] * Cost + Level(v)' <= Capacity + Refill * (now + 1 - from)
    BY <1>2, <2>1, <2>2, <2>3, <2>4, Amounts
  <2>6. now + 1 >= from
    BY <1>2, <1>4
  <2>7. QED
    BY <1>1, <1>2, <2>3, <2>5, <2>6, Amounts
<1>5. CASE ~(now >= from)
  <2>1. passed[v] = 0
    BY <1>5 DEF WithinBudget
  <2>2. CASE now + 1 >= from
    <3>1. now + 1 - from = 0
      BY <1>2, <1>5, <2>2
    <3>2. Level(v)' <= Capacity /\ Level(v)' \in Nat
      BY <1>2, <1>3, Amounts DEF Min2
    <3>3. passed[v] * Cost = 0 /\ Refill * (now + 1 - from) = 0
      BY <2>1, <3>1, Amounts
    <3>4. passed[v] * Cost + Level(v)' <= Capacity + Refill * (now + 1 - from)
      BY <3>2, <3>3, Amounts
    <3>5. QED
      BY <1>1, <1>2, <2>2, <3>2, <3>4, Amounts
  <2>3. CASE ~(now + 1 >= from)
    BY <1>1, <2>1, <2>3
  <2>4. QED
    BY <2>2, <2>3
<1>6. QED
  BY <1>4, <1>5

LEMMA NextBudget == TypeOK /\ WithinBudget /\ [Next]_vars => WithinBudget'
<1> SUFFICES ASSUME TypeOK, WithinBudget, [Next]_vars PROVE WithinBudget'
  OBVIOUS
<1>1. ASSUME NEW addr \in Addresses, Allow(addr) PROVE WithinBudget'
  BY <1>1, AllowBudget
<1>2. CASE Tick
  BY <1>2, TickBudget
<1>3. CASE Cleanup \/ Stop \/ EndCleanup \/ UNCHANGED vars
  <2>1. \A v \in Visitors : Level(v)' = Level(v)
    <3>1. CASE Cleanup
      BY <3>1, LevelAtCleanup
    <3>2. CASE Stop \/ EndCleanup \/ UNCHANGED vars
      <4>1. UNCHANGED <<now, buckets>>
        BY <3>2 DEF Stop, EndCleanup, vars, clock
      <4>2. QED
        BY <4>1, LevelUnchanged
    <3>3. QED
      BY <1>3, <3>1, <3>2
  <2>2. UNCHANGED <<now, from, passed>>
    BY <1>3 DEF Cleanup, Stop, EndCleanup, vars, clock
  <2>3. QED
    BY <2>1, <2>2 DEF WithinBudget
<1>4. QED
  BY <1>1, <1>2, <1>3 DEF Next

LEMMA BudgetBound == TypeOK /\ WithinBudget => WithinRate
<1> SUFFICES ASSUME TypeOK, WithinBudget, now >= from, NEW v \in Visitors
             PROVE  passed[v] * Cost <= Capacity + Refill * (now - from)
  BY DEF WithinRate
<1>1. passed[v] * Cost + Level(v) <= Capacity + Refill * (now - from)
  BY DEF WithinBudget
<1>2. Level(v) \in Nat /\ passed[v] \in Nat
  BY LevelType DEF TypeOK
<1>3. passed[v] * Cost \in Nat /\ Refill * (now - from) \in Nat
  BY <1>2, Amounts DEF TypeOK
<1>4. QED
  BY <1>1, <1>2, <1>3, Amounts

(* Whatever a visitor does, from however many connections, and whatever    *)
(* the limiter forgets: in no window do more requests pass than a full     *)
(* bucket and the window's refill pay for.                                 *)
THEOREM RateBounded == Spec => []WithinRate
<1>1. Init => WithinBudget
  <2> SUFFICES ASSUME Init, NEW v \in Visitors
               PROVE  IF now >= from
                      THEN passed[v] * Cost + Level(v) <= Capacity + Refill * (now - from)
                      ELSE passed[v] = 0
    BY DEF WithinBudget
  <2>1. passed[v] = 0 /\ Level(v) = Capacity /\ now = 0 /\ from \in Nat
    <3>1. Level(v) = Capacity
      BY InitType, InitLevel
    <3>2. QED
      BY <3>1 DEF Init
  <2>2. passed[v] * Cost = 0
    BY <2>1, Amounts
  <2>3. now >= from => Refill * (now - from) = 0
    BY <2>1, Amounts
  <2>4. QED
    BY <2>1, <2>2, <2>3, Amounts
<1>2. QED
  BY <1>1, InitType, NextType, NextBudget, BudgetBound, PTL DEF Spec

=============================================================================
