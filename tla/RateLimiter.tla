---------------------------- MODULE RateLimiter ----------------------------
(***************************************************************************)
(* The token bucket limiter that every HTTP request passes, and the        *)
(* goroutine that forgets the buckets of visitors who have been away.      *)
(*                                                                         *)
(* Time is counted in ticks and tokens in parts, Refill of them a tick and *)
(* Cost of them a token, so that what the code computes with floating      *)
(* point numbers is exact here; rounding is left out.  Allow and a pass of *)
(* cleanup each run under the limiter's mutex and read the clock under it: *)
(* they are one step.                                                      *)
(***************************************************************************)
EXTENDS Naturals

CONSTANTS
  Visitors,       \* IP addresses
  Ports,          \* the ports they connect from
  Capacity,       \* 100 tokens
  Refill,         \* what a bucket gains in a tick; 100 tokens in a minute
  Cost,           \* one token
  CleanupPeriod,  \* 5 minutes
  MaxIdle,        \* 10 minutes
  MaxTime         \* when the clock of a behaviour stops

ASSUME Amounts ==
  /\ Capacity \in Nat /\ Refill \in Nat /\ Cost \in Nat \ {0}
  /\ CleanupPeriod \in Nat \ {0} /\ MaxIdle \in Nat /\ MaxTime \in Nat

\* A bucket is full again by the time it may be forgotten.
ASSUME IdleMeansFull == Capacity <= Refill * MaxIdle

VARIABLES
  now,       \* the clock
  buckets,   \* RateLimiter.buckets: what it knows of the visitors it knows
  nextTick,  \* when the ticker fires next
  due,       \* whether a tick is in the ticker's channel
  done,      \* whether Stop has closed the channel of that name
  cleaner,   \* where the cleanup goroutine is
  answer,    \* the last answer of the middleware
  from,      \* history: the start of a window, any
  passed     \* history: the requests let through since then

clock == <<now, nextTick>>
cleaning == <<due, done, cleaner>>
vars == <<clock, buckets, cleaning, answer, from, passed>>

Addresses == Visitors \X Ports

Init ==
  /\ now = 0
  /\ buckets = [v \in {} |-> 0]
  /\ nextTick = CleanupPeriod /\ due = FALSE
  /\ done = FALSE /\ cleaner = "running"
  /\ answer \in [visitor : Visitors, ok : {TRUE}]
  /\ from \in 0 .. MaxTime
  /\ passed = [v \in Visitors |-> 0]

-----------------------------------------------------------------------------
\* The visitor is the address without its port.
getClientIP(addr) == addr[1]

Known == DOMAIN buckets

\* Mutant: only whole tokens are credited.
WholeTokens(bucket) ==
  LET tokens == bucket.tokens
                  + (((now - bucket.lastRefill) * Refill) \div Cost) * Cost
  IN  IF tokens > Capacity THEN Capacity ELSE tokens

\* Mutant: nothing caps the bucket.
Uncapped(bucket) == bucket.tokens + (now - bucket.lastRefill) * Refill

\* What the bucket holds now.
Refilled(bucket) ==
  LET tokens == bucket.tokens + (now - bucket.lastRefill) * Refill
  IN  IF tokens > Capacity THEN Capacity ELSE tokens

NewBucket == [tokens |-> Capacity, lastRefill |-> now]

Bucket(ip) == IF ip \in Known THEN buckets[ip] ELSE NewBucket

\* RateLimitMiddleware: the request passes or is answered 429.  A refused
\* request refills the bucket too.
Allow(addr) ==
  LET ip     == getClientIP(addr)
      tokens == Refilled(Bucket(ip))
      ok     == tokens >= Cost
      bucket == [tokens     |-> IF ok THEN tokens - Cost ELSE tokens,
                 lastRefill |-> now]
  IN  /\ buckets' = [i \in Known \cup {ip} |->
                       IF i = ip THEN bucket ELSE buckets[i]]
      /\ answer' = [visitor |-> addr[1], ok |-> ok]
      /\ passed' = IF ok /\ now >= from
                   THEN [passed EXCEPT ![addr[1]] = @ + 1] ELSE passed
      /\ UNCHANGED <<clock, cleaning, from>>

-----------------------------------------------------------------------------
\* The ticker's channel holds one tick; another one is dropped.
Tick ==
  /\ now < MaxTime
  /\ now' = now + 1
  /\ IF now' = nextTick
     THEN nextTick' = nextTick + CleanupPeriod /\ due' = TRUE
     ELSE UNCHANGED <<nextTick, due>>
  /\ UNCHANGED <<buckets, done, cleaner, answer, from, passed>>

\* Mutant: the limiter forgets who has no token left to lose.
StoredEmpty(bucket) == bucket.tokens < Cost

\* Mutant: only a bucket that was left full is forgotten.
StoredFull(bucket) == bucket.tokens = Capacity

Forgettable(bucket) == now - bucket.lastRefill > MaxIdle

Cleanup ==
  /\ cleaner = "running" /\ due
  /\ due' = FALSE
  /\ buckets' = [i \in {j \in Known : ~Forgettable(buckets[j])} |-> buckets[i]]
  /\ UNCHANGED <<clock, done, cleaner, answer, from, passed>>

\* main stops the limiter before the server: requests are still served.
Stop ==
  /\ ~done
  /\ done' = TRUE
  /\ UNCHANGED <<clock, buckets, due, cleaner, answer, from, passed>>

\* A select with both channels ready takes either.
EndCleanup ==
  /\ cleaner = "running" /\ done
  /\ cleaner' = "ended"
  /\ UNCHANGED <<clock, buckets, due, done, answer, from, passed>>

-----------------------------------------------------------------------------
Next ==
  \/ \E addr \in Addresses : Allow(addr)
  \/ Tick
  \/ Cleanup
  \/ Stop
  \/ EndCleanup

Spec == Init /\ [][Next]_vars

-----------------------------------------------------------------------------
(* Properties.                                                             *)

\* The shape of the state; no bucket holds more than its capacity.
TypeOK ==
  /\ now \in Nat /\ from \in Nat
  /\ Known \subseteq Visitors
  /\ buckets \in [Known -> [tokens : 0 .. Capacity, lastRefill : 0 .. now]]
  /\ nextTick \in Nat /\ now < nextTick /\ nextTick <= now + CleanupPeriod
  /\ due \in BOOLEAN /\ done \in BOOLEAN
  /\ cleaner \in {"running", "ended"}
  /\ answer \in [visitor : Visitors, ok : BOOLEAN]
  /\ passed \in [Visitors -> Nat]

\* In any window a visitor gets no more than a full bucket and what the
\* window refills, from however many connections, and however often the
\* limiter has forgotten the visitor in between.
WithinRate ==
  now >= from =>
    \A v \in Visitors : passed[v] * Cost <= Capacity + Refill * (now - from)

\* The limiter does not remember visitors for ever: as long as the cleanup
\* goroutine takes its ticks, nobody stays who has been away for longer than
\* MaxIdle and one period.
AbsentForgotten ==
  cleaner = "running" /\ ~due =>
    \A v \in Known : now - buckets[v].lastRefill < MaxIdle + CleanupPeriod

\* What is in the bucket of a visitor, known or not.
Level(v) == Refilled(Bucket(v))

\* The limiter implements the ideal bucket: forgetting visitors, refilling
\* only when asked and keeping a refused request's refill make no difference
\* to any answer.
Ideal == INSTANCE TokenBucket WITH level <- [v \in Visitors |-> Level(v)]

IdealBucket == Ideal!Spec
=============================================================================
