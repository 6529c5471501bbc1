---------------------------- MODULE TokenBucket ----------------------------
(***************************************************************************)
(* What the rate limiter promises each visitor, without its bookkeeping: a *)
(* bucket that exists for ever, is filled at a steady rate up to its       *)
(* capacity, and pays for a request whenever it can.  Amounts are in parts *)
(* of a token, time is in ticks.                                           *)
(***************************************************************************)
EXTENDS Naturals

CONSTANTS
  Visitors,
  Capacity,  \* a full bucket
  Refill,    \* what a bucket gains in a tick
  Cost       \* what a request takes

VARIABLES
  level,     \* what is in each visitor's bucket
  answer     \* the last answer: who asked, and whether the request may pass

vars == <<level, answer>>

Capped(amount) == IF amount > Capacity THEN Capacity ELSE amount

Init ==
  /\ level = [v \in Visitors |-> Capacity]
  /\ answer \in [visitor : Visitors, ok : {TRUE}]

Ask(v) ==
  LET ok == level[v] >= Cost
  IN  /\ level' = [level EXCEPT ![v] = IF ok THEN @ - Cost ELSE @]
      /\ answer' = [visitor |-> v, ok |-> ok]

Tick ==
  /\ level' = [v \in Visitors |-> Capped(level[v] + Refill)]
  /\ UNCHANGED answer

Next == Tick \/ \E v \in Visitors : Ask(v)

Spec == Init /\ [][Next]_vars
=============================================================================
