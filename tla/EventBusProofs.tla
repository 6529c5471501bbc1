---------------------------- MODULE EventBusProofs ----------------------------
(***************************************************************************)
(* Proofs about EventBus, for any servers, writers, numbers of events and  *)
(* faults: every hub gets the events of a goroutine in their order, an     *)
(* event reaches the hubs or has a cause not to, and the feeder never      *)
(* meets a closed broker.                                                  *)
(***************************************************************************)
EXTENDS EventBus, SumFacts, TLAPS

AnyEvent == [writer : Writers, number : Nat \ {0}]

Starting == {"redis", "nats"}
Feeding == {"redis", "nats", "serving", "feeder"}

Mains == {"redis", "nats", "serving", "feeder", "unsubscribe", "drain",
          "stopListener", "awaitListener", "http", "ended"}

(* The shape of the state. *)
Shape ==
  /\ main \in [Nodes -> Mains]
  /\ link \in [Nodes -> [Brokers -> Connections \cup {"silent", "closed"}]]
  /\ inbox \in [Nodes -> [Brokers -> Seq(AnyEvent)]]
  /\ hand \in [Nodes -> [Brokers -> AnyEvent \cup {Nil}]]
  /\ pc \in [Writers -> {"idle", "fallback", "ended"}]
  /\ emitted \in [Writers -> Nat]
  /\ accepted \in [Nodes -> Seq(AnyEvent)]
  /\ heard \subseteq AnyEvent \X Nodes

(* While a feeder may emit, its server's connections are as they were made; *)
(* nobody has emitted before they were made.                                *)
ShutdownInv ==
  /\ \A n \in Nodes : main[n] \in Feeding =>
       \A b \in Brokers : link[n][b] \in Connections
  /\ \A w \in Feeders : main[Home[w]] \notin Feeding => pc[w] = "ended"
  /\ \A w \in Writers : main[Home[w]] \in Starting => emitted[w] = 0

(* What broker b still has to give to m. *)
Way(m, b) == ({hand[m][b]} \ {Nil}) \cup ToSet(inbox[m][b])

(* A writer's events all come through the broker of its server, ...         *)
RouteInv ==
  /\ \A m \in Nodes, b \in Brokers : \A e \in Way(m, b) :
       main[Home[e.writer]] # "ended" => Route(Home[e.writer]) = b
  /\ \A m \in Nodes, b, c \in Brokers : \A e \in Way(m, b), f \in Way(m, c) :
       e.writer = f.writer => b = c

(* ... have been emitted, and what is left to the fallback has failed.      *)
EmittedInv ==
  /\ \A m \in Nodes : \A e \in ToSet(accepted[m]) : e.number <= emitted[e.writer]
  /\ \A m \in Nodes, b \in Brokers : \A e \in Way(m, b) :
       e.number <= emitted[e.writer]
  /\ \A w \in Writers : pc[w] = "fallback" =>
       emitted[w] # 0 /\ [writer |-> w, number |-> emitted[w]] \in failed

(* The events of one writer, none in bad: e is before f.                    *)
Before(e, f, bad) ==
  e.writer = f.writer /\ e \notin bad /\ f \notin bad => e.number < f.number

Ordered(s, bad) == \A i, j \in DOMAIN s : i < j => Before(s[i], s[j], bad)

(* EventsInOrder, for the whole way of an event to a hub.                   *)
OrderInv ==
  \A m \in Nodes :
    /\ Ordered(accepted[m], failed)
    /\ \A b \in Brokers :
         /\ Ordered(inbox[m][b], failed)
         /\ \A e \in ToSet(accepted[m]), f \in Way(m, b) : Before(e, f, failed)
         /\ hand[m][b] # Nil =>
              \A f \in ToSet(inbox[m][b]) : Before(hand[m][b], f, failed)

(* The event e has reached the hub of m, has been lost, or may still come.  *)
Settled(e, m) ==
  \/ e \in ToSet(accepted[m])
  \/ <<e, m>> \in missed
  \/ \E b \in Brokers : e \in Way(m, b)
  \/ Home[e.writer] = m /\ pc[e.writer] = "fallback" /\ e.number = emitted[e.writer]

(* EventsReachHubs, for the events that exist. *)
ReachInv ==
  /\ \A p \in heard : Settled(p[1], p[2])
  /\ \A e \in AnyEvent :
       e.number <= emitted[e.writer] /\ e \notin Unheard =>
         Settled(e, Home[e.writer])

Inv ==
  /\ Shape /\ ShutdownInv /\ RouteInv /\ EmittedInv /\ OrderInv /\ ReachInv
  /\ UnheardOnlyIf

-----------------------------------------------------------------------------
(* Sequences.                                                               *)

LEMMA ToSetType ==
  ASSUME NEW S, NEW s \in Seq(S)
  PROVE  ToSet(s) \subseteq S
BY DEF ToSet

LEMMA ToSetAppend ==
  ASSUME NEW S, NEW s \in Seq(S), NEW e \in S
  PROVE  Append(s, e) \in Seq(S) /\ ToSet(Append(s, e)) = ToSet(s) \cup {e}
<1>1. /\ Append(s, e) \in Seq(S) /\ DOMAIN s = 1 .. Len(s) /\ Len(s) \in Nat
      /\ DOMAIN Append(s, e) = 1 .. (Len(s) + 1)
      /\ \A i \in 1 .. Len(s) : Append(s, e)[i] = s[i]
      /\ Append(s, e)[Len(s) + 1] = e
  OBVIOUS
<1>2. ToSet(Append(s, e)) \subseteq ToSet(s) \cup {e}
  BY <1>1 DEF ToSet
<1>3. ToSet(s) \cup {e} \subseteq ToSet(Append(s, e))
  <2>1. \A i \in DOMAIN s : i \in DOMAIN Append(s, e)
    BY <1>1
  <2>2. Len(s) + 1 \in DOMAIN Append(s, e)
    BY <1>1
  <2>3. QED
    BY <1>1, <2>1, <2>2 DEF ToSet
<1>4. QED
  BY <1>1, <1>2, <1>3

LEMMA OrderedAppend ==
  ASSUME NEW S, NEW s \in Seq(S), NEW e \in S, NEW bad, Ordered(s, bad),
         \A d \in ToSet(s) : Before(d, e, bad)
  PROVE  Ordered(Append(s, e), bad)
<1>1. /\ DOMAIN s = 1 .. Len(s) /\ Len(s) \in Nat
      /\ DOMAIN Append(s, e) = 1 .. (Len(s) + 1)
      /\ \A i \in 1 .. Len(s) : Append(s, e)[i] = s[i]
      /\ Append(s, e)[Len(s) + 1] = e
  OBVIOUS
<1> SUFFICES ASSUME NEW i \in 1 .. (Len(s) + 1), NEW j \in 1 .. (Len(s) + 1), i < j
             PROVE  Before(Append(s, e)[i], Append(s, e)[j], bad)
  BY <1>1 DEF Ordered
<1>2. i \in 1 .. Len(s)
  BY <1>1
<1>3. CASE j \in 1 .. Len(s)
  BY <1>1, <1>2, <1>3 DEF Ordered
<1>4. CASE j = Len(s) + 1
  BY <1>1, <1>2, <1>4 DEF ToSet
<1>5. QED
  BY <1>1, <1>3, <1>4

LEMMA HeadAndTail ==
  ASSUME NEW S, NEW s \in Seq(S), s # <<>>, NEW bad, Ordered(s, bad)
  PROVE  /\ Head(s) \in S /\ Tail(s) \in Seq(S)
         /\ ToSet(s) = {Head(s)} \cup ToSet(Tail(s))
         /\ Ordered(Tail(s), bad)
         /\ \A d \in ToSet(Tail(s)) : Before(Head(s), d, bad)
<1>1. /\ DOMAIN s = 1 .. Len(s) /\ Len(s) \in Nat /\ Len(s) >= 1
      /\ Head(s) = s[1] /\ Head(s) \in S /\ Tail(s) \in Seq(S)
      /\ DOMAIN Tail(s) = 1 .. (Len(s) - 1)
      /\ \A i \in 1 .. (Len(s) - 1) : Tail(s)[i] = s[i + 1]
  OBVIOUS
<1>2. \A i \in DOMAIN Tail(s) : i + 1 \in DOMAIN s /\ i + 1 > 1
  BY <1>1
<1>3. ASSUME NEW i \in DOMAIN s
      PROVE  s[i] \in {Head(s)} \cup ToSet(Tail(s))
  <2>1. CASE i = 1
    BY <1>1, <2>1
  <2>2. CASE i # 1
    <3>1. i - 1 \in 1 .. (Len(s) - 1) /\ (i - 1) + 1 = i
      BY <1>1, <2>2
    <3>2. i - 1 \in DOMAIN Tail(s) /\ Tail(s)[i - 1] = s[i]
      BY <1>1, <3>1
    <3>3. QED
      BY <3>2 DEF ToSet
  <2>3. QED
    BY <2>1, <2>2
<1>4. ToSet(s) = {Head(s)} \cup ToSet(Tail(s))
  <2>1. ToSet(s) \subseteq {Head(s)} \cup ToSet(Tail(s))
    BY <1>1, <1>3 DEF ToSet
  <2>2. {Head(s)} \cup ToSet(Tail(s)) \subseteq ToSet(s)
    BY <1>1, <1>2 DEF ToSet
  <2>3. QED
    BY <2>1, <2>2
<1>5. Ordered(Tail(s), bad)
  <2> SUFFICES ASSUME NEW i \in DOMAIN Tail(s), NEW j \in DOMAIN Tail(s), i < j
               PROVE  Before(Tail(s)[i], Tail(s)[j], bad)
    BY DEF Ordered
  <2>1. i + 1 \in DOMAIN s /\ j + 1 \in DOMAIN s /\ i + 1 < j + 1
    BY <1>1, <1>2
  <2>2. QED
    BY <1>1, <2>1 DEF Ordered
<1>6. \A d \in ToSet(Tail(s)) : Before(Head(s), d, bad)
  BY <1>1, <1>2 DEF Ordered, ToSet
<1>7. QED
  BY <1>1, <1>4, <1>5, <1>6

(* What a broker adds to an inbox: copies of one event.                     *)
LEMMA CopiesAdded ==
  ASSUME NEW s \in Seq(AnyEvent), NEW e \in AnyEvent, NEW k \in 0 .. 2,
         NEW bad, Ordered(s, bad), \A d \in ToSet(s) : Before(d, e, bad),
         k > 1 => e \in bad
  PROVE  LET t == s \o [i \in 1 .. k |-> e]
         IN  /\ t \in Seq(AnyEvent)
             /\ ToSet(t) = ToSet(s) \cup (IF k = 0 THEN {} ELSE {e})
             /\ Ordered(t, bad)
<1> DEFINE t == s \o [i \in 1 .. k |-> e]
<1>1. [i \in 1 .. k |-> e] \in Seq(AnyEvent) /\ Len([i \in 1 .. k |-> e]) = k
  OBVIOUS
<1>2. /\ t \in Seq(AnyEvent) /\ DOMAIN s = 1 .. Len(s) /\ Len(s) \in Nat
      /\ DOMAIN t = 1 .. (Len(s) + k)
      /\ \A i \in 1 .. Len(s) : t[i] = s[i]
      /\ \A i \in (Len(s) + 1) .. (Len(s) + k) : t[i] = e
  BY <1>1
<1> HIDE DEF t
<1>3. ToSet(t) \subseteq ToSet(s) \cup (IF k = 0 THEN {} ELSE {e})
  <2> SUFFICES ASSUME NEW i \in 1 .. (Len(s) + k)
               PROVE  t[i] \in ToSet(s) \cup (IF k = 0 THEN {} ELSE {e})
    BY <1>2 DEF ToSet
  <2>1. CASE i \in 1 .. Len(s)
    BY <1>2, <2>1 DEF ToSet
  <2>2. CASE i \notin 1 .. Len(s)
    <3>1. i \in (Len(s) + 1) .. (Len(s) + k) /\ k # 0
      BY <1>2, <2>2
    <3>2. QED
      BY <1>2, <3>1
  <2>3. QED
    BY <2>1, <2>2
<1>4. ToSet(s) \cup (IF k = 0 THEN {} ELSE {e}) \subseteq ToSet(t)
  <2>1. \A i \in DOMAIN s : i \in DOMAIN t /\ t[i] = s[i]
    BY <1>2
  <2>2. k # 0 => Len(s) + 1 \in DOMAIN t /\ t[Len(s) + 1] = e
    BY <1>2
  <2>3. QED
    BY <2>1, <2>2 DEF ToSet
<1>5. Ordered(t, bad)
  <2> SUFFICES ASSUME NEW i \in 1 .. (Len(s) + k), NEW j \in 1 .. (Len(s) + k), i < j
               PROVE  Before(t[i], t[j], bad)
    BY <1>2 DEF Ordered
  <2>1. CASE j \in 1 .. Len(s)
    <3>1. i \in 1 .. Len(s)
      BY <1>2, <2>1
    <3>2. QED
      BY <1>2, <2>1, <3>1 DEF Ordered
  <2>2. CASE j \notin 1 .. Len(s) /\ i \in 1 .. Len(s)
    <3>1. j \in (Len(s) + 1) .. (Len(s) + k)
      BY <1>2, <2>2
    <3>2. t[j] = e /\ t[i] \in ToSet(s)
      BY <1>2, <2>2, <3>1 DEF ToSet
    <3>3. QED
      BY <3>2
  <2>3. CASE j \notin 1 .. Len(s) /\ i \notin 1 .. Len(s)
    <3>1. k > 1 /\ j \in (Len(s) + 1) .. (Len(s) + k)
      BY <1>2, <2>3
    <3>2. t[j] = e /\ e \in bad
      BY <1>2, <3>1
    <3>3. QED
      BY <3>2 DEF Before
  <2>4. QED
    BY <2>1, <2>2, <2>3
<1>6. QED
  BY <1>2, <1>3, <1>4, <1>5 DEF t

LEMMA Empty ==
  ToSet(<<>>) = {} /\ \A bad : Ordered(<<>>, bad)
BY DEF ToSet, Ordered

-----------------------------------------------------------------------------
(* Types of what is on its way.                                             *)

LEMMA WayType ==
  ASSUME Shape, NEW m \in Nodes, NEW b \in Brokers
  PROVE  /\ Way(m, b) \subseteq AnyEvent
         /\ ToSet(inbox[m][b]) \subseteq Way(m, b)
         /\ hand[m][b] # Nil => hand[m][b] \in Way(m, b)
         /\ ToSet(accepted[m]) \subseteq AnyEvent
<1>1. inbox[m][b] \in Seq(AnyEvent) /\ hand[m][b] \in AnyEvent \cup {Nil}
      /\ accepted[m] \in Seq(AnyEvent)
  BY DEF Shape
<1>2. ToSet(inbox[m][b]) \subseteq AnyEvent /\ ToSet(accepted[m]) \subseteq AnyEvent
  BY <1>1, ToSetType
<1>3. QED
  BY <1>1, <1>2 DEF Way

LEMMA EventType ==
  ASSUME NEW e \in AnyEvent
  PROVE  /\ e.writer \in Writers /\ Home[e.writer] \in Nodes
         /\ e.number \in Nat /\ e.number >= 1 /\ e # Nil
         /\ e = [writer |-> e.writer, number |-> e.number]
<1>1. e.writer \in Writers /\ e.number \in Nat /\ e.number >= 1
      /\ e = [writer |-> e.writer, number |-> e.number]
  BY DEF AnyEvent
<1>2. e \in [writer : Writers, number : Nat]
  BY DEF AnyEvent
<1>3. QED
  BY <1>1, <1>2, WritersHaveHomes, NilIsNoEvent

(* A server whose events are on their way has been started. *)
LEMMA OnTheirWay ==
  ASSUME Shape, ShutdownInv, EmittedInv, NEW m \in Nodes, NEW b \in Brokers,
         NEW e \in Way(m, b)
  PROVE  e \in AnyEvent /\ main[Home[e.writer]] \notin Starting
<1>1. e \in AnyEvent
  BY WayType
<1>2. e.number <= emitted[e.writer] /\ e.number >= 1 /\ e.writer \in Writers
      /\ e.number \in Nat
  BY <1>1, EventType DEF EmittedInv
<1>3. emitted[e.writer] # 0
  BY <1>2
<1>4. QED
  BY <1>1, <1>2, <1>3 DEF ShutdownInv

(* main goes on, and the way of the events stays. *)
RouteKept ==
  \A n \in Nodes : main'[n] # "ended" =>
    main[n] # "ended" /\ (main[n] \in Starting \/ Route(n)' = Route(n))

(* A step by which nothing is emitted. *)
LEMMA FlowStep ==
  ASSUME Inv, Shape', RouteKept, UNCHANGED <<emitted, failed, heard, unheard>>,
         \A w \in Writers : pc'[w] = "fallback" => pc[w] = "fallback",
         \A m \in Nodes, b \in Brokers : Way(m, b)' \subseteq Way(m, b),
         \A m \in Nodes : \A e \in ToSet(accepted'[m]) :
           e.number <= emitted[e.writer],
         \A m \in Nodes, e \in AnyEvent : Settled(e, m) => Settled(e, m)'
  PROVE  RouteInv' /\ EmittedInv' /\ ReachInv' /\ UnheardOnlyIf'
<1>1. Shape /\ ShutdownInv /\ RouteInv /\ EmittedInv /\ ReachInv /\ UnheardOnlyIf
  BY DEF Inv
<1>2. ASSUME NEW m \in Nodes, NEW b \in Brokers, NEW e \in Way(m, b)',
             main'[Home[e.writer]] # "ended"
      PROVE  Route(Home[e.writer])' = b
  <2>1. e \in Way(m, b)
    BY <1>2
  <2>2. e \in AnyEvent /\ main[Home[e.writer]] \notin Starting
    BY <1>1, <2>1, OnTheirWay
  <2>3. Home[e.writer] \in Nodes
    BY <2>2, EventType
  <2>4. QED
    BY <1>1, <1>2, <2>1, <2>2, <2>3 DEF RouteKept, RouteInv
<1>3. RouteInv'
  <2>1. \A m \in Nodes, b, c \in Brokers : \A e \in Way(m, b)', f \in Way(m, c)' :
          e.writer = f.writer => b = c
    BY <1>1 DEF RouteInv
  <2>2. QED
    BY <1>2, <2>1 DEF RouteInv, Brokers
<1>4. EmittedInv'
  BY <1>1 DEF EmittedInv, Brokers
<1>5. ReachInv'
  <2>1. \A p \in heard : Settled(p[1], p[2])'
    BY <1>1 DEF Shape, ReachInv
  <2>2. ASSUME NEW e \in AnyEvent, e.number <= emitted'[e.writer], e \notin Unheard'
        PROVE  Settled(e, Home[e.writer])'
    <3>1. Settled(e, Home[e.writer]) /\ Home[e.writer] \in Nodes
      BY <1>1, <2>2, EventType DEF ReachInv, Unheard
    <3>2. QED
      BY <3>1
  <2>3. QED
    BY <2>1, <2>2 DEF ReachInv, AnyEvent, Writers
<1>6. UnheardOnlyIf'
  BY <1>1 DEF UnheardOnlyIf
<1>7. QED
  BY <1>3, <1>4, <1>5, <1>6

(* A step by which no event moves. *)
LEMMA QuietStep ==
  ASSUME Inv, Shape', ShutdownInv', RouteKept,
         UNCHANGED <<inbox, hand, accepted, emitted, failed, heard, missed, unheard>>,
         \A w \in Writers : pc'[w] = "fallback" <=> pc[w] = "fallback"
  PROVE  Inv'
<1>1. Shape /\ EmittedInv /\ OrderInv
  BY DEF Inv
<1>2. \A m \in Nodes, b \in Brokers : Way(m, b)' = Way(m, b)
  BY DEF Way
<1>3. \A m \in Nodes : \A e \in ToSet(accepted'[m]) : e.number <= emitted[e.writer]
  BY <1>1 DEF EmittedInv
<1>4. \A m \in Nodes, e \in AnyEvent : Settled(e, m) => Settled(e, m)'
  <2> SUFFICES ASSUME NEW m \in Nodes, NEW e \in AnyEvent, Settled(e, m)
               PROVE  Settled(e, m)'
    OBVIOUS
  <2>1. e.writer \in Writers
    BY EventType
  <2>2. QED
    BY <1>2, <2>1 DEF Settled
<1>5. RouteInv' /\ EmittedInv' /\ ReachInv' /\ UnheardOnlyIf'
  BY <1>2, <1>3, <1>4, FlowStep
<1>6. OrderInv'
  BY <1>1, <1>2 DEF OrderInv
<1>7. QED
  BY <1>5, <1>6 DEF Inv

LEMMA InitInv == Init => Inv
<1> SUFFICES ASSUME Init PROVE Inv
  OBVIOUS
<1>1. Shape
  BY DEF Init, Shape, Mains, Connections
<1>2. \A m \in Nodes, b \in Brokers : Way(m, b) = {} /\ inbox[m][b] = <<>> /\ hand[m][b] = Nil
  BY Empty DEF Init, Way
<1>3. \A m \in Nodes : accepted[m] = <<>>
  BY DEF Init
<1>4. ShutdownInv
  BY WritersHaveHomes DEF Init, ShutdownInv, Feeding, Starting, Connections, Writers
<1>5. RouteInv /\ EmittedInv
  BY <1>2, <1>3, Empty DEF Init, RouteInv, EmittedInv
<1>6. OrderInv
  BY <1>2, <1>3, Empty DEF OrderInv
<1>7. ReachInv
  <2>1. \A e \in AnyEvent : ~(e.number <= emitted[e.writer])
    <3> TAKE e \in AnyEvent
    <3>1. e.number \in Nat /\ e.number >= 1 /\ emitted[e.writer] = 0
      BY EventType DEF Init
    <3>2. QED
      BY <3>1
  <2>2. QED
    BY <2>1 DEF Init, ReachInv
<1>8. UnheardOnlyIf
  BY DEF Init, UnheardOnlyIf
<1>9. QED
  BY <1>1, <1>4, <1>5, <1>6, <1>7, <1>8 DEF Inv

-----------------------------------------------------------------------------
(* Starting and stopping, as long as no event moves.                        *)

LEMMA ConnectKeeps ==
  ASSUME Inv, NEW n \in Nodes, ConnectRedis(n) \/ ConnectNats(n)
  PROVE  Inv'
<1>1. Shape /\ ShutdownInv
  BY DEF Inv
<1>2. /\ main[n] \in Starting /\ main'[n] \in Feeding
      /\ \E next \in Feeding : main' = [main EXCEPT ![n] = next]
      /\ UNCHANGED <<transit, writing, accepted, faults, history>>
  BY <1>1 DEF ConnectRedis, ConnectNats, Starting, Feeding, Shape
<1>3. PICK b \in Brokers, c \in Connections : link' = [link EXCEPT ![n][b] = c]
  BY DEF ConnectRedis, ConnectNats, Brokers
<1>4. /\ link' \in [Nodes -> [Brokers -> Connections \cup {"silent", "closed"}]]
      /\ \A k \in Nodes \ {n} : link'[k] = link[k]
      /\ \A d \in Brokers : link'[n][d] = c \/ link'[n][d] = link[n][d]
  BY <1>1, <1>3 DEF Shape
<1>5. Shape'
  <2>1. main' \in [Nodes -> Mains]
    BY <1>1, <1>2 DEF Shape, Mains, Feeding
  <2>2. UNCHANGED <<inbox, hand, pc, emitted, accepted, heard>>
    BY <1>2 DEF transit, writing, history
  <2>3. QED
    BY <1>1, <1>4, <2>1, <2>2 DEF Shape
<1>6. ShutdownInv'
  <2>1. \A k \in Nodes \ {n} : main'[k] = main[k]
    BY <1>1, <1>2 DEF Shape
  <2>2. \A d \in Brokers : link'[n][d] \in Connections
    BY <1>1, <1>2, <1>4 DEF ShutdownInv, Starting, Feeding
  <2>3. \A w \in Writers : main'[Home[w]] \in Starting => main[Home[w]] \in Starting
    BY <1>2, <2>1, WritersHaveHomes
  <2>4. \A w \in Feeders : main'[Home[w]] \notin Feeding => main[Home[w]] \notin Feeding
    BY <1>2, <2>1, WritersHaveHomes DEF Starting, Feeding
  <2>5. QED
    BY <1>1, <1>2, <1>4, <2>1, <2>2, <2>3, <2>4 DEF ShutdownInv, writing
<1>7. RouteKept
  BY <1>1, <1>2, <1>4 DEF RouteKept, Route, Shape, Starting
<1>8. QED
  BY <1>2, <1>5, <1>6, <1>7, QuietStep DEF transit, writing, history

LEMMA StopKeeps ==
  ASSUME Inv, NEW n \in Nodes,
         \/ Signal(n) \/ StopFeeder(n) \/ DrainNats(n) \/ EndDrain(n)
         \/ StopListener(n) \/ CloseRedis(n)
  PROVE  Inv'
<1>1. Shape /\ ShutdownInv
  BY DEF Inv
<1>2. /\ main[n] \notin Starting /\ main[n] # "ended"
      /\ \E next \in Mains \ (Starting \cup {"ended"}) : main' = [main EXCEPT ![n] = next]
      /\ UNCHANGED <<transit, writing, accepted, faults, history>>
  <2>1. CASE EndDrain(n)
    <3>1. main[n] \in Mains \ (Starting \cup {"ended"}) /\ main' = [main EXCEPT ![n] = main[n]]
      BY <1>1, <2>1 DEF EndDrain, Mains, Starting, Shape
    <3>2. QED
      BY <2>1, <3>1 DEF EndDrain, Starting
  <2>2. CASE ~EndDrain(n)
    BY <2>2 DEF Signal, StopFeeder, DrainNats, StopListener, CloseRedis, Mains, Starting
  <2>3. QED
    BY <2>1, <2>2
<1>3. /\ \A k \in Nodes \ {n} : main'[k] = main[k]
      /\ main'[n] \in Mains \ Starting
  BY <1>1, <1>2 DEF Shape
<1>4. \/ link' = link
      \/ /\ main[n] \notin Feeding
         /\ \E b \in Brokers, c \in Connections \cup {"silent", "closed"} :
              /\ link' = [link EXCEPT ![n][b] = c]
              /\ c = "none" <=> link[n][b] = "none"
  <2>1. CASE Signal(n) \/ StopFeeder(n) \/ DrainNats(n)
    BY <2>1 DEF Signal, StopFeeder, DrainNats
  <2>2. ASSUME NEW b \in Brokers, NEW c, c = Silenced(link[n][b]) \/ c = Closed(link[n][b])
        PROVE  c \in Connections \cup {"silent", "closed"} /\ (c = "none" <=> link[n][b] = "none")
    <3>1. link[n][b] \in Connections \cup {"silent", "closed"}
      BY <1>1 DEF Shape
    <3>2. QED
      BY <2>2, <3>1 DEF Silenced, Closed, Connections
  <2>3. CASE EndDrain(n)
    <3>1. link' = [link EXCEPT ![n]["nats"] = Closed(link[n]["nats"])] /\ "nats" \in Brokers
          /\ main[n] \notin Feeding
      BY <1>1, <2>3 DEF EndDrain, Brokers, Shape, Feeding
    <3>2. QED
      BY <2>2, <3>1
  <2>4. CASE StopListener(n)
    <3>1. link' = [link EXCEPT ![n]["redis"] = Silenced(link[n]["redis"])] /\ "redis" \in Brokers
          /\ main[n] \notin Feeding
      BY <1>1, <2>4 DEF StopListener, Brokers, Shape, Feeding
    <3>2. QED
      BY <2>2, <3>1
  <2>5. CASE CloseRedis(n)
    <3>1. link' = [link EXCEPT ![n]["redis"] = Closed(link[n]["redis"])] /\ "redis" \in Brokers
          /\ main[n] \notin Feeding
      BY <1>1, <2>5 DEF CloseRedis, Brokers, Shape, Feeding
    <3>2. QED
      BY <2>2, <3>1
  <2>6. QED
    BY <2>1, <2>3, <2>4, <2>5
<1>5. /\ link' \in [Nodes -> [Brokers -> Connections \cup {"silent", "closed"}]]
      /\ \A k \in Nodes \ {n} : link'[k] = link[k]
      /\ main[n] \in Feeding => link'[n] = link[n]
      /\ \A b \in Brokers : link'[n][b] = "none" <=> link[n][b] = "none"
  <2>1. CASE link' = link
    BY <1>1, <2>1 DEF Shape
  <2>2. CASE link' # link
    <3>1. main[n] \notin Feeding
      BY <1>4, <2>2
    <3>2. PICK b \in Brokers, c \in Connections \cup {"silent", "closed"} :
            link' = [link EXCEPT ![n][b] = c] /\ (c = "none" <=> link[n][b] = "none")
      BY <1>4, <2>2
    <3>3. /\ link' \in [Nodes -> [Brokers -> Connections \cup {"silent", "closed"}]]
          /\ \A k \in Nodes \ {n} : link'[k] = link[k]
          /\ link'[n] = [link[n] EXCEPT ![b] = c]
      BY <1>1, <3>2 DEF Shape
    <3>4. \A d \in Brokers : link'[n][d] = IF d = b THEN c ELSE link[n][d]
      BY <1>1, <3>3 DEF Shape
    <3>5. QED
      BY <3>1, <3>2, <3>3, <3>4
  <2>3. QED
    BY <2>1, <2>2
<1>6. Shape'
  BY <1>1, <1>2, <1>5 DEF Shape, transit, writing, history, Mains
<1>7. main'[n] \in Feeding => main[n] \in Feeding
  BY <1>1 DEF Signal, StopFeeder, DrainNats, EndDrain, StopListener, CloseRedis,
     Shape, Feeding
<1>8. ASSUME NEW w \in Feeders, main'[Home[w]] \notin Feeding
      PROVE  pc'[w] = "ended"
  <2>1. Home[w] \in Nodes /\ w \in Writers
    BY WritersHaveHomes DEF Writers
  <2>2. CASE main[Home[w]] \notin Feeding
    BY <1>1, <1>2, <2>2 DEF ShutdownInv, writing
  <2>3. CASE main[Home[w]] \in Feeding
    <3>1. Home[w] = n
      BY <1>3, <1>8, <2>1, <2>3
    <3>2. StopFeeder(n)
      BY <1>1, <1>8, <2>3, <3>1 DEF Signal, StopFeeder, DrainNats, EndDrain,
         StopListener, CloseRedis, Shape, Feeding
    <3>3. QED
      BY <1>2, <3>1, <3>2 DEF StopFeeder, FeedersStopped, writing
  <2>4. QED
    BY <2>2, <2>3
<1>9. ShutdownInv'
  <2>1. \A k \in Nodes : main'[k] \in Feeding => \A b \in Brokers : link'[k][b] \in Connections
    BY <1>1, <1>3, <1>5, <1>7 DEF ShutdownInv
  <2>2. \A w \in Writers : main'[Home[w]] \in Starting => emitted'[w] = 0
    BY <1>1, <1>2, <1>3, WritersHaveHomes DEF ShutdownInv, writing
  <2>3. QED
    BY <1>8, <2>1, <2>2 DEF ShutdownInv
<1>10. RouteKept
  BY <1>1, <1>2, <1>3, <1>5 DEF RouteKept, Route, Shape, Brokers
<1>11. QED
  BY <1>2, <1>6, <1>9, <1>10, QuietStep DEF transit, writing, history

LEMMA EndFeedingKeeps ==
  ASSUME Inv, NEW w \in Feeders, EndFeeding(w)
  PROVE  Inv'
<1>1. Shape /\ ShutdownInv
  BY DEF Inv
<1>2. /\ pc[w] = "idle" /\ pc' = [pc EXCEPT ![w] = "ended"]
      /\ UNCHANGED <<main, link, transit, emitted, accepted, history>>
  BY DEF EndFeeding, wiring
<1>3. Shape'
  BY <1>1, <1>2 DEF Shape, transit, history
<1>4. ShutdownInv'
  BY <1>1, <1>2 DEF ShutdownInv, Shape, Writers
<1>5. RouteKept
  BY <1>2 DEF RouteKept, Route
<1>6. \A v \in Writers : pc'[v] = "fallback" <=> pc[v] = "fallback"
  BY <1>1, <1>2 DEF Shape
<1>7. QED
  BY <1>2, <1>3, <1>4, <1>5, <1>6, QuietStep DEF transit, history

-----------------------------------------------------------------------------
(* Events that are not read.                                                *)

LEMMA DropStep ==
  ASSUME Inv, Shape', ShutdownInv', RouteKept,
         UNCHANGED <<accepted, emitted, failed, heard, unheard, pc>>,
         \A m \in Nodes, b \in Brokers :
           /\ inbox'[m][b] = inbox[m][b] \/ inbox'[m][b] = <<>>
           /\ hand'[m][b] = hand[m][b] \/ hand'[m][b] = Nil
           /\ \A e \in Way(m, b) : e \in Way(m, b)' \/ <<e, m>> \in missed',
         missed \subseteq missed'
  PROVE  Inv'
<1>1. Shape /\ EmittedInv /\ OrderInv
  BY DEF Inv
<1>2. ASSUME NEW m \in Nodes, NEW b \in Brokers
      PROVE  Way(m, b)' \subseteq Way(m, b) /\ ToSet(inbox'[m][b]) \subseteq ToSet(inbox[m][b])
             /\ Ordered(inbox'[m][b], failed)
  <2>1. ToSet(inbox'[m][b]) \subseteq ToSet(inbox[m][b])
    BY Empty
  <2>2. Ordered(inbox'[m][b], failed)
    BY <1>1, Empty DEF OrderInv
  <2>3. QED
    BY <2>1, <2>2 DEF Way
<1>3. \A m \in Nodes : \A e \in ToSet(accepted'[m]) : e.number <= emitted[e.writer]
  BY <1>1 DEF EmittedInv
<1>4. \A m \in Nodes, e \in AnyEvent : Settled(e, m) => Settled(e, m)'
  BY DEF Settled
<1>5. RouteInv' /\ EmittedInv' /\ ReachInv' /\ UnheardOnlyIf'
  BY <1>2, <1>3, <1>4, FlowStep
<1>6. OrderInv'
  BY <1>1, <1>2 DEF OrderInv, Brokers
<1>7. QED
  BY <1>5, <1>6 DEF Inv

LEMMA EndListenKeeps ==
  ASSUME Inv, NEW n \in Nodes, EndListen(n)
  PROVE  Inv'
<1>1. Shape /\ ShutdownInv
  BY DEF Inv
<1>2. /\ inbox' = [inbox EXCEPT ![n]["redis"] = <<>>]
      /\ missed' = missed \cup Waiting(n, "redis")
      /\ hand[n]["redis"] = Nil
      /\ UNCHANGED <<main, link, hand, writing, accepted, failed, heard, unheard>>
  BY DEF EndListen
<1>3. \A m \in Nodes, b \in Brokers :
        inbox'[m][b] = IF m = n /\ b = "redis" THEN <<>> ELSE inbox[m][b]
  BY <1>1, <1>2 DEF Shape
<1>4. inbox' \in [Nodes -> [Brokers -> Seq(AnyEvent)]]
  <2> DEFINE S == Seq(AnyEvent)
  <2>1. <<>> \in S
    OBVIOUS
  <2>2. inbox \in [Nodes -> [Brokers -> S]]
    BY <1>1 DEF Shape
  <2> HIDE DEF S
  <2>3. inbox' \in [Nodes -> [Brokers -> S]]
    BY <1>2, <2>1, <2>2
  <2>4. QED
    BY <2>3 DEF S
<1>5. Shape'
  BY <1>1, <1>2, <1>4 DEF Shape, writing
<1>6. ShutdownInv' /\ RouteKept
  BY <1>1, <1>2 DEF ShutdownInv, RouteKept, Route, writing
<1>7. ASSUME NEW m \in Nodes, NEW b \in Brokers, NEW e \in Way(m, b)
      PROVE  e \in Way(m, b)' \/ <<e, m>> \in missed'
  BY <1>2, <1>3, <1>7 DEF Way, Waiting
<1>8. QED
  BY <1>2, <1>3, <1>5, <1>6, <1>7, DropStep DEF writing

LEMMA UnsubscribeKeeps ==
  ASSUME Inv, NEW n \in Nodes, UnsubscribeNats(n)
  PROVE  Inv'
<1>1. Shape /\ ShutdownInv
  BY DEF Inv
<1>2. /\ main[n] = "unsubscribe" /\ main' = [main EXCEPT ![n] = "drain"]
      /\ link' = [link EXCEPT ![n]["nats"] = Silenced(link[n]["nats"])]
      /\ missed' = missed \cup Waiting(n, "nats")
      /\ inbox' = [inbox EXCEPT ![n]["nats"] = <<>>]
      /\ UNCHANGED <<hand, writing, accepted, failed, heard, unheard>>
  BY DEF UnsubscribeNats
<1>3. \A m \in Nodes, b \in Brokers :
        inbox'[m][b] = IF m = n /\ b = "nats" THEN <<>> ELSE inbox[m][b]
  BY <1>1, <1>2 DEF Shape
<1>4. inbox' \in [Nodes -> [Brokers -> Seq(AnyEvent)]]
  <2> DEFINE S == Seq(AnyEvent)
  <2>1. <<>> \in S
    OBVIOUS
  <2>2. inbox \in [Nodes -> [Brokers -> S]]
    BY <1>1 DEF Shape
  <2> HIDE DEF S
  <2>3. inbox' \in [Nodes -> [Brokers -> S]]
    BY <1>2, <2>1, <2>2
  <2>4. QED
    BY <2>3 DEF S
<1>5. /\ Silenced(link[n]["nats"]) \in Connections \cup {"silent", "closed"}
      /\ Silenced(link[n]["nats"]) = "none" <=> link[n]["nats"] = "none"
  BY <1>1 DEF Shape, Silenced, Connections, Brokers
<1>6. /\ link' \in [Nodes -> [Brokers -> Connections \cup {"silent", "closed"}]]
      /\ \A m \in Nodes \ {n} : link'[m] = link[m]
      /\ link'[n]["redis"] = link[n]["redis"]
      /\ link'[n]["nats"] = Silenced(link[n]["nats"])
  BY <1>1, <1>2, <1>5 DEF Shape, Brokers
<1>7. Shape'
  BY <1>1, <1>2, <1>4, <1>6 DEF Shape, Mains, writing
<1>8. ShutdownInv'
  <2>1. \A m \in Nodes : (main'[m] \in Feeding <=> main[m] \in Feeding)
                         /\ (main'[m] \in Starting <=> main[m] \in Starting)
                         /\ (main'[m] \in Feeding => link'[m] = link[m])
    BY <1>1, <1>2, <1>6 DEF Shape, Feeding, Starting
  <2>2. QED
    BY <1>1, <1>2, <2>1, WritersHaveHomes DEF ShutdownInv, writing, Writers
<1>9. RouteKept
  BY <1>1, <1>2, <1>5, <1>6 DEF RouteKept, Route, Shape
<1>10. ASSUME NEW m \in Nodes, NEW b \in Brokers, NEW e \in Way(m, b)
       PROVE  e \in Way(m, b)' \/ <<e, m>> \in missed'
  BY <1>2, <1>3, <1>10 DEF Way, Waiting
<1>11. QED
  BY <1>2, <1>3, <1>7, <1>8, <1>9, <1>10, DropStep DEF writing

LEMMA ExitKeeps ==
  ASSUME Inv, NEW n \in Nodes, ShutDown(n) \/ ShutdownTimesOut(n)
  PROVE  Inv'
<1>1. Shape /\ ShutdownInv
  BY DEF Inv
<1>2. /\ main[n] = "http" /\ main' = [main EXCEPT ![n] = "ended"]
      /\ link' = [link EXCEPT ![n] = [b \in Brokers |-> "closed"]]
      /\ missed' = missed \cup ({hand[n][b] : b \in Brokers} \ {Nil}) \X {n}
      /\ hand' = [hand EXCEPT ![n] = [b \in Brokers |-> Nil]]
      /\ UNCHANGED <<inbox, writing, accepted, failed, heard, unheard>>
  BY DEF ShutDown, ShutdownTimesOut, Exit
<1>3. \A m \in Nodes, b \in Brokers : hand'[m][b] = IF m = n THEN Nil ELSE hand[m][b]
  BY <1>1, <1>2 DEF Shape
<1>4. \A m \in Nodes \ {n} : main'[m] = main[m] /\ link'[m] = link[m]
  BY <1>1, <1>2 DEF Shape
<1>5. Shape'
  BY <1>1, <1>2 DEF Shape, Mains, writing
<1>6. ShutdownInv'
  <2>1. \A m \in Nodes : (main'[m] \in Feeding <=> main[m] \in Feeding)
                         /\ (main'[m] \in Starting <=> main[m] \in Starting)
                         /\ (main'[m] \in Feeding => link'[m] = link[m])
    BY <1>1, <1>2, <1>4 DEF Shape, Feeding, Starting
  <2>2. QED
    BY <1>1, <1>2, <2>1, WritersHaveHomes DEF ShutdownInv, writing, Writers
<1>7. RouteKept
  BY <1>1, <1>2, <1>4 DEF RouteKept, Route, Shape
<1>8. ASSUME NEW m \in Nodes, NEW b \in Brokers, NEW e \in Way(m, b)
      PROVE  e \in Way(m, b)' \/ <<e, m>> \in missed'
  BY <1>2, <1>3, <1>8 DEF Way
<1>9. QED
  BY <1>2, <1>3, <1>5, <1>6, <1>7, <1>8, DropStep DEF writing

-----------------------------------------------------------------------------
(* The listeners and the error path.                                        *)

LEMMA TakeKeeps ==
  ASSUME Inv, NEW n \in Nodes, NEW b \in Brokers, Take(n, b)
  PROVE  Inv'
<1> DEFINE s == inbox[n][b]
<1>1. Shape /\ ShutdownInv /\ OrderInv /\ EmittedInv
  BY DEF Inv
<1>2. /\ hand[n][b] = Nil /\ s # <<>>
      /\ hand' = [hand EXCEPT ![n][b] = Head(s)]
      /\ inbox' = [inbox EXCEPT ![n][b] = Tail(s)]
      /\ UNCHANGED <<wiring, writing, accepted, faults, history>>
  BY DEF Take
<1>3. s \in Seq(AnyEvent) /\ Ordered(s, failed)
  BY <1>1 DEF Shape, OrderInv
<1> HIDE DEF s
<1>4. /\ Head(s) \in AnyEvent /\ Tail(s) \in Seq(AnyEvent)
      /\ ToSet(s) = {Head(s)} \cup ToSet(Tail(s))
      /\ Ordered(Tail(s), failed)
      /\ \A d \in ToSet(Tail(s)) : Before(Head(s), d, failed)
  BY <1>2, <1>3, HeadAndTail
<1>5. /\ \A m \in Nodes, c \in Brokers : ~(m = n /\ c = b) =>
           inbox'[m][c] = inbox[m][c] /\ hand'[m][c] = hand[m][c]
      /\ inbox'[n][b] = Tail(s) /\ hand'[n][b] = Head(s)
  BY <1>1, <1>2 DEF Shape
<1>6. \A m \in Nodes, c \in Brokers : Way(m, c)' = Way(m, c)
  <2> TAKE m \in Nodes, c \in Brokers
  <2>1. CASE m = n /\ c = b
    <3>1. Head(s) # Nil
      BY <1>4, EventType
    <3>2. QED
      BY <1>2, <1>4, <1>5, <2>1, <3>1 DEF Way, s
  <2>2. CASE ~(m = n /\ c = b)
    BY <1>5, <2>2 DEF Way
  <2>3. QED
    BY <2>1, <2>2
<1>7. Shape'
  <2>1. inbox' \in [Nodes -> [Brokers -> Seq(AnyEvent)]]
    BY <1>1, <1>2, <1>4 DEF Shape
  <2>2. hand' \in [Nodes -> [Brokers -> AnyEvent \cup {Nil}]]
    BY <1>1, <1>2, <1>4 DEF Shape
  <2>3. QED
    BY <1>1, <1>2, <2>1, <2>2 DEF Shape, wiring, writing, history
<1>8. ShutdownInv' /\ RouteKept
  BY <1>1, <1>2 DEF ShutdownInv, RouteKept, Route, wiring, writing
<1>9. \A m \in Nodes : \A e \in ToSet(accepted'[m]) : e.number <= emitted[e.writer]
  BY <1>1, <1>2 DEF EmittedInv
<1>10. \A m \in Nodes, e \in AnyEvent : Settled(e, m) => Settled(e, m)'
  BY <1>2, <1>6 DEF Settled, writing, history
<1>11. RouteInv' /\ EmittedInv' /\ ReachInv' /\ UnheardOnlyIf'
  BY <1>2, <1>6, <1>7, <1>8, <1>9, <1>10, FlowStep DEF writing, history
<1>12. OrderInv'
  <2> SUFFICES ASSUME NEW m \in Nodes, NEW c \in Brokers
               PROVE  /\ Ordered(inbox'[m][c], failed)
                      /\ hand'[m][c] # Nil =>
                           \A f \in ToSet(inbox'[m][c]) : Before(hand'[m][c], f, failed)
    BY <1>1, <1>2, <1>6 DEF OrderInv, history, Brokers
  <2>1. CASE m = n /\ c = b
    BY <1>4, <1>5, <2>1
  <2>2. CASE ~(m = n /\ c = b)
    BY <1>1, <1>5, <2>2 DEF OrderInv
  <2>3. QED
    BY <2>1, <2>2
<1>13. QED
  BY <1>7, <1>8, <1>11, <1>12 DEF Inv

LEMMA BroadcastEffect ==
  ASSUME Shape, NEW n \in Nodes, NEW e \in AnyEvent, NEW bad, BroadcastEvent(n, e),
         Ordered(accepted[n], bad), \A d \in ToSet(accepted[n]) : Before(d, e, bad)
  PROVE  /\ accepted' \in [Nodes -> Seq(AnyEvent)]
         /\ \A m \in Nodes \ {n} : accepted'[m] = accepted[m]
         /\ Ordered(accepted'[n], bad)
         /\ ToSet(accepted[n]) \subseteq ToSet(accepted'[n])
         /\ ToSet(accepted'[n]) \subseteq ToSet(accepted[n]) \cup {e}
         /\ missed \subseteq missed'
         /\ e \in ToSet(accepted'[n]) \/ <<e, n>> \in missed'
<1>1. accepted \in [Nodes -> Seq(AnyEvent)] /\ accepted[n] \in Seq(AnyEvent)
  BY DEF Shape
<1>2. CASE UNCHANGED accepted /\ missed' = missed \cup {<<e, n>>}
  BY <1>1, <1>2
<1>3. CASE accepted' = [accepted EXCEPT ![n] = Append(@, e)] /\ UNCHANGED missed
  <2>1. /\ Append(accepted[n], e) \in Seq(AnyEvent)
        /\ ToSet(Append(accepted[n], e)) = ToSet(accepted[n]) \cup {e}
        /\ Ordered(Append(accepted[n], e), bad)
    BY <1>1, ToSetAppend, OrderedAppend
  <2>2. accepted' = [accepted EXCEPT ![n] = Append(accepted[n], e)]
    BY <1>3
  <2>3. accepted' \in [Nodes -> Seq(AnyEvent)] /\ accepted'[n] = Append(accepted[n], e)
        /\ \A m \in Nodes \ {n} : accepted'[m] = accepted[m]
    <3> DEFINE t == Append(accepted[n], e)
               S == Seq(AnyEvent)
    <3>1. accepted \in [Nodes -> S] /\ t \in S /\ accepted' = [accepted EXCEPT ![n] = t]
      BY <1>1, <2>1, <2>2
    <3> HIDE DEF t, S
    <3>2. accepted' \in [Nodes -> S] /\ accepted'[n] = t
          /\ \A m \in Nodes \ {n} : accepted'[m] = accepted[m]
      BY <3>1
    <3>3. QED
      BY <3>2 DEF t, S
  <2>4. QED
    BY <1>3, <2>1, <2>3
<1>4. QED
  BY <1>2, <1>3 DEF BroadcastEvent

LEMMA DeliverKeeps ==
  ASSUME Inv, NEW n \in Nodes, NEW b \in Brokers, Deliver(n, b)
  PROVE  Inv'
<1> DEFINE e == hand[n][b]
<1>1. Shape /\ ShutdownInv /\ RouteInv /\ OrderInv /\ EmittedInv
  BY DEF Inv
<1>2. /\ e # Nil /\ BroadcastEvent(n, e)
      /\ hand' = [hand EXCEPT ![n][b] = Nil]
      /\ UNCHANGED <<wiring, inbox, writing, failed, heard, unheard>>
  BY DEF Deliver
<1>3. e \in AnyEvent /\ e \in Way(n, b)
  BY <1>1, <1>2, WayType
<1>4. Ordered(accepted[n], failed) /\ \A d \in ToSet(accepted[n]) : Before(d, e, failed)
  BY <1>1, <1>3 DEF OrderInv
<1>5. /\ accepted' \in [Nodes -> Seq(AnyEvent)]
      /\ \A m \in Nodes \ {n} : accepted'[m] = accepted[m]
      /\ Ordered(accepted'[n], failed)
      /\ ToSet(accepted[n]) \subseteq ToSet(accepted'[n])
      /\ ToSet(accepted'[n]) \subseteq ToSet(accepted[n]) \cup {e}
      /\ missed \subseteq missed'
      /\ e \in ToSet(accepted'[n]) \/ <<e, n>> \in missed'
  BY <1>1, <1>2, <1>3, <1>4, BroadcastEffect
<1>6. \A m \in Nodes, c \in Brokers :
        hand'[m][c] = IF m = n /\ c = b THEN Nil ELSE hand[m][c]
  BY <1>1, <1>2 DEF Shape
<1>7. \A m \in Nodes, c \in Brokers :
        /\ Way(m, c)' \subseteq Way(m, c)
        /\ \A f \in Way(m, c) : f \in Way(m, c)' \/ (m = n /\ f = e)
  BY <1>2, <1>6 DEF Way
<1>8. Shape'
  <2>1. hand' \in [Nodes -> [Brokers -> AnyEvent \cup {Nil}]]
    BY <1>1, <1>2 DEF Shape
  <2>2. QED
    BY <1>1, <1>2, <1>5, <2>1 DEF Shape, wiring, writing
<1>9. ShutdownInv' /\ RouteKept
  BY <1>1, <1>2 DEF ShutdownInv, RouteKept, Route, wiring, writing
<1>10. \A m \in Nodes : \A d \in ToSet(accepted'[m]) : d.number <= emitted[d.writer]
  BY <1>1, <1>3, <1>5 DEF EmittedInv
<1>11. ASSUME NEW m \in Nodes, NEW d \in AnyEvent, Settled(d, m)
       PROVE  Settled(d, m)'
  <2>1. CASE d \in ToSet(accepted[m]) \/ <<d, m>> \in missed
    BY <1>5, <2>1 DEF Settled
  <2>2. CASE \E c \in Brokers : d \in Way(m, c)
    BY <1>5, <1>7, <2>2 DEF Settled
  <2>3. QED
    BY <1>2, <1>11, <2>1, <2>2 DEF Settled, writing
<1>12. RouteInv' /\ EmittedInv' /\ ReachInv' /\ UnheardOnlyIf'
  BY <1>2, <1>7, <1>8, <1>9, <1>10, <1>11, FlowStep DEF writing
<1>13. OrderInv'
  <2>1. ASSUME NEW m \in Nodes, NEW c \in Brokers, NEW d \in ToSet(accepted'[m]),
               NEW f \in Way(m, c)'
        PROVE  Before(d, f, failed)
    <3>1. f \in Way(m, c)
      BY <1>7
    <3>2. CASE d \in ToSet(accepted[m])
      BY <1>1, <3>1, <3>2 DEF OrderInv
    <3>3. CASE d \notin ToSet(accepted[m])
      <4>1. m = n /\ d = e
        BY <1>5, <2>1, <3>3
      <4>2. CASE c = b
        <5>1. f \in ToSet(inbox[n][b])
          BY <1>2, <1>6, <2>1, <4>1, <4>2 DEF Way
        <5>2. QED
          BY <1>1, <1>2, <4>1, <5>1 DEF OrderInv
      <4>3. CASE c # b
        <5>1. d.writer # f.writer
          BY <1>1, <1>3, <3>1, <4>1, <4>3 DEF RouteInv
        <5>2. QED
          BY <5>1 DEF Before
      <4>4. QED
        BY <4>2, <4>3
    <3>4. QED
      BY <3>2, <3>3
  <2>2. \A m \in Nodes : Ordered(accepted'[m], failed)
    BY <1>1, <1>5 DEF OrderInv
  <2>3. ASSUME NEW m \in Nodes, NEW c \in Brokers
        PROVE  /\ Ordered(inbox'[m][c], failed)
               /\ hand'[m][c] # Nil =>
                    \A f \in ToSet(inbox'[m][c]) : Before(hand'[m][c], f, failed)
    BY <1>1, <1>2, <1>6 DEF OrderInv
  <2>4. QED
    BY <1>2, <2>1, <2>2, <2>3 DEF OrderInv, Brokers
<1>14. QED
  BY <1>8, <1>9, <1>12, <1>13 DEF Inv

LEMMA FallbackKeeps ==
  ASSUME Inv, NEW w \in Writers, Fallback(w)
  PROVE  Inv'
<1> DEFINE n == Home[w]
           e == [writer |-> w, number |-> emitted[w]]
<1>1. Shape /\ ShutdownInv /\ OrderInv /\ EmittedInv
  BY DEF Inv
<1>2. /\ pc[w] = "fallback" /\ BroadcastEvent(n, e)
      /\ pc' = [pc EXCEPT ![w] = "idle"]
      /\ UNCHANGED <<wiring, transit, emitted, failed, heard, unheard>>
  BY DEF Fallback
<1>3. e \in AnyEvent /\ e \in failed /\ n \in Nodes /\ e.number = emitted[w] /\ e.writer = w
  BY <1>1, <1>2, WritersHaveHomes DEF AnyEvent, EmittedInv, Shape
<1>4. Ordered(accepted[n], failed) /\ \A d \in ToSet(accepted[n]) : Before(d, e, failed)
  BY <1>1, <1>3 DEF OrderInv, Before
<1>5. /\ accepted' \in [Nodes -> Seq(AnyEvent)]
      /\ \A m \in Nodes \ {n} : accepted'[m] = accepted[m]
      /\ Ordered(accepted'[n], failed)
      /\ ToSet(accepted[n]) \subseteq ToSet(accepted'[n])
      /\ ToSet(accepted'[n]) \subseteq ToSet(accepted[n]) \cup {e}
      /\ missed \subseteq missed'
      /\ e \in ToSet(accepted'[n]) \/ <<e, n>> \in missed'
  BY <1>1, <1>2, <1>3, <1>4, BroadcastEffect
<1> HIDE DEF e
<1>6. \A m \in Nodes, c \in Brokers : Way(m, c)' = Way(m, c)
  BY <1>2 DEF Way, transit
<1>7. Shape'
  BY <1>1, <1>2, <1>5 DEF Shape, wiring, transit
<1>8. ShutdownInv' /\ RouteKept
  BY <1>1, <1>2 DEF ShutdownInv, RouteKept, Route, wiring, Shape, Writers
<1>9. \A m \in Nodes : \A d \in ToSet(accepted'[m]) : d.number <= emitted[d.writer]
  <2> SUFFICES ASSUME NEW m \in Nodes, NEW d \in ToSet(accepted'[m])
               PROVE  d.number <= emitted[d.writer]
    OBVIOUS
  <2>1. CASE d \in ToSet(accepted[m])
    BY <1>1, <2>1 DEF EmittedInv
  <2>2. CASE d = e
    BY <1>1, <1>3, <2>2 DEF Shape
  <2>3. QED
    BY <1>5, <2>1, <2>2
<1>10. ASSUME NEW m \in Nodes, NEW d \in AnyEvent, Settled(d, m)
       PROVE  Settled(d, m)'
  <2>1. CASE d \in ToSet(accepted[m]) \/ <<d, m>> \in missed
    BY <1>5, <2>1 DEF Settled
  <2>2. CASE \E c \in Brokers : d \in Way(m, c)
    BY <1>6, <2>2 DEF Settled
  <2>3. CASE Home[d.writer] = m /\ pc[d.writer] = "fallback"
             /\ d.number = emitted[d.writer]
    <3>1. CASE d.writer = w
      <4>1. d = e /\ m = n
        BY <2>3, <3>1, EventType DEF e
      <4>2. QED
        BY <1>5, <4>1 DEF Settled
    <3>2. CASE d.writer # w
      <4>1. pc'[d.writer] = "fallback"
        BY <1>1, <1>2, <2>3, <3>2, EventType DEF Shape
      <4>2. QED
        BY <1>2, <2>3, <4>1 DEF Settled
    <3>3. QED
      BY <3>1, <3>2
  <2>4. QED
    BY <1>10, <2>1, <2>2, <2>3 DEF Settled
<1>11. \A v \in Writers : pc'[v] = "fallback" => pc[v] = "fallback"
  BY <1>1, <1>2 DEF Shape
<1>12. RouteInv' /\ EmittedInv' /\ ReachInv' /\ UnheardOnlyIf'
  BY <1>2, <1>6, <1>7, <1>8, <1>9, <1>10, <1>11, FlowStep
<1>13. OrderInv'
  <2>1. ASSUME NEW m \in Nodes, NEW c \in Brokers, NEW d \in ToSet(accepted'[m]),
               NEW f \in Way(m, c)'
        PROVE  Before(d, f, failed)
    <3>1. CASE d \in ToSet(accepted[m])
      BY <1>1, <1>6, <2>1, <3>1 DEF OrderInv
    <3>2. CASE d = e
      BY <1>3, <3>2 DEF Before
    <3>3. QED
      BY <1>5, <3>1, <3>2
  <2>2. \A m \in Nodes : Ordered(accepted'[m], failed)
    BY <1>1, <1>5 DEF OrderInv
  <2>3. QED
    BY <1>1, <1>2, <2>1, <2>2 DEF OrderInv, Brokers, transit
<1>14. QED
  BY <1>7, <1>8, <1>12, <1>13 DEF Inv

-----------------------------------------------------------------------------
(* Emitting.                                                                *)

(* What a writer that is at work has emitted before comes before its next   *)
(* event, and by the same way.                                              *)
LEMMA Fresh ==
  ASSUME Inv, NEW w \in Writers, Up(Home[w]), NEW e, e = Event(w)
  PROVE  /\ e \in AnyEvent /\ e.writer = w /\ e.number = emitted[w] + 1
         /\ emitted[w] \in Nat /\ Home[w] \in Nodes
         /\ \A m \in Nodes, d \in AnyEvent :
              d \in ToSet(accepted[m]) => \A bad : Before(d, e, bad)
         /\ \A m \in Nodes, c \in Brokers : \A f \in Way(m, c) :
              (\A bad : Before(f, e, bad)) /\ (f.writer = w => c = Route(Home[w]))
<1>1. Shape /\ EmittedInv /\ RouteInv
  BY DEF Inv
<1>2. /\ e \in AnyEvent /\ e.writer = w /\ e.number = emitted[w] + 1
      /\ emitted[w] \in Nat /\ Home[w] \in Nodes
  <2>1. emitted[w] \in Nat /\ emitted[w] + 1 \in Nat \ {0}
    BY <1>1 DEF Shape
  <2>2. QED
    BY <2>1, WritersHaveHomes DEF Event, AnyEvent
<1>3. ASSUME NEW d \in AnyEvent, d.number <= emitted[d.writer]
      PROVE  \A bad : Before(d, e, bad)
  <2>1. d.number \in Nat
    BY EventType
  <2>2. QED
    BY <1>2, <1>3, <2>1 DEF Before
<1>4. \A m \in Nodes, d \in AnyEvent :
        d \in ToSet(accepted[m]) => \A bad : Before(d, e, bad)
  BY <1>1, <1>3 DEF EmittedInv
<1>5. ASSUME NEW m \in Nodes, NEW c \in Brokers, NEW f \in Way(m, c)
      PROVE  (\A bad : Before(f, e, bad)) /\ (f.writer = w => c = Route(Home[w]))
  <2>1. f \in AnyEvent
    BY <1>1, WayType
  <2>2. \A bad : Before(f, e, bad)
    BY <1>1, <1>3, <2>1 DEF EmittedInv
  <2>3. f.writer = w => c = Route(Home[w])
    BY <1>1 DEF RouteInv, Up
  <2>4. QED
    BY <2>2, <2>3
<1>6. QED
  BY <1>2, <1>4, <1>5

(* A step by which w emits e, which goes into the channel of a hub or into  *)
(* the inboxes of one broker, as its server is connected.                   *)
Emits(w, e) ==
  /\ pc[w] = "idle" /\ Up(Home[w]) /\ UNCHANGED <<wiring, hand>>
  /\ emitted' = [emitted EXCEPT ![w] = @ + 1]
  /\ \A v \in Writers \ {w} : pc'[v] = pc[v]
  /\ pc'[w] = "fallback" => e \in failed'
  /\ failed \subseteq failed' /\ unheard \subseteq unheard'
  /\ missed \subseteq missed'
  /\ \A m \in Nodes :
       /\ Ordered(accepted'[m], failed')
       /\ ToSet(accepted[m]) \subseteq ToSet(accepted'[m])
       /\ \A d \in ToSet(accepted'[m]) :
            d \in ToSet(accepted[m]) \/ (d = e /\ Route(Home[w]) = "hub")
  /\ \A m \in Nodes, c \in Brokers :
       /\ Ordered(inbox'[m][c], failed')
       /\ ToSet(inbox[m][c]) \subseteq ToSet(inbox'[m][c])
       /\ \A f \in ToSet(inbox'[m][c]) :
            f \in ToSet(inbox[m][c]) \/ (f = e /\ Route(Home[w]) = c)
  /\ \A p \in heard' : p \in heard \/ (p[1] = e /\ Settled(e, p[2])')
  /\ e \in Unheard' \/ Settled(e, Home[w])'

LEMMA EmitStep ==
  ASSUME Inv, Shape', UnheardOnlyIf', NEW w \in Writers, NEW e, e = Event(w),
         Emits(w, e)
  PROVE  Inv'
<1> USE DEF Emits
<1>1. /\ Shape /\ ShutdownInv /\ RouteInv /\ EmittedInv /\ OrderInv /\ ReachInv
      /\ UnheardOnlyIf
  BY DEF Inv
<1>2. /\ e \in AnyEvent /\ e.writer = w /\ e.number = emitted[w] + 1
      /\ emitted[w] \in Nat /\ Home[w] \in Nodes
      /\ \A m \in Nodes, d \in AnyEvent :
           d \in ToSet(accepted[m]) => \A bad : Before(d, e, bad)
      /\ \A m \in Nodes, c \in Brokers : \A f \in Way(m, c) :
           (\A bad : Before(f, e, bad)) /\ (f.writer = w => c = Route(Home[w]))
  BY Fresh
<1>3. /\ emitted'[w] = emitted[w] + 1
      /\ \A v \in Writers \ {w} : emitted'[v] = emitted[v]
      /\ \A v \in Writers : emitted[v] \in Nat /\ emitted'[v] \in Nat
                             /\ emitted[v] <= emitted'[v]
  BY <1>1 DEF Shape
<1>4. \A n \in Nodes : main'[n] = main[n] /\ Route(n)' = Route(n)
  BY DEF wiring, Route
<1>5. \A m \in Nodes, c \in Brokers :
        /\ Way(m, c) \subseteq Way(m, c)'
        /\ \A f \in Way(m, c)' : f \in Way(m, c) \/ (f = e /\ Route(Home[w]) = c)
  BY DEF Way
<1>6. \A d \in AnyEvent : d.number <= emitted[d.writer] => d.number <= emitted'[d.writer]
  <2> TAKE d \in AnyEvent
  <2>1. d.number \in Nat /\ d.writer \in Writers
    BY EventType
  <2>2. QED
    BY <1>3, <2>1
<1>7. ShutdownInv'
  <2>1. \A v \in Feeders : main'[Home[v]] \notin Feeding => pc'[v] = "ended"
    BY <1>1, <1>4, WritersHaveHomes DEF ShutdownInv, Writers
  <2>2. \A v \in Writers : main'[Home[v]] \in Starting => emitted'[v] = 0
    <3> TAKE v \in Writers
    <3>1. Home[v] \in Nodes
      BY WritersHaveHomes
    <3>2. CASE v = w
      BY <1>4, <3>1, <3>2 DEF Up, Starting
    <3>3. CASE v # w
      BY <1>1, <1>3, <1>4, <3>1, <3>3 DEF ShutdownInv
    <3>4. QED
      BY <3>2, <3>3
  <2>3. QED
    BY <1>1, <2>1, <2>2 DEF ShutdownInv, wiring
<1>8. RouteInv'
  <2>1. ASSUME NEW m \in Nodes, NEW b \in Brokers, NEW d \in Way(m, b)',
               main'[Home[d.writer]] # "ended"
        PROVE  Route(Home[d.writer])' = b
    <3>1. CASE d \in Way(m, b)
      <4>1. Home[d.writer] \in Nodes
        BY <1>1, <3>1, WayType, EventType
      <4>2. QED
        BY <1>1, <1>4, <2>1, <3>1, <4>1 DEF RouteInv
    <3>2. CASE d = e /\ Route(Home[w]) = b
      BY <1>2, <1>4, <3>2
    <3>3. QED
      BY <1>5, <3>1, <3>2
  <2>2. ASSUME NEW m \in Nodes, NEW b \in Brokers, NEW c \in Brokers,
               NEW d \in Way(m, b)', NEW f \in Way(m, c)', d.writer = f.writer
        PROVE  b = c
    <3>1. CASE d \in Way(m, b) /\ f \in Way(m, c)
      BY <1>1, <2>2, <3>1 DEF RouteInv
    <3>2. CASE d = e /\ Route(Home[w]) = b
      BY <1>2, <1>5, <2>2, <3>2
    <3>3. CASE f = e /\ Route(Home[w]) = c
      BY <1>2, <1>5, <2>2, <3>3
    <3>4. QED
      BY <1>5, <3>1, <3>2, <3>3
  <2>3. QED
    BY <2>1, <2>2 DEF RouteInv, Brokers
<1>9. EmittedInv'
  <2>1. e.number <= emitted'[e.writer]
    BY <1>2, <1>3
  <2>2. \A m \in Nodes : \A d \in ToSet(accepted'[m]) : d.number <= emitted'[d.writer]
    <3> TAKE m \in Nodes
    <3>1. ToSet(accepted[m]) \subseteq AnyEvent
      BY <1>1, ToSetType DEF Shape
    <3>2. QED
      BY <1>1, <1>6, <2>1, <3>1 DEF EmittedInv
  <2>3. \A m \in Nodes, b \in Brokers : \A d \in Way(m, b)' :
          d.number <= emitted'[d.writer]
    <3> TAKE m \in Nodes, b \in Brokers
    <3>1. Way(m, b) \subseteq AnyEvent
      BY <1>1, WayType
    <3>2. QED
      BY <1>1, <1>5, <1>6, <2>1, <3>1 DEF EmittedInv
  <2>4. ASSUME NEW v \in Writers, pc'[v] = "fallback"
        PROVE  emitted'[v] # 0 /\ [writer |-> v, number |-> emitted'[v]] \in failed'
    <3>1. CASE v = w
      <4>1. e = [writer |-> v, number |-> emitted'[v]] /\ emitted'[v] # 0
        BY <1>2, <1>3, <3>1 DEF Event
      <4>2. QED
        BY <2>4, <3>1, <4>1
    <3>2. CASE v # w
      BY <1>1, <1>3, <2>4, <3>2 DEF EmittedInv
    <3>3. QED
      BY <3>1, <3>2
  <2>5. QED
    BY <2>2, <2>3, <2>4 DEF EmittedInv, Brokers
<1>10. \A d, f : Before(d, f, failed) => Before(d, f, failed')
  BY DEF Before
<1>11. OrderInv'
  <2>1. ASSUME NEW m \in Nodes, NEW c \in Brokers, NEW d \in ToSet(accepted'[m]),
               NEW f \in Way(m, c)'
        PROVE  Before(d, f, failed')
    <3>1. CASE d \in ToSet(accepted[m]) /\ f \in Way(m, c)
      BY <1>1, <1>10, <3>1 DEF OrderInv
    <3>2. CASE d \in ToSet(accepted[m]) /\ f = e
      <4>1. d \in AnyEvent
        BY <1>1, <3>2, ToSetType DEF Shape
      <4>2. QED
        BY <1>2, <3>2, <4>1
    <3>3. CASE d = e /\ Route(Home[w]) = "hub"
      <4>1. c # "hub"
        BY DEF Brokers
      <4>2. f \in Way(m, c) /\ f.writer # w
        BY <1>2, <1>5, <3>3, <4>1
      <4>3. QED
        BY <1>2, <3>3, <4>2 DEF Before
    <3>4. QED
      BY <1>5, <3>1, <3>2, <3>3
  <2>2. ASSUME NEW m \in Nodes, NEW c \in Brokers, hand'[m][c] # Nil,
               NEW f \in ToSet(inbox'[m][c])
        PROVE  Before(hand'[m][c], f, failed')
    <3>1. hand'[m][c] = hand[m][c] /\ hand[m][c] \in Way(m, c)
      BY <1>1, <2>2, WayType
    <3>2. CASE f \in ToSet(inbox[m][c])
      BY <1>1, <1>10, <2>2, <3>1, <3>2 DEF OrderInv
    <3>3. CASE f = e
      BY <1>2, <3>1, <3>3
    <3>4. QED
      BY <2>2, <3>2, <3>3
  <2>3. QED
    BY <2>1, <2>2 DEF OrderInv, Brokers
<1>12. ASSUME NEW m, NEW d \in AnyEvent, Settled(d, m), m \in Nodes
       PROVE  Settled(d, m)'
  <2>1. CASE d \in ToSet(accepted[m]) \/ <<d, m>> \in missed
    BY <1>12, <2>1 DEF Settled
  <2>2. CASE \E c \in Brokers : d \in Way(m, c)
    BY <1>5, <1>12, <2>2 DEF Settled
  <2>3. CASE Home[d.writer] = m /\ pc[d.writer] = "fallback"
             /\ d.number = emitted[d.writer]
    <3>1. d.writer \in Writers \ {w}
      BY <2>3, EventType
    <3>2. QED
      BY <1>3, <2>3, <3>1 DEF Settled
  <2>4. QED
    BY <1>12, <2>1, <2>2, <2>3 DEF Settled
<1>13. ReachInv'
  <2>1. ASSUME NEW p \in heard'
        PROVE  Settled(p[1], p[2])'
    <3>1. CASE p \in heard
      <4>1. p[1] \in AnyEvent /\ p[2] \in Nodes /\ Settled(p[1], p[2])
        BY <1>1, <3>1 DEF Shape, ReachInv
      <4>2. QED
        BY <1>12, <4>1
    <3>2. QED
      BY <3>1
  <2>2. ASSUME NEW d \in AnyEvent, d.number <= emitted'[d.writer], d \notin Unheard'
        PROVE  Settled(d, Home[d.writer])'
    <3>1. d.writer \in Writers /\ d.number \in Nat /\ Home[d.writer] \in Nodes
          /\ d = [writer |-> d.writer, number |-> d.number]
      BY EventType
    <3>2. CASE d = e
      BY <1>2, <2>2, <3>2
    <3>3. CASE d # e
      <4>1. d.number <= emitted[d.writer]
        <5>1. CASE d.writer = w
          <6>1. d.number # emitted[w] + 1
            BY <3>1, <3>3, <5>1 DEF Event
          <6>2. QED
            BY <1>2, <1>3, <2>2, <3>1, <5>1, <6>1
        <5>2. CASE d.writer # w
          BY <1>3, <2>2, <3>1, <5>2
        <5>3. QED
          BY <5>1, <5>2
      <4>2. d \notin Unheard
        BY <2>2 DEF Unheard
      <4>3. Settled(d, Home[d.writer])
        BY <1>1, <4>1, <4>2 DEF ReachInv
      <4>4. QED
        BY <1>12, <3>1, <4>3
    <3>4. QED
      BY <3>2, <3>3
  <2>3. QED
    BY <2>1, <2>2 DEF ReachInv, AnyEvent, Writers
<1>14. QED
  BY <1>7, <1>8, <1>9, <1>11, <1>13 DEF Inv

LEMMA BroadcastKeeps ==
  ASSUME Inv, NEW w \in Writers, Broadcast(w)
  PROVE  Inv'
<1> DEFINE n == Home[w]
<1>0. PICK e : e = Event(w)
  OBVIOUS
<1>1. Shape /\ OrderInv /\ UnheardOnlyIf
  BY DEF Inv
<1>2. /\ Up(n) /\ pc[w] = "idle" /\ Route(n) = "hub" /\ BroadcastEvent(n, e)
      /\ emitted' = [emitted EXCEPT ![w] = @ + 1]
      /\ UNCHANGED <<wiring, transit, pc, failed, heard, unheard>>
  BY <1>0 DEF Broadcast, MayEmit
<1>3. /\ e \in AnyEvent /\ n \in Nodes /\ emitted[w] \in Nat
      /\ \A m \in Nodes, d \in AnyEvent :
           d \in ToSet(accepted[m]) => \A bad : Before(d, e, bad)
  BY <1>0, <1>2, Fresh
<1>4. Ordered(accepted[n], failed) /\ \A d \in ToSet(accepted[n]) : Before(d, e, failed)
  <2>1. ToSet(accepted[n]) \subseteq AnyEvent
    BY <1>1, <1>3, ToSetType DEF Shape
  <2>2. QED
    BY <1>1, <1>3, <2>1 DEF OrderInv
<1>5. /\ accepted' \in [Nodes -> Seq(AnyEvent)]
      /\ \A m \in Nodes \ {n} : accepted'[m] = accepted[m]
      /\ Ordered(accepted'[n], failed)
      /\ ToSet(accepted[n]) \subseteq ToSet(accepted'[n])
      /\ ToSet(accepted'[n]) \subseteq ToSet(accepted[n]) \cup {e}
      /\ missed \subseteq missed'
      /\ e \in ToSet(accepted'[n]) \/ <<e, n>> \in missed'
  BY <1>1, <1>2, <1>3, <1>4, BroadcastEffect
<1>6. Shape'
  BY <1>1, <1>2, <1>3, <1>5 DEF Shape, wiring, transit
<1>7. UnheardOnlyIf'
  BY <1>1, <1>2 DEF UnheardOnlyIf
<1>8. Settled(e, n)'
  BY <1>5 DEF Settled
<1>9. \A m \in Nodes :
        /\ Ordered(accepted'[m], failed')
        /\ ToSet(accepted[m]) \subseteq ToSet(accepted'[m])
        /\ \A d \in ToSet(accepted'[m]) :
             d \in ToSet(accepted[m]) \/ (d = e /\ Route(n) = "hub")
  BY <1>1, <1>2, <1>5 DEF OrderInv
<1>10. \A m \in Nodes, c \in Brokers :
         /\ Ordered(inbox'[m][c], failed')
         /\ ToSet(inbox[m][c]) \subseteq ToSet(inbox'[m][c])
         /\ \A f \in ToSet(inbox'[m][c]) :
              f \in ToSet(inbox[m][c]) \/ (f = e /\ Route(n) = c)
  BY <1>1, <1>2 DEF OrderInv, transit
<1>11. pc'[w] = "fallback" => e \in failed'
  BY <1>2
<1>12. /\ UNCHANGED <<wiring, hand>>
       /\ \A v \in Writers \ {w} : pc'[v] = pc[v]
       /\ failed \subseteq failed' /\ unheard \subseteq unheard'
       /\ \A p \in heard' : p \in heard
  BY <1>2 DEF transit
<1>13. /\ pc[w] = "idle" /\ Up(n) /\ missed \subseteq missed'
       /\ emitted' = [emitted EXCEPT ![w] = @ + 1]
  BY <1>2, <1>5
<1>14. Emits(w, e)
  BY <1>8, <1>9, <1>10, <1>11, <1>12, <1>13 DEF Emits
<1>15. QED
  BY <1>0, <1>6, <1>7, <1>14, EmitStep

LEMMA PublishKeeps ==
  ASSUME Inv, NEW w \in Writers, Publish(w)
  PROVE  Inv'
<1> DEFINE n == Home[w]
<1>0. PICK e, b : e = Event(w) /\ b = Route(n)
  OBVIOUS
<1>1. Shape /\ ShutdownInv /\ OrderInv /\ UnheardOnlyIf
  BY DEF Inv
<1>2. /\ Up(n) /\ pc[w] = "idle" /\ b \in Brokers /\ link[n][b] # "none"
      /\ emitted' = [emitted EXCEPT ![w] = @ + 1]
      /\ UNCHANGED <<wiring, hand, accepted>>
  BY <1>0 DEF Publish, MayEmit, Route, Brokers
<1> DEFINE Effect(o, f, c) ==
        LET reached == IF o.copies = 0 THEN {} ELSE Subscribed(c)
        IN  /\ inbox' = [m \in Nodes |->
                 IF m \in reached \ o.lost
                 THEN [inbox[m] EXCEPT ![c] = @ \o [i \in 1 .. o.copies |-> f]]
                 ELSE inbox[m]]
            /\ pc' = [pc EXCEPT ![w] = AfterPublish(o.ok)]
            /\ failed' = IF o.ok /\ o.copies = 1 THEN failed
                         ELSE failed \cup {f}
            /\ heard' = heard \cup ({f} \X reached)
            /\ missed' = missed \cup ({f} \X (reached \cap o.lost))
            /\ unheard' = IF o.ok /\ n \notin Subscribed(c)
                          THEN unheard \cup {[event |-> f, link |-> link[n][c]]}
                          ELSE unheard
<1>3. \E o \in Outcomes(n, Route(n)) : Effect(o, Event(w), Route(n))
  BY DEF Publish
<1>4. PICK o \in Outcomes(n, Route(n)) : Effect(o, Event(w), Route(n))
  BY <1>3
<1> DEFINE reached == IF o.copies = 0 THEN {} ELSE Subscribed(b)
<1>5. inbox' = [m \in Nodes |->
        IF m \in reached \ o.lost
        THEN [inbox[m] EXCEPT ![b] = @ \o [i \in 1 .. o.copies |-> e]]
        ELSE inbox[m]]
  BY <1>0, <1>4
<1>6. /\ pc' = [pc EXCEPT ![w] = AfterPublish(o.ok)]
      /\ failed' = IF o.ok /\ o.copies = 1 THEN failed ELSE failed \cup {e}
  BY <1>0, <1>4
<1>7. /\ heard' = heard \cup ({e} \X reached)
      /\ missed' = missed \cup ({e} \X (reached \cap o.lost))
  BY <1>0, <1>4
<1>8. unheard' = IF o.ok /\ n \notin Subscribed(b)
                 THEN unheard \cup {[event |-> e, link |-> link[n][b]]}
                 ELSE unheard
  BY <1>0, <1>4
<1>9. o \in Outcomes(n, b)
  BY <1>0
<1> HIDE DEF Effect
<1>10. /\ o.copies \in 0 .. 2 /\ o.ok \in BOOLEAN /\ (o.ok => o.copies > 0)
       /\ link[n][b] = "closed" => ~o.ok
  <2>1. CASE o = Refused
    BY <2>1 DEF Refused
  <2>2. CASE o = Fine /\ link[n][b] # "closed"
    BY <2>2 DEF Fine
  <2>3. CASE o \in Outcome /\ Possible(b, o) /\ link[n][b] # "closed"
    BY <2>3 DEF Outcome, Possible
  <2>4. QED
    BY <1>9, <2>1, <2>2, <2>3 DEF Outcomes
<1>11. reached \subseteq Nodes /\ \A m \in reached : o.copies > 0
  BY <1>10 DEF Subscribed
<1>12. /\ pc'[w] = AfterPublish(o.ok) /\ \A v \in Writers \ {w} : pc'[v] = pc[v]
       /\ pc' \in [Writers -> {"idle", "fallback", "ended"}]
       /\ failed \subseteq failed' /\ unheard \subseteq unheard'
       /\ missed \subseteq missed'
       /\ ~o.ok \/ o.copies > 1 => e \in failed'
  BY <1>1, <1>6, <1>7, <1>8, <1>10 DEF Shape, AfterPublish
<1>13. /\ e \in AnyEvent /\ e.writer = w /\ e.number = emitted[w] + 1
       /\ n \in Nodes /\ emitted[w] \in Nat
       /\ \A m \in Nodes, c \in Brokers : \A f \in Way(m, c) : \A bad : Before(f, e, bad)
  BY <1>0, <1>2, Fresh
<1>14. ASSUME NEW m \in Nodes, NEW c \in Brokers
       PROVE  /\ inbox'[m][c] \in Seq(AnyEvent)
              /\ Ordered(inbox'[m][c], failed')
              /\ ToSet(inbox[m][c]) \subseteq ToSet(inbox'[m][c])
              /\ \A f \in ToSet(inbox'[m][c]) :
                   f \in ToSet(inbox[m][c]) \/ (f = e /\ b = c)
              /\ m \in reached \ o.lost /\ c = b => e \in ToSet(inbox'[m][c])
  <2> DEFINE s == inbox[m][c]
  <2>1. s \in Seq(AnyEvent) /\ Ordered(s, failed')
    BY <1>1, <1>12 DEF Shape, OrderInv, Ordered, Before
  <2>2. CASE m \in reached \ o.lost /\ c = b
    <3>1. inbox'[m] = [inbox[m] EXCEPT ![b] = inbox[m][b] \o [i \in 1 .. o.copies |-> e]]
      BY <1>5, <2>2
    <3>2. DOMAIN inbox[m] = Brokers
      BY <1>1 DEF Shape
    <3>3. inbox'[m][c] = s \o [i \in 1 .. o.copies |-> e]
      BY <2>2, <3>1, <3>2
    <3>4. \A d \in ToSet(s) : Before(d, e, failed')
      BY <1>1, <1>13, WayType
    <3>5. o.copies > 1 => e \in failed'
      BY <1>12
    <3> HIDE DEF s
    <3>6. LET t == s \o [i \in 1 .. o.copies |-> e]
          IN  /\ t \in Seq(AnyEvent)
              /\ ToSet(t) = ToSet(s) \cup (IF o.copies = 0 THEN {} ELSE {e})
              /\ Ordered(t, failed')
      BY <1>10, <1>13, <2>1, <3>4, <3>5, CopiesAdded
    <3>7. o.copies # 0
      BY <1>10, <1>11, <2>2
    <3>8. QED
      BY <2>2, <3>3, <3>6, <3>7 DEF s
  <2>3. CASE ~(m \in reached \ o.lost /\ c = b)
    <3>1. inbox'[m][c] = s
      BY <1>1, <1>5, <2>3 DEF Shape
    <3>2. QED
      BY <2>1, <2>3, <3>1
  <2>4. QED
    BY <2>2, <2>3
<1>15. Shape'
  <2>1. inbox' \in [Nodes -> [Brokers -> Seq(AnyEvent)]]
    <3> DEFINE S == Seq(AnyEvent)
    <3>1. \A m \in Nodes, c \in Brokers : inbox'[m][c] \in S
      BY <1>14
    <3>2. \A m \in Nodes : inbox[m] \in [Brokers -> S]
      BY <1>1 DEF Shape
    <3> HIDE DEF S
    <3>3. \A m \in Nodes : inbox'[m] \in [Brokers -> S]
      <4> TAKE m \in Nodes
      <4>1. inbox'[m] = [c \in Brokers |-> inbox'[m][c]]
        <5>1. inbox[m] = [c \in Brokers |-> inbox[m][c]]
          BY <3>2
        <5>2. inbox'[m] = inbox[m] \/ inbox'[m] =
                [inbox[m] EXCEPT ![b] = inbox[m][b] \o [i \in 1 .. o.copies |-> e]]
          BY <1>5
        <5>3. QED
          BY <5>1, <5>2
      <4>2. QED
        BY <3>1, <4>1
    <3>4. inbox' \in [Nodes -> [Brokers -> S]]
      BY <1>5, <3>3
    <3>5. QED
      BY <3>4 DEF S
  <2>2. heard' \subseteq AnyEvent \X Nodes
    BY <1>1, <1>7, <1>11, <1>13 DEF Shape
  <2>3. emitted' \in [Writers -> Nat]
    BY <1>1, <1>2 DEF Shape
  <2>4. QED
    BY <1>1, <1>2, <1>12, <2>1, <2>2, <2>3 DEF Shape, wiring
<1>16. UnheardOnlyIf'
  <2> SUFFICES ASSUME NEW u \in unheard'
               PROVE  u.link = "deaf" \/ u.event.writer \in Requests
    BY DEF UnheardOnlyIf
  <2>1. CASE u \in unheard
    BY <1>1, <2>1 DEF UnheardOnlyIf
  <2>2. CASE u \notin unheard
    <3>1. o.ok /\ n \notin Subscribed(b) /\ u = [event |-> e, link |-> link[n][b]]
      BY <1>8, <2>2
    <3>2. link[n][b] # "listening" /\ u.link = link[n][b] /\ u.event.writer = w
      BY <1>13, <3>1 DEF Subscribed
    <3>3. CASE w \in Feeders
      <4>1. main[n] \in Feeding
        BY <1>1, <1>2, <3>3 DEF ShutdownInv
      <4>2. link[n][b] \in Connections
        BY <1>1, <1>2, <1>13, <4>1 DEF ShutdownInv
      <4>3. QED
        BY <1>2, <3>2, <4>2 DEF Connections
    <3>4. CASE w \in Requests
      BY <3>2, <3>4
    <3>5. QED
      BY <3>3, <3>4 DEF Writers
  <2>3. QED
    BY <2>1, <2>2
<1>17. \A m \in reached : Settled(e, m)'
  <2> TAKE m \in reached
  <2>1. CASE m \in o.lost
    BY <1>7, <2>1 DEF Settled
  <2>2. CASE m \notin o.lost
    <3>1. e \in ToSet(inbox'[m][b])
      BY <1>2, <1>11, <1>14, <2>2
    <3>2. e \in Way(m, b)'
      BY <3>1 DEF Way
    <3>3. QED
      BY <1>2, <3>2 DEF Settled
  <2>3. QED
    BY <2>1, <2>2
<1>18. e \in Unheard' \/ Settled(e, n)'
  <2>1. CASE ~o.ok
    <3>1. pc'[w] = "fallback" /\ e.number = emitted'[w]
      BY <1>1, <1>2, <1>12, <1>13, <2>1 DEF AfterPublish, Shape
    <3>2. QED
      BY <1>13, <3>1 DEF Settled
  <2>2. CASE o.ok /\ n \in Subscribed(b)
    <3>1. n \in reached
      BY <1>10, <2>2
    <3>2. QED
      BY <1>17, <3>1
  <2>3. CASE o.ok /\ n \notin Subscribed(b)
    <3>1. [event |-> e, link |-> link[n][b]] \in unheard'
      BY <1>8, <2>3
    <3>2. QED
      BY <3>1 DEF Unheard
  <2>4. QED
    BY <2>1, <2>2, <2>3
<1>19. \A p \in heard' : p \in heard \/ (p[1] = e /\ Settled(e, p[2])')
  BY <1>7, <1>17
<1>20. pc'[w] = "fallback" => e \in failed'
  BY <1>10, <1>12 DEF AfterPublish
<1>21. \A m \in Nodes :
         /\ Ordered(accepted'[m], failed')
         /\ ToSet(accepted[m]) \subseteq ToSet(accepted'[m])
         /\ \A d \in ToSet(accepted'[m]) :
              d \in ToSet(accepted[m]) \/ (d = e /\ b = "hub")
  BY <1>1, <1>2, <1>12 DEF OrderInv, Ordered, Before
<1>22. UNCHANGED <<wiring, hand>>
  BY <1>2
<1>23. \A m \in Nodes, c \in Brokers :
         /\ Ordered(inbox'[m][c], failed')
         /\ ToSet(inbox[m][c]) \subseteq ToSet(inbox'[m][c])
         /\ \A f \in ToSet(inbox'[m][c]) :
              f \in ToSet(inbox[m][c]) \/ (f = e /\ b = c)
  BY <1>14
<1>24. /\ pc[w] = "idle" /\ Up(n) /\ b = Route(n)
       /\ emitted' = [emitted EXCEPT ![w] = @ + 1]
       /\ \A v \in Writers \ {w} : pc'[v] = pc[v]
       /\ failed \subseteq failed' /\ unheard \subseteq unheard'
       /\ missed \subseteq missed'
  BY <1>0, <1>2, <1>12
<1>25. Emits(w, e)
  BY <1>18, <1>19, <1>20, <1>21, <1>22, <1>23, <1>24 DEF Emits
<1>26. QED
  BY <1>0, <1>15, <1>16, <1>25, EmitStep

-----------------------------------------------------------------------------
(* The theorems.                                                            *)

LEMMA NextKeeps == Inv /\ [Next]_vars => Inv'
<1> SUFFICES ASSUME Inv, [Next]_vars PROVE Inv'
  OBVIOUS
<1>1. ASSUME NEW n \in Nodes, ConnectRedis(n) \/ ConnectNats(n)
      PROVE  Inv'
  BY <1>1, ConnectKeeps
<1>2. ASSUME NEW n \in Nodes, Listen(n)
      PROVE  Inv'
  BY <1>2, TakeKeeps, DeliverKeeps DEF Listen
<1>3. ASSUME NEW n \in Nodes, EndListen(n)
      PROVE  Inv'
  BY <1>3, EndListenKeeps
<1>4. ASSUME NEW n \in Nodes, Signal(n) \/ Close(n) \/ EndDrain(n)
      PROVE  Inv'
  BY <1>4, StopKeeps, UnsubscribeKeeps, ExitKeeps DEF Close
<1>5. ASSUME NEW n \in Nodes, ShutdownTimesOut(n)
      PROVE  Inv'
  BY <1>5, ExitKeeps
<1>6. ASSUME NEW w \in Writers, Publish(w) \/ Fallback(w) \/ Broadcast(w)
      PROVE  Inv'
  BY <1>6, PublishKeeps, FallbackKeeps, BroadcastKeeps
<1>7. ASSUME NEW w \in Feeders, EndFeeding(w)
      PROVE  Inv'
  BY <1>7, EndFeedingKeeps
<1>8. CASE UNCHANGED vars
  <2>1. Shape /\ ShutdownInv
    BY DEF Inv
  <2>2. UNCHANGED <<main, link, listener, inbox, hand, pc, emitted, accepted, faults,
                    failed, heard, missed, unheard>>
    BY <1>8 DEF vars, wiring, transit, writing, history
  <2>3. Shape' /\ ShutdownInv' /\ RouteKept
    BY <2>1, <2>2 DEF Shape, ShutdownInv, RouteKept, Route
  <2>4. QED
    BY <2>2, <2>3, QuietStep
<1>9. QED
  BY <1>1, <1>2, <1>3, <1>4, <1>5, <1>6, <1>7, <1>8 DEF Next

(* Everything the theorems rest on, in every state: the events of a         *)
(* goroutine keep their order on the whole way from onEvent through one     *)
(* broker and one listener to the channel of a hub.                         *)
THEOREM Invariance == Spec => []Inv
<1>1. Init => Inv
  BY InitInv
<1>2. Inv /\ [Next]_vars => Inv'
  BY NextKeeps
<1>3. QED
  BY <1>1, <1>2, PTL DEF Spec

(* Every hub gets the events of a goroutine in the order in which it called *)
(* onEvent and each once, but for those whose publication failed or was     *)
(* repeated.                                                                *)
THEOREM HubsSeeOrder == Spec => []EventsInOrder
<1>1. Inv => EventsInOrder
  BY DEF Inv, OrderInv, Ordered, Before, EventsInOrder
<1>2. QED
  BY <1>1, Invariance, PTL

(* An event reaches the hubs of the servers that were subscribed when it    *)
(* was published, and the hub of its own server, or is on its way there, or *)
(* has been lost to a fault, a full channel or the end of a listener.       *)
THEOREM EventsArrive == Spec => []EventsReachHubs
<1>1. ASSUME NEW e \in AnyEvent, NEW m \in Nodes, Settled(e, m)
      PROVE  e \in ToSet(accepted[m]) \/ <<e, m>> \in missed \/ OnItsWay(e, m)
  BY <1>1 DEF Settled, Way, OnItsWay
<1>2. ASSUME Inv, NEW p \in heard
      PROVE  p[1] \in ToSet(accepted[p[2]]) \/ p \in missed \/ OnItsWay(p[1], p[2])
  <2>1. p[1] \in AnyEvent /\ p[2] \in Nodes /\ p = <<p[1], p[2]>>
        /\ Settled(p[1], p[2])
    BY <1>2 DEF Inv, Shape, ReachInv
  <2>2. p[1] \in ToSet(accepted[p[2]]) \/ <<p[1], p[2]>> \in missed
        \/ OnItsWay(p[1], p[2])
    BY <1>1, <2>1
  <2>3. QED
    BY <2>1, <2>2
<1>3. ASSUME Inv, NEW e \in Emitted \ Unheard
      PROVE  LET n == Home[e.writer]
             IN  e \in ToSet(accepted[n]) \/ <<e, n>> \in missed \/ OnItsWay(e, n)
  <2>1. e \in AnyEvent /\ e.number <= emitted[e.writer] /\ e \notin Unheard
    BY Bounds DEF Emitted, Events, AnyEvent
  <2>2. Home[e.writer] \in Nodes /\ Settled(e, Home[e.writer])
    BY <1>3, <2>1, EventType DEF Inv, ReachInv
  <2>3. QED
    BY <1>1, <2>1, <2>2
<1>4. Inv => EventsReachHubs
  BY <1>2, <1>3 DEF EventsReachHubs
<1>5. QED
  BY <1>4, Invariance, PTL

(* main stops the feeder before it closes the brokers, so that no event of  *)
(* the feeder is published by a server that no longer listens; only one     *)
(* whose subscription failed when it started misses its own events.         *)
THEOREM FeederIsHeard == Spec => []UnheardOnlyIf
<1>1. Inv => UnheardOnlyIf
  BY DEF Inv
<1>2. QED
  BY <1>1, Invariance, PTL

-----------------------------------------------------------------------------
(* The shape of the state within its bounds.                                *)

Sent == SumFunctionOnSet(emitted, Writers)

(* What Shape does not say and TypeOK does.  A listener has ended before    *)
(* the process does, and the client it reads from is open while it runs.    *)
BoundInv ==
  /\ listener \in [Nodes -> {"none", "running", "ended"}]
  /\ \A n \in Nodes : listener[n] = "running" =>
       /\ link[n]["redis"] \in {"listening", "silent"}
       /\ main[n] \notin {"http", "ended"}
  /\ Sent <= MaxEvents
  /\ faults \in 0 .. MaxFaults
  /\ failed \subseteq Events
  /\ heard \subseteq Events \X Nodes /\ missed \subseteq Events \X Nodes

(* A writer has emitted no more than all of them. *)
LEMMA EmittedBound ==
  ASSUME emitted \in [Writers -> Nat], Sent <= MaxEvents
  PROVE  emitted \in [Writers -> 0 .. MaxEvents]
<1> SUFFICES ASSUME NEW w \in Writers
             PROVE  emitted[w] <= MaxEvents
  BY Bounds
<1>1. SumFunctionOnSet(emitted, {w}) = emitted[w]
  BY SumOne
<1>2. SumFunctionOnSet(emitted, {w}) <= Sent
  BY FiniteWriters, SumSubset DEF Sent
<1>3. Sent \in Nat
  BY FiniteWriters, SumNat DEF Sent
<1>4. QED
  BY <1>1, <1>2, <1>3, Bounds

LEMMA EmittedBoundNext ==
  ASSUME emitted' \in [Writers -> Nat], Sent' <= MaxEvents
  PROVE  emitted' \in [Writers -> 0 .. MaxEvents]
<1> SUFFICES ASSUME NEW w \in Writers
             PROVE  emitted'[w] <= MaxEvents
  BY Bounds
<1>1. SumFunctionOnSet(emitted', {w}) = emitted'[w]
  BY SumOne
<1>2. SumFunctionOnSet(emitted', {w}) <= Sent'
  BY FiniteWriters, SumSubset DEF Sent
<1>3. Sent' \in Nat
  BY FiniteWriters, SumNat DEF Sent
<1>4. QED
  BY <1>1, <1>2, <1>3, Bounds

(* Whatever is on its way is within the bound. *)
LEMMA WithinBound ==
  ASSUME Inv, BoundInv
  PROVE  /\ \A m \in Nodes : ToSet(accepted[m]) \subseteq Events
         /\ \A m \in Nodes, b \in Brokers :
              /\ ToSet(inbox[m][b]) \subseteq Events
              /\ hand[m][b] \in Events \cup {Nil}
<1>1. Shape /\ EmittedInv
  BY DEF Inv
<1>2. emitted \in [Writers -> 0 .. MaxEvents]
  BY <1>1, EmittedBound DEF Shape, BoundInv
<1>3. ASSUME NEW e \in AnyEvent, e.number <= emitted[e.writer]
      PROVE  e \in Events
  <2>1. e.writer \in Writers /\ e.number \in Nat /\ e.number >= 1
        /\ e = [writer |-> e.writer, number |-> e.number]
    BY EventType
  <2>2. e.number \in 1 .. MaxEvents
    BY <1>2, <1>3, <2>1, Bounds
  <2>3. QED
    BY <2>1, <2>2 DEF Events
<1>4. ASSUME NEW m \in Nodes, NEW b \in Brokers
      PROVE  Way(m, b) \subseteq Events
  BY <1>1, <1>3, WayType DEF EmittedInv
<1>5. ASSUME NEW m \in Nodes
      PROVE  ToSet(accepted[m]) \subseteq Events
  <2>1. ToSet(accepted[m]) \subseteq AnyEvent
    BY <1>1, WayType DEF Brokers
  <2>2. QED
    BY <1>1, <1>3, <2>1 DEF EmittedInv
<1>6. QED
  BY <1>1, <1>4, <1>5, WayType

LEMMA BoundInit == Init => BoundInv
<1> SUFFICES ASSUME Init PROVE BoundInv
  OBVIOUS
<1>1. Sent = 0
  <2> DEFINE zero == [w \in Writers |-> 0]
  <2>1. SumFunctionOnSet(zero, Writers) \in Nat
    BY FiniteWriters, SumNat
  <2>2. emitted = zero /\ \A w \in Writers : zero[w] = 0
    BY DEF Init
  <2>3. QED
    BY <2>2, FiniteWriters, SumZero DEF Sent
<1>2. QED
  BY <1>1, Bounds DEF Init, BoundInv

(* A step that emits nothing new. *)
LEMMA BoundQuiet ==
  ASSUME BoundInv, UNCHANGED <<emitted, failed, heard>>,
         listener' \in [Nodes -> {"none", "running", "ended"}],
         \A n \in Nodes : listener'[n] = "running" =>
           /\ link'[n]["redis"] \in {"listening", "silent"}
           /\ main'[n] \notin {"http", "ended"},
         faults' \in 0 .. MaxFaults,
         missed' \subseteq Events \X Nodes
  PROVE  BoundInv'
BY DEF BoundInv, Sent

(* What the hub's full channel may change. *)
LEMMA BoundBroadcast ==
  ASSUME BoundInv, NEW n \in Nodes, NEW e \in Events, BroadcastEvent(n, e)
  PROVE  faults' \in 0 .. MaxFaults /\ missed' \subseteq Events \X Nodes
BY Bounds DEF BoundInv, BroadcastEvent, Spare

LEMMA BoundServer ==
  ASSUME Inv, BoundInv, NEW n \in Nodes,
         ConnectRedis(n) \/ ConnectNats(n) \/ Signal(n) \/ Close(n)
           \/ EndDrain(n) \/ EndListen(n) \/ ShutdownTimesOut(n)
  PROVE  BoundInv'
<1>1. /\ main \in [Nodes -> Mains]
      /\ link \in [Nodes -> [Brokers -> Connections \cup {"silent", "closed"}]]
      /\ listener \in [Nodes -> {"none", "running", "ended"}]
      /\ faults \in 0 .. MaxFaults /\ missed \subseteq Events \X Nodes
      /\ "redis" \in Brokers /\ "nats" \in Brokers
  BY DEF Inv, Shape, BoundInv, Brokers
<1>2. \A m \in Nodes : listener[m] = "running" =>
        /\ link[m]["redis"] \in {"listening", "silent"}
        /\ main[m] \notin {"http", "ended"}
  BY DEF BoundInv
<1>3. \A b \in Brokers : Waiting(n, b) \subseteq Events \X Nodes
  BY WithinBound DEF Waiting
<1>4. CASE ConnectRedis(n)
  <2>1. PICK c \in Connections :
          /\ link' = [link EXCEPT ![n]["redis"] = c]
          /\ listener' = [listener EXCEPT ![n] =
                            IF c = "listening" THEN "running" ELSE "none"]
    BY <1>4 DEF ConnectRedis
  <2>2. \A m \in Nodes : listener'[m] = "running" =>
          /\ link'[m]["redis"] \in {"listening", "silent"}
          /\ main'[m] \notin {"http", "ended"}
    BY <1>1, <1>2, <1>4, <2>1 DEF ConnectRedis
  <2>3. QED
    BY <1>1, <1>4, <2>1, <2>2, BoundQuiet DEF ConnectRedis, writing, history
<1>5. CASE ConnectNats(n)
  <2>1. PICK c \in Connections : link' = [link EXCEPT ![n]["nats"] = c]
    BY <1>5 DEF ConnectNats
  <2>2. \A m \in Nodes : link'[m]["redis"] = link[m]["redis"]
    BY <1>1, <2>1
  <2>3. QED
    BY <1>1, <1>2, <1>5, <2>2, BoundQuiet DEF ConnectNats, writing, history
<1>6. CASE Signal(n) \/ StopFeeder(n)
  BY <1>1, <1>2, <1>6, BoundQuiet DEF Signal, StopFeeder, writing, history
<1>7. CASE UnsubscribeNats(n)
  <2>1. \A m \in Nodes : link'[m]["redis"] = link[m]["redis"]
    BY <1>1, <1>7 DEF UnsubscribeNats
  <2>2. missed' \subseteq Events \X Nodes
    BY <1>1, <1>3, <1>7 DEF UnsubscribeNats
  <2>3. QED
    BY <1>1, <1>2, <1>7, <2>1, <2>2, BoundQuiet DEF UnsubscribeNats, writing
<1>8. CASE DrainNats(n) \/ EndDrain(n)
  <2>1. \A m \in Nodes : link'[m]["redis"] = link[m]["redis"]
    BY <1>1, <1>8 DEF DrainNats, EndDrain
  <2>2. \A m \in Nodes : main'[m] \in {"http", "ended"} => main[m] \in {"http", "ended"}
    BY <1>1, <1>8 DEF DrainNats, EndDrain
  <2>3. QED
    BY <1>1, <1>2, <1>8, <2>1, <2>2, BoundQuiet DEF DrainNats, EndDrain, writing, history
<1>9. CASE StopListener(n)
  <2>1. \A m \in Nodes : link'[m]["redis"] =
          IF m = n THEN Silenced(link[n]["redis"]) ELSE link[m]["redis"]
    BY <1>1, <1>9 DEF StopListener
  <2>2. \A m \in Nodes : listener'[m] = "running" =>
          /\ link'[m]["redis"] \in {"listening", "silent"}
          /\ main'[m] \notin {"http", "ended"}
    BY <1>1, <1>2, <1>9, <2>1 DEF StopListener, Silenced
  <2>3. QED
    BY <1>1, <1>9, <2>2, BoundQuiet DEF StopListener, writing, history
<1>10. CASE CloseRedis(n)
  <2>1. \A m \in Nodes : m # n => link'[m]["redis"] = link[m]["redis"]
    BY <1>1, <1>10 DEF CloseRedis
  <2>2. \A m \in Nodes : listener'[m] = "running" =>
          /\ link'[m]["redis"] \in {"listening", "silent"}
          /\ main'[m] \notin {"http", "ended"}
    BY <1>1, <1>2, <1>10, <2>1 DEF CloseRedis, ListenerEnded
  <2>3. QED
    BY <1>1, <1>10, <2>2, BoundQuiet DEF CloseRedis, writing, history
<1>11. CASE ShutDown(n) \/ ShutdownTimesOut(n)
  <2>1. main[n] = "http" /\ Exit(n)
    BY <1>11 DEF ShutDown, ShutdownTimesOut
  <2>2. \A m \in Nodes : m # n => link'[m] = link[m] /\ main'[m] = main[m]
    BY <1>1, <2>1 DEF Exit
  <2>3. listener[n] # "running"
    BY <1>2, <2>1
  <2>4. missed' \subseteq Events \X Nodes
    BY <1>1, <2>1, WithinBound DEF Exit
  <2>5. faults' \in 0 .. MaxFaults
    BY <1>1, <1>11, Bounds DEF ShutDown, ShutdownTimesOut, Spare
  <2>6. QED
    BY <1>1, <1>2, <2>1, <2>2, <2>3, <2>4, <2>5, BoundQuiet DEF Exit, writing
<1>12. CASE EndListen(n)
  <2>1. missed' \subseteq Events \X Nodes
    BY <1>1, <1>3, <1>12 DEF EndListen
  <2>2. listener' = [listener EXCEPT ![n] = "ended"]
        /\ UNCHANGED <<main, link, faults, failed, heard>>
        /\ UNCHANGED emitted
    BY <1>12 DEF EndListen, writing
  <2>3. QED
    BY <1>1, <1>2, <2>1, <2>2, BoundQuiet
<1>13. QED
  BY <1>4, <1>5, <1>6, <1>7, <1>8, <1>9, <1>10, <1>11, <1>12 DEF Close

LEMMA BoundListen ==
  ASSUME Inv, BoundInv, NEW n \in Nodes, NEW b \in Brokers,
         Take(n, b) \/ Deliver(n, b)
  PROVE  BoundInv'
<1>1. CASE Take(n, b)
  BY <1>1, BoundQuiet DEF Take, BoundInv, wiring, writing, history
<1>2. CASE Deliver(n, b)
  <2>1. hand[n][b] \in Events
    BY <1>2, WithinBound DEF Deliver
  <2>2. faults' \in 0 .. MaxFaults /\ missed' \subseteq Events \X Nodes
    BY <1>2, <2>1, BoundBroadcast DEF Deliver
  <2>3. QED
    BY <1>2, <2>2, BoundQuiet DEF Deliver, BoundInv, wiring, writing
<1>3. QED
  BY <1>1, <1>2

(* What a new event adds to the count, and that it is within the bound. *)
LEMMA NewEventBound ==
  ASSUME Inv, BoundInv, NEW w \in Writers, MayEmit(w),
         emitted' = [emitted EXCEPT ![w] = @ + 1]
  PROVE  Sent' <= MaxEvents /\ Event(w) \in Events
<1>1. emitted \in [Writers -> Nat] /\ emitted' \in [Writers -> Nat]
      /\ emitted'[w] = emitted[w] + 1 /\ \A v \in Writers \ {w} : emitted'[v] = emitted[v]
  BY DEF Inv, Shape
<1>2. Sent' = Sent - emitted[w] + (emitted[w] + 1)
  <2>1. PICK f, h : f = emitted /\ h = emitted'
    OBVIOUS
  <2>2. /\ \A x \in Writers : f[x] \in Int
        /\ h[w] \in Int /\ \A x \in Writers \ {w} : h[x] = f[x]
    BY <1>1, <2>1
  <2>3. SumFunctionOnSet(h, Writers) = SumFunctionOnSet(f, Writers) - f[w] + h[w]
    BY <2>2, FiniteWriters, SumChange
  <2>4. QED
    BY <1>1, <2>1, <2>3 DEF Sent
<1>3. Sent \in Nat
  BY <1>1, FiniteWriters, SumNat DEF Sent
<1>4. Sent < MaxEvents
  BY DEF MayEmit, Sent
<1>5. Sent' <= MaxEvents
  BY <1>1, <1>2, <1>3, <1>4, Bounds
<1>6. emitted' \in [Writers -> 0 .. MaxEvents]
  BY <1>1, <1>5, EmittedBoundNext
<1>7. emitted[w] + 1 \in 1 .. MaxEvents
  BY <1>1, <1>6, Bounds
<1>8. QED
  BY <1>5, <1>7 DEF Event, Events

LEMMA BoundWrite ==
  ASSUME Inv, BoundInv, NEW w \in Writers,
         Publish(w) \/ Fallback(w) \/ Broadcast(w)
  PROVE  BoundInv'
<1>1. Home[w] \in Nodes
  BY WritersHaveHomes
<1>2. CASE Publish(w)
  <2> DEFINE n == Home[w]
             b == Route(n)
             e == Event(w)
  <2>1. Sent' <= MaxEvents /\ e \in Events
    BY <1>2, NewEventBound DEF Publish
  <2>2. PICK o \in Outcomes(n, b) :
          LET reached == IF o.copies = 0 THEN {} ELSE Subscribed(b)
          IN  /\ faults' = IF o = Fine \/ link[n][b] = "closed"
                           THEN faults ELSE faults + 1
              /\ failed' = IF o.ok /\ o.copies = 1 THEN failed
                           ELSE failed \cup {e}
              /\ heard' = heard \cup ({e} \X reached)
              /\ missed' = missed \cup ({e} \X (reached \cap o.lost))
    BY <1>2 DEF Publish
  <2>3. faults' \in 0 .. MaxFaults
    BY <2>2, Bounds DEF BoundInv, Outcomes, Spare
  <2>4. failed' \subseteq Events
    BY <2>1, <2>2 DEF BoundInv
  <2>5. heard' \subseteq Events \X Nodes /\ missed' \subseteq Events \X Nodes
    BY <2>1, <2>2 DEF BoundInv, Subscribed
  <2>6. UNCHANGED <<main, link, listener>>
    BY <1>2 DEF Publish, wiring
  <2>7. QED
    BY <2>1, <2>3, <2>4, <2>5, <2>6 DEF BoundInv
<1>3. CASE Fallback(w)
  <2>1. [writer |-> w, number |-> emitted[w]] \in Events
    BY <1>3 DEF Fallback, Inv, EmittedInv, BoundInv
  <2>2. faults' \in 0 .. MaxFaults /\ missed' \subseteq Events \X Nodes
    BY <1>1, <1>3, <2>1, BoundBroadcast DEF Fallback
  <2>3. QED
    BY <1>3, <2>2, BoundQuiet DEF Fallback, BoundInv, wiring
<1>4. CASE Broadcast(w)
  <2>1. Sent' <= MaxEvents /\ Event(w) \in Events
    BY <1>4, NewEventBound DEF Broadcast
  <2>2. faults' \in 0 .. MaxFaults /\ missed' \subseteq Events \X Nodes
    BY <1>1, <1>4, <2>1, BoundBroadcast DEF Broadcast
  <2>3. QED
    BY <1>4, <2>1, <2>2 DEF Broadcast, BoundInv, wiring
<1>5. QED
  BY <1>2, <1>3, <1>4

LEMMA BoundStep == Inv /\ BoundInv /\ [Next]_vars => BoundInv'
<1> SUFFICES ASSUME Inv, BoundInv, [Next]_vars PROVE BoundInv'
  OBVIOUS
<1>1. ASSUME NEW w \in Feeders, EndFeeding(w)
      PROVE  BoundInv'
  BY <1>1, BoundQuiet DEF EndFeeding, BoundInv, wiring, history
<1>2. CASE UNCHANGED vars
  BY <1>2, BoundQuiet DEF BoundInv, vars, wiring, writing, history
<1>3. QED
  BY <1>1, <1>2, BoundServer, BoundListen, BoundWrite DEF Next, Listen

(* The state has its shape and its bounds: nobody emits more than the       *)
(* instance allows, and the listener of Redis runs only while its client is *)
(* open.                                                                    *)
THEOREM WellTyped == Spec => []TypeOK
<1>1. Inv /\ BoundInv => TypeOK
  <2> SUFFICES ASSUME Inv, BoundInv PROVE TypeOK
    OBVIOUS
  <2>1. emitted \in [Writers -> 0 .. MaxEvents]
    BY EmittedBound DEF Inv, Shape, BoundInv
  <2>2. hand \in [Nodes -> [Brokers -> Events \cup {Nil}]]
    BY WithinBound DEF Inv, Shape
  <2>3. QED
    BY <2>1, <2>2, WithinBound DEF Inv, Shape, Mains, BoundInv, TypeOK
<1>2. Spec => []BoundInv
  BY BoundInit, BoundStep, Invariance, PTL DEF Spec
<1>3. QED
  BY <1>1, <1>2, Invariance, PTL
=============================================================================
