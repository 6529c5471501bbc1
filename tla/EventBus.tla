----------------------------- MODULE EventBus -----------------------------
(***************************************************************************)
(* How events get from the goroutines that emit them to the hubs.  main    *)
(* wires onEvent once, at the start: to NATS if the server is connected to *)
(* it, else to Redis, else to the hub of the process itself.  A broker     *)
(* gives an event to every server that is subscribed when it is published, *)
(* the one that published it included, and their listeners pass it to      *)
(* their hubs.  If publishing fails the event goes to the own hub alone.   *)
(* A server that is told to stop closes all this in the order of main.     *)
(*                                                                         *)
(* An event may be lost on its way to a server: in the network, or in the  *)
(* buffer of the NATS client, which its publisher does not wait for and    *)
(* which goes with the process.  Redis may execute a command that is then  *)
(* reported as failed, and the client sends one again whose answer is      *)
(* late.  Which events find a hub's channel full is left open; Hub has the *)
(* channel itself.                                                         *)
(***************************************************************************)
EXTENDS Naturals, Sequences, FiniteSets, SequencesExt

CONSTANTS
  Nodes,      \* the servers
  Feeders,    \* goroutines of the price feeders
  Requests,   \* goroutines that place orders
  Home,       \* the server each of them belongs to
  Stoppable,  \* the servers that may be told to stop
  Nil,
  MaxEvents,  \* how many events are emitted in all
  MaxFaults   \* how often something goes wrong

Writers == Feeders \cup Requests
Brokers == {"redis", "nats"}

ASSUME WritersHaveHomes == Home \in [Writers -> Nodes]
ASSUME FiniteWriters == IsFiniteSet(Writers)
ASSUME SomeStoppable == Stoppable \subseteq Nodes
ASSUME Bounds == MaxEvents \in Nat /\ MaxFaults \in Nat
ASSUME NilIsNoEvent == Nil \notin [writer : Writers, number : Nat]

VARIABLES
  main,      \* where each server's main is
  link,      \* its connection to each broker
  listener,  \* the goroutine of the Redis subscription
  inbox,     \* what each broker has for each server
  hand,      \* the event a listener has taken and not yet passed on, or Nil
  pc,        \* where each writer is
  emitted,   \* how many events it has emitted
  accepted,  \* the events put into each hub's channel
  faults,    \* history: how often something went wrong
  failed,    \* history: events whose publication failed or was repeated
  heard,     \* history: the servers subscribed when an event was published
  missed,    \* history: what a fault or the end of a listener cost a server
  unheard    \* history: events published while their own server was not
             \* subscribed, and the state of its connection

wiring == <<main, link, listener>>
transit == <<inbox, hand>>
writing == <<pc, emitted>>
history == <<failed, heard, missed, unheard>>
vars == <<wiring, transit, writing, accepted, faults, history>>

\* The next event of a writer, and whether it may still come.
MayEmit(w) ==
  /\ pc[w] = "idle"
  /\ SumFunctionOnSet(emitted, Writers) < MaxEvents

Event(w) == [writer |-> w, number |-> emitted[w] + 1]

Init ==
  /\ main = [n \in Nodes |-> "redis"]
  /\ link = [n \in Nodes |-> [b \in Brokers |-> "none"]]
  /\ listener = [n \in Nodes |-> "none"]
  /\ inbox = [n \in Nodes |-> [b \in Brokers |-> <<>>]]
  /\ hand = [n \in Nodes |-> [b \in Brokers |-> Nil]]
  /\ pc = [w \in Writers |-> "idle"]
  /\ emitted = [w \in Writers |-> 0]
  /\ accepted = [n \in Nodes |-> <<>>]
  /\ faults = 0
  /\ failed = {} /\ heard = {} /\ missed = {} /\ unheard = {}

-----------------------------------------------------------------------------
(* Starting a server.                                                      *)

\* The broker is switched off or cannot be reached; or it can, and then the
\* subscription may fail, which is logged or ignored.
Connections == {"none", "deaf", "listening"}

ConnectRedis(n) ==
  /\ main[n] = "redis"
  /\ \E c \in Connections :
       /\ link' = [link EXCEPT ![n]["redis"] = c]
       /\ listener' = [listener EXCEPT ![n] =
                         IF c = "listening" THEN "running" ELSE "none"]
  /\ main' = [main EXCEPT ![n] = "nats"]
  /\ UNCHANGED <<transit, writing, accepted, faults, history>>

\* From here on the feeder and the requests of the server may emit.
ConnectNats(n) ==
  /\ main[n] = "nats"
  /\ \E c \in Connections : link' = [link EXCEPT ![n]["nats"] = c]
  /\ main' = [main EXCEPT ![n] = "serving"]
  /\ UNCHANGED <<listener, transit, writing, accepted, faults, history>>

Up(n) == main[n] \notin {"redis", "nats", "ended"}

-----------------------------------------------------------------------------
(* onEvent.                                                                *)

Route(n) ==
  IF link[n]["nats"] # "none" THEN "nats"
  ELSE IF link[n]["redis"] # "none" THEN "redis"
  ELSE "hub"

Spare == faults < MaxFaults

\* Hub.BroadcastEvent never waits: an event that finds the channel full is
\* dropped.
BroadcastEvent(n, e) ==
  \/ /\ accepted' = [accepted EXCEPT ![n] = Append(@, e)]
     /\ UNCHANGED <<faults, missed>>
  \/ /\ Spare
     /\ faults' = faults + 1
     /\ missed' = missed \cup {<<e, n>>}
     /\ UNCHANGED accepted

\* What can come of publishing: how often the broker gets the event, whether
\* the caller is told so, and which servers the event does not reach.
Outcome == [copies : 0 .. 2, ok : BOOLEAN, lost : SUBSET Nodes]

Fine == [copies |-> 1, ok |-> TRUE, lost |-> {}]

Refused == [copies |-> 0, ok |-> FALSE, lost |-> {}]

\* An error of NATS means that nothing was sent; it sends nothing twice.
Possible(b, o) ==
  /\ o.ok => o.copies > 0
  /\ b = "nats" => o.copies = IF o.ok THEN 1 ELSE 0
  /\ o.copies = 0 => o.lost = {}

Outcomes(n, b) ==
  IF link[n][b] = "closed" THEN {Refused}
  ELSE IF Spare THEN {o \in Outcome : Possible(b, o)}
  ELSE {Fine}

\* Mutant: the event goes to the broker and to the hub.
BroadcastToo(ok) == "fallback"

\* Mutant: the error is only logged.
LogOnly(ok) == "idle"

AfterPublish(ok) == IF ok THEN "idle" ELSE "fallback"

Subscribed(b) == {n \in Nodes : link[n][b] = "listening"}

Publish(w) ==
  LET n == Home[w]
      b == Route(n)
      e == Event(w)
  IN  /\ Up(n) /\ MayEmit(w)
      /\ b # "hub"
      /\ \E o \in Outcomes(n, b) :
           LET reached == IF o.copies = 0 THEN {} ELSE Subscribed(b)
           IN  /\ inbox' = [m \in Nodes |->
                    IF m \in reached \ o.lost
                    THEN [inbox[m] EXCEPT ![b] = @ \o [i \in 1 .. o.copies |-> e]]
                    ELSE inbox[m]]
               /\ pc' = [pc EXCEPT ![w] = AfterPublish(o.ok)]
               /\ faults' = IF o = Fine \/ link[n][b] = "closed"
                            THEN faults ELSE faults + 1
               /\ failed' = IF o.ok /\ o.copies = 1 THEN failed
                            ELSE failed \cup {e}
               /\ heard' = heard \cup ({e} \X reached)
               /\ missed' = missed \cup ({e} \X (reached \cap o.lost))
               /\ unheard' = IF o.ok /\ n \notin Subscribed(b)
                             THEN unheard \cup {[event |-> e, link |-> link[n][b]]}
                             ELSE unheard
      /\ emitted' = [emitted EXCEPT ![w] = @ + 1]
      /\ UNCHANGED <<wiring, hand, accepted>>

\* The error path: the event goes to the own hub.
Fallback(w) ==
  /\ pc[w] = "fallback" /\ main[Home[w]] # "ended"
  /\ BroadcastEvent(Home[w], [writer |-> w, number |-> emitted[w]])
  /\ pc' = [pc EXCEPT ![w] = "idle"]
  /\ UNCHANGED <<wiring, transit, emitted, failed, heard, unheard>>

\* Without a broker the event goes straight to the hub.
Broadcast(w) ==
  /\ Up(Home[w]) /\ MayEmit(w)
  /\ Route(Home[w]) = "hub"
  /\ BroadcastEvent(Home[w], Event(w))
  /\ emitted' = [emitted EXCEPT ![w] = @ + 1]
  /\ UNCHANGED <<wiring, transit, pc, failed, heard, unheard>>

\* A feeder's goroutine ends after the stop, between two events.
EndFeeding(w) ==
  /\ pc[w] = "idle" /\ Up(Home[w]) /\ main[Home[w]] # "serving"
  /\ pc' = [pc EXCEPT ![w] = "ended"]
  /\ UNCHANGED <<wiring, transit, emitted, accepted, faults, history>>

-----------------------------------------------------------------------------
(* The listeners.                                                          *)

Take(n, b) ==
  /\ main[n] # "ended" /\ hand[n][b] = Nil /\ inbox[n][b] # <<>>
  /\ hand' = [hand EXCEPT ![n][b] = Head(inbox[n][b])]
  /\ inbox' = [inbox EXCEPT ![n][b] = Tail(@)]
  /\ UNCHANGED <<wiring, writing, accepted, faults, history>>

Deliver(n, b) ==
  /\ main[n] # "ended" /\ hand[n][b] # Nil
  /\ BroadcastEvent(n, hand[n][b])
  /\ hand' = [hand EXCEPT ![n][b] = Nil]
  /\ UNCHANGED <<wiring, inbox, writing, failed, heard, unheard>>

Waiting(n, b) == ToSet(inbox[n][b]) \X {n}

\* listenLoop sees done, or the end of its channel; what is left is not read.
EndListen(n) ==
  /\ main[n] # "ended"
  /\ listener[n] = "running" /\ link[n]["redis"] = "silent"
  /\ hand[n]["redis"] = Nil
  /\ listener' = [listener EXCEPT ![n] = "ended"]
  /\ missed' = missed \cup Waiting(n, "redis")
  /\ inbox' = [inbox EXCEPT ![n]["redis"] = <<>>]
  /\ UNCHANGED <<main, link, hand, writing, accepted, faults, failed, heard,
                 unheard>>

-----------------------------------------------------------------------------
(* Stopping a server: main after the signal.                               *)

Silenced(c) == IF c = "listening" THEN "silent" ELSE c

Closed(c) == IF c = "none" THEN c ELSE "closed"

Signal(n) ==
  /\ main[n] = "serving" /\ n \in Stoppable
  /\ main' = [main EXCEPT ![n] = "feeder"]
  /\ UNCHANGED <<link, listener, transit, writing, accepted, faults, history>>

\* Mutant: the feeder is told to stop and not waited for.
FeedersTold(n) == TRUE

\* priceFeeder.Stop waits for the feeder's goroutines.
FeedersStopped(n) ==
  \A w \in Feeders : Home[w] = n => pc[w] = "ended"

StopFeeder(n) ==
  /\ main[n] = "feeder" /\ FeedersStopped(n)
  /\ main' = [main EXCEPT ![n] = "unsubscribe"]
  /\ UNCHANGED <<link, listener, transit, writing, accepted, faults, history>>

\* Broker.Close, first part.  A callback in progress is not waited for.
UnsubscribeNats(n) ==
  /\ main[n] = "unsubscribe"
  /\ link' = [link EXCEPT ![n]["nats"] = Silenced(@)]
  /\ missed' = missed \cup Waiting(n, "nats")
  /\ inbox' = [inbox EXCEPT ![n]["nats"] = <<>>]
  /\ main' = [main EXCEPT ![n] = "drain"]
  /\ UNCHANGED <<listener, hand, writing, accepted, faults, failed, heard,
                 unheard>>

\* Second part: NATS is asked to drain the connection, which takes its time.
\* Nobody waits for that.
DrainNats(n) ==
  /\ main[n] = "drain"
  /\ main' = [main EXCEPT ![n] = "stopListener"]
  /\ UNCHANGED <<link, listener, transit, writing, accepted, faults, history>>

\* At some moment after that NATS refuses to publish.
EndDrain(n) ==
  /\ main[n] \in {"stopListener", "awaitListener", "http"}
  /\ link[n]["nats"] \notin {"none", "closed"}
  /\ link' = [link EXCEPT ![n]["nats"] = Closed(@)]
  /\ UNCHANGED <<main, listener, transit, writing, accepted, faults, history>>

\* Mutant: nobody tells the listener.
KeepListening(n) ==
  /\ main[n] = "stopListener"
  /\ main' = [main EXCEPT ![n] = "awaitListener"]
  /\ UNCHANGED <<link, listener, transit, writing, accepted, faults, history>>

\* PubSub.Stop closes done and the subscription ...
StopListener(n) ==
  /\ main[n] = "stopListener"
  /\ link' = [link EXCEPT ![n]["redis"] = Silenced(@)]
  /\ main' = [main EXCEPT ![n] = "awaitListener"]
  /\ UNCHANGED <<listener, transit, writing, accepted, faults, history>>

\* Mutant: Stop does not wait.
NoWaiting(n) == TRUE

\* ... and waits for the listener.
ListenerEnded(n) == listener[n] # "running"

\* Then the Redis client is closed, and the database.
CloseRedis(n) ==
  /\ main[n] = "awaitListener" /\ ListenerEnded(n)
  /\ link' = [link EXCEPT ![n]["redis"] = Closed(@)]
  /\ main' = [main EXCEPT ![n] = "http"]
  /\ UNCHANGED <<listener, transit, writing, accepted, faults, history>>

\* The process is gone, and its connections with it.
Exit(n) ==
  /\ main' = [main EXCEPT ![n] = "ended"]
  /\ link' = [link EXCEPT ![n] = [b \in Brokers |-> "closed"]]
  /\ missed' = missed \cup
       ({hand[n][b] : b \in Brokers} \ {Nil}) \X {n}
  /\ hand' = [hand EXCEPT ![n] = [b \in Brokers |-> Nil]]
  /\ UNCHANGED <<listener, inbox, writing, accepted, failed, heard, unheard>>

\* server.Shutdown returns when no request is being served.
ShutDown(n) ==
  /\ main[n] = "http"
  /\ \A w \in Requests : Home[w] = n => pc[w] = "idle"
  /\ Exit(n)
  /\ UNCHANGED faults

\* Or its 10 seconds are over.
ShutdownTimesOut(n) ==
  /\ main[n] = "http" /\ Spare
  /\ Exit(n)
  /\ faults' = faults + 1

Close(n) ==
  \/ StopFeeder(n)
  \/ UnsubscribeNats(n)
  \/ DrainNats(n)
  \/ StopListener(n)
  \/ CloseRedis(n)
  \/ ShutDown(n)

-----------------------------------------------------------------------------
Listen(n) == \E b \in Brokers : Take(n, b) \/ Deliver(n, b)

Next ==
  \/ \E n \in Nodes :
       \/ ConnectRedis(n)
       \/ ConnectNats(n)
       \/ Listen(n)
       \/ EndListen(n)
       \/ Signal(n)
       \/ Close(n)
       \/ EndDrain(n)
       \/ ShutdownTimesOut(n)
  \/ \E w \in Writers : Publish(w) \/ Fallback(w) \/ Broadcast(w)
  \/ \E w \in Feeders : EndFeeding(w)

Spec == Init /\ [][Next]_vars

\* Goroutines are scheduled.  A select that finds a message and the end both
\* ready takes either, so the end is not passed over for ever.  Nothing has
\* to be emitted, nobody has to stop a server, no connection has to be
\* drained in time, and no timeout has to fire.
\* Nothing is asked of a server that never stops.
Fairness ==
  /\ \A n \in Stoppable :
       WF_vars(Listen(n)) /\ SF_vars(EndListen(n)) /\ WF_vars(Close(n))
  /\ \A w \in Writers : WF_vars(Fallback(w))
  /\ \A w \in Feeders : SF_vars(EndFeeding(w))

FairSpec == Spec /\ Fairness

-----------------------------------------------------------------------------
(* Properties.                                                             *)

Events == [writer : Writers, number : 1 .. MaxEvents]

\* The shape of the state.  The Redis listener lives no longer than the
\* client it reads from.
TypeOK ==
  /\ main \in [Nodes -> {"redis", "nats", "serving", "feeder", "unsubscribe",
                         "drain", "stopListener", "awaitListener", "http",
                         "ended"}]
  /\ link \in [Nodes -> [Brokers -> Connections \cup {"silent", "closed"}]]
  /\ listener \in [Nodes -> {"none", "running", "ended"}]
  /\ \A n \in Nodes : listener[n] = "running" =>
       link[n]["redis"] \in {"listening", "silent"}
  /\ \A n \in Nodes, b \in Brokers : ToSet(inbox[n][b]) \subseteq Events
  /\ hand \in [Nodes -> [Brokers -> Events \cup {Nil}]]
  /\ pc \in [Writers -> {"idle", "fallback", "ended"}]
  /\ emitted \in [Writers -> 0 .. MaxEvents]
  /\ \A n \in Nodes : ToSet(accepted[n]) \subseteq Events
  /\ faults \in 0 .. MaxFaults
  /\ failed \subseteq Events
  /\ heard \subseteq Events \X Nodes /\ missed \subseteq Events \X Nodes

\* Every hub gets the events of a goroutine in the order in which they were
\* emitted and each once, whichever way they come, but for those whose
\* publication failed or was repeated: only these can be doubled by the
\* broker and the fallback, or overtake what is still on its way.
EventsInOrder ==
  \A n \in Nodes : \A i, j \in DOMAIN accepted[n] :
    LET e == accepted[n][i]
        f == accepted[n][j]
    IN  i < j /\ e.writer = f.writer /\ {e, f} \cap failed = {}
          => e.number < f.number

OnItsWay(e, n) ==
  \/ \E b \in Brokers : e = hand[n][b] \/ e \in ToSet(inbox[n][b])
  \/ Home[e.writer] = n /\ pc[e.writer] = "fallback" /\ e.number = emitted[e.writer]

Emitted == {e \in Events : e.number <= emitted[e.writer]}

Unheard == {u.event : u \in unheard}

\* An event reaches every hub whose server was subscribed when it was
\* published, and the hub of its own server in any case, unless something
\* that can be named has cost that server the event: a fault of the network,
\* a full channel, the end of the listener with the event unread, or, at
\* home, a server that is not subscribed itself.
EventsReachHubs ==
  /\ \A p \in heard :
       p[1] \in ToSet(accepted[p[2]]) \/ p \in missed \/ OnItsWay(p[1], p[2])
  /\ \A e \in Emitted \ Unheard :
       LET n == Home[e.writer]
       IN  e \in ToSet(accepted[n]) \/ <<e, n>> \in missed \/ OnItsWay(e, n)

\* An event that was published and that its own server was not subscribed to
\* is due to a subscription that failed at the start, or is of a request that
\* main did not wait for before it closed the broker; never of the feeder.
UnheardOnlyIf ==
  \A u \in unheard : u.link = "deaf" \/ u.event.writer \in Requests

\* A server that is told to stop does stop, without waiting for the timeout.
StopEnds == \A n \in Nodes : main[n] = "feeder" ~> main[n] = "ended"
=============================================================================
