-------------------------------- MODULE Hub --------------------------------
(***************************************************************************)
(* The WebSocket hub of internal/delivery/websocket.  One goroutine, Run,  *)
(* owns the set of clients and sends every event to the clients that have  *)
(* subscribed to it.  Each connection has three more goroutines: the HTTP  *)
(* handler that registers the client and welcomes it, the ReadPump that    *)
(* serves its requests and the WritePump that writes to the connection.    *)
(* They meet at the channels register and unregister (unbuffered), at      *)
(* broadcast and at the client's own channel send.                         *)
(*                                                                         *)
(* In the server as it is wired every request comes through the logging    *)
(* middleware of the router, whose ResponseWriter cannot be hijacked: the  *)
(* handler returns before there is a client.  What hub and pumps do is     *)
(* seen with a writer that can.                                            *)
(*                                                                         *)
(* The two buffered channels are kept as the sequence of everything ever   *)
(* put in and the number of elements taken out.                            *)
(***************************************************************************)
EXTENDS Naturals, Sequences, FiniteSets

CONSTANTS
  Clients,          \* the requests for a connection, each for a client
  Wrapped,          \* those whose ResponseWriter is a statusRecorder
  Keys,             \* what a client can subscribe to: channel ":" stock code
  Nil,
  BroadcastBuffer,  \* capacity of Hub.broadcast (1024)
  SendBuffer,       \* capacity of Client.send (256)
  MaxEvents,        \* how many events are published in a behaviour
  MaxRequests,      \* how many requests the clients send in all
  MaxFailures       \* how many connections are lost or time out

ASSUME SomeWrapped == Wrapped \subseteq Clients

ASSUME NilIsNoClient == Nil \notin Clients

ASSUME Capacities ==
  /\ BroadcastBuffer \in Nat \ {0} /\ SendBuffer \in Nat \ {0}
  /\ MaxEvents \in Nat /\ MaxRequests \in Nat /\ MaxFailures \in Nat

VARIABLES
  published,      \* how often BroadcastEvent was called
  broadcast,      \* the keys of the events it accepted; an event is an index
  handled,        \* the number of events Run is done with
  clients,        \* Hub.clients
  current,        \* the event being broadcast, or 0 while Run selects
  left,           \* the clients that broadcastEvent still has to look at
  chosen,         \* the one found subscribed and not yet sent to, or Nil
  handler,        \* where HandleWebSocket is
  reader,         \* where ReadPump is
  reply,          \* the response ReadPump is about to send
  requests,       \* how many requests were read
  subscriptions,
  writer,         \* where WritePump is
  send,           \* everything put into Client.send
  taken,          \* how much of it WritePump has taken
  closed,         \* whether Client.send is closed
  conn,           \* whether the connection is open
  failures,       \* history: losses and timeouts so far
  lossy,          \* history: clients a full buffer has cost a message
  strays,         \* history: unwanted events since the last change of a
                  \* client's subscriptions
  panics          \* history: which goroutines sent on a closed channel

hub == <<clients, current, left, chosen, handled>>
events == <<published, broadcast>>
reading == <<reader, reply, requests, subscriptions>>
network == <<conn, failures>>
channel == <<send, closed, lossy, panics>>
vars == <<events, hub, handler, reading, writer, taken, network, channel,
          strays>>

Init ==
  /\ published = 0 /\ broadcast = <<>> /\ handled = 0
  /\ clients = {} /\ current = 0 /\ left = {} /\ chosen = Nil
  /\ handler = [c \in Clients |-> "none"]
  /\ reader = [c \in Clients |-> "none"]
  /\ reply = [c \in Clients |-> Nil]
  /\ requests = 0
  /\ subscriptions = [c \in Clients |-> {}]
  /\ writer = [c \in Clients |-> "none"]
  /\ send = [c \in Clients |-> <<>>]
  /\ taken = [c \in Clients |-> 0]
  /\ closed = [c \in Clients |-> FALSE]
  /\ conn = [c \in Clients |-> "none"]
  /\ failures = 0
  /\ lossy = {}
  /\ strays = [c \in Clients |-> 0]
  /\ panics = {}

-----------------------------------------------------------------------------
(* Sending without blocking: select with a default.                        *)

Message(type, key, no) == [type |-> type, key |-> key, no |-> no]

\* Mutant: room for one message too many.
FullLate(c) == Len(send[c]) - taken[c] > SendBuffer

Full(c) == Len(send[c]) - taken[c] = SendBuffer

\* Sends message to c, drops it if the buffer is full, or panics.
TrySend(c, message, who) ==
  /\ send' = IF closed[c] \/ Full(c) THEN send
             ELSE [send EXCEPT ![c] = Append(@, message)]
  /\ lossy' = IF ~closed[c] /\ Full(c) THEN lossy \cup {c} ELSE lossy
  /\ panics' = IF closed[c] THEN panics \cup {who} ELSE panics
  /\ UNCHANGED closed

-----------------------------------------------------------------------------
(* Publishers: the matching engine and the price feed, through onEvent.    *)

\* The number of events that Run has received.
Received == IF current = 0 THEN handled ELSE current

\* BroadcastEvent drops the event if the buffer is full.
BroadcastEvent(key) ==
  /\ published < MaxEvents
  /\ published' = published + 1
  /\ broadcast' = IF Len(broadcast) - Received < BroadcastBuffer
                  THEN Append(broadcast, key) ELSE broadcast
  /\ UNCHANGED <<hub, handler, reading, writer, taken, network, channel,
                 strays>>

-----------------------------------------------------------------------------
(* HandleWebSocket.                                                        *)

\* http.Hijacker is asked of the writer itself; statusRecorder embeds the
\* interface ResponseWriter, which does not have it.
CanHijack(c) == c \notin Wrapped

\* Upgrade answers 500, and the handler returns.
UpgradeFails(c) ==
  /\ handler[c] = "none" /\ ~CanHijack(c)
  /\ handler' = [handler EXCEPT ![c] = "refused"]
  /\ UNCHANGED <<events, hub, reading, writer, taken, network, channel,
                 strays>>

Connect(c) ==
  /\ handler[c] = "none" /\ CanHijack(c)
  /\ conn' = [conn EXCEPT ![c] = "open"]
  /\ handler' = [handler EXCEPT ![c] = "registering"]
  /\ UNCHANGED <<events, hub, reading, writer, taken, failures, channel,
                 strays>>

\* Both pumps are started before the welcome is sent.
StartPumps(c) ==
  /\ handler[c] = "registered"
  /\ handler' = [handler EXCEPT ![c] = "welcoming"]
  /\ reader' = [reader EXCEPT ![c] = "reading"]
  /\ writer' = [writer EXCEPT ![c] = "waiting"]
  /\ UNCHANGED <<events, hub, reply, requests, subscriptions, taken, network,
                 channel, strays>>

\* net/http recovers from a panic of this goroutine.
Welcome(c) ==
  /\ handler[c] = "welcoming"
  /\ TrySend(c, Message("connected", Nil, 0), "handler")
  /\ handler' = [handler EXCEPT ![c] = "returned"]
  /\ UNCHANGED <<events, hub, reading, writer, taken, network, strays>>

-----------------------------------------------------------------------------
(* Hub.Run: one of the three channels at a time.                           *)

Selecting == current = 0

Register(c) ==
  /\ Selecting
  /\ handler[c] = "registering"
  /\ clients' = clients \cup {c}
  /\ handler' = [handler EXCEPT ![c] = "registered"]
  /\ UNCHANGED <<events, current, left, chosen, handled, reading, writer,
                 taken, network, channel, strays>>

\* Mutant: the entry of a client that left stays.
UnregisterKept(c) ==
  /\ Selecting
  /\ reader[c] = "leaving"
  /\ closed' = [closed EXCEPT ![c] = TRUE]
  /\ reader' = [reader EXCEPT ![c] = "closing"]
  /\ UNCHANGED <<events, hub, handler, reply, requests, subscriptions, writer,
                 taken, network, send, lossy, panics, strays>>

\* A client is removed and its channel closed under one lock.
Unregister(c) ==
  /\ Selecting
  /\ reader[c] = "leaving"
  /\ clients' = clients \ {c}
  /\ closed' = IF c \in clients THEN [closed EXCEPT ![c] = TRUE] ELSE closed
  /\ reader' = [reader EXCEPT ![c] = "closing"]
  /\ UNCHANGED <<events, current, left, chosen, handled, handler, reply,
                 requests, subscriptions, writer, taken, network, send, lossy,
                 panics, strays>>

TakeEvent ==
  /\ Selecting
  /\ handled < Len(broadcast)
  /\ current' = handled + 1
  /\ left' = clients
  /\ UNCHANGED <<events, clients, chosen, handled, handler, reading, writer,
                 taken, network, channel, strays>>

\* Mutant: the clients share one map of subscriptions.
SubscribedByAnyone(c, key) == \E d \in Clients : key \in subscriptions[d]

IsSubscribed(c, key) == key \in subscriptions[c]

\* Between this test and the send the client may change its mind.
Visit(c) ==
  /\ c \in left /\ chosen = Nil
  /\ IF IsSubscribed(c, broadcast[current])
     THEN chosen' = c /\ UNCHANGED left
     ELSE left' = left \ {c} /\ UNCHANGED chosen
  /\ UNCHANGED <<events, clients, current, handled, handler, reading, writer,
                 taken, network, channel, strays>>

\* Mutant: the loop comes back to the client.
SendEventAgain ==
  /\ chosen # Nil
  /\ TrySend(chosen, Message("event", broadcast[current], current), "hub")
  /\ strays' = IF broadcast[current] \in subscriptions[chosen] THEN strays
               ELSE [strays EXCEPT ![chosen] = @ + 1]
  /\ chosen' = Nil
  /\ UNCHANGED <<events, left, clients, current, handled, handler, reading,
                 writer, taken, network>>

\* Mutant: the default branch returns from broadcastEvent.
SendEventOrReturn ==
  /\ chosen # Nil
  /\ TrySend(chosen, Message("event", broadcast[current], current), "hub")
  /\ strays' = IF broadcast[current] \in subscriptions[chosen] THEN strays
               ELSE [strays EXCEPT ![chosen] = @ + 1]
  /\ left' = IF Full(chosen) THEN {} ELSE left \ {chosen}
  /\ chosen' = Nil
  /\ UNCHANGED <<events, clients, current, handled, handler, reading, writer,
                 taken, network>>

\* Mutant: the send has no default branch.
SendEventBlocking ==
  /\ chosen # Nil /\ ~Full(chosen)
  /\ TrySend(chosen, Message("event", broadcast[current], current), "hub")
  /\ strays' = IF broadcast[current] \in subscriptions[chosen] THEN strays
               ELSE [strays EXCEPT ![chosen] = @ + 1]
  /\ left' = left \ {chosen}
  /\ chosen' = Nil
  /\ UNCHANGED <<events, clients, current, handled, handler, reading, writer,
                 taken, network>>

\* The non-blocking send of broadcastEvent.
SendEvent ==
  /\ chosen # Nil
  /\ TrySend(chosen, Message("event", broadcast[current], current), "hub")
  /\ strays' = IF broadcast[current] \in subscriptions[chosen] THEN strays
               ELSE [strays EXCEPT ![chosen] = @ + 1]
  /\ left' = left \ {chosen}
  /\ chosen' = Nil
  /\ UNCHANGED <<events, clients, current, handled, handler, reading, writer,
                 taken, network>>

FinishEvent ==
  /\ ~Selecting
  /\ left = {}
  /\ handled' = current
  /\ current' = 0
  /\ UNCHANGED <<events, clients, left, chosen, handler, reading, writer,
                 taken, network, channel, strays>>

Run ==
  \/ \E c \in Clients : Register(c) \/ Unregister(c) \/ Visit(c)
  \/ TakeEvent
  \/ SendEvent
  \/ FinishEvent

-----------------------------------------------------------------------------
(* ReadPump and handleMessage.                                             *)

\* A request takes effect here and is acknowledged by Respond.
HandleMessage(c) ==
  /\ reader[c] = "reading" /\ conn[c] = "open"
  /\ requests < MaxRequests
  /\ requests' = requests + 1
  /\ \/ \E key \in Keys :
          /\ subscriptions' = [subscriptions EXCEPT ![c] = @ \cup {key}]
          /\ reply' = [reply EXCEPT ![c] = Message("subscribed", key, 0)]
          /\ strays' = [strays EXCEPT ![c] = 0]
     \/ \E key \in Keys :
          /\ subscriptions' = [subscriptions EXCEPT ![c] = @ \ {key}]
          /\ reply' = [reply EXCEPT ![c] = Message("unsubscribed", key, 0)]
          /\ strays' = [strays EXCEPT ![c] = 0]
     \/ /\ reply' = [reply EXCEPT ![c] = Message("error", Nil, 0)]
        /\ UNCHANGED <<subscriptions, strays>>
  /\ reader' = [reader EXCEPT ![c] = "responding"]
  /\ UNCHANGED <<events, hub, handler, writer, taken, network, channel>>

Respond(c) ==
  /\ reader[c] = "responding"
  /\ TrySend(c, reply[c], "reader")
  /\ reader' = [reader EXCEPT ![c] = "reading"]
  /\ reply' = [reply EXCEPT ![c] = Nil]
  /\ UNCHANGED <<events, hub, handler, requests, subscriptions, writer, taken,
                 network, strays>>

\* Mutant: the client is not unregistered.
LeaveSilently(c) ==
  /\ reader[c] = "reading"
  /\ reader' = [reader EXCEPT ![c] = "closing"]
  /\ UNCHANGED <<events, hub, handler, reply, requests, subscriptions, writer,
                 taken, conn, channel, strays>>

\* ReadMessage fails; the deferred function offers the client to Run.
Leave(c) ==
  /\ reader[c] = "reading"
  /\ reader' = [reader EXCEPT ![c] = "leaving"]
  /\ UNCHANGED <<events, hub, handler, reply, requests, subscriptions, writer,
                 taken, conn, channel, strays>>

ReadFails(c) == conn[c] = "closed" /\ Leave(c) /\ UNCHANGED failures

\* One of the failures that the bound of the instance allows.
Failure == failures < MaxFailures /\ failures' = failures + 1

\* No pong for pongWait, a close frame, or a message above the limit.
ReadTimesOut(c) == conn[c] = "open" /\ Leave(c) /\ Failure

CloseAfterReading(c) ==
  /\ reader[c] = "closing"
  /\ reader' = [reader EXCEPT ![c] = "ended"]
  /\ conn' = [conn EXCEPT ![c] = "closed"]
  /\ UNCHANGED <<events, hub, handler, reply, requests, subscriptions, writer,
                 taken, failures, channel, strays>>

ReadPump(c) == Respond(c) \/ ReadFails(c) \/ CloseAfterReading(c)

-----------------------------------------------------------------------------
(* WritePump.                                                              *)

\* The deferred Close.
EndWriting(c) ==
  /\ writer' = [writer EXCEPT ![c] = "ended"]
  /\ conn' = [conn EXCEPT ![c] = "closed"]
  /\ UNCHANGED <<events, hub, handler, reading, taken, channel, strays>>

Buffered(c) == taken[c] < Len(send[c])

TakeMessage(c) ==
  /\ writer[c] = "waiting"
  /\ Buffered(c)
  /\ taken' = [taken EXCEPT ![c] = @ + 1]
  /\ writer' = [writer EXCEPT ![c] = "writing"]
  /\ UNCHANGED <<events, hub, handler, reading, network, channel, strays>>

WriteMessage(c) ==
  /\ writer[c] = "writing" /\ conn[c] = "open"
  /\ writer' = [writer EXCEPT ![c] = "waiting"]
  /\ UNCHANGED <<events, hub, handler, reading, taken, network, channel,
                 strays>>

WriteFails(c) ==
  /\ writer[c] = "writing" /\ conn[c] = "closed"
  /\ EndWriting(c)
  /\ UNCHANGED failures

\* writeWait has passed.
WriteTimesOut(c) ==
  /\ writer[c] = "writing" /\ conn[c] = "open"
  /\ EndWriting(c)
  /\ Failure

\* What is buffered in a closed channel is still received first.
SendClosed(c) ==
  /\ writer[c] = "waiting" /\ closed[c] /\ ~Buffered(c)
  /\ EndWriting(c)
  /\ UNCHANGED failures

PingFails(c) ==
  /\ writer[c] = "waiting" /\ conn[c] = "closed"
  /\ EndWriting(c)
  /\ UNCHANGED failures

WritePump(c) ==
  \/ TakeMessage(c)
  \/ WriteMessage(c)
  \/ WriteFails(c)
  \/ SendClosed(c)
  \/ PingFails(c)

-----------------------------------------------------------------------------
\* The client closes its end, or the network does.
Disconnect(c) ==
  /\ conn[c] = "open"
  /\ conn' = [conn EXCEPT ![c] = "closed"]
  /\ Failure
  /\ UNCHANGED <<events, hub, handler, reading, writer, taken, channel,
                 strays>>

Handler(c) == StartPumps(c) \/ Welcome(c)

Gone(c) ==
  /\ handler[c] = "returned"
  /\ reader[c] = "ended"
  /\ writer[c] = "ended"
  /\ c \notin clients

\* Connected, and nothing under way.
Idle(c) ==
  /\ handler[c] = "returned"
  /\ reader[c] = "reading"
  /\ writer[c] = "waiting" /\ ~Buffered(c)
  /\ conn[c] = "open"

\* The bounds of the instance are used up and nothing is left to do.
Quiet ==
  /\ published = MaxEvents /\ handled = Len(broadcast)
  /\ \A c \in Clients : handler[c] = "refused" \/ Gone(c) \/ Idle(c)
  /\ UNCHANGED vars

Next ==
  \/ \E key \in Keys : BroadcastEvent(key)
  \/ Run
  \/ \E c \in Clients :
       UpgradeFails(c) \/ Connect(c) \/ Handler(c) \/ ReadPump(c) \/ WritePump(c)
         \/ HandleMessage(c)
         \/ ReadTimesOut(c) \/ WriteTimesOut(c) \/ Disconnect(c)
  \/ Quiet

Spec == Init /\ [][Next]_vars

\* Every goroutine is scheduled; the deadline makes every write return; and
\* Run's select picks at random, so no channel that stays ready is ignored.
\* Clients need not connect, ask or leave, and nothing need be published.
Fairness ==
  /\ WF_vars(Run)
  /\ \A c \in Clients :
       /\ SF_vars(Register(c)) /\ SF_vars(Unregister(c))
       /\ WF_vars(Handler(c)) /\ WF_vars(ReadPump(c)) /\ WF_vars(WritePump(c))

FairSpec == Spec /\ Fairness

-----------------------------------------------------------------------------
(* Properties.                                                             *)

Messages ==
  [type : {"connected", "subscribed", "unsubscribed", "error", "event"},
   key : Keys \cup {Nil}, no : 0 .. MaxEvents]

\* The shape of the state.
TypeOK ==
  /\ published \in 0 .. MaxEvents
  /\ broadcast \in Seq(Keys) /\ Len(broadcast) <= published
  /\ handled \in 0 .. Len(broadcast)
  /\ clients \subseteq Clients /\ left \subseteq clients
  /\ current \in {0, handled + 1} /\ current <= Len(broadcast)
  /\ chosen \in left \cup {Nil}
  /\ handler \in [Clients -> {"none", "refused", "registering", "registered",
                              "welcoming", "returned"}]
  /\ reader \in [Clients -> {"none", "reading", "responding", "leaving",
                             "closing", "ended"}]
  /\ writer \in [Clients -> {"none", "waiting", "writing", "ended"}]
  /\ reply \in [Clients -> Messages \cup {Nil}]
  /\ requests \in 0 .. MaxRequests
  /\ subscriptions \in [Clients -> SUBSET Keys]
  /\ send \in [Clients -> Seq(Messages)] /\ taken \in [Clients -> Nat]
  /\ \A c \in Clients : /\ taken[c] <= Len(send[c])
                        /\ Len(send[c]) - taken[c] <= SendBuffer
  /\ closed \in [Clients -> BOOLEAN]
  /\ conn \in [Clients -> {"none", "open", "closed"}]
  /\ failures \in 0 .. MaxFailures /\ lossy \subseteq Clients
  /\ strays \in [Clients -> 0 .. MaxEvents]
  /\ panics \subseteq {"handler", "hub", "reader"}

\* Nobody recovers from a panic of Run or of a ReadPump: neither ever sends
\* to a client whose channel has been closed.
NoFatalPanic == panics \subseteq {"handler"}

EventsOf(c, key) ==
  {i \in DOMAIN send[c] : send[c][i].type = "event" /\ send[c][i].key = key}

\* Every client gets the events it gets in the order in which they were
\* accepted, whatever their keys, and none twice.
EventsInOrder ==
  \A c \in Clients : \A i, j \in UNION {EventsOf(c, key) : key \in Keys} :
    i < j => send[c][i].no < send[c][j].no

\* A client gets no event it does not subscribe to, except for one that Run
\* was sending while the client unsubscribed: the acknowledgement is not a
\* promise that no event follows it, but no second one does.
AtMostOneStray == \A c \in Clients : strays[c] <= 1

Unsubscribed(c, key) ==
  LET IsIt(message) == message.type = "unsubscribed" /\ message.key = key
  IN  \/ \E i \in DOMAIN send[c] : IsIt(send[c][i])
      \/ reader[c] = "responding" /\ IsIt(reply[c])

\* A slow client costs the others nothing (README.md:683): whoever always
\* had room and never unsubscribed misses no event after its first.
NoGaps ==
  \A c \in clients \ lossy, key \in Keys : \A i \in EventsOf(c, key) :
    ~Unsubscribed(c, key) =>
      \A n \in (send[c][i].no + 1) .. handled :
        broadcast[n] = key => \E j \in EventsOf(c, key) : send[c][j].no = n

\* Every event that was accepted is broadcast, whichever clients are slow,
\* stuck or gone.
EveryEventHandled ==
  \A n \in 1 .. MaxEvents : (Len(broadcast) >= n) ~> (handled >= n)

\* No goroutine and no entry of the hub leaks (README.md:687): once the
\* connection is closed, all that was made for it comes to an end.
EveryClientGoes == \A c \in Clients : conn[c] = "closed" ~> Gone(c)

\* README.md:507: after connecting to /ws, the server sends a welcome message.
WelcomeSent ==
  \A c \in Clients : handler[c] \in {"refused", "returned"} =>
    \E i \in DOMAIN send[c] : send[c][i].type = "connected"
=============================================================================
