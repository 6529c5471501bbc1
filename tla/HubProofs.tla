------------------------------ MODULE HubProofs ------------------------------
(***************************************************************************)
(* Proofs about Hub, for any connections, keys, buffers and bounds: the    *)
(* shape of the state; nobody that matters sends on a closed channel; the  *)
(* events of a client come in their order, without a gap while it keeps up *)
(* and stays subscribed; and at most one comes after it has unsubscribed.  *)
(***************************************************************************)
EXTENDS Hub, TLAPS

(* While Run selects it is at no client.                                    *)
HubInv == Selecting => left = {} /\ chosen = Nil

(* A channel is closed only for a client that the hub has forgotten, and    *)
(* after its reader has stopped responding.  A response is never an event.  *)
ReaderInv ==
  \A c \in Clients :
    /\ closed[c] => c \notin clients /\ reader[c] \in {"closing", "ended"}
    /\ handler[c] \in {"none", "refused", "registering", "registered"} =>
         reader[c] = "none"
    /\ reader[c] = "responding" => reply[c] \in Messages /\ reply[c].type # "event"

IsEvent(c, i) == send[c][i].type = "event"

(* What a client got is of events that are done with, or of the current one *)
(* if Run has passed the client.                                            *)
PastInv ==
  \A c \in Clients : \A i \in DOMAIN send[c] : IsEvent(c, i) =>
    \/ send[c][i].no <= handled
    \/ ~Selecting /\ send[c][i].no = current /\ c \notin left

OrderInv ==
  \A c \in Clients : \A i, j \in DOMAIN send[c] :
    i < j /\ IsEvent(c, i) /\ IsEvent(c, j) => send[c][i].no < send[c][j].no

(* When the event in Run's hands is unwanted, the client has changed its    *)
(* subscriptions since Run looked at them.                                  *)
StrayInv ==
  \A c \in Clients :
    /\ strays[c] <= 1
    /\ chosen = c /\ broadcast[current] \notin subscriptions[c] => strays[c] = 0

Inv == TypeOK /\ HubInv /\ ReaderInv /\ PastInv /\ OrderInv /\ StrayInv
       /\ NoFatalPanic

-----------------------------------------------------------------------------

(* What a non-blocking send does to the channels.                           *)
LEMMA TrySendEffect ==
  ASSUME TypeOK, NEW c \in Clients, NEW m \in Messages, NEW who, TrySend(c, m, who)
  PROVE  /\ send' \in [Clients -> Seq(Messages)]
         /\ \A d \in Clients \ {c} : send'[d] = send[d]
         /\ send'[c] = send[c] \/ send'[c] = Append(send[c], m)
         /\ \A d \in Clients : Len(send[d]) <= Len(send'[d])
         /\ \A d \in Clients : Len(send'[d]) - taken[d] <= SendBuffer
         /\ lossy' \subseteq Clients
         /\ closed' = closed
         /\ ~closed[c] => panics' = panics
         /\ panics' \subseteq panics \cup {who}
<1>1. closed' = closed /\ lossy' \subseteq Clients
      /\ (~closed[c] => panics' = panics) /\ panics' \subseteq panics \cup {who}
  BY DEF TrySend, TypeOK
<1>2. CASE closed[c] \/ Full(c)
  BY <1>1, <1>2 DEF TrySend, TypeOK
<1>3. CASE ~(closed[c] \/ Full(c))
  <2>1. send' = [send EXCEPT ![c] = Append(@, m)]
    BY <1>3 DEF TrySend
  <2>2. send[c] \in Seq(Messages) /\ Len(Append(send[c], m)) = Len(send[c]) + 1
        /\ Append(send[c], m) \in Seq(Messages)
    BY DEF TypeOK
  <2>3. /\ Len(send[c]) \in Nat /\ taken[c] \in Nat /\ SendBuffer \in Nat
        /\ Len(send[c]) - taken[c] <= SendBuffer
    BY Capacities DEF TypeOK
  <2>4. Len(send[c]) - taken[c] # SendBuffer
    BY <1>3 DEF Full
  <2>5. /\ send'[c] = Append(send[c], m)
        /\ Len(send[c]) <= Len(send'[c]) /\ Len(send'[c]) - taken[c] <= SendBuffer
    <3>1. send'[c] = Append(send[c], m)
      BY <2>1 DEF TypeOK
    <3>2. Len(send'[c]) = Len(send[c]) + 1
      BY <2>2, <3>1
    <3>3. QED
      BY <2>3, <2>4, <3>1, <3>2
  <2>6. \A d \in Clients \ {c} : send'[d] = send[d]
    BY <2>1 DEF TypeOK
  <2>7. \A d \in Clients : Len(send[d]) \in Nat /\ Len(send[d]) - taken[d] <= SendBuffer
    BY DEF TypeOK
  <2>8. \A d \in Clients : Len(send[d]) <= Len(send'[d])
    BY <2>5, <2>6, <2>7
  <2>9. \A d \in Clients : Len(send'[d]) - taken[d] <= SendBuffer
    BY <2>5, <2>6, <2>7
  <2>10. send' \in [Clients -> Seq(Messages)]
    BY <2>1, <2>2 DEF TypeOK
  <2>11. QED
    BY <1>1, <2>5, <2>6, <2>8, <2>9, <2>10
<1>4. QED
  BY <1>2, <1>3

-----------------------------------------------------------------------------
(* The initial state, and the steps that send nothing.                      *)

LEMMA InitInv == Init => Inv
<1> SUFFICES ASSUME Init PROVE Inv
  OBVIOUS
<1>1. TypeOK
  BY Capacities DEF Init, TypeOK
<1>2. HubInv /\ ReaderInv /\ NoFatalPanic
  BY DEF Init, HubInv, ReaderInv, NoFatalPanic
<1>3. PastInv /\ OrderInv
  BY DEF Init, PastInv, OrderInv
<1>4. StrayInv
  BY NilIsNoClient DEF Init, StrayInv
<1>5. QED
  BY <1>1, <1>2, <1>3, <1>4 DEF Inv

(* A step that neither publishes, nor sends, nor moves Run, nor changes a   *)
(* subscription.                                                            *)
Calm == UNCHANGED <<events, hub, channel, subscriptions, strays>>

LEMMA CalmKeeps ==
  ASSUME Inv, Calm, TypeOK', ReaderInv'
  PROVE  Inv'
<1>1. HubInv' /\ NoFatalPanic'
  BY DEF Inv, Calm, hub, channel, HubInv, NoFatalPanic, Selecting
<1>2. PastInv' /\ OrderInv'
  BY DEF Inv, Calm, hub, channel, PastInv, OrderInv, IsEvent, Selecting
<1>3. StrayInv'
  BY DEF Inv, Calm, hub, events, StrayInv
<1>4. QED
  BY <1>1, <1>2, <1>3 DEF Inv

Places ==
  /\ handler \in [Clients -> {"none", "refused", "registering", "registered",
                              "welcoming", "returned"}]
  /\ reader \in [Clients -> {"none", "reading", "responding", "leaving",
                             "closing", "ended"}]
  /\ writer \in [Clients -> {"none", "waiting", "writing", "ended"}]
  /\ reply \in [Clients -> Messages \cup {Nil}]
  /\ requests \in 0 .. MaxRequests
  /\ taken \in [Clients -> Nat]
  /\ \A c \in Clients : taken[c] <= Len(send[c])
                       /\ Len(send[c]) - taken[c] <= SendBuffer
  /\ conn \in [Clients -> {"none", "open", "closed"}]
  /\ failures \in 0 .. MaxFailures

LEMMA CalmType ==
  ASSUME TypeOK, Calm, Places'
  PROVE  TypeOK'
BY DEF TypeOK, Calm, Places, events, hub, channel, Messages

LEMMA TypePlaces ==
  ASSUME TypeOK
  PROVE  Places
BY DEF TypeOK, Places

LEMMA ConnectKeeps ==
  ASSUME Inv, NEW c \in Clients, Connect(c)
  PROVE  Inv'
<1>1. Calm
  BY DEF Connect, Calm, reading
<1>2. Places
  BY TypePlaces DEF Inv
<1>3. Places'
  BY <1>2 DEF Connect, Places, reading, channel, Messages
<1>4. ReaderInv'
  BY <1>2 DEF Inv, Connect, ReaderInv, Places, hub, reading, channel
<1>5. TypeOK'
  BY <1>1, <1>3, CalmType DEF Inv
<1>6. QED
  BY <1>1, <1>4, <1>5, CalmKeeps

LEMMA UpgradeFailsKeeps ==
  ASSUME Inv, NEW c \in Clients, UpgradeFails(c)
  PROVE  Inv'
<1>1. Calm
  BY DEF UpgradeFails, Calm, reading
<1>2. Places
  BY TypePlaces DEF Inv
<1>3. Places'
  BY <1>2 DEF UpgradeFails, Places, reading, network, channel, Messages
<1>4. ReaderInv'
  BY <1>2 DEF Inv, UpgradeFails, ReaderInv, Places, hub, reading, channel
<1>5. TypeOK'
  BY <1>1, <1>3, CalmType DEF Inv
<1>6. QED
  BY <1>1, <1>4, <1>5, CalmKeeps

LEMMA StartPumpsKeeps ==
  ASSUME Inv, NEW c \in Clients, StartPumps(c)
  PROVE  Inv'
<1>1. Calm
  BY DEF StartPumps, Calm
<1>2. Places
  BY TypePlaces DEF Inv
<1>3. Places'
  BY <1>2 DEF StartPumps, Places, network, channel, Messages
<1>4. ReaderInv'
  BY <1>2 DEF Inv, StartPumps, ReaderInv, Places, hub, channel
<1>5. TypeOK'
  BY <1>1, <1>3, CalmType DEF Inv
<1>6. QED
  BY <1>1, <1>4, <1>5, CalmKeeps

LEMMA ReaderEndKeeps ==
  ASSUME Inv, NEW c \in Clients,
         ReadFails(c) \/ ReadTimesOut(c) \/ CloseAfterReading(c)
  PROVE  Inv'
<1>1. Calm
  BY DEF ReadFails, ReadTimesOut, CloseAfterReading, Leave, Calm
<1>2. Places
  BY TypePlaces DEF Inv
<1>3. Places'
  <2>1. failures' \in 0 .. MaxFailures
    BY <1>2, Capacities DEF ReadFails, ReadTimesOut, CloseAfterReading, Failure, Places
  <2>2. QED
    BY <1>2, <2>1 DEF ReadFails, ReadTimesOut, CloseAfterReading, Leave, Places,
       channel, Messages
<1>4. ReaderInv'
  BY <1>2 DEF Inv, ReadFails, ReadTimesOut, CloseAfterReading, Leave, ReaderInv,
     Places, hub, channel
<1>5. TypeOK'
  BY <1>1, <1>3, CalmType DEF Inv
<1>6. QED
  BY <1>1, <1>4, <1>5, CalmKeeps

LEMMA WriterKeeps ==
  ASSUME Inv, NEW c \in Clients,
         WritePump(c) \/ WriteTimesOut(c) \/ Disconnect(c)
  PROVE  Inv'
<1>1. Calm
  BY DEF WritePump, TakeMessage, WriteMessage, WriteFails, SendClosed, PingFails,
     WriteTimesOut, Disconnect, EndWriting, Calm, reading
<1>2. Places
  BY TypePlaces DEF Inv
<1>3. failures' \in 0 .. MaxFailures
  BY <1>2, Capacities DEF WritePump, TakeMessage, WriteMessage, WriteFails,
     SendClosed, PingFails, WriteTimesOut, Disconnect, Failure, Places, network
<1>4. Places'
  <2>1. CASE TakeMessage(c)
    <3>1. Len(send[c]) \in Nat /\ taken[c] \in Nat /\ SendBuffer \in Nat
      BY Capacities DEF Inv, TypeOK
    <3>2. taken[c] + 1 \in Nat /\ taken[c] + 1 <= Len(send[c])
          /\ Len(send[c]) - (taken[c] + 1) <= SendBuffer
      BY <1>2, <2>1, <3>1 DEF TakeMessage, Buffered, Places
    <3>3. QED
      BY <1>2, <1>3, <2>1, <3>2 DEF TakeMessage, Places, reading, network, channel,
         Messages
  <2>2. CASE ~TakeMessage(c)
    BY <1>2, <1>3, <2>2 DEF WritePump, WriteMessage, WriteFails, SendClosed, PingFails,
       WriteTimesOut, Disconnect, EndWriting, Places, reading, network, channel, Messages
  <2>3. QED
    BY <2>1, <2>2
<1>5. ReaderInv'
  BY DEF Inv, WritePump, TakeMessage, WriteMessage, WriteFails, SendClosed, PingFails,
     WriteTimesOut, Disconnect, EndWriting, ReaderInv, hub, reading, channel
<1>6. TypeOK'
  BY <1>1, <1>4, CalmType DEF Inv
<1>7. QED
  BY <1>1, <1>5, <1>6, CalmKeeps

-----------------------------------------------------------------------------
(* The steps that send.                                                     *)

(* What is in a channel after a send was there before or is the message.    *)
LEMMA Sent ==
  ASSUME TypeOK, NEW c \in Clients, NEW m \in Messages, NEW who, TrySend(c, m, who),
         NEW d \in Clients, NEW i \in DOMAIN send'[d]
  PROVE  \/ i \in DOMAIN send[d] /\ send'[d][i] = send[d][i]
         \/ /\ d = c /\ send'[d][i] = m
            /\ i \notin DOMAIN send[d] /\ i \in Nat
            /\ \A j \in DOMAIN send[d] : j \in Nat /\ j < i
<1>1. send[d] \in Seq(Messages)
  BY DEF TypeOK
<1>2. CASE send'[d] = send[d]
  BY <1>2
<1>3. CASE send'[d] # send[d]
  <2>1. d = c /\ send'[d] = Append(send[d], m)
    BY <1>3, TrySendEffect
  <2>2. /\ DOMAIN send[d] = 1 .. Len(send[d]) /\ Len(send[d]) \in Nat
        /\ DOMAIN send'[d] = 1 .. (Len(send[d]) + 1)
        /\ \A j \in 1 .. Len(send[d]) : send'[d][j] = send[d][j]
        /\ send'[d][Len(send[d]) + 1] = m
    BY <1>1, <2>1
  <2>3. QED
    BY <2>1, <2>2
<1>4. QED
  BY <1>2, <1>3

(* A message that is not an event leaves the order of the events.           *)
LEMMA NoEventSent ==
  ASSUME TypeOK, PastInv, OrderInv, NEW c \in Clients, NEW m \in Messages, NEW who,
         TrySend(c, m, who), m.type # "event", UNCHANGED hub
  PROVE  PastInv' /\ OrderInv'
<1>1. \A d \in Clients : \A i \in DOMAIN send'[d] : IsEvent(d, i)' =>
        i \in DOMAIN send[d] /\ send'[d][i] = send[d][i] /\ IsEvent(d, i)
  BY Sent DEF IsEvent
<1>2. PastInv'
  BY <1>1 DEF PastInv, hub, Selecting
<1>3. OrderInv'
  BY <1>1 DEF OrderInv
<1>4. QED
  BY <1>2, <1>3

LEMMA NoEventType ==
  ASSUME TypeOK, NEW c \in Clients, NEW m \in Messages, NEW who, TrySend(c, m, who),
         UNCHANGED <<events, hub, subscriptions, writer, taken, network, strays, requests>>,
         handler' \in [Clients -> {"none", "refused", "registering", "registered",
                                   "welcoming", "returned"}],
         reader' \in [Clients -> {"none", "reading", "responding", "leaving",
                                  "closing", "ended"}],
         reply' \in [Clients -> Messages \cup {Nil}],
         NoFatalPanic, panics' \subseteq panics \cup {"handler"}
  PROVE  TypeOK'
<1>1. /\ send' \in [Clients -> Seq(Messages)] /\ lossy' \subseteq Clients /\ closed' = closed
      /\ \A d \in Clients : Len(send[d]) <= Len(send'[d])
      /\ \A d \in Clients : Len(send'[d]) - taken[d] <= SendBuffer
  BY TrySendEffect
<1>2. \A d \in Clients : taken'[d] <= Len(send'[d]) /\ Len(send'[d]) - taken'[d] <= SendBuffer
  <2> TAKE d \in Clients
  <2>1. taken[d] <= Len(send[d]) /\ Len(send[d]) \in Nat /\ taken[d] \in Nat
    BY DEF TypeOK
  <2>2. send'[d] \in Seq(Messages) /\ Len(send'[d]) \in Nat
    BY <1>1
  <2>3. QED
    BY <1>1, <2>1, <2>2
<1>3. panics' \subseteq {"handler", "hub", "reader"}
  BY DEF NoFatalPanic
<1>4. QED
  BY <1>1, <1>2, <1>3 DEF TypeOK, events, hub, network, Messages

LEMMA WelcomeKeeps ==
  ASSUME Inv, NEW c \in Clients, Welcome(c)
  PROVE  Inv'
<1> DEFINE m == Message("connected", Nil, 0)
<1>1. m \in Messages /\ m.type # "event"
  BY Capacities DEF Message, Messages
<1> HIDE DEF m
<1>2. TrySend(c, m, "handler")
  BY DEF Welcome, m
<1>3. closed' = closed /\ panics' \subseteq panics \cup {"handler"}
  BY <1>1, <1>2, TrySendEffect DEF Inv
<1>4. TypeOK /\ HubInv /\ ReaderInv /\ PastInv /\ OrderInv /\ StrayInv /\ NoFatalPanic
  BY DEF Inv
<1>5. handler[c] = "welcoming" /\ handler' = [handler EXCEPT ![c] = "returned"]
      /\ UNCHANGED <<events, hub, reading, writer, taken, network, strays>>
  BY DEF Welcome
<1>6. handler' \in [Clients -> {"none", "refused", "registering", "registered",
                                "welcoming", "returned"}]
  BY <1>4, <1>5 DEF TypeOK
<1>7. UNCHANGED <<subscriptions, requests, reader, reply>>
  BY <1>5 DEF reading
<1>8. reader' \in [Clients -> {"none", "reading", "responding", "leaving",
                               "closing", "ended"}]
      /\ reply' \in [Clients -> Messages \cup {Nil}]
  BY <1>4, <1>7 DEF TypeOK, Messages
<1>9. TypeOK'
  BY <1>1, <1>2, <1>3, <1>4, <1>5, <1>6, <1>7, <1>8, NoEventType
<1>10. HubInv' /\ NoFatalPanic'
  BY <1>3, <1>4, <1>5 DEF HubInv, NoFatalPanic, hub, Selecting
<1>11. ReaderInv'
  BY <1>3, <1>4, <1>5, <1>7 DEF ReaderInv, hub, TypeOK
<1>12. PastInv' /\ OrderInv'
  BY <1>1, <1>2, <1>4, <1>5, NoEventSent
<1>13. StrayInv'
  BY <1>4, <1>5, <1>7 DEF StrayInv, hub, events
<1>14. QED
  BY <1>9, <1>10, <1>11, <1>12, <1>13 DEF Inv

LEMMA RespondKeeps ==
  ASSUME Inv, NEW c \in Clients, Respond(c)
  PROVE  Inv'
<1> DEFINE m == reply[c]
<1>1. m \in Messages /\ m.type # "event"
  BY DEF Inv, ReaderInv, Respond
<1>2. TrySend(c, m, "reader") /\ reader[c] = "responding"
  BY DEF Respond
<1> HIDE DEF m
<1>3. TypeOK /\ HubInv /\ ReaderInv /\ PastInv /\ OrderInv /\ StrayInv /\ NoFatalPanic
  BY DEF Inv
<1>4. ~closed[c]
  BY <1>2, <1>3 DEF ReaderInv
<1>5. closed' = closed /\ panics' = panics
  BY <1>1, <1>2, <1>3, <1>4, TrySendEffect
<1>6. reader' = [reader EXCEPT ![c] = "reading"] /\ reply' = [reply EXCEPT ![c] = Nil]
      /\ UNCHANGED <<events, hub, handler, requests, subscriptions, writer, taken,
                     network, strays>>
  BY DEF Respond
<1>7. /\ reader' \in [Clients -> {"none", "reading", "responding", "leaving",
                                  "closing", "ended"}]
      /\ reply' \in [Clients -> Messages \cup {Nil}]
      /\ handler' \in [Clients -> {"none", "refused", "registering", "registered",
                                   "welcoming", "returned"}]
  BY <1>3, <1>6 DEF TypeOK
<1>8. TypeOK'
  BY <1>1, <1>2, <1>3, <1>5, <1>6, <1>7, NoEventType
<1>9. HubInv' /\ NoFatalPanic'
  BY <1>3, <1>5, <1>6 DEF HubInv, NoFatalPanic, hub, Selecting
<1>10. ReaderInv'
  BY <1>2, <1>3, <1>4, <1>5, <1>6 DEF ReaderInv, hub, TypeOK
<1>11. PastInv' /\ OrderInv'
  BY <1>1, <1>2, <1>3, <1>6, NoEventSent
<1>12. StrayInv'
  BY <1>3, <1>6 DEF StrayInv, hub, events
<1>13. QED
  BY <1>8, <1>9, <1>10, <1>11, <1>12 DEF Inv

-----------------------------------------------------------------------------
(* Publishers, requests and Run.                                            *)

LEMMA BroadcastEventKeeps ==
  ASSUME Inv, NEW key \in Keys, BroadcastEvent(key)
  PROVE  Inv'
<1>1. TypeOK /\ HubInv /\ ReaderInv /\ PastInv /\ OrderInv /\ StrayInv /\ NoFatalPanic
  BY DEF Inv
<1>2. /\ UNCHANGED <<hub, handler, reading, writer, taken, network, channel, strays>>
      /\ published' = published + 1 /\ published < MaxEvents
      /\ broadcast' = broadcast \/ broadcast' = Append(broadcast, key)
  BY DEF BroadcastEvent
<1>3. /\ broadcast \in Seq(Keys) /\ Len(broadcast) \in Nat /\ published \in Nat
      /\ Len(broadcast) <= published /\ handled \in Nat /\ handled <= Len(broadcast)
      /\ current \in Nat /\ current <= Len(broadcast)
  BY <1>1 DEF TypeOK
<1>4. /\ broadcast' \in Seq(Keys) /\ Len(broadcast') \in Nat
      /\ Len(broadcast') <= Len(broadcast) + 1 /\ Len(broadcast) <= Len(broadcast')
      /\ \A n \in 1 .. Len(broadcast) : broadcast'[n] = broadcast[n]
  <2>1. CASE broadcast' = broadcast
    BY <1>3, <2>1
  <2>2. CASE broadcast' = Append(broadcast, key)
    <3>1. /\ Append(broadcast, key) \in Seq(Keys)
          /\ Len(Append(broadcast, key)) = Len(broadcast) + 1
          /\ \A n \in 1 .. Len(broadcast) : Append(broadcast, key)[n] = broadcast[n]
      BY <1>3
    <3>2. QED
      BY <1>3, <2>2, <3>1
  <2>3. QED
    BY <1>2, <2>1, <2>2
<1>5. /\ published' \in 0 .. MaxEvents /\ Len(broadcast') <= published'
      /\ handled' \in 0 .. Len(broadcast') /\ current' <= Len(broadcast')
  BY <1>2, <1>3, <1>4, Capacities DEF hub
<1>6. TypeOK'
  BY <1>1, <1>2, <1>4, <1>5 DEF TypeOK, hub, reading, network, channel, Messages
<1>7. HubInv' /\ ReaderInv' /\ PastInv' /\ OrderInv' /\ NoFatalPanic'
  BY <1>1, <1>2 DEF HubInv, ReaderInv, PastInv, OrderInv, NoFatalPanic, IsEvent,
     Selecting, hub, reading, channel, Messages
<1>8. StrayInv'
  <2> SUFFICES ASSUME NEW c \in Clients, chosen = c
               PROVE  broadcast'[current] = broadcast[current]
    BY <1>1, <1>2 DEF StrayInv, hub, reading
  <2>1. current # 0
    BY <1>1, NilIsNoClient DEF HubInv, Selecting
  <2>2. QED
    BY <1>3, <1>4, <2>1
<1>9. QED
  BY <1>6, <1>7, <1>8 DEF Inv

LEMMA HandleMessageKeeps ==
  ASSUME Inv, NEW c \in Clients, HandleMessage(c)
  PROVE  Inv'
<1>1. TypeOK /\ HubInv /\ ReaderInv /\ PastInv /\ OrderInv /\ StrayInv /\ NoFatalPanic
  BY DEF Inv
<1>2. /\ reader[c] = "reading" /\ reader' = [reader EXCEPT ![c] = "responding"]
      /\ requests < MaxRequests /\ requests' = requests + 1
      /\ UNCHANGED <<events, hub, handler, writer, taken, network, channel>>
  BY DEF HandleMessage
<1>3. PICK m \in Messages : m.type # "event" /\ reply' = [reply EXCEPT ![c] = m]
  <2>1. \A key \in Keys \cup {Nil} :
          \A t \in {"subscribed", "unsubscribed", "error"} :
            Message(t, key, 0) \in Messages /\ Message(t, key, 0).type # "event"
    BY Capacities DEF Message, Messages
  <2>2. QED
    BY <2>1 DEF HandleMessage
<1>4. /\ subscriptions' \in [Clients -> SUBSET Keys]
      /\ strays' \in [Clients -> 0 .. MaxEvents]
      /\ \A d \in Clients :
           \/ strays'[d] = 0
           \/ subscriptions'[d] = subscriptions[d] /\ strays'[d] = strays[d]
  <2>1. /\ subscriptions \in [Clients -> SUBSET Keys]
        /\ strays \in [Clients -> 0 .. MaxEvents] /\ 0 \in 0 .. MaxEvents
    BY <1>1, Capacities DEF TypeOK
  <2>2. CASE UNCHANGED <<subscriptions, strays>>
    BY <2>1, <2>2
  <2>3. CASE \E key \in Keys :
               /\ \/ subscriptions' = [subscriptions EXCEPT ![c] = @ \cup {key}]
                  \/ subscriptions' = [subscriptions EXCEPT ![c] = @ \ {key}]
               /\ strays' = [strays EXCEPT ![c] = 0]
    BY <2>1, <2>3
  <2>4. QED
    BY <2>2, <2>3 DEF HandleMessage
<1>5. TypeOK'
  <2>1. requests' \in 0 .. MaxRequests
    BY <1>1, <1>2, Capacities DEF TypeOK
  <2>2. QED
    BY <1>1, <1>2, <1>3, <1>4, <2>1 DEF TypeOK, events, hub, network, channel, Messages
<1>6. HubInv' /\ PastInv' /\ OrderInv' /\ NoFatalPanic'
  BY <1>1, <1>2 DEF HubInv, PastInv, OrderInv, NoFatalPanic, IsEvent, Selecting,
     hub, channel
<1>7. ReaderInv'
  <2>1. UNCHANGED <<closed, clients, handler>>
    BY <1>2 DEF hub, channel
  <2>2. reader'[c] = "responding" /\ \A d \in Clients \ {c} : reader'[d] = reader[d]
    BY <1>1, <1>2 DEF TypeOK
  <2>3. reply'[c] = m /\ \A d \in Clients \ {c} : reply'[d] = reply[d]
    BY <1>1, <1>3 DEF TypeOK
  <2>4. QED
    BY <1>1, <1>2, <1>3, <2>1, <2>2, <2>3 DEF ReaderInv
<1>8. StrayInv'
  BY <1>1, <1>2, <1>4 DEF StrayInv, hub, events
<1>9. QED
  BY <1>5, <1>6, <1>7, <1>8 DEF Inv

LEMMA RegisterKeeps ==
  ASSUME Inv, NEW c \in Clients, Register(c) \/ Unregister(c)
  PROVE  Inv'
<1>1. TypeOK /\ HubInv /\ ReaderInv /\ PastInv /\ OrderInv /\ StrayInv /\ NoFatalPanic
  BY DEF Inv
<1>2. UNCHANGED <<events, current, left, chosen, handled, writer, taken, network,
                  send, lossy, panics, strays, reply, requests, subscriptions>>
  BY DEF Register, Unregister, reading, channel
<1>3. left = {} /\ chosen = Nil
  BY <1>1 DEF Register, Unregister, HubInv
<1>4. TypeOK'
  <2>1. CASE Register(c)
    BY <1>1, <1>2, <1>3, <2>1 DEF Register, TypeOK, events, reading, network, channel,
       Messages
  <2>2. CASE Unregister(c)
    BY <1>1, <1>2, <1>3, <2>2 DEF Unregister, TypeOK, events, network, Messages
  <2>3. QED
    BY <2>1, <2>2
<1>5. HubInv' /\ PastInv' /\ OrderInv' /\ StrayInv' /\ NoFatalPanic'
  BY <1>1, <1>2 DEF HubInv, PastInv, OrderInv, StrayInv, NoFatalPanic, IsEvent,
     Selecting, events
<1>6. ReaderInv'
  <2>1. CASE Register(c)
    <3>1. /\ UNCHANGED <<closed, reader, reply>> /\ clients' = clients \cup {c}
          /\ handler[c] = "registering"
          /\ handler' = [handler EXCEPT ![c] = "registered"]
      BY <2>1 DEF Register, reading, channel
    <3>2. ~closed[c] /\ \A d \in Clients \ {c} : handler'[d] = handler[d]
      BY <1>1, <3>1 DEF ReaderInv, TypeOK
    <3>3. QED
      BY <1>1, <3>1, <3>2 DEF ReaderInv
  <2>2. CASE Unregister(c)
    BY <1>1, <2>2 DEF Unregister, ReaderInv, TypeOK, Messages
  <2>3. QED
    BY <2>1, <2>2
<1>7. QED
  BY <1>4, <1>5, <1>6 DEF Inv

LEMMA TakeEventKeeps ==
  ASSUME Inv, TakeEvent
  PROVE  Inv'
<1>1. TypeOK /\ HubInv /\ ReaderInv /\ PastInv /\ OrderInv /\ StrayInv /\ NoFatalPanic
  BY DEF Inv
<1>2. /\ Selecting /\ handled < Len(broadcast) /\ current' = handled + 1 /\ left' = clients
      /\ UNCHANGED <<events, clients, chosen, handled, handler, reading, writer, taken,
                     network, channel, strays>>
  BY DEF TakeEvent
<1>3. left = {} /\ chosen = Nil
  BY <1>1, <1>2 DEF HubInv
<1>4. handled \in Nat /\ Len(broadcast) \in Nat
  BY <1>1 DEF TypeOK
<1>5. current' # 0 /\ current' <= Len(broadcast)
  BY <1>2, <1>4
<1>6. TypeOK'
  BY <1>1, <1>2, <1>3, <1>5 DEF TypeOK, events, reading, network, channel, Messages
<1>7. HubInv' /\ ReaderInv' /\ OrderInv' /\ NoFatalPanic'
  BY <1>1, <1>2, <1>5 DEF HubInv, ReaderInv, OrderInv, NoFatalPanic, IsEvent, Selecting,
     reading, channel, Messages
<1>8. PastInv'
  BY <1>1, <1>2 DEF PastInv, IsEvent, Selecting, channel
<1>9. StrayInv'
  BY <1>1, <1>2, <1>3, NilIsNoClient DEF StrayInv, reading
<1>10. QED
  BY <1>6, <1>7, <1>8, <1>9 DEF Inv

LEMMA VisitKeeps ==
  ASSUME Inv, NEW c \in Clients, Visit(c)
  PROVE  Inv'
<1>1. TypeOK /\ HubInv /\ ReaderInv /\ PastInv /\ OrderInv /\ StrayInv /\ NoFatalPanic
  BY DEF Inv
<1>2. /\ c \in left /\ chosen = Nil
      /\ \/ /\ broadcast[current] \in subscriptions[c]
            /\ chosen' = c /\ UNCHANGED left
         \/ left' = left \ {c} /\ UNCHANGED chosen
      /\ UNCHANGED <<events, clients, current, handled, handler, reading, writer, taken,
                     network, channel, strays>>
  BY DEF Visit, IsSubscribed
<1>3. TypeOK'
  BY <1>1, <1>2 DEF TypeOK, events, reading, network, channel, Messages
<1>4. HubInv' /\ ReaderInv' /\ OrderInv' /\ NoFatalPanic'
  BY <1>1, <1>2 DEF HubInv, ReaderInv, OrderInv, NoFatalPanic, IsEvent, Selecting,
     reading, channel, Messages
<1>5. PastInv'
  BY <1>1, <1>2 DEF PastInv, IsEvent, Selecting, channel
<1>6. StrayInv'
  BY <1>1, <1>2, NilIsNoClient DEF StrayInv, reading, events
<1>7. QED
  BY <1>3, <1>4, <1>5, <1>6 DEF Inv

LEMMA FinishEventKeeps ==
  ASSUME Inv, FinishEvent
  PROVE  Inv'
<1>1. TypeOK /\ HubInv /\ ReaderInv /\ PastInv /\ OrderInv /\ StrayInv /\ NoFatalPanic
  BY DEF Inv
<1>2. /\ current # 0 /\ left = {} /\ handled' = current /\ current' = 0
      /\ UNCHANGED <<events, clients, left, chosen, handler, reading, writer, taken,
                     network, channel, strays>>
  BY DEF FinishEvent, Selecting
<1>3. chosen = Nil /\ current = handled + 1 /\ handled \in Nat
  BY <1>1, <1>2 DEF TypeOK
<1>4. TypeOK'
  <2>1. current \in 0 .. Len(broadcast) /\ 0 <= Len(broadcast) /\ 0 \in {0, current + 1}
    BY <1>1, <1>3 DEF TypeOK
  <2>2. QED
    BY <1>1, <1>2, <1>3, <2>1 DEF TypeOK, events, reading, network, channel, Messages
<1>5. HubInv' /\ ReaderInv' /\ OrderInv' /\ NoFatalPanic'
  BY <1>1, <1>2, <1>3 DEF HubInv, ReaderInv, OrderInv, NoFatalPanic, IsEvent, Selecting,
     reading, channel, Messages
<1>6. PastInv'
  <2> SUFFICES ASSUME NEW c \in Clients, NEW i \in DOMAIN send[c], IsEvent(c, i)
               PROVE  send[c][i].no <= current
    BY <1>2 DEF PastInv, IsEvent, channel
  <2>1. send[c][i].no <= handled \/ send[c][i].no = current
    BY <1>1 DEF PastInv
  <2>2. send[c][i].no \in Nat
    <3>1. send[c] \in Seq(Messages)
      BY <1>1 DEF TypeOK
    <3>2. send[c][i] \in Messages
      BY <3>1
    <3>3. QED
      BY <3>2 DEF Messages
  <2>3. QED
    BY <1>3, <2>1, <2>2
<1>7. StrayInv'
  BY <1>1, <1>2, <1>3, NilIsNoClient DEF StrayInv, reading
<1>8. QED
  BY <1>4, <1>5, <1>6, <1>7 DEF Inv

LEMMA SendEventKeeps ==
  ASSUME Inv, SendEvent
  PROVE  Inv'
<1> DEFINE c == chosen
           m == Message("event", broadcast[current], current)
<1>1. TypeOK /\ HubInv /\ ReaderInv /\ PastInv /\ OrderInv /\ StrayInv /\ NoFatalPanic
  BY DEF Inv
<1>2. /\ chosen # Nil /\ TrySend(c, m, "hub")
      /\ left' = left \ {c} /\ chosen' = Nil
      /\ strays' = IF broadcast[current] \in subscriptions[c] THEN strays
                   ELSE [strays EXCEPT ![c] = @ + 1]
      /\ UNCHANGED <<events, clients, current, handled, handler, reading, writer, taken,
                     network>>
  BY DEF SendEvent
<1>3. c \in left /\ c \in clients /\ c \in Clients /\ current # 0
  BY <1>1, <1>2 DEF TypeOK, HubInv, Selecting
<1>4. /\ current \in Nat /\ handled \in Nat /\ current = handled + 1
      /\ current <= Len(broadcast) /\ current <= MaxEvents /\ MaxEvents \in Nat
  BY <1>1, <1>3, Capacities DEF TypeOK
<1>5. m \in Messages /\ m.type = "event" /\ m.no = current
  <2>1. broadcast[current] \in Keys
    BY <1>1, <1>3, <1>4 DEF TypeOK
  <2>2. QED
    BY <1>4, <2>1 DEF Message, Messages
<1> HIDE DEF m
<1>6. ~closed[c]
  BY <1>1, <1>3 DEF ReaderInv
<1>7. /\ send' \in [Clients -> Seq(Messages)] /\ lossy' \subseteq Clients
      /\ closed' = closed /\ panics' = panics
      /\ \A d \in Clients : Len(send[d]) <= Len(send'[d])
      /\ \A d \in Clients : Len(send'[d]) - taken[d] <= SendBuffer
  BY <1>1, <1>2, <1>3, <1>5, <1>6, TrySendEffect
<1>8. strays' \in [Clients -> 0 .. MaxEvents] /\ \A d \in Clients : strays'[d] <= 1
  <2>1. strays \in [Clients -> 0 .. MaxEvents] /\ \A d \in Clients : strays[d] <= 1
    BY <1>1 DEF TypeOK, StrayInv
  <2>2. CASE broadcast[current] \in subscriptions[c]
    BY <1>2, <2>1, <2>2
  <2>3. CASE broadcast[current] \notin subscriptions[c]
    <3>1. strays[c] = 0
      BY <1>1, <1>3, <2>3 DEF StrayInv
    <3>2. strays' = [strays EXCEPT ![c] = 1]
      BY <1>2, <2>1, <2>3, <3>1
    <3>3. 1 \in 0 .. MaxEvents
      BY <1>3, <1>4
    <3>4. strays' \in [Clients -> 0 .. MaxEvents]
      BY <2>1, <3>2, <3>3
    <3>5. \A d \in Clients : strays'[d] = 1 \/ strays'[d] = strays[d]
      BY <2>1, <3>2
    <3>6. \A d \in Clients : strays'[d] <= 1
      BY <2>1, <3>5
    <3>7. QED
      BY <3>4, <3>6
  <2>4. QED
    BY <2>2, <2>3
<1>9. TypeOK'
  <2>1. \A d \in Clients : taken'[d] <= Len(send'[d])
                           /\ Len(send'[d]) - taken'[d] <= SendBuffer
    <3> TAKE d \in Clients
    <3>1. taken[d] <= Len(send[d]) /\ Len(send[d]) \in Nat /\ taken[d] \in Nat
      BY <1>1 DEF TypeOK
    <3>2. Len(send'[d]) \in Nat
      BY <1>7
    <3>3. QED
      BY <1>2, <1>7, <3>1, <3>2
  <2>2. QED
    BY <1>1, <1>2, <1>7, <1>8, <2>1 DEF TypeOK, events, reading, network, Messages
<1>10. HubInv' /\ ReaderInv' /\ NoFatalPanic'
  BY <1>1, <1>2, <1>3, <1>7 DEF HubInv, ReaderInv, NoFatalPanic, Selecting, reading,
     Messages
<1>11. StrayInv'
  BY <1>2, <1>8, NilIsNoClient DEF StrayInv
<1>12. \A d \in Clients : \A i \in DOMAIN send'[d] :
         \/ i \in DOMAIN send[d] /\ send'[d][i] = send[d][i]
         \/ /\ d = c /\ send'[d][i] = m
            /\ i \notin DOMAIN send[d] /\ i \in Nat
            /\ \A j \in DOMAIN send[d] : j \in Nat /\ j < i
  BY <1>1, <1>2, <1>3, <1>5, Sent
<1>13. PastInv'
  BY <1>1, <1>2, <1>3, <1>5, <1>12 DEF PastInv, IsEvent, Selecting
<1>14. OrderInv'
  <2> SUFFICES ASSUME NEW d \in Clients, NEW i \in DOMAIN send'[d], NEW j \in DOMAIN send'[d],
                      i < j, IsEvent(d, i)', IsEvent(d, j)'
               PROVE  send'[d][i].no < send'[d][j].no
    BY DEF OrderInv
  <2>1. CASE j \in DOMAIN send[d] /\ i \in DOMAIN send[d]
    BY <1>1, <1>12, <2>1 DEF OrderInv, IsEvent
  <2>2. CASE j \in DOMAIN send[d] /\ i \notin DOMAIN send[d]
    <3>1. j \in Nat /\ i \in Nat /\ j < i
      BY <1>12, <2>2
    <3>2. QED
      BY <3>1
  <2>3. CASE j \notin DOMAIN send[d] /\ i \in DOMAIN send[d]
    <3>1. d = c /\ send'[d][j].no = current /\ IsEvent(d, i) /\ send'[d][i] = send[d][i]
      BY <1>5, <1>12, <2>3 DEF IsEvent
    <3>2. send[d][i].no <= handled
      BY <1>1, <1>3, <2>3, <3>1 DEF PastInv
    <3>3. send[d][i].no \in Nat
      <4>1. send[d] \in Seq(Messages)
        BY <1>1 DEF TypeOK
      <4>2. send[d][i] \in Messages
        BY <2>3, <4>1
      <4>3. QED
        BY <4>2 DEF Messages
    <3>4. QED
      BY <1>4, <3>1, <3>2, <3>3
  <2>4. CASE j \notin DOMAIN send[d] /\ i \notin DOMAIN send[d]
    <3>1. i \in Nat /\ j \in Nat /\ DOMAIN send[d] = 1 .. Len(send[d]) /\ Len(send[d]) \in Nat
          /\ send'[d] = Append(send[d], m)
      <4>1. send[d] \in Seq(Messages)
        BY <1>1 DEF TypeOK
      <4>2. send'[d] # send[d] /\ d = c
        BY <1>12, <2>4
      <4>3. send'[d] = Append(send[d], m)
        BY <1>1, <1>2, <1>3, <1>5, <4>2, TrySendEffect
      <4>4. QED
        BY <1>12, <2>4, <4>1, <4>3
    <3>2. DOMAIN send'[d] = 1 .. (Len(send[d]) + 1)
      BY <1>1, <3>1 DEF TypeOK
    <3>3. QED
      BY <2>4, <3>1, <3>2
  <2>5. QED
    BY <2>1, <2>2, <2>3, <2>4
<1>15. QED
  BY <1>9, <1>10, <1>11, <1>13, <1>14 DEF Inv

-----------------------------------------------------------------------------

LEMMA NextKeeps == Inv /\ [Next]_vars => Inv'
<1> SUFFICES ASSUME Inv, [Next]_vars PROVE Inv'
  OBVIOUS
<1>1. CASE UNCHANGED vars
  <2>1. Calm
    BY <1>1 DEF vars, Calm, reading
  <2>2. TypeOK' /\ ReaderInv'
    BY <1>1 DEF Inv, TypeOK, ReaderInv, vars, events, hub, reading, network, channel,
       Messages
  <2>3. QED
    BY <2>1, <2>2, CalmKeeps
<1>2. CASE \E key \in Keys : BroadcastEvent(key)
  BY <1>2, BroadcastEventKeeps
<1>3. CASE Run
  BY <1>3, RegisterKeeps, VisitKeeps, TakeEventKeeps, SendEventKeeps, FinishEventKeeps
     DEF Run
<1>4. ASSUME NEW c \in Clients,
             UpgradeFails(c) \/ Connect(c) \/ Handler(c) \/ ReadPump(c) \/ WritePump(c)
               \/ HandleMessage(c)
               \/ ReadTimesOut(c) \/ WriteTimesOut(c) \/ Disconnect(c)
      PROVE  Inv'
  BY <1>4, UpgradeFailsKeeps, ConnectKeeps, StartPumpsKeeps, WelcomeKeeps, RespondKeeps, ReaderEndKeeps,
     WriterKeeps, HandleMessageKeeps DEF Handler, ReadPump
<1>5. CASE Quiet
  BY <1>1, <1>5 DEF Quiet
<1>6. QED
  BY <1>1, <1>2, <1>3, <1>4, <1>5 DEF Next

(* The invariant that the theorems below follow from.                       *)
THEOREM Invariance == Spec => []Inv
BY InitInv, NextKeeps, PTL DEF Spec

(* Every reachable state of the hub has the declared shape; no buffer holds *)
(* more than its capacity.                                                  *)
THEOREM TypeCorrect == Spec => []TypeOK
<1>1. Inv => TypeOK
  BY DEF Inv
<1>2. QED
  BY <1>1, Invariance, PTL

(* Neither Run nor a ReadPump ever sends on a closed channel, whoever       *)
(* connects, leaves or times out while an event is being broadcast.         *)
THEOREM ServerSurvives == Spec => []NoFatalPanic
<1>1. Inv => NoFatalPanic
  BY DEF Inv
<1>2. QED
  BY <1>1, Invariance, PTL

(* A client gets its events in the order in which the hub accepted them,    *)
(* and none twice, whatever is dropped on the way.                          *)
THEOREM ClientsSeeOrder == Spec => []EventsInOrder
<1>1. Inv => EventsInOrder
  BY DEF Inv, OrderInv, EventsInOrder, EventsOf, IsEvent
<1>2. QED
  BY <1>1, Invariance, PTL

(* After its subscriptions have changed a client gets at most one event it  *)
(* does not want: the one that was in the hands of broadcastEvent.          *)
THEOREM OneStray == Spec => []AtMostOneStray
<1>1. Inv => AtMostOneStray
  BY DEF Inv, StrayInv, AtMostOneStray
<1>2. QED
  BY <1>1, Invariance, PTL

-----------------------------------------------------------------------------
(* Whoever always had room misses no event after its first.                 *)

(* A client that is not registered yet has been sent nothing.               *)
FreshInv ==
  \A c \in Clients : handler[c] \in {"none", "registering"} =>
    c \notin clients /\ send[c] = <<>>

Got(c, key, n) == \E j \in EventsOf(c, key) : send[c][j].no = n

(* Once a client has got an event of key, or Run has found it subscribed,   *)
(* it is subscribed to key, has got every event of key since its first one, *)
(* and the current one too if Run has passed it.                            *)
Gapless(c, key) ==
  /\ EventsOf(c, key) # {} => key \in subscriptions[c]
  /\ chosen = c /\ broadcast[current] = key => key \in subscriptions[c]
  /\ \A i \in EventsOf(c, key) : \A n \in (send[c][i].no + 1) .. handled :
       broadcast[n] = key => Got(c, key, n)
  /\ ~Selecting /\ c \notin left /\ broadcast[current] = key
       /\ EventsOf(c, key) # {} => Got(c, key, current)

GapInv ==
  \A c \in clients \ lossy, key \in Keys : ~Unsubscribed(c, key) => Gapless(c, key)

GapsInv == Inv /\ FreshInv /\ GapInv

-----------------------------------------------------------------------------
(* What was sent stays; what was not dropped has been sent.                 *)

LEMMA SentStays ==
  ASSUME TypeOK, NEW c \in Clients, NEW m \in Messages, NEW who, TrySend(c, m, who),
         NEW d \in Clients, NEW i \in DOMAIN send[d]
  PROVE  i \in DOMAIN send'[d] /\ send'[d][i] = send[d][i]
<1>1. send[d] \in Seq(Messages)
  BY DEF TypeOK
<1>2. CASE send'[d] = send[d]
  BY <1>2
<1>3. CASE send'[d] # send[d]
  <2>1. d = c /\ send'[d] = Append(send[d], m)
    BY <1>3, TrySendEffect
  <2>2. /\ DOMAIN send[d] = 1 .. Len(send[d]) /\ Len(send[d]) \in Nat
        /\ DOMAIN send'[d] = 1 .. (Len(send[d]) + 1)
        /\ \A j \in 1 .. Len(send[d]) : send'[d][j] = send[d][j]
    BY <1>1, <2>1
  <2>3. QED
    BY <2>2
<1>4. QED
  BY <1>2, <1>3

LEMMA SentArrives ==
  ASSUME TypeOK, NEW c \in Clients, NEW m \in Messages, NEW who, TrySend(c, m, who),
         ~closed[c], c \notin lossy'
  PROVE  \E i \in DOMAIN send'[c] : send'[c][i] = m
<1>1. send[c] \in Seq(Messages)
  BY DEF TypeOK
<1>2. ~Full(c)
  BY DEF TrySend
<1>3. send'[c] = Append(send[c], m)
  BY <1>2 DEF TrySend, TypeOK
<1>4. Len(send[c]) \in Nat /\ DOMAIN send'[c] = 1 .. (Len(send[c]) + 1)
      /\ send'[c][Len(send[c]) + 1] = m
  BY <1>1, <1>3
<1>5. QED
  BY <1>4

(* A message that is no event leaves the events of every client alone.      *)
LEMMA EventsStay ==
  ASSUME TypeOK, NEW c \in Clients, NEW m \in Messages, NEW who, TrySend(c, m, who),
         m.type # "event", NEW d \in Clients, NEW key
  PROVE  /\ EventsOf(d, key)' = EventsOf(d, key)
         /\ \A i \in EventsOf(d, key) : send'[d][i] = send[d][i]
<1>1. \A i \in DOMAIN send[d] : i \in DOMAIN send'[d] /\ send'[d][i] = send[d][i]
  BY SentStays
<1>2. \A i \in DOMAIN send'[d] :
        \/ i \in DOMAIN send[d] /\ send'[d][i] = send[d][i]
        \/ send'[d][i] = m
  BY Sent
<1>3. QED
  BY <1>1, <1>2 DEF EventsOf

(* An event in a channel has a number that an event can have.               *)
LEMMA EventNumbers ==
  ASSUME TypeOK, NEW c \in Clients, NEW key, NEW i \in EventsOf(c, key)
  PROVE  i \in DOMAIN send[c] /\ send[c][i].no \in Nat
<1>1. send[c] \in Seq(Messages) /\ i \in DOMAIN send[c]
  BY DEF TypeOK, EventsOf
<1>2. send[c][i] \in Messages
  BY <1>1
<1>3. QED
  BY <1>1, <1>2, Capacities DEF Messages

-----------------------------------------------------------------------------
(* Steps that leave Run, the events and the subscriptions alone.            *)

LEMMA GaplessStays ==
  ASSUME NEW c \in Clients, NEW key \in Keys, Gapless(c, key),
         UNCHANGED <<broadcast, handled, current, left, chosen>>,
         subscriptions'[c] = subscriptions[c],
         EventsOf(c, key)' = EventsOf(c, key),
         \A i \in EventsOf(c, key) : send'[c][i] = send[c][i]
  PROVE  Gapless(c, key)'
<1>1. \A n : Got(c, key, n) => Got(c, key, n)'
  BY DEF Got
<1>2. EventsOf(c, key)' # {} => key \in subscriptions'[c]
  BY DEF Gapless
<1>3. chosen' = c /\ broadcast'[current'] = key => key \in subscriptions'[c]
  BY DEF Gapless
<1>4. \A i \in EventsOf(c, key)' : \A n \in (send'[c][i].no + 1) .. handled' :
        broadcast'[n] = key => Got(c, key, n)'
  BY <1>1 DEF Gapless
<1>5. ~Selecting' /\ c \notin left' /\ broadcast'[current'] = key
       /\ EventsOf(c, key)' # {} => Got(c, key, current)'
  <2>1. Got(c, key, current) => Got(c, key, current)'
    BY DEF Got
  <2>2. QED
    BY <2>1 DEF Gapless, Selecting
<1>6. QED
  BY <1>2, <1>3, <1>4, <1>5 DEF Gapless

LEMMA CalmGaps ==
  ASSUME GapsInv, UNCHANGED <<broadcast, hub, send, lossy, subscriptions>>,
         \A c \in Clients, key \in Keys : Unsubscribed(c, key) => Unsubscribed(c, key)'
  PROVE  GapInv'
<1> SUFFICES ASSUME NEW c \in (clients \ lossy)', NEW key \in Keys, ~Unsubscribed(c, key)'
             PROVE  Gapless(c, key)'
  BY DEF GapInv
<1>1. c \in Clients /\ c \in clients \ lossy
  BY DEF GapsInv, Inv, TypeOK, hub
<1>2. Gapless(c, key)
  BY <1>1 DEF GapsInv, GapInv
<1>3. EventsOf(c, key)' = EventsOf(c, key)
  BY DEF EventsOf
<1>4. QED
  BY <1>1, <1>2, <1>3, GaplessStays DEF hub

(* An acknowledgement stays on its way or in the channel.                   *)
LEMMA StillUnsubscribed ==
  ASSUME NEW c \in Clients, NEW key \in Keys, Unsubscribed(c, key),
         \A i \in DOMAIN send[c] : i \in DOMAIN send'[c] /\ send'[c][i] = send[c][i],
         reader[c] = "responding" =>
           \/ reader'[c] = "responding" /\ reply'[c] = reply[c]
           \/ \E i \in DOMAIN send'[c] : send'[c][i] = reply[c]
  PROVE  Unsubscribed(c, key)'
<1>1. CASE \E i \in DOMAIN send[c] : send[c][i].type = "unsubscribed" /\ send[c][i].key = key
  BY <1>1 DEF Unsubscribed
<1>2. CASE reader[c] = "responding" /\ reply[c].type = "unsubscribed" /\ reply[c].key = key
  BY <1>2 DEF Unsubscribed
<1>3. QED
  BY <1>1, <1>2 DEF Unsubscribed

LEMMA CalmStepsKeepGaps ==
  ASSUME GapsInv, NEW c \in Clients,
         \/ UpgradeFails(c) \/ Connect(c) \/ StartPumps(c) \/ WritePump(c) \/ WriteTimesOut(c)
         \/ ReadFails(c) \/ ReadTimesOut(c) \/ CloseAfterReading(c) \/ Disconnect(c)
  PROVE  GapInv'
<1>1. TypeOK /\ ReaderInv
  BY DEF GapsInv, Inv
<1>2. UNCHANGED <<broadcast, hub, send, lossy, subscriptions, reply>>
  BY DEF UpgradeFails, Connect, StartPumps, WritePump, TakeMessage, WriteMessage, WriteFails,
     SendClosed, PingFails, WriteTimesOut, EndWriting, ReadFails, ReadTimesOut, Leave,
     CloseAfterReading, Disconnect, events, reading, channel
<1>3. \A d \in Clients : reader[d] = "responding" => reader'[d] = "responding"
  <2>1. reader \in [Clients -> {"none", "reading", "responding", "leaving",
                               "closing", "ended"}]
    BY <1>1 DEF TypeOK
  <2>2. CASE StartPumps(c)
    BY <1>1, <2>1, <2>2 DEF StartPumps, ReaderInv
  <2>3. CASE ReadFails(c) \/ ReadTimesOut(c) \/ CloseAfterReading(c)
    BY <2>1, <2>3 DEF ReadFails, ReadTimesOut, Leave, CloseAfterReading
  <2>4. CASE UpgradeFails(c) \/ Connect(c) \/ WritePump(c) \/ WriteTimesOut(c) \/ Disconnect(c)
    BY <2>1, <2>4 DEF UpgradeFails, Connect, WritePump, TakeMessage, WriteMessage, WriteFails,
       SendClosed, PingFails, WriteTimesOut, EndWriting, Disconnect, reading
  <2>5. QED
    BY <2>2, <2>3, <2>4
<1>4. \A d \in Clients, key \in Keys : Unsubscribed(d, key) => Unsubscribed(d, key)'
  BY <1>2, <1>3, StillUnsubscribed
<1>5. QED
  BY <1>2, <1>4, CalmGaps

-----------------------------------------------------------------------------
(* Steps that send no event.                                                *)

LEMMA NoEventGaps ==
  ASSUME GapsInv, NEW c \in Clients, NEW m \in Messages, NEW who, TrySend(c, m, who),
         m.type # "event", UNCHANGED <<broadcast, hub, subscriptions>>,
         \A d \in Clients \ lossy', key \in Keys :
           Unsubscribed(d, key) => Unsubscribed(d, key)'
  PROVE  GapInv'
<1> SUFFICES ASSUME NEW d \in (clients \ lossy)', NEW key \in Keys, ~Unsubscribed(d, key)'
             PROVE  Gapless(d, key)'
  BY DEF GapInv
<1>1. TypeOK
  BY DEF GapsInv, Inv
<1>2. d \in Clients /\ d \in clients \ lossy
  BY <1>1 DEF TrySend, TypeOK, hub
<1>3. Gapless(d, key)
  BY <1>2 DEF GapsInv, GapInv
<1>4. EventsOf(d, key)' = EventsOf(d, key)
      /\ \A i \in EventsOf(d, key) : send'[d][i] = send[d][i]
  BY <1>1, <1>2, EventsStay
<1>5. QED
  BY <1>2, <1>3, <1>4, GaplessStays DEF hub

LEMMA WelcomeKeepsGaps ==
  ASSUME GapsInv, NEW c \in Clients, Welcome(c)
  PROVE  GapInv'
<1> DEFINE m == Message("connected", Nil, 0)
<1>1. m \in Messages /\ m.type # "event"
  BY Capacities DEF Message, Messages
<1> HIDE DEF m
<1>2. TrySend(c, m, "handler") /\ UNCHANGED <<broadcast, hub, subscriptions, reader, reply>>
  BY DEF Welcome, m, events, reading
<1>3. \A d \in Clients : \A i \in DOMAIN send[d] :
        i \in DOMAIN send'[d] /\ send'[d][i] = send[d][i]
  BY <1>1, <1>2, SentStays DEF GapsInv, Inv
<1>4. \A d \in Clients, key \in Keys : Unsubscribed(d, key) => Unsubscribed(d, key)'
  BY <1>2, <1>3, StillUnsubscribed
<1>5. QED
  BY <1>1, <1>2, <1>4, NoEventGaps

LEMMA RespondKeepsGaps ==
  ASSUME GapsInv, NEW c \in Clients, Respond(c)
  PROVE  GapInv'
<1>1. TypeOK /\ ReaderInv
  BY DEF GapsInv, Inv
<1> DEFINE m == reply[c]
<1>2. m \in Messages /\ m.type # "event" /\ ~closed[c]
  BY <1>1 DEF ReaderInv, Respond
<1>3. /\ TrySend(c, m, "reader") /\ UNCHANGED <<broadcast, hub, subscriptions>>
      /\ \A d \in Clients \ {c} : reader'[d] = reader[d] /\ reply'[d] = reply[d]
  BY <1>1 DEF Respond, events, TypeOK
<1> HIDE DEF m
<1>4. \A d \in Clients : \A i \in DOMAIN send[d] :
        i \in DOMAIN send'[d] /\ send'[d][i] = send[d][i]
  BY <1>1, <1>2, <1>3, SentStays
<1>5. ASSUME NEW d \in Clients \ lossy', NEW key \in Keys, Unsubscribed(d, key)
      PROVE  Unsubscribed(d, key)'
  <2>1. CASE d = c
    <3>1. \E i \in DOMAIN send'[c] : send'[c][i] = reply[c]
      BY <1>1, <1>2, <1>3, <2>1, SentArrives DEF m
    <3>2. QED
      BY <1>4, <1>5, <2>1, <3>1, StillUnsubscribed
  <2>2. CASE d # c
    BY <1>3, <1>4, <1>5, <2>2, StillUnsubscribed
  <2>3. QED
    BY <2>1, <2>2
<1>6. QED
  BY <1>2, <1>3, <1>5, NoEventGaps

(* Who gives up a key is acknowledged; whoever joins has got nothing.       *)
LEMMA HandleMessageKeepsGaps ==
  ASSUME GapsInv, NEW c \in Clients, HandleMessage(c)
  PROVE  GapInv'
<1>1. TypeOK
  BY DEF GapsInv, Inv
<1>2. /\ UNCHANGED <<broadcast, hub, send, lossy>>
      /\ reader[c] = "reading" /\ reader' = [reader EXCEPT ![c] = "responding"]
      /\ \A d \in Clients \ {c} : reply'[d] = reply[d] /\ subscriptions'[d] = subscriptions[d]
                                  /\ reader'[d] = reader[d]
  BY <1>1 DEF HandleMessage, events, channel, TypeOK
<1>3. \A key \in subscriptions[c] \ subscriptions'[c] :
        reader'[c] = "responding" /\ reply'[c].type = "unsubscribed" /\ reply'[c].key = key
  <2>1. /\ subscriptions \in [Clients -> SUBSET Keys] /\ reply \in [Clients -> Messages \cup {Nil}]
        /\ reader'[c] = "responding"
    BY <1>1, <1>2 DEF TypeOK
  <2>2. ASSUME NEW k \in Keys, subscriptions' = [subscriptions EXCEPT ![c] = @ \ {k}],
               reply' = [reply EXCEPT ![c] = Message("unsubscribed", k, 0)]
        PROVE  \A key \in subscriptions[c] \ subscriptions'[c] :
                 reply'[c].type = "unsubscribed" /\ reply'[c].key = key
    BY <2>1, <2>2 DEF Message
  <2>3. ASSUME NEW k \in Keys, subscriptions' = [subscriptions EXCEPT ![c] = @ \cup {k}]
        PROVE  subscriptions[c] \ subscriptions'[c] = {}
    BY <2>1, <2>3
  <2>4. QED
    BY <2>1, <2>2, <2>3 DEF HandleMessage
<1> SUFFICES ASSUME NEW d \in (clients \ lossy)', NEW key \in Keys, ~Unsubscribed(d, key)'
             PROVE  Gapless(d, key)'
  BY DEF GapInv
<1>4. d \in Clients /\ d \in clients \ lossy
  BY <1>1, <1>2 DEF TypeOK, hub
<1>5. ~Unsubscribed(d, key)
  BY <1>2, <1>4, StillUnsubscribed
<1>6. Gapless(d, key)
  BY <1>4, <1>5 DEF GapsInv, GapInv
<1>7. key \in subscriptions[d] => key \in subscriptions'[d]
  BY <1>2, <1>3, <1>4 DEF Unsubscribed
<1>8. EventsOf(d, key)' = EventsOf(d, key) /\ \A n : Got(d, key, n)' <=> Got(d, key, n)
  BY <1>2 DEF EventsOf, Got
<1>9. QED
  BY <1>2, <1>6, <1>7, <1>8 DEF Gapless, hub, Selecting

-----------------------------------------------------------------------------
(* Publishers and Run.                                                      *)

(* An event that is accepted is behind the ones that Run is done with.      *)
LEMMA BroadcastKeepsGaps ==
  ASSUME GapsInv, NEW k \in Keys, BroadcastEvent(k)
  PROVE  GapInv'
<1>1. TypeOK /\ HubInv
  BY DEF GapsInv, Inv
<1>2. /\ UNCHANGED <<hub, send, lossy, subscriptions, reader, reply>>
      /\ broadcast' = broadcast \/ broadcast' = Append(broadcast, k)
  BY DEF BroadcastEvent, reading, channel
<1>3. broadcast \in Seq(Keys) /\ Len(broadcast) \in Nat
      /\ handled \in Nat /\ handled <= Len(broadcast)
      /\ current \in Nat /\ current <= Len(broadcast)
  BY <1>1 DEF TypeOK
<1>4. \A n \in 1 .. Len(broadcast) : broadcast'[n] = broadcast[n]
  BY <1>2, <1>3
<1> SUFFICES ASSUME NEW c \in (clients \ lossy)', NEW key \in Keys, ~Unsubscribed(c, key)'
             PROVE  Gapless(c, key)'
  BY DEF GapInv
<1>5. c \in Clients /\ c \in clients \ lossy /\ ~Unsubscribed(c, key)
  BY <1>1, <1>2 DEF TypeOK, hub, Unsubscribed
<1>6. Gapless(c, key)
  BY <1>5 DEF GapsInv, GapInv
<1>7. EventsOf(c, key)' = EventsOf(c, key) /\ \A n : Got(c, key, n)' <=> Got(c, key, n)
  BY <1>2 DEF EventsOf, Got
<1>8. chosen' = c => ~Selecting
  BY <1>1, <1>2, <1>5, NilIsNoClient DEF HubInv, hub
<1>9. ~Selecting => broadcast'[current'] = broadcast[current]
  BY <1>2, <1>3, <1>4 DEF Selecting, hub
<1>10. \A i \in EventsOf(c, key) : \A n \in (send[c][i].no + 1) .. handled :
         broadcast'[n] = broadcast[n]
  <2> TAKE i \in EventsOf(c, key)
  <2>1. send[c][i].no \in Nat
    BY <1>1, <1>5, EventNumbers
  <2>2. QED
    BY <1>3, <1>4, <2>1
<1>11. EventsOf(c, key)' # {} => key \in subscriptions'[c]
  BY <1>2, <1>6, <1>7 DEF Gapless
<1>12. chosen' = c /\ broadcast'[current'] = key => key \in subscriptions'[c]
  BY <1>2, <1>6, <1>8, <1>9 DEF Gapless, hub
<1>13. \A i \in EventsOf(c, key)' : \A n \in (send'[c][i].no + 1) .. handled' :
         broadcast'[n] = key => Got(c, key, n)'
  BY <1>2, <1>6, <1>7, <1>10 DEF Gapless, hub
<1>14. ~Selecting' /\ c \notin left' /\ broadcast'[current'] = key
         /\ EventsOf(c, key)' # {} => Got(c, key, current)'
  <2>1. current' = current
    BY <1>2 DEF hub
  <2>2. Got(c, key, current) => Got(c, key, current)'
    BY <1>2, <2>1 DEF EventsOf, Got
  <2>3. QED
    BY <1>2, <1>6, <1>7, <1>9, <2>2 DEF Gapless, hub, Selecting
<1>15. QED
  BY <1>11, <1>12, <1>13, <1>14 DEF Gapless

LEMMA RegisterKeepsGaps ==
  ASSUME GapsInv, NEW c \in Clients, Register(c) \/ Unregister(c)
  PROVE  GapInv'
<1>1. TypeOK /\ HubInv /\ ReaderInv /\ FreshInv
  BY DEF GapsInv, Inv
<1>2. /\ UNCHANGED <<broadcast, current, left, chosen, handled, send, lossy,
                     subscriptions, reply>>
      /\ \A d \in Clients : reader[d] = "responding" => reader'[d] = "responding"
  BY <1>1 DEF Register, Unregister, TypeOK, events, reading, channel
<1> SUFFICES ASSUME NEW d \in (clients \ lossy)', NEW key \in Keys, ~Unsubscribed(d, key)'
             PROVE  Gapless(d, key)'
  BY DEF GapInv
<1>3. d \in Clients /\ d \notin lossy /\ ~Unsubscribed(d, key)
      /\ (d \in clients \/ (d = c /\ Register(c)))
  <2>1. clients' \subseteq clients \/ (clients' = clients \cup {c} /\ Register(c))
    <3>1. Register(c) => clients' = clients \cup {c}
      BY DEF Register
    <3>2. Unregister(c) => clients' = clients \ {c}
      BY DEF Unregister
    <3>3. QED
      BY <3>1, <3>2
  <2>2. d \in Clients /\ d \notin lossy /\ (d \in clients \/ (d = c /\ Register(c)))
    BY <1>1, <1>2, <2>1 DEF TypeOK
  <2>3. ~Unsubscribed(d, key)
    BY <1>2, <2>2, StillUnsubscribed
  <2>4. QED
    BY <2>2, <2>3
<1>4. EventsOf(d, key)' = EventsOf(d, key)
      /\ \A i \in EventsOf(d, key) : send'[d][i] = send[d][i]
  BY <1>2 DEF EventsOf
<1>5. Gapless(d, key)
  <2>1. CASE d \in clients
    BY <1>3, <2>1 DEF GapsInv, GapInv
  <2>2. CASE d = c /\ Register(c)
    <3>1. EventsOf(d, key) = {}
      BY <1>1, <2>2 DEF Register, FreshInv, EventsOf
    <3>2. chosen # d
      BY <1>1, <1>3, <2>2, NilIsNoClient DEF Register, HubInv
    <3>3. QED
      BY <3>1, <3>2 DEF Gapless
  <2>3. QED
    BY <1>3, <2>1, <2>2
<1>6. QED
  BY <1>2, <1>3, <1>4, <1>5, GaplessStays

LEMMA TakeEventKeepsGaps ==
  ASSUME GapsInv, TakeEvent
  PROVE  GapInv'
<1>1. TypeOK /\ HubInv
  BY DEF GapsInv, Inv
<1>2. /\ UNCHANGED <<broadcast, clients, chosen, handled, send, lossy, subscriptions,
                     reader, reply>>
      /\ left' = clients /\ chosen = Nil
  BY <1>1 DEF TakeEvent, HubInv, events, reading, channel
<1> SUFFICES ASSUME NEW c \in (clients \ lossy)', NEW key \in Keys, ~Unsubscribed(c, key)'
             PROVE  Gapless(c, key)'
  BY DEF GapInv
<1>3. c \in Clients /\ c \in clients \ lossy /\ ~Unsubscribed(c, key)
  BY <1>1, <1>2 DEF TypeOK, Unsubscribed
<1>4. Gapless(c, key)
  BY <1>3 DEF GapsInv, GapInv
<1>5. EventsOf(c, key)' = EventsOf(c, key) /\ \A n : Got(c, key, n)' <=> Got(c, key, n)
  BY <1>2 DEF EventsOf, Got
<1>6. chosen' # c /\ c \in left'
  BY <1>2, <1>3, NilIsNoClient
<1>7. QED
  BY <1>2, <1>4, <1>5, <1>6 DEF Gapless

(* Run passes over a client without sending only if the client is not       *)
(* subscribed, and then has never been, or has been acknowledged to leave.  *)
LEMMA VisitKeepsGaps ==
  ASSUME GapsInv, NEW c \in Clients, Visit(c)
  PROVE  GapInv'
<1>1. TypeOK /\ HubInv
  BY DEF GapsInv, Inv
<1>2. /\ UNCHANGED <<broadcast, clients, current, handled, send, lossy, subscriptions,
                     reader, reply>>
      /\ chosen = Nil
      /\ \/ broadcast[current] \in subscriptions[c] /\ chosen' = c /\ left' = left
         \/ broadcast[current] \notin subscriptions[c] /\ chosen' = Nil /\ left' = left \ {c}
  BY DEF Visit, IsSubscribed, events, reading, channel
<1> SUFFICES ASSUME NEW d \in (clients \ lossy)', NEW key \in Keys, ~Unsubscribed(d, key)'
             PROVE  Gapless(d, key)'
  BY DEF GapInv
<1>3. d \in Clients /\ d \in clients \ lossy /\ ~Unsubscribed(d, key)
  BY <1>1, <1>2 DEF TypeOK, Unsubscribed
<1>4. Gapless(d, key)
  BY <1>3 DEF GapsInv, GapInv
<1>5. EventsOf(d, key)' = EventsOf(d, key) /\ \A n : Got(d, key, n)' <=> Got(d, key, n)
  BY <1>2 DEF EventsOf, Got
<1>6. EventsOf(d, key)' # {} => key \in subscriptions'[d]
  BY <1>2, <1>4, <1>5 DEF Gapless
<1>7. chosen' = d /\ broadcast'[current'] = key => key \in subscriptions'[d]
  BY <1>2, <1>3, NilIsNoClient
<1>8. \A i \in EventsOf(d, key)' : \A n \in (send'[d][i].no + 1) .. handled' :
        broadcast'[n] = key => Got(d, key, n)'
  BY <1>2, <1>4, <1>5 DEF Gapless
<1>9. ~Selecting' /\ d \notin left' /\ broadcast'[current'] = key
        /\ EventsOf(d, key)' # {} => Got(d, key, current)'
  <2> SUFFICES ASSUME ~Selecting', d \notin left', broadcast[current] = key,
                      EventsOf(d, key) # {}
               PROVE  Got(d, key, current)'
    BY <1>2, <1>5
  <2>1. d \notin left
    BY <1>2, <1>4 DEF Gapless
  <2>2. Got(d, key, current)
    BY <1>2, <1>4, <2>1 DEF Gapless, Selecting
  <2>3. QED
    BY <1>2, <2>2 DEF EventsOf, Got
<1>10. QED
  BY <1>6, <1>7, <1>8, <1>9 DEF Gapless

LEMMA FinishEventKeepsGaps ==
  ASSUME GapsInv, FinishEvent
  PROVE  GapInv'
<1>1. TypeOK /\ HubInv
  BY DEF GapsInv, Inv
<1>2. /\ UNCHANGED <<broadcast, clients, left, chosen, send, lossy, subscriptions,
                     reader, reply>>
      /\ ~Selecting /\ left = {} /\ handled' = current /\ current' = 0
  BY DEF FinishEvent, events, reading, channel
<1>3. chosen = Nil /\ current = handled + 1 /\ handled \in Nat
  BY <1>1, <1>2 DEF TypeOK, Selecting
<1> SUFFICES ASSUME NEW c \in (clients \ lossy)', NEW key \in Keys, ~Unsubscribed(c, key)'
             PROVE  Gapless(c, key)'
  BY DEF GapInv
<1>4. c \in Clients /\ c \in clients \ lossy /\ ~Unsubscribed(c, key)
  BY <1>1, <1>2 DEF TypeOK, Unsubscribed
<1>5. Gapless(c, key)
  BY <1>4 DEF GapsInv, GapInv
<1>6. EventsOf(c, key)' = EventsOf(c, key) /\ \A n : Got(c, key, n)' <=> Got(c, key, n)
  BY <1>2 DEF EventsOf, Got
<1>7. EventsOf(c, key)' # {} => key \in subscriptions'[c]
  BY <1>2, <1>5, <1>6 DEF Gapless
<1>8. chosen' # c /\ Selecting'
  BY <1>2, <1>3, <1>4, NilIsNoClient DEF Selecting
<1>9. ASSUME NEW i \in EventsOf(c, key), NEW n \in (send[c][i].no + 1) .. current,
             broadcast[n] = key
      PROVE  Got(c, key, n)
  <2>1. CASE n = current
    BY <1>2, <1>5, <1>9, <2>1 DEF Gapless
  <2>2. CASE n # current
    <3>1. send[c][i].no \in Nat
      BY <1>1, <1>4, EventNumbers
    <3>2. n \in (send[c][i].no + 1) .. handled
      BY <1>3, <2>2, <3>1
    <3>3. QED
      BY <1>5, <1>9, <3>2 DEF Gapless
  <2>3. QED
    BY <2>1, <2>2
<1>10. \A i \in EventsOf(c, key)' : \A n \in (send'[c][i].no + 1) .. handled' :
         broadcast'[n] = key => Got(c, key, n)'
  BY <1>2, <1>6, <1>9
<1>11. QED
  BY <1>7, <1>8, <1>10 DEF Gapless

(* The event goes to the chosen client, which had room if it is not lossy.  *)
LEMMA SendEventKeepsGaps ==
  ASSUME GapsInv, SendEvent
  PROVE  GapInv'
<1> DEFINE m == Message("event", broadcast[current], current)
<1>1. TypeOK /\ HubInv /\ ReaderInv
  BY DEF GapsInv, Inv
<1>2. /\ chosen # Nil /\ TrySend(chosen, m, "hub")
      /\ left' = left \ {chosen} /\ chosen' = Nil
      /\ UNCHANGED <<broadcast, clients, current, handled, subscriptions, reader, reply>>
  BY DEF SendEvent, events, reading
<1>3. chosen \in left /\ chosen \in clients /\ chosen \in Clients /\ current # 0
  BY <1>1, <1>2 DEF TypeOK, HubInv, Selecting
<1>4. /\ current \in Nat /\ handled \in Nat /\ current = handled + 1
      /\ current <= Len(broadcast) /\ current <= MaxEvents /\ MaxEvents \in Nat
  BY <1>1, <1>3, Capacities DEF TypeOK
<1>5. /\ m \in Messages /\ m.type = "event" /\ m.no = current
      /\ m.key = broadcast[current]
  <2>1. broadcast[current] \in Keys
    BY <1>1, <1>3, <1>4 DEF TypeOK
  <2>2. QED
    BY <1>4, <2>1 DEF Message, Messages
<1> HIDE DEF m
<1> SUFFICES ASSUME NEW d \in (clients \ lossy)', NEW key \in Keys, ~Unsubscribed(d, key)'
             PROVE  Gapless(d, key)'
  BY DEF GapInv
<1>6. \A i \in DOMAIN send[d] : i \in DOMAIN send'[d] /\ send'[d][i] = send[d][i]
  <2>1. d \in Clients
    BY <1>1, <1>2 DEF TrySend, TypeOK
  <2>2. TypeOK /\ m \in Messages /\ chosen \in Clients /\ TrySend(chosen, m, "hub")
    BY <1>1, <1>2, <1>3, <1>5
  <2>3. QED
    BY <2>1, <2>2, SentStays
<1>7. \A i \in DOMAIN send'[d] :
        \/ i \in DOMAIN send[d] /\ send'[d][i] = send[d][i]
        \/ d = chosen /\ send'[d][i] = m
  <2>1. d \in Clients
    BY <1>1, <1>2 DEF TrySend, TypeOK
  <2>2. TypeOK /\ m \in Messages /\ chosen \in Clients /\ TrySend(chosen, m, "hub")
    BY <1>1, <1>2, <1>3, <1>5
  <2>3. QED
    BY <2>1, <2>2, Sent
<1>8. d \in Clients /\ d \in clients \ lossy /\ ~Unsubscribed(d, key)
  <2>1. d \in Clients /\ d \in clients \ lossy
    BY <1>1, <1>2 DEF TrySend, TypeOK
  <2>2. ~Unsubscribed(d, key)
    BY <1>2, <1>6, <2>1, StillUnsubscribed
  <2>3. QED
    BY <2>1, <2>2
<1>9. Gapless(d, key)
  BY <1>8 DEF GapsInv, GapInv
<1>10. \A i \in EventsOf(d, key) : i \in EventsOf(d, key)' /\ send'[d][i] = send[d][i]
  BY <1>6 DEF EventsOf
<1>11. \A i \in EventsOf(d, key)' :
         \/ i \in EventsOf(d, key) /\ send'[d][i] = send[d][i]
         \/ d = chosen /\ send'[d][i] = m /\ broadcast[current] = key
  BY <1>5, <1>7 DEF EventsOf
<1>12. \A n : Got(d, key, n) => Got(d, key, n)'
  BY <1>10 DEF Got
<1>13. EventsOf(d, key)' # {} => key \in subscriptions'[d]
  BY <1>2, <1>9, <1>11 DEF Gapless
<1>14. chosen' # d
  BY <1>2, <1>8, NilIsNoClient
<1>15. ASSUME NEW i \in EventsOf(d, key)', NEW n \in (send'[d][i].no + 1) .. handled,
              broadcast[n] = key
       PROVE  Got(d, key, n)'
  <2>1. CASE i \in EventsOf(d, key) /\ send'[d][i] = send[d][i]
    <3>1. Got(d, key, n)
      BY <1>9, <1>15, <2>1 DEF Gapless
    <3>2. QED
      BY <1>12, <3>1
  <2>2. CASE send'[d][i] = m
    BY <1>4, <1>5, <1>15, <2>2
  <2>3. QED
    BY <1>11, <1>15, <2>1, <2>2
<1>16. \A i \in EventsOf(d, key)' : \A n \in (send'[d][i].no + 1) .. handled' :
         broadcast'[n] = key => Got(d, key, n)'
  BY <1>2, <1>15
<1>17. ~Selecting' /\ d \notin left' /\ broadcast'[current'] = key
         /\ EventsOf(d, key)' # {} => Got(d, key, current)'
  <2> SUFFICES ASSUME d \notin left', broadcast[current] = key, EventsOf(d, key)' # {}
               PROVE  Got(d, key, current)'
    BY <1>2
  <2>1. CASE d = chosen
    <3>1. PICK i \in DOMAIN send'[d] : send'[d][i] = m
      BY <1>1, <1>2, <1>3, <1>5, <2>1, SentArrives DEF ReaderInv
    <3>2. i \in EventsOf(d, key)' /\ send'[d][i].no = current'
      BY <1>2, <1>5, <3>1 DEF EventsOf
    <3>3. QED
      BY <3>2 DEF Got
  <2>2. CASE d # chosen
    <3>1. d \notin left /\ EventsOf(d, key) # {} /\ ~Selecting
      BY <1>2, <1>3, <1>11, <2>2 DEF Selecting
    <3>2. Got(d, key, current)
      BY <1>9, <3>1 DEF Gapless
    <3>3. PICK i \in EventsOf(d, key) : send[d][i].no = current
      BY <3>2 DEF Got
    <3>4. i \in EventsOf(d, key)' /\ send'[d][i].no = current'
      BY <1>2, <1>10, <3>3
    <3>5. QED
      BY <3>4 DEF Got
  <2>3. QED
    BY <2>1, <2>2
<1>18. QED
  BY <1>13, <1>14, <1>16, <1>17 DEF Gapless

-----------------------------------------------------------------------------

(* Only a client that is registered is sent anything.                       *)
LEMMA FreshKeeps ==
  ASSUME GapsInv, [Next]_vars
  PROVE  FreshInv'
<1>1. TypeOK /\ HubInv /\ ReaderInv /\ FreshInv
  BY DEF GapsInv, Inv
<1>2. handler \in [Clients -> {"none", "refused", "registering", "registered",
                              "welcoming", "returned"}]
  BY <1>1 DEF TypeOK
<1>3. CASE UNCHANGED <<handler, clients, send>>
  BY <1>1, <1>3 DEF FreshInv
<1>4. ASSUME NEW c \in Clients, NEW m, NEW who, TrySend(c, m, who), UNCHANGED clients,
             handler[c] \notin {"none", "registering"},
             handler' = handler \/ handler' = [handler EXCEPT ![c] = "returned"]
      PROVE  FreshInv'
  <2>1. \A d \in Clients \ {c} : send'[d] = send[d]
    BY <1>1, <1>4 DEF TrySend, TypeOK
  <2>2. \A d \in Clients : handler'[d] \in {"none", "registering"} =>
          d # c /\ handler'[d] = handler[d]
    BY <1>2, <1>4
  <2>3. QED
    BY <1>1, <1>4, <2>1, <2>2 DEF FreshInv
<1>5. CASE \E key \in Keys : BroadcastEvent(key)
  BY <1>3, <1>5 DEF BroadcastEvent, hub, channel
<1>6. CASE Run
  <2>1. CASE TakeEvent \/ FinishEvent \/ \E c \in Clients : Visit(c)
    BY <1>3, <2>1 DEF TakeEvent, FinishEvent, Visit, channel
  <2>2. ASSUME NEW c \in Clients, Register(c) PROVE FreshInv'
    BY <1>1, <1>2, <2>2 DEF Register, FreshInv, channel
  <2>3. ASSUME NEW c \in Clients, Unregister(c) PROVE FreshInv'
    BY <1>1, <2>3 DEF Unregister, FreshInv
  <2>4. CASE SendEvent
    <3>1. chosen \in clients /\ chosen \in Clients
      BY <1>1, <2>4 DEF SendEvent, TypeOK
    <3>2. handler[chosen] \notin {"none", "registering"}
      BY <1>1, <3>1 DEF FreshInv
    <3>3. QED
      BY <1>4, <2>4, <3>1, <3>2 DEF SendEvent
  <2>5. QED
    BY <1>6, <2>1, <2>2, <2>3, <2>4 DEF Run
<1>7. ASSUME NEW c \in Clients,
             UpgradeFails(c) \/ Connect(c) \/ Handler(c) \/ ReadPump(c) \/ WritePump(c)
               \/ HandleMessage(c)
               \/ ReadTimesOut(c) \/ WriteTimesOut(c) \/ Disconnect(c)
      PROVE  FreshInv'
  <2>1. CASE UpgradeFails(c) \/ Connect(c) \/ StartPumps(c)
    BY <1>1, <1>2, <2>1 DEF UpgradeFails, Connect, StartPumps, FreshInv, hub, channel
  <2>2. CASE Welcome(c)
    BY <1>2, <1>4, <2>2 DEF Welcome, hub
  <2>3. CASE Respond(c)
    BY <1>1, <1>4, <2>3 DEF Respond, ReaderInv, hub
  <2>4. CASE ReadFails(c) \/ ReadTimesOut(c) \/ CloseAfterReading(c) \/ HandleMessage(c)
    BY <1>3, <2>4 DEF ReadFails, ReadTimesOut, Leave, CloseAfterReading, HandleMessage,
       hub, channel
  <2>5. CASE WritePump(c) \/ WriteTimesOut(c) \/ Disconnect(c)
    BY <1>3, <2>5 DEF WritePump, TakeMessage, WriteMessage, WriteFails, SendClosed,
       PingFails, WriteTimesOut, EndWriting, Disconnect, hub, channel
  <2>6. QED
    BY <1>7, <2>1, <2>2, <2>3, <2>4, <2>5 DEF Handler, ReadPump
<1>8. CASE Quiet \/ UNCHANGED vars
  BY <1>3, <1>8 DEF Quiet, vars, hub, channel
<1>9. QED
  BY <1>5, <1>6, <1>7, <1>8 DEF Next

LEMMA GapsInit == Init => GapsInv
<1> SUFFICES ASSUME Init PROVE GapsInv
  OBVIOUS
<1>1. FreshInv /\ GapInv
  BY DEF Init, FreshInv, GapInv
<1>2. QED
  BY <1>1, InitInv DEF GapsInv

LEMMA GapsNext == GapsInv /\ [Next]_vars => GapsInv'
<1> SUFFICES ASSUME GapsInv, [Next]_vars PROVE GapsInv'
  OBVIOUS
<1>1. Inv'
  BY NextKeeps DEF GapsInv
<1>2. FreshInv'
  BY FreshKeeps
<1>3. GapInv'
  <2>1. CASE UNCHANGED vars
    <3>1. UNCHANGED <<broadcast, hub, send, lossy, subscriptions, reader, reply>>
      BY <2>1 DEF vars, events, reading, channel
    <3>2. \A c \in Clients, key \in Keys : Unsubscribed(c, key) => Unsubscribed(c, key)'
      BY <3>1 DEF Unsubscribed
    <3>3. QED
      BY <3>1, <3>2, CalmGaps
  <2>2. CASE \E key \in Keys : BroadcastEvent(key)
    BY <2>2, BroadcastKeepsGaps
  <2>3. CASE Run
    BY <2>3, RegisterKeepsGaps, VisitKeepsGaps, TakeEventKeepsGaps, SendEventKeepsGaps,
       FinishEventKeepsGaps DEF Run
  <2>4. ASSUME NEW c \in Clients,
               UpgradeFails(c) \/ Connect(c) \/ Handler(c) \/ ReadPump(c) \/ WritePump(c)
                 \/ HandleMessage(c)
                 \/ ReadTimesOut(c) \/ WriteTimesOut(c) \/ Disconnect(c)
        PROVE  GapInv'
    BY <2>4, CalmStepsKeepGaps, WelcomeKeepsGaps, RespondKeepsGaps, HandleMessageKeepsGaps
       DEF Handler, ReadPump
  <2>5. CASE Quiet
    BY <2>1, <2>5 DEF Quiet
  <2>6. QED
    BY <2>1, <2>2, <2>3, <2>4, <2>5 DEF Next
<1>4. QED
  BY <1>1, <1>2, <1>3 DEF GapsInv

(* The invariant behind NoGaps: once a client has got an event of a key and *)
(* neither dropped a message nor unsubscribed, it is subscribed and has got *)
(* every event of the key since then.                                       *)
THEOREM GapsInvariance == Spec => []GapsInv
BY GapsInit, GapsNext, PTL DEF Spec

(* A slow client costs the others nothing: whoever always had room in its   *)
(* buffer and never unsubscribed misses no event after its first, whoever   *)
(* else connects, stalls or leaves in the middle of a broadcast.            *)
THEOREM SlowOnesHarmNobody == Spec => []NoGaps
<1>1. GapsInv => NoGaps
  BY DEF GapsInv, GapInv, Gapless, Got, NoGaps
<1>2. QED
  BY <1>1, GapsInvariance, PTL
=============================================================================
