------------------------ MODULE PaymentUpdatesProofs ------------------------
(***************************************************************************)
(* However often the connection of PaymentUpdates ends, opens and          *)
(* reconnects, and whatever is sent over it: there is one of it, and a bot *)
(* that has got the list it asked for has missed no update.                *)
(***************************************************************************)
EXTENDS PaymentUpdates, FoldLemmas, SequenceTheorems

-----------------------------------------------------------------------------
(* The inductive invariant.                                                *)

Sockets == {"none", "connecting", "open"}

Connections ==
  [ws : Sockets, connected : BOOLEAN, wasConnected : BOOLEAN,
   jsonrpcId : Nat \ {0}, outgoing : SUBSET Requests, waiting : SUBSET Requests,
   reconnects : Nat, live : Nat, up : Seq(Requests)]

\* A connection without a socket has left a reconnection, and only such a one; the
\* flag tells that the socket is open.
Linked(c) ==
  /\ c.live = IF c.ws = "none" THEN 0 ELSE 1
  /\ c.reconnects = IF c.ws = "none" THEN 1 ELSE 0
  /\ c.connected = (c.ws = "open")

\* The requests that have been made and not been forgotten, somewhere.
Made(c) == c.outgoing \cup c.waiting \cup {c.up[i] : i \in 1 .. Len(c.up)}

\* Numbers are not used twice: an answer settles no other request.
Numbered(c) ==
  /\ \A q \in Made(c) : q.id < c.jsonrpcId
  /\ \A r \in c.outgoing, q \in Made(c) : q.id = r.id => q = r

Sound(c) == c \in Connections /\ Linked(c) /\ Numbered(c)

Events(us) ==
  [kind : {"subscription"}, update : us] \cup [kind : {"answer"}, id : Nat, error : BOOLEAN]

\* The update is on its way to the bot.
Coming(u, d) == \E i \in 1 .. Len(d) : d[i] = Notification(u)
Got(u) == u \in received \/ Coming(u, down)

\* A list is asked for up to a time that has come; a recovering one by a bot that
\* is notified, and so gets what is made from then on.
Asks(r) ==
  r.call.method = "list_payment_updates" =>
    /\ r.call.to <= now
    /\ r.call.recovering =>
         subscribed /\ \A u \in made : u.time > r.call.to => Got(u)

\* What the answer that is on its way tells of the request.
Tells(r) ==
  /\ r.call.method = "subscribe" => subscribed
  /\ r.call.method = "list_payment_updates" =>
       \A u \in made :
         u.time >= r.call.from /\ (r.call.recovering \/ u.time < r.call.to) => Got(u)

\* The updates there are: numbered as they are made, and not in the future.
Dated ==
  /\ IsFiniteSet(made) /\ made \subseteq Updates
  /\ \A u \in made : u.n <= Cardinality(made) /\ u.time <= now
  /\ \A u, v \in made : u.n = v.n => u = v

TypeInv ==
  /\ now \in Times
  /\ cursor \in 0 .. now /\ saved \in 0 .. now /\ saving \subseteq 1 .. now
  /\ subscribed \in BOOLEAN /\ refused \in BOOLEAN
  /\ down \in Seq(Events(made))
  /\ received \subseteq made
  /\ failures \in 0 .. MaxFailures

\* Nothing is asked for before the bot knows from when on.
Recovery ==
  /\ cursor = 0 => conn.outgoing = {}
  /\ \A r \in conn.outgoing : Asks(r)
  /\ \A i \in 1 .. Len(down) : down[i].kind = "answer" =>
       /\ down[i].id < conn.jsonrpcId
       /\ ~ down[i].error => \A r \in conn.outgoing : r.id = down[i].id => Tells(r)

IInv == Sound(conn) /\ Dated /\ TypeInv /\ Recovery

-----------------------------------------------------------------------------
(* What a request does to the connection.                                  *)

\* Numbers stay unique when requests are only forgotten.
LEMMA FewerNumbered ==
  ASSUME NEW c, Sound(c), NEW d \in Connections,
         d.outgoing \subseteq c.outgoing, Made(d) \subseteq Made(c), d.jsonrpcId = c.jsonrpcId
  PROVE  Numbered(d)
  BY DEF Sound, Numbered

LEMMA SendsSoundly ==
  ASSUME NEW c, Sound(c), NEW r \in Requests, r.id < c.jsonrpcId,
         \A k \in c.outgoing : k.id = r.id => r = k
  PROVE  /\ Sound(trySend(c, r))
         /\ trySend(c, r).outgoing = c.outgoing /\ trySend(c, r).jsonrpcId = c.jsonrpcId
  <1> DEFINE d == [c EXCEPT !.waiting = @ \cup {r}]
             e == [c EXCEPT !.up = Append(@, r), !.waiting = @ \ {r}]
  <1>1. c \in Connections /\ c.up \in Seq(Requests)
    BY DEF Sound, Connections
  <1>2. \A q \in Made(c) \cup {r} : q.id < c.jsonrpcId
    BY DEF Sound, Numbered
  <1>3. \A k \in c.outgoing, q \in Made(c) \cup {r} : q.id = k.id => q = k
    BY DEF Sound, Numbered
  <1>4. Sound(d) /\ d.outgoing = c.outgoing /\ d.jsonrpcId = c.jsonrpcId
    <2>1. c.waiting \cup {r} \in SUBSET Requests
      BY <1>1 DEF Connections
    <2>2. d \in Connections
      BY <1>1, <2>1 DEF Connections
    <2>3. d.outgoing = c.outgoing /\ d.jsonrpcId = c.jsonrpcId
      BY <1>1 DEF Connections
    <2>4. Made(d) = Made(c) \cup {r}
      BY <1>1 DEF Connections, Made
    <2>5. Linked(d)
      BY <1>1 DEF Sound, Connections, Linked
    <2>6. Numbered(d)
      <3> HIDE DEF d
      <3> QED BY <1>2, <1>3, <2>3, <2>4 DEF Numbered
    <2> QED BY <2>2, <2>3, <2>5, <2>6 DEF Sound
  <1>5. Sound(e) /\ e.outgoing = c.outgoing /\ e.jsonrpcId = c.jsonrpcId
    <2>1. c.waiting \ {r} \in SUBSET Requests /\ Append(c.up, r) \in Seq(Requests)
      BY <1>1 DEF Connections
    <2>2. e \in Connections
      BY <1>1, <2>1 DEF Connections
    <2>3. e.outgoing = c.outgoing /\ e.jsonrpcId = c.jsonrpcId
      BY <1>1 DEF Connections
    <2>4. Made(e) \subseteq Made(c) \cup {r}
      <3>1. e.waiting = c.waiting \ {r} /\ e.up = Append(c.up, r)
        BY <1>1 DEF Connections
      <3>2. /\ Len(Append(c.up, r)) = Len(c.up) + 1
            /\ \A i \in 1 .. Len(c.up) : Append(c.up, r)[i] = c.up[i]
            /\ Append(c.up, r)[Len(c.up) + 1] = r
        BY <1>1, AppendProperties
      <3>3. \A i \in 1 .. Len(c.up) + 1 : i \in 1 .. Len(c.up) \/ i = Len(c.up) + 1
        BY <1>1
      <3> HIDE DEF e
      <3>4. \A i \in 1 .. Len(e.up) : e.up[i] \in Made(c) \cup {r}
        BY <3>1, <3>2, <3>3 DEF Made
      <3> QED BY <2>3, <3>1, <3>4 DEF Made
    <2>5. Linked(e)
      BY <1>1 DEF Sound, Connections, Linked
    <2>6. Numbered(e)
      <3> HIDE DEF e
      <3> QED BY <1>2, <1>3, <2>3, <2>4 DEF Numbered
    <2> QED BY <2>2, <2>3, <2>5, <2>6 DEF Sound
  <1> HIDE DEF d, e
  <1>6. trySend(c, r) = d \/ trySend(c, r) = e
    BY DEF trySend, d, e
  <1> QED BY <1>4, <1>5, <1>6

\* The request that a connection makes next.
Asked(c, call) == [id |-> c.jsonrpcId, call |-> call]

LEMMA RequestsSoundly ==
  ASSUME NEW c, Sound(c), NEW call \in Calls
  PROVE  /\ Sound(sendRequest(c, call))
         /\ sendRequest(c, call).outgoing = c.outgoing \cup {Asked(c, call)}
         /\ sendRequest(c, call).jsonrpcId = c.jsonrpcId + 1
  <1> DEFINE r == Asked(c, call)
             d == [c EXCEPT !.jsonrpcId = @ + 1, !.outgoing = @ \cup {r}]
  <1>1. r \in Requests /\ r.id = c.jsonrpcId /\ c.jsonrpcId \in Nat \ {0}
    BY DEF Sound, Connections, Requests, Asked
  <1>2. c \in Connections
    BY DEF Sound
  <1> HIDE DEF r
  <1>3. d \in Connections
    <2>1. c.outgoing \cup {r} \in SUBSET Requests /\ c.jsonrpcId + 1 \in Nat \ {0}
      BY <1>1, <1>2 DEF Connections
    <2> QED BY <1>2, <2>1 DEF Connections
  <1>4. d.outgoing = c.outgoing \cup {r} /\ d.jsonrpcId = c.jsonrpcId + 1
    BY <1>2 DEF Connections
  <1>5. Made(d) = Made(c) \cup {r}
    BY <1>2 DEF Connections, Made
  <1>6. Linked(d)
    BY <1>2 DEF Sound, Connections, Linked
  <1>7. \A q \in Made(c) : q.id < c.jsonrpcId /\ q.id \in Nat
    <2>1. \A q \in Made(c) : q \in Requests
      BY <1>2 DEF Made, Connections
    <2> QED BY <2>1 DEF Sound, Numbered, Requests
  <1> HIDE DEF d
  <1>8. Numbered(d)
    <2>1. \A q \in Made(d) : q.id < d.jsonrpcId
      BY <1>1, <1>4, <1>5, <1>7
    <2>2. \A q \in Made(c) : q.id # r.id
      BY <1>1, <1>7
    <2>3. ASSUME NEW k \in d.outgoing, NEW q \in Made(d), q.id = k.id
          PROVE  q = k
      <3>1. c.outgoing \subseteq Made(c)
        BY DEF Made
      <3>2. CASE k = r \/ q = r
        BY <1>4, <1>5, <2>2, <2>3, <3>1, <3>2
      <3>3. CASE k # r /\ q # r
        BY <1>4, <1>5, <2>3, <3>3 DEF Sound, Numbered
      <3> QED BY <3>2, <3>3
    <2> QED BY <2>1, <2>3 DEF Numbered
  <1>9. Sound(d)
    BY <1>3, <1>6, <1>8 DEF Sound
  <1>10. r.id < d.jsonrpcId /\ \A k \in d.outgoing : k.id = r.id => r = k
    <2>1. r \in Made(d) /\ r \in d.outgoing
      BY <1>4, <1>5
    <2> QED BY <1>8, <2>1 DEF Numbered
  <1>11. /\ Sound(trySend(d, r))
         /\ trySend(d, r).outgoing = d.outgoing /\ trySend(d, r).jsonrpcId = d.jsonrpcId
    BY <1>1, <1>9, <1>10, SendsSoundly
  <1>12. sendRequest(c, call) = trySend(d, r)
    BY DEF sendRequest, d, r, Asked
  <1> QED BY <1>4, <1>11, <1>12 DEF r

LEMMA SettlesSoundly ==
  ASSUME NEW c, Sound(c), NEW id
  PROVE  /\ Sound(answered(c, id))
         /\ answered(c, id).outgoing \subseteq c.outgoing
         /\ answered(c, id).jsonrpcId = c.jsonrpcId
  <1> DEFINE left == c.outgoing \ settledBy(c, id)
             d    == [c EXCEPT !.outgoing = left]
  <1>1. left \subseteq c.outgoing /\ c \in Connections
    BY DEF Sound
  <1> HIDE DEF left
  <1>2. d \in Connections
    BY <1>1 DEF Connections
  <1>3. d.outgoing = left /\ d.jsonrpcId = c.jsonrpcId
    BY <1>1 DEF Connections
  <1>4. Made(d) \subseteq Made(c)
    BY <1>1 DEF Connections, Made
  <1>5. Linked(d)
    BY <1>1 DEF Sound, Connections, Linked
  <1>6. Numbered(d)
    <2> HIDE DEF d
    <2> QED BY <1>1, <1>2, <1>3, <1>4, FewerNumbered
  <1>7. answered(c, id) = d
    BY DEF answered, left
  <1> QED BY <1>1, <1>2, <1>3, <1>5, <1>6, <1>7 DEF Sound

-----------------------------------------------------------------------------
(* What the events of the socket do to it.                                 *)

\* The close event of a socket that an error event has already taken care of
\* finds no socket, and leaves the one reconnection.
LEMMA EndsSoundly ==
  ASSUME NEW c, Sound(c), c.ws # "none", NEW error \in BOOLEAN
  PROVE  Sound(ended(c, error)) /\ ended(c, error).outgoing = {}
  <1> DEFINE d == [c EXCEPT !.live = @ - 1, !.up = <<>>]
             e == [d EXCEPT !.connected = FALSE, !.outgoing = {}, !.ws = "none", !.reconnects = @ + 1]
  <1>1. /\ d \in Connections /\ d.ws # "none"
        /\ d.live = 0 /\ d.reconnects = 0
    <2>1. c.live = 1 /\ c.reconnects = 0 /\ c.live - 1 = 0
      BY DEF Sound, Linked
    <2>2. <<>> \in Seq(Requests) /\ c.live - 1 \in Nat
      BY <2>1
    <2>3. d \in Connections
      BY <2>2 DEF Sound, Connections
    <2> QED BY <2>1, <2>3 DEF Sound, Connections
  <1>2. Made(d) \subseteq Made(c) /\ d.waiting = c.waiting /\ d.jsonrpcId = c.jsonrpcId
    BY DEF Sound, Connections, Made
  <1> HIDE DEF d
  <1>3. onClose(d) = e
    BY <1>1 DEF onClose, disconnected, rejectAll, reconnects, Connections
  <1>4. e \in Connections /\ e.ws = "none" /\ ~ e.connected /\ e.outgoing = {}
    <2>1. {} \in SUBSET Requests /\ d.reconnects + 1 = 1 /\ d.reconnects + 1 \in Nat
      BY <1>1
    <2>2. e \in Connections
      BY <1>1, <2>1 DEF Connections, Sockets
    <2> QED BY <1>1, <2>2 DEF Connections, Sockets
  <1>5. Linked(e)
    <2>1. e.live = 0 /\ e.reconnects = 1
      BY <1>1 DEF Connections
    <2>2. e.connected = FALSE
      BY <1>1 DEF Connections
    <2> QED BY <1>4, <2>1, <2>2 DEF Linked
  <1>6. Numbered(e)
    <2>1. e.jsonrpcId = c.jsonrpcId
      BY <1>1, <1>2 DEF Connections
    <2>2. Made(e) \subseteq Made(c)
      BY <1>1, <1>2 DEF Connections, Made
    <2> HIDE DEF e
    <2> QED BY <1>4, <2>1, <2>2, FewerNumbered
  <1>7. Sound(e)
    BY <1>4, <1>5, <1>6 DEF Sound
  <1> HIDE DEF e
  <1>8. onClose(e) = e
    BY <1>4 DEF onClose, disconnected, rejectAll, reconnects, Connections
  <1>9. onError(d) = e
    BY <1>1, <1>3 DEF onError
  <1>10. ended(c, error) = onClose(IF error THEN onError(d) ELSE d)
    BY DEF ended, d
  <1> QED BY <1>3, <1>4, <1>7, <1>8, <1>9, <1>10

LEMMA OpensSoundly ==
  ASSUME NEW c, Sound(c), c.ws = "connecting"
  PROVE  /\ Sound(onOpen(c))
         /\ onOpen(c).outgoing = c.outgoing /\ onOpen(c).jsonrpcId = c.jsonrpcId
  <1> DEFINE d == [c EXCEPT !.ws = "open", !.connected = TRUE, !.wasConnected = TRUE]
  <1>1. d \in Connections
    BY DEF Sound, Connections, Sockets
  <1>2. d.outgoing = c.outgoing /\ d.jsonrpcId = c.jsonrpcId
    BY DEF Sound, Connections
  <1>3. Made(d) = Made(c)
    BY DEF Sound, Connections, Made
  <1>4. Linked(d)
    BY DEF Sound, Connections, Linked
  <1>5. onOpen(c) = d
    BY DEF onOpen
  <1> HIDE DEF d
  <1>6. Numbered(d)
    BY <1>1, <1>2, <1>3, FewerNumbered
  <1> QED BY <1>1, <1>2, <1>4, <1>5, <1>6 DEF Sound

LEMMA ReconnectsSoundly ==
  ASSUME NEW c, Sound(c), c.reconnects > 0
  PROVE  /\ Sound(reconnect(c))
         /\ reconnect(c).outgoing = c.outgoing /\ reconnect(c).jsonrpcId = c.jsonrpcId
  <1>1. c.ws = "none" /\ c.live = 0 /\ c.reconnects = 1
    BY DEF Sound, Linked
  <1> DEFINE d == [c EXCEPT !.reconnects = @ - 1]
             e == [d EXCEPT !.ws = "connecting", !.live = @ + 1]
  <1>2. d \in Connections /\ d.live = 0 /\ d.reconnects = 0
    <2>1. c.reconnects - 1 = 0 /\ c.reconnects - 1 \in Nat /\ c \in Connections
      BY <1>1 DEF Sound
    <2>2. d \in Connections
      BY <2>1 DEF Connections
    <2> QED BY <1>1, <2>1, <2>2 DEF Connections
  <1>3. Made(d) = Made(c) /\ d.outgoing = c.outgoing /\ d.jsonrpcId = c.jsonrpcId
    BY DEF Sound, Connections, Made
  <1>4. d.connected = FALSE
    <2>1. d.connected = c.connected
      BY DEF Sound, Connections
    <2> QED BY <1>1, <2>1 DEF Sound, Linked
  <1> HIDE DEF d
  <1>5. e \in Connections /\ e.ws = "connecting" /\ e.live = 1 /\ e.reconnects = 0
    <2>1. d.live + 1 = 1 /\ d.live + 1 \in Nat
      BY <1>2
    <2>2. e \in Connections
      BY <1>2, <2>1 DEF Connections, Sockets
    <2> QED BY <1>2, <2>1, <2>2 DEF Connections, Sockets
  <1>6. e.connected = FALSE
    BY <1>2, <1>4 DEF Connections
  <1>7. Made(e) = Made(c) /\ e.outgoing = c.outgoing /\ e.jsonrpcId = c.jsonrpcId
    BY <1>2, <1>3 DEF Connections, Made
  <1>8. reconnect(c) = e
    BY DEF reconnect, connect, d
  <1> HIDE DEF e
  <1>9. Numbered(e)
    BY <1>5, <1>7, FewerNumbered
  <1>10. Linked(e)
    BY <1>5, <1>6 DEF Linked
  <1> QED BY <1>5, <1>7, <1>8, <1>9, <1>10 DEF Sound

LEMMA StartsSoundly == Sound(connect(NewConnection)) /\ connect(NewConnection).outgoing = {}
  <1>1. <<>> \in Seq(Requests)
    OBVIOUS
  <1>2. /\ NewConnection \in Connections /\ NewConnection.live = 0 /\ NewConnection.reconnects = 0
        /\ NewConnection.outgoing = {} /\ NewConnection.waiting = {} /\ NewConnection.up = <<>>
    BY <1>1 DEF Connections, NewConnection, Sockets
  <1>3. NewConnection.connected = FALSE
    BY DEF NewConnection
  <1> DEFINE c == [NewConnection EXCEPT !.ws = "connecting", !.live = @ + 1]
  <1>4. c \in Connections /\ c.ws = "connecting" /\ c.live = 1 /\ c.reconnects = 0
    <2>1. NewConnection.live + 1 = 1 /\ NewConnection.live + 1 \in Nat
      BY <1>2
    <2>2. c \in Connections
      BY <1>2, <2>1 DEF Connections, Sockets
    <2> QED BY <1>2, <2>1, <2>2 DEF Connections, Sockets
  <1>5. c.outgoing = {} /\ c.waiting = {} /\ c.up = <<>>
    BY <1>2 DEF Connections
  <1>6. c.connected = FALSE
    BY <1>2, <1>3 DEF Connections
  <1>7. connect(NewConnection) = c
    BY DEF connect
  <1> HIDE DEF c
  <1>8. Made(c) = {}
    <2>1. 1 .. Len(<<>>) = {}
      OBVIOUS
    <2> QED BY <1>5, <2>1 DEF Made
  <1>9. Numbered(c) /\ Linked(c)
    BY <1>4, <1>5, <1>6, <1>8 DEF Numbered, Linked
  <1> QED BY <1>4, <1>5, <1>7, <1>9 DEF Sound

-----------------------------------------------------------------------------
(* The calls the bot makes.                                                *)

LEMMA CallsAreCalls ==
  ASSUME NEW from \in 0 .. MaxTime, NEW to \in 0 .. MaxTime, NEW recovering \in BOOLEAN
  PROVE  /\ subscribe(from, recovering) \in Calls
         /\ list_payment_updates(from, to, recovering) \in Calls
  BY UpdatesAssumption DEF Calls, subscribe, list_payment_updates

-----------------------------------------------------------------------------
(* What is on its way to the bot.                                          *)

LEMMA ComesAfter ==
  ASSUME NEW S, NEW d \in Seq(S), NEW e \in Seq(S), NEW u, Coming(u, d) \/ Coming(u, e)
  PROVE  Coming(u, d \o e)
  <1>1. /\ Len(d) \in Nat /\ Len(e) \in Nat /\ Len(d \o e) = Len(d) + Len(e)
        /\ \A i \in 1 .. Len(d) + Len(e) : (d \o e)[i] = IF i <= Len(d) THEN d[i] ELSE e[i - Len(d)]
    BY ConcatProperties, LenProperties
  <1>2. CASE Coming(u, d)
    <2>1. PICK i \in 1 .. Len(d) : d[i] = Notification(u)
      BY <1>2 DEF Coming
    <2>2. i \in 1 .. Len(d) + Len(e) /\ i <= Len(d)
      BY <1>1
    <2> QED BY <1>1, <2>1, <2>2 DEF Coming
  <1>3. CASE Coming(u, e)
    <2>1. PICK i \in 1 .. Len(e) : e[i] = Notification(u)
      BY <1>3 DEF Coming
    <2>2. Len(d) + i \in 1 .. Len(d) + Len(e) /\ ~ (Len(d) + i <= Len(d)) /\ (Len(d) + i) - Len(d) = i
      BY <1>1
    <2> QED BY <1>1, <2>1, <2>2 DEF Coming
  <1> QED BY <1>2, <1>3

LEMMA ComesNext ==
  ASSUME NEW S, NEW d \in Seq(S), d # <<>>, NEW u, Coming(u, d)
  PROVE  d[1] = Notification(u) \/ Coming(u, Tail(d))
  <1>1. PICK i \in 1 .. Len(d) : d[i] = Notification(u)
    BY DEF Coming
  <1>2. /\ Len(d) \in Nat /\ Len(Tail(d)) = Len(d) - 1
        /\ \A k \in 1 .. Len(Tail(d)) : Tail(d)[k] = d[k + 1]
    BY HeadTailProperties, LenProperties
  <1>3. CASE i = 1
    BY <1>1, <1>3
  <1>4. CASE i # 1
    <2>1. i - 1 \in 1 .. Len(Tail(d)) /\ (i - 1) + 1 = i
      BY <1>2, <1>4
    <2> QED BY <1>1, <1>2, <2>1 DEF Coming
  <1> QED BY <1>3, <1>4

-----------------------------------------------------------------------------
(* The list of the service.                                                *)

Sorted(s, us) ==
  /\ s \in [1 .. Cardinality(us) -> us]
  /\ \A i, j \in 1 .. Cardinality(us) : i < j => s[i].n < s[j].n

LEMMA CanBeSorted ==
  ASSUME NEW us, IsFiniteSet(us), us \subseteq Updates, \A u, v \in us : u.n = v.n => u = v
  PROVE  \E s : Sorted(s, us)
  <1> DEFINE sortable == {T \in SUBSET us : \E s : Sorted(s, T)}
  <1>1. ASSUME NEW T \in SUBSET us, \A U \in SUBSET T : U # T => U \in sortable
        PROVE  T \in sortable
    <2>1. IsFiniteSet(T) /\ Cardinality(T) \in Nat /\ (Cardinality(T) = 0 <=> T = {})
      BY FS_Subset, FS_CardinalityType, FS_EmptySet
    <2>2. CASE T = {}
      <3>1. Sorted([i \in 1 .. Cardinality(T) |-> 0], T)
        BY <2>1, <2>2 DEF Sorted
      <3> QED BY <3>1
    <2>3. CASE T # {}
      <3> DEFINE numbers == {u.n : u \in T}
      <3>1. \A u \in T : u.n \in Nat /\ u.n <= MaxUpdates
        BY UpdatesAssumption DEF Updates
      <3>2. PICK m \in T : \A u \in T : u.n <= m.n
        <4>1. numbers \subseteq Nat /\ numbers # {} /\ \A x \in numbers : x <= MaxUpdates
          BY <2>3, <3>1
        <4>2. MaxUpdates \in Nat
          BY UpdatesAssumption
        <4>3. Max(numbers) \in numbers /\ \A x \in numbers : x <= Max(numbers)
          <5> HIDE DEF numbers
          <5> QED BY <4>1, <4>2, MaxOfNaturals
        <4> QED BY <4>3
      <3> DEFINE R == T \ {m}
      <3>3. R \in sortable /\ Cardinality(R) = Cardinality(T) - 1
        <4>1. R \in SUBSET T /\ R # T
          OBVIOUS
        <4>2. R \in sortable
          <5> HIDE DEF sortable, R
          <5> QED BY <1>1, <4>1
        <4>3. Cardinality(R) = Cardinality(T) - 1
          BY <2>1, FS_RemoveElement
        <4> QED BY <4>2, <4>3
      <3>4. PICK s : Sorted(s, R)
        BY <3>3
      <3> DEFINE N == Cardinality(T)
                 f == [i \in 1 .. N |-> IF i = N THEN m ELSE s[i]]
      <3>5. N \in Nat \ {0} /\ \A i \in 1 .. N : i # N => i \in 1 .. Cardinality(R)
        BY <2>1, <2>3, <3>3
      <3>6. \A i \in 1 .. N : i # N => s[i] \in R
        BY <3>4, <3>5 DEF Sorted
      <3>7. f \in [1 .. N -> T]
        BY <3>6
      <3>8. \A u \in R : u.n < m.n
        <4>1. ASSUME NEW u \in R PROVE u.n < m.n
          <5>1. u \in T /\ u # m /\ u.n # m.n
            OBVIOUS
          <5>2. u.n \in Nat /\ m.n \in Nat /\ u.n <= m.n
            BY <3>1, <3>2, <5>1
          <5> QED BY <5>1, <5>2
        <4> QED BY <4>1
      <3>9. ASSUME NEW i \in 1 .. N, NEW j \in 1 .. N, i < j
            PROVE  f[i].n < f[j].n
        <4>1. i # N /\ i \in 1 .. Cardinality(R) /\ f[i] = s[i]
          BY <3>5, <3>9
        <4>2. CASE j = N
          BY <3>6, <3>8, <4>1, <4>2
        <4>3. CASE j # N
          BY <3>4, <3>5, <3>9, <4>1, <4>3 DEF Sorted
        <4> QED BY <4>2, <4>3
      <3>10. Sorted(f, T)
        <4> HIDE DEF f
        <4> QED BY <3>7, <3>9 DEF Sorted
      <3> QED BY <3>10
    <2> QED BY <2>2, <2>3
  <1>2. SUBSET us \subseteq sortable
    <2> HIDE DEF sortable
    <2> QED BY <1>1, SubsetsByInduction
  <1> QED BY <1>2

\* The service lists each of the updates, and nothing else.
LEMMA ListsAll ==
  ASSUME NEW us, IsFiniteSet(us), us \subseteq Updates, \A u, v \in us : u.n = v.n => u = v
  PROVE  /\ Cardinality(us) \in Nat
         /\ InOrder(us) \in [1 .. Cardinality(us) -> us]
         /\ \A u \in us : \E i \in 1 .. Cardinality(us) : InOrder(us)[i] = u
  <1> DEFINE N == Cardinality(us)
             f == InOrder(us)
  <1>1. N \in Nat
    BY FS_CardinalityType
  <1>2. \E s \in [1 .. N -> us] : \A i, j \in 1 .. N : i < j => s[i].n < s[j].n
    BY CanBeSorted DEF Sorted
  <1>3. f \in [1 .. N -> us] /\ \A i, j \in 1 .. N : i < j => f[i].n < f[j].n
    BY <1>2 DEF InOrder
  <1> HIDE DEF f, N
  <1>4. \A i \in 1 .. N : f[i].n \in Nat
    BY <1>3 DEF Updates
  <1>5. ASSUME NEW i \in 1 .. N, NEW j \in 1 .. N, f[i] = f[j]
        PROVE  i = j
    <2>1. ~ (i < j) /\ ~ (j < i)
      BY <1>3, <1>4, <1>5
    <2> QED BY <1>1, <2>1
  <1>6. f \in Injection(1 .. N, us)
    BY <1>3, <1>5 DEF Injection, IsInjective
  <1>7. Cardinality(1 .. N) = N
    BY <1>1, FS_Interval
  <1>8. f \in Surjection(1 .. N, us)
    BY <1>6, <1>7, FS_Injection DEF N
  <1> QED BY <1>1, <1>3, <1>8 DEF f, N, Surjection

-----------------------------------------------------------------------------
(* What is known of the requests goes on to be known.                      *)

LEMMA StepRecovers ==
  ASSUME Sound(conn), Recovery, down \in Seq(Events(made)), now \in Nat, now' \in Nat, now <= now',
         conn'.jsonrpcId \in Nat, conn.jsonrpcId <= conn'.jsonrpcId,
         subscribed => subscribed',
         \A u \in made : Got(u) => Got(u)',
         \A u \in made' : u \in made \/ (u.time = now /\ (subscribed => Got(u)')),
         \A r \in conn'.outgoing : r \in conn.outgoing \/ (r.id >= conn.jsonrpcId /\ Asks(r)'),
         cursor' = 0 => conn'.outgoing = {},
         \A i \in 1 .. Len(down') : down'[i].kind = "answer" =>
           \/ \E j \in 1 .. Len(down) : down[j] = down'[i]
           \/ /\ down'[i].id < conn'.jsonrpcId
              /\ ~ down'[i].error => \A r \in conn'.outgoing : r.id = down'[i].id => Tells(r)'
  PROVE  Recovery'
  <1>1. \A r \in conn.outgoing : r.id \in Nat /\ r.id < conn.jsonrpcId /\ r.call.to \in Nat
    BY UpdatesAssumption DEF Sound, Connections, Requests, Calls, Numbered, Made
  <1>2. conn.jsonrpcId \in Nat
    BY DEF Sound, Connections
  <1>3. ASSUME NEW r \in conn.outgoing PROVE Asks(r)'
    <2> SUFFICES ASSUME r.call.method = "list_payment_updates"
                 PROVE  /\ r.call.to <= now'
                        /\ r.call.recovering =>
                             subscribed' /\ \A u \in made' : u.time > r.call.to => Got(u)'
      BY DEF Asks
    <2>1. Asks(r) /\ r.call.to \in Nat
      BY <1>1 DEF Recovery
    <2>2. r.call.to <= now /\ r.call.to <= now'
      BY <2>1 DEF Asks
    <2>3. ASSUME r.call.recovering
          PROVE  subscribed' /\ \A u \in made' : u.time > r.call.to => Got(u)'
      <3>1. subscribed /\ \A u \in made : u.time > r.call.to => Got(u)
        BY <2>1, <2>3 DEF Asks
      <3> QED BY <3>1
    <2> QED BY <2>2, <2>3
  <1>4. ASSUME NEW r \in conn.outgoing, Tells(r) PROVE Tells(r)'
    <2>1. r.call.method = "subscribe" => subscribed'
      BY <1>4 DEF Tells
    <2>2. ASSUME r.call.method = "list_payment_updates", NEW u \in made',
                 u.time >= r.call.from, r.call.recovering \/ u.time < r.call.to
          PROVE  Got(u)'
      <3>1. CASE u \in made
        BY <1>4, <2>2, <3>1 DEF Tells
      <3>2. CASE u \notin made
        <4>1. u.time = now /\ (subscribed => Got(u)')
          BY <3>2
        <4>2. Asks(r) /\ r.call.to \in Nat
          BY <1>1 DEF Recovery
        <4>3. ~ (u.time < r.call.to)
          BY <2>2, <4>1, <4>2 DEF Asks
        <4> QED BY <2>2, <4>1, <4>2, <4>3 DEF Asks
      <3> QED BY <3>1, <3>2
    <2> QED BY <2>1, <2>2 DEF Tells
  <1>5. ASSUME NEW i \in 1 .. Len(down'), down'[i].kind = "answer"
        PROVE  /\ down'[i].id < conn'.jsonrpcId
               /\ ~ down'[i].error => \A r \in conn'.outgoing : r.id = down'[i].id => Tells(r)'
    <2>1. CASE \E j \in 1 .. Len(down) : down[j] = down'[i]
      <3>1. PICK j \in 1 .. Len(down) : down[j] = down'[i]
        BY <2>1
      <3>2. down[j] \in Events(made)
        BY LenProperties
      <3>3. down[j].id \in Nat /\ down[j].id < conn.jsonrpcId
        BY <1>5, <3>1, <3>2 DEF Events, Recovery
      <3>4. ASSUME ~ down'[i].error, NEW r \in conn'.outgoing, r.id = down'[i].id
            PROVE  Tells(r)'
        <4>1. r \in conn.outgoing
          BY <1>2, <3>1, <3>3, <3>4
        <4>2. Tells(r)
          BY <1>5, <3>1, <3>4, <4>1 DEF Recovery
        <4> QED BY <1>4, <4>1, <4>2
      <3>5. down'[i].id < conn'.jsonrpcId
        BY <1>2, <3>1, <3>3
      <3> QED BY <3>4, <3>5
    <2> QED BY <1>5, <2>1
  <1>6. \A r \in conn'.outgoing : Asks(r)'
    BY <1>3
  <1> QED BY <1>5, <1>6 DEF Recovery

\* There is nothing to know when no request is left.
LEMMA FreshRecovers ==
  ASSUME conn'.outgoing = {}, down' = <<>>
  PROVE  Recovery'
  BY DEF Recovery

\* A step that leaves what is on its way to the bot, and makes no update.
LEMMA SilentRecovers ==
  ASSUME IInv, UNCHANGED <<subscribed, down, made, received>>, now' \in Nat, now <= now',
         Sound(conn)', conn.jsonrpcId <= conn'.jsonrpcId,
         \A r \in conn'.outgoing : r \in conn.outgoing \/ (r.id >= conn.jsonrpcId /\ Asks(r)'),
         cursor' = 0 => conn'.outgoing = {}
  PROVE  Recovery'
  <1>1. now \in Nat
    BY DEF IInv, TypeInv, Times
  <1>2. conn'.jsonrpcId \in Nat
    BY DEF Sound, Connections
  <1>3. \A u \in made : Got(u) => Got(u)'
    BY DEF Got
  <1>4. \A i \in 1 .. Len(down') : \E j \in 1 .. Len(down) : down[j] = down'[i]
    OBVIOUS
  <1> QED BY <1>1, <1>2, <1>3, <1>4, StepRecovers DEF IInv, TypeInv

-----------------------------------------------------------------------------
(* Every step keeps the invariant.                                         *)

LEMMA InitSound == Init => IInv
  <1> SUFFICES ASSUME Init PROVE IInv
    OBVIOUS
  <1>1. Sound(conn)
    <2>1. conn = connect(NewConnection)
      BY DEF Init
    <2> HIDE DEF Init
    <2> QED BY <2>1, StartsSoundly
  <1>2. conn.outgoing = {}
    BY StartsSoundly DEF Init
  <1>3. made = {} /\ Dated
    BY FS_EmptySet DEF Init, Dated
  <1>4. 1 \in Times /\ 0 \in 0 .. 1 /\ 0 \in 0 .. MaxFailures
    BY UpdatesAssumption DEF Times
  <1>5. <<>> \in Seq(Events(made))
    OBVIOUS
  <1>6. TypeInv
    BY <1>4, <1>5 DEF Init, TypeInv
  <1>7. Recovery
    BY <1>2 DEF Init, Recovery
  <1> QED BY <1>1, <1>3, <1>6, <1>7 DEF IInv

LEMMA ConfigureSound ==
  ASSUME IInv, NEW fails \in BOOLEAN, configureServices(fails)
  PROVE  IInv'
  <1> DEFINE last == IF fails THEN 0 ELSE saved
             c == sendRequest(conn, subscribe(0, FALSE))
             d == sendRequest(c, list_payment_updates(last, now, FALSE))
             r == Asked(conn, subscribe(0, FALSE))
             q == Asked(c, list_payment_updates(last, now, FALSE))
  <1>1. /\ last \in 0 .. MaxTime /\ now \in 0 .. MaxTime /\ 0 \in 0 .. MaxTime
        /\ last \in 0 .. now /\ now \in Nat \ {0}
    BY UpdatesAssumption DEF IInv, TypeInv, Times
  <1>2. /\ cursor' = IF last = 0 THEN now ELSE last
        /\ conn' = IF last = 0 THEN c ELSE d
        /\ UNCHANGED <<subscribed, refused, down, saved, saving, now, made, received>>
        /\ failures' \in 0 .. MaxFailures
    BY UpdatesAssumption DEF configureServices, Failing, IInv, TypeInv
  <1>3. subscribe(0, FALSE) \in Calls /\ list_payment_updates(last, now, FALSE) \in Calls
    <2> HIDE DEF last
    <2> QED BY <1>1, CallsAreCalls
  <1>4. Sound(c) /\ c.outgoing = conn.outgoing \cup {r} /\ c.jsonrpcId = conn.jsonrpcId + 1
    BY <1>3, RequestsSoundly DEF IInv
  <1> HIDE DEF c
  <1>5. Sound(d) /\ d.outgoing = c.outgoing \cup {q} /\ d.jsonrpcId = c.jsonrpcId + 1
    BY <1>3, <1>4, RequestsSoundly
  <1>6. conn.jsonrpcId \in Nat
    BY DEF IInv, Sound, Connections
  <1>7. r.id = conn.jsonrpcId /\ r.call.method = "subscribe"
    BY DEF Asked, subscribe
  <1>8. q.id = c.jsonrpcId /\ q.call.to = now /\ q.call.recovering = FALSE
    BY DEF Asked, list_payment_updates
  <1> HIDE DEF last, d, r, q
  <1>9. /\ \A k : k.call.method = "subscribe" => Asks(k)'
        /\ \A k : k.call.to = now /\ k.call.recovering = FALSE => Asks(k)'
    BY <1>1, <1>2 DEF Asks
  <1>10. ASSUME NEW k \in conn'.outgoing, k \notin conn.outgoing
         PROVE  k.id >= conn.jsonrpcId /\ Asks(k)'
    <2>1. k = r \/ k = q
      BY <1>2, <1>4, <1>5, <1>10
    <2>2. r.id >= conn.jsonrpcId /\ q.id >= conn.jsonrpcId
      BY <1>4, <1>6, <1>7, <1>8
    <2>3. Asks(k)'
      BY <1>7, <1>8, <1>9, <2>1
    <2> QED BY <2>1, <2>2, <2>3
  <1>11. Sound(conn)' /\ conn.jsonrpcId <= conn'.jsonrpcId
    <2>1. Sound(conn') /\ conn.jsonrpcId <= conn'.jsonrpcId
      BY <1>2, <1>4, <1>5, <1>6
    <2> QED BY <2>1
  <1>12. cursor' \in 0 .. now /\ cursor' # 0
    BY <1>1, <1>2
  <1>13. Recovery'
    BY <1>1, <1>2, <1>10, <1>11, <1>12, SilentRecovers
  <1>14. Dated' /\ TypeInv'
    BY <1>2, <1>12 DEF IInv, Dated, TypeInv
  <1> QED BY <1>11, <1>13, <1>14 DEF IInv

\* What is left alone when only the connection changes.
Rest == <<subscribed, refused, down, cursor, saved, saving, now, made, received>>

LEMMA ConnectionChanges ==
  ASSUME IInv, UNCHANGED <<Rest, failures>>, Sound(conn)', conn.jsonrpcId <= conn'.jsonrpcId,
         \A r \in conn'.outgoing : r \in conn.outgoing \/ (r.id >= conn.jsonrpcId /\ Asks(r)'),
         cursor = 0 => conn'.outgoing = {}
  PROVE  IInv'
  <1>1. now \in Nat
    BY DEF IInv, TypeInv, Times
  <1>2. Recovery'
    BY <1>1, SilentRecovers DEF Rest
  <1>3. Dated' /\ TypeInv'
    BY DEF IInv, Dated, TypeInv, Rest
  <1> QED BY <1>2, <1>3 DEF IInv

LEMMA OpensKeeps ==
  ASSUME IInv, Opens
  PROVE  IInv'
  <1> DEFINE c == onOpen(conn)
             d == resubscribe(c)
             r == Asked(c, subscribe(cursor, TRUE))
  <1>1. /\ Sound(c) /\ c.outgoing = conn.outgoing /\ c.jsonrpcId = conn.jsonrpcId
        /\ conn.jsonrpcId \in Nat
    BY OpensSoundly DEF IInv, Opens, Sound, Connections
  <1>2. cursor \in 0 .. MaxTime /\ 0 \in 0 .. MaxTime
    BY UpdatesAssumption DEF IInv, TypeInv, Times
  <1> HIDE DEF c
  <1>3. subscribe(cursor, TRUE) \in Calls
    BY <1>2, CallsAreCalls
  <1>4. ASSUME cursor # 0
        PROVE  /\ Sound(d) /\ d.outgoing = c.outgoing \cup {r} /\ d.jsonrpcId = c.jsonrpcId + 1
               /\ r.id = c.jsonrpcId /\ r.call.method = "subscribe"
    <2>1. d = sendRequest(c, subscribe(cursor, TRUE))
      BY <1>4 DEF resubscribe
    <2>2. r.id = c.jsonrpcId /\ r.call.method = "subscribe"
      BY DEF Asked, subscribe
    <2> QED BY <1>1, <1>3, <2>1, <2>2, RequestsSoundly
  <1>5. cursor = 0 => d = c
    BY DEF resubscribe
  <1>6. UNCHANGED <<Rest, failures>> /\ (conn' = c \/ conn' = d)
    BY DEF Opens, Rest, c
  <1> HIDE DEF d, r
  <1>7. \A k : k.call.method = "subscribe" => Asks(k)'
    BY DEF Asks
  <1>8. \A k \in conn'.outgoing : k \in conn.outgoing \/ (k.id >= conn.jsonrpcId /\ Asks(k)')
    BY <1>1, <1>4, <1>5, <1>6, <1>7
  <1>9. Sound(conn') /\ conn.jsonrpcId <= conn'.jsonrpcId
    BY <1>1, <1>4, <1>5, <1>6
  <1>10. cursor = 0 => conn'.outgoing = {}
    BY <1>1, <1>5, <1>6 DEF IInv, Recovery
  <1> QED BY <1>6, <1>8, <1>9, <1>10, ConnectionChanges

LEMMA ReconnectsKeeps ==
  ASSUME IInv, Reconnects
  PROVE  IInv'
  <1>1. /\ Sound(conn') /\ conn'.outgoing = conn.outgoing /\ conn'.jsonrpcId = conn.jsonrpcId
        /\ conn.jsonrpcId \in Nat
    BY ReconnectsSoundly DEF IInv, Reconnects, Sound, Connections
  <1>2. UNCHANGED <<Rest, failures>>
    BY DEF Reconnects, Rest
  <1>3. cursor = 0 => conn'.outgoing = {}
    BY <1>1 DEF IInv, Recovery
  <1> QED BY <1>1, <1>2, <1>3, ConnectionChanges

LEMMA RetriesKeeps ==
  ASSUME IInv, NEW r \in conn.waiting, Retries(r)
  PROVE  IInv'
  <1>1. Sound(conn) /\ r \in Requests /\ r \in Made(conn) /\ conn.jsonrpcId \in Nat
    BY DEF IInv, Sound, Connections, Made
  <1>2. r.id < conn.jsonrpcId /\ \A k \in conn.outgoing : k.id = r.id => r = k
    BY <1>1 DEF Sound, Numbered
  <1>3. /\ Sound(trySend(conn, r))
        /\ trySend(conn, r).outgoing = conn.outgoing /\ trySend(conn, r).jsonrpcId = conn.jsonrpcId
    BY <1>1, <1>2, SendsSoundly
  <1>4. UNCHANGED <<Rest, failures>> /\ conn' = trySend(conn, r)
    BY DEF Retries, Rest
  <1>5. cursor = 0 => conn'.outgoing = {}
    BY <1>3, <1>4 DEF IInv, Recovery
  <1> QED BY <1>1, <1>3, <1>4, <1>5, ConnectionChanges

LEMMA EndsKeeps ==
  ASSUME IInv, NEW error \in BOOLEAN, Ends(error)
  PROVE  IInv'
  <1>1. Sound(conn') /\ conn'.outgoing = {}
    BY EndsSoundly DEF IInv, Ends
  <1>2. /\ subscribed' = FALSE /\ refused' = FALSE /\ down' = <<>>
        /\ UNCHANGED <<cursor, saved, saving, now, made, received>>
        /\ failures' \in 0 .. MaxFailures
    BY UpdatesAssumption DEF Ends, Failing, IInv, TypeInv
  <1>3. Recovery'
    BY <1>1, <1>2, FreshRecovers
  <1>4. Dated'
    BY <1>2 DEF IInv, Dated
  <1>5. TypeInv'
    <2>1. <<>> \in Seq(Events(made)) /\ FALSE \in BOOLEAN
      OBVIOUS
    <2>2. down' \in Seq(Events(made)) /\ subscribed' \in BOOLEAN /\ refused' \in BOOLEAN
      BY <1>2, <2>1, Zenon
    <2>3. Events(made)' = Events(made)
      BY <1>2
    <2> QED BY <1>2, <2>2, <2>3 DEF IInv, TypeInv
  <1> QED BY <1>1, <1>3, <1>4, <1>5 DEF IInv

LEMMA CrashKeeps ==
  ASSUME IInv, Crash
  PROVE  IInv'
  <1>1. Sound(conn') /\ conn'.outgoing = {}
    BY StartsSoundly DEF Crash
  <1>2. /\ subscribed' = FALSE /\ refused' = FALSE /\ down' = <<>> /\ cursor' = 0 /\ saving' = {}
        /\ UNCHANGED <<saved, now, made, received>>
        /\ failures' \in 0 .. MaxFailures
    BY UpdatesAssumption DEF Crash, Failing, IInv, TypeInv
  <1>3. Recovery'
    BY <1>1, <1>2, FreshRecovers
  <1>4. Dated'
    BY <1>2 DEF IInv, Dated
  <1>5. 0 \in 0 .. now
    BY DEF IInv, TypeInv, Times
  <1>6. TypeInv'
    <2>1. <<>> \in Seq(Events(made)) /\ FALSE \in BOOLEAN
      OBVIOUS
    <2>2. down' \in Seq(Events(made)) /\ subscribed' \in BOOLEAN /\ refused' \in BOOLEAN
      BY <1>2, <2>1, Zenon
    <2>3. Events(made)' = Events(made)
      BY <1>2
    <2> QED BY <1>2, <1>5, <2>2, <2>3 DEF IInv, TypeInv
  <1> QED BY <1>1, <1>3, <1>4, <1>6 DEF IInv

LEMMA SavedKeeps ==
  ASSUME IInv, NEW t \in saving, NEW fails \in BOOLEAN, Saved(t, fails)
  PROVE  IInv'
  <1>1. /\ UNCHANGED <<conn, subscribed, refused, down, cursor, now, made, received>>
        /\ saving' = saving \ {t} /\ (saved' = saved \/ saved' = t)
        /\ failures' \in 0 .. MaxFailures
    BY UpdatesAssumption DEF Saved, Failing, IInv, TypeInv
  <1>2. now \in Nat /\ conn.jsonrpcId \in Nat
    BY DEF IInv, TypeInv, Times, Sound, Connections
  <1>3. saved' \in 0 .. now
    BY <1>1, <1>2 DEF IInv, TypeInv
  <1>4. cursor' = 0 => conn'.outgoing = {}
    BY <1>1 DEF IInv, Recovery
  <1>5. Sound(conn)'
    BY <1>1 DEF IInv
  <1>6. Recovery'
    BY <1>1, <1>2, <1>4, <1>5, SilentRecovers
  <1>7. Dated' /\ TypeInv'
    BY <1>1, <1>3 DEF IInv, Dated, TypeInv
  <1> QED BY <1>5, <1>6, <1>7 DEF IInv

LEMMA TickKeeps ==
  ASSUME IInv, Tick
  PROVE  IInv'
  <1>1. /\ UNCHANGED <<conn, subscribed, refused, down, cursor, saved, saving, made, received, failures>>
        /\ now' = now + 1 /\ now' \in Times /\ now \in Nat /\ conn.jsonrpcId \in Nat
    BY UpdatesAssumption DEF Tick, IInv, TypeInv, Times, Sound, Connections
  <1>2. Sound(conn)'
    BY <1>1 DEF IInv
  <1>3. cursor' = 0 => conn'.outgoing = {}
    BY <1>1 DEF IInv, Recovery
  <1>4. Recovery'
    BY <1>1, <1>2, <1>3, SilentRecovers
  <1>5. Dated'
    <2>1. \A u \in made : u.time \in Nat /\ u.time <= now
      BY DEF IInv, Dated, Updates, Times
    <2> QED BY <1>1, <2>1 DEF IInv, Dated
  <1>6. TypeInv'
    <2>1. cursor' \in 0 .. now' /\ saved' \in 0 .. now'
      BY <1>1 DEF IInv, TypeInv
    <2>2. saving' \subseteq 1 .. now'
      BY <1>1 DEF IInv, TypeInv
    <2> QED BY <1>1, <2>1, <2>2 DEF IInv, TypeInv
  <1> QED BY <1>2, <1>4, <1>5, <1>6 DEF IInv

\* A notification is received, if there is a request whose answer could need it.
LEMMA NotifiedKeeps ==
  ASSUME IInv, onMessage, Head(down).kind = "subscription"
  PROVE  IInv'
  <1> DEFINE e == Head(down)
             u == e.update
  <1>1. /\ down # <<>> /\ down' = Tail(down)
        /\ UNCHANGED <<conn, subscribed, refused, saved, now, made, failures>>
        /\ IF cursor = 0 THEN UNCHANGED <<cursor, saving, received>>
           ELSE cursor' = now /\ saving' = saving \cup {now} /\ received' = received \cup {u}
    BY DEF onMessage, Notified
  <1>2. down \in Seq(Events(made)) /\ now \in Nat \ {0} /\ conn.jsonrpcId \in Nat
    BY DEF IInv, TypeInv, Times, Sound, Connections
  <1>3. /\ down[1] = e /\ e \in Events(made) /\ Tail(down) \in Seq(Events(made))
        /\ Len(Tail(down)) = Len(down) - 1 /\ Len(down) \in Nat
        /\ \A i \in 1 .. Len(Tail(down)) : Tail(down)[i] = down[i + 1]
    BY <1>1, <1>2, HeadTailProperties, LenProperties
  <1>4. u \in made
    BY <1>3 DEF Events
  <1>5. /\ \A i \in 1 .. Len(down') : \E j \in 1 .. Len(down) : down[j] = down'[i]
    <2>1. \A i \in 1 .. Len(Tail(down)) : i + 1 \in 1 .. Len(down)
      BY <1>3
    <2> QED BY <1>1, <1>3, <2>1
  <1>6. Sound(conn)'
    BY <1>1 DEF IInv
  <1>7. Recovery'
    <2>1. CASE cursor = 0
      <3>1. conn'.outgoing = {} /\ conn.outgoing = {} /\ conn' = conn
        BY <1>1, <2>1 DEF IInv, Recovery
      <3>2. \A i \in 1 .. Len(down') : down'[i].kind = "answer" => down'[i].id < conn'.jsonrpcId
        BY <1>5, <3>1 DEF IInv, Recovery
      <3> QED BY <3>1, <3>2 DEF Recovery
    <2>2. CASE cursor # 0
      <3>1. \A v : Got(v) => Got(v)'
        <4>1. ASSUME NEW v, Got(v) PROVE Got(v)'
          <5>1. CASE v \in received
            BY <1>1, <2>2, <5>1 DEF Got
          <5>2. CASE Coming(v, down)
            <6>1. down[1] = Notification(v) \/ Coming(v, Tail(down))
              BY <1>1, <1>2, <5>2, ComesNext
            <6>2. down[1] = Notification(v) => v = u
              BY <1>3 DEF Notification
            <6> QED BY <1>1, <2>2, <6>1, <6>2 DEF Got
          <5> QED BY <4>1, <5>1, <5>2 DEF Got
        <4> QED BY <4>1
      <3>2. cursor' # 0 /\ now' = now /\ conn' = conn /\ made' = made /\ subscribed' = subscribed
        BY <1>1, <1>2, <2>2
      <3> HIDE DEF e, u
      <3> QED BY <1>2, <1>5, <3>1, <3>2, StepRecovers DEF IInv
    <2> QED BY <2>1, <2>2
  <1>8. Dated'
    BY <1>1 DEF IInv, Dated
  <1>9. TypeInv'
    <2>1. cursor' \in 0 .. now /\ saving' \subseteq 1 .. now
      <3>1. now \in 0 .. now /\ now \in 1 .. now
        BY <1>2
      <3>2. cursor \in 0 .. now /\ saving \subseteq 1 .. now
        BY DEF IInv, TypeInv
      <3> QED BY <1>1, <3>1, <3>2
    <2>2. received' \subseteq made
      BY <1>1, <1>4 DEF IInv, TypeInv
    <2>3. down' \in Seq(Events(made))
      BY <1>1, <1>3
    <2>4. Events(made)' = Events(made)
      BY <1>1
    <2> QED BY <1>1, <2>1, <2>2, <2>3, <2>4 DEF IInv, TypeInv
  <1> QED BY <1>6, <1>7, <1>8, <1>9 DEF IInv

\* The answer to a recovering subscription tells that the bot is notified, so the
\* list it asks for next will miss nothing.
LEMMA AnsweredAsks ==
  ASSUME IInv, NEW e, Answered(e), now' = now, made' = made, subscribed' = subscribed,
         \A r \in conn.outgoing : r.id = e.id /\ ~ e.error => Tells(r)
  PROVE  /\ Sound(conn)' /\ conn.jsonrpcId <= conn'.jsonrpcId
         /\ \A r \in conn'.outgoing : r \in conn.outgoing \/ (r.id >= conn.jsonrpcId /\ Asks(r)')
         /\ conn.outgoing = {} => conn'.outgoing = {}
  <1> DEFINE c    == answered(conn, e.id)
             asks == {r \in settledBy(conn, e.id) : r.call.method = "subscribe" /\ r.call.recovering}
  <1>1. /\ Sound(c) /\ c.outgoing \subseteq conn.outgoing /\ c.jsonrpcId = conn.jsonrpcId
        /\ conn.jsonrpcId \in Nat
    BY SettlesSoundly DEF IInv, Sound, Connections
  <1>2. asks \subseteq conn.outgoing /\ asks \subseteq Requests /\ \A r \in asks : r.id = e.id
    BY DEF IInv, Sound, Connections, settledBy
  <1>3. ~ e.error => \A r \in asks : subscribed
    BY <1>2 DEF Tells
  <1>4. conn' = IF asks = {} \/ e.error THEN c
                ELSE LET r == CHOOSE r \in asks : TRUE IN
                     sendRequest(c, list_payment_updates(r.call.from, now, TRUE))
    BY DEF Answered
  <1> HIDE DEF c, asks
  <1>5. CASE asks = {} \/ e.error
    <2>1. conn' = c
      BY <1>4, <1>5
    <2> QED BY <1>1, <2>1
  <1>6. CASE ~ (asks = {} \/ e.error)
    <2>1. PICK r \in asks : conn' = sendRequest(c, list_payment_updates(r.call.from, now, TRUE))
      <3>1. (CHOOSE r \in asks : TRUE) \in asks
        BY <1>6
      <3> QED BY <1>4, <1>6, <3>1
    <2>2. r.call.from \in 0 .. MaxTime
      BY <1>2 DEF Requests, Calls
    <2>3. now \in 0 .. MaxTime /\ now \in Nat
      BY UpdatesAssumption DEF IInv, TypeInv, Times
    <2>4. list_payment_updates(r.call.from, now, TRUE) \in Calls
      BY <2>2, <2>3, CallsAreCalls, Zenon
    <2>5. PICK q : q = Asked(c, list_payment_updates(r.call.from, now, TRUE))
      OBVIOUS
    <2>6. /\ Sound(conn') /\ conn'.outgoing = c.outgoing \cup {q}
          /\ conn'.jsonrpcId = conn.jsonrpcId + 1
      BY <1>1, <2>1, <2>4, <2>5, RequestsSoundly
    <2>7. q.id = conn.jsonrpcId /\ q.call.to = now
      BY <1>1, <2>5 DEF Asked, list_payment_updates
    <2>8. subscribed' /\ \A u \in made' : ~ (u.time > now)
      <3>1. subscribed
        BY <1>3, <1>6
      <3>2. \A u \in made : u.time \in Nat /\ u.time <= now
        BY DEF IInv, Dated, Updates, Times
      <3> QED BY <2>3, <3>1, <3>2
    <2>9. Asks(q)'
      BY <2>3, <2>7, <2>8 DEF Asks
    <2>10. conn.outgoing # {}
      BY <1>2, <1>6
    <2> QED BY <1>1, <2>6, <2>7, <2>9, <2>10
  <1> QED BY <1>5, <1>6

\* What the answer to a list tells is what the bot has by then.
ListStep ==
  onMessage /\ Head(down).kind = "answer" /\ ~ Head(down).error =>
    \A r \in settledBy(conn, Head(down).id) : CatchesUp(r.call)

LEMMA AnsweredKeeps ==
  ASSUME IInv, onMessage, Head(down).kind # "subscription"
  PROVE  IInv' /\ ListStep
  <1> DEFINE e == Head(down)
  <1>1. /\ down # <<>> /\ down' = Tail(down) /\ Answered(e)
        /\ UNCHANGED <<subscribed, refused, saved, now, made, failures, cursor, saving, received>>
    BY DEF onMessage, Answered
  <1>2. down \in Seq(Events(made)) /\ now \in Nat \ {0} /\ conn.jsonrpcId \in Nat
    BY DEF IInv, TypeInv, Times, Sound, Connections
  <1>3. /\ down[1] = e /\ e \in Events(made) /\ Tail(down) \in Seq(Events(made))
        /\ Len(Tail(down)) = Len(down) - 1 /\ Len(down) \in Nat
        /\ \A i \in 1 .. Len(Tail(down)) : Tail(down)[i] = down[i + 1]
    BY <1>1, <1>2, HeadTailProperties, LenProperties
  <1>4. e.kind = "answer" /\ 1 \in 1 .. Len(down)
    BY <1>1, <1>3 DEF Events
  <1>5. \A i \in 1 .. Len(down') : \E j \in 1 .. Len(down) : down[j] = down'[i]
    <2>1. \A i \in 1 .. Len(Tail(down)) : i + 1 \in 1 .. Len(down)
      BY <1>3
    <2> QED BY <1>1, <1>3, <2>1
  <1>6. ~ e.error => \A r \in conn.outgoing : r.id = e.id => Tells(r)
    BY <1>3, <1>4 DEF IInv, Recovery
  <1>7. \A v : Got(v) => Got(v)'
    <2>1. ASSUME NEW v, Got(v) PROVE Got(v)'
      <3>1. CASE v \in received
        BY <1>1, <3>1 DEF Got
      <3>2. CASE Coming(v, down)
        <4>1. down[1] = Notification(v) \/ Coming(v, Tail(down))
          BY <1>1, <1>2, <3>2, ComesNext
        <4>2. down[1] # Notification(v)
          BY <1>3, <1>4 DEF Notification
        <4> QED BY <1>1, <4>1, <4>2 DEF Got
      <3> QED BY <2>1, <3>1, <3>2 DEF Got
    <2> QED BY <2>1
  <1> HIDE DEF e
  <1>8. /\ Sound(conn)' /\ conn.jsonrpcId <= conn'.jsonrpcId
        /\ \A r \in conn'.outgoing : r \in conn.outgoing \/ (r.id >= conn.jsonrpcId /\ Asks(r)')
        /\ conn.outgoing = {} => conn'.outgoing = {}
    BY <1>1, <1>6, AnsweredAsks
  <1>9. conn'.jsonrpcId \in Nat /\ (cursor' = 0 => conn'.outgoing = {})
    BY <1>1, <1>8 DEF IInv, Recovery, Sound, Connections
  <1>10. Recovery'
    BY <1>1, <1>2, <1>5, <1>7, <1>8, <1>9, StepRecovers DEF IInv
  <1>11. Dated'
    BY <1>1 DEF IInv, Dated
  <1>12. TypeInv'
    <2>1. down' \in Seq(Events(made)) /\ Events(made)' = Events(made)
      BY <1>1, <1>3
    <2> QED BY <1>1, <2>1 DEF IInv, TypeInv
  <1>13. ListStep
    <2> SUFFICES ASSUME ~ e.error, NEW r \in settledBy(conn, e.id),
                        r.call.method = "list_payment_updates", NEW u \in made,
                        u.time >= r.call.from, r.call.recovering \/ u.time < r.call.to
                 PROVE  u \in received' \/ \E i \in DOMAIN down' : down'[i] = Notification(u)
      BY DEF ListStep, CatchesUp, e
    <2>1. r \in conn.outgoing /\ r.id = e.id
      BY DEF settledBy
    <2>2. Got(u)
      BY <1>6, <2>1 DEF Tells
    <2>3. Got(u)'
      BY <1>7, <2>2
    <2>4. DOMAIN down' = 1 .. Len(down')
      BY <1>1, <1>3
    <2> QED BY <2>3, <2>4 DEF Got, Coming
  <1> QED BY <1>8, <1>10, <1>11, <1>12, <1>13 DEF IInv

LEMMA ThreeParts ==
  ASSUME NEW S, NEW d \in Seq(S), NEW l \in Seq(S), NEW a \in S
  PROVE  /\ d \o l \o <<a>> \in Seq(S) /\ d \o l \in Seq(S) /\ <<a>> \in Seq(S)
         /\ Len(d) \in Nat /\ Len(d \o l \o <<a>>) = Len(d) + Len(l) + 1
         /\ \A i \in 1 .. Len(d) : (d \o l \o <<a>>)[i] = d[i]
         /\ \A i \in 1 .. Len(l) : (d \o l \o <<a>>)[Len(d) + i] = l[i]
         /\ (d \o l \o <<a>>)[Len(d) + Len(l) + 1] = a
  <1> DEFINE f == d \o l
             t == <<a>>
             g == f \o t
  <1>1. Len(d) \in Nat /\ Len(l) \in Nat
    BY LenProperties
  <1>2. /\ f \in Seq(S) /\ Len(f) = Len(d) + Len(l)
        /\ \A i \in 1 .. Len(d) + Len(l) : f[i] = IF i <= Len(d) THEN d[i] ELSE l[i - Len(d)]
    BY ConcatProperties
  <1>3. t \in Seq(S) /\ Len(t) = 1 /\ t[1] = a
    OBVIOUS
  <1> HIDE DEF f, t
  <1>4. /\ g \in Seq(S) /\ Len(g) = Len(f) + Len(t)
        /\ \A i \in 1 .. Len(f) + Len(t) : g[i] = IF i <= Len(f) THEN f[i] ELSE t[i - Len(f)]
    <2>1. f \in Seq(S) /\ t \in Seq(S)
      BY <1>2, <1>3
    <2> QED BY <2>1, ConcatProperties
  <1> HIDE DEF g
  <1>5. \A i \in 1 .. Len(d) : g[i] = d[i]
    BY <1>1, <1>2, <1>3, <1>4
  <1>6. ASSUME NEW i \in 1 .. Len(l)
        PROVE  g[Len(d) + i] = l[i]
    <2>1. /\ Len(d) + i \in 1 .. Len(d) + Len(l) /\ Len(d) + i \in 1 .. Len(f) + Len(t)
          /\ Len(d) + i <= Len(f) /\ ~ (Len(d) + i <= Len(d)) /\ (Len(d) + i) - Len(d) = i
      BY <1>1, <1>2, <1>3
    <2> QED BY <1>2, <1>4, <2>1
  <1>7. g[Len(f) + 1] = a
    <2>1. /\ Len(f) + 1 \in 1 .. Len(f) + Len(t) /\ ~ (Len(f) + 1 <= Len(f))
          /\ (Len(f) + 1) - Len(f) = 1
      BY <1>1, <1>2, <1>3
    <2> QED BY <1>3, <1>4, <2>1
  <1> QED BY <1>1, <1>2, <1>3, <1>4, <1>5, <1>6, <1>7 DEF f, g, t

\* The answer to a request comes after the updates it lists, and tells of it alone.
LEMMA RepliesKeeps ==
  ASSUME IInv, NEW error \in BOOLEAN, ServiceReplies(error)
  PROVE  IInv'
  <1> DEFINE c  == [conn EXCEPT !.up = Tail(@)]
             r  == Head(conn.up)
             us == IF error \/ r.call.method = "subscribe" THEN {} ELSE Listed(r.call)
             N  == Cardinality(us)
             listing == [i \in 1 .. N |-> Notification(InOrder(us)[i])]
             answer  == Answer(r, error)
  <1>1. /\ conn.up # <<>> /\ conn' = c
        /\ UNCHANGED <<now, cursor, saved, saving, made, received>>
        /\ IF r.call.method = "subscribe"
           THEN subscribed' = (subscribed \/ ~ error) /\ refused' = error
           ELSE UNCHANGED <<subscribed, refused>>
        /\ down' = down \o listing \o <<answer>>
        /\ Failing(error)
    BY Zenon DEF ServiceReplies
  <1>2. conn \in Connections /\ conn.up \in Seq(Requests) /\ conn.jsonrpcId \in Nat /\ now \in Nat
    BY DEF IInv, Sound, Connections, TypeInv, Times
  <1>3. /\ Tail(conn.up) \in Seq(Requests) /\ r \in Requests /\ r = conn.up[1] /\ 1 \in 1 .. Len(conn.up)
        /\ Len(Tail(conn.up)) = Len(conn.up) - 1 /\ Len(conn.up) \in Nat
        /\ \A i \in 1 .. Len(Tail(conn.up)) : Tail(conn.up)[i] = conn.up[i + 1]
    <2>1. conn.up # <<>> /\ conn.up \in Seq(Requests)
      BY <1>1, <1>2
    <2>2. /\ Tail(conn.up) \in Seq(Requests) /\ Head(conn.up) \in Requests
          /\ Head(conn.up) = conn.up[1] /\ Len(Tail(conn.up)) = Len(conn.up) - 1
          /\ \A i \in 1 .. Len(Tail(conn.up)) : Tail(conn.up)[i] = conn.up[i + 1]
      BY <2>1, HeadTailProperties
    <2>3. Len(conn.up) \in Nat /\ Len(conn.up) # 0
      BY <2>1, LenProperties
    <2>4. 1 \in 1 .. Len(conn.up)
      BY <2>3
    <2> QED BY <2>2, <2>3, <2>4
  <1>4. r \in Made(conn)
    BY <1>3 DEF Made
  <1>5. /\ Sound(c) /\ c.outgoing = conn.outgoing /\ c.jsonrpcId = conn.jsonrpcId
    <2>1. c \in Connections
      BY <1>2, <1>3 DEF Connections
    <2>2. /\ c.outgoing = conn.outgoing /\ c.jsonrpcId = conn.jsonrpcId /\ c.waiting = conn.waiting
          /\ c.up = Tail(conn.up)
      BY <1>2 DEF Connections
    <2>3. Linked(c)
      BY <1>2 DEF IInv, Sound, Connections, Linked
    <2>4. \A i \in 1 .. Len(Tail(conn.up)) : i + 1 \in 1 .. Len(conn.up)
      BY <1>3
    <2> HIDE DEF c
    <2>5. Made(c) \subseteq Made(conn)
      BY <1>3, <2>2, <2>4 DEF Made
    <2>6. Numbered(c)
      BY <2>1, <2>2, <2>5, FewerNumbered DEF IInv
    <2> QED BY <2>1, <2>2, <2>3, <2>6 DEF Sound
  <1>6. us \subseteq made
    BY DEF Listed
  <1>7. /\ N \in Nat /\ InOrder(us) \in [1 .. N -> us]
        /\ \A u \in us : \E i \in 1 .. N : InOrder(us)[i] = u
    <2>1. IsFiniteSet(us) /\ us \subseteq Updates /\ \A u, v \in us : u.n = v.n => u = v
      BY <1>6, FS_Subset DEF IInv, Dated
    <2> HIDE DEF us
    <2> QED BY <2>1, ListsAll
  <1>8. ~ error /\ r.call.method = "list_payment_updates" => us = Listed(r.call)
    OBVIOUS
  <1>9. answer = [kind |-> "answer", id |-> r.id, error |-> error] /\ r.id \in Nat
    BY <1>3 DEF Answer, Requests
  <1> HIDE DEF c, r, us, N
  <1>10. /\ down \in Seq(Events(made)) /\ listing \in Seq(Events(made))
         /\ answer \in Events(made) /\ <<answer>> \in Seq(Events(made))
    <2>1. \A i \in 1 .. N : Notification(InOrder(us)[i]) \in Events(made)
      BY <1>6, <1>7 DEF Notification, Events
    <2>2. listing \in Seq(Events(made))
      BY <1>7, <2>1, IsASeq
    <2>3. answer \in Events(made)
      BY <1>9 DEF Events
    <2> QED BY <2>2, <2>3 DEF IInv, TypeInv
  <1>11. /\ Len(listing) = N
         /\ \A i \in 1 .. N : listing[i] = Notification(InOrder(us)[i])
    BY <1>7
  <1> HIDE DEF listing, answer
  <1>12. /\ down' \in Seq(Events(made)) /\ down \o listing \in Seq(Events(made))
         /\ Len(down) \in Nat /\ Len(down') = Len(down) + N + 1
         /\ \A i \in 1 .. Len(down) : down'[i] = down[i]
         /\ \A i \in 1 .. N : down'[Len(down) + i] = listing[i]
         /\ down'[Len(down) + N + 1] = answer
    BY <1>1, <1>10, <1>11, ThreeParts
  <1>13. \A i \in 1 .. N : down'[Len(down) + i] = Notification(InOrder(us)[i])
    BY <1>11, <1>12
  <1>14. \A v : Coming(v, down) => Coming(v, down')
    <2>1. \A v : Coming(v, down) => Coming(v, down \o listing)
      BY <1>10, ComesAfter
    <2>2. \A v : Coming(v, down \o listing) => Coming(v, down \o listing \o <<answer>>)
      BY <1>10, <1>12, ComesAfter
    <2> QED BY <1>1, <2>1, <2>2
  <1>15. \A v \in us : Coming(v, down')
    <2>1. \A v \in us : Coming(v, listing)
      BY <1>7, <1>11 DEF Coming
    <2>2. \A v \in us : Coming(v, down \o listing)
      BY <1>10, <2>1, ComesAfter
    <2>3. \A v \in us : Coming(v, down \o listing \o <<answer>>)
      BY <1>10, <1>12, <2>2, ComesAfter
    <2> QED BY <1>1, <2>3
  <1>16. \A v : Got(v) => Got(v)'
    BY <1>1, <1>14 DEF Got
  <1>17. \A v \in us : Got(v)'
    BY <1>15 DEF Got
  <1>18. subscribed => subscribed'
    <2>1. CASE r.call.method = "subscribe"
      BY <1>1, <2>1
    <2>2. CASE r.call.method # "subscribe"
      BY <1>1, <2>2
    <2> QED BY <2>1, <2>2
  <1>19. ASSUME ~ error, NEW k \in conn'.outgoing, k.id = r.id
         PROVE  Tells(k)'
    <2>1. k \in conn.outgoing /\ k = r
      BY <1>1, <1>4, <1>5, <1>19 DEF IInv, Sound, Numbered
    <2>2. k.call.method = "subscribe" => subscribed'
      BY <1>1, <1>19, <2>1
    <2>3. ASSUME k.call.method = "list_payment_updates", NEW u \in made',
                 u.time >= k.call.from, k.call.recovering \/ u.time < k.call.to
          PROVE  Got(u)'
      <3>1. u \in made /\ u.time \in Nat
        BY <1>1 DEF IInv, Dated, Updates, Times
      <3>2. k.call.from \in Nat /\ k.call.to \in Nat
        BY <1>3, <2>1, UpdatesAssumption DEF Requests, Calls
      <3>3. CASE u.time <= k.call.to
        <4>1. u \in Listed(k.call)
          BY <2>3, <3>1, <3>2, <3>3 DEF Listed
        <4>2. u \in us
          BY <1>8, <1>19, <2>1, <2>3, <4>1
        <4> QED BY <1>17, <4>2
      <3>4. CASE ~ (u.time <= k.call.to)
        <4>1. k.call.recovering /\ u.time > k.call.to
          BY <2>3, <3>1, <3>2, <3>4
        <4>2. Got(u)
          BY <2>1, <2>3, <3>1, <4>1 DEF IInv, Recovery, Asks
        <4> QED BY <1>16, <4>2
      <3> QED BY <3>3, <3>4
    <2> QED BY <2>2, <2>3 DEF Tells
  <1>20. ASSUME NEW i \in 1 .. Len(down'), down'[i].kind = "answer"
         PROVE  \/ \E j \in 1 .. Len(down) : down[j] = down'[i]
                \/ /\ down'[i].id < conn'.jsonrpcId
                   /\ ~ down'[i].error => \A k \in conn'.outgoing : k.id = down'[i].id => Tells(k)'
    <2>1. CASE i \in 1 .. Len(down)
      BY <1>12, <2>1
    <2>2. CASE i \in Len(down) + 1 .. Len(down) + N
      <3>1. i - Len(down) \in 1 .. N /\ Len(down) + (i - Len(down)) = i
        BY <1>7, <1>12, <2>2
      <3>2. down'[i] = Notification(InOrder(us)[i - Len(down)])
        BY <1>13, <3>1
      <3> QED BY <1>20, <3>2 DEF Notification
    <2>3. CASE i = Len(down) + N + 1
      <3>1. down'[i] = answer /\ answer.id = r.id /\ answer.error = error
        BY <1>9, <1>12, <2>3
      <3>2. r.id < conn.jsonrpcId /\ conn'.jsonrpcId = conn.jsonrpcId
        BY <1>1, <1>4, <1>5 DEF IInv, Sound, Numbered
      <3> QED BY <1>19, <3>1, <3>2
    <2>4. i \in 1 .. Len(down) + N + 1
      BY <1>12
    <2>5. i \in 1 .. Len(down) \/ i \in Len(down) + 1 .. Len(down) + N \/ i = Len(down) + N + 1
      BY <1>7, <1>12, <2>4
    <2> QED BY <2>1, <2>2, <2>3, <2>5
  <1>21. Sound(conn)'
    BY <1>1, <1>5
  <1>22. Recovery'
    <2>1. cursor' = 0 => conn'.outgoing = {}
      BY <1>1, <1>5 DEF IInv, Recovery
    <2>2. conn'.outgoing = conn.outgoing /\ conn'.jsonrpcId = conn.jsonrpcId
      BY <1>1, <1>5
    <2>3. now' = now /\ now \in Nat /\ \A u \in made' : u \in made
      BY <1>1, <1>2
    <2>4. Sound(conn) /\ Recovery /\ down \in Seq(Events(made))
      BY <1>10 DEF IInv
    <2>5. conn'.jsonrpcId \in Nat /\ conn.jsonrpcId <= conn'.jsonrpcId /\ now <= now'
      BY <1>2, <2>2, <2>3
    <2>6. \A i \in 1 .. Len(down') : down'[i].kind = "answer" =>
            \/ \E j \in 1 .. Len(down) : down[j] = down'[i]
            \/ /\ down'[i].id < conn'.jsonrpcId
               /\ ~ down'[i].error => \A k \in conn'.outgoing : k.id = down'[i].id => Tells(k)'
      BY <1>20
    <2> QED BY <1>16, <1>18, <2>1, <2>2, <2>3, <2>4, <2>5, <2>6, StepRecovers
  <1>23. Dated'
    BY <1>1 DEF IInv, Dated
  <1>24. TypeInv'
    <2>1. down' \in Seq(Events(made)) /\ Events(made)' = Events(made)
      BY <1>1, <1>12
    <2>2. subscribed' \in BOOLEAN /\ refused' \in BOOLEAN
      <3>1. CASE r.call.method = "subscribe"
        BY <1>1, <3>1
      <3>2. CASE r.call.method # "subscribe"
        BY <1>1, <3>2 DEF IInv, TypeInv
      <3> QED BY <3>1, <3>2
    <2>3. failures' \in 0 .. MaxFailures
      BY <1>1, UpdatesAssumption DEF Failing, IInv, TypeInv
    <2> QED BY <1>1, <2>1, <2>2, <2>3 DEF IInv, TypeInv
  <1> QED BY <1>21, <1>22, <1>23, <1>24 DEF IInv

\* A bot that is notified is told of what is made.
LEMMA MakesKeeps ==
  ASSUME IInv, ServiceMakes
  PROVE  IInv'
  <1>0. PICK u : u = [n |-> Cardinality(made) + 1, time |-> now]
    OBVIOUS
  <1>1. /\ u.n <= MaxUpdates /\ made' = made \cup {u}
        /\ down' = IF subscribed THEN Append(down, Notification(u)) ELSE down
        /\ UNCHANGED <<conn, subscribed, refused, cursor, saved, saving, now, received, failures>>
    BY <1>0 DEF ServiceMakes
  <1>2. /\ IsFiniteSet(made) /\ Cardinality(made) \in Nat /\ now \in Times /\ now \in Nat
        /\ conn.jsonrpcId \in Nat
    BY FS_CardinalityType DEF IInv, Dated, TypeInv, Times, Sound, Connections
  <1>3. u \in Updates /\ u.n = Cardinality(made) + 1 /\ u.time = now
    BY <1>0, <1>1, <1>2, UpdatesAssumption DEF Updates
  <1>4. \A v \in made : v.n \in Nat /\ v.n < u.n
    <2>1. \A v \in made : v.n \in Nat /\ v.n <= Cardinality(made)
      BY UpdatesAssumption DEF IInv, Dated, Updates
    <2> QED BY <1>2, <1>3, <2>1
  <1>5. u \notin made
    BY <1>3, <1>4, <1>2
  <1>6. IsFiniteSet(made') /\ Cardinality(made') = Cardinality(made) + 1
    BY <1>1, <1>2, <1>5, FS_AddElement
  <1>7. Dated'
    <2>1. \A v \in made' : v.n <= Cardinality(made') /\ v.time <= now'
      BY <1>1, <1>2, <1>3, <1>4, <1>6 DEF IInv, Dated
    <2>2. \A v, w \in made' : v.n = w.n => v = w
      BY <1>1, <1>2, <1>3, <1>4 DEF IInv, Dated
    <2>3. made' \subseteq Updates
      BY <1>1, <1>3 DEF IInv, Dated
    <2> QED BY <1>6, <2>1, <2>2, <2>3 DEF Dated
  <1>8. down \in Seq(Events(made)) /\ down \in Seq(Events(made'))
    <2>1. Events(made) \subseteq Events(made')
      BY <1>1 DEF Events
    <2> QED BY <2>1 DEF IInv, TypeInv
  <1>9. Notification(u) \in Events(made') /\ Notification(u).kind # "answer"
    BY <1>1 DEF Events, Notification
  <1>10. /\ Append(down, Notification(u)) \in Seq(Events(made'))
         /\ Len(Append(down, Notification(u))) = Len(down) + 1 /\ Len(down) \in Nat
         /\ \A i \in 1 .. Len(down) : Append(down, Notification(u))[i] = down[i]
         /\ Append(down, Notification(u))[Len(down) + 1] = Notification(u)
    BY <1>8, <1>9, AppendProperties, LenProperties
  <1>11. \A v : Coming(v, down) => Coming(v, down')
    <2>1. \A i \in 1 .. Len(down) : i \in 1 .. Len(down) + 1
      BY <1>10
    <2>2. \A v : Coming(v, down) => Coming(v, Append(down, Notification(u)))
      BY <1>10, <2>1 DEF Coming
    <2> QED BY <1>1, <2>2
  <1>12. subscribed => Coming(u, down')
    <2>1. Len(down) + 1 \in 1 .. Len(down) + 1
      BY <1>10
    <2> QED BY <1>1, <1>10, <2>1 DEF Coming
  <1>13. /\ \A v : Got(v) => Got(v)'
         /\ subscribed => Got(u)'
    BY <1>1, <1>11, <1>12 DEF Got
  <1>14. \A i \in 1 .. Len(down') : down'[i].kind = "answer" => \E j \in 1 .. Len(down) : down[j] = down'[i]
    <2>1. CASE subscribed
      <3>1. down' = Append(down, Notification(u))
        BY <1>1, <2>1
      <3>2. \A i \in 1 .. Len(down) + 1 : i \in 1 .. Len(down) \/ i = Len(down) + 1
        BY <1>10
      <3> QED BY <1>9, <1>10, <3>1, <3>2
    <2>2. CASE ~ subscribed
      BY <1>1, <2>2
    <2> QED BY <2>1, <2>2
  <1>15. Sound(conn)'
    BY <1>1 DEF IInv
  <1>16. Recovery'
    <2>1. cursor' = 0 => conn'.outgoing = {}
      BY <1>1 DEF IInv, Recovery
    <2>2. \A v \in made' : v \in made \/ (v.time = now /\ (subscribed => Got(v)'))
      BY <1>1, <1>3, <1>13
    <2>3. conn' = conn /\ now' = now /\ (subscribed => subscribed')
      BY <1>1
    <2> QED BY <1>2, <1>8, <1>13, <1>14, <2>1, <2>2, <2>3, StepRecovers DEF IInv
  <1>17. TypeInv'
    <2>1. down' \in Seq(Events(made'))
      BY <1>1, <1>8, <1>10
    <2>2. received' \subseteq made'
      BY <1>1 DEF IInv, TypeInv
    <2> QED BY <1>1, <2>1, <2>2 DEF IInv, TypeInv
  <1> QED BY <1>7, <1>15, <1>16, <1>17 DEF IInv

LEMMA MessagesKeep == IInv /\ onMessage => IInv' /\ ListStep
  <1>1. IInv /\ onMessage /\ Head(down).kind = "subscription" => ListStep
    BY DEF ListStep
  <1> QED BY <1>1, NotifiedKeeps, AnsweredKeeps

LEMMA NextSound == IInv /\ [Next]_vars => IInv'
  <1> SUFFICES ASSUME IInv, [Next]_vars PROVE IInv'
    OBVIOUS
  <1>1. ASSUME NEW fails \in BOOLEAN, configureServices(fails) PROVE IInv'
    BY <1>1, ConfigureSound
  <1>2. CASE Opens
    BY <1>2, OpensKeeps
  <1>3. ASSUME NEW error \in BOOLEAN, Ends(error) PROVE IInv'
    BY <1>3, EndsKeeps
  <1>4. CASE Reconnects
    BY <1>4, ReconnectsKeeps
  <1>5. ASSUME NEW r \in conn.waiting, Retries(r) PROVE IInv'
    BY <1>5, RetriesKeeps
  <1>6. CASE onMessage
    BY <1>6, MessagesKeep
  <1>7. ASSUME NEW t \in saving, NEW fails \in BOOLEAN, Saved(t, fails) PROVE IInv'
    BY <1>7, SavedKeeps
  <1>8. CASE Crash
    BY <1>8, CrashKeeps
  <1>9. ASSUME NEW error \in BOOLEAN, ServiceReplies(error) PROVE IInv'
    BY <1>9, RepliesKeeps
  <1>10. CASE ServiceMakes
    BY <1>10, MakesKeeps
  <1>11. CASE Tick
    BY <1>11, TickKeeps
  <1>12. CASE UNCHANGED vars
    <2>1. UNCHANGED <<Rest, failures>> /\ conn' = conn
      BY <1>12 DEF vars, Rest
    <2>2. conn.jsonrpcId \in Nat /\ (cursor = 0 => conn'.outgoing = {}) /\ Sound(conn)'
      BY <2>1 DEF IInv, Sound, Connections, Recovery
    <2> QED BY <2>1, <2>2, ConnectionChanges
  <1> QED BY <1>1, <1>2, <1>3, <1>4, <1>5, <1>6, <1>7, <1>8, <1>9, <1>10, <1>11, <1>12 DEF Next

LEMMA InvariantHolds == Spec => []IInv
  BY InitSound, NextSound, PTL DEF Spec

-----------------------------------------------------------------------------
(* The theorems.                                                           *)

\* Whatever is lost, and in whatever order sockets open and end, requests are
\* sent and answers come, WebSocketConnection.js holds one socket or has one
\* timer set to make it: it never forgets to reconnect and never does so twice.
THEOREM ConnectionIsOne == Spec => []OneConnection
  <1>1. IInv => OneConnection
    BY DEF IInv, Sound, Linked, OneConnection
  <1> QED BY <1>1, InvariantHolds, PTL

\* Every variable keeps its type; the flag connected tells of an open socket, no
\* request has a number that is still to be given, and neither the subscription
\* nor the store is ahead of the time.
THEOREM TypeCorrect == Spec => []TypeOK
  <1>1. IInv => TypeOK
    <2> SUFFICES ASSUME IInv PROVE TypeOK
      OBVIOUS
    <2>1. conn \in Connections /\ Linked(conn) /\ conn.up \in Seq(Requests)
      BY DEF IInv, Sound, Connections
    <2>2. conn.ws \in {"none", "connecting", "open"} /\ conn.connected = (conn.ws = "open")
      BY <2>1 DEF Connections, Sockets, Linked
    <2>3. conn.outgoing \cup conn.waiting \cup ToSet(conn.up) \subseteq Requests
      <3>1. \A i \in DOMAIN conn.up : conn.up[i] \in Requests
        BY <2>1
      <3> QED BY <2>1, <3>1 DEF Connections, ToSet
    <2>4. \A r \in conn.outgoing \cup conn.waiting : r.id < conn.jsonrpcId
      BY DEF IInv, Sound, Numbered, Made
    <2>5. \A e \in ToSet(down) : IF e.kind = "subscription" THEN e.update \in made
                                 ELSE e.id \in Nat /\ e.error \in BOOLEAN
      <3>1. \A e \in ToSet(down) : e \in Events(made)
        <4>1. down \in Seq(Events(made))
          BY DEF IInv, TypeInv
        <4>2. \A i \in DOMAIN down : down[i] \in Events(made)
          BY <4>1
        <4> QED BY <4>2 DEF ToSet
      <3>2. \A e \in Events(made) : IF e.kind = "subscription" THEN e.update \in made
                                    ELSE e.id \in Nat /\ e.error \in BOOLEAN
        BY DEF Events
      <3> QED BY <3>1, <3>2
    <2> QED BY <2>2, <2>3, <2>4, <2>5 DEF IInv, TypeInv, Dated, TypeOK
  <1> QED BY <1>1, InvariantHolds, PTL

\* A bot that gets the list it asked for after its connection was lost has received,
\* or is about to, every update since the time the last one came: nothing that was
\* made in the outage, before the new subscription, between the subscription and
\* the list or while the list was on its way is missed.
THEOREM RecoveryMissesNothing == Spec => ListCatchesUp
  <1>1. IInv /\ [Next]_vars => [ListStep]_vars
    <2>1. ~ onMessage => ListStep
      BY DEF ListStep
    <2> QED BY <2>1, MessagesKeep
  <1> QED BY <1>1, InvariantHolds, PTL DEF Spec, ListCatchesUp, ListStep
=============================================================================
