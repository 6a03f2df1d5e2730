--------------------------- MODULE PaymentUpdates ---------------------------
(***************************************************************************)
(* How the bot learns of payments: the subscription of EthService.js over  *)
(* a WebSocketConnection, the key lastTransactionTimestamp under which     *)
(* configureServices of Client.js saves how far it has come, losses of the *)
(* connection, and restarts.  The Ethereum service is external: it         *)
(* notifies its subscribers of the updates it makes, in order, and of      *)
(* those of a period when asked to list them.                              *)
(***************************************************************************)
EXTENDS WebSocketConnection, FiniteSets, SequencesExt

CONSTANTS
  MaxTime,      \* bound: the seconds a behaviour lasts
  MaxUpdates,   \* bound: the updates the service makes
  MaxFailures   \* bound: losses, restarts, errors of the store or the service

ASSUME UpdatesAssumption == MaxTime \in Nat \ {0} /\ MaxUpdates \in Nat /\ MaxFailures \in Nat

VARIABLES
  conn,        \* the connection, with what is on its way to the service
  subscribed,  \* the service notifies this connection
  refused,     \* history: the service has refused to
  down,        \* what is on its way from the service
  cursor,      \* last_timestamp of the subscription, 0 when there is none yet
  saved,       \* lastTransactionTimestamp in the store, 0 when never set
  saving,      \* the values on their way to the store
  now,         \* the time in seconds, the same for the bot and the service
  made,        \* the updates the service has made
  received,    \* history: the updates handed to the callback of Client.js
  failures     \* how many failures there have been

vars == <<conn, subscribed, refused, down, cursor, saved, saving, now, made, received, failures>>

Times == 1 .. MaxTime
Updates == [n : 1 .. MaxUpdates, time : Times]

subscribe(from, recovering) ==
  [method |-> "subscribe", from |-> from, to |-> 0, recovering |-> recovering]
list_payment_updates(from, to, recovering) ==
  [method |-> "list_payment_updates", from |-> from, to |-> to, recovering |-> recovering]

Notification(u) == [kind |-> "subscription", update |-> u]
Answer(r, error) == [kind |-> "answer", id |-> r.id, error |-> error]

Init ==
  /\ conn = connect(NewConnection)
  /\ subscribed = FALSE
  /\ refused = FALSE
  /\ down = <<>>
  /\ cursor = 0
  /\ saved = 0
  /\ saving = {}
  /\ now = 1
  /\ made = {}
  /\ received = {}
  /\ failures = 0

Failing(fails) ==
  /\ fails => failures < MaxFailures
  /\ failures' = IF fails THEN failures + 1 ELSE failures

-----------------------------------------------------------------------------
(* The bot.                                                                *)

\* The headless client is ready and the key has been read; a read that fails
\* counts as a key never set.  The two requests do not wait for each other.
configureServices(fails) ==
  LET last == IF fails THEN 0 ELSE saved
      c    == sendRequest(conn, subscribe(0, FALSE))
  IN  /\ cursor = 0
      /\ Failing(fails)
      /\ cursor' = IF last = 0 THEN now ELSE last
      /\ conn' = IF last = 0 THEN c ELSE sendRequest(c, list_payment_updates(last, now, FALSE))
      /\ UNCHANGED <<subscribed, refused, down, saved, saving, now, made, received>>

\* Mutant: what was missed is asked for before the new subscription.
resubscribeMutant(c) ==
  IF cursor = 0 THEN c
  ELSE sendRequest(sendRequest(c, list_payment_updates(cursor, now, TRUE)), subscribe(cursor, FALSE))
\* The updates since the last one are asked for when the subscription is there.
resubscribe(c) == IF cursor = 0 THEN c ELSE sendRequest(c, subscribe(cursor, TRUE))

\* Mutant: what the connection was before it opened is forgotten.
isReconnectionMutant(c) == FALSE
isReconnection(c) == c.wasConnected

Opens ==
  /\ conn.ws = "connecting"
  /\ conn' = IF isReconnection(conn) THEN resubscribe(onOpen(conn)) ELSE onOpen(conn)
  /\ UNCHANGED <<subscribed, refused, down, cursor, saved, saving, now, made, received, failures>>

\* The socket, open or not yet, ends, and with it what is on its way.
Ends(error) ==
  /\ conn.ws # "none"
  /\ Failing(TRUE)
  /\ conn' = ended(conn, error)
  /\ subscribed' = FALSE
  /\ refused' = FALSE
  /\ down' = <<>>
  /\ UNCHANGED <<cursor, saved, saving, now, made, received>>

Reconnects ==
  /\ conn.reconnects > 0
  /\ conn' = reconnect(conn)
  /\ UNCHANGED <<subscribed, refused, down, cursor, saved, saving, now, made, received, failures>>

Retries(r) ==
  /\ r \in conn.waiting
  /\ conn' = trySend(conn, r)
  /\ UNCHANGED <<subscribed, refused, down, cursor, saved, saving, now, made, received, failures>>

\* A notification of the address subscribed to moves its time to the present,
\* whenever the update was made, and saves it before the update is handled.
Notified(u) ==
  /\ IF cursor = 0 THEN UNCHANGED <<cursor, saving, received>>
     ELSE /\ cursor' = now
          /\ saving' = saving \cup {now}
          /\ received' = received \cup {u}
  /\ UNCHANGED conn

\* An answer that is an error rejects the promise, which asks for nothing more.
Answered(e) ==
  LET c    == answered(conn, e.id)
      asks == {r \in settledBy(conn, e.id) : r.call.method = "subscribe" /\ r.call.recovering}
  IN  /\ conn' = IF asks = {} \/ e.error THEN c
                 ELSE LET r == CHOOSE r \in asks : TRUE IN
                      sendRequest(c, list_payment_updates(r.call.from, now, TRUE))
      /\ UNCHANGED <<cursor, saving, received>>

onMessage ==
  /\ down # <<>>
  /\ down' = Tail(down)
  /\ LET e == Head(down) IN
     IF e.kind = "subscription" THEN Notified(e.update) ELSE Answered(e)
  /\ UNCHANGED <<subscribed, refused, saved, now, made, failures>>

\* Stores take effect in any order.
Saved(t, fails) ==
  /\ t \in saving
  /\ Failing(fails)
  /\ saving' = saving \ {t}
  /\ saved' = IF fails THEN saved ELSE t
  /\ UNCHANGED <<conn, subscribed, refused, down, cursor, now, made, received>>

Crash ==
  /\ Failing(TRUE)
  /\ conn' = connect(NewConnection)
  /\ subscribed' = FALSE
  /\ refused' = FALSE
  /\ down' = <<>>
  /\ cursor' = 0
  /\ saving' = {}
  /\ UNCHANGED <<saved, now, made, received>>

-----------------------------------------------------------------------------
(* The service.                                                            *)

InOrder(us) ==
  CHOOSE s \in [1 .. Cardinality(us) -> us] :
    \A i, j \in 1 .. Cardinality(us) : i < j => s[i].n < s[j].n
Listed(call) == {u \in made : u.time \in call.from .. call.to}

ServiceReplies(error) ==
  LET r  == Head(conn.up)
      us == IF error \/ r.call.method = "subscribe" THEN {} ELSE Listed(r.call)
  IN  /\ conn.up # <<>>
      /\ Failing(error)
      /\ conn' = [conn EXCEPT !.up = Tail(@)]
      /\ IF r.call.method = "subscribe"
         THEN subscribed' = (subscribed \/ ~ error) /\ refused' = error
         ELSE UNCHANGED <<subscribed, refused>>
      /\ down' = down \o [i \in 1 .. Cardinality(us) |-> Notification(InOrder(us)[i])]
                      \o <<Answer(r, error)>>
      /\ UNCHANGED <<cursor, saved, saving, now, made, received>>

ServiceMakes ==
  LET u == [n |-> Cardinality(made) + 1, time |-> now] IN
  /\ u.n <= MaxUpdates
  /\ made' = made \cup {u}
  /\ down' = IF subscribed THEN Append(down, Notification(u)) ELSE down
  /\ UNCHANGED <<conn, subscribed, refused, cursor, saved, saving, now, received, failures>>

Tick ==
  /\ now < MaxTime
  /\ now' = now + 1
  /\ UNCHANGED <<conn, subscribed, refused, down, cursor, saved, saving, made, received, failures>>

-----------------------------------------------------------------------------
Next ==
  \/ \E fails \in BOOLEAN : configureServices(fails)
  \/ Opens
  \/ \E error \in BOOLEAN : Ends(error)
  \/ Reconnects
  \/ \E r \in conn.waiting : Retries(r)
  \/ onMessage
  \/ \E t \in saving, fails \in BOOLEAN : Saved(t, fails)
  \/ Crash
  \/ \E error \in BOOLEAN : ServiceReplies(error)
  \/ ServiceMakes
  \/ Tick

Spec == Init /\ [][Next]_vars

\* The headless client becomes ready, timers fire, a socket opens unless it
\* ends, and the service replies.
FairSpec ==
  /\ Spec
  /\ WF_vars(configureServices(FALSE))
  /\ WF_vars(Opens)
  /\ WF_vars(Reconnects)
  /\ WF_vars(\E r \in conn.waiting : Retries(r))
  /\ WF_vars(onMessage)
  /\ WF_vars(ServiceReplies(FALSE))

-----------------------------------------------------------------------------
Calls == [method : {"subscribe", "list_payment_updates"}, from : 0 .. MaxTime, to : 0 .. MaxTime,
          recovering : BOOLEAN]
Requests == [id : Nat \ {0}, call : Calls]

TypeOK ==
  /\ conn.ws \in {"none", "connecting", "open"}
  /\ conn.connected = (conn.ws = "open")
  /\ conn.outgoing \cup conn.waiting \cup ToSet(conn.up) \subseteq Requests
  /\ \A r \in conn.outgoing \cup conn.waiting : r.id < conn.jsonrpcId
  /\ \A e \in ToSet(down) : IF e.kind = "subscription" THEN e.update \in made
                             ELSE e.id \in Nat /\ e.error \in BOOLEAN
  /\ subscribed \in BOOLEAN /\ refused \in BOOLEAN
  /\ cursor \in 0 .. now /\ saved \in 0 .. now /\ saving \subseteq 1 .. now
  /\ received \subseteq made /\ made \subseteq Updates
  /\ failures \in 0 .. MaxFailures

\* There always is one socket or one reconnection to come: an error event and
\* the close event after it do not both reconnect, and none is forgotten.
OneConnection == conn.live + conn.reconnects = 1

\* When the bot gets the list it asked for after a loss of the connection, it
\* has received every update since the time the last one came, whenever in the
\* outage or in the recovery it was made, but for those still on their way.
\* After a restart this ends with the second in which it asked: the list does
\* not wait for the subscription, and what is made in between is missed.
CatchesUp(call) ==
  call.method = "list_payment_updates" =>
    \A u \in made : u.time >= call.from /\ (call.recovering \/ u.time < call.to) =>
      u \in received' \/ \E i \in DOMAIN down' : down'[i] = Notification(u)
ListCatchesUp ==
  [][onMessage /\ Head(down).kind = "answer" /\ ~ Head(down).error =>
       \A r \in settledBy(conn, Head(down).id) : CatchesUp(r.call)]_vars

\* No request waits for ever: the service answers it, or the socket ends.
EveryRequestSettles == <>[](conn.outgoing = {})

\* When failures cease the service ends up notifying the bot, for good, unless
\* it has refused to: the bot only asks again when the connection is lost.
StaysSubscribed == <>[](cursor # 0 /\ (subscribed \/ refused))
=============================================================================
