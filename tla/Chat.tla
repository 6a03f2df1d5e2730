-------------------------------- MODULE Chat --------------------------------
(***************************************************************************)
(* How messages reach the bot: the handlers of bot/src/lib/Client.js, the  *)
(* session each of them loads for itself (Session.js), and the store       *)
(* (PSQLStore of Storage.js).  Node runs one callback at a time: an action *)
(* is one callback, from the event that starts it to its last line.        *)
(*                                                                         *)
(* A session is private to the message that loaded it: messages of one     *)
(* user can be handled on different copies of his row.  Session.set does   *)
(* not wait for its store, and the pool runs PoolSize queries side by side *)
(* on connections of their own, so they take effect in any order.          *)
(***************************************************************************)
EXTENDS Naturals, FiniteSets, Conversation, SequencesExt

CONSTANTS
  Users,
  Incoming,       \* the chat messages and payment updates that can arrive
  ContentOf,      \* what an Init tells, for each body of one that tells anything
  StoredRows,     \* the sessions the store can hold when the bot starts
  PoolSize,       \* connections of the pool
  MaxMessages,    \* bound: messages that arrive in one behaviour
  MaxFailures     \* bound: failed queries, failed lookups and crashes

ASSUME ChatAssumption ==
  /\ PoolSize \in Nat \ {0}
  /\ MaxMessages \in Nat
  /\ MaxFailures \in Nat

MessageTypes == {"Init", "InitRequest", "Message", "Command", "Payment", "PaymentRequest"}

\* Messages are numbered as they arrive; via tells the chat of the user from
\* the notifications of the Ethereum service.
Messages == [type : MessageTypes, body : STRING, via : {"chat", "eth"}, id : Nat]
NoMessage == [type |-> "none", body |-> "none", via |-> "chat", id |-> 0]
\* What a user can tell the bot to hold that SOFA.parse refuses.
Unparsable == [type |-> "unparsable", body |-> "none", via |-> "chat", id |-> 0]

NewSession == [app_state |-> undefined, insurance_amount |-> "unset", booking_no |-> FALSE,
               aadhar_no |-> FALSE, current_location |-> "unset",
               paymentAddress |-> FALSE, heldForInit |-> NoMessage]

Sessions ==
  [app_state : AppStates, insurance_amount : Amounts, booking_no : BOOLEAN,
   aadhar_no : BOOLEAN, current_location : Locations, paymentAddress : BOOLEAN,
   heldForInit : Messages \cup {NoMessage, Unparsable}]

\* What comes from the Ethereum service are payments.
ASSUME IncomingAssumption ==
  /\ Incoming \subseteq Messages
  /\ \A m \in Incoming : m.via = "eth" => m.type = "Payment"
  /\ StoredRows \subseteq Sessions

\* The content of an Init: its keys in order, and a value for each of them that
\* is a key of Sessions.  All of it comes from the chat.
ASSUME ContentAssumption ==
  \A body \in DOMAIN ContentOf :
    /\ ContentOf[body].keys \in Seq(STRING)
    /\ ContentOf[body].values \in Sessions
    /\ ContentOf[body].values.heldForInit.via = "chat"

VARIABLES
  row,        \* the stored session of each user
  queries,    \* the queries handed to the pool and not answered, in order
  lookups,    \* the loaded sessions that wait for IdService.getUser
  arrived,    \* how many messages have arrived
  failures,   \* how many failures there have been
  delivered,  \* history: what bot.onEvent was called with, for whom
  ended,      \* history: the messages whose handler has run, or that a crash took
  latest      \* history: the session the last handler of each user left

vars == <<row, queries, lookups, arrived, failures, delivered, ended, latest>>

Init ==
  /\ row \in [Users -> StoredRows]
  /\ queries = <<>>
  /\ lookups = {}
  /\ arrived = 0
  /\ failures = 0
  /\ delivered = {}
  /\ ended = {}
  /\ latest = row

-----------------------------------------------------------------------------
(* The handlers.  A handling also lists the messages given to the bot.     *)

Open(session) ==
  [data |-> session, writes |-> <<>>, said |-> <<>>, threw |-> FALSE, given |-> <<>>]

\* bot.onEvent; an exception of the one before has ended the handler.
give(h, m, known) ==
  IF h.threw THEN h ELSE [onEvent(h, m, known) EXCEPT !.given = Append(@, m)]

\* Mutant: an empty message is not told from another one.
isWakeUpMutant(m) == FALSE
isWakeUp(m) == m.type = "Message" /\ m.body = "empty"

\* Mutant: every message is kept for after the Init.
mayBeHeldMutant(m) == m.type \in MessageTypes
mayBeHeld(m) == m.type # "Payment"

\* Mutant: one message held is enough to be let through.
introducedMutant(session) == session.paymentAddress \/ session.heldForInit # NoMessage
introduced(session) == session.paymentAddress

released(h) == set(h, "heldForInit", NoMessage)

contentOf(m) ==
  IF m.body \in DOMAIN ContentOf THEN ContentOf[m.body] ELSE [keys |-> <<>>, values |-> NewSession]

\* The session when the first n keys of the content are set.
told(data, content, n) ==
  LET value(key) ==
        IF \E i \in 1 .. n : content.keys[i] = key THEN content.values[key] ELSE data[key]
  IN  [app_state        |-> value("app_state"),
       insurance_amount |-> value("insurance_amount"),
       booking_no       |-> value("booking_no"),
       aadhar_no        |-> value("aadhar_no"),
       current_location |-> value("current_location"),
       paymentAddress   |-> value("paymentAddress"),
       heldForInit      |-> value("heldForInit")]

\* Every key of the content is set, whatever it is, and every set is a store.
tell(h, content) ==
  LET n == Len(content.keys) IN
  [h EXCEPT !.data   = told(@, content, n),
            !.writes = @ \o [i \in 1 .. n |-> told(h.data, content, i)]]

\* An Init stores what the user tells.  It reaches the bot, then the message held
\* for it does, which may be one that the Init itself told.
onInit(h, m, known) ==
  LET g    == give(tell(h, contentOf(m)), m, known)
      held == g.data.heldForInit
  IN  IF g.threw \/ held = NoMessage THEN g
      ELSE IF held = Unparsable THEN throw(released(g))
      ELSE IF isWakeUp(held) THEN released(g)
      ELSE give(released(g), held, known)

onChatMessage(h, m, known) ==
  CASE m.type = "Init"        -> onInit(h, m, known)
    [] m.type = "InitRequest" -> give(h, m, known)
    [] OTHER ->
         IF ~ introduced(h.data)
         THEN reply(IF mayBeHeld(m) THEN set(h, "heldForInit", m) ELSE h, "initRequest")
         ELSE IF m.type = "Payment" \/ isWakeUp(m) THEN h
         ELSE give(h, m, known)

\* A payment update is trusted: it is held or given to the bot.  The handler
\* asks session.user first, which is null when the lookup failed.
onPaymentUpdate(h, m, known) ==
  IF ~ known THEN throw(h)
  ELSE IF ~ introduced(h.data) THEN reply(set(h, "heldForInit", m), "initRequest")
  ELSE give(h, m, known)

handle(session, m, known) ==
  IF m.via = "chat" THEN onChatMessage(Open(session), m, known)
  ELSE onPaymentUpdate(Open(session), m, known)

-----------------------------------------------------------------------------
(* The pool of connections.                                                *)

load(u, m)     == [kind |-> "load", user |-> u, message |-> m, session |-> NewSession]
store(u, data) == [kind |-> "store", user |-> u, message |-> NoMessage, session |-> data]

\* The queries that have a connection.
Running == 1 .. (IF Len(queries) < PoolSize THEN Len(queries) ELSE PoolSize)

\* A store that finds an idle connection is sent at once, with the session as it
\* is; the others take the session when they get one, after the handler's end.
stores(u, h, idle) ==
  [i \in 1 .. Len(h.writes) |-> store(u, IF i <= idle THEN h.writes[i] ELSE h.data)]

\* Mutant: the row keeps the location it has.
storedMutant(old, new) ==
  IF old.current_location = "unset" THEN new ELSE [new EXCEPT !.current_location = old.current_location]
\* The row is replaced as a whole.
stored(old, new) == new

-----------------------------------------------------------------------------
(* Events.                                                                 *)

\* A message comes from the chat of the user, or a payment update whose sender
\* the id service has found: Session.load asks for the row at once.
Arrive(u, m) ==
  /\ arrived < MaxMessages
  /\ arrived' = arrived + 1
  /\ queries' = Append(queries, load(u, [m EXCEPT !.id = arrived + 1]))
  /\ UNCHANGED <<row, lookups, failures, delivered, ended, latest>>

\* The row is read; a query that fails reads as a session never stored.
Loaded(i, fails) ==
  LET q == queries[i] IN
  /\ q.kind = "load"
  /\ lookups' = lookups \cup
       {[user |-> q.user, message |-> q.message, session |-> IF fails THEN NewSession ELSE row[q.user]]}
  /\ queries' = RemoveAt(queries, i)
  /\ UNCHANGED <<row, arrived, delivered, ended, latest>>

\* The row is written; nobody waits for the outcome, and a failure is logged.
Stored(i, fails) ==
  LET q == queries[i] IN
  /\ q.kind = "store"
  /\ row' = IF fails THEN row ELSE [row EXCEPT ![q.user] = stored(@, q.session)]
  /\ queries' = RemoveAt(queries, i)
  /\ UNCHANGED <<lookups, arrived, delivered, ended, latest>>

QueryAnswered ==
  \E i \in Running, fails \in BOOLEAN :
    /\ fails => failures < MaxFailures
    /\ failures' = IF fails THEN failures + 1 ELSE failures
    /\ Loaded(i, fails) \/ Stored(i, fails)

\* Mutant: the lookup that fails rejects its promise.
isReadyMutant(known) == known
\* A lookup that fails gives a null user, and the session is ready all the same.
isReady(known) == TRUE

\* The id service answers and the handler runs.
Handled(l, known, idle) ==
  LET h == handle(l.session, l.message, known) IN
  /\ lookups' = lookups \ {l}
  /\ IF isReady(known)
     THEN /\ idle <= Len(h.writes)
          /\ queries' = queries \o stores(l.user, h, idle)
          /\ delivered' = delivered \cup {[user |-> l.user, message |-> h.given[i]] : i \in DOMAIN h.given}
          /\ ended' = ended \cup {l.message.id}
          /\ latest' = IF h.writes = <<>> THEN latest ELSE [latest EXCEPT ![l.user] = h.data]
     ELSE idle = 0 /\ UNCHANGED <<queries, delivered, ended, latest>>
  /\ UNCHANGED <<row, arrived>>

LookupAnswered ==
  \E l \in lookups, known \in BOOLEAN, idle \in 0 .. (PoolSize - Cardinality(Running)) :
    /\ ~ known => failures < MaxFailures
    /\ failures' = IF known THEN failures ELSE failures + 1
    /\ Handled(l, known, idle)

\* The process stops and is started again: the row is all that is left.
Crash ==
  /\ failures < MaxFailures
  /\ failures' = failures + 1
  /\ queries' = <<>>
  /\ lookups' = {}
  /\ ended' = 1 .. arrived
  /\ latest' = row
  /\ UNCHANGED <<row, arrived, delivered>>

Next ==
  \/ \E u \in Users, m \in Incoming : Arrive(u, m)
  \/ QueryAnswered
  \/ LookupAnswered
  \/ Crash

Spec == Init /\ [][Next]_vars

\* Every query and every request to the id service is answered, if with an error.
FairSpec == Spec /\ WF_vars(QueryAnswered) /\ WF_vars(LookupAnswered)

-----------------------------------------------------------------------------
tells(m, key) == \E i \in 1 .. Len(contentOf(m).keys) : contentOf(m).keys[i] = key

TypeOK ==
  /\ row \in [Users -> Sessions]
  /\ \A i \in DOMAIN queries :
       queries[i] \in [kind : {"load", "store"}, user : Users,
                       message : Messages \cup {NoMessage}, session : Sessions]
  /\ \A l \in lookups : l \in [user : Users, message : Messages, session : Sessions]
  /\ arrived \in 0 .. MaxMessages
  /\ failures \in 0 .. MaxFailures
  /\ \A d \in delivered : d \in [user : Users, message : Messages]
  /\ ended \subseteq 1 .. arrived
  /\ latest \in [Users -> Sessions]

\* A payment that a chat message claims reaches the bot only for a user whose
\* Init has told the bot to hold a message: not at once, not held by the gate
\* and replayed, and not through stale sessions and restarts.
ClaimedPaymentsAreTold ==
  \A d \in delivered :
    d.message.type = "Payment" /\ d.message.via = "chat" =>
      \E e \in delivered :
        e.user = d.user /\ e.message.type = "Init" /\ tells(e.message, "heldForInit")

\* The bot is given nothing of a user before an Init of that user, except a
\* request for an Init of its own.
InitFirst ==
  \A d \in delivered :
    d.message.type \notin {"Init", "InitRequest"} =>
      \E e \in delivered : e.user = d.user /\ e.message.type = "Init"

\* An empty message, which only wakes the bot up, never reaches it, neither at
\* once nor held and replayed.
WakeUpsIgnored == \A d \in delivered : ~ (d.message.type = "Message" /\ d.message.body = "empty")

\* Whatever order the stores take effect in, a stored quote was computed for a
\* location the bot serves, unless an Init of the user told one or the other.
StoredQuoteHasLocation ==
  \A u \in Users :
    row[u].app_state = "WAITING_FOR_CONFIRMATION" =>
      \/ row[u].current_location = "served"
      \/ \E e \in delivered :
           /\ e.user = u /\ e.message.type = "Init"
           /\ tells(e.message, "app_state") \/ tells(e.message, "current_location")

\* Every message that arrives is handled, unless the process stops first.
EveryMessageEnds == <>[](ended = 1 .. arrived)

-----------------------------------------------------------------------------
(* Promises that the bot does not keep.                                    *)

\* No payment that a chat message claims reaches the bot, neither at once nor
\* after an Init.
NoUntrustedPayment ==
  \A d \in delivered : d.message.type = "Payment" => d.message.via = "eth"

\* When nothing is in progress the store holds the session that the last
\* handler of the user left.
StatePersists ==
  queries = <<>> /\ lookups = {} => row = latest
=============================================================================
