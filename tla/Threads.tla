------------------------------ MODULE Threads ------------------------------
(***************************************************************************)
(* Conversations in threads and states: Bot.js, Thread.js, and the part of *)
(* Session.js that opens and closes threads.  What the author of a bot     *)
(* does in a handler is up to him; he is only expected to set no states    *)
(* but those of the thread he is in, as bot/examples/testing_bot.js does.  *)
(* A handler is called with a session of its own, loaded before, and its   *)
(* stores take effect in any order (see Chat).                             *)
(***************************************************************************)
EXTENDS Naturals, SequencesExt

CONSTANTS
  Names,          \* the threads that bot.thread has made
  StatesOf,       \* the states of each
  OpeningState,   \* the state that its onOpen sets; null for none
  Hearings,       \* of each thread and of the root: what is heard, and in which state
  Patterns,       \* what a message can match
  null,
  MaxMessages,    \* bound: messages in one behaviour
  MaxCrashes      \* bound: restarts

ASSUME ThreadsAssumption ==
  /\ null \notin Names
  /\ "unregistered" \notin Names
  /\ \A t \in Names : OpeningState[t] \in StatesOf[t] \cup {null}
  /\ MaxMessages \in Nat /\ MaxCrashes \in Nat

VARIABLES
  row,       \* the stored thread and state of the user
  stores,    \* the sessions on their way into the store, equal ones as one
  loaded,    \* the sessions whose handler is to run
  arrived,   \* how many messages there have been
  crashes    \* how many restarts

vars == <<row, stores, loaded, arrived, crashes>>

-----------------------------------------------------------------------------
(* A session: its fields thread and state, its data, and what it has       *)
(* handed to the store.                                                    *)

NoData == [thread |-> null, state |-> null]

\* Session.load: a name that the bot does not know gives no thread.
load(data) ==
  [thread |-> IF data.thread \in Names THEN data.thread ELSE null,
   state |-> data.state, data |-> data, writes |-> <<>>, threw |-> FALSE]

flush(s) == [s EXCEPT !.writes = Append(@, s.data)]
set(s, key, value) == flush([s EXCEPT !.data = [@ EXCEPT ![key] = value]])

\* Mutant: the state is stored as the thread.
setStateKeyMutant(s, name) == set([s EXCEPT !.state = name], "thread", name)
setState(s, name) == set([s EXCEPT !.state = name], "state", name)

\* Mutant: the state stays when its thread is closed.
closeThreadMutant(s) == set([s EXCEPT !.thread = null], "thread", null)
closeThread(s) == setState(set([s EXCEPT !.thread = null], "thread", null), null)

open(s) == IF OpeningState[s.thread] = null THEN s ELSE setState(s, OpeningState[s.thread])

\* An unknown thread is stored, and then throws when it is to be opened.
openThread(s, name) ==
  LET o == set(closeThread(s), "thread", name) IN
  IF name \in Names THEN open([o EXCEPT !.thread = name]) ELSE [o EXCEPT !.threw = TRUE]

forget(s) == flush([s EXCEPT !.data = NoData])
reset(s) == forget(setState(closeThread(s), null))

-----------------------------------------------------------------------------
(* Dispatch.                                                               *)

\* What a handler can make of a session with one call or none.
oneCall(s) ==
  IF s.threw THEN {s}
  ELSE {s, flush(s), closeThread(s), reset(s)}
         \cup {openThread(s, name) : name \in Names \cup {"unregistered"}}
         \cup {setState(s, name) : name \in IF s.thread = null THEN {} ELSE StatesOf[s.thread]}

hears(thread, s, pattern) ==
  \E h \in Hearings[thread] : h.pattern = pattern /\ h.state \in {null, s.state}

\* bot.onEvent, if there is one, then the thread of the session, else the root.
onClientMessage(s, pattern) ==
  UNION {IF ~ e.threw /\ (hears("root", e, pattern) \/ (e.thread # null /\ hears(e.thread, e, pattern)))
         THEN oneCall(e) ELSE {e} : e \in oneCall(s)}

-----------------------------------------------------------------------------
Init ==
  /\ row = NoData
  /\ stores = {} /\ loaded = {}
  /\ arrived = 0 /\ crashes = 0

Arrive ==
  /\ arrived < MaxMessages
  /\ arrived' = arrived + 1
  /\ loaded' = loaded \cup {[id |-> arrived + 1, data |-> row]}
  /\ UNCHANGED <<row, stores, crashes>>

\* The first stores are sent at once, the others when there is a connection, with
\* the session as it is then.
handedOver(s) ==
  {{s.writes[i] : i \in 1 .. idle} \cup (IF idle < Len(s.writes) THEN {s.data} ELSE {}) :
     idle \in 0 .. Len(s.writes)}

Handle(l, pattern) ==
  /\ \E handed \in UNION {handedOver(s) : s \in onClientMessage(load(l.data), pattern)} :
       stores' = stores \cup handed
  /\ loaded' = loaded \ {l}
  /\ UNCHANGED <<row, arrived, crashes>>

\* Of equal ones another may still be on its way.
Stored(data) ==
  /\ row' = data
  /\ stores' \in {stores, stores \ {data}}
  /\ UNCHANGED <<loaded, arrived, crashes>>

Crash ==
  /\ crashes < MaxCrashes
  /\ crashes' = crashes + 1
  /\ stores' = {} /\ loaded' = {}
  /\ UNCHANGED <<row, arrived>>

Next ==
  \/ Arrive
  \/ \E l \in loaded, pattern \in Patterns : Handle(l, pattern)
  \/ \E data \in stores : Stored(data)
  \/ Crash

Spec == Init /\ [][Next]_vars

-----------------------------------------------------------------------------
Data ==
  [thread : Names \cup {null, "unregistered"},
   state : {null} \cup UNION {StatesOf[t] : t \in Names}]

TypeOK ==
  /\ row \in Data
  /\ stores \subseteq Data
  /\ \A l \in loaded : l.id \in 1 .. arrived /\ l.data \in Data
  /\ arrived \in 0 .. MaxMessages /\ crashes \in 0 .. MaxCrashes

fits(data) ==
  data.thread # null /\ data.state # null =>
    data.thread \in Names /\ data.state \in StatesOf[data.thread]

\* A stored thread never has the state of another one: whatever handlers did on
\* stale copies, in whatever order their stores took effect, and wherever a
\* restart cut them off, no message is heard in a state of a thread it is not in.
StateIsOfThread == \A data \in {row} \cup stores : fits(data)
=============================================================================
