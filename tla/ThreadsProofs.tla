--------------------------- MODULE ThreadsProofs ---------------------------
(***************************************************************************)
(* Theorems about threads, for any threads, states, hearings and messages: *)
(* no state is ever stored with a thread that does not have it.            *)
(***************************************************************************)
EXTENDS Threads, SequenceTheorems, TLAPS

States == {null} \cup UNION {StatesOf[t] : t \in Names}

\* What may be stored.
Fitting == {d \in Data : fits(d)}

\* A session whose stores may all take effect, and that is in the thread it stores.
Sound ==
  {s \in [thread : Names \cup {null}, state : States, data : Fitting, writes : Seq(Fitting), threw : BOOLEAN] :
     s.thread # null => s.data.thread = s.thread}

IInv ==
  /\ row \in Fitting
  /\ stores \subseteq Fitting
  /\ \A l \in loaded : l.id \in 1 .. arrived /\ l.data \in Fitting
  /\ arrived \in 0 .. MaxMessages /\ crashes \in 0 .. MaxCrashes

-----------------------------------------------------------------------------
(* The session.                                                            *)

LEMMA NoDataFits == NoData \in Fitting
  BY DEF NoData, Fitting, Data, fits

LEMMA FlushSound ==
  ASSUME NEW s \in Sound
  PROVE  /\ flush(s) \in Sound
         /\ flush(s).thread = s.thread /\ flush(s).state = s.state /\ flush(s).data = s.data
<1>1. Append(s.writes, s.data) \in Seq(Fitting)
  BY DEF Sound
<1> QED
  BY <1>1 DEF Sound, flush

\* The data with another value of a key.
put(data, key, value) == [data EXCEPT ![key] = value]

LEMMA SetSound ==
  ASSUME NEW s \in Sound, NEW key, NEW value, NEW d \in Fitting,
         d = put(s.data, key, value), s.thread # null => d.thread = s.thread
  PROVE  /\ set(s, key, value) \in Sound
         /\ set(s, key, value).thread = s.thread /\ set(s, key, value).state = s.state
         /\ set(s, key, value).data = d
<1> DEFINE k == [s EXCEPT !.data = [@ EXCEPT ![key] = value]]
<1>1. k = [s EXCEPT !.data = d]
  BY DEF Sound, put
<1>2. k \in Sound /\ k.thread = s.thread /\ k.state = s.state /\ k.data = d
  BY <1>1 DEF Sound
<1>3. set(s, key, value) = flush(k)
  BY DEF set
<1> HIDE DEF k
<1> QED
  BY <1>2, <1>3, FlushSound

\* The states of the thread that is stored, or null.
LEMMA SetStateSound ==
  ASSUME NEW s \in Sound, NEW name \in States,
         name = null \/ s.data.thread = null \/ (s.data.thread \in Names /\ name \in StatesOf[s.data.thread])
  PROVE  /\ setState(s, name) \in Sound /\ setState(s, name).thread = s.thread
         /\ setState(s, name).data = [s.data EXCEPT !["state"] = name]
<1> DEFINE k == [s EXCEPT !.state = name]
           d == [s.data EXCEPT !["state"] = name]
<1>1. k \in Sound /\ k.data = s.data /\ k.thread = s.thread
  BY DEF Sound
<1>2. s.data \in Data
  BY DEF Sound, Fitting
<1>3. d \in Data /\ d.thread = s.data.thread /\ d.state = name
  BY <1>2 DEF Data, States
<1>4. d \in Fitting
  BY <1>3 DEF Fitting, fits
<1>5. k.thread # null => d.thread = k.thread
  BY <1>1, <1>3 DEF Sound
<1>6. d = put(k.data, "state", name)
  BY <1>1 DEF put
<1>7. setState(s, name) = set(k, "state", name)
  BY DEF setState
<1> HIDE DEF k, d
<1>8. /\ set(k, "state", name) \in Sound /\ set(k, "state", name).thread = k.thread
      /\ set(k, "state", name).data = d
  BY <1>1, <1>4, <1>5, <1>6, SetSound
<1> QED
  BY <1>1, <1>7, <1>8 DEF d

\* A closed session stores neither thread nor state.
LEMMA CloseSound ==
  ASSUME NEW s \in Sound
  PROVE  /\ closeThread(s) \in Sound /\ closeThread(s).thread = null
         /\ closeThread(s).data = NoData
<1> DEFINE k == [s EXCEPT !.thread = null]
           d == [s.data EXCEPT !["thread"] = null]
           c == set(k, "thread", null)
<1>1. k \in Sound /\ k.data = s.data /\ k.thread = null
  BY DEF Sound
<1>2. s.data \in Data
  BY DEF Sound, Fitting
<1>3. d \in Fitting /\ d.thread = null
  BY <1>2 DEF Fitting, Data, fits
<1>4. c \in Sound /\ c.thread = null /\ c.data = d
  <2>1. d = put(k.data, "thread", null)
    BY <1>1 DEF put
  <2> HIDE DEF k, d
  <2> QED
    BY <1>1, <1>3, <2>1, SetSound
<1>5. closeThread(s) = setState(c, null)
  BY DEF closeThread
<1>6. [d EXCEPT !["state"] = null] = NoData
  BY <1>2 DEF Data, NoData
<1>7. null \in States
  BY DEF States
<1> HIDE DEF c, d
<1>8. /\ setState(c, null) \in Sound /\ setState(c, null).thread = c.thread
      /\ setState(c, null).data = [c.data EXCEPT !["state"] = null]
  BY <1>4, <1>7, SetStateSound
<1> QED
  BY <1>4, <1>5, <1>6, <1>8

LEMMA OpenSound ==
  ASSUME NEW s \in Sound, NEW name \in Names \cup {"unregistered"}
  PROVE  openThread(s, name) \in Sound
<1> DEFINE c == closeThread(s)
           d == [NoData EXCEPT !["thread"] = name]
           o == set(c, "thread", name)
<1>1. c \in Sound /\ c.thread = null /\ c.data = NoData
  BY CloseSound
<1>2. d \in Fitting /\ d.thread = name
  BY DEF NoData, Fitting, Data, fits
<1>3. o \in Sound /\ o.thread = null /\ o.data = d
  <2> HIDE DEF c, d
  <2>1. d = put(c.data, "thread", name)
    BY <1>1 DEF d, put
  <2>2. c.thread # null => d.thread = c.thread
    BY <1>1
  <2> QED
    BY <1>1, <1>2, <2>1, <2>2, SetSound
<1>4. openThread(s, name) = IF name \in Names THEN open([o EXCEPT !.thread = name])
                            ELSE [o EXCEPT !.threw = TRUE]
  BY DEF openThread
<1> HIDE DEF o, d
<1>5. CASE name \notin Names
  <2>1. [o EXCEPT !.threw = TRUE] \in Sound
    BY <1>3 DEF Sound
  <2> QED
    BY <1>4, <1>5, <2>1
<1>6. CASE name \in Names
  <2> DEFINE k == [o EXCEPT !.thread = name]
  <2>1. k \in Sound /\ k.thread = name /\ k.data = d
    BY <1>2, <1>3, <1>6 DEF Sound
  <2>2. open(k) = IF OpeningState[name] = null THEN k ELSE setState(k, OpeningState[name])
    BY <2>1 DEF open
  <2>3. OpeningState[name] # null => OpeningState[name] \in StatesOf[name] /\ OpeningState[name] \in States
    BY <1>6, ThreadsAssumption DEF States
  <2> HIDE DEF k
  <2>4. OpeningState[name] # null => setState(k, OpeningState[name]) \in Sound
    BY <1>2, <1>6, <2>1, <2>3, SetStateSound
  <2>5. open(k) \in Sound
    BY <2>1, <2>2, <2>4
  <2> QED
    BY <1>4, <1>6, <2>5 DEF k
<1> QED
  BY <1>5, <1>6

LEMMA ResetSound ==
  ASSUME NEW s \in Sound
  PROVE  reset(s) \in Sound
<1> DEFINE c == setState(closeThread(s), null)
           k == [c EXCEPT !.data = NoData]
<1>1. c \in Sound /\ c.thread = null
  <2>1. closeThread(s) \in Sound /\ closeThread(s).thread = null
    BY CloseSound
  <2>2. null \in States
    BY DEF States
  <2> QED
    BY <2>1, <2>2, SetStateSound
<1>2. k \in Sound
  <2> HIDE DEF c
  <2> QED
    BY <1>1, NoDataFits DEF Sound
<1>3. reset(s) = flush(k)
  BY DEF reset, forget
<1> HIDE DEF k
<1> QED
  BY <1>2, <1>3, FlushSound

-----------------------------------------------------------------------------
(* The handlers.                                                           *)

LEMMA OneCallSound ==
  ASSUME NEW s \in Sound
  PROVE  oneCall(s) \subseteq Sound
<1>1. flush(s) \in Sound /\ closeThread(s) \in Sound /\ reset(s) \in Sound
  BY FlushSound, CloseSound, ResetSound
<1>2. \A name \in Names \cup {"unregistered"} : openThread(s, name) \in Sound
  BY OpenSound
<1>3. ASSUME s.thread # null, NEW name \in StatesOf[s.thread]
      PROVE  setState(s, name) \in Sound
  <2>1. s.thread \in Names /\ s.data.thread = s.thread
    BY <1>3 DEF Sound
  <2>2. name \in States
    BY <1>3, <2>1 DEF States
  <2> QED
    BY <1>3, <2>1, <2>2, SetStateSound
<1> QED
  BY <1>1, <1>2, <1>3 DEF oneCall

LEMMA HandlerSound ==
  ASSUME NEW s \in Sound, NEW pattern
  PROVE  onClientMessage(s, pattern) \subseteq Sound
  BY OneCallSound DEF onClientMessage

LEMMA LoadSound ==
  ASSUME NEW data \in Fitting
  PROVE  load(data) \in Sound
<1>1. data.state \in States
  BY DEF Fitting, Data, States
<1> QED
  BY <1>1 DEF load, Sound

LEMMA HandedOverFits ==
  ASSUME NEW s \in Sound, NEW handed \in handedOver(s)
  PROVE  handed \subseteq Fitting
<1>1. s.data \in Fitting /\ s.writes \in Seq(Fitting)
  BY DEF Sound
<1>2. Len(s.writes) \in Nat /\ \A i \in 1 .. Len(s.writes) : s.writes[i] \in Fitting
  BY <1>1, LenProperties
<1>3. \A idle \in 0 .. Len(s.writes) : \A i \in 1 .. idle : s.writes[i] \in Fitting
  BY <1>2
<1> QED
  BY <1>1, <1>3 DEF handedOver

-----------------------------------------------------------------------------
LEMMA InitHolds == Init => IInv
  BY NoDataFits, ThreadsAssumption DEF Init, IInv

LEMMA NextHolds == IInv /\ [Next]_vars => IInv'
<1> SUFFICES ASSUME IInv, [Next]_vars
             PROVE  IInv'
  OBVIOUS
<1>1. CASE Arrive
  BY <1>1, ThreadsAssumption DEF IInv, Arrive
<1>2. ASSUME NEW l \in loaded, NEW pattern \in Patterns, Handle(l, pattern)
      PROVE  IInv'
  <2>1. load(l.data) \in Sound
    BY LoadSound DEF IInv
  <2>2. onClientMessage(load(l.data), pattern) \subseteq Sound
    BY <2>1, HandlerSound
  <2>3. PICK s \in onClientMessage(load(l.data), pattern) :
          \E handed \in handedOver(s) : stores' = stores \cup handed
    BY <1>2 DEF Handle
  <2>4. stores' \subseteq Fitting
    BY <2>2, <2>3, HandedOverFits DEF IInv
  <2> QED
    BY <1>2, <2>4 DEF IInv, Handle
<1>3. ASSUME NEW data \in stores, Stored(data)
      PROVE  IInv'
  BY <1>3 DEF IInv, Stored
<1>4. CASE Crash
  BY <1>4, ThreadsAssumption DEF IInv, Crash
<1>5. CASE UNCHANGED vars
  BY <1>5 DEF IInv, vars
<1> QED
  BY <1>1, <1>2, <1>3, <1>4, <1>5 DEF Next

LEMMA Invariant == Spec => []IInv
  BY InitHolds, NextHolds, PTL DEF Spec

\* Threads and states, stored and loaded, are those of the bot, or the one name
\* that it does not know.
THEOREM TypeCorrect == Spec => []TypeOK
<1>1. IInv => TypeOK
  BY DEF IInv, Fitting, TypeOK
<1> QED
  BY <1>1, Invariant, PTL

\* Whatever handlers do with stale copies of a session, in whatever order their
\* stores take effect, and wherever a restart cuts openThread off, no state is
\* stored with a thread that does not have it.
THEOREM StatesStayInTheirThread == Spec => []StateIsOfThread
<1>1. IInv => StateIsOfThread
  BY DEF IInv, Fitting, StateIsOfThread
<1> QED
  BY <1>1, Invariant, PTL
=============================================================================
