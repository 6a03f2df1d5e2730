--------------------------- MODULE DialogueProofs ---------------------------
(***************************************************************************)
(* Theorems about the dialogue of one user with the bot: whatever he says, *)
(* in whatever order, its session keeps its type and a quote waits for its *)
(* confirmation only when the bot serves the location it was computed for. *)
(***************************************************************************)
EXTENDS Dialogue, TLAPS

Sessions ==
  [app_state : AppStates, insurance_amount : Amounts, booking_no : BOOLEAN,
   aadhar_no : BOOLEAN, current_location : Locations]

Quoting == "WAITING_FOR_CONFIRMATION"

\* The sessions in which a quote, if there is one, is for a location the bot serves.
Quoted == {s \in Sessions : s.app_state = Quoting => s.current_location = "served"}

\* The work of a handler, with its four fields and a session of Quoted.
Works(h) ==
  /\ h = [data |-> h.data, writes |-> h.writes, said |-> h.said, threw |-> h.threw]
  /\ h.data \in Quoted

-----------------------------------------------------------------------------
(* The handlers.                                                           *)

LEMMA SetWorks ==
  ASSUME NEW h, Works(h), NEW key, NEW value, [h.data EXCEPT ![key] = value] \in Quoted
  PROVE  /\ Works(set(h, key, value))
         /\ set(h, key, value).data = [h.data EXCEPT ![key] = value]
<1> DEFINE d == [h.data EXCEPT ![key] = value]
           w == Append(h.writes, d)
<1>1. [h EXCEPT !.data = [@ EXCEPT ![key] = value]]
        = [data |-> d, writes |-> h.writes, said |-> h.said, threw |-> h.threw]
  BY DEF Works
<1>2. set(h, key, value) = [data |-> d, writes |-> w, said |-> h.said, threw |-> h.threw]
  <2> HIDE DEF d
  <2>1. \A k : k = [data |-> d, writes |-> h.writes, said |-> h.said, threw |-> h.threw]
                 => flush(k) = [data |-> d, writes |-> Append(h.writes, d), said |-> h.said,
                                threw |-> h.threw]
    BY DEF flush
  <2> QED
    BY <1>1, <2>1 DEF set
<1>3. d \in Quoted
  OBVIOUS
<1> HIDE DEF d, w
<1>4. set(h, key, value).data = d
  BY <1>2
<1>5. Works(set(h, key, value))
  BY <1>2, <1>3 DEF Works
<1> QED
  BY <1>4, <1>5 DEF d

LEMMA ReplyWorks ==
  ASSUME NEW h, Works(h), NEW what
  PROVE  Works(reply(h, what)) /\ reply(h, what).data = h.data
<1>1. reply(h, what) = [data |-> h.data, writes |-> h.writes, said |-> Append(h.said, what),
                        threw |-> h.threw]
  BY DEF Works, reply
<1> QED
  BY <1>1 DEF Works

LEMMA ThrowWorks ==
  ASSUME NEW h, Works(h)
  PROVE  Works(throw(h)) /\ throw(h).data = h.data
<1>1. ASSUME NEW t
      PROVE  [h EXCEPT !.threw = t]
               = [data |-> h.data, writes |-> h.writes, said |-> h.said, threw |-> t]
  BY DEF Works
<1>2. throw(h) = [data |-> h.data, writes |-> h.writes, said |-> h.said, threw |-> TRUE]
  BY <1>1 DEF throw
<1>3. throw(h).data = h.data
  BY <1>2
<1> QED
  BY <1>2, <1>3 DEF Works

\* Awaiting anything but the confirmation of a quote.
LEMMA AwaitWorks ==
  ASSUME NEW h, Works(h), NEW v \in AppStates \ {Quoting}
  PROVE  Works(set(h, "app_state", v)) /\ set(h, "app_state", v).data.app_state = v
<1>1. h.data \in Sessions
  BY DEF Works, Quoted
<1> DEFINE d == [h.data EXCEPT !["app_state"] = v]
<1>2. d \in Sessions /\ d.app_state = v
  BY <1>1 DEF Sessions
<1>3. d \in Quoted
  BY <1>2 DEF Quoted
<1> HIDE DEF d
<1>4. Works(set(h, "app_state", v)) /\ set(h, "app_state", v).data = d
  BY <1>3, SetWorks DEF d
<1> QED
  BY <1>2, <1>4

LEMMA InsuranceWorks ==
  ASSUME NEW h, Works(h)
  PROVE  Works(handleInsurance(h))
<1>1. {"WELCOME", "WAITING_FOR_BOOKING", waitingforaadharnumber, "WAITING_FOR_INSURANCE_AMOUNT",
       "WAITING_FOR_LOCATION"} \subseteq AppStates \ {Quoting}
  BY DEF AppStates, waitingforaadharnumber, undefined, Quoting
<1>2. \A k, q : Works(k) => Works(reply(k, q))
  BY ReplyWorks
<1>3. \A k, v : Works(k) /\ v \in AppStates \ {Quoting} => Works(set(k, "app_state", v))
  BY AwaitWorks
<1> QED
  BY <1>1, <1>2, <1>3 DEF handleInsurance, askBooking, askLocation

\* An entry of the session that has nothing to do with quotes.
LEMMA EntryWorks ==
  ASSUME NEW h, Works(h)
  PROVE  /\ Works(set(h, "booking_no", TRUE))
         /\ Works(set(h, "aadhar_no", TRUE))
         /\ \A v \in Amounts : Works(set(h, "insurance_amount", v))
<1>1. h.data \in Quoted /\ h.data \in Sessions
  BY DEF Works, Quoted
<1>2. [h.data EXCEPT !["booking_no"] = TRUE] \in Quoted
  BY <1>1 DEF Quoted, Sessions
<1>3. [h.data EXCEPT !["aadhar_no"] = TRUE] \in Quoted
  BY <1>1 DEF Quoted, Sessions
<1>4. \A v \in Amounts : [h.data EXCEPT !["insurance_amount"] = v] \in Quoted
  BY <1>1 DEF Quoted, Sessions
<1> QED
  BY <1>2, <1>3, <1>4, SetWorks

LEMMA LocationWorks ==
  ASSUME NEW h, Works(h), h.data.app_state # Quoting, NEW body
  PROVE  Works(locationEntered(h, body))
<1> DEFINE place == IF body = "servedLocation" THEN "served" ELSE "unknown"
           d     == [h.data EXCEPT !["current_location"] = place]
           g     == set(h, "current_location", place)
           p     == reply(reply(g, "quote"), "askTakeInsurance")
           e     == [d EXCEPT !["app_state"] = Quoting]
<1>1. h.data \in Sessions
  BY DEF Works, Quoted
<1>2. d \in Sessions /\ d.current_location = place /\ d.app_state = h.data.app_state
  BY <1>1 DEF Sessions, Locations
<1>3. d \in Quoted
  BY <1>2 DEF Quoted
<1>4. Works(g) /\ g.data = d
  BY <1>3, SetWorks
<1>5. Works(p) /\ p.data = d
  <2> HIDE DEF g, d
  <2>1. Works(reply(g, "quote")) /\ reply(g, "quote").data = d
    BY <1>4, ReplyWorks
  <2> QED
    BY <2>1, ReplyWorks
<1>6. ASSUME serves(body)
      PROVE  Works(set(p, "app_state", Quoting))
  <2>1. place = "served"
    BY <1>6 DEF serves
  <2> HIDE DEF d, p, place
  <2>2. e \in Sessions /\ e.current_location = "served"
    BY <1>2, <2>1 DEF Sessions, AppStates, Quoting
  <2>3. e \in Quoted
    BY <2>2 DEF Quoted
  <2> QED
    BY <1>5, <2>3, SetWorks
<1>7. serves(body) => Works(set(p, "app_state", "WAITING_FOR_CONFIRMATION"))
  BY <1>6 DEF Quoting
<1> QED
  BY <1>4, <1>7, InsuranceWorks DEF locationEntered

LEMMA MessageWorks ==
  ASSUME NEW h, Works(h), NEW body
  PROVE  Works(onMessage(h, body))
<1>1. Works(amountEntered(h, body))
  <2> DEFINE a == set(h, "insurance_amount", amountOf(body))
  <2>1. Works(a)
    BY EntryWorks DEF amountOf, Amounts
  <2>2. Works(set(reply(a, "amountExceedsTicket"), "app_state", "WAITING_FOR_BOOKING"))
    <3> HIDE DEF a
    <3>1. Works(reply(a, "amountExceedsTicket"))
      BY <2>1, ReplyWorks
    <3> QED
      BY <3>1, AwaitWorks DEF AppStates, Quoting
  <2> QED
    BY <2>1, <2>2, InsuranceWorks DEF amountEntered
<1>2. Works(handleInsurance(set(h, "booking_no", TRUE))) /\ Works(handleInsurance(set(h, "aadhar_no", TRUE)))
  BY EntryWorks, InsuranceWorks
<1>3. h.data.app_state = "WAITING_FOR_LOCATION" => Works(locationEntered(h, body))
  BY LocationWorks DEF Quoting
<1> QED
  BY <1>1, <1>2, <1>3 DEF onMessage

LEMMA CommandWorks ==
  ASSUME NEW h, Works(h), NEW value
  PROVE  Works(onCommand(h, value))
<1>1. \A k : Works(k) => Works(set(k, "app_state", undefined))
  BY AwaitWorks DEF AppStates, undefined, Quoting
<1>2. \A k : Works(k) => Works(handleInsurance(k))
  BY InsuranceWorks
<1>3. \A k, q : Works(k) => Works(reply(k, q))
  BY ReplyWorks
<1>4. \A k : Works(k) => Works(handleInvest(k))
  BY <1>3 DEF handleInvest
<1>5. \A k : Works(k) => Works(processPayment(k))
  BY <1>3 DEF processPayment
<1>6. Works(throw(h))
  BY ThrowWorks
<1> QED
  BY <1>1, <1>2, <1>3, <1>4, <1>5, <1>6
     DEF onCommand, confirmed, POOL, INVEST, INVESTED, waitingforinvestmentamount

\* bot.onEvent, whatever it is called with.
LEMMA EventWorks ==
  ASSUME NEW h, Works(h), NEW m, NEW known
  PROVE  Works(onEvent(h, m, known))
<1>1. Works(welcome(h, known))
  <2> DEFINE a == set(h, "app_state", "WELCOME")
  <2>1. Works(a)
    BY AwaitWorks DEF AppStates, Quoting
  <2> HIDE DEF a
  <2>2. Works(reply(a, "hello")) /\ Works(throw(a))
    BY <2>1, ReplyWorks, ThrowWorks
  <2> QED
    BY <2>2 DEF welcome, a
<1>2. Works(onPayment(h, m.body))
  BY ReplyWorks DEF onPayment
<1> QED
  BY <1>1, <1>2, MessageWorks, CommandWorks DEF onEvent

-----------------------------------------------------------------------------
(* The theorems.                                                           *)

IInv == data \in Quoted /\ heard \in Inputs /\ cooperative \in BOOLEAN

LEMMA StartWorks ==
  ASSUME NEW d \in Quoted
  PROVE  Works(Start(d))
  BY DEF Start, Works

LEMMA HearKeeps ==
  ASSUME IInv, NEW m \in Inputs, Hear(m)
  PROVE  data' \in Quoted /\ heard' \in Inputs
<1>1. Works(onEvent(Start(data), m, TRUE))
  BY StartWorks, EventWorks DEF IInv
<1> QED
  BY <1>1 DEF Hear, Works

LEMMA AnswerIsInput == Answer \in Inputs
<1>1. Message("Command", "insure") \in Inputs
  BY DEF Inputs, Commands
<1>2. /\ Message("Message", "amountFits") \in Inputs
      /\ Message("Message", "servedLocation") \in Inputs
      /\ Message("Message", "text") \in Inputs
  BY DEF Inputs, Bodies
<1> QED
  BY <1>1, <1>2 DEF Answer

LEMMA InvariantHolds == Spec => []IInv
<1>1. Init => IInv
  <2> SUFFICES ASSUME Init
               PROVE  IInv
    OBVIOUS
  <2>1. Fresh \in Sessions /\ Fresh.app_state # Quoting
    BY DEF Fresh, Sessions, AppStates, Amounts, Locations, undefined, Quoting
  <2>2. Works(onEvent(Start(Fresh), Message("Init", "full"), TRUE))
    BY <2>1, StartWorks, EventWorks DEF Quoted
  <2>3. data \in Quoted
    BY <2>2 DEF Init, Works
  <2>4. heard \in Inputs
    BY DEF Init, Inputs
  <2> QED
    BY <2>3, <2>4 DEF Init, IInv
<1>2. IInv /\ [Next]_vars => IInv'
  <2> SUFFICES ASSUME IInv, [Next]_vars
               PROVE  IInv'
    OBVIOUS
  <2>1. CASE UNCHANGED vars
    BY <2>1 DEF IInv, vars
  <2>2. CASE Talk
    BY <2>2, HearKeeps DEF IInv, Talk
  <2>3. CASE BeginToCooperate
    BY <2>3 DEF IInv, BeginToCooperate
  <2>4. CASE Cooperate
    BY <2>4, HearKeeps, AnswerIsInput DEF IInv, Cooperate
  <2> QED
    BY <2>1, <2>2, <2>3, <2>4 DEF Next
<1> QED
  BY <1>1, <1>2, PTL DEF Spec

\* Whatever is said, the session keeps its type, and what is heard is a message
\* that a user can send.
THEOREM TypeCorrect == Spec => []TypeOK
<1>1. IInv => TypeOK
  BY DEF IInv, TypeOK, Quoted, Sessions
<1> QED
  BY <1>1, InvariantHolds, PTL

\* A quote waits for its confirmation only while the session names a location the
\* bot serves: a location is asked for again only after another answer has taken
\* the dialogue out of that state.
THEOREM QuoteIsForLocation == Spec => []QuoteHasLocation
<1>1. IInv => QuoteHasLocation
  BY DEF IInv, QuoteHasLocation, Quoted, Quoting
<1> QED
  BY <1>1, InvariantHolds, PTL
=============================================================================
