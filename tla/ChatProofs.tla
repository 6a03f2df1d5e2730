----------------------------- MODULE ChatProofs -----------------------------
(***************************************************************************)
(* Theorems about the gate in front of the bot, for any number of users,   *)
(* messages, connections and failures, and whatever an Init tells: no      *)
(* wake-up and nothing before an Init reaches the bot, and no payment that *)
(* a chat message claims and no quote without a location gets through but  *)
(* by the content of an Init.                                              *)
(***************************************************************************)
EXTENDS Chat, SequenceTheorems, TLAPS

\* What a reply asks or tells.
Replies ==
  {"askBooking", "askAadhar", "identityVerified", "askAmount", "askLocation", "amountExceedsTicket",
   "quote", "askTakeInsurance", "payThePremium", "listPolicies", "askWhichPolicy", "askInvestment",
   "thanks", "paymentError", "hello", "initRequest", "poolFilled"}

\* The work of a handler on sessions of S that has given the bot the messages g.
Handlings(S, g) ==
  [data : S, writes : Seq(S), said : Seq(Replies), threw : BOOLEAN, given : {g}]

\* The bot awaits the confirmation of a quote for a location that it serves.
Quoting == "WAITING_FOR_CONFIRMATION"
Quoted(s) == s.app_state = Quoting => s.current_location = "served"

\* What the bot stores of a session of S leaves it in S: it quotes only for a
\* location it serves, and hears of no other while the quote is open.
Closed(S) ==
  /\ S \subseteq Sessions
  /\ \A s \in S :
       /\ \A v \in AppStates \ {Quoting} : [s EXCEPT !["app_state"] = v] \in S
       /\ s.current_location = "served" => [s EXCEPT !["app_state"] = Quoting] \in S
       /\ \A v \in Amounts : [s EXCEPT !["insurance_amount"] = v] \in S
       /\ s.app_state # Quoting => \A v \in Locations : [s EXCEPT !["current_location"] = v] \in S
       /\ [s EXCEPT !["booking_no"] = TRUE] \in S
       /\ [s EXCEPT !["aadhar_no"] = TRUE] \in S

-----------------------------------------------------------------------------
(* The bot.                                                                *)

LEMMA FlushKeeps ==
  ASSUME NEW S, NEW g, NEW h \in Handlings(S, g)
  PROVE  flush(h) \in Handlings(S, g) /\ flush(h).data = h.data /\ flush(h).threw = h.threw
<1>1. Append(h.writes, h.data) \in Seq(S)
  BY DEF Handlings
<1>2. flush(h) \in Handlings(S, g)
  BY <1>1 DEF Handlings, flush
<1>3. flush(h).data = h.data
  BY DEF Handlings, flush
<1>4. flush(h).threw = h.threw
  BY DEF Handlings, flush
<1> QED
  BY <1>2, <1>3, <1>4

LEMMA SetKeeps ==
  ASSUME NEW S, NEW g, NEW h \in Handlings(S, g), NEW key, NEW value,
         [h.data EXCEPT ![key] = value] \in S
  PROVE  /\ set(h, key, value) \in Handlings(S, g)
         /\ set(h, key, value).data = [h.data EXCEPT ![key] = value]
         /\ set(h, key, value).threw = h.threw
<1> DEFINE k == [h EXCEPT !.data = [@ EXCEPT ![key] = value]]
<1>1. k \in Handlings(S, g) /\ k.data = [h.data EXCEPT ![key] = value] /\ k.threw = h.threw
  BY DEF Handlings
<1>2. set(h, key, value) = flush(k)
  BY DEF set
<1> HIDE DEF k
<1> QED
  BY <1>1, <1>2, FlushKeeps

LEMMA ReplyKeeps ==
  ASSUME NEW S, NEW g, NEW h \in Handlings(S, g), NEW what \in Replies
  PROVE  /\ reply(h, what) \in Handlings(S, g)
         /\ reply(h, what).data = h.data /\ reply(h, what).threw = h.threw
<1>1. Append(h.said, what) \in Seq(Replies)
  BY DEF Handlings
<1>2. reply(h, what) \in Handlings(S, g)
  BY <1>1 DEF Handlings, reply
<1>3. reply(h, what).data = h.data
  BY DEF Handlings, reply
<1>4. reply(h, what).threw = h.threw
  BY DEF Handlings, reply
<1> QED
  BY <1>2, <1>3, <1>4

LEMMA ThrowKeeps ==
  ASSUME NEW S, NEW g, NEW h \in Handlings(S, g)
  PROVE  throw(h) \in Handlings(S, g) /\ throw(h).data = h.data
  BY DEF Handlings, throw

\* What the bot sets, one lemma for all of its keys.
LEMMA BotSets ==
  ASSUME NEW S, Closed(S), NEW g, NEW h \in Handlings(S, g)
  PROVE  /\ \A v \in AppStates \ {Quoting} : set(h, "app_state", v) \in Handlings(S, g)
         /\ \A v \in Amounts : set(h, "insurance_amount", v) \in Handlings(S, g)
         /\ set(h, "booking_no", TRUE) \in Handlings(S, g)
         /\ set(h, "aadhar_no", TRUE) \in Handlings(S, g)
<1>1. h.data \in S
  BY DEF Handlings
<1> QED
  BY <1>1, SetKeeps DEF Closed

\* A prompt, or two, and the state in which the answer is awaited.
LEMMA PromptKeeps ==
  ASSUME NEW S, Closed(S), NEW g, NEW h \in Handlings(S, g), NEW q \in Replies, NEW v \in AppStates \ {Quoting}
  PROVE  set(reply(h, q), "app_state", v) \in Handlings(S, g)
<1>1. reply(h, q) \in Handlings(S, g)
  BY ReplyKeeps
<1> QED
  BY <1>1, BotSets

LEMMA PromptsKeep ==
  ASSUME NEW S, Closed(S), NEW g, NEW h \in Handlings(S, g),
         NEW q \in Replies, NEW r \in Replies, NEW v \in AppStates \ {Quoting}
  PROVE  set(reply(reply(h, q), r), "app_state", v) \in Handlings(S, g)
<1>1. reply(h, q) \in Handlings(S, g)
  BY ReplyKeeps
<1>2. reply(reply(h, q), r) \in Handlings(S, g)
  BY <1>1, ReplyKeeps
<1> QED
  BY <1>1, <1>2, BotSets

LEMMA InsuranceKeeps ==
  ASSUME NEW S, Closed(S), NEW g, NEW h \in Handlings(S, g)
  PROVE  handleInsurance(h) \in Handlings(S, g)
<1>1. {"WELCOME", "WAITING_FOR_BOOKING", waitingforaadharnumber, "WAITING_FOR_INSURANCE_AMOUNT",
       "WAITING_FOR_LOCATION"} \subseteq AppStates \ {Quoting}
  BY DEF AppStates, waitingforaadharnumber, undefined, Quoting
<1>2. askBooking(h) \in Handlings(S, g)
  BY <1>1, PromptKeeps DEF askBooking, Replies
<1>3. set(reply(h, "askAadhar"), "app_state", waitingforaadharnumber) \in Handlings(S, g)
  BY <1>1, PromptKeeps DEF Replies
<1>4. set(reply(reply(h, "identityVerified"), "askAmount"), "app_state", "WAITING_FOR_INSURANCE_AMOUNT")
        \in Handlings(S, g)
  BY <1>1, PromptsKeep DEF Replies
<1>5. askLocation(h) \in Handlings(S, g)
  BY <1>1, PromptKeeps DEF askLocation, Replies
<1>6. set(reply(h, "poolFilled"), "app_state", "WELCOME") \in Handlings(S, g)
  BY <1>1, PromptKeeps DEF Replies
<1> QED
  BY <1>2, <1>3, <1>4, <1>5, <1>6 DEF handleInsurance

LEMMA MessageKeeps ==
  ASSUME NEW S, Closed(S), NEW g, NEW h \in Handlings(S, g), NEW body
  PROVE  onMessage(h, body) \in Handlings(S, g)
<1>1. amountEntered(h, body) \in Handlings(S, g)
  <2> DEFINE a == set(h, "insurance_amount", amountOf(body))
  <2>1. a \in Handlings(S, g)
    BY BotSets DEF amountOf, Amounts
  <2>2. set(reply(a, "amountExceedsTicket"), "app_state", "WAITING_FOR_BOOKING") \in Handlings(S, g)
    <3> HIDE DEF a
    <3> QED
      BY <2>1, PromptKeeps DEF AppStates, Replies, Quoting
  <2> QED
    BY <2>1, <2>2, InsuranceKeeps DEF amountEntered
<1>2. ASSUME h.data.app_state # Quoting
      PROVE  locationEntered(h, body) \in Handlings(S, g)
  <2> DEFINE place == IF body = "servedLocation" THEN "served" ELSE "unknown"
             a     == set(h, "current_location", place)
             p     == reply(reply(a, "quote"), "askTakeInsurance")
  <2>1. h.data \in S /\ S \subseteq Sessions
    BY DEF Handlings, Closed
  <2>2. a \in Handlings(S, g) /\ a.data = [h.data EXCEPT !["current_location"] = place]
    <3>1. [h.data EXCEPT !["current_location"] = place] \in S
      BY <1>2, <2>1 DEF Closed, Locations
    <3> QED
      BY <3>1, SetKeeps
  <2>3. a.data.current_location = place
    BY <2>1, <2>2 DEF Sessions
  <2>4. p \in Handlings(S, g) /\ p.data = a.data
    <3> HIDE DEF a
    <3>1. reply(a, "quote") \in Handlings(S, g) /\ reply(a, "quote").data = a.data
      BY <2>2, ReplyKeeps DEF Replies
    <3> QED
      BY <3>1, ReplyKeeps DEF Replies
  <2>5. ASSUME serves(body)
        PROVE  set(p, "app_state", Quoting) \in Handlings(S, g)
    <3> HIDE DEF a, p
    <3>1. p.data \in S /\ p.data.current_location = "served"
      BY <2>3, <2>4, <2>5 DEF serves, Handlings
    <3>2. [p.data EXCEPT !["app_state"] = Quoting] \in S
      BY <3>1 DEF Closed
    <3> QED
      BY <2>4, <3>2, SetKeeps
  <2>6. serves(body) => set(p, "app_state", "WAITING_FOR_CONFIRMATION") \in Handlings(S, g)
    BY <2>5 DEF Quoting
  <2> QED
    BY <2>2, <2>6, InsuranceKeeps DEF locationEntered
<1>3. /\ handleInsurance(set(h, "booking_no", TRUE)) \in Handlings(S, g)
      /\ handleInsurance(set(h, "aadhar_no", TRUE)) \in Handlings(S, g)
  BY BotSets, InsuranceKeeps
<1> QED
  BY <1>1, <1>2, <1>3 DEF onMessage, Quoting

LEMMA CommandKeeps ==
  ASSUME NEW S, Closed(S), NEW g, NEW h \in Handlings(S, g), NEW value
  PROVE  onCommand(h, value) \in Handlings(S, g)
<1>1. undefined \in AppStates \ {Quoting}
  BY DEF AppStates, undefined, Quoting
<1>2. \A k \in Handlings(S, g) : set(k, "app_state", undefined) \in Handlings(S, g)
  BY <1>1, BotSets
<1>3. \A k \in Handlings(S, g) : handleInsurance(k) \in Handlings(S, g)
  BY InsuranceKeeps
<1>4. ASSUME NEW k \in Handlings(S, g)
      PROVE  handleInvest(k) \in Handlings(S, g)
  <2>1. reply(k, "listPolicies") \in Handlings(S, g)
    BY ReplyKeeps DEF Replies
  <2>2. reply(reply(k, "listPolicies"), "askWhichPolicy") \in Handlings(S, g)
    BY <2>1, ReplyKeeps DEF Replies
  <2> QED
    BY <2>2 DEF handleInvest
<1>5. set(processPayment(set(reply(h, "askInvestment"), "app_state", undefined)), "app_state", undefined)
        \in Handlings(S, g)
  <2>1. set(reply(h, "askInvestment"), "app_state", undefined) \in Handlings(S, g)
    BY <1>1, PromptKeeps DEF Replies
  <2> QED
    BY <1>1, <2>1, PromptKeeps DEF processPayment, Replies
<1>6. throw(h) \in Handlings(S, g)
  BY ThrowKeeps
<1> QED
  BY <1>2, <1>3, <1>4, <1>5, <1>6
     DEF onCommand, confirmed, POOL, INVEST, INVESTED, waitingforinvestmentamount

\* bot.onEvent, whatever it is called with, keeps the rest of the session.
LEMMA BotKeeps ==
  ASSUME NEW S, Closed(S), NEW g, NEW h \in Handlings(S, g), NEW m, NEW known
  PROVE  onEvent(h, m, known) \in Handlings(S, g)
<1>1. welcome(h, known) \in Handlings(S, g)
  <2> DEFINE a == set(h, "app_state", "WELCOME")
  <2>1. a \in Handlings(S, g)
    BY BotSets DEF AppStates, Quoting
  <2>2. reply(a, "hello") \in Handlings(S, g)
    <3> HIDE DEF a
    <3> QED
      BY <2>1, ReplyKeeps DEF Replies
  <2>3. throw(a) \in Handlings(S, g)
    BY <2>1, ThrowKeeps
  <2> QED
    BY <2>2, <2>3 DEF welcome
<1>2. onPayment(h, m.body) \in Handlings(S, g)
  <2>1. reply(h, "thanks") \in Handlings(S, g) /\ reply(h, "paymentError") \in Handlings(S, g)
    BY ReplyKeeps DEF Replies
  <2> QED
    BY <2>1 DEF onPayment
<1> QED
  BY <1>1, <1>2, MessageKeeps, CommandKeeps DEF onEvent

LEMMA GiveKeeps ==
  ASSUME NEW S, Closed(S), NEW g, NEW h \in Handlings(S, g), ~ h.threw, NEW m, NEW known
  PROVE  give(h, m, known) \in Handlings(S, Append(g, m))
<1>1. onEvent(h, m, known) \in Handlings(S, g)
  BY BotKeeps
<1>2. give(h, m, known) = [onEvent(h, m, known) EXCEPT !.given = Append(@, m)]
  BY DEF give
<1> HIDE DEF give
<1> QED
  BY <1>1, <1>2 DEF Handlings

-----------------------------------------------------------------------------
(* The gate.                                                               *)

Trusted(m) == m.type = "Payment" => m.via = "eth"

\* What can have arrived.
Arrived(m) == m \in Messages /\ (m.via = "eth" => m.type = "Payment")

\* What the sessions of a user may hold that those of a stranger may not: an
\* address, a claimed payment, a quote for a location that is not served.
Permissions == {"known", "claims", "quotes"}

\* What an Init permits.
Grants(m) ==
  {p \in Permissions :
     \/ p = "known"
     \/ p = "claims" /\ tells(m, "heldForInit")
     \/ p = "quotes" /\ (tells(m, "app_state") \/ tells(m, "current_location"))}

\* The sessions, and the messages for the bot, of a user with the permissions t.
Honest(m, t) == Trusted(m) \/ "claims" \in t
Sound(s, t) == Quoted(s) \/ "quotes" \in t
Gated(t) ==
  {s \in Sessions : (s.paymentAddress => "known" \in t) /\ Honest(s.heldForInit, t) /\ Sound(s, t)}
Passed(m, t) == m \in Messages /\ Honest(m, t) /\ ~ isWakeUp(m)

LEMMA GatedClosed ==
  ASSUME NEW t
  PROVE  Closed(Gated(t))
<1>1. Gated(t) \subseteq Sessions
  BY DEF Gated
<1>2. ASSUME NEW s \in Gated(t), NEW k \in Sessions, Sound(k, t),
             k.paymentAddress = s.paymentAddress, k.heldForInit = s.heldForInit
      PROVE  k \in Gated(t)
  BY <1>2 DEF Gated
<1>3. ASSUME NEW s \in Gated(t), NEW v \in AppStates,
             v = Quoting => s.current_location = "served"
      PROVE  [s EXCEPT !["app_state"] = v] \in Gated(t)
  <2> DEFINE k == [s EXCEPT !["app_state"] = v]
  <2>1. k \in Sessions /\ k.heldForInit = s.heldForInit
    BY DEF Gated, Sessions
  <2>2. k.paymentAddress = s.paymentAddress
    BY DEF Gated, Sessions
  <2>3. k.app_state = v /\ k.current_location = s.current_location
    BY DEF Gated, Sessions
  <2>4. Sound(k, t)
    BY <1>3, <2>3 DEF Sound, Quoted
  <2> QED
    BY <1>2, <2>1, <2>2, <2>4
<1>4. ASSUME NEW s \in Gated(t), NEW v \in Amounts
      PROVE  [s EXCEPT !["insurance_amount"] = v] \in Gated(t)
  <2> DEFINE k == [s EXCEPT !["insurance_amount"] = v]
  <2>1. k \in Sessions /\ k.heldForInit = s.heldForInit
    BY DEF Gated, Sessions
  <2>2. k.paymentAddress = s.paymentAddress
    BY DEF Gated, Sessions
  <2>3. k.app_state = s.app_state /\ k.current_location = s.current_location
    BY DEF Gated, Sessions
  <2>4. Sound(k, t)
    BY <2>3 DEF Gated, Sound, Quoted
  <2> QED
    BY <1>2, <2>1, <2>2, <2>4
<1>5. ASSUME NEW s \in Gated(t), NEW v \in Locations, s.app_state # Quoting
      PROVE  [s EXCEPT !["current_location"] = v] \in Gated(t)
  <2> DEFINE k == [s EXCEPT !["current_location"] = v]
  <2>1. k \in Sessions /\ k.heldForInit = s.heldForInit
    BY DEF Gated, Sessions
  <2>2. k.paymentAddress = s.paymentAddress
    BY DEF Gated, Sessions
  <2>3. k.app_state = s.app_state
    BY DEF Gated, Sessions
  <2>4. Sound(k, t)
    BY <1>5, <2>3 DEF Sound, Quoted
  <2> QED
    BY <1>2, <2>1, <2>2, <2>4
<1>6. ASSUME NEW s \in Gated(t), NEW key \in {"booking_no", "aadhar_no"}
      PROVE  [s EXCEPT ![key] = TRUE] \in Gated(t)
  <2> DEFINE k == [s EXCEPT ![key] = TRUE]
  <2>1. k \in Sessions
    BY DEF Gated, Sessions
  <2>2. k.paymentAddress = s.paymentAddress /\ k.heldForInit = s.heldForInit
    BY DEF Gated, Sessions
  <2>3. k.app_state = s.app_state /\ k.current_location = s.current_location
    BY DEF Gated, Sessions
  <2>4. Sound(k, t)
    BY <2>3 DEF Gated, Sound, Quoted
  <2> QED
    BY <1>2, <2>1, <2>2, <2>4
<1>7. ASSUME NEW s \in Gated(t)
      PROVE  /\ \A v \in AppStates \ {Quoting} : [s EXCEPT !["app_state"] = v] \in Gated(t)
             /\ s.current_location = "served" => [s EXCEPT !["app_state"] = Quoting] \in Gated(t)
  <2>1. Quoting \in AppStates
    BY DEF AppStates, Quoting
  <2> QED
    BY <1>3, <2>1
<1> QED
  BY <1>1, <1>4, <1>5, <1>6, <1>7 DEF Closed

LEMMA HoldKeeps ==
  ASSUME NEW t, NEW g, NEW h \in Handlings(Gated(t), g), NEW m \in Messages \cup {NoMessage}, Honest(m, t)
  PROVE  set(h, "heldForInit", m) \in Handlings(Gated(t), g) /\ set(h, "heldForInit", m).threw = h.threw
<1>1. h.data \in Gated(t)
  BY DEF Handlings
<1> DEFINE k == [h.data EXCEPT !["heldForInit"] = m]
<1>2. k \in Sessions /\ k.heldForInit = m
  BY <1>1 DEF Gated, Sessions
<1>3. k.paymentAddress = h.data.paymentAddress
  BY <1>1 DEF Gated, Sessions
<1>4. k.app_state = h.data.app_state /\ k.current_location = h.data.current_location
  BY <1>1 DEF Gated, Sessions
<1>5. Sound(k, t)
  BY <1>1, <1>4 DEF Gated, Sound, Quoted
<1>6. k \in Gated(t)
  BY <1>1, <1>2, <1>3, <1>5 DEF Gated
<1> QED
  BY <1>6, SetKeeps

LEMMA HandlingsGrow ==
  ASSUME NEW S, NEW T, S \subseteq T, NEW g, NEW h \in Handlings(S, g)
  PROVE  h \in Handlings(T, g)
<1>1. h.data \in T /\ h.writes \in Seq(T)
  BY DEF Handlings
<1> QED
  BY <1>1 DEF Handlings

\* What a content tells, of the sessions with the permissions t, has those of r.
Telling(content, t, r) ==
  /\ content.values \in Sessions /\ t \subseteq r /\ "known" \in r
  /\ content.values.heldForInit.via = "chat"
  /\ \A i \in 1 .. Len(content.keys) :
       /\ content.keys[i] = "heldForInit" => "claims" \in r
       /\ content.keys[i] \in {"app_state", "current_location"} => "quotes" \in r

LEMMA ToldIsGated ==
  ASSUME NEW t, NEW r, NEW content, Telling(content, t, r), NEW s \in Gated(t),
         NEW n, 1 .. n \subseteq 1 .. Len(content.keys)
  PROVE  told(s, content, n) \in Gated(r)
<1> DEFINE v == content.values
           is(key) == \E i \in 1 .. n : content.keys[i] = key
           k == told(s, content, n)
<1>1. s \in Sessions /\ v \in Sessions
  BY DEF Gated, Telling
<1>2. /\ is("heldForInit") => "claims" \in r
      /\ is("app_state") \/ is("current_location") => "quotes" \in r
  BY DEF Telling
<1>3. k = [app_state        |-> IF is("app_state") THEN v["app_state"] ELSE s["app_state"],
           insurance_amount |-> IF is("insurance_amount") THEN v["insurance_amount"] ELSE s["insurance_amount"],
           booking_no       |-> IF is("booking_no") THEN v["booking_no"] ELSE s["booking_no"],
           aadhar_no        |-> IF is("aadhar_no") THEN v["aadhar_no"] ELSE s["aadhar_no"],
           current_location |-> IF is("current_location") THEN v["current_location"] ELSE s["current_location"],
           paymentAddress   |-> IF is("paymentAddress") THEN v["paymentAddress"] ELSE s["paymentAddress"],
           heldForInit      |-> IF is("heldForInit") THEN v["heldForInit"] ELSE s["heldForInit"]]
  BY DEF told
<1> HIDE DEF is, k, v
<1>4. k \in Sessions
  BY <1>1, <1>3 DEF Sessions
<1>5. k.paymentAddress => "known" \in r
  BY DEF Telling
<1>6. Honest(k.heldForInit, r)
  <2>1. CASE is("heldForInit")
    BY <2>1, <1>2 DEF Honest
  <2>2. CASE ~ is("heldForInit")
    <3>1. k.heldForInit = s.heldForInit
      BY <2>2, <1>3
    <3> QED
      BY <3>1 DEF Gated, Honest, Telling
  <2> QED
    BY <2>1, <2>2
<1>7. Sound(k, r)
  <2>1. CASE is("app_state") \/ is("current_location")
    BY <2>1, <1>2 DEF Sound
  <2>2. CASE ~ (is("app_state") \/ is("current_location"))
    <3>1. k.app_state = s.app_state /\ k.current_location = s.current_location
      BY <2>2, <1>3
    <3> QED
      BY <3>1 DEF Gated, Sound, Telling, Quoted
  <2> QED
    BY <2>1, <2>2
<1> QED
  BY <1>4, <1>5, <1>6, <1>7 DEF Gated, k

LEMMA TellKeeps ==
  ASSUME NEW t, NEW r, NEW content, Telling(content, t, r), Len(content.keys) \in Nat,
         NEW g, NEW h \in Handlings(Gated(t), g)
  PROVE  tell(h, content) \in Handlings(Gated(r), g) /\ tell(h, content).threw = h.threw
<1> DEFINE n == Len(content.keys)
           d == told(h.data, content, n)
           more == [i \in 1 .. n |-> told(h.data, content, i)]
           w == h.writes \o more
<1>1. Gated(t) \subseteq Gated(r)
  BY DEF Gated, Telling, Honest, Sound
<1>2. h \in Handlings(Gated(r), g)
  BY <1>1, HandlingsGrow
<1>3. h.data \in Gated(t)
  BY DEF Handlings
<1>4. d \in Gated(r)
  BY <1>3, ToldIsGated
<1>5. ASSUME NEW i \in 1 .. n
      PROVE  told(h.data, content, i) \in Gated(r)
  <2>1. 1 .. i \subseteq 1 .. n
    OBVIOUS
  <2> QED
    BY <1>3, <2>1, ToldIsGated
<1>6. more \in [1 .. n -> Gated(r)]
  BY <1>5
<1>7. more \in Seq(Gated(r))
  <2> HIDE DEF more
  <2> QED
    BY <1>6, IsASeq
<1>8. w \in Seq(Gated(r))
  <2>1. h.writes \in Seq(Gated(r))
    BY <1>2 DEF Handlings
  <2> HIDE DEF more
  <2> QED
    BY <1>7, <2>1, ConcatProperties
<1>9. tell(h, content) = [h EXCEPT !.data = d, !.writes = w]
  BY DEF tell
<1> HIDE DEF d, w
<1>10. tell(h, content) \in Handlings(Gated(r), g)
  BY <1>2, <1>4, <1>8, <1>9 DEF Handlings
<1>11. tell(h, content).threw = h.threw
  BY <1>2, <1>9 DEF Handlings
<1> QED
  BY <1>10, <1>11

LEMMA Opened ==
  ASSUME NEW S, NEW s \in S
  PROVE  Open(s) \in Handlings(S, <<>>) /\ ~ Open(s).threw /\ Open(s).data = s
  BY DEF Open, Handlings

\* What may be given to the bot, one after the other, and that m is part of it.
Passing(g, t) == g \in Seq(Messages) /\ \A i \in 1 .. Len(g) : Passed(g[i], t)
Has(g, m) == \E i \in 1 .. Len(g) : g[i] = m

LEMMA PassingOn ==
  ASSUME NEW t, NEW g, Passing(g, t), NEW m, Passed(m, t)
  PROVE  Passing(Append(g, m), t) /\ Has(Append(g, m), m) /\ \A x : Has(g, x) => Has(Append(g, m), x)
<1>1. g \in Seq(Messages) /\ m \in Messages
  BY DEF Passing, Passed
<1>2. /\ Append(g, m) \in Seq(Messages) /\ Len(Append(g, m)) = Len(g) + 1
      /\ \A i \in 1 .. Len(g) : Append(g, m)[i] = g[i]
      /\ Append(g, m)[Len(g) + 1] = m
      /\ Len(g) \in Nat
  BY <1>1, AppendProperties
<1>3. \A i \in 1 .. Len(g) + 1 : i \in 1 .. Len(g) \/ i = Len(g) + 1
  BY <1>2
<1>4. Passing(Append(g, m), t)
  BY <1>2, <1>3 DEF Passing
<1>5. 1 .. Len(g) \subseteq 1 .. Len(g) + 1 /\ Len(g) + 1 \in 1 .. Len(g) + 1
  BY <1>2
<1>6. Has(Append(g, m), m) /\ \A x : Has(g, x) => Has(Append(g, m), x)
  BY <1>2, <1>5 DEF Has
<1> QED
  BY <1>4, <1>6

LEMMA PassingNothing ==
  ASSUME NEW t
  PROVE  Passing(<<>>, t)
  BY DEF Passing

LEMMA Released ==
  ASSUME NEW t, NEW g, NEW h \in Handlings(Gated(t), g)
  PROVE  released(h) \in Handlings(Gated(t), g) /\ released(h).threw = h.threw
<1>1. NoMessage \in Messages \cup {NoMessage} /\ Honest(NoMessage, t)
  BY DEF Honest, Trusted, NoMessage
<1> QED
  BY <1>1, HoldKeeps DEF released

\* What an Init tells, it permits.
LEMMA ContentTells ==
  ASSUME NEW t, NEW m
  PROVE  Telling(contentOf(m), t, t \cup Grants(m)) /\ Len(contentOf(m).keys) \in Nat
<1> DEFINE c == contentOf(m)
<1>1. NewSession \in Sessions /\ NewSession.heldForInit.via = "chat"
  BY DEF NewSession, Sessions, AppStates, undefined, Amounts, Locations, NoMessage
<1>2. c.values \in Sessions /\ c.values.heldForInit.via = "chat" /\ Len(c.keys) \in Nat
  <2>1. CASE m.body \in DOMAIN ContentOf
    <3>1. c = ContentOf[m.body]
      BY <2>1 DEF contentOf
    <3> QED
      BY <2>1, <3>1, ContentAssumption, LenProperties
  <2>2. CASE m.body \notin DOMAIN ContentOf
    <3>1. c = [keys |-> <<>>, values |-> NewSession]
      BY <2>2 DEF contentOf
    <3> QED
      BY <1>1, <3>1
  <2> QED
    BY <2>1, <2>2
<1>3. "known" \in Grants(m)
  BY DEF Grants, Permissions
<1>4. ASSUME NEW i \in 1 .. Len(c.keys)
      PROVE  /\ c.keys[i] = "heldForInit" => "claims" \in Grants(m)
             /\ c.keys[i] \in {"app_state", "current_location"} => "quotes" \in Grants(m)
  BY DEF Grants, Permissions, tells
<1> QED
  BY <1>2, <1>3, <1>4 DEF Telling

\* An Init reaches the bot, then at most the message held for it does.
LEMMA InitPasses ==
  ASSUME NEW t, NEW s \in Gated(t), NEW m, m \in Messages, m.type = "Init", NEW known,
         NEW r, r = t \cup Grants(m)
  PROVE  \E g : Passing(g, r) /\ Has(g, m) /\ onInit(Open(s), m, known) \in Handlings(Gated(r), g)
<1> DEFINE k    == tell(Open(s), contentOf(m))
           g    == give(k, m, known)
           held == g.data.heldForInit
<1>1. k \in Handlings(Gated(r), <<>>) /\ ~ k.threw
  <2>1. Open(s) \in Handlings(Gated(t), <<>>) /\ ~ Open(s).threw
    BY Opened
  <2>2. Telling(contentOf(m), t, r) /\ Len(contentOf(m).keys) \in Nat
    BY ContentTells
  <2> QED
    BY <2>1, <2>2, TellKeeps
<1>2. Passed(m, r)
  BY DEF Passed, Honest, Trusted, isWakeUp
<1>3. g \in Handlings(Gated(r), Append(<<>>, m))
  <2> HIDE DEF k
  <2> QED
    BY <1>1, GiveKeeps, GatedClosed
<1>4. held \in Messages \cup {NoMessage, Unparsable} /\ Honest(held, r)
  <2> HIDE DEF g
  <2>1. g.data \in Gated(r)
    BY <1>3 DEF Handlings
  <2> QED
    BY <2>1 DEF Gated, Sessions
<1>5. released(g) \in Handlings(Gated(r), Append(<<>>, m)) /\ released(g).threw = g.threw
  <2> HIDE DEF g
  <2> QED
    BY <1>3, Released
<1>6. onInit(Open(s), m, known) = IF g.threw \/ held = NoMessage THEN g
                                  ELSE IF held = Unparsable THEN throw(released(g))
                                  ELSE IF isWakeUp(held) THEN released(g)
                                  ELSE give(released(g), held, known)
  BY DEF onInit
<1>7. Passing(Append(<<>>, m), r) /\ Has(Append(<<>>, m), m)
  BY <1>2, PassingOn, PassingNothing
<1> HIDE DEF g, held
<1>8. CASE g.threw \/ held = NoMessage
  BY <1>3, <1>6, <1>7, <1>8
<1>9. CASE ~ (g.threw \/ held = NoMessage) /\ held = Unparsable
  <2>1. throw(released(g)) \in Handlings(Gated(r), Append(<<>>, m))
    BY <1>5, ThrowKeeps
  <2> QED
    BY <1>6, <1>7, <1>9, <2>1
<1>10. CASE ~ (g.threw \/ held = NoMessage) /\ held # Unparsable /\ isWakeUp(held)
  BY <1>5, <1>6, <1>7, <1>10
<1>11. CASE ~ (g.threw \/ held = NoMessage) /\ held # Unparsable /\ ~ isWakeUp(held)
  <2>1. give(released(g), held, known) \in Handlings(Gated(r), Append(Append(<<>>, m), held))
    BY <1>5, <1>11, GiveKeeps, GatedClosed
  <2>2. Passed(held, r)
    BY <1>4, <1>11 DEF Passed
  <2>3. Passing(Append(Append(<<>>, m), held), r) /\ Has(Append(Append(<<>>, m), held), m)
    BY <1>7, <2>2, PassingOn
  <2> QED
    BY <1>6, <1>11, <2>1, <2>3
<1> QED
  BY <1>8, <1>9, <1>10, <1>11

\* A handler gives the bot an Init m and then what may pass, and leaves sessions
\* that have the permissions r.
Welcomes(r, s, m, known) ==
  m.type = "Init" /\ \E g : Passing(g, r) /\ Has(g, m) /\ handle(s, m, known) \in Handlings(Gated(r), g)

\* A handler gives the bot what may pass: to a user without an address only a
\* request for an Init.
Serves(t, s, m, known) ==
  \E g : /\ Passing(g, t) /\ handle(s, m, known) \in Handlings(Gated(t), g)
         /\ s.paymentAddress \/ (\A i \in 1 .. Len(g) : g[i].type = "InitRequest")

\* A handler gives the bot what may pass: an Init and the message held for it, or,
\* to a user without an address, only a request for an Init.
LEMMA HandlePasses ==
  ASSUME NEW t, NEW s \in Gated(t), NEW m, Arrived(m), NEW known
  PROVE  Welcomes(t \cup Grants(m), s, m, known) \/ Serves(t, s, m, known)
<1> DEFINE h == Open(s)
<1>1. h \in Handlings(Gated(t), <<>>) /\ ~ h.threw /\ h.data = s
  BY Opened
<1> HIDE DEF h
<1>2. ASSUME NEW k \in Handlings(Gated(t), <<>>), handle(s, m, known) = k
      PROVE  Serves(t, s, m, known)
  <2>1. \A i \in 1 .. Len(<<>>) : <<>>[i].type = "InitRequest"
    OBVIOUS
  <2> QED
    BY <1>2, <2>1, PassingNothing DEF Serves
<1>3. ASSUME Passed(m, t), handle(s, m, known) = give(h, m, known), s.paymentAddress \/ m.type = "InitRequest"
      PROVE  Serves(t, s, m, known)
  <2>1. give(h, m, known) \in Handlings(Gated(t), Append(<<>>, m))
    BY <1>1, GiveKeeps, GatedClosed
  <2>2. Passing(Append(<<>>, m), t)
    BY <1>3, PassingOn, PassingNothing
  <2>3. m.type = "InitRequest" => \A i \in 1 .. Len(Append(<<>>, m)) : Append(<<>>, m)[i].type = "InitRequest"
    OBVIOUS
  <2> QED
    BY <1>3, <2>1, <2>2, <2>3 DEF Serves
<1>4. reply(h, "initRequest") \in Handlings(Gated(t), <<>>)
  BY <1>1, ReplyKeeps DEF Replies
<1>5. ASSUME Honest(m, t)
      PROVE  reply(set(h, "heldForInit", m), "initRequest") \in Handlings(Gated(t), <<>>)
  <2>1. set(h, "heldForInit", m) \in Handlings(Gated(t), <<>>)
    BY <1>1, <1>5, HoldKeeps DEF Arrived
  <2> QED
    BY <2>1, ReplyKeeps DEF Replies
<1>6. CASE m.via = "chat" /\ m.type = "Init"
  <2>1. handle(s, m, known) = onInit(Open(s), m, known)
    BY <1>6 DEF handle, onChatMessage
  <2> DEFINE r == t \cup Grants(m)
  <2>2. \E g : Passing(g, r) /\ Has(g, m) /\ onInit(Open(s), m, known) \in Handlings(Gated(r), g)
    BY <1>6, InitPasses DEF Arrived
  <2> HIDE DEF r
  <2>3. Welcomes(r, s, m, known)
    BY <1>6, <2>1, <2>2 DEF Welcomes
  <2> QED
    BY <2>3 DEF r
<1>7. CASE m.via = "chat" /\ m.type = "InitRequest"
  <2>1. handle(s, m, known) = give(h, m, known)
    BY <1>7 DEF handle, onChatMessage, h
  <2>2. Passed(m, t)
    BY <1>7 DEF Passed, Honest, Trusted, isWakeUp, Arrived
  <2> QED
    BY <1>3, <1>7, <2>1, <2>2
<1>8. CASE m.via = "chat" /\ m.type \notin {"Init", "InitRequest"}
  <2>1. handle(s, m, known) =
          IF ~ introduced(s)
          THEN reply(IF mayBeHeld(m) THEN set(h, "heldForInit", m) ELSE h, "initRequest")
          ELSE IF m.type = "Payment" \/ isWakeUp(m) THEN h
          ELSE give(h, m, known)
    BY <1>1, <1>8 DEF handle, onChatMessage, h
  <2>2. CASE ~ introduced(s)
    <3>1. mayBeHeld(m) => Honest(m, t)
      BY DEF mayBeHeld, Honest, Trusted
    <3> QED
      BY <1>2, <1>4, <1>5, <2>1, <2>2, <3>1
  <2>3. CASE introduced(s) /\ (m.type = "Payment" \/ isWakeUp(m))
    BY <1>1, <1>2, <2>1, <2>3
  <2>4. CASE introduced(s) /\ ~ (m.type = "Payment" \/ isWakeUp(m))
    <3>1. Passed(m, t)
      BY <2>4 DEF Passed, Honest, Trusted, Arrived
    <3> QED
      BY <1>3, <2>1, <2>4, <3>1 DEF introduced
  <2> QED
    BY <2>2, <2>3, <2>4
<1>9. CASE m.via = "eth"
  <2>1. handle(s, m, known) =
          IF ~ known THEN throw(h)
          ELSE IF ~ introduced(s) THEN reply(set(h, "heldForInit", m), "initRequest")
          ELSE give(h, m, known)
    BY <1>1, <1>9 DEF handle, onPaymentUpdate, h
  <2>2. Passed(m, t) /\ Honest(m, t)
    BY <1>9 DEF Passed, Honest, Trusted, isWakeUp, Arrived
  <2>3. throw(h) \in Handlings(Gated(t), <<>>)
    BY <1>1, ThrowKeeps
  <2>4. CASE ~ known
    BY <1>2, <2>1, <2>3, <2>4
  <2>5. CASE known /\ ~ introduced(s)
    BY <1>2, <1>5, <2>1, <2>2, <2>5
  <2>6. CASE known /\ introduced(s)
    BY <1>3, <2>1, <2>2, <2>6 DEF introduced
  <2> QED
    BY <2>4, <2>5, <2>6
<1>10. m.via \in {"chat", "eth"}
  BY DEF Arrived, Messages
<1> QED
  BY <1>6, <1>7, <1>8, <1>9, <1>10

-----------------------------------------------------------------------------
(* What the queries, the loaded sessions and the messages given to the bot *)
(* have in common, when D was given to the bot and n messages have arrived. *)

\* What the rows at the start permit, to every user.
AtStart ==
  {p \in Permissions :
     \/ p = "known" /\ \E s \in StoredRows : s.paymentAddress
     \/ p = "claims" /\ \E s \in StoredRows : ~ Trusted(s.heldForInit)
     \/ p = "quotes" /\ \E s \in StoredRows : ~ Quoted(s)}

\* That, and what the Inits of the user permit which were given to the bot.
Allowed(D, u) ==
  {p \in Permissions :
     \/ p \in AtStart
     \/ \E e \in D : e.user = u /\ e.message.type = "Init" /\ p \in Grants(e.message)}

Admitted(D, u) == Gated(Allowed(D, u))

Queries(D, n) ==
  {q \in [kind : {"load", "store"}, user : Users, message : Messages \cup {NoMessage}, session : Sessions] :
     /\ q.session \in Admitted(D, q.user)
     /\ q.kind = "load" => Arrived(q.message) /\ q.message.id \in 1 .. n}

Waiting(D, n) ==
  {l \in [user : Users, message : Messages, session : Sessions] :
     /\ l.session \in Admitted(D, l.user)
     /\ Arrived(l.message) /\ l.message.id \in 1 .. n}

Given(D) ==
  {d \in [user : Users, message : Messages] :
     /\ Passed(d.message, Allowed(D, d.user))
     /\ d.message.type \in {"Init", "InitRequest"} \/ "known" \in Allowed(D, d.user)}

LEMMA PermissionsGrow ==
  ASSUME NEW t, NEW r, t \subseteq r
  PROVE  Gated(t) \subseteq Gated(r) /\ \A m : Passed(m, t) => Passed(m, r)
  BY DEF Gated, Passed, Honest, Sound

LEMMA Growth ==
  ASSUME NEW D, NEW E, D \subseteq E, NEW n \in Nat, NEW k \in Nat, n <= k
  PROVE  /\ \A u : Allowed(D, u) \subseteq Allowed(E, u)
         /\ \A u : Admitted(D, u) \subseteq Admitted(E, u)
         /\ Queries(D, n) \subseteq Queries(E, k)
         /\ Waiting(D, n) \subseteq Waiting(E, k)
         /\ Given(D) \subseteq Given(E)
<1>1. \A u : Allowed(D, u) \subseteq Allowed(E, u)
  BY DEF Allowed
<1>2. \A u : Admitted(D, u) \subseteq Admitted(E, u)
  BY <1>1, PermissionsGrow DEF Admitted
<1>3. \A i \in 1 .. n : i \in 1 .. k
  OBVIOUS
<1>4. Queries(D, n) \subseteq Queries(E, k)
  BY <1>2, <1>3 DEF Queries
<1>5. Waiting(D, n) \subseteq Waiting(E, k)
  BY <1>2, <1>3 DEF Waiting
<1>6. Given(D) \subseteq Given(E)
  <2>1. \A m, u : Passed(m, Allowed(D, u)) => Passed(m, Allowed(E, u))
    BY <1>1, PermissionsGrow
  <2> QED
    BY <1>1, <2>1 DEF Given
<1> QED
  BY <1>1, <1>2, <1>4, <1>5, <1>6

\* What was given to the bot when a handler of the user has run.
Delivered(D, u, h) == D \cup {[user |-> u, message |-> h.given[i]] : i \in DOMAIN h.given}

\* What a handler gives to the bot may be given, and what it stores may be stored.
LEMMA HandlingAdmits ==
  ASSUME NEW D, D \subseteq Given(D), NEW u \in Users, NEW s \in Admitted(D, u),
         NEW m, Arrived(m), NEW known, NEW h, h = handle(s, m, known),
         NEW E, E = Delivered(D, u, h)
  PROVE  /\ E \subseteq Given(E)
         /\ h.data \in Admitted(E, u)
         /\ h.writes \in Seq(Admitted(E, u))
<1>1. ASSUME NEW p, p \subseteq Allowed(E, u), NEW g, Passing(g, p), h \in Handlings(Gated(p), g),
             (\A i \in 1 .. Len(g) : g[i].type = "InitRequest") \/ "known" \in Allowed(E, u)
      PROVE  E \subseteq Given(E) /\ h.data \in Admitted(E, u) /\ h.writes \in Seq(Admitted(E, u))
  <2> DEFINE New == {[user |-> u, message |-> g[i]] : i \in 1 .. Len(g)}
  <2>1. Gated(p) \subseteq Admitted(E, u)
    BY <1>1, PermissionsGrow DEF Admitted
  <2>2. h \in Handlings(Admitted(E, u), g)
    BY <1>1, <2>1, HandlingsGrow
  <2>3. h.given = g /\ h.data \in Admitted(E, u) /\ h.writes \in Seq(Admitted(E, u))
    BY <2>2 DEF Handlings
  <2>4. E = D \cup New
    <3>1. h.given = g /\ DOMAIN g = 1 .. Len(g)
      BY <1>1, <2>3 DEF Passing
    <3> QED
      BY <3>1 DEF Delivered
  <2>5. D \subseteq Given(E)
    <3>1. D \subseteq E
      BY <2>4
    <3> QED
      BY <3>1, Growth, 0 \in Nat, 0 <= 0
  <2>6. \A i \in 1 .. Len(g) : g[i] \in Messages /\ Passed(g[i], Allowed(E, u))
    <3>1. \A x : Passed(x, p) => Passed(x, Allowed(E, u))
      BY <1>1, PermissionsGrow
    <3> QED
      BY <1>1, <3>1 DEF Passing, Passed
  <2>7. ASSUME NEW i \in 1 .. Len(g)
        PROVE  [user |-> u, message |-> g[i]] \in Given(E)
    <3>1. [user |-> u, message |-> g[i]] \in [user : Users, message : Messages]
      BY <2>6
    <3>2. g[i].type \in {"Init", "InitRequest"} \/ "known" \in Allowed(E, u)
      BY <1>1
    <3> QED
      BY <2>6, <3>1, <3>2 DEF Given
  <2> QED
    BY <2>3, <2>4, <2>5, <2>7
<1>2. D \subseteq E
  BY DEF Delivered
<1>3. Allowed(D, u) \subseteq Allowed(E, u)
  BY <1>2 DEF Allowed
<1>4. s \in Gated(Allowed(D, u))
  BY DEF Admitted
<1>5. Welcomes(Allowed(D, u) \cup Grants(m), s, m, known) \/ Serves(Allowed(D, u), s, m, known)
  BY <1>4, HandlePasses
<1>6. CASE Welcomes(Allowed(D, u) \cup Grants(m), s, m, known)
  <2>1. PICK g : /\ Passing(g, Allowed(D, u) \cup Grants(m)) /\ Has(g, m)
                 /\ h \in Handlings(Gated(Allowed(D, u) \cup Grants(m)), g)
    BY <1>6 DEF Welcomes
  <2>2. h.given = g /\ DOMAIN g = 1 .. Len(g)
    BY <2>1 DEF Handlings, Passing
  <2>3. PICK i \in 1 .. Len(g) : g[i] = m
    BY <2>1 DEF Has
  <2>4. [user |-> u, message |-> m] \in E
    BY <2>2, <2>3 DEF Delivered
  <2>5. m.type = "Init"
    BY <1>6 DEF Welcomes
  <2>6. Grants(m) \subseteq Allowed(E, u) /\ "known" \in Grants(m)
    <3>1. Grants(m) \subseteq Permissions /\ "known" \in Grants(m)
      BY DEF Grants, Permissions
    <3> QED
      BY <2>4, <2>5, <3>1 DEF Allowed
  <2>7. Allowed(D, u) \cup Grants(m) \subseteq Allowed(E, u) /\ "known" \in Allowed(E, u)
    BY <1>3, <2>6
  <2> QED
    BY <1>1, <2>1, <2>7
<1>7. CASE Serves(Allowed(D, u), s, m, known)
  <2>1. PICK g : /\ Passing(g, Allowed(D, u)) /\ h \in Handlings(Gated(Allowed(D, u)), g)
                 /\ s.paymentAddress \/ (\A i \in 1 .. Len(g) : g[i].type = "InitRequest")
    BY <1>7 DEF Serves
  <2>2. s.paymentAddress => "known" \in Allowed(E, u)
    BY <1>3, <1>4 DEF Gated
  <2> QED
    BY <1>1, <1>3, <2>1, <2>2
<1> QED
  BY <1>5, <1>6, <1>7

-----------------------------------------------------------------------------
(* The inductive invariant.                                                *)

IInv ==
  /\ row \in [Users -> Sessions]
  /\ \A u \in Users : row[u] \in Admitted(delivered, u)
  /\ queries \in Seq(Queries(delivered, arrived))
  /\ lookups \subseteq Waiting(delivered, arrived)
  /\ arrived \in 0 .. MaxMessages
  /\ failures \in 0 .. MaxFailures
  /\ delivered \subseteq Given(delivered)
  /\ ended \subseteq 1 .. arrived
  /\ latest \in [Users -> Sessions]

LEMMA NewSessionAdmitted ==
  ASSUME NEW D, NEW u
  PROVE  NewSession \in Admitted(D, u)
<1>1. NewSession \in Sessions
  BY DEF NewSession, Sessions, AppStates, undefined, Amounts, Locations
<1>2. ~ NewSession.paymentAddress
  BY DEF NewSession
<1>3. Trusted(NewSession.heldForInit)
  BY DEF NewSession, NoMessage, Trusted
<1>4. Quoted(NewSession)
  BY DEF NewSession, Quoted, Quoting, undefined
<1> QED
  BY <1>1, <1>2, <1>3, <1>4 DEF Admitted, Gated, Honest, Sound

LEMMA RemoveKeeps ==
  ASSUME NEW S, NEW q \in Seq(S), NEW i \in 1 .. Len(q)
  PROVE  RemoveAt(q, i) \in Seq(S)
<1>1. SubSeq(q, 1, i - 1) \in Seq(S) /\ SubSeq(q, i + 1, Len(q)) \in Seq(S)
  BY SubSeqProperties, LenProperties
<1> QED
  BY <1>1, ConcatProperties DEF RemoveAt

LEMMA InitialInvariant ==
  ASSUME Init
  PROVE  IInv
<1> USE ChatAssumption
<1>1. row \in [Users -> Sessions] /\ latest \in [Users -> Sessions]
  BY IncomingAssumption DEF Init
<1>2. \A s \in StoredRows : s \in Gated(AtStart)
  <2> SUFFICES ASSUME NEW s \in StoredRows
               PROVE  s \in Gated(AtStart)
    OBVIOUS
  <2>1. s.paymentAddress => "known" \in AtStart
    BY DEF AtStart, Permissions
  <2>2. Honest(s.heldForInit, AtStart)
    BY DEF Honest, AtStart, Permissions
  <2>3. Sound(s, AtStart)
    BY DEF Sound, AtStart, Permissions
  <2> QED
    BY <2>1, <2>2, <2>3, IncomingAssumption DEF Gated
<1>3. ASSUME NEW u \in Users
      PROVE  row[u] \in Admitted(delivered, u)
  <2>1. AtStart \subseteq Allowed(delivered, u)
    BY DEF AtStart, Allowed
  <2>2. row[u] \in Gated(AtStart)
    BY <1>2 DEF Init
  <2>3. Gated(AtStart) \subseteq Gated(Allowed(delivered, u))
    BY <2>1, PermissionsGrow
  <2> QED
    BY <2>2, <2>3 DEF Admitted
<1> QED
  BY <1>1, <1>3 DEF Init, IInv

LEMMA RunningIsQueried ==
  ASSUME NEW S, queries \in Seq(S), NEW i \in Running
  PROVE  i \in 1 .. Len(queries) /\ queries[i] \in S
  BY ChatAssumption DEF Running

\* What holds of sessions, queries and messages goes on to hold as more is given.
LEMMA GrowthOfState ==
  ASSUME IInv, delivered \subseteq delivered', arrived' \in Nat, arrived <= arrived'
  PROVE  /\ \A u \in Users : row[u] \in Admitted(delivered', u)
         /\ queries \in Seq(Queries(delivered', arrived'))
         /\ lookups \subseteq Waiting(delivered', arrived')
         /\ ended \subseteq 1 .. arrived'
<1>1. arrived \in Nat
  BY ChatAssumption DEF IInv
<1>2. /\ \A u : Admitted(delivered, u) \subseteq Admitted(delivered', u)
      /\ Queries(delivered, arrived) \subseteq Queries(delivered', arrived')
      /\ Waiting(delivered, arrived) \subseteq Waiting(delivered', arrived')
  BY <1>1, Growth
<1>3. queries \in Seq(Queries(delivered', arrived'))
  BY <1>2 DEF IInv
<1> QED
  BY <1>1, <1>2, <1>3 DEF IInv

LEMMA ArriveKeeps ==
  ASSUME IInv, NEW u \in Users, NEW m \in Incoming, Arrive(u, m)
  PROVE  IInv'
<1> DEFINE n == [m EXCEPT !.id = arrived + 1]
<1>1. arrived \in Nat /\ arrived' = arrived + 1 /\ arrived' \in 0 .. MaxMessages
  BY ChatAssumption DEF IInv, Arrive
<1>2. m \in Messages /\ (m.via = "eth" => m.type = "Payment")
  BY IncomingAssumption
<1>3. n \in Messages /\ n.via = m.via /\ n.type = m.type /\ n.id = arrived + 1
  BY <1>1, <1>2 DEF Messages
<1>4. Arrived(n)
  BY <1>2, <1>3 DEF Arrived
<1> HIDE DEF n
<1>5. load(u, n) \in Queries(delivered, arrived')
  <2>1. NewSession \in Admitted(delivered, u) /\ NewSession \in Sessions
    BY NewSessionAdmitted DEF Admitted, Gated
  <2>2. n.id \in 1 .. arrived'
    BY <1>1, <1>3
  <2> QED
    BY <1>3, <1>4, <2>1, <2>2 DEF load, Queries
<1>6. delivered' = delivered
  BY DEF Arrive
<1>7. /\ \A v \in Users : row[v] \in Admitted(delivered', v)
      /\ queries \in Seq(Queries(delivered', arrived'))
      /\ lookups \subseteq Waiting(delivered', arrived')
      /\ ended \subseteq 1 .. arrived'
  BY <1>1, <1>6, GrowthOfState
<1>8. queries' = Append(queries, load(u, n))
  BY DEF Arrive, n
<1>9. queries' \in Seq(Queries(delivered', arrived'))
  BY <1>5, <1>6, <1>7, <1>8
<1> QED
  BY <1>1, <1>7, <1>9 DEF IInv, Arrive

LEMMA QueryAnsweredKeeps ==
  ASSUME IInv, QueryAnswered
  PROVE  IInv'
<1>1. PICK i \in Running, fails \in BOOLEAN :
        /\ fails => failures < MaxFailures
        /\ failures' = IF fails THEN failures + 1 ELSE failures
        /\ Loaded(i, fails) \/ Stored(i, fails)
  BY DEF QueryAnswered
<1>2. i \in 1 .. Len(queries) /\ queries[i] \in Queries(delivered, arrived)
  BY RunningIsQueried DEF IInv
<1>3. RemoveAt(queries, i) \in Seq(Queries(delivered, arrived))
  BY <1>2, RemoveKeeps DEF IInv
<1>4. failures' \in 0 .. MaxFailures
  BY <1>1, ChatAssumption DEF IInv
<1> DEFINE q == queries[i]
<1>5. q.user \in Users /\ q.session \in Admitted(delivered, q.user) /\ q.session \in Sessions
  BY <1>2 DEF Queries
<1>6. CASE Loaded(i, fails)
  <2> DEFINE s == IF fails THEN NewSession ELSE row[q.user]
  <2>1. s \in Admitted(delivered, q.user)
    BY <1>5, NewSessionAdmitted DEF IInv
  <2>2. q.message \in Messages /\ Arrived(q.message) /\ q.message.id \in 1 .. arrived
    BY <1>2, <1>6 DEF Loaded, Queries, Arrived
  <2>3. [user |-> q.user, message |-> q.message, session |-> s] \in Waiting(delivered, arrived)
    <3>1. s \in Sessions
      BY <2>1 DEF Admitted, Gated
    <3> HIDE DEF s, q
    <3> QED
      BY <1>5, <2>1, <2>2, <3>1 DEF Waiting
  <2>4. lookups' \subseteq Waiting(delivered, arrived)
    BY <1>6, <2>3 DEF Loaded, IInv
  <2> QED
    BY <1>3, <1>4, <1>6, <2>4 DEF Loaded, IInv
<1>7. CASE Stored(i, fails)
  <2>1. row' \in [Users -> Sessions] /\ \A u \in Users : row'[u] \in Admitted(delivered, u)
    BY <1>5, <1>7 DEF Stored, stored, IInv
  <2> QED
    BY <1>3, <1>4, <1>7, <2>1 DEF Stored, IInv
<1> QED
  BY <1>1, <1>6, <1>7

LEMMA StoresAreQueries ==
  ASSUME NEW D, NEW n \in Nat, NEW u \in Users, NEW h, h.data \in Admitted(D, u),
         h.writes \in Seq(Admitted(D, u)), NEW idle
  PROVE  stores(u, h, idle) \in Seq(Queries(D, n))
<1>1. \A s \in Admitted(D, u) : store(u, s) \in Queries(D, n)
  BY DEF store, Queries, Admitted, Gated
<1>2. Len(h.writes) \in Nat /\ \A i \in 1 .. Len(h.writes) : h.writes[i] \in Admitted(D, u)
  BY LenProperties
<1>3. \A i \in 1 .. Len(h.writes) :
        store(u, IF i <= idle THEN h.writes[i] ELSE h.data) \in Queries(D, n)
  BY <1>1, <1>2
<1> DEFINE f == [i \in 1 .. Len(h.writes) |-> store(u, IF i <= idle THEN h.writes[i] ELSE h.data)]
<1>4. f \in [1 .. Len(h.writes) -> Queries(D, n)]
  BY <1>3
<1>5. stores(u, h, idle) = f
  BY DEF stores
<1> HIDE DEF f
<1> QED
  BY <1>2, <1>4, <1>5, IsASeq

LEMMA LookupAnsweredKeeps ==
  ASSUME IInv, LookupAnswered
  PROVE  IInv'
<1>1. PICK l \in lookups, known \in BOOLEAN, idle \in 0 .. (PoolSize - Cardinality(Running)) :
        /\ ~ known => failures < MaxFailures
        /\ failures' = IF known THEN failures ELSE failures + 1
        /\ Handled(l, known, idle)
  BY DEF LookupAnswered
<1> DEFINE h == handle(l.session, l.message, known)
<1>2. l \in Waiting(delivered, arrived)
  BY DEF IInv
<1>3. /\ l.user \in Users /\ l.session \in Admitted(delivered, l.user)
      /\ Arrived(l.message) /\ l.message.id \in 1 .. arrived
  BY <1>2 DEF Waiting
<1>4. /\ delivered' = Delivered(delivered, l.user, h)
      /\ queries' = queries \o stores(l.user, h, idle)
      /\ lookups' = lookups \ {l} /\ ended' = ended \cup {l.message.id}
      /\ latest' = IF h.writes = <<>> THEN latest ELSE [latest EXCEPT ![l.user] = h.data]
      /\ row' = row /\ arrived' = arrived
  BY <1>1 DEF Handled, isReady, Delivered
<1>5. delivered \subseteq Given(delivered)
  BY DEF IInv
<1>6. /\ delivered' \subseteq Given(delivered')
      /\ h.data \in Admitted(delivered', l.user)
      /\ h.writes \in Seq(Admitted(delivered', l.user))
  BY <1>3, <1>4, <1>5, HandlingAdmits
<1> HIDE DEF h
<1>7. arrived \in Nat /\ arrived' \in Nat /\ arrived <= arrived'
  BY <1>4, ChatAssumption DEF IInv
<1>8. delivered \subseteq delivered'
  BY <1>4 DEF Delivered
<1>9. /\ \A v \in Users : row[v] \in Admitted(delivered', v)
      /\ queries \in Seq(Queries(delivered', arrived'))
      /\ lookups \subseteq Waiting(delivered', arrived')
      /\ ended \subseteq 1 .. arrived'
  BY <1>7, <1>8, GrowthOfState
<1>10. stores(l.user, h, idle) \in Seq(Queries(delivered', arrived'))
  BY <1>3, <1>6, <1>7, StoresAreQueries
<1>11. queries' \in Seq(Queries(delivered', arrived'))
  BY <1>4, <1>9, <1>10, ConcatProperties
<1>12. latest' \in [Users -> Sessions]
  <2>1. h.data \in Sessions
    BY <1>6 DEF Admitted, Gated
  <2> QED
    BY <1>3, <1>4, <2>1 DEF IInv
<1>13. failures' \in 0 .. MaxFailures
  BY <1>1, ChatAssumption DEF IInv
<1>14. lookups' \subseteq Waiting(delivered', arrived') /\ ended' \subseteq 1 .. arrived'
  BY <1>3, <1>4, <1>9
<1>15. row' \in [Users -> Sessions] /\ arrived' \in 0 .. MaxMessages
  BY <1>4 DEF IInv
<1>16. \A v \in Users : row'[v] \in Admitted(delivered', v)
  BY <1>4, <1>9
<1> QED
  BY <1>6, <1>11, <1>12, <1>13, <1>14, <1>15, <1>16 DEF IInv

LEMMA CrashKeeps ==
  ASSUME IInv, Crash
  PROVE  IInv'
<1>1. <<>> \in Seq(Queries(delivered, arrived))
  OBVIOUS
<1>2. failures' \in 0 .. MaxFailures
  BY ChatAssumption DEF IInv, Crash
<1> QED
  BY <1>1, <1>2 DEF IInv, Crash

LEMMA InvariantHolds == Spec => []IInv
<1>1. Init => IInv
  BY InitialInvariant
<1>2. IInv /\ [Next]_vars => IInv'
  <2> SUFFICES ASSUME IInv, [Next]_vars
               PROVE  IInv'
    OBVIOUS
  <2>1. CASE UNCHANGED vars
    BY <2>1 DEF IInv, vars
  <2>2. CASE Next
    BY <2>2, ArriveKeeps, QueryAnsweredKeeps, LookupAnsweredKeeps, CrashKeeps DEF Next
  <2> QED
    BY <2>1, <2>2
<1> QED
  BY <1>1, <1>2, PTL DEF Spec

-----------------------------------------------------------------------------
(* The theorems.                                                           *)

\* Every variable keeps its type: the handlers, whatever the order of messages,
\* queries and restarts, leave sessions in every row and in every query.
THEOREM TypeCorrect == Spec => []TypeOK
<1>1. IInv => TypeOK
  <2> SUFFICES ASSUME IInv
               PROVE  TypeOK
    OBVIOUS
  <2>1. \A i \in DOMAIN queries :
          queries[i] \in [kind : {"load", "store"}, user : Users,
                          message : Messages \cup {NoMessage}, session : Sessions]
    BY DEF IInv, Queries
  <2>2. \A l \in lookups : l \in [user : Users, message : Messages, session : Sessions]
    BY DEF IInv, Waiting
  <2>3. \A d \in delivered : d \in [user : Users, message : Messages]
    BY DEF IInv, Given
  <2> QED
    BY <2>1, <2>2, <2>3 DEF IInv, TypeOK
<1> QED
  BY <1>1, InvariantHolds, PTL

\* When no row at the start holds a payment that a chat message claims, one
\* reaches bot.onEvent only for a user whose Init told the bot what to hold:
\* neither the gate nor a stale copy of a session lets another through.
THEOREM ClaimsAreTold ==
  ASSUME \A s \in StoredRows : Trusted(s.heldForInit)
  PROVE  Spec => []ClaimedPaymentsAreTold
<1>1. IInv => ClaimedPaymentsAreTold
  <2> SUFFICES ASSUME IInv, NEW d \in delivered,
                      d.message.type = "Payment" /\ d.message.via = "chat"
               PROVE  \E e \in delivered :
                        e.user = d.user /\ e.message.type = "Init" /\ tells(e.message, "heldForInit")
    BY DEF ClaimedPaymentsAreTold
  <2>1. "claims" \in Allowed(delivered, d.user)
    BY DEF IInv, Given, Passed, Honest, Trusted
  <2>2. "claims" \notin AtStart
    BY DEF AtStart
  <2> QED
    BY <2>1, <2>2 DEF Allowed, Grants
<1> QED
  BY <1>1, InvariantHolds, PTL

\* No message that only wakes the bot up reaches bot.onEvent, neither at once nor
\* held and replayed.
THEOREM WakeUpsStayOut == Spec => []WakeUpsIgnored
<1>1. IInv => WakeUpsIgnored
  BY DEF IInv, Given, Passed, isWakeUp, WakeUpsIgnored
<1> QED
  BY <1>1, InvariantHolds, PTL

\* When no user is known at the start, the first thing bot.onEvent gets of a user is
\* his Init, or his request for one: no copy of a session, however stale, and no
\* restart lets anything else through.
THEOREM InitComesFirst ==
  ASSUME \A s \in StoredRows : ~ s.paymentAddress
  PROVE  Spec => []InitFirst
<1>1. IInv => InitFirst
  BY DEF IInv, Given, Allowed, AtStart, InitFirst
<1> QED
  BY <1>1, InvariantHolds, PTL

\* When the store holds only sound quotes at the start, it goes on to, but for
\* what the user's own Inits tell: no other copy of a session is stored that says a
\* quote is open and names no location that the bot serves, whatever copies there
\* are and in whatever order they are written.
THEOREM QuotesAreSound ==
  ASSUME \A s \in StoredRows : Quoted(s)
  PROVE  Spec => []StoredQuoteHasLocation
<1>1. IInv => StoredQuoteHasLocation
  <2> SUFFICES ASSUME IInv, NEW u \in Users,
                      row[u].app_state = "WAITING_FOR_CONFIRMATION",
                      row[u].current_location # "served"
               PROVE  \E e \in delivered :
                        /\ e.user = u /\ e.message.type = "Init"
                        /\ tells(e.message, "app_state") \/ tells(e.message, "current_location")
    BY DEF StoredQuoteHasLocation
  <2>1. "quotes" \in Allowed(delivered, u)
    BY DEF IInv, Admitted, Gated, Sound, Quoted, Quoting
  <2>2. "quotes" \notin AtStart
    BY DEF AtStart
  <2> QED
    BY <2>1, <2>2 DEF Allowed, Grants
<1> QED
  BY <1>1, InvariantHolds, PTL
=============================================================================
