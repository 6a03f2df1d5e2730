---------------------------- MODULE Conversation ----------------------------
(***************************************************************************)
(* What bot/src/bot.js does with one message: operators over a handling h, *)
(* the work of one call of bot.onEvent on one session.                     *)
(*   h.data    the session data as the call has changed it so far          *)
(*   h.writes  what each session.set has handed to the store, in order     *)
(*   h.said    the replies sent, in order, each named for what it asks     *)
(*   h.threw   an exception has ended the call                             *)
(***************************************************************************)
EXTENDS Sequences

(* STATES.  session.get of a key never set reads undefined, and so does a
   name that STATES does not have: the code spells five of them wrongly. *)
undefined == "undefined"
waitingforaadharnumber == undefined
waitingforinvestmentamount == undefined
confirmed == undefined
POOL == undefined
INVEST == undefined
INVESTED == undefined

\* The values of STATES, and any other that the content of an Init has stored,
\* which no case of the bot has.
AppStates == {undefined, "WELCOME", "WAITING_FOR_BOOKING", "WAITING_FOR_INSURANCE_AMOUNT",
              "WAITING_FOR_LOCATION", "WAITING_FOR_CONTRACT", "WAITING_FOR_CONFIRMATION",
              "POOL", "other"}

\* What the body of a chat message can mean to the bot.
Bodies == {"empty", "amountFits", "amountExceeds", "servedLocation", "text"}
\* An amount above the ticket price, one that is not, or no number at all.
Amounts == {"unset", "fits", "exceeds", "notANumber"}
amountOf(body) ==
  CASE body = "amountFits" -> "fits" [] body = "amountExceeds" -> "exceeds" [] OTHER -> "notANumber"

Locations == {"unset", "served", "unknown"}
Commands == {"insure", "pay", "Yes", "No", "pool", "invest", "1", "2", "status"}

Start(data) == [data |-> data, writes |-> <<>>, said |-> <<>>, threw |-> FALSE]

\* Session.flush hands over all of the data, and Session.set flushes.
flush(h) == [h EXCEPT !.writes = Append(@, h.data)]
set(h, key, value) == flush([h EXCEPT !.data = [@ EXCEPT ![key] = value]])

reply(h, what) == [h EXCEPT !.said = Append(@, what)]
throw(h) == [h EXCEPT !.threw = TRUE]

-----------------------------------------------------------------------------
processPayment(h) == reply(h, "payThePremium")

\* Mutant: asking for the booking number does not wait for it.
askBookingMutant(h) == reply(h, "askBooking")
askBooking(h) == set(reply(h, "askBooking"), "app_state", "WAITING_FOR_BOOKING")

\* Mutant: stores the name of the state in STATES in place of its value.
askLocationMutant(h) == set(reply(h, "askLocation"), "app_state", "waitingForLocation")
askLocation(h) == set(reply(h, "askLocation"), "app_state", "WAITING_FOR_LOCATION")

\* The case STATES.confirmed comes after the one of waitingforaadharnumber, which
\* has the same value, and is never reached.  No button leads to STATES.pool.
handleInsurance(h) ==
  CASE h.data.app_state = "WELCOME" -> askBooking(h)
    [] h.data.app_state = "WAITING_FOR_BOOKING" ->
         set(reply(h, "askAadhar"), "app_state", waitingforaadharnumber)
    [] h.data.app_state = waitingforaadharnumber ->
         set(reply(reply(h, "identityVerified"), "askAmount"),
             "app_state", "WAITING_FOR_INSURANCE_AMOUNT")
    [] h.data.app_state = "WAITING_FOR_INSURANCE_AMOUNT" -> askLocation(h)
    [] h.data.app_state = "POOL" -> set(reply(h, "poolFilled"), "app_state", "WELCOME")
    [] OTHER -> h

\* The case STATES.INVESTED has the value of STATES.INVEST and comes second.
handleInvest(h) ==
  IF h.data.app_state = INVEST THEN reply(reply(h, "listPolicies"), "askWhichPolicy") ELSE h

amountEntered(h, body) ==
  LET g == set(h, "insurance_amount", amountOf(body)) IN
  IF g.data.insurance_amount = "exceeds"
  THEN handleInsurance(set(reply(g, "amountExceedsTicket"), "app_state", "WAITING_FOR_BOOKING"))
  ELSE handleInsurance(g)

\* Mutant: any location gets a quote.
servesMutant(body) == body \in Bodies
serves(body) == body = "servedLocation"

locationEntered(h, body) ==
  LET g == set(h, "current_location", IF body = "servedLocation" THEN "served" ELSE "unknown") IN
  handleInsurance(IF serves(body)
                  THEN set(reply(reply(g, "quote"), "askTakeInsurance"),
                           "app_state", "WAITING_FOR_CONFIRMATION")
                  ELSE g)

\* The case STATES.waitingforinvestmentamount comes after the one of
\* waitingforaadharnumber, which has the same value, and is never reached.
onMessage(h, body) ==
  CASE h.data.app_state = "WAITING_FOR_BOOKING" -> handleInsurance(set(h, "booking_no", TRUE))
    [] h.data.app_state = waitingforaadharnumber -> handleInsurance(set(h, "aadhar_no", TRUE))
    [] h.data.app_state = "WAITING_FOR_INSURANCE_AMOUNT" -> amountEntered(h, body)
    [] h.data.app_state = "WAITING_FOR_LOCATION" -> locationEntered(h, body)
    [] OTHER -> h

onCommand(h, value) ==
  CASE value = "insure" -> handleInsurance(h)
    [] value = "pay"    -> throw(h)   \* session.eth is undefined
    [] value = "Yes"    -> handleInsurance(set(h, "app_state", confirmed))
    [] value = "No"     -> handleInsurance(set(h, "app_state", undefined))
    [] value = "pool"   -> set(h, "app_state", POOL)
    [] value = "invest" -> handleInvest(set(h, "app_state", INVEST))
    [] value \in {"1", "2"} ->
         set(processPayment(set(reply(h, "askInvestment"), "app_state", waitingforinvestmentamount)),
             "app_state", INVESTED)
    [] OTHER -> h

\* A payment update: sent by the bot, or received with one of three statuses.
Payments == {"sent", "unconfirmed", "confirmed", "error"}
onPayment(h, status) ==
  CASE status = "unconfirmed" -> reply(h, "thanks")
    [] status = "error"       -> reply(h, "paymentError")
    [] OTHER                  -> h

\* Mutant: stores the name of the state in STATES in place of its value.
welcomeMutant(h, known) ==
  LET g == set(h, "app_state", "welcome") IN
  IF known THEN reply(g, "hello") ELSE throw(g)
\* session.user is null when the id service did not answer.
welcome(h, known) ==
  LET g == set(h, "app_state", "WELCOME") IN
  IF known THEN reply(g, "hello") ELSE throw(g)

onEvent(h, m, known) ==
  CASE m.type \in {"Init", "PaymentRequest"} -> welcome(h, known)
    [] m.type = "Message" -> onMessage(h, m.body)
    [] m.type = "Command" -> onCommand(h, m.body)
    [] m.type = "Payment" -> onPayment(h, m.body)
    [] OTHER              -> h
=============================================================================
