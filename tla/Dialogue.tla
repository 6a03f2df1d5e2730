------------------------------ MODULE Dialogue ------------------------------
(***************************************************************************)
(* One user who has introduced himself talks to the bot, and each message  *)
(* is handled before the next one arrives: the dialogue as bot.js means    *)
(* it.  From some point on the user may just answer what he is asked.      *)
(***************************************************************************)
EXTENDS Naturals, Conversation

VARIABLES
  data,         \* the session
  said,         \* the replies to the last message
  heard,        \* the last message
  cooperative   \* the user has started to answer what he is asked

vars == <<data, said, heard, cooperative>>

Fresh == [app_state |-> undefined, insurance_amount |-> "unset", booking_no |-> FALSE,
          aadhar_no |-> FALSE, current_location |-> "unset"]

Message(type, body) == [type |-> type, body |-> body]

Inputs ==
  {Message("Message", b) : b \in Bodies \ {"empty"}}
    \cup {Message("Command", c) : c \in Commands}
    \cup {Message("Payment", p) : p \in Payments}
    \cup {Message("Init", "full"), Message("PaymentRequest", "any")}

Hear(m) ==
  LET h == onEvent(Start(data), m, TRUE) IN
  /\ data' = h.data
  /\ said' = h.said
  /\ heard' = m

\* The first Init is what lets the user talk to the bot at all.
Init ==
  LET h == onEvent(Start(Fresh), Message("Init", "full"), TRUE) IN
  /\ data = h.data
  /\ said = h.said
  /\ heard = Message("Init", "full")
  /\ cooperative = FALSE

Talk == ~ cooperative /\ \E m \in Inputs : Hear(m) /\ UNCHANGED cooperative

BeginToCooperate == ~ cooperative /\ cooperative' = TRUE /\ UNCHANGED <<data, said, heard>>

\* What a user enters who wants the insurance and follows the prompts.
Answer ==
  CASE data.app_state = "WELCOME"                      -> Message("Command", "insure")
    [] data.app_state = "WAITING_FOR_INSURANCE_AMOUNT" -> Message("Message", "amountFits")
    [] data.app_state = "WAITING_FOR_LOCATION"         -> Message("Message", "servedLocation")
    [] OTHER                                           -> Message("Message", "text")

Cooperate ==
  /\ cooperative
  /\ data.app_state # "WAITING_FOR_CONFIRMATION"
  /\ Hear(Answer)
  /\ UNCHANGED cooperative

Next == Talk \/ BeginToCooperate \/ Cooperate

Spec == Init /\ [][Next]_vars

\* A cooperative user goes on answering.
FairSpec == Spec /\ WF_vars(Cooperate)

-----------------------------------------------------------------------------
TypeOK ==
  /\ data \in [app_state : AppStates, insurance_amount : Amounts, booking_no : BOOLEAN,
               aadhar_no : BOOLEAN, current_location : Locations]
  /\ heard \in Inputs
  /\ cooperative \in BOOLEAN

Says(what, replies) == \E i \in 1 .. Len(replies) : replies[i] = what

\* Whatever was said before, in whatever order the buttons were pressed, the
\* user who starts to answer what he is asked comes to a quote: no state of the
\* dialogue is a dead end.
CooperationGetsQuote == cooperative ~> data.app_state = "WAITING_FOR_CONFIRMATION"

\* A quote that waits for its confirmation was computed for a location the bot
\* serves, and for a dialogue in which the user was asked for the location.
QuoteHasLocation ==
  data.app_state = "WAITING_FOR_CONFIRMATION" => data.current_location = "served"
=============================================================================
