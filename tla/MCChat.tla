------------------------------- MODULE MCChat -------------------------------
(* Instances of the chat pipeline for TLC.                                 *)
EXTENDS Chat

Msg(type, body, via) == [type |-> type, body |-> body, via |-> via, id |-> 0]

\* What the Inits of the instances tell.  The second tells the bot to hold a
\* message, the third one that cannot be parsed, and no address.
TheContents ==
  [full  |-> [keys |-> <<"paymentAddress", "language">>,
              values |-> [NewSession EXCEPT !.paymentAddress = TRUE]],
   held  |-> [keys |-> <<"paymentAddress", "heldForInit">>,
              values |-> [NewSession EXCEPT !.paymentAddress = TRUE,
                                            !.heldForInit = Msg("Payment", "unconfirmed", "chat")]],
   noise |-> [keys |-> <<"heldForInit">>, values |-> [NewSession EXCEPT !.heldForInit = Unparsable]]]

\* The first messages of a user, trusted payments and claimed ones.
Strangers == {NewSession}
FirstMessages ==
  {Msg("Init", "full", "chat"), Msg("Init", "held", "chat"), Msg("Init", "noise", "chat"),
   Msg("InitRequest", "any", "chat"), Msg("Message", "empty", "chat"), Msg("Message", "text", "chat"),
   Msg("Payment", "unconfirmed", "chat"), Msg("Payment", "unconfirmed", "eth")}

\* A user in the middle of the dialogue, with a bot that restarts.
Seekers ==
  {[NewSession EXCEPT !.paymentAddress = TRUE, !.app_state = "WAITING_FOR_INSURANCE_AMOUNT"],
   [NewSession EXCEPT !.paymentAddress = TRUE, !.app_state = "WAITING_FOR_LOCATION",
                      !.insurance_amount = "fits"]}
SeekersMessages ==
  {Msg("Message", "text", "chat"), Msg("Message", "servedLocation", "chat"),
   Msg("Command", "Yes", "chat")}
=============================================================================
