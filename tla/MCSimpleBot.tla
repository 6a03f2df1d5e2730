---------------------------- MODULE MCSimpleBot ----------------------------
(* Instances of the paying bot for TLC. *)
EXTENDS SimpleBot

Numeral(negative, whole, fraction) ==
  [negative |-> negative, whole |-> whole, fraction |-> fraction]

Request(amount, account) ==
  [type |-> "PaymentRequest", body |-> "none", account |-> account, amount |-> amount]
Text(type, body, account) ==
  [type |-> type, body |-> body, account |-> account, amount |-> Numeral(FALSE, <<>>, <<>>)]

\* An ether has a hundred wei, so 0.658 has a digit too many; it is below the limit
\* at first, and above it later.
MCDecimals == 2
MCMessages ==
  {Request(Numeral(FALSE, <<0>>, <<6, 5, 8>>), "known"),
   Request(Numeral(FALSE, <<>>, <<7>>), "noAddress"),
   Text("Message", "USD", "known")}

\* The worth of 100 USD, in wei, falls in time.
MCWorth == <<90, 80, 65, 60>>
=============================================================================
