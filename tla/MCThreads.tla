----------------------------- MODULE MCThreads -----------------------------
(* Instances of the threads for TLC: a thread that opens in a state, as the *)
(* captcha of the testing bot does, and one with two states that does not.  *)
EXTENDS Threads

MCNames == {"captcha", "order"}
MCStatesOf == "captcha" :> {"awaiting"} @@ "order" :> {"size", "pay"}
MCOpeningState == "captcha" :> "awaiting" @@ "order" :> null

Hearing(pattern, state) == [pattern |-> pattern, state |-> state]
MCHearings ==
  "captcha" :> {Hearing("text", "awaiting")}
    @@ "order" :> {Hearing("text", null), Hearing("button", "pay")}
    @@ "root" :> {Hearing("text", null)}
=============================================================================
