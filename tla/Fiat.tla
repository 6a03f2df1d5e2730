-------------------------------- MODULE Fiat --------------------------------
(***************************************************************************)
(* The exchange rates, bot/src/lib/Fiat.js: operators over the state f of  *)
(* the service.                                                            *)
(*   f.cachedAt   the variable of that name; 0 before the first answer     *)
(*   f.asOf       when the dollar rate it holds came; 0 if it holds none   *)
(*   f.asking     who waits for an answer of the service, for each request *)
(*   f.hidden     history: an answer since then did not have it            *)
(* The rates themselves are those of the time they came at.                *)
(***************************************************************************)
EXTENDS Naturals

NewFiat == [cachedAt |-> 0, asOf |-> 0, asking |-> {}, hidden |-> FALSE]

getRates(f, who) == [f EXCEPT !.asking = @ \cup {who}]

\* Mutant: rates once fetched stay good.
isFreshMutant(f, now, limit) == f.cachedAt # 0
isFresh(f, now, limit) == now - f.cachedAt <= limit

\* One that lacks the dollar parses, and leaves the rate that was there.
RateAnswers == {"rates", "lacking", "garbled", "error"}

\* What the request for the rates gives to who made it.
yielded(answer) == IF answer \in {"rates", "lacking"} THEN "helpers" ELSE "nothing"

\* The time is noted before the answer is parsed.
notesTime(answer) == answer # "error"

onRates(f, who, answer, now) ==
  [f EXCEPT !.asking = @ \ {who},
            !.cachedAt = IF notesTime(answer) THEN now ELSE @,
            !.asOf = IF answer = "rates" THEN now ELSE @,
            !.hidden = IF answer = "error" THEN @ ELSE answer # "rates"]
=============================================================================
