----------------------------- MODULE SimpleBot -----------------------------
(***************************************************************************)
(* The bot bot/examples/simple_bot.js, which pays what users ask for up to *)
(* 100 USD: its handlers, with the calls to the headless client (RpcCalls, *)
(* Session.js), the exchange rates (Fiat) and the amounts (Units) behind   *)
(* them.  The headless client keeps the wallet; Redis, which has no        *)
(* memory, lies between the two.                                           *)
(***************************************************************************)
EXTENDS Units, RpcCalls, Fiat, FiniteSets

CONSTANTS
  Messages,        \* what users send
  MaxMessages,     \* bound: messages in one behaviour
  Decimals,        \* an ether has 10^Decimals wei: 18 in fact
  AgeLimit,        \* CACHE_AGE_LIMIT
  Worth,           \* what 100 USD are worth at each time, in wei
  MaxTime,         \* bound: the clock
  MaxPings,        \* bound: calls of a process after which it sends no ping
  MaxFailures      \* bound: errors, answers without the rate, and restarts

ASSUME SimpleBotAssumption ==
  /\ Decimals \in Nat \ {0}
  /\ MaxTime \in Nat /\ AgeLimit \in 1 .. (MaxTime - 1)
  /\ Worth \in [1 .. MaxTime -> Nat]
  /\ MaxMessages \in Nat /\ MaxPings \in Nat /\ MaxFailures \in Nat
  /\ \A m \in Messages : m.amount \in Numerals

VARIABLES
  client,     \* the calls of the running process
  fiat,       \* its exchange rates
  process,    \* how many processes there have been before it
  now,        \* the time
  ready,      \* the headless client listens
  requests,   \* the calls it has received and not answered
  failures,   \* how many failures there have been
  asked,      \* history: the messages so far
  told,       \* history: the replies to each
  ordered,    \* history: the payments the headless client was told to make
  paid        \* history: those it has made

bot == <<client, fiat, process>>
headless == <<ready, requests, paid>>
talk == <<asked, told>>
vars == <<bot, headless, talk, now, failures, ordered>>

\* Loading the modules asks for the rates once; nobody waits for them.
Booted == getRates(NewFiat, 0)

\* The clock starts so late that rates never fetched are old.
Init ==
  /\ client = NewClient /\ fiat = Booted /\ process = 0
  /\ now = AgeLimit + 1
  /\ ready = FALSE /\ requests = {} /\ paid = {}
  /\ failures = 0
  /\ asked = <<>> /\ told = <<>> /\ ordered = {}

Failure == failures < MaxFailures /\ failures' = failures + 1

-----------------------------------------------------------------------------
(* Calls.  Redis drops what is published while nobody listens.             *)

call(c) ==
  /\ client' = rpc(client, c)
  /\ requests' = IF ready
                 THEN requests \cup {[id |-> client.nextRpcId, process |-> process, call |-> c]}
                 ELSE requests

ping == [kind |-> "ping"]
payment(n, value) == [kind |-> "payment", message |-> n, value |-> value]

\* Every second until the services are started.
Ping ==
  /\ pings(client) /\ client.nextRpcId < MaxPings
  /\ call(ping)
  /\ UNCHANGED <<fiat, process, ready, paid, talk, now, failures, ordered>>

-----------------------------------------------------------------------------
(* Paying.                                                                 *)

\* The amount in ether is less than this many wei.
isLess(ether, wei) ==
  \/ ether.negative
  \/ number(ether.whole \o ether.fraction) * tenTo[Decimals] < wei * tenTo[Len(ether.fraction)]

\* The rates that a callback of Fiat.fetch is given.
known(f, found) == found /\ f.asOf # 0

\* Mutant: a user without an address gets no answer.
refusalMutant == "nothing"
\* sendWei calls back with an error.
refusal == "error"

\* What becomes of a request for payment.  An exception, also of a user that the
\* id service did not find, ends in the apology about the rates.
verdict(m, f, found) ==
  IF ~ known(f, found) THEN "sorry"
  ELSE IF ~ isLess(m.amount, Worth[f.asOf]) THEN "limit"
  ELSE IF ~ isConvertible(m.amount) \/ m.account = "unknown" THEN "sorry"
  ELSE IF m.account = "noAddress" THEN refusal
  ELSE "pays"

\* The callback of Fiat.fetch: it pays, or tells the user the worth of an ether,
\* or throws for want of it with nobody to catch.
verdictOn(m, f, found) ==
  IF m.type = "PaymentRequest" THEN verdict(m, f, found)
  ELSE IF known(f, found) THEN "rate" ELSE "nothing"

\* Message n is answered now: t is told' but for this reply.
resume(n, m, t, f, found) ==
  LET v == verdictOn(m, f, found) IN
  IF v = "pays"
  THEN LET p == payment(n, toWei(m.amount, Decimals)) IN
       /\ call(p)
       /\ ordered' = ordered \cup {[payment |-> p, at |-> now, hidden |-> f.hidden]}
       /\ told' = t
  ELSE /\ told' = IF v = "nothing" THEN t ELSE [t EXCEPT ![n] = @ \cup {v}]
       /\ UNCHANGED <<client, requests, ordered>>

-----------------------------------------------------------------------------
(* Messages.                                                               *)

\* The reply to a message that does not depend on the rates: they are not asked
\* for as long as no currency is known.
replyTo(m) ==
  CASE m.type = "Command" -> IF m.body = "red" THEN {"best"} ELSE {"prompt"}
    [] m.body = "beg"     -> IF m.account = "unknown" THEN {} ELSE {"begs"}
    [] m.body = "ethlogo" -> {"logo"}
    [] OTHER              -> {"prompt"}

needsRates(m) ==
  \/ m.type = "PaymentRequest"
  \/ m.type = "Message" /\ m.body = "USD" /\ fiat.asOf # 0

\* Messages come through the headless client, so it is there.
Hear(m) ==
  LET n == Len(asked) + 1 IN
  /\ ready
  /\ n <= MaxMessages
  /\ asked' = Append(asked, m)
  /\ CASE ~ needsRates(m) ->
            told' = Append(told, replyTo(m)) /\ UNCHANGED <<client, fiat, requests, ordered>>
       [] needsRates(m) /\ isFresh(fiat, now, AgeLimit) ->
            resume(n, m, Append(told, {}), fiat, TRUE) /\ UNCHANGED fiat
       [] OTHER ->
            /\ fiat' = getRates(fiat, n)
            /\ told' = Append(told, {})
            /\ UNCHANGED <<client, requests, ordered>>
  /\ UNCHANGED <<process, ready, paid, now, failures>>

\* The exchange service answers one of the requests, if with an error.
RatesCome(n, answer) ==
  LET f == onRates(fiat, n, answer, now) IN
  /\ n \in fiat.asking
  /\ IF answer = "rates" THEN UNCHANGED failures ELSE Failure
  /\ fiat' = f
  /\ IF n = 0 THEN UNCHANGED <<client, requests, ordered, told>>
     ELSE resume(n, asked[n], told, f, yielded(answer) = "helpers")
  /\ UNCHANGED <<process, ready, paid, asked, now>>

-----------------------------------------------------------------------------
(* The headless client and its answers.                                    *)

\* An answer goes to the process that listens when it is published, also when an
\* earlier one made the call.
Execute(q, ok) ==
  /\ ready /\ q \in requests
  /\ IF ok THEN UNCHANGED failures ELSE Failure
  /\ requests' = requests \ {q}
  /\ paid' = IF ok /\ q.call.kind = "payment" THEN paid \cup {q} ELSE paid
  /\ client' = onAnswer(client, q.id, ok)
  /\ UNCHANGED <<fiat, process, ready, talk, now, ordered>>

\* The session of an answer is there: its callback runs.
CallBack(l) ==
  LET c == [client EXCEPT !.loading = @ \ {l}] IN
  /\ l \in client.loading
  /\ IF l.call.kind = "ping" THEN client' = onPing(c, l.ok) /\ UNCHANGED told
     ELSE /\ client' = c
          /\ told' = [told EXCEPT ![l.call.message] = @ \cup {IF l.ok THEN "paid" ELSE "error"}]
  /\ UNCHANGED <<fiat, process, headless, asked, now, failures, ordered>>

-----------------------------------------------------------------------------
(* Time and restarts.                                                      *)

Tick == now < MaxTime /\ now' = now + 1 /\ UNCHANGED <<bot, headless, talk, failures, ordered>>

HeadlessReady ==
  /\ ~ ready /\ ready' = TRUE
  /\ UNCHANGED <<bot, requests, paid, talk, now, failures, ordered>>

HeadlessRestarts ==
  /\ Failure /\ ready
  /\ ready' = FALSE /\ requests' = {}
  /\ UNCHANGED <<bot, paid, talk, now, ordered>>

\* The answers whose session was being loaded are lost; the calls go on.
BotRestarts ==
  /\ Failure
  /\ client' = NewClient /\ fiat' = Booted /\ process' = process + 1
  /\ UNCHANGED <<ready, requests, paid, talk, now, ordered>>

Rates == \E n \in fiat.asking, a \in RateAnswers : RatesCome(n, a)
Executes == \E q \in requests, ok \in BOOLEAN : Execute(q, ok)
Callback == \E l \in client.loading : CallBack(l)

Next ==
  \/ Ping \/ Rates \/ Executes \/ Callback
  \/ \E m \in Messages : Hear(m)
  \/ Tick \/ HeadlessReady \/ HeadlessRestarts \/ BotRestarts

Spec == Init /\ [][Next]_vars

\* The exchange service, the headless client, Redis and the store answer, if with
\* an error.
FairSpec ==
  Spec /\ WF_vars(Rates) /\ WF_vars(Executes) /\ WF_vars(Callback)

-----------------------------------------------------------------------------
Replies == {"begs", "logo", "rate", "prompt", "best", "limit", "error", "sorry", "paid"}
Ids == 0 .. (MaxPings + MaxMessages - 1)
Payments == [kind : {"payment"}, message : 1 .. MaxMessages, value : Nat]
Calls == {ping} \cup Payments

TypeOK ==
  /\ client.nextRpcId \in 0 .. (MaxPings + MaxMessages)
  /\ DOMAIN client.rpcCalls \subseteq 0 .. (client.nextRpcId - 1)
  /\ \A i \in DOMAIN client.rpcCalls : client.rpcCalls[i] \in Calls
  /\ client.started \in BOOLEAN
  /\ \A l \in client.loading : l \in [id : Ids, call : Calls, ok : BOOLEAN]
  /\ fiat.cachedAt <= now /\ fiat.asOf <= fiat.cachedAt
  /\ fiat.asking \subseteq 0 .. Len(asked)
  /\ \A q \in requests \cup paid : q \in [id : Ids, process : 0 .. process, call : Calls]
  /\ now \in 1 .. MaxTime /\ failures \in 0 .. MaxFailures
  /\ told \in Seq(SUBSET Replies) /\ Len(told) = Len(asked)

\* What the headless client is told to send is what the user asked for, without
\* the fraction of a wei.
SentIsAsked ==
  \A o \in ordered : isFloor(o.payment.value, asked[o.payment.message].amount, Decimals)

\* A payment is below what 100 USD were worth at a moment not longer ago than the
\* age limit, unless an answer without that rate has renewed an older one.
PaysWithinLimit ==
  \A o \in ordered :
    ~ o.hidden => \E t \in (o.at - AgeLimit) .. o.at : o.payment.value < Worth[t]

\* As long as the bot is not restarted, users are told of exactly the payments
\* that were made: no answer is taken for the answer to another call.
ToldOnlyIfPaid ==
  process = 0 => \A n \in DOMAIN told :
    /\ "paid" \in told[n] => \E q \in paid : q.call.message = n
    /\ "error" \in told[n] => ~ \E q \in paid : q.call.message = n

\* The services of a process start once, however many pings are answered and
\* whatever answers of an earlier process come in.
ServicesStartOnce == client.services = IF client.started THEN 1 ELSE 0

\* Every request for payment is answered, unless something fails.
EveryRequestIsTold ==
  <>[] \A n \in DOMAIN asked :
         asked[n].type = "PaymentRequest" => told[n] # {} \/ failures > 0

\* A ping that the headless client has received starts the services, unless
\* something fails.
PingStartsServices ==
  (\E q \in requests : q.call.kind = "ping") ~> client.started \/ failures > 0
=============================================================================
