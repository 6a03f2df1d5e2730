# SureFly: models and proofs

SureFly insures travellers (*seekers*) against missing a flight. Investors fill
the pool of a policy; when the flight departs or is cancelled, the pool or the
premium is paid out. The repository has two programs that never call each
other: an Ethereum contract (`truffle/contracts/surefly.sol`) that keeps
policies and pays, and a chat bot (`bot/src`) that talks to seekers and
investors over Toshi. This directory holds TLA+ models of both, TLC
configurations that check them, and proofs.

## 1. Inventory

| Component | State | Operations | What makes it hard | What makes it correct |
|---|---|---|---|---|
| SureFly contract, `surefly.sol` | policies by id, the id of each address, ledgers of investments, an array that aliases storage slot 0, ether | `addUser`, `invest`, `userBoarded`, `flightDeparted`, `cancelPolicy`, `cancelFlight`, `listAllAvailablePolicies` | transactions of many parties in any order, uint256 that wraps, a trigger that is repeated, a transfer that undoes the transaction, storage reached through unset indices | an address reaches its own policy, terms and settlements are final, below the minimum is cancelled, the documented amounts are paid |
| Dialogue, `bot/src/bot.js` | `app_state` and the answers given so far, in the session | `onEvent` and the handlers behind it | any button in any state; five states whose names are misspelt and read `undefined` | a quote rests on the answers it is computed from; no dead ends |
| Message routing, `lib/Client.js` | calls to the headless client that wait, whether the services are started | chat messages, answers of the headless client, payment updates, the ping | a message is handled three callbacks after it came; ids of calls start again at 0 with each process; Redis drops what nobody listens to | a claimed payment reaches the bot only where an Init told it; nothing precedes the Init; every message is handled; an answer reaches the call it answers; the services start once |
| Sessions, `lib/Session.js` | a private copy of the row of a user, thread, state | load, `get`, `set`, `flush`, `reply`, `sendEth`, `requestEth`, threads | copies of one row go stale; stores are not waited for | what the last handler left is what the next one finds |
| Store, `lib/Storage.js` | rows of sessions, key/value pairs, a pool of five connections (Postgres) or one handle (SQLite) | load, update, remove, `setKey`, `getKey` | queries run side by side; failed reads look like empty rows; SQLite selects before it inserts | a store is not lost; a call looks atomic |
| Id service client, `lib/IdService.js` | caches of users by id and by payment address | `getUser`, `paymentAddressReverseLookup` | failures | a lookup always ends |
| Ethereum service client, `lib/EthService.js` | callbacks and the time of the last update per address | `subscribe`, `getBalance`, `getTransaction`, resubscription | updates sent while the connection or the process was down | no update is missed |
| WebSocket connection, `lib/WebSocketConnection.js` | connected or not, attempts, requests that wait for an answer | connect, disconnect, send, answers, loss | a request that waits for a connection; two events for one loss | every request is answered or rejected; one connection at a time |
| Exchange rates, `lib/Fiat.js` | rates, helpers, the time of the last fetch | `fetch`, `getRates` | an answer without the rate, after the time was set; concurrent fetches | no rate older than five minutes decides |
| Dispatch and threads, `lib/Bot.js`, `lib/Thread.js` | hearings per thread; thread and state of a session | `hear`, `onClientMessage`, `openThread`, `closeThread`, `setState`, `reset` | opening a thread takes up to four stores, which mix with those of another message and are cut off by a restart | a stored state belongs to the stored thread |
| Units, `lib/unit.js` | none | `toWei` | digits beyond one wei | equals its definition, rounded down |
| The paying bot, `examples/simple_bot.js` | none but the calls and rates above | the handlers of messages, commands and payment requests | the limit is tested with rates that age; answers come late, twice or never | pays what is asked, below the limit, and tells the truth about it |
| Migrations, wallet, configuration, request signing, logger, console, `examples/testing_bot.js` | see `PROJECT.json` | | | |

The parts of the bot meet in this way. Redis brings a chat message to
`Client.js`; a `Session` is made for it, which queries the store and then asks
the id service; only then does the handler run. It may call `bot.onEvent`,
whose `session.set` calls each start a store, and whose replies are published
back to Redis. Payment updates come over the WebSocket connection, through
`EthService`, to a second handler that makes a session in the same way.

The contract and the bot are joined only by their documentation, which has the
bot register policies and trigger settlements through web3; no code does.

## 2. Plan

Done:

1. The contract: `Surefly`, its properties, the abstract `PolicyLifecycle`, the
   refinement, and the proofs.
2. The bot: `Conversation` (what one event does), `Dialogue` (a serial user),
   `Chat` (the concurrent pipeline around it).
3. Payment updates: `WebSocketConnection` and, on top of it, `PaymentUpdates`,
   `EthService` with its subscription, reconnection, and the key
   `lastTransactionTimestamp`.

4. The SQLite store: `SqliteStore`, the abstract `AtomicStore`, the refinement,
   and the proofs.
5. The paying bot: `Units`, `Fiat` and `RpcCalls`, joined in `SimpleBot`.
6. `Threads`: dispatch, threads and states, for bots with any handlers, and the
   proofs.
7. `ChatProofs`: the gate of `Chat`, and its quotes.
8. `DialogueProofs`, the rest of `PaymentUpdatesProofs`, the money of the
   contract, and `SimpleBotProofs`, with the inductions they need in `FoldLemmas`:
   a theorem for every safety property that a passing run checks.

Left: `Chat` with `PaymentUpdates` (an update is saved as seen before it is
handled, `Client.js:191`).

## 3. Modules

| Module | Models |
|---|---|
| `Surefly` | the contract: one action per transaction that succeeds |
| `SureflyProperties` | what it must guarantee, and the promises it does not keep |
| `PolicyLifecycle` | the life of a policy without storage, addresses or ether |
| `SureflyProofs` | theorems about the contract |
| `FoldLemmas` | induction stated with sets, sums over finite sets, folds over sequences |
| `MCSurefly` | instances of the contract for TLC |
| `Conversation` | `bot.js`: operators from a session and an event to a session, stores and replies |
| `Dialogue` | one user, one event at a time; a user who turns cooperative |
| `DialogueProofs` | theorems about the dialogue |
| `Chat` | `Client.js`, `Session.js` and the Postgres store around `Conversation` |
| `MCChat` | instances of the pipeline for TLC |
| `ChatProofs` | theorems about the gate in front of the bot, and about stored quotes |
| `WebSocketConnection` | the client end of a connection: operators from a connection and an event to a connection |
| `PaymentUpdates` | `EthService.js` and `configureServices` over a connection, with the service at its other end |
| `PaymentUpdatesProofs` | theorems about the connection and the recovery from its loss |
| `SqliteStore` | `SqliteStore` of `Storage.js`: calls, and the statements they are made of |
| `AtomicStore` | what a caller may expect of a store |
| `SqliteStoreProofs` | theorems about the SQLite store, the refinement among them |
| `Units` | `unit.js`: amounts as decimal numerals, and `toWei` |
| `RpcCalls` | the calls of `Client.js` to the headless client: operators over the state of one process |
| `Fiat` | `Fiat.js`: operators over the rates and those who wait for them |
| `SimpleBot` | `simple_bot.js` over the three modules above, with the exchange service, the headless client and restarts |
| `MCSimpleBot` | an instance of the paying bot for TLC |
| `SimpleBotProofs` | theorems about amounts, payments and answers |
| `Threads` | `Bot.js`, `Thread.js` and the threads of `Session.js`, with handlers that may do anything a handler can |
| `MCThreads` | an instance with two threads for TLC |
| `ThreadsProofs` | theorems about threads and states |

### The contract

The variables are the storage of the contract (`idOf`, `users`, `userCount`,
`investorCount`, `openUsers`), its `balance`, `received`, the ether each
address was sent, and `collected`, what was ever invested in each policy, uncut.
The last two are history: no action depends on them. An action is a transaction that succeeds. A failed
`require`, a division by zero or a transfer beyond the balance undoes a
transaction, so it is a step that changes nothing. `payout` is an operator
on the storage as the transaction has changed it, called by `flightDeparted`,
`cancelPolicy` and `cancelFlight` as in the source.

Some of the code works by accident, and the model follows the accident:

* an unknown address resolves to id 0;
* `invest` indexes the slots of a policy with the contract-wide
  `investorCount`, which stays 0;
* `payout` tests the status of the policy that its local variable `adr`
  resolves to, and `adr` is zero or left over from a loop (`lastRead`,
  `branches`);
* `flightDeparted` calls `userBoarded`, which sets the flag it reports;
* `openUsers` is an uninitialised storage pointer, so it is the array in slot 0,
  and it stays when the function is called in a transaction.

`addUser` is declared `constant`, so tools call it without a transaction unless
told to send one (as `truffle/test/surefly.js` shows); the model is of the
calls that are sent. The amounts in `finalPremium` and the shares follow the
code: a product cut to the word, then divided.

### The bot

`Conversation` represents a handling as a record: the session data, the
sessions handed to the store so far, the replies, and whether an exception
ended it. A reply is named for what it asks or tells. What a user types is
one of five meanings: an amount that fits the ticket price or exceeds it, a
location the bot serves, an empty message, other text. The names that
`STATES` does not have (`waitingforaadharnumber`, `confirmed`, `POOL`...) all
are `undefined`; `STATES.pool`, which it has, is `"POOL"`, and no button leads to it; and the switch statements take the first case that matches,
as in JavaScript.

In `Chat` an action is one callback: a message arrives (`Arrive`), a query of
the pool is answered (`QueryAnswered`), the id service answers and the handler
runs (`LookupAnswered`), the process restarts (`Crash`). Each message carries
its own copy of the session. A store that finds an idle connection is sent at
once; the others take the session when they get a connection, and see what the
handler did later. Queries on different connections take effect in any order.
A query or lookup may fail: a failed load reads as an empty session, a failed
store is logged, a failed lookup gives a null user, with which the handlers of
an Init and of a payment update throw.

The content of an Init is a constant, `ContentOf`: the keys it has, in their order, and
the value of each. `tell` sets them one by one, each with a store of its own, as the
loop of `Client.js:70-72` does, whatever the keys are: the address, the held
message, the state of the dialogue, or keys that nothing reads, which only
store the session once more. So the message held for an Init can be one
that the Init itself told, or a value that cannot be parsed (`Unparsable`), at which the
handler throws. `Dialogue`, whose user is served one event at a time, and `Threads` leave
this out: their Inits tell nothing that `bot.js`, or the thread of a session, depends on.

Assumed: a user the id service knows has the field `custom` that the greeting
reads. Payment updates of unknown senders are left out: they are handled in the
anonymous session, and change nothing but the log.

### Payment updates

`WebSocketConnection` represents a connection as a record: the socket, the
flags, the requests that have a promise, the requests that try again on a timer,
and the sockets and reconnections there are. `PaymentUpdates` adds the
subscription (`cursor`, its `last_timestamp`), the key in the store (`saved`,
and `saving`, what is on its way there), and the service. A request is sent when
a timer finds an open socket, also one whose promise has been rejected; a lost
socket takes with it all that is on its way. `refused` and `received` are
history: no action depends on them.

Assumed: the error event of a socket and the close event after it come without
a callback in between; the bot and the service have the same clock; the service
answers a list with notifications of the updates and then the answer, since the
code does nothing with the answer itself. Left out: delays and the attempts they
depend on, and `disconnect`, `readRequest`, `sendResponse`, `getBalance`,
`getTransaction`, which `bot.js` does not reach.

Two gaps are in the code and no document denies them. After a restart the list
of past updates is asked for without waiting for the subscription, so what is
made between the two answers is missed; after a loss it does wait, and
`ListCatchesUp` shows that this closes the gap. And the time of the last update
is that of its arrival: an update made earlier that was lost on its way is not
asked for again, so `ListCatchesUp` speaks of the updates made since.

### The SQLite store

A call of `SqliteStore` is a record of what it asks for and the statement it is
at; a statement and its callback are one action. `proceed` and `write` are the
two things a callback can do: go on to the next statement or settle, or change
the row. `raced` is history: another call has changed the cell meanwhile.
`AtomicStore` says what that allows: a call that nothing overtakes takes
effect in one step, and one that is overtaken may also be lost, or, as the
failed insertion of a session in `updateBotSession`, never settle. The
refinement maps a call at any statement to `pending`, so that a SELECT is a
stutter and the UPDATE or INSERT after it is the step.

Assumed: the columns `eth_address` and `key` are unique, as the ON CONFLICT clauses of
the Postgres store demand of the same tables. Values are never looked into.

### The paying bot

`simple_bot.js` pays whatever a user asks for, below 100 USD. It is the one
program of the repository that reaches the exchange rates, `unit.js` and the
calls to the headless client. `RpcCalls` holds the table of
calls, their ids and the ping; an answer goes to the call of its id in the
process that listens, whichever process made it. `Fiat` keeps the time at which the rates
were noted as fetched (`cachedAt`) apart from the time at which those it holds
came (`asOf`): they part when an answer does not parse, or parses and lacks the dollar. `Worth` is what 100 USD are worth
at each time, in wei, so a rate is named by the time it is of. `verdict` is the
callback of a payment request, branch by branch; `resume` is any callback of
`Fiat.fetch`.

Two limits of the code show in how the properties are stated. After a restart
ids start again at 0, so an answer to an earlier process can be taken for the answer to
a call of this one: `ToldOnlyIfPaid` speaks of the first process. And an
answer that does not parse, or lacks the dollar, renews an older rate for five minutes:
`PaysWithinLimit` excepts payments made then (`hidden`).

Assumed: messages come only through the headless client, and the amount in a
request is a plain decimal numeral with a digit at least (`sofa-js`, which reads it, is not in the
repository). Left out: what the logger prints.

### Threads

A session is its fields `thread` and `state`, its data, and the sessions it has
handed to the store; every `set` stores all of the data. A handler is called with
a session of its own and makes one call or none, any that a handler can make
(`oneCall`), once in `onEvent` and once in what hears the message; calls
before it are in the row. As in `Chat` the first stores are sent at once and the
others when there is a connection, and they take effect in any order.

Assumed: an author sets states of the thread he is in, as
`examples/testing_bot.js` does. Left out: `onClose`, which nothing sets, handlers that
make several calls, and Inits whose content names `_thread` or `_state`, which
`Client.js:71` would set like any other key.

## 4. Runs

Every run leaves the deadlock check off: each behaviour may end when its bounds are
used up or, in `dialogue`, when the user has the quote.

| Run | Shows |
|---|---|
| `contract_lifecycle` | addressing, terms and settlement, with sums and products of which some wrap, for two addresses, two policies and two investments; the ledger of a policy is within its pool until that wraps; a contract with one policy and at most one investment pays what the documentation promises; the storage implements `PolicyLifecycle` |
| `dialogue` | a quote has a served location; a user who follows the prompts gets a quote from every state |
| `chat_gate` | a claimed payment reaches the bot only for a user whose Init told what to hold; wake-ups never do, and nothing does before an Init |
| `chat_races` | no order of the stores leaves a quote without its location in the store; every message is handled unless a restart takes it |
| `updates` | one connection or one to come at any time; every request settles; the subscription comes back after any losses; the list asked for after one leaves no gap |
| `sqlite` | a call on the SQLite store looks atomic unless another one overtakes it; of several first stores one is stored; without failures only a store that was overtaken stays unsettled; a store of a cell that has a row settles |
| `simple_bot` | the bot pays exactly what was asked, cut to a wei, below the limit at rates not older than the age limit; it tells users of the payments that were made; the services start once; every request is answered, and a ping that was received starts the services, unless something fails |
| `threads` | no order of stores and no restart leaves a thread with the state of another one |

Runs that end in a violation, each of a statement of the documentation, a test
or a message to the user:

| Run | The code |
|---|---|
| `contract_never_missed` | a flight is never missed: asking whether the seeker boarded boards him |
| `contract_foreign_status` | the status of policy 0 decides whether another policy is refunded |
| `chat_persistence` | two stores of one handler take effect in reverse order |
| `chat_claimed_payment` | an Init sets every key of its content, so it can name the message that is held for it, a payment too |

Four more disagreements were met while modelling and have no run of their own,
since the source shows them as it stands: the listing names the zero address past the
last policy and keeps policies that are settled (`surefly.sol:93`, against
`README.md:81`); only the last investor is paid,
because every investment takes slot 0 (`surefly.sol:143`, against
`README.md:85`); a trigger that is repeated pays again (`surefly.sol:152`); and
the button `insure` leads from an amount the bot has refused to a quote for it
(`bot.js:234`, against the refusal in `bot.js:59`).

### Bounds

* `Word` stands for 2^256. In `contract_lifecycle` it is 1024: an investment of 100 and
  one of 600 fit a pool together and two of 600 wrap it, and so do the products of all
  pools but the smallest; both sides of the conditions in `LedgerWithinPool` and
  `LonePolicyPaysAsPromised` occur. The endowment, 160, is less than the refund of a
  policy can need, so transfers fail too. In the two runs that end in a violation
  it is 2^20, where nothing wraps, so that the violation has nothing to do with it.
* `MaxUsers` 2: the confusions of the contract are between policy 0 and another
  one. `MaxInvestments` 2: the second investment already overwrites the
  first slot.
* `MaxListings`, the entries the listing may leave for one address, is 1: it
  never removes what it has put into the slot, so one that is sent as a
  transaction at any point shows what later ones add to.
* `contract_lifecycle` takes states that differ by a swap of the two addresses
  as one: no definition tells them apart, and none of its properties is a
  liveness property.
* `PoolSize` 2 stands for the 5 connections: two are enough for any two
  queries to swap, and leave a third one waiting.
* `MaxMessages` 3: a message held, one that makes it stale, and the Init.
  `MaxFailures` 1: one failed query, lookup or restart at any point. Three Inits: one
  that tells the address, one that also tells what to hold, and one that tells to hold
  what cannot be parsed, and no address. `chat_races` has none, to keep its
  liveness property within reach; that quotes stay sound when Inits
  tell the state is only in the proof.
* In `updates`, three seconds and two updates: one seen, one missed, and a time
  for the recovery to end. `MaxFailures` 2: a loss during the recovery from a
  loss or a restart, or a refusal in it.

* `sqlite`: three calls, so that two can race and a third overtakes or follows;
  one session and one key, since cells meet only in `failures`; two values, and
  one failed statement or restart at any point.
* `simple_bot`: two messages, so that one waits for rates the other has asked for,
  and two pings in a process. An ether has a hundred wei: `0.658` has a digit too
  many. Times 2 to 4 with an age limit of 1 let rates be fresh and be old;
  the worth of the limit falls below the amount asked for meanwhile. `MaxFailures` 1:
  one error, answer without the rate, or restart of either side.
* `threads`: three messages, two of which race on copies that the third
  reads; one restart; a thread that opens in a state, and one with two states
  that does not; an unregistered name.

### Fairness

`Chat!FairSpec` assumes that queries and lookups are answered, if with an
error: both libraries call back in either case. It does not assume that
messages arrive. `PaymentUpdates!FairSpec` assumes that the headless client
becomes ready, that timers fire and messages are handled, that a socket opens
unless it ends, and that the service replies; failures, updates and the passing
of time are not fair. `Dialogue!FairSpec` assumes only that a user who has
started to cooperate goes on to answer. `SqliteStore!FairSpec` assumes that the
library calls back for every statement, if with an error. `SimpleBot!FairSpec`
assumes that the exchange service, the headless client and the store answer, if
with an error; it assumes neither pings nor messages nor that the headless client
ever listens, and its two liveness properties except behaviours with failures.

## 5. Proofs

`SureflyProofs` proves, for every set of accounts, word, quotes, amounts and
bounds that satisfy `ContractAssumption`:

| Theorem | States |
|---|---|
| `TypeCorrect` | `TypeOK` |
| `AddressingCorrect` | `LatestPolicyWins` |
| `UnregisteredStaysEmpty` | `UnregisteredUntouched` |
| `BelowMinimumIsCancelled` | `MinimumNotMetMeansCancelled` |
| `PremiumIsOfThePool` | `PremiumFollowsPool` |
| `TermsNeverChange` | `TermsFixed` |
| `SettlementIsFinal` | `SettledStaysSettled` |
| `PoolCoversLedger` | `LedgerWithinPool` |
| `LonePolicyIsPaidAsPromised` | `LonePolicyPaysAsPromised` |
| `ContractImplementsLifecycle` | `ImplementsLifecycle` |

The inductive invariant `IInv` joins the properties above with what they need
of each other: no policy is ever `MISSED`, because the departure of a flight boards
its seeker first (the disagreement `contract_never_missed` shows; what follows
about payments rests on it), and before the first registration every policy reads as empty
(an address without a policy resolves to id 0, and `invest`, `userBoarded` and
the triggers would otherwise write there). Two lemmas carry the argument.
`PayoutSettles` and `TriggersSettle` say what the three triggers leave in
storage, whatever they transfer; every step then is a registration, an
investment, a boarding, a settlement or a listing, and one lemma for each shows
that it keeps `IInv`. `NextEvolves` does the same for two successive states, and
gives the action properties. The refinement maps a policy to unopened, open,
refunded or paid; registration is `Open`, an investment `Contribute`, a trigger
`Settle`, and everything else stutters.

The two theorems about money assume nothing of the amounts, which `invest` takes from
its caller and never compares with the ether sent, nor of `prob`. The conditions are in the
properties, and name the one number that must not wrap: for a ledger, what was
ever invested in that policy (`collected`); for a settlement, the premium
times the pool and their sum, of the policy being settled (`SharesFit`), and nothing for
one that is cancelled. Where they fail the claims fail too: a pool that has wrapped is
smaller than its ledger. The ledger of a policy is a sum over
addresses, and slots are overwritten, so the invariant compares it with the pool and
with what was collected (`Funded`): an investment replaces one summand by
another and adds the amount to both. For the payments, one lemma follows each
trigger of a lone policy to the one branch of `payout` it can enter.

`PaymentUpdatesProofs` proves, for every bound,

| Theorem | States |
|---|---|
| `ConnectionIsOne` | `OneConnection` |
| `TypeCorrect` | `TypeOK` |
| `RecoveryMissesNothing` | `ListCatchesUp` |

The invariant has two halves. The first ties the socket to what is counted: a
connection without a socket has left one reconnection, and one with a socket
none (`Linked`). `EndsSoundly` is the heart of it: after an error event the
close event finds no socket, so `onClose` runs twice but reconnects once.

The second half (`Recovery`) is about what is on its way. An update is *got* if
it is received or among the notifications of this connection. A request for a
list, wherever it waits, asks up to a time that has come, and one that recovers
comes from a bot that is subscribed and gets what is made from then on (`Asks`).
Once the service has answered, everything in the interval asked for is got
(`Tells`), for as long as the answer is on its way; a loss takes the
answer and the updates together. Numbers tie an answer to its request: they grow and are not
given twice. When the bot handles the answer of a recovery nothing made since is left out,
which is `ListCatchesUp`. That the list has every update it should have, in the order of
their making, is the one place that needs an induction on the updates.

`DialogueProofs` proves, for any cooperation and bound,

| Theorem | States |
|---|---|
| `TypeCorrect` | `TypeOK` |
| `QuoteIsForLocation` | `QuoteHasLocation` |

One lemma per handler of `bot.js` shows that it keeps a session in `Quoted`,
that is, a quote open only for a served location. The location is written before
the state: `LocationWorks` needs that the dialogue is out of the state of a
quote when a location is entered, which the state it is entered in tells.

`ChatProofs` proves, for any users, messages, contents of Inits, connections and bounds,

| Theorem | States |
|---|---|
| `TypeCorrect` | `TypeOK` |
| `ClaimsAreTold` | `ClaimedPaymentsAreTold`, if no stored session holds a claimed payment at the start |
| `WakeUpsStayOut` | `WakeUpsIgnored` |
| `InitComesFirst` | `InitFirst`, if no stored session has an address at the start |
| `QuotesAreSound` | `StoredQuoteHasLocation`, if no stored session has a quote without a served location at the start |

The three theorems with a hypothesis need it, for a row that an earlier process left may
come from an Init given to that process. It is only about the rows at the start, and of
one field; what an Init writes later is in the properties, not assumed away.

Sessions travel as copies, so the invariant is about each of them, wherever it is: in a
row, in a query or waiting for a lookup. Three things make a session more than a
stranger's, and each is a *permission*: it has an address (`known`), it
holds a payment that a chat message claimed (`claims`), its quote has no served
location (`quotes`). A row at the start gives a permission to everybody
(`AtStart`), and an Init given to the bot gives its user those for the keys it told
(`Grants`). A session is *admitted* if it has only what its user is permitted
(`Admitted`). This survives stale copies and lost stores because what was
given only grows, and permissions with it (`Growth`). What remains is one handler:
`BotKeeps` shows that nothing `bot.js` does touches the address and the held
message, call by call through `Conversation`; `ContentTells` follows the content of an
Init key by key; `HandlePasses` shows that a handler gives the bot an Init and
the message held for it (`Welcomes`), or what an admitted session lets pass
(`Serves`). One lemma per action of `Chat` then preserves `IInv`.

`SqliteStoreProofs` proves, for any calls, cells, values and bounds,

| Theorem | States |
|---|---|
| `TypeCorrect` | `TypeOK` |
| `OnlyRacesHang` | `OnlyRacedStoresHang` |
| `FirstStoreIsKept` | `OneStoreWins` |
| `StoreImplementsAtomicStore` | `ImplementsAtomicStore` |

The invariant says of each call that it is at a statement of its own operation,
that a store at its second statement either still finds what its SELECT found or
was overtaken (`Current`), and that an unsettled one was overtaken or met a
failure (`Settles`). For the refinement, a step of the store is matched with the step of
`AtomicStore` the call is at; an UPDATE or INSERT that does not find what the SELECT promised is
`Overtaken`, which needs `Current`. `FirstStoreIsKept` has an invariant of its
own: until it is removed, a cell that a store has ended for has a row.

`ThreadsProofs` proves, for any threads, states, hearings and bounds,

| Theorem | States |
|---|---|
| `TypeCorrect` | `TypeOK` |
| `StatesStayInTheirThread` | `StateIsOfThread` |

The invariant says of every session in the row, on its way there or loaded, that
it fits. It is inductive because each single store of a handler fits, also
those in the middle of `openThread`, and because the thread a session is in is
the one it stores (`Sound`): `setState` would otherwise store a state of a
thread that has been left. One lemma per method of `Session.js` shows that it keeps
`Sound`.

`SimpleBotProofs` proves, for any messages, worths, number of decimals and bounds,

| Theorem | States |
|---|---|
| `TypeCorrect` | `TypeOK` |
| `SendsWhatIsAsked` | `SentIsAsked` |
| `PaysBelowLimit` | `PaysWithinLimit` |
| `TellsOnlyOfPayments` | `ToldOnlyIfPaid` |
| `ServicesStart` | `ServicesStartOnce` |

The first part is arithmetic. A number is what its digits fold to
(`NumberOfConcat`: digits put after others multiply those by a power of ten), and
`ConversionIsFloor` follows: whatever is cut from the fraction is less than a wei, and
zeros that are added change nothing. A payment is then below the limit because the
amount it is cut from is (`FloorBelow`): the code compares the ether and sends the wei.

The second part keeps an account of each message (`Accounted`). It waits for rates, then a call
waits under an id of its own, then its answer waits for a session, then the user is told;
at each moment it is at one of these, and a payment is made exactly when the call is answered
with success. A request that the headless client holds is the call under its id, as long as
there was no restart (`Matched`). Since a message decides once, ids are bounded by pings and decided
messages (`Bounded`), which `TypeOK` needs. A message that is answered at once, one
that waited for rates, and one that is refused are the same step (`Turn`), so what it keeps is shown once.

How the inductions are done. The induction theorems of the library take an operator
as parameter, which the provers cannot instantiate; `NaturalsByInduction` in
`FoldLemmas` takes a set instead: the set of the numbers for which the claim holds.
From it come the existence of the functions that sums, folds over sequences and powers of ten
are defined by, and so their equations.

Only model-checked are the liveness properties, which the prover cannot express:
`CooperationGetsQuote`, `EveryMessageEnds`, `EveryRequestSettles`,
`StaysSubscribed`, `StoresOfRowsSettle`, `EveryRequestIsTold` and `PingStartsServices`.

## 6. Not modelled

Wallet, request signing and configuration (cryptography and files read at
start-up), the logger and the console, the headless client and Redis except as
the sources of messages and answers, the deployment scripts and the `Migrations`
contract, the tests, and `examples/testing_bot.js`, whose handlers end in names
that are not defined. The caches of the id service are left out because an entry never
counts as valid (`IdService.js:12` subtracts the other way round), so that every lookup asks. `PROJECT.json`
lists every component with what is left out of it, and the hazards no property
covers with the reason.
