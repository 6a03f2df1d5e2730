------------------------ MODULE WebSocketConnection ------------------------
(***************************************************************************)
(* The client end of a connection to a service,                            *)
(* bot/src/lib/WebSocketConnection.js: operators over a connection c.      *)
(*   c.ws            the socket: none, connecting or open                  *)
(*   c.connected, c.wasConnected, c.jsonrpcId    the fields of that name   *)
(*   c.outgoing      the requests that have a promise                      *)
(*   c.waiting       the requests that try again until there is a socket   *)
(*   c.reconnects    the calls of connect that a closed socket has left    *)
(*   c.live          the sockets there are; events are those of c.ws, so   *)
(*                   what the others would do is left out as long as       *)
(*                   c.live does not pass 1                                *)
(*   c.up            what is on its way to the service                     *)
(* The delays of retries and reconnections, and so the attempts they are   *)
(* computed from, are left out.                                            *)
(***************************************************************************)
EXTENDS Naturals, Sequences

NewConnection ==
  [ws |-> "none", connected |-> FALSE, wasConnected |-> FALSE, jsonrpcId |-> 1,
   outgoing |-> {}, waiting |-> {}, reconnects |-> 0, live |-> 0, up |-> <<>>]

connect(c) == [c EXCEPT !.ws = "connecting", !.live = @ + 1]

-----------------------------------------------------------------------------
(* Requests.                                                               *)

\* A request that finds no connection is tried again after a while, also when
\* its promise has been rejected in the meantime.
trySend(c, r) ==
  IF c.ws = "none" \/ ~ c.connected THEN [c EXCEPT !.waiting = @ \cup {r}]
  ELSE [c EXCEPT !.up = Append(@, r), !.waiting = @ \ {r}]

sendRequest(c, call) ==
  LET r == [id |-> c.jsonrpcId, call |-> call] IN
  trySend([c EXCEPT !.jsonrpcId = @ + 1, !.outgoing = @ \cup {r}], r)

\* The promises an answer settles: none if the request has been forgotten.
settledBy(c, id) == {r \in c.outgoing : r.id = id}
answered(c, id) == [c EXCEPT !.outgoing = @ \ settledBy(c, id)]

-----------------------------------------------------------------------------
(* The events of the socket.                                               *)

\* Mutant: a request is only forgotten when it is answered.
rejectAllMutant(c) == c
rejectAll(c) == [c EXCEPT !.outgoing = {}]

\* Mutant: every event that ends a socket brings about a reconnection.
reconnectsMutant(c) == TRUE
reconnects(c) == c.ws # "none"

\* Mutant: the flag stays as the open socket set it.
disconnectedMutant(c) == c
disconnected(c) == [c EXCEPT !.connected = FALSE]

onClose(c) ==
  LET d == rejectAll(disconnected(c)) IN
  IF reconnects(d) THEN [d EXCEPT !.ws = "none", !.reconnects = @ + 1] ELSE d

onError(c) == IF c.ws # "none" THEN onClose(c) ELSE c

\* A socket ends with a close event, before which there may be an error event;
\* no other callback runs in between.
ended(c, error) ==
  LET d == [c EXCEPT !.live = @ - 1, !.up = <<>>] IN
  onClose(IF error THEN onError(d) ELSE d)

\* The callbacks of onReconnect run if wasConnected was already set.
onOpen(c) == [c EXCEPT !.ws = "open", !.connected = TRUE, !.wasConnected = TRUE]

reconnect(c) == connect([c EXCEPT !.reconnects = @ - 1])
=============================================================================
