------------------------------ MODULE RpcCalls ------------------------------
(***************************************************************************)
(* The calls that Client.js makes to the headless client, and its start-up *)
(* ping: operators over the state c of one process.                        *)
(*   c.rpcCalls, c.nextRpcId, c.started    the variables of that name      *)
(*   c.loading    the answers whose session is being loaded                *)
(*   c.services   history: how often configureServices has run             *)
(* A call is a record; what it is besides its kind is its caller's.        *)
(***************************************************************************)
EXTENDS Naturals

NewClient ==
  [rpcCalls |-> <<>>, nextRpcId |-> 0, started |-> FALSE, loading |-> {}, services |-> 0]

\* Mutant: every call gets the same id.
idAfterMutant(id) == id
idAfter(id) == id + 1

registered(calls, id, call) ==
  [i \in DOMAIN calls \cup {id} |-> IF i = id THEN call ELSE calls[i]]

rpc(c, call) ==
  [c EXCEPT !.rpcCalls = registered(@, c.nextRpcId, call), !.nextRpcId = idAfter(@)]

forgotten(calls, id) == [i \in DOMAIN calls \ {id} |-> calls[i]]

\* The session of an answer is loaded before the callback runs.  The answer to a
\* call that is not known throws, which is logged.
onAnswer(c, id, ok) ==
  IF id \in DOMAIN c.rpcCalls
  THEN [c EXCEPT !.rpcCalls = forgotten(@, id),
                 !.loading = @ \cup {[id |-> id, call |-> c.rpcCalls[id], ok |-> ok]}]
  ELSE c

\* The interval that pings stops with the first answer that is a result.
pings(c) == ~ c.started

\* Mutants: every result starts the services; none does.
startsMutant(c, ok) == ok
startsNeverMutant(c, ok) == ok /\ c.started
starts(c, ok) == ok /\ ~ c.started

onPing(c, ok) ==
  IF starts(c, ok) THEN [c EXCEPT !.started = TRUE, !.services = @ + 1] ELSE c
=============================================================================
