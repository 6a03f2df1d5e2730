-------------------------- MODULE PolicyLifecycle --------------------------
(***************************************************************************)
(* What a policy of the platform goes through, with no storage, no         *)
(* addresses and no ether: policies are opened in the order of their ids,  *)
(* an open one collects contributions, and a settled one never collects    *)
(* again.  A settled policy that raised less than its minimum is refunded; *)
(* one that raised enough may be settled again with another outcome.       *)
(***************************************************************************)
EXTENDS Naturals

CONSTANTS
  Policies,       \* the ids, 0 .. n
  Contributions,  \* the amounts a policy can collect at once
  Minimums,       \* the minimums a policy can be opened with
  Capacity        \* a pool counts modulo Capacity

VARIABLES
  opened,   \* how many policies have been opened
  phase,    \* for each policy: unopened, open, or its outcome
  minimum,  \* what it must raise
  pool      \* what it has raised

lifecycleVars == <<opened, phase, minimum, pool>>

Outcomes == {"refunded", "paid"}
Settled(id) == phase[id] \in Outcomes

Init ==
  /\ opened = 0
  /\ phase = [id \in Policies |-> "unopened"]
  /\ minimum = [id \in Policies |-> 0]
  /\ pool = [id \in Policies |-> 0]

Open(least) ==
  /\ opened \in Policies
  /\ phase[opened] = "unopened"
  /\ phase' = [phase EXCEPT ![opened] = "open"]
  /\ minimum' = [minimum EXCEPT ![opened] = least]
  /\ opened' = opened + 1
  /\ UNCHANGED pool

Contribute(id, amount) ==
  /\ phase[id] = "open"
  /\ pool' = [pool EXCEPT ![id] = (@ + amount) % Capacity]
  /\ UNCHANGED <<opened, phase, minimum>>

Settle(id, outcome) ==
  /\ phase[id] = "open" \/ Settled(id)
  /\ pool[id] < minimum[id] => outcome = "refunded"
  /\ phase' = [phase EXCEPT ![id] = outcome]
  /\ UNCHANGED <<opened, minimum, pool>>

Next ==
  \/ \E least \in Minimums : Open(least)
  \/ \E id \in Policies, amount \in Contributions : Contribute(id, amount)
  \/ \E id \in Policies, outcome \in Outcomes : Settle(id, outcome)

Spec == Init /\ [][Next]_lifecycleVars
=============================================================================
