------------------------- MODULE SureflyProperties -------------------------
(***************************************************************************)
(* What the insurance contract must guarantee.  The last section holds     *)
(* what the documentation promises and the contract does not do.           *)
(***************************************************************************)
EXTENDS Surefly

Registered == 0 .. (userCount - 1)

TypeOK ==
  /\ idOf \in [Addresses -> Ids]
  /\ users \in [Ids -> user]
  /\ userCount \in Ids
  /\ investorCount \in UInt
  /\ openUsers \in [Addresses -> Nat]
  /\ balance \in Nat
  /\ received \in [Addresses -> Nat]
  /\ collected \in [Ids -> Nat]

-----------------------------------------------------------------------------
(* Policies and addresses.                                                 *)

\* An address resolves to the last policy it has registered, and one that has
\* registered none resolves to id 0, which then belongs to somebody else or to
\* nobody.  Every operation but addUser finds its policy this way.
LatestPolicyWins ==
  \A a \in Addresses :
    LET own == {id \in Registered : users[id].adr = a} IN
    IF own = {} THEN idOf[a] = 0
    ELSE idOf[a] \in own /\ \A id \in own : id <= idOf[a]

\* No operation writes a policy before it is registered, although all of them
\* can be called with addresses that have none: those calls end at id 0.
UnregisteredUntouched ==
  \A id \in Ids : id >= userCount /\ id > 0 => users[id] = EmptyUser

\* A registered policy keeps its seeker and its terms: a later addUser of the
\* same address, or a call for another address, never rewrites them.
TermsFixed ==
  [][\A id \in Registered :
       /\ users'[id].adr = users[id].adr
       /\ users'[id].maxPayout = users[id].maxPayout
       /\ users'[id].minPayout = users[id].minPayout
       /\ users'[id].initialPremium = users[id].initialPremium
       /\ users'[id].prob = users[id].prob]_vars

-----------------------------------------------------------------------------
(* Settlement.                                                             *)

\* Whatever triggered the settlement, and however often, a policy that raised
\* less than its minimum ends as CANCELLED.
MinimumNotMetMeansCancelled ==
  \A id \in Registered :
    users[id].poolSize < users[id].minPayout => users[id].status \in {"OPEN", "CANCELLED"}

\* The final premium of a settled policy is the share of its pool that prob
\* says, so the pool has not moved since the settlement that computed it.
PremiumFollowsPool ==
  \A id \in Registered :
    users[id].finalPremium = IF users[id].status = "OPEN" THEN users[id].initialPremium
                             ELSE ((users[id].prob * users[id].poolSize) % Word) \div 100

\* A settled policy never opens again and its pool and ledger of investments
\* stay as they were settled, through repeated triggers and new policies of
\* the same seeker.
SettledStaysSettled ==
  [][\A id \in Registered :
       users[id].status # "OPEN" =>
         /\ users'[id].status # "OPEN"
         /\ users'[id].poolSize = users[id].poolSize
         /\ users'[id].investorCount = users[id].investorCount
         /\ users'[id].investedAmountOf = users[id].investedAmountOf]_vars

\* The storage of the contract implements the life of a policy.
PhaseOf(id) ==
  IF id >= userCount THEN "unopened"
  ELSE CASE users[id].status = "OPEN"      -> "open"
         [] users[id].status = "CANCELLED" -> "refunded"
         [] OTHER                          -> "paid"

Lifecycle == INSTANCE PolicyLifecycle WITH
  Policies      <- Ids,
  Contributions <- Amounts,
  Minimums      <- {q.minPayout : q \in Quotes},
  Capacity      <- Word,
  opened        <- userCount,
  phase         <- [id \in Ids |-> PhaseOf(id)],
  minimum       <- [id \in Ids |-> users[id].minPayout],
  pool          <- [id \in Ids |-> users[id].poolSize]

ImplementsLifecycle == Lifecycle!Spec

-----------------------------------------------------------------------------
(* Money.                                                                  *)

ledgerTotal(id) == MapThenSumSet(LAMBDA a : users[id].investedAmountOf[a], Addresses)

\* What the ledger of a policy owes its investors is in its pool, although the
\* ledger keeps the last amount of an address and the pool adds up all of them,
\* until so much has been invested that the pool wraps.
LedgerWithinPool ==
  \A id \in Registered : collected[id] < Word => ledgerTotal(id) <= users[id].poolSize

\* The payout rules of the documentation, on the policy as it was settled.
Promised(u, a) ==
  LET premium == (u.finalPremium * u.investedAmountOf[a]) \div u.poolSize IN
  (IF a = u.adr /\ u.status = "CANCELLED" THEN u.initialPremium ELSE 0)
    + (IF u.investedAmountOf[a] = 0 THEN 0
       ELSE IF u.status = "CANCELLED" THEN u.investedAmountOf[a]
       ELSE u.investedAmountOf[a] + premium)

\* A settlement that shares out premiums, on the policy as it was settled, stays
\* within the word: neither the premium times the pool nor their sum wraps.
SharesFit(u) ==
  \/ u.status = "CANCELLED"
  \/ u.finalPremium * u.poolSize < Word /\ u.poolSize + u.finalPremium < Word

\* While the contract holds one policy, and that one at most one investment,
\* settling it sends everybody what the documentation promises, unless the
\* share it computes wraps.  (With more policies or investments payout tests
\* and pays others: see below.)
LonePolicyPaysAsPromised ==
  [][userCount = 1 /\ users[0].investorCount <= 1
       /\ users[0].status = "OPEN" /\ users'[0].status # "OPEN" /\ SharesFit(users'[0]) =>
       \A a \in Addresses : received'[a] = received[a] + Promised(users'[0], a)]_vars

-----------------------------------------------------------------------------
(* Promises that the contract does not keep.                               *)

\* A seeker who has not boarded when the flight departs has missed it.
NotBoardedMeansMissed ==
  [][\A id \in Registered :
       /\ ~ users[id].departed /\ users'[id].departed
       /\ ~ users[id].boarded
       /\ users[id].poolSize >= users[id].minPayout
       => users'[id].status = "MISSED"]_vars

\* When the flight is cancelled the seeker gets back the premium.
CancelledRefundsSeeker ==
  [][\A id \in Registered :
       users[id].status = "OPEN" /\ users'[id].status = "CANCELLED" =>
         received'[users[id].adr] >= received[users[id].adr] + users[id].initialPremium]_vars
=============================================================================
