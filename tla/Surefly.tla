------------------------------ MODULE Surefly ------------------------------
(***************************************************************************)
(* The insurance contract truffle/contracts/surefly.sol.  One action is    *)
(* one transaction that succeeds: the EVM undoes every write of a          *)
(* transaction that reverts, so a failed require, a division by zero or a  *)
(* transfer the balance cannot cover is a step that changes nothing.       *)
(* An operator whose first argument is us works on the storage as the      *)
(* running transaction has changed it so far.                              *)
(***************************************************************************)
EXTENDS Integers, FiniteSets, FiniteSetsExt

CONSTANTS
  Accounts,        \* the addresses that hold keys: seekers, investors, the bot
  ZeroAddress,     \* address(0), what an unset address reads as
  Word,            \* uint256 arithmetic is modulo Word
  Quotes,          \* the arguments addUser is called with
  Amounts,         \* the amounts invest is called with
  Endowments,      \* ether the address can hold before the contract is there
  MaxUsers,        \* bound: policies registered in one behaviour
  MaxInvestments,  \* bound: investments in one policy
  MaxListings      \* bound: entries that openUsers may hold for one address

Addresses == Accounts \cup {ZeroAddress}
UInt == 0 .. (Word - 1)
Ids == 0 .. MaxUsers
Slots == 0 .. (MaxInvestments - 1)
Quote == [maxPayout : UInt, minPayout : UInt, initialPremium : UInt, prob : UInt]

ASSUME ContractAssumption ==
  /\ IsFiniteSet(Accounts)
  /\ ZeroAddress \notin Accounts
  /\ Word \in Nat \ {0}
  /\ Quotes \subseteq Quote
  /\ Amounts \subseteq UInt
  /\ Endowments \subseteq Nat
  /\ MaxUsers \in Nat
  /\ MaxInvestments \in Nat \ {0}
  /\ MaxListings \in Nat

policyStatus == {"OPEN", "MISSED", "NOTMISSED", "CANCELLED", "TICKETCANCELLED"}

\* flightCancelled and ticketCancelled of the struct are never read or written.
user == [adr : Addresses, maxPayout : UInt, minPayout : UInt, poolSize : UInt,
         initialPremium : UInt, prob : UInt, finalPremium : Nat,
         status : policyStatus, departed : BOOLEAN, boarded : BOOLEAN,
         investorCount : 0 .. MaxInvestments,
         investedAmountOf : [Addresses -> UInt],
         investorAdrOf : [Slots -> Addresses]]

\* A struct no transaction has written: every field reads as zero.
EmptyUser == [adr |-> ZeroAddress, maxPayout |-> 0, minPayout |-> 0, poolSize |-> 0,
              initialPremium |-> 0, prob |-> 0, finalPremium |-> 0,
              status |-> "OPEN", departed |-> FALSE, boarded |-> FALSE,
              investorCount |-> 0,
              investedAmountOf |-> [a \in Addresses |-> 0],
              investorAdrOf |-> [k \in Slots |-> ZeroAddress]]

VARIABLES
  idOf,           \* the policy id an address resolves to
  users,          \* the policies, by id
  userCount,      \* the next id addUser gives out
  investorCount,  \* the contract-wide counter, distinct from the one in a policy
  openUsers,      \* how often the array in storage slot 0 lists each address
  balance,        \* the ether of the contract
  received,       \* the ether each address has been sent by the contract
  collected       \* history: all that was ever invested in each policy, uncut

vars == <<idOf, users, userCount, investorCount, openUsers, balance, received, collected>>

Init ==
  /\ idOf = [a \in Addresses |-> 0]
  /\ users = [id \in Ids |-> EmptyUser]
  /\ userCount = 0
  /\ investorCount = 0
  /\ openUsers = [a \in Addresses |-> 0]
  /\ balance \in Endowments
  /\ received = [a \in Addresses |-> 0]
  /\ collected = [id \in Ids |-> 0]

-----------------------------------------------------------------------------
(* Registering a policy and investing in it.                               *)

\* Mutant: a second policy of the same address does not take over its id.
addressedMutant(sender) == IF users[idOf[sender]].adr = sender THEN idOf[sender] ELSE userCount
\* Mutant: the id is taken after the counter has moved.
addressedPastMutant(sender) == userCount + 1
addressed(sender) == userCount

addUser(sender, q) ==
  /\ userCount < MaxUsers
  /\ idOf' = [idOf EXCEPT ![sender] = addressed(sender)]
  /\ users' = [users EXCEPT ![userCount] =
                 [@ EXCEPT !.adr = sender, !.maxPayout = q.maxPayout,
                           !.minPayout = q.minPayout, !.poolSize = 0,
                           !.initialPremium = q.initialPremium,
                           !.finalPremium = q.initialPremium, !.prob = q.prob,
                           !.status = "OPEN", !.departed = FALSE,
                           !.boarded = FALSE, !.investorCount = 0]]
  /\ userCount' = userCount + 1
  /\ UNCHANGED <<investorCount, openUsers, balance, received, collected>>

isMaxPayoutReached(id) == users[id].poolSize = users[id].maxPayout

\* Mutant: invest no longer asks whether the policy is open.
mayInvestMutant(id) ==
  ~ isMaxPayoutReached(id) /\ ~ users[id].departed /\ ~ users[id].boarded
mayInvest(id) ==
  /\ ~ isMaxPayoutReached(id)
  /\ users[id].status = "OPEN"
  /\ ~ users[id].departed
  /\ ~ users[id].boarded

\* Mutant: only the first investment of an address counts towards the pool.
investedMutant(u, sender, amount) ==
  [u EXCEPT !.investedAmountOf = [@ EXCEPT ![sender] = amount],
            !.investorAdrOf = [@ EXCEPT ![investorCount] = sender],
            !.investorCount = @ + 1,
            !.poolSize = IF u.investedAmountOf[sender] = 0 THEN (@ + amount) % Word ELSE @]
\* Mutant: the sum is not cut to the width of the word.
investedWideMutant(u, sender, amount) ==
  [u EXCEPT !.investedAmountOf = [@ EXCEPT ![sender] = amount],
            !.investorAdrOf = [@ EXCEPT ![investorCount] = sender],
            !.investorCount = @ + 1,
            !.poolSize = @ + amount]
\* Mutant: the maximum counts down to what the policy still can take.
investedDownMutant(u, sender, amount) ==
  [u EXCEPT !.investedAmountOf = [@ EXCEPT ![sender] = amount],
            !.investorAdrOf = [@ EXCEPT ![investorCount] = sender],
            !.investorCount = @ + 1,
            !.maxPayout = (@ - amount) % Word,
            !.poolSize = (@ + amount) % Word]
invested(u, sender, amount) ==
  [u EXCEPT !.investedAmountOf = [@ EXCEPT ![sender] = amount],
            !.investorAdrOf = [@ EXCEPT ![investorCount] = sender],
            !.investorCount = @ + 1,
            !.poolSize = (@ + amount) % Word]

invest(sender, adr, amount) ==
  LET id == idOf[adr] IN
  /\ mayInvest(id)
  /\ users[id].investorCount < MaxInvestments
  /\ users' = [users EXCEPT ![id] = invested(@, sender, amount)]
  /\ collected' = [collected EXCEPT ![id] = @ + amount]
  /\ UNCHANGED <<idOf, userCount, investorCount, openUsers, balance, received>>

-----------------------------------------------------------------------------
(* Settling a policy.                                                      *)

isMinRaised(u) == u.poolSize >= u.minPayout

priced(u) == ((u.prob * u.poolSize) % Word) \div 100

\* Mutant: a policy below its minimum keeps the status its caller asked for.
concludedMutant(u) == [u EXCEPT !.finalPremium = priced(u)]
concluded(u) ==
  [u EXCEPT !.status = IF isMinRaised(u) THEN @ ELSE "CANCELLED",
            !.finalPremium = priced(u)]

\* The local variable adr of payout: zero until a loop has run, then the last
\* investor slot read by it.
lastRead(u, looped) ==
  IF looped /\ u.investorCount > 0 THEN u.investorAdrOf[u.investorCount - 1] ELSE ZeroAddress

\* The branches payout enters.  Only the first one tests the policy being paid
\* out; the others test the policy that adr resolves to at that point.
branches(us, id) ==
  LET statusOf(looped) == us[idOf[lastRead(us[id], looped)]].status
      missed    == us[id].status = "MISSED"
      notMissed == statusOf(missed) = "NOTMISSED"
      cancelled == statusOf(missed \/ notMissed) = "CANCELLED"
      ticket    == statusOf(missed \/ notMissed \/ cancelled) = "TICKETCANCELLED"
  IN  {b \in policyStatus : \/ b = "MISSED" /\ missed
                            \/ b = "NOTMISSED" /\ notMissed
                            \/ b = "CANCELLED" /\ cancelled
                            \/ b = "TICKETCANCELLED" /\ ticket}

\* A share divides by the pool as soon as there is an investor to pay.
divides(u, bs) == u.investorCount > 0 /\ bs \ {"CANCELLED"} # {}

share(u, a) ==
  IF u.poolSize = 0 THEN 0
  ELSE ((u.finalPremium * u.investedAmountOf[a]) % Word) \div u.poolSize

\* Mutant: a cancelled policy keeps the premium.
toSeekerMutant(u, b) == IF b = "MISSED" THEN u.poolSize ELSE 0
toSeeker(u, b) ==
  CASE b = "MISSED"    -> u.poolSize
    [] b = "CANCELLED" -> u.initialPremium
    [] OTHER           -> 0

toInvestor(u, b, a) ==
  CASE b = "MISSED"    -> share(u, a)
    [] b = "CANCELLED" -> u.investedAmountOf[a]
    [] OTHER           -> (u.investedAmountOf[a] + share(u, a)) % Word

slotsOf(u, a) == {k \in Slots : k < u.investorCount /\ u.investorAdrOf[k] = a}

\* What address a is sent by branch b, if b is entered: its loop pays a once
\* for every slot that names it.
sent(u, bs, b, a) ==
  IF b \notin bs THEN 0
  ELSE (IF a = u.adr THEN toSeeker(u, b) ELSE 0)
         + Cardinality(slotsOf(u, a)) * toInvestor(u, b, a)

sentTo(u, bs, a) == sent(u, bs, "MISSED", a) + sent(u, bs, "NOTMISSED", a)
                      + sent(u, bs, "CANCELLED", a) + sent(u, bs, "TICKETCANCELLED", a)

\* payout(id), called with the storage us; transferEther sends each amount
\* from the balance of the contract or reverts everything.
payout(us, id) ==
  LET after == [us EXCEPT ![id] = concluded(@)]
      u     == after[id]
      bs    == branches(after, id)
      total == MapThenSumSet(LAMBDA a : sentTo(u, bs, a), Addresses)
  IN  /\ us[id].status # "OPEN"
      /\ divides(u, bs) => u.poolSize # 0
      /\ total \in 0 .. balance
      /\ balance' = balance - total
      /\ received' = [a \in Addresses |-> received[a] + sentTo(u, bs, a)]
      /\ users' = after
      /\ UNCHANGED <<idOf, userCount, investorCount, openUsers, collected>>

\* userBoarded also is the test that flightDeparted makes: it sets the flag of
\* the policy and returns true.
board(us, id) == [us EXCEPT ![id] = [@ EXCEPT !.boarded = TRUE]]

userBoardedReturns(us, id) == TRUE

depart(us, id) ==
  [board(us, id) EXCEPT ![id] = [@ EXCEPT !.departed = TRUE,
     !.status = IF userBoardedReturns(us, id) THEN "NOTMISSED" ELSE "MISSED"]]

userBoarded(adr) ==
  /\ users' = board(users, idOf[adr])
  /\ UNCHANGED <<idOf, userCount, investorCount, openUsers, balance, received, collected>>

flightDeparted(adr) == payout(depart(users, idOf[adr]), idOf[adr])

cancelPolicy(adr) ==
  payout([users EXCEPT ![idOf[adr]] = [@ EXCEPT !.status = "TICKETCANCELLED"]], idOf[adr])

cancelFlight(adr) ==
  payout([users EXCEPT ![idOf[adr]] = [@ EXCEPT !.status = "CANCELLED"]], idOf[adr])

-----------------------------------------------------------------------------
(* Reading the contract.                                                   *)

queryPoolSize(adr) == users[idOf[adr]].poolSize

\* What one run of the loop pushes for address a; it reads one id too many.
pushed(a) == Cardinality({id \in 0 .. userCount : users[id].status = "OPEN" /\ users[id].adr = a})

\* openUsers is an uninitialised storage pointer, so it names slot 0, where the
\* array stays when the function is called in a transaction.
listAllAvailablePolicies ==
  /\ openUsers' = [a \in Addresses |-> openUsers[a] + pushed(a)]
  /\ \A a \in Addresses : openUsers'[a] <= MaxListings
  /\ UNCHANGED <<idOf, users, userCount, investorCount, balance, received, collected>>

-----------------------------------------------------------------------------
Next ==
  \/ \E sender \in Accounts, q \in Quotes : addUser(sender, q)
  \/ \E sender \in Accounts, adr \in Accounts, amount \in Amounts : invest(sender, adr, amount)
  \/ \E adr \in Accounts : userBoarded(adr)
  \/ \E adr \in Accounts : flightDeparted(adr)
  \/ \E adr \in Accounts : cancelPolicy(adr)
  \/ \E adr \in Accounts : cancelFlight(adr)
  \/ listAllAvailablePolicies

Spec == Init /\ [][Next]_vars
=============================================================================
