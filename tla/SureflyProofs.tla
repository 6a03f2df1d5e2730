--------------------------- MODULE SureflyProofs ---------------------------
(***************************************************************************)
(* Proofs about the insurance contract, for every set of accounts, every   *)
(* width of the word and every bound.                                      *)
(***************************************************************************)
EXTENDS SureflyProperties, FoldLemmas

USE ContractAssumption

-----------------------------------------------------------------------------
(* Arithmetic and the records of a policy.                                 *)

\* A number cut to the word fits it, and its hundredth is a number.
LEMMA WordArithmetic ==
  ASSUME NEW x \in Nat
  PROVE  /\ x % Word \in UInt
         /\ x % Word \in Nat
         /\ (x % Word) \div 100 \in Nat
  <1>1. x % Word \in 0 .. (Word - 1)
    BY SMT
  <1>2. \A y \in Nat : y \div 100 \in Nat
    BY SMT
  <1>. QED
    BY <1>1, <1>2 DEF UInt

\* The width of the word is positive, so a uint256 is a natural number.
LEMMA UIntIsNat == UInt \subseteq Nat
  BY DEF UInt

\* A product of natural numbers is one.
LEMMA ProductIsNat == \A x \in Nat, y \in Nat : x * y \in Nat
  BY SMT

\* The final premium of payout is a natural number.
LEMMA PricedType ==
  ASSUME NEW u \in user
  PROVE  priced(u) \in Nat
  <1>1. u.prob \in Nat /\ u.poolSize \in Nat
    BY UIntIsNat DEF user
  <1>2. u.prob * u.poolSize \in Nat
    BY <1>1, ProductIsNat
  <1>. QED
    BY <1>2, WordArithmetic DEF priced

\* Concluding a policy only touches its status and its final premium.
LEMMA ConcludedType ==
  ASSUME NEW u \in user
  PROVE  /\ concluded(u) \in user
         /\ concluded(u).status = IF isMinRaised(u) THEN u.status ELSE "CANCELLED"
         /\ concluded(u).finalPremium = priced(u)
         /\ concluded(u).adr = u.adr
         /\ concluded(u).maxPayout = u.maxPayout
         /\ concluded(u).minPayout = u.minPayout
         /\ concluded(u).poolSize = u.poolSize
         /\ concluded(u).initialPremium = u.initialPremium
         /\ concluded(u).prob = u.prob
         /\ concluded(u).departed = u.departed
         /\ concluded(u).boarded = u.boarded
         /\ concluded(u).investorCount = u.investorCount
         /\ concluded(u).investedAmountOf = u.investedAmountOf
         /\ concluded(u).investorAdrOf = u.investorAdrOf
  <1>1. priced(u) \in Nat
    BY PricedType
  <1>. QED
    BY <1>1 DEF concluded, user, policyStatus

\* What an investor is sent for one slot is a natural number.
LEMMA ToInvestorType ==
  ASSUME NEW u \in user, NEW b, NEW a \in Addresses
  PROVE  toInvestor(u, b, a) \in Nat
  <1>1. u.poolSize \in Nat /\ u.finalPremium \in Nat /\ u.investedAmountOf[a] \in Nat
    BY UIntIsNat DEF user
  <1>2. share(u, a) \in Nat
    <2>1. (u.finalPremium * u.investedAmountOf[a]) % Word \in Nat
      BY <1>1, ProductIsNat, WordArithmetic
    <2>2. \A x \in Nat, y \in Nat : y # 0 => x \div y \in Nat
      BY SMT
    <2>. QED
      BY <1>1, <2>1, <2>2 DEF share
  <1>. QED
    BY <1>1, <1>2, WordArithmetic DEF toInvestor

\* What a branch sends an address is a natural number.
LEMMA SentType ==
  ASSUME NEW u \in user, NEW bs, NEW b, NEW a \in Addresses
  PROVE  sent(u, bs, b, a) \in Nat
  <1>. DEFINE slots == Cardinality(slotsOf(u, a))
  <1>1. slots \in Nat
    <2>1. IsFiniteSet(Slots)
      BY FS_Interval DEF Slots
    <2>2. IsFiniteSet(slotsOf(u, a))
      BY <2>1, FS_Subset DEF slotsOf
    <2>. QED
      BY <2>2, FS_CardinalityType
  <1>2. toSeeker(u, b) \in Nat
    BY UIntIsNat DEF toSeeker, user
  <1>3. slots * toInvestor(u, b, a) \in Nat
    BY <1>1, ToInvestorType, ProductIsNat
  <1>. QED
    BY <1>2, <1>3 DEF sent

\* So is what all branches send it.
LEMMA SentToType ==
  ASSUME NEW u \in user, NEW bs, NEW a \in Addresses
  PROVE  sentTo(u, bs, a) \in Nat
  BY SentType DEF sentTo

-----------------------------------------------------------------------------
(* The inductive invariant.                                                *)

\* No policy is ever MISSED, because flightDeparted boards the seeker first.
NeverMissed == \A id \in Ids : users[id].status # "MISSED"

\* Before the first registration id 0 can be settled, never invested in.
NothingRegistered ==
  userCount = 0 =>
    /\ users[0].adr = ZeroAddress
    /\ users[0].maxPayout = 0 /\ users[0].minPayout = 0 /\ users[0].poolSize = 0

\* What is known of a registered policy.
SoundPolicy(u) ==
  /\ u.adr \in Accounts
  /\ u.poolSize < u.minPayout => u.status \in {"OPEN", "CANCELLED"}
  /\ u.departed => u.boarded /\ u.status # "OPEN"
  /\ u.finalPremium = IF u.status = "OPEN" THEN u.initialPremium ELSE priced(u)

IInv ==
  /\ TypeOK
  /\ investorCount = 0
  /\ NeverMissed
  /\ NothingRegistered
  /\ LatestPolicyWins
  /\ UnregisteredUntouched
  /\ \A id \in Registered : SoundPolicy(users[id])

LEMMA EmptyUserType == EmptyUser \in user
  <1>1. 0 \in UInt
    BY DEF UInt
  <1>. QED
    BY <1>1 DEF EmptyUser, user, policyStatus, Addresses, Slots

LEMMA InitIInv == Init => IInv
  <1>. SUFFICES ASSUME Init PROVE IInv
    OBVIOUS
  <1>1. TypeOK
    <2>1. 0 \in UInt /\ 0 \in Ids
      BY DEF UInt, Ids
    <2>2. users \in [Ids -> user]
      BY EmptyUserType DEF Init
    <2>. QED
      BY <2>1, <2>2 DEF Init, TypeOK, Addresses
  <1>2. Registered = {}
    BY DEF Init, Registered
  <1>3. 0 \in Ids
    BY DEF Ids
  <1>. QED
    BY <1>1, <1>2, <1>3
    DEF Init, IInv, NeverMissed, NothingRegistered, LatestPolicyWins, UnregisteredUntouched, EmptyUser

\* An address in use resolves to an id, and a trigger to an existing policy.
LEMMA Resolves ==
  ASSUME TypeOK, NEW adr \in Accounts
  PROVE  idOf[adr] \in Ids /\ users[idOf[adr]] \in user
  BY DEF TypeOK, Addresses

\* What a trigger does to the policy it settles, before payout concludes it.
Triggered(u, v) ==
  /\ v \in user
  /\ v.status \in {"NOTMISSED", "CANCELLED", "TICKETCANCELLED"}
  /\ v.adr = u.adr
  /\ v.maxPayout = u.maxPayout /\ v.minPayout = u.minPayout
  /\ v.poolSize = u.poolSize
  /\ v.initialPremium = u.initialPremium /\ v.prob = u.prob
  /\ v.investorCount = u.investorCount
  /\ v.investedAmountOf = u.investedAmountOf /\ v.investorAdrOf = u.investorAdrOf
  /\ v.departed => v.boarded \/ (u.departed /\ ~ u.boarded)

\* What payout sends for policy id, which it has concluded as u.
Distributes(id, u) ==
  LET bs == branches([users EXCEPT ![id] = u], id) IN
  /\ divides(u, bs) => u.poolSize # 0
  /\ received' = [a \in Addresses |-> received[a] + sentTo(u, bs, a)]

Settles(id, v) ==
  /\ Triggered(users[id], v)
  /\ Distributes(id, concluded(v))
  /\ users' = [users EXCEPT ![id] = concluded(v)]
  /\ balance' \in Nat
  /\ received' \in [Addresses -> Nat]
  /\ UNCHANGED <<idOf, userCount, investorCount, openUsers, collected>>

\* A payout concludes the policy it is called for, and sends no more ether
\* than the contract has.
LEMMA PayoutSettles ==
  ASSUME TypeOK, NEW id \in Ids, NEW us, NEW v \in user,
         us = [users EXCEPT ![id] = v],
         Triggered(users[id], v),
         payout(us, id)
  PROVE  Settles(id, v)
  <1>1. us[id] = v
    BY DEF TypeOK
  <1>2. [us EXCEPT ![id] = concluded(@)] = [users EXCEPT ![id] = concluded(v)]
    BY <1>1 DEF TypeOK
  <1>. DEFINE after == [us EXCEPT ![id] = concluded(@)]
              u     == after[id]
              bs    == branches(after, id)
  <1>3. users' = after /\ UNCHANGED <<idOf, userCount, investorCount, openUsers, collected>>
    BY DEF payout
  <1>4. u \in user
    BY <1>1, ConcludedType DEF TypeOK
  <1>5. received' \in [Addresses -> Nat]
    <2>1. received' = [a \in Addresses |-> received[a] + sentTo(u, bs, a)]
      BY DEF payout
    <2>2. \A a \in Addresses : sentTo(u, bs, a) \in Nat
      BY <1>4, SentToType
    <2>3. \A a \in Addresses : received[a] + sentTo(u, bs, a) \in Nat
      <3>. HIDE DEF u, bs
      <3>. QED
        BY <2>2 DEF TypeOK
    <2>. HIDE DEF u, bs
    <2>. QED
      BY <2>1, <2>3
  <1>6. balance' \in Nat
    <2>1. \E total \in 0 .. balance : balance' = balance - total
      BY Zenon DEF payout
    <2>. QED
      BY <2>1 DEF TypeOK
  <1>7. Distributes(id, concluded(v))
    <2>1. after = [users EXCEPT ![id] = concluded(v)] /\ u = concluded(v)
      BY <1>1, <1>2 DEF TypeOK
    <2>2. /\ divides(u, bs) => u.poolSize # 0
          /\ received' = [a \in Addresses |-> received[a] + sentTo(u, bs, a)]
      BY DEF payout
    <2>. HIDE DEF after, u
    <2>. QED
      BY <2>1, <2>2 DEF Distributes
  <1>. QED
    BY <1>2, <1>3, <1>5, <1>6, <1>7 DEF Settles

\* Each trigger settles the policy its address resolves to.
LEMMA TriggersSettle ==
  ASSUME TypeOK, NEW adr \in Accounts,
         flightDeparted(adr) \/ cancelPolicy(adr) \/ cancelFlight(adr)
  PROVE  \E v \in user : Settles(idOf[adr], v)
  <1>. DEFINE id == idOf[adr]
  <1>1. id \in Ids /\ users[id] \in user
    BY Resolves
  <1>2. CASE flightDeparted(adr)
    <2>. DEFINE v == [users[id] EXCEPT !.boarded = TRUE, !.departed = TRUE, !.status = "NOTMISSED"]
    <2>1. v \in user /\ Triggered(users[id], v)
      BY <1>1 DEF Triggered, user, policyStatus
    <2>2. board(users, id)[id] = [users[id] EXCEPT !.boarded = TRUE]
      BY <1>1 DEF board, TypeOK
    <2>3. depart(users, id) = [users EXCEPT ![id] = v]
      <3>1. depart(users, id)
              = [board(users, id) EXCEPT ![id] =
                  [[users[id] EXCEPT !.boarded = TRUE] EXCEPT !.departed = TRUE, !.status = "NOTMISSED"]]
        BY <2>2 DEF depart, userBoardedReturns
      <3>. QED
        BY <1>1, <3>1 DEF board, TypeOK, user
    <2>4. payout(depart(users, id), id)
      BY <1>2 DEF flightDeparted
    <2>5. Settles(id, v)
      <3>. HIDE DEF v, id
      <3>. QED
        BY <1>1, <2>1, <2>3, <2>4, PayoutSettles
    <2>. QED
      BY <2>1, <2>5
  <1>3. CASE cancelPolicy(adr)
    <2>. DEFINE v == [users[id] EXCEPT !.status = "TICKETCANCELLED"]
    <2>1. v \in user /\ Triggered(users[id], v)
      BY <1>1 DEF Triggered, user, policyStatus
    <2>2. payout([users EXCEPT ![id] = v], id)
      BY <1>3 DEF cancelPolicy
    <2>3. Settles(id, v)
      <3>. HIDE DEF v, id
      <3>. QED
        BY <1>1, <2>1, <2>2, PayoutSettles
    <2>. QED
      BY <2>1, <2>3
  <1>4. CASE cancelFlight(adr)
    <2>. DEFINE v == [users[id] EXCEPT !.status = "CANCELLED"]
    <2>1. v \in user /\ Triggered(users[id], v)
      BY <1>1 DEF Triggered, user, policyStatus
    <2>2. payout([users EXCEPT ![id] = v], id)
      BY <1>4 DEF cancelFlight
    <2>3. Settles(id, v)
      <3>. HIDE DEF v, id
      <3>. QED
        BY <1>1, <2>1, <2>2, PayoutSettles
    <2>. QED
      BY <2>1, <2>3
  <1>. QED
    BY <1>2, <1>3, <1>4

-----------------------------------------------------------------------------
(* Every operation preserves the invariant.                                *)

\* A step that writes one policy, keeps who owns it and what it must raise,
\* and registers nobody, preserves whatever concerns addresses.
Rewrites(id, v) ==
  /\ v \in user
  /\ v.adr = users[id].adr
  /\ v.maxPayout = users[id].maxPayout /\ v.minPayout = users[id].minPayout
  /\ users' = [users EXCEPT ![id] = v]
  /\ UNCHANGED <<idOf, userCount, investorCount>>

LEMMA RewriteKeepsAddresses ==
  ASSUME IInv, NEW id \in Ids, NEW v, Rewrites(id, v)
  PROVE  /\ LatestPolicyWins'
         /\ id < userCount \/ id = 0 => UnregisteredUntouched'
         /\ id < userCount \/ v.poolSize = 0 => NothingRegistered'
  <1>. USE DEF IInv, TypeOK, Rewrites
  <1>1. \A k \in Ids : users'[k].adr = users[k].adr
    OBVIOUS
  <1>2. Registered' = Registered /\ Registered \subseteq Ids
    BY DEF Registered, Ids
  <1>3. LatestPolicyWins'
    BY <1>1, <1>2 DEF LatestPolicyWins
  <1>4. ASSUME id < userCount \/ id = 0 PROVE UnregisteredUntouched'
    BY <1>4 DEF UnregisteredUntouched, Ids
  <1>5. ASSUME id < userCount \/ v.poolSize = 0 PROVE NothingRegistered'
    BY <1>5 DEF NothingRegistered, Ids
  <1>. QED
    BY <1>3, <1>4, <1>5

\* An address resolves to a registered policy, or to id 0.
LEMMA ResolvesToRegistered ==
  ASSUME IInv, NEW adr \in Accounts
  PROVE  idOf[adr] < userCount \/ idOf[adr] = 0
  <1>. DEFINE own == {id \in Registered : users[id].adr = adr}
  <1>1. IF own = {} THEN idOf[adr] = 0 ELSE idOf[adr] \in own
    BY DEF IInv, LatestPolicyWins, Addresses
  <1>2. \A id \in own : id < userCount
    BY DEF Registered, IInv, TypeOK, Ids
  <1>. QED
    BY <1>1, <1>2

LEMMA AddUserIInv ==
  ASSUME IInv, NEW sender \in Accounts, NEW q \in Quotes, addUser(sender, q)
  PROVE  IInv'
  <1>. DEFINE old == users[userCount]
              new == [old EXCEPT !.adr = sender, !.maxPayout = q.maxPayout,
                           !.minPayout = q.minPayout, !.poolSize = 0,
                           !.initialPremium = q.initialPremium,
                           !.finalPremium = q.initialPremium, !.prob = q.prob,
                           !.status = "OPEN", !.departed = FALSE,
                           !.boarded = FALSE, !.investorCount = 0]
  <1>0. userCount \in Ids /\ userCount + 1 \in Ids /\ userCount < MaxUsers /\ Ids \subseteq Nat
    BY DEF IInv, TypeOK, addUser, Ids
  <1>1. q.maxPayout \in UInt /\ q.minPayout \in UInt /\ q.initialPremium \in UInt /\ q.prob \in UInt
    BY DEF Quote
  <1>2. new \in user
    <2>1. old \in user
      BY <1>0 DEF IInv, TypeOK
    <2>2. 0 \in UInt /\ q.initialPremium \in Nat /\ 0 \in 0 .. MaxInvestments
      BY <1>1, UIntIsNat DEF UInt
    <2>. QED
      BY <1>1, <2>1, <2>2 DEF user, policyStatus, Addresses
  <1>3. /\ new.adr = sender /\ new.status = "OPEN" /\ new.departed = FALSE
        /\ new.finalPremium = new.initialPremium
    BY <1>0 DEF IInv, TypeOK, user
  <1>4. /\ users' = [users EXCEPT ![userCount] = new]
        /\ idOf' = [idOf EXCEPT ![sender] = userCount]
        /\ userCount' = userCount + 1
        /\ UNCHANGED <<investorCount, openUsers, balance, received, collected>>
    BY DEF addUser, addressed
  <1>. HIDE DEF new
  <1>5. TypeOK'
    BY <1>0, <1>2, <1>4 DEF IInv, TypeOK, Addresses
  <1>6. Registered' = Registered \cup {userCount} /\ userCount \notin Registered
    BY <1>0, <1>4 DEF Registered
  <1>7. \A id \in Registered : users'[id] = users[id]
    BY <1>0, <1>4, <1>6 DEF IInv, TypeOK, Registered, Ids
  <1>8. users'[userCount] = new
    BY <1>0, <1>4 DEF IInv, TypeOK
  <1>9. LatestPolicyWins'
    <2>. SUFFICES ASSUME NEW a \in Addresses
         PROVE  LET own == {id \in Registered' : users'[id].adr = a} IN
                IF own = {} THEN idOf'[a] = 0
                ELSE idOf'[a] \in own /\ \A id \in own : id <= idOf'[a]
      BY DEF LatestPolicyWins
    <2>1. CASE a = sender
      <3>1. idOf'[a] = userCount
        BY <2>1, <1>4 DEF IInv, TypeOK
      <3>2. \A id \in Registered' : id <= userCount
        BY <1>0, <1>4 DEF Registered
      <3>. QED
        BY <2>1, <3>1, <3>2, <1>3, <1>6, <1>8
    <2>2. CASE a # sender
      <3>1. idOf'[a] = idOf[a]
        BY <2>2, <1>4 DEF IInv, TypeOK
      <3>2. {id \in Registered' : users'[id].adr = a} = {id \in Registered : users[id].adr = a}
        BY <2>2, <1>3, <1>6, <1>7, <1>8
      <3>. QED
        BY <3>1, <3>2 DEF IInv, LatestPolicyWins
    <2>. QED
      BY <2>1, <2>2
  <1>10. UnregisteredUntouched'
    BY <1>0, <1>4 DEF IInv, TypeOK, UnregisteredUntouched, Ids
  <1>11. NothingRegistered'
    BY <1>0, <1>4 DEF NothingRegistered
  <1>12. NeverMissed'
    BY <1>0, <1>3, <1>4 DEF IInv, TypeOK, NeverMissed
  <1>13. \A id \in Registered' : SoundPolicy(users'[id])
    BY <1>3, <1>6, <1>7, <1>8 DEF IInv, SoundPolicy
  <1>14. investorCount' = 0
    BY <1>4 DEF IInv
  <1>. QED
    BY <1>5, <1>9, <1>10, <1>11, <1>12, <1>13, <1>14 DEF IInv, SoundPolicy

LEMMA SettlesIInv ==
  ASSUME IInv, NEW adr \in Accounts, NEW v \in user, Settles(idOf[adr], v)
  PROVE  IInv'
  <1>. DEFINE id == idOf[adr]
              w  == concluded(v)
  <1>1. id \in Ids /\ users[id] \in user /\ (id < userCount \/ id = 0)
    BY Resolves, ResolvesToRegistered DEF IInv
  <1>2. /\ Triggered(users[id], v)
        /\ users' = [users EXCEPT ![id] = w]
        /\ balance' \in Nat /\ received' \in [Addresses -> Nat]
        /\ UNCHANGED <<idOf, userCount, investorCount, openUsers, collected>>
    BY DEF Settles
  <1>3. /\ w \in user
        /\ w.status = IF isMinRaised(v) THEN v.status ELSE "CANCELLED"
        /\ w.finalPremium = priced(v)
        /\ w.adr = v.adr /\ w.maxPayout = v.maxPayout /\ w.minPayout = v.minPayout
        /\ w.poolSize = v.poolSize /\ w.prob = v.prob
        /\ w.departed = v.departed /\ w.boarded = v.boarded
    BY ConcludedType
  <1>. HIDE DEF id, w
  <1>4. Rewrites(id, w)
    BY <1>2, <1>3 DEF Rewrites, Triggered
  <1>5. TypeOK'
    BY <1>1, <1>2, <1>3 DEF IInv, TypeOK
  <1>6. NeverMissed'
    BY <1>1, <1>2, <1>3 DEF IInv, TypeOK, NeverMissed, Triggered
  <1>7. LatestPolicyWins' /\ UnregisteredUntouched'
    BY <1>1, <1>4, RewriteKeepsAddresses
  <1>8. NothingRegistered'
    <2>1. CASE id < userCount
      BY <2>1, <1>1, <1>4, RewriteKeepsAddresses
    <2>2. CASE ~(id < userCount)
      <3>1. id = 0 /\ userCount = 0
        BY <2>2, <1>1 DEF IInv, TypeOK, Ids
      <3>2. w.poolSize = 0
        BY <3>1, <1>2, <1>3 DEF IInv, NothingRegistered, Triggered
      <3>. QED
        BY <3>2, <1>1, <1>4, RewriteKeepsAddresses
    <2>. QED
      BY <2>1, <2>2
  <1>9. ASSUME NEW k \in Registered' PROVE SoundPolicy(users'[k])
    <2>0. k \in Registered /\ k \in Ids
      BY <1>2 DEF Registered, IInv, TypeOK, Ids
    <2>1. CASE k # id
      BY <2>0, <2>1, <1>1, <1>2 DEF IInv, TypeOK
    <2>2. CASE k = id
      <3>1. users'[k] = w
        BY <2>0, <2>2, <1>1, <1>2 DEF IInv, TypeOK
      <3>2. SoundPolicy(users[id])
        BY <2>0, <2>2 DEF IInv
      <3>3. priced(w) = priced(v)
        BY <1>3 DEF priced
      <3>4. isMinRaised(v) <=> v.poolSize >= v.minPayout
        BY DEF isMinRaised
      <3>5. v.poolSize \in Nat /\ v.minPayout \in Nat
        BY UIntIsNat DEF user
      <3>6. w.adr \in Accounts /\ (w.departed => w.boarded) /\ w.status # "OPEN"
        BY <3>2, <1>2, <1>3 DEF SoundPolicy, Triggered
      <3>7. w.poolSize < w.minPayout => w.status = "CANCELLED"
        BY <3>4, <3>5, <1>3
      <3>. QED
        BY <3>1, <3>3, <3>6, <3>7, <1>3 DEF SoundPolicy
    <2>. QED
      BY <2>1, <2>2
  <1>10. investorCount' = 0
    BY <1>2 DEF IInv
  <1>. QED
    BY <1>5, <1>6, <1>7, <1>8, <1>9, <1>10 DEF IInv, SoundPolicy

LEMMA UserBoardedIInv ==
  ASSUME IInv, NEW adr \in Accounts, userBoarded(adr)
  PROVE  IInv'
  <1>. DEFINE id == idOf[adr]
              w  == [users[id] EXCEPT !.boarded = TRUE]
  <1>1. id \in Ids /\ users[id] \in user /\ (id < userCount \/ id = 0)
    BY Resolves, ResolvesToRegistered DEF IInv
  <1>2. /\ users' = [users EXCEPT ![id] = w]
        /\ UNCHANGED <<idOf, userCount, investorCount, openUsers, balance, received, collected>>
    BY DEF userBoarded, board
  <1>3. /\ w \in user /\ w.boarded = TRUE
        /\ w.adr = users[id].adr /\ w.maxPayout = users[id].maxPayout
        /\ w.minPayout = users[id].minPayout /\ w.poolSize = users[id].poolSize
        /\ w.status = users[id].status /\ w.departed = users[id].departed
        /\ w.initialPremium = users[id].initialPremium
        /\ w.finalPremium = users[id].finalPremium /\ w.prob = users[id].prob
    BY <1>1 DEF user
  <1>. HIDE DEF id, w
  <1>4. Rewrites(id, w)
    BY <1>2, <1>3 DEF Rewrites
  <1>5. TypeOK' /\ NeverMissed' /\ investorCount' = 0
    BY <1>1, <1>2, <1>3 DEF IInv, TypeOK, NeverMissed
  <1>6. LatestPolicyWins' /\ UnregisteredUntouched'
    BY <1>1, <1>4, RewriteKeepsAddresses
  <1>7. NothingRegistered'
    BY <1>1, <1>2, <1>3 DEF IInv, TypeOK, NothingRegistered, Ids
  <1>8. ASSUME NEW k \in Registered' PROVE SoundPolicy(users'[k])
    <2>1. k \in Registered /\ k \in Ids
      BY <1>2 DEF Registered, IInv, TypeOK, Ids
    <2>2. priced(w) = priced(users[id])
      BY <1>3 DEF priced
    <2>3. k = id => SoundPolicy(w)
      BY <2>1, <2>2, <1>3 DEF IInv, SoundPolicy
    <2>. QED
      BY <2>1, <2>3, <1>1, <1>2 DEF IInv, TypeOK
  <1>. QED
    BY <1>5, <1>6, <1>7, <1>8 DEF IInv, SoundPolicy

LEMMA InvestIInv ==
  ASSUME IInv, NEW sender \in Accounts, NEW adr \in Accounts, NEW amount \in Amounts,
         invest(sender, adr, amount)
  PROVE  IInv'
  <1>. DEFINE id == idOf[adr]
              w  == invested(users[id], sender, amount)
  <1>1. id \in Ids /\ users[id] \in user /\ (id < userCount \/ id = 0)
    BY Resolves, ResolvesToRegistered DEF IInv
  <1>2. /\ users' = [users EXCEPT ![id] = w]
        /\ mayInvest(id) /\ users[id].investorCount < MaxInvestments
        /\ collected' = [collected EXCEPT ![id] = @ + amount]
        /\ UNCHANGED <<idOf, userCount, investorCount, openUsers, balance, received>>
    BY DEF invest
  <1>3. users[id].poolSize # users[id].maxPayout /\ users[id].status = "OPEN"
    BY <1>2 DEF mayInvest, isMaxPayoutReached
  <1>4. id < userCount
    BY <1>1, <1>3 DEF IInv, NothingRegistered, TypeOK, Ids
  <1>5. /\ w \in user
        /\ w.adr = users[id].adr /\ w.maxPayout = users[id].maxPayout
        /\ w.minPayout = users[id].minPayout
        /\ w.status = "OPEN" /\ w.departed = users[id].departed
        /\ w.boarded = users[id].boarded
        /\ w.initialPremium = users[id].initialPremium
        /\ w.finalPremium = users[id].finalPremium
    <2>1. (users[id].poolSize + amount) % Word \in UInt
      <3>1. amount \in Nat
        BY UIntIsNat
      <3>2. users[id].poolSize \in Nat
        BY <1>1, UIntIsNat DEF user
      <3>3. users[id].poolSize + amount \in Nat
        BY <3>1, <3>2
      <3>. QED
        BY <3>3, WordArithmetic
    <2>2. users[id].investorCount + 1 \in 0 .. MaxInvestments
      BY <1>1, <1>2 DEF user
    <2>3. [users[id].investedAmountOf EXCEPT ![sender] = amount] \in [Addresses -> UInt]
      BY <1>1 DEF user, Addresses
    <2>4. [users[id].investorAdrOf EXCEPT ![investorCount] = sender] \in [Slots -> Addresses]
      BY <1>1 DEF user, Addresses
    <2>. DEFINE ledger == [users[id].investedAmountOf EXCEPT ![sender] = amount]
                slots  == [users[id].investorAdrOf EXCEPT ![investorCount] = sender]
    <2>5. w = [users[id] EXCEPT !.investedAmountOf = ledger, !.investorAdrOf = slots,
                 !.investorCount = users[id].investorCount + 1,
                 !.poolSize = (users[id].poolSize + amount) % Word]
      BY <1>1 DEF invested, user
    <2>. HIDE DEF ledger, slots, w
    <2>. QED
      BY <2>1, <2>2, <2>3, <2>4, <2>5, <1>1, <1>3 DEF user, ledger, slots
  <1>. HIDE DEF id, w
  <1>6. Rewrites(id, w)
    BY <1>2, <1>5 DEF Rewrites
  <1>7. TypeOK' /\ NeverMissed' /\ investorCount' = 0
    <2>1. collected' \in [Ids -> Nat]
      <3>1. amount \in Nat /\ collected \in [Ids -> Nat]
        BY UIntIsNat DEF IInv, TypeOK
      <3>2. collected[id] + amount \in Nat
        BY <3>1, <1>1
      <3>. QED
        BY <3>1, <3>2, <1>2
    <2>. QED
      BY <2>1, <1>1, <1>2, <1>5 DEF IInv, TypeOK, NeverMissed
  <1>8. LatestPolicyWins' /\ UnregisteredUntouched' /\ NothingRegistered'
    BY <1>1, <1>4, <1>6, RewriteKeepsAddresses
  <1>9. ASSUME NEW k \in Registered' PROVE SoundPolicy(users'[k])
    <2>1. k \in Registered /\ k \in Ids
      BY <1>2 DEF Registered, IInv, TypeOK, Ids
    <2>2. k = id => SoundPolicy(w)
      BY <2>1, <1>3, <1>5 DEF IInv, SoundPolicy
    <2>. QED
      BY <2>1, <2>2, <1>1, <1>2 DEF IInv, TypeOK
  <1>. QED
    BY <1>7, <1>8, <1>9 DEF IInv, SoundPolicy

\* One run of the listing names each address a number of times.
LEMMA PushedType ==
  ASSUME TypeOK, NEW a
  PROVE  pushed(a) \in Nat
  <1>. DEFINE named == {id \in 0 .. userCount : users[id].status = "OPEN" /\ users[id].adr = a}
  <1>1. IsFiniteSet(0 .. userCount)
    BY FS_Interval DEF TypeOK, Ids
  <1>2. IsFiniteSet(named)
    BY <1>1, FS_Subset
  <1>. QED
    BY <1>2, FS_CardinalityType DEF pushed

LEMMA ListingIInv ==
  ASSUME IInv, listAllAvailablePolicies
  PROVE  IInv'
  <1>1. \A a \in Addresses : pushed(a) \in Nat
    BY PushedType DEF IInv
  <1>2. openUsers' \in [Addresses -> Nat]
    BY <1>1 DEF listAllAvailablePolicies, IInv, TypeOK
  <1>3. UNCHANGED <<idOf, users, userCount, investorCount, balance, received, collected>>
    BY DEF listAllAvailablePolicies
  <1>. QED
    BY <1>2, <1>3
    DEF IInv, TypeOK, NeverMissed, NothingRegistered, LatestPolicyWins,
        UnregisteredUntouched, Registered, SoundPolicy, priced

-----------------------------------------------------------------------------
(* The theorems about states.                                              *)

LEMMA NextIInv == IInv /\ [Next]_vars => IInv'
  <1>. SUFFICES ASSUME IInv, [Next]_vars PROVE IInv'
    OBVIOUS
  <1>1. ASSUME NEW sender \in Accounts, NEW q \in Quotes, addUser(sender, q) PROVE IInv'
    BY <1>1, AddUserIInv
  <1>2. ASSUME NEW sender \in Accounts, NEW adr \in Accounts, NEW amount \in Amounts,
               invest(sender, adr, amount)
        PROVE  IInv'
    BY <1>2, InvestIInv
  <1>3. ASSUME NEW adr \in Accounts, userBoarded(adr) PROVE IInv'
    BY <1>3, UserBoardedIInv
  <1>4. ASSUME NEW adr \in Accounts,
               flightDeparted(adr) \/ cancelPolicy(adr) \/ cancelFlight(adr)
        PROVE  IInv'
    <2>1. PICK v \in user : Settles(idOf[adr], v)
      BY <1>4, TriggersSettle DEF IInv
    <2>. QED
      BY <2>1, SettlesIInv
  <1>5. ASSUME listAllAvailablePolicies PROVE IInv'
    BY <1>5, ListingIInv
  <1>6. ASSUME UNCHANGED vars PROVE IInv'
    BY <1>6 DEF vars, IInv, TypeOK, NeverMissed, NothingRegistered, LatestPolicyWins,
                UnregisteredUntouched, Registered, SoundPolicy, priced
  <1>. QED
    BY <1>1, <1>2, <1>3, <1>4, <1>5, <1>6 DEF Next

LEMMA SpecIInv == Spec => []IInv
  <1>1. Init => IInv
    BY InitIInv
  <1>2. IInv /\ [Next]_vars => IInv'
    BY NextIInv
  <1>. QED
    BY <1>1, <1>2, PTL DEF Spec

\* Every variable of the contract stays within its type: no id, amount or
\* counter leaves its range, and no payment is negative.
THEOREM TypeCorrect == Spec => []TypeOK
  <1>1. IInv => TypeOK
    BY DEF IInv
  <1>. QED
    BY <1>1, SpecIInv, PTL

\* An address always resolves to the last policy it registered, and one that
\* has registered none to id 0.
THEOREM AddressingCorrect == Spec => []LatestPolicyWins
  <1>1. IInv => LatestPolicyWins
    BY DEF IInv
  <1>. QED
    BY <1>1, SpecIInv, PTL

\* No operation writes a policy past id 0 before it is registered, whoever
\* calls it.
THEOREM UnregisteredStaysEmpty == Spec => []UnregisteredUntouched
  <1>1. IInv => UnregisteredUntouched
    BY DEF IInv
  <1>. QED
    BY <1>1, SpecIInv, PTL

\* A policy below its minimum only ever settles as CANCELLED, whichever
\* trigger settles it and however often.
THEOREM BelowMinimumIsCancelled == Spec => []MinimumNotMetMeansCancelled
  <1>1. IInv => MinimumNotMetMeansCancelled
    BY DEF IInv, MinimumNotMetMeansCancelled, SoundPolicy
  <1>. QED
    BY <1>1, SpecIInv, PTL

\* The final premium of a settled policy is that of the pool it still has.
THEOREM PremiumIsOfThePool == Spec => []PremiumFollowsPool
  <1>1. IInv => PremiumFollowsPool
    BY DEF IInv, PremiumFollowsPool, SoundPolicy, priced
  <1>. QED
    BY <1>1, SpecIInv, PTL

-----------------------------------------------------------------------------
(* The theorems about steps.                                               *)

\* What a step may do to a registered policy u that becomes v.
SameTerms(u, v) ==
  /\ v.adr = u.adr /\ v.maxPayout = u.maxPayout /\ v.minPayout = u.minPayout
  /\ v.initialPremium = u.initialPremium /\ v.prob = u.prob

SameLedger(u, v) ==
  /\ v.status # "OPEN" /\ v.poolSize = u.poolSize
  /\ v.investorCount = u.investorCount /\ v.investedAmountOf = u.investedAmountOf

Evolves(u, v) == SameTerms(u, v) /\ (u.status # "OPEN" => SameLedger(u, v))

LEMMA NextEvolves ==
  ASSUME IInv, [Next]_vars
  PROVE  \A id \in Registered : Evolves(users[id], users'[id])
  <1>. SUFFICES ASSUME NEW k \in Registered PROVE Evolves(users[k], users'[k])
    OBVIOUS
  <1>0. k \in Ids /\ k < userCount /\ users[k] \in user
    BY DEF IInv, TypeOK, Registered, Ids
  <1>. USE DEF Evolves, SameTerms, SameLedger
  <1>1. ASSUME NEW sender \in Accounts, NEW q \in Quotes, addUser(sender, q)
        PROVE  Evolves(users[k], users'[k])
    <2>1. \E new : users' = [users EXCEPT ![userCount] = new]
      BY <1>1 DEF addUser
    <2>2. users'[k] = users[k]
      BY <1>0, <2>1 DEF IInv, TypeOK, Ids
    <2>3. users[k].status # "OPEN" => SameLedger(users[k], users[k])
      OBVIOUS
    <2>. QED
      BY <2>2, <2>3
  <1>2. ASSUME NEW sender \in Accounts, NEW adr \in Accounts, NEW amount \in Amounts,
               invest(sender, adr, amount)
        PROVE  Evolves(users[k], users'[k])
    <2>1. idOf[adr] \in Ids
      BY Resolves DEF IInv
    <2>2. users[idOf[adr]].status = "OPEN"
      BY <1>2 DEF invest, mayInvest
    <2>3. CASE k # idOf[adr]
      BY <2>1, <2>3, <1>0, <1>2 DEF invest, IInv, TypeOK
    <2>4. CASE k = idOf[adr]
      <3>1. users'[k] = invested(users[k], sender, amount)
        BY <2>4, <1>0, <1>2 DEF invest, IInv, TypeOK
      <3>. QED
        BY <3>1, <2>2, <2>4, <1>0 DEF invested, user
    <2>. QED
      BY <2>3, <2>4
  <1>3. ASSUME NEW adr \in Accounts, userBoarded(adr)
        PROVE  Evolves(users[k], users'[k])
    <2>1. \/ users'[k] = users[k]
          \/ users'[k] = [users[k] EXCEPT !.boarded = TRUE]
      BY <1>0, <1>3 DEF userBoarded, board, IInv, TypeOK
    <2>. QED
      BY <2>1, <1>0 DEF user
  <1>4. ASSUME NEW adr \in Accounts,
               flightDeparted(adr) \/ cancelPolicy(adr) \/ cancelFlight(adr)
        PROVE  Evolves(users[k], users'[k])
    <2>1. PICK v \in user : Settles(idOf[adr], v)
      BY <1>4, TriggersSettle DEF IInv
    <2>2. CASE k # idOf[adr]
      BY <2>1, <2>2, <1>0 DEF Settles, IInv, TypeOK
    <2>3. CASE k = idOf[adr]
      <3>1. users'[k] = concluded(v) /\ Triggered(users[k], v)
        BY <2>1, <2>3, <1>0 DEF Settles, IInv, TypeOK
      <3>. QED
        BY <3>1, ConcludedType DEF Triggered
    <2>. QED
      BY <2>2, <2>3
  <1>5. CASE listAllAvailablePolicies
    BY <1>5 DEF listAllAvailablePolicies
  <1>6. CASE UNCHANGED vars
    BY <1>6 DEF vars
  <1>. QED
    BY <1>1, <1>2, <1>3, <1>4, <1>5, <1>6 DEF Next

\* No operation rewrites the terms of a registered policy.
THEOREM TermsNeverChange == Spec => TermsFixed
  <1>1. IInv /\ [Next]_vars =>
          [\A id \in Registered :
             /\ users'[id].adr = users[id].adr
             /\ users'[id].maxPayout = users[id].maxPayout
             /\ users'[id].minPayout = users[id].minPayout
             /\ users'[id].initialPremium = users[id].initialPremium
             /\ users'[id].prob = users[id].prob]_vars
    BY NextEvolves DEF Evolves, SameTerms
  <1>. QED
    BY <1>1, SpecIInv, PTL DEF Spec, TermsFixed

\* A settled policy never opens again, and its pool and its ledger stay.
THEOREM SettlementIsFinal == Spec => SettledStaysSettled
  <1>1. IInv /\ [Next]_vars =>
          [\A id \in Registered :
             users[id].status # "OPEN" =>
               /\ users'[id].status # "OPEN"
               /\ users'[id].poolSize = users[id].poolSize
               /\ users'[id].investorCount = users[id].investorCount
               /\ users'[id].investedAmountOf = users[id].investedAmountOf]_vars
    BY NextEvolves DEF Evolves, SameLedger
  <1>. QED
    BY <1>1, SpecIInv, PTL DEF Spec, SettledStaysSettled

-----------------------------------------------------------------------------
(* The books of a policy: its pool, its ledger and its list of investors.  *)

NoLedger == [a \in Addresses |-> 0]

SameBooks(u, v) ==
  /\ v.poolSize = u.poolSize /\ v.investorCount = u.investorCount
  /\ v.investedAmountOf = u.investedAmountOf /\ v.investorAdrOf = u.investorAdrOf

\* Policy id is registered: nothing is in its pool, and its ledger is what the
\* storage held.
OpensBooks(id) ==
  /\ id = userCount /\ userCount' = userCount + 1
  /\ users'[id].poolSize = 0 /\ users'[id].investorCount = 0
  /\ users'[id].investedAmountOf = users[id].investedAmountOf
  /\ collected'[id] = collected[id]

\* Policy id takes an investment.
Collects(id, sender, amount) ==
  /\ id < userCount /\ userCount' = userCount
  /\ users[id].investorCount < MaxInvestments
  /\ users'[id].poolSize = (users[id].poolSize + amount) % Word
  /\ users'[id].investorCount = users[id].investorCount + 1
  /\ users'[id].investedAmountOf = [users[id].investedAmountOf EXCEPT ![sender] = amount]
  /\ users'[id].investorAdrOf = [users[id].investorAdrOf EXCEPT ![0] = sender]
  /\ collected'[id] = collected[id] + amount

SomebodyPays(id) == \E sender \in Accounts, amount \in Amounts : Collects(id, sender, amount)

KeepsBooks(id) == userCount' \in {userCount, userCount + 1} /\ (id = userCount => userCount' = userCount)
                    /\ SameBooks(users[id], users'[id]) /\ collected'[id] = collected[id]

LEMMA NextOnBooks ==
  ASSUME IInv, [Next]_vars, NEW k \in Ids
  PROVE  KeepsBooks(k) \/ OpensBooks(k) \/ SomebodyPays(k)
  <1>0. /\ users[k] \in user /\ users \in [Ids -> user] /\ userCount \in Ids /\ Ids \subseteq Nat
        /\ collected \in [Ids -> Nat]
    BY DEF IInv, TypeOK, Ids
  <1>1. ASSUME NEW sender \in Accounts, NEW q \in Quotes, addUser(sender, q)
        PROVE  KeepsBooks(k) \/ OpensBooks(k)
    <2>1. userCount' = userCount + 1 /\ collected' = collected
      BY <1>1 DEF addUser
    <2>2. CASE k = userCount
      <3>1. /\ users'[k].poolSize = 0 /\ users'[k].investorCount = 0
            /\ users'[k].investedAmountOf = users[k].investedAmountOf
        BY <2>2, <1>0, <1>1 DEF addUser, user
      <3>. QED
        BY <2>1, <2>2, <3>1 DEF OpensBooks
    <2>3. CASE k # userCount
      <3>1. users'[k] = users[k]
        BY <2>3, <1>0, <1>1 DEF addUser
      <3>. QED
        BY <2>1, <2>3, <3>1 DEF KeepsBooks, SameBooks
    <2>. QED
      BY <2>2, <2>3
  <1>2. ASSUME NEW sender \in Accounts, NEW adr \in Accounts, NEW amount \in Amounts,
               invest(sender, adr, amount)
        PROVE  KeepsBooks(k) \/ SomebodyPays(k)
    <2>. DEFINE id == idOf[adr]
    <2>1. id \in Ids /\ (id < userCount \/ id = 0)
      BY Resolves, ResolvesToRegistered DEF IInv
    <2>2. id < userCount
      <3>1. users[id].poolSize # users[id].maxPayout
        BY <1>2 DEF invest, mayInvest, isMaxPayoutReached
      <3>. QED
        BY <2>1, <3>1, <1>0 DEF IInv, NothingRegistered
    <2>3. /\ users' = [users EXCEPT ![id] = invested(users[id], sender, amount)]
          /\ users[id].investorCount < MaxInvestments /\ userCount' = userCount
          /\ collected' = [collected EXCEPT ![id] = collected[id] + amount]
      BY <1>2 DEF invest
    <2>4. investorCount = 0
      BY DEF IInv
    <2>5. CASE k = id
      <3>1. users'[k] = invested(users[k], sender, amount)
        BY <2>1, <2>3, <2>5, <1>0
      <3>2. /\ users'[k].poolSize = (users[k].poolSize + amount) % Word
            /\ users'[k].investorCount = users[k].investorCount + 1
            /\ users'[k].investedAmountOf = [users[k].investedAmountOf EXCEPT ![sender] = amount]
            /\ users'[k].investorAdrOf = [users[k].investorAdrOf EXCEPT ![0] = sender]
        BY <3>1, <2>4, <1>0 DEF invested, user
      <3>3. collected'[k] = collected[k] + amount
        BY <2>3, <2>5, <1>0
      <3>4. Collects(k, sender, amount)
        BY <3>2, <3>3, <2>2, <2>3, <2>5 DEF Collects
      <3>. QED
        BY <3>4 DEF SomebodyPays
    <2>6. CASE k # id
      BY <2>1, <2>3, <2>6, <1>0 DEF KeepsBooks, SameBooks
    <2>. QED
      BY <2>5, <2>6
  <1>3. ASSUME NEW adr \in Accounts, userBoarded(adr) PROVE KeepsBooks(k)
    <2>1. \/ users'[k] = users[k]
          \/ users'[k] = [users[k] EXCEPT !.boarded = TRUE]
      BY <1>0, <1>3 DEF userBoarded, board
    <2>2. userCount' = userCount /\ collected' = collected
      BY <1>3 DEF userBoarded
    <2>. QED
      BY <2>1, <2>2, <1>0 DEF KeepsBooks, SameBooks, user
  <1>4. ASSUME NEW adr \in Accounts,
               flightDeparted(adr) \/ cancelPolicy(adr) \/ cancelFlight(adr)
        PROVE  KeepsBooks(k)
    <2>1. PICK v \in user : Settles(idOf[adr], v)
      BY <1>4, TriggersSettle DEF IInv
    <2>2. idOf[adr] \in Ids
      BY Resolves DEF IInv
    <2>3. userCount' = userCount /\ collected' = collected
      BY <2>1 DEF Settles
    <2>4. CASE k # idOf[adr]
      BY <2>1, <2>2, <2>3, <2>4, <1>0 DEF Settles, KeepsBooks, SameBooks
    <2>5. CASE k = idOf[adr]
      <3>1. users'[k] = concluded(v) /\ Triggered(users[k], v)
        BY <2>1, <2>5, <1>0 DEF Settles
      <3>. QED
        BY <3>1, <2>3, ConcludedType DEF Triggered, KeepsBooks, SameBooks
    <2>. QED
      BY <2>4, <2>5
  <1>5. CASE listAllAvailablePolicies \/ UNCHANGED vars
    BY <1>5 DEF listAllAvailablePolicies, vars, KeepsBooks, SameBooks
  <1>. QED
    BY <1>1, <1>2, <1>3, <1>4, <1>5 DEF Next

\* The books of a policy with one investment.
LoneInvestment(u, sender, amount) ==
  /\ u.investorAdrOf[0] = sender
  /\ u.investedAmountOf = [NoLedger EXCEPT ![sender] = amount]
  /\ u.poolSize = amount

FirstBooks(u) ==
  /\ u.investorCount = 0 => u.investedAmountOf = NoLedger /\ u.poolSize = 0
  /\ u.investorCount = 1 => \E s \in Accounts, m \in Amounts : LoneInvestment(u, s, m)

BookInv ==
  \A id \in Ids : FirstBooks(users[id]) /\ (id < userCount \/ users[id].investorCount = 0)

\* What fits the word stays what it is.
LEMMA ModIdentity == \A x \in UInt : x % Word = x
  BY SMT DEF UInt

LEMMA InitBookInv == Init => BookInv
  <1>. SUFFICES ASSUME Init, NEW id \in Ids PROVE FirstBooks(users[id]) /\ users[id].investorCount = 0
    BY DEF BookInv, Init, Ids
  <1>1. users[id] = EmptyUser
    BY DEF Init
  <1>. QED
    BY <1>1 DEF EmptyUser, FirstBooks, NoLedger

LEMMA NextBookInv ==
  ASSUME IInv, BookInv, [Next]_vars
  PROVE  BookInv'
  <1>. SUFFICES ASSUME NEW k \in Ids
       PROVE  FirstBooks(users'[k]) /\ (k < userCount' \/ users'[k].investorCount = 0)
    BY DEF BookInv, FirstBooks, LoneInvestment
  <1>0. /\ users[k] \in user /\ userCount \in Nat /\ k \in Nat
        /\ FirstBooks(users[k])
        /\ k < userCount \/ users[k].investorCount = 0
    BY DEF IInv, TypeOK, Ids, BookInv
  <1>1. CASE KeepsBooks(k)
    <2>1. SameBooks(users[k], users'[k])
      BY <1>1 DEF KeepsBooks
    <2>2. \A s, m : LoneInvestment(users[k], s, m) => LoneInvestment(users'[k], s, m)
      BY <2>1 DEF SameBooks, LoneInvestment
    <2>3. FirstBooks(users'[k])
      BY <2>1, <2>2, <1>0 DEF SameBooks, FirstBooks
    <2>4. k < userCount' => k < userCount
      BY <1>0, <1>1 DEF KeepsBooks
    <2>5. userCount <= userCount' /\ userCount' \in Nat
      BY <1>0, <1>1 DEF KeepsBooks
    <2>. QED
      BY <2>1, <2>3, <2>4, <2>5, <1>0 DEF SameBooks
  <1>2. CASE OpensBooks(k)
    <2>1. users[k].investorCount = 0
      BY <1>0, <1>2 DEF OpensBooks
    <2>2. FirstBooks(users'[k])
      BY <2>1, <1>0, <1>2 DEF OpensBooks, FirstBooks
    <2>. QED
      BY <2>2, <1>2 DEF OpensBooks
  <1>3. CASE SomebodyPays(k)
    <2>1. PICK sender \in Accounts, amount \in Amounts : Collects(k, sender, amount)
      BY <1>3 DEF SomebodyPays
    <2>2. users[k].investorCount \in Nat /\ users[k].investorAdrOf \in [Slots -> Addresses]
      BY <1>0 DEF user
    <2>3. users'[k].investorCount = users[k].investorCount + 1
      BY <2>1 DEF Collects
    <2>4. ASSUME users'[k].investorCount = 1 PROVE LoneInvestment(users'[k], sender, amount)
      <3>1. users[k].investorCount = 0
        BY <2>2, <2>3, <2>4
      <3>2. users[k].investedAmountOf = NoLedger /\ users[k].poolSize = 0
        BY <3>1, <1>0 DEF FirstBooks
      <3>3. users'[k].poolSize = amount
        <4>1. amount \in UInt /\ 0 + amount = amount
          BY UIntIsNat
        <4>. QED
          BY <4>1, <3>2, <2>1, ModIdentity DEF Collects
      <3>4. users'[k].investorAdrOf[0] = sender
        BY <2>1, <2>2 DEF Collects, Slots
      <3>. QED
        BY <3>2, <3>3, <3>4, <2>1 DEF Collects, LoneInvestment
    <2>5. FirstBooks(users'[k])
      BY <2>2, <2>3, <2>4 DEF FirstBooks
    <2>. QED
      BY <2>1, <2>5, <1>0 DEF Collects
  <1>. QED
    BY <1>1, <1>2, <1>3, NextOnBooks

LEMMA SpecBookInv == Spec => []BookInv
  BY InitBookInv, NextBookInv, SpecIInv, PTL DEF Spec

\* A policy in which c was invested altogether: its ledger owes no more than
\* that, its pool has all of it unless it wrapped.
Funded(u, c) ==
  /\ u.investorCount = 0 => c = 0
  /\ SumOf(u.investedAmountOf, Addresses) <= c
  /\ c < Word => u.poolSize = c

LedgerInv == \A id \in Ids : Funded(users[id], collected[id])

LEMMA LedgerOfNobody == SumOf(NoLedger, Addresses) = 0
  <1>1. IsFiniteSet(Addresses)
    BY FS_AddElement DEF Addresses
  <1>2. NoLedger \in [Addresses -> Nat] /\ \A x \in Addresses : NoLedger[x] = 0
    BY DEF NoLedger
  <1>. QED
    BY <1>1, <1>2, SumOfZeros

LEMMA InitLedgerInv == Init => LedgerInv
  <1>. SUFFICES ASSUME Init, NEW id \in Ids PROVE Funded(users[id], collected[id])
    BY DEF LedgerInv
  <1>1. users[id] = EmptyUser /\ collected[id] = 0
    BY DEF Init
  <1>2. EmptyUser.poolSize = 0 /\ EmptyUser.investorCount = 0 /\ EmptyUser.investedAmountOf = NoLedger
    BY DEF EmptyUser, NoLedger
  <1>. QED
    BY <1>1, <1>2, LedgerOfNobody DEF Funded

LEMMA NextLedgerInv ==
  ASSUME IInv, BookInv, LedgerInv, [Next]_vars
  PROVE  LedgerInv'
  <1>. SUFFICES ASSUME NEW k \in Ids PROVE Funded(users'[k], collected'[k])
    BY DEF LedgerInv, Funded
  <1>0. /\ users[k] \in user /\ userCount \in Nat /\ k \in Nat /\ collected[k] \in Nat
        /\ Funded(users[k], collected[k])
    BY DEF IInv, TypeOK, Ids, LedgerInv
  <1>1. CASE KeepsBooks(k)
    BY <1>0, <1>1 DEF KeepsBooks, SameBooks, Funded
  <1>2. CASE OpensBooks(k)
    <2>1. users[k].investorCount = 0
      BY <1>0, <1>2 DEF OpensBooks, BookInv
    <2>2. users[k].investedAmountOf = NoLedger /\ collected[k] = 0
      BY <2>1, <1>0 DEF BookInv, FirstBooks, Funded
    <2>. QED
      BY <2>2, <1>2, LedgerOfNobody DEF OpensBooks, Funded
  <1>3. CASE SomebodyPays(k)
    <2>1. PICK sender \in Accounts, amount \in Amounts : Collects(k, sender, amount)
      BY <1>3 DEF SomebodyPays
    <2>. DEFINE pool   == users[k].poolSize
                total  == collected[k]
                ledger == users[k].investedAmountOf
    <2>2. /\ pool \in Nat /\ users[k].investorCount \in Nat /\ amount \in Nat /\ total \in Nat
          /\ ledger \in [Addresses -> Nat] /\ sender \in Addresses
      <3>1. pool \in UInt /\ users[k].investorCount \in Nat /\ ledger \in [Addresses -> UInt]
        BY <1>0 DEF user
      <3>. QED
        BY <3>1, <1>0, UIntIsNat DEF Addresses
    <2>3. /\ users'[k].poolSize = (pool + amount) % Word
          /\ users'[k].investorCount = users[k].investorCount + 1
          /\ users'[k].investedAmountOf = [ledger EXCEPT ![sender] = amount]
          /\ collected'[k] = total + amount
      BY <2>1 DEF Collects
    <2>4. SumOf(ledger, Addresses) <= total /\ (total < Word => pool = total)
      BY <1>0 DEF Funded
    <2>5. SumOf([ledger EXCEPT ![sender] = amount], Addresses) + ledger[sender]
            = SumOf(ledger, Addresses) + amount
      <3>1. IsFiniteSet(Addresses)
        BY FS_AddElement DEF Addresses
      <3>. HIDE DEF ledger
      <3>2. SumOf(Written(ledger, sender, amount), Addresses) + ledger[sender]
              = SumOf(ledger, Addresses) + amount
        BY <2>2, <3>1, SumExcept
      <3>. QED
        BY <3>2 DEF Written
    <2>6. SumOf(ledger, Addresses) \in Nat /\ SumOf(users'[k].investedAmountOf, Addresses) \in Nat
      <3>1. IsFiniteSet(Addresses)
        BY FS_AddElement DEF Addresses
      <3>2. [ledger EXCEPT ![sender] = amount] \in [Addresses -> Nat]
        BY <2>2
      <3>. HIDE DEF ledger
      <3>. QED
        BY <2>2, <2>3, <3>1, <3>2, SumType
    <2>7. ledger[sender] \in Nat
      BY <2>2
    <2>. HIDE DEF pool, total, ledger
    <2>8. total + amount < Word => users'[k].poolSize = total + amount
      <3>. SUFFICES ASSUME total + amount < Word PROVE users'[k].poolSize = total + amount
        OBVIOUS
      <3>1. pool = total /\ pool + amount \in UInt
        BY <2>2, <2>4 DEF UInt
      <3>. QED
        BY <3>1, <2>3, ModIdentity
    <2>9. SumOf(users'[k].investedAmountOf, Addresses) <= total + amount
      <3>1. SumOf(users'[k].investedAmountOf, Addresses) + ledger[sender]
              = SumOf(ledger, Addresses) + amount
        BY <2>3, <2>5
      <3>. QED
        BY <3>1, <2>2, <2>4, <2>6, <2>7
    <2>10. users'[k].investorCount # 0
      BY <2>2, <2>3
    <2>. QED
      BY <2>3, <2>8, <2>9, <2>10 DEF Funded
  <1>. QED
    BY <1>1, <1>2, <1>3, NextOnBooks

\* Until what was invested in a policy wraps its pool, what its ledger owes the
\* investors is in the pool: for every amount, also those nobody could pay.
THEOREM PoolCoversLedger == Spec => []LedgerWithinPool
  <1>1. Init => LedgerInv
    BY InitLedgerInv
  <1>2. IInv /\ BookInv /\ LedgerInv /\ [Next]_vars => LedgerInv'
    BY NextLedgerInv
  <1>3. IInv /\ LedgerInv => LedgerWithinPool
    <2>. SUFFICES ASSUME IInv, LedgerInv, NEW id \in Registered, collected[id] < Word
         PROVE  ledgerTotal(id) <= users[id].poolSize
      BY DEF LedgerWithinPool
    <2>1. id \in Ids
      BY DEF IInv, TypeOK, Registered, Ids
    <2>2. ledgerTotal(id) = SumOf(users[id].investedAmountOf, Addresses)
      BY DEF ledgerTotal, SumOf
    <2>. QED
      BY <2>1, <2>2 DEF LedgerInv, Funded
  <1>. QED
    BY <1>1, <1>2, <1>3, SpecIInv, SpecBookInv, PTL DEF Spec

-----------------------------------------------------------------------------
(* What a settlement pays while there is one policy.                       *)

\* The single branch that payout enters for a policy that ends as u, while all
\* addresses resolve to it.
LEMMA LoneBranch ==
  ASSUME IInv, userCount = 1, NEW u \in user,
         u.status \in {"NOTMISSED", "CANCELLED", "TICKETCANCELLED"}
  PROVE  branches([users EXCEPT ![0] = u], 0) = {u.status}
  <1>. DEFINE us == [users EXCEPT ![0] = u]
              statusOf(looped) == us[idOf[lastRead(us[0], looped)]].status
  <1>1. 0 \in Ids /\ us[0] = u
    BY DEF IInv, TypeOK, Ids
  <1>2. \A a \in Addresses : idOf[a] = 0
    <2>1. Registered = {0}
      BY DEF Registered
    <2>2. \A a \in Addresses : {id \in Registered : users[id].adr = a} \in SUBSET {0}
      BY <2>1
    <2>. QED
      BY <2>1 DEF IInv, LatestPolicyWins
  <1>3. ASSUME NEW looped PROVE lastRead(u, looped) \in Addresses
    <2>1. u.investorCount \in 0 .. MaxInvestments /\ u.investorAdrOf \in [Slots -> Addresses]
      BY DEF user
    <2>2. u.investorCount > 0 => u.investorCount - 1 \in Slots
      BY <2>1 DEF Slots
    <2>. QED
      BY <2>1, <2>2 DEF lastRead, Addresses
  <1>4. \A looped : statusOf(looped) = u.status
    BY <1>1, <1>2, <1>3
  <1>5. branches(us, 0) = {b \in policyStatus : b # "MISSED" /\ u.status = b}
    <2>. DEFINE missed    == us[0].status = "MISSED"
                notMissed == statusOf(missed) = "NOTMISSED"
                cancelled == statusOf(missed \/ notMissed) = "CANCELLED"
                ticket    == statusOf(missed \/ notMissed \/ cancelled) = "TICKETCANCELLED"
    <2>1. branches(us, 0) = {b \in policyStatus : \/ b = "MISSED" /\ missed
                                                  \/ b = "NOTMISSED" /\ notMissed
                                                  \/ b = "CANCELLED" /\ cancelled
                                                  \/ b = "TICKETCANCELLED" /\ ticket}
      BY DEF branches
    <2>2. ~ missed
      BY <1>1
    <2>3. notMissed <=> u.status = "NOTMISSED"
      BY <1>4
    <2>4. cancelled <=> u.status = "CANCELLED"
      BY <1>4
    <2>5. ticket <=> u.status = "TICKETCANCELLED"
      BY <1>4
    <2>. HIDE DEF missed, notMissed, cancelled, ticket, us, statusOf
    <2>. QED
      BY <2>1, <2>2, <2>3, <2>4, <2>5 DEF policyStatus
  <1>. HIDE DEF us
  <1>6. branches(us, 0) = {u.status}
    BY <1>5 DEF policyStatus
  <1>. QED
    BY <1>6 DEF us

\* One branch sends what it sends: the others send nothing.
LEMMA OneBranchSends ==
  ASSUME NEW u \in user, NEW a \in Addresses,
         u.status \in {"NOTMISSED", "CANCELLED", "TICKETCANCELLED"}
  PROVE  sentTo(u, {u.status}, a)
           = (IF a = u.adr THEN toSeeker(u, u.status) ELSE 0)
               + Cardinality(slotsOf(u, a)) * toInvestor(u, u.status, a)
  <1>1. \A b : sent(u, {u.status}, b, a) \in Nat
    BY SentType
  <1>2. \A b : b # u.status => sent(u, {u.status}, b, a) = 0
    BY DEF sent
  <1>3. sentTo(u, {u.status}, a) = sent(u, {u.status}, u.status, a)
    BY <1>1, <1>2 DEF sentTo
  <1>. QED
    BY <1>3 DEF sent

\* What an investor is owed on settlement, the share cut to no width.
Owed(u, a) ==
  IF u.investedAmountOf[a] = 0 THEN 0
  ELSE IF u.status = "CANCELLED" THEN u.investedAmountOf[a]
  ELSE u.investedAmountOf[a] + ((u.finalPremium * u.investedAmountOf[a]) \div u.poolSize)

\* The one investor of a settled policy is sent what it is owed.
LEMMA InvestorIsSentOwed ==
  ASSUME NEW u \in user, NEW s \in Accounts, NEW m \in Amounts,
         LoneInvestment(u, s, m), u.investorCount = 1,
         u.status \in {"NOTMISSED", "CANCELLED", "TICKETCANCELLED"},
         SharesFit(u),
         divides(u, {u.status}) => u.poolSize # 0
  PROVE  toInvestor(u, u.status, s) = Owed(u, s)
  <1>1. u.investedAmountOf[s] = m /\ u.poolSize = m /\ m \in Nat
    BY UIntIsNat DEF LoneInvestment, NoLedger, Addresses
  <1>2. CASE u.status = "CANCELLED"
    BY <1>1, <1>2 DEF toInvestor, Owed
  <1>3. CASE u.status # "CANCELLED"
    <2>. DEFINE premium == u.finalPremium
    <2>1. m # 0
      BY <1>1, <1>3 DEF divides
    <2>2. premium \in Nat /\ premium * m \in Nat
      <3>1. premium \in Nat
        BY DEF user
      <3>. HIDE DEF premium
      <3>. QED
        BY <3>1, <1>1, ProductIsNat
    <2>3. premium * m < Word /\ m + premium < Word
      BY <1>1, <1>3 DEF SharesFit
    <2>. DEFINE part == (premium * m) \div m
    <2>4. part = premium
      <3>1. \A x \in Nat, y \in Nat : y # 0 => (x * y) \div y = x
        BY SMT
      <3>. HIDE DEF premium
      <3>. QED
        BY <3>1, <1>1, <2>1, <2>2
    <2>5. (premium * m) % Word = premium * m
      <3>1. premium * m \in UInt
        BY <2>2, <2>3 DEF UInt
      <3>. QED
        BY <3>1, ModIdentity
    <2>6. (m + part) % Word = m + part
      <3>. HIDE DEF part, premium
      <3>1. m + part \in UInt
        BY <1>1, <2>2, <2>3, <2>4 DEF UInt
      <3>. QED
        BY <3>1, ModIdentity
    <2>7. share(u, s) = part
      BY <1>1, <2>1, <2>5 DEF share
    <2>8. toInvestor(u, u.status, s) = (m + share(u, s)) % Word
      BY <1>1, <1>3 DEF toInvestor
    <2>9. Owed(u, s) = m + part
      BY <1>1, <1>3, <2>1 DEF Owed
    <2>. QED
      BY <2>6, <2>7, <2>8, <2>9
  <1>. QED
    BY <1>2, <1>3

\* A policy with at most one investment sends everybody what is promised.
LEMMA LonePolicySends ==
  ASSUME NEW u \in user, FirstBooks(u), u.investorCount <= 1,
         u.status \in {"NOTMISSED", "CANCELLED", "TICKETCANCELLED"},
         SharesFit(u),
         divides(u, {u.status}) => u.poolSize # 0,
         NEW a \in Addresses
  PROVE  sentTo(u, {u.status}, a) = Promised(u, a)
  <1>. DEFINE seeker == IF a = u.adr /\ u.status = "CANCELLED" THEN u.initialPremium ELSE 0
              shares == Cardinality(slotsOf(u, a)) * toInvestor(u, u.status, a)
  <1>1. Promised(u, a) = seeker + Owed(u, a)
    BY DEF Promised, Owed
  <1>2. sentTo(u, {u.status}, a) = seeker + shares
    <2>1. (IF a = u.adr THEN toSeeker(u, u.status) ELSE 0) = seeker
      BY DEF toSeeker
    <2>. QED
      BY <2>1, OneBranchSends
  <1>3. toInvestor(u, u.status, a) \in Nat
    BY ToInvestorType
  <1>4. CASE u.investorCount = 0
    <2>1. u.investedAmountOf[a] = 0
      BY <1>4 DEF FirstBooks, NoLedger
    <2>2. slotsOf(u, a) = {}
      BY <1>4 DEF slotsOf, Slots
    <2>3. Cardinality(slotsOf(u, a)) = 0
      BY <2>2, FS_EmptySet
    <2>4. shares = 0
      BY <2>3, <1>3
    <2>5. Owed(u, a) = 0
      BY <2>1 DEF Owed
    <2>. QED
      BY <1>1, <1>2, <2>4, <2>5
  <1>5. CASE u.investorCount = 1
    <2>1. PICK s \in Accounts, m \in Amounts : LoneInvestment(u, s, m)
      BY <1>5 DEF FirstBooks
    <2>2. CASE a = s
      <3>1. slotsOf(u, a) = {0}
        BY <1>5, <2>1, <2>2 DEF slotsOf, Slots, LoneInvestment
      <3>2. Cardinality(slotsOf(u, a)) = 1
        BY <3>1, FS_Singleton
      <3>3. shares = toInvestor(u, u.status, a)
        BY <3>2, <1>3
      <3>4. toInvestor(u, u.status, a) = Owed(u, a)
        BY <1>5, <2>1, <2>2, InvestorIsSentOwed
      <3>. QED
        BY <1>1, <1>2, <3>3, <3>4
    <2>3. CASE a # s
      <3>1. slotsOf(u, a) = {}
        BY <1>5, <2>1, <2>3 DEF slotsOf, Slots, LoneInvestment
      <3>2. Cardinality(slotsOf(u, a)) = 0
        BY <3>1, FS_EmptySet
      <3>3. shares = 0
        BY <3>2, <1>3
      <3>4. u.investedAmountOf[a] = 0
        BY <2>1, <2>3 DEF LoneInvestment, NoLedger
      <3>5. Owed(u, a) = 0
        BY <3>4 DEF Owed
      <3>. QED
        BY <1>1, <1>2, <3>3, <3>5
    <2>. QED
      BY <2>2, <2>3
  <1>6. u.investorCount = 0 \/ u.investorCount = 1
    BY DEF user
  <1>. QED
    BY <1>4, <1>5, <1>6

LEMMA LoneSettlementPays ==
  ASSUME IInv, BookInv, [Next]_vars,
         userCount = 1, users[0].investorCount <= 1,
         users[0].status = "OPEN", users'[0].status # "OPEN", SharesFit(users'[0]),
         NEW a \in Addresses
  PROVE  received'[a] = received[a] + Promised(users'[0], a)
  <1>0. /\ 0 \in Ids /\ users \in [Ids -> user] /\ users[0] \in user
        /\ \A adr \in Accounts : idOf[adr] = 0
    <2>1. 0 \in Ids /\ users \in [Ids -> user] /\ \A adr \in Accounts : idOf[adr] \in Ids
      BY DEF IInv, TypeOK, Ids, Addresses
    <2>2. \A adr \in Accounts : idOf[adr] = 0
      BY <2>1, ResolvesToRegistered DEF Ids
    <2>. QED
      BY <2>1, <2>2
  <1>1. \A sender \in Accounts, q \in Quotes : ~ addUser(sender, q)
    BY <1>0 DEF addUser
  <1>2. \A sender, adr \in Accounts, amount \in Amounts : ~ invest(sender, adr, amount)
    <2>. SUFFICES ASSUME NEW sender \in Accounts, NEW adr \in Accounts, NEW amount \in Amounts,
                         invest(sender, adr, amount)
         PROVE  users'[0].status = "OPEN"
      OBVIOUS
    <2>1. users'[0] = invested(users[0], sender, amount)
      BY <1>0 DEF invest
    <2>2. invested(users[0], sender, amount).status = users[0].status
      BY <1>0 DEF invested, user
    <2>. QED
      BY <2>1, <2>2
  <1>3. \A adr \in Accounts : ~ userBoarded(adr)
    BY <1>0 DEF userBoarded, board, user
  <1>4. ~ listAllAvailablePolicies /\ ~ UNCHANGED vars
    BY DEF listAllAvailablePolicies, vars
  <1>5. PICK adr \in Accounts : flightDeparted(adr) \/ cancelPolicy(adr) \/ cancelFlight(adr)
    BY <1>1, <1>2, <1>3, <1>4 DEF Next
  <1>6. PICK v \in user : Settles(0, v)
    BY <1>0, <1>5, TriggersSettle DEF IInv
  <1>. DEFINE u == concluded(v)
  <1>7. Triggered(users[0], v)
    BY <1>6 DEF Settles
  <1>8. /\ u \in user /\ u.poolSize = users[0].poolSize
        /\ u.investorCount = users[0].investorCount
        /\ u.investedAmountOf = users[0].investedAmountOf
        /\ u.investorAdrOf = users[0].investorAdrOf
    BY <1>7, ConcludedType DEF Triggered
  <1>9. u.status \in {"NOTMISSED", "CANCELLED", "TICKETCANCELLED"}
    BY <1>7, ConcludedType DEF Triggered
  <1>10. users'[0] = u
    BY <1>0, <1>6 DEF Settles
  <1>11. Distributes(0, u)
    BY <1>6 DEF Settles
  <1>. HIDE DEF u
  <1>12. branches([users EXCEPT ![0] = u], 0) = {u.status}
    BY <1>8, <1>9, LoneBranch
  <1>13. /\ divides(u, {u.status}) => u.poolSize # 0
         /\ received'[a] = received[a] + sentTo(u, {u.status}, a)
    BY <1>11, <1>12 DEF Distributes
  <1>14. FirstBooks(u)
    <2>1. FirstBooks(users[0])
      BY <1>0 DEF BookInv
    <2>2. \A s, m : LoneInvestment(users[0], s, m) => LoneInvestment(u, s, m)
      BY <1>8 DEF LoneInvestment
    <2>. QED
      BY <2>1, <2>2, <1>8 DEF FirstBooks
  <1>15. SharesFit(u)
    BY <1>10 DEF SharesFit
  <1>16. sentTo(u, {u.status}, a) = Promised(u, a)
    BY <1>8, <1>9, <1>13, <1>14, <1>15, LonePolicySends
  <1>. QED
    BY <1>10, <1>13, <1>16

\* While the contract holds one policy with at most one investment, a settlement
\* pays everybody what was promised, unless the share it computes wraps.
THEOREM LonePolicyIsPaidAsPromised == Spec => LonePolicyPaysAsPromised
  <1>1. IInv /\ BookInv /\ [Next]_vars =>
          [userCount = 1 /\ users[0].investorCount <= 1
             /\ users[0].status = "OPEN" /\ users'[0].status # "OPEN" /\ SharesFit(users'[0]) =>
             \A a \in Addresses : received'[a] = received[a] + Promised(users'[0], a)]_vars
    BY LoneSettlementPays
  <1>. QED
    BY <1>1, SpecIInv, SpecBookInv, PTL DEF Spec, LonePolicyPaysAsPromised

-----------------------------------------------------------------------------
(* The contract implements the life of a policy.                           *)

LEMMA InitRefines == Init => Lifecycle!Init
  <1>. SUFFICES ASSUME Init PROVE Lifecycle!Init
    OBVIOUS
  <1>1. \A id \in Ids : PhaseOf(id) = "unopened"
    BY DEF Init, PhaseOf, Ids
  <1>. QED
    BY <1>1 DEF Init, Lifecycle!Init, EmptyUser

\* A step that rewrites one registered policy, or id 0 before it is registered.
LEMMA RewriteRefines ==
  ASSUME IInv, NEW id \in Ids, NEW w, Rewrites(id, w), w.poolSize = users[id].poolSize,
         id < userCount \/ userCount = 0,
         \/ w.status = users[id].status
         \/ /\ w.status \in {"NOTMISSED", "CANCELLED", "TICKETCANCELLED"}
            /\ w.poolSize < w.minPayout => w.status = "CANCELLED"
  PROVE  [Lifecycle!Next]_(Lifecycle!lifecycleVars)
  <1>. DEFINE phase   == [k \in Ids |-> PhaseOf(k)]
              minimum == [k \in Ids |-> users[k].minPayout]
              pool    == [k \in Ids |-> users[k].poolSize]
  <1>0. /\ users' = [users EXCEPT ![id] = w] /\ users \in [Ids -> user]
        /\ w.minPayout = users[id].minPayout /\ userCount' = userCount
    BY DEF Rewrites, IInv, TypeOK
  <1>1. minimum' = minimum /\ pool' = pool
    BY <1>0
  <1>2. \A k \in Ids : k # id => PhaseOf(k)' = PhaseOf(k)
    BY <1>0 DEF PhaseOf
  <1>3. CASE userCount = 0
    <2>1. \A k \in Ids : PhaseOf(k)' = PhaseOf(k)
      BY <1>3, <1>0 DEF PhaseOf, Ids
    <2>2. phase' = phase
      BY <2>1
    <2>. QED
      BY <2>2, <1>0, <1>1 DEF Lifecycle!lifecycleVars
  <1>4. CASE id < userCount /\ w.status = users[id].status
    <2>1. \A k \in Ids : PhaseOf(k)' = PhaseOf(k)
      BY <1>4, <1>0, <1>2 DEF PhaseOf
    <2>2. phase' = phase
      BY <2>1
    <2>. QED
      BY <2>2, <1>0, <1>1 DEF Lifecycle!lifecycleVars
  <1>5. CASE /\ id < userCount
             /\ w.status \in {"NOTMISSED", "CANCELLED", "TICKETCANCELLED"}
             /\ w.poolSize < w.minPayout => w.status = "CANCELLED"
    <2>. DEFINE outcome == IF w.status = "CANCELLED" THEN "refunded" ELSE "paid"
    <2>1. PhaseOf(id)' = outcome
      <3>1. users'[id] = w /\ w.status # "OPEN"
        BY <1>0, <1>5
      <3>2. ~ (id >= userCount')
        BY <1>0, <1>5 DEF IInv, TypeOK, Ids
      <3>. QED
        BY <3>1, <3>2 DEF PhaseOf
    <2>2. phase' = [phase EXCEPT ![id] = outcome]
      BY <2>1, <1>2
    <2>3. phase[id] # "unopened"
      BY <1>5 DEF PhaseOf, IInv, TypeOK, Ids
    <2>4. phase[id] = "open" \/ phase[id] \in {"refunded", "paid"}
      BY <2>3 DEF PhaseOf
    <2>5. pool[id] < minimum[id] => outcome = "refunded"
      BY <1>5, <1>0
    <2>6. Lifecycle!Settle(id, outcome)
      BY <2>2, <2>4, <2>5, <1>0, <1>1
      DEF Lifecycle!Settle, Lifecycle!Settled, Lifecycle!Outcomes
    <2>. QED
      BY <2>6 DEF Lifecycle!Next, Lifecycle!Outcomes
  <1>. QED
    BY <1>3, <1>4, <1>5

LEMMA NextRefines ==
  ASSUME IInv, [Next]_vars
  PROVE  [Lifecycle!Next]_(Lifecycle!lifecycleVars)
  <1>. DEFINE phase   == [k \in Ids |-> PhaseOf(k)]
              minimum == [k \in Ids |-> users[k].minPayout]
              pool    == [k \in Ids |-> users[k].poolSize]
  <1>0. users \in [Ids -> user] /\ userCount \in Ids /\ Ids \subseteq Nat
    BY DEF IInv, TypeOK, Ids
  <1>1. ASSUME NEW sender \in Accounts, NEW q \in Quotes, addUser(sender, q)
        PROVE  Lifecycle!Next
    <2>1. /\ userCount' = userCount + 1 /\ userCount < MaxUsers
          /\ \A k \in Ids : k # userCount => users'[k] = users[k]
          /\ users'[userCount].status = "OPEN"
          /\ users'[userCount].minPayout = q.minPayout
          /\ users'[userCount].poolSize = 0
      BY <1>0, <1>1 DEF addUser, user
    <2>2. users[userCount].poolSize = 0
      BY <1>0 DEF IInv, NothingRegistered, UnregisteredUntouched, EmptyUser, Ids
    <2>3. phase' = [phase EXCEPT ![userCount] = "open"]
      <3>1. \A k \in Ids : k = userCount => PhaseOf(k)' = "open"
        BY <1>0, <2>1 DEF PhaseOf
      <3>2. \A k \in Ids : k # userCount => PhaseOf(k)' = PhaseOf(k)
        BY <1>0, <2>1 DEF PhaseOf
      <3>. QED
        BY <3>1, <3>2
    <2>4. phase[userCount] = "unopened"
      BY <1>0 DEF PhaseOf
    <2>5. minimum' = [minimum EXCEPT ![userCount] = q.minPayout] /\ pool' = pool
      BY <1>0, <2>1, <2>2
    <2>6. Lifecycle!Open(q.minPayout)
      BY <1>0, <2>1, <2>3, <2>4, <2>5 DEF Lifecycle!Open
    <2>. QED
      BY <2>6 DEF Lifecycle!Next
  <1>2. ASSUME NEW sender \in Accounts, NEW adr \in Accounts, NEW amount \in Amounts,
               invest(sender, adr, amount)
        PROVE  Lifecycle!Next
    <2>. DEFINE id == idOf[adr]
                w  == invested(users[id], sender, amount)
    <2>1. id \in Ids /\ users[id] \in user /\ (id < userCount \/ id = 0)
      BY Resolves, ResolvesToRegistered DEF IInv
    <2>2. users[id].poolSize # users[id].maxPayout /\ users[id].status = "OPEN"
      BY <1>2 DEF invest, mayInvest, isMaxPayoutReached
    <2>3. id < userCount
      BY <2>1, <2>2, <1>0 DEF IInv, NothingRegistered
    <2>4. /\ w.status = "OPEN" /\ w.minPayout = users[id].minPayout
          /\ w.poolSize = (users[id].poolSize + amount) % Word
      BY <2>1, <2>2 DEF invested, user
    <2>5. users' = [users EXCEPT ![id] = w] /\ userCount' = userCount
      BY <1>2 DEF invest
    <2>. HIDE DEF id, w
    <2>6. \A k \in Ids : PhaseOf(k)' = PhaseOf(k)
      BY <1>0, <2>1, <2>2, <2>4, <2>5 DEF PhaseOf
    <2>7. phase' = phase /\ minimum' = minimum
      BY <1>0, <2>1, <2>4, <2>5, <2>6
    <2>8. pool' = [pool EXCEPT ![id] = (users[id].poolSize + amount) % Word]
      BY <1>0, <2>1, <2>4, <2>5
    <2>9. phase[id] = "open"
      BY <1>0, <2>1, <2>2, <2>3 DEF PhaseOf
    <2>10. Lifecycle!Contribute(id, amount)
      BY <2>1, <2>5, <2>7, <2>8, <2>9 DEF Lifecycle!Contribute
    <2>. QED
      BY <2>1, <2>10 DEF Lifecycle!Next
  <1>3. ASSUME NEW adr \in Accounts, userBoarded(adr)
        PROVE  [Lifecycle!Next]_(Lifecycle!lifecycleVars)
    <2>. DEFINE id == idOf[adr]
                w  == [users[id] EXCEPT !.boarded = TRUE]
    <2>1. id \in Ids /\ users[id] \in user /\ (id < userCount \/ userCount = 0)
      BY <1>0, Resolves, ResolvesToRegistered DEF IInv
    <2>2. /\ w \in user /\ w.adr = users[id].adr /\ w.maxPayout = users[id].maxPayout
          /\ w.minPayout = users[id].minPayout /\ w.poolSize = users[id].poolSize
          /\ w.status = users[id].status
      BY <2>1 DEF user
    <2>3. Rewrites(id, w)
      <3>1. users' = [users EXCEPT ![id] = w] /\ UNCHANGED <<idOf, userCount, investorCount>>
        BY <1>3 DEF userBoarded, board
      <3>. QED
        BY <2>2, <3>1 DEF Rewrites
    <2>. HIDE DEF id, w
    <2>. QED
      BY <2>1, <2>2, <2>3, RewriteRefines
  <1>4. ASSUME NEW adr \in Accounts,
               flightDeparted(adr) \/ cancelPolicy(adr) \/ cancelFlight(adr)
        PROVE  [Lifecycle!Next]_(Lifecycle!lifecycleVars)
    <2>. DEFINE id == idOf[adr]
    <2>1. id \in Ids /\ users[id] \in user /\ (id < userCount \/ userCount = 0)
      BY <1>0, Resolves, ResolvesToRegistered DEF IInv
    <2>2. PICK v \in user : Settles(id, v)
      BY <1>4, TriggersSettle DEF IInv
    <2>. DEFINE w == concluded(v)
    <2>3. /\ w \in user /\ w.adr = v.adr /\ w.maxPayout = v.maxPayout
          /\ w.minPayout = v.minPayout /\ w.poolSize = v.poolSize
          /\ w.status = IF isMinRaised(v) THEN v.status ELSE "CANCELLED"
      BY ConcludedType
    <2>4. v.poolSize < v.minPayout => ~ isMinRaised(v)
      <3>1. v.poolSize \in Nat /\ v.minPayout \in Nat
        BY UIntIsNat DEF user
      <3>. QED
        BY <3>1 DEF isMinRaised
    <2>5. /\ users' = [users EXCEPT ![id] = w] /\ Triggered(users[id], v)
          /\ UNCHANGED <<idOf, userCount, investorCount>>
      BY <2>2 DEF Settles
    <2>. HIDE DEF id, w
    <2>6. Rewrites(id, w) /\ w.poolSize = users[id].poolSize
      BY <2>3, <2>5 DEF Rewrites, Triggered
    <2>7. /\ w.status \in {"NOTMISSED", "CANCELLED", "TICKETCANCELLED"}
          /\ w.poolSize < w.minPayout => w.status = "CANCELLED"
      BY <2>3, <2>4, <2>5 DEF Triggered
    <2>. QED
      BY <2>1, <2>6, <2>7, RewriteRefines
  <1>5. ASSUME UNCHANGED <<users, userCount>> PROVE UNCHANGED Lifecycle!lifecycleVars
    BY <1>5 DEF Lifecycle!lifecycleVars, PhaseOf
  <1>6. CASE listAllAvailablePolicies \/ UNCHANGED vars
    BY <1>5, <1>6 DEF listAllAvailablePolicies, vars
  <1>. QED
    BY <1>1, <1>2, <1>3, <1>4, <1>6 DEF Next

\* Every behaviour of the contract is, policy by policy, a life of a policy:
\* opened in order, collecting while open, never collecting once settled.
THEOREM ContractImplementsLifecycle == Spec => ImplementsLifecycle
  <1>1. Init => Lifecycle!Init
    BY InitRefines
  <1>2. IInv /\ [Next]_vars => [Lifecycle!Next]_(Lifecycle!lifecycleVars)
    BY NextRefines
  <1>. QED
    BY <1>1, <1>2, SpecIInv, PTL DEF Spec, ImplementsLifecycle, Lifecycle!Spec
=============================================================================
