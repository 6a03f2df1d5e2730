------------------------- MODULE SqliteStoreProofs -------------------------
(***************************************************************************)
(* Theorems about the SQLite store, for any number of calls, cells and     *)
(* values: its types, when a store can stay unsettled, and that it         *)
(* implements the store that callers may expect.                           *)
(***************************************************************************)
EXTENDS SqliteStore, TLAPS

Types ==
  /\ row \in [Cells -> Values \cup {NoRow}]
  /\ calls \in [Calls -> CallRecords \cup {Idle}]
  /\ failures \in Nat

\* Each statement belongs to one operation.
Fits(c) ==
  /\ c.at = "read" => c.op = "load" /\ c.value = NoRow
  /\ c.at \in {"select", "update", "insert"} => c.op = "store" /\ c.value \in Values
  /\ c.at = "delete" => c.op = "remove" /\ c.value = NoRow

\* A store that nothing has overtaken finds the row as its SELECT found it.
Current(c) ==
  ~ c.raced =>
    /\ c.at = "insert" => row[c.cell] = NoRow
    /\ c.at = "update" => row[c.cell] # NoRow

Settles(c) == c.at = "hangs" /\ failures = 0 => c.raced

IInv ==
  /\ Types
  /\ failures <= MaxFailures
  /\ \A i \in Calls : Fits(calls[i]) /\ Current(calls[i]) /\ Settles(calls[i])

-----------------------------------------------------------------------------
\* A call under way is one that has been made.
LEMMA UnderWay ==
  ASSUME Types, NEW i \in Calls, calls[i].at # "idle"
  PROVE  calls[i] \in CallRecords
  BY DEF Types, Idle

LEMMA InitHolds == Init => IInv
<1>1. SUFFICES ASSUME Init PROVE IInv
  OBVIOUS
<1>2. Types /\ failures <= MaxFailures
  BY <1>1, SqliteAssumption DEF Init, Types
<1>3. \A i \in Calls : calls[i] = Idle
  BY <1>1 DEF Init
<1>4. Fits(Idle) /\ Current(Idle) /\ Settles(Idle)
  BY DEF Fits, Current, Settles, Idle
<1> QED
  BY <1>2, <1>3, <1>4 DEF IInv

\* A step that changes one call, and no row.
LEMMA OneCall ==
  ASSUME IInv, NEW i \in Calls, NEW c \in CallRecords,
         calls' = [calls EXCEPT ![i] = c], row' = row,
         failures' \in {failures, failures + 1}, failures' <= MaxFailures,
         Fits(c), Current(c), c.at = "hangs" /\ failures' = 0 => c.raced
  PROVE  IInv'
<1>1. Types' /\ (failures <= MaxFailures)'
  BY DEF IInv, Types
<1>2. ASSUME NEW j \in Calls
      PROVE  (Fits(calls[j]) /\ Current(calls[j]) /\ Settles(calls[j]))'
  <2>1. CASE j = i
    <3>1. calls'[j] = c
      BY <2>1 DEF IInv, Types
    <3> QED
      BY <3>1 DEF Fits, Current, Settles
  <2>2. CASE j # i
    <3>1. calls'[j] = calls[j]
      BY <2>2 DEF IInv, Types
    <3>2. Settles(calls[j]) /\ failures \in Nat
      BY DEF IInv, Types
    <3>3. failures' = 0 => failures = 0
      BY <3>2
    <3> QED
      BY <3>1, <3>2, <3>3 DEF IInv, Fits, Current, Settles
  <2> QED
    BY <2>1, <2>2
<1> QED
  BY <1>1, <1>2 DEF IInv

\* A call that is issued waits for its first statement.
LEMMA IssueHolds ==
  ASSUME IInv, NEW i \in Calls, load(i) \/ update(i) \/ removeBotSession(i)
  PROVE  IInv'
<1>1. PICK c \in Cells, v \in Values \cup {NoRow}, op \in {"load", "store", "remove"}, s \in Statements :
        /\ issue(i, op, c, v, s)
        /\ \/ op = "load" /\ v = NoRow /\ s = "read"
           \/ op = "store" /\ v \in Values /\ s = "select"
           \/ op = "remove" /\ v = NoRow /\ s = "delete"
  BY DEF load, update, removeBotSession, Cells, Statements
<1> DEFINE r == [op |-> op, cell |-> c, value |-> v, at |-> s, raced |-> FALSE]
<1>2. r \in CallRecords
  BY DEF CallRecords
<1>3. Fits(r) /\ Current(r) /\ r.at # "hangs"
  BY <1>1 DEF Fits, Current
<1>4. calls' = [calls EXCEPT ![i] = r] /\ row' = row /\ failures' = failures
  BY <1>1 DEF issue
<1> HIDE DEF r
<1> QED
  BY <1>2, <1>3, <1>4, OneCall DEF IInv

\* A statement that moves its call on, writing nothing.
LEMMA ProceedHolds ==
  ASSUME IInv, NEW i \in Calls, NEW at \in Statements \cup Outcomes, calls[i].at # "idle",
         NEW v \in Values \cup {NoRow},
         calls' = [calls EXCEPT ![i].value = v, ![i].at = at], row' = row,
         failures' \in {failures, failures + 1}, failures' <= MaxFailures,
         at \notin Outcomes => calls[i].op = "store" /\ v \in Values /\ at \in {"insert", "update"},
         at = "insert" /\ ~ calls[i].raced => row[calls[i].cell] = NoRow,
         at = "update" /\ ~ calls[i].raced => row[calls[i].cell] # NoRow,
         at = "hangs" /\ failures' = 0 => calls[i].raced
  PROVE  IInv'
<1> DEFINE c == [calls[i] EXCEPT !.value = v, !.at = at]
<1>1. calls[i] \in CallRecords
  BY UnderWay DEF IInv
<1>2. /\ c \in CallRecords
      /\ c.at = at /\ c.op = calls[i].op /\ c.value = v
      /\ c.raced = calls[i].raced /\ c.cell = calls[i].cell
  BY <1>1 DEF CallRecords
<1>3. calls' = [calls EXCEPT ![i] = c]
  OBVIOUS
<1>4. Fits(c) /\ Current(c)
  BY <1>2 DEF Fits, Current, Outcomes
<1>5. c.at = "hangs" /\ failures' = 0 => c.raced
  BY <1>2
<1> HIDE DEF c
<1> QED
  BY <1>2, <1>3, <1>4, <1>5, OneCall DEF IInv

\* A statement that writes a row tells all that are under way on it.
LEMMA WriteHolds ==
  ASSUME IInv, NEW i \in Calls, NEW v \in Values \cup {NoRow}, calls[i].at # "idle", write(i, v)
  PROVE  IInv'
<1>1. calls[i] \in CallRecords /\ calls[i].cell \in Cells
  BY UnderWay DEF IInv, CallRecords
<1>2. Types' /\ (failures <= MaxFailures)'
  <2>1. row' \in [Cells -> Values \cup {NoRow}] /\ failures' = failures
    BY <1>1 DEF IInv, Types, write
  <2>2. calls' \in [Calls -> CallRecords \cup {Idle}]
    <3>1. SUFFICES ASSUME NEW j \in Calls PROVE calls'[j] \in CallRecords \cup {Idle}
      BY DEF write
    <3>2. CASE j = i
      <4>1. [calls[j] EXCEPT !.at = "fulfilled"] \in CallRecords
        BY <1>1, <3>2 DEF CallRecords, Outcomes
      <4> QED
        BY <3>2, <4>1 DEF write
    <3>3. CASE j # i /\ calls[j].at \in Statements /\ calls[j].cell = calls[i].cell
      <4>1. calls[j] \in CallRecords
        BY <3>3, UnderWay DEF IInv, Statements
      <4>2. [calls[j] EXCEPT !.raced = TRUE] \in CallRecords
        BY <4>1 DEF CallRecords
      <4> QED
        BY <3>3, <4>2 DEF write
    <3>4. CASE j # i /\ ~ (calls[j].at \in Statements /\ calls[j].cell = calls[i].cell)
      BY <3>4 DEF write, IInv, Types
    <3> QED
      BY <3>2, <3>3, <3>4
  <2> QED
    BY <2>1, <2>2 DEF IInv, Types
<1>3. ASSUME NEW j \in Calls
      PROVE  (Fits(calls[j]) /\ Current(calls[j]) /\ Settles(calls[j]))'
  <2>0. failures' = failures /\ Fits(calls[j]) /\ Current(calls[j]) /\ Settles(calls[j])
    BY DEF IInv, write
  <2>1. CASE j = i
    <3>1. calls'[j] = [calls[j] EXCEPT !.at = "fulfilled"]
      BY <2>1 DEF write
    <3>2. calls'[j].at = "fulfilled"
      BY <1>1, <2>1, <3>1 DEF CallRecords
    <3> QED
      BY <3>2 DEF Fits, Current, Settles
  <2>2. CASE j # i /\ calls[j].at \in Statements /\ calls[j].cell = calls[i].cell
    <3>1. calls[j] \in CallRecords
      BY <2>2, UnderWay DEF IInv, Statements
    <3>2. calls'[j] = [calls[j] EXCEPT !.raced = TRUE]
      BY <2>2 DEF write
    <3>3. /\ calls'[j].raced = TRUE /\ calls'[j].at = calls[j].at
          /\ calls'[j].op = calls[j].op /\ calls'[j].value = calls[j].value
      BY <3>1, <3>2 DEF CallRecords
    <3> QED
      BY <2>0, <3>3 DEF Fits, Current, Settles
  <2>3. CASE j # i /\ ~ (calls[j].at \in Statements /\ calls[j].cell = calls[i].cell)
    <3>1. calls'[j] = calls[j]
      BY <2>3 DEF write
    <3>2. calls[j].at \in {"insert", "update"} => calls[j] \in CallRecords /\ calls[j].cell # calls[i].cell
      BY <2>3, UnderWay DEF IInv, Statements
    <3>3. calls[j].at \in {"insert", "update"} => row'[calls[j].cell] = row[calls[j].cell]
      BY <3>2, <1>1 DEF write, IInv, Types, CallRecords
    <3> QED
      BY <2>0, <3>1, <3>3 DEF Fits, Current, Settles
  <2> QED
    BY <2>1, <2>2, <2>3
<1> QED
  BY <1>2, <1>3 DEF IInv

\* A statement that settles its call, writing nothing.
LEMMA SettleHolds ==
  ASSUME IInv, NEW i \in Calls, NEW at \in Outcomes, calls[i].at # "idle",
         NEW v \in Values \cup {NoRow},
         calls' = [calls EXCEPT ![i].value = v, ![i].at = at], row' = row,
         failures' = failures \/ (failures' = failures + 1 /\ failures < MaxFailures),
         at = "hangs" => calls[i].raced \/ failures' = failures + 1
  PROVE  IInv'
<1>1. at \in Statements \cup Outcomes /\ at # "insert" /\ at # "update"
  BY DEF Outcomes
<1>2. failures \in Nat /\ failures <= MaxFailures
  BY DEF IInv, Types
<1>3. /\ failures' \in {failures, failures + 1} /\ failures' <= MaxFailures
      /\ at = "hangs" /\ failures' = 0 => calls[i].raced
  BY <1>2, SqliteAssumption
<1> QED
  BY <1>1, <1>3, ProceedHolds

LEMMA StatementHolds ==
  ASSUME IInv, NEW i \in Calls, Statement(i)
  PROVE  IInv'
<1>1. calls[i].at \in Statements
  BY DEF Statement, Read, Select, Update, Insert, Delete, Fails, Statements
<1>2. calls[i].at # "idle" /\ calls[i] \in CallRecords
  BY <1>1, UnderWay DEF Statements, IInv
<1>3. calls[i].value \in Values \cup {NoRow} /\ row[calls[i].cell] \in Values \cup {NoRow}
  BY <1>2 DEF IInv, Types, CallRecords
<1>4. Fits(calls[i]) /\ Current(calls[i]) /\ Settles(calls[i]) /\ failures \in Nat /\ failures <= MaxFailures
  BY DEF IInv, Types
<1>5. ASSUME NEW at \in Statements \cup Outcomes, proceed(i, at)
      PROVE  /\ calls' = [calls EXCEPT ![i].value = calls[i].value, ![i].at = at]
             /\ row' = row /\ failures' = failures
  <2>1. [calls[i] EXCEPT !.value = calls[i].value] = calls[i]
    BY <1>2 DEF CallRecords
  <2> QED
    BY <1>5, <2>1 DEF proceed, IInv, Types
<1>6. CASE Read(i)
  <2>1. "fulfilled" \in Outcomes
    BY DEF Outcomes
  <2>2. PICK v \in Values \cup {NoRow} :
          /\ calls' = [calls EXCEPT ![i].value = v, ![i].at = "fulfilled"]
          /\ row' = row /\ failures' = failures
    BY <1>3, <1>6 DEF Read
  <2> QED
    BY <1>2, <2>1, <2>2, SettleHolds
<1>7. CASE Select(i)
  <2>1. PICK at \in {"insert", "update"} : proceed(i, at) /\ (at = "update" <=> hasRow(i))
    BY <1>7 DEF Select, statementFor
  <2>2. at \in Statements \cup Outcomes
    BY DEF Statements
  <2>3. calls[i].op = "store" /\ calls[i].value \in Values
    BY <1>4, <1>7 DEF Select, Fits
  <2> QED
    BY <1>2, <1>3, <1>4, <1>5, <2>1, <2>2, <2>3, ProceedHolds DEF hasRow
<1>8. CASE Update(i) \/ Insert(i)
  <2>1. CASE write(i, calls[i].value)
    BY <1>2, <1>3, <2>1, WriteHolds
  <2>2. CASE proceed(i, "fulfilled")
    <3>1. "fulfilled" \in Outcomes
      BY DEF Outcomes
    <3>2. /\ calls' = [calls EXCEPT ![i].value = calls[i].value, ![i].at = "fulfilled"]
          /\ row' = row /\ failures' = failures
      BY <1>5, <2>2, <3>1
    <3> QED
      BY <1>2, <1>3, <3>1, <3>2, SettleHolds
  <2>3. CASE Insert(i) /\ hasRow(i)
    <3>1. onError(i) \in {"hangs", "rejected"} /\ proceed(i, onError(i)) /\ calls[i].raced
      BY <1>4, <2>3 DEF Insert, onError, hasRow, Current
    <3>2. PICK at \in {"hangs", "rejected"} : proceed(i, at)
      BY <3>1
    <3>3. at \in Outcomes
      BY DEF Outcomes
    <3>4. /\ calls' = [calls EXCEPT ![i].value = calls[i].value, ![i].at = at]
          /\ row' = row /\ failures' = failures
      BY <1>5, <3>2, <3>3
    <3> QED
      BY <1>2, <1>3, <3>1, <3>3, <3>4, SettleHolds
  <2> QED
    BY <1>8, <2>1, <2>2, <2>3 DEF Update, Insert
<1>9. CASE Delete(i)
  BY <1>2, <1>9, WriteHolds DEF Delete
<1>10. CASE Fails(i)
  <2>1. PICK at \in {"fulfilled", "hangs", "rejected"}, v \in Values \cup {NoRow} :
          calls' = [calls EXCEPT ![i].at = at, ![i].value = v]
    BY <1>3, <1>10 DEF Fails, onError, default
  <2>2. calls' = [calls EXCEPT ![i].value = v, ![i].at = at]
    BY <1>2, <2>1 DEF IInv, Types, CallRecords
  <2>3. failures' = failures + 1 /\ failures < MaxFailures /\ row' = row
    BY <1>10 DEF Fails
  <2>4. at \in Outcomes
    BY DEF Outcomes
  <2> QED
    BY <1>2, <2>2, <2>3, <2>4, SettleHolds
<1> QED
  BY <1>6, <1>7, <1>8, <1>9, <1>10 DEF Statement

LEMMA CrashHolds ==
  ASSUME IInv, Crash
  PROVE  IInv'
<1>1. row' = row /\ failures' = failures + 1 /\ failures' \in Nat /\ failures' <= MaxFailures /\ failures' # 0
  BY SqliteAssumption DEF IInv, Types, Crash
<1>2. ASSUME NEW j \in Calls
      PROVE  /\ calls'[j] \in CallRecords \cup {Idle}
             /\ (Fits(calls[j]) /\ Current(calls[j]) /\ Settles(calls[j]))'
  <2>1. CASE calls[j].at \in Statements
    <3>1. calls[j] \in CallRecords
      BY <2>1, UnderWay DEF Statements, IInv
    <3>2. calls'[j] = [calls[j] EXCEPT !.at = "lost"]
      BY <2>1 DEF Crash
    <3>3. calls'[j] \in CallRecords /\ calls'[j].at = "lost"
      BY <3>1, <3>2 DEF CallRecords, Outcomes
    <3> QED
      BY <3>3 DEF Fits, Current, Settles
  <2>2. CASE calls[j].at \notin Statements
    <3>1. calls'[j] = calls[j] /\ calls[j] \in CallRecords \cup {Idle} /\ Fits(calls[j]) /\ Current(calls[j])
      BY <2>2 DEF Crash, IInv, Types
    <3> QED
      BY <1>1, <3>1 DEF Fits, Current, Settles
  <2> QED
    BY <2>1, <2>2
<1>3. Types'
  BY <1>1, <1>2 DEF IInv, Types, Crash
<1> QED
  BY <1>1, <1>2, <1>3 DEF IInv

LEMMA NextHolds == IInv /\ [Next]_vars => IInv'
<1>1. SUFFICES ASSUME IInv, [Next]_vars PROVE IInv'
  OBVIOUS
<1>2. CASE UNCHANGED vars
  BY <1>1, <1>2 DEF vars, IInv, Types, Fits, Current, Settles
<1> QED
  BY <1>1, <1>2, IssueHolds, StatementHolds, CrashHolds DEF Next

\* IInv is an invariant.
LEMMA Invariant == Spec => []IInv
  BY InitHolds, NextHolds, PTL DEF Spec

-----------------------------------------------------------------------------
\* Rows, calls and failures stay within their types, through raced statements,
\* failures and restarts.
THEOREM TypeCorrect == Spec => []TypeOK
<1>1. IInv => TypeOK
  BY SqliteAssumption DEF IInv, Types, TypeOK
<1> QED
  BY <1>1, Invariant, PTL

\* Without a failure only a store that another call has overtaken stays
\* unsettled: the one callback of updateBotSession that settles nothing is out of
\* reach for a store that is alone.
THEOREM OnlyRacesHang == Spec => []OnlyRacedStoresHang
<1>1. IInv => OnlyRacedStoresHang
  BY DEF IInv, Settles, OnlyRacedStoresHang
<1> QED
  BY <1>1, Invariant, PTL

-----------------------------------------------------------------------------
(* First stores.                                                           *)

Removed(c) == \E j \in Calls : calls[j].cell = c /\ calls[j].op = "remove"

\* What a store has found or left stays, unless the cell is removed.
Kept(i) ==
  failures = 0 /\ calls[i].op = "store" /\ calls[i].at \in Outcomes \cup {"update"} =>
    Removed(calls[i].cell) \/ row[calls[i].cell] # NoRow

AllKept == \A i \in Calls : Kept(i)

\* A statement moves a call on, but never to another cell or operation.
LEMMA StatementKeepsRequests ==
  ASSUME IInv, NEW i \in Calls, Statement(i), NEW j \in Calls
  PROVE  /\ calls'[j].op = calls[j].op /\ calls'[j].cell = calls[j].cell
         /\ j # i => calls'[j].at = calls[j].at
<1>1. calls[i].at \in Statements
  BY DEF Statement, Read, Select, Update, Insert, Delete, Fails, Statements
<1>2. calls[i] \in CallRecords
  BY <1>1, UnderWay DEF Statements, IInv
<1>3. calls[j] \in CallRecords \cup {Idle}
  BY DEF IInv, Types
<1>4. ASSUME NEW at, NEW v, calls' = [calls EXCEPT ![i].value = v, ![i].at = at]
      PROVE  /\ calls'[j].op = calls[j].op /\ calls'[j].cell = calls[j].cell
             /\ j # i => calls'[j].at = calls[j].at
  BY <1>2, <1>4 DEF IInv, Types, CallRecords
<1>5. ASSUME NEW at, NEW v, calls' = [calls EXCEPT ![i].at = at, ![i].value = v]
      PROVE  /\ calls'[j].op = calls[j].op /\ calls'[j].cell = calls[j].cell
             /\ j # i => calls'[j].at = calls[j].at
  BY <1>2, <1>5 DEF IInv, Types, CallRecords
<1>6. ASSUME NEW at, calls' = [calls EXCEPT ![i].at = at]
      PROVE  /\ calls'[j].op = calls[j].op /\ calls'[j].cell = calls[j].cell
             /\ j # i => calls'[j].at = calls[j].at
  BY <1>2, <1>6 DEF IInv, Types, CallRecords
<1>7. ASSUME NEW v, write(i, v)
      PROVE  /\ calls'[j].op = calls[j].op /\ calls'[j].cell = calls[j].cell
             /\ j # i => calls'[j].at = calls[j].at
  <2>1. \/ calls'[j] = calls[j]
        \/ j = i /\ calls'[j] = [calls[j] EXCEPT !.at = "fulfilled"]
        \/ j # i /\ calls'[j] = [calls[j] EXCEPT !.raced = TRUE]
    BY <1>7 DEF write
  <2> QED
    BY <1>3, <2>1 DEF CallRecords, Idle
<1> QED
  BY <1>4, <1>5, <1>6, <1>7 DEF Statement, Read, Select, Update, Insert, Delete, Fails, proceed

LEMMA KeptStatement ==
  ASSUME IInv, AllKept, NEW i \in Calls, Statement(i)
  PROVE  AllKept'
<1>1. SUFFICES ASSUME NEW j \in Calls, failures' = 0, calls'[j].op = "store",
                      calls'[j].at \in Outcomes \cup {"update"}, ~ Removed(calls[j].cell)'
               PROVE  row'[calls'[j].cell] # NoRow
  BY DEF AllKept, Kept
<1>2. calls'[j].op = calls[j].op /\ calls'[j].cell = calls[j].cell
  BY StatementKeepsRequests
<1>3. ~ Removed(calls[j].cell)
  BY <1>1, <1>2, StatementKeepsRequests DEF Removed
<1>4. ~ Fails(i) /\ failures = 0
  BY <1>1 DEF IInv, Types, Statement, Fails, Read, Select, Update, Insert, Delete, proceed, write
<1>5. calls[j].at \in Outcomes \cup {"update"} => row[calls[j].cell] # NoRow
  BY <1>1, <1>2, <1>3, <1>4 DEF AllKept, Kept
<1>6. row'[calls[j].cell] = row[calls[j].cell]
        \/ (row'[calls[j].cell] # NoRow /\ calls[j].cell = calls[i].cell)
  <2>1. CASE row' = row
    BY <2>1
  <2>2. CASE write(i, calls[i].value) /\ calls[i].op = "store" /\ calls[i].value \in Values
    BY <2>2, SqliteAssumption DEF write, IInv, Types
  <2>3. CASE Delete(i)
    <3>1. calls[i].op = "remove"
      BY <2>3 DEF Delete, IInv, Fits
    <3>2. calls[i].cell # calls[j].cell
      BY <1>3, <3>1 DEF Removed
    <3> QED
      BY <2>3, <3>2 DEF Delete, write, IInv, Types
  <2> QED
    BY <1>4, <2>1, <2>2, <2>3 DEF Statement, Read, Select, Update, Insert, proceed, IInv, Fits
<1>7. CASE j # i \/ calls[j].at = "update"
  <2>1. calls[j].at \in Outcomes \cup {"update"}
    BY <1>1, <1>7, StatementKeepsRequests
  <2> QED
    BY <1>2, <1>5, <1>6, <2>1
<1>8. CASE j = i /\ Select(i)
  <2>1. calls[i] \in CallRecords
    BY <1>8, UnderWay DEF IInv, Select
  <2>2. calls'[i].at = statementFor(hasRow(i)) /\ row' = row
    BY <1>8, <2>1 DEF Select, proceed, IInv, Types, CallRecords
  <2> QED
    BY <1>1, <1>2, <1>8, <2>2 DEF statementFor, hasRow, Outcomes
<1>9. CASE j = i /\ Insert(i)
  <2>1. calls[i] \in CallRecords
    BY <1>9, UnderWay DEF IInv, Insert
  <2>2. CASE hasRow(i)
    BY <1>2, <1>6, <1>9, <2>2 DEF hasRow
  <2>3. CASE write(i, calls[i].value)
    <3>1. calls[i].value \in Values /\ calls[i].cell \in Cells
      BY <1>9, <2>1 DEF Insert, IInv, Fits, CallRecords
    <3> QED
      BY <1>2, <1>9, <2>3, <3>1, SqliteAssumption DEF write, IInv, Types
  <2> QED
    BY <1>9, <2>2, <2>3 DEF Insert
<1>10. CASE j = i /\ (Read(i) \/ Delete(i))
  BY <1>1, <1>2, <1>10 DEF Read, Delete, IInv, Fits
<1> QED
  BY <1>4, <1>7, <1>8, <1>9, <1>10 DEF Statement, Update

LEMMA KeptIssue ==
  ASSUME IInv, AllKept, NEW i \in Calls, load(i) \/ update(i) \/ removeBotSession(i)
  PROVE  AllKept'
<1>1. PICK c \in Cells, v \in Values \cup {NoRow}, op \in {"load", "store", "remove"}, s \in Statements \ {"update"} :
        issue(i, op, c, v, s)
  BY DEF load, update, removeBotSession, Cells, Statements
<1>2. calls[i] = Idle
  BY <1>1 DEF issue, IInv, Types, CallRecords, Statements, Outcomes
<1>3. /\ \A j \in Calls \ {i} : calls'[j] = calls[j]
      /\ calls'[i].at \notin Outcomes \cup {"update"}
      /\ row' = row /\ failures' = failures
  BY <1>1 DEF issue, IInv, Types, Statements, Outcomes
<1>4. \A a : Removed(a) => Removed(a)'
  BY <1>2, <1>3 DEF Removed, Idle
<1> QED
  BY <1>3, <1>4 DEF AllKept, Kept

\* AllKept is an invariant.
LEMMA KeptInvariant == Spec => []AllKept
<1>1. Init => AllKept
  BY DEF Init, AllKept, Kept, Idle
<1>2. IInv /\ AllKept /\ [Next]_vars => AllKept'
  <2>1. SUFFICES ASSUME IInv, AllKept, [Next]_vars PROVE AllKept'
    OBVIOUS
  <2>2. CASE UNCHANGED vars
    BY <2>1, <2>2 DEF vars, AllKept, Kept, Removed
  <2>3. CASE Crash
    BY <2>1, <2>3 DEF Crash, AllKept, Kept, IInv, Types
  <2> QED
    BY <2>1, <2>2, <2>3, KeptIssue, KeptStatement DEF Next
<1> QED
  BY <1>1, <1>2, Invariant, PTL DEF Spec

\* However many first stores of a cell race, one of them stays stored: when one
\* has ended, even unsettled, the cell has a row, without failures and removals.
THEOREM FirstStoreIsKept == Spec => []OneStoreWins
<1>1. AllKept => OneStoreWins
  BY DEF AllKept, Kept, Removed, OneStoreWins, hasRow
<1> QED
  BY <1>1, KeptInvariant, PTL

-----------------------------------------------------------------------------
(* The refinement.                                                         *)

LEMMA Seen ==
  ASSUME Types, NEW i \in Calls
  PROVE  /\ AsSeen[i].at = IF calls[i].at \in Statements THEN "pending" ELSE calls[i].at
         /\ AsSeen[i].op = calls[i].op
         /\ AsSeen[i].cell = calls[i].cell
         /\ AsSeen[i].value = calls[i].value
         /\ AsSeen[i].raced = calls[i].raced
<1>1. calls[i] \in CallRecords \cup {Idle}
  BY DEF Types
<1>2. AsSeen[i] = [calls[i] EXCEPT !.at = IF @ \in Statements THEN "pending" ELSE @]
  BY DEF AsSeen, seen
<1> QED
  BY <1>1, <1>2 DEF CallRecords, Idle

LEMMA SeenChange ==
  ASSUME Types, NEW i \in Calls, NEW c, calls' = [calls EXCEPT ![i] = c]
  PROVE  AsSeen' = [AsSeen EXCEPT ![i] = seen(c)]
  BY DEF Types, AsSeen

\* A call that settles is seen to settle.
LEMMA SeenSettle ==
  ASSUME Types, NEW i \in Calls, calls[i].at # "idle", NEW o \in Outcomes, NEW v,
         calls' = [calls EXCEPT ![i].value = v, ![i].at = o]
  PROVE  AsSeen' = [AsSeen EXCEPT ![i].value = v, ![i].at = o]
<1> DEFINE c == [calls[i] EXCEPT !.value = v, !.at = o]
<1>1. calls[i] \in CallRecords
  BY UnderWay
<1>2. c.at = o /\ o \notin Statements
  BY <1>1 DEF CallRecords, Statements, Outcomes
<1>3. seen(c) = c
  BY <1>1, <1>2 DEF CallRecords, seen
<1>4. AsSeen[i] = [calls[i] EXCEPT !.at = IF @ \in Statements THEN "pending" ELSE @]
  BY DEF AsSeen, seen
<1>5. [AsSeen[i] EXCEPT !.value = v, !.at = o] = c
  BY <1>1, <1>4 DEF CallRecords
<1>6. calls' = [calls EXCEPT ![i] = c]
  OBVIOUS
<1>7. AsSeen' = [AsSeen EXCEPT ![i] = seen(c)]
  <2> HIDE DEF c
  <2> QED
    BY <1>6, SeenChange, Zenon
<1> QED
  BY <1>3, <1>5, <1>7

LEMMA SeenOutcome ==
  ASSUME Types, NEW i \in Calls, calls[i].at # "idle", NEW o \in Outcomes,
         calls' = [calls EXCEPT ![i].at = o]
  PROVE  AsSeen' = [AsSeen EXCEPT ![i].at = o]
<1> DEFINE c == [calls[i] EXCEPT !.at = o]
<1>1. calls[i] \in CallRecords
  BY UnderWay
<1>2. c.at = o /\ o \notin Statements
  BY <1>1 DEF CallRecords, Statements, Outcomes
<1>3. seen(c) = c
  BY <1>1, <1>2 DEF CallRecords, seen
<1>4. AsSeen[i] = [calls[i] EXCEPT !.at = IF @ \in Statements THEN "pending" ELSE @]
  BY DEF AsSeen, seen
<1>5. [AsSeen[i] EXCEPT !.at = o] = c
  BY <1>1, <1>4 DEF CallRecords
<1>6. calls' = [calls EXCEPT ![i] = c]
  OBVIOUS
<1>7. AsSeen' = [AsSeen EXCEPT ![i] = seen(c)]
  <2> HIDE DEF c
  <2> QED
    BY <1>6, SeenChange, Zenon
<1> QED
  BY <1>3, <1>5, <1>7

LEMMA InitMaps == Init => Abstract!Init
<1>1. SUFFICES ASSUME Init PROVE Abstract!Init
  OBVIOUS
<1>2. seen(Idle) = Idle
  BY DEF Idle, Statements, seen
<1>3. AsSeen = [i \in Calls |-> Idle]
  BY <1>1, <1>2 DEF Init, AsSeen
<1> QED
  BY <1>1, <1>3 DEF Init, Abstract!Init, Idle, Abstract!Idle

\* A call that is made is seen as made.
LEMMA IssueMaps ==
  ASSUME IInv, NEW i \in Calls, load(i) \/ update(i) \/ removeBotSession(i)
  PROVE  Abstract!Issue(i)
<1>1. PICK c \in Cells, v \in Values \cup {NoRow}, op \in {"load", "store", "remove"}, s \in Statements :
        issue(i, op, c, v, s)
  BY DEF load, update, removeBotSession, Cells, Statements
<1> DEFINE r == [op |-> op, cell |-> c, value |-> v, at |-> s, raced |-> FALSE]
<1>2. seen(r) = [op |-> op, cell |-> c, value |-> v, at |-> "pending", raced |-> FALSE]
  <2>1. seen(r) = [r EXCEPT !.at = "pending"]
    BY DEF seen
  <2> QED
    BY <2>1
<1>3. calls' = [calls EXCEPT ![i] = r] /\ row' = row /\ failures' = failures /\ calls[i].at = "idle"
  BY <1>1 DEF issue
<1>4. AsSeen' = [AsSeen EXCEPT ![i] =
                   [op |-> op, cell |-> c, value |-> v, at |-> "pending", raced |-> FALSE]]
  <2> HIDE DEF r
  <2> QED
    BY <1>2, <1>3, SeenChange DEF IInv
<1>5. AsSeen[i].at = "idle"
  BY <1>3, Seen DEF IInv, Statements
<1> QED
  BY <1>3, <1>4, <1>5 DEF Abstract!Issue

\* A write is seen as the effect of the call.
LEMMA WriteMaps ==
  ASSUME IInv, NEW i \in Calls, calls[i].at \in Statements, calls[i].op # "load",
         write(i, calls[i].value)
  PROVE  Abstract!TakeEffect(i)
<1>1. calls[i] \in CallRecords
  BY UnderWay DEF IInv, Statements
<1>2. AsSeen[i].at = "pending" /\ AsSeen[i].op # "load"
  BY Seen DEF IInv
<1>3. row' = [row EXCEPT ![AsSeen[i].cell] = AsSeen[i].value]
  BY Seen DEF IInv, write
<1>4. ASSUME NEW j \in Calls
      PROVE  AsSeen'[j] = IF j = i THEN [AsSeen[j] EXCEPT !.at = "fulfilled"]
                          ELSE IF AsSeen[j].at = "pending" /\ AsSeen[j].cell = AsSeen[i].cell
                          THEN [AsSeen[j] EXCEPT !.raced = TRUE]
                          ELSE AsSeen[j]
  <2>1. AsSeen[j] = seen(calls[j]) /\ AsSeen'[j] = seen(calls'[j])
    BY DEF AsSeen
  <2>2. AsSeen[j].at = "pending" <=> calls[j].at \in Statements
    <3>1. calls[j].at # "pending"
      BY DEF IInv, Types, CallRecords, Idle, Statements, Outcomes
    <3> QED
      BY <3>1, Seen DEF IInv
  <2>3. AsSeen[j].cell = calls[j].cell /\ AsSeen[i].cell = calls[i].cell
    BY Seen DEF IInv
  <2>4. CASE j = i
    <3>1. calls'[j] = [calls[j] EXCEPT !.at = "fulfilled"]
      BY <2>4 DEF write
    <3>2. calls'[j].at = "fulfilled" /\ "fulfilled" \notin Statements
      BY <1>1, <2>4, <3>1 DEF CallRecords, Statements
    <3>3. seen(calls'[j]) = calls'[j]
      BY <1>1, <2>4, <3>1, <3>2 DEF CallRecords, seen
    <3>4. [seen(calls[j]) EXCEPT !.at = "fulfilled"] = [calls[j] EXCEPT !.at = "fulfilled"]
      BY <1>1, <2>4 DEF CallRecords, seen
    <3> QED
      BY <2>1, <2>4, <3>1, <3>3, <3>4
  <2>5. CASE j # i /\ calls[j].at \in Statements /\ calls[j].cell = calls[i].cell
    <3>1. calls'[j] = [calls[j] EXCEPT !.raced = TRUE]
      BY <2>5 DEF write
    <3>2. calls[j] \in CallRecords
      BY <2>5, UnderWay DEF IInv, Statements
    <3>3. [[calls[j] EXCEPT !.raced = TRUE] EXCEPT !.at = "pending"]
            = [[calls[j] EXCEPT !.at = "pending"] EXCEPT !.raced = TRUE]
      BY <3>2 DEF CallRecords
    <3>4. [calls[j] EXCEPT !.raced = TRUE].at = calls[j].at
      BY <3>2 DEF CallRecords
    <3>5. seen(calls'[j]) = [seen(calls[j]) EXCEPT !.raced = TRUE]
      BY <2>5, <3>1, <3>3, <3>4 DEF seen
    <3> QED
      BY <2>1, <2>2, <2>3, <2>5, <3>5
  <2>6. CASE j # i /\ ~ (calls[j].at \in Statements /\ calls[j].cell = calls[i].cell)
    <3>1. calls'[j] = calls[j]
      BY <2>6 DEF write
    <3> QED
      BY <2>1, <2>2, <2>3, <2>6, <3>1
  <2> QED
    BY <2>4, <2>5, <2>6
<1>5. AsSeen' = [j \in Calls |->
                   IF j = i THEN [AsSeen[j] EXCEPT !.at = "fulfilled"]
                   ELSE IF AsSeen[j].at = "pending" /\ AsSeen[j].cell = AsSeen[i].cell
                   THEN [AsSeen[j] EXCEPT !.raced = TRUE]
                   ELSE AsSeen[j]]
  BY <1>4 DEF AsSeen
<1>6. failures' = failures
  BY DEF write
<1> QED
  BY <1>2, <1>3, <1>5, <1>6 DEF Abstract!TakeEffect

\* A store that changes nothing has been overtaken.
LEMMA OvertakenMaps ==
  ASSUME IInv, NEW i \in Calls, calls[i].at \in {"update", "insert"}, calls[i].raced,
         NEW o \in Abstract!Outcomes, proceed(i, o)
  PROVE  Abstract!Overtaken(i)
<1>1. calls[i] \in CallRecords /\ calls[i].at # "idle" /\ calls[i].at \in Statements
  BY UnderWay DEF IInv, Statements
<1>2. AsSeen[i].at = "pending" /\ AsSeen[i].op = "store" /\ AsSeen[i].raced
  BY <1>1, Seen DEF IInv, Fits
<1>3. AsSeen' = [AsSeen EXCEPT ![i].at = o]
  BY <1>1, SeenOutcome DEF proceed, IInv, Outcomes, Abstract!Outcomes
<1> QED
  BY <1>2, <1>3 DEF Abstract!Overtaken, proceed

LEMMA StatementMaps ==
  ASSUME IInv, NEW i \in Calls, Statement(i)
  PROVE  \/ UNCHANGED Abstract!vars
         \/ Abstract!Read(i) \/ Abstract!TakeEffect(i) \/ Abstract!Overtaken(i) \/ Abstract!Fail(i)
<1>1. calls[i].at \in Statements
  BY DEF Statement, Read, Select, Update, Insert, Delete, Fails, Statements
<1>2. calls[i].at # "idle" /\ calls[i] \in CallRecords
  BY <1>1, UnderWay DEF Statements, IInv
<1>3. AsSeen[i].at = "pending" /\ AsSeen[i].op = calls[i].op
      /\ AsSeen[i].cell = calls[i].cell /\ AsSeen[i].value = calls[i].value
  BY <1>1, Seen DEF IInv
<1>4. Fits(calls[i]) /\ Current(calls[i])
  BY DEF IInv
<1>5. CASE Read(i)
  <2>1. calls' = [calls EXCEPT ![i].value = row[calls[i].cell], ![i].at = "fulfilled"]
    BY <1>5 DEF Read
  <2>2. AsSeen' = [AsSeen EXCEPT ![i].value = row[calls[i].cell], ![i].at = "fulfilled"]
    BY <1>2, <2>1, SeenSettle DEF IInv, Outcomes
  <2>3. AsSeen[i].op = "load"
    BY <1>3, <1>4, <1>5 DEF Read, Fits
  <2> QED
    BY <1>3, <1>5, <2>2, <2>3 DEF Read, Abstract!Read
<1>6. CASE Select(i)
  <2>1. PICK at \in {"insert", "update"} : proceed(i, at)
    BY <1>6 DEF Select, statementFor
  <2> DEFINE c == [calls[i] EXCEPT !.at = at]
  <2>2. calls' = [calls EXCEPT ![i] = c]
    BY <2>1 DEF proceed
  <2>3. seen(c) = AsSeen[i]
    <3>1. c.at = at /\ at \in Statements
      BY <1>2 DEF CallRecords, Statements
    <3>2. [c EXCEPT !.at = "pending"] = [calls[i] EXCEPT !.at = "pending"]
      BY <1>2 DEF CallRecords
    <3> QED
      BY <1>1, <3>1, <3>2 DEF AsSeen, seen
  <2>4. AsSeen' = [AsSeen EXCEPT ![i] = seen(c)]
    <3> HIDE DEF c
    <3> QED
      BY <2>2, SeenChange DEF IInv
  <2>5. AsSeen' = AsSeen
    BY <2>3, <2>4 DEF AsSeen
  <2> QED
    BY <2>1, <2>5 DEF proceed, Abstract!vars
<1>7. CASE Update(i) \/ Insert(i)
  <2>1. calls[i].op = "store" /\ calls[i].at \in {"update", "insert"}
    BY <1>4, <1>7 DEF Update, Insert, Fits
  <2>2. CASE write(i, calls[i].value)
    BY <1>1, <2>1, <2>2, WriteMaps
  <2>3. CASE Update(i) /\ ~ hasRow(i)
    <3>1. calls[i].raced /\ proceed(i, "fulfilled")
      BY <1>4, <2>3 DEF Update, hasRow, Current
    <3> QED
      BY <2>1, <3>1, OvertakenMaps DEF Abstract!Outcomes
  <2>4. CASE Insert(i) /\ hasRow(i)
    <3>1. calls[i].raced /\ proceed(i, onError(i)) /\ onError(i) \in {"hangs", "rejected"}
      BY <1>4, <2>4 DEF Insert, hasRow, Current, onError
    <3> QED
      BY <2>1, <3>1, OvertakenMaps DEF Abstract!Outcomes
  <2> QED
    BY <1>7, <2>2, <2>3, <2>4 DEF Update, Insert
<1>8. CASE Delete(i)
  BY <1>1, <1>4, <1>8, WriteMaps DEF Delete, Fits
<1>9. CASE Fails(i)
  <2>1. PICK o \in Abstract!Outcomes :
          /\ o = onError(i)
          /\ (o = "fulfilled") <=> (calls[i].op = "load")
    BY <1>1, <1>4 DEF onError, Abstract!Outcomes, Fits, Statements
  <2>2. calls' = [calls EXCEPT ![i].at = o]
    <3>1. (IF calls[i].at = "read" THEN default ELSE calls[i].value) = calls[i].value
      BY <1>4 DEF default, Fits
    <3>2. calls' = [calls EXCEPT ![i].at = o, ![i].value = calls[i].value]
      BY <1>9, <2>1, <3>1 DEF Fails
    <3> QED
      BY <1>2, <3>2 DEF IInv, Types, CallRecords
  <2>3. AsSeen' = [AsSeen EXCEPT ![i].at = o]
    BY <1>2, <2>2, SeenOutcome DEF IInv, Outcomes, Abstract!Outcomes
  <2> QED
    BY <1>3, <1>9, <2>1, <2>3 DEF Fails, Abstract!Fail
<1> QED
  BY <1>5, <1>6, <1>7, <1>8, <1>9 DEF Statement

LEMMA CrashMaps ==
  ASSUME IInv, Crash
  PROVE  Abstract!Crash
<1>1. ASSUME NEW j \in Calls
      PROVE  AsSeen'[j] = IF AsSeen[j].at = "pending" THEN [AsSeen[j] EXCEPT !.at = "lost"] ELSE AsSeen[j]
  <2>1. AsSeen[j] = seen(calls[j]) /\ AsSeen'[j] = seen(calls'[j])
    BY DEF AsSeen
  <2>2. AsSeen[j].at = "pending" <=> calls[j].at \in Statements
    <3>1. calls[j].at # "pending"
      BY DEF IInv, Types, CallRecords, Idle, Statements, Outcomes
    <3> QED
      BY <3>1, Seen DEF IInv
  <2>3. CASE calls[j].at \in Statements
    <3>1. calls[j] \in CallRecords
      BY <2>3, UnderWay DEF IInv, Statements
    <3>2. calls'[j] = [calls[j] EXCEPT !.at = "lost"]
      BY <2>3 DEF Crash
    <3>3. calls'[j].at = "lost" /\ "lost" \notin Statements
      BY <3>1, <3>2 DEF CallRecords, Statements
    <3>4. seen(calls'[j]) = calls'[j]
      BY <3>1, <3>2, <3>3 DEF CallRecords, seen
    <3>5. [seen(calls[j]) EXCEPT !.at = "lost"] = [calls[j] EXCEPT !.at = "lost"]
      BY <3>1 DEF CallRecords, seen
    <3> QED
      BY <2>1, <2>2, <2>3, <3>2, <3>4, <3>5
  <2>4. CASE calls[j].at \notin Statements
    BY <2>1, <2>2, <2>4 DEF Crash
  <2> QED
    BY <2>3, <2>4
<1>2. AsSeen' = [j \in Calls |->
        IF AsSeen[j].at = "pending" THEN [AsSeen[j] EXCEPT !.at = "lost"] ELSE AsSeen[j]]
  BY <1>1 DEF AsSeen
<1> QED
  BY <1>2 DEF Crash, Abstract!Crash

\* The statements of different calls mix in any order, but a store that no other
\* call overtakes is seen to take effect at once, and a read reads what is there.
THEOREM StoreImplementsAtomicStore == Spec => ImplementsAtomicStore
<1>1. IInv /\ [Next]_vars => [Abstract!Next]_(Abstract!vars)
  <2>1. SUFFICES ASSUME IInv, [Next]_vars PROVE [Abstract!Next]_(Abstract!vars)
    OBVIOUS
  <2>2. CASE UNCHANGED vars
    BY <2>2 DEF vars, Abstract!vars, AsSeen
  <2> QED
    BY <2>1, <2>2, IssueMaps, StatementMaps, CrashMaps DEF Next, Abstract!Next
<1> QED
  BY <1>1, InitMaps, Invariant, PTL DEF Spec, ImplementsAtomicStore, Abstract!Spec
=============================================================================
