---------------------------- MODULE SqliteStore ----------------------------
(***************************************************************************)
(* SqliteStore of bot/src/lib/Storage.js: the sessions and the key/value   *)
(* pairs.  A store is two statements, a SELECT and then an UPDATE or an    *)
(* INSERT; the library runs the statements of different calls in any       *)
(* order.  A statement and the callback it ends with are one action: what  *)
(* the callback does is to settle the promise or to start the next one.    *)
(*                                                                         *)
(* A cell is the row of a session or of a key.  Its value, once a string   *)
(* of JSON, is never looked into.  The address and the key are unique, as  *)
(* the ON CONFLICT clauses of the Postgres store demand of the same        *)
(* tables.                                                                 *)
(***************************************************************************)
EXTENDS Naturals

CONSTANTS
  Calls,         \* bound: the calls that can be made
  Addresses,     \* the cells of bot_sessions
  Keys,          \* the cells of key_value_store
  Values,
  NoRow,
  MaxFailures    \* bound: failed statements and crashes

ASSUME SqliteAssumption ==
  /\ Addresses \cap Keys = {}
  /\ NoRow \notin Values
  /\ MaxFailures \in Nat

Cells == Addresses \cup Keys

VARIABLES
  row,       \* the value of each cell
  calls,     \* of each call: what it asks for, the statement it is at or its
             \* outcome, and (history) whether another changed the cell meanwhile
  failures   \* how many failures there have been

vars == <<row, calls, failures>>

Statements == {"read", "select", "update", "insert", "delete"}
Outcomes   == {"fulfilled", "rejected", "hangs", "lost"}

Idle == [op |-> "none", cell |-> NoRow, value |-> NoRow, at |-> "idle", raced |-> FALSE]

Init ==
  /\ row \in [Cells -> Values \cup {NoRow}]
  /\ calls = [i \in Calls |-> Idle]
  /\ failures = 0

-----------------------------------------------------------------------------
(* The calls.  What is stored is put into a string at once.                *)

issue(i, op, c, v, statement) ==
  /\ calls[i].at = "idle"
  /\ calls' = [calls EXCEPT ![i] =
                 [op |-> op, cell |-> c, value |-> v, at |-> statement, raced |-> FALSE]]
  /\ UNCHANGED <<row, failures>>

load(i)   == \E c \in Cells : issue(i, "load", c, NoRow, "read")
update(i) == \E c \in Cells, v \in Values : issue(i, "store", c, v, "select")
removeBotSession(i) == \E c \in Addresses : issue(i, "remove", c, NoRow, "delete")

-----------------------------------------------------------------------------
(* The statements.                                                         *)

proceed(i, at) == calls' = [calls EXCEPT ![i].at = at] /\ UNCHANGED <<row, failures>>

write(i, v) ==
  /\ row' = [row EXCEPT ![calls[i].cell] = v]
  /\ calls' = [j \in Calls |->
       IF j = i THEN [calls[j] EXCEPT !.at = "fulfilled"]
       ELSE IF calls[j].at \in Statements /\ calls[j].cell = calls[i].cell
       THEN [calls[j] EXCEPT !.raced = TRUE]
       ELSE calls[j]]
  /\ UNCHANGED failures

hasRow(i) == row[calls[i].cell] # NoRow

\* Mutants: every store inserts; the two statements are exchanged.
statementForMutant(found) == "insert"
statementForExchangedMutant(found) == IF found THEN "insert" ELSE "update"
statementFor(found) == IF found THEN "update" ELSE "insert"

\* Only the insertion of a session, when it fails, neither fulfills nor rejects.
onError(i) ==
  IF calls[i].at = "read" THEN "fulfilled"
  ELSE IF calls[i].at = "insert" /\ calls[i].cell \in Addresses THEN "hangs"
  ELSE "rejected"

Read(i) ==
  /\ calls[i].at = "read"
  /\ calls' = [calls EXCEPT ![i].value = row[calls[i].cell], ![i].at = "fulfilled"]
  /\ UNCHANGED <<row, failures>>

Select(i) == calls[i].at = "select" /\ proceed(i, statementFor(hasRow(i)))

\* An UPDATE that finds no row any more changes nothing, and that is no error.
Update(i) ==
  /\ calls[i].at = "update"
  /\ IF hasRow(i) THEN write(i, calls[i].value) ELSE proceed(i, "fulfilled")

\* An INSERT that finds a row violates the unique key.
Insert(i) ==
  /\ calls[i].at = "insert"
  /\ IF hasRow(i) THEN proceed(i, onError(i)) ELSE write(i, calls[i].value)

Delete(i) == calls[i].at = "delete" /\ write(i, NoRow)

\* Mutant: a read that fails yields no default.
defaultMutant == "undefined"
\* The default is a session, or null, that stands for nothing stored.
default == NoRow

\* Any statement can fail; a read then settles with the default.
Fails(i) ==
  /\ failures < MaxFailures
  /\ failures' = failures + 1
  /\ calls[i].at \in Statements
  /\ calls' = [calls EXCEPT ![i].at = onError(i),
                            ![i].value = IF calls[i].at = "read" THEN default ELSE @]
  /\ UNCHANGED row

Statement(i) ==
  \/ Read(i) \/ Select(i) \/ Update(i) \/ Insert(i) \/ Delete(i) \/ Fails(i)

\* The process stops; the file keeps what the statements have written.
Crash ==
  /\ failures < MaxFailures
  /\ failures' = failures + 1
  /\ calls' = [i \in Calls |->
       IF calls[i].at \in Statements THEN [calls[i] EXCEPT !.at = "lost"] ELSE calls[i]]
  /\ UNCHANGED row

Next ==
  \/ \E i \in Calls : load(i) \/ update(i) \/ removeBotSession(i) \/ Statement(i)
  \/ Crash

Spec == Init /\ [][Next]_vars

\* The library calls back for every statement, if with an error.
FairSpec == Spec /\ \A i \in Calls : WF_vars(Statement(i))

-----------------------------------------------------------------------------
CallRecords ==
  [op : {"load", "store", "remove"}, cell : Cells, value : Values \cup {NoRow},
   at : Statements \cup Outcomes, raced : BOOLEAN]

TypeOK ==
  /\ row \in [Cells -> Values \cup {NoRow}]
  /\ calls \in [Calls -> CallRecords \cup {Idle}]
  /\ failures \in 0 .. MaxFailures

\* The promise of a store stays unsettled only if another call changed the row
\* while it was under way: two first stores that both found none, or a removal.
OnlyRacedStoresHang ==
  \A i \in Calls : calls[i].at = "hangs" /\ failures = 0 => calls[i].raced

\* However many first stores of a cell meet, one of them is stored: when all
\* have ended, without failures and removals, the cell has a row.
OneStoreWins ==
  \A i \in Calls :
    /\ failures = 0
    /\ calls[i].op = "store" /\ calls[i].at \in Outcomes
    /\ \A j \in Calls : calls[j].cell = calls[i].cell => calls[j].op # "remove"
    => hasRow(i)

\* The caller does not see which statement a call is at.
seen(c) == [c EXCEPT !.at = IF @ \in Statements THEN "pending" ELSE @]
AsSeen == [i \in Calls |-> seen(calls[i])]

Abstract == INSTANCE AtomicStore WITH calls <- AsSeen

\* The two statements of a store, mixed with those of others, look like one.
ImplementsAtomicStore == Abstract!Spec

\* A store to a cell that has a row settles, whatever other stores do, unless
\* the row is removed or a failure gets in the way.
StoresOfRowsSettle ==
  \A i \in Calls, c \in Cells :
    calls[i].at = "select" /\ calls[i].cell = c /\ row[c] # NoRow
      ~> calls[i].at \in {"fulfilled", "rejected", "lost"} \/ row[c] = NoRow
=============================================================================
