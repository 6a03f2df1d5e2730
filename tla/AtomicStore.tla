---------------------------- MODULE AtomicStore ----------------------------
(***************************************************************************)
(* What a caller may expect of the store: a call that nothing else changes *)
(* the cell of takes effect once, entirely, before its promise is settled. *)
(* A store that another call overtakes while it is under way may be lost,  *)
(* and then need not settle; so may one that fails, while a load that fails *)
(* reads nothing.                                                          *)
(***************************************************************************)
EXTENDS Naturals

CONSTANTS Calls, Cells, Values, NoRow, MaxFailures

VARIABLES
  row,       \* the value of each cell
  calls,     \* what each call asks for and how far it is
  failures   \* how many failures there have been

vars == <<row, calls, failures>>

Outcomes == {"fulfilled", "rejected", "hangs"}

Idle == [op |-> "none", cell |-> NoRow, value |-> NoRow, at |-> "idle", raced |-> FALSE]

Init ==
  /\ row \in [Cells -> Values \cup {NoRow}]
  /\ calls = [i \in Calls |-> Idle]
  /\ failures = 0

Issue(i) ==
  /\ calls[i].at = "idle"
  /\ \E op \in {"load", "store", "remove"}, c \in Cells, v \in Values \cup {NoRow} :
       calls' = [calls EXCEPT ![i] =
                   [op |-> op, cell |-> c, value |-> v, at |-> "pending", raced |-> FALSE]]
  /\ UNCHANGED <<row, failures>>

Read(i) ==
  /\ calls[i].at = "pending" /\ calls[i].op = "load"
  /\ calls' = [calls EXCEPT ![i].value = row[calls[i].cell], ![i].at = "fulfilled"]
  /\ UNCHANGED <<row, failures>>

\* The calls under way on the same cell know that they have been overtaken.
TakeEffect(i) ==
  /\ calls[i].at = "pending" /\ calls[i].op # "load"
  /\ row' = [row EXCEPT ![calls[i].cell] = calls[i].value]
  /\ calls' = [j \in Calls |->
       IF j = i THEN [calls[j] EXCEPT !.at = "fulfilled"]
       ELSE IF calls[j].at = "pending" /\ calls[j].cell = calls[i].cell
       THEN [calls[j] EXCEPT !.raced = TRUE]
       ELSE calls[j]]
  /\ UNCHANGED failures

Overtaken(i) ==
  /\ calls[i].at = "pending" /\ calls[i].op = "store" /\ calls[i].raced
  /\ \E o \in Outcomes : calls' = [calls EXCEPT ![i].at = o]
  /\ UNCHANGED <<row, failures>>

Fail(i) ==
  /\ failures < MaxFailures
  /\ failures' = failures + 1
  /\ calls[i].at = "pending"
  /\ \E o \in Outcomes :
       /\ (o = "fulfilled") <=> (calls[i].op = "load")
       /\ calls' = [calls EXCEPT ![i].at = o]
  /\ UNCHANGED row

Crash ==
  /\ failures < MaxFailures
  /\ failures' = failures + 1
  /\ calls' = [i \in Calls |->
       IF calls[i].at = "pending" THEN [calls[i] EXCEPT !.at = "lost"] ELSE calls[i]]
  /\ UNCHANGED row

Next ==
  \/ \E i \in Calls : Issue(i) \/ Read(i) \/ TakeEffect(i) \/ Overtaken(i) \/ Fail(i)
  \/ Crash

Spec == Init /\ [][Next]_vars
=============================================================================
