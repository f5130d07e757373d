------------------------- MODULE OperationLifecycle -------------------------
(***************************************************************************)
(* What the task manager of bm promises about operations, without its      *)
(* mutexes, goroutines and transactions:                                   *)
(*   - a cluster is worked on by at most one operation at a time;          *)
(*   - an operation id is journalled (given a row of the history bucket)   *)
(*     at most once, so a row that was removed never comes back;           *)
(*   - a row that reports an outcome keeps it until it is removed.         *)
(* TaskManager.tla implements this specification.                          *)
(***************************************************************************)
CONSTANTS Clusters, Tasks, Nobody, Outcomes

VARIABLES
  holder,   \* holder[c]: the operation that has cluster c, or Nobody
  journal,  \* journal[t]: "absent", "running" or an outcome
  fresh     \* the ids that may still be given a row

lifecycleVars == <<holder, journal, fresh>>

Init ==
  /\ holder = [c \in Clusters |-> Nobody]
  /\ journal = [t \in Tasks |-> "absent"]
  /\ fresh = Tasks

\* A fresh operation that has no cluster takes a free one.
Begin(c, t) ==
  /\ holder[c] = Nobody
  /\ t \in fresh
  /\ \A d \in Clusters : holder[d] # t
  /\ holder' = [holder EXCEPT ![c] = t]
  /\ UNCHANGED <<journal, fresh>>

\* The one time an id enters the journal.
Open(t, s) ==
  /\ t \in fresh
  /\ journal[t] = "absent"
  /\ journal' = [journal EXCEPT ![t] = s]
  /\ fresh' = fresh \ {t}
  /\ UNCHANGED holder

\* A running row gets its outcome.
Settle(t, s) ==
  /\ journal[t] = "running"
  /\ journal' = [journal EXCEPT ![t] = s]
  /\ UNCHANGED <<holder, fresh>>

\* Rows are removed: the history is cleared or swept.
Forget(S) ==
  /\ journal' = [t \in Tasks |-> IF t \in S THEN "absent" ELSE journal[t]]
  /\ UNCHANGED <<holder, fresh>>

\* A cluster is given up. An operation that gives it up without a row may
\* lose the right to have one.
Release(c, void) ==
  /\ holder[c] # Nobody
  /\ holder' = [holder EXCEPT ![c] = Nobody]
  /\ fresh' = fresh \ void
  /\ UNCHANGED journal

\* An insertion fails: its id will have no row.
GiveUp(t) ==
  /\ fresh' = fresh \ {t}
  /\ UNCHANGED <<holder, journal>>

\* The process ends: every cluster is free, unfinished insertions are lost.
Halt(void) ==
  /\ holder' = [c \in Clusters |-> Nobody]
  /\ fresh' = fresh \ void
  /\ UNCHANGED journal

Next ==
  \/ \E c \in Clusters, t \in Tasks : Begin(c, t)
  \/ \E t \in Tasks, s \in Outcomes \cup {"running"} : Open(t, s)
  \/ \E t \in Tasks, s \in Outcomes : Settle(t, s)
  \/ \E S \in SUBSET Tasks : Forget(S)
  \/ \E c \in Clusters, void \in SUBSET Tasks : Release(c, void)
  \/ \E t \in Tasks : GiveUp(t)
  \/ \E void \in SUBSET Tasks : Halt(void)

Spec == Init /\ [][Next]_lifecycleVars
=============================================================================
