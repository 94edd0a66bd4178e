------------------------------- MODULE RcuGp -------------------------------
(***************************************************************************)
(* What an RCU grace period promises, with no mechanism: readers enter and *)
(* leave read-side critical sections; synchronize_rcu() begins by taking   *)
(* the set of readers inside one and may return only once each of them has *)
(* left that critical section.  CallRcu uses this promise for every call   *)
(* of synchronize_rcu(); Qsbr implements it with the QSBR counters.        *)
(***************************************************************************)
CONSTANTS Readers

VARIABLES
  inCS,    \* readers inside a read-side critical section
  waitFor, \* readers the pending grace period still waits for
  busy     \* a synchronize_rcu() is in progress

vars == <<inCS, waitFor, busy>>

Init == inCS = {} /\ waitFor = {} /\ busy = FALSE

Enter(r) ==
  /\ r \notin inCS
  /\ inCS' = inCS \cup {r}
  /\ UNCHANGED <<waitFor, busy>>

Exit(r) ==
  /\ r \in inCS
  /\ inCS' = inCS \ {r}
  /\ waitFor' = waitFor \ {r}
  /\ UNCHANGED busy

Begin ==
  /\ ~busy
  /\ busy' = TRUE
  /\ waitFor' = inCS
  /\ UNCHANGED inCS

End ==
  /\ busy
  /\ waitFor = {}
  /\ busy' = FALSE
  /\ UNCHANGED <<inCS, waitFor>>

Next == Begin \/ End \/ \E r \in Readers : Enter(r) \/ Exit(r)

Spec == Init /\ [][Next]_vars
=============================================================================
