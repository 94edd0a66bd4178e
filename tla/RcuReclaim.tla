----------------------------- MODULE RcuReclaim -----------------------------
(***************************************************************************)
(* What call_rcu() promises the user, with no queues and no threads: an    *)
(* object is first reachable (readers may pick it up in a read-side       *)
(* critical section), then the updater unlinks it and hands it to         *)
(* call_rcu(), and later its callback frees it exactly once, at a moment  *)
(* when no reader still dereferences it.  A reader can only find objects  *)
(* that are still linked, so one that holds a queued object entered its   *)
(* critical section before call_rcu(); this is the grace-period rule.     *)
(* CallRcu is shown to implement it.                                      *)
(***************************************************************************)
CONSTANTS Objects, Readers, NULL

VARIABLES
  status,  \* status[o] \in {"linked", "queued", "freed"}
  rin,     \* readers inside a read-side critical section
  holds    \* holds[r]: the object reader r dereferences, or NULL

vars == <<status, rin, holds>>

Init ==
  /\ status = [o \in Objects |-> "linked"]
  /\ rin = {}
  /\ holds = [r \in Readers |-> NULL]

(* The updater unlinks o and hands it to call_rcu().                       *)
Retire(o) ==
  /\ status[o] = "linked"
  /\ status' = [status EXCEPT ![o] = "queued"]
  /\ UNCHANGED <<rin, holds>>

(* o's callback runs: allowed only once no reader dereferences o.         *)
Free(o) ==
  /\ status[o] = "queued"
  /\ \A r \in Readers : holds[r] # o
  /\ status' = [status EXCEPT ![o] = "freed"]
  /\ UNCHANGED <<rin, holds>>

(* rcu_read_lock() and a lookup that finds a linked object, or nothing.    *)
Lock(r) ==
  /\ r \notin rin
  /\ \E o \in {x \in Objects : status[x] = "linked"} \cup {NULL} :
       holds' = [holds EXCEPT ![r] = o]
  /\ rin' = rin \cup {r}
  /\ UNCHANGED status

Unlock(r) ==
  /\ r \in rin
  /\ rin' = rin \ {r}
  /\ holds' = [holds EXCEPT ![r] = NULL]
  /\ UNCHANGED status

(* A fork child keeps only the forking thread: no reader survives.         *)
ReadersLost ==
  /\ rin' = {}
  /\ holds' = [r \in Readers |-> NULL]
  /\ UNCHANGED status

Next ==
  \/ \E o \in Objects : Retire(o) \/ Free(o)
  \/ \E r \in Readers : Lock(r) \/ Unlock(r)
  \/ ReadersLost

Spec == Init /\ [][Next]_vars
=============================================================================
