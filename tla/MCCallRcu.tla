----------------------------- MODULE MCCallRcu -----------------------------
(* Model-checking instance of CallRcu: the workers and the other constants *)
(* are model values set in each .cfg; this module builds the contents of   *)
(* per_cpu_call_rcu_data and the threads' own crdps for them, and the     *)
(* symmetry set of safety runs.                                          *)
EXTENDS CallRcu, TLC

CONSTANTS w0, w1

NoCpus      == [c \in {} |-> NULL]          \* per-CPU array never allocated
OneCpu      == (0 :> w1)                    \* create_all on one CPU
DefaultCpus == (0 :> w0 @@ 1 :> w1)         \* cpu 0 given the default worker
SharedCpus  == (0 :> w1 @@ 1 :> w1)         \* one worker set on two CPUs

NoThreadCrdp == [p \in Producers |-> NULL]   \* no thread has its own crdp
W1ThreadCrdp == [p \in Producers |-> w1]     \* producers may switch to w1

CallbackSymmetry == Permutations(Callbacks)
=============================================================================
