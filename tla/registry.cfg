\* On a 2-CPU host one thread runs create_all_cpu_call_rcu_data(), one
\* creates a worker and installs it on a cpu from -1 .. 2 (so on each CPU
\* and out of range on both sides), and two call get_call_rcu_data(), so
\* both can read a NULL default and race to create it; the
\* per-CPU array's malloc() may fail, in whichever call allocates it.  The
\* installer races create_all for a slot, so both EEXIST-and-free paths
\* run.  Five structures cover the live maximum: two per-CPU workers, the
\* default, and the two unpublished ones of create_all and the installer.
\* A second create_all or installer thread takes TLC past 10^6 states.
\* About 290 000 states.
CONSTANTS
  Crdps = {k1, k2, k3, k4, k5}
  Creators = {t1}
  Getters = {g1, g2}
  Installers = {a1}
  NCpus = 2
  MallocFails = TRUE
  NULL = NULL
SPECIFICATION Spec
INVARIANT TypeOK
INVARIANT NoOrphanWorker
INVARIANT CreateAllPopulates
INVARIANT GetReturnsListed
INVARIANT InstallSticks
PROPERTY PublishedNeverReplaced
PROPERTY AllReturn
\* call_rcu_data_free's poll() for STOPPED is written as a guard: a state
\* where it waits for good is a livelock, judged by AllReturn, which also
\* says every thread reaches its return.  Terminated is the stutter after.
CHECK_DEADLOCK FALSE
