\* One worker installed on two CPUs with set_cpu_call_rcu_data(), which
\* only refuses an occupied slot.  free_all_cpu_call_rcu_data() copies both
\* slots into crdp[] and calls call_rcu_data_free() on each entry.
CONSTANTS
  w0 = w0  w1 = w1
  Workers = {w0, w1}
  Default = w0
  RTWorkers = {}
  PerCpu <- SharedCpus
  ThreadCrdp <- NoThreadCrdp
  Producers = {}
  Readers = {}
  Callbacks = {}
  Destroyer = Destroyer
  Forker = Forker
  ForkRounds = 0
  Spurious = FALSE
  Spare = {}
  Warm = FALSE
  NULL = NULL
SPECIFICATION Spec
INVARIANT NoUseAfterFree
\* Once free_all returns nothing else runs.
CHECK_DEADLOCK FALSE
