\* The older call_rcu: free_all_cpu_call_rcu_data() evicts the per-CPU
\* worker w1 while a producer calls call_rcu(); w0 is the default.
CONSTANTS
  w0 = w0  w1 = w1  c1 = c1  p1 = p1
  Workers = {w0, w1}
  Default = w0
  RTWorkers = {}
  PerCpu <- OneCpu
  Producers = {p1}
  Callbacks = {c1}
  Destroyer = Destroyer
  Forker = Forker
  ForkRounds = 0
  Spare = {}
  Warm = TRUE
  NULL = NULL
SPECIFICATION Spec
INVARIANT CrdpLive
\* Once free_all returns and the producer is idle nothing else runs: the
\* default worker sleeps in FUTEX_WAIT for good.
CHECK_DEADLOCK FALSE
