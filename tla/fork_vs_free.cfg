\* free_all_cpu_call_rcu_data() and a fork racing: call_rcu_before_fork()
\* waits for PAUSED on a per-CPU worker whose thread has already stopped.
CONSTANTS
  w0 = w0  w1 = w1  r1 = r1
  Workers = {w0, w1}
  Default = w0
  RTWorkers = {}
  PerCpu <- OneCpu
  ThreadCrdp <- NoThreadCrdp
  Producers = {}
  Readers = {r1}
  Callbacks = {}
  Destroyer = Destroyer
  Forker = Forker
  ForkRounds = 1
  Spurious = TRUE
  Spare = {}
  Warm = FALSE
  NULL = NULL
SPECIFICATION Spec
PROPERTY BeforeForkReturns
