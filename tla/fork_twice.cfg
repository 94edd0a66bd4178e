\* Two fork cycles with one worker: the second call_rcu_before_fork() finds
\* PAUSED still set from the first one.
CONSTANTS
  w0 = w0  w1 = w1  c1 = c1  p1 = p1  r1 = r1
  Workers = {w0}
  Default = w0
  RTWorkers = {}
  PerCpu <- NoCpus
  ThreadCrdp <- NoThreadCrdp
  Producers = {p1}
  Readers = {r1}
  Callbacks = {c1}
  Destroyer = Destroyer
  Forker = Forker
  ForkRounds = 2
  Spurious = TRUE
  Spare = {}
  Warm = FALSE
  NULL = NULL
SPECIFICATION Spec
INVARIANT ForkQuiescent
