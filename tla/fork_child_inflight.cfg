\* A fork while a producer is inside call_rcu(): the producer has swapped
\* the tail of the warm default worker's empty queue but not yet linked its
\* node.  In the child that link is never stored, and call_rcu_data_free()
\* polls for a non-NULL head forever: after_fork_child never returns.
CONSTANTS
  w0 = w0  w1 = w1  c1 = c1  p1 = p1
  Workers = {w0, w2}
  Default = w0
  RTWorkers = {}
  PerCpu <- NoCpus
  ThreadCrdp <- NoThreadCrdp
  Producers = {p1}
  Readers = {}
  Callbacks = {c1}
  Destroyer = Destroyer
  Forker = Forker
  ForkRounds = 1
  Spurious = FALSE
  Spare = {w2}
  Warm = TRUE
  NULL = NULL
SPECIFICATION Spec
PROPERTY ChildReturns
CHECK_DEADLOCK FALSE
