\* A fork right after the default worker was created: before_fork pauses
\* w0 before its first drain, so w0's own dummy node is still queued;
\* after_fork_child splices it onto the new default w2, which runs it as a
\* callback.  No producer is needed.
CONSTANTS
  w0 = w0  w1 = w1
  Workers = {w0, w2}
  Default = w0
  RTWorkers = {}
  PerCpu <- NoCpus
  ThreadCrdp <- NoThreadCrdp
  Producers = {}
  Readers = {}
  Callbacks = {}
  Destroyer = Destroyer
  Forker = Forker
  ForkRounds = 1
  Spurious = FALSE
  Spare = {w2}
  Warm = FALSE
  NULL = NULL
SPECIFICATION Spec
INVARIANT CallbackRunOnce
CHECK_DEADLOCK FALSE
