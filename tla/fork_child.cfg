\* The child side of fork: two warm workers (the default w0 and w1, reached
\* through a thread override), a producer racing the fork, then
\* after_fork_child creates w2 as the new default and frees w0 and w1,
\* splicing their callbacks onto w2. One producer makes two calls.
CONSTANTS
  w0 = w0  w1 = w1  c1 = c1  c2 = c2  p1 = p1
  Workers = {w0, w1, w2}
  Default = w0
  RTWorkers = {}
  PerCpu <- NoCpus
  ThreadCrdp <- W1ThreadCrdp
  Producers = {p1}
  Readers = {}
  Callbacks = {c1, c2}
  Destroyer = Destroyer
  Forker = Forker
  ForkRounds = 1
  Spurious = FALSE
  Spare = {w2}
  Warm = TRUE
  NULL = NULL
SPECIFICATION Spec
SYMMETRY CallbackSymmetry
INVARIANT CallbackRunOnce
INVARIANT NoUseAfterFree
\* In the child every thread but the forking one is gone: the new default
\* worker, once its queue is drained, sleeps with nothing left to run.
CHECK_DEADLOCK FALSE
