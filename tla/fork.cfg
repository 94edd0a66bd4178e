\* One fork cycle with the default worker and an RT worker while a producer
\* calls call_rcu(): before_fork pauses both threads, after_fork_parent
\* resumes them.
CONSTANTS
  w0 = w0  w1 = w1  c1 = c1  p1 = p1
  Workers = {w0, w1}
  Default = w0
  RTWorkers = {w1}
  PerCpu <- NoCpus
  ThreadCrdp <- W1ThreadCrdp
  Producers = {p1}
  Readers = {}
  Callbacks = {c1}
  Destroyer = Destroyer
  Forker = Forker
  ForkRounds = 1
  Spurious = FALSE
  Spare = {}
  Warm = FALSE
  NULL = NULL
SPECIFICATION Spec
INVARIANT ForkQuiescent
PROPERTY BeforeForkReturns
PROPERTY EveryCallbackInvoked
\* The pause handshake is made of poll() loops (before_fork waiting for
\* PAUSED, a paused worker waiting for PAUSE to clear), written as guards:
\* a state where they all wait is a livelock, judged by the two PROPERTYs.
CHECK_DEADLOCK FALSE
