\* One non-RT default worker, two producers, one reader: the drain /
\* grace period / invoke order and the futex sleep/wake protocol.
CONSTANTS
  w0 = w0  w1 = w1  c1 = c1  c2 = c2  p1 = p1  p2 = p2  r1 = r1
  Workers = {w0}
  Default = w0
  RTWorkers = {}
  PerCpu <- NoCpus
  ThreadCrdp <- NoThreadCrdp
  Producers = {p1, p2}
  Readers = {r1}
  Callbacks = {c1, c2}
  Destroyer = Destroyer
  Forker = Forker
  ForkRounds = 0
  Spurious = TRUE
  Spare = {}
  Warm = FALSE
  NULL = NULL
SPECIFICATION Spec
INVARIANT TypeOK
PROPERTY RefinesRcuReclaim
INVARIANT CallbackRunOnce
INVARIANT QlenAtRest
INVARIANT NoLostCallback
PROPERTY EveryCallbackInvoked
