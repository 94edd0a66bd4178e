\* free_all_cpu_call_rcu_data() while a producer makes two call_rcu() calls:
\* it races both the slot teardown and the splice onto the default. Cpu 0
\* holds the default worker w0 (refused by call_rcu_data_free), cpu 1 w1.
CONSTANTS
  w0 = w0  w1 = w1  c1 = c1  c2 = c2  p1 = p1  p2 = p2
  Workers = {w0, w1}
  Default = w0
  RTWorkers = {}
  PerCpu <- DefaultCpus
  ThreadCrdp <- NoThreadCrdp
  Producers = {p1}
  Readers = {}
  Callbacks = {c1, c2}
  Destroyer = Destroyer
  Forker = Forker
  ForkRounds = 0
  Spurious = FALSE
  Spare = {}
  Warm = FALSE
  NULL = NULL
SPECIFICATION Spec
INVARIANT NoUseAfterFree
INVARIANT CallbackRunOnce
INVARIANT QlenAtRest
INVARIANT NoLostCallback
INVARIANT QlenOwedBySplice
SYMMETRY CallbackSymmetry
\* With no reader thread the system stops for good once every callback has
\* run and the default worker sleeps in FUTEX_WAIT.
CHECK_DEADLOCK FALSE
