\* QSBR in both builds: the 32-bit binary with a 2-bit counter and two
\* parity flips per synchronize_rcu(), the 64-bit one with a 3-bit counter
\* and one increment.  Two readers; two grace periods, so the 32-bit counter
\* wraps back to a value a stale reader may hold.  The 32-bit writer sleeps
\* on gp_futex after its first scan, the 64-bit one after two.
CONSTANTS
  Readers = {r1, r2}
  Builds = {"32", "64"}
  CtrBits <- BuildWidths
  ActiveAttempts <- BuildAttempts
  MaxGp = 2
SPECIFICATION Spec
INVARIANT TypeOK
INVARIANT WakeupPending
PROPERTY RefinesRcuGp
PROPERTY SyncReturns
