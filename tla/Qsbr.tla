------------------------------- MODULE Qsbr --------------------------------
(***************************************************************************)
(* Grace-period detection of the QSBR flavour (src/urcu/static/urcu-qsbr.h)*)
(* Each registered reader publishes in rcu_reader.ctr either 0 (offline)   *)
(* or the value of rcu_gp_ctr it last saw at a quiescent state; a writer   *)
(* in synchronize_rcu() advances rcu_gp_ctr and waits until no reader's    *)
(* ctr is ongoing (non-zero and different from rcu_gp_ctr), sleeping on    *)
(* gp_futex after ActiveAttempts scans; a reader that sees its waiting     *)
(* flag wakes it (wake_up_gp).                                             *)
(*                                                                         *)
(* The writer side lives in urcu-qsbr.c, outside this repository: it is    *)
(* the counterpart that the header's protocol defines (RCU_GP_CTR steps of *)
(* rcu_gp_ctr, the waiting flag, gp_futex at -1 while the writer may      *)
(* sleep), in its 64-bit form (one increment) and its 32-bit form (two    *)
(* parity flips).  Which form runs is fixed when the library is built: the *)
(* variable build is chosen in Init among Builds and never changes, so one *)
(* model covers both binaries.  rcu_gp_ctr is CtrBits[build] wide.         *)
(***************************************************************************)
EXTENDS Integers, FiniteSets

CONSTANTS
  Readers,         \* registered reader threads
  Builds,          \* word sizes the library is built for: "32", "64"
  CtrBits,         \* CtrBits[b]: width of rcu_gp_ctr and rcu_reader.ctr
  ActiveAttempts,  \* ActiveAttempts[b]: RCU_QS_ACTIVE_ATTEMPTS, scans before sleeping
  MaxGp            \* bound on the number of synchronize_rcu() calls

ASSUME /\ Readers # {}
       /\ Builds \subseteq {"32", "64"} /\ Builds # {}
       /\ CtrBits \in [Builds -> Nat \ {0, 1}]
       /\ ActiveAttempts \in [Builds -> Nat \ {0}]
       /\ MaxGp \in Nat

RCU_GP_ONLINE == 1
RCU_GP_CTR    == 2

VARIABLES
  build,    \* the word size of the running binary
  gpCtr,    \* rcu_gp_ctr
  ctr,      \* ctr[r]: URCU_TLS(rcu_reader).ctr of reader r
  waiting,  \* waiting[r]: URCU_TLS(rcu_reader).waiting
  gpFutex,  \* gp_futex
  rpc,      \* control point of each reader
  rval,     \* the rcu_gp_ctr value a reader loaded and is about to store
  rret,     \* where a reader goes back to after wake_up_gp()
  wpc,      \* control point of the writer in synchronize_rcu()
  wloops,   \* wait_loops
  phase,    \* the counter update of this synchronize_rcu() being waited on
  qs,       \* qsreaders: readers seen quiescent in this phase
  toScan,   \* readers the current registry scan has still to read
  gps,      \* completed synchronize_rcu() calls
  gpSnap    \* history: readers in a critical section when the call began

readerVars == <<ctr, waiting, rpc, rval, rret>>
writerVars == <<gpCtr, wpc, wloops, phase, qs, toScan, gps>>
vars == <<build, readerVars, writerVars, gpFutex, gpSnap>>

CtrMod == 2^CtrBits[build]
Attempts == ActiveAttempts[build]
(* counter updates per synchronize_rcu(): two parity flips on 32-bit *)
Phases == IF build = "32" THEN 2 ELSE 1

(* rcu_gp_ongoing(): the reader is online and has not seen this counter.   *)
Ongoing(v) == v # 0 /\ v # gpCtr

Init ==
  /\ build \in Builds
  /\ gpCtr = RCU_GP_ONLINE
  /\ ctr = [r \in Readers |-> 0]
  /\ waiting = [r \in Readers |-> FALSE]
  /\ gpFutex = 0
  /\ rpc = [r \in Readers |-> "offline"]
  /\ rval = [r \in Readers |-> 0]
  /\ rret = [r \in Readers |-> "idle"]
  /\ wpc = "idle"
  /\ wloops = 0
  /\ phase = 1
  /\ qs = {}
  /\ toScan = {}
  /\ gps = 0
  /\ gpSnap = {}

Go(r, l) == rpc' = [rpc EXCEPT ![r] = l]

-----------------------------------------------------------------------------
(* Readers.                                                                *)

(* _rcu_thread_online(): load rcu_gp_ctr ...                               *)
OnLoad(r) ==
  /\ rpc[r] = "offline"
  /\ rval' = [rval EXCEPT ![r] = gpCtr]
  /\ Go(r, "on_store")
  /\ UNCHANGED <<build, ctr, waiting, rret, writerVars, gpFutex, gpSnap>>

(* ... and store it into the reader's ctr.                                 *)
OnStore(r) ==
  /\ rpc[r] = "on_store"
  /\ ctr' = [ctr EXCEPT ![r] = rval[r]]
  /\ Go(r, "idle")
  /\ UNCHANGED <<build, waiting, rval, rret, writerVars, gpFutex, gpSnap>>

(* _rcu_read_lock(): only asserts the reader is online.                    *)
ReadLock(r) ==
  /\ rpc[r] = "idle"
  /\ ctr[r] # 0
  /\ Go(r, "cs")
  /\ UNCHANGED <<build, ctr, waiting, rval, rret, writerVars, gpFutex, gpSnap>>

(* _rcu_read_unlock(): does nothing; the critical section is over.         *)
ReadUnlock(r) ==
  /\ rpc[r] = "cs"
  /\ Go(r, "idle")
  /\ gpSnap' = gpSnap \ {r}
  /\ UNCHANGED <<build, ctr, waiting, rval, rret, writerVars, gpFutex>>

(* _rcu_quiescent_state(): load rcu_gp_ctr ...                             *)
QsLoad(r) ==
  /\ rpc[r] = "idle"
  /\ rval' = [rval EXCEPT ![r] = gpCtr]
  /\ Go(r, "qs_store")
  /\ UNCHANGED <<build, ctr, waiting, rret, writerVars, gpFutex, gpSnap>>

(* ... store it into ctr, then wake_up_gp().                               *)
QsStore(r) ==
  /\ rpc[r] = "qs_store"
  /\ ctr' = [ctr EXCEPT ![r] = rval[r]]
  /\ rret' = [rret EXCEPT ![r] = "idle"]
  /\ Go(r, "wake_check")
  /\ UNCHANGED <<build, waiting, rval, writerVars, gpFutex, gpSnap>>

(* _rcu_thread_offline(): store 0 into ctr, then wake_up_gp().             *)
OffStore(r) ==
  /\ rpc[r] = "idle"
  /\ ctr' = [ctr EXCEPT ![r] = 0]
  /\ rret' = [rret EXCEPT ![r] = "offline"]
  /\ Go(r, "wake_check")
  /\ UNCHANGED <<build, waiting, rval, writerVars, gpFutex, gpSnap>>

(* wake_up_gp(): if waiting is set, clear it and go on to gp_futex.        *)
WakeCheck(r) ==
  /\ rpc[r] = "wake_check"
  /\ waiting' = [waiting EXCEPT ![r] = FALSE]
  /\ Go(r, IF waiting[r] THEN "wake_futex" ELSE rret[r])
  /\ UNCHANGED <<build, ctr, rval, rret, writerVars, gpFutex, gpSnap>>

(* Return unless gp_futex is -1.                                           *)
WakeFutex(r) ==
  /\ rpc[r] = "wake_futex"
  /\ Go(r, IF gpFutex # -1 THEN rret[r] ELSE "wake_set")
  /\ UNCHANGED <<build, ctr, waiting, rval, rret, writerVars, gpFutex, gpSnap>>

(* uatomic_set(&gp_futex, 0), then FUTEX_WAKE, which releases a writer     *)
(* asleep in FUTEX_WAIT.                                                   *)
WakeSet(r) ==
  /\ rpc[r] = "wake_set"
  /\ gpFutex' = 0
  /\ Go(r, "wake_call")
  /\ UNCHANGED <<build, ctr, waiting, rval, rret, writerVars, gpSnap>>

WakeCall(r) ==
  /\ rpc[r] = "wake_call"
  /\ wpc' = IF wpc = "blocked" THEN "loop" ELSE wpc
  /\ Go(r, rret[r])
  /\ UNCHANGED <<build, ctr, waiting, rval, rret, gpCtr, wloops, phase, qs, toScan,
                 gps, gpFutex, gpSnap>>

-----------------------------------------------------------------------------
(* The writer: synchronize_rcu() and wait_for_readers().                   *)

(* Take rcu_gp_lock and start a grace period.                              *)
SyncStart ==
  /\ wpc = "idle"
  /\ gps < MaxGp
  /\ wpc' = "advance"
  /\ phase' = 1
  /\ gpSnap' = {r \in Readers : rpc[r] = "cs"}
  /\ UNCHANGED <<build, readerVars, gpCtr, wloops, qs, toScan, gps, gpFutex>>

(* Mutant: the counter update is left out before the wait.               *)
AdvanceNoUpdate ==
  /\ wpc = "advance"
  /\ wloops' = 0
  /\ qs' = {}
  /\ wpc' = "loop"
  /\ UNCHANGED <<build, readerVars, gpCtr, phase, toScan, gps, gpFutex, gpSnap>>

(* Update rcu_gp_ctr (add RCU_GP_CTR, or flip it on 32-bit) and start the *)
(* wait with an empty qsreaders list.                                      *)
Advance ==
  /\ wpc = "advance"
  /\ gpCtr' = (gpCtr + RCU_GP_CTR) % CtrMod
  /\ wloops' = 0
  /\ qs' = {}
  /\ wpc' = "loop"
  /\ UNCHANGED <<build, readerVars, phase, toScan, gps, gpFutex, gpSnap>>

(* Mutant: wait_loops is incremented without the RCU_QS_ACTIVE_ATTEMPTS   *)
(* cap.                                                                    *)
LoopTopUncapped ==
  /\ wpc = "loop"
  /\ wloops' = wloops + 1
  /\ IF wloops + 1 >= Attempts
       THEN /\ gpFutex' = -1
            /\ waiting' = [r \in Readers |-> IF r \in qs THEN waiting[r]
                                                          ELSE TRUE]
       ELSE UNCHANGED <<gpFutex, waiting>>
  /\ toScan' = Readers \ qs
  /\ wpc' = "scan"
  /\ UNCHANGED <<build, ctr, rpc, rval, rret, gpCtr, phase, qs, gps, gpSnap>>

(* Mutant: gp_futex is armed but no reader's waiting flag is set.         *)
LoopTopNoWaiting ==
  LET n == IF wloops < Attempts THEN wloops + 1 ELSE wloops IN
  /\ wpc = "loop"
  /\ wloops' = n
  /\ gpFutex' = IF n >= Attempts THEN -1 ELSE gpFutex
  /\ toScan' = Readers \ qs
  /\ wpc' = "scan"
  /\ UNCHANGED <<build, readerVars, gpCtr, phase, qs, gps, gpSnap>>

(* Top of the wait loop: count the attempt; once there are enough, set     *)
(* gp_futex to -1 and the waiting flag of every reader not yet quiescent.  *)
LoopTop ==
  LET n == IF wloops < Attempts THEN wloops + 1 ELSE wloops IN
  /\ wpc = "loop"
  /\ wloops' = n
  /\ IF n >= Attempts
       THEN /\ gpFutex' = -1
            /\ waiting' = [r \in Readers |-> IF r \in qs THEN waiting[r]
                                                          ELSE TRUE]
       ELSE UNCHANGED <<gpFutex, waiting>>
  /\ toScan' = Readers \ qs
  /\ wpc' = "scan"
  /\ UNCHANGED <<build, ctr, rpc, rval, rret, gpCtr, phase, qs, gps, gpSnap>>

(* Read one reader's ctr; move it to qsreaders unless rcu_gp_ongoing().    *)
ScanOne ==
  /\ wpc = "scan"
  /\ \E r \in toScan :
       /\ toScan' = toScan \ {r}
       /\ qs' = IF Ongoing(ctr[r]) THEN qs ELSE qs \cup {r}
  /\ UNCHANGED <<build, readerVars, gpCtr, wpc, wloops, phase, gps, gpFutex, gpSnap>>

(* Mutant: synchronize_rcu() returns after the first counter update even  *)
(* where the counter is only a parity bit.                                 *)
ScanEndOnePhase ==
  /\ wpc = "scan"
  /\ toScan = {}
  /\ IF qs = Readers
       THEN /\ gpFutex' = IF wloops >= Attempts THEN 0 ELSE gpFutex
            /\ wpc' = "idle"
            /\ gps' = gps + 1
       ELSE /\ wpc' = IF wloops >= Attempts THEN "wait_gp" ELSE "loop"
            /\ UNCHANGED <<gpFutex, gps>>
  /\ UNCHANGED <<build, readerVars, gpCtr, wloops, phase, qs, toScan, gpSnap>>

(* After the scan: every reader quiescent ends the phase (resetting        *)
(* gp_futex if it was armed); otherwise spin again or go to wait_gp().    *)
ScanEnd ==
  /\ wpc = "scan"
  /\ toScan = {}
  /\ IF qs = Readers
       THEN /\ gpFutex' = IF wloops >= Attempts THEN 0 ELSE gpFutex
            /\ IF phase < Phases
                 THEN /\ phase' = phase + 1
                      /\ wpc' = "advance"
                      /\ UNCHANGED gps
                 ELSE /\ wpc' = "idle"
                      /\ gps' = gps + 1
                      /\ UNCHANGED phase
       ELSE /\ wpc' = IF wloops >= Attempts THEN "wait_gp" ELSE "loop"
            /\ UNCHANGED <<gpFutex, phase, gps>>
  /\ UNCHANGED <<build, readerVars, gpCtr, wloops, qs, toScan, gpSnap>>

(* Mutant: FUTEX_WAIT without the kernel's check that gp_futex is still  *)
(* -1.                                                                     *)
WaitGpAlwaysSleeps ==
  /\ wpc = "wait_gp"
  /\ wpc' = "blocked"
  /\ UNCHANGED <<build, readerVars, gpCtr, wloops, phase, qs, toScan, gps, gpFutex,
                 gpSnap>>

(* wait_gp(): FUTEX_WAIT while gp_futex is -1.                             *)
WaitGp ==
  /\ wpc = "wait_gp"
  /\ wpc' = IF gpFutex = -1 THEN "blocked" ELSE "loop"
  /\ UNCHANGED <<build, readerVars, gpCtr, wloops, phase, qs, toScan, gps, gpFutex,
                 gpSnap>>

-----------------------------------------------------------------------------
ReaderStep(r) ==
  \/ OnStore(r) \/ ReadUnlock(r) \/ QsStore(r)
  \/ WakeCheck(r) \/ WakeFutex(r) \/ WakeSet(r) \/ WakeCall(r)

(* A QSBR reader announces a quiescent state or goes offline from time to  *)
(* time: that is the contract the flavour puts on its readers.             *)
Announce(r) == QsLoad(r) \/ OffStore(r)

WriterStep == SyncStart \/ Advance \/ LoopTop \/ ScanOne \/ ScanEnd \/ WaitGp

Next ==
  \/ WriterStep
  \/ \E r \in Readers :
       ReaderStep(r) \/ Announce(r) \/ OnLoad(r) \/ ReadLock(r)

Fairness ==
  /\ WF_vars(Advance \/ LoopTop \/ ScanOne \/ ScanEnd \/ WaitGp)
  /\ \A r \in Readers : WF_vars(ReaderStep(r)) /\ SF_vars(Announce(r))

Spec == Init /\ [][Next]_vars /\ Fairness

-----------------------------------------------------------------------------
(* Properties.                                                             *)

ReaderPcs == {"offline", "on_store", "idle", "cs", "qs_store", "wake_check",
              "wake_futex", "wake_set", "wake_call"}
WriterPcs == {"idle", "advance", "loop", "scan", "wait_gp", "blocked"}

TypeOK ==
  /\ build \in Builds
  /\ gpCtr \in 0..(CtrMod - 1)
  /\ ctr \in [Readers -> 0..(CtrMod - 1)]
  /\ rval \in [Readers -> 0..(CtrMod - 1)]
  /\ waiting \in [Readers -> BOOLEAN]
  /\ gpFutex \in {-1, 0}
  /\ rpc \in [Readers -> ReaderPcs]
  /\ rret \in [Readers -> {"idle", "offline"}]
  /\ wpc \in WriterPcs
  /\ wloops \in 0..Attempts
  /\ phase \in 1..Phases
  /\ qs \subseteq Readers /\ toScan \subseteq Readers
  /\ gps \in 0..MaxGp
  /\ gpSnap \subseteq Readers

(* No lost wake-up: while the writer sleeps in FUTEX_WAIT on gp_futex,     *)
(* some reader still has its waiting flag set or is inside wake_up_gp()   *)
(* past clearing it, so a later quiescent state or going offline will     *)
(* FUTEX_WAKE it.                                                          *)
WakeupPending ==
  wpc = "blocked" =>
    \E r \in Readers :
      waiting[r] \/ rpc[r] \in {"wake_futex", "wake_set", "wake_call"}

(* synchronize_rcu() keeps the promise of RcuGp: it returns only after     *)
(* every reader that was inside a read-side critical section when it       *)
(* began has left it (the QSBR counters are a correct grace period).       *)
Abs == INSTANCE RcuGp WITH inCS    <- {r \in Readers : rpc[r] = "cs"},
                           waitFor <- gpSnap,
                           busy    <- wpc # "idle"

RefinesRcuGp == Abs!Spec

(* Every synchronize_rcu() returns, provided each reader keeps announcing  *)
(* quiescent states or going offline: the futex sleep never outlives the  *)
(* last reader it waits for.                                               *)
SyncReturns == (wpc # "idle") ~> (wpc = "idle")
=============================================================================
